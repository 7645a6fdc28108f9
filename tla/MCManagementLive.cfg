\* Progress of the lock holder, of a gate closed by a failed check and of the
\* first checks, for one project that is registered and removed beside its
\* schedule.
SPECIFICATION MFairSpec
CONSTANTS
    Project = {p1}
    Thread = {}
    NoProject = NoProject
    Policies = {"auto", "manual"}
    MaxRevision = 1
    MaxPlans = 1
    MaxChanges = 2
    ListMayBeRefused = FALSE
INVARIANTS
    TargetsServed
PROPERTIES
    ExecutionReleased
    PlanningGateLifted
    ChecksServed
