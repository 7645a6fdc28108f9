\* Is a change that is recorded as failed one that was not made?
SPECIFICATION MSpec
CONSTANTS
    Project = {p1}
    Thread = {}
    NoProject = NoProject
    Policies = {"auto"}
    MaxRevision = 0
    MaxPlans = 1
    MaxChanges = 1
    ListMayBeRefused = TRUE
INVARIANT FailedIsUnmade
