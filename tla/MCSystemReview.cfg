\* Can every operation that stays unknown be settled at the host?
SPECIFICATION SysSpec
CONSTANTS
    Project = {p1}
    Thread = {}
    NoProject = NoProject
    Policies = {"auto"}
    MaxRevision = 1
    MaxPlans = 1
INVARIANT UnknownIsReviewable
