\* Does "retry_failed" in a round's report mean that no retry is left?
SPECIFICATION Spec
CONSTANTS
    Project = {p1}
    Thread = {}
    NoProject = NoProject
    Policies = {"auto"}
    MaxRevision = 2
    MaxPlans = 2
INVARIANT RetryFailedIsFinal
