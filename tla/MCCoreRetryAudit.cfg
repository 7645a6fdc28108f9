\* Is every spent retry announced?
SPECIFICATION Spec
CONSTANTS
    Project = {p1}
    Thread = {}
    NoProject = NoProject
    Policies = {"auto"}
    MaxRevision = 2
    MaxPlans = 2
INVARIANT SpentRetryAnnounced
