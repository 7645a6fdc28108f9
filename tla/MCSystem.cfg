\* A scheduled controller and its host, with lost, late and declined requests.
SPECIFICATION SysSpec
CONSTANTS
    Project = {p1, p2}
    Thread = {}
    NoProject = NoProject
    Policies = {"auto"}
    MaxRevision = 1
    MaxPlans = 2
SYMMETRY SysSymmetry
INVARIANTS
    SucceededIsReal
PROPERTIES
    FailedIsUntouched
    NoLateMutation
    NoOverlap
