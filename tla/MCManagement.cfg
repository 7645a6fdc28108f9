\* Registration, removal and re-registration of two projects with their first
\* checks, manual checks and approvals, under every policy.
SPECIFICATION MSpec
CONSTANTS
    Project = {p1, p2}
    Thread = {t1}
    NoProject = NoProject
    Policies = {"auto", "manual", "notify"}
    MaxRevision = 0
    MaxPlans = 1
    MaxChanges = 2
    ListMayBeRefused = FALSE
SYMMETRY MSymmetry
INVARIANTS
    ReadyMeansResolved
    PlansAreCurrent
    TokenOnce
    OneChangeOpen
    CompletedIsReal
    CatalogIsRegistry
    ApprovalsServed
    QueuedServed
    CheckTellsOperation
PROPERTIES
    CheckOnlyAdvances
