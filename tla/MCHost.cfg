\* Two projects, their registration, plans, updates, drift and dead workers.
SPECIFICATION Spec
CONSTANTS
    Project = {p1, p2}
    Policies = {"auto", "notify"}
    MaxTokens = 2
    MaxRevision = 1
    MaxDrift = 2
SYMMETRY HSymmetry
INVARIANTS
    HTypeOK
    OnRecordWhileWorking
    StaleUntouched
PROPERTIES
    UnclearFreezes
    HostLedgerSpec
