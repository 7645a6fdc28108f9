\* Two projects under an automatic schedule: rounds, retries, failed checks,
\* nested reconciliations and crashes, with every interleaved schedule change.
SPECIFICATION Spec
CONSTANTS
    Project = {p1, p2}
    Thread = {}
    NoProject = NoProject
    Policies = {"auto"}
    MaxRevision = 2
    MaxPlans = 3
SYMMETRY Symmetry
INVARIANTS
    TypeOK
    ReportHonest
    OpenReportOwned
PROPERTIES
    SpentStaysSpent
    ScheduleObeyed
    LedgerSpec
