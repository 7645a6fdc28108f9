\* The outbox of one project beside a controller that writes, crashes, reconciles and
\* removes and enrolls the project at every step of a tick.
SPECIFICATION NFairSpec
CONSTANTS
    Project = {p1}
    NoProject = none
    ReportBatch = 1
    RowBatch = 2
    MaxOps = 2
    MaxRounds = 1
    MaxRows = 3
    MaxDays = 1
    MaxRestarts = 1
    MaxTrouble = 1
INVARIANTS NTypeOK SummaryFirst FailureTold ToldInOrder
PROPERTIES AllTold
CHECK_DEADLOCK FALSE
