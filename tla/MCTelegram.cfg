\* Two users write to two bots while the settings change, requests fail and
\* the process restarts.
SPECIFICATION TSpec
CONSTANTS
    User = {a, b}
    NoUser = none
    Bot = {x, y}
    NoBot = nobot
    MaxRevision = 2
    MaxUpdates = 3
    MaxKeyboards = 2
    MaxCrashes = 1
SYMMETRY Symmetry
INVARIANTS ActsForAdmin
PROPERTIES ActsOnce HandledOnce CodeCurrent
CHECK_DEADLOCK FALSE
