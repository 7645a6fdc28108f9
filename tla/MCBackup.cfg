\* Two databases, a service that starts and stops, failing snapshots, losses of
\* power and decaying slots.
SPECIFICATION BSpec
CONSTANTS
    Database = {d1, d2}
    MaxVersion = 3
    MaxDamage = 2
SYMMETRY BSymmetry
INVARIANTS
    VerifiedIsCurrent
PROPERTIES
    BackupNeverLost
