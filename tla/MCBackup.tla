------------------------------ MODULE MCBackup ------------------------------
(* Backup with small sets for TLC. *)
EXTENDS BackupProperties, TLC

\* Databases are interchangeable.
BSymmetry == Permutations(Database)

=============================================================================
