-------------------------- MODULE BackupProperties --------------------------
(* What must hold of the snapshots of the controller. *)
EXTENDS Backup

AtLeast(a, b) == \A d \in Database : a.copy[d] >= b.copy[d]
Covers(table, content) == \E s \in Slot : table[s].state = "whole" /\ AtLeast(table[s], content)

\* A snapshot, however often it fails, is killed or loses power, never costs
\* the backup there is: a whole copy that programs see and that is safe on disk
\* stays both, or a whole one at least as new takes its place
\* (tests/test_backup.py, the injected rotation failure, tries one such point).
BackupNeverLost ==
    [][\A s, r \in Slot :
           /\ disk[s].state = "whole" /\ dir[r] = disk[s]
           /\ damaged' = damaged
           => Covers(dir', disk[s]) /\ Covers(disk', disk[s])]_bvars

\* A snapshot that reports success has kept, beyond a loss of power, the
\* databases of one moment: the present one, since the service cannot run
\* beside it (README.md: no consistent backup of a running SQLite).
VerifiedIsCurrent ==
    At("done") /\ damaged = 0 =>
        disk["current"] = [state |-> "whole", copy |-> version] /\ ~service

=============================================================================
