----------------------------- MODULE MCNotices -----------------------------
(* Instances of Notices for TLC. *)
EXTENDS NoticesProperties, TLC

Symmetry == Permutations(Project)

=============================================================================
