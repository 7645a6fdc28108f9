------------------------------- MODULE MCSystem -------------------------------
(* System with small sets for TLC. *)
EXTENDS SystemProperties, TLC

\* Projects are interchangeable.
SysSymmetry == Permutations(Project)

=============================================================================
