------------------------------- MODULE MCHost -------------------------------
(* HostRegistry with small sets for TLC. *)
EXTENDS HostProperties, TLC

\* Projects are interchangeable.
HSymmetry == Permutations(Project)

=============================================================================
