---------------------------- MODULE MCManagement ----------------------------
(* Management with small sets for TLC. *)
EXTENDS ManagementProperties, TLC

\* Projects are interchangeable.
MSymmetry == Permutations(Project)

=============================================================================
