------------------------------- MODULE MCCore -------------------------------
(* Core with small sets for TLC. *)
EXTENDS CoreProperties, TLC

\* Projects and threads are interchangeable in every safety property.
Symmetry == Permutations(Project) \cup Permutations(Thread)

=============================================================================
