----------------------------- MODULE MCRefQueue -----------------------------
(* Model of RefQueue for TLC: two racing mutators, two racing workers. *)
EXTENDS RefQueue, TLC

Symmetry == Permutations(Refs) \cup Permutations(JavaThreads) \cup Permutations(Workers)

=============================================================================
