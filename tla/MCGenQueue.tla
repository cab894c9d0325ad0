----------------------------- MODULE MCGenQueue -----------------------------
(* Small instances of GenQueue for TLC. *)
EXTENDS GenQueue, TLC

(* No action and no invariant tells one worker or one struct from another. *)
Symmetry == Permutations(Workers) \cup Permutations(Structs)

=============================================================================
