-------------------------- MODULE MCScavengeTasks --------------------------
(* Instances of ScavengeTasks for model checking. *)
EXTENDS ScavengeTasks, TLC

CONSTANTS w1, w2, w3

Two == {w1, w2}
Three == {w1, w2, w3}


(* The workers are alike. *)
Alike == Permutations(Workers)
=============================================================================
