--------------------------- MODULE MCFillRegions ---------------------------
(* An instance of FillRegions for model checking. *)
EXTENDS FillRegions

CONSTANTS w1, w2

Two == {w1, w2}
=============================================================================
