---------------------------- MODULE MCPromotion ----------------------------
(* A small graph: two bda objects, one of them an array, share an element; *)
(* a box is reached from an old container and refers to that element and   *)
(* to a leaf.                                                              *)
EXTENDS Promotion, TLC

CONSTANTS w1, w2, arr, bda, elem, box, leaf

Two == {w1, w2}
Graph == {arr, bda, elem, box, leaf}
GraphFields == [o \in Graph |->
  CASE o = arr -> <<"arr0", "arr1">> [] o = bda -> <<"bda0">>
    [] o = elem -> <<"elem0">> [] o = box -> <<"box0", "box1">> [] o = leaf -> <<>>]
GraphTarget ==
  [s \in {"ref0", "root0"} |-> arr] @@ [s \in {"ref1", "arr1"} |-> bda]
    @@ [s \in {"arr0", "bda0", "box0"} |-> elem]
    @@ [s \in {"old0"} |-> box]
    @@ [s \in {"elem0", "box1"} |-> leaf]
GraphSlots == DOMAIN GraphTarget
Refs == {"ref0", "ref1"}
Olds == {"old0"}
Roots == {"root0"}
GraphSize == [o \in Graph |-> IF o \in {arr, elem} THEN 2 ELSE 1]
Arrays == {arr}
FourSegments == 1..4
=============================================================================
