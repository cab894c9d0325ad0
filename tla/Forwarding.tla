----------------------------- MODULE Forwarding -----------------------------
(***************************************************************************)
(* What a young collection promises about objects and references, without *)
(* workers, stacks, buffers or memory: a young object that is reached gets *)
(* one new place and keeps it, and a reference that is updated is given    *)
(* the place of the object it refers to.                                   *)
(***************************************************************************)
CONSTANTS
  Objects,    \* objects of the young generation
  Slots,      \* memory cells that hold a reference to one of them
  Target,     \* the object a slot refers to when the collection begins
  Contents,   \* the slots of an object
  RootSlots,  \* the slots outside the young generation
  Places,     \* where objects can be put
  NULL

VARIABLES
  forwardee,  \* place of an object, NULL as long as it was not reached
  slot        \* place a slot was updated with, NULL before that

vars == <<forwardee, slot>>

Init ==
  /\ forwardee = [o \in Objects |-> NULL]
  /\ slot = [s \in Slots |-> NULL]

Forwarded == {o \in Objects : forwardee[o] # NULL}

(* A slot counts from the moment the object that holds it has its place. *)
Reached == RootSlots \cup UNION {Contents[o] : o \in Forwarded}

(* Only what is reached is kept. *)
Forward ==
  /\ UNCHANGED slot
  /\ \E o \in {Target[s] : s \in Reached} \ Forwarded :
       \E a \in Places : forwardee' = [forwardee EXCEPT ![o] = a]

Update ==
  /\ UNCHANGED forwardee
  /\ slot' \in [Slots -> Places \cup {NULL}]
  /\ \A s \in Slots : slot'[s] # slot[s] =>
       s \in Reached /\ Target[s] \in Forwarded /\ slot'[s] = forwardee[Target[s]]

Next == Forward \/ Update

Spec == Init /\ [][Next]_vars
=============================================================================
