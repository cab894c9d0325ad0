----------------------------- MODULE Containers -----------------------------
(***************************************************************************)
(* Container structs and the queues of one bda space, as a value.          *)
(*                                                                         *)
(* The operators are the operations of gen_queue.hpp and CGRPSpace that    *)
(* run without a competitor (at a full collection, or one push_container   *)
(* at a time): each maps the C heap "h" before the call to the one after.  *)
(* A call that follows a null pointer sets h.crash and changes nothing.    *)
(***************************************************************************)
EXTENDS Naturals, Integers, FiniteSets

CONSTANTS
  Structs,        \* container structs the C heap can supply
  NULL

ASSUME ContainersAssumption == NULL \notin Structs /\ IsFiniteSet(Structs)

StructOrNull == Structs \cup {NULL}

(* struct container; "masked" is CONTAINER_IN_POOL_MASK in _end, "other"   *)
(* is _space_id = 0 (a segment that went to the general space).            *)
Container ==
  [start : Nat, top : Nat, end : Nat, hard_end : Nat, saved_top : Nat,
   next_segment : StructOrNull, prev_segment : StructOrNull,
   next : StructOrNull, previous : StructOrNull, masked : BOOLEAN, other : BOOLEAN]

(* memset(c, 0, sizeof(struct container)) *)
Zeroed ==
  [start |-> 0, top |-> 0, end |-> 0, hard_end |-> 0, saved_top |-> 0,
   next_segment |-> NULL, prev_segment |-> NULL,
   next |-> NULL, previous |-> NULL, masked |-> FALSE, other |-> FALSE]

Queue == [insert_end : StructOrNull, remove_end : StructOrNull, n_elements : Int]
EmptyQueue == [insert_end |-> NULL, remove_end |-> NULL, n_elements |-> 0]

Heap ==
  [c : [Structs -> Container], containers : Queue, pool : Queue,
   malloced : SUBSET Structs, crash : BOOLEAN]

(* CGRPSpace::CGRPSpace: both queues empty, no struct allocated *)
EmptyHeap ==
  [c |-> [s \in Structs |-> Zeroed], containers |-> EmptyQueue, pool |-> EmptyQueue,
   malloced |-> {}, crash |-> FALSE]

Crash(h) == [h EXCEPT !.crash = TRUE]

-----------------------------------------------------------------------------
(* GenQueue                                                                *)

enqueue(h, q, el) ==
  LET last   == h[q].insert_end
      linked == [h EXCEPT ![q].insert_end = el, ![q].n_elements = @ + 1, !.c[el].previous = last]
      whole  == IF last = NULL THEN linked ELSE [linked EXCEPT !.c[last].next = el]
  IN  IF whole.c[el].previous = NULL /\ h[q].remove_end = NULL
        THEN [whole EXCEPT ![q].remove_end = el]
        ELSE whole

dequeue(h, q) ==
  LET el    == h[q].remove_end
      succ  == h.c[el].next
      moved == [h EXCEPT ![q].remove_end = succ, ![q].n_elements = @ - 1]
      apart == IF succ = NULL THEN [moved EXCEPT ![q].insert_end = NULL]
                              ELSE [moved EXCEPT !.c[succ].previous = NULL]
  IN  [apart EXCEPT !.c[el].next = NULL]

(* Fault: the last element leaves and its predecessor still points to it. *)
unlink_KeepsNext(h, q, el) ==
  IF h[q].remove_end = el THEN dequeue(h, q)
  ELSE [h EXCEPT ![q].insert_end = h.c[el].previous]

(* remove_element, first part: unlink el from the queue.  dequeue lowers   *)
(* n_elements, and so does the last line of remove_element.                *)
unlink(h, q, el) ==
  LET prev == h.c[el].previous
      succ == h.c[el].next
  IN  IF h[q].remove_end = el THEN dequeue(h, q)
      ELSE IF prev = NULL THEN Crash(h)
      ELSE IF h[q].insert_end = el
        THEN [h EXCEPT ![q].insert_end = prev, !.c[prev].next = NULL]
      ELSE IF succ = NULL THEN Crash(h)
      ELSE [h EXCEPT !.c[prev].next = succ, !.c[succ].previous = prev]

(* remove_element, second part: take el out of its chain of segments. *)
leave_chain(h, el) ==
  LET prev == h.c[el].prev_segment
      succ == h.c[el].next_segment
  IN  IF prev = NULL
        THEN IF succ = NULL THEN h ELSE [h EXCEPT !.c[succ].prev_segment = NULL]
        ELSE LET short == [h EXCEPT !.c[prev].next_segment = succ]
             IN  IF succ = NULL THEN short ELSE [short EXCEPT !.c[succ].prev_segment = prev]

remove_element(h, q, el) ==
  LET apart == unlink(h, q, el)
  IN  IF apart.crash THEN apart
      ELSE [leave_chain(apart, el) EXCEPT ![q].n_elements = @ - 1]

phantom_remove(h, q) == [h EXCEPT ![q].n_elements = @ - 1]

-----------------------------------------------------------------------------
(* CGRPSpace                                                               *)

(* A struct is empty when _start == _top; it is in the pool when masked. *)
not_in_pool(h, el) == ~ h.c[el].masked

(* free_container: the struct may already be linked in the pool. *)
free_container(h, el) ==
  IF el = NULL THEN Crash(h) ELSE enqueue([h EXCEPT !.c[el] = Zeroed], "pool", el)

(* add_to_pool: take the empty container out of the queue, reset it, mark  *)
(* it, and keep it in the pool.                                            *)
add_to_pool(h, el) ==
  IF not_in_pool(h, el)
    THEN LET apart == remove_element(h, "containers", el)
         IN  IF apart.crash THEN apart
             ELSE enqueue([apart EXCEPT !.c[el] = [Zeroed EXCEPT !.masked = TRUE]], "pool", el)
    ELSE h

(* The structs met from s along a field: "next" for a GenQueueIterator,    *)
(* "previous" for get_previous_n_segment, "next_segment" along a chain.    *)
Along(h, field, s) ==
  LET at[i \in 0..Cardinality(Structs)] ==
        IF i = 0 THEN s ELSE LET p == at[i - 1] IN IF p = NULL THEN NULL ELSE h.c[p][field]
  IN  {at[i] : i \in 0..Cardinality(Structs)} \ {NULL}

Iterated(h, q) == Along(h, "next", h[q].remove_end)

(* Fault: the new segment is not linked back. *)
append_segment_OneWay(h, el, segment) ==
  LET last == CHOOSE s \in Along(h, "next_segment", el) : h.c[s].next_segment = NULL
  IN  [h EXCEPT !.c[last].next_segment = segment]

(* allocate_new_segment: link the segment at the end of the chain of el.   *)
(* On a chain that leads back into itself the search for its end spins,    *)
(* which is no better than a crash.                                        *)
append_segment(h, el, segment) ==
  LET ends == {s \in Along(h, "next_segment", el) : h.c[s].next_segment = NULL}
      last == CHOOSE s \in ends : TRUE
  IN  IF ends = {} THEN Crash(h)
      ELSE [h EXCEPT !.c[last].next_segment = segment, !.c[segment].prev_segment = last]

(* save_top_ptrs: remember the top of every container the iterator meets. *)
save_top_ptrs(h) ==
  [h EXCEPT !.c = [s \in Structs |-> IF s \in Iterated(h, "containers")
                                       THEN [h.c[s] EXCEPT !.saved_top = h.c[s].top]
                                       ELSE h.c[s]]]

=============================================================================
