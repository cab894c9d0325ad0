------------------------------ MODULE GenQueue ------------------------------
(***************************************************************************)
(* The two GenQueues of the general space (bda/gen_queue.hpp): _pool, the  *)
(* container structs ready for reuse, and _containers, the ones in use.    *)
(*                                                                         *)
(* During a young collection the GC workers run push_container, which      *)
(* takes a struct from _pool (or the C heap), resets it and enqueues it in *)
(* _containers.  A full collection empties _containers into _pool.  Both   *)
(* queues link structs through the same two fields, _next and _previous.   *)
(*                                                                         *)
(* Grain: one load, one store or one compare-and-swap of a shared word per *)
(* step of a worker; the full collection is the only thread at its time.   *)
(***************************************************************************)
EXTENDS Naturals, Integers, Sequences, FiniteSets

CONSTANTS
  Workers,        \* GC worker threads
  Structs,        \* every container struct the C heap can supply
  MaxClears,      \* bound: full collections in a behaviour
  NULL

ASSUME GenQueueAssumption ==
  /\ NULL \notin Structs /\ MaxClears \in Nat
  /\ IsFiniteSet(Workers) /\ IsFiniteSet(Structs)

Queues == {"pool", "containers"}

VARIABLES
  insert_end,     \* GenQueue::_insert_end of both queues
  remove_end,     \* GenQueue::_remove_end of both queues
  n_elements,     \* GenQueue::_n_elements of both queues
  next,           \* container::_next
  previous,       \* container::_previous
  el,             \* push_container: the local "container"
  temp,           \* enqueue and dequeue: the local "temp"
  succ,           \* dequeue: the local "next"
  pc,             \* where each worker stands
  malloced,       \* structs obtained from the C heap so far
  linked,         \* history: _containers in the order of the successful CAS
  cursor,         \* clear_delete_containers: the local "c"
  left,           \* clear_delete_containers: iterations to go, -1 when not running
  clears          \* full collections so far

vars == <<insert_end, remove_end, n_elements, next, previous, el, temp, succ, pc,
          malloced, linked, cursor, left, clears>>

ends   == <<insert_end, remove_end, n_elements>>
fields == <<next, previous>>
locals == <<el, temp, succ>>
clear  == <<cursor, left, clears>>

StructOrNull == Structs \cup {NULL}

(* Where a worker stands: the step of dequeue, push_container or enqueue   *)
(* that it takes next.                                                     *)
Dequeuing == {"read_remove", "read_next", "cas_remove", "clear_previous", "test_empty",
              "clear_next", "dec"}
Enqueuing == {"read_insert", "cas_insert", "set_previous", "link", "test_remove",
              "set_remove", "inc"}
PCs == {"idle", "malloc", "setup"} \cup Dequeuing \cup Enqueuing

TypeOK ==
  /\ insert_end \in [Queues -> StructOrNull]
  /\ remove_end \in [Queues -> StructOrNull]
  /\ n_elements \in [Queues -> Int]
  /\ next \in [Structs -> StructOrNull]
  /\ previous \in [Structs -> StructOrNull]
  /\ el \in [Workers -> StructOrNull]
  /\ temp \in [Workers -> StructOrNull]
  /\ succ \in [Workers -> StructOrNull]
  /\ pc \in [Workers -> PCs]
  /\ malloced \subseteq Structs
  /\ linked \in Seq(Structs)
  /\ cursor \in StructOrNull
  /\ left \in Int
  /\ clears \in 0..MaxClears

(* GenQueue::create, for both queues of the space *)
Init ==
  /\ insert_end = [q \in Queues |-> NULL]
  /\ remove_end = [q \in Queues |-> NULL]
  /\ n_elements = [q \in Queues |-> 0]
  /\ next = [s \in Structs |-> NULL]
  /\ previous = [s \in Structs |-> NULL]
  /\ el = [w \in Workers |-> NULL]
  /\ temp = [w \in Workers |-> NULL]
  /\ succ = [w \in Workers |-> NULL]
  /\ pc = [w \in Workers |-> "idle"]
  /\ malloced = {}
  /\ linked = <<>>
  /\ cursor = NULL
  /\ left = -1
  /\ clears = 0

Goto(w, from, to) == pc[w] = from /\ pc' = [pc EXCEPT ![w] = to]

-----------------------------------------------------------------------------
(* push_container of the general space: _pool->dequeue()                   *)

(* A worker needs a container or a segment, and no full collection runs.   *)
(* Bound: at most Structs containers are in use or on their way.           *)
PushContainer(w) ==
  /\ Goto(w, "idle", "read_remove")
  /\ left = -1
  /\ Cardinality({v \in Workers : pc[v] # "idle"}) + Len(linked) < Cardinality(Structs)
  /\ UNCHANGED <<ends, fields, locals, malloced, linked, clear>>

(* temp = remove_end(); an empty pool sends the worker to the C heap. *)
ReadRemoveEnd(w) ==
  /\ Goto(w, "read_remove", IF remove_end["pool"] = NULL THEN "malloc" ELSE "read_next")
  /\ temp' = [temp EXCEPT ![w] = remove_end["pool"]]
  /\ UNCHANGED <<ends, fields, el, succ, malloced, linked, clear>>

(* next = temp->_next; temp may have been taken by another worker since *)
ReadNext(w) ==
  /\ Goto(w, "read_next", "cas_remove")
  /\ succ' = [succ EXCEPT ![w] = next[temp[w]]]
  /\ UNCHANGED <<ends, fields, el, temp, malloced, linked, clear>>

(* Deliberate faults, one per property the runs check, stand before the    *)
(* definition they change.                                                 *)
CasRemoveEnd_PlainStore(w) ==
  /\ Goto(w, "cas_remove", "clear_previous")
  /\ remove_end' = [remove_end EXCEPT !["pool"] = succ[w]]
  /\ UNCHANGED <<insert_end, n_elements, fields, locals, malloced, linked, clear>>

CasRemoveEnd_RetryWithoutReload(w) ==
  /\ \/ /\ remove_end["pool"] = temp[w]
        /\ remove_end' = [remove_end EXCEPT !["pool"] = succ[w]]
        /\ Goto(w, "cas_remove", "clear_previous")
     \/ /\ remove_end["pool"] # temp[w]
        /\ Goto(w, "cas_remove", "read_next")
        /\ UNCHANGED remove_end
  /\ UNCHANGED <<insert_end, n_elements, fields, locals, malloced, linked, clear>>

(* cmpxchg_ptr(next, &_remove_end, temp), and the retry when it fails *)
CasRemoveEnd(w) ==
  /\ \/ /\ remove_end["pool"] = temp[w]
        /\ remove_end' = [remove_end EXCEPT !["pool"] = succ[w]]
        /\ Goto(w, "cas_remove", "clear_previous")
     \/ /\ remove_end["pool"] # temp[w]
        /\ Goto(w, "cas_remove", "read_remove")
        /\ UNCHANGED remove_end
  /\ UNCHANGED <<insert_end, n_elements, fields, locals, malloced, linked, clear>>

(* if(next != NULL) next->_previous = NULL: the next struct may already be *)
(* the property of another worker, or linked in _containers.               *)
ClearPrevious(w) ==
  /\ Goto(w, "clear_previous", "test_empty")
  /\ previous' = IF succ[w] # NULL THEN [previous EXCEPT ![succ[w]] = NULL] ELSE previous
  /\ UNCHANGED <<ends, next, locals, malloced, linked, clear>>

TestEmpty_KeepsInsertEnd(w) ==
  /\ Goto(w, "test_empty", "clear_next")
  /\ UNCHANGED <<ends, fields, locals, malloced, linked, clear>>

(* if(remove_end() == NULL) set_insert_end(NULL): one step, for nothing    *)
(* enqueues in the pool of the general space during a young collection.    *)
TestEmpty(w) ==
  /\ Goto(w, "test_empty", "clear_next")
  /\ insert_end' = IF remove_end["pool"] = NULL THEN [insert_end EXCEPT !["pool"] = NULL]
                                                ELSE insert_end
  /\ UNCHANGED <<remove_end, n_elements, fields, locals, malloced, linked, clear>>

(* temp->_next = NULL *)
ClearNext(w) ==
  /\ Goto(w, "clear_next", "dec")
  /\ next' = [next EXCEPT ![temp[w]] = NULL]
  /\ UNCHANGED <<ends, previous, locals, malloced, linked, clear>>

(* Atomic::dec(&_n_elements); return temp *)
Dec(w) ==
  /\ Goto(w, "dec", "setup")
  /\ n_elements' = [n_elements EXCEPT !["pool"] = @ - 1]
  /\ el' = [el EXCEPT ![w] = temp[w]]
  /\ UNCHANGED <<insert_end, remove_end, fields, temp, succ, malloced, linked, clear>>

(* allocate_container: a new struct from the C heap *)
Malloc(w) ==
  /\ Goto(w, "malloc", "setup")
  /\ \E s \in Structs \ malloced :
       /\ el' = [el EXCEPT ![w] = s]
       /\ malloced' = malloced \cup {s}
  /\ UNCHANGED <<ends, fields, temp, succ, linked, clear>>

(* setup_container: the limits and the links of the struct are reset. *)
SetupContainer(w) ==
  /\ Goto(w, "setup", "read_insert")
  /\ next' = [next EXCEPT ![el[w]] = NULL]
  /\ previous' = [previous EXCEPT ![el[w]] = NULL]
  /\ UNCHANGED <<ends, locals, malloced, linked, clear>>

-----------------------------------------------------------------------------
(* _containers->enqueue(container)                                         *)

ReadInsertEnd(w) ==
  /\ Goto(w, "read_insert", "cas_insert")
  /\ temp' = [temp EXCEPT ![w] = insert_end["containers"]]
  /\ UNCHANGED <<ends, fields, el, succ, malloced, linked, clear>>

(* cmpxchg_ptr(el, &_insert_end, temp), and the retry when it fails *)
CasInsertEnd(w) ==
  /\ \/ /\ insert_end["containers"] = temp[w]
        /\ insert_end' = [insert_end EXCEPT !["containers"] = el[w]]
        /\ linked' = Append(linked, el[w])
        /\ Goto(w, "cas_insert", "set_previous")
     \/ /\ insert_end["containers"] # temp[w]
        /\ Goto(w, "cas_insert", "read_insert")
        /\ UNCHANGED <<insert_end, linked>>
  /\ UNCHANGED <<remove_end, n_elements, fields, locals, malloced, clear>>

(* el->_previous = temp *)
SetPrevious(w) ==
  /\ Goto(w, "set_previous", "link")
  /\ previous' = [previous EXCEPT ![el[w]] = temp[w]]
  /\ UNCHANGED <<ends, next, locals, malloced, linked, clear>>

(* if (temp != NULL) temp->_next = el *)
LinkNext(w) ==
  /\ Goto(w, "link", "test_remove")
  /\ next' = IF temp[w] # NULL THEN [next EXCEPT ![temp[w]] = el[w]] ELSE next
  /\ UNCHANGED <<ends, previous, locals, malloced, linked, clear>>

TestRemoveEnd_IgnoresPrevious(w) ==
  /\ Goto(w, "test_remove", IF remove_end["containers"] = NULL THEN "set_remove" ELSE "inc")
  /\ UNCHANGED <<ends, fields, locals, malloced, linked, clear>>

(* if (el->_previous == NULL && remove_end() == NULL): the compiler may    *)
(* load el->_previous again or use the value just stored.                  *)
TestRemoveEnd(w) ==
  /\ pc[w] = "test_remove"
  /\ \E p \in {previous[el[w]], temp[w]} :
       Goto(w, "test_remove",
            IF p = NULL /\ remove_end["containers"] = NULL THEN "set_remove" ELSE "inc")
  /\ UNCHANGED <<ends, fields, locals, malloced, linked, clear>>

(* set_remove_end(el) *)
SetRemoveEnd(w) ==
  /\ Goto(w, "set_remove", "inc")
  /\ remove_end' = [remove_end EXCEPT !["containers"] = el[w]]
  /\ UNCHANGED <<insert_end, n_elements, fields, locals, malloced, linked, clear>>

(* Atomic::inc(&_n_elements), and push_container returns *)
Inc(w) ==
  /\ Goto(w, "inc", "idle")
  /\ n_elements' = [n_elements EXCEPT !["containers"] = @ + 1]
  /\ el' = [el EXCEPT ![w] = NULL]
  /\ temp' = [temp EXCEPT ![w] = NULL]
  /\ succ' = [succ EXCEPT ![w] = NULL]
  /\ UNCHANGED <<insert_end, remove_end, fields, malloced, linked, clear>>

-----------------------------------------------------------------------------
(* A full collection: clear_delete_containers                              *)

Quiet == \A w \in Workers : pc[w] = "idle"

(* The workers are done; c = _containers->peek(), count = n_elements(). *)
BeginClear ==
  /\ Quiet
  /\ left = -1
  /\ clears < MaxClears
  /\ n_elements["containers"] > 0
  /\ cursor' = remove_end["containers"]
  /\ left' = n_elements["containers"]
  /\ clears' = clears + 1
  /\ UNCHANGED <<ends, fields, locals, pc, malloced, linked>>

(* One turn of the loop: n = c->_next, memset(c), _pool->enqueue_no_mt(c). *)
ClearOne ==
  /\ left > 0
  /\ cursor # NULL
  /\ LET old_end == insert_end["pool"]
         second  == [next EXCEPT ![cursor] = NULL]
     IN  /\ insert_end' = [insert_end EXCEPT !["pool"] = cursor]
         /\ previous' = [previous EXCEPT ![cursor] = old_end]
         /\ next' = IF old_end # NULL THEN [second EXCEPT ![old_end] = cursor] ELSE second
         /\ remove_end' = IF old_end = NULL /\ remove_end["pool"] = NULL
                            THEN [remove_end EXCEPT !["pool"] = cursor] ELSE remove_end
  /\ n_elements' = [n_elements EXCEPT !["pool"] = @ + 1]
  /\ cursor' = next[cursor]
  /\ left' = left - 1
  /\ UNCHANGED <<locals, pc, malloced, linked, clears>>

(* GenQueue::destroy(_containers) *)
EndClear ==
  /\ left = 0
  /\ insert_end' = [insert_end EXCEPT !["containers"] = NULL]
  /\ remove_end' = [remove_end EXCEPT !["containers"] = NULL]
  /\ n_elements' = [n_elements EXCEPT !["containers"] = 0]
  /\ linked' = <<>>
  /\ cursor' = NULL
  /\ left' = -1
  /\ UNCHANGED <<fields, locals, pc, malloced, clears>>

-----------------------------------------------------------------------------
Dequeue(w) ==
  \/ ReadRemoveEnd(w) \/ ReadNext(w) \/ CasRemoveEnd(w) \/ ClearPrevious(w)
  \/ TestEmpty(w) \/ ClearNext(w) \/ Dec(w)

Enqueue(w) ==
  \/ ReadInsertEnd(w) \/ CasInsertEnd(w) \/ SetPrevious(w) \/ LinkNext(w)
  \/ TestRemoveEnd(w) \/ SetRemoveEnd(w) \/ Inc(w)

Step(w) == Dequeue(w) \/ Malloc(w) \/ SetupContainer(w) \/ Enqueue(w)

FullCollection == BeginClear \/ ClearOne \/ EndClear

Next == FullCollection \/ \E w \in Workers : PushContainer(w) \/ Step(w)

Spec == Init /\ [][Next]_vars

(* A GC worker keeps running until its task is done, and the VM thread     *)
(* until the collection is over.                                           *)
FairSpec ==
  /\ Spec
  /\ \A w \in Workers : WF_vars(Step(w))
  /\ WF_vars(ClearOne \/ EndClear)

-----------------------------------------------------------------------------
(* Walking a queue.                                                        *)

(* The structs met from s along a link field, at most Cardinality(Structs) *)
(* of them, NULL repeated once the chain has ended.                        *)
Walk(link, s) ==
  LET at[i \in 1..Cardinality(Structs)] ==
        IF i = 1 THEN s ELSE IF at[i - 1] = NULL THEN NULL ELSE link[at[i - 1]]
  IN  at

(* A queue read along a field from one end is exactly the sequence q. *)
Reads(link, s, q) ==
  LET at == Walk(link, s)
  IN  \A i \in 1..Cardinality(Structs) : at[i] = IF i <= Len(q) THEN q[i] ELSE NULL

Linked == {linked[i] : i \in 1..Len(linked)}
InPool == LET at == Walk(next, remove_end["pool"])
          IN  {at[i] : i \in 1..Cardinality(Structs)} \ {NULL}

(* Structs a worker has taken from the pool or the C heap and not linked.  *)
Held(w) == CASE pc[w] \in {"clear_previous", "test_empty", "clear_next", "dec"} -> {temp[w]}
             [] pc[w] \in {"setup", "read_insert", "cas_insert"} -> {el[w]}
             [] OTHER -> {}

-----------------------------------------------------------------------------
(* Properties                                                              *)

(* A container struct has one owner: no two workers hold the same struct   *)
(* and none holds one that is already in use in _containers, however their *)
(* dequeues from _pool interleave.                                         *)
OneOwner ==
  /\ \A i, j \in 1..Len(linked) : i # j => linked[i] # linked[j]
  /\ \A w \in Workers : Held(w) \cap Linked = {}
  /\ \A v, w \in Workers : v # w => Held(v) \cap Held(w) = {}

(* When the workers are done, a GenQueueIterator over _containers (used by *)
(* save_top_ptrs, used_in_words, verify and the object iterators) meets    *)
(* every container once, in the order they were enqueued.                  *)
ForwardComplete == Quiet /\ left = -1 => Reads(next, remove_end["containers"], linked)

(* Between collections each struct is in use or in the pool, never both    *)
(* and never lost: the pool of the general space does not leak.  The       *)
(* counts of both queues, one of which container_count() reports, and the  *)
(* end where containers are added are right.                               *)
PoolComplete ==
  Quiet /\ left = -1 =>
    /\ InPool \cap Linked = {}
    /\ InPool \cup Linked = malloced
    /\ n_elements["pool"] = Cardinality(InPool)
    /\ n_elements["containers"] = Len(linked)
    /\ insert_end["containers"] = IF linked = <<>> THEN NULL ELSE linked[Len(linked)]

(* push_container returns: the retry loops of enqueue and dequeue end. *)
PushReturns == \A w \in Workers : (pc[w] # "idle") ~> (pc[w] = "idle")

(* push_container calls the enqueue "MT safe" as long as dequeues are not  *)
(* mixed with it on _containers.  Then get_previous_n_segment, walking     *)
(* back from the last container, meets every container.  After a full      *)
(* collection the code does not keep this: see the README, section 3.      *)
BackwardComplete ==
  Quiet /\ left = -1 =>
    Reads(previous, insert_end["containers"],
          [i \in 1..Len(linked) |-> linked[Len(linked) + 1 - i]])

(* Until a full collection has filled the pool, enqueues alone race: the   *)
(* list of containers is then whole in both directions, as push_container  *)
(* says of subsequent enqueues.                                            *)
FreshQueueWhole == clears = 0 => ForwardComplete /\ BackwardComplete

=============================================================================
