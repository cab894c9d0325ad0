------------------------------ MODULE RefQueue ------------------------------
(***************************************************************************)
(* The queue of bda references (bda/refqueue.hpp) and its life over young  *)
(* and full collections.                                                   *)
(*                                                                         *)
(* Java threads enqueue a Ref for every new instance of a bda class.  At a *)
(* young collection the GC workers run one BDARefRootsTask each and drain  *)
(* the queue; the VM thread clears it when the collection is over.  A full *)
(* collection moves objects and never looks at the queue.                  *)
(*                                                                         *)
(* Grain: one load, one store or one compare-and-swap of a shared word per *)
(* step.  A Ref is named by a constant and used once (the code never frees *)
(* or recycles a Ref).                                                     *)
(***************************************************************************)
EXTENDS Naturals, Sequences, FiniteSets

CONSTANTS
  JavaThreads,    \* mutators: callers of enqueue
  Workers,        \* GC worker threads: callers of dequeue
  Refs,           \* every Ref that is ever allocated
  NULL

ASSUME RefQueueAssumption ==
  /\ NULL \notin Refs /\ IsFiniteSet(Refs)
  /\ JavaThreads \cap Workers = {} /\ Workers # {}

VARIABLES
  insert_end,     \* RefQueue::_insert_end
  remove_end,     \* RefQueue::_remove_end
  next,           \* Ref::_next of every Ref
  ref,            \* enqueue: the local "ref" of each Java thread
  temp,           \* enqueue and dequeue: the local "temp"
  succ,           \* dequeue: the local "next"
  pc,             \* where each thread stands
  world,          \* "java" between collections, "scavenge" during one
  linked,         \* history: the Refs in the order of their successful CAS
  taken,          \* history: what every worker dequeued, in order
  stale           \* Refs whose object a full collection has moved since

vars == <<insert_end, remove_end, next, ref, temp, succ, pc, world,
          linked, taken, stale>>

queue  == <<insert_end, remove_end, next>>
locals == <<ref, temp, succ>>
Threads == JavaThreads \cup Workers
RefOrNull == Refs \cup {NULL}

(* The Refs some thread has allocated: linked ones and the ones in flight. *)
Elems(s) == {s[i] : i \in 1..Len(s)}
Allocated == Elems(linked) \cup {ref[j] : j \in JavaThreads}

JavaPCs   == {"idle", "read_insert", "cas_insert", "link", "test_remove", "set_remove"}
WorkerPCs == {"waiting", "read_remove", "read_next", "cas_remove", "test_empty",
              "clear_insert", "process", "done"}

TypeOK ==
  /\ insert_end \in RefOrNull
  /\ remove_end \in RefOrNull
  /\ next \in [Refs -> RefOrNull]
  /\ ref \in [JavaThreads -> RefOrNull]
  /\ temp \in [Threads -> RefOrNull]
  /\ succ \in [Workers -> RefOrNull]
  /\ pc \in [Threads -> JavaPCs \cup WorkerPCs]
  /\ \A j \in JavaThreads : pc[j] \in JavaPCs
  /\ \A w \in Workers : pc[w] \in WorkerPCs
  /\ world \in {"java", "scavenge"}
  /\ linked \in Seq(Refs)
  /\ taken \in [Workers -> Seq(Refs)]
  /\ stale \subseteq Refs

(* RefQueue::create *)
Init ==
  /\ insert_end = NULL
  /\ remove_end = NULL
  /\ next = [r \in Refs |-> NULL]
  /\ ref  = [j \in JavaThreads |-> NULL]
  /\ temp = [t \in Threads |-> NULL]
  /\ succ = [w \in Workers |-> NULL]
  /\ pc   = [t \in Threads |-> IF t \in JavaThreads THEN "idle" ELSE "waiting"]
  /\ world = "java"
  /\ linked = << >>
  /\ taken = [w \in Workers |-> << >>]
  /\ stale = {}

Goto(t, from, to) == pc[t] = from /\ pc' = [pc EXCEPT ![t] = to]

-----------------------------------------------------------------------------
(* RefQueue::enqueue, run by a Java thread.                                *)

(* common_mem_allocate_init or enqueue_asm calls enqueue: new Ref(obj, r). *)
NewRef(j) ==
  /\ world = "java"
  /\ Goto(j, "idle", "read_insert")
  /\ \E r \in Refs \ Allocated : ref' = [ref EXCEPT ![j] = r]
  /\ UNCHANGED <<queue, temp, succ, world, linked, taken, stale>>

(* temp = insert_end() *)
ReadInsertEnd(j) ==
  /\ Goto(j, "read_insert", "cas_insert")
  /\ temp' = [temp EXCEPT ![j] = insert_end]
  /\ UNCHANGED <<queue, ref, succ, world, linked, taken, stale>>

(* Deliberate faults, one per property the runs check, stand before the    *)
(* definition they replace: their names say what was changed.              *)
CasInsertEnd_PlainStore(j) ==
  /\ Goto(j, "cas_insert", "link")
  /\ insert_end' = ref[j]
  /\ linked' = Append(linked, ref[j])
  /\ UNCHANGED <<remove_end, next, locals, world, taken, stale>>

(* Atomic::cmpxchg_ptr(ref, &_insert_end, temp), retried when it fails. *)
CasInsertEnd(j) ==
  /\ \/ /\ insert_end = temp[j]
        /\ Goto(j, "cas_insert", "link")
        /\ insert_end' = ref[j]
        /\ linked' = Append(linked, ref[j])
     \/ /\ insert_end # temp[j]
        /\ Goto(j, "cas_insert", "read_insert")
        /\ UNCHANGED <<insert_end, linked>>
  /\ UNCHANGED <<remove_end, next, locals, world, taken, stale>>

(* if (temp != NULL) temp->set_next(ref) *)
LinkNext(j) ==
  /\ Goto(j, "link", "test_remove")
  /\ next' = IF temp[j] = NULL THEN next ELSE [next EXCEPT ![temp[j]] = ref[j]]
  /\ UNCHANGED <<insert_end, remove_end, locals, world, linked, taken, stale>>

(* if (remove_end() == NULL) ... : the load ... *)
TestRemoveEnd(j) ==
  /\ Goto(j, "test_remove", IF remove_end = NULL THEN "set_remove" ELSE "idle")
  /\ UNCHANGED <<queue, locals, world, linked, taken, stale>>

(* ... set_remove_end(ref): and the store, with nothing to tie them. *)
SetRemoveEnd(j) ==
  /\ Goto(j, "set_remove", "idle")
  /\ remove_end' = ref[j]
  /\ UNCHANGED <<insert_end, next, locals, world, linked, taken, stale>>

-----------------------------------------------------------------------------
(* Collections.  The VM thread starts one at a safepoint, which no Java    *)
(* thread reaches inside enqueue (external: safepoint synchronization).    *)

AtSafepoint == world = "java" /\ \A j \in JavaThreads : pc[j] = "idle"

is_empty == insert_end = NULL /\ remove_end = NULL

(* PSScavenge::invoke_no_policy: one BDARefRootsTask per worker unless the *)
(* queue is empty.                                                         *)
BeginScavenge ==
  /\ AtSafepoint
  /\ world' = "scavenge"
  /\ pc' = [t \in Threads |->
              IF t \in JavaThreads THEN pc[t]
              ELSE IF is_empty THEN "done" ELSE "read_remove"]
  /\ UNCHANGED <<queue, locals, linked, taken, stale>>

(* RefQueue::dequeue, run by a worker.  temp = remove_end(); a NULL ends   *)
(* the loop of BDARefRootsTask::do_it.                                     *)
ReadRemoveEnd(w) ==
  /\ Goto(w, "read_remove", IF remove_end = NULL THEN "done" ELSE "read_next")
  /\ temp' = [temp EXCEPT ![w] = remove_end]
  /\ UNCHANGED <<queue, ref, succ, world, linked, taken, stale>>

(* next = temp->next() *)
ReadNext(w) ==
  /\ Goto(w, "read_next", "cas_remove")
  /\ succ' = [succ EXCEPT ![w] = next[temp[w]]]
  /\ UNCHANGED <<queue, ref, temp, world, linked, taken, stale>>

CasRemoveEnd_PlainStore(w) ==
  /\ Goto(w, "cas_remove", "test_empty")
  /\ remove_end' = succ[w]
  /\ taken' = [taken EXCEPT ![w] = Append(@, temp[w])]
  /\ UNCHANGED <<insert_end, next, locals, world, linked, stale>>

CasRemoveEnd_RetryWithoutReload(w) ==
  /\ \/ /\ remove_end = temp[w]
        /\ Goto(w, "cas_remove", "test_empty")
        /\ remove_end' = succ[w]
        /\ taken' = [taken EXCEPT ![w] = Append(@, temp[w])]
     \/ /\ remove_end # temp[w]
        /\ pc[w] = "cas_remove"
        /\ UNCHANGED <<pc, remove_end, taken>>
  /\ UNCHANGED <<insert_end, next, locals, world, linked, stale>>

(* Atomic::cmpxchg_ptr(next, &_remove_end, temp), retried when it fails. *)
CasRemoveEnd(w) ==
  /\ \/ /\ remove_end = temp[w]
        /\ Goto(w, "cas_remove", "test_empty")
        /\ remove_end' = succ[w]
        /\ taken' = [taken EXCEPT ![w] = Append(@, temp[w])]
     \/ /\ remove_end # temp[w]
        /\ Goto(w, "cas_remove", "read_remove")
        /\ UNCHANGED <<remove_end, taken>>
  /\ UNCHANGED <<insert_end, next, locals, world, linked, stale>>

(* if (remove_end() == NULL) ... *)
TestEmpty(w) ==
  /\ Goto(w, "test_empty", IF remove_end = NULL THEN "clear_insert" ELSE "process")
  /\ UNCHANGED <<queue, locals, world, linked, taken, stale>>

(* ... set_insert_end(NULL) *)
ClearInsertEnd(w) ==
  /\ Goto(w, "clear_insert", "process")
  /\ insert_end' = NULL
  /\ UNCHANGED <<remove_end, next, locals, world, linked, taken, stale>>

Process_OneRefPerTask(w) ==
  /\ Goto(w, "process", "done")
  /\ UNCHANGED <<queue, locals, world, linked, taken, stale>>

(* process_dequeued_bdaroot promotes the object of temp and the bda stacks *)
(* are drained; then the worker asks for the next Ref.                     *)
Process(w) ==
  /\ Goto(w, "process", "read_remove")
  /\ UNCHANGED <<queue, locals, world, linked, taken, stale>>

(* All tasks have run; clear_refqueue() and the Java threads go on.        *)
EndScavenge ==
  /\ world = "scavenge"
  /\ \A w \in Workers : pc[w] = "done"
  /\ world' = "java"
  /\ insert_end' = NULL
  /\ remove_end' = NULL
  /\ pc' = [t \in Threads |-> IF t \in Workers THEN "waiting" ELSE pc[t]]
  /\ UNCHANGED <<next, locals, linked, taken, stale>>

(* What dequeue can still return. *)
Handed == UNION {Elems(taken[w]) : w \in Workers}

(* PSParallelCompact::invoke without a scavenge before it: either          *)
(* ScavengeBeforeFullGC is off or should_attempt_scavenge() said no.  Any  *)
(* of the objects not yet promoted may move.                               *)
FullGC ==
  /\ AtSafepoint
  /\ \E moved \in SUBSET (Elems(linked) \ Handed) : stale' = stale \cup moved
  /\ UNCHANGED <<queue, locals, pc, world, linked, taken>>

-----------------------------------------------------------------------------
Enqueue(j) == \/ NewRef(j) \/ ReadInsertEnd(j) \/ CasInsertEnd(j)
              \/ LinkNext(j) \/ TestRemoveEnd(j) \/ SetRemoveEnd(j)

RootsTask(w) == \/ ReadRemoveEnd(w) \/ ReadNext(w) \/ CasRemoveEnd(w)
                \/ TestEmpty(w) \/ ClearInsertEnd(w) \/ Process(w)

Next ==
  \/ \E j \in JavaThreads : Enqueue(j)
  \/ \E w \in Workers : RootsTask(w)
  \/ BeginScavenge
  \/ EndScavenge
  \/ FullGC

Spec == Init /\ [][Next]_vars

(* GC workers and the VM thread run until the pause is over: nothing else  *)
(* is scheduled against them, and no step of theirs waits for a lock.      *)
Fairness ==
  /\ \A w \in Workers : WF_vars(RootsTask(w))
  /\ WF_vars(EndScavenge)

FairSpec == Spec /\ Fairness

-----------------------------------------------------------------------------
(* Properties.                                                             *)

(* The Refs a drain would find: those reachable from remove_end by next.   *)
Reachable ==
  LET R[n \in 0..Cardinality(Refs)] ==
        IF n = 0 THEN {remove_end} \ {NULL}
        ELSE R[n-1] \cup ({next[r] : r \in R[n-1]} \ {NULL})
  IN  R[Cardinality(Refs)]

(* Whenever no enqueue is in flight the two ends agree on emptiness (the   *)
(* two loads of is_empty() never see a half-empty queue), and a non-empty  *)
(* queue is a contiguous tail of the order in which the threads won the    *)
(* CAS on _insert_end, linked in that order and terminated: racing         *)
(* enqueues can lose a prefix, but never tear the list, reorder it or      *)
(* leave a dangling end.                                                   *)
QueueIsTail ==
  AtSafepoint =>
    /\ insert_end = NULL <=> remove_end = NULL
    /\ remove_end # NULL =>
         \E k \in 1..Len(linked) :
           /\ remove_end = linked[k]
           /\ insert_end = linked[Len(linked)]
           /\ next[insert_end] = NULL
           /\ \A i \in k..(Len(linked) - 1) : next[linked[i]] = linked[i+1]

(* No Ref is handed to two BDARefRootsTasks, nor twice to one: the object  *)
(* behind it is offered for promotion as a container once.                 *)
TakenOnce ==
  \A v, w \in Workers : \A i \in 1..Len(taken[v]), j \in 1..Len(taken[w]) :
    taken[v][i] = taken[w][j] => v = w /\ i = j

(* During a collection a Ref stops being reachable only by being handed to *)
(* a worker; in particular clear() at the end discards nothing that was    *)
(* queued when the collection started.                                     *)
LeavesOnlyByDequeue ==
  [][world = "scavenge" => Reachable \ Reachable' \subseteq Handed']_vars

(* Every young collection ends: the workers' retry loops on _remove_end    *)
(* cannot keep each other busy for ever.                                   *)
DrainTerminates == world = "scavenge" ~> world = "java"

(* What common_mem_allocate_init says of an enqueued Ref, that it is there *)
(* for later GC processing: at a safepoint every Ref whose enqueue         *)
(* returned is in the queue, or was handed to a worker.  The code does not *)
(* keep this: see the README, section 3.                                   *)
EveryRefQueued == AtSafepoint => Elems(linked) \subseteq Reachable \cup Handed

(* A worker promotes objects, not memory that a full collection has left:  *)
(* the oop in a dequeued Ref still addresses its object.                   *)
NoStaleRoot == \A w \in Workers : pc[w] = "process" => temp[w] \notin stale

=============================================================================
