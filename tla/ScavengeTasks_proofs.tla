------------------------ MODULE ScavengeTasks_proofs ------------------------
(***************************************************************************)
(* The tasks of a young collection, for every number of workers.  Active   *)
(* and idle workers add up, so that nobody waits at a terminator for a     *)
(* worker that is idle.  The invariant Inv then says where each task is,   *)
(* what the manager's counters count and in which order tasks are taken.   *)
(***************************************************************************)
EXTENDS ScavengeTasks, FiniteSetTheorems, TLAPS

(* The number of workers is a number. *)
LEMMA WorkersNat == workers \in Nat /\ workers >= 2
BY Zenon, TasksAssumption, FS_CardinalityType DEF TasksAssumption, workers

(* The invariant.  Between collections idle workers may leave (should_wait *)
(* is FALSE) but none is added, and at least two were active.  From the    *)
(* step that counts the idle workers until release_idle_workers no idle    *)
(* worker leaves, because should_wait is TRUE.                             *)
Gang ==
  /\ active_workers \in Int /\ idle_workers \in Int /\ more \in Int
  /\ vm \in {"mutator", "gang", "idle", "queue", "wait", "post"}
  /\ vm = "mutator" => idle_workers <= workers - 2
  /\ vm = "gang" => idle_workers <= workers - 2 /\ active_workers >= 2
  /\ vm = "idle" =>
       /\ should_wait /\ active_workers >= 2 /\ more >= 0
       /\ active_workers + idle_workers + more = workers
  /\ vm \in {"queue", "wait", "post"} =>
       /\ should_wait /\ active_workers >= 2
       /\ active_workers + idle_workers = workers

(* Before the first collection nobody is idle. *)
LEMMA GangInit == Init => Gang
BY WorkersNat DEF Init, Gang

(* The steps of the VM thread *)
LEMMA GangVMThread == Gang /\ VMThread => Gang'
<1> SUFFICES ASSUME Gang, VMThread PROVE Gang'
  BY Zenon
<1> USE WorkersNat
<1>1. CASE StartScavenge
  BY <1>1 DEF Gang, StartScavenge, workers
<1>2. CASE CountIdleWorkers
  BY <1>2 DEF Gang, CountIdleWorkers, workers
<1>3. CASE QueueIdleTasks
  BY <1>3 DEF Gang, QueueIdleTasks, workers
<1>4. CASE QueueScavenge
  BY Zenon, <1>4 DEF Gang, QueueScavenge, workers
<1>5. CASE WaitFor
  BY Zenon, <1>5 DEF Gang, WaitFor, manager, workers
<1>6. CASE EndScavenge
  BY <1>6 DEF Gang, EndScavenge, workers
<1> QED BY Zenon, <1>1, <1>2, <1>3, <1>4, <1>5, <1>6 DEF VMThread

(* Only LeaveIdle changes what Gang is about. *)
LEMMA GangWorker == ASSUME NEW w \in Workers, Gang, Worker(w) PROVE Gang'
<1> DEFINE Kept == UNCHANGED <<active_workers, idle_workers, more, vm, should_wait>>
<1>1. CASE LeaveIdle(w)
  <2>1. /\ ~ should_wait /\ idle_workers' = idle_workers - 1
        /\ UNCHANGED <<active_workers, more, vm, should_wait>>
    BY Zenon, <1>1 DEF LeaveIdle, control
  <2> QED BY <2>1, WorkersNat DEF Gang, workers
<1>2. CASE Kept
  BY Zenon, <1>2 DEF Gang, workers
<1>3. CASE SleepInGet(w) \/ GetTask(w) \/ Noop(w) \/ NoteCompletion(w)
  BY Zenon, <1>3, <1>2 DEF SleepInGet, GetTask, Noop, NoteCompletion, control, manager
<1>4. CASE EnterIdle(w) \/ StayIdle(w) \/ SleepAtBarrier(w) \/ PassBarrier(w)
  BY Zenon, <1>4, <1>2 DEF EnterIdle, StayIdle, SleepAtBarrier, PassBarrier, control, manager
<1>5. CASE DrainBda(w) \/ TakeRef(w) \/ ScanContainer(w) \/ NextSpace(w)
  BY Zenon, <1>5, <1>2 DEF DrainBda, TakeRef, ScanContainer, NextSpace, control, manager
<1>6. CASE VisitRoots(w) \/ DrainToTarget(w) \/ DrainTotally(w) \/ StealOne(w)
  BY Zenon, <1>6, <1>2 DEF VisitRoots, DrainToTarget, DrainTotally, DrainClaimed, StealOne, control, manager
<1>7. CASE Offer(w) \/ Terminate(w) \/ Peek(w)
  BY Zenon, <1>7, <1>2 DEF Offer, Terminate, Peek, control, manager
<1> QED BY Zenon, <1>1, <1>3, <1>4, <1>5, <1>6, <1>7 DEF Worker

(* From the time the tasks are queued until the collection is over every   *)
(* worker is active or idle, and at least two are active, as               *)
(* set_active_gang and task_idle_workers claim: for every number of        *)
(* workers and every interleaving with the workers that an earlier         *)
(* collection left idle.                                                   *)
THEOREM WorkersAddUp == Spec => []EnoughWorkers
<1>1. Gang /\ [Next]_vars => Gang'
  <2> SUFFICES ASSUME Gang, [Next]_vars PROVE Gang'
    BY Zenon
  <2>1. CASE VMThread
    BY Zenon, <2>1, GangVMThread
  <2>2. CASE \E w \in Workers : Worker(w)
    BY Zenon, <2>2, GangWorker
  <2>3. CASE UNCHANGED vars
    BY Zenon, <2>3 DEF Gang, vars, control, manager, workers
  <2> QED BY Zenon, <2>1, <2>2, <2>3 DEF Next
<1>2. Gang => EnoughWorkers
  BY Zenon DEF Gang, EnoughWorkers
<1> QED BY GangInit, <1>1, <1>2, PTL DEF Spec

-----------------------------------------------------------------------------
(* What is queued, and who holds it.  Tasks of a collection are queued in  *)
(* the order of Rank.                                                      *)

Tasks == [kind : Kinds \ {"noop"}, number : Nat]
BdaKinds == {"steal_bda", "containers", "refs"}
Rank(kind) ==
  CASE kind = "idle" -> 0
    [] kind = "steal_bda" -> 1
    [] kind = "containers" -> 2
    [] kind = "refs" -> 3
    [] kind = "other" -> 4
    [] kind = "roots" -> 5
    [] kind = "steal" -> 6
    [] OTHER -> 7

Occurs(t, q) == \E i \in 1..Len(q) : q[i] = t
Queued(t) == Occurs(t, queue)
Held(t) == \E w \in Workers : task[w] = t
Idlers == {w \in Workers : task[w].kind = "idle"}
IdleQueued == idle_workers - Cardinality(Idlers)

(* A task that is neither idle nor the barrier: part of the collection's   *)
(* work.                                                                   *)
Current(w) == task[w].kind \notin {"idle", "noop", "barrier"}

(* Only idle tasks are queued more than once, and the barrier is last. *)
Sorted(q) ==
  \A i, j \in 1..Len(q) : i < j =>
    /\ Rank(q[i].kind) <= Rank(q[j].kind)
    /\ q[i] = q[j] => q[i].kind = "idle"
    /\ q[i].kind # "barrier"

(* Where a worker can be with its task; the barrier blocks the queue. *)
PlaceOK(w) ==
  /\ pc[w] = "get" <=> task[w].kind = "noop"
  /\ pc[w] = "wait" => task[w].kind = "idle"
  /\ task[w].kind = "idle" => pc[w] \in {"run", "wait"}
  /\ pc[w] = "drain" => task[w].kind \in {"other", "roots"}
  /\ pc[w] \in {"offer", "peek"} => task[w].kind \in Terminators
  /\ pc[w] = "complete" => task[w].kind \in {"steal_bda", "steal", "barrier"}
  /\ task[w].kind = "barrier" <=> blocker = w
  /\ Running(w, "barrier") => queue = <<>> /\ vm = "wait" /\ fin

Shape ==
  /\ queue \in Seq(Tasks)
  /\ pc \in [Workers -> {"get", "run", "drain", "wait", "offer", "peek", "complete"}]
  /\ task \in [Workers -> Tasks \cup {NoTask}]
  /\ fin \in BOOLEAN /\ blocker \in Workers \cup {NoWorker}
  /\ busy_workers \in Int
  /\ \A w \in Workers : PlaceOK(w)

(* The counts of the manager; idle tasks are at the head of the queue. *)
Counts ==
  /\ busy_workers = Cardinality(InHand)
  /\ IdleQueued \in 0..Len(queue)
  /\ \A i \in 1..Len(queue) : queue[i].kind = "idle" <=> i <= IdleQueued

(* A task is in one place, and no task is taken before those of an earlier *)
(* kind.                                                                   *)
Order ==
  /\ Sorted(queue)
  /\ \A w \in Workers : Current(w) =>
       /\ ~ Queued(task[w])
       /\ \A i \in 1..Len(queue) : Rank(task[w].kind) <= Rank(queue[i].kind)
       /\ \A v \in Workers : task[w] = task[v] => w = v

(* Nobody works: not between collections, not after the barrier and not    *)
(* before the idle tasks are taken.                                        *)
Still ==
  \A w \in Workers : task[w].kind \in {"noop", "idle"} \/ (task[w].kind = "barrier" /\ pc[w] = "complete")
Resting == vm # "wait" \/ ~ fin \/ IdleQueued > 0

Phases ==
  /\ Resting => Still
  /\ vm \notin {"queue", "wait"} \/ ~ fin => queue = <<>>
  /\ vm = "queue" => IdleQueued = Len(queue)
  /\ vm # "wait" => fin

(* There is a task of a kind for every active worker at most. *)
Numbers ==
  vm \in {"queue", "wait"} =>
    /\ \A w \in Workers : Current(w) => task[w].number < active_workers
    /\ \A i \in 1..Len(queue) : queue[i].number < active_workers

Inv == Gang /\ Shape /\ Counts /\ Order /\ Phases /\ Numbers

-----------------------------------------------------------------------------
(* The order in which scavenge queues the kinds of tasks *)
LEMMA RankValues ==
  /\ Rank("idle") = 0 /\ Rank("steal_bda") = 1 /\ Rank("containers") = 2 /\ Rank("refs") = 3
  /\ Rank("other") = 4 /\ Rank("roots") = 5 /\ Rank("steal") = 6 /\ Rank("barrier") = 7
BY DEF Rank

(* Ranks are numbers up to 7. *)
LEMMA RankType == ASSUME NEW k \in Kinds PROVE Rank(k) \in 0..7
BY DEF Rank, Kinds

(* The queue after its head was taken. *)
LEMMA TailOf ==
  ASSUME NEW q \in Seq(Tasks), q # <<>>
  PROVE  /\ Len(q) \in Nat \ {0} /\ Head(q) = q[1] /\ q[1] \in Tasks
         /\ Tail(q) \in Seq(Tasks) /\ Len(Tail(q)) = Len(q) - 1
         /\ \A i \in 1..Len(Tail(q)) : i + 1 \in 1..Len(q) /\ Tail(q)[i] = q[i + 1]
OBVIOUS

(* Sets of workers are finite. *)
LEMMA SubsetFinite ==
  ASSUME NEW S \in SUBSET Workers
  PROVE  IsFiniteSet(S) /\ Cardinality(S) \in Nat
BY Zenon, TasksAssumption, FS_Subset, FS_CardinalityType

(* The workers with a task in hand and the idle ones can be counted. *)
LEMMA SetsFinite ==
  /\ IsFiniteSet(InHand) /\ Cardinality(InHand) \in Nat
  /\ IsFiniteSet(Idlers) /\ Cardinality(Idlers) \in Nat
<1>1. InHand \in SUBSET Workers /\ Idlers \in SUBSET Workers
  BY Zenon DEF InHand, Idlers
<1> QED
  BY Zenon, <1>1, SubsetFinite

-----------------------------------------------------------------------------
(* What a worker w does that takes task t and leaves q in the queue. *)
Got(w, t, q) ==
  /\ t \in Tasks /\ q \in Seq(Tasks) /\ Len(q) = Len(queue) - 1 /\ Len(queue) \in Nat /\ 1 \in 1..Len(queue)
  /\ \A i \in 1..Len(q) : i \in Nat /\ 1 < i + 1 /\ i + 1 \in 1..Len(queue) /\ q[i] = queue[i + 1]
  /\ task' = [task EXCEPT ![w] = t] /\ queue' = q /\ pc' = [pc EXCEPT ![w] = "run"]
  /\ blocker' = IF t.kind = "barrier" THEN w ELSE blocker
  /\ busy_workers' = IF t.kind = "idle" THEN busy_workers ELSE busy_workers + 1
  /\ UNCHANGED <<vm, fin, more, active_workers, idle_workers, should_wait>>
  /\ task'[w] = t /\ \A v \in Workers : v # w => task'[v] = task[v] /\ pc'[v] = pc[v]
  /\ pc'[w] = "run" /\ task[w].kind = "noop" /\ t.kind \in Kinds \ {"noop"} /\ t.number \in Nat
  /\ (vm = "wait" /\ fin) \/ vm = "queue"
  /\ IF t.kind = "idle" THEN IdleQueued > 0 ELSE IdleQueued = 0 /\ vm = "wait" /\ fin
  /\ Cardinality(Idlers)' = IF t.kind = "idle" THEN Cardinality(Idlers) + 1 ELSE Cardinality(Idlers)
  /\ Cardinality(InHand)' = IF t.kind = "idle" THEN Cardinality(InHand) ELSE Cardinality(InHand) + 1
  /\ IdleQueued' = IF t.kind = "idle" THEN IdleQueued - 1 ELSE IdleQueued

(* What GCTaskManager::get_task does in the states of the invariant *)
LEMMA GetFacts ==
  ASSUME Inv, NEW w \in Workers, GetTask(w), NEW t, t = queue[1], NEW q, q = Tail(queue)
  PROVE  Got(w, t, q)
<1>q. queue # <<>> /\ blocker = NoWorker /\ pc[w] = "get" /\ queue \in Seq(Tasks)
  BY Zenon DEF GetTask, MustWait, Awake, Inv, Shape
<1>1. /\ t \in Tasks /\ q \in Seq(Tasks) /\ Len(q) = Len(queue) - 1 /\ Len(queue) \in Nat /\ 1 \in 1..Len(queue)
      /\ \A i \in 1..Len(q) : i \in Nat /\ 1 < i + 1 /\ i + 1 \in 1..Len(queue) /\ q[i] = queue[i + 1]
  BY <1>q, TailOf
<1>2. /\ task' = [task EXCEPT ![w] = t] /\ queue' = q /\ pc' = [pc EXCEPT ![w] = "run"]
      /\ blocker' = IF t.kind = "barrier" THEN w ELSE blocker
      /\ busy_workers' = IF t.kind = "idle" THEN busy_workers ELSE busy_workers + 1
      /\ UNCHANGED <<vm, fin, more, active_workers, idle_workers, should_wait>>
  BY Zenon, <1>q, TailOf DEF GetTask, control
<1>3. /\ task'[w] = t /\ \A v \in Workers : v # w => task'[v] = task[v] /\ pc'[v] = pc[v]
      /\ pc'[w] = "run" /\ task[w].kind = "noop" /\ t.kind \in Kinds \ {"noop"} /\ t.number \in Nat
  BY Zenon, <1>q, <1>1, <1>2 DEF Inv, Shape, PlaceOK, Tasks
<1>4. (vm = "wait" /\ fin) \/ vm = "queue"
  BY Zenon, <1>q DEF Inv, Phases, Gang
<1>5. IF t.kind = "idle" THEN IdleQueued > 0 ELSE IdleQueued = 0 /\ vm = "wait" /\ fin
  <2>1. t.kind = "idle" <=> 1 <= IdleQueued
    BY Zenon, <1>1 DEF Inv, Counts
  <2>2. IdleQueued \in Nat
    BY <1>1 DEF Inv, Counts
  <2>3. vm = "queue" => IdleQueued >= 1
    BY <1>1 DEF Inv, Phases
  <2> QED
    BY <2>1, <2>2, <2>3, <1>4
<1>6. /\ Idlers' = IF t.kind = "idle" THEN Idlers \cup {w} ELSE Idlers
      /\ InHand' = IF t.kind = "idle" THEN InHand ELSE InHand \cup {w}
      /\ w \notin Idlers /\ w \notin InHand
  BY <1>3, <1>q DEF Idlers, InHand
<1>7. /\ Cardinality(Idlers)' = IF t.kind = "idle" THEN Cardinality(Idlers) + 1 ELSE Cardinality(Idlers)
      /\ Cardinality(InHand)' = IF t.kind = "idle" THEN Cardinality(InHand) ELSE Cardinality(InHand) + 1
  BY Zenon, <1>6, SetsFinite, FS_AddElement
<1>8. IdleQueued' = IF t.kind = "idle" THEN IdleQueued - 1 ELSE IdleQueued
  BY <1>2, <1>7, SetsFinite DEF IdleQueued, Inv, Gang
<1> QED
  BY Zenon, <1>1, <1>2, <1>3, <1>4, <1>5, <1>7, <1>8 DEF Got

(* A worker that takes the task at the head of the queue. *)
LEMMA GetInv == ASSUME Inv, NEW w \in Workers, GetTask(w) PROVE Inv'
<1>t. PICK t, q : t = queue[1] /\ q = Tail(queue)
  BY Zenon
<1>g. Got(w, t, q)
  BY Zenon, <1>t, GetFacts
<1>q. blocker = NoWorker
  BY Zenon DEF GetTask, MustWait
<1>1. /\ 1 \in 1..Len(queue)
      /\ \A i \in 1..Len(q) : i \in Nat /\ 1 < i + 1 /\ i + 1 \in 1..Len(queue) /\ q[i] = queue[i + 1]
  BY Zenon, <1>g DEF Got
<1>2. queue' = q /\ task'[w] = t /\ \A v \in Workers : v # w => task'[v] = task[v]
  BY Zenon, <1>g DEF Got
<1>9. Gang'
  BY Zenon, <1>g DEF Got, Inv, Gang, workers
<1>10. Shape'
  <2>1. /\ queue' \in Seq(Tasks) /\ fin' \in BOOLEAN /\ blocker' \in Workers \cup {NoWorker}
        /\ pc' \in [Workers -> {"get", "run", "drain", "wait", "offer", "peek", "complete"}]
        /\ task' \in [Workers -> Tasks \cup {NoTask}]
    BY Zenon, <1>g DEF Got, Inv, Shape
  <2>2. busy_workers' \in Int
    BY <1>g DEF Got, Inv, Shape
  <2>3. PlaceOK(w)'
    <3>1. t.kind = "barrier" => queue' = <<>> /\ vm' = "wait" /\ fin'
      <4> SUFFICES ASSUME t.kind = "barrier" PROVE queue' = <<>> /\ vm' = "wait" /\ fin'
        BY Zenon
      <4>1. \A j \in 1..Len(queue) : ~ (1 < j)
        BY Zenon, <1>g, <1>t DEF Got, Inv, Order, Sorted
      <4>2. Len(queue) = 1
        BY <1>g, <4>1 DEF Got
      <4> QED
        BY <1>g, <4>2 DEF Got
    <3> QED
      BY <1>g, <3>1, <1>q, TasksAssumption DEF Got, PlaceOK, Running, Terminators
  <2>4. ASSUME NEW v \in Workers, v # w PROVE PlaceOK(v)'
    <3>1. PlaceOK(v) /\ task'[v] = task[v] /\ pc'[v] = pc[v]
      BY Zenon, <1>g, <2>4 DEF Got, Inv, Shape
    <3>2. task[v].kind # "barrier" /\ blocker' # v
      BY Zenon, <1>g, <1>q, <2>4, <3>1, TasksAssumption DEF Got, PlaceOK
    <3> QED
      BY Zenon, <3>1, <3>2 DEF PlaceOK, Running
  <2> QED
    BY Zenon, <2>1, <2>2, <2>3, <2>4 DEF Shape
<1>11. Counts'
  <2>1. busy_workers' = Cardinality(InHand)'
    BY Zenon, <1>g DEF Got, Inv, Counts
  <2>2. IdleQueued' \in 0..Len(queue')
    BY <1>g DEF Got, Inv, Counts
  <2>3. ASSUME NEW i \in 1..Len(q) PROVE q[i].kind = "idle" <=> i <= IdleQueued'
    <3>1. q[i].kind = "idle" <=> i + 1 <= IdleQueued
      BY ZenonT(30), <1>g DEF Got, Inv, Counts
    <3>2. IdleQueued \in Int
      BY <1>g DEF Got, Inv, Counts
    <3> QED
      BY <1>g, <3>1, <3>2 DEF Got
  <2> QED
    BY Zenon, <1>g, <2>1, <2>2, <2>3 DEF Got, Counts
<1>12. Order'
  <2>1. \A i \in 1..Len(q) : /\ Rank(t.kind) <= Rank(q[i].kind)
                             /\ t = q[i] => t.kind = "idle"
    <3> TAKE i \in 1..Len(q)
    <3>1. PICK k \in 1..Len(queue) : k = i + 1 /\ 1 < k /\ q[i] = queue[k]
      BY Zenon, <1>1
    <3> QED
      BY ZenonT(30), <1>1, <3>1, <1>t DEF Inv, Order, Sorted
  <2>2. Sorted(q)
    <3> SUFFICES ASSUME NEW i \in 1..Len(q), NEW j \in 1..Len(q), i < j
                 PROVE  /\ Rank(q[i].kind) <= Rank(q[j].kind)
                        /\ q[i] = q[j] => q[i].kind = "idle"
                        /\ q[i].kind # "barrier"
      BY Zenon DEF Sorted
    <3>0. i + 1 < j + 1
      OBVIOUS
    <3>1. PICK k \in 1..Len(queue), l \in 1..Len(queue) : k < l /\ q[i] = queue[k] /\ q[j] = queue[l]
      <4>1. /\ i + 1 \in 1..Len(queue) /\ q[i] = queue[i + 1]
            /\ j + 1 \in 1..Len(queue) /\ q[j] = queue[j + 1]
        BY Zenon, <1>1
      <4> QED
        BY Zenon, <3>0, <4>1
    <3> QED
      BY Zenon, <3>1 DEF Inv, Order, Sorted
  <2>3. ASSUME NEW v \in Workers, v # w, Current(v)
        PROVE  ~ Occurs(task[v], q) /\ task[v] # t /\ \A i \in 1..Len(q) : Rank(task[v].kind) <= Rank(q[i].kind)
    <3>1. ~ Queued(task[v]) /\ \A i \in 1..Len(queue) : Rank(task[v].kind) <= Rank(queue[i].kind)
      BY Zenon, <2>3 DEF Inv, Order
    <3> QED
      BY Zenon, <1>1, <3>1, <1>t DEF Queued, Occurs
  <2>4. ASSUME NEW v \in Workers, Current(v)'
        PROVE  ~ Queued(task[v])'
    BY Zenon, <1>2, <2>1, <2>3, <2>4 DEF Queued, Occurs, Current
  <2>5. ASSUME NEW v \in Workers, Current(v)'
        PROVE  \A i \in 1..Len(queue') : Rank(task'[v].kind) <= Rank(queue'[i].kind)
    BY Zenon, <1>g, <2>1, <2>3, <2>5 DEF Got, Current
  <2>6. ASSUME NEW v \in Workers, Current(v)', NEW u \in Workers, task'[v] = task'[u]
        PROVE  v = u
    <3>1. CASE v = w
      BY Zenon, <1>g, <2>3, <2>6, <3>1 DEF Got, Current
    <3>2. CASE v # w /\ u = w
      BY ZenonT(30), <1>g, <2>3, <2>6, <3>2 DEF Got, Current
    <3>3. CASE v # w /\ u # w
      BY Zenon, <1>2, <2>6, <3>3 DEF Current, Inv, Order
    <3> QED
      BY Zenon, <3>1, <3>2, <3>3
  <2> QED
    BY Zenon, <1>g, <2>2, <2>4, <2>5, <2>6 DEF Got, Order
<1>13. Phases'
  <2>1. Resting' => Still'
    <3> SUFFICES ASSUME Resting' PROVE Still'
      BY Zenon
    <3>1. IdleQueued' > 0 => IdleQueued > 0
      BY <1>g DEF Got
    <3>2. Resting
      BY Zenon, <1>g, <3>1 DEF Got, Resting
    <3>3. t.kind = "idle"
      BY <1>g DEF Got, Resting
    <3> QED
      BY ZenonT(30), <1>g, <3>2, <3>3 DEF Got, Inv, Phases, Still
  <2>2. vm = "queue" => IdleQueued' = Len(q)
    BY <1>g DEF Got, Inv, Phases
  <2> QED
    BY Zenon, <1>g, <2>1, <2>2 DEF Got, Phases, Inv
<1>14. Numbers'
  <2>1. vm \in {"queue", "wait"} => t.number < active_workers /\ \A i \in 1..Len(q) : q[i].number < active_workers
    BY Zenon, <1>g, <1>t DEF Got, Inv, Numbers
  <2> QED
    BY Zenon, <1>g, <2>1 DEF Got, Numbers, Inv, Current
<1> QED
  BY Zenon, <1>9, <1>10, <1>11, <1>12, <1>13, <1>14 DEF Inv

(* A worker that has completed its task, or is released from idling. *)
LEMMA ReturnInv ==
  ASSUME Inv, Gang', NEW w \in Workers, pc[w] # "get",
         task' = [task EXCEPT ![w] = NoTask], pc' = [pc EXCEPT ![w] = "get"],
         blocker' = IF blocker = w THEN NoWorker ELSE blocker,
         IF task[w].kind = "idle"
           THEN idle_workers' = idle_workers - 1 /\ busy_workers' = busy_workers
           ELSE idle_workers' = idle_workers /\ busy_workers' = busy_workers - 1,
         UNCHANGED <<vm, fin, queue, active_workers>>
  PROVE  Inv' /\ IdleQueued' = IdleQueued
<1>1. /\ task'[w] = NoTask /\ pc'[w] = "get" /\ NoTask.kind = "noop"
      /\ \A v \in Workers : v # w => task'[v] = task[v] /\ pc'[v] = pc[v]
      /\ PlaceOK(w)
  BY Zenon DEF Inv, Shape, NoTask, Task
<1>2. /\ Idlers' = IF task[w].kind = "idle" THEN Idlers \ {w} ELSE Idlers
      /\ InHand' = IF task[w].kind = "idle" THEN InHand ELSE InHand \ {w}
      /\ task[w].kind = "idle" => w \in Idlers
      /\ task[w].kind # "idle" => w \in InHand
  BY <1>1 DEF Idlers, InHand
<1>3. /\ Cardinality(Idlers)' = IF task[w].kind = "idle" THEN Cardinality(Idlers) - 1 ELSE Cardinality(Idlers)
      /\ Cardinality(InHand)' = IF task[w].kind = "idle" THEN Cardinality(InHand) ELSE Cardinality(InHand) - 1
  BY Zenon, <1>2, SetsFinite, FS_RemoveElement
<1>4. IdleQueued' = IdleQueued
  BY <1>3, SetsFinite DEF IdleQueued, Inv, Gang
<1>5. Shape'
  <2>1. /\ queue' \in Seq(Tasks) /\ fin' \in BOOLEAN /\ blocker' \in Workers \cup {NoWorker}
        /\ pc' \in [Workers -> {"get", "run", "drain", "wait", "offer", "peek", "complete"}]
        /\ task' \in [Workers -> Tasks \cup {NoTask}]
    BY Zenon DEF Inv, Shape
  <2>2. busy_workers' \in Int
    BY DEF Inv, Shape
  <2>3. PlaceOK(w)'
    BY <1>1, TasksAssumption DEF PlaceOK, Running
  <2>4. ASSUME NEW v \in Workers, v # w PROVE PlaceOK(v)'
    <3>1. PlaceOK(v) /\ task'[v] = task[v] /\ pc'[v] = pc[v]
      BY Zenon, <1>1, <2>4 DEF Inv, Shape
    <3>2. blocker' = v <=> blocker = v
      BY Zenon, <2>4, TasksAssumption
    <3> QED
      BY Zenon, <3>1, <3>2 DEF PlaceOK, Running
  <2> QED
    BY Zenon, <2>1, <2>2, <2>3, <2>4 DEF Shape
<1>6. Counts'
  BY Zenon, <1>3, <1>4 DEF Inv, Counts
<1>7. \A v \in Workers : Current(v)' => Current(v) /\ v # w /\ task'[v] = task[v]
  BY Zenon, <1>1 DEF Current
<1>8. Order'
  <2>1. ASSUME NEW v \in Workers, Current(v)', NEW u \in Workers, task'[v] = task'[u] PROVE v = u
    <3>1. task'[v].kind # "noop"
      BY Zenon, <2>1 DEF Current
    <3>2. u # w
      BY <2>1, <3>1, <1>1
    <3>3. task[v] = task[u] /\ Current(v)
      BY <2>1, <3>2, <1>1, <1>7
    <3> QED
      BY Zenon, <3>3 DEF Inv, Order
  <2>2. ASSUME NEW v \in Workers, Current(v)'
        PROVE  ~ Queued(task[v])' /\ \A i \in 1..Len(queue') : Rank(task'[v].kind) <= Rank(queue'[i].kind)
    BY Zenon, <2>2, <1>7 DEF Inv, Order, Queued, Occurs
  <2> QED
    BY Zenon, <2>1, <2>2 DEF Inv, Order
<1>9. Phases'
  <2>1. Resting' => Resting
    BY Zenon, <1>4 DEF Resting
  <2> QED
    BY ZenonT(30), <1>1, <1>4, <2>1 DEF Inv, Phases, Still
<1>10. Numbers'
  BY Zenon, <1>7 DEF Inv, Numbers
<1> QED
  BY Zenon, <1>4, <1>5, <1>6, <1>8, <1>9, <1>10 DEF Inv

(* A worker that goes on with its task. *)
LEMMA MoveInv ==
  ASSUME Inv, NEW w \in Workers, pc[w] # "get", NEW label, label # "get", pc' = [pc EXCEPT ![w] = label],
         label \in {"run", "drain", "wait", "offer", "peek", "complete"},
         task[w].kind # "barrier", PlaceOK(w)',
         UNCHANGED <<vm, fin, more, active_workers, idle_workers, busy_workers, queue, blocker, should_wait, task>>
  PROVE  Inv'
<1>1. pc'[w] = label /\ \A v \in Workers : v # w => pc'[v] = pc[v]
  BY Zenon DEF Inv, Shape
<1>2. InHand' = InHand /\ Idlers' = Idlers
  BY <1>1 DEF InHand, Idlers
<1>3. IdleQueued' = IdleQueued /\ Gang'
  BY Zenon, <1>2 DEF IdleQueued, Inv, Gang, workers
<1>4. Shape'
  <2>1. ASSUME NEW v \in Workers, v # w PROVE PlaceOK(v)'
    BY Zenon, <2>1, <1>1 DEF PlaceOK, Running, Inv, Shape
  <2> QED
    BY Zenon, <2>1 DEF Inv, Shape
<1>5. Counts' /\ Order' /\ Numbers'
  BY Zenon, <1>2, <1>3 DEF Inv, Counts, Order, Numbers, Current, Queued, Occurs
<1>6. Phases'
  BY Zenon, <1>1, <1>3 DEF Inv, Phases, Resting, Still
<1> QED
  BY Zenon, <1>3, <1>4, <1>5, <1>6 DEF Inv

(* The barrier is passed: the worker that waits at it is the only one that *)
(* has a task.                                                             *)
LEMMA PassAlone ==
  ASSUME Inv, NEW w \in Workers, PassBarrier(w)
  PROVE  InHand = {w} /\ queue = <<>> /\ vm = "wait" /\ task[w].kind = "barrier"
<1>1. pc[w] = "run" /\ task[w].kind = "barrier" /\ busy_workers <= 1
  BY Zenon DEF PassBarrier, AtBarrier, Awake
<1>2. queue = <<>> /\ vm = "wait"
  BY Zenon, <1>1 DEF Inv, Shape, PlaceOK, Running
<1>3. w \in InHand
  BY <1>1 DEF InHand
<1>4. InHand \ {w} = {}
  <2>1. IsFiniteSet(InHand \ {w}) /\ Cardinality(InHand \ {w}) = Cardinality(InHand) - 1
    BY Zenon, <1>3, SetsFinite, FS_RemoveElement
  <2>2. Cardinality(InHand) = busy_workers /\ Cardinality(InHand) \in Nat
    BY Zenon, SetsFinite DEF Inv, Counts
  <2>3. Cardinality(InHand \ {w}) \in Nat
    BY Zenon, <2>1, FS_CardinalityType
  <2>4. Cardinality(InHand \ {w}) = 0
    BY <2>1, <2>2, <2>3, <1>1
  <2> QED
    BY Zenon, <2>1, <2>4, FS_EmptySet
<1> QED
  BY Zenon, <1>1, <1>2, <1>3, <1>4

(* A worker passes the barrier: the queue is empty, and the VM thread may  *)
(* go on.                                                                  *)
LEMMA PassInv == ASSUME Inv, NEW w \in Workers, PassBarrier(w) PROVE Inv'
<1>1. InHand = {w} /\ queue = <<>> /\ vm = "wait" /\ task[w].kind = "barrier"
  BY Zenon, PassAlone
<1>2. /\ pc' = [pc EXCEPT ![w] = "complete"] /\ fin' = FALSE
      /\ UNCHANGED <<vm, more, active_workers, idle_workers, busy_workers, queue, blocker, should_wait, task>>
      /\ pc[w] = "run"
  BY Zenon DEF PassBarrier, AtBarrier, Awake, Goto, manager
<1>3. pc'[w] = "complete" /\ \A v \in Workers : v # w => pc'[v] = pc[v]
  BY Zenon, <1>2 DEF Inv, Shape
<1>4. InHand' = InHand /\ Idlers' = Idlers
  BY <1>2, <1>3 DEF InHand, Idlers
<1>5. IdleQueued' = IdleQueued /\ Gang'
  BY Zenon, <1>2, <1>4 DEF IdleQueued, Inv, Gang, workers
<1>6. \A v \in Workers : v # w => task[v].kind \in {"noop", "idle"}
  BY Zenon, <1>1 DEF InHand, Inv, Shape, PlaceOK
<1>7. Still'
  BY Zenon, <1>1, <1>2, <1>3, <1>6 DEF Still
<1>8. Shape'
  <2>1. ASSUME NEW v \in Workers PROVE PlaceOK(v)'
    <3>1. PlaceOK(v) /\ (v # w => task[v].kind # "barrier")
      BY Zenon, <1>6 DEF Inv, Shape
    <3> QED
      BY <3>1, <1>1, <1>2, <1>3 DEF PlaceOK, Running
  <2> QED
    BY Zenon, <1>2, <2>1 DEF Inv, Shape
<1>9. Counts' /\ Order' /\ Numbers'
  BY Zenon, <1>2, <1>4, <1>5 DEF Inv, Counts, Order, Numbers, Current, Queued, Occurs
<1>10. Phases'
  BY Zenon, <1>1, <1>2, <1>7 DEF Inv, Phases
<1> QED
  BY Zenon, <1>5, <1>8, <1>9, <1>10 DEF Inv

(* Steps that the manager does not see. *)
LEMMA FrameInv ==
  ASSUME Inv, UNCHANGED <<vm, fin, more, active_workers, idle_workers, busy_workers, queue, blocker,
                          should_wait, pc, task>>
  PROVE  Inv'
<1>1. InHand' = InHand /\ Idlers' = Idlers
  BY Zenon DEF InHand, Idlers
<1> QED
  BY ZenonT(30), <1>1 DEF Inv, Gang, Shape, PlaceOK, Running, Counts, Order, Phases, Numbers, Current, Queued, Occurs,
     IdleQueued, Resting, Still, workers

(* A task that is done is one of the collection or the barrier. *)
LEMMA DoneTask ==
  ASSUME Inv, NEW w \in Workers, Done(w)
  PROVE  pc[w] # "get" /\ task[w].kind # "idle"
BY Zenon DEF Done, Running, Inv, Shape, PlaceOK

(* Every step of a worker keeps the invariant. *)
LEMMA WorkerInv == ASSUME Inv, NEW w \in Workers, Worker(w) PROVE Inv'
<1>g. Gang'
  BY Zenon, GangWorker DEF Inv
<1>p. PlaceOK(w)
  BY Zenon DEF Inv, Shape
<1>1. CASE GetTask(w)
  BY Zenon, <1>1, GetInv
<1>2. CASE NoteCompletion(w)
  BY Zenon, <1>g, <1>2, DoneTask, ReturnInv DEF NoteCompletion, Release, Goto, control
<1>3. CASE LeaveIdle(w)
  <2>1. pc[w] = "wait" /\ task[w].kind = "idle" /\ blocker # w
    BY Zenon, <1>3, <1>p DEF LeaveIdle, Awake, PlaceOK
  <2> QED
    BY Zenon, <1>g, <1>3, <2>1, ReturnInv DEF LeaveIdle, Release, Goto, control
<1>4. CASE PassBarrier(w)
  BY Zenon, <1>4, PassInv
<1>5. CASE EnterIdle(w) \/ VisitRoots(w) \/ Offer(w) \/ Terminate(w) \/ Peek(w)
  <2> DEFINE Kept == UNCHANGED <<vm, fin, more, active_workers, idle_workers, busy_workers, queue, blocker, should_wait, task>>
  <2>1. PICK label \in {"run", "drain", "wait", "offer", "peek", "complete"} :
          /\ pc' = [pc EXCEPT ![w] = label] /\ Kept
          /\ pc[w] # "get" /\ task[w].kind # "barrier"
          /\ label = "wait" => task[w].kind = "idle"
          /\ label = "drain" => task[w].kind \in {"other", "roots"}
          /\ label \in {"run", "offer", "peek", "complete"} => task[w].kind \in Terminators
    <3>1. CASE EnterIdle(w)
      BY Zenon, <3>1 DEF EnterIdle, Goto, control, manager, Terminators
    <3>2. CASE VisitRoots(w)
      BY Zenon, <3>2 DEF VisitRoots, Goto, control, manager
    <3>3. CASE Offer(w) \/ Terminate(w) \/ Peek(w)
      BY Zenon, <3>3 DEF Offer, Terminate, Peek, Stealing, Goto, control, manager, Terminators
    <3> QED
      BY Zenon, <1>5, <3>1, <3>2, <3>3
  <2>2. pc'[w] = label /\ label # "get"
    BY Zenon, <2>1 DEF Inv, Shape
  <2>3. PlaceOK(w)'
    BY <2>1, <2>2, <1>p DEF PlaceOK, Running, Terminators
  <2> QED
    BY Zenon, <2>1, <2>2, <2>3, MoveInv
<1>6. CASE SleepInGet(w) \/ Noop(w) \/ StayIdle(w) \/ SleepAtBarrier(w)
  BY Zenon, <1>6, FrameInv DEF SleepInGet, Noop, StayIdle, SleepAtBarrier, control, manager
<1>7. CASE DrainBda(w) \/ TakeRef(w) \/ ScanContainer(w) \/ NextSpace(w)
  BY Zenon, <1>7, FrameInv DEF DrainBda, TakeRef, ScanContainer, NextSpace, control, manager
<1>8. CASE DrainToTarget(w) \/ DrainTotally(w) \/ StealOne(w)
  BY Zenon, <1>8, FrameInv DEF DrainToTarget, DrainTotally, DrainClaimed, StealOne, control, manager
<1> QED
  BY Zenon, <1>1, <1>2, <1>3, <1>4, <1>5, <1>6, <1>7, <1>8 DEF Worker

-----------------------------------------------------------------------------
(* The list of tasks.                                                      *)

(* Part of a list: tasks of the kinds from rank a to rank b. *)
Part(q, a, b) ==
  /\ q \in Seq(Tasks) /\ Sorted(q)
  /\ \A i \in 1..Len(q) : /\ a <= Rank(q[i].kind) /\ Rank(q[i].kind) <= b
                          /\ q[i].number < active_workers

(* Two parts of the list, one after the other *)
LEMMA JoinParts ==
  ASSUME NEW q, NEW r, NEW a \in 0..7, NEW b \in 0..7, NEW c \in 0..7, NEW d \in 0..7,
         Part(q, a, b), Part(r, c, d), b < c, a <= b, c <= d
  PROVE  /\ Part(q \o r, a, d)
         /\ \A t : Occurs(t, q \o r) <=> Occurs(t, q) \/ Occurs(t, r)
<1> DEFINE s == q \o r
<1>1. /\ s \in Seq(Tasks) /\ Len(q) \in Nat /\ Len(r) \in Nat /\ Len(s) = Len(q) + Len(r)
      /\ \A i \in 1..Len(q) : s[i] = q[i] /\ i \in 1..Len(s) /\ q[i] \in Tasks
      /\ \A i \in 1..Len(r) : s[Len(q) + i] = r[i] /\ Len(q) + i \in 1..Len(s) /\ r[i] \in Tasks
  BY DEF Part
<1>2. ASSUME NEW i \in 1..Len(s)
      PROVE  \/ i \in 1..Len(q) /\ s[i] = q[i]
             \/ i - Len(q) \in 1..Len(r) /\ s[i] = r[i - Len(q)] /\ i > Len(q)
  BY <1>1 DEF Part
<1>3. \A i \in 1..Len(q) : /\ Rank(q[i].kind) \in 0..7
                           /\ a <= Rank(q[i].kind) /\ Rank(q[i].kind) <= b /\ q[i].number < active_workers
  BY Zenon, <1>1, RankType DEF Part, Tasks
<1>4. \A i \in 1..Len(r) : /\ Rank(r[i].kind) \in 0..7
                           /\ c <= Rank(r[i].kind) /\ Rank(r[i].kind) <= d /\ r[i].number < active_workers
  BY Zenon, <1>1, RankType DEF Part, Tasks
<1>5. ASSUME NEW i \in 1..Len(s)
      PROVE  a <= Rank(s[i].kind) /\ Rank(s[i].kind) <= d /\ s[i].number < active_workers
  <2>1. PICK m : m = Rank(s[i].kind)
    BY Zenon
  <2>2. /\ m \in 0..7 /\ s[i].number < active_workers
        /\ (a <= m /\ m <= b) \/ (c <= m /\ m <= d)
    BY Zenon, <1>2, <1>3, <1>4, <2>1
  <2>3. a <= m /\ m <= d
    BY <2>2
  <2> QED
    BY Zenon, <2>1, <2>2, <2>3
<1>6. Sorted(s)
  <2> SUFFICES ASSUME NEW i \in 1..Len(s), NEW j \in 1..Len(s), i < j
               PROVE  /\ Rank(s[i].kind) <= Rank(s[j].kind)
                      /\ s[i] = s[j] => s[i].kind = "idle"
                      /\ s[i].kind # "barrier"
    BY Zenon DEF Sorted
  <2>1. CASE i \in 1..Len(q) /\ j \in 1..Len(q)
    BY ZenonT(30), <2>1, <1>1 DEF Part, Sorted
  <2>2. CASE i \in 1..Len(q) /\ j \notin 1..Len(q)
    <3>1. PICK l \in 1..Len(r) : s[j] = r[l]
      BY Zenon, <1>2, <2>2
    <3>2. PICK m, n : m = Rank(q[i].kind) /\ n = Rank(r[l].kind)
      BY Zenon
    <3>3. m \in 0..7 /\ n \in 0..7 /\ m <= b /\ c <= n
      BY Zenon, <1>3, <1>4, <2>2, <3>2
    <3>4. m <= n /\ m # n /\ m # 7
      BY <3>3
    <3>5. q[i] # r[l] /\ q[i].kind # "barrier"
      BY Zenon, <3>2, <3>4, RankValues
    <3> QED
      BY Zenon, <3>1, <3>2, <3>4, <3>5, <2>2, <1>1
  <2>3. CASE i \notin 1..Len(q)
    <3>1. i - Len(q) \in 1..Len(r) /\ s[i] = r[i - Len(q)]
      BY Zenon, <1>2, <2>3
    <3>2. j - Len(q) \in 1..Len(r) /\ s[j] = r[j - Len(q)]
      <4>1. j \notin 1..Len(q)
        BY <1>1, <2>3
      <4> QED
        BY Zenon, <1>2, <4>1
    <3>3. i - Len(q) < j - Len(q)
      BY <1>1
    <3> QED
      BY Zenon, <3>1, <3>2, <3>3 DEF Part, Sorted
  <2> QED
    BY Zenon, <2>1, <2>2, <2>3
<1>7. ASSUME NEW t PROVE Occurs(t, s) <=> Occurs(t, q) \/ Occurs(t, r)
  <2>1. Occurs(t, s) => Occurs(t, q) \/ Occurs(t, r)
    BY Zenon, <1>2 DEF Occurs
  <2>2. Occurs(t, q) \/ Occurs(t, r) => Occurs(t, s)
    BY Zenon, <1>1 DEF Occurs
  <2> QED
    BY Zenon, <2>1, <2>2
<1>8. Part(s, a, d)
  BY Zenon, <1>1, <1>5, <1>6 DEF Part
<1> QED
  BY <1>7, <1>8

(* An empty part *)
LEMMA NoPart == ASSUME NEW a, NEW b PROVE Part(<<>>, a, b) /\ \A t : ~ Occurs(t, <<>>)
<1>1. <<>> \in Seq(Tasks) /\ Len(<<>>) = 0 /\ 1..0 = {}
  OBVIOUS
<1> QED
  BY Zenon, <1>1 DEF Part, Sorted, Occurs

(* A part that is queued on a condition *)
LEMMA IfPart ==
  ASSUME NEW q, NEW a, NEW b, Part(q, a, b), NEW condition \in BOOLEAN
  PROVE  /\ Part(If(condition, q), a, b)
         /\ \A t : Occurs(t, If(condition, q)) <=> condition /\ Occurs(t, q)
BY Zenon, NoPart DEF If

(* A task for each active worker *)
LEMMA PerWorkerPart ==
  ASSUME active_workers \in Nat, NEW kind \in Kinds \ {"idle", "noop", "barrier"}
  PROVE  /\ Part(PerWorker(kind), Rank(kind), Rank(kind))
         /\ \A t : Occurs(t, PerWorker(kind)) <=> \E n \in 0..(active_workers - 1) : t = Task(kind, n)
<1> DEFINE q == PerWorker(kind)
<1>1. /\ q \in Seq(Tasks) /\ Len(q) = active_workers
      /\ \A i \in 1..Len(q) : q[i] = Task(kind, i - 1) /\ i - 1 \in 0..(active_workers - 1)
                              /\ q[i].kind = kind /\ q[i].number = i - 1 /\ i - 1 < active_workers
  BY DEF PerWorker, Task, Tasks
<1>2. Rank(kind) \in 0..7
  BY Zenon, RankType
<1>3. Rank(kind) <= Rank(kind)
  BY <1>2
<1>4. Sorted(q)
  <2> SUFFICES ASSUME NEW i \in 1..Len(q), NEW j \in 1..Len(q), i < j
               PROVE  /\ Rank(q[i].kind) <= Rank(q[j].kind)
                      /\ q[i] = q[j] => q[i].kind = "idle"
                      /\ q[i].kind # "barrier"
    BY Zenon DEF Sorted
  <2>1. q[i].number # q[j].number
    BY <1>1
  <2> QED
    BY Zenon, <2>1, <1>1, <1>3
<1>5. Part(q, Rank(kind), Rank(kind))
  BY Zenon, <1>1, <1>3, <1>4 DEF Part
<1>6. ASSUME NEW t PROVE Occurs(t, q) <=> \E n \in 0..(active_workers - 1) : t = Task(kind, n)
  <2>1. ASSUME NEW n \in 0..(active_workers - 1) PROVE Occurs(Task(kind, n), q)
    <3>1. n + 1 \in 1..Len(q) /\ (n + 1) - 1 = n
      BY <1>1
    <3> QED
      BY Zenon, <3>1, <1>1 DEF Occurs
  <2> QED
    BY ZenonT(30), <2>1, <1>1 DEF Occurs
<1> QED
  BY <1>5, <1>6

(* Tasks of one kind, queued on a condition *)
LEMMA KindPart ==
  ASSUME active_workers \in Nat, NEW kind \in Kinds \ {"idle", "noop", "barrier"}, NEW condition \in BOOLEAN,
         NEW q, q = If(condition, PerWorker(kind)), NEW a, a = Rank(kind)
  PROVE  /\ Part(q, a, a)
         /\ \A t : Occurs(t, q) <=> condition /\ \E n \in 0..(active_workers - 1) : t = Task(kind, n)
BY Zenon, PerWorkerPart, IfPart

(* A single task *)
LEMMA OnePart ==
  ASSUME active_workers \in Nat \ {0}, NEW kind \in {"roots", "barrier"}
  PROVE  /\ Part(<<Task(kind, 0)>>, Rank(kind), Rank(kind))
         /\ \A t : Occurs(t, <<Task(kind, 0)>>) <=> t = Task(kind, 0)
<1> DEFINE q == <<Task(kind, 0)>>
<1>1. /\ q \in Seq(Tasks) /\ Len(q) = 1 /\ 1 \in 1..Len(q)
      /\ \A i \in 1..Len(q) : q[i] = Task(kind, 0) /\ q[i].kind = kind /\ q[i].number < active_workers
      /\ \A i, j \in 1..Len(q) : ~ (i < j)
  BY DEF Task, Tasks, Kinds
<1>2. Rank(kind) \in 0..7
  BY Zenon, RankType DEF Kinds
<1>3. Rank(kind) <= Rank(kind)
  BY <1>2
<1>4. Part(q, Rank(kind), Rank(kind))
  BY Zenon, <1>1, <1>3 DEF Part, Sorted
<1>5. \A t : Occurs(t, q) <=> t = Task(kind, 0)
  BY Zenon, <1>1 DEF Occurs
<1> QED
  BY <1>4, <1>5

(* A kind that is not among the ranks of a part does not occur in it. *)
LEMMA NotInPart ==
  ASSUME NEW q, NEW a \in 0..7, NEW b \in 0..7, Part(q, a, b), NEW kind \in Kinds, NEW n,
         Rank(kind) < a \/ Rank(kind) > b
  PROVE  ~ Occurs(Task(kind, n), q)
<1> SUFFICES ASSUME NEW i \in 1..Len(q), q[i] = Task(kind, n) PROVE FALSE
  BY Zenon DEF Occurs
<1>1. PICK m : m = Rank(kind)
  BY Zenon
<1>2. m \in 0..7
  BY Zenon, <1>1, RankType
<1>3. q[i].kind = kind
  BY DEF Task
<1>4. a <= m /\ m <= b
  BY Zenon, <1>1, <1>3 DEF Part
<1> QED
  BY <1>1, <1>2, <1>4

(* What invoke_no_policy queues. *)
LEMMA ListPart ==
  ASSUME active_workers \in Nat, active_workers >= 2
  PROVE  /\ Part(ScavengeList, 1, 7)
         /\ Occurs(Task("steal", 0), ScavengeList)
         /\ refs > 0 => \A n \in 0..(active_workers - 1) : Occurs(Task("refs", n), ScavengeList)
         /\ \A n : Occurs(Task("containers", n), ScavengeList) <=>
                     ~ is_bdaspace_empty /\ n \in 0..(active_workers - 1)
<1> DEFINE p1 == If(active_workers > 1, PerWorker("steal_bda"))
           p2 == If(~ is_bdaspace_empty, PerWorker("containers"))
           p3 == If(refs > 0, PerWorker("refs"))
           p4 == If(~ non_bda_space_empty, PerWorker("other"))
           p5 == <<Task("roots", 0)>>
           p6 == If(active_workers > 1, PerWorker("steal"))
           p7 == <<Task("barrier", 0)>>
<1> DEFINE Of(t, k) == \E n \in 0..(active_workers - 1) : t = Task(k, n)
<1>k. \A k \in {"steal_bda", "containers", "refs", "other", "steal"} : k \in Kinds \ {"idle", "noop", "barrier"}
  BY Zenon DEF Kinds
<1>b. (active_workers > 1) = TRUE /\ (~ is_bdaspace_empty) \in BOOLEAN /\ (refs > 0) \in BOOLEAN /\ (~ non_bda_space_empty) \in BOOLEAN
  BY DEF is_bdaspace_empty, non_bda_space_empty
<1>1. Part(p1, 1, 1)
  BY Zenon, <1>k, <1>b, KindPart, RankValues
<1>2. Part(p2, 2, 2) /\ \A t : Occurs(t, p2) <=> ~ is_bdaspace_empty /\ Of(t, "containers")
  <2>1. PICK c \in BOOLEAN : c = (~ is_bdaspace_empty)
    BY Zenon, <1>b
  <2>2. p2 = If(c, PerWorker("containers")) /\ 2 = Rank("containers") /\ "containers" \in Kinds \ {"idle", "noop", "barrier"}
    BY Zenon, <2>1, <1>k, RankValues
  <2>3. Part(p2, 2, 2) /\ \A t : Occurs(t, p2) <=> c /\ Of(t, "containers")
    BY Zenon, <2>2, KindPart
  <2> QED
    BY Zenon, <2>1, <2>3
<1>3. Part(p3, 3, 3) /\ \A t : Occurs(t, p3) <=> refs > 0 /\ Of(t, "refs")
  <2>1. PICK c \in BOOLEAN : c = (refs > 0)
    BY Zenon, <1>b
  <2>2. p3 = If(c, PerWorker("refs")) /\ 3 = Rank("refs") /\ "refs" \in Kinds \ {"idle", "noop", "barrier"}
    BY Zenon, <2>1, <1>k, RankValues
  <2>3. Part(p3, 3, 3) /\ \A t : Occurs(t, p3) <=> c /\ Of(t, "refs")
    BY Zenon, <2>2, KindPart
  <2> QED
    BY Zenon, <2>1, <2>3
<1>4. Part(p4, 4, 4)
  BY Zenon, <1>k, <1>b, KindPart, RankValues
<1>5. Part(p5, 5, 5)
  BY OnePart, RankValues
<1>6. Part(p6, 6, 6) /\ \A t : Occurs(t, p6) <=> Of(t, "steal")
  BY ZenonT(30), <1>k, <1>b, KindPart, RankValues
<1>7. Part(p7, 7, 7)
  BY OnePart, RankValues
<1> DEFINE l2 == p1 \o p2
           l3 == l2 \o p3
           l4 == l3 \o p4
           l5 == l4 \o p5
           l6 == l5 \o p6
<1> HIDE DEF p1, p2, p3, p4, p5, p6, p7
<1>12. Part(l2, 1, 2) /\ \A t : Occurs(t, l2) <=> Occurs(t, p1) \/ Occurs(t, p2)
  BY <1>1, <1>2, JoinParts
<1> HIDE DEF l2
<1>13. Part(l3, 1, 3) /\ \A t : Occurs(t, l3) <=> Occurs(t, l2) \/ Occurs(t, p3)
  BY <1>12, <1>3, JoinParts
<1> HIDE DEF l3
<1>14. Part(l4, 1, 4) /\ \A t : Occurs(t, l4) <=> Occurs(t, l3) \/ Occurs(t, p4)
  BY <1>13, <1>4, JoinParts
<1> HIDE DEF l4
<1>15. Part(l5, 1, 5) /\ \A t : Occurs(t, l5) <=> Occurs(t, l4) \/ Occurs(t, p5)
  BY <1>14, <1>5, JoinParts
<1> HIDE DEF l5
<1>16. Part(l6, 1, 6) /\ \A t : Occurs(t, l6) <=> Occurs(t, l5) \/ Occurs(t, p6)
  BY <1>15, <1>6, JoinParts
<1> HIDE DEF l6
<1>17. Part(l6 \o p7, 1, 7) /\ \A t : Occurs(t, l6 \o p7) <=> Occurs(t, l6) \/ Occurs(t, p7)
  BY <1>16, <1>7, JoinParts
<1>18. ScavengeList = l6 \o p7
  BY Zenon DEF ScavengeList, l6, l5, l4, l3, l2, p1, p2, p3, p4, p5, p6, p7
<1>19. Occurs(Task("steal", 0), ScavengeList)
  <2>1. 0 \in 0..(active_workers - 1)
    OBVIOUS
  <2> QED
    BY Zenon, <2>1, <1>6, <1>16, <1>17, <1>18
<1>20. refs > 0 => \A n \in 0..(active_workers - 1) : Occurs(Task("refs", n), ScavengeList)
  BY ZenonT(30), <1>3, <1>13, <1>14, <1>15, <1>16, <1>17, <1>18
<1>21. ASSUME NEW n
       PROVE  Occurs(Task("containers", n), ScavengeList) <=> ~ is_bdaspace_empty /\ n \in 0..(active_workers - 1)
  <2>1. /\ ~ Occurs(Task("containers", n), p1) /\ ~ Occurs(Task("containers", n), p3)
        /\ ~ Occurs(Task("containers", n), p4) /\ ~ Occurs(Task("containers", n), p5)
        /\ ~ Occurs(Task("containers", n), p6) /\ ~ Occurs(Task("containers", n), p7)
    <3>1. "containers" \in Kinds /\ Rank("containers") = 2
      BY Zenon, RankValues DEF Kinds
    <3>2. \A q : \A a, b \in 0..7 : Part(q, a, b) /\ (2 < a \/ 2 > b) => ~ Occurs(Task("containers", n), q)
      BY Zenon, <3>1, NotInPart
    <3>3. 1 \in 0..7 /\ 2 > 1 /\ \A a \in 3..7 : a \in 0..7 /\ 2 < a
      OBVIOUS
    <3>4. 3 \in 3..7 /\ 4 \in 3..7 /\ 5 \in 3..7 /\ 6 \in 3..7 /\ 7 \in 3..7
      OBVIOUS
    <3> QED
      BY Zenon, <1>1, <1>3, <1>4, <1>5, <1>6, <1>7, <3>2, <3>3, <3>4
  <2>2. Of(Task("containers", n), "containers") <=> n \in 0..(active_workers - 1)
    BY Zenon DEF Task
  <2> QED
    BY ZenonT(30), <2>1, <2>2, <1>2, <1>12, <1>13, <1>14, <1>15, <1>16, <1>17, <1>18
<1> QED
  BY Zenon, <1>17, <1>18, <1>19, <1>20, <1>21

-----------------------------------------------------------------------------
(* The steps of the VM thread *)

(* Steps of the VM thread between collections *)
LEMMA BetweenInv ==
  ASSUME Inv, Gang', Resting, queue = <<>>, vm' \notin {"queue", "wait"}, fin' = TRUE,
         UNCHANGED <<idle_workers, busy_workers, queue, blocker, pc, task>>
  PROVE  Inv'
<1>1. InHand' = InHand /\ Idlers' = Idlers /\ IdleQueued' = IdleQueued
  BY Zenon DEF InHand, Idlers, IdleQueued
<1>2. Still /\ Still'
  BY Zenon DEF Inv, Phases, Still
<1>3. Shape'
  <2>1. ASSUME NEW w \in Workers PROVE PlaceOK(w)'
    <3>1. PlaceOK(w) /\ ~ Running(w, "barrier")
      BY <1>2 DEF Inv, Shape, Still, Running
    <3> QED
      BY Zenon, <3>1 DEF PlaceOK, Running
  <2> QED
    BY Zenon, <2>1 DEF Inv, Shape
<1>4. Counts' /\ Order'
  BY Zenon, <1>1 DEF Inv, Counts, Order, Current, Queued, Occurs
<1>5. Phases' /\ Numbers'
  BY Zenon, <1>2 DEF Phases, Numbers
<1> QED
  BY Zenon, <1>3, <1>4, <1>5 DEF Inv

(* The idle tasks that an empty queue gets *)
LEMMA IdleTasks ==
  ASSUME NEW n \in Nat
  PROVE  LET q == <<>> \o [i \in 1..n |-> Task("idle", 0)]
         IN  /\ q \in Seq(Tasks) /\ Len(q) = n
             /\ \A i \in 1..Len(q) : q[i].kind = "idle" /\ q[i].number = 0
<1>0. Task("idle", 0) \in Tasks /\ Task("idle", 0).kind = "idle" /\ Task("idle", 0).number = 0
  BY DEF Task, Tasks, Kinds
<1>1. PICK t \in Tasks : t = Task("idle", 0) /\ t.kind = "idle" /\ t.number = 0
  BY Zenon, <1>0
<1>2. LET q == <<>> \o [i \in 1..n |-> t]
      IN  q \in Seq(Tasks) /\ Len(q) = n /\ \A i \in 1..n : q[i] = t
  OBVIOUS
<1> QED
  BY Zenon, <1>1, <1>2

(* Before the tasks of a collection are queued only idle tasks are. *)
LEMMA QueueIdleInv == ASSUME Inv, Gang', QueueIdleTasks PROVE Inv'
<1>1. /\ vm = "idle" /\ vm' = "queue" /\ idle_workers' = idle_workers + more
      /\ UNCHANGED <<fin, active_workers, busy_workers, blocker, pc, task>>
      /\ queue' = queue \o [i \in 1..more |-> Task("idle", 0)]
  BY Zenon DEF QueueIdleTasks
<1>2. queue = <<>> /\ Still /\ fin
  BY Zenon, <1>1 DEF Inv, Phases, Resting
<1>3. more \in Nat /\ active_workers \in Nat \ {0} /\ idle_workers \in Int
  BY <1>1 DEF Inv, Gang
<1>4. /\ queue' \in Seq(Tasks) /\ Len(queue') = more
      /\ \A i \in 1..Len(queue') : queue'[i].kind = "idle" /\ queue'[i].number < active_workers
  <2>1. 0 < active_workers
    BY <1>3
  <2> QED
    BY Zenon, <2>1, <1>1, <1>2, <1>3, IdleTasks
<1>5. InHand' = InHand /\ Idlers' = Idlers
  BY Zenon, <1>1 DEF InHand, Idlers
<1>6. IdleQueued' = more
  <2>1. IdleQueued = 0
    BY <1>2 DEF Inv, Counts
  <2>2. PICK n \in Nat : n = Cardinality(Idlers) /\ n = Cardinality(Idlers)'
    BY Zenon, <1>5, SetsFinite
  <2>3. IdleQueued = idle_workers - n
    BY Zenon, <2>2 DEF IdleQueued
  <2>4. IdleQueued' = idle_workers' - n
    BY Zenon, <2>2 DEF IdleQueued
  <2> QED
    BY <2>1, <2>3, <2>4, <1>1, <1>3
<1>7. Still' /\ \A w \in Workers : ~ Current(w)'
  BY Zenon, <1>1, <1>2 DEF Still, Current
<1>8. Shape'
  <2>1. ASSUME NEW w \in Workers PROVE PlaceOK(w)'
    <3>1. PlaceOK(w) /\ ~ Running(w, "barrier")
      BY <1>2 DEF Inv, Shape, Still, Running
    <3> QED
      BY Zenon, <1>1, <3>1 DEF PlaceOK, Running
  <2> QED
    BY Zenon, <1>1, <1>4, <2>1 DEF Inv, Shape
<1>9. Counts'
  <2>1. more \in 0..more /\ \A i \in 1..more : i <= more
    BY <1>3
  <2> QED
    BY Zenon, <2>1, <1>1, <1>4, <1>5, <1>6 DEF Inv, Counts
<1>10. Order'
  <2>1. Sorted(queue')
    <3>1. Rank("idle") <= Rank("idle")
      BY RankValues
    <3> QED
      BY <3>1, <1>4 DEF Sorted
  <2> QED
    BY Zenon, <2>1, <1>7 DEF Order
<1>11. Phases' /\ Numbers'
  BY Zenon, <1>1, <1>2, <1>4, <1>6, <1>7 DEF Phases, Numbers
<1> QED
  BY Zenon, <1>8, <1>9, <1>10, <1>11 DEF Inv

(* The list of a collection is queued behind the idle tasks. *)
LEMMA QueueScavengeInv ==
  ASSUME Inv, Gang', QueueScavenge
  PROVE  Inv' /\ Still /\ \A t : Queued(t)' <=> Queued(t) \/ Occurs(t, ScavengeList)
<1>1. /\ vm = "queue" /\ vm' = "wait" /\ queue' = queue \o ScavengeList /\ fin' = TRUE
      /\ UNCHANGED <<active_workers, idle_workers, busy_workers, blocker, pc, task>>
  BY Zenon DEF QueueScavenge
<1>2. active_workers \in Nat /\ active_workers >= 2
  BY <1>1 DEF Inv, Gang
<1>3. Still /\ queue \in Seq(Tasks) /\ IdleQueued = Len(queue)
  BY Zenon, <1>1 DEF Inv, Phases, Resting, Shape
<1>4. \A i \in 1..Len(queue) : queue[i].kind = "idle" /\ queue[i].number < active_workers
  BY <1>1, <1>3 DEF Inv, Counts, Numbers
<1>5. Part(queue, 0, 0)
  <2>1. 0 <= Rank("idle") /\ Rank("idle") <= 0
    BY RankValues
  <2> QED
    BY Zenon, <2>1, <1>3, <1>4 DEF Part, Inv, Order
<1>6. Part(ScavengeList, 1, 7)
  BY Zenon, <1>2, ListPart
<1>7. Part(queue', 0, 7) /\ \A t : Queued(t)' <=> Queued(t) \/ Occurs(t, ScavengeList)
  <2>1. Part(queue \o ScavengeList, 0, 7)
        /\ \A t : Occurs(t, queue \o ScavengeList) <=> Occurs(t, queue) \/ Occurs(t, ScavengeList)
    BY <1>5, <1>6, JoinParts
  <2> QED
    BY Zenon, <2>1, <1>1 DEF Part, Queued, Occurs
<1>8. InHand' = InHand /\ Idlers' = Idlers /\ IdleQueued' = IdleQueued
  BY Zenon, <1>1 DEF InHand, Idlers, IdleQueued
<1>9. Still' /\ \A w \in Workers : ~ Current(w)'
  BY Zenon, <1>1, <1>3 DEF Still, Current
<1>10. Shape'
  <2>1. ASSUME NEW w \in Workers PROVE PlaceOK(w)'
    <3>1. PlaceOK(w) /\ ~ Running(w, "barrier")
      BY <1>3 DEF Inv, Shape, Still, Running
    <3> QED
      BY Zenon, <1>1, <3>1 DEF PlaceOK, Running
  <2> QED
    BY Zenon, <1>1, <1>7, <2>1 DEF Inv, Shape, Part
<1>11. Counts'
  <2>1. /\ Len(queue) \in Nat /\ Len(queue') = Len(queue) + Len(ScavengeList) /\ Len(ScavengeList) \in Nat
        /\ \A i \in 1..Len(queue) : queue'[i] = queue[i]
        /\ \A i \in 1..Len(queue') : i > Len(queue) =>
             i - Len(queue) \in 1..Len(ScavengeList) /\ queue'[i] = ScavengeList[i - Len(queue)]
    BY <1>1, <1>3, <1>6 DEF Part
  <2>2. \A i \in 1..Len(ScavengeList) : ScavengeList[i].kind # "idle"
    <3>1. ~ (1 <= Rank("idle"))
      BY RankValues
    <3> QED
      BY Zenon, <3>1, <1>6 DEF Part
  <2>3. \A i \in 1..Len(queue') : queue'[i].kind = "idle" <=> i <= IdleQueued
    BY <2>1, <2>2, <1>3, <1>4
  <2>4. IdleQueued \in 0..Len(queue')
    BY <2>1, <1>3
  <2> QED
    BY Zenon, <2>3, <2>4, <1>1, <1>8 DEF Inv, Counts
<1>12. Order' /\ Phases' /\ Numbers'
  BY Zenon, <1>1, <1>7, <1>9 DEF Order, Phases, Numbers, Part
<1> QED
  BY Zenon, <1>3, <1>7, <1>10, <1>11, <1>12 DEF Inv

(* Every step of the VM thread keeps the invariant. *)
LEMMA VMThreadInv == ASSUME Inv, VMThread PROVE Inv'
<1>g. Gang'
  BY Zenon, GangVMThread DEF Inv
<1>1. CASE StartScavenge \/ CountIdleWorkers \/ EndScavenge
  <2>1. /\ vm \in {"mutator", "gang", "post"} /\ vm' \notin {"queue", "wait"}
        /\ UNCHANGED <<fin, idle_workers, busy_workers, queue, blocker, pc, task>>
    BY Zenon, <1>1 DEF StartScavenge, CountIdleWorkers, EndScavenge
  <2>2. Resting /\ queue = <<>> /\ fin = TRUE
    BY Zenon, <2>1 DEF Inv, Phases, Resting, Shape
  <2> QED
    BY Zenon, <1>g, <2>1, <2>2, BetweenInv
<1>2. CASE WaitFor
  <2>1. Resting /\ queue = <<>> /\ vm' = "post" /\ fin' = TRUE
    BY Zenon, <1>2 DEF WaitFor, Inv, Phases, Resting
  <2> QED
    BY Zenon, <1>g, <1>2, <2>1, BetweenInv DEF WaitFor, manager
<1> QED
  BY Zenon, <1>g, <1>1, <1>2, QueueIdleInv, QueueScavengeInv DEF VMThread

(* Before the first collection there is no task. *)
LEMMA InitInv == Init => Inv
<1> SUFFICES ASSUME Init PROVE Inv
  BY Zenon
<1>1. Gang
  BY Zenon, GangInit
<1>2. /\ queue = <<>> /\ blocker = NoWorker /\ fin = TRUE /\ vm = "mutator" /\ idle_workers = 0 /\ busy_workers = 0
      /\ pc = [w \in Workers |-> "get"] /\ task = [w \in Workers |-> NoTask] /\ NoTask.kind = "noop"
  BY Zenon DEF Init, NoTask, Task
<1>3. \A w \in Workers : pc[w] = "get" /\ task[w] = NoTask
  BY Zenon, <1>2
<1>4. Idlers = {} /\ InHand = {}
  BY <1>2, <1>3 DEF Idlers, InHand
<1>5. IdleQueued = 0 /\ Cardinality(InHand) = 0
  BY <1>2, <1>4, FS_EmptySet DEF IdleQueued
<1>6. Len(queue) = 0 /\ queue \in Seq(Tasks) /\ 1..0 = {}
  BY <1>2
<1>7. Shape
  <2>1. \A w \in Workers : PlaceOK(w)
    BY <1>2, <1>3, TasksAssumption DEF PlaceOK, Running
  <2> QED
    BY <2>1, <1>2, <1>6 DEF Shape
<1>8. Counts
  BY <1>2, <1>5, <1>6 DEF Counts
<1>9. Order /\ Phases /\ Numbers
  BY Zenon, <1>2, <1>3, <1>6 DEF Order, Sorted, Current, Phases, Still, Numbers
<1> QED
  BY Zenon, <1>1, <1>7, <1>8, <1>9 DEF Inv
=============================================================================
