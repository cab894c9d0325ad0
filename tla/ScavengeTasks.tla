--------------------------- MODULE ScavengeTasks ---------------------------
(***************************************************************************)
(* The tasks of a young collection: how the VM thread queues them          *)
(* (PSScavenge::invoke_no_policy), how workers take, run and complete them *)
(* (GCTaskManager, GCTaskThread, BDARefRootsTask, StealBDARefTask,         *)
(* OldToYoungBDARootsTask, StealTask, IdleGCTask, WaitForBarrierGCTask),   *)
(* and how they agree that no work is left (ParallelTaskTerminator).       *)
(*                                                                         *)
(* Grain: one step per section under the monitor of the task manager, per  *)
(* access to a terminator's count, per root and per stack entry.  A worker *)
(* in monitor()->wait() is asleep until a notify_all.  A stack is the      *)
(* number of its entries; processing an entry may find new ones as long as *)
(* there is supply, the objects that were not reached yet.                 *)
(***************************************************************************)
EXTENDS Integers, Sequences, FiniteSets

CONSTANTS
  Workers,       \* GCTaskThreads
  NoWorker,      \* sentinel_worker
  BdaSpaces,     \* number of bda spaces; space 0 is the general space
  general_used,  \* whether the general space holds objects besides containers
  target,        \* PSPromotionManager::_target_stack_size
  MaxRefs,       \* bound: Refs that are queued, and containers of a space
  MaxSupply,     \* bound: entries that are ever found
  MaxScavenges   \* bound: collections

ASSUME TasksAssumption ==
  /\ IsFiniteSet(Workers) /\ Cardinality(Workers) >= 2
  /\ NoWorker \notin Workers
  /\ BdaSpaces \in Nat \ {0}
  /\ general_used \in BOOLEAN
  /\ target \in Nat /\ MaxRefs \in Nat /\ MaxSupply \in Nat /\ MaxScavenges \in Nat

VARIABLES
  \* the VM thread
  vm,            \* where it is
  scavenges,     \* collections so far
  more,          \* more_inactive_workers
  fin,           \* should_wait of the barrier task
  \* the task manager
  active_workers, idle_workers, busy_workers,
  queue,         \* tasks that no worker has taken
  blocker,       \* blocking_worker
  should_wait,   \* should_wait of _idle_inactive_task
  resource_flag, \* workers that are to release their resources
  asleep,        \* workers that wait on the monitor
  \* workers
  pc, task,
  at,            \* the container a worker is at: a space, and a place in its queue
  offered,       \* _offered_termination of both terminators
  \* work
  refs,          \* Refs in the queue of bda references
  supply,
  bda_stack, claimed_stack,
  containers,    \* containers of a space, in the order of its queue
  existed,       \* containers when the tasks were queued
  last,          \* last_before_gc of a space, 0 for NULL
  scanned        \* how often each container has been scanned in this collection

manager == <<active_workers, idle_workers, busy_workers, queue, blocker, should_wait, resource_flag>>
control == <<vm, scavenges, more, fin>>
work == <<refs, supply, bda_stack, claimed_stack, containers, existed, last, scanned>>
vars == <<control, manager, asleep, pc, task, at, offered, work>>

workers == Cardinality(Workers)
Spaces == 0..BdaSpaces
Task(kind, n) == [kind |-> kind, number |-> n]
NoTask == Task("noop", 0)
Nowhere == [space |-> 0, place |-> 0]
Kinds == {"idle", "steal_bda", "containers", "refs", "other", "roots", "steal", "barrier", "noop"}
Terminators == {"steal_bda", "steal"}
MaxContainers == MaxRefs

TypeOK ==
  /\ vm \in {"mutator", "gang", "idle", "queue", "wait", "post"}
  /\ scavenges \in 0..MaxScavenges /\ more \in 0..workers /\ fin \in BOOLEAN
  /\ active_workers \in 0..workers /\ idle_workers \in 0..workers /\ busy_workers \in 0..workers
  /\ queue \in Seq([kind : Kinds, number : Nat])
  /\ blocker \in Workers \cup {NoWorker}
  /\ should_wait \in BOOLEAN
  /\ resource_flag \subseteq Workers /\ asleep \subseteq Workers
  /\ pc \in [Workers -> {"get", "run", "drain", "wait", "offer", "peek", "complete"}]
  /\ task \in [Workers -> [kind : Kinds, number : Nat]]
  /\ at \in [Workers -> [space : 0..(BdaSpaces + 1), place : Int]]
  /\ offered \in [Terminators -> 0..workers]
  /\ refs \in 0..MaxRefs /\ supply \in 0..MaxSupply
  /\ bda_stack \in [Workers -> 0..MaxSupply] /\ claimed_stack \in [Workers -> Nat]
  /\ containers \in [Spaces -> 0..MaxContainers] /\ last \in [Spaces -> 0..MaxContainers]
  /\ existed \in [Spaces -> 0..MaxContainers]
  /\ scanned \in [Spaces -> [1..MaxContainers -> Nat]]

Init ==
  /\ vm = "mutator" /\ scavenges = 0 /\ more = 0 /\ fin = TRUE
  /\ active_workers = 0 /\ idle_workers = 0 /\ busy_workers = 0
  /\ queue = <<>> /\ blocker = NoWorker /\ should_wait = TRUE
  /\ resource_flag = {} /\ asleep = {}
  /\ pc = [w \in Workers |-> "get"]
  /\ task = [w \in Workers |-> NoTask]
  /\ at = [w \in Workers |-> Nowhere]
  /\ offered = [t \in Terminators |-> 0]
  /\ refs = 0 /\ supply = MaxSupply
  /\ bda_stack = [w \in Workers |-> 0] /\ claimed_stack = [w \in Workers |-> 0]
  /\ containers = [s \in Spaces |-> 0] /\ last = [s \in Spaces |-> 0]
  /\ existed = [s \in Spaces |-> 0]
  /\ scanned = [s \in Spaces |-> [c \in 1..MaxContainers |-> 0]]

-----------------------------------------------------------------------------
(* The VM thread                                                           *)

(* release_all_resources, set_active_gang; what calc_active_workers        *)
(* returns depends on the Java threads and on the heap: at least two.      *)
StartScavenge ==
  /\ vm = "mutator" /\ scavenges < MaxScavenges
  /\ scavenges' = scavenges + 1
  /\ refs' \in 0..MaxRefs /\ \A s \in Spaces : containers[s] + refs' <= MaxContainers
  /\ resource_flag' = Workers
  /\ active_workers' \in 2..workers
  /\ vm' = "gang"
  /\ UNCHANGED <<more, fin, idle_workers, busy_workers, queue, blocker, should_wait, asleep, pc,
                 task, at, offered, supply, bda_stack, claimed_stack, containers, existed, last, scanned>>

(* Fault: workers that are still idle are not counted. *)
CountIdleWorkers_Ignored ==
  /\ vm = "gang"
  /\ should_wait' = TRUE
  /\ more' = workers - active_workers
  /\ vm' = "idle"
  /\ UNCHANGED <<scavenges, fin, active_workers, idle_workers, busy_workers, queue, blocker,
                 resource_flag, asleep, pc, task, at, offered, work>>

(* task_idle_workers under the monitor: workers that an earlier collection *)
(* made idle stay idle, and fewer are active than were asked for.          *)
CountIdleWorkers ==
  LET more_inactive_workers == workers - active_workers - idle_workers
  IN  /\ vm = "gang"
      /\ should_wait' = TRUE
      /\ IF more_inactive_workers < 0
           THEN active_workers' = active_workers + more_inactive_workers /\ more' = 0
           ELSE more' = more_inactive_workers /\ UNCHANGED active_workers
      /\ vm' = "idle"
      /\ UNCHANGED <<scavenges, fin, idle_workers, busy_workers, queue, blocker, resource_flag,
                     asleep, pc, task, at, offered, work>>

(* The rest of task_idle_workers, and add_list *)
QueueIdleTasks ==
  /\ vm = "idle"
  /\ idle_workers' = idle_workers + more
  /\ queue' = queue \o [i \in 1..more |-> Task("idle", 0)]
  /\ asleep' = {}
  /\ vm' = "queue"
  /\ UNCHANGED <<scavenges, more, fin, active_workers, busy_workers, blocker, should_wait,
                 resource_flag, pc, task, at, offered, work>>

(* The list of tasks, in the order in which invoke_no_policy builds it *)
PerWorker(kind) == [i \in 1..active_workers |-> Task(kind, i - 1)]
If(condition, tasks) == IF condition THEN tasks ELSE <<>>
non_bda_space_empty == containers[0] = 0 /\ ~ general_used
is_bdaspace_empty == \A s \in Spaces \ {0} : containers[s] = 0

(* Fault: the Refs come after the other roots. *)
ScavengeList_RefsLast ==
  If(active_workers > 1, PerWorker("steal_bda"))
    \o If(~ is_bdaspace_empty, PerWorker("containers"))
    \o If(~ non_bda_space_empty, PerWorker("other"))
    \o <<Task("roots", 0)>>
    \o If(refs > 0, PerWorker("refs"))
    \o If(active_workers > 1, PerWorker("steal"))
    \o <<Task("barrier", 0)>>

ScavengeList ==
  If(active_workers > 1, PerWorker("steal_bda"))
    \o If(~ is_bdaspace_empty, PerWorker("containers"))
    \o If(refs > 0, PerWorker("refs"))
    \o If(~ non_bda_space_empty, PerWorker("other"))
    \o <<Task("roots", 0)>>
    \o If(active_workers > 1, PerWorker("steal"))
    \o <<Task("barrier", 0)>>

(* invoke_no_policy up to execute_and_wait: save_tops_for_scavenge (when   *)
(* there are tasks to scan containers), add_list.                          *)
QueueScavenge ==
  /\ vm = "queue"
  /\ queue' = queue \o ScavengeList
  /\ existed' = containers
  /\ last' = IF is_bdaspace_empty THEN last ELSE containers
  /\ scanned' = [s \in Spaces |-> [c \in 1..MaxContainers |-> 0]]
  /\ offered' = [t \in Terminators |-> 0]
  /\ fin' = TRUE
  /\ asleep' = {}
  /\ vm' = "wait"
  /\ UNCHANGED <<scavenges, more, active_workers, idle_workers, busy_workers, blocker, should_wait,
                 resource_flag, pc, task, at, refs, supply, bda_stack, claimed_stack, containers>>

(* wait_for *)
WaitFor ==
  /\ vm = "wait" /\ ~ fin
  /\ fin' = TRUE
  /\ vm' = "post"
  /\ UNCHANGED <<scavenges, more, manager, asleep, pc, task, at, offered, work>>

(* The end of the collection: release_idle_workers, clear_refqueue *)
EndScavenge ==
  /\ vm = "post"
  /\ should_wait' = FALSE
  /\ asleep' = {}
  /\ refs' = 0
  /\ vm' = "mutator"
  /\ UNCHANGED <<scavenges, more, fin, active_workers, idle_workers, busy_workers, queue, blocker,
                 resource_flag, pc, task, at, offered, supply, bda_stack, claimed_stack,
                 containers, existed, last, scanned>>

VMThread ==
  \/ StartScavenge \/ CountIdleWorkers \/ QueueIdleTasks \/ QueueScavenge \/ WaitFor \/ EndScavenge

-----------------------------------------------------------------------------
(* Taking and completing tasks: GCTaskThread::run                          *)

(* get_task: wait, or take the task at the head of the queue.  A barrier   *)
(* blocks the queue.                                                       *)
MustWait(w) == blocker # NoWorker \/ (queue = <<>> /\ w \notin resource_flag)
Awake(w, label) == pc[w] = label /\ w \notin asleep

SleepInGet(w) ==
  /\ Awake(w, "get") /\ MustWait(w)
  /\ asleep' = asleep \cup {w}
  /\ UNCHANGED <<control, manager, pc, task, at, offered, work>>

GetTask(w) ==
  LET t == Head(queue)
  IN  /\ Awake(w, "get") /\ ~ MustWait(w) /\ queue # <<>>
      /\ task' = [task EXCEPT ![w] = t]
      /\ at' = [at EXCEPT ![w] = IF t.kind = "containers"
                                  THEN [space |-> 0, place |-> last[0] - t.number] ELSE Nowhere]
      /\ queue' = Tail(queue)
      /\ blocker' = IF t.kind = "barrier" THEN w ELSE blocker
      /\ busy_workers' = IF t.kind = "idle" THEN busy_workers ELSE busy_workers + 1
      /\ pc' = [pc EXCEPT ![w] = "run"]
      /\ UNCHANGED <<control, active_workers, idle_workers, should_wait, resource_flag, asleep,
                     offered, work>>

(* With nothing queued, a worker that is to release its resources gets a   *)
(* noop, completes it at once and sets its flag back.                      *)
Noop(w) ==
  /\ Awake(w, "get") /\ ~ MustWait(w) /\ queue = <<>>
  /\ asleep' = {}
  /\ resource_flag' = resource_flag \ {w}
  /\ UNCHANGED <<control, active_workers, idle_workers, busy_workers, queue, blocker, should_wait,
                 pc, task, at, offered, work>>

Goto(w, label) == pc' = [pc EXCEPT ![w] = label]

(* do_it has returned, or may: a task is done when its last step is. *)
Running(w, kind) == pc[w] = "run" /\ task[w].kind = kind

Done(w) ==
  \/ pc[w] = "complete"
  \/ Running(w, "refs") /\ bda_stack[w] = 0 /\ refs = 0
  \/ Running(w, "containers") /\ at[w].space \notin Spaces
  \/ pc[w] = "drain" /\ claimed_stack[w] <= target

(* should_release_resources and note_release, with the step that ends the  *)
(* task: only w looks at its flag.                                         *)
Release(w) ==
  /\ resource_flag' = resource_flag \ {w}
  /\ task' = [task EXCEPT ![w] = NoTask] /\ at' = [at EXCEPT ![w] = Nowhere]
  /\ Goto(w, "get")

(* Fault: the sleepers are not told. *)
NoteCompletion_Silent(w) ==
  /\ Done(w)
  /\ blocker' = IF blocker = w THEN NoWorker ELSE blocker
  /\ busy_workers' = busy_workers - 1
  /\ Release(w)
  /\ UNCHANGED <<control, active_workers, idle_workers, queue, should_wait, asleep, offered, work>>

(* note_completion *)
NoteCompletion(w) ==
  /\ Done(w)
  /\ blocker' = IF blocker = w THEN NoWorker ELSE blocker
  /\ busy_workers' = busy_workers - 1
  /\ asleep' = {}
  /\ Release(w)
  /\ UNCHANGED <<control, active_workers, idle_workers, queue, should_wait, offered, work>>

(* IdleGCTask::do_it: tell the others, then sleep until release_idle_workers *)
EnterIdle(w) ==
  /\ pc[w] = "run" /\ task[w].kind = "idle"
  /\ asleep' = {}
  /\ Goto(w, "wait")
  /\ UNCHANGED <<control, manager, task, at, offered, work>>

StayIdle(w) ==
  /\ Awake(w, "wait") /\ should_wait
  /\ asleep' = asleep \cup {w}
  /\ UNCHANGED <<control, manager, pc, task, at, offered, work>>

LeaveIdle(w) ==
  /\ Awake(w, "wait") /\ ~ should_wait
  /\ idle_workers' = idle_workers - 1
  /\ Release(w)
  /\ UNCHANGED <<control, active_workers, busy_workers, queue, blocker, should_wait, asleep, offered,
                 work>>

(* WaitForBarrierGCTask::do_it: wait for the others, then tell the VM       *)
(* thread, which may go on before this worker has completed the task       *)
AtBarrier(w) == Awake(w, "run") /\ task[w].kind = "barrier"

SleepAtBarrier(w) ==
  /\ AtBarrier(w) /\ busy_workers > 1
  /\ asleep' = asleep \cup {w}
  /\ UNCHANGED <<control, manager, pc, task, at, offered, work>>

(* Fault: the barrier does not wait. *)
PassBarrier_AtOnce(w) ==
  /\ AtBarrier(w)
  /\ fin' = FALSE
  /\ Goto(w, "complete")
  /\ UNCHANGED <<vm, scavenges, more, manager, asleep, task, at, offered, work>>

PassBarrier(w) ==
  /\ AtBarrier(w) /\ busy_workers <= 1
  /\ fin' = FALSE
  /\ Goto(w, "complete")
  /\ UNCHANGED <<vm, scavenges, more, manager, asleep, task, at, offered, work>>

-----------------------------------------------------------------------------
(* Work                                                                    *)

Add(f, w, n) == [f EXCEPT ![w] = @ + n]

(* What the processing of a root or an entry by w leaves: entries that it  *)
(* found, on its bda stack (bda) or, for ordinary objects and after a      *)
(* failed promotion, on its claimed stack; bda and claimed are the stacks  *)
(* before.                                                                 *)
Process(w, bda, claimed) ==
  \E n \in 0..(IF supply > 0 THEN 1 ELSE 0), on_bda \in BOOLEAN :
    /\ on_bda => task[w].kind \in {"steal_bda", "containers", "refs"}
    /\ supply' = supply - n
    /\ bda_stack' = IF on_bda THEN Add(bda, w, n) ELSE bda
    /\ claimed_stack' = IF on_bda THEN claimed ELSE Add(claimed, w, n)

(* drain_bda_stacks, in every bda task *)
DrainBda(w) ==
  /\ pc[w] = "run" /\ task[w].kind \in {"steal_bda", "refs", "containers"}
  /\ task[w].kind = "containers" => at[w].place <= 0
  /\ bda_stack[w] > 0
  /\ Process(w, Add(bda_stack, w, -1), claimed_stack)
  /\ UNCHANGED <<control, manager, asleep, pc, task, at, offered, refs, containers, existed, last, scanned>>

(* BDARefRootsTask: the Ref's object gets a container of its own, in its   *)
(* space or, when that is full, in the general space (0).  A bda space is  *)
(* large enough for a container: one that is full is not empty.            *)
TakeRef(w) ==
  /\ Running(w, "refs") /\ bda_stack[w] = 0 /\ refs > 0
  /\ refs' = refs - 1
  /\ \E s \in Spaces \ {0}, full \in BOOLEAN :
       /\ full => containers[s] > 0
       /\ containers' = Add(containers, IF full THEN 0 ELSE s, 1)
  /\ Process(w, bda_stack, claimed_stack)
  /\ UNCHANGED <<control, manager, asleep, pc, task, at, offered, existed, last, scanned>>

(* OldToYoungBDARootsTask: in every space from the last container that      *)
(* existed back, a task's number first and then _batch_width at a time      *)

(* Fault: the next container of the stripe is the one before. *)
ScanContainer_NoBatch(w) ==
  /\ Running(w, "containers") /\ at[w].space \in Spaces /\ at[w].place > 0
  /\ scanned' = [scanned EXCEPT ![at[w].space][at[w].place] = @ + 1]
  /\ at' = [at EXCEPT ![w].place = @ - 1]
  /\ Process(w, bda_stack, claimed_stack)
  /\ UNCHANGED <<control, manager, asleep, pc, task, offered, refs, containers, existed, last>>

ScanContainer(w) ==
  /\ Running(w, "containers") /\ at[w].space \in Spaces /\ at[w].place > 0
  /\ scanned' = [scanned EXCEPT ![at[w].space][at[w].place] = @ + 1]
  /\ at' = [at EXCEPT ![w].place = @ - active_workers]
  /\ Process(w, bda_stack, claimed_stack)
  /\ UNCHANGED <<control, manager, asleep, pc, task, offered, refs, containers, existed, last>>

NextSpace(w) ==
  LET s == at[w].space + 1
  IN  /\ Running(w, "containers") /\ at[w].space \in Spaces /\ at[w].place <= 0 /\ bda_stack[w] = 0
      /\ at' = [at EXCEPT ![w] =
                 [space |-> s, place |-> IF s \in Spaces THEN last[s] - task[w].number ELSE 0]]
      /\ UNCHANGED <<control, manager, asleep, pc, task, offered, work>>

(* OldToYoungRootsTask, OldToYoungNonBDARootsTask, ScavengeRootsTask: roots *)
(* are processed, then the stack is drained down to its target size         *)
VisitRoots(w) ==
  /\ pc[w] = "run" /\ task[w].kind \in {"other", "roots"}
  /\ Process(w, bda_stack, claimed_stack)
  /\ Goto(w, "drain")
  /\ UNCHANGED <<control, manager, asleep, task, at, offered, refs, containers, existed, last, scanned>>

DrainClaimed(w, least) ==
  /\ claimed_stack[w] > least
  /\ Process(w, bda_stack, Add(claimed_stack, w, -1))
  /\ UNCHANGED <<control, manager, asleep, pc, task, at, offered, refs, containers, existed, last, scanned>>

DrainToTarget(w) == pc[w] = "drain" /\ DrainClaimed(w, target)

-----------------------------------------------------------------------------
(* Stealing: StealBDARefTask, StealTask, offer_termination                 *)

Stack(kind) == IF kind = "steal_bda" THEN bda_stack ELSE claimed_stack
Stealing(w, label) == pc[w] = label /\ task[w].kind \in Terminators
OwnEmpty(w) == Stack(task[w].kind)[w] = 0

DrainTotally(w) == Running(w, "steal") /\ DrainClaimed(w, 0)

(* steal_depth, bda_steal_depth, and the stolen entry is processed *)
StealOne(w) ==
  /\ Stealing(w, "run") /\ OwnEmpty(w)
  /\ \E v \in Workers \ {w} :
       /\ Stack(task[w].kind)[v] > 0
       /\ IF task[w].kind = "steal_bda"
            THEN Process(w, Add(bda_stack, v, -1), claimed_stack)
            ELSE Process(w, bda_stack, Add(claimed_stack, v, -1))
  /\ UNCHANGED <<control, manager, asleep, pc, task, at, offered, refs, containers, existed, last, scanned>>

(* Fault: a worker offers with entries of its own. *)
Offer_Early(w) ==
  /\ Stealing(w, "run")
  /\ offered' = Add(offered, task[w].kind, 1)
  /\ Goto(w, "offer")
  /\ UNCHANGED <<control, manager, asleep, task, at, work>>

(* Nothing was found, which may be so although there is something. *)
Offer(w) ==
  /\ Stealing(w, "run") /\ OwnEmpty(w)
  /\ offered' = Add(offered, task[w].kind, 1)
  /\ Goto(w, "offer")
  /\ UNCHANGED <<control, manager, asleep, task, at, work>>

Terminate(w) ==
  /\ Stealing(w, "offer")
  /\ Goto(w, IF offered[task[w].kind] = active_workers THEN "complete" ELSE "peek")
  /\ UNCHANGED <<control, manager, asleep, task, at, offered, work>>

(* peek_in_queue_set *)
Peek(w) ==
  /\ Stealing(w, "peek")
  /\ IF \E v \in Workers : Stack(task[w].kind)[v] > 0
       THEN offered' = Add(offered, task[w].kind, -1) /\ Goto(w, "run")
       ELSE UNCHANGED offered /\ Goto(w, "offer")
  /\ UNCHANGED <<control, manager, asleep, task, at, work>>

-----------------------------------------------------------------------------
Worker(w) ==
  \/ SleepInGet(w) \/ GetTask(w) \/ Noop(w) \/ NoteCompletion(w)
  \/ EnterIdle(w) \/ StayIdle(w) \/ LeaveIdle(w)
  \/ SleepAtBarrier(w) \/ PassBarrier(w)
  \/ DrainBda(w) \/ TakeRef(w)
  \/ ScanContainer(w) \/ NextSpace(w)
  \/ VisitRoots(w) \/ DrainToTarget(w)
  \/ DrainTotally(w) \/ StealOne(w) \/ Offer(w) \/ Terminate(w) \/ Peek(w)

Next == VMThread \/ \E w \in Workers : Worker(w)

Spec == Init /\ [][Next]_vars

(* The operating system runs every thread that can run. *)
FairSpec == Spec /\ WF_vars(VMThread) /\ \A w \in Workers : WF_vars(Worker(w))

-----------------------------------------------------------------------------
(* Properties                                                              *)

(* When the tasks are queued and until the collection is over every worker *)
(* is either active or idle ("total workers should equal active +          *)
(* inactive"), and at least two are active: the stealing tasks, without    *)
(* which root tasks leave entries on their stacks, are queued.             *)
EnoughWorkers ==
  vm \in {"queue", "wait", "post"} =>
    active_workers + idle_workers = workers /\ active_workers >= 2

(* A Ref left in the queue is never overtaken: as long as there is one, no *)
(* worker runs an ordinary root task.                                      *)
Ordinary == {w \in Workers : task[w].kind \in {"other", "roots", "steal"}}

RefsFirst == vm = "wait" /\ refs > 0 => Ordinary = {}

(* A StealBDARefTask works "until there's no more BDARefTasks to pop and   *)
(* the scavenger can proceed with the thread's stacks" (bdaTasks.hpp:35):  *)
(* no worker runs an ordinary task as long as bda work is left.  The code  *)
(* does not keep this: see the README, section 3.                          *)
BdaPhaseFirst ==
  vm = "wait" /\ Ordinary # {} => refs = 0 /\ \A w \in Workers : bda_stack[w] = 0

(* When the VM thread goes on all the work is done: the stacks and the     *)
(* queue of Refs are empty and no worker has a task in hand but the one    *)
(* that told it so.                                                        *)
InHand == {w \in Workers : pc[w] # "get" /\ task[w].kind # "idle"}

AllDone ==
  vm = "post" =>
    /\ refs = 0 /\ queue = <<>>
    /\ \A w \in Workers : bda_stack[w] = 0 /\ claimed_stack[w] = 0
    /\ \A w \in InHand : task[w].kind = "barrier"

(* Every container that existed when the collection began is scanned       *)
(* ("this segment was already scanned"), and by one task only.             *)
ScannedOnce ==
  /\ \A s \in Spaces : \A c \in 1..MaxContainers : scanned[s][c] <= 1
  /\ vm = "post" => \A s \in Spaces : \A c \in 1..existed[s] : scanned[s][c] = 1

(* Termination is agreed only when nothing is left to steal. *)
TerminatorSound ==
  offered["steal"] = active_workers /\ active_workers > 0 =>
    \A w \in Workers : claimed_stack[w] = 0

(* Every collection comes to its end: nobody sleeps through a notification *)
(* and no terminator waits for a worker that is idle.                      *)
ScavengeEnds == vm = "gang" ~> vm = "mutator"
=============================================================================
