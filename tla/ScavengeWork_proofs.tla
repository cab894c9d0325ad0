------------------------ MODULE ScavengeWork_proofs ------------------------
(***************************************************************************)
(* The work of a young collection is complete when the VM thread goes on,  *)
(* for every number of workers: nothing is left on a stack or in the queue *)
(* of Refs, the terminator of the stealing tasks is right, and the Refs    *)
(* come before the ordinary roots.  The invariant WInv adds the stacks,    *)
(* the Refs and the offers of termination to Inv, which is about the tasks *)
(* themselves.                                                             *)
(***************************************************************************)
EXTENDS ScavengeTasks_proofs

Empty == \A w \in Workers : bda_stack[w] = 0 /\ claimed_stack[w] = 0

(* Entries on a bda stack belong to a bda task that is running, and idle   *)
(* workers have no entries.                                                *)
Owned ==
  \A w \in Workers :
    /\ bda_stack[w] > 0 =>
         /\ Running(w, task[w].kind) /\ task[w].kind \in BdaKinds
         /\ task[w].kind = "containers" => at[w].space \in Spaces
    /\ task[w].kind = "idle" => claimed_stack[w] = 0

(* A task for the Refs is completed only when there are none. *)
RefsLeft ==
  vm = "wait" =>
    \A n \in 0..(active_workers - 1) : Queued(Task("refs", n)) \/ Held(Task("refs", n)) \/ refs = 0

(* Workers that have offered termination of the stealing tasks.  They are  *)
(* counted until all agree; from then on nobody has anything to do but the *)
(* barrier.                                                                *)
Offerers == {w \in Workers : task[w].kind = "steal" /\ pc[w] \in {"offer", "peek", "complete"}}
Open ==
  /\ offered["steal"] = Cardinality(Offerers) /\ offered["steal"] < active_workers
  /\ \A w \in Offerers : pc[w] # "complete"
  /\ Queued(Task("steal", 0)) \/ Held(Task("steal", 0))
Closed ==
  /\ offered["steal"] = active_workers
  /\ \A w \in Workers : claimed_stack[w] = 0 /\ (Current(w) => w \in Offerers)
  /\ \A i \in 1..Len(queue) : queue[i].kind = "barrier"
Agreed ==
  /\ \A w \in Offerers : claimed_stack[w] = 0
  /\ vm = "wait" => Open \/ Closed

Stacks ==
  /\ bda_stack \in [Workers -> Nat] /\ claimed_stack \in [Workers -> Nat]
  /\ refs \in Nat /\ offered \in [Terminators -> Int]
  /\ at \in [Workers -> [space : Nat, place : Int]]
  /\ containers \in [Spaces -> Nat] /\ last \in [Spaces -> Nat]

WInv ==
  /\ Stacks /\ Owned /\ RefsLeft /\ Agreed
  /\ Resting => Empty
  /\ vm = "post" \/ ~ fin => refs = 0

-----------------------------------------------------------------------------
(* Processing a root or an entry *)
LEMMA ProcessEffect ==
  ASSUME NEW w \in Workers, NEW bda \in [Workers -> Nat], NEW claimed \in [Workers -> Nat],
         Process(w, bda, claimed)
  PROVE  /\ bda_stack' \in [Workers -> Nat] /\ claimed_stack' \in [Workers -> Nat]
         /\ \A v \in Workers : v # w => bda_stack'[v] = bda[v] /\ claimed_stack'[v] = claimed[v]
         /\ task[w].kind \notin BdaKinds => bda_stack' = bda
<1>1. PICK n \in {0, 1}, on_bda \in BOOLEAN :
        /\ on_bda => task[w].kind \in {"steal_bda", "containers", "refs"}
        /\ bda_stack' = IF on_bda THEN Add(bda, w, n) ELSE bda
        /\ claimed_stack' = IF on_bda THEN claimed ELSE Add(claimed, w, n)
  <2>1. 0..(IF supply > 0 THEN 1 ELSE 0) \subseteq {0, 1}
    OBVIOUS
  <2> QED
    BY Zenon, <2>1 DEF Process
<1>2. ASSUME NEW f \in [Workers -> Nat]
      PROVE  Add(f, w, n) \in [Workers -> Nat] /\ \A v \in Workers : v # w => Add(f, w, n)[v] = f[v]
  BY <1>1 DEF Add
<1> QED
  BY Zenon, <1>1, <1>2 DEF BdaKinds

(* A worker that does part of a task's work: it may add to its own stacks  *)
(* and take from those of others.                                          *)
WorkStep(w) ==
  /\ Current(w) /\ pc[w] \in {"run", "drain"} /\ pc'[w] \in {"run", "drain"}
  /\ Stacks' /\ refs' <= refs
  /\ \A v \in Workers : v # w =>
       /\ bda_stack'[v] <= bda_stack[v] /\ claimed_stack'[v] <= claimed_stack[v]
       /\ pc'[v] = pc[v] /\ at'[v] = at[v]
  /\ bda_stack'[w] > 0 =>
       /\ pc'[w] = "run" /\ task[w].kind \in BdaKinds
       /\ task[w].kind = "containers" => at'[w].space \in Spaces
  /\ UNCHANGED <<vm, fin, active_workers, idle_workers, queue, task, offered>>

(* Such a step keeps the invariant. *)
LEMMA WorkWInv == ASSUME Inv, WInv, NEW w \in Workers, WorkStep(w) PROVE WInv'
<1>1. vm = "wait" /\ fin /\ ~ Resting
  BY Zenon DEF WorkStep, Current, Inv, Phases, Still, Resting
<1>2. Idlers' = Idlers /\ IdleQueued' = IdleQueued /\ Offerers' = Offerers /\ w \notin Offerers
  <2>1. \A v \in Workers : v \in Offerers' <=> v \in Offerers
    BY DEF WorkStep, Offerers
  <2>2. w \notin Offerers
    BY DEF WorkStep, Offerers
  <2> QED
    BY <2>1, <2>2 DEF WorkStep, Idlers, IdleQueued, Offerers
<1>3. ~ Resting'
  BY Zenon, <1>1, <1>2 DEF Resting, WorkStep
<1>4. \A v \in Workers : v # w => /\ bda_stack'[v] \in Nat /\ claimed_stack'[v] \in Nat
                                  /\ bda_stack[v] = 0 => bda_stack'[v] = 0
                                  /\ claimed_stack[v] = 0 => claimed_stack'[v] = 0
                                  /\ bda_stack'[v] > 0 => bda_stack[v] > 0
  BY DEF WorkStep, WInv, Stacks
<1>5. Owned'
  <2>1. ASSUME NEW v \in Workers, v # w
        PROVE  /\ bda_stack'[v] > 0 =>
                    /\ Running(v, task[v].kind)' /\ task'[v].kind \in BdaKinds
                    /\ task'[v].kind = "containers" => at'[v].space \in Spaces
               /\ task'[v].kind = "idle" => claimed_stack'[v] = 0
    BY Zenon, <2>1, <1>4 DEF WInv, Owned, WorkStep, Running
  <2>2. /\ bda_stack'[w] > 0 =>
                    /\ Running(w, task[w].kind)' /\ task'[w].kind \in BdaKinds
                    /\ task'[w].kind = "containers" => at'[w].space \in Spaces
        /\ task'[w].kind # "idle"
    BY Zenon DEF WorkStep, Running, Current
  <2> QED
    BY Zenon, <2>1, <2>2 DEF Owned
<1>6. RefsLeft'
  <2>1. refs = 0 => refs' = 0
    BY DEF WInv, Stacks, WorkStep
  <2> QED
    BY Zenon, <2>1 DEF WInv, RefsLeft, WorkStep, Queued, Occurs, Held
<1>7. Agreed'
  <2>1. Open
    BY Zenon, <1>1, <1>2 DEF WInv, Agreed, Closed, WorkStep
  <2>2. Open'
    <3>1. \A v \in Offerers : pc'[v] = pc[v]
      BY Zenon, <1>2 DEF WorkStep, Offerers
    <3> QED
      BY Zenon, <2>1, <3>1, <1>2 DEF Open, WorkStep, Queued, Occurs, Held
  <2>3. \A v \in Offerers : v \in Workers
    BY Zenon DEF Offerers
  <2> QED
    BY Zenon, <2>2, <2>3, <1>2, <1>4 DEF WInv, Agreed
<1> QED
  BY Zenon, <1>1, <1>3, <1>5, <1>6, <1>7 DEF WInv, WorkStep

(* Tasks are numbered. *)
LEMMA NumberNat == ASSUME NEW t \in Tasks \cup {NoTask} PROVE t.number \in Nat
BY DEF Tasks, NoTask, Task

(* The actions that process roots and entries are steps of that kind. *)
LEMMA WorkActions ==
  ASSUME Inv, WInv, NEW w \in Workers,
         \/ DrainBda(w) \/ TakeRef(w) \/ ScanContainer(w) \/ NextSpace(w)
         \/ VisitRoots(w) \/ DrainToTarget(w) \/ DrainTotally(w) \/ StealOne(w)
  PROVE  WorkStep(w)
<1> DEFINE Kept == UNCHANGED <<vm, fin, active_workers, idle_workers, queue, task, offered>>
           Alike == \A v \in Workers : v # w =>
                      /\ bda_stack'[v] = bda_stack[v] /\ claimed_stack'[v] = claimed_stack[v]
                      /\ pc'[v] = pc[v] /\ at'[v] = at[v]
           Less == \A v \in Workers : v # w =>
                     /\ bda_stack'[v] <= bda_stack[v] /\ claimed_stack'[v] <= claimed_stack[v]
                     /\ pc'[v] = pc[v] /\ at'[v] = at[v]
<1>s. Stacks /\ PlaceOK(w)
  BY Zenon DEF WInv, Inv, Shape
<1>o. bda_stack[w] > 0 => /\ pc[w] = "run" /\ task[w].kind \in BdaKinds
                          /\ task[w].kind = "containers" => at[w].space \in Spaces
  BY Zenon DEF WInv, Owned, Running
<1>z. task[w].kind \notin BdaKinds => bda_stack[w] = 0
  BY <1>s, <1>o DEF Stacks
<1>a. ASSUME NEW f \in [Workers -> Nat], NEW v \in Workers, f[v] > 0
      PROVE  Add(f, v, -1) \in [Workers -> Nat] /\ \A u \in Workers : Add(f, v, -1)[u] <= f[u]
                                                /\ (u # v => Add(f, v, -1)[u] = f[u])
  BY <1>a DEF Add
<1>l. Stacks' /\ Alike => Less
  BY <1>s DEF Stacks
<1>r. refs <= refs
  BY <1>s DEF Stacks
<1>1. CASE DrainBda(w)
  <2>1. /\ pc[w] = "run" /\ task[w].kind \in BdaKinds /\ bda_stack[w] > 0
        /\ Process(w, Add(bda_stack, w, -1), claimed_stack)
        /\ Kept /\ UNCHANGED <<pc, at, refs, containers, last>>
    BY Zenon, <1>1 DEF DrainBda, control, manager, BdaKinds
  <2>2. Add(bda_stack, w, -1) \in [Workers -> Nat] /\ claimed_stack \in [Workers -> Nat]
    BY Zenon, <1>a, <1>s, <2>1 DEF Stacks
  <2>p. /\ bda_stack' \in [Workers -> Nat] /\ claimed_stack' \in [Workers -> Nat]
        /\ \A v \in Workers : v # w => bda_stack'[v] = Add(bda_stack, w, -1)[v] /\ claimed_stack'[v] = claimed_stack[v]
    BY ZenonT(30), <2>1, <2>2, ProcessEffect
  <2>3. Stacks' /\ Alike
    BY Zenon, <1>s, <1>a, <2>1, <2>p DEF Stacks
  <2> QED
    BY Zenon, <1>o, <1>l, <1>r, <2>1, <2>3 DEF WorkStep, Current, BdaKinds
<1>2. CASE TakeRef(w)
  <2>1. /\ pc[w] = "run" /\ task[w].kind = "refs" /\ refs > 0 /\ refs' = refs - 1
        /\ Process(w, bda_stack, claimed_stack)
        /\ Kept /\ UNCHANGED <<pc, at, last>>
    BY Zenon, <1>2 DEF TakeRef, Running, control, manager
  <2>2. refs' \in Nat /\ refs' <= refs
    BY <2>1, <1>s DEF Stacks
  <2>c. containers' \in [Spaces -> Nat]
    <3>1. PICK s \in Spaces \ {0}, full \in BOOLEAN : containers' = Add(containers, IF full THEN 0 ELSE s, 1)
      BY Zenon, <1>2 DEF TakeRef
    <3>2. PICK z \in Spaces : containers' = Add(containers, z, 1)
      <4>1. 0 \in Spaces
        BY TasksAssumption DEF Spaces
      <4> QED
        BY Zenon, <3>1, <4>1
    <3> QED
      BY <1>s, <3>2 DEF Stacks, Add
  <2>p. /\ bda_stack' \in [Workers -> Nat] /\ claimed_stack' \in [Workers -> Nat]
        /\ \A v \in Workers : v # w => bda_stack'[v] = bda_stack[v] /\ claimed_stack'[v] = claimed_stack[v]
    BY ZenonT(30), <1>s, <2>1, ProcessEffect DEF Stacks
  <2>3. Stacks' /\ Alike
    BY Zenon, <1>s, <2>1, <2>2, <2>c, <2>p DEF Stacks
  <2> QED
    BY Zenon, <1>l, <2>1, <2>2, <2>3 DEF WorkStep, Current, BdaKinds
<1>3. CASE ScanContainer(w)
  <2>1. /\ pc[w] = "run" /\ task[w].kind = "containers" /\ at[w].space \in Spaces
        /\ at' = [at EXCEPT ![w].place = @ - active_workers]
        /\ Process(w, bda_stack, claimed_stack)
        /\ Kept /\ UNCHANGED <<pc, refs, containers, last>>
    BY Zenon, <1>3 DEF ScanContainer, Running, control, manager
  <2>2. /\ at' \in [Workers -> [space : Nat, place : Int]] /\ at'[w].space = at[w].space
        /\ \A v \in Workers : v # w => at'[v] = at[v]
    BY <2>1, <1>s DEF Stacks, Inv, Gang
  <2>p. /\ bda_stack' \in [Workers -> Nat] /\ claimed_stack' \in [Workers -> Nat]
        /\ \A v \in Workers : v # w => bda_stack'[v] = bda_stack[v] /\ claimed_stack'[v] = claimed_stack[v]
    BY Zenon, <1>s, <2>1, ProcessEffect DEF Stacks
  <2>3. Stacks' /\ Alike
    BY Zenon, <1>s, <2>1, <2>2, <2>p DEF Stacks
  <2> QED
    BY Zenon, <1>l, <1>r, <2>1, <2>2, <2>3 DEF WorkStep, Current, BdaKinds
<1>4. CASE NextSpace(w)
  <2>1. /\ pc[w] = "run" /\ task[w].kind = "containers" /\ bda_stack[w] = 0
        /\ Kept /\ UNCHANGED <<pc, bda_stack, claimed_stack, refs, containers, last>>
    BY Zenon, <1>4 DEF NextSpace, Running, control, manager, work
  <2>2. /\ at' \in [Workers -> [space : Nat, place : Int]]
        /\ \A v \in Workers : v # w => at'[v] = at[v]
    <3>1. PICK n, a : n = task[w].number /\ a = at[w]
      BY Zenon
    <3>2. n \in Nat /\ a \in [space : Nat, place : Int]
      BY Zenon, <3>1, <1>s, NumberNat DEF Inv, Shape, Stacks
    <3>3. /\ a.space + 1 \in Nat
          /\ \A s \in Spaces : last[s] - n \in Int
      BY <3>2, <1>s DEF Stacks
    <3>4. (IF a.space + 1 \in Spaces THEN last[a.space + 1] - n ELSE 0) \in Int
      BY <3>3
    <3>5. at' = [at EXCEPT ![w] = [space |-> a.space + 1, place |-> IF a.space + 1 \in Spaces THEN last[a.space + 1] - n ELSE 0]]
      BY Zenon, <3>1, <1>4 DEF NextSpace
    <3> QED
      BY Zenon, <3>3, <3>4, <3>5, <1>s DEF Stacks
  <2>3. Stacks' /\ Alike
    BY Zenon, <1>s, <2>1, <2>2 DEF Stacks
  <2>4. ~ (bda_stack'[w] > 0)
    BY <2>1
  <2> QED
    BY ZenonT(30), <1>l, <1>r, <2>1, <2>3, <2>4 DEF WorkStep, Current, BdaKinds
<1>5. CASE VisitRoots(w)
  <2>1. /\ pc[w] = "run" /\ task[w].kind \in {"other", "roots"}
        /\ pc' = [pc EXCEPT ![w] = "drain"]
        /\ Process(w, bda_stack, claimed_stack)
        /\ Kept /\ UNCHANGED <<at, refs, containers, last>>
    BY Zenon, <1>5 DEF VisitRoots, Goto, control, manager
  <2>2. pc'[w] = "drain" /\ \A v \in Workers : v # w => pc'[v] = pc[v]
    BY Zenon, <2>1 DEF Inv, Shape
  <2>p. /\ bda_stack' = bda_stack /\ claimed_stack' \in [Workers -> Nat]
        /\ \A v \in Workers : v # w => claimed_stack'[v] = claimed_stack[v]
    <3>1. task[w].kind \notin BdaKinds
      BY <2>1 DEF BdaKinds
    <3> QED
      BY SMTT(30), <1>s, <2>1, <3>1, ProcessEffect DEF Stacks
  <2>3. Stacks' /\ Alike /\ bda_stack' = bda_stack
    BY Zenon, <1>s, <2>1, <2>2, <2>p DEF Stacks
  <2>4. ~ (bda_stack'[w] > 0)
    BY <2>1, <2>3, <1>z DEF BdaKinds
  <2> QED
    BY Zenon, <1>l, <1>r, <2>1, <2>2, <2>3, <2>4 DEF WorkStep, Current
<1>6. CASE DrainToTarget(w) \/ DrainTotally(w)
  <2>1. PICK least \in {target, 0} : DrainClaimed(w, least)
    BY Zenon, <1>6 DEF DrainToTarget, DrainTotally
  <2>2. /\ pc[w] \in {"run", "drain"} /\ task[w].kind \in {"other", "roots", "steal"}
        /\ Process(w, bda_stack, Add(claimed_stack, w, -1))
        /\ Kept /\ UNCHANGED <<pc, at, refs, containers, last>>
    BY Zenon, <1>6, <1>s, <2>1 DEF DrainToTarget, DrainTotally, DrainClaimed, Running, PlaceOK, control, manager
  <2>3. claimed_stack[w] > 0
    BY <2>1, <1>s, TasksAssumption DEF DrainClaimed, Stacks
  <2>4. Add(claimed_stack, w, -1) \in [Workers -> Nat]
    BY ZenonT(30), <1>a, <1>s, <2>3 DEF Stacks
  <2>p. /\ bda_stack' = bda_stack /\ claimed_stack' \in [Workers -> Nat]
        /\ \A v \in Workers : v # w => claimed_stack'[v] = Add(claimed_stack, w, -1)[v]
    <3>1. task[w].kind \notin BdaKinds
      BY <2>2 DEF BdaKinds
    <3> QED
      BY SMTT(30), <1>s, <2>2, <2>4, <3>1, ProcessEffect DEF Stacks
  <2>5. Stacks' /\ Alike /\ bda_stack' = bda_stack
    BY ZenonT(30), <1>s, <1>a, <2>2, <2>3, <2>p DEF Stacks
  <2>6. ~ (bda_stack'[w] > 0)
    BY <2>2, <2>5, <1>z DEF BdaKinds
  <2> QED
    BY Zenon, <1>l, <1>r, <2>2, <2>5, <2>6 DEF WorkStep, Current
<1>7. CASE StealOne(w)
  <2>1. /\ pc[w] = "run" /\ task[w].kind \in {"steal_bda", "steal"} /\ Kept
        /\ UNCHANGED <<pc, at, refs, containers, last>>
    BY Zenon, <1>7 DEF StealOne, Stealing, Terminators, control, manager
  <2>2. PICK v \in Workers :
          /\ v # w /\ Stack(task[w].kind)[v] > 0
          /\ IF task[w].kind = "steal_bda"
               THEN Process(w, Add(bda_stack, v, -1), claimed_stack)
               ELSE Process(w, bda_stack, Add(claimed_stack, v, -1))
    BY Zenon, <1>7 DEF StealOne
  <2>3. CASE task[w].kind = "steal_bda"
    <3>1. bda_stack[v] > 0 /\ Process(w, Add(bda_stack, v, -1), claimed_stack)
      BY Zenon, <2>2, <2>3 DEF Stack
    <3>2. Add(bda_stack, v, -1) \in [Workers -> Nat] /\ claimed_stack \in [Workers -> Nat]
      BY Zenon, <1>a, <1>s, <3>1 DEF Stacks
    <3>3. Stacks'
      BY Zenon, <1>s, <2>1, <3>1, <3>2, ProcessEffect DEF Stacks
    <3>4. \A u \in Workers : u # w => bda_stack'[u] = Add(bda_stack, v, -1)[u] /\ claimed_stack'[u] = claimed_stack[u]
      BY ZenonT(30), <3>1, <3>2, ProcessEffect
    <3>5. \A u \in Workers : u # w => bda_stack'[u] <= bda_stack[u]
      BY Zenon, <3>1, <3>4, <1>a, <1>s DEF Stacks
    <3>6. \A u \in Workers : claimed_stack[u] <= claimed_stack[u]
      BY <1>s DEF Stacks
    <3>7. Less
      BY Zenon, <2>1, <3>4, <3>5, <3>6
    <3> QED
      BY Zenon, <1>r, <2>1, <2>3, <3>3, <3>7 DEF WorkStep, Current, BdaKinds
  <2>4. CASE task[w].kind = "steal"
    <3>1. claimed_stack[v] > 0 /\ Process(w, bda_stack, Add(claimed_stack, v, -1))
      BY Zenon, <2>2, <2>4 DEF Stack
    <3>2. Add(claimed_stack, v, -1) \in [Workers -> Nat] /\ bda_stack \in [Workers -> Nat]
      BY Zenon, <1>a, <1>s, <3>1 DEF Stacks
    <3>3. Stacks' /\ bda_stack' = bda_stack
      BY ZenonT(30), <1>s, <2>1, <2>4, <3>1, <3>2, ProcessEffect DEF Stacks, BdaKinds
    <3>4. \A u \in Workers : u # w => claimed_stack'[u] = Add(claimed_stack, v, -1)[u]
      BY <3>1, <3>2, ProcessEffect
    <3>5. \A u \in Workers : u # w => claimed_stack'[u] <= claimed_stack[u]
      BY Zenon, <3>1, <3>4, <1>a, <1>s DEF Stacks
    <3>6. \A u \in Workers : bda_stack[u] <= bda_stack[u]
      BY <1>s DEF Stacks
    <3>7. Less
      BY Zenon, <2>1, <3>3, <3>5, <3>6
    <3>8. ~ (bda_stack'[w] > 0)
      BY <2>4, <3>3, <1>z DEF BdaKinds
    <3> QED
      BY ZenonT(30), <1>r, <2>1, <2>4, <3>3, <3>7, <3>8 DEF WorkStep, Current
  <2> QED
    BY Zenon, <2>1, <2>3, <2>4
<1> QED
  BY ZenonT(30), <1>1, <1>2, <1>3, <1>4, <1>5, <1>6, <1>7

-----------------------------------------------------------------------------
(* Steps that leave the work and the terminators alone.                    *)

(* Taking a task *)
LEMMA GetWInv == ASSUME Inv, WInv, NEW w \in Workers, GetTask(w) PROVE WInv'
<1>t. PICK t, q : t = queue[1] /\ q = Tail(queue)
  BY Zenon
<1>g. Got(w, t, q)
  BY Zenon, <1>t, GetFacts
<1>1. UNCHANGED <<vm, fin, active_workers, offered, refs, bda_stack, claimed_stack, containers, last>>
  BY Zenon DEF GetTask, control, work
<1>2. /\ task'[w] = t /\ pc'[w] = "run" /\ task[w].kind = "noop" /\ pc[w] = "get"
      /\ \A v \in Workers : v # w => task'[v] = task[v] /\ pc'[v] = pc[v]
  BY Zenon, <1>g DEF Got, GetTask, Awake
<1>3. /\ at' \in [Workers -> [space : Nat, place : Int]]
      /\ \A v \in Workers : v # w => at'[v] = at[v]
      /\ t.kind = "containers" => at'[w].space = 0
  <2>1. PICK a : /\ at' = [at EXCEPT ![w] = a]
                 /\ a = IF t.kind = "containers" THEN [space |-> 0, place |-> last[0] - t.number] ELSE Nowhere
    <3>1. queue \in Seq(Tasks) /\ queue # <<>>
      BY Zenon DEF GetTask, Inv, Shape
    <3>2. Head(queue) = t
      BY <3>1, <1>t, TailOf
    <3> QED
      BY Zenon, <3>2 DEF GetTask
  <2>2. last[0] \in Nat /\ t.number \in Nat
    <3>1. 0 \in Spaces
      BY TasksAssumption DEF Spaces
    <3> QED
      BY Zenon, <3>1, <1>g DEF WInv, Stacks, Got
  <2>3. a \in [space : Nat, place : Int] /\ (t.kind = "containers" => a.space = 0)
    BY <2>1, <2>2 DEF Nowhere
  <2> QED
    BY Zenon, <2>1, <2>3 DEF WInv, Stacks
<1>4. ASSUME NEW T, T.kind # "noop"
      PROVE  Queued(T) \/ Held(T) => Queued(T)' \/ Held(T)'
  <2>1. CASE Held(T)
    BY Zenon, <2>1, <1>2, <1>4 DEF Held
  <2>2. CASE Queued(T)
    <3>1. PICK i \in 1..Len(queue) : queue[i] = T
      BY Zenon, <2>2 DEF Queued, Occurs
    <3>2. CASE i = 1
      BY Zenon, <3>1, <3>2, <1>t, <1>2 DEF Held
    <3>3. CASE i # 1
      <4>1. PICK j \in 1..Len(q) : i = j + 1
        <5>1. i - 1 \in 1..Len(q) /\ i = (i - 1) + 1
          BY <3>3, <1>g DEF Got
        <5> QED
          BY Zenon, <5>1
      <4> QED
        BY Zenon, <4>1, <3>1, <1>g DEF Got, Queued, Occurs
    <3> QED
      BY Zenon, <3>2, <3>3
  <2> QED
    BY Zenon, <2>1, <2>2
<1>5. Resting' => Resting
  BY <1>1, <1>g DEF Resting, Got, Inv, Counts
<1>6. Offerers' = Offerers /\ w \notin Offerers
  BY <1>2 DEF Offerers
<1>7. Stacks'
  BY Zenon, <1>1, <1>3 DEF WInv, Stacks
<1>8. Owned'
  <2>1. t.kind = "idle" => claimed_stack[w] = 0
    BY Zenon, <1>g DEF Got, WInv, Empty, Resting
  <2>2. ~ (bda_stack[w] > 0)
    BY <1>2 DEF WInv, Owned, BdaKinds
  <2> QED
    BY Zenon, <1>1, <1>2, <1>3, <2>1, <2>2 DEF WInv, Owned, Running
<1>9. RefsLeft'
  BY Zenon, <1>1, <1>4 DEF WInv, RefsLeft, Task
<1>10. Agreed'
  <2>1. ASSUME Open PROVE Open'
    <3>1. Queued(Task("steal", 0))' \/ Held(Task("steal", 0))'
      BY <2>1, <1>4 DEF Open, Task
    <3>2. \A v \in Offerers : pc'[v] = pc[v]
      BY Zenon, <1>2, <1>6 DEF Offerers
    <3> QED
      BY Zenon, <2>1, <3>1, <3>2, <1>1, <1>6 DEF Open
  <2>2. ASSUME Closed PROVE Closed'
    <3>1. t.kind = "barrier"
      BY Zenon, <2>2, <1>g, <1>t DEF Closed, Got
    <3>2. \A i \in 1..Len(queue') : queue'[i].kind = "barrier"
      BY <2>2, <1>g DEF Closed, Got
    <3> QED
      BY Zenon, <2>2, <3>1, <3>2, <1>1, <1>2, <1>6 DEF Closed, Current
  <2> QED
    BY Zenon, <2>1, <2>2, <1>1, <1>6 DEF WInv, Agreed
<1> QED
  BY Zenon, <1>1, <1>5, <1>7, <1>8, <1>9, <1>10 DEF WInv, Empty

(* Completing a task, or leaving an idle task *)
LEMMA ReturnWInv ==
  ASSUME Inv, WInv, NEW w \in Workers, Worker(w), NoteCompletion(w) \/ LeaveIdle(w), IdleQueued' = IdleQueued
  PROVE  WInv'
<1>p. PlaceOK(w)
  BY Zenon DEF Inv, Shape
<1>1. /\ UNCHANGED <<vm, fin, active_workers, queue, offered, refs, bda_stack, claimed_stack, containers, last>>
      /\ task' = [task EXCEPT ![w] = NoTask] /\ pc' = [pc EXCEPT ![w] = "get"] /\ at' = [at EXCEPT ![w] = Nowhere]
  BY Zenon DEF NoteCompletion, LeaveIdle, Release, Goto, control, work
<1>2. /\ task'[w] = NoTask /\ pc'[w] = "get" /\ NoTask.kind = "noop"
      /\ \A v \in Workers : v # w => task'[v] = task[v] /\ pc'[v] = pc[v] /\ at'[v] = at[v]
  BY Zenon, <1>1 DEF Inv, Shape, WInv, Stacks, NoTask, Task
<1>3. ~ (bda_stack[w] > 0)
  <2>1. CASE NoteCompletion(w)
    <3>1. Done(w)
      BY Zenon, <2>1 DEF NoteCompletion
    <3>2. bda_stack[w] \in Nat
      BY Zenon DEF WInv, Stacks
    <3>3. bda_stack[w] = 0 => ~ (bda_stack[w] > 0)
      OBVIOUS
    <3> QED
      BY Zenon, <3>1, <3>3 DEF Done, WInv, Owned, Running
  <2>2. CASE LeaveIdle(w)
    BY Zenon, <2>2 DEF LeaveIdle, Awake, WInv, Owned, Running
  <2> QED
    BY Zenon, <2>1, <2>2
<1>4. (task[w].kind = "refs" => refs = 0) /\ (task[w].kind = "steal" => pc[w] = "complete")
  BY Zenon, <1>p DEF NoteCompletion, LeaveIdle, Done, Awake, PlaceOK, Running
<1>5. Offerers' = Offerers \ {w} /\ (task[w].kind = "steal" => w \in Offerers)
  BY <1>2, <1>4 DEF Offerers
<1>6. Stacks'
  <2>1. Nowhere \in [space : Nat, place : Int]
    BY DEF Nowhere
  <2> QED
    BY Zenon, <2>1, <1>1 DEF WInv, Stacks
<1>7. Owned'
  BY ZenonT(30), <1>1, <1>2, <1>3 DEF WInv, Owned, Running
<1>8. RefsLeft'
  <2>1. \A n : Task("refs", n).kind = "refs"
    BY Zenon DEF Task
  <2>2. ASSUME NEW n PROVE Held(Task("refs", n)) => Held(Task("refs", n))' \/ refs = 0
    <3>1. \A v \in Workers : task[v] = Task("refs", n) => task[v].kind = "refs"
      BY Zenon, <2>1
    <3> QED
      BY Zenon, <3>1, <1>2, <1>4 DEF Held
  <2>3. ASSUME NEW n PROVE Queued(Task("refs", n)) => Queued(Task("refs", n))'
    BY Zenon, <1>1 DEF Queued, Occurs
  <2> QED
    BY Zenon, <2>2, <2>3, <1>1 DEF WInv, RefsLeft
<1>9. Agreed'
  <2>1. ASSUME Open PROVE Open'
    <3>1. w \notin Offerers
      BY Zenon, <2>1, <1>p, <1>4 DEF Open, Offerers
    <3>2. Offerers' = Offerers
      BY Zenon, <3>1, <1>5
    <3>3. Queued(Task("steal", 0))' \/ Held(Task("steal", 0))'
      <4>1. Task("steal", 0).kind = "steal"
        BY Zenon DEF Task
      <4> QED
        BY Zenon, <4>1, <2>1, <3>1, <1>1, <1>2, <1>5 DEF Open, Queued, Occurs, Held
    <3>4. \A v \in Offerers : pc'[v] = pc[v]
      BY Zenon, <1>2, <3>1 DEF Offerers
    <3> QED
      BY Zenon, <2>1, <3>2, <3>3, <3>4, <1>1 DEF Open
  <2>2. ASSUME Closed PROVE Closed'
    <3>1. \A v \in Workers : Current(v)' => Current(v) /\ v # w
      BY Zenon, <1>2 DEF Current
    <3> QED
      BY Zenon, <2>2, <3>1, <1>1, <1>5 DEF Closed
  <2> QED
    BY Zenon, <2>1, <2>2, <1>1, <1>5 DEF WInv, Agreed
<1>10. Resting' => Resting
  BY Zenon, <1>1 DEF Resting
<1> QED
  BY Zenon, <1>1, <1>6, <1>7, <1>8, <1>9, <1>10 DEF WInv, Empty

(* The barrier is passed: nobody holds a task of the collection and none   *)
(* is queued, so no Ref is left and all have agreed.                       *)
LEMMA PassWInv == ASSUME Inv, WInv, NEW w \in Workers, PassBarrier(w) PROVE WInv'
<1>1. InHand = {w} /\ queue = <<>> /\ vm = "wait" /\ task[w].kind = "barrier"
  BY Zenon, PassAlone
<1>2. /\ UNCHANGED <<vm, active_workers, queue, task, at, offered, refs, bda_stack, claimed_stack, containers, last>>
      /\ pc' = [pc EXCEPT ![w] = "complete"] /\ fin' = FALSE
  BY Zenon DEF PassBarrier, Goto, manager, work
<1>3. pc'[w] = "complete" /\ \A v \in Workers : v # w => pc'[v] = pc[v]
  BY Zenon, <1>2 DEF Inv, Shape
<1>4. \A v \in Workers : task[v].kind \in {"noop", "idle", "barrier"}
  BY Zenon, <1>1 DEF InHand, Inv, Shape, PlaceOK
<1>5. \A k, n : k \notin {"noop", "idle", "barrier"} => ~ Queued(Task(k, n)) /\ ~ Held(Task(k, n))
  <2>1. Len(queue) = 0 /\ 1..0 = {}
    BY <1>1
  <2> QED
    <3>1. ASSUME NEW k, NEW n, k \notin {"noop", "idle", "barrier"} PROVE ~ Held(Task(k, n))
      <4>1. Task(k, n).kind = k
        BY Zenon DEF Task
      <4>2. \A v \in Workers : task[v] # Task(k, n)
        BY Zenon, <4>1, <3>1, <1>4
      <4> QED
        BY Zenon, <4>2 DEF Held
    <3>2. ASSUME NEW k, NEW n PROVE ~ Queued(Task(k, n))
      BY Zenon, <2>1 DEF Queued, Occurs
    <3> QED
      BY Zenon, <3>1, <3>2
<1>6. refs = 0
  <2>1. 0 \in 0..(active_workers - 1)
    BY <1>1 DEF Inv, Gang
  <2> QED
    BY Zenon, <2>1, <1>1, <1>5 DEF WInv, RefsLeft
<1>7. Closed
  BY Zenon, <1>1, <1>5 DEF WInv, Agreed, Open
<1>8. \A v \in Workers : ~ (bda_stack[v] > 0)
  BY Zenon, <1>4 DEF WInv, Owned, BdaKinds
<1>9. Empty
  <2>1. \A v \in Workers : bda_stack[v] = 0
    BY <1>8 DEF WInv, Stacks
  <2> QED
    BY Zenon, <2>1, <1>7 DEF Empty, Closed
<1>10. Offerers' = {} /\ Offerers = {}
  BY <1>2, <1>4 DEF Offerers
<1>11. Closed'
  BY Zenon, <1>2, <1>4, <1>7 DEF Closed, Current
<1> QED
  BY Zenon, <1>2, <1>4, <1>6, <1>8, <1>9, <1>10, <1>11
     DEF WInv, Stacks, Owned, RefsLeft, Agreed, Empty

-----------------------------------------------------------------------------
(* Offering termination.                                                   *)

(* A worker that goes on with its task and leaves the work alone. *)
LEMMA MoveWInv ==
  ASSUME Inv, WInv, NEW w \in Workers, NEW label, pc' = [pc EXCEPT ![w] = label], ~ (bda_stack[w] > 0),
         UNCHANGED <<vm, fin, active_workers, idle_workers, queue, task, at, refs, bda_stack, claimed_stack,
                     containers, last>>,
         offered' \in [Terminators -> Int], Agreed'
  PROVE  WInv'
<1>1. \A v \in Workers : v # w => pc'[v] = pc[v]
  BY Zenon DEF Inv, Shape
<1>2. Owned'
  BY Zenon, <1>1 DEF WInv, Owned, Running
<1>3. RefsLeft'
  BY Zenon DEF WInv, RefsLeft, Queued, Occurs, Held
<1>4. Resting' <=> Resting
  BY Zenon DEF Resting, IdleQueued, Idlers
<1> QED
  BY Zenon, <1>2, <1>3, <1>4 DEF WInv, Stacks, Empty

(* A worker that does not steal ordinary entries. *)
LEMMA AgreedOther ==
  ASSUME Inv, WInv, NEW w \in Workers, NEW label, pc' = [pc EXCEPT ![w] = label], task[w].kind # "steal",
         UNCHANGED <<vm, active_workers, queue, task, claimed_stack>>, offered'["steal"] = offered["steal"]
  PROVE  Agreed'
<1>1. \A v \in Workers : v # w => pc'[v] = pc[v]
  BY Zenon DEF Inv, Shape
<1>2. Offerers' = Offerers /\ w \notin Offerers
  BY <1>1 DEF Offerers
<1>3. \A v \in Offerers : pc'[v] = pc[v]
  BY Zenon, <1>1, <1>2 DEF Offerers
<1>4. Open => Open'
  BY Zenon, <1>2, <1>3 DEF Open, Queued, Occurs, Held
<1>5. Closed => Closed'
  BY Zenon, <1>2 DEF Closed, Current
<1> QED
  BY Zenon, <1>2, <1>4, <1>5 DEF WInv, Agreed

(* When as many workers as are active have offered, each of them holds its *)
(* task for the stealing; no task is left in the queue but the barrier.    *)
LEMMA AllOffered ==
  ASSUME Inv, WInv, NEW w \in Workers, task[w].kind = "steal",
         NEW S \in SUBSET Workers, Cardinality(S) = active_workers, w \in S,
         \A v \in S : task[v].kind = "steal"
  PROVE  /\ \A v \in Workers : v \in S \/ task[v].kind = "idle"
         /\ \A i \in 1..Len(queue) : queue[i].kind = "barrier"
<1>1. vm = "wait" /\ IdleQueued = 0 /\ Current(w)
  <2>1. ~ Still /\ Current(w)
    BY Zenon DEF Still, Current
  <2>2. IdleQueued \in Nat
    BY DEF Inv, Counts
  <2>3. ~ (IdleQueued > 0) /\ vm = "wait"
    BY Zenon, <2>1 DEF Inv, Phases, Resting
  <2> QED
    BY <2>1, <2>2, <2>3
<1>2. active_workers \in Nat /\ active_workers >= 2 /\ workers \in Nat /\ active_workers + idle_workers = workers
      /\ idle_workers \in Int
  BY <1>1, WorkersNat DEF Inv, Gang
<1>3. S \cup Idlers = Workers
  <2>1. S \cap Idlers = {} /\ S \cup Idlers \in SUBSET Workers
    BY DEF Idlers
  <2>2. IsFiniteSet(S) /\ IsFiniteSet(Idlers) /\ Cardinality(Idlers) \in Nat
    BY Zenon, SubsetFinite, SetsFinite
  <2>3. Cardinality(S \cup Idlers) = Cardinality(S) + Cardinality(Idlers) - Cardinality(S \cap Idlers)
    BY Zenon, <2>2, FS_Union
  <2>4. Cardinality(S \cap Idlers) = 0
    BY Zenon, <2>1, FS_EmptySet
  <2>5. Cardinality(Idlers) = idle_workers
    BY <1>1, <1>2, <2>2 DEF IdleQueued
  <2>6. Cardinality(S \cup Idlers) = Cardinality(Workers)
    BY <2>3, <2>4, <2>5, <1>2 DEF workers
  <2> QED
    BY Zenon, <2>1, <2>6, TasksAssumption, FS_Subset
<1>4. ASSUME NEW i \in 1..Len(queue) PROVE queue[i].kind = "barrier"
  <2>1. queue[i] \in Tasks
    BY DEF Inv, Shape
  <2>2. Rank("steal") <= Rank(queue[i].kind) /\ queue[i].number < active_workers
    BY Zenon, <1>1 DEF Inv, Order, Numbers
  <2>3. queue[i].kind \in {"steal", "barrier"}
    BY <2>1, <2>2 DEF Rank, Tasks, Kinds
  <2>4. queue[i].kind # "steal"
    <3> SUFFICES ASSUME queue[i].kind = "steal" PROVE FALSE
      BY Zenon
    <3>1. PICK n \in Nat : n = queue[i].number /\ n < active_workers
      BY Zenon, <2>1, <2>2 DEF Tasks
    <3>2. DEFINE T == (0..(active_workers - 1)) \ {n}
    <3>3. ASSUME NEW v \in S PROVE task[v].number \in T
      <4>1. task[v] \in Tasks \cup {NoTask} /\ task[v].kind = "steal" /\ Current(v)
        BY Zenon DEF Inv, Shape, Current
      <4>2. task[v].number < active_workers /\ ~ Queued(task[v])
        BY Zenon, <4>1, <1>1 DEF Inv, Numbers, Order
      <4>3. task[v].number \in Nat
        BY Zenon, <4>1, NumberNat
      <4>4. task[v].number # n
        <5> SUFFICES ASSUME task[v].number = n PROVE FALSE
          BY Zenon
        <5>1. task[v] \in Tasks
          BY <4>1 DEF NoTask, Task
        <5>2. task[v] = queue[i]
          BY <5>1, <2>1, <4>1, <3>1 DEF Tasks
        <5> QED
          BY Zenon, <5>2, <4>2 DEF Queued, Occurs
      <4> QED
        BY <4>2, <4>3, <4>4, <1>2
    <3>4. PICK f \in [S -> T] : \A v \in S : f[v] = task[v].number
      <4>1. [v \in S |-> task[v].number] \in [S -> T]
        BY Zenon, <3>3
      <4> QED
        BY Zenon, <4>1
    <3>5. IsFiniteSet(S) /\ IsFiniteSet(T) /\ Cardinality(T) = active_workers - 1
      <4>1. 0..(active_workers - 1) = 0..(active_workers - 1) /\ n \in 0..(active_workers - 1)
        BY <3>1, <1>2
      <4>2. IsFiniteSet(0..(active_workers - 1)) /\ Cardinality(0..(active_workers - 1)) = active_workers
        <5>1. PICK a \in Int, b \in Int : a = 0 /\ b = active_workers - 1 /\ ~ (a > b) /\ b - a + 1 = active_workers
          BY <1>2
        <5>2. IsFiniteSet(a..b) /\ Cardinality(a..b) = IF a > b THEN 0 ELSE b - a + 1
          BY Zenon, FS_Interval
        <5> QED
          BY Zenon, <5>1, <5>2
      <4>3. IsFiniteSet(T) /\ Cardinality(T) = Cardinality(0..(active_workers - 1)) - 1
        BY Zenon, <4>1, <4>2, FS_RemoveElement
      <4> QED
        BY Zenon, <4>2, <4>3, SubsetFinite
    <3>6. Cardinality(T) < Cardinality(S)
      BY <3>5, <1>2
    <3> HIDE DEF T
    <3>7. PICK u, v \in S : u # v /\ f[u] = f[v]
      BY <3>5, <3>6, FS_PigeonHole
    <3>8. task[u].number = task[v].number /\ task[u].kind = "steal" /\ task[v].kind = "steal"
      BY ZenonT(30), <3>4, <3>7
    <3>9. task[u] \in Tasks /\ task[v] \in Tasks
      BY <3>7, <3>8 DEF Inv, Shape, NoTask, Task
    <3>10. task[u] = task[v]
      BY <3>8, <3>9 DEF Tasks
    <3>11. Current(u)
      BY Zenon, <3>8 DEF Current
    <3> QED
      BY Zenon, <3>7, <3>10, <3>11 DEF Inv, Order
  <2> QED
    BY Zenon, <2>3, <2>4
<1> QED
  BY Zenon, <1>3, <1>4 DEF Idlers

(* Offering to terminate, looking again and giving up. *)
LEMMA OfferWInv == ASSUME Inv, WInv, NEW w \in Workers, Offer(w) PROVE WInv'
<1>1. /\ pc[w] = "run" /\ task[w].kind \in Terminators /\ OwnEmpty(w)
      /\ offered' = Add(offered, task[w].kind, 1) /\ pc' = [pc EXCEPT ![w] = "offer"]
      /\ UNCHANGED <<vm, fin, active_workers, idle_workers, queue, task, at, refs, bda_stack, claimed_stack,
                     containers, last>>
  BY Zenon DEF Offer, Stealing, Goto, control, manager, work
<1>2. offered' \in [Terminators -> Int] /\ offered \in [Terminators -> Int]
  BY <1>1 DEF WInv, Stacks, Add
<1>3. ~ (bda_stack[w] > 0)
  BY <1>1 DEF WInv, Owned, BdaKinds, OwnEmpty, Stack, Terminators
<1>4. CASE task[w].kind = "steal_bda"
  <2>1. offered'["steal"] = offered["steal"]
    BY <1>1, <1>2, <1>4 DEF Add, Terminators
  <2> QED
    BY ZenonT(30), <1>1, <1>2, <1>3, <1>4, <2>1, AgreedOther, MoveWInv
<1>5. CASE task[w].kind = "steal"
  <2>1. offered'["steal"] = offered["steal"] + 1 /\ claimed_stack[w] = 0
    BY <1>1, <1>2, <1>5 DEF Add, Terminators, OwnEmpty, Stack
  <2>2. pc'[w] = "offer" /\ \A v \in Workers : v # w => pc'[v] = pc[v]
    BY Zenon, <1>1 DEF Inv, Shape
  <2>3. Offerers' = Offerers \cup {w} /\ w \notin Offerers /\ Offerers' \in SUBSET Workers
    BY <1>1, <1>5, <2>2 DEF Offerers
  <2>4. vm = "wait" /\ Current(w)
    BY Zenon, <1>5 DEF Inv, Phases, Resting, Still, Current
  <2>5. Open
    BY Zenon, <2>3, <2>4 DEF WInv, Agreed, Closed
  <2>6. PICK n \in Nat : n = Cardinality(Offerers) /\ Cardinality(Offerers') = n + 1
    <3>1. IsFiniteSet(Offerers) /\ Cardinality(Offerers) \in Nat
      <4>1. Offerers \in SUBSET Workers
        BY Zenon DEF Offerers
      <4> QED
        BY Zenon, <4>1, SubsetFinite
    <3> QED
      BY Zenon, <3>1, <2>3, FS_AddElement
  <2>7. \A v \in Offerers' : claimed_stack[v] = 0
    BY Zenon, <2>1, <2>3 DEF WInv, Agreed
  <2>8. CASE n + 1 < active_workers
    <3>1. Open'
      <4>1. \A v \in Offerers' : pc'[v] # "complete"
        BY Zenon, <2>2, <2>3, <2>5 DEF Open
      <4>2. offered'["steal"] = n + 1 /\ active_workers' = active_workers
        BY Zenon, <2>1, <2>5, <2>6, <1>1 DEF Open
      <4> QED
        BY Zenon, <4>1, <4>2, <2>5, <2>6, <2>8, <1>1 DEF Open, Queued, Occurs, Held
    <3>2. Agreed'
      BY Zenon, <3>1, <2>7, <1>1 DEF Agreed
    <3> QED
      BY Zenon, <3>2, <1>1, <1>2, <1>3, MoveWInv
  <2>9. CASE ~ (n + 1 < active_workers)
    <3>1. n + 1 = active_workers
      BY <2>5, <2>6, <2>9, <2>4 DEF Open, Inv, Gang
    <3>2. \A v \in Offerers' : task[v].kind = "steal"
      BY Zenon, <1>5, <2>3 DEF Offerers
    <3>3. w \in Offerers'
      BY Zenon, <2>3
    <3>4. PICK S \in SUBSET Workers : S = Offerers'
      BY Zenon, <2>3
    <3>5. /\ \A v \in Workers : v \in S \/ task[v].kind = "idle"
          /\ \A i \in 1..Len(queue) : queue[i].kind = "barrier"
      <4>1. Cardinality(S) = active_workers /\ w \in S /\ \A v \in S : task[v].kind = "steal"
        BY Zenon, <2>6, <3>1, <3>2, <3>3, <3>4
      <4> QED
        BY Zenon, <4>1, <1>5, AllOffered
    <3>6. Closed'
      <4>1. offered'["steal"] = active_workers'
        BY Zenon, <2>1, <2>5, <2>6, <3>1, <1>1 DEF Open
      <4>2. ASSUME NEW v \in Workers PROVE claimed_stack'[v] = 0 /\ (Current(v)' => v \in Offerers')
        BY Zenon, <1>1, <2>7, <3>4, <3>5 DEF WInv, Owned, Current
      <4> QED
        BY Zenon, <4>1, <4>2, <3>5, <1>1 DEF Closed
    <3>7. Agreed'
      BY Zenon, <3>6, <2>7, <1>1 DEF Agreed
    <3> QED
      BY Zenon, <3>7, <1>1, <1>2, <1>3, MoveWInv
  <2> QED
    BY Zenon, <2>8, <2>9
<1> QED
  BY Zenon, <1>1, <1>4, <1>5 DEF Terminators

(* A worker that sees that all have offered completes its task. *)
LEMMA TerminateWInv == ASSUME Inv, WInv, NEW w \in Workers, Terminate(w) PROVE WInv'
<1>1. PICK label :
        /\ label = IF offered[task[w].kind] = active_workers THEN "complete" ELSE "peek"
        /\ pc[w] = "offer" /\ task[w].kind \in Terminators /\ pc' = [pc EXCEPT ![w] = label]
        /\ UNCHANGED <<vm, fin, active_workers, idle_workers, queue, task, at, refs, bda_stack, claimed_stack,
                       containers, last, offered>>
  BY Zenon DEF Terminate, Stealing, Goto, control, manager, work
<1>2. ~ (bda_stack[w] > 0) /\ offered' \in [Terminators -> Int]
  BY Zenon, <1>1 DEF WInv, Owned, Running, Stacks
<1>3. CASE task[w].kind = "steal_bda"
  BY Zenon, <1>1, <1>2, <1>3, AgreedOther, MoveWInv
<1>4. CASE task[w].kind = "steal"
  <2>1. pc'[w] = label /\ \A v \in Workers : v # w => pc'[v] = pc[v]
    BY Zenon, <1>1 DEF Inv, Shape
  <2>2. Offerers' = Offerers
    BY <1>1, <1>4, <2>1 DEF Offerers
  <2>3. ASSUME Open PROVE Open'
    <3>1. offered["steal"] # active_workers
      BY <2>3, <1>2, <1>1 DEF Open, Terminators
    <3>2. label = "peek"
      BY Zenon, <3>1, <1>1, <1>4
    <3>3. \A v \in Offerers : pc'[v] # "complete"
      BY Zenon, <3>2, <2>1, <2>3 DEF Open, Offerers
    <3> QED
      BY ZenonT(30), <2>2, <2>3, <3>3, <1>1 DEF Open, Queued, Occurs, Held
  <2>4. Closed => Closed'
    BY Zenon, <2>2, <1>1 DEF Closed, Current
  <2>5. Agreed'
    BY Zenon, <2>2, <2>3, <2>4, <1>1 DEF WInv, Agreed
  <2> QED
    BY Zenon, <2>5, <1>1, <1>2, MoveWInv
<1> QED
  BY Zenon, <1>1, <1>3, <1>4 DEF Terminators

(* A worker that sees work takes back its offer. *)
LEMMA PeekWInv == ASSUME Inv, WInv, NEW w \in Workers, Peek(w) PROVE WInv'
<1>1. PICK label :
        /\ label \in {"run", "offer"}
        /\ IF label = "run" THEN \E v \in Workers : Stack(task[w].kind)[v] > 0 ELSE TRUE
        /\ offered' = IF label = "run" THEN Add(offered, task[w].kind, -1) ELSE offered
        /\ pc[w] = "peek" /\ task[w].kind \in Terminators /\ pc' = [pc EXCEPT ![w] = label]
        /\ UNCHANGED <<vm, fin, active_workers, idle_workers, queue, task, at, refs, bda_stack, claimed_stack,
                       containers, last>>
  BY ZenonT(30) DEF Peek, Stealing, Goto, control, manager, work
<1>2. offered' \in [Terminators -> Int] /\ offered \in [Terminators -> Int]
  BY <1>1 DEF WInv, Stacks, Add
<1>3. ~ (bda_stack[w] > 0)
  BY Zenon, <1>1 DEF WInv, Owned, Running
<1>4. CASE task[w].kind = "steal_bda"
  <2>1. offered'["steal"] = offered["steal"]
    BY Zenon, <1>1, <1>2, <1>4 DEF Add, Terminators
  <2> QED
    BY ZenonT(30), <1>1, <1>2, <1>3, <1>4, <2>1, AgreedOther, MoveWInv
<1>5. CASE task[w].kind = "steal"
  <2>1. pc'[w] = label /\ \A v \in Workers : v # w => pc'[v] = pc[v]
    BY Zenon, <1>1 DEF Inv, Shape
  <2>w. w \in Offerers
    BY <1>1, <1>5 DEF Offerers
  <2>2. CASE label = "offer"
    <3>1. Offerers' = Offerers /\ offered' = offered
      BY <1>1, <1>5, <2>1, <2>2 DEF Offerers
    <3>2. ASSUME Open PROVE Open'
      <4>1. \A v \in Offerers : pc'[v] # "complete"
        BY Zenon, <2>1, <2>2, <3>2 DEF Open, Offerers
      <4> QED
        BY Zenon, <3>1, <3>2, <4>1, <1>1 DEF Open, Queued, Occurs, Held
    <3>3. Closed => Closed'
      BY Zenon, <3>1, <1>1 DEF Closed, Current
    <3>4. Agreed'
      BY Zenon, <3>1, <3>2, <3>3, <1>1 DEF WInv, Agreed
    <3> QED
      BY ZenonT(30), <3>4, <1>1, <1>2, <1>3, MoveWInv
  <2>3. CASE label = "run"
    <3>1. Offerers' = Offerers \ {w} /\ offered'["steal"] = offered["steal"] - 1
      BY SMTT(30), <1>1, <1>2, <1>5, <2>1, <2>3 DEF Offerers, Add, Terminators
    <3>2. ~ Closed
      <4>1. \E v \in Workers : claimed_stack[v] > 0
        BY <1>1, <1>5, <2>3 DEF Stack
      <4> QED
        BY <4>1 DEF Closed
    <3>3. vm = "wait"
      BY Zenon, <1>5 DEF Inv, Phases, Resting, Still
    <3>4. Open
      BY Zenon, <3>2, <3>3 DEF WInv, Agreed
    <3>5. PICK n \in Nat : n = Cardinality(Offerers) /\ Cardinality(Offerers') = n - 1
      <4>1. IsFiniteSet(Offerers) /\ Cardinality(Offerers) \in Nat
        <5>1. Offerers \in SUBSET Workers
          BY Zenon DEF Offerers
        <5> QED
          BY Zenon, <5>1, SubsetFinite
      <4> QED
        BY ZenonT(30), <4>1, <3>1, <2>w, FS_RemoveElement
    <3>6. Open'
      <4>1. \A v \in Offerers' : pc'[v] # "complete"
        BY Zenon, <2>1, <3>1, <3>4 DEF Open, Offerers
      <4>2. offered'["steal"] = n - 1 /\ n < active_workers
        BY Zenon, <3>1, <3>4, <3>5 DEF Open
      <4>3. n - 1 < active_workers
        BY <4>2, <3>3 DEF Inv, Gang
      <4> QED
        BY Zenon, <4>1, <4>2, <4>3, <3>4, <3>5, <1>1 DEF Open, Queued, Occurs, Held
    <3>7. Agreed'
      BY Zenon, <3>1, <3>6, <1>1 DEF WInv, Agreed
    <3> QED
      BY ZenonT(30), <3>7, <1>1, <1>2, <1>3, MoveWInv
  <2> QED
    BY Zenon, <1>1, <2>2, <2>3
<1> QED
  BY Zenon, <1>1, <1>4, <1>5 DEF Terminators

-----------------------------------------------------------------------------
(* A step that touches neither tasks nor entries keeps the invariant. *)
LEMMA FrameWInv ==
  ASSUME WInv, UNCHANGED <<vm, fin, active_workers, idle_workers, queue, pc, task, at, offered, refs, bda_stack,
                           claimed_stack, containers, last>>
  PROVE  WInv'
<1>1. Offerers' = Offerers /\ Idlers' = Idlers
  BY Zenon DEF Offerers, Idlers
<1>2. Owned' /\ RefsLeft' /\ Stacks'
  BY Zenon DEF WInv, Owned, Running, RefsLeft, Queued, Occurs, Held, Stacks
<1>3. Agreed'
  BY Zenon, <1>1 DEF WInv, Agreed, Open, Closed, Current, Queued, Occurs, Held
<1> QED
  BY Zenon, <1>1, <1>2, <1>3 DEF WInv, Empty, Resting, IdleQueued

(* Every step of a worker keeps the invariant. *)
LEMMA WorkerWInv == ASSUME Inv, WInv, NEW w \in Workers, Worker(w) PROVE WInv'
<1>1. CASE GetTask(w)
  BY Zenon, <1>1, GetWInv
<1>2. CASE NoteCompletion(w) \/ LeaveIdle(w)
  <2>g. Gang'
    BY Zenon, GangWorker DEF Inv
  <2>1. IdleQueued' = IdleQueued
    <3>1. CASE NoteCompletion(w)
      BY Zenon, <2>g, <3>1, DoneTask, ReturnInv DEF NoteCompletion, Release, Goto, control
    <3>2. CASE LeaveIdle(w)
      <4>1. pc[w] = "wait" /\ task[w].kind = "idle" /\ blocker # w
        BY Zenon, <3>2 DEF LeaveIdle, Awake, PlaceOK, Inv, Shape
      <4> QED
        BY Zenon, <2>g, <3>2, <4>1, ReturnInv DEF LeaveIdle, Release, Goto, control
    <3> QED
      BY Zenon, <1>2, <3>1, <3>2
  <2> QED
    BY Zenon, <1>2, <2>1, ReturnWInv
<1>3. CASE PassBarrier(w)
  BY Zenon, <1>3, PassWInv
<1>4. CASE EnterIdle(w)
  <2>1. /\ pc' = [pc EXCEPT ![w] = "wait"] /\ task[w].kind = "idle"
        /\ UNCHANGED <<vm, fin, active_workers, idle_workers, queue, task, at, refs, bda_stack, claimed_stack,
                       containers, last, offered>>
    BY Zenon, <1>4 DEF EnterIdle, Goto, control, manager, work
  <2>2. ~ (bda_stack[w] > 0) /\ offered' \in [Terminators -> Int] /\ task[w].kind # "steal"
    BY Zenon, <2>1 DEF WInv, Owned, Stacks, BdaKinds
  <2> QED
    BY Zenon, <2>1, <2>2, AgreedOther, MoveWInv
<1>5. CASE Offer(w) \/ Terminate(w) \/ Peek(w)
  BY Zenon, <1>5, OfferWInv, TerminateWInv, PeekWInv
<1>6. CASE SleepInGet(w) \/ Noop(w) \/ StayIdle(w) \/ SleepAtBarrier(w)
  BY Zenon, <1>6, FrameWInv DEF SleepInGet, Noop, StayIdle, SleepAtBarrier, control, manager, work
<1>7. CASE \/ DrainBda(w) \/ TakeRef(w) \/ ScanContainer(w) \/ NextSpace(w)
           \/ VisitRoots(w) \/ DrainToTarget(w) \/ DrainTotally(w) \/ StealOne(w)
  BY Zenon, <1>7, WorkActions, WorkWInv
<1> QED
  BY Zenon, <1>1, <1>2, <1>3, <1>4, <1>5, <1>6, <1>7 DEF Worker

(* Every step of the VM thread keeps the invariant. *)
LEMMA VMThreadWInv == ASSUME Inv, WInv, VMThread PROVE WInv'
<1>1. /\ UNCHANGED <<pc, task, at, bda_stack, claimed_stack, containers>>
      /\ fin' = TRUE /\ Resting
  BY Zenon DEF VMThread, StartScavenge, CountIdleWorkers, QueueIdleTasks, QueueScavenge, WaitFor, EndScavenge, manager,
     work, Resting, Inv, Phases, Shape
<1>2. Empty /\ Still
  BY Zenon, <1>1 DEF WInv, Inv, Phases
<1>3. Offerers = {} /\ Offerers' = {}
  BY <1>1, <1>2 DEF Offerers, Still
<1>4. Owned' /\ Empty'
  BY Zenon, <1>1, <1>2 DEF WInv, Owned, Running, Empty
<1>5. ASSUME vm' # "wait", vm' = "post" => refs' = 0, refs' \in Nat, UNCHANGED <<offered, last>>
      PROVE  WInv'
  BY ZenonT(30), <1>1, <1>3, <1>4, <1>5 DEF WInv, Stacks, RefsLeft, Agreed
<1>6. CASE StartScavenge
  <2>1. refs' \in Nat
    BY <1>6 DEF StartScavenge
  <2> QED
    BY Zenon, <1>5, <1>6, <2>1 DEF StartScavenge
<1>7. CASE CountIdleWorkers \/ QueueIdleTasks \/ WaitFor
  BY Zenon, <1>5, <1>7 DEF CountIdleWorkers, QueueIdleTasks, WaitFor, WInv, Stacks, work
<1>8. CASE EndScavenge
  BY Zenon, <1>5, <1>8 DEF EndScavenge
<1>9. CASE QueueScavenge
  <2>g. Gang'
    BY Zenon, GangVMThread DEF Inv
  <2>1. vm = "queue" /\ vm' = "wait" /\ UNCHANGED <<refs, active_workers>>
    BY Zenon, <1>9 DEF QueueScavenge
  <2>2. offered' \in [Terminators -> Int] /\ offered'["steal"] = 0 /\ last' \in [Spaces -> Nat]
    BY <1>9 DEF QueueScavenge, WInv, Stacks, Terminators
  <2>3. active_workers \in Nat /\ active_workers >= 2
    BY <2>1 DEF Inv, Gang
  <2>4. \A t : Occurs(t, ScavengeList) => Queued(t)'
    BY Zenon, <2>g, <1>9, QueueScavengeInv
  <2>5. RefsLeft'
    <3>1. refs > 0 \/ refs = 0
      BY DEF WInv, Stacks
    <3>2. CASE refs > 0
      BY Zenon, <3>2, <2>1, <2>3, <2>4, ListPart DEF RefsLeft
    <3> QED
      BY Zenon, <3>1, <3>2, <2>1 DEF RefsLeft
  <2>6. Open'
    <3>1. Cardinality(Offerers') = 0
      BY Zenon, <1>3, FS_EmptySet
    <3>2. Queued(Task("steal", 0))'
      BY Zenon, <2>3, <2>4, ListPart
    <3>3. 0 < active_workers'
      BY <2>1, <2>3
    <3> QED
      BY Zenon, <3>1, <3>2, <3>3, <2>2, <1>3 DEF Open
  <2> QED
    BY Zenon, <1>1, <1>3, <1>4, <2>1, <2>2, <2>5, <2>6 DEF WInv, Stacks, Agreed
<1> QED
  BY Zenon, <1>6, <1>7, <1>8, <1>9 DEF VMThread

(* Before the first collection there are no entries. *)
LEMMA InitWInv == Init => WInv
<1> SUFFICES ASSUME Init PROVE WInv
  BY Zenon
<1>1. /\ vm = "mutator" /\ fin = TRUE /\ refs = 0 /\ task = [w \in Workers |-> NoTask] /\ NoTask.kind = "noop"
      /\ bda_stack = [w \in Workers |-> 0] /\ claimed_stack = [w \in Workers |-> 0]
  BY Zenon DEF Init, NoTask, Task
<1>2. Stacks
  BY DEF Init, Stacks, Nowhere
<1>3. Empty /\ \A w \in Workers : ~ (bda_stack[w] > 0) /\ task[w].kind = "noop"
  BY <1>1 DEF Empty
<1>4. Offerers = {}
  BY <1>3 DEF Offerers
<1> QED
  BY Zenon, <1>1, <1>2, <1>3, <1>4 DEF WInv, Owned, RefsLeft, Agreed

(* The invariants together *)
LEMMA WorkInvariant == Spec => [](Inv /\ WInv)
<1>1. Inv /\ WInv /\ [Next]_vars => Inv' /\ WInv'
  <2> SUFFICES ASSUME Inv, WInv, [Next]_vars PROVE Inv' /\ WInv'
    BY Zenon
  <2>1. CASE VMThread
    BY Zenon, <2>1, VMThreadInv, VMThreadWInv
  <2>2. CASE \E w \in Workers : Worker(w)
    BY Zenon, <2>2, WorkerInv, WorkerWInv
  <2>3. CASE UNCHANGED vars
    BY Zenon, <2>3, FrameInv, FrameWInv DEF vars, control, manager, work
  <2> QED
    BY Zenon, <2>1, <2>2, <2>3 DEF Next
<1> QED
  BY InitInv, InitWInv, <1>1, PTL DEF Spec

(* When PSScavenge goes on after execute_and_wait no entry is left on any  *)
(* stack and no Ref in the queue, although the barrier task looks only at  *)
(* busy_workers of the manager: for every number of workers and of Refs.   *)
THEOREM AllWorkDone == Spec => []AllDone
<1>1. Inv /\ WInv => AllDone
  <2> SUFFICES ASSUME Inv, WInv, vm = "post"
               PROVE  /\ refs = 0 /\ queue = <<>>
                      /\ \A w \in Workers : bda_stack[w] = 0 /\ claimed_stack[w] = 0
                      /\ \A w \in InHand : task[w].kind = "barrier"
    BY Zenon DEF AllDone
  <2>1. Empty /\ Still /\ queue = <<>> /\ refs = 0
    BY Zenon DEF WInv, Inv, Phases, Resting
  <2>2. \A w \in InHand : task[w].kind = "barrier"
    BY Zenon, <2>1 DEF Still, InHand, Inv, Shape, PlaceOK
  <2> QED
    BY Zenon, <2>1, <2>2 DEF Empty
<1> QED
  BY WorkInvariant, <1>1, PTL

(* The workers of a stealing task agree in offer_termination only when     *)
(* there is nothing left to steal, although each of them looks at the      *)
(* stacks of the others at another time.                                   *)
THEOREM TerminationSound == Spec => []TerminatorSound
<1>1. Inv /\ WInv => TerminatorSound
  <2> SUFFICES ASSUME Inv, WInv, offered["steal"] = active_workers
               PROVE  \A w \in Workers : claimed_stack[w] = 0
    BY Zenon DEF TerminatorSound
  <2>1. CASE vm = "wait"
    <3>1. ~ Open
      BY <2>1 DEF Open, Inv, Gang
    <3> QED
      BY Zenon, <2>1, <3>1 DEF WInv, Agreed, Closed
  <2>2. CASE vm # "wait"
    BY Zenon, <2>2 DEF WInv, Empty, Resting
  <2> QED
    BY Zenon, <2>1, <2>2
<1> QED
  BY WorkInvariant, <1>1, PTL

(* Between the tasks for the Refs and the ordinary ones: when all tasks    *)
(* for the Refs are held, every active worker holds one.                   *)
LEMMA AllHold ==
  ASSUME Inv, vm = "wait", NEW w \in Workers, task[w].kind \in {"other", "roots", "steal"},
         \A n \in 0..(active_workers - 1) : Held(Task("refs", n))
  PROVE  FALSE
<1>1. IdleQueued = 0
  <2>1. ~ Still
    BY Zenon DEF Still
  <2>2. IdleQueued \in Nat
    BY DEF Inv, Counts
  <2>3. ~ (IdleQueued > 0)
    BY Zenon, <2>1 DEF Inv, Phases, Resting
  <2> QED
    BY <2>2, <2>3
<1>2. active_workers \in Nat /\ active_workers >= 2 /\ workers \in Nat /\ active_workers + idle_workers = workers
      /\ idle_workers \in Int
  BY WorkersNat DEF Inv, Gang
<1> DEFINE N == 0..(active_workers - 1)
           R == {v \in Workers : task[v].kind = "refs"}
<1>3. IsFiniteSet(N) /\ Cardinality(N) = active_workers
  <2>1. PICK a \in Int, b \in Int : a = 0 /\ b = active_workers - 1 /\ ~ (a > b) /\ b - a + 1 = active_workers
    BY <1>2
  <2>2. IsFiniteSet(a..b) /\ Cardinality(a..b) = IF a > b THEN 0 ELSE b - a + 1
    BY Zenon, FS_Interval
  <2> QED
    BY Zenon, <2>1, <2>2
<1>4. R \in SUBSET Workers /\ R \cap Idlers = {} /\ w \notin R \cup Idlers /\ R \cup Idlers \in SUBSET Workers
  BY DEF Idlers
<1>5. IsFiniteSet(R) /\ Cardinality(R) \in Nat /\ IsFiniteSet(Idlers) /\ Cardinality(Idlers) \in Nat
  BY Zenon, <1>4, SubsetFinite, SetsFinite
<1>6. Cardinality(R) < active_workers
  <2>1. IsFiniteSet(R \cup Idlers)
        /\ Cardinality(R \cup Idlers) = Cardinality(R) + Cardinality(Idlers) - Cardinality(R \cap Idlers)
    BY Zenon, <1>5, FS_Union
  <2>2. Cardinality(R \cap Idlers) = 0
    BY Zenon, <1>4, FS_EmptySet
  <2>3. Cardinality((R \cup Idlers) \cup {w}) = Cardinality(R \cup Idlers) + 1
    BY Zenon, <1>4, <2>1, FS_AddElement
  <2>4. Cardinality((R \cup Idlers) \cup {w}) <= Cardinality(Workers)
    <3>1. (R \cup Idlers) \cup {w} \in SUBSET Workers
      BY Zenon, <1>4
    <3> QED
      BY Zenon, <3>1, TasksAssumption, FS_Subset
  <2>5. Cardinality(Idlers) = idle_workers
    BY <1>1, <1>2, <1>5 DEF IdleQueued
  <2> HIDE DEF R
  <2> QED
    BY SMTT(30), <2>1, <2>2, <2>3, <2>4, <2>5, <1>2, <1>5 DEF workers
<1>7. PICK f \in [N -> R] : \A n \in N : task[f[n]] = Task("refs", n)
  <2>1. \A n \in N : \E v \in R : task[v] = Task("refs", n)
    <3> TAKE n \in N
    <3>1. PICK v \in Workers : task[v] = Task("refs", n)
      BY Zenon DEF Held
    <3>2. task[v].kind = "refs"
      BY <3>1 DEF Task
    <3> QED
      BY Zenon, <3>1, <3>2
  <2> DEFINE g == [n \in N |-> CHOOSE v \in R : task[v] = Task("refs", n)]
  <2>2. ASSUME NEW n \in N PROVE g[n] \in R /\ task[g[n]] = Task("refs", n)
    BY Zenon, <2>1
  <2>3. g \in [N -> R]
    BY Zenon, <2>2
  <2> HIDE DEF g
  <2> QED
    BY Zenon, <2>2, <2>3
<1> HIDE DEF N, R
<1>8. PICK n, m \in N : n # m /\ f[n] = f[m]
  BY <1>3, <1>5, <1>6, FS_PigeonHole
<1>9. Task("refs", n) = Task("refs", m)
  BY Zenon, <1>7, <1>8
<1> QED
  BY Zenon, <1>8, <1>9 DEF Task

(* As long as a Ref is in the queue, no worker runs an ordinary root task  *)
(* or steals ordinary entries: not because anybody looks at the queue of   *)
(* Refs, but because there is a task for the Refs for every active worker, *)
(* and each is done only when the queue is empty.                          *)
THEOREM RefsBeforeRoots == Spec => []RefsFirst
<1>1. Inv /\ WInv => RefsFirst
  <2> SUFFICES ASSUME Inv, WInv, vm = "wait", refs > 0, NEW w \in Workers,
                      task[w].kind \in {"other", "roots", "steal"}
               PROVE  FALSE
    BY Zenon DEF RefsFirst, Ordinary
  <2>1. ~ (refs = 0) /\ Current(w)
    BY DEF Current
  <2>2. ASSUME NEW n PROVE ~ Queued(Task("refs", n))
    <3> SUFFICES ASSUME NEW i \in 1..Len(queue), queue[i] = Task("refs", n) PROVE FALSE
      BY Zenon DEF Queued, Occurs
    <3>1. Rank(task[w].kind) <= Rank("refs")
      <4>1. queue[i].kind = "refs"
        BY DEF Task
      <4> QED
        BY Zenon, <4>1, <2>1 DEF Inv, Order
    <3> QED
      BY <3>1 DEF Rank
  <2>3. \A n \in 0..(active_workers - 1) : Held(Task("refs", n))
    BY Zenon, <2>1, <2>2 DEF WInv, RefsLeft
  <2> QED
    BY Zenon, <2>3, AllHold
<1> QED
  BY WorkInvariant, <1>1, PTL
=============================================================================
