-------------------------- MODULE RefQueue_proofs --------------------------
(***************************************************************************)
(* The queue of bda references, for every number of Java threads, workers  *)
(* and Refs: racing enqueues never tear it, racing dequeues never hand out *)
(* a Ref twice, and a collection discards none.                            *)
(***************************************************************************)
EXTENDS RefQueue, FiniteSetTheorems, WellFoundedInduction, TLAPS

(* The Refs in the order of their CAS are distinct, and only those that    *)
(* are not the last have a successor.                                      *)
Distinct == \A i, j \in 1..Len(linked) : linked[i] = linked[j] => i = j
Links == \A r \in Refs : next[r] # NULL => \E i \in 1..(Len(linked) - 1) : r = linked[i]

(* A Ref is one thread's own until its CAS. *)
Fresh ==
  \A j \in JavaThreads : pc[j] \in {"read_insert", "cas_insert"} =>
    /\ ref[j] \in Refs \ Elems(linked)
    /\ \A k \in JavaThreads : ref[k] = ref[j] => k = j

(* What was handed out was linked before place p. *)
TakenBefore(p) ==
  \A w \in Workers : \A i \in 1..Len(taken[w]) : \E h \in 1..(p - 1) : taken[w][i] = linked[h]

(* Between collections: the Refs linked since the last one are those from  *)
(* place b on.  Each is linked to the next, or the thread that won the CAS *)
(* after it is about to do so; and as long as nobody has set _remove_end,  *)
(* a thread that won is still to look at it.                               *)
Returning == {"link", "test_remove", "set_remove"}

Own(j, b) ==
  \E i \in b..Len(linked) :
    /\ ref[j] = linked[i]
    /\ pc[j] = "link" => temp[j] = IF i = b THEN NULL ELSE linked[i - 1]

Linked(i) ==
  \/ next[linked[i]] = linked[i + 1]
  \/ \E j \in JavaThreads : pc[j] = "link" /\ temp[j] = linked[i] /\ ref[j] = linked[i + 1]

Filling(b) ==
  /\ insert_end = IF b > Len(linked) THEN NULL ELSE linked[Len(linked)]
  /\ remove_end # NULL => \E k \in b..Len(linked) : remove_end = linked[k]
  /\ \A j \in JavaThreads : pc[j] \in Returning => Own(j, b)
  /\ \A i \in b..(Len(linked) - 1) : Linked(i)
  /\ b <= Len(linked) /\ remove_end = NULL => \E j \in JavaThreads : pc[j] \in Returning
  /\ TakenBefore(b)
  /\ \A w \in Workers : pc[w] = "waiting"

(* During a collection: _remove_end is at place p, and what a worker has   *)
(* read of a Ref is what the Ref says, for no Java thread runs.            *)
Draining(p) ==
  /\ remove_end = IF p > Len(linked) THEN NULL ELSE linked[p]
  /\ \A i \in p..(Len(linked) - 1) : next[linked[i]] = linked[i + 1]
  /\ TakenBefore(p)
  /\ \A j \in JavaThreads : pc[j] = "idle"
  /\ \A w \in Workers :
       /\ pc[w] \in {"read_next", "cas_remove"} => temp[w] \in Refs
       /\ pc[w] = "cas_remove" => succ[w] = next[temp[w]]

Places == 1..(Len(linked) + 1)

IInv ==
  /\ TypeOK /\ Distinct /\ Links /\ Fresh /\ TakenOnce
  /\ world = "java" => \E b \in Places : Filling(b)
  /\ world = "scavenge" => \E p \in Places : Draining(p)

-----------------------------------------------------------------------------
(* A sequence and one element more *)
LEMMA Appended ==
  ASSUME NEW q \in Seq(Refs), NEW e
  PROVE  /\ Len(Append(q, e)) = Len(q) + 1 /\ Append(q, e)[Len(q) + 1] = e
         /\ \A i \in 1..Len(q) : Append(q, e)[i] = q[i]
OBVIOUS

(* The queue starts empty. *)
LEMMA InitInv == Init => IInv
<1> SUFFICES ASSUME Init PROVE IInv
  BY Zenon
<1>1. linked = <<>> /\ Len(linked) = 0 /\ linked \in Seq(Refs) /\ 1 \in Places
  BY DEF Init, Places
<1>2. TypeOK
  BY <1>1, RefQueueAssumption DEF Init, TypeOK, RefOrNull, Threads, JavaPCs, WorkerPCs
<1>3. Distinct /\ Links /\ Fresh /\ TakenOnce
  <2>1. \A r \in Refs : next[r] = NULL
    BY Zenon DEF Init
  <2>2. \A j \in JavaThreads : pc[j] = "idle"
    BY Zenon DEF Init, Threads
  <2>3. \A w \in Workers : Len(taken[w]) = 0
    BY DEF Init
  <2>4. 1..0 = {}
    OBVIOUS
  <2> QED
    BY Zenon, <1>1, <2>1, <2>2, <2>3, <2>4 DEF Distinct, Links, Fresh, TakenOnce
<1>4. Filling(1)
  <2>1. \A w \in Workers : pc[w] = "waiting" /\ Len(taken[w]) = 0
    BY RefQueueAssumption DEF Init, Threads
  <2>2. \A j \in JavaThreads : pc[j] = "idle"
    BY Zenon DEF Init, Threads
  <2> QED
    BY <1>1, <2>1, <2>2 DEF Init, Filling, Returning, TakenBefore
<1> QED
  BY Zenon, <1>1, <1>2, <1>3, <1>4 DEF IInv, Init

-----------------------------------------------------------------------------
(* enqueue.  Java threads run between collections only. *)

(* A step of enqueue keeps the types. *)
LEMMA EnqueueType == ASSUME IInv, NEW j \in JavaThreads, Enqueue(j) PROVE TypeOK'
<1> USE DEF IInv, TypeOK, RefOrNull, Threads, JavaPCs, WorkerPCs, Goto
<1>p. ASSUME NEW label \in JavaPCs, pc' = [pc EXCEPT ![j] = label]
      PROVE  /\ pc' \in [Threads -> JavaPCs \cup WorkerPCs]
             /\ \A k \in JavaThreads : pc'[k] \in JavaPCs
             /\ \A w \in Workers : pc'[w] \in WorkerPCs
  BY <1>p, RefQueueAssumption
<1>1. CASE NewRef(j)
  BY <1>1, <1>p DEF NewRef, queue, locals
<1>2. CASE ReadInsertEnd(j)
  BY <1>2, <1>p DEF ReadInsertEnd, queue, locals
<1>3. CASE CasInsertEnd(j)
  <2>1. ref[j] \in Refs
    BY <1>3 DEF CasInsertEnd, Fresh
  <2>2. PICK label \in JavaPCs : pc' = [pc EXCEPT ![j] = label]
    BY Zenon, <1>3 DEF CasInsertEnd
  <2>3. insert_end' \in RefOrNull /\ linked' \in Seq(Refs)
    <3>1. Append(linked, ref[j]) \in Seq(Refs)
      BY <2>1
    <3> QED
      BY Zenon, <1>3, <2>1, <3>1 DEF CasInsertEnd
  <2> QED
    BY Zenon, <1>3, <1>p, <2>2, <2>3 DEF CasInsertEnd, locals
<1>4. CASE LinkNext(j)
  BY <1>4, <1>p DEF LinkNext, queue, locals
<1>5. CASE TestRemoveEnd(j)
  BY <1>5, <1>p DEF TestRemoveEnd, queue, locals
<1>6. CASE SetRemoveEnd(j)
  BY <1>6, <1>p DEF SetRemoveEnd, queue, locals
<1> QED
  BY Zenon, <1>1, <1>2, <1>3, <1>4, <1>5, <1>6 DEF Enqueue

(* The queue is being filled when a Java thread is inside enqueue. *)
LEMMA EnqueueWorld ==
  ASSUME IInv, NEW j \in JavaThreads, Enqueue(j)
  PROVE  world = "java" /\ world' = "java"
<1>1. CASE NewRef(j)
  BY Zenon, <1>1 DEF NewRef
<1>2. CASE ~ NewRef(j)
  <2>1. pc[j] # "idle" /\ world' = world
    BY Zenon, <1>2 DEF Enqueue, ReadInsertEnd, CasInsertEnd, LinkNext, TestRemoveEnd, SetRemoveEnd, Goto
  <2> QED
    BY Zenon, <2>1 DEF IInv, Draining, TypeOK
<1> QED
  BY Zenon, <1>1, <1>2

(* The list is finite, and its members are Refs. *)
LEMMA Size ==
  ASSUME IInv
  PROVE  \E n \in Nat : /\ n = Len(linked) /\ Places = 1..(n + 1)
                        /\ \A i \in 1..n : linked[i] \in Refs /\ linked[i] # NULL
<1>1. Len(linked) \in Nat /\ \A i \in 1..Len(linked) : linked[i] \in Refs
  BY DEF IInv, TypeOK
<1> QED
  BY Zenon, <1>1, RefQueueAssumption DEF Places

(* The list depends on the links and on what was taken. *)
LEMMA ListFrame == ASSUME IInv, UNCHANGED <<next, linked, taken>> PROVE Distinct' /\ Links' /\ TakenOnce'
<1>1. Distinct' /\ Links'
  BY Zenon DEF IInv, Distinct, Links
<1>2. TakenOnce'
  BY DEF IInv, TakenOnce
<1> QED
  BY Zenon, <1>1, <1>2

(* A thread that allocates a Ref or reads _insert_end. *)
LEMMA BeforeCas ==
  ASSUME IInv, NEW j \in JavaThreads, NewRef(j) \/ ReadInsertEnd(j), TypeOK'
  PROVE  IInv'
<1>1. /\ UNCHANGED <<insert_end, remove_end, next, linked, taken, world>>
      /\ \A k \in JavaThreads : k # j => pc'[k] = pc[k] /\ ref'[k] = ref[k] /\ temp'[k] = temp[k]
      /\ \A w \in Workers : pc'[w] = pc[w]
      /\ pc[j] \notin Returning /\ pc'[j] \in {"read_insert", "cas_insert"}
  BY RefQueueAssumption DEF NewRef, ReadInsertEnd, Goto, IInv, TypeOK, Threads, queue, Returning
<1>2. ref'[j] \in Refs \ Elems(linked) /\ \A k \in JavaThreads : k # j => ref'[j] # ref[k]
  <2>1. CASE NewRef(j)
    BY <2>1 DEF NewRef, Allocated, IInv, TypeOK
  <2>2. CASE ReadInsertEnd(j)
    BY Zenon, <2>2 DEF ReadInsertEnd, Goto, IInv, Fresh
  <2> QED
    BY Zenon, <2>1, <2>2
<1>3. Distinct' /\ Links' /\ TakenOnce'
  BY Zenon, <1>1, ListFrame
<1>4. Fresh'
  <2>1. Elems(linked)' = Elems(linked)
    BY Zenon, <1>1 DEF Elems
  <2>2. ASSUME NEW k \in JavaThreads, pc'[k] \in {"read_insert", "cas_insert"}, k # j
        PROVE  /\ ref'[k] \in Refs \ Elems(linked)
               /\ \A m \in JavaThreads : ref'[m] = ref'[k] => m = k
    BY Zenon, <1>1, <1>2, <2>2 DEF IInv, Fresh
  <2> QED
    BY Zenon, <1>1, <1>2, <2>1, <2>2 DEF Fresh
<1>5. ASSUME NEW b \in Places, Filling(b) PROVE Filling(b)'
  <2>1. ASSUME NEW k \in JavaThreads, pc'[k] \in Returning PROVE Own(k, b)'
    <3>1. k # j
      BY Zenon, <1>1, <2>1 DEF Returning
    <3>2. Own(k, b) /\ pc'[k] = pc[k] /\ ref'[k] = ref[k] /\ temp'[k] = temp[k] /\ linked' = linked
      BY Zenon, <1>1, <1>5, <2>1, <3>1 DEF Filling
    <3> QED
      BY Zenon, <3>2 DEF Own
  <2>2. ASSUME NEW i \in b..(Len(linked) - 1) PROVE Linked(i)'
    <3>1. Linked(i) /\ linked' = linked /\ next' = next
      BY Zenon, <1>1, <1>5 DEF Filling
    <3>2. \A k \in JavaThreads : pc[k] = "link" => pc'[k] = pc[k] /\ ref'[k] = ref[k] /\ temp'[k] = temp[k]
      BY Zenon, <1>1 DEF Returning
    <3> QED
      BY Zenon, <3>1, <3>2 DEF Linked
  <2>3. (\E k \in JavaThreads : pc[k] \in Returning) => (\E k \in JavaThreads : pc'[k] \in Returning)
    BY Zenon, <1>1
  <2> QED
    BY ZenonT(30), <1>1, <1>5, <2>1, <2>2, <2>3 DEF Filling, TakenBefore
<1>6. world = "java" /\ world' = "java"
  BY Zenon, EnqueueWorld DEF Enqueue
<1> QED
  BY Zenon, <1>1, <1>3, <1>4, <1>5, <1>6 DEF IInv, Places

(* What was handed out stays where it is. *)
LEMMA TakenStay ==
  ASSUME NEW p, NEW q, TakenBefore(p), UNCHANGED taken,
         \A h \in 1..(p - 1) : h \in 1..(q - 1) /\ linked'[h] = linked[h]
  PROVE  TakenBefore(q)'
<1> SUFFICES ASSUME NEW w \in Workers, NEW i \in 1..Len(taken[w])
             PROVE  \E h \in 1..(q - 1) : taken[w][i] = linked'[h]
  BY Zenon DEF TakenBefore
<1>1. PICK h \in 1..(p - 1) : taken[w][i] = linked[h]
  BY Zenon DEF TakenBefore
<1> QED
  BY Zenon, <1>1

(* A thread that moves on and changes neither the list nor its locals. *)
LEMMA MoveOn ==
  ASSUME IInv, NEW j \in JavaThreads, NEW b \in Places, Filling(b), TypeOK', world = "java",
         pc[j] \notin {"idle", "link"}, NEW label, pc' = [pc EXCEPT ![j] = label],
         label \in {"read_insert", "set_remove", "idle"}, label = "read_insert" => pc[j] = "cas_insert",
         label = "set_remove" => pc[j] \in Returning,
         UNCHANGED <<insert_end, next, ref, temp, linked, taken, world>>,
         \/ remove_end' = remove_end /\ (label = "idle" => remove_end # NULL)
         \/ pc[j] = "set_remove" /\ remove_end' = ref[j]
  PROVE  IInv'
<1>1. /\ \A k \in JavaThreads : k # j => pc'[k] = pc[k]
      /\ \A w \in Workers : pc'[w] = pc[w]
      /\ pc'[j] = label
  BY RefQueueAssumption DEF IInv, TypeOK, Threads
<1>2. Distinct' /\ Links' /\ TakenOnce'
  BY Zenon, ListFrame
<1>3. Fresh'
  <2>1. \A k \in JavaThreads : pc'[k] \in {"read_insert", "cas_insert"} => pc[k] \in {"read_insert", "cas_insert"}
    BY Zenon, <1>1
  <2> QED
    BY Zenon, <2>1 DEF IInv, Fresh, Elems
<1>4. Filling(b)'
  <2>1. ASSUME NEW k \in JavaThreads, pc'[k] \in Returning PROVE Own(k, b)'
    <3>1. pc[k] \in Returning /\ (pc'[k] = "link" => pc[k] = "link")
      BY Zenon, <1>1, <2>1 DEF Returning
    <3> QED
      BY Zenon, <3>1 DEF Filling, Own
  <2>2. ASSUME NEW i \in b..(Len(linked) - 1) PROVE Linked(i)'
    <3>1. \A k \in JavaThreads : pc[k] = "link" => pc'[k] = pc[k]
      BY Zenon, <1>1
    <3>2. Linked(i)
      BY Zenon DEF Filling
    <3> QED
      BY Zenon, <3>1, <3>2 DEF Linked
  <2>3. remove_end' # NULL => \E k \in b..Len(linked) : remove_end' = linked[k]
    <3>1. pc[j] = "set_remove" => Own(j, b)
      BY Zenon DEF Filling, Returning
    <3> QED
      BY Zenon, <3>1 DEF Filling, Own
  <2>4. b <= Len(linked) /\ remove_end' = NULL => \E k \in JavaThreads : pc'[k] \in Returning
    <3> SUFFICES ASSUME b <= Len(linked), remove_end' = NULL PROVE \E k \in JavaThreads : pc'[k] \in Returning
      BY Zenon
    <3>1. remove_end = NULL /\ label # "idle"
      <4>1. \A i \in 1..Len(linked) : linked[i] # NULL
        BY RefQueueAssumption DEF IInv, TypeOK
      <4>2. pc[j] = "set_remove" => ref[j] # NULL
        <5> SUFFICES ASSUME pc[j] = "set_remove" PROVE ref[j] # NULL
          BY Zenon
        <5>1. Own(j, b)
          BY Zenon DEF Filling, Returning
        <5>2. b..Len(linked) \subseteq 1..Len(linked)
          BY DEF Places
        <5> QED
          BY Zenon, <4>1, <5>1, <5>2 DEF Own
      <4> QED
        BY Zenon, <4>2
    <3>2. PICK k \in JavaThreads : pc[k] \in Returning
      BY Zenon, <3>1 DEF Filling
    <3> QED
      BY Zenon, <3>1, <3>2, <1>1 DEF Returning
  <2> QED
    BY ZenonT(30), <1>1, <2>1, <2>2, <2>3, <2>4 DEF Filling, TakenBefore
<1> QED
  BY Zenon, <1>2, <1>3, <1>4 DEF IInv, Places

(* Winning the CAS on _insert_end: the Ref of j is the last one. *)
LEMMA CasWon ==
  ASSUME IInv, NEW j \in JavaThreads, NEW b \in Places, Filling(b), TypeOK', world = "java",
         pc[j] = "cas_insert", pc' = [pc EXCEPT ![j] = "link"], insert_end = temp[j],
         insert_end' = ref[j], linked' = Append(linked, ref[j]),
         UNCHANGED <<remove_end, next, ref, temp, taken, world>>
  PROVE  IInv'
<1>1. /\ \A k \in JavaThreads : k # j => pc'[k] = pc[k]
      /\ \A w \in Workers : pc'[w] = pc[w]
      /\ pc'[j] = "link"
  BY RefQueueAssumption DEF IInv, TypeOK, Threads
<1>r. PICK r \in Refs : r = ref[j] /\ r \notin Elems(linked)
  BY Zenon DEF IInv, Fresh
<1>n. PICK n \in Nat : /\ n = Len(linked) /\ Places = 1..(n + 1)
                     /\ \A i \in 1..n : linked[i] \in Refs /\ linked[i] # NULL
  BY Zenon, Size
<1>2. /\ Len(linked') = n + 1 /\ linked'[n + 1] = r
      /\ \A i \in 1..n : linked'[i] = linked[i] /\ linked[i] \in Refs /\ linked[i] # r
      /\ b \in 1..(n + 1)
  BY <1>r, <1>n DEF IInv, TypeOK, Elems, Places
<1>3. Distinct'
  BY <1>2, <1>n DEF IInv, Distinct
<1>4. Links'
  <2>1. ASSUME NEW x \in Refs, next[x] # NULL PROVE \E i \in 1..((n + 1) - 1) : x = linked'[i]
    <3>1. PICK i \in 1..(n - 1) : x = linked[i]
      BY Zenon, <2>1, <1>n DEF IInv, Links
    <3>2. i \in 1..((n + 1) - 1) /\ x = linked'[i]
      BY <3>1, <1>2
    <3> QED
      BY Zenon, <3>2
  <2> QED
    BY ZenonT(30), <1>2, <2>1 DEF Links
<1>5. Fresh'
  <2>1. \A x : x \in Elems(linked') => x \in Elems(linked) \/ x = r
    BY <1>2, <1>n DEF Elems
  <2>2. ASSUME NEW k \in JavaThreads, pc'[k] \in {"read_insert", "cas_insert"}
        PROVE  ref[k] \in Refs \ Elems(linked') /\ \A m \in JavaThreads : ref[m] = ref[k] => m = k
    <3>1. k # j /\ pc[k] \in {"read_insert", "cas_insert"}
      BY Zenon, <1>1, <2>2
    <3>2. ref[k] \in Refs \ Elems(linked) /\ \A m \in JavaThreads : ref[m] = ref[k] => m = k
      BY Zenon, <3>1 DEF IInv, Fresh
    <3> QED
      BY Zenon, <2>1, <3>1, <3>2, <1>r
  <2> QED
    BY Zenon, <2>2 DEF Fresh, Elems
<1>6. TakenOnce'
  BY DEF IInv, TakenOnce
<1>7. Filling(b)'
  <2>1. insert_end' = IF b > Len(linked') THEN NULL ELSE linked'[Len(linked')]
    BY <1>2, <1>r
  <2>2. remove_end' # NULL => \E k \in b..Len(linked') : remove_end' = linked'[k]
    <3>1. ASSUME NEW k \in b..n, remove_end = linked[k] PROVE k \in b..(n + 1) /\ remove_end = linked'[k]
      BY <3>1, <1>2
    <3> QED
      BY Zenon, <3>1, <1>2, <1>n DEF Filling
  <2>3. ASSUME NEW k \in JavaThreads, pc'[k] \in Returning PROVE Own(k, b)'
    <3>1. CASE k = j
      <4>1. n + 1 \in b..Len(linked') /\ ref'[k] = linked'[n + 1]
        BY <1>2, <1>r, <3>1
      <4>2. temp'[k] = IF n + 1 = b THEN NULL ELSE linked'[(n + 1) - 1]
        <5>1. temp'[k] = IF b > n THEN NULL ELSE linked[n]
          BY Zenon, <3>1, <1>n DEF Filling
        <5> QED
          BY <5>1, <1>2
      <4> QED
        BY Zenon, <4>1, <4>2 DEF Own
    <3>2. CASE k # j
      <4>1. pc'[k] = pc[k] /\ pc[k] \in Returning
        BY Zenon, <1>1, <2>3, <3>2
      <4>2. PICK i \in b..n : /\ ref[k] = linked[i]
                              /\ pc[k] = "link" => temp[k] = IF i = b THEN NULL ELSE linked[i - 1]
        BY Zenon, <4>1, <1>n DEF Filling, Own
      <4>3. /\ i \in b..Len(linked') /\ ref[k] = linked'[i]
            /\ pc[k] = "link" => temp[k] = IF i = b THEN NULL ELSE linked'[i - 1]
        BY <4>2, <1>2
      <4> QED
        BY Zenon, <4>1, <4>3 DEF Own
    <3> QED
      BY Zenon, <3>1, <3>2
  <2>4. ASSUME NEW i \in b..(Len(linked') - 1) PROVE Linked(i)'
    <3>1. CASE i = n
      <4>1. temp[j] = linked'[i] /\ ref[j] = linked'[i + 1]
        BY <1>2, <1>r, <1>n, <3>1 DEF Filling
      <4> QED
        BY Zenon, <4>1, <1>1 DEF Linked
    <3>2. CASE i # n
      <4>1. i \in b..(n - 1) /\ linked'[i] = linked[i] /\ linked'[i + 1] = linked[i + 1]
        BY <1>2, <3>2
      <4>2. Linked(i)
        BY Zenon, <4>1, <1>n DEF Filling
      <4>3. \A k \in JavaThreads : pc[k] = "link" => pc'[k] = "link"
        BY Zenon, <1>1
      <4> QED
        BY Zenon, <4>1, <4>2, <4>3 DEF Linked
    <3> QED
      BY Zenon, <3>1, <3>2
  <2>5. \E k \in JavaThreads : pc'[k] \in Returning
    BY Zenon, <1>1 DEF Returning
  <2>6. TakenBefore(b)'
    <3>1. \A h \in 1..(b - 1) : linked'[h] = linked[h]
      BY <1>2
    <3>2. TakenBefore(b)
      BY Zenon DEF Filling
    <3> QED
      BY Zenon, <3>1, <3>2, TakenStay
  <2> QED
    BY ZenonT(30), <1>1, <2>1, <2>2, <2>3, <2>4, <2>5, <2>6 DEF Filling
<1>8. b \in Places'
  BY <1>2 DEF Places
<1> QED
  BY Zenon, <1>3, <1>4, <1>5, <1>6, <1>7, <1>8 DEF IInv

(* The winner links the Ref before its own. *)
LEMMA LinkInv ==
  ASSUME IInv, NEW j \in JavaThreads, NEW b \in Places, Filling(b), TypeOK', world = "java", LinkNext(j)
  PROVE  IInv'
<1>1. /\ \A k \in JavaThreads : k # j => pc'[k] = pc[k]
      /\ \A w \in Workers : pc'[w] = pc[w]
      /\ pc'[j] = "test_remove" /\ pc[j] = "link"
      /\ next' = IF temp[j] = NULL THEN next ELSE [next EXCEPT ![temp[j]] = ref[j]]
      /\ UNCHANGED <<insert_end, remove_end, ref, temp, linked, taken, world>>
  BY RefQueueAssumption DEF LinkNext, Goto, IInv, TypeOK, Threads, locals
<1>m. PICK n \in Nat : /\ n = Len(linked) /\ Places = 1..(n + 1)
                     /\ \A i \in 1..n : linked[i] \in Refs /\ linked[i] # NULL
  BY Zenon, Size
<1>n. n = Len(linked) /\ b \in 1..(n + 1) /\ \A i \in 1..n : linked[i] \in Refs /\ linked[i] # NULL
  BY Zenon, <1>m
<1>2. PICK i \in b..n : ref[j] = linked[i] /\ temp[j] = IF i = b THEN NULL ELSE linked[i - 1]
  BY Zenon, <1>1, <1>n DEF Filling, Own, Returning
<1>3. \A r \in Refs : next'[r] = IF r = temp[j] THEN linked[i] ELSE next[r]
  BY <1>1, <1>2, RefQueueAssumption DEF IInv, TypeOK
<1>4. temp[j] # NULL => i - 1 \in b..(n - 1) /\ i - 1 \in 1..(n - 1) /\ temp[j] = linked[i - 1] /\ (i - 1) + 1 = i
  BY <1>2, <1>n
<1>5. Distinct' /\ TakenOnce'
  <2>1. Distinct'
    BY Zenon, <1>1 DEF IInv, Distinct
  <2>2. TakenOnce'
    BY <1>1 DEF IInv, TakenOnce
  <2> QED
    BY Zenon, <2>1, <2>2
<1>6. Links'
  <2> SUFFICES ASSUME NEW r \in Refs, next'[r] # NULL PROVE \E m \in 1..(n - 1) : r = linked[m]
    BY Zenon, <1>1, <1>n DEF Links
  <2>1. CASE r = temp[j]
    BY Zenon, <2>1, <1>4, RefQueueAssumption
  <2>2. CASE r # temp[j]
    BY Zenon, <2>2, <1>3, <1>n DEF IInv, Links
  <2> QED
    BY Zenon, <2>1, <2>2
<1>7. Fresh'
  <2>1. \A k \in JavaThreads : pc'[k] \in {"read_insert", "cas_insert"} => pc[k] \in {"read_insert", "cas_insert"}
    BY Zenon, <1>1
  <2>2. UNCHANGED <<ref, linked>>
    BY Zenon, <1>1
  <2> QED
    BY Zenon, <2>1, <2>2 DEF IInv, Fresh, Elems
<1>8. Filling(b)'
  <2>1. ASSUME NEW k \in JavaThreads, pc'[k] \in Returning PROVE Own(k, b)'
    <3>1. pc[k] \in Returning /\ (pc'[k] = "link" => pc[k] = "link")
      BY Zenon, <1>1, <2>1 DEF Returning
    <3>2. Own(k, b) /\ UNCHANGED <<ref, temp, linked>>
      BY Zenon, <3>1, <1>1 DEF Filling
    <3> QED
      BY Zenon, <3>1, <3>2 DEF Own
  <2>2. ASSUME NEW m \in b..(n - 1) PROVE Linked(m)'
    <3>0. m \in 1..n /\ m + 1 \in 1..n /\ linked[m] \in Refs
      BY <1>n
    <3>1. CASE linked[m] = temp[j]
      <4>1. temp[j] # NULL
        BY Zenon, <3>0, <3>1, RefQueueAssumption
      <4>2. i - 1 \in 1..n /\ linked[m] = linked[i - 1]
        BY <4>1, <1>4, <3>1, <1>n
      <4>3. m = i - 1
        BY Zenon, <4>2, <3>0, <1>n DEF IInv, Distinct
      <4>4. m + 1 = i
        BY <4>3
      <4> QED
        BY Zenon, <4>4, <1>1, <1>3, <3>0, <3>1 DEF Linked
    <3>2. CASE linked[m] # temp[j]
      <4>1. Linked(m) /\ next'[linked[m]] = next[linked[m]] /\ UNCHANGED <<ref, temp, linked>>
        BY Zenon, <1>1, <1>n, <1>3, <3>0, <3>2 DEF Filling
      <4>2. \A k \in JavaThreads : k # j => pc'[k] = pc[k]
        BY Zenon, <1>1
      <4> QED
        BY Zenon, <4>1, <4>2, <3>2 DEF Linked
    <3> QED
      BY Zenon, <3>1, <3>2
  <2>3. \E k \in JavaThreads : pc'[k] \in Returning
    BY Zenon, <1>1 DEF Returning
  <2>4. UNCHANGED <<insert_end, remove_end, linked, taken>> /\ \A w \in Workers : pc'[w] = pc[w]
    BY Zenon, <1>1
  <2> QED
    BY ZenonT(30), <2>1, <2>2, <2>3, <2>4, <1>n DEF Filling, TakenBefore
<1> QED
  BY Zenon, <1>1, <1>5, <1>6, <1>7, <1>8 DEF IInv, Places

(* Every step of RefQueue::enqueue keeps the invariant. *)
LEMMA EnqueueInv == ASSUME IInv, NEW j \in JavaThreads, Enqueue(j) PROVE IInv'
<1>1. TypeOK' /\ world = "java"
  BY Zenon, EnqueueType, EnqueueWorld
<1>2. PICK b \in Places : Filling(b)
  BY Zenon, <1>1 DEF IInv
<1>3. CASE NewRef(j) \/ ReadInsertEnd(j)
  BY Zenon, <1>1, <1>3, BeforeCas
<1>4. CASE CasInsertEnd(j)
  <2>1. CASE insert_end = temp[j]
    BY Zenon, <1>1, <1>2, <1>4, <2>1, CasWon DEF CasInsertEnd, Goto, locals
  <2>2. CASE insert_end # temp[j]
    BY Zenon, <1>1, <1>2, <1>4, <2>2, MoveOn DEF CasInsertEnd, Goto, locals
  <2> QED
    BY Zenon, <2>1, <2>2
<1>5. CASE LinkNext(j)
  BY Zenon, <1>1, <1>2, <1>5, LinkInv
<1>6. CASE TestRemoveEnd(j)
  <2>1. PICK label \in {"set_remove", "idle"} :
          /\ label = IF remove_end = NULL THEN "set_remove" ELSE "idle"
          /\ pc[j] = "test_remove" /\ pc' = [pc EXCEPT ![j] = label]
          /\ UNCHANGED <<insert_end, remove_end, next, ref, temp, linked, taken, world>>
    BY Zenon, <1>6 DEF TestRemoveEnd, Goto, queue, locals
  <2> QED
    BY Zenon, <1>1, <1>2, <2>1, MoveOn DEF Returning
<1>7. CASE SetRemoveEnd(j)
  BY Zenon, <1>1, <1>2, <1>7, MoveOn DEF SetRemoveEnd, Goto, locals, Returning
<1> QED
  BY Zenon, <1>3, <1>4, <1>5, <1>6, <1>7 DEF Enqueue

-----------------------------------------------------------------------------
(* dequeue.  The workers run during a collection only. *)

(* A step of a worker keeps the types. *)
LEMMA RootsTaskType == ASSUME IInv, NEW w \in Workers, RootsTask(w) PROVE TypeOK'
<1> USE DEF IInv, TypeOK, RefOrNull, Threads, JavaPCs, WorkerPCs, Goto
<1>p. ASSUME NEW label \in WorkerPCs, pc' = [pc EXCEPT ![w] = label]
      PROVE  /\ pc' \in [Threads -> JavaPCs \cup WorkerPCs]
             /\ \A k \in JavaThreads : pc'[k] \in JavaPCs
             /\ \A v \in Workers : pc'[v] \in WorkerPCs
  BY <1>p, RefQueueAssumption
<1>w. world = "scavenge" /\ \E p \in Places : Draining(p)
  BY Zenon DEF RootsTask, ReadRemoveEnd, ReadNext, CasRemoveEnd, TestEmpty, ClearInsertEnd, Process, Filling
<1>1. CASE ReadRemoveEnd(w)
  BY <1>1, <1>p DEF ReadRemoveEnd, queue, locals
<1>2. CASE ReadNext(w)
  <2>1. temp[w] \in Refs
    BY Zenon, <1>w, <1>2 DEF Draining, ReadNext
  <2> QED
    BY <1>2, <1>p, <2>1 DEF ReadNext, queue, locals
<1>3. CASE CasRemoveEnd(w)
  <2>1. temp[w] \in Refs
    BY Zenon, <1>w, <1>3 DEF Draining, CasRemoveEnd
  <2>2. PICK label \in WorkerPCs : pc' = [pc EXCEPT ![w] = label]
    BY Zenon, <1>3 DEF CasRemoveEnd
  <2>3. remove_end' \in RefOrNull
    BY SMTT(20), <1>3 DEF CasRemoveEnd
  <2>4. taken' \in [Workers -> Seq(Refs)]
    <3>1. Append(taken[w], temp[w]) \in Seq(Refs)
      BY <2>1
    <3> QED
      BY ZenonT(30), <1>3, <3>1 DEF CasRemoveEnd
  <2> QED
    BY Zenon, <1>3, <1>p, <2>2, <2>3, <2>4 DEF CasRemoveEnd, locals
<1>4. CASE TestEmpty(w)
  BY <1>4, <1>p DEF TestEmpty, queue, locals
<1>5. CASE ClearInsertEnd(w)
  BY <1>5, <1>p DEF ClearInsertEnd, queue, locals
<1>6. CASE Process(w)
  BY <1>6, <1>p DEF Process, queue, locals
<1> QED
  BY Zenon, <1>1, <1>2, <1>3, <1>4, <1>5, <1>6 DEF RootsTask

(* Workers run during a collection, when no Java thread does. *)
LEMMA RootsTaskWorld ==
  ASSUME IInv, NEW w \in Workers, RootsTask(w)
  PROVE  world = "scavenge" /\ world' = "scavenge" /\ \E p \in Places : Draining(p)
BY Zenon DEF IInv, TypeOK, RootsTask, ReadRemoveEnd, ReadNext, CasRemoveEnd, TestEmpty, ClearInsertEnd,
             Process, Goto, Filling

(* A worker's step leaves the Java threads where they are. *)
LEMMA WorkerFresh ==
  ASSUME IInv, NEW w \in Workers, NEW label, pc' = [pc EXCEPT ![w] = label], UNCHANGED <<ref, linked>>
  PROVE  Fresh' /\ \A j \in JavaThreads : pc'[j] = pc[j]
<1>1. \A j \in JavaThreads : pc'[j] = pc[j]
  BY RefQueueAssumption DEF IInv, TypeOK, Threads
<1> QED
  BY Zenon, <1>1 DEF IInv, Fresh, Elems

(* A worker that takes nothing: what it reads into its locals is what the  *)
(* queue says.                                                             *)
LEMMA TakeNothing ==
  ASSUME IInv, NEW w \in Workers, TypeOK', NEW p \in Places, Draining(p), world = "scavenge",
         NEW label, pc' = [pc EXCEPT ![w] = label],
         UNCHANGED <<remove_end, next, ref, linked, taken, world>>,
         \A v \in Workers : v # w => temp'[v] = temp[v] /\ succ'[v] = succ[v],
         label \in {"read_next", "cas_remove"} => temp'[w] \in Refs,
         label = "cas_remove" => succ'[w] = next[temp'[w]]
  PROVE  IInv'
<1>1. Distinct' /\ Links' /\ TakenOnce'
  BY Zenon, ListFrame
<1>2. Fresh' /\ \A j \in JavaThreads : pc'[j] = pc[j]
  BY Zenon, WorkerFresh
<1>3. pc'[w] = label /\ \A v \in Workers : v # w => pc'[v] = pc[v]
  BY Zenon DEF IInv, TypeOK, Threads
<1>4. Draining(p)'
  <2>1. TakenBefore(p)'
    BY Zenon, TakenStay DEF Draining
  <2>2. \A v \in Workers : /\ pc'[v] \in {"read_next", "cas_remove"} => temp'[v] \in Refs
                           /\ pc'[v] = "cas_remove" => succ'[v] = next[temp'[v]]
    BY ZenonT(30), <1>3 DEF Draining
  <2> QED
    BY Zenon, <1>2, <2>1, <2>2 DEF Draining
<1> QED
  BY Zenon, <1>1, <1>2, <1>4 DEF IInv, Places

(* A worker about to win the CAS on _remove_end has read the Ref at place  *)
(* p and its successor.                                                    *)
LEMMA TakenPlace ==
  ASSUME IInv, NEW w \in Workers, NEW p \in Places, Draining(p),
         pc[w] = "cas_remove", remove_end = temp[w], NEW n \in Nat, n = Len(linked)
  PROVE  /\ p \in 1..n /\ temp[w] = linked[p] /\ temp[w] \in Refs
         /\ succ[w] = IF p + 1 > n THEN NULL ELSE linked[p + 1]
<1>m. Places = 1..(n + 1) /\ \A i \in 1..n : linked[i] \in Refs /\ linked[i] # NULL
  BY Zenon, Size
<1>n. n = Len(linked) /\ p \in 1..(n + 1) /\ \A i \in 1..n : linked[i] \in Refs
  BY Zenon, <1>m
<1>1. temp[w] \in Refs /\ temp[w] # NULL /\ succ[w] = next[temp[w]]
  BY Zenon, RefQueueAssumption DEF Draining
<1>2. p \in 1..n /\ temp[w] = linked[p]
  BY <1>1, <1>n DEF Draining
<1>3. succ[w] = IF p + 1 > n THEN NULL ELSE linked[p + 1]
  <2>1. CASE p = n
    <3>1. ASSUME NEW i \in 1..(n - 1) PROVE linked[i] # linked[p]
      <4>1. i \in 1..n /\ i # p
        BY <2>1
      <4> QED
        BY Zenon, <4>1, <1>2, <1>n DEF IInv, Distinct
    <3>2. next[temp[w]] = NULL
      BY Zenon, <3>1, <1>1, <1>2, <1>n DEF IInv, Links
    <3>3. p + 1 > n
      BY <2>1
    <3> QED
      BY Zenon, <1>1, <3>2, <3>3
  <2>2. CASE p # n
    <3>1. p \in p..(n - 1) /\ ~ (p + 1 > n)
      BY <2>2, <1>2
    <3> QED
      BY Zenon, <3>1, <1>1, <1>2, <1>n DEF Draining
  <2> QED
    BY Zenon, <2>1, <2>2
<1> QED
  BY Zenon, <1>1, <1>2, <1>3

(* A worker wins the CAS on _remove_end: it has the Ref at place p, and    *)
(* the next is at place p + 1, or there is none.                           *)
LEMMA TakeOne ==
  ASSUME IInv, NEW w \in Workers, TypeOK', NEW p \in Places, Draining(p), world = "scavenge",
         pc[w] = "cas_remove", pc' = [pc EXCEPT ![w] = "test_empty"], remove_end = temp[w],
         remove_end' = succ[w], taken' = [taken EXCEPT ![w] = Append(taken[w], temp[w])],
         UNCHANGED <<next, ref, temp, succ, linked, world>>
  PROVE  IInv'
<1>m. PICK n \in Nat : /\ n = Len(linked) /\ Places = 1..(n + 1)
                     /\ \A i \in 1..n : linked[i] \in Refs /\ linked[i] # NULL
  BY Zenon, Size
<1>n. n = Len(linked) /\ p \in 1..(n + 1) /\ \A i \in 1..n : linked[i] \in Refs
  BY Zenon, <1>m
<1>1. /\ p \in 1..n /\ temp[w] = linked[p] /\ temp[w] \in Refs
      /\ succ[w] = IF p + 1 > n THEN NULL ELSE linked[p + 1]
  BY Zenon, <1>m, TakenPlace
<1>2. p \in 1..n /\ temp[w] = linked[p]
  BY Zenon, <1>1
<1>3. succ[w] = IF p + 1 > n THEN NULL ELSE linked[p + 1]
  BY Zenon, <1>1
<1>4. Fresh' /\ \A j \in JavaThreads : pc'[j] = pc[j]
  BY Zenon, WorkerFresh
<1>5. pc'[w] = "test_empty" /\ \A v \in Workers : v # w => pc'[v] = pc[v]
  BY Zenon DEF IInv, TypeOK, Threads
<1>t. PICK t \in [Workers -> Nat] : \A v \in Workers : t[v] = Len(taken[v])
  <2>1. \A v \in Workers : Len(taken[v]) \in Nat
    BY DEF IInv, TypeOK
  <2>2. [v \in Workers |-> Len(taken[v])] \in [Workers -> Nat]
    BY Zenon, <2>1
  <2> QED
    BY Zenon, <2>2
<1>6. /\ Len(taken'[w]) = t[w] + 1 /\ taken'[w][t[w] + 1] = linked[p]
      /\ \A i \in 1..t[w] : taken'[w][i] = taken[w][i]
      /\ \A v \in Workers : v # w => taken'[v] = taken[v]
  <2>1. taken[w] \in Seq(Refs) /\ temp[w] = linked[p] /\ t[w] = Len(taken[w])
    BY Zenon, <1>t, <1>1 DEF IInv, TypeOK
  <2>2. taken'[w] = Append(taken[w], temp[w]) /\ \A v \in Workers : v # w => taken'[v] = taken[v]
    BY Zenon DEF IInv, TypeOK
  <2>3. /\ Len(taken'[w]) = Len(taken[w]) + 1 /\ taken'[w][Len(taken[w]) + 1] = temp[w]
        /\ \A i \in 1..Len(taken[w]) : taken'[w][i] = taken[w][i]
    <3>1. PICK q \in Seq(Refs) : q = taken[w]
      BY Zenon, <2>1
    <3>2. PICK e : e = temp[w]
      BY Zenon
    <3>3. /\ Len(Append(q, e)) = Len(q) + 1 /\ Append(q, e)[Len(q) + 1] = e
          /\ \A i \in 1..Len(q) : Append(q, e)[i] = q[i]
      BY Zenon, Appended
    <3> QED
      BY Zenon, <2>2, <3>1, <3>2, <3>3
  <2> QED
    BY Zenon, <2>1, <2>2, <2>3
<1>7. ASSUME NEW v \in Workers, NEW i \in 1..t[v]
      PROVE  \E h \in 1..(p - 1) : taken[v][i] = linked[h]
  <2>1. TakenBefore(p) /\ i \in 1..Len(taken[v])
    BY Zenon, <1>t, <1>7 DEF Draining
  <2> QED
    BY <2>1 DEF TakenBefore
<1>8. ASSUME NEW v \in Workers, NEW i \in 1..t[v] PROVE taken[v][i] # linked[p]
  <2>1. PICK h \in 1..(p - 1) : taken[v][i] = linked[h]
    BY Zenon, <1>7, <1>8
  <2>2. h \in 1..n /\ h # p
    BY <2>1, <1>2
  <2> QED
    BY Zenon, <2>1, <2>2, <1>2, <1>n DEF IInv, Distinct
<1>9. TakenOnce'
  <2>0. ASSUME NEW v \in Workers, NEW i \in 1..Len(taken'[v])
        PROVE  \/ i \in 1..t[v] /\ taken'[v][i] = taken[v][i]
               \/ v = w /\ i = t[w] + 1 /\ taken'[v][i] = linked[p]
    <3>1. CASE v = w
      <4>1. i \in 1..t[w] \/ i = t[w] + 1
        BY <2>0, <3>1, <1>6
      <4> QED
        BY Zenon, <4>1, <3>1, <1>6
    <3>2. CASE v # w
      BY Zenon, <2>0, <3>2, <1>6, <1>t
    <3> QED
      BY Zenon, <3>1, <3>2
  <2> SUFFICES ASSUME NEW u \in Workers, NEW v \in Workers, NEW i \in 1..Len(taken'[u]),
                      NEW j \in 1..Len(taken'[v]), taken'[u][i] = taken'[v][j]
               PROVE  u = v /\ i = j
    BY Zenon DEF TakenOnce
  <2>1. CASE i \in 1..t[u] /\ taken'[u][i] = taken[u][i] /\ j \in 1..t[v] /\ taken'[v][j] = taken[v][j]
    BY <2>1, <1>t DEF IInv, TakenOnce
  <2>2. CASE i \in 1..t[u] /\ taken'[u][i] = taken[u][i] /\ taken'[v][j] = linked[p]
    BY Zenon, <2>2, <1>8
  <2>3. CASE j \in 1..t[v] /\ taken'[v][j] = taken[v][j] /\ taken'[u][i] = linked[p]
    BY Zenon, <2>3, <1>8
  <2>4. CASE u = w /\ i = t[w] + 1 /\ v = w /\ j = t[w] + 1
    BY Zenon, <2>4
  <2> QED
    BY Zenon, <2>0, <2>1, <2>2, <2>3, <2>4
<1>10. Distinct' /\ Links'
  BY Zenon DEF IInv, Distinct, Links
<1>11. Draining(p + 1)'
  <2>1. \A i \in (p + 1)..(n - 1) : next[linked[i]] = linked[i + 1]
    <3>1. \A i \in (p + 1)..(n - 1) : i \in p..(n - 1)
      BY <1>2
    <3> QED
      BY Zenon, <3>1, <1>n DEF Draining
  <2>2. TakenBefore(p + 1)'
    <3> SUFFICES ASSUME NEW v \in Workers, NEW i \in 1..Len(taken'[v])
                 PROVE  \E h \in 1..((p + 1) - 1) : taken'[v][i] = linked[h]
      BY DEF TakenBefore
    <3>1. p \in 1..((p + 1) - 1) /\ \A h \in 1..(p - 1) : h \in 1..((p + 1) - 1)
      BY <1>2
    <3>2. CASE v = w
      <4>1. i \in 1..t[w] \/ i = t[w] + 1
        BY <3>2, <1>6
      <4>2. CASE i \in 1..t[w]
        <5>1. PICK h \in 1..(p - 1) : taken[w][i] = linked[h]
          BY Zenon, <4>2, <1>7
        <5> QED
          BY Zenon, <5>1, <4>2, <3>1, <3>2, <1>6
      <4>3. CASE i = t[w] + 1
        BY Zenon, <4>3, <3>1, <3>2, <1>6
      <4> QED
        BY Zenon, <4>1, <4>2, <4>3
    <3>3. CASE v # w
      <4>1. i \in 1..t[v] /\ taken'[v][i] = taken[v][i]
        BY Zenon, <3>3, <1>6, <1>t
      <4> QED
        BY <3>1, <4>1, <1>7
    <3> QED
      BY Zenon, <3>2, <3>3
  <2>3. \A v \in Workers : /\ pc'[v] \in {"read_next", "cas_remove"} => temp[v] \in Refs
                           /\ pc'[v] = "cas_remove" => succ[v] = next[temp[v]]
    BY Zenon, <1>5 DEF Draining
  <2> QED
    BY Zenon, <2>1, <2>2, <2>3, <1>3, <1>4, <1>n DEF Draining
<1>12. p + 1 \in Places'
  BY <1>2, <1>n DEF Places
<1> QED
  BY Zenon, <1>4, <1>9, <1>10, <1>11, <1>12 DEF IInv

(* Every step of a worker in RefQueue::dequeue keeps the invariant. *)
LEMMA RootsTaskInv == ASSUME IInv, NEW w \in Workers, RootsTask(w) PROVE IInv'
<1>1. TypeOK' /\ world = "scavenge"
  BY Zenon, RootsTaskType, RootsTaskWorld
<1>2. PICK p \in Places : Draining(p)
  BY Zenon, RootsTaskWorld
<1>3. CASE ReadRemoveEnd(w)
  <2>1. PICK label \in {"done", "read_next"} :
          pc' = [pc EXCEPT ![w] = label] /\ (label = "read_next" => remove_end # NULL)
    BY Zenon, <1>3 DEF ReadRemoveEnd, Goto
  <2>2. /\ UNCHANGED <<remove_end, next, ref, linked, taken, world>>
        /\ temp'[w] = remove_end /\ remove_end \in Refs \cup {NULL}
        /\ \A v \in Workers : v # w => temp'[v] = temp[v] /\ succ'[v] = succ[v]
    BY Zenon, <1>3 DEF ReadRemoveEnd, queue, IInv, TypeOK, Threads, RefOrNull
  <2> QED
    BY Zenon, <1>1, <1>2, <2>1, <2>2, TakeNothing
<1>4. CASE ReadNext(w)
  <2>1. /\ UNCHANGED <<remove_end, next, ref, linked, taken, world>>
        /\ temp' = temp /\ temp[w] \in Refs /\ succ'[w] = next[temp[w]]
        /\ \A v \in Workers : v # w => succ'[v] = succ[v]
    BY Zenon, <1>2, <1>4 DEF ReadNext, Goto, queue, IInv, TypeOK, Draining
  <2> QED
    BY Zenon, <1>1, <1>2, <1>4, <2>1, TakeNothing DEF ReadNext, Goto
<1>5. CASE CasRemoveEnd(w)
  <2>1. CASE remove_end = temp[w]
    BY Zenon, <1>1, <1>2, <1>5, <2>1, TakeOne DEF CasRemoveEnd, Goto, locals
  <2>2. CASE remove_end # temp[w]
    BY Zenon, <1>1, <1>2, <1>5, <2>2, TakeNothing DEF CasRemoveEnd, Goto, locals
  <2> QED
    BY Zenon, <2>1, <2>2
<1>6. CASE TestEmpty(w)
  <2>1. PICK label \in {"clear_insert", "process"} : pc' = [pc EXCEPT ![w] = label]
    BY Zenon, <1>6 DEF TestEmpty, Goto
  <2> QED
    BY Zenon, <1>1, <1>2, <1>6, <2>1, TakeNothing DEF TestEmpty, queue, locals
<1>7. CASE ClearInsertEnd(w)
  BY Zenon, <1>1, <1>2, <1>7, TakeNothing DEF ClearInsertEnd, Goto, locals
<1>8. CASE Process(w)
  BY Zenon, <1>1, <1>2, <1>8, TakeNothing DEF Process, Goto, queue, locals
<1> QED
  BY Zenon, <1>3, <1>4, <1>5, <1>6, <1>7, <1>8 DEF RootsTask

-----------------------------------------------------------------------------
(* Collections. *)

(* What lies before a place lies before a later one. *)
LEMMA TakenLater ==
  ASSUME NEW p \in Nat, NEW q \in Nat, p <= q, TakenBefore(p), UNCHANGED <<taken, linked>>
  PROVE  TakenBefore(q)'
<1>1. \A h \in 1..(p - 1) : h \in 1..(q - 1)
  OBVIOUS
<1> QED
  BY Zenon, <1>1, TakenStay

(* At a safepoint the queue is whole from the place of _remove_end on. *)
LEMMA Whole ==
  ASSUME IInv, AtSafepoint
  PROVE  \E b \in Places :
           /\ Filling(b)
           /\ \/ b = Len(linked) + 1 /\ remove_end = NULL /\ insert_end = NULL
              \/ /\ b \in 1..Len(linked) /\ insert_end = linked[Len(linked)]
                 /\ \E k \in b..Len(linked) :
                      /\ remove_end = linked[k] /\ remove_end # NULL
                      /\ \A i \in k..(Len(linked) - 1) : next[linked[i]] = linked[i + 1]
<1>1. PICK b \in Places : Filling(b)
  BY Zenon DEF IInv, AtSafepoint
<1>m. PICK n \in Nat : /\ n = Len(linked) /\ Places = 1..(n + 1)
                     /\ \A i \in 1..n : linked[i] \in Refs /\ linked[i] # NULL
  BY Zenon, Size
<1>n. n = Len(linked) /\ b \in 1..(n + 1)
  BY Zenon, <1>m
<1>2. \A j \in JavaThreads : pc[j] \notin Returning /\ pc[j] # "link"
  BY Zenon DEF AtSafepoint, Returning
<1>3. CASE b = n + 1
  <2>1. b > n /\ b..n = {}
    BY <1>3
  <2> QED
    BY Zenon, <1>1, <1>n, <1>3, <2>1 DEF Filling
<1>4. CASE b # n + 1
  <2>1. b \in 1..n /\ b <= n /\ ~ (b > n)
    BY <1>4, <1>n
  <2>2. remove_end # NULL
    BY Zenon, <1>1, <1>2, <1>n, <2>1 DEF Filling
  <2>3. PICK k \in b..n : remove_end = linked[k]
    BY Zenon, <1>1, <1>n, <2>2 DEF Filling
  <2>4. \A i \in k..(n - 1) : i \in b..(n - 1)
    BY <2>1, <2>3
  <2>5. \A i \in k..(n - 1) : next[linked[i]] = linked[i + 1]
    BY Zenon, <1>1, <1>2, <1>n, <2>4 DEF Filling, Linked
  <2>6. insert_end = linked[n]
    BY Zenon, <1>1, <1>n, <2>1 DEF Filling
  <2> QED
    BY Zenon, <1>1, <1>n, <2>1, <2>2, <2>3, <2>5, <2>6
<1> QED
  BY Zenon, <1>3, <1>4

(* A collection begins. *)
LEMMA BeginInv == ASSUME IInv, BeginScavenge PROVE IInv'
<1>1. /\ UNCHANGED <<insert_end, remove_end, next, ref, temp, succ, linked, taken>>
      /\ AtSafepoint /\ world' = "scavenge"
      /\ \A j \in JavaThreads : pc'[j] = pc[j] /\ pc[j] = "idle"
      /\ \A w \in Workers : pc'[w] \in {"done", "read_remove"}
  BY RefQueueAssumption DEF BeginScavenge, AtSafepoint, queue, locals, Threads
<1>2. TypeOK'
  BY <1>1 DEF BeginScavenge, IInv, TypeOK, Threads, JavaPCs, WorkerPCs, queue, locals
<1>3. Distinct' /\ Links' /\ TakenOnce'
  BY Zenon, <1>1, ListFrame
<1>4. Fresh'
  BY Zenon, <1>1 DEF Fresh
<1>m. PICK n \in Nat : /\ n = Len(linked) /\ Places = 1..(n + 1)
                     /\ \A i \in 1..n : linked[i] \in Refs /\ linked[i] # NULL
  BY Zenon, Size
<1>5. PICK b \in Places :
           /\ Filling(b)
           /\ \/ b = Len(linked) + 1 /\ remove_end = NULL /\ insert_end = NULL
              \/ /\ b \in 1..Len(linked) /\ insert_end = linked[Len(linked)]
                 /\ \E k \in b..Len(linked) :
                      /\ remove_end = linked[k] /\ remove_end # NULL
                      /\ \A i \in k..(Len(linked) - 1) : next[linked[i]] = linked[i + 1]
  BY Zenon, <1>1, Whole
<1>6. ASSUME NEW p \in b..(n + 1), remove_end = IF p > n THEN NULL ELSE linked[p],
             \A i \in p..(n - 1) : next[linked[i]] = linked[i + 1]
      PROVE  IInv'
  <2>1. p \in Nat /\ b \in Nat /\ b <= p /\ p \in 1..(n + 1)
    BY <1>m, <1>6
  <2>2. TakenBefore(p)'
    BY Zenon, <2>1, <1>1, <1>5, TakenLater DEF Filling
  <2>3. Draining(p)'
    BY Zenon, <1>m, <1>1, <1>6, <2>2 DEF Draining
  <2> QED
    BY Zenon, <1>m, <1>1, <1>2, <1>3, <1>4, <2>1, <2>3 DEF IInv, Places
<1>7. CASE b = n + 1 /\ remove_end = NULL
  <2>1. b \in b..(n + 1) /\ b > n /\ b..(n - 1) = {}
    BY <1>7
  <2> QED
    BY Zenon, <2>1, <1>6, <1>7
<1>8. CASE b \in 1..n /\ \E k \in b..n : /\ remove_end = linked[k]
                                         /\ \A i \in k..(n - 1) : next[linked[i]] = linked[i + 1]
  <2>1. PICK k \in b..n : /\ remove_end = linked[k]
                          /\ \A i \in k..(n - 1) : next[linked[i]] = linked[i + 1]
    BY Zenon, <1>8
  <2>2. k \in b..(n + 1) /\ ~ (k > n)
    BY <1>8, <2>1
  <2> QED
    BY Zenon, <2>1, <2>2, <1>6
<1> QED
  BY Zenon, <1>m, <1>5, <1>7, <1>8

(* A collection ends. *)
LEMMA EndInv == ASSUME IInv, EndScavenge PROVE IInv'
<1>1. /\ UNCHANGED <<next, ref, temp, succ, linked, taken>>
      /\ world = "scavenge" /\ world' = "java" /\ insert_end' = NULL /\ remove_end' = NULL
      /\ \A w \in Workers : pc'[w] = "waiting"
      /\ \A j \in JavaThreads : pc'[j] = pc[j]
  BY RefQueueAssumption DEF EndScavenge, locals, Threads
<1>2. PICK p \in Places : Draining(p)
  BY Zenon, <1>1 DEF IInv
<1>3. TypeOK'
  BY <1>1 DEF EndScavenge, IInv, TypeOK, RefOrNull, Threads, JavaPCs, WorkerPCs, locals
<1>4. Distinct' /\ Links' /\ TakenOnce'
  BY Zenon, <1>1, ListFrame
<1>5. \A j \in JavaThreads : pc'[j] = "idle"
  BY Zenon, <1>1, <1>2 DEF Draining
<1>6. Fresh'
  BY Zenon, <1>5 DEF Fresh
<1>m. PICK n \in Nat : /\ n = Len(linked) /\ Places = 1..(n + 1)
                     /\ \A i \in 1..n : linked[i] \in Refs /\ linked[i] # NULL
  BY Zenon, Size
<1>7. PICK b \in Nat : b = n + 1 /\ b > n /\ ~ (b <= n) /\ p \in Nat /\ p <= b /\ b..(n - 1) = {} /\ b \in 1..(n + 1)
  BY <1>m
<1>8. TakenBefore(b)'
  BY Zenon, <1>7, <1>1, <1>2, TakenLater DEF Draining
<1>9. Filling(b)'
  BY Zenon, <1>m, <1>1, <1>5, <1>7, <1>8 DEF Filling, Returning
<1> QED
  BY Zenon, <1>m, <1>1, <1>3, <1>4, <1>6, <1>7, <1>9 DEF IInv, Places

(* A full collection may move objects; it leaves the queue alone. *)
LEMMA FrameInv ==
  ASSUME IInv, UNCHANGED <<insert_end, remove_end, next, ref, temp, succ, pc, world, linked, taken>>,
         stale' \subseteq Refs
  PROVE  IInv'
<1>1. TypeOK'
  BY Zenon DEF IInv, TypeOK
<1>2. Distinct' /\ Links' /\ TakenOnce'
  BY Zenon, ListFrame
<1>3. Fresh'
  BY Zenon DEF IInv, Fresh, Elems
<1>4. ASSUME NEW b \in Places, Filling(b) PROVE Filling(b)'
  <2>1. \A j \in JavaThreads : Own(j, b)' = Own(j, b)
    BY Zenon DEF Own
  <2>2. \A i \in b..(Len(linked) - 1) : Linked(i)' = Linked(i)
    BY Zenon DEF Linked
  <2>3. TakenBefore(b)'
    BY Zenon, <1>4, TakenStay DEF Filling
  <2> QED
    BY Zenon, <1>4, <2>1, <2>2, <2>3 DEF Filling
<1>5. ASSUME NEW p \in Places, Draining(p) PROVE Draining(p)'
  BY Zenon, <1>5, TakenStay DEF Draining
<1> QED
  BY Zenon, <1>1, <1>2, <1>3, <1>4, <1>5 DEF IInv, Places

-----------------------------------------------------------------------------
(* The invariant holds in every state of every behaviour. *)
LEMMA Invariant == Spec => []IInv
<1>1. IInv /\ [Next]_vars => IInv'
  <2> SUFFICES ASSUME IInv, [Next]_vars PROVE IInv'
    BY Zenon
  <2>1. CASE \E j \in JavaThreads : Enqueue(j)
    BY Zenon, <2>1, EnqueueInv
  <2>2. CASE \E w \in Workers : RootsTask(w)
    BY Zenon, <2>2, RootsTaskInv
  <2>3. CASE BeginScavenge
    BY Zenon, <2>3, BeginInv
  <2>4. CASE EndScavenge
    BY Zenon, <2>4, EndInv
  <2>5. CASE FullGC
    <3>1. stale' \subseteq Refs
      <4>1. Elems(linked) \subseteq Refs
        BY Zenon, Size DEF Elems
      <4> QED
        BY Zenon, <2>5, <4>1 DEF FullGC, IInv, TypeOK
    <3> QED
      BY Zenon, <2>5, <3>1, FrameInv DEF FullGC, queue, locals
  <2>6. CASE UNCHANGED vars
    <3>1. stale' \subseteq Refs
      BY Zenon, <2>6 DEF vars, IInv, TypeOK
    <3> QED
      BY Zenon, <2>6, <3>1, FrameInv DEF vars
  <2> QED
    BY Zenon, <2>1, <2>2, <2>3, <2>4, <2>5, <2>6 DEF Next
<1> QED
  BY InitInv, <1>1, PTL DEF Spec

(* At a safepoint the list of the invariant is the one the property asks   *)
(* for.                                                                    *)
LEMMA WholeIsTail == ASSUME IInv PROVE QueueIsTail
<1> SUFFICES ASSUME AtSafepoint
             PROVE  /\ insert_end = NULL <=> remove_end = NULL
                    /\ remove_end # NULL =>
                         \E k \in 1..Len(linked) :
                           /\ remove_end = linked[k]
                           /\ insert_end = linked[Len(linked)]
                           /\ next[insert_end] = NULL
                           /\ \A i \in k..(Len(linked) - 1) : next[linked[i]] = linked[i + 1]
  BY Zenon DEF QueueIsTail
<1>m. PICK n \in Nat : /\ n = Len(linked) /\ Places = 1..(n + 1)
                     /\ \A i \in 1..n : linked[i] \in Refs /\ linked[i] # NULL
  BY Zenon, Size
<1>1. CASE remove_end = NULL /\ insert_end = NULL
  BY Zenon, <1>1
<1>2. ASSUME NEW b \in 1..n, insert_end = linked[n], NEW k \in b..n, remove_end = linked[k], remove_end # NULL,
             \A i \in k..(n - 1) : next[linked[i]] = linked[i + 1]
      PROVE  k \in 1..n /\ insert_end # NULL /\ next[insert_end] = NULL
  <2>1. k \in 1..n /\ n \in 1..n /\ linked[n] \in Refs
    BY <1>2, <1>m DEF IInv, TypeOK
  <2>2. ASSUME NEW i \in 1..(n - 1) PROVE linked[i] # linked[n]
    <3>1. i \in 1..n /\ i # n
      BY <2>2
    <3> QED
      BY Zenon, <3>1, <2>1, <1>m DEF IInv, Distinct
  <2>3. next[linked[n]] = NULL
    BY Zenon, <2>1, <2>2, <1>m DEF IInv, Links
  <2> QED
    BY Zenon, <1>2, <2>1, <2>3, RefQueueAssumption
<1> QED
  BY Zenon, <1>m, <1>1, <1>2, Whole

(* Whenever no enqueue is in flight the queue is a contiguous tail of the  *)
(* order in which enqueue's CAS on _insert_end was won, linked in that     *)
(* order and terminated, and both ends agree on emptiness, however many    *)
(* Java threads raced in RefQueue::enqueue since the last collection.      *)
THEOREM QueueWhole == Spec => []QueueIsTail
BY Invariant, WholeIsTail, PTL

(* RefQueue::dequeue hands no Ref out twice, neither to two workers nor to *)
(* one, in one collection or in two.                                       *)
THEOREM HandedOnce == Spec => []TakenOnce
<1>1. IInv => TakenOnce
  BY Zenon DEF IInv
<1> QED
  BY Invariant, <1>1, PTL

-----------------------------------------------------------------------------
(* What a drain would find *)

(* Reachable, for any links and any end *)
Reach(nx, e) ==
  LET R[n \in 0..Cardinality(Refs)] ==
        IF n = 0 THEN {e} \ {NULL}
        ELSE R[n-1] \cup ({nx[r] : r \in R[n-1]} \ {NULL})
  IN  R[Cardinality(Refs)]

Grows(nx, e, f) ==
  f = [n \in 0..Cardinality(Refs) |->
         IF n = 0 THEN {e} \ {NULL} ELSE f[n - 1] \cup ({nx[r] : r \in f[n - 1]} \ {NULL})]

(* If some function satisfies the equation of Reach, the one it takes does. *)
LEMMA ReachDef ==
  ASSUME NEW nx, NEW e, NEW g, Grows(nx, e, g)
  PROVE  \E h : Grows(nx, e, h) /\ Reach(nx, e) = h[Cardinality(Refs)]
<1>1. Reach(nx, e) = (CHOOSE f : Grows(nx, e, f))[Cardinality(Refs)]
  BY Zenon DEF Reach, Grows
<1>2. Grows(nx, e, CHOOSE f : Grows(nx, e, f))
  BY Zenon
<1> QED
  BY Zenon, <1>1, <1>2

(* One step of the equation *)
LEMMA GrowsAt ==
  ASSUME NEW nx, NEW e, NEW f, Grows(nx, e, f), NEW k \in 0..Cardinality(Refs)
  PROVE  /\ k = 0 => f[k] = {e} \ {NULL}
         /\ k # 0 => f[k] = f[k - 1] \cup ({nx[r] : r \in f[k - 1]} \ {NULL})
BY Zenon DEF Grows

(* A least number with a property, if there is any *)
LEMMA LeastOf == ASSUME NEW S, S \subseteq Nat, S # {} PROVE \E x \in S : \A y \in S : x <= y
<1> DEFINE lt == {p \in Nat \X Nat : p[1] < p[2]}
<1>1. IsWellFoundedOn(lt, Nat)
  BY Zenon, NatLessThanWellFounded DEF OpToRel
<1>2. PICK x \in S : \A y \in S : <<y, x>> \notin lt
  <2> HIDE DEF lt
  <2> QED BY Zenon, <1>1, WFMin
<1>3. \A y \in S : x \in Nat /\ y \in Nat /\ ~ (y < x)
  BY Zenon, <1>2
<1> QED
  BY <1>3

(* Only one function satisfies the equation: the least argument where two  *)
(* differ would follow from the one before it.                             *)
LEMMA GrowsUnique ==
  ASSUME NEW nx, NEW e, NEW h, NEW g, Grows(nx, e, h), Grows(nx, e, g)
  PROVE  \A k \in 0..Cardinality(Refs) : h[k] = g[k]
<1> DEFINE N == Cardinality(Refs)
           S == {k \in 0..N : h[k] # g[k]}
<1> SUFFICES ASSUME S # {} PROVE FALSE
  BY Zenon
<1>0. N \in Nat
  BY Zenon, RefQueueAssumption, FS_CardinalityType
<1>1. S \subseteq Nat
  BY <1>0
<1>2. PICK x \in S : \A y \in S : x <= y
  <2> HIDE DEF S
  <2> QED BY Zenon, <1>1, LeastOf
<1>3. x \in 0..N /\ h[x] # g[x]
  BY Zenon, <1>2
<1>4. /\ x = 0 => h[x] = {e} \ {NULL}
      /\ x = 0 => g[x] = {e} \ {NULL}
      /\ x # 0 => h[x] = h[x - 1] \cup ({nx[r] : r \in h[x - 1]} \ {NULL})
      /\ x # 0 => g[x] = g[x - 1] \cup ({nx[r] : r \in g[x - 1]} \ {NULL})
  <2>1. x \in 0..Cardinality(Refs)
    BY Zenon, <1>3
  <2> QED
    BY <2>1, GrowsAt
<1>5. x # 0
  BY Zenon, <1>3, <1>4
<1>6. x - 1 \in 0..N /\ ~ (x <= x - 1)
  BY <1>0, <1>3, <1>5
<1>7. h[x - 1] = g[x - 1]
  BY Zenon, <1>2, <1>6
<1>8. h[x] = g[x - 1] \cup ({nx[r] : r \in g[x - 1]} \ {NULL})
  BY Zenon, <1>4, <1>5, <1>7
<1> QED
  BY Zenon, <1>3, <1>4, <1>5, <1>8

(* A list without repetitions is no longer than there are Refs. *)
LEMMA ListFits ==
  ASSUME NEW l \in Seq(Refs), NEW n \in Nat, n = Len(l), \A i, j \in 1..n : l[i] = l[j] => i = j
  PROVE  n <= Cardinality(Refs)
<1>1. PICK T : T = 1..n
  BY Zenon
<1>2. IsFiniteSet(T) /\ Cardinality(T) = n
  <2>1. IsFiniteSet(1..n) /\ Cardinality(1..n) = IF 1 > n THEN 0 ELSE n - 1 + 1
    <3>1. 1 \in Int /\ n \in Int
      OBVIOUS
    <3> QED
      BY Zenon, <3>1, FS_Interval
  <2>2. IsFiniteSet(1..n) /\ Cardinality(1..n) = n
    BY <2>1
  <2> QED
    BY Zenon, <1>1, <2>2
<1>3. PICK f \in [T -> Refs] : \A i \in T : f[i] = l[i]
  <2>1. \A i \in T : l[i] \in Refs
    BY <1>1
  <2>2. [i \in T |-> l[i]] \in [T -> Refs]
    BY Zenon, <2>1
  <2> QED
    BY Zenon, <2>2
<1>4. Cardinality(Refs) \in Nat
  BY Zenon, RefQueueAssumption, FS_CardinalityType
<1>5. ~ (Cardinality(Refs) < n)
  <2> SUFFICES ASSUME Cardinality(Refs) < n PROVE FALSE
    BY Zenon
  <2>1. Cardinality(Refs) < Cardinality(T) /\ IsFiniteSet(Refs)
    BY Zenon, <1>2, RefQueueAssumption
  <2>2. PICK x \in T, y \in T : x # y /\ f[x] = f[y]
    BY <2>1, <1>2, FS_PigeonHole
  <2>3. x \in 1..n /\ y \in 1..n /\ l[x] = l[y]
    BY Zenon, <2>2, <1>1, <1>3
  <2> QED
    BY Zenon, <2>2, <2>3
<1> QED
  BY <1>4, <1>5

(* The places at most k beyond p: one more step adds the next one *)
Shift(p, n, k) ==
  /\ \A j \in p..n : j <= p + (k - 1) => j <= p + k
  /\ \A j \in p..n : j <= p + k => j <= p + (k - 1) \/ j = p + k
  /\ \A j \in p..n : j = p + k =>
       j - 1 \in p..n /\ j - 1 <= p + (k - 1) /\ j - 1 \in p..(n - 1) /\ (j - 1) + 1 = j
  /\ \A j \in p..n : j <= p + (k - 1) /\ j # n =>
       j \in p..(n - 1) /\ j + 1 \in p..n /\ j + 1 <= p + k
  /\ \A j \in p..n : j \in 1..n /\ p <= n

LEMMA Shifts ==
  ASSUME NEW n \in Nat, NEW p \in 1..(n + 1), NEW k \in Nat \ {0} PROVE Shift(p, n, k)
<1>1. /\ \A j \in p..n : j <= p + (k - 1) => j <= p + k
      /\ \A j \in p..n : j <= p + k => j <= p + (k - 1) \/ j = p + k
  OBVIOUS
<1>2. \A j \in p..n : j = p + k =>
        j - 1 \in p..n /\ j - 1 <= p + (k - 1) /\ j - 1 \in p..(n - 1) /\ (j - 1) + 1 = j
  OBVIOUS
<1>3. ASSUME NEW j \in p..n, j <= p + (k - 1), j # n
      PROVE  j \in p..(n - 1) /\ j + 1 \in p..n /\ j + 1 <= p + k
  <2>1. j \in Int /\ p <= j /\ j <= n /\ p \in Int
    OBVIOUS
  <2>2. p <= j /\ j <= n - 1 /\ p <= j + 1 /\ j + 1 <= n /\ j + 1 <= p + k
    BY <1>3, <2>1
  <2> QED
    BY <2>1, <2>2
<1>4. \A j \in p..n : j \in 1..n /\ p <= n
  OBVIOUS
<1> QED
  BY Zenon, <1>1, <1>2, <1>3, <1>4 DEF Shift

(* The list l of length n is linked from place p on, where e is. *)
LinkedFrom(l, n, p, nx, e) ==
  /\ n \in Nat /\ n <= Cardinality(Refs)
  /\ \A i \in 1..n : l[i] # NULL
  /\ p \in 1..(n + 1) /\ e = IF p > n THEN NULL ELSE l[p]
  /\ \A i \in p..(n - 1) : nx[l[i]] = l[i + 1]
  /\ p <= n => nx[l[n]] = NULL

Rest(l, p, n) == {l[i] : i \in p..n}

(* Along a list that is linked from place p on, everything from there on   *)
(* is found, and nothing else.                                             *)
LEMMA ReachList ==
  ASSUME NEW l, NEW n, NEW p, NEW nx, NEW e, LinkedFrom(l, n, p, nx, e)
  PROVE  Reach(nx, e) = Rest(l, p, n)
<1> USE DEF LinkedFrom
<1> DEFINE N == Cardinality(Refs)
           G(k) == {l[i] : i \in {j \in p..n : j <= p + k}}
<1>0. N \in Nat
  BY Zenon, RefQueueAssumption, FS_CardinalityType
<1>1. G(0) = {e} \ {NULL}
  <2>1. CASE p > n
    <3>1. \A j : j \notin p..n
      BY <2>1
    <3> QED
      BY Zenon, <2>1, <3>1
  <2>2. CASE ~ (p > n)
    <3>1. p \in p..n /\ p <= p + 0 /\ p \in 1..n /\ \A j \in p..n : j <= p + 0 => j = p
      BY <2>2
    <3>2. e = l[p] /\ e # NULL
      BY Zenon, <2>2, <3>1
    <3>3. \A x : x \in G(0) <=> x = l[p]
      BY Zenon, <3>1
    <3> QED
      BY Zenon, <3>2, <3>3
  <2> QED
    BY Zenon, <2>1, <2>2
<1>2. ASSUME NEW k \in 1..N PROVE G(k) = G(k - 1) \cup ({nx[r] : r \in G(k - 1)} \ {NULL})
  <2>1. Shift(p, n, k)
    <3>1. k \in Nat \ {0}
      BY <1>0
    <3> QED
      BY Zenon, <3>1, Shifts
  <2> USE <2>1 DEF Shift
  <2>2. ASSUME NEW x, x \in G(k) PROVE x \in G(k - 1) \/ x \in {nx[r] : r \in G(k - 1)} \ {NULL}
    <3>1. PICK j \in p..n : j <= p + k /\ x = l[j]
      BY Zenon, <2>2
    <3>2. CASE j <= p + (k - 1)
      BY Zenon, <3>1, <3>2
    <3>3. CASE j = p + k
      <4>1. l[j - 1] \in G(k - 1) /\ nx[l[j - 1]] = l[(j - 1) + 1] /\ (j - 1) + 1 = j
        BY Zenon, <2>1, <3>1, <3>3
      <4>2. nx[l[j - 1]] = x /\ x # NULL
        BY Zenon, <4>1, <3>1, <2>1
      <4> QED
        BY Zenon, <4>1, <4>2
    <3> QED
      BY Zenon, <2>1, <3>1, <3>2, <3>3
  <2>3. ASSUME NEW x, x \in G(k - 1) PROVE x \in G(k)
    BY Zenon, <2>1, <2>3
  <2>4. ASSUME NEW r \in G(k - 1), nx[r] # NULL PROVE nx[r] \in G(k)
    <3>1. PICK j \in p..n : j <= p + (k - 1) /\ r = l[j]
      BY Zenon, <2>4
    <3>2. j # n
      BY Zenon, <3>1, <2>1, <2>4
    <3>3. j \in p..(n - 1) /\ j + 1 \in p..n /\ j + 1 <= p + k
      BY Zenon, <3>1, <3>2, <2>1
    <3>4. nx[r] = l[j + 1]
      BY Zenon, <3>1, <3>3
    <3> QED
      BY Zenon, <3>3, <3>4
  <2> HIDE DEF G
  <2>5. \A x : x \in G(k) => x \in G(k - 1) \cup ({nx[r] : r \in G(k - 1)} \ {NULL})
    BY Zenon, <2>2
  <2>6. \A x : x \in G(k - 1) \cup ({nx[r] : r \in G(k - 1)} \ {NULL}) => x \in G(k)
    <3> SUFFICES ASSUME NEW x, x \in G(k - 1) \cup ({nx[r] : r \in G(k - 1)} \ {NULL}) PROVE x \in G(k)
      BY Zenon
    <3>1. CASE x \in G(k - 1)
      BY Zenon, <3>1, <2>3
    <3>2. CASE x \in {nx[r] : r \in G(k - 1)} /\ x # NULL
      <4>1. PICK r \in G(k - 1) : x = nx[r]
        BY Zenon, <3>2
      <4> QED
        BY Zenon, <3>2, <4>1, <2>4
    <3> QED
      BY Zenon, <3>1, <3>2
  <2> QED
    BY Zenon, <2>5, <2>6
<1> HIDE DEF G
<1>3. PICK g : g = [k \in 0..N |-> G(k)]
  BY Zenon
<1>4. \A k \in 0..N : g[k] = G(k)
  BY Zenon, <1>3
<1>5. ASSUME NEW k \in 0..N
      PROVE  G(k) = IF k = 0 THEN {e} \ {NULL} ELSE g[k - 1] \cup ({nx[r] : r \in g[k - 1]} \ {NULL})
  <2>1. CASE k = 0
    BY Zenon, <2>1, <1>1
  <2>2. CASE k # 0
    <3>1. k \in 1..N /\ k - 1 \in 0..N
      BY <2>2, <1>0
    <3>2. g[k - 1] = G(k - 1)
      BY Zenon, <3>1, <1>4
    <3>3. G(k) = G(k - 1) \cup ({nx[r] : r \in G(k - 1)} \ {NULL})
      BY Zenon, <3>1, <1>2
    <3> QED
      BY Zenon, <2>2, <3>2, <3>3
  <2> QED
    BY Zenon, <2>1, <2>2
<1>6. Grows(nx, e, g)
  BY Zenon, <1>3, <1>5 DEF Grows
<1>7. PICK h : Grows(nx, e, h) /\ Reach(nx, e) = h[N]
  <2>1. \E h : Grows(nx, e, h) /\ Reach(nx, e) = h[Cardinality(Refs)]
    BY <1>6, ReachDef
  <2> QED
    BY Zenon, <2>1
<1>8. \A k \in 0..N : h[k] = g[k]
  BY <1>6, <1>7, GrowsUnique
<1>9. N \in 0..N /\ \A i \in p..n : i <= p + N
  BY <1>0
<1>10. Reach(nx, e) = G(N)
  BY Zenon, <1>4, <1>7, <1>8, <1>9
<1>11. G(N) = Rest(l, p, n)
  BY Zenon, <1>9 DEF G, Rest
<1> QED
  BY Zenon, <1>10, <1>11

FoundFrom(e, p, n) == Reach(next, e) = Rest(linked, p, n)

(* During a collection the queue is the list from place p on. *)
LEMMA DrainFinds ==
  ASSUME IInv, NEW p \in Places, Draining(p), NEW n \in Nat, n = Len(linked)
  PROVE  /\ Reachable = Rest(linked, p, n)
         /\ \A e : p + 1 <= n + 1 /\ e = (IF p + 1 > n THEN NULL ELSE linked[p + 1]) => FoundFrom(e, p + 1, n)
<1>m. Places = 1..(n + 1) /\ \A i \in 1..n : linked[i] \in Refs /\ linked[i] # NULL
  BY Zenon, Size
<1>1. n <= Cardinality(Refs)
  <2>1. linked \in Seq(Refs) /\ \A i, j \in 1..n : linked[i] = linked[j] => i = j
    BY Zenon DEF IInv, TypeOK, Distinct
  <2> QED
    BY Zenon, <2>1, ListFits
<1>2. p \in 1..(n + 1) /\ \A i \in 1..n : linked[i] # NULL
  BY Zenon, <1>m
<1>3. \A i \in p..(n - 1) : next[linked[i]] = linked[i + 1]
  BY Zenon DEF Draining
<1>4. n \in 1..n => next[linked[n]] = NULL
  <2> SUFFICES ASSUME n \in 1..n PROVE next[linked[n]] = NULL
    BY Zenon
  <2>1. ASSUME NEW i \in 1..(n - 1) PROVE linked[i] # linked[n]
    <3>1. i \in 1..n /\ i # n
      BY <2>1
    <3> QED
      BY Zenon, <3>1 DEF IInv, Distinct
  <2> QED
    BY Zenon, <2>1, <1>m DEF IInv, Links
<1>5. remove_end = IF p > n THEN NULL ELSE linked[p]
  BY Zenon DEF Draining
<1>6. /\ p <= n => n \in 1..n
      /\ p + 1 <= n => n \in 1..n
      /\ p + 1 <= n + 1 => p + 1 \in 1..(n + 1)
      /\ \A i \in (p + 1)..(n - 1) : i \in p..(n - 1)
  BY <1>2
<1>7. Reach(next, remove_end) = Rest(linked, p, n)
  <2>1. LinkedFrom(linked, n, p, next, remove_end)
    BY ZenonT(30), <1>1, <1>2, <1>3, <1>4, <1>5, <1>6 DEF LinkedFrom
  <2> QED
    BY Zenon, <2>1, ReachList
<1>8. Reachable = Reach(next, remove_end)
  BY Zenon DEF Reachable, Reach
<1>9. ASSUME NEW e, p + 1 <= n + 1, e = IF p + 1 > n THEN NULL ELSE linked[p + 1]
      PROVE  FoundFrom(e, p + 1, n)
  <2>1. PICK q : q = p + 1
    BY Zenon
  <2>2. /\ q \in 1..(n + 1) /\ e = (IF q > n THEN NULL ELSE linked[q])
        /\ (\A i \in q..(n - 1) : next[linked[i]] = linked[i + 1]) /\ (q <= n => next[linked[n]] = NULL)
    BY Zenon, <2>1, <1>3, <1>4, <1>6, <1>9
  <2>3. LinkedFrom(linked, n, q, next, e)
    BY ZenonT(30), <1>1, <1>2, <2>2 DEF LinkedFrom
  <2>4. Reach(next, e) = Rest(linked, q, n)
    BY Zenon, <2>3, ReachList
  <2> QED
    BY Zenon, <2>1, <2>4 DEF FoundFrom
<1> QED
  BY Zenon, <1>7, <1>8, <1>9

(* A worker is done only when there is nothing left. *)
DoneEmpty == world = "scavenge" => \A w \in Workers : pc[w] = "done" => remove_end = NULL

LEMMA DoneStep == ASSUME IInv, DoneEmpty, [Next]_vars PROVE DoneEmpty'
<1>1. CASE \E j \in JavaThreads : Enqueue(j)
  <2>1. PICK j \in JavaThreads : Enqueue(j)
    BY Zenon, <1>1
  <2>2. world' = world /\ (pc[j] # "idle" \/ world = "java")
    BY Zenon, <2>1 DEF Enqueue, NewRef, ReadInsertEnd, CasInsertEnd, LinkNext, TestRemoveEnd, SetRemoveEnd, Goto
  <2>3. world' # "scavenge"
    BY Zenon, <2>2 DEF IInv, Draining
  <2> QED
    BY Zenon, <2>3 DEF DoneEmpty
<1>2. CASE \E w \in Workers : RootsTask(w)
  <2>1. PICK w \in Workers : RootsTask(w)
    BY Zenon, <1>2
  <2>2. world = "scavenge" /\ pc \in [Threads -> JavaPCs \cup WorkerPCs] /\ w \in Threads
    BY Zenon, <2>1, RootsTaskWorld DEF IInv, TypeOK, Threads
  <2>3. \A v \in Workers : v # w => pc'[v] = pc[v]
    BY Zenon, <2>1, <2>2 DEF RootsTask, ReadRemoveEnd, ReadNext, CasRemoveEnd, TestEmpty, ClearInsertEnd, Process,
                              Goto, Threads
  <2>4. CASE ReadRemoveEnd(w)
    <3>1. remove_end' = remove_end /\ pc' = [pc EXCEPT ![w] = IF remove_end = NULL THEN "done" ELSE "read_next"]
      BY Zenon, <2>4 DEF ReadRemoveEnd, Goto, queue
    <3>2. pc'[w] = "done" => remove_end = NULL
      BY Zenon, <3>1, <2>2
    <3> QED
      BY Zenon, <2>2, <2>3, <3>1, <3>2 DEF DoneEmpty
  <2>5. CASE ReadNext(w) \/ TestEmpty(w) \/ ClearInsertEnd(w) \/ Process(w)
    <3>1. remove_end' = remove_end /\ pc'[w] # "done"
      BY Zenon, <2>2, <2>5 DEF ReadNext, TestEmpty, ClearInsertEnd, Process, Goto, queue
    <3> QED
      BY Zenon, <2>2, <2>3, <3>1 DEF DoneEmpty
  <2>6. CASE CasRemoveEnd(w)
    <3>1. pc'[w] # "done"
      BY Zenon, <2>2, <2>6 DEF CasRemoveEnd, Goto
    <3>2. CASE remove_end' = remove_end
      BY Zenon, <2>2, <2>3, <3>1, <3>2 DEF DoneEmpty
    <3>3. CASE remove_end = temp[w] /\ pc[w] = "cas_remove"
      <4>1. remove_end # NULL
        BY Zenon, <2>2, <3>3, RefQueueAssumption DEF IInv, Draining
      <4> QED
        BY Zenon, <2>2, <2>3, <3>1, <4>1 DEF DoneEmpty
    <3> QED
      BY Zenon, <2>6, <3>2, <3>3 DEF CasRemoveEnd, Goto
  <2> QED
    BY Zenon, <2>1, <2>4, <2>5, <2>6 DEF RootsTask
<1>3. CASE BeginScavenge
  <2>1. \A w \in Workers : pc'[w] = "done" => remove_end = NULL /\ remove_end' = remove_end
    <3>1. /\ remove_end' = remove_end
          /\ pc' = [t \in Threads |-> IF t \in JavaThreads THEN pc[t]
                                      ELSE IF is_empty THEN "done" ELSE "read_remove"]
      BY Zenon, <1>3 DEF BeginScavenge, queue
    <3>2. \A w \in Workers : w \in Threads /\ w \notin JavaThreads
      BY Zenon, RefQueueAssumption DEF Threads
    <3> QED
      BY Zenon, <3>1, <3>2 DEF is_empty
  <2> QED
    BY Zenon, <2>1 DEF DoneEmpty
<1>4. CASE EndScavenge
  BY Zenon, <1>4 DEF EndScavenge, DoneEmpty
<1>5. CASE FullGC
  BY Zenon, <1>5 DEF FullGC, DoneEmpty, AtSafepoint
<1>6. CASE UNCHANGED vars
  BY Zenon, <1>6 DEF vars, DoneEmpty
<1> QED
  BY Zenon, <1>1, <1>2, <1>3, <1>4, <1>5, <1>6 DEF Next

(* A step during a collection *)
LEMMA LeavesStep ==
  ASSUME IInv, DoneEmpty, Next, world = "scavenge"
  PROVE  Reachable \ Reachable' \subseteq Handed'
<1>m. PICK n \in Nat : n = Len(linked) /\ Places = 1..(n + 1) /\ \A i \in 1..n : linked[i] \in Refs /\ linked[i] # NULL
  BY Zenon, Size
<1>p. PICK p \in Places : Draining(p)
  BY Zenon DEF IInv
<1>r. Reachable' = Reach(next', remove_end') /\ Reachable = Reach(next, remove_end)
  BY Zenon DEF Reachable, Reach
<1>1. CASE next' = next /\ remove_end' = remove_end
  BY Zenon, <1>1, <1>r
<1>2. CASE EndScavenge
  <2>1. remove_end = NULL
    BY Zenon, <1>2, RefQueueAssumption DEF EndScavenge, DoneEmpty
  <2>2. \A i : i \notin p..n
    <3>1. p > n \/ p \in 1..n
      BY <1>m
    <3>2. p > n
      BY Zenon, <2>1, <3>1, <1>m, <1>p DEF Draining
    <3> QED
      BY <3>2, <1>m
  <2>3. Reachable = Rest(linked, p, n)
    BY Zenon, <1>m, <1>p, DrainFinds
  <2> QED
    BY Zenon, <2>2, <2>3 DEF Rest
<1>3. ASSUME NEW w \in Workers, CasRemoveEnd(w), remove_end = temp[w]
      PROVE  Reachable \ Reachable' \subseteq Handed'
  <2>1. /\ pc[w] = "cas_remove" /\ remove_end' = succ[w] /\ next' = next
        /\ taken' = [taken EXCEPT ![w] = Append(taken[w], temp[w])]
    BY Zenon, <1>3 DEF CasRemoveEnd, Goto
  <2>2. /\ p \in 1..n /\ temp[w] = linked[p] /\ temp[w] \in Refs
        /\ succ[w] = IF p + 1 > n THEN NULL ELSE linked[p + 1]
    BY Zenon, <1>3, <1>m, <1>p, <2>1, TakenPlace
  <2>3. p + 1 <= n + 1 /\ \A i \in p..n : i = p \/ i \in (p + 1)..n
    BY <2>2
  <2>4. /\ Reachable = Rest(linked, p, n)
        /\ Reach(next, succ[w]) = Rest(linked, p + 1, n)
    <3>1. /\ Reachable = Rest(linked, p, n)
          /\ \A e : p + 1 <= n + 1 /\ e = (IF p + 1 > n THEN NULL ELSE linked[p + 1]) => FoundFrom(e, p + 1, n)
      BY Zenon, <1>m, <1>p, DrainFinds
    <3>2. FoundFrom(succ[w], p + 1, n)
      BY Zenon, <3>1, <2>2, <2>3
    <3> QED
      BY Zenon, <3>1, <3>2 DEF FoundFrom
  <2>5. Reachable' = Rest(linked, p + 1, n)
    BY Zenon, <1>r, <2>1, <2>4
  <2>6. linked[p] \in Handed'
    <3>1. Len(taken'[w]) \in 1..Len(taken'[w]) /\ taken'[w][Len(taken'[w])] = linked[p]
      BY <2>1, <2>2 DEF IInv, TypeOK
    <3>2. linked[p] \in Elems(taken'[w])
      BY Zenon, <3>1 DEF Elems
    <3>3. Handed' = UNION {Elems(taken'[v]) : v \in Workers}
      BY Zenon DEF Handed, Elems
    <3> QED
      BY Zenon, <3>2, <3>3
  <2> QED
    BY Zenon, <2>3, <2>4, <2>5, <2>6 DEF Rest
<1>4. ASSUME NEW w \in Workers, RootsTask(w)
      PROVE  \/ next' = next /\ remove_end' = remove_end
             \/ CasRemoveEnd(w) /\ remove_end = temp[w]
  <2>1. CASE CasRemoveEnd(w)
    BY <2>1 DEF CasRemoveEnd
  <2>2. CASE ReadRemoveEnd(w) \/ ReadNext(w) \/ TestEmpty(w) \/ ClearInsertEnd(w) \/ Process(w)
    BY <2>2 DEF ReadRemoveEnd, ReadNext, TestEmpty, ClearInsertEnd, Process, queue
  <2> QED
    BY Zenon, <1>4, <2>1, <2>2 DEF RootsTask
<1>5. ASSUME NEW j \in JavaThreads, Enqueue(j) PROVE FALSE
  <2>1. pc[j] # "idle" \/ world = "java"
    BY Zenon, <1>5 DEF Enqueue, NewRef, ReadInsertEnd, CasInsertEnd, LinkNext, TestRemoveEnd, SetRemoveEnd, Goto
  <2> QED
    BY Zenon, <2>1, <1>p DEF Draining
<1>6. ~ BeginScavenge /\ ~ FullGC
  BY Zenon DEF BeginScavenge, FullGC, AtSafepoint
<1> QED
  BY Zenon, <1>1, <1>2, <1>3, <1>4, <1>5, <1>6 DEF Next

(* During a collection a Ref stops being reachable from _remove_end only   *)
(* by being handed to a worker by RefQueue::dequeue: racing dequeues skip  *)
(* none, and clear() at the end discards none.                             *)
THEOREM NothingDiscarded == Spec => LeavesOnlyByDequeue
<1>1. Init => DoneEmpty
  BY Zenon DEF Init, DoneEmpty
<1>2. IInv /\ DoneEmpty /\ [Next]_vars => DoneEmpty'
  BY DoneStep
<1>3. IInv /\ DoneEmpty /\ [Next]_vars => [world = "scavenge" => Reachable \ Reachable' \subseteq Handed']_vars
  BY Zenon, LeavesStep
<1> QED
  BY Invariant, <1>1, <1>2, <1>3, PTL DEF Spec, LeavesOnlyByDequeue
=============================================================================
