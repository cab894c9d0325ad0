-------------------------- MODULE GenQueue_proofs --------------------------
(***************************************************************************)
(* The queues of container structs, for any number of workers and structs  *)
(* and any number of full collections: a struct has one owner, none is     *)
(* lost, and until the first full collection the list of containers is     *)
(* whole in both directions.                                               *)
(***************************************************************************)
EXTENDS GenQueue, FiniteSetTheorems, WellFoundedInduction, TLAPS

(* Where a worker stands in push_container *)
Taking == {"read_next", "cas_remove"}
Emptying == {"clear_previous", "test_empty"}
Taken == {"clear_previous", "test_empty", "clear_next", "dec"}
Ready == {"setup", "read_insert", "cas_insert"}
Blank == {"read_insert", "cas_insert"}
Linking == {"set_previous", "link"}
Returning == {"set_previous", "link", "test_remove", "set_remove", "inc"}

Elems(s) == {s[i] : i \in 1..Len(s)}
Distinct(s) == \A i, j \in 1..Len(s) : s[i] = s[j] => i = j
Chained(link, s) == \A i \in 1..Len(s) : link[s[i]] = IF i = Len(s) THEN NULL ELSE s[i + 1]
Before(s, i) == IF i = 1 THEN NULL ELSE s[i - 1]

(* The pool is the sequence P.  Its last struct stays known as the end     *)
(* until the worker that took it has looked.                               *)
PoolList(P) ==
  /\ P \in Seq(Structs) /\ Distinct(P) /\ Chained(next, P)
  /\ remove_end["pool"] = IF Len(P) = 0 THEN NULL ELSE P[1]
  /\ IF Len(P) = 0 THEN insert_end["pool"] = NULL \/ \E w \in Workers : pc[w] \in Emptying
                   ELSE insert_end["pool"] = P[Len(P)]

(* What a worker has read of the pool may be old, but then the struct has  *)
(* left the pool: it never comes back while workers run.                   *)
ReaderOK(w, P) ==
  /\ temp[w] \in Structs
  /\ \A i \in 2..Len(P) : P[i] # temp[w]
  /\ pc[w] = "cas_remove" /\ Len(P) > 0 /\ P[1] = temp[w] => succ[w] = next[temp[w]]

Readers(P) == \A w \in Workers : pc[w] \in Taking => ReaderOK(w, P)

(* A struct is in the pool, in use, or in the hands of one worker. *)
Holds(w, s) == \/ pc[w] \in Taken /\ s = temp[w]
               \/ pc[w] \in Ready /\ s = el[w]

Owned(P) ==
  /\ Distinct(linked)
  /\ \A s : s \in malloced <=> \/ s \in Elems(P) \/ s \in Elems(linked)
                               \/ \E w \in Workers : Holds(w, s)
  /\ \A w \in Workers : \A s : Holds(w, s) => s \notin Elems(P) /\ s \notin Elems(linked)
  /\ \A v, w \in Workers : \A s : Holds(v, s) /\ Holds(w, s) => v = w

Apart(P) == \A s : s \in Elems(P) => s \notin Elems(linked)

(* The containers in use, in the order of the CAS on their _insert_end:    *)
(* each is linked to the next, or the worker that won the CAS after it is  *)
(* about to do so.                                                         *)
Own(w) == \E i \in 1..Len(linked) :
            /\ el[w] = linked[i]
            /\ pc[w] \in Linking \cup {"test_remove"} => temp[w] = Before(linked, i)

LinkOK(i) ==
  \/ next[linked[i]] = IF i = Len(linked) THEN NULL ELSE linked[i + 1]
  \/ i < Len(linked) /\ \E w \in Workers : pc[w] \in Linking /\ el[w] = linked[i + 1]

InUse ==
  /\ insert_end["containers"] = IF Len(linked) = 0 THEN NULL ELSE linked[Len(linked)]
  /\ remove_end["containers"] # NULL => remove_end["containers"] \in Elems(linked)
  /\ \A w \in Workers : pc[w] \in Blank => next[el[w]] = NULL
  /\ \A w \in Workers : pc[w] \in Returning => Own(w)
  /\ \A i \in 1..Len(linked) : LinkOK(i)

Counts(P) ==
  /\ n_elements["pool"] = Len(P) + Cardinality({w \in Workers : pc[w] \in Taken})
  /\ n_elements["containers"] + Cardinality({w \in Workers : pc[w] \in Returning}) = Len(linked)

(* A full collection has moved what it met on its way to place j into the  *)
(* pool; if the walk began behind the first container it ends too early.   *)
Clearing(P) ==
  /\ Quiet /\ clears > 0
  /\ \E j \in 1..(Len(linked) + 1) :
       /\ cursor = IF j > Len(linked) THEN NULL ELSE linked[j]
       /\ \A i \in j..Len(linked) :
            /\ next[linked[i]] = IF i = Len(linked) THEN NULL ELSE linked[i + 1]
            /\ linked[i] \notin Elems(P)
       /\ left \in 0..Len(linked) /\ left + j > Len(linked)
       /\ \A i \in (left + j - Len(linked))..(j - 1) : linked[i] \in Elems(P)

(* Until the first full collection the pool is empty, so no worker clears  *)
(* a _previous that belongs to another.                                    *)
BackOK(i) == \/ previous[linked[i]] = Before(linked, i)
             \/ \E w \in Workers : pc[w] = "set_previous" /\ el[w] = linked[i]

Fresh ==
  /\ \A w \in Workers : pc[w] \notin Taking /\ pc[w] \notin Taken
  /\ remove_end["pool"] = NULL
  /\ remove_end["containers"] # NULL => Len(linked) > 0 /\ remove_end["containers"] = linked[1]
  /\ \A w \in Workers : pc[w] = "set_remove" => el[w] = linked[1]
  /\ \A w \in Workers : pc[w] \in {"link", "test_remove"} => previous[el[w]] = temp[w]
  /\ Len(linked) > 0 /\ remove_end["containers"] = NULL =>
       \E w \in Workers : pc[w] \in Linking \cup {"test_remove", "set_remove"} /\ el[w] = linked[1]
  /\ \A i \in 1..Len(linked) : BackOK(i)

Inv(P) ==
  /\ TypeOK /\ PoolList(P) /\ Readers(P) /\ Owned(P) /\ Counts(P)
  /\ left = -1 => Apart(P) /\ InUse
  /\ left # -1 => Clearing(P)
  /\ clears = 0 => Fresh

IInv == \E P \in Seq(Structs) : Inv(P)

-----------------------------------------------------------------------------
(* Sequences *)

(* The elements of a list are structs. *)
LEMMA ElemsOf == ASSUME NEW s \in Seq(Structs) PROVE Elems(s) \subseteq Structs /\ Len(s) \in Nat
BY DEF Elems

(* What stands at a place of a list is an element of it. *)
LEMMA ElemsAt == ASSUME NEW s, NEW i \in 1..Len(s) PROVE s[i] \in Elems(s)
BY Zenon DEF Elems

(* The rest of a list after its first element *)
LEMMA TailList ==
  ASSUME NEW s \in Seq(Structs), Len(s) > 0, Distinct(s)
  PROVE  /\ Tail(s) \in Seq(Structs) /\ Len(Tail(s)) = Len(s) - 1 /\ Distinct(Tail(s))
         /\ \A i \in 1..(Len(s) - 1) : Tail(s)[i] = s[i + 1]
         /\ \A x : x \in Elems(s) <=> x = s[1] \/ x \in Elems(Tail(s))
         /\ s[1] \notin Elems(Tail(s)) /\ s[1] \in Structs
<1>1. PICK n \in Nat : n = Len(s) /\ n > 0
  OBVIOUS
<1>2. /\ Tail(s) \in Seq(Structs) /\ Len(Tail(s)) = n - 1
      /\ \A i \in 1..(n - 1) : Tail(s)[i] = s[i + 1]
      /\ s[1] \in Structs
  BY <1>1
<1> DEFINE t == Tail(s)
<1> HIDE DEF t
<1>3. t = Tail(s) /\ t \in Seq(Structs) /\ Len(t) = n - 1 /\ \A i \in 1..(n - 1) : t[i] = s[i + 1]
  BY Zenon, <1>2 DEF t
<1>4. \A i, j \in 1..n : s[i] = s[j] => i = j
  BY Zenon, <1>1 DEF Distinct
<1>5. Distinct(t)
  <2> SUFFICES ASSUME NEW i \in 1..(n - 1), NEW j \in 1..(n - 1), t[i] = t[j] PROVE i = j
    BY <1>3 DEF Distinct
  <2>1. i + 1 \in 1..n /\ j + 1 \in 1..n /\ s[i + 1] = s[j + 1]
    BY <1>3
  <2>2. i + 1 = j + 1
    BY Zenon, <2>1, <1>4
  <2> QED
    BY <2>2
<1>6. \A i \in 1..(n - 1) : t[i] # s[1]
  <2> SUFFICES ASSUME NEW i \in 1..(n - 1), t[i] = s[1] PROVE FALSE
    BY Zenon
  <2>1. i + 1 \in 1..n /\ 1 \in 1..n /\ s[i + 1] = s[1] /\ i + 1 # 1
    BY <1>1, <1>3
  <2> QED
    BY Zenon, <2>1, <1>4
<1>7. ASSUME NEW x PROVE x \in Elems(s) <=> x = s[1] \/ x \in Elems(t)
  <2>1. ASSUME NEW i \in 1..n, x = s[i] PROVE x = s[1] \/ \E k \in 1..(n - 1) : x = t[k]
    <3>1. CASE i = 1
      BY Zenon, <2>1, <3>1
    <3>2. CASE i # 1
      <4>1. i - 1 \in 1..(n - 1) /\ t[i - 1] = s[(i - 1) + 1] /\ (i - 1) + 1 = i
        BY <1>3, <3>2
      <4> QED
        BY Zenon, <2>1, <4>1
    <3> QED
      BY Zenon, <3>1, <3>2
  <2>2. ASSUME NEW k \in 1..(n - 1), x = t[k] PROVE \E i \in 1..n : x = s[i]
    <3>1. k + 1 \in 1..n /\ x = s[k + 1]
      BY <1>3, <2>2
    <3> QED
      BY Zenon, <3>1
  <2>3. 1 \in 1..n
    BY <1>1
  <2> QED
    BY Zenon, <1>1, <1>3, <2>1, <2>2, <2>3 DEF Elems
<1>8. s[1] \notin Elems(t)
  BY Zenon, <1>3, <1>6 DEF Elems
<1> QED
  BY Zenon, <1>1, <1>2, <1>3, <1>5, <1>7, <1>8

(* A list with one more element at its end *)
LEMMA AppendList ==
  ASSUME NEW s \in Seq(Structs), Distinct(s), NEW x \in Structs, x \notin Elems(s)
  PROVE  /\ Append(s, x) \in Seq(Structs) /\ Len(Append(s, x)) = Len(s) + 1
         /\ Append(s, x)[Len(s) + 1] = x
         /\ \A i \in 1..Len(s) : Append(s, x)[i] = s[i]
         /\ Distinct(Append(s, x))
         /\ \A y : y \in Elems(Append(s, x)) <=> y \in Elems(s) \/ y = x
<1>1. PICK n \in Nat : n = Len(s)
  OBVIOUS
<1> DEFINE t == Append(s, x)
<1>2. t \in Seq(Structs) /\ Len(t) = n + 1 /\ t[n + 1] = x /\ \A i \in 1..n : t[i] = s[i]
  BY <1>1
<1> HIDE DEF t
<1>3. \A i \in 1..n : s[i] # x
  BY Zenon, <1>1 DEF Elems
<1>4. \A i \in 1..(n + 1) : i \in 1..n \/ i = n + 1
  OBVIOUS
<1>5. Distinct(t)
  <2> SUFFICES ASSUME NEW i \in 1..(n + 1), NEW j \in 1..(n + 1), t[i] = t[j] PROVE i = j
    BY Zenon, <1>2 DEF Distinct
  <2>1. CASE i \in 1..n /\ j \in 1..n
    BY Zenon, <2>1, <1>1, <1>2 DEF Distinct
  <2> QED
    BY Zenon, <2>1, <1>2, <1>3, <1>4
<1>6. ASSUME NEW y PROVE y \in Elems(t) <=> y \in Elems(s) \/ y = x
  <2>1. n + 1 \in 1..(n + 1) /\ \A i \in 1..n : i \in 1..(n + 1)
    OBVIOUS
  <2> QED
    BY Zenon, <2>1, <1>1, <1>2, <1>4 DEF Elems
<1> QED
  BY Zenon, <1>1, <1>2, <1>5, <1>6 DEF t

-----------------------------------------------------------------------------
(* Counting workers *)

(* When the workers are done nobody is inside dequeue or enqueue. *)
LEMMA NobodyCounts ==
  ASSUME Quiet
  PROVE  /\ Cardinality({w \in Workers : pc[w] \in Taken}) = 0
         /\ Cardinality({w \in Workers : pc[w] \in Returning}) = 0
<1>1. {w \in Workers : pc[w] \in Taken} = {} /\ {w \in Workers : pc[w] \in Returning} = {}
  BY Zenon DEF Quiet, Taken, Returning
<1>2. Cardinality({}) = 0
  BY Zenon, FS_EmptySet
<1> QED
  BY Zenon, <1>1, <1>2

(* One worker enters or leaves a part of push_container. *)
LEMMA OneCounts ==
  ASSUME NEW labels, NEW w \in Workers, \A v \in Workers : v # w => pc'[v] = pc[v]
  PROVE  LET n == Cardinality({v \in Workers : pc[v] \in labels})
             m == Cardinality({v \in Workers : pc'[v] \in labels})
         IN  /\ n \in Nat /\ m \in Nat
             /\ (pc[w] \in labels <=> pc'[w] \in labels) => m = n
             /\ pc[w] \notin labels /\ pc'[w] \in labels => m = n + 1
             /\ pc[w] \in labels /\ pc'[w] \notin labels => m = n - 1
<1> DEFINE S == {v \in Workers : pc[v] \in labels}
           T == {v \in Workers : pc'[v] \in labels}
<1>1. IsFiniteSet(S) /\ IsFiniteSet(T)
  <2>1. S \subseteq Workers /\ T \subseteq Workers
    BY Zenon
  <2> QED
    BY Zenon, <2>1, GenQueueAssumption, FS_Subset
<1>2. (pc[w] \in labels <=> pc'[w] \in labels) => T = S
  BY Zenon
<1>3. pc[w] \notin labels /\ pc'[w] \in labels => T = S \cup {w} /\ w \notin S
  BY Zenon
<1>4. pc[w] \in labels /\ pc'[w] \notin labels => T = S \ {w} /\ w \in S
  BY Zenon
<1> HIDE DEF S, T
<1>5. Cardinality(S) \in Nat /\ Cardinality(T) \in Nat
  BY Zenon, <1>1, FS_CardinalityType
<1>6. w \notin S => Cardinality(S \cup {w}) = Cardinality(S) + 1
  BY Zenon, <1>1, FS_AddElement
<1>7. w \in S => Cardinality(S \ {w}) = Cardinality(S) - 1
  BY Zenon, <1>1, FS_RemoveElement
<1> QED
  BY Zenon, <1>2, <1>3, <1>4, <1>5, <1>6, <1>7 DEF S, T

-----------------------------------------------------------------------------
(* What the initial state is like *)

(* Both queues start empty. *)
LEMMA InitInv == Init => IInv
<1> SUFFICES ASSUME Init PROVE IInv
  BY Zenon
<1>1. linked = <<>> /\ Len(linked) = 0 /\ linked \in Seq(Structs) /\ 1..0 = {}
  BY DEF Init
<1>2. TypeOK
  BY <1>1, GenQueueAssumption DEF Init, TypeOK, StructOrNull, PCs, Queues
<1>3. \A w \in Workers : pc[w] = "idle"
  BY Zenon DEF Init
<1>4. remove_end["pool"] = NULL /\ insert_end["pool"] = NULL /\ n_elements["pool"] = 0
      /\ remove_end["containers"] = NULL /\ insert_end["containers"] = NULL /\ n_elements["containers"] = 0
      /\ malloced = {} /\ left = -1
  BY DEF Init, Queues
<1>5. Elems(linked) = {}
  BY Zenon, <1>1 DEF Elems
<1>6. PoolList(linked)
  BY Zenon, <1>1, <1>4 DEF PoolList, Distinct, Chained
<1>7. Readers(linked)
  BY Zenon, <1>3 DEF Readers, Taking
<1>8. Owned(linked)
  BY Zenon, <1>1, <1>3, <1>4, <1>5 DEF Owned, Distinct, Holds, Taken, Ready
<1>9. Counts(linked)
  <2>1. /\ Cardinality({w \in Workers : pc[w] \in Taken}) = 0
        /\ Cardinality({w \in Workers : pc[w] \in Returning}) = 0
    BY Zenon, <1>3, NobodyCounts DEF Quiet
  <2>2. 0 = 0 + 0
    OBVIOUS
  <2> QED
    BY Zenon, <2>1, <2>2, <1>1, <1>4 DEF Counts
<1>10. Apart(linked) /\ InUse
  BY Zenon, <1>1, <1>3, <1>4, <1>5 DEF Apart, InUse, Blank, Returning
<1>11. Fresh
  <2>1. ~ (Len(linked) > 0)
    BY <1>1
  <2> QED
    BY Zenon, <1>1, <1>3, <1>4, <2>1 DEF Fresh, Taking, Taken
<1> QED
  BY Zenon, <1>1, <1>2, <1>4, <1>6, <1>7, <1>8, <1>9, <1>10, <1>11 DEF IInv, Inv

-----------------------------------------------------------------------------
(* Steps of a worker *)

Others(w) == \A v \in Workers : v # w =>
  pc'[v] = pc[v] /\ el'[v] = el[v] /\ temp'[v] = temp[v] /\ succ'[v] = succ[v]

(* A step of a worker keeps the types and leaves the other workers alone. *)
LEMMA StepType ==
  ASSUME NEW P, Inv(P), NEW w \in Workers, PushContainer(w) \/ Step(w)
  PROVE  TypeOK' /\ Others(w) /\ left = -1 /\ UNCHANGED clear
<1> USE DEF TypeOK, StructOrNull
<1>t. TypeOK
  BY Zenon DEF Inv
<1>l. left = -1
  BY Zenon DEF Inv, Clearing, Quiet, PushContainer, Step, Dequeue, Enqueue, ReadRemoveEnd, ReadNext, CasRemoveEnd,
               ClearPrevious, TestEmpty, ClearNext, Dec, Malloc, SetupContainer, ReadInsertEnd,
               CasInsertEnd, SetPrevious, LinkNext, TestRemoveEnd, SetRemoveEnd, Inc, Goto
<1>p. ASSUME NEW label \in PCs, pc' = [pc EXCEPT ![w] = label]
      PROVE  pc' \in [Workers -> PCs] /\ \A v \in Workers : v # w => pc'[v] = pc[v]
  BY Zenon, <1>p, <1>t
<1>h. \A s : Holds(w, s) => s \in Structs
  BY Zenon, <1>t DEF Inv, Owned
<1>r. pc[w] \in Taking => temp[w] \in Structs
  BY Zenon DEF Inv, Readers, ReaderOK
<1>o. pc[w] \in Returning => el[w] \in Structs
  <2>1. \A i \in 1..Len(linked) : linked[i] \in Structs
    BY <1>t
  <2> QED
    BY Zenon, <1>l, <2>1 DEF Inv, InUse, Own
<1> USE DEF PCs, Dequeuing, Enqueuing, Goto, ends, fields, locals, clear, Others
<1>1. CASE PushContainer(w)
  BY Zenon, <1>1, <1>l, <1>p, <1>t DEF PushContainer
<1>2. CASE ReadRemoveEnd(w)
  BY <1>2, <1>l, <1>p, <1>t DEF ReadRemoveEnd, Queues
<1>3. CASE ReadNext(w)
  <2>1. temp[w] \in Structs
    BY Zenon, <1>3, <1>r DEF ReadNext, Taking
  <2> QED
    BY <1>3, <1>l, <1>p, <1>t, <2>1 DEF ReadNext
<1>4. CASE CasRemoveEnd(w)
  <2>1. PICK label \in PCs : pc' = [pc EXCEPT ![w] = label]
    BY Zenon, <1>4 DEF CasRemoveEnd
  <2>2. remove_end' \in [Queues -> StructOrNull]
    BY ZenonT(30), <1>4, <1>t DEF CasRemoveEnd
  <2> QED
    BY Zenon, <1>4, <1>l, <1>p, <1>t, <2>1, <2>2 DEF CasRemoveEnd
<1>5. CASE ClearPrevious(w)
  BY <1>5, <1>l, <1>p, <1>t DEF ClearPrevious
<1>6. CASE TestEmpty(w)
  <2>1. PICK label \in PCs : pc' = [pc EXCEPT ![w] = label]
    BY Zenon, <1>6 DEF TestEmpty
  <2>2. insert_end' \in [Queues -> StructOrNull]
    BY Zenon, <1>6, <1>t DEF TestEmpty
  <2> QED
    BY Zenon, <1>6, <1>l, <1>p, <1>t, <2>1, <2>2 DEF TestEmpty
<1>7. CASE ClearNext(w)
  <2>1. PICK label \in PCs : pc' = [pc EXCEPT ![w] = label]
    BY Zenon, <1>7 DEF ClearNext
  <2>2. next' \in [Structs -> StructOrNull]
    BY Zenon, <1>7, <1>t DEF ClearNext
  <2> QED
    BY Zenon, <1>7, <1>l, <1>p, <1>t, <2>1, <2>2 DEF ClearNext
<1>8. CASE Dec(w)
  BY <1>8, <1>l, <1>p, <1>t DEF Dec, Queues
<1>9. CASE Malloc(w)
  BY <1>9, <1>l, <1>p, <1>t DEF Malloc
<1>10. CASE SetupContainer(w)
  <2>1. PICK label \in PCs : pc' = [pc EXCEPT ![w] = label]
    BY Zenon, <1>10 DEF SetupContainer
  <2>2. next' \in [Structs -> StructOrNull]
    BY Zenon, <1>10, <1>t DEF SetupContainer
  <2>3. previous' \in [Structs -> StructOrNull]
    BY Zenon, <1>10, <1>t DEF SetupContainer
  <2> QED
    BY Zenon, <1>10, <1>l, <1>p, <1>t, <2>1, <2>2, <2>3 DEF SetupContainer
<1>11. CASE ReadInsertEnd(w)
  BY <1>11, <1>l, <1>p, <1>t DEF ReadInsertEnd, Queues
<1>12. CASE CasInsertEnd(w)
  <2>1. el[w] \in Structs
    BY Zenon, <1>12, <1>h DEF CasInsertEnd, Holds, Ready
  <2>2. PICK label \in PCs : pc' = [pc EXCEPT ![w] = label]
    BY Zenon, <1>12 DEF CasInsertEnd
  <2>3. insert_end' \in [Queues -> StructOrNull]
    BY Zenon, <1>12, <1>t DEF CasInsertEnd
  <2>4. linked' \in Seq(Structs)
    <3>1. Append(linked, el[w]) \in Seq(Structs)
      BY <2>1, <1>t
    <3> QED
      BY Zenon, <1>12, <1>t, <3>1 DEF CasInsertEnd
  <2> QED
    BY Zenon, <1>12, <1>l, <1>p, <1>t, <2>2, <2>3, <2>4 DEF CasInsertEnd
<1>13. CASE SetPrevious(w)
  <2>1. PICK label \in PCs : pc' = [pc EXCEPT ![w] = label]
    BY Zenon, <1>13 DEF SetPrevious
  <2>2. previous' \in [Structs -> StructOrNull]
    BY Zenon, <1>13, <1>t DEF SetPrevious
  <2> QED
    BY Zenon, <1>13, <1>l, <1>p, <1>t, <2>1, <2>2 DEF SetPrevious
<1>14. CASE LinkNext(w)
  BY <1>14, <1>l, <1>p, <1>t DEF LinkNext
<1>15. CASE TestRemoveEnd(w)
  <2>1. PICK label \in PCs : pc' = [pc EXCEPT ![w] = label]
    BY Zenon, <1>15 DEF TestRemoveEnd
  <2> QED
    BY Zenon, <1>15, <1>l, <1>p, <1>t, <2>1 DEF TestRemoveEnd
<1>16. CASE SetRemoveEnd(w)
  <2>1. PICK label \in PCs : pc' = [pc EXCEPT ![w] = label]
    BY Zenon, <1>16 DEF SetRemoveEnd
  <2>2. remove_end' \in [Queues -> StructOrNull]
    BY Zenon, <1>16, <1>t DEF SetRemoveEnd
  <2> QED
    BY Zenon, <1>16, <1>l, <1>p, <1>t, <2>1, <2>2 DEF SetRemoveEnd
<1>17. CASE Inc(w)
  BY <1>17, <1>l, <1>p, <1>t DEF Inc, Queues
<1> QED
  BY ZenonT(30), <1>1, <1>2, <1>3, <1>4, <1>5, <1>6, <1>7, <1>8, <1>9, <1>10, <1>11, <1>12, <1>13, <1>14, <1>15,
     <1>16, <1>17 DEF Step, Dequeue, Enqueue

(* What a step keeps when it leaves the lists alone *)

(* ... every struct keeps its owner, ... *)
LEMMA OwnedKept ==
  ASSUME NEW P, Owned(P), NEW w \in Workers, Others(w), UNCHANGED <<linked, malloced>>,
         \A s : Holds(w, s)' <=> Holds(w, s)
  PROVE  Owned(P)'
<1>1. \A v \in Workers : \A s : Holds(v, s)' <=> Holds(v, s)
  BY ZenonT(30) DEF Others, Holds
<1>2. Distinct(linked)'
  BY Zenon DEF Owned, Distinct
<1>3. Elems(linked)' = Elems(linked)
  BY Zenon DEF Elems
<1>4. \A s : s \in malloced' <=> \/ s \in Elems(P) \/ s \in Elems(linked)
                                 \/ \E v \in Workers : Holds(v, s)'
  BY Zenon, <1>1 DEF Owned
<1>5. /\ \A v \in Workers : \A s : Holds(v, s)' => s \notin Elems(P) /\ s \notin Elems(linked)
      /\ \A v, u \in Workers : \A s : Holds(v, s)' /\ Holds(u, s)' => v = u
  BY Zenon, <1>1 DEF Owned
<1> QED
  BY Zenon, <1>2, <1>3, <1>4, <1>5 DEF Owned, Elems

(* ... the pool stays linked and readers of it stay right, ... *)
LEMMA PoolKept ==
  ASSUME NEW P, PoolList(P), Readers(P), NEW w \in Workers, Others(w),
         remove_end'["pool"] = remove_end["pool"], insert_end'["pool"] = insert_end["pool"],
         \A s \in Elems(P) : next'[s] = next[s],
         pc[w] \notin Emptying \/ Len(P) # 0 \/ pc'[w] \in Emptying,
         pc'[w] \in Taking => ReaderOK(w, P)'
  PROVE  PoolList(P)' /\ Readers(P)'
<1>1. Chained(next, P)'
  BY Zenon, ElemsAt DEF PoolList, Chained
<1>2. (\E v \in Workers : pc[v] \in Emptying) /\ Len(P) = 0 => \E v \in Workers : pc'[v] \in Emptying
  BY Zenon DEF Others
<1>3. PoolList(P)'
  BY Zenon, <1>1, <1>2 DEF PoolList
<1>4. ASSUME NEW v \in Workers, pc'[v] \in Taking PROVE ReaderOK(v, P)'
  <2>1. CASE v = w
    BY Zenon, <1>4, <2>1
  <2>2. CASE v # w
    <3>1. ReaderOK(v, P) /\ pc'[v] = pc[v] /\ temp'[v] = temp[v] /\ succ'[v] = succ[v]
      BY Zenon, <1>4, <2>2 DEF Others, Readers
    <3>2. Len(P) > 0 => P[1] \in Elems(P)
      <4>1. Len(P) > 0 => 1 \in 1..Len(P)
        BY DEF PoolList
      <4> QED
        BY Zenon, <4>1, ElemsAt
    <3> QED
      BY Zenon, <3>1, <3>2 DEF ReaderOK
  <2> QED
    BY Zenon, <2>1, <2>2
<1> QED
  BY Zenon, <1>3, <1>4 DEF Readers

(* ... the counts stay right, ... *)
LEMMA CountsKept ==
  ASSUME NEW P, Counts(P), NEW w \in Workers, Others(w), UNCHANGED <<n_elements, linked>>,
         pc[w] \in Taken <=> pc'[w] \in Taken, pc[w] \in Returning <=> pc'[w] \in Returning
  PROVE  Counts(P)'
<1>1. \A v \in Workers : v # w => pc'[v] = pc[v]
  BY Zenon DEF Others
<1>2. {v \in Workers : pc'[v] \in Taken} = {v \in Workers : pc[v] \in Taken}
  BY Zenon, <1>1
<1>3. {v \in Workers : pc'[v] \in Returning} = {v \in Workers : pc[v] \in Returning}
  BY Zenon, <1>1
<1> QED
  BY Zenon, <1>2, <1>3 DEF Counts

(* Steps of a worker that is not linking its struct *)
LEMMA InUseKept ==
  ASSUME NEW P, Owned(P), InUse, NEW w \in Workers, Others(w), UNCHANGED linked,
         insert_end'["containers"] = insert_end["containers"],
         remove_end'["containers"] = remove_end["containers"],
         \A s : next'[s] = next[s] \/ Holds(w, s),
         pc[w] \notin Returning, pc'[w] \notin Returning, pc'[w] \in Blank => next'[el'[w]] = NULL
  PROVE  InUse'
<1>1. \A i \in 1..Len(linked) : next'[linked[i]] = next[linked[i]]
  BY ZenonT(30), ElemsAt DEF Owned
<1>2. ASSUME NEW v \in Workers, pc'[v] \in Blank PROVE next'[el'[v]] = NULL
  <2>1. CASE v # w
    <3>1. pc[v] \in Blank /\ el'[v] = el[v] /\ Holds(v, el[v])
      BY Zenon, <1>2, <2>1 DEF Others, Holds, Blank, Ready
    <3> QED
      BY Zenon, <2>1, <3>1 DEF InUse, Owned
  <2> QED
    BY Zenon, <1>2, <2>1
<1>3. ASSUME NEW v \in Workers, pc'[v] \in Returning PROVE Own(v)'
  <2>1. v # w /\ Own(v)
    BY Zenon, <1>3 DEF Others, InUse
  <2> QED
    BY ZenonT(30), <2>1 DEF Others, Own, Before
<1>4. ASSUME NEW i \in 1..Len(linked) PROVE LinkOK(i)'
  <2>1. \A v \in Workers : pc[v] \in Linking => pc'[v] = pc[v] /\ el'[v] = el[v]
    BY Zenon DEF Others, Linking, Returning
  <2>2. LinkOK(i) /\ next'[linked[i]] = next[linked[i]]
    BY Zenon, <1>1 DEF InUse
  <2> QED
    BY Zenon, <2>1, <2>2 DEF LinkOK
<1> QED
  BY Zenon, <1>2, <1>3, <1>4 DEF InUse, Elems

(* ... and so does a list that is still linked both ways. *)
LEMMA FreshKept ==
  ASSUME InUse, Fresh, NEW w \in Workers, Others(w), UNCHANGED linked,
         UNCHANGED remove_end, \A s \in Elems(linked) : previous'[s] = previous[s],
         pc[w] \notin Returning, pc'[w] \notin Returning, pc'[w] \notin Taking, pc'[w] \notin Taken
  PROVE  Fresh'
<1>1. \A v \in Workers : pc'[v] \in Returning => v # w /\ pc[v] = pc'[v] /\ el'[v] = el[v] /\ temp'[v] = temp[v]
  BY Zenon DEF Others
<1>2. \A v \in Workers : pc[v] \in Returning => v # w /\ pc[v] = pc'[v] /\ el'[v] = el[v] /\ temp'[v] = temp[v]
  BY Zenon DEF Others
<1>3. \A v \in Workers : pc'[v] \notin Taking /\ pc'[v] \notin Taken
  BY Zenon DEF Others, Fresh
<1>4. \A v \in Workers : pc'[v] = "set_remove" => el'[v] = linked[1]
  BY Zenon, <1>1 DEF Fresh, Returning
<1>5. ASSUME NEW v \in Workers, pc'[v] \in {"link", "test_remove"} PROVE previous'[el'[v]] = temp'[v]
  <2>1. pc[v] = pc'[v] /\ pc[v] \in Returning /\ el'[v] = el[v] /\ temp'[v] = temp[v]
    BY Zenon, <1>1, <1>5 DEF Returning
  <2>2. el[v] \in Elems(linked)
    BY Zenon, <2>1, ElemsAt DEF InUse, Own
  <2> QED
    BY Zenon, <1>5, <2>1, <2>2 DEF Fresh
<1>6. Len(linked) > 0 /\ remove_end["containers"] = NULL =>
       \E v \in Workers : pc'[v] \in Linking \cup {"test_remove", "set_remove"} /\ el'[v] = linked[1]
  BY Zenon, <1>2 DEF Fresh, Linking, Returning
<1>7. ASSUME NEW i \in 1..Len(linked) PROVE BackOK(i)'
  <2>1. BackOK(i) /\ previous'[linked[i]] = previous[linked[i]]
    BY Zenon, ElemsAt DEF Fresh
  <2> QED
    BY Zenon, <1>2, <2>1 DEF BackOK, Before, Returning
<1> QED
  BY Zenon, <1>3, <1>4, <1>5, <1>6, <1>7 DEF Fresh

(* The parts of the invariant after a step of a worker *)
LEMMA Assemble ==
  ASSUME NEW P, TypeOK', PoolList(P)', Readers(P)', Owned(P)', Counts(P)', left = -1, UNCHANGED clear,
         Apart(P)', InUse', clears = 0 => Fresh'
  PROVE  IInv'
<1>1. P \in Seq(Structs) /\ left' = -1 /\ clears' = clears
  BY Zenon DEF PoolList, clear
<1> QED
  BY Zenon, <1>1 DEF IInv, Inv

(* A step of a worker that moves no struct *)
LEMMA PlainStep ==
  ASSUME NEW P, Inv(P), NEW w \in Workers, TypeOK', Others(w), left = -1, UNCHANGED clear,
         UNCHANGED <<remove_end, insert_end, n_elements, malloced, linked>>,
         \A s : Holds(w, s)' <=> Holds(w, s), \A s : next'[s] = next[s] \/ Holds(w, s),
         pc[w] \notin Emptying \/ Len(P) # 0 \/ pc'[w] \in Emptying,
         pc'[w] \in Taking => ReaderOK(w, P)',
         pc[w] \in Taken <=> pc'[w] \in Taken, pc[w] \notin Returning, pc'[w] \notin Returning,
         pc'[w] \in Blank => next'[el'[w]] = NULL,
         clears = 0 => /\ \A s \in Elems(linked) : previous'[s] = previous[s]
                       /\ pc'[w] \notin Taking /\ pc'[w] \notin Taken
  PROVE  IInv'
<1>1. /\ PoolList(P) /\ Readers(P) /\ Owned(P) /\ Counts(P) /\ Apart(P) /\ InUse
      /\ clears = 0 => Fresh
  BY Zenon DEF Inv
<1>2. Owned(P)'
  BY Zenon, <1>1, OwnedKept
<1>3. PoolList(P)' /\ Readers(P)'
  <2>1. \A s \in Elems(P) : next'[s] = next[s]
    BY Zenon, <1>1 DEF Owned
  <2> QED
    BY Zenon, <1>1, <2>1, PoolKept
<1>4. Counts(P)'
  BY Zenon, <1>1, CountsKept
<1>5. InUse'
  BY Zenon, <1>1, InUseKept
<1>6. Apart(P)'
  BY Zenon, <1>1 DEF Apart, Elems
<1>7. clears = 0 => Fresh'
  BY Zenon, <1>1, FreshKept
<1> QED
  BY Zenon, <1>2, <1>3, <1>4, <1>5, <1>6, <1>7, Assemble

(* The worker looks for a struct and moves none. *)
LEMMA LookStep ==
  ASSUME NEW P, Inv(P), NEW w \in Workers, TypeOK', Others(w), left = -1, UNCHANGED clear,
         \/ PushContainer(w) \/ ReadRemoveEnd(w) \/ ReadNext(w)
         \/ CasRemoveEnd(w) /\ remove_end["pool"] # temp[w]
  PROVE  IInv'
<1> USE DEF Holds, Taken, Ready, Emptying, Returning, Blank, Taking
<1>p. /\ PoolList(P) /\ Readers(P) /\ TypeOK /\ P \in Seq(Structs) /\ Len(P) \in Nat
      /\ clears = 0 => Fresh
  BY DEF Inv, PoolList
<1>0. /\ UNCHANGED <<remove_end, insert_end, n_elements, malloced, linked, next, previous, el>>
      /\ pc[w] \in {"idle", "read_remove", "read_next", "cas_remove"}
  BY Zenon DEF PushContainer, ReadRemoveEnd, ReadNext, CasRemoveEnd, Goto, ends, fields, locals
<1>1. CASE PushContainer(w)
  <2>1. pc'[w] = "read_remove"
    BY Zenon, <1>1, <1>p DEF PushContainer, Goto, TypeOK
  <2> QED
    BY Zenon, <1>0, <2>1, PlainStep
<1>4. CASE CasRemoveEnd(w) /\ remove_end["pool"] # temp[w]
  <2>1. pc'[w] = "read_remove"
    BY Zenon, <1>4, <1>p DEF CasRemoveEnd, Goto, TypeOK
  <2> QED
    BY Zenon, <1>0, <2>1, PlainStep
<1>2. CASE ReadRemoveEnd(w)
  <2>1. /\ pc'[w] = IF remove_end["pool"] = NULL THEN "malloc" ELSE "read_next"
        /\ temp'[w] = remove_end["pool"]
    BY Zenon, <1>2, <1>p DEF ReadRemoveEnd, Goto, TypeOK
  <2>2. CASE remove_end["pool"] = NULL
    <3>1. pc'[w] = "malloc"
      BY Zenon, <2>1, <2>2
    <3> QED
      BY Zenon, <1>0, <3>1, PlainStep
  <2>3. CASE remove_end["pool"] # NULL
    <3>1. pc'[w] = "read_next"
      BY Zenon, <2>1, <2>3
    <3>2. Len(P) > 0 /\ temp'[w] = P[1] /\ clears # 0
      BY <1>p, <2>1, <2>3 DEF PoolList, Fresh
    <3>3. P[1] \in Structs
      BY <1>p, <3>2
    <3>4. \A i \in 2..Len(P) : P[i] # P[1]
      <4>1. \A i \in 2..Len(P) : i \in 1..Len(P) /\ 1 \in 1..Len(P) /\ i # 1
        BY <1>p
      <4> QED
        BY Zenon, <4>1, <1>p DEF PoolList, Distinct
    <3>5. ReaderOK(w, P)'
      BY Zenon, <3>1, <3>2, <3>3, <3>4 DEF ReaderOK
    <3> QED
      BY Zenon, <1>0, <3>1, <3>2, <3>5, PlainStep
  <2> QED
    BY Zenon, <2>2, <2>3
<1>3. CASE ReadNext(w)
  <2>1. /\ pc[w] = "read_next" /\ pc'[w] = "cas_remove" /\ temp' = temp
        /\ succ'[w] = next[temp[w]]
    BY Zenon, <1>3, <1>p DEF ReadNext, Goto, TypeOK
  <2>2. ReaderOK(w, P) /\ clears # 0
    BY Zenon, <1>p, <2>1 DEF Readers, Fresh
  <2>3. ReaderOK(w, P)'
    BY Zenon, <1>0, <2>1, <2>2 DEF ReaderOK
  <2> QED
    BY Zenon, <1>0, <2>1, <2>2, <2>3, PlainStep
<1> QED
  BY Zenon, <1>1, <1>2, <1>3, <1>4

(* The worker has its struct, and clears what is not its own any more. *)
LEMMA CleanStep ==
  ASSUME NEW P, Inv(P), NEW w \in Workers, TypeOK', Others(w), left = -1, UNCHANGED clear,
         \/ ClearPrevious(w) \/ ClearNext(w) \/ SetupContainer(w) \/ ReadInsertEnd(w)
         \/ CasInsertEnd(w) /\ insert_end["containers"] # temp[w]
  PROVE  IInv'
<1> USE DEF Holds, Taken, Ready, Emptying, Returning, Blank, Taking
<1>p. TypeOK /\ (clears = 0 => Fresh) /\ InUse /\ Owned(P)
  BY Zenon DEF Inv
<1>1. CASE ClearPrevious(w)
  <2>1. /\ pc[w] = "clear_previous" /\ pc'[w] = "test_empty"
        /\ UNCHANGED <<remove_end, insert_end, n_elements, malloced, linked, next, el, temp>>
    BY Zenon, <1>1, <1>p DEF ClearPrevious, Goto, TypeOK, ends, locals
  <2>2. clears # 0
    BY Zenon, <1>p, <2>1 DEF Fresh
  <2> QED
    BY Zenon, <2>1, <2>2, PlainStep
<1>2. CASE ClearNext(w)
  <2>1. /\ pc[w] = "clear_next" /\ pc'[w] = "dec" /\ next' = [next EXCEPT ![temp[w]] = NULL]
        /\ UNCHANGED <<remove_end, insert_end, n_elements, malloced, linked, el, temp>>
    BY Zenon, <1>2, <1>p DEF ClearNext, Goto, TypeOK, ends, locals
  <2>2. clears # 0
    BY Zenon, <1>p, <2>1 DEF Fresh
  <2>3. \A s : next'[s] = next[s] \/ s = temp[w]
    BY <2>1, <1>p DEF TypeOK
  <2> QED
    BY Zenon, <2>1, <2>2, <2>3, PlainStep
<1>3. CASE SetupContainer(w)
  <2>1. /\ pc[w] = "setup" /\ pc'[w] = "read_insert" /\ next' = [next EXCEPT ![el[w]] = NULL]
        /\ previous' = [previous EXCEPT ![el[w]] = NULL]
        /\ UNCHANGED <<remove_end, insert_end, n_elements, malloced, linked, el, temp>>
    BY Zenon, <1>3, <1>p DEF SetupContainer, Goto, TypeOK, ends, locals
  <2>2. Holds(w, el[w]) /\ el[w] \in Structs /\ el[w] \notin Elems(linked)
    BY Zenon, <1>p, <2>1 DEF Owned, TypeOK
  <2>3. \A s : next'[s] = next[s] \/ s = el[w]
    BY <2>1, <1>p DEF TypeOK
  <2>4. \A s \in Elems(linked) : previous'[s] = previous[s]
    BY <2>1, <2>2, <1>p DEF TypeOK
  <2>5. next'[el'[w]] = NULL
    BY Zenon, <2>1, <2>2, <1>p DEF TypeOK
  <2> QED
    BY Zenon, <2>1, <2>2, <2>3, <2>4, <2>5, PlainStep
<1>4. CASE ReadInsertEnd(w)
  <2>1. /\ pc[w] = "read_insert" /\ pc'[w] = "cas_insert"
        /\ UNCHANGED <<remove_end, insert_end, n_elements, malloced, linked, next, previous, el>>
    BY Zenon, <1>4, <1>p DEF ReadInsertEnd, Goto, TypeOK, ends, fields
  <2>2. next[el[w]] = NULL
    BY Zenon, <1>p, <2>1 DEF InUse
  <2> QED
    BY Zenon, <2>1, <2>2, PlainStep
<1>5. CASE CasInsertEnd(w) /\ insert_end["containers"] # temp[w]
  <2>1. /\ pc[w] = "cas_insert" /\ pc'[w] = "read_insert"
        /\ UNCHANGED <<remove_end, insert_end, n_elements, malloced, linked, next, previous, el>>
    BY Zenon, <1>5, <1>p DEF CasInsertEnd, Goto, TypeOK, ends, fields, locals
  <2>2. next[el[w]] = NULL
    BY Zenon, <1>p, <2>1 DEF InUse
  <2> QED
    BY Zenon, <2>1, <2>2, PlainStep
<1> QED
  BY Zenon, <1>1, <1>2, <1>3, <1>4, <1>5

-----------------------------------------------------------------------------
(* Steps that move a struct *)

(* The links of the rest of a list *)
LEMMA TailChained ==
  ASSUME NEW s \in Seq(Structs), Len(s) > 0, Distinct(s), NEW link, Chained(link, s)
  PROVE  /\ Chained(link, Tail(s))
         /\ link[s[1]] = IF Len(Tail(s)) = 0 THEN NULL ELSE Tail(s)[1]
         /\ Len(Tail(s)) > 0 => Tail(s)[Len(Tail(s))] = s[Len(s)]
<1>1. PICK n \in Nat : n = Len(s) /\ n > 0
  OBVIOUS
<1>2. PICK t : t = Tail(s) /\ Len(t) = n - 1 /\ \A i \in 1..(n - 1) : t[i] = s[i + 1]
  BY ZenonT(30), <1>1, TailList
<1>3. \A i \in 1..n : link[s[i]] = IF i = n THEN NULL ELSE s[i + 1]
  BY Zenon, <1>1 DEF Chained
<1>4. \A i \in 1..(n - 1) : link[t[i]] = IF i = n - 1 THEN NULL ELSE t[i + 1]
  <2> TAKE i \in 1..(n - 1)
  <2>1. i + 1 \in 1..n /\ t[i] = s[i + 1] /\ (i + 1 = n <=> i = n - 1) /\ (i # n - 1 => i + 1 \in 1..(n - 1))
    BY <1>1, <1>2
  <2> QED
    BY Zenon, <1>2, <1>3, <2>1
<1>5. link[s[1]] = IF n - 1 = 0 THEN NULL ELSE t[1]
  <2>1. 1 \in 1..n /\ (1 = n <=> n - 1 = 0) /\ (n - 1 # 0 => t[1] = s[1 + 1])
    BY <1>1, <1>2
  <2> QED
    BY Zenon, <1>3, <2>1
<1>6. n - 1 > 0 => t[n - 1] = s[n]
  BY <1>1, <1>2
<1> QED
  BY Zenon, <1>1, <1>2, <1>4, <1>5, <1>6 DEF Chained

(* The CAS on _remove_end takes the first struct of the pool. *)
LEMMA TakeStep ==
  ASSUME NEW P, Inv(P), NEW w \in Workers, TypeOK', Others(w), left = -1, UNCHANGED clear,
         CasRemoveEnd(w), remove_end["pool"] = temp[w]
  PROVE  IInv'
<1>p. /\ PoolList(P) /\ Readers(P) /\ TypeOK /\ P \in Seq(Structs) /\ Owned(P) /\ Counts(P) /\ Apart(P)
      /\ InUse /\ (clears = 0 => Fresh)
  BY Zenon DEF Inv, PoolList
<1>1. /\ pc[w] = "cas_remove" /\ pc'[w] = "clear_previous"
      /\ remove_end' = [remove_end EXCEPT !["pool"] = succ[w]]
      /\ UNCHANGED <<insert_end, n_elements, next, previous, malloced, linked, temp, el, succ>>
  BY Zenon, <1>p DEF CasRemoveEnd, Goto, TypeOK, fields, locals
<1>2. remove_end'["pool"] = succ[w] /\ remove_end'["containers"] = remove_end["containers"]
  BY <1>1, <1>p DEF TypeOK, Queues
<1>3. ReaderOK(w, P) /\ clears # 0
  BY Zenon, <1>1, <1>p DEF Readers, Fresh, Taking
<1>4. PICK n \in Nat : n = Len(P)
  BY <1>p
<1>5. n > 0 /\ P[1] = temp[w] /\ succ[w] = next[P[1]]
  <2>1. n # 0
    BY Zenon, <1>3, <1>4, <1>p, GenQueueAssumption DEF ReaderOK, PoolList
  <2>2. n > 0
    BY <1>4, <2>1
  <2> QED
    BY Zenon, <1>1, <1>3, <1>4, <2>1, <2>2, <1>p DEF ReaderOK, PoolList
<1>6. PICK Q : Q = Tail(P)
  BY Zenon
<1>7. /\ Q \in Seq(Structs) /\ Len(Q) = n - 1 /\ Distinct(Q)
      /\ \A i \in 1..(n - 1) : Q[i] = P[i + 1]
      /\ \A x : x \in Elems(P) <=> x = P[1] \/ x \in Elems(Q)
      /\ P[1] \notin Elems(Q) /\ P[1] \in Structs
  BY Zenon, <1>4, <1>5, <1>6, <1>p, TailList DEF PoolList
<1>8. /\ Chained(next, Q)
      /\ next[P[1]] = IF Len(Q) = 0 THEN NULL ELSE Q[1]
      /\ Len(Q) > 0 => Q[Len(Q)] = P[Len(P)]
  BY Zenon, <1>4, <1>5, <1>6, <1>p, TailChained DEF PoolList
<1>9. PoolList(Q)'
  <2>1. Chained(next, Q)'
    BY Zenon, <1>1, <1>8 DEF Chained
  <2>2. CASE Len(Q) = 0
    BY Zenon, <2>1, <2>2, <1>1, <1>2, <1>5, <1>7, <1>8 DEF PoolList, Emptying
  <2>3. CASE Len(Q) # 0
    <3>1. Len(Q) > 0 /\ Len(P) # 0
      BY <1>4, <1>5, <1>7, <2>3
    <3> QED
      BY Zenon, <2>1, <2>3, <3>1, <1>1, <1>2, <1>5, <1>7, <1>8, <1>p DEF PoolList
  <2> QED
    BY Zenon, <2>2, <2>3
<1>10. ASSUME NEW v \in Workers, pc'[v] \in Taking PROVE ReaderOK(v, Q)'
  <2>1. v # w /\ pc[v] \in Taking /\ ReaderOK(v, P)
    BY Zenon, <1>1, <1>10, <1>p DEF Others, Readers, Taking
  <2>2. \A i \in 1..(n - 1) : Q[i] # temp[v]
    <3> TAKE i \in 1..(n - 1)
    <3>1. i + 1 \in 2..n
      BY <1>4
    <3> QED
      BY Zenon, <3>1, <2>1, <1>4, <1>7 DEF ReaderOK
  <2>3. (\A i \in 2..(n - 1) : i \in 1..(n - 1)) /\ (n - 1 > 0 => 1 \in 1..(n - 1))
    BY <1>4
  <2> QED
    BY Zenon, <1>1, <1>7, <2>1, <2>2, <2>3 DEF ReaderOK
<1>11. \A s : Holds(w, s)' <=> s = P[1]
  BY Zenon, <1>1, <1>5 DEF Holds, Taken, Ready
<1>12. \A s : ~ Holds(w, s)
  BY Zenon, <1>1 DEF Holds, Taken, Ready
<1>13. \A v \in Workers : v # w => \A s : Holds(v, s)' <=> Holds(v, s)
  BY Zenon DEF Others, Holds
<1>14. Owned(Q)'
  <2>1. Elems(linked)' = Elems(linked)
    BY Zenon, <1>1 DEF Elems
  <2>d. Distinct(linked)'
    BY Zenon, <1>1, <1>p DEF Distinct, Owned
  <2>2. P[1] \notin Elems(linked) /\ P[1] \notin Elems(Q)
    BY Zenon, <1>7, <1>p DEF Apart
  <2>3. ASSUME NEW s PROVE s \in malloced <=> \/ s \in Elems(Q) \/ s \in Elems(linked)
                                              \/ \E v \in Workers : Holds(v, s)'
    <3>1. s \in malloced <=> \/ s = P[1] \/ s \in Elems(Q) \/ s \in Elems(linked)
                             \/ \E v \in Workers : Holds(v, s)
      BY Zenon, <1>7, <1>p DEF Owned
    <3> QED
      BY Zenon, <3>1, <1>11, <1>12, <1>13
  <2>4. ASSUME NEW v \in Workers, NEW s, Holds(v, s)' PROVE s \notin Elems(Q) /\ s \notin Elems(linked)
    BY Zenon, <2>2, <2>4, <1>7, <1>11, <1>13, <1>p DEF Owned
  <2>5. ASSUME NEW v \in Workers, NEW u \in Workers, NEW s, Holds(v, s)', Holds(u, s)' PROVE v = u
    <3>1. \A x \in Workers : ~ Holds(x, P[1])
      BY Zenon, <1>7, <1>p DEF Owned
    <3>2. \A x \in Workers : Holds(x, s)' => IF s = P[1] THEN x = w ELSE Holds(x, s)
      BY Zenon, <3>1, <1>11, <1>13
    <3>3. CASE s = P[1]
      BY Zenon, <2>5, <3>2, <3>3
    <3>4. CASE s # P[1]
      <4>1. Holds(v, s) /\ Holds(u, s)
        BY Zenon, <2>5, <3>2, <3>4
      <4> QED
        BY Zenon, <4>1, <1>p DEF Owned
    <3> QED
      BY Zenon, <3>3, <3>4
  <2> QED
    BY Zenon, <1>1, <2>1, <2>d, <2>3, <2>4, <2>5 DEF Owned, Elems
<1>15. Counts(Q)'
  <2>1. \A v \in Workers : v # w => pc'[v] = pc[v]
    BY Zenon DEF Others
  <2>2. /\ pc[w] \notin Taken /\ pc'[w] \in Taken /\ pc[w] \notin Returning /\ pc'[w] \notin Returning
    BY Zenon, <1>1 DEF Taken, Returning
  <2>3. PICK k \in Nat : /\ k = Cardinality({v \in Workers : pc[v] \in Taken})
                         /\ Cardinality({v \in Workers : pc'[v] \in Taken}) = k + 1
    BY Zenon, <2>1, <2>2, OneCounts
  <2>4. Cardinality({v \in Workers : pc'[v] \in Returning}) = Cardinality({v \in Workers : pc[v] \in Returning})
    BY Zenon, <2>1, <2>2, OneCounts
  <2>5. n + k = (n - 1) + (k + 1)
    BY <1>4, <2>3
  <2> QED
    BY Zenon, <2>3, <2>4, <2>5, <1>1, <1>4, <1>7, <1>p DEF Counts
<1>16. InUse'
  <2>1. pc[w] \notin Returning /\ pc'[w] \notin Returning /\ pc'[w] \notin Blank
    BY Zenon, <1>1 DEF Returning, Blank
  <2> QED
    BY Zenon, <1>1, <1>2, <1>p, <2>1, InUseKept
<1>17. Apart(Q)'
  BY ZenonT(30), <1>1, <1>7, <1>p DEF Apart, Elems
<1> QED
  BY Zenon, <1>3, <1>9, <1>10, <1>14, <1>15, <1>16, <1>17, Assemble DEF Readers

(* The worker that took the last struct resets the end of the pool. *)
LEMMA EmptyStep ==
  ASSUME NEW P, Inv(P), NEW w \in Workers, TypeOK', Others(w), left = -1, UNCHANGED clear, TestEmpty(w)
  PROVE  IInv'
<1> USE DEF Holds, Taken, Ready, Emptying, Returning, Blank, Taking
<1>p. /\ PoolList(P) /\ Readers(P) /\ TypeOK /\ P \in Seq(Structs) /\ Owned(P) /\ Counts(P) /\ Apart(P)
      /\ InUse /\ (clears = 0 => Fresh)
  BY Zenon DEF Inv, PoolList
<1>1. /\ pc[w] = "test_empty" /\ pc'[w] = "clear_next"
      /\ insert_end' = IF remove_end["pool"] = NULL THEN [insert_end EXCEPT !["pool"] = NULL] ELSE insert_end
      /\ UNCHANGED <<remove_end, n_elements, next, previous, malloced, linked, temp, el, succ>>
  BY Zenon, <1>p DEF TestEmpty, Goto, TypeOK, fields, locals
<1>2. clears # 0
  BY Zenon, <1>1, <1>p DEF Fresh
<1>3. /\ insert_end'["pool"] = IF remove_end["pool"] = NULL THEN NULL ELSE insert_end["pool"]
      /\ insert_end'["containers"] = insert_end["containers"]
  BY <1>1, <1>p DEF TypeOK, Queues
<1>4. PoolList(P)' /\ Readers(P)'
  <2>1. CASE Len(P) = 0
    <3>1. remove_end["pool"] = NULL
      BY Zenon, <1>p, <2>1 DEF PoolList
    <3>2. Chained(next, P)'
      BY Zenon, <1>1, <1>p DEF PoolList, Chained
    <3>3. PoolList(P)'
      BY Zenon, <1>1, <1>3, <1>p, <2>1, <3>1, <3>2 DEF PoolList
    <3>4. ~ (Len(P) > 0)
      BY <2>1
    <3>5. ASSUME NEW v \in Workers, pc'[v] \in Taking PROVE ReaderOK(v, P)'
      <4>1. v # w /\ pc[v] \in Taking /\ ReaderOK(v, P)
        BY Zenon, <1>1, <3>5, <1>p DEF Others, Readers
      <4> QED
        BY Zenon, <1>1, <4>1, <3>4 DEF ReaderOK
    <3> QED
      BY Zenon, <3>3, <3>5 DEF Readers
  <2>2. CASE Len(P) # 0
    <3>1. remove_end["pool"] # NULL
      <4>1. P[1] \in Structs
        BY <1>p, <2>2
      <4> QED
        BY Zenon, <4>1, <2>2, <1>p, GenQueueAssumption DEF PoolList
    <3> QED
      BY Zenon, <1>1, <1>3, <1>p, <2>2, <3>1, PoolKept
  <2> QED
    BY Zenon, <2>1, <2>2
<1>5. Owned(P)'
  BY Zenon, <1>1, <1>p, OwnedKept
<1>6. Counts(P)'
  BY Zenon, <1>1, <1>p, CountsKept
<1>7. InUse'
  BY Zenon, <1>1, <1>3, <1>p, InUseKept
<1>8. Apart(P)'
  BY Zenon, <1>1, <1>p DEF Apart, Elems
<1> QED
  BY Zenon, <1>2, <1>4, <1>5, <1>6, <1>7, <1>8, Assemble

(* dequeue returns. *)
LEMMA DecStep ==
  ASSUME NEW P, Inv(P), NEW w \in Workers, TypeOK', Others(w), left = -1, UNCHANGED clear, Dec(w)
  PROVE  IInv'
<1> USE DEF Holds, Taken, Ready, Emptying, Returning, Blank, Taking
<1>p. /\ PoolList(P) /\ Readers(P) /\ TypeOK /\ P \in Seq(Structs) /\ Owned(P) /\ Counts(P) /\ Apart(P)
      /\ InUse /\ (clears = 0 => Fresh)
  BY Zenon DEF Inv, PoolList
<1>1. /\ pc[w] = "dec" /\ pc'[w] = "setup" /\ el'[w] = temp[w]
      /\ n_elements' = [n_elements EXCEPT !["pool"] = @ - 1]
      /\ UNCHANGED <<remove_end, insert_end, next, previous, malloced, linked, temp, succ>>
  BY Zenon, <1>p DEF Dec, Goto, TypeOK, fields
<1>2. clears # 0
  BY Zenon, <1>1, <1>p DEF Fresh
<1>3. /\ n_elements'["pool"] = n_elements["pool"] - 1
      /\ n_elements'["containers"] = n_elements["containers"]
  BY <1>1, <1>p DEF TypeOK, Queues
<1>4. PoolList(P)' /\ Readers(P)'
  BY Zenon, <1>1, <1>p, PoolKept
<1>5. Owned(P)'
  BY Zenon, <1>1, <1>p, OwnedKept
<1>6. Counts(P)'
  <2>1. \A v \in Workers : v # w => pc'[v] = pc[v]
    BY Zenon DEF Others
  <2>2. /\ pc[w] \in Taken /\ pc'[w] \notin Taken /\ pc[w] \notin Returning /\ pc'[w] \notin Returning
    BY Zenon, <1>1
  <2> HIDE DEF Taken, Returning
  <2>3. PICK k \in Nat : /\ k = Cardinality({v \in Workers : pc[v] \in Taken})
                         /\ Cardinality({v \in Workers : pc'[v] \in Taken}) = k - 1
    BY Zenon, <2>1, <2>2, OneCounts
  <2>4. Cardinality({v \in Workers : pc'[v] \in Returning}) = Cardinality({v \in Workers : pc[v] \in Returning})
    BY Zenon, <2>1, <2>2, OneCounts
  <2>5. PICK n \in Nat : n = Len(P)
    BY <1>p
  <2>6. (n + k) - 1 = n + (k - 1)
    BY <2>3, <2>5
  <2> QED
    BY Zenon, <2>3, <2>4, <2>5, <2>6, <1>1, <1>3, <1>p DEF Counts
<1>7. InUse'
  BY Zenon, <1>1, <1>p, InUseKept
<1>8. Apart(P)'
  BY Zenon, <1>1, <1>p DEF Apart, Elems
<1> QED
  BY Zenon, <1>2, <1>4, <1>5, <1>6, <1>7, <1>8, Assemble

(* A struct that the C heap supplies is nobody's. *)
LEMMA MallocStep ==
  ASSUME NEW P, Inv(P), NEW w \in Workers, TypeOK', Others(w), left = -1, UNCHANGED clear, Malloc(w)
  PROVE  IInv'
<1> USE DEF Taken, Ready, Emptying, Returning, Blank, Taking
<1>p. /\ PoolList(P) /\ Readers(P) /\ TypeOK /\ P \in Seq(Structs) /\ Owned(P) /\ Counts(P) /\ Apart(P)
      /\ InUse /\ (clears = 0 => Fresh)
  BY Zenon DEF Inv, PoolList
<1>1. PICK x \in Structs \ malloced : el' = [el EXCEPT ![w] = x] /\ malloced' = malloced \cup {x}
  BY Zenon DEF Malloc
<1>2. /\ pc[w] = "malloc" /\ pc'[w] = "setup" /\ el'[w] = x
      /\ UNCHANGED <<remove_end, insert_end, n_elements, next, previous, linked, temp, succ>>
  BY Zenon, <1>1, <1>p DEF Malloc, Goto, TypeOK, fields, ends
<1>3. PoolList(P)' /\ Readers(P)'
  BY Zenon, <1>2, <1>p, PoolKept
<1>4. \A s : Holds(w, s)' <=> s = x
  BY Zenon, <1>2 DEF Holds
<1>5. \A s : ~ Holds(w, s)
  BY Zenon, <1>2 DEF Holds
<1>6. \A v \in Workers : v # w => \A s : Holds(v, s)' <=> Holds(v, s)
  BY Zenon DEF Others, Holds
<1>7. Owned(P)'
  <2>1. Elems(linked)' = Elems(linked)
    BY Zenon, <1>2 DEF Elems
  <2>2. Distinct(linked)'
    BY Zenon, <1>2, <1>p DEF Distinct, Owned
  <2>3. x \notin Elems(P) /\ x \notin Elems(linked) /\ \A v \in Workers : ~ Holds(v, x)
    BY Zenon, <1>p DEF Owned
  <2>4. ASSUME NEW s PROVE s \in malloced' <=> \/ s \in Elems(P) \/ s \in Elems(linked)
                                               \/ \E v \in Workers : Holds(v, s)'
    <3>1. s \in malloced <=> s \in Elems(P) \/ s \in Elems(linked) \/ \E v \in Workers : Holds(v, s)
      BY Zenon, <1>p DEF Owned
    <3> QED
      BY Zenon, <3>1, <1>1, <1>4, <1>5, <1>6
  <2>5. ASSUME NEW v \in Workers, NEW s, Holds(v, s)' PROVE s \notin Elems(P) /\ s \notin Elems(linked)
    BY ZenonT(30), <2>3, <2>5, <1>4, <1>6, <1>p DEF Owned
  <2>6. ASSUME NEW v \in Workers, NEW u \in Workers, NEW s, Holds(v, s)', Holds(u, s)' PROVE v = u
    BY ZenonT(30), <2>3, <2>6, <1>4, <1>6, <1>p DEF Owned
  <2> QED
    BY Zenon, <2>1, <2>2, <2>4, <2>5, <2>6 DEF Owned, Elems
<1>8. Counts(P)'
  BY Zenon, <1>2, <1>p, CountsKept
<1>9. InUse'
  BY Zenon, <1>2, <1>p, InUseKept
<1>10. Apart(P)'
  BY Zenon, <1>2, <1>p DEF Apart, Elems
<1>11. clears = 0 => Fresh'
  BY Zenon, <1>2, <1>p, FreshKept
<1> QED
  BY Zenon, <1>3, <1>7, <1>8, <1>9, <1>10, <1>11, Assemble

(* The CAS on _insert_end puts the struct of the worker at the end of the  *)
(* list; the link to it is still to be set.                                *)
LEMMA JoinStep ==
  ASSUME NEW P, Inv(P), NEW w \in Workers, TypeOK', Others(w), left = -1, UNCHANGED clear,
         CasInsertEnd(w), insert_end["containers"] = temp[w]
  PROVE  IInv'
<1>p. /\ PoolList(P) /\ Readers(P) /\ TypeOK /\ P \in Seq(Structs) /\ Owned(P) /\ Counts(P) /\ Apart(P)
      /\ InUse /\ (clears = 0 => Fresh) /\ linked \in Seq(Structs) /\ Distinct(linked)
  BY Zenon DEF Inv, PoolList, TypeOK, Owned
<1>x. PICK x : x = el[w]
  BY Zenon
<1>1. /\ pc[w] = "cas_insert" /\ pc'[w] = "set_previous"
      /\ insert_end' = [insert_end EXCEPT !["containers"] = x]
      /\ linked' = Append(linked, x)
      /\ UNCHANGED <<remove_end, n_elements, next, previous, malloced, temp, el, succ>>
  BY Zenon, <1>x, <1>p DEF CasInsertEnd, Goto, TypeOK, fields, locals
<1>2. insert_end'["pool"] = insert_end["pool"] /\ insert_end'["containers"] = x
  BY <1>1, <1>p DEF TypeOK, Queues
<1>3. Holds(w, x) /\ x \notin Elems(P) /\ x \notin Elems(linked) /\ x \in Structs /\ next[x] = NULL
  BY Zenon, <1>1, <1>x, <1>p DEF Holds, Ready, Owned, TypeOK, InUse, Blank
<1>4. PICK n \in Nat : n = Len(linked)
  BY <1>p
<1>5. PICK l : l = linked' /\ l = Append(linked, x)
  BY Zenon, <1>1
<1>6. /\ Len(l) = n + 1 /\ l[n + 1] = x /\ (\A i \in 1..n : l[i] = linked[i]) /\ Distinct(l)
      /\ \A y : y \in Elems(l) <=> y \in Elems(linked) \/ y = x
  <2>1. LET t == Append(linked, x)
        IN  /\ Len(t) = Len(linked) + 1 /\ t[Len(linked) + 1] = x
            /\ (\A i \in 1..Len(linked) : t[i] = linked[i]) /\ Distinct(t)
            /\ \A y : y \in Elems(t) <=> y \in Elems(linked) \/ y = x
    BY ZenonT(30), <1>3, <1>p, AppendList
  <2>2. l = Append(linked, x)
    BY Zenon, <1>5
  <2> QED
    BY Zenon, <1>4, <2>1, <2>2
<1>e. Elems(linked)' = Elems(l)
  BY Zenon, <1>5 DEF Elems
<1>7. /\ \A i \in 1..(n + 1) : i \in 1..n \/ i = n + 1
      /\ \A i \in 1..n : i \in 1..(n + 1) /\ i # n + 1 /\ (i # n => i + 1 \in 1..n)
      /\ \A i \in 1..n : i # 1 => i - 1 \in 1..n
      /\ n + 1 \in 1..(n + 1) /\ n < n + 1 /\ (n + 1) - 1 = n
      /\ n # 0 => n > 0 /\ 1 \in 1..n /\ n \in 1..n
      /\ \A i \in 1..n : i < n \/ i = n
      /\ \A i \in 1..n : i < n => i # n /\ i < n + 1
      /\ \A i \in 1..n : n # 0
      /\ n + 1 # 0 /\ (n = 0 => n + 1 = 1) /\ (n + 1 = 1 => n = 0) /\ ~(0 > 0)
  BY SMTT(30), <1>4
<1>8. PoolList(P)' /\ Readers(P)'
  <2>1. pc[w] \notin Emptying /\ pc'[w] \notin Taking
    BY Zenon, <1>1 DEF Emptying, Taking
  <2> QED
    BY Zenon, <1>1, <1>2, <1>p, <2>1, PoolKept
<1>9. \A s : ~ Holds(w, s)'
  BY Zenon, <1>1 DEF Holds, Taken, Ready
<1>10. \A s : Holds(w, s) <=> s = x
  BY Zenon, <1>1, <1>x DEF Holds, Taken, Ready
<1>11. \A v \in Workers : v # w => \A s : Holds(v, s)' <=> Holds(v, s)
  BY Zenon DEF Others, Holds
<1>12. Owned(P)'
  <2>1. ASSUME NEW s PROVE s \in malloced <=> \/ s \in Elems(P) \/ s \in Elems(l)
                                              \/ \E v \in Workers : Holds(v, s)'
    <3>1. s \in malloced <=> s \in Elems(P) \/ s \in Elems(linked) \/ \E v \in Workers : Holds(v, s)
      BY Zenon, <1>p DEF Owned
    <3> QED
      BY Zenon, <3>1, <1>6, <1>9, <1>10, <1>11
  <2>2. ASSUME NEW v \in Workers, NEW s, Holds(v, s)' PROVE s \notin Elems(P) /\ s \notin Elems(l)
    <3>0. v # w /\ Holds(v, s)
      BY Zenon, <2>2, <1>9, <1>11
    <3>1. s # x
      BY Zenon, <3>0, <1>3, <1>p DEF Owned
    <3> QED
      BY Zenon, <3>0, <3>1, <1>6, <1>p DEF Owned
  <2>3. ASSUME NEW v \in Workers, NEW u \in Workers, NEW s, Holds(v, s)', Holds(u, s)' PROVE v = u
    BY Zenon, <2>3, <1>9, <1>11, <1>p DEF Owned
  <2> QED
    <3>1. Distinct(linked)' /\ Elems(P)' = Elems(P)
      BY Zenon, <1>5, <1>6 DEF Distinct, Elems
    <3> QED
      BY Zenon, <1>1, <1>e, <3>1, <2>1, <2>2, <2>3 DEF Owned
<1>13. Counts(P)'
  <2>1. \A v \in Workers : v # w => pc'[v] = pc[v]
    BY Zenon DEF Others
  <2>2. /\ pc[w] \notin Taken /\ pc'[w] \notin Taken /\ pc[w] \notin Returning /\ pc'[w] \in Returning
    BY Zenon, <1>1 DEF Taken, Returning
  <2>3. PICK k \in Nat : /\ k = Cardinality({v \in Workers : pc[v] \in Returning})
                         /\ Cardinality({v \in Workers : pc'[v] \in Returning}) = k + 1
    BY Zenon, <2>1, <2>2, OneCounts
  <2>4. Cardinality({v \in Workers : pc'[v] \in Taken}) = Cardinality({v \in Workers : pc[v] \in Taken})
    BY Zenon, <2>1, <2>2, OneCounts
  <2>5. PICK m \in Int : m = n_elements["containers"]
    BY <1>p DEF TypeOK, Queues
  <2>6. m + k = n => m + (k + 1) = n + 1
    BY SMTT(30), <1>4, <2>3, <2>5
  <2> QED
    BY Zenon, <2>3, <2>4, <2>5, <2>6, <1>1, <1>4, <1>5, <1>6, <1>p DEF Counts
<1>14. temp[w] = Before(l, n + 1)
  BY Zenon, <1>4, <1>6, <1>7, <1>p DEF InUse, Before
<1>15. ASSUME NEW i \in 1..n PROVE Before(l, i) = Before(linked, i)
  BY Zenon, <1>6, <1>7 DEF Before
<1>16. ASSUME NEW v \in Workers, pc'[v] \in Blank PROVE next'[el'[v]] = NULL
  <2>1. v # w /\ pc[v] \in Blank /\ el'[v] = el[v]
    BY Zenon, <1>16, <1>1 DEF Others, Blank
  <2> QED
    BY Zenon, <2>1, <1>1, <1>p DEF InUse
<1>17. ASSUME NEW v \in Workers, pc'[v] \in Returning
       PROVE  \E i \in 1..(n + 1) : /\ el'[v] = l[i]
                                    /\ pc'[v] \in Linking \cup {"test_remove"} => temp'[v] = Before(l, i)
  <2>1. CASE v = w
    BY Zenon, <2>1, <1>1, <1>x, <1>6, <1>7, <1>14
  <2>2. CASE v # w
    <3>1. pc[v] = pc'[v] /\ el'[v] = el[v] /\ temp'[v] = temp[v] /\ Own(v)
      BY Zenon, <2>2, <1>17, <1>p DEF Others, InUse
    <3>2. PICK i \in 1..n : /\ el[v] = linked[i]
                            /\ pc[v] \in Linking \cup {"test_remove"} => temp[v] = Before(linked, i)
      BY Zenon, <3>1, <1>4 DEF Own
    <3> QED
      BY Zenon, <3>1, <3>2, <1>6, <1>7, <1>15
  <2> QED
    BY Zenon, <2>1, <2>2
<1>18. ASSUME NEW i \in 1..(n + 1)
       PROVE  \/ next'[l[i]] = IF i = n + 1 THEN NULL ELSE l[i + 1]
              \/ i < n + 1 /\ \E v \in Workers : pc'[v] \in Linking /\ el'[v] = l[i + 1]
  <2>1. CASE i = n + 1
    BY Zenon, <2>1, <1>1, <1>3, <1>6
  <2>2. CASE i \in 1..n /\ i = n
    <3>1. pc'[w] \in Linking /\ el'[w] = l[i + 1] /\ i < n + 1
      BY Zenon, <2>2, <1>1, <1>x, <1>6, <1>7 DEF Linking
    <3> QED
      BY Zenon, <3>1
  <2>3. CASE i \in 1..n /\ i < n
    <3>1. l[i] = linked[i] /\ l[i + 1] = linked[i + 1] /\ i # n /\ i # n + 1 /\ i < n + 1
      BY Zenon, <2>3, <1>6, <1>7
    <3>2. LinkOK(i)
      BY Zenon, <2>3, <1>4, <1>p DEF InUse
    <3>3. \A v \in Workers : pc[v] \in Linking => pc'[v] = pc[v] /\ el'[v] = el[v]
      BY Zenon, <1>1 DEF Others, Linking
    <3> QED
      BY Zenon, <3>1, <3>2, <3>3, <1>1, <1>4 DEF LinkOK
  <2> QED
    BY Zenon, <2>1, <2>2, <2>3, <1>7
<1>19. InUse'
  <2>1. remove_end["containers"] # NULL => remove_end["containers"] \in Elems(l)
    BY Zenon, <1>6, <1>p DEF InUse
  <2>2. ASSUME NEW v \in Workers, pc'[v] \in Returning PROVE Own(v)'
    <3>1. PICK i \in 1..(n + 1) : /\ el'[v] = l[i]
                                  /\ pc'[v] \in Linking \cup {"test_remove"} => temp'[v] = Before(l, i)
      BY Zenon, <2>2, <1>17
    <3>l. l = linked' /\ Len(linked') = n + 1
      BY Zenon, <1>5, <1>6
    <3>2. pc'[v] \in Linking \cup {"test_remove"} => temp'[v] = Before(linked, i)'
      BY Zenon, <3>1, <3>l DEF Before
    <3>3. i \in 1..Len(linked') /\ el'[v] = linked'[i]
      BY <3>1, <3>l
    <3> QED
      BY Zenon, <3>2, <3>3 DEF Own
  <2>3. \A i \in 1..Len(linked') : LinkOK(i)'
    BY Zenon, <1>5, <1>6, <1>18 DEF LinkOK
  <2>4. insert_end'["containers"] = IF Len(linked') = 0 THEN NULL ELSE linked'[Len(linked')]
    BY Zenon, <1>2, <1>5, <1>6, <1>7
  <2> QED
    BY Zenon, <1>1, <1>5, <1>16, <2>1, <2>2, <2>3, <2>4 DEF InUse, Elems
<1>20. Apart(P)'
  <2>1. \A s : s \in Elems(P) => s \notin Elems(l)
    BY Zenon, <1>3, <1>6, <1>p DEF Apart
  <2> QED
    BY Zenon, <1>e, <2>1 DEF Apart, Elems
<1>21. clears = 0 => Fresh'
  <2> SUFFICES ASSUME clears = 0 PROVE Fresh'
    BY Zenon
  <2>f. Fresh
    BY Zenon, <1>p
  <2>1. \A v \in Workers : pc'[v] \notin Taking /\ pc'[v] \notin Taken
    BY Zenon, <2>f, <1>1 DEF Fresh, Others, Taking, Taken
  <2>2. remove_end["containers"] # NULL => n + 1 > 0 /\ remove_end["containers"] = l[1]
    <3>1. n + 1 > 0
      BY <1>4
    <3> QED
      BY Zenon, <3>1, <2>f, <1>4, <1>6, <1>7 DEF Fresh
  <2>3. ASSUME NEW v \in Workers, pc'[v] = "set_remove" PROVE el'[v] = l[1]
    <3>1. v # w /\ pc[v] = "set_remove" /\ el'[v] = el[v]
      BY Zenon, <2>3, <1>1 DEF Others
    <3>2. n # 0 /\ el[v] = linked[1]
      BY Zenon, <3>1, <2>f, <1>4, <1>7, <1>p DEF Fresh, InUse, Own, Returning
    <3> QED
      BY Zenon, <3>1, <3>2, <1>6, <1>7
  <2>4. ASSUME NEW v \in Workers, pc'[v] \in {"link", "test_remove"} PROVE previous'[el'[v]] = temp'[v]
    <3>1. v # w /\ pc[v] = pc'[v] /\ el'[v] = el[v] /\ temp'[v] = temp[v]
      BY Zenon, <2>4, <1>1 DEF Others
    <3> QED
      BY Zenon, <2>4, <3>1, <2>f, <1>1 DEF Fresh
  <2>5. remove_end["containers"] = NULL =>
          \E v \in Workers : pc'[v] \in Linking \cup {"test_remove", "set_remove"} /\ el'[v] = l[1]
    <3>1. CASE n = 0
      <4>1. pc'[w] \in Linking /\ el'[w] = l[1]
        BY Zenon, <3>1, <1>1, <1>x, <1>6, <1>7 DEF Linking
      <4> QED
        BY Zenon, <4>1
    <3>2. CASE n # 0 /\ remove_end["containers"] = NULL
      <4>1. PICK v \in Workers : pc[v] \in Linking \cup {"test_remove", "set_remove"} /\ el[v] = linked[1]
        BY Zenon, <3>2, <2>f, <1>4, <1>7 DEF Fresh
      <4>2. v # w /\ pc'[v] = pc[v] /\ el'[v] = el[v] /\ l[1] = linked[1]
        BY Zenon, <3>2, <4>1, <1>1, <1>6, <1>7 DEF Others, Linking
      <4> QED
        BY Zenon, <4>1, <4>2
    <3> QED
      BY Zenon, <3>1, <3>2
  <2>6. ASSUME NEW i \in 1..(n + 1) PROVE \/ previous'[l[i]] = Before(l, i)
                                          \/ \E v \in Workers : pc'[v] = "set_previous" /\ el'[v] = l[i]
    <3>1. CASE i = n + 1
      BY Zenon, <3>1, <1>1, <1>x, <1>6
    <3>2. CASE i \in 1..n
      <4>1. BackOK(i) /\ l[i] = linked[i] /\ Before(l, i) = Before(linked, i)
        BY Zenon, <3>2, <2>f, <1>4, <1>6, <1>15 DEF Fresh
      <4>2. \A v \in Workers : pc[v] = "set_previous" => pc'[v] = pc[v] /\ el'[v] = el[v]
        BY Zenon, <1>1 DEF Others
      <4> QED
        BY Zenon, <4>1, <4>2, <1>1 DEF BackOK
    <3> QED
      BY Zenon, <3>1, <3>2, <1>7
  <2>7. \A i \in 1..Len(linked') : BackOK(i)'
    <3> SUFFICES ASSUME NEW i \in 1..Len(linked') PROVE BackOK(i)'
      BY Zenon
    <3>1. i \in 1..(n + 1) /\ linked' = l
      BY Zenon, <1>5, <1>6
    <3>2. \/ previous'[linked'[i]] = Before(linked', i)
          \/ \E v \in Workers : pc'[v] = "set_previous" /\ el'[v] = linked'[i]
      BY Zenon, <3>1, <2>6
    <3>3. Before(linked, i)' = Before(linked', i)
      BY Zenon DEF Before
    <3> QED
      BY Zenon, <3>2, <3>3 DEF BackOK
  <2> QED
    <3>1. /\ remove_end'["containers"] # NULL => Len(linked') > 0 /\ remove_end'["containers"] = linked'[1]
          /\ \A v \in Workers : pc'[v] = "set_remove" => el'[v] = linked'[1]
      BY Zenon, <2>2, <2>3, <1>1, <1>5, <1>6
    <3>2. Len(linked') > 0 /\ remove_end'["containers"] = NULL =>
            \E v \in Workers : pc'[v] \in Linking \cup {"test_remove", "set_remove"} /\ el'[v] = linked'[1]
      BY Zenon, <2>5, <1>1, <1>5
    <3>3. remove_end'["pool"] = NULL
      BY Zenon, <2>f, <1>1 DEF Fresh
    <3> QED
      BY Zenon, <2>1, <2>4, <2>7, <3>1, <3>2, <3>3 DEF Fresh
<1> QED
  BY Zenon, <1>8, <1>12, <1>13, <1>19, <1>20, <1>21, Assemble

(* What the steps of a worker that is linking its struct have in common: w *)
(* owns place i of the list, and the list and the pool stay as they are.   *)
LEMMA OwnFacts ==
  ASSUME NEW P, Inv(P), NEW w \in Workers, left = -1, pc[w] \in Returning
  PROVE  /\ PoolList(P) /\ Readers(P) /\ TypeOK /\ Owned(P) /\ Counts(P) /\ Apart(P)
         /\ InUse /\ (clears = 0 => Fresh) /\ linked \in Seq(Structs) /\ Distinct(linked)
         /\ Len(linked) \in Nat
         /\ \E i \in 1..Len(linked) :
              /\ el[w] = linked[i] /\ linked[i] \in Structs
              /\ pc[w] \in Linking \cup {"test_remove"} => temp[w] = Before(linked, i)
         /\ \A s : ~ Holds(w, s)
         /\ pc[w] \notin Emptying /\ pc[w] \notin Taking /\ pc[w] \notin Taken
<1>1. /\ PoolList(P) /\ Readers(P) /\ TypeOK /\ Owned(P) /\ Counts(P) /\ Apart(P)
      /\ InUse /\ (clears = 0 => Fresh) /\ linked \in Seq(Structs) /\ Distinct(linked)
  BY Zenon DEF Inv, TypeOK, Owned
<1>2. Len(linked) \in Nat /\ \A i \in 1..Len(linked) : linked[i] \in Structs
  BY <1>1
<1>3. \E i \in 1..Len(linked) :
              /\ el[w] = linked[i] /\ linked[i] \in Structs
              /\ pc[w] \in Linking \cup {"test_remove"} => temp[w] = Before(linked, i)
  BY Zenon, <1>1, <1>2 DEF InUse, Own
<1>4. /\ \A s : ~ Holds(w, s)
      /\ pc[w] \notin Emptying /\ pc[w] \notin Taking /\ pc[w] \notin Taken
  BY Zenon DEF Returning, Holds, Taken, Ready, Emptying, Taking
<1> QED
  BY Zenon, <1>1, <1>2, <1>3, <1>4

(* The list of containers, when one link of it may have been set *)
LEMMA InUseLinks ==
  ASSUME InUse, NEW w \in Workers, Others(w), UNCHANGED linked,
         insert_end'["containers"] = insert_end["containers"],
         remove_end'["containers"] # NULL => remove_end'["containers"] \in Elems(linked),
         \A v \in Workers : v # w /\ pc[v] \in Blank => next'[el[v]] = next[el[v]],
         pc'[w] \notin Blank, pc'[w] \in Returning => Own(w)',
         \A i \in 1..Len(linked) : LinkOK(i)'
  PROVE  InUse'
<1>1. ASSUME NEW v \in Workers, pc'[v] \in Blank PROVE next'[el'[v]] = NULL
  <2>1. v # w /\ pc[v] \in Blank /\ el'[v] = el[v]
    BY Zenon, <1>1 DEF Others
  <2> QED
    BY Zenon, <2>1 DEF InUse
<1>2. ASSUME NEW v \in Workers, pc'[v] \in Returning PROVE Own(v)'
  <2>1. CASE v # w
    <3>1. pc'[v] = pc[v] /\ el'[v] = el[v] /\ temp'[v] = temp[v] /\ Own(v)
      BY Zenon, <1>2, <2>1 DEF Others, InUse
    <3> QED
      BY ZenonT(30), <3>1 DEF Own, Before
  <2> QED
    BY Zenon, <1>2, <2>1
<1>3. \A i \in 1..Len(linked') : LinkOK(i)'
  BY Zenon
<1> QED
  BY Zenon, <1>1, <1>2, <1>3 DEF InUse, Elems

(* enqueue: el->_previous = temp *)
LEMMA BackStep ==
  ASSUME NEW P, Inv(P), NEW w \in Workers, TypeOK', Others(w), left = -1, UNCHANGED clear, SetPrevious(w)
  PROVE  IInv'
<1>0. pc[w] = "set_previous" /\ pc[w] \in Returning /\ pc[w] \in Linking
  BY Zenon DEF SetPrevious, Goto, Returning, Linking
<1>p. /\ PoolList(P) /\ Readers(P) /\ TypeOK /\ Owned(P) /\ Counts(P) /\ Apart(P)
      /\ InUse /\ (clears = 0 => Fresh) /\ linked \in Seq(Structs) /\ Distinct(linked)
      /\ Len(linked) \in Nat
      /\ \A s : ~ Holds(w, s)
      /\ pc[w] \notin Emptying /\ pc[w] \notin Taking /\ pc[w] \notin Taken
  BY Zenon, <1>0, OwnFacts
<1>1. PICK i \in 1..Len(linked) : el[w] = linked[i] /\ linked[i] \in Structs /\ temp[w] = Before(linked, i)
  BY Zenon, <1>0, OwnFacts
<1>2. /\ pc'[w] = "link" /\ previous' = [previous EXCEPT ![el[w]] = temp[w]]
      /\ UNCHANGED <<remove_end, insert_end, n_elements, next, malloced, linked, el, temp, succ>>
  BY Zenon, <1>p DEF SetPrevious, Goto, TypeOK, ends, locals
<1>3. /\ pc'[w] \notin Taking /\ pc'[w] \notin Taken /\ pc'[w] \in Returning /\ pc'[w] \notin Blank
      /\ pc'[w] \in Linking /\ \A s : ~ Holds(w, s)'
  BY Zenon, <1>2 DEF Taking, Taken, Returning, Blank, Holds, Ready, Linking
<1>4. PoolList(P)' /\ Readers(P)'
  BY Zenon, <1>2, <1>3, <1>p, PoolKept
<1>5. Owned(P)'
  BY Zenon, <1>2, <1>3, <1>p, OwnedKept
<1>6. Counts(P)'
  BY Zenon, <1>0, <1>2, <1>3, <1>p, CountsKept
<1>7. Apart(P)'
  BY Zenon, <1>2, <1>p DEF Apart, Elems
<1>8. Own(w)'
  <2>1. Before(linked, i)' = Before(linked, i)
    BY Zenon, <1>2 DEF Before
  <2> QED
    BY Zenon, <1>1, <1>2, <2>1 DEF Own
<1>9. ASSUME NEW j \in 1..Len(linked) PROVE LinkOK(j)'
  <2>1. \A v \in Workers : pc[v] \in Linking => pc'[v] \in Linking /\ el'[v] = el[v]
    BY Zenon, <1>2, <1>3 DEF Others
  <2>2. LinkOK(j)
    BY Zenon, <1>p DEF InUse
  <2> QED
    BY Zenon, <1>2, <2>1, <2>2 DEF LinkOK
<1>10. InUse'
  <2>1. remove_end'["containers"] # NULL => remove_end'["containers"] \in Elems(linked)
    BY Zenon, <1>2, <1>p DEF InUse
  <2> QED
    BY Zenon, <1>2, <1>3, <1>8, <1>9, <1>p, <2>1, InUseLinks
<1>11. ASSUME Fresh PROVE Fresh'
  <2>1. previous'[el[w]] = temp[w] /\ \A s : s # el[w] => previous'[s] = previous[s]
    BY <1>1, <1>2, <1>p DEF TypeOK
  <2>2. \A v \in Workers : pc'[v] \notin Taking /\ pc'[v] \notin Taken
    BY Zenon, <1>3, <1>11 DEF Fresh, Others
  <2>3. \A v \in Workers : pc'[v] = "set_remove" => el'[v] = linked[1]
    BY Zenon, <1>2, <1>11 DEF Fresh, Others
  <2>4. ASSUME NEW v \in Workers, pc'[v] \in {"link", "test_remove"} PROVE previous'[el[v]] = temp[v]
    <3>1. CASE v = w
      BY Zenon, <3>1, <2>1
    <3>2. CASE v # w
      <4>1. pc[v] \in {"link", "test_remove"} /\ previous[el[v]] = temp[v]
        BY Zenon, <2>4, <3>2, <1>11 DEF Fresh, Others
      <4>2. PICK k \in 1..Len(linked) : el[v] = linked[k] /\ temp[v] = Before(linked, k)
        BY Zenon, <4>1, <1>p DEF InUse, Own, Returning, Linking
      <4>3. el[v] = el[w] => temp[v] = temp[w]
        BY Zenon, <4>2, <1>1, <1>p DEF Distinct
      <4> QED
        BY Zenon, <4>1, <4>3, <2>1
    <3> QED
      BY Zenon, <3>1, <3>2
  <2>5. Len(linked) > 0 /\ remove_end["containers"] = NULL =>
          \E v \in Workers : pc'[v] \in Linking \cup {"test_remove", "set_remove"} /\ el[v] = linked[1]
    <3>1. \A v \in Workers : pc[v] \in Linking \cup {"test_remove", "set_remove"} =>
                             pc'[v] \in Linking \cup {"test_remove", "set_remove"}
      BY Zenon, <1>3 DEF Others
    <3> QED
      BY Zenon, <3>1, <1>11 DEF Fresh
  <2>6. ASSUME NEW j \in 1..Len(linked) PROVE BackOK(j)'
    <3>1. BackOK(j) /\ Before(linked, j)' = Before(linked, j)
      BY Zenon, <1>2, <1>11 DEF Fresh, Before
    <3>2. CASE linked[j] = el[w]
      <4>1. j = i
        BY Zenon, <3>2, <1>1, <1>p DEF Distinct
      <4>2. previous'[linked[j]] = Before(linked, j)
        BY Zenon, <4>1, <1>1, <2>1
      <4> QED
        BY Zenon, <4>2, <3>1, <1>2 DEF BackOK
    <3>3. CASE linked[j] # el[w]
      <4>1. \A v \in Workers : pc[v] = "set_previous" /\ el[v] = linked[j] => pc'[v] = pc[v]
        BY Zenon, <3>3 DEF Others
      <4> QED
        BY Zenon, <3>1, <3>3, <4>1, <1>2, <2>1 DEF BackOK
    <3> QED
      BY Zenon, <3>2, <3>3
  <2>7. \A j \in 1..Len(linked') : BackOK(j)'
    BY Zenon, <1>2, <2>6
  <2> QED
    BY ZenonT(30), <1>2, <1>11, <2>2, <2>3, <2>4, <2>5, <2>7 DEF Fresh
<1> QED
  BY Zenon, <1>4, <1>5, <1>6, <1>7, <1>10, <1>11, <1>p, Assemble

(* enqueue: temp->_next = el *)
LEMMA LinkStep ==
  ASSUME NEW P, Inv(P), NEW w \in Workers, TypeOK', Others(w), left = -1, UNCHANGED clear, LinkNext(w)
  PROVE  IInv'
<1>0. pc[w] = "link" /\ pc[w] \in Returning /\ pc[w] \in Linking
  BY Zenon DEF LinkNext, Goto, Returning, Linking
<1>p. /\ PoolList(P) /\ Readers(P) /\ TypeOK /\ Owned(P) /\ Counts(P) /\ Apart(P)
      /\ InUse /\ (clears = 0 => Fresh) /\ linked \in Seq(Structs) /\ Distinct(linked)
      /\ Len(linked) \in Nat
      /\ \A s : ~ Holds(w, s)
      /\ pc[w] \notin Emptying /\ pc[w] \notin Taking /\ pc[w] \notin Taken
  BY Zenon, <1>0, OwnFacts
<1>1. PICK i \in 1..Len(linked) : el[w] = linked[i] /\ linked[i] \in Structs /\ temp[w] = Before(linked, i)
  BY Zenon, <1>0, OwnFacts
<1>2. /\ pc'[w] = "test_remove"
      /\ next' = IF temp[w] # NULL THEN [next EXCEPT ![temp[w]] = el[w]] ELSE next
      /\ UNCHANGED <<remove_end, insert_end, n_elements, previous, malloced, linked, el, temp, succ>>
  BY Zenon, <1>p DEF LinkNext, Goto, TypeOK, ends, locals
<1>3. /\ pc'[w] \notin Taking /\ pc'[w] \notin Taken /\ pc'[w] \in Returning /\ pc'[w] \notin Blank
      /\ \A s : ~ Holds(w, s)'
  BY Zenon, <1>2 DEF Taking, Taken, Returning, Blank, Holds, Ready
<1>n. /\ i # 1 => i - 1 \in 1..Len(linked) /\ (i - 1) + 1 = i /\ i - 1 # Len(linked)
      /\ \A j \in 1..Len(linked) : j < Len(linked) => j + 1 \in 1..Len(linked)
      /\ \A j \in 1..Len(linked) : j + 1 = i => i # 1 /\ j = i - 1
  BY <1>p
<1>4. \A s : s # temp[w] => next'[s] = next[s]
  BY <1>2, <1>p DEF TypeOK
<1>5. i # 1 => linked[i - 1] = temp[w] /\ next'[linked[i - 1]] = linked[i]
  <2>1. i # 1 => linked[i - 1] = temp[w] /\ linked[i - 1] \in Structs
    BY Zenon, <1>1, <1>n, <1>p, ElemsAt, ElemsOf DEF Before
  <2>2. i # 1 => temp[w] # NULL
    BY Zenon, <2>1, GenQueueAssumption
  <2> QED
    BY Zenon, <2>1, <2>2, <1>1, <1>2, <1>p DEF TypeOK
<1>6. \A s : s \notin Elems(linked) => next'[s] = next[s]
  <2>1. temp[w] = NULL \/ temp[w] \in Elems(linked)
    BY Zenon, <1>1, <1>n, ElemsAt DEF Before
  <2> QED
    BY Zenon, <2>1, <1>2, <1>4
<1>7. PoolList(P)' /\ Readers(P)'
  <2>1. \A s \in Elems(P) : next'[s] = next[s]
    BY Zenon, <1>6, <1>p DEF Apart
  <2> QED
    BY Zenon, <1>2, <1>3, <1>p, <2>1, PoolKept
<1>8. Owned(P)'
  BY Zenon, <1>2, <1>3, <1>p, OwnedKept
<1>9. Counts(P)'
  BY Zenon, <1>0, <1>2, <1>3, <1>p, CountsKept
<1>10. Apart(P)'
  BY Zenon, <1>2, <1>p DEF Apart, Elems
<1>11. Own(w)'
  <2>1. Before(linked, i)' = Before(linked, i)
    BY Zenon, <1>2 DEF Before
  <2> QED
    BY Zenon, <1>1, <1>2, <2>1 DEF Own
<1>12. ASSUME NEW j \in 1..Len(linked) PROVE LinkOK(j)'
  <2>1. CASE i # 1 /\ j = i - 1
    <3>1. next'[linked[j]] = linked[j + 1] /\ j # Len(linked)
      BY Zenon, <2>1, <1>5, <1>n
    <3> QED
      BY Zenon, <3>1, <1>2 DEF LinkOK
  <2>2. CASE i = 1 \/ j # i - 1
    <3>1. linked[j] # temp[w] \/ temp[w] = NULL
      BY Zenon, <2>2, <1>1, <1>5, <1>n, <1>p DEF Distinct, Before
    <3>2. next'[linked[j]] = next[linked[j]]
      BY Zenon, <3>1, <1>2, <1>4
    <3>3. ASSUME j < Len(linked), NEW v \in Workers, pc[v] \in Linking, el[v] = linked[j + 1]
          PROVE  pc'[v] \in Linking
      <4>1. j + 1 # i /\ j + 1 \in 1..Len(linked)
        BY Zenon, <3>3, <2>2, <1>n
      <4>2. v # w
        BY Zenon, <3>3, <4>1, <1>1, <1>p DEF Distinct
      <4> QED
        BY Zenon, <3>3, <4>2 DEF Others
    <3>4. LinkOK(j)
      BY Zenon, <1>p DEF InUse
    <3> QED
      BY Zenon, <3>2, <3>3, <3>4, <1>2 DEF LinkOK
  <2> QED
    BY Zenon, <2>1, <2>2
<1>13. InUse'
  <2>1. remove_end'["containers"] # NULL => remove_end'["containers"] \in Elems(linked)
    BY Zenon, <1>2, <1>p DEF InUse
  <2>2. \A v \in Workers : v # w /\ pc[v] \in Blank => next'[el[v]] = next[el[v]]
    <3>1. \A v \in Workers : pc[v] \in Blank => Holds(v, el[v])
      BY Zenon DEF Holds, Blank, Ready
    <3> QED
      BY Zenon, <3>1, <1>6, <1>p DEF Owned
  <2> QED
    BY Zenon, <1>2, <1>3, <1>11, <1>12, <1>p, <2>1, <2>2, InUseLinks
<1>14. ASSUME Fresh PROVE Fresh'
  <2>1. \A v \in Workers : pc'[v] \notin Taking /\ pc'[v] \notin Taken
    BY Zenon, <1>3, <1>14 DEF Fresh, Others
  <2>2. \A v \in Workers : pc'[v] = "set_remove" => el'[v] = linked[1]
    BY Zenon, <1>2, <1>14 DEF Fresh, Others
  <2>3. ASSUME NEW v \in Workers, pc'[v] \in {"link", "test_remove"} PROVE previous[el[v]] = temp[v]
    <3>1. pc[v] \in {"link", "test_remove"}
      BY Zenon, <2>3, <1>0 DEF Others
    <3> QED
      BY Zenon, <3>1, <1>14 DEF Fresh
  <2>4. Len(linked) > 0 /\ remove_end["containers"] = NULL =>
          \E v \in Workers : pc'[v] \in Linking \cup {"test_remove", "set_remove"} /\ el[v] = linked[1]
    <3>1. \A v \in Workers : pc[v] \in Linking \cup {"test_remove", "set_remove"} =>
                             pc'[v] \in Linking \cup {"test_remove", "set_remove"}
      BY Zenon, <1>2 DEF Others
    <3> QED
      BY Zenon, <3>1, <1>14 DEF Fresh
  <2>5. ASSUME NEW j \in 1..Len(linked') PROVE BackOK(j)'
    <3>1. BackOK(j) /\ Before(linked, j)' = Before(linked, j)
      BY Zenon, <1>2, <1>14, <2>5 DEF Fresh, Before
    <3>2. \A v \in Workers : pc[v] = "set_previous" => pc'[v] = pc[v]
      BY Zenon, <1>0 DEF Others
    <3> QED
      BY Zenon, <3>1, <3>2, <1>2 DEF BackOK
  <2> QED
    BY Zenon, <1>2, <1>14, <2>1, <2>2, <2>3, <2>4, <2>5 DEF Fresh
<1> QED
  BY Zenon, <1>7, <1>8, <1>9, <1>10, <1>13, <1>14, <1>p, Assemble

(* enqueue: the first container becomes the other end of the list. *)
LEMMA TestStep ==
  ASSUME NEW P, Inv(P), NEW w \in Workers, TypeOK', Others(w), left = -1, UNCHANGED clear, TestRemoveEnd(w)
  PROVE  IInv'
<1>0. pc[w] = "test_remove" /\ pc[w] \in Returning /\ pc[w] \notin Linking
  BY Zenon DEF TestRemoveEnd, Goto, Returning, Linking
<1>p. /\ PoolList(P) /\ Readers(P) /\ TypeOK /\ Owned(P) /\ Counts(P) /\ Apart(P)
      /\ InUse /\ (clears = 0 => Fresh) /\ linked \in Seq(Structs) /\ Distinct(linked)
      /\ Len(linked) \in Nat
      /\ \A s : ~ Holds(w, s)
      /\ pc[w] \notin Emptying /\ pc[w] \notin Taking /\ pc[w] \notin Taken
  BY Zenon, <1>0, OwnFacts
<1>1. PICK i \in 1..Len(linked) : el[w] = linked[i] /\ linked[i] \in Structs /\ temp[w] = Before(linked, i)
  BY Zenon, <1>0, OwnFacts
<1>2. PICK p \in {previous[el[w]], temp[w]} :
         pc'[w] = IF p = NULL /\ remove_end["containers"] = NULL THEN "set_remove" ELSE "inc"
  BY Zenon, <1>p DEF TestRemoveEnd, Goto, TypeOK
<1>3. UNCHANGED <<remove_end, insert_end, n_elements, next, previous, malloced, linked, el, temp, succ>>
  BY Zenon DEF TestRemoveEnd, ends, locals, fields
<1>4. /\ pc'[w] \notin Taking /\ pc'[w] \notin Taken /\ pc'[w] \in Returning /\ pc'[w] \notin Blank
      /\ pc'[w] \notin Linking \cup {"test_remove"} /\ pc'[w] \notin {"link", "test_remove"}
      /\ \A s : ~ Holds(w, s)'
  <2>1. pc'[w] \in {"set_remove", "inc"}
    BY Zenon, <1>2
  <2> QED
    BY Zenon, <2>1 DEF Taking, Taken, Returning, Blank, Holds, Ready, Linking
<1>5. PoolList(P)' /\ Readers(P)'
  BY Zenon, <1>3, <1>4, <1>p, PoolKept
<1>6. Owned(P)'
  BY Zenon, <1>3, <1>4, <1>p, OwnedKept
<1>7. Counts(P)'
  BY Zenon, <1>0, <1>3, <1>4, <1>p, CountsKept
<1>8. Apart(P)'
  BY Zenon, <1>3, <1>p DEF Apart, Elems
<1>9. Own(w)'
  BY Zenon, <1>1, <1>3, <1>4 DEF Own
<1>10. ASSUME NEW j \in 1..Len(linked) PROVE LinkOK(j)'
  <2>1. \A v \in Workers : pc[v] \in Linking => pc'[v] \in Linking /\ el'[v] = el[v]
    BY Zenon, <1>0, <1>3 DEF Others
  <2>2. LinkOK(j)
    BY Zenon, <1>p DEF InUse
  <2> QED
    BY Zenon, <1>3, <2>1, <2>2 DEF LinkOK
<1>11. InUse'
  <2>1. remove_end'["containers"] # NULL => remove_end'["containers"] \in Elems(linked)
    BY Zenon, <1>3, <1>p DEF InUse
  <2> QED
    BY ZenonT(30), <1>3, <1>4, <1>9, <1>10, <1>p, <2>1, InUseLinks
<1>12. ASSUME Fresh PROVE Fresh'
  <2>1. \A v \in Workers : pc'[v] \notin Taking /\ pc'[v] \notin Taken
    BY Zenon, <1>4, <1>12 DEF Fresh, Others
  <2>2. p = Before(linked, i)
    BY Zenon, <1>0, <1>1, <1>2, <1>12 DEF Fresh
  <2>3. p = NULL <=> i = 1
    <3>1. i # 1 => linked[i - 1] \in Structs
      BY <1>p
    <3> QED
      BY Zenon, <3>1, <2>2, GenQueueAssumption DEF Before
  <2>4. ASSUME NEW v \in Workers, pc'[v] = "set_remove" PROVE el[v] = linked[1]
    <3>1. CASE v = w
      BY Zenon, <2>3, <2>4, <3>1, <1>1, <1>2
    <3>2. CASE v # w
      BY Zenon, <2>4, <3>2, <1>12 DEF Fresh, Others
    <3> QED
      BY Zenon, <3>1, <3>2
  <2>5. \A v \in Workers : pc'[v] \in {"link", "test_remove"} => previous[el[v]] = temp[v]
    BY Zenon, <1>4, <1>12 DEF Fresh, Others
  <2>6. ASSUME Len(linked) > 0, remove_end["containers"] = NULL
        PROVE  \E v \in Workers : pc'[v] \in Linking \cup {"test_remove", "set_remove"} /\ el[v] = linked[1]
    <3>1. PICK v \in Workers : pc[v] \in Linking \cup {"test_remove", "set_remove"} /\ el[v] = linked[1]
      BY Zenon, <2>6, <1>12 DEF Fresh
    <3>2. CASE v = w
      <4>0. 1 \in 1..Len(linked)
        BY <2>6, <1>p
      <4>1. i = 1
        BY Zenon, <3>1, <3>2, <4>0, <1>1, <1>p DEF Distinct
      <4>2. pc'[w] = "set_remove"
        BY Zenon, <4>1, <2>3, <2>6, <1>2
      <4> QED
        BY Zenon, <3>1, <3>2, <4>2
    <3>3. CASE v # w
      BY Zenon, <3>1, <3>3 DEF Others
    <3> QED
      BY Zenon, <3>2, <3>3
  <2>7. ASSUME NEW j \in 1..Len(linked') PROVE BackOK(j)'
    <3>1. BackOK(j) /\ Before(linked, j)' = Before(linked, j)
      BY Zenon, <1>3, <1>12, <2>7 DEF Fresh, Before
    <3>2. \A v \in Workers : pc[v] = "set_previous" => pc'[v] = pc[v]
      BY ZenonT(30), <1>0 DEF Others
    <3> QED
      BY Zenon, <3>1, <3>2, <1>3 DEF BackOK
  <2> QED
    BY Zenon, <1>3, <1>12, <2>1, <2>4, <2>5, <2>6, <2>7 DEF Fresh
<1> QED
  BY Zenon, <1>5, <1>6, <1>7, <1>8, <1>11, <1>12, <1>p, Assemble

(* set_remove_end: the first container becomes the head. *)
LEMMA SetStep ==
  ASSUME NEW P, Inv(P), NEW w \in Workers, TypeOK', Others(w), left = -1, UNCHANGED clear, SetRemoveEnd(w)
  PROVE  IInv'
<1>0. pc[w] = "set_remove" /\ pc[w] \in Returning /\ pc[w] \notin Linking
  BY Zenon DEF SetRemoveEnd, Goto, Returning, Linking
<1>p. /\ PoolList(P) /\ Readers(P) /\ TypeOK /\ Owned(P) /\ Counts(P) /\ Apart(P)
      /\ InUse /\ (clears = 0 => Fresh) /\ linked \in Seq(Structs) /\ Distinct(linked)
      /\ Len(linked) \in Nat
      /\ \A s : ~ Holds(w, s)
      /\ pc[w] \notin Emptying /\ pc[w] \notin Taking /\ pc[w] \notin Taken
  BY Zenon, <1>0, OwnFacts
<1>1. PICK i \in 1..Len(linked) : el[w] = linked[i] /\ linked[i] \in Structs
  BY Zenon, <1>0, OwnFacts
<1>2. /\ pc'[w] = "inc" /\ remove_end' = [remove_end EXCEPT !["containers"] = el[w]]
      /\ UNCHANGED <<insert_end, n_elements, next, previous, malloced, linked, el, temp, succ>>
  BY Zenon, <1>p DEF SetRemoveEnd, Goto, TypeOK, locals, fields
<1>3. remove_end'["pool"] = remove_end["pool"] /\ remove_end'["containers"] = el[w]
  BY <1>2, <1>p DEF TypeOK, Queues
<1>4. /\ pc'[w] \notin Taking /\ pc'[w] \notin Taken /\ pc'[w] \in Returning /\ pc'[w] \notin Blank
      /\ pc'[w] \notin Linking \cup {"test_remove"}
      /\ \A s : ~ Holds(w, s)'
  BY Zenon, <1>2 DEF Taking, Taken, Returning, Blank, Holds, Ready, Linking
<1>5. PoolList(P)' /\ Readers(P)'
  BY Zenon, <1>2, <1>3, <1>4, <1>p, PoolKept
<1>6. Owned(P)'
  BY Zenon, <1>2, <1>4, <1>p, OwnedKept
<1>7. Counts(P)'
  BY Zenon, <1>0, <1>2, <1>4, <1>p, CountsKept
<1>8. Apart(P)'
  BY Zenon, <1>2, <1>p DEF Apart, Elems
<1>9. Own(w)'
  BY Zenon, <1>1, <1>2, <1>4 DEF Own
<1>10. ASSUME NEW j \in 1..Len(linked) PROVE LinkOK(j)'
  <2>1. \A v \in Workers : pc[v] \in Linking => pc'[v] \in Linking /\ el'[v] = el[v]
    BY Zenon, <1>0, <1>2 DEF Others
  <2>2. LinkOK(j)
    BY Zenon, <1>p DEF InUse
  <2> QED
    BY Zenon, <1>2, <2>1, <2>2 DEF LinkOK
<1>11. InUse'
  <2>1. remove_end'["containers"] \in Elems(linked)
    BY Zenon, <1>1, <1>3, ElemsAt
  <2> QED
    BY Zenon, <1>2, <1>4, <1>9, <1>10, <1>p, <2>1, InUseLinks
<1>12. ASSUME Fresh PROVE Fresh'
  <2>1. \A v \in Workers : pc'[v] \notin Taking /\ pc'[v] \notin Taken
    BY Zenon, <1>4, <1>12 DEF Fresh, Others
  <2>2. Len(linked) > 0
    BY <1>p
  <2>3. remove_end'["containers"] = linked[1] /\ remove_end'["containers"] # NULL
    BY Zenon, <1>0, <1>1, <1>3, <1>12, GenQueueAssumption DEF Fresh
  <2>4. \A v \in Workers : pc'[v] = "set_remove" => el[v] = linked[1]
    BY Zenon, <1>2, <1>12 DEF Fresh, Others
  <2>5. \A v \in Workers : pc'[v] \in {"link", "test_remove"} => previous[el[v]] = temp[v]
    BY Zenon, <1>2, <1>12 DEF Fresh, Others
  <2>6. ASSUME NEW j \in 1..Len(linked') PROVE BackOK(j)'
    <3>1. BackOK(j) /\ Before(linked, j)' = Before(linked, j)
      BY Zenon, <1>2, <1>12, <2>6 DEF Fresh, Before
    <3>2. \A v \in Workers : pc[v] = "set_previous" => pc'[v] = pc[v]
      BY Zenon, <1>0 DEF Others
    <3> QED
      BY Zenon, <3>1, <3>2, <1>2 DEF BackOK
  <2> QED
    BY Zenon, <1>2, <1>3, <1>12, <2>1, <2>2, <2>3, <2>4, <2>5, <2>6 DEF Fresh
<1> QED
  BY Zenon, <1>5, <1>6, <1>7, <1>8, <1>11, <1>12, <1>p, Assemble

(* push_container returns. *)
LEMMA IncStep ==
  ASSUME NEW P, Inv(P), NEW w \in Workers, TypeOK', Others(w), left = -1, UNCHANGED clear, Inc(w)
  PROVE  IInv'
<1>0. pc[w] = "inc" /\ pc[w] \in Returning /\ pc[w] \notin Linking
  BY Zenon DEF Inc, Goto, Returning, Linking
<1>p. /\ PoolList(P) /\ Readers(P) /\ TypeOK /\ Owned(P) /\ Counts(P) /\ Apart(P)
      /\ InUse /\ (clears = 0 => Fresh) /\ linked \in Seq(Structs) /\ Distinct(linked)
      /\ Len(linked) \in Nat
      /\ \A s : ~ Holds(w, s)
      /\ pc[w] \notin Emptying /\ pc[w] \notin Taking /\ pc[w] \notin Taken
  BY Zenon, <1>0, OwnFacts
<1>2. /\ pc'[w] = "idle" /\ n_elements' = [n_elements EXCEPT !["containers"] = @ + 1]
      /\ UNCHANGED <<remove_end, insert_end, next, previous, malloced, linked>>
  BY Zenon, <1>p DEF Inc, Goto, TypeOK, fields
<1>3. /\ n_elements'["pool"] = n_elements["pool"] /\ n_elements["containers"] \in Int
      /\ n_elements'["containers"] = n_elements["containers"] + 1
  BY <1>2, <1>p DEF TypeOK, Queues
<1>4. /\ pc'[w] \notin Taking /\ pc'[w] \notin Taken /\ pc'[w] \notin Returning /\ pc'[w] \notin Blank
      /\ \A s : ~ Holds(w, s)'
  BY Zenon, <1>2 DEF Taking, Taken, Returning, Blank, Holds, Ready
<1>5. PoolList(P)' /\ Readers(P)'
  BY Zenon, <1>2, <1>4, <1>p, PoolKept
<1>6. Owned(P)'
  BY Zenon, <1>2, <1>4, <1>p, OwnedKept
<1>7. Counts(P)'
  <2>1. \A v \in Workers : v # w => pc'[v] = pc[v]
    BY Zenon DEF Others
  <2>2. PICK k \in Nat : /\ k = Cardinality({v \in Workers : pc[v] \in Returning})
                         /\ Cardinality({v \in Workers : pc'[v] \in Returning}) = k - 1
    BY Zenon, <2>1, <1>0, <1>4, OneCounts
  <2>3. Cardinality({v \in Workers : pc'[v] \in Taken}) = Cardinality({v \in Workers : pc[v] \in Taken})
    BY Zenon, <2>1, <1>4, <1>p, OneCounts
  <2>4. PICK m \in Int : m = n_elements["containers"]
    BY Zenon, <1>3
  <2>5. m + k = (m + 1) + (k - 1)
    BY <2>2, <2>4
  <2> QED
    BY Zenon, <2>2, <2>3, <2>4, <2>5, <1>2, <1>3, <1>p DEF Counts
<1>8. Apart(P)'
  BY Zenon, <1>2, <1>p DEF Apart, Elems
<1>9. \A v \in Workers : pc[v] \in Linking \cup {"set_remove", "test_remove"} =>
                         v # w /\ pc'[v] = pc[v] /\ el'[v] = el[v] /\ temp'[v] = temp[v]
  BY Zenon, <1>0 DEF Others, Linking
<1>10. ASSUME NEW j \in 1..Len(linked) PROVE LinkOK(j)'
  <2>1. LinkOK(j)
    BY Zenon, <1>p DEF InUse
  <2> QED
    BY Zenon, <1>2, <1>9, <2>1 DEF LinkOK
<1>11. InUse'
  <2>1. remove_end'["containers"] # NULL => remove_end'["containers"] \in Elems(linked)
    BY Zenon, <1>2, <1>p DEF InUse
  <2> QED
    BY Zenon, <1>2, <1>4, <1>10, <1>p, <2>1, InUseLinks
<1>12. ASSUME Fresh PROVE Fresh'
  <2>1. \A v \in Workers : pc'[v] \notin Taking /\ pc'[v] \notin Taken
    BY Zenon, <1>4, <1>12 DEF Fresh, Others
  <2>2. \A v \in Workers : pc'[v] = "set_remove" => el'[v] = linked[1]
    BY ZenonT(30), <1>2, <1>12 DEF Fresh, Others
  <2>3. ASSUME NEW v \in Workers, pc'[v] \in {"link", "test_remove"} PROVE previous[el'[v]] = temp'[v]
    <3>1. v # w
      BY Zenon, <2>3, <1>2
    <3> QED
      BY Zenon, <2>3, <3>1, <1>12 DEF Fresh, Others
  <2>4. Len(linked) > 0 /\ remove_end["containers"] = NULL =>
          \E v \in Workers : pc'[v] \in Linking \cup {"test_remove", "set_remove"} /\ el'[v] = linked[1]
    BY Zenon, <1>9, <1>12 DEF Fresh
  <2>5. ASSUME NEW j \in 1..Len(linked') PROVE BackOK(j)'
    <3>1. BackOK(j) /\ Before(linked, j)' = Before(linked, j)
      BY Zenon, <1>2, <1>12, <2>5 DEF Fresh, Before
    <3> QED
      BY Zenon, <3>1, <1>2, <1>9 DEF BackOK, Linking
  <2> QED
    BY Zenon, <1>2, <1>12, <2>1, <2>2, <2>3, <2>4, <2>5 DEF Fresh
<1> QED
  BY Zenon, <1>5, <1>6, <1>7, <1>8, <1>11, <1>12, <1>p, Assemble

-----------------------------------------------------------------------------
(* Steps of a full collection *)

(* A full collection begins: the walk starts at the head of _containers. *)
LEMMA BeginStep == ASSUME NEW P, Inv(P), BeginClear PROVE IInv'
<1>p. /\ PoolList(P) /\ Readers(P) /\ TypeOK /\ Owned(P) /\ Counts(P) /\ Apart(P) /\ InUse
      /\ P \in Seq(Structs) /\ linked \in Seq(Structs) /\ Quiet
  BY Zenon DEF Inv, BeginClear, PoolList, TypeOK
<1>1. /\ UNCHANGED <<insert_end, remove_end, n_elements, next, previous, el, temp, succ, pc, malloced, linked>>
      /\ cursor' = remove_end["containers"] /\ left' = n_elements["containers"] /\ clears' = clears + 1
      /\ clears < MaxClears
  BY Zenon DEF BeginClear, ends, fields, locals
<1>2. PICK n \in Nat : n = Len(linked)
  BY <1>p
<1>3. left' = n
  <2>1. Cardinality({w \in Workers : pc[w] \in Returning}) = 0
    BY Zenon, <1>p, NobodyCounts
  <2>2. n_elements["containers"] \in Int
    BY <1>p DEF TypeOK, Queues
  <2>3. n_elements["containers"] + 0 = n
    BY Zenon, <2>1, <1>2, <1>p DEF Counts
  <2> QED
    BY <2>2, <2>3, <1>1
<1>4. left' # -1 /\ left' \in Int /\ left' \in 0..n /\ clears' > 0 /\ clears' # 0 /\ clears' \in 0..MaxClears
  BY <1>1, <1>2, <1>3, <1>p, GenQueueAssumption DEF TypeOK
<1>5. TypeOK'
  <2>1. remove_end["containers"] \in StructOrNull
    BY <1>p DEF TypeOK, Queues
  <2> QED
    BY Zenon, <1>1, <1>4, <1>p, <2>1 DEF TypeOK
<1>6. PoolList(P)' /\ Readers(P)'
  BY Zenon, <1>1, <1>p DEF PoolList, Readers, ReaderOK, Chained
<1>7. Owned(P)'
  <2>1. Elems(linked)' = Elems(linked)
    BY Zenon, <1>1 DEF Elems
  <2>2. Distinct(linked)'
    BY Zenon, <1>1, <1>p DEF Distinct, Owned
  <2>3. \A w \in Workers : \A s : Holds(w, s)' <=> Holds(w, s)
    BY Zenon, <1>1 DEF Holds
  <2>4. \A s : s \in malloced' <=> \/ s \in Elems(P) \/ s \in Elems(linked)
                                   \/ \E v \in Workers : Holds(v, s)'
    BY Zenon, <1>1, <2>3, <1>p DEF Owned
  <2>5. /\ \A v \in Workers : \A s : Holds(v, s)' => s \notin Elems(P) /\ s \notin Elems(linked)
        /\ \A v, u \in Workers : \A s : Holds(v, s)' /\ Holds(u, s)' => v = u
    BY Zenon, <2>3, <1>p DEF Owned
  <2> QED
    BY Zenon, <2>1, <2>2, <2>4, <2>5 DEF Owned, Elems
<1>8. Counts(P)'
  BY Zenon, <1>1, <1>p DEF Counts
<1>9. \A i \in 1..n : next[linked[i]] = IF i = n THEN NULL ELSE linked[i + 1]
  <2>1. \A w \in Workers : pc[w] \notin Linking
    BY Zenon, <1>p DEF Quiet, Linking
  <2> QED
    BY Zenon, <2>1, <1>2, <1>p DEF InUse, LinkOK
<1>10. \A i \in 1..n : linked[i] \notin Elems(P)
  BY Zenon, <1>2, <1>p, ElemsAt DEF Apart
<1>11. PICK j \in 1..(n + 1) : cursor' = IF j > n THEN NULL ELSE linked[j]
  <2>1. CASE remove_end["containers"] = NULL
    <3>1. n + 1 \in 1..(n + 1) /\ n + 1 > n
      BY <1>2
    <3> QED
      BY Zenon, <2>1, <3>1, <1>1
  <2>2. CASE remove_end["containers"] # NULL
    <3>1. PICK j \in 1..n : remove_end["containers"] = linked[j]
      BY Zenon, <2>2, <1>2, <1>p DEF InUse, Elems
    <3>2. j \in 1..(n + 1) /\ ~ (j > n)
      BY <1>2
    <3> QED
      BY Zenon, <3>1, <3>2, <1>1
  <2> QED
    BY Zenon, <2>1, <2>2
<1>12. n + j > n /\ (\A i \in j..n : i \in 1..n) /\ ((n + j) - n)..(j - 1) = {}
  BY <1>2
<1>13. Quiet'
  BY Zenon, <1>1, <1>p DEF Quiet
<1>14. Clearing(P)'
  <2>1. /\ j \in 1..(Len(linked') + 1) /\ cursor' = IF j > Len(linked') THEN NULL ELSE linked'[j]
        /\ left' \in 0..Len(linked') /\ left' + j > Len(linked')
    BY Zenon, <1>1, <1>2, <1>3, <1>4, <1>11, <1>12
  <2>2. \A i \in j..Len(linked') :
            /\ next'[linked'[i]] = IF i = Len(linked') THEN NULL ELSE linked'[i + 1]
            /\ linked'[i] \notin Elems(P)
    BY Zenon, <1>1, <1>2, <1>9, <1>10, <1>12
  <2>3. \A i \in (left' + j - Len(linked'))..(j - 1) : linked'[i] \in Elems(P)
    <3>1. Len(linked') = n /\ left' + j - Len(linked') = (n + j) - n
      BY <1>1, <1>2, <1>3
    <3> QED
      BY Zenon, <3>1, <1>12
  <2> QED
    BY Zenon, <1>4, <1>13, <2>1, <2>2, <2>3 DEF Clearing, Elems
<1> QED
  BY Zenon, <1>4, <1>5, <1>6, <1>7, <1>8, <1>14, <1>p DEF IInv, Inv

(* One container goes from the list to the end of the pool. *)
LEMMA ClearStep == ASSUME NEW P, Inv(P), ClearOne PROVE IInv'
<1>0. left > 0 /\ cursor # NULL /\ left # -1
  <2>1. left \in Int
    BY Zenon DEF Inv, TypeOK
  <2> QED
    BY <2>1 DEF ClearOne
<1>p. /\ PoolList(P) /\ TypeOK /\ Owned(P) /\ Counts(P) /\ Clearing(P) /\ Quiet
      /\ P \in Seq(Structs) /\ Distinct(P) /\ Chained(next, P) /\ linked \in Seq(Structs) /\ Distinct(linked)
      /\ clears > 0 /\ clears # 0
  <2>1. PoolList(P) /\ TypeOK /\ Owned(P) /\ Counts(P) /\ Clearing(P)
    BY Zenon, <1>0 DEF Inv
  <2>2. clears > 0 => clears # 0
    OBVIOUS
  <2> QED
    BY Zenon, <2>1, <2>2 DEF PoolList, TypeOK, Owned, Clearing
<1>1. PICK n \in Nat, m \in Nat : n = Len(linked) /\ m = Len(P)
  BY <1>p
<1>2. PICK j \in 1..(n + 1) :
       /\ cursor = IF j > n THEN NULL ELSE linked[j]
       /\ \A i \in j..n : /\ next[linked[i]] = IF i = n THEN NULL ELSE linked[i + 1]
                          /\ linked[i] \notin Elems(P)
       /\ left \in 0..n /\ left + j > n
       /\ \A i \in (left + j - n)..(j - 1) : linked[i] \in Elems(P)
  BY Zenon, <1>1, <1>p DEF Clearing
<1>3. /\ j \in 1..n /\ j \in j..n /\ ~ (j > n) /\ j + 1 \in 1..(n + 1) /\ (j + 1 > n <=> j = n)
      /\ left - 1 \in 0..n /\ left - 1 # -1 /\ left - 1 \in Int
      /\ (left - 1) + (j + 1) = left + j /\ (j + 1) - 1 = j
      /\ \A i \in (j + 1)..n : i \in j..n /\ i \in 1..n /\ i # j
  <2>1. ~ (j > n)
    BY Zenon, <1>0, <1>2
  <2> QED
    BY <1>0, <1>1, <1>2, <2>1
<1>c. PICK c : c = cursor
  BY Zenon
<1>4. c = linked[j] /\ c \in Structs /\ c \notin Elems(P) /\ c \in Elems(linked) /\ c # NULL
      /\ next[c] = IF j = n THEN NULL ELSE linked[j + 1]
  <2>1. linked[j] \in Structs
    BY <1>1, <1>3, <1>p
  <2>2. c = linked[j] /\ linked[j] \in Elems(linked)
    BY Zenon, <1>1, <1>2, <1>3, <1>c, ElemsAt
  <2> QED
    BY Zenon, <2>1, <2>2, <1>2, <1>3, GenQueueAssumption
<1>e. PICK e : e = insert_end["pool"]
  BY Zenon
<1>5. e = IF m = 0 THEN NULL ELSE P[m]
  <2>1. \A w \in Workers : pc[w] \notin Emptying
    BY Zenon, <1>p DEF Quiet, Emptying
  <2> QED
    BY Zenon, <2>1, <1>1, <1>e, <1>p DEF PoolList
<1>6. m # 0 => e \in Structs /\ e # NULL /\ e \in Elems(P) /\ e # c
  <2>1. m # 0 => m \in 1..m /\ P[m] \in Structs
    BY <1>1, <1>p
  <2> QED
    BY Zenon, <2>1, <1>1, <1>4, <1>5, ElemsAt, GenQueueAssumption
<1>7. /\ insert_end' = [insert_end EXCEPT !["pool"] = c]
      /\ previous' = [previous EXCEPT ![c] = e]
      /\ next' = IF e # NULL THEN [[next EXCEPT ![c] = NULL] EXCEPT ![e] = c] ELSE [next EXCEPT ![c] = NULL]
      /\ remove_end' = IF e = NULL /\ remove_end["pool"] = NULL
                         THEN [remove_end EXCEPT !["pool"] = c] ELSE remove_end
      /\ n_elements' = [n_elements EXCEPT !["pool"] = @ + 1]
      /\ cursor' = next[c] /\ left' = left - 1
      /\ UNCHANGED <<el, temp, succ, pc, malloced, linked, clears>>
  BY Zenon, <1>c, <1>e DEF ClearOne, locals
<1>8. /\ insert_end'["pool"] = c /\ n_elements'["pool"] = n_elements["pool"] + 1
      /\ n_elements'["containers"] = n_elements["containers"]
      /\ remove_end'["pool"] = IF m = 0 THEN c ELSE remove_end["pool"]
  <2>1. insert_end'["pool"] = c
    BY Zenon, <1>7, <1>p DEF TypeOK, Queues
  <2>2. /\ n_elements'["pool"] = n_elements["pool"] + 1
        /\ n_elements'["containers"] = n_elements["containers"]
    BY <1>7, <1>p DEF TypeOK, Queues
  <2>3. CASE m = 0
    <3>1. e = NULL /\ remove_end["pool"] = NULL
      BY Zenon, <2>3, <1>1, <1>5, <1>p DEF PoolList
    <3>2. remove_end'["pool"] = c
      BY Zenon, <3>1, <1>7, <1>p DEF TypeOK, Queues
    <3> QED
      BY Zenon, <2>1, <2>2, <2>3, <3>2
  <2>4. CASE m # 0
    BY Zenon, <2>1, <2>2, <2>4, <1>6, <1>7
  <2> QED
    BY Zenon, <2>3, <2>4
<1>9. /\ next'[c] = NULL /\ (m # 0 => next'[e] = c)
      /\ \A s \in Structs : s # c /\ (m # 0 => s # e) => next'[s] = next[s]
  <2>1. CASE m = 0
    <3>1. next' = [next EXCEPT ![c] = NULL]
      BY Zenon, <2>1, <1>5, <1>7
    <3> QED
      BY Zenon, <2>1, <3>1, <1>4, <1>p DEF TypeOK
  <2>2. CASE m # 0
    <3>1. PICK f : f = [next EXCEPT ![c] = NULL]
      BY Zenon
    <3>2. DOMAIN f = Structs /\ f[c] = NULL /\ \A s \in Structs : s # c => f[s] = next[s]
      BY Zenon, <3>1, <1>4, <1>p DEF TypeOK
    <3>3. next' = [f EXCEPT ![e] = c]
      BY Zenon, <2>2, <3>1, <1>6, <1>7
    <3>4. next'[e] = c /\ \A s \in Structs : s # e => next'[s] = f[s]
      BY Zenon, <3>2, <3>3, <2>2, <1>6
    <3> QED
      BY Zenon, <2>2, <3>2, <3>4, <1>4, <1>6
  <2> QED
    BY Zenon, <2>1, <2>2
<1>10. PICK Q : Q = Append(P, c)
  BY Zenon
<1>11. /\ Q \in Seq(Structs) /\ Len(Q) = m + 1 /\ Q[m + 1] = c
       /\ (\A i \in 1..m : Q[i] = P[i]) /\ Distinct(Q)
       /\ \A y : y \in Elems(Q) <=> y \in Elems(P) \/ y = c
  <2>1. LET t == Append(P, c)
        IN  /\ t \in Seq(Structs) /\ Len(t) = Len(P) + 1 /\ t[Len(P) + 1] = c
            /\ (\A i \in 1..Len(P) : t[i] = P[i]) /\ Distinct(t)
            /\ \A y : y \in Elems(t) <=> y \in Elems(P) \/ y = c
    BY Zenon, <1>4, <1>p, AppendList
  <2> QED
    BY Zenon, <1>1, <1>10, <2>1
<1>12. /\ \A i \in 1..(m + 1) : i \in 1..m \/ i = m + 1
       /\ \A i \in 1..m : i # m + 1 /\ (i # m => i + 1 \in 1..m)
       /\ m # 0 => m \in 1..m /\ 1 \in 1..m
       /\ m = 0 => m + 1 = 1
       /\ \A i \in 1..m : m # 0
       /\ m + 1 # 0
  BY <1>1
<1>13. ASSUME NEW i \in 1..(m + 1) PROVE next'[Q[i]] = IF i = m + 1 THEN NULL ELSE Q[i + 1]
  <2>1. CASE i = m + 1
    BY Zenon, <2>1, <1>9, <1>11
  <2>2. CASE i \in 1..m /\ i = m
    BY Zenon, <2>2, <1>5, <1>9, <1>11, <1>12
  <2>3. CASE i \in 1..m /\ i # m
    <3>1. P[i] \in Structs
      BY <2>3, <1>1, <1>p
    <3>2. P[i] # c /\ P[i] # e /\ next[P[i]] = P[i + 1]
      BY ZenonT(30), <2>3, <1>1, <1>4, <1>5, <1>12, <1>p, ElemsAt DEF Distinct, Chained
    <3> QED
      BY ZenonT(30), <2>3, <3>1, <3>2, <1>9, <1>11, <1>12
  <2> QED
    BY Zenon, <2>1, <2>2, <2>3, <1>12
<1>14. PoolList(Q)'
  <2>1. Chained(next, Q)'
    BY Zenon, <1>11, <1>13 DEF Chained
  <2>2. remove_end'["pool"] = Q[1]
    <3>1. CASE m = 0
      BY Zenon, <3>1, <1>8, <1>11, <1>12
    <3>2. CASE m # 0
      BY Zenon, <3>2, <1>1, <1>8, <1>11, <1>12, <1>p DEF PoolList
    <3> QED
      BY Zenon, <3>1, <3>2
  <2> QED
    BY Zenon, <2>1, <2>2, <1>8, <1>11, <1>12 DEF PoolList
<1>15. Quiet' /\ Readers(Q)' /\ \A w \in Workers : \A s : ~ Holds(w, s) /\ ~ Holds(w, s)'
  BY Zenon, <1>7, <1>p DEF Quiet, Readers, Taking, Holds, Taken, Ready
<1>16. Owned(Q)'
  <2>1. Elems(linked)' = Elems(linked)
    BY Zenon, <1>7 DEF Elems
  <2>2. Distinct(linked)'
    BY Zenon, <1>7, <1>p DEF Distinct
  <2>3. \A s : s \in malloced <=> s \in Elems(Q) \/ s \in Elems(linked)
    BY Zenon, <1>4, <1>11, <1>15, <1>p DEF Owned
  <2> QED
    BY Zenon, <1>7, <1>15, <2>1, <2>2, <2>3 DEF Owned, Elems
<1>17. Counts(Q)'
  <2>1. /\ Cardinality({w \in Workers : pc[w] \in Taken}) = 0
        /\ Cardinality({w \in Workers : pc[w] \in Returning}) = 0
    BY Zenon, <1>p, NobodyCounts
  <2>2. (m + 0) + 1 = (m + 1) + 0
    BY <1>1
  <2> QED
    BY ZenonT(30), <2>1, <2>2, <1>1, <1>7, <1>8, <1>11, <1>p DEF Counts
<1>18. ASSUME NEW i \in (j + 1)..n
       PROVE  /\ next'[linked[i]] = IF i = n THEN NULL ELSE linked[i + 1]
              /\ linked[i] \notin Elems(Q)
  <2>1. i \in j..n /\ i \in 1..n /\ i # j
    BY Zenon, <1>3
  <2>2. linked[i] \in Structs
    BY <2>1, <1>1, <1>p
  <2>3. linked[i] # c /\ linked[i] \notin Elems(P)
    BY Zenon, <2>1, <1>1, <1>2, <1>3, <1>4, <1>p DEF Distinct
  <2> QED
    BY ZenonT(30), <2>1, <2>2, <2>3, <1>2, <1>6, <1>9, <1>11
<1>19. Clearing(Q)'
  <2>1. cursor' = IF j + 1 > n THEN NULL ELSE linked[j + 1]
    BY Zenon, <1>3, <1>4, <1>7
  <2>2. \A i \in (left' + (j + 1) - n)..((j + 1) - 1) : linked[i] \in Elems(Q)
    <3>0. left' + (j + 1) - n = left + j - n /\ (j + 1) - 1 = j
      BY <1>1, <1>2, <1>7
    <3> SUFFICES ASSUME NEW i \in (left + j - n)..j PROVE linked[i] \in Elems(Q)
      BY Zenon, <3>0
    <3>1. i = j \/ i \in (left + j - n)..(j - 1)
      BY <1>1, <1>2
    <3> QED
      BY Zenon, <3>1, <1>2, <1>4, <1>11
  <2>3. left' \in 0..n /\ left' + (j + 1) > n
    BY Zenon, <1>2, <1>3, <1>7
  <2>4. /\ j + 1 \in 1..(Len(linked') + 1) /\ cursor' = IF j + 1 > Len(linked') THEN NULL ELSE linked'[j + 1]
        /\ left' \in 0..Len(linked') /\ left' + (j + 1) > Len(linked')
    BY Zenon, <2>1, <2>3, <1>1, <1>3, <1>7
  <2>5. \A i \in (j + 1)..Len(linked') :
            /\ next'[linked'[i]] = IF i = Len(linked') THEN NULL ELSE linked'[i + 1]
            /\ linked'[i] \notin Elems(Q)
    BY Zenon, <1>1, <1>7, <1>18
  <2>6. \A i \in (left' + (j + 1) - Len(linked'))..((j + 1) - 1) : linked'[i] \in Elems(Q)
    BY Zenon, <1>1, <1>7, <2>2
  <2> QED
    BY ZenonT(30), <1>7, <1>p, <1>15, <2>4, <2>5, <2>6 DEF Clearing, Elems
<1>20. TypeOK'
  <2>1. insert_end' \in [Queues -> StructOrNull] /\ previous' \in [Structs -> StructOrNull]
    <3>1. e \in StructOrNull /\ c \in StructOrNull
      BY Zenon, <1>4, <1>5, <1>6 DEF StructOrNull
    <3> QED
      BY Zenon, <3>1, <1>7, <1>p DEF TypeOK
  <2>2. next' \in [Structs -> StructOrNull]
    <3>1. [next EXCEPT ![c] = NULL] \in [Structs -> StructOrNull]
      BY Zenon, <1>p DEF TypeOK, StructOrNull
    <3>2. c \in StructOrNull
      BY Zenon, <1>4 DEF StructOrNull
    <3>3. PICK f \in [Structs -> StructOrNull] : f = [next EXCEPT ![c] = NULL]
      BY Zenon, <3>1
    <3>4. next' = f \/ next' = [f EXCEPT ![e] = c]
      BY Zenon, <3>3, <1>7
    <3> QED
      BY Zenon, <3>2, <3>4
  <2>3. remove_end' \in [Queues -> StructOrNull]
    <3>1. c \in StructOrNull
      BY Zenon, <1>4 DEF StructOrNull
    <3> QED
      BY ZenonT(30), <3>1, <1>7, <1>p DEF TypeOK
  <2>4. n_elements' \in [Queues -> Int]
    BY <1>7, <1>p DEF TypeOK, Queues
  <2>5. cursor' \in StructOrNull
    BY Zenon, <1>4, <1>7, <1>p DEF TypeOK
  <2> QED
    BY ZenonT(30), <1>3, <1>7, <1>p, <2>1, <2>2, <2>3, <2>4, <2>5 DEF TypeOK
<1> QED
  BY ZenonT(30), <1>3, <1>7, <1>11, <1>14, <1>15, <1>16, <1>17, <1>19, <1>20, <1>p DEF IInv, Inv

(* A walk that took as many steps as there were containers met them all. *)
LEMMA EndStep == ASSUME NEW P, Inv(P), EndClear PROVE IInv'
<1>0. left = 0 /\ left # -1
  BY DEF EndClear
<1>p. /\ PoolList(P) /\ TypeOK /\ Owned(P) /\ Counts(P) /\ Clearing(P) /\ Quiet
      /\ P \in Seq(Structs) /\ linked \in Seq(Structs) /\ clears # 0
  <2>1. PoolList(P) /\ TypeOK /\ Owned(P) /\ Counts(P) /\ Clearing(P)
    BY Zenon, <1>0 DEF Inv
  <2>2. clears > 0 => clears # 0
    OBVIOUS
  <2> QED
    BY Zenon, <2>1, <2>2 DEF PoolList, TypeOK, Clearing
<1>1. /\ insert_end' = [insert_end EXCEPT !["containers"] = NULL]
      /\ remove_end' = [remove_end EXCEPT !["containers"] = NULL]
      /\ n_elements' = [n_elements EXCEPT !["containers"] = 0]
      /\ linked' = <<>> /\ cursor' = NULL /\ left' = -1
      /\ UNCHANGED <<next, previous, el, temp, succ, pc, malloced, clears>>
  BY Zenon DEF EndClear, fields, locals
<1>2. /\ insert_end'["pool"] = insert_end["pool"] /\ insert_end'["containers"] = NULL
      /\ remove_end'["pool"] = remove_end["pool"] /\ remove_end'["containers"] = NULL
      /\ n_elements'["pool"] = n_elements["pool"] /\ n_elements'["containers"] = 0
  BY <1>1, <1>p DEF TypeOK, Queues
<1>3. PICK n \in Nat : n = Len(linked)
  BY <1>p
<1>4. \A i \in 1..n : linked[i] \in Elems(P)
  <2>1. PICK j \in 1..(n + 1) : 0 + j > n /\ \A i \in (0 + j - n)..(j - 1) : linked[i] \in Elems(P)
    BY Zenon, <1>0, <1>3, <1>p DEF Clearing
  <2>2. 0 + j - n = 1 /\ j - 1 = n
    BY <1>3, <2>1
  <2> QED
    BY Zenon, <2>1, <2>2
<1>5. linked' = <<>> /\ Len(linked') = 0 /\ linked' \in Seq(Structs) /\ 1..0 = {} /\ left' \in Int
  BY <1>1
<1>6. Elems(linked)' = {} /\ Distinct(linked)'
  BY Zenon, <1>5 DEF Elems, Distinct
<1>7. TypeOK'
  <2>1. /\ insert_end' \in [Queues -> StructOrNull] /\ remove_end' \in [Queues -> StructOrNull]
        /\ cursor' \in StructOrNull
    BY Zenon, <1>1, <1>p DEF TypeOK, StructOrNull
  <2>2. n_elements' \in [Queues -> Int]
    BY <1>1, <1>p DEF TypeOK, Queues
  <2> QED
    BY Zenon, <1>1, <1>5, <1>p, <2>1, <2>2 DEF TypeOK
<1>8. PoolList(P)'
  <2>1. Chained(next, P)'
    BY Zenon, <1>1, <1>p DEF PoolList, Chained
  <2> QED
    BY Zenon, <1>1, <1>2, <1>p, <2>1 DEF PoolList
<1>9. /\ Readers(P)'
      /\ \A w \in Workers : \A s : ~ Holds(w, s) /\ ~ Holds(w, s)'
      /\ \A w \in Workers : pc'[w] \notin Blank /\ pc'[w] \notin Returning
  BY Zenon, <1>1, <1>p DEF Quiet, Readers, Taking, Holds, Taken, Ready, Blank, Returning
<1>10. Owned(P)'
  <2>1. \A s : s \in malloced <=> s \in Elems(P)
    <3>1. \A s : s \in Elems(linked) => s \in Elems(P)
      BY Zenon, <1>3, <1>4 DEF Elems
    <3> QED
      BY Zenon, <3>1, <1>9, <1>p DEF Owned
  <2> QED
    BY Zenon, <1>1, <1>6, <1>9, <2>1 DEF Owned, Elems
<1>11. Counts(P)'
  <2>1. /\ Cardinality({w \in Workers : pc[w] \in Taken}) = 0
        /\ Cardinality({w \in Workers : pc[w] \in Returning}) = 0
    BY Zenon, <1>p, NobodyCounts
  <2>2. 0 + 0 = 0
    OBVIOUS
  <2> QED
    BY Zenon, <2>1, <2>2, <1>1, <1>2, <1>5, <1>p DEF Counts
<1>12. Apart(P)' /\ InUse'
  BY Zenon, <1>2, <1>5, <1>6, <1>9 DEF Apart, InUse, Elems
<1> QED
  BY Zenon, <1>1, <1>7, <1>8, <1>9, <1>10, <1>11, <1>12, <1>p DEF IInv, Inv

(* Nothing changes. *)
LEMMA Stutter == ASSUME NEW P, Inv(P), UNCHANGED vars PROVE IInv'
<1>1. P \in Seq(Structs)
  BY Zenon DEF Inv, PoolList
<1>2. /\ insert_end' = insert_end /\ remove_end' = remove_end /\ n_elements' = n_elements
      /\ next' = next /\ previous' = previous /\ el' = el /\ temp' = temp /\ succ' = succ /\ pc' = pc
      /\ malloced' = malloced /\ linked' = linked /\ cursor' = cursor /\ left' = left /\ clears' = clears
  BY Zenon DEF vars
<1>3. /\ TypeOK' /\ PoolList(P)' /\ Readers(P)' /\ Counts(P)'
  BY Zenon, <1>2 DEF Inv, TypeOK, PoolList, Readers, ReaderOK, Chained, Counts
<1>4. Elems(linked)' = Elems(linked)
  BY Zenon, <1>2 DEF Elems
<1>5. Owned(P)'
  <2>1. Distinct(linked)'
    BY Zenon, <1>2 DEF Inv, Distinct, Owned
  <2>2. \A w \in Workers : \A s : Holds(w, s)' <=> Holds(w, s)
    BY Zenon, <1>2 DEF Holds
  <2>3. \A s : s \in malloced' <=> \/ s \in Elems(P) \/ s \in Elems(linked)
                                   \/ \E v \in Workers : Holds(v, s)'
    BY Zenon, <1>2, <2>2 DEF Inv, Owned
  <2>4. /\ \A v \in Workers : \A s : Holds(v, s)' => s \notin Elems(P) /\ s \notin Elems(linked)
        /\ \A v, u \in Workers : \A s : Holds(v, s)' /\ Holds(u, s)' => v = u
    BY Zenon, <2>2 DEF Inv, Owned
  <2> QED
    BY Zenon, <1>4, <2>1, <2>3, <2>4 DEF Owned, Elems
<1>6. Apart(P) => Apart(P)'
  BY Zenon, <1>4 DEF Apart, Elems
<1>7. InUse => InUse'
  BY Zenon, <1>2, <1>4 DEF InUse, Own, Before, LinkOK
<1>8. Clearing(P) => Clearing(P)'
  BY Zenon, <1>2 DEF Clearing, Quiet, Elems
<1>9. Fresh => Fresh'
  BY ZenonT(30), <1>2 DEF Fresh, BackOK, Before
<1>10. Inv(P)'
  BY Zenon, <1>2, <1>3, <1>5, <1>6, <1>7, <1>8, <1>9 DEF Inv
<1> QED
  BY Zenon, <1>1, <1>10 DEF IInv

(* IInv is inductive. *)
LEMMA NextInv == IInv /\ [Next]_vars => IInv'
<1> SUFFICES ASSUME IInv, [Next]_vars PROVE IInv'
  BY Zenon
<1>0. PICK P \in Seq(Structs) : Inv(P)
  BY Zenon DEF IInv
<1>1. ASSUME NEW w \in Workers, PushContainer(w) \/ Step(w) PROVE IInv'
  <2>1. TypeOK' /\ Others(w) /\ left = -1 /\ UNCHANGED clear
    BY Zenon, <1>0, <1>1, StepType
  <2>2. CASE PushContainer(w) \/ ReadRemoveEnd(w) \/ ReadNext(w)
    BY Zenon, <1>0, <2>1, <2>2, LookStep
  <2>3. CASE CasRemoveEnd(w)
    BY Zenon, <1>0, <2>1, <2>3, LookStep, TakeStep
  <2>4. CASE ClearPrevious(w) \/ ClearNext(w) \/ SetupContainer(w) \/ ReadInsertEnd(w)
    BY Zenon, <1>0, <2>1, <2>4, CleanStep
  <2>5. CASE TestEmpty(w)
    BY Zenon, <1>0, <2>1, <2>5, EmptyStep
  <2>6. CASE Dec(w)
    BY ZenonT(30), <1>0, <2>1, <2>6, DecStep
  <2>7. CASE Malloc(w)
    BY Zenon, <1>0, <2>1, <2>7, MallocStep
  <2>8. CASE CasInsertEnd(w)
    BY ZenonT(30), <1>0, <2>1, <2>8, CleanStep, JoinStep
  <2>9. CASE SetPrevious(w)
    BY Zenon, <1>0, <2>1, <2>9, BackStep
  <2>10. CASE LinkNext(w)
    BY Zenon, <1>0, <2>1, <2>10, LinkStep
  <2>11. CASE TestRemoveEnd(w)
    BY Zenon, <1>0, <2>1, <2>11, TestStep
  <2>12. CASE SetRemoveEnd(w)
    BY Zenon, <1>0, <2>1, <2>12, SetStep
  <2>13. CASE Inc(w)
    BY Zenon, <1>0, <2>1, <2>13, IncStep
  <2> QED
    BY ZenonT(30), <1>1, <2>2, <2>3, <2>4, <2>5, <2>6, <2>7, <2>8, <2>9, <2>10, <2>11, <2>12, <2>13
       DEF Step, Dequeue, Enqueue
<1>2. CASE FullCollection
  BY Zenon, <1>0, <1>2, BeginStep, ClearStep, EndStep DEF FullCollection
<1>3. CASE UNCHANGED vars
  BY Zenon, <1>0, <1>3, Stutter
<1> QED
  BY Zenon, <1>1, <1>2, <1>3 DEF Next

(* The invariant holds in every state of every behaviour. *)
LEMMA Invariance == Spec => []IInv
BY InitInv, NextInv, PTL DEF Spec

-----------------------------------------------------------------------------
(* Walking a list *)

(* The equation of a walk: the structs met from s along a link field *)
Follows(link, s, f) ==
  f = [i \in 1..Cardinality(Structs) |->
         IF i = 1 THEN s ELSE IF f[i - 1] = NULL THEN NULL ELSE link[f[i - 1]]]

(* A walk satisfies its equation, if some function does. *)
LEMMA WalkDef ==
  ASSUME NEW link, NEW s, NEW g, Follows(link, s, g)
  PROVE  Follows(link, s, Walk(link, s))
<1>1. Walk(link, s) = CHOOSE f : Follows(link, s, f)
  BY Zenon DEF Walk, Follows
<1> QED
  BY Zenon, <1>1

(* A walk, one place at a time *)
LEMMA WalkAt ==
  ASSUME NEW link, NEW s, NEW f, Follows(link, s, f), NEW i \in 1..Cardinality(Structs)
  PROVE  /\ i = 1 => f[i] = s
         /\ i # 1 /\ f[i - 1] = NULL => f[i] = NULL
         /\ i # 1 /\ f[i - 1] # NULL => f[i] = link[f[i - 1]]
BY Zenon DEF Follows

(* A least number with a property, if there is any *)
LEMMA LeastOf == ASSUME NEW S, S \subseteq Nat, S # {} PROVE \E x \in S : \A y \in S : x <= y
<1> DEFINE lt == {p \in Nat \X Nat : p[1] < p[2]}
<1>1. IsWellFoundedOn(lt, Nat)
  BY Zenon, NatLessThanWellFounded DEF OpToRel
<1>2. PICK x \in S : \A y \in S : <<y, x>> \notin lt
  <2> HIDE DEF lt
  <2> QED BY Zenon, <1>1, WFMin
<1>3. \A y \in S : x \in Nat /\ y \in Nat /\ ~ (y < x)
  BY Zenon, <1>2
<1> QED
  BY <1>3

(* There is only one walk: the least place where two differ would follow   *)
(* from the one before it.                                                 *)
LEMMA WalkUnique ==
  ASSUME NEW link, NEW s, NEW h, NEW g, Follows(link, s, h), Follows(link, s, g)
  PROVE  \A i \in 1..Cardinality(Structs) : h[i] = g[i]
<1> DEFINE N == Cardinality(Structs)
           S == {i \in 1..N : h[i] # g[i]}
<1> SUFFICES ASSUME S # {} PROVE FALSE
  BY Zenon
<1>0. N \in Nat
  BY Zenon, GenQueueAssumption, FS_CardinalityType
<1>1. S \subseteq Nat
  BY <1>0
<1>2. PICK x \in S : \A y \in S : x <= y
  <2> HIDE DEF S
  <2> QED BY Zenon, <1>1, LeastOf
<1>3. x \in 1..N /\ h[x] # g[x]
  BY Zenon, <1>2
<1>w. /\ x = 1 => h[x] = s /\ g[x] = s
      /\ x # 1 /\ h[x - 1] = NULL => h[x] = NULL
      /\ x # 1 /\ h[x - 1] # NULL => h[x] = link[h[x - 1]]
      /\ x # 1 /\ g[x - 1] = NULL => g[x] = NULL
      /\ x # 1 /\ g[x - 1] # NULL => g[x] = link[g[x - 1]]
  <2>1. x \in 1..Cardinality(Structs)
    BY Zenon, <1>3
  <2> QED
    BY <2>1, WalkAt
<1>4. x # 1
  BY Zenon, <1>3, <1>w
<1>5. x - 1 \in 1..N /\ ~ (x <= x - 1)
  BY <1>0, <1>3, <1>4
<1>6. h[x - 1] = g[x - 1]
  BY Zenon, <1>2, <1>5
<1> QED
  BY Zenon, <1>3, <1>4, <1>6, <1>w

(* A walk along a list meets exactly its elements, and then NULL. *)
LEMMA WalkList ==
  ASSUME NEW link, NEW q \in Seq(Structs), Chained(link, q), NEW s,
         s = IF Len(q) = 0 THEN NULL ELSE q[1]
  PROVE  \A i \in 1..Cardinality(Structs) : Walk(link, s)[i] = IF i <= Len(q) THEN q[i] ELSE NULL
<1> DEFINE N == Cardinality(Structs)
<1>0. N \in Nat
  BY Zenon, GenQueueAssumption, FS_CardinalityType
<1>1. PICK n \in Nat : n = Len(q)
  OBVIOUS
<1>2. \A i \in 1..n : q[i] \in Structs /\ q[i] # NULL
  <2>1. \A i \in 1..n : q[i] \in Structs
    BY <1>1
  <2> QED
    BY Zenon, <2>1, GenQueueAssumption
<1>3. PICK g : g = [i \in 1..N |-> IF i <= n THEN q[i] ELSE NULL]
  BY Zenon
<1>4. \A i \in 1..N : g[i] = IF i <= n THEN q[i] ELSE NULL
  BY Zenon, <1>3
<1>5. ASSUME NEW i \in 1..N
      PROVE  (IF i <= n THEN q[i] ELSE NULL)
             = IF i = 1 THEN s ELSE IF g[i - 1] = NULL THEN NULL ELSE link[g[i - 1]]
  <2>1. CASE i = 1
    <3>1. n = 0 <=> ~ (i <= n)
      BY <1>1, <2>1
    <3> QED
      BY Zenon, <3>1, <2>1, <1>1
  <2>2. CASE i # 1
    <3>1. /\ i - 1 \in 1..N /\ (i - 1 <= n => i - 1 \in 1..n) /\ (i - 1 = n => ~ (i <= n)) /\ (i - 1) + 1 = i
          /\ (i - 1 <= n /\ i - 1 # n => i <= n) /\ (~ (i - 1 <= n) => ~ (i <= n))
      BY <1>0, <1>1, <2>2
    <3>2. CASE ~ (i - 1 <= n)
      BY Zenon, <3>1, <3>2, <2>2, <1>4
    <3>3. CASE i - 1 <= n
      <4>1. g[i - 1] = q[i - 1] /\ g[i - 1] # NULL
        BY Zenon, <3>1, <3>3, <1>2, <1>4
      <4>2. link[q[i - 1]] = IF i - 1 = n THEN NULL ELSE q[i]
        BY Zenon, <3>1, <3>3, <1>1 DEF Chained
      <4> QED
        BY Zenon, <4>1, <4>2, <3>1, <3>3, <2>2
    <3> QED
      BY Zenon, <3>2, <3>3
  <2> QED
    BY Zenon, <2>1, <2>2
<1>6. Follows(link, s, g)
  BY Zenon, <1>3, <1>5 DEF Follows
<1>7. PICK h : h = Walk(link, s) /\ Follows(link, s, h)
  BY Zenon, <1>6, WalkDef
<1>8. \A i \in 1..N : h[i] = g[i]
  BY <1>6, <1>7, WalkUnique
<1> QED
  BY Zenon, <1>1, <1>4, <1>7, <1>8

(* A list without repetitions is no longer than there are structs, and has *)
(* as many elements as places.                                             *)
LEMMA ListSize ==
  ASSUME NEW q \in Seq(Structs), Distinct(q)
  PROVE  Len(q) <= Cardinality(Structs) /\ Cardinality(Elems(q)) = Len(q)
<1>1. PICK n \in Nat : n = Len(q)
  OBVIOUS
<1>2. IsFiniteSet(1..n) /\ Cardinality(1..n) = n
  <2>1. IsFiniteSet(1..n) /\ Cardinality(1..n) = IF 1 > n THEN 0 ELSE n - 1 + 1
    <3>1. 1 \in Int /\ n \in Int
      BY <1>1
    <3> QED
      BY Zenon, <3>1, FS_Interval
  <2> QED
    BY <1>1, <2>1
<1>3. PICK f \in [1..n -> Structs] : \A i \in 1..n : f[i] = q[i]
  <2>1. [i \in 1..n |-> q[i]] \in [1..n -> Structs]
    BY <1>1
  <2> QED
    BY Zenon, <2>1
<1>4. \A i, j \in 1..n : f[i] = f[j] => i = j
  BY Zenon, <1>1, <1>3 DEF Distinct
<1>5. Elems(q) = {f[i] : i \in 1..n}
  BY Zenon, <1>1, <1>3 DEF Elems
<1>6. Cardinality(Structs) \in Nat
  BY Zenon, GenQueueAssumption, FS_CardinalityType
<1>7. ~ (Cardinality(Structs) < n)
  <2> SUFFICES ASSUME Cardinality(Structs) < n PROVE FALSE
    BY Zenon
  <2>1. \E x, y \in 1..n : x # y /\ f[x] = f[y]
    <3>1. PICK T : T = 1..n
      BY Zenon
    <3>2. IsFiniteSet(T) /\ Cardinality(Structs) < Cardinality(T) /\ f \in [T -> Structs]
      BY Zenon, <1>2, <3>1
    <3>3. \E x, y \in T : x # y /\ f[x] = f[y]
      BY <3>2, GenQueueAssumption, FS_PigeonHole
    <3> QED
      BY Zenon, <3>1, <3>3
  <2> QED
    BY Zenon, <2>1, <1>4
<1>8. Cardinality(Elems(q)) = n
  <2>1. PICK T, E : T = 1..n /\ E = Elems(q)
    BY Zenon
  <2>2. \A i \in T : f[i] \in E
    BY Zenon, <2>1, <1>5
  <2>3. PICK b \in [T -> E] : \A i \in T : b[i] = f[i]
    <3>1. [i \in T |-> f[i]] \in [T -> E]
      BY Zenon, <2>2
    <3> QED
      BY Zenon, <3>1
  <2>4. b \in Bijection(T, E)
    <3>1. \A i, j \in T : b[i] = b[j] => i = j
      BY Zenon, <2>1, <2>3, <1>4
    <3>2. \A e \in E : \E i \in T : b[i] = e
      BY Zenon, <2>1, <2>3, <1>5
    <3> QED
      BY Zenon, <3>1, <3>2 DEF Bijection, Injection, Surjection, IsInjective
  <2>5. IsFiniteSet(T) /\ Cardinality(T) = n
    BY Zenon, <2>1, <1>2
  <2>6. Cardinality(E) = Cardinality(T)
    BY Zenon, <2>4, <2>5, FS_Bijection DEF ExistsBijection
  <2> QED
    BY Zenon, <2>1, <2>5, <2>6
<1> QED
  BY <1>1, <1>6, <1>7, <1>8

(* Reading a list along a field *)
LEMMA ListReads ==
  ASSUME NEW link, NEW q \in Seq(Structs), Chained(link, q), NEW s,
         s = IF Len(q) = 0 THEN NULL ELSE q[1]
  PROVE  Reads(link, s, q)
<1>1. \A i \in 1..Cardinality(Structs) : Walk(link, s)[i] = IF i <= Len(q) THEN q[i] ELSE NULL
  BY WalkList
<1> QED
  BY Zenon, <1>1 DEF Reads

(* The walk over the pool from its _remove_end meets the structs of the    *)
(* list P and no other.                                                    *)
LEMMA PoolWalk == ASSUME NEW P, TypeOK, PoolList(P) PROVE InPool = Elems(P)
<1> DEFINE N == Cardinality(Structs)
           at == Walk(next, remove_end["pool"])
<1>0. N \in Nat
  BY Zenon, GenQueueAssumption, FS_CardinalityType
<1>1. P \in Seq(Structs) /\ Distinct(P) /\ Chained(next, P)
  BY Zenon DEF PoolList
<1>2. PICK n \in Nat : n = Len(P)
  BY <1>1
<1>3. n <= N
  BY Zenon, <1>1, <1>2, ListSize
<1>4. remove_end["pool"] = IF Len(P) = 0 THEN NULL ELSE P[1]
  BY Zenon DEF PoolList
<1>5. \A i \in 1..N : at[i] = IF i <= n THEN P[i] ELSE NULL
  <2>1. \A i \in 1..N : at[i] = IF i <= Len(P) THEN P[i] ELSE NULL
    BY <1>1, <1>4, WalkList
  <2> QED
    BY Zenon, <2>1, <1>2
<1>6. \A i \in 1..n : P[i] # NULL /\ i \in 1..N /\ i <= n
  <2>1. \A i \in 1..n : P[i] \in Structs /\ i \in 1..N /\ i <= n
    BY <1>0, <1>1, <1>2, <1>3
  <2> QED
    BY Zenon, <2>1, GenQueueAssumption
<1>7. \A i \in 1..N : i <= n => i \in 1..n
  BY <1>0, <1>2
<1>8. InPool = {at[i] : i \in 1..N} \ {NULL}
  BY Zenon DEF InPool
<1>9. Elems(P) = {P[i] : i \in 1..n}
  BY Zenon, <1>2 DEF Elems
<1> HIDE DEF at, N
<1>10. ASSUME NEW x PROVE x \in InPool <=> x \in Elems(P)
  <2>1. ASSUME x \in InPool PROVE x \in Elems(P)
    <3>1. PICK i \in 1..N : x = at[i] /\ x # NULL
      BY Zenon, <2>1, <1>8
    <3>2. i <= n /\ x = P[i]
      BY Zenon, <3>1, <1>5
    <3> QED
      BY Zenon, <3>2, <1>7, <1>9
  <2>2. ASSUME x \in Elems(P) PROVE x \in InPool
    <3>1. PICK i \in 1..n : x = P[i]
      BY Zenon, <2>2, <1>9
    <3>2. i \in 1..N /\ x = at[i] /\ x # NULL
      BY Zenon, <3>1, <1>5, <1>6
    <3> QED
      BY Zenon, <3>2, <1>8
  <2> QED
    BY Zenon, <2>1, <2>2
<1> QED
  BY Zenon, <1>10

(* What a worker holds is what the invariant says it holds. *)
LEMMA HeldHolds == ASSUME NEW w, NEW s PROVE s \in Held(w) <=> Holds(w, s)
<1>1. CASE pc[w] \in Taken
  <2>1. pc[w] \notin Ready
    BY Zenon, <1>1 DEF Taken, Ready
  <2>2. Held(w) = {temp[w]}
    BY <1>1, <2>1 DEF Held, Taken, Ready
  <2> QED
    BY Zenon, <1>1, <2>1, <2>2 DEF Holds
<1>2. CASE pc[w] \in Ready
  <2>1. pc[w] \notin Taken
    BY Zenon, <1>2 DEF Taken, Ready
  <2>2. Held(w) = {el[w]}
    BY <1>2, <2>1 DEF Held, Taken, Ready
  <2> QED
    BY Zenon, <1>2, <2>1, <2>2 DEF Holds
<1>3. CASE pc[w] \notin Taken /\ pc[w] \notin Ready
  <2>1. Held(w) = {}
    BY <1>3 DEF Held, Taken, Ready
  <2> QED
    BY Zenon, <1>3, <2>1 DEF Holds
<1> QED
  BY Zenon, <1>1, <1>2, <1>3

-----------------------------------------------------------------------------
(* The theorems *)

(* The owners of the invariant are the ones of the property. *)
LEMMA OwnersApart == IInv => OneOwner
<1> SUFFICES ASSUME NEW P, Inv(P) PROVE OneOwner
  BY Zenon DEF IInv
<1>1. Owned(P)
  BY Zenon DEF Inv
<1>2. \A i, j \in 1..Len(linked) : i # j => linked[i] # linked[j]
  BY Zenon, <1>1 DEF Owned, Distinct
<1>3. Linked = Elems(linked)
  BY Zenon DEF Linked, Elems
<1>4. ASSUME NEW w \in Workers PROVE Held(w) \cap Linked = {}
  <2>1. ASSUME NEW s, s \in Held(w) PROVE s \notin Linked
    BY Zenon, <2>1, <1>1, <1>3, HeldHolds DEF Owned
  <2> QED
    BY Zenon, <2>1
<1>5. ASSUME NEW v \in Workers, NEW w \in Workers, v # w PROVE Held(v) \cap Held(w) = {}
  <2>1. ASSUME NEW s, s \in Held(v), s \in Held(w) PROVE FALSE
    <3>1. Holds(v, s) /\ Holds(w, s)
      BY Zenon, <2>1, HeldHolds
    <3> QED
      BY Zenon, <3>1, <1>1, <1>5 DEF Owned
  <2> QED
    BY Zenon, <2>1
<1> QED
  BY Zenon, <1>2, <1>4, <1>5 DEF OneOwner

(* No two workers ever hold the same container struct and none holds one   *)
(* that _containers already links: the CAS on _remove_end of the pool hands *)
(* each struct to one worker, for any number of workers, although the      *)
(* _next they read with it may be old.                                     *)
THEOREM StructHasOneOwner == Spec => []OneOwner
<1>1. IInv => OneOwner
  BY OwnersApart
<1> QED
  BY <1>1, Invariance, PTL

(* With no worker inside push_container every struct is in one of the two  *)
(* lists.                                                                  *)
LEMMA NothingLeaks == IInv => PoolComplete
<1> SUFFICES ASSUME NEW P, Inv(P), Quiet, left = -1
             PROVE  /\ InPool \cap Linked = {}
                    /\ InPool \cup Linked = malloced
                    /\ n_elements["pool"] = Cardinality(InPool)
                    /\ n_elements["containers"] = Len(linked)
                    /\ insert_end["containers"] = IF linked = <<>> THEN NULL ELSE linked[Len(linked)]
  BY Zenon DEF IInv, PoolComplete
<1>1. /\ TypeOK /\ PoolList(P) /\ Owned(P) /\ Counts(P) /\ Apart(P) /\ InUse
      /\ P \in Seq(Structs) /\ Distinct(P)
  BY Zenon DEF Inv, PoolList
<1>2. InPool = Elems(P)
  BY Zenon, <1>1, PoolWalk
<1>3. Linked = Elems(linked)
  BY Zenon DEF Linked, Elems
<1>4. \A w \in Workers : pc[w] \notin Taken /\ pc[w] \notin Ready /\ pc[w] \notin Returning
  BY Zenon DEF Quiet, Taken, Ready, Returning
<1>5. \A w \in Workers : \A s : ~ Holds(w, s)
  BY Zenon, <1>4 DEF Holds
<1>6. InPool \cap Linked = {}
  BY Zenon, <1>1, <1>2, <1>3 DEF Apart
<1>7. InPool \cup Linked = malloced
  <2>1. \A s : s \in malloced <=> s \in Elems(P) \/ s \in Elems(linked)
    BY Zenon, <1>1, <1>5 DEF Owned
  <2> QED
    BY Zenon, <2>1, <1>2, <1>3
<1>8. /\ Cardinality({w \in Workers : pc[w] \in Taken}) = 0
      /\ Cardinality({w \in Workers : pc[w] \in Returning}) = 0
  <2>1. {w \in Workers : pc[w] \in Taken} = {} /\ {w \in Workers : pc[w] \in Returning} = {}
    BY Zenon, <1>4
  <2>2. Cardinality({}) = 0
    BY Zenon, FS_EmptySet
  <2> QED
    BY Zenon, <2>1, <2>2
<1>9. /\ n_elements["pool"] = Len(P) + 0
      /\ n_elements["containers"] + 0 = Len(linked)
  BY Zenon, <1>1, <1>8 DEF Counts
<1>10. n_elements["containers"] \in Int /\ Len(P) \in Nat /\ linked \in Seq(Structs)
  BY <1>1 DEF TypeOK, Queues
<1>11. n_elements["pool"] = Cardinality(InPool)
  <2>1. Cardinality(Elems(P)) = Len(P)
    BY Zenon, <1>1, ListSize
  <2> QED
    BY <1>2, <1>9, <1>10, <2>1
<1>12. n_elements["containers"] = Len(linked)
  BY <1>9, <1>10
<1>13. insert_end["containers"] = IF linked = <<>> THEN NULL ELSE linked[Len(linked)]
  <2>1. insert_end["containers"] = IF Len(linked) = 0 THEN NULL ELSE linked[Len(linked)]
    BY Zenon, <1>1 DEF InUse
  <2>2. linked = <<>> <=> Len(linked) = 0
    BY <1>10
  <2> QED
    BY Zenon, <2>1, <2>2
<1> QED
  BY Zenon, <1>6, <1>7, <1>11, <1>12, <1>13

(* Between collections no container struct is lost: each one ever obtained *)
(* from the C heap is in _pool or in _containers, never in both, the walk  *)
(* from the _remove_end of _pool meets every pooled one, and _n_elements   *)
(* of both queues and the _insert_end of _containers are right.            *)
THEOREM PoolDoesNotLeak == Spec => []PoolComplete
<1>1. IInv => PoolComplete
  BY NothingLeaks
<1> QED
  BY <1>1, Invariance, PTL

(* When the workers are done the list of containers is linked forwards. *)
LEMMA QuietLinked ==
  ASSUME InUse, Quiet, linked \in Seq(Structs)
  PROVE  Chained(next, linked)
<1>1. \A w \in Workers : pc[w] \notin Linking
  BY Zenon DEF Quiet, Linking
<1>2. \A i \in 1..Len(linked) : LinkOK(i)
  BY Zenon DEF InUse
<1>3. \A i \in 1..Len(linked) : next[linked[i]] = IF i = Len(linked) THEN NULL ELSE linked[i + 1]
  BY Zenon, <1>1, <1>2 DEF LinkOK
<1> QED
  BY Zenon, <1>3 DEF Chained

(* Read from the other end the list of containers is the reversed one. *)
LEMMA QuietBack ==
  ASSUME Fresh, Quiet, linked \in Seq(Structs),
         NEW r, r = [i \in 1..Len(linked) |-> linked[Len(linked) + 1 - i]]
  PROVE  /\ r \in Seq(Structs) /\ Len(r) = Len(linked)
         /\ Len(linked) # 0 => r[1] = linked[Len(linked)]
         /\ Chained(previous, r)
<1>1. PICK n \in Nat : n = Len(linked)
  OBVIOUS
<1>2. \A i \in 1..n : previous[linked[i]] = Before(linked, i)
  <2>1. \A i \in 1..Len(linked) : BackOK(i)
    BY Zenon DEF Fresh
  <2>2. \A w \in Workers : pc[w] # "set_previous"
    BY Zenon DEF Quiet
  <2> QED
    BY Zenon, <1>1, <2>1, <2>2 DEF BackOK
<1>3. \A i \in 1..n : n + 1 - i \in 1..n /\ linked[n + 1 - i] \in Structs
  BY <1>1
<1>4. r = [i \in 1..n |-> linked[n + 1 - i]]
  BY Zenon, <1>1
<1>5. r \in Seq(Structs) /\ Len(r) = n
  BY <1>3, <1>4
<1>6. \A i \in 1..n : r[i] = linked[n + 1 - i]
  BY Zenon, <1>4
<1>7. n # 0 => r[1] = linked[n]
  <2> SUFFICES ASSUME n # 0 PROVE r[1] = linked[n]
    BY Zenon
  <2>1. 1 \in 1..n /\ n + 1 - 1 = n
    BY <1>1
  <2>2. r[1] = linked[n + 1 - 1]
    BY Zenon, <1>6, <2>1
  <2> QED
    BY <2>1, <2>2
<1>8. ASSUME NEW i \in 1..n PROVE previous[r[i]] = IF i = n THEN NULL ELSE r[i + 1]
  <2>1. previous[r[i]] = Before(linked, n + 1 - i)
    BY Zenon, <1>2, <1>3, <1>6
  <2>2. CASE i = n
    <3>1. n + 1 - i = 1
      BY <1>1, <2>2
    <3> QED
      BY Zenon, <2>1, <2>2, <3>1 DEF Before
  <2>3. CASE i # n
    <3>1. n + 1 - i # 1 /\ (n + 1 - i) - 1 = n + 1 - (i + 1) /\ i + 1 \in 1..n
      BY <1>1, <2>3
    <3>2. previous[r[i]] = linked[(n + 1 - i) - 1]
      BY Zenon, <2>1, <3>1 DEF Before
    <3>3. r[i + 1] = linked[n + 1 - (i + 1)]
      BY Zenon, <1>6, <3>1
    <3>4. previous[r[i]] = r[i + 1]
      BY Zenon, <3>1, <3>2, <3>3
    <3> QED
      BY <2>3, <3>4
  <2> QED
    BY Zenon, <2>2, <2>3
<1>9. Chained(previous, r)
  <2>1. \A i \in 1..Len(r) : i \in 1..n
    BY <1>5
  <2> SUFFICES ASSUME NEW i \in 1..Len(r)
               PROVE  previous[r[i]] = IF i = Len(r) THEN NULL ELSE r[i + 1]
    BY Zenon DEF Chained
  <2>2. i \in 1..n
    BY Zenon, <2>1
  <2>3. previous[r[i]] = IF i = n THEN NULL ELSE r[i + 1]
    BY Zenon, <2>2, <1>8
  <2>4. Len(r) = n
    BY Zenon, <1>5
  <2> QED
    BY <2>3, <2>4
<1> QED
  BY Zenon, <1>1, <1>5, <1>7, <1>9

(* With no worker inside enqueue every link is set. *)
LEMMA FreshWhole == IInv => FreshQueueWhole
<1> SUFFICES ASSUME NEW P, Inv(P), clears = 0, Quiet, left = -1
             PROVE  /\ Reads(next, remove_end["containers"], linked)
                    /\ Reads(previous, insert_end["containers"],
                             [i \in 1..Len(linked) |-> linked[Len(linked) + 1 - i]])
  BY Zenon DEF IInv, FreshQueueWhole, ForwardComplete, BackwardComplete
<1>1. TypeOK /\ InUse /\ Fresh /\ linked \in Seq(Structs)
  BY Zenon DEF Inv, TypeOK
<1>2. Len(linked) \in Nat
  BY <1>1
<1>3. remove_end["containers"] = IF Len(linked) = 0 THEN NULL ELSE linked[1]
  <2>1. \A w \in Workers : pc[w] \notin Linking \cup {"test_remove", "set_remove"}
    BY Zenon DEF Quiet, Linking
  <2>2. /\ remove_end["containers"] # NULL => Len(linked) > 0 /\ remove_end["containers"] = linked[1]
        /\ Len(linked) > 0 /\ remove_end["containers"] = NULL =>
             \E w \in Workers : pc[w] \in Linking \cup {"test_remove", "set_remove"} /\ el[w] = linked[1]
    BY Zenon, <1>1 DEF Fresh
  <2>3. Len(linked) > 0 <=> Len(linked) # 0
    BY <1>2
  <2> QED
    BY Zenon, <2>1, <2>2, <2>3
<1>4. Chained(next, linked)
  BY Zenon, <1>1, QuietLinked
<1>5. Reads(next, remove_end["containers"], linked)
  BY <1>1, <1>3, <1>4, ListReads
<1>6. PICK r : r = [i \in 1..Len(linked) |-> linked[Len(linked) + 1 - i]]
  BY Zenon
<1>7. /\ r \in Seq(Structs) /\ Len(r) = Len(linked)
      /\ Len(linked) # 0 => r[1] = linked[Len(linked)]
      /\ Chained(previous, r)
  BY Zenon, <1>1, <1>6, QuietBack
<1>8. insert_end["containers"] = IF Len(r) = 0 THEN NULL ELSE r[1]
  <2>1. insert_end["containers"] = IF Len(linked) = 0 THEN NULL ELSE linked[Len(linked)]
    BY Zenon, <1>1 DEF InUse
  <2> QED
    BY Zenon, <2>1, <1>7
<1>9. Reads(previous, insert_end["containers"], r)
  BY <1>7, <1>8, ListReads
<1> QED
  BY Zenon, <1>5, <1>6, <1>9

(* Until the first full collection enqueues alone race on _containers, as  *)
(* push_container says: whenever the workers are done, the walk along      *)
(* _next from _remove_end and the walk along _previous from _insert_end    *)
(* both meet every container once and in order.                            *)
THEOREM FreshListWhole == Spec => []FreshQueueWhole
<1>1. IInv => FreshQueueWhole
  BY FreshWhole
<1> QED
  BY <1>1, Invariance, PTL
=============================================================================
