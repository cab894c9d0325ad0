---------------------- MODULE PromotionSlots_proofs ----------------------
(***************************************************************************)
(* Every reference that a young collection reaches is processed exactly    *)
(* once: SInv, which says so, and what taking and pushing tasks does to    *)
(* the places where references wait.  At the end, from KInv, that the      *)
(* segments of a collection object's space are one family.                 *)
(***************************************************************************)
EXTENDS Promotion_proofs

Kinds == {"bda", "claimed"}
Stack(k, w) == IF k = "bda" THEN bdaref_stack[w] ELSE claimed_stack[w]

(* A worker has the mark of an object and will push its contents. *)
Copying(o) == \E w \in Workers : pc[w] = "contents" /\ object(w) = o

(* The rest of an array is a task on some stack. *)
Rest(o) == \E k \in Kinds, w \in Workers : \E t \in Stack(k, w) : t.array = o

(* Tasks are slots or arrays, and an idle worker has no slot in its hand.  *)
Shaped ==
  /\ \A k \in Kinds, w \in Workers : \A t \in Stack(k, w) :
       \/ t.slot \in Slots /\ t.array = NULL
       \/ t.slot = NULL /\ t.array \in Objects
  /\ \A w \in Workers : pc[w] = "idle" => local[w].slot = NULL

(* An array is in one hand: of the worker that copied it, or as one task.  *)
(* The length field of its old copy is whole until the first chunk.        *)
ArrayOnce ==
  /\ \A k, l \in Kinds, w, v \in Workers : \A t \in Stack(k, w), u \in Stack(l, v) :
       t.array # NULL /\ t.array = u.array => k = l /\ w = v /\ t = u
  /\ \A w, v \in Workers :
       pc[w] = "contents" /\ pc[v] = "contents" /\ object(w) = object(v) => w = v
  /\ \A o \in Objects : Copying(o) => ~ Rest(o)
  /\ \A o \in Objects : forwardee[o] = NULL \/ Copying(o) => length[o] = Len(Fields[o])

ArrayInv == Shaped /\ ArrayOnce

(* Slot s is still part of object o: nobody has pushed it yet. *)
Unpushed(o, i) == forwardee[o] = NULL \/ Copying(o) \/ (Rest(o) /\ i <= length[o])
Left(o, s) == \E i \in DOMAIN Fields[o] : Fields[o][i] = s /\ Unpushed(o, i)

(* The places where a slot can wait: among the roots, on a stack, in the   *)
(* hand of a worker, in its object.                                        *)
Waits(k, p, t, s) ==
  \/ k = "root" /\ p = NULL /\ t = NULL /\ s \in refs \cup olds \cup plains
  \/ k \in Kinds /\ p \in Workers /\ t \in Stack(k, p) /\ t.slot = s
  \/ k = "hand" /\ p \in Workers /\ t = NULL /\ pc[p] # "idle" /\ local[p].slot = s
  \/ k = "object" /\ p \in Objects /\ t = NULL /\ Left(p, s)

Cell(s) == s \in RefSlots \cup OldSlots \cup PlainSlots \/ \E o \in Objects : s \in Contents[o]

(* A slot waits in one place at most, waits only until it is updated, and  *)
(* always waits until then.                                                *)
OnePlace(s) ==
  \A k, p, t, l, q, u : Waits(k, p, t, s) /\ Waits(l, q, u, s) => k = l /\ p = q /\ t = u
SlotOnce(s) ==
  /\ OnePlace(s)
  /\ \A k, p, t : Waits(k, p, t, s) => slot[s] = NULL
  /\ Cell(s) /\ slot[s] = NULL => \E k, p, t : Waits(k, p, t, s)
SlotInv == \A s \in Slots : SlotOnce(s)

-----------------------------------------------------------------------------
(* What happens to a slot in a step: nothing, ... *)
LEMMA Stays ==
  ASSUME NEW s \in Slots, SlotOnce(s), slot'[s] = slot[s],
         \A k, p, t : Waits(k, p, t, s)' <=> Waits(k, p, t, s)
  PROVE  SlotOnce(s)'
BY DEF SlotOnce, OnePlace, Cell

(* ... it goes from the place where it waits to another one, ... *)
LEMMA Moves ==
  ASSUME NEW s \in Slots, SlotOnce(s), slot'[s] = slot[s],
         NEW k0, NEW p0, NEW t0, Waits(k0, p0, t0, s),
         NEW k1, NEW p1, NEW t1, Waits(k1, p1, t1, s)',
         \A k, p, t : Waits(k, p, t, s)' =>
           \/ k = k1 /\ p = p1 /\ t = t1
           \/ Waits(k, p, t, s) /\ ~ (k = k0 /\ p = p0 /\ t = t0)
  PROVE  SlotOnce(s)'
<1>1. \A k, p, t : Waits(k, p, t, s)' => k = k1 /\ p = p1 /\ t = t1
  BY DEF SlotOnce, OnePlace
<1>2. slot'[s] = NULL
  BY Zenon DEF SlotOnce
<1> QED
  BY <1>1, <1>2 DEF SlotOnce, OnePlace

(* ... or it is updated and waits no longer. *)
LEMMA Updated ==
  ASSUME NEW s \in Slots, SlotOnce(s), slot'[s] # NULL,
         NEW k0, NEW p0, NEW t0, Waits(k0, p0, t0, s),
         \A k, p, t : Waits(k, p, t, s)' => Waits(k, p, t, s) /\ ~ (k = k0 /\ p = p0 /\ t = t0)
  PROVE  SlotOnce(s)'
<1>1. \A k, p, t : ~ Waits(k, p, t, s)'
  BY DEF SlotOnce, OnePlace
<1> QED
  BY Zenon, <1>1 DEF SlotOnce, OnePlace

(* A slot is at one index of one object. *)
LEMMA OneHolder ==
  ASSUME NEW o \in Objects, NEW p \in Objects, NEW i \in DOMAIN Fields[o], NEW j \in DOMAIN Fields[p],
         Fields[o][i] = Fields[p][j]
  PROVE  o = p /\ i = j
BY Zenon, CellAssumption

(* A field of an object is no root. *)
LEMMA NoRoot ==
  ASSUME NEW o \in Objects, NEW s, s \in Contents[o]
  PROVE  s \notin RefSlots \cup OldSlots \cup PlainSlots
<1>1. PICK i \in DOMAIN Fields[o] : s = Fields[o][i]
  BY Zenon DEF Contents
<1> QED
  BY Zenon, <1>1, CellAssumption

(* The roots are slots. *)
LEMMA RootSlots == RefSlots \cup OldSlots \cup PlainSlots \subseteq Slots
BY Zenon, PromotionAssumption

(* The fields of an object are slots. *)
LEMMA FieldSlots ==
  ASSUME NEW o \in Objects
  PROVE  /\ Fields[o] \in Seq(Slots)
         /\ \A i \in DOMAIN Fields[o] : Fields[o][i] \in Slots
         /\ Contents[o] \subseteq Slots
<1>1. Fields[o] \in Seq(Slots)
  BY Zenon, PromotionAssumption
<1>2. \A i \in DOMAIN Fields[o] : Fields[o][i] \in Slots
  BY <1>1
<1> QED
  BY Zenon, <1>1, <1>2 DEF Contents

(* What a task says *)
LEMMA TaskFields ==
  /\ \A s, c : Task(s, c).slot = s /\ Task(s, c).array = NULL /\ Task(s, c).container = c
  /\ \A o, c : ArrayTask(o, c).slot = NULL /\ ArrayTask(o, c).array = o /\ ArrayTask(o, c).container = c
BY DEF Task, ArrayTask

(* The task for a slot of S *)
IsTask(t, S, c) == t.slot \in S /\ t.array = NULL /\ t.container = c

(* The tasks that are pushed for the slots of S *)
LEMMA UnknownTasks ==
  ASSUME NEW S, NEW c, NEW t, t \in Unknown(S, c)
  PROVE  IsTask(t, S, c)
<1>1. PICK s \in S \ Known(S) : t = Task(s, c)
  BY Zenon DEF Unknown
<1> QED
  BY Zenon, <1>1, TaskFields DEF IsTask

(* A slot is a field of one object. *)
LEMMA OneContents ==
  ASSUME NEW o \in Objects, NEW p \in Objects, NEW s, s \in Contents[o], s \in Contents[p]
  PROVE  o = p
<1>1. PICK i \in DOMAIN Fields[o] : s = Fields[o][i]
  BY Zenon DEF Contents
<1>2. PICK j \in DOMAIN Fields[p] : s = Fields[p][j]
  BY Zenon DEF Contents
<1>3. Fields[o][i] = Fields[p][j]
  BY Zenon, <1>1, <1>2
<1> QED
  BY Zenon, <1>3, OneHolder

(* The slots at different indices of an array are different. *)
LEMMA OneIndex ==
  ASSUME NEW a \in Objects, Fields[a] \in Seq(Slots), NEW n \in Nat, n <= Len(Fields[a])
  PROVE  \A i, j \in 1..n : Fields[a][i] = Fields[a][j] => i = j
<1>1. \A i \in 1..n : i \in DOMAIN Fields[a]
  OBVIOUS
<1> QED
  BY Zenon, <1>1, OneHolder

(* Nobody has pushed the slots of a chunk before, and somebody has after:  *)
(* the length of the old copy says which slots are left.                   *)
LEMMA ChunkLeft ==
  ASSUME NEW a \in Objects, Fields[a] \in Seq(Slots), chunk_start(a) \in 0..Len(Fields[a]),
         length[a] \in Nat, length[a] <= Len(Fields[a]),
         length'[a] = IF chunk_start(a) > 0 THEN chunk_start(a) ELSE Len(Fields[a]),
         forwardee[a] # NULL, UNCHANGED forwardee, ~ Copying(a), ~ Copying(a)',
         Rest(a), Rest(a)' <=> chunk_start(a) > 0
  PROVE  /\ \A s \in Chunk(a) : Left(a, s) /\ ~ Left(a, s)'
         /\ \A s : s \notin Chunk(a) => (Left(a, s)' <=> Left(a, s))
<1>1. PICK b \in Nat, n \in Nat : b = chunk_start(a) /\ n = length[a]
  OBVIOUS
<1>2. b <= n
  BY <1>1, PromotionAssumption DEF chunk_start, min_array_size
<1>3. /\ \A i \in DOMAIN Fields[a] : Unpushed(a, i) <=> i <= n
      /\ \A i \in DOMAIN Fields[a] : Unpushed(a, i)' <=> b > 0 /\ i <= b
  BY <1>1 DEF Unpushed
<1>4. /\ \A i \in 1..n : i \in DOMAIN Fields[a] /\ i <= n
      /\ \A i \in 1..b : i \in DOMAIN Fields[a] /\ i <= b /\ b > 0
      /\ \A i \in DOMAIN Fields[a] : i <= n => i \in 1..n
      /\ \A i \in DOMAIN Fields[a] : i <= b => i \in 1..b
  BY <1>1, <1>2
<1>5. \A s : /\ Left(a, s) <=> \E i \in 1..n : Fields[a][i] = s
             /\ Left(a, s)' <=> \E i \in 1..b : Fields[a][i] = s
  BY Zenon, <1>3, <1>4 DEF Left
<1>6. \A i, j \in 1..n : Fields[a][i] = Fields[a][j] => i = j
  BY Zenon, <1>1, OneIndex
<1>7. Chunk(a) = {Fields[a][i] : i \in (b + 1)..n}
  BY Zenon, <1>1 DEF Chunk
<1>8. /\ \A i \in (b + 1)..n : i \in 1..n /\ i \notin 1..b
      /\ \A i \in 1..b : i \in 1..n
      /\ \A i \in 1..n : i \in 1..b \/ i \in (b + 1)..n
  BY <1>2
<1>9. \A s \in Chunk(a) : Left(a, s) /\ ~ Left(a, s)'
  <2> SUFFICES ASSUME NEW s \in Chunk(a) PROVE Left(a, s) /\ ~ Left(a, s)'
    BY Zenon
  <2>1. PICK i \in (b + 1)..n : s = Fields[a][i]
    BY Zenon, <1>7
  <2>2. \A j \in 1..b : Fields[a][j] # s
    BY Zenon, <2>1, <1>6, <1>8
  <2> QED
    BY Zenon, <2>1, <2>2, <1>5, <1>8
<1>10. \A s : s \notin Chunk(a) => (Left(a, s)' <=> Left(a, s))
  BY Zenon, <1>5, <1>7, <1>8
<1> QED
  BY Zenon, <1>9, <1>10

(* Nothing is forwarded, no array changes hands: the objects keep what     *)
(* they have.                                                              *)
LEMMA LeftSame ==
  ASSUME UNCHANGED <<forwardee, length>>,
         \A o \in Objects : Copying(o)' <=> Copying(o),
         \A o \in Objects : Rest(o)' <=> Rest(o)
  PROVE  \A o \in Objects : \A s : Left(o, s)' <=> Left(o, s)
BY Zenon DEF Left, Unpushed

-----------------------------------------------------------------------------
(* Arrays.                                                                 *)

(* The tasks of a step: some are taken from one stack, some are pushed on  *)
(* one stack.                                                              *)
Flow(k0, w0, out, k1, w1, in) ==
  \A k \in Kinds, w \in Workers :
    Stack(k, w)' = (Stack(k, w) \ (IF k = k0 /\ w = w0 THEN out ELSE {}))
                     \cup (IF k = k1 /\ w = w1 THEN in ELSE {})

(* Slots are taken and pushed, nothing is copied. *)
LEMMA ArraysKept ==
  ASSUME ArrayInv, NEW k0 \in Kinds, NEW w0 \in Workers, NEW out, NEW k1 \in Kinds, NEW w1 \in Workers, NEW in,
         Flow(k0, w0, out, k1, w1, in),
         \A t \in out : t.array = NULL,
         \A t \in in : t.array = NULL /\ t.slot \in Slots,
         \A w \in Workers : pc'[w] = "idle" => local'[w].slot = NULL,
         \A w \in Workers : pc'[w] = "contents" => pc[w] = "contents" /\ local'[w].slot = local[w].slot,
         UNCHANGED <<forwardee, length>>
  PROVE  /\ ArrayInv'
         /\ \A o \in Objects : Rest(o)' <=> Rest(o)
<1>1. \A k \in Kinds, w \in Workers : \A t \in Stack(k, w)' : t \in Stack(k, w) \/ t \in in
  BY DEF Flow
<1>2. \A k \in Kinds, w \in Workers : \A t \in Stack(k, w) : t \in Stack(k, w)' \/ t \in out
  BY DEF Flow
<1>3. NULL \notin Objects
  BY Zenon, PromotionAssumption
<1>4. Shaped'
  BY Zenon, <1>1 DEF ArrayInv, Shaped
<1>5. \A o \in Objects : Rest(o)' <=> Rest(o)
  BY <1>1, <1>2, <1>3 DEF Rest
<1>6. \A w \in Workers : pc'[w] = "contents" => object(w)' = object(w)
  BY Zenon DEF object
<1>7. \A o \in Objects : Copying(o)' => Copying(o)
  BY Zenon, <1>6 DEF Copying
<1>8. ArrayOnce'
  <2>1. \A k, l \in Kinds, w, v \in Workers : \A t \in Stack(k, w)', u \in Stack(l, v)' :
          t.array # NULL /\ t.array = u.array => k = l /\ w = v /\ t = u
    BY <1>1 DEF ArrayInv, ArrayOnce
  <2>2. \A w, v \in Workers :
          pc'[w] = "contents" /\ pc'[v] = "contents" /\ object(w)' = object(v)' => w = v
    BY Zenon, <1>6 DEF ArrayInv, ArrayOnce
  <2>3. \A o \in Objects : Copying(o)' => ~ Rest(o)'
    BY Zenon, <1>5, <1>7 DEF ArrayInv, ArrayOnce
  <2>4. \A o \in Objects : forwardee'[o] = NULL \/ Copying(o)' => length'[o] = Len(Fields[o])
    BY Zenon, <1>7 DEF ArrayInv, ArrayOnce
  <2> QED
    BY Zenon, <2>1, <2>2, <2>3, <2>4 DEF ArrayOnce
<1> QED
  BY Zenon, <1>4, <1>5, <1>8 DEF ArrayInv

(* Stacks that stay as they are. *)
LEMMA NoFlow ==
  ASSUME UNCHANGED stacks, NEW w \in Workers
  PROVE  Flow("bda", w, {}, "bda", w, {})
BY Zenon DEF Flow, Stack, stacks

(* A chunk: the task of the array goes, or comes back for the rest. *)
LEMMA ArraysChunk ==
  ASSUME IInv, ArrayInv, NEW k0 \in Kinds, NEW w0 \in Workers, NEW k1 \in Kinds, NEW w1 \in Workers,
         NEW a \in Objects, NEW c, NEW t0 \in Stack(k0, w0), t0.array = a,
         Flow(k0, w0, {t0}, k1, w1, ChunkTasks(a, c)),
         ShrinkArray(a), UNCHANGED <<forwardee, pc, local>>
  PROVE  /\ ArrayInv'
         /\ \A o \in Objects : o # a => (Rest(o)' <=> Rest(o))
         /\ Rest(a)' <=> chunk_start(a) > 0
         /\ \A o \in Objects : Copying(o)' <=> Copying(o)
<1>1. \A u \in ChunkTasks(a, c) : \/ u.slot \in Slots /\ u.array = NULL
                                  \/ u = ArrayTask(a, c) /\ chunk_start(a) > 0
  <2>1. Chunk(a) \subseteq Slots
    <3>1. forwardee[a] # NULL
      BY Zenon, PromotionAssumption DEF IInv, StacksOK, TaskOK, Stack, Kinds
    <3> QED
      BY Zenon, <3>1, ChunkReached, ReachedSlots DEF IInv
  <2> QED
    BY <2>1 DEF ChunkTasks, Unknown, Task
<1>2. chunk_start(a) > 0 => ArrayTask(a, c) \in ChunkTasks(a, c)
  BY Zenon DEF ChunkTasks
<1>3. ArrayTask(a, c).array = a /\ ArrayTask(a, c).slot = NULL /\ NULL \notin Objects /\ a # NULL
  BY Zenon, PromotionAssumption DEF ArrayTask
<1>4. \A k \in Kinds, w \in Workers : \A t \in Stack(k, w)' :
        \/ t \in Stack(k, w) /\ t.array # a
        \/ k = k1 /\ w = w1 /\ t \in ChunkTasks(a, c)
  BY <1>3 DEF Flow, ArrayInv, ArrayOnce
<1>5. \A k \in Kinds, w \in Workers : \A t \in Stack(k, w) : t \in Stack(k, w)' \/ t = t0
  BY DEF Flow
<1>6. \A t \in ChunkTasks(a, c) : t \in Stack(k1, w1)'
  BY Zenon DEF Flow
<1>7. Shaped'
  BY Zenon, <1>1, <1>3, <1>4 DEF ArrayInv, Shaped
<1>8. \A o \in Objects : o # a => (Rest(o)' <=> Rest(o))
  BY Zenon, <1>1, <1>3, <1>4, <1>5 DEF Rest
<1>9. Rest(a)' <=> chunk_start(a) > 0
  BY Zenon, <1>1, <1>2, <1>3, <1>4, <1>6 DEF Rest
<1>10. \A o \in Objects : Copying(o)' <=> Copying(o)
  BY Zenon DEF Copying, object
<1>11. Rest(a) /\ ~ Copying(a) /\ forwardee[a] # NULL
  BY ZenonT(30), PromotionAssumption DEF Rest, ArrayInv, ArrayOnce, IInv, StacksOK, TaskOK, Stack, Kinds
<1>12. ArrayOnce'
  <2>1. \A k, l \in Kinds, w, v \in Workers : \A t \in Stack(k, w)', u \in Stack(l, v)' :
          t.array # NULL /\ t.array = u.array => k = l /\ w = v /\ t = u
    BY <1>1, <1>3, <1>4 DEF ArrayInv, ArrayOnce
  <2>2. \A w, v \in Workers :
          pc'[w] = "contents" /\ pc'[v] = "contents" /\ object(w)' = object(v)' => w = v
    BY Zenon DEF ArrayInv, ArrayOnce, object
  <2>3. \A o \in Objects : Copying(o)' => ~ Rest(o)'
    BY Zenon, <1>8, <1>10, <1>11 DEF ArrayInv, ArrayOnce
  <2>4. \A o \in Objects : forwardee'[o] = NULL \/ Copying(o)' => length'[o] = Len(Fields[o])
    BY Zenon, <1>10, <1>11 DEF ArrayInv, ArrayOnce, ShrinkArray, IInv, ArraysOK
  <2> QED
    BY Zenon, <2>1, <2>2, <2>3, <2>4 DEF ArrayOnce
<1> QED
  BY Zenon, <1>7, <1>8, <1>9, <1>10, <1>12 DEF ArrayInv

(* The winner of the mark has the object to itself. *)
LEMMA ArraysWon ==
  ASSUME IInv, ArrayInv, NEW w \in Workers, CasWon(w)
  PROVE  /\ ArrayInv'
         /\ \A o \in Objects : Rest(o)' <=> Rest(o)
         /\ \A o \in Objects : Copying(o)' <=> Copying(o) \/ o = object(w)
         /\ \A o \in Objects : forwardee'[o] = NULL <=> forwardee[o] = NULL /\ o # object(w)
<1> DEFINE o == object(w)
<1>1. /\ pc[w] = "cas" /\ forwardee[o] = NULL
      /\ forwardee' = [forwardee EXCEPT ![o] = local[w].new_obj]
      /\ pc' = [pc EXCEPT ![w] = "contents"]
      /\ UNCHANGED <<length, local, stacks>>
  BY Zenon DEF CasWon
<1>2. o \in Objects /\ local[w].new_obj # NULL
  BY Zenon, <1>1, ObjectOK, NullAssumption DEF IInv, LocalsOK, LocalOK
<1>3. \A k \in Kinds, v \in Workers : Stack(k, v)' = Stack(k, v)
  BY Zenon, <1>1 DEF Stack, stacks
<1>4. \A v \in Workers : object(v)' = object(v)
  BY Zenon, <1>1 DEF object
<1>5. \A v \in Workers : pc'[v] = IF v = w THEN "contents" ELSE pc[v]
  BY Zenon, <1>1 DEF IInv, LocalsOK
<1>6. \A p \in Objects : Copying(p)' <=> Copying(p) \/ p = o
  BY Zenon, <1>4, <1>5 DEF Copying
<1>7. \A p \in Objects : Rest(p)' <=> Rest(p)
  BY Zenon, <1>3 DEF Rest
<1>8. \A p \in Objects : forwardee'[p] = NULL <=> forwardee[p] = NULL /\ p # o
  BY Zenon, <1>1, <1>2 DEF IInv, Heap
<1>9. ~ Rest(o) /\ ~ Copying(o)
  <2>1. ~ Rest(o)
    BY Zenon, <1>1, <1>2, PromotionAssumption DEF Rest, IInv, StacksOK, TaskOK, Stack
  <2>2. ~ Copying(o)
    BY Zenon, <1>1 DEF Copying, IInv, LocalsOK, LocalOK
  <2> QED
    BY Zenon, <2>1, <2>2
<1>10. Shaped'
  BY <1>1, <1>3, <1>5 DEF ArrayInv, Shaped
<1>11. ArrayOnce'
  <2>1. \A k, l \in Kinds, v, x \in Workers : \A t \in Stack(k, v)', u \in Stack(l, x)' :
          t.array # NULL /\ t.array = u.array => k = l /\ v = x /\ t = u
    BY <1>3 DEF ArrayInv, ArrayOnce
  <2>2. \A v, x \in Workers :
          pc'[v] = "contents" /\ pc'[x] = "contents" /\ object(v)' = object(x)' => v = x
    BY Zenon, <1>4, <1>5, <1>9 DEF ArrayInv, ArrayOnce, Copying
  <2>3. \A p \in Objects : Copying(p)' => ~ Rest(p)'
    BY Zenon, <1>6, <1>7, <1>9 DEF ArrayInv, ArrayOnce
  <2>4. \A p \in Objects : forwardee'[p] = NULL \/ Copying(p)' => length'[p] = Len(Fields[p])
    BY Zenon, <1>1, <1>6, <1>8 DEF ArrayInv, ArrayOnce
  <2> QED
    BY Zenon, <2>1, <2>2, <2>3, <2>4 DEF ArrayOnce
<1> QED
  BY Zenon, <1>6, <1>7, <1>8, <1>10, <1>11 DEF ArrayInv

(* The winner pushes the contents of its object or one task for them. *)
LEMMA ArraysPushed ==
  ASSUME IInv, ArrayInv, NEW w \in Workers, pc[w] = "contents",
         NEW o \in Objects, o = object(w),
         NEW k1 \in Kinds, NEW in, Flow(k1, w, {}, k1, w, in),
         NEW chunks \in BOOLEAN, NEW c,
         IF chunks THEN in = {ArrayTask(o, c)} ELSE \A t \in in : t.array = NULL /\ t.slot \in Slots,
         pc' = [pc EXCEPT ![w] = "idle"], local' = [local EXCEPT ![w] = NoLocals],
         UNCHANGED <<forwardee, length>>
  PROVE  /\ ArrayInv'
         /\ \A p \in Objects : p # o => (Rest(p)' <=> Rest(p))
         /\ Rest(o)' <=> chunks
         /\ \A p \in Objects : Copying(p)' <=> Copying(p) /\ p # o
<1>1. Copying(o) /\ ~ Rest(o) /\ length[o] = Len(Fields[o]) /\ forwardee[o] # NULL
  <2>1. Copying(o)
    BY Zenon DEF Copying
  <2> QED
    BY Zenon, <2>1 DEF ArrayInv, ArrayOnce, IInv, LocalsOK, LocalOK
<1>2. ArrayTask(o, c).array = o /\ ArrayTask(o, c).slot = NULL /\ NULL \notin Objects
  BY Zenon, PromotionAssumption DEF ArrayTask
<1>3. \A v \in Workers : /\ pc'[v] = IF v = w THEN "idle" ELSE pc[v]
                         /\ local'[v] = IF v = w THEN NoLocals ELSE local[v]
  BY Zenon DEF IInv, LocalsOK
<1>4. \A v \in Workers : v # w => object(v)' = object(v)
  BY Zenon, <1>3 DEF object
<1>5. \A p \in Objects : Copying(p)' <=> Copying(p) /\ p # o
  BY <1>3, <1>4 DEF Copying, ArrayInv, ArrayOnce
<1>6. \A k \in Kinds, v \in Workers : \A t \in Stack(k, v)' :
        t \in Stack(k, v) \/ (k = k1 /\ v = w /\ t \in in)
  BY ZenonT(30) DEF Flow
<1>7. /\ \A k \in Kinds, v \in Workers : \A t \in Stack(k, v) : t \in Stack(k, v)'
      /\ \A t \in in : t \in Stack(k1, w)'
  BY DEF Flow
<1>8. \A k \in Kinds, v \in Workers : \A t \in Stack(k, v) : t.array # o
  BY Zenon, <1>1 DEF Rest
<1>9. in = {ArrayTask(o, c)} \/ \A t \in in : t.array = NULL /\ t.slot \in Slots
  BY Zenon
<1>10. Shaped'
  BY <1>1, <1>2, <1>3, <1>6, <1>9 DEF ArrayInv, Shaped, NoLocals
<1>11. \A p \in Objects : p # o => (Rest(p)' <=> Rest(p))
  BY Zenon, <1>2, <1>6, <1>7, <1>9 DEF Rest
<1>12. Rest(o)' <=> chunks
  <2>1. CASE chunks
    BY Zenon, <2>1, <1>2, <1>7 DEF Rest
  <2>2. CASE ~ chunks
    BY Zenon, <1>1, <1>2, <1>6, <1>8, <2>2 DEF Rest
  <2> QED
    BY Zenon, <2>1, <2>2
<1>13. ArrayOnce'
  <2>1. \A k, l \in Kinds, v, x \in Workers : \A t \in Stack(k, v)', u \in Stack(l, x)' :
          t.array # NULL /\ t.array = u.array => k = l /\ v = x /\ t = u
    BY <1>2, <1>6, <1>8, <1>9 DEF ArrayInv, ArrayOnce
  <2>2. \A v, x \in Workers :
          pc'[v] = "contents" /\ pc'[x] = "contents" /\ object(v)' = object(x)' => v = x
    BY <1>3, <1>4 DEF ArrayInv, ArrayOnce
  <2>3. \A p \in Objects : Copying(p)' => ~ Rest(p)'
    BY Zenon, <1>5, <1>11 DEF ArrayInv, ArrayOnce
  <2>4. \A p \in Objects : forwardee'[p] = NULL \/ Copying(p)' => length'[p] = Len(Fields[p])
    BY Zenon, <1>5 DEF ArrayInv, ArrayOnce
  <2> QED
    BY Zenon, <2>1, <2>2, <2>3, <2>4 DEF ArrayOnce
<1> QED
  BY Zenon, <1>5, <1>10, <1>11, <1>12, <1>13 DEF ArrayInv

-----------------------------------------------------------------------------
(* Slots.                                                                  *)

(* The references that a chunk of an array pushes *)
LEMMA ChunkUnknown ==
  ASSUME NEW a \in Objects, NEW c, Chunk(a) \subseteq Slots
  PROVE  \A t : t \in ChunkTasks(a, c) /\ t.slot \in Slots <=> t \in Unknown(Chunk(a), c)
BY PromotionAssumption DEF ChunkTasks, Unknown, Task, ArrayTask

(* The tasks in a set that are slots are those for the slots of S. *)
Yields(in, S, c) == \A t : t \in in /\ t.slot \in Slots <=> t \in Unknown(S, c)

(* What waits on the stacks after a step that takes the tasks of a set     *)
(* from one stack and pushes the slots of S                                *)
StackMoves(k0, w0, out, k1, w1, S, c) ==
  \A k \in Kinds : \A p, t : \A s \in Slots :
    Waits(k, p, t, s)' <=> \/ Waits(k, p, t, s) /\ ~ (k = k0 /\ p = w0 /\ t \in out)
                           \/ k = k1 /\ p = w1 /\ s \in S \ Known(S) /\ t = Task(s, c)

(* Where slots wait on stacks after a step that pushes the slots of S. *)
LEMMA StackWaits ==
  ASSUME NEW k0 \in Kinds, NEW w0 \in Workers, NEW out, NEW k1 \in Kinds, NEW w1 \in Workers, NEW in,
         Flow(k0, w0, out, k1, w1, in),
         NEW S, S \subseteq Slots, NEW c, Yields(in, S, c)
  PROVE  StackMoves(k0, w0, out, k1, w1, S, c)
<1> SUFFICES ASSUME NEW k \in Kinds, NEW p, NEW t, NEW s \in Slots
             PROVE  Waits(k, p, t, s)' <=> \/ Waits(k, p, t, s) /\ ~ (k = k0 /\ p = w0 /\ t \in out)
                                           \/ k = k1 /\ p = w1 /\ s \in S \ Known(S) /\ t = Task(s, c)
  BY Zenon DEF StackMoves
<1>1. t \in in /\ t.slot = s <=> s \in S \ Known(S) /\ t = Task(s, c)
  <2>1. t \in in /\ t.slot = s <=> t \in Unknown(S, c) /\ t.slot = s
    BY Zenon DEF Yields
  <2> QED
    BY <2>1 DEF Unknown, Task
<1>2. k # "root" /\ k # "hand" /\ k # "object"
  BY Zenon DEF Kinds
<1>3. /\ Waits(k, p, t, s)' <=> p \in Workers /\ t \in Stack(k, p)' /\ t.slot = s
      /\ Waits(k, p, t, s) <=> p \in Workers /\ t \in Stack(k, p) /\ t.slot = s
  BY Zenon, <1>2 DEF Waits
<1> QED
  BY <1>1, <1>3 DEF Flow

(* Where the slots of a chunk wait after it was taken *)
LEMMA ChunkWaits ==
  ASSUME NEW k0 \in Kinds, NEW w0 \in Workers, NEW out, NEW k1 \in Kinds, NEW w \in Workers,
         NEW a \in Objects, NEW c, Chunk(a) \subseteq Slots,
         Flow(k0, w0, out, k1, w, ChunkTasks(a, c))
  PROVE  StackMoves(k0, w0, out, k1, w, Chunk(a), c)
<1>1. Yields(ChunkTasks(a, c), Chunk(a), c)
  BY Zenon, ChunkUnknown DEF Yields
<1> QED
  BY Zenon, <1>1, StackWaits

(* There is no other place to wait. *)
LEMMA WaitKinds ==
  /\ \A k, p, t, s : Waits(k, p, t, s) => k \in Kinds \/ k = "root" \/ k = "hand" \/ k = "object"
  /\ \A k, p, t, s : Waits(k, p, t, s)' => k \in Kinds \/ k = "root" \/ k = "hand" \/ k = "object"
BY DEF Waits

(* What it is to wait among the roots, in a hand and in an object *)
LEMMA WaitsAt ==
  /\ \A p, t, s : Waits("root", p, t, s) <=> p = NULL /\ t = NULL /\ s \in refs \cup olds \cup plains
  /\ \A p, t, s : Waits("hand", p, t, s) <=>
       p \in Workers /\ t = NULL /\ pc[p] # "idle" /\ local[p].slot = s
  /\ \A p, t, s : Waits("object", p, t, s) <=> p \in Objects /\ t = NULL /\ Left(p, s)
<1>1. "root" \notin Kinds /\ "hand" \notin Kinds /\ "object" \notin Kinds
  BY Zenon DEF Kinds
<1> QED
  BY Zenon, <1>1 DEF Waits

(* The same after a step *)
LEMMA WaitsAtNext ==
  /\ \A p, t, s : Waits("root", p, t, s)' <=> p = NULL /\ t = NULL /\ s \in refs' \cup olds' \cup plains'
  /\ \A p, t, s : Waits("hand", p, t, s)' <=>
       p \in Workers /\ t = NULL /\ pc'[p] # "idle" /\ local'[p].slot = s
  /\ \A p, t, s : Waits("object", p, t, s)' <=> p \in Objects /\ t = NULL /\ Left(p, s)'
<1>1. "root" \notin Kinds /\ "hand" \notin Kinds /\ "object" \notin Kinds
  BY Zenon DEF Kinds
<1> QED
  BY Zenon, <1>1 DEF Waits

(* What it is to wait on a stack *)
LEMMA WaitsOn ==
  ASSUME NEW k \in Kinds, NEW p, NEW t, NEW s
  PROVE  /\ Waits(k, p, t, s) <=> p \in Workers /\ t \in Stack(k, p) /\ t.slot = s
         /\ Waits(k, p, t, s)' <=> p \in Workers /\ t \in Stack(k, p)' /\ t.slot = s
<1>1. k # "root" /\ k # "hand" /\ k # "object"
  BY Zenon DEF Kinds
<1> QED
  BY Zenon, <1>1 DEF Waits

(* The roots are left alone. *)
LEMMA RootsWait ==
  ASSUME UNCHANGED roots
  PROVE  \A p, t, s : Waits("root", p, t, s)' <=> Waits("root", p, t, s)
<1>1. refs' = refs /\ olds' = olds /\ plains' = plains
  BY Zenon DEF roots
<1> SUFFICES ASSUME NEW p, NEW t, NEW s
             PROVE  Waits("root", p, t, s)' <=> Waits("root", p, t, s)
  BY Zenon
<1>2. Waits("root", p, t, s) <=> p = NULL /\ t = NULL /\ s \in refs \cup olds \cup plains
  BY Zenon, WaitsAt
<1>3. Waits("root", p, t, s)' <=> p = NULL /\ t = NULL /\ s \in refs' \cup olds' \cup plains'
  BY Zenon, WaitsAtNext
<1> QED
  BY Zenon, <1>1, <1>2, <1>3

(* What workers have in their hands stays there. *)
LEMMA HandsWait ==
  ASSUME \A v \in Workers : (pc'[v] = "idle" <=> pc[v] = "idle") /\ local'[v].slot = local[v].slot
  PROVE  \A p, t, s : Waits("hand", p, t, s)' <=> Waits("hand", p, t, s)
<1> SUFFICES ASSUME NEW p, NEW t, NEW s
             PROVE  Waits("hand", p, t, s)' <=> Waits("hand", p, t, s)
  BY Zenon
<1>1. Waits("hand", p, t, s) <=> p \in Workers /\ t = NULL /\ pc[p] # "idle" /\ local[p].slot = s
  BY Zenon, WaitsAt
<1>2. Waits("hand", p, t, s)' <=> p \in Workers /\ t = NULL /\ pc'[p] # "idle" /\ local'[p].slot = s
  BY Zenon, WaitsAtNext
<1> QED
  BY Zenon, <1>1, <1>2

(* The objects keep what they have. *)
LEMMA ObjectsWait ==
  ASSUME \A o \in Objects : \A s : Left(o, s)' <=> Left(o, s)
  PROVE  \A p, t, s : Waits("object", p, t, s)' <=> Waits("object", p, t, s)
<1> SUFFICES ASSUME NEW p, NEW t, NEW s
             PROVE  Waits("object", p, t, s)' <=> Waits("object", p, t, s)
  BY Zenon
<1>1. Waits("object", p, t, s) <=> p \in Objects /\ t = NULL /\ Left(p, s)
  BY Zenon, WaitsAt
<1>2. Waits("object", p, t, s)' <=> p \in Objects /\ t = NULL /\ Left(p, s)'
  BY Zenon, WaitsAtNext
<1> QED
  BY Zenon, <1>1, <1>2

(* The stacks are left alone. *)
LEMMA StacksWait ==
  ASSUME \A k \in Kinds, v \in Workers : Stack(k, v)' = Stack(k, v)
  PROVE  \A k \in Kinds : \A p, t, s : Waits(k, p, t, s)' <=> Waits(k, p, t, s)
<1> SUFFICES ASSUME NEW k \in Kinds, NEW p, NEW t, NEW s
             PROVE  Waits(k, p, t, s)' <=> Waits(k, p, t, s)
  BY Zenon
<1>1. Waits(k, p, t, s) <=> p \in Workers /\ t \in Stack(k, p) /\ t.slot = s
  BY Zenon, WaitsOn
<1>2. Waits(k, p, t, s)' <=> p \in Workers /\ t \in Stack(k, p)' /\ t.slot = s
  BY Zenon, WaitsOn
<1> QED
  BY Zenon, <1>1, <1>2

(* Everything is left alone. *)
LEMMA AllWait ==
  ASSUME UNCHANGED roots,
         \A v \in Workers : (pc'[v] = "idle" <=> pc[v] = "idle") /\ local'[v].slot = local[v].slot,
         \A o \in Objects : \A s : Left(o, s)' <=> Left(o, s),
         \A k \in Kinds, v \in Workers : Stack(k, v)' = Stack(k, v)
  PROVE  \A k, p, t, s : Waits(k, p, t, s)' <=> Waits(k, p, t, s)
<1>1. /\ \A p, t, s : Waits("root", p, t, s)' <=> Waits("root", p, t, s)
      /\ \A p, t, s : Waits("hand", p, t, s)' <=> Waits("hand", p, t, s)
      /\ \A p, t, s : Waits("object", p, t, s)' <=> Waits("object", p, t, s)
      /\ \A k \in Kinds : \A p, t, s : Waits(k, p, t, s)' <=> Waits(k, p, t, s)
  BY Zenon, RootsWait, HandsWait, ObjectsWait, StacksWait
<1> QED
  BY Zenon, <1>1, WaitKinds

(* A worker takes slot s0 from where it waits: it is updated, or goes into *)
(* the worker's hand.                                                      *)
LEMMA SlotsBegin ==
  ASSUME IInv, SlotInv, NEW w \in Workers, pc[w] = "idle", NEW s0 \in Slots, NEW c,
         NEW kind \in {"container", "element", "plain"}, Begin(w, s0, c, kind),
         UNCHANGED <<forwardee, length>>,
         \A o \in Objects : Rest(o)' <=> Rest(o),
         NEW k0 \in Kinds \cup {"root"}, NEW p0, NEW t0, Waits(k0, p0, t0, s0),
         \A k \in Kinds \cup {"root"} : \A p, t : \A s \in Slots :
           Waits(k, p, t, s)' <=> Waits(k, p, t, s) /\ ~ (k = k0 /\ p = p0 /\ t = t0 /\ s = s0)
  PROVE  SlotInv'
<1> USE DEF Kinds
<1>1. k0 # "hand" /\ k0 # "object"
  BY Zenon
<1>2. ASSUME \A o \in Objects : Copying(o)' <=> Copying(o)
      PROVE  \A p, t, s : Waits("object", p, t, s)' <=> Waits("object", p, t, s)
  <2>1. \A o \in Objects : \A s : Left(o, s)' <=> Left(o, s)
    BY Zenon, <1>2, LeftSame
  <2> QED
    BY Zenon, <2>1, ObjectsWait
<1>3. CASE forwardee[Target[s0]] # NULL
  <2>1. Store({}, {s0}, cards) /\ UNCHANGED <<pc, local>>
    BY Zenon, <1>3 DEF Begin
  <2>2. \A o \in Objects : Copying(o)' <=> Copying(o)
    BY Zenon, <2>1 DEF Copying, object
  <2>3. \A p, t, s : Waits("hand", p, t, s)' <=> Waits("hand", p, t, s)
    BY Zenon, <2>1, HandsWait
  <2>4. slot'[s0] # NULL /\ \A s \in Slots : s # s0 => slot'[s] = slot[s]
    BY Zenon, <1>3, <2>1 DEF Store
  <2>5. \A k, p, t : \A s \in Slots :
          Waits(k, p, t, s)' <=> Waits(k, p, t, s) /\ ~ (k = k0 /\ p = p0 /\ t = t0 /\ s = s0)
    <3> SUFFICES ASSUME NEW k, NEW p, NEW t, NEW s \in Slots
                 PROVE  Waits(k, p, t, s)' <=> Waits(k, p, t, s) /\ ~ (k = k0 /\ p = p0 /\ t = t0 /\ s = s0)
      BY Zenon
    <3>1. CASE k = "hand"
      BY Zenon, <1>1, <2>3, <3>1
    <3>2. CASE k = "object"
      BY Zenon, <1>1, <1>2, <2>2, <3>2
    <3>3. CASE k # "hand" /\ k # "object"
      BY Zenon, <3>3, WaitKinds
    <3> QED
      BY Zenon, <3>1, <3>2, <3>3
  <2>6. \A s \in Slots : s # s0 => SlotOnce(s)'
    BY Zenon, <2>4, <2>5, Stays DEF SlotInv
  <2>7. SlotOnce(s0)'
    BY ZenonT(30), <2>4, <2>5, Updated DEF SlotInv
  <2> QED
    BY Zenon, <2>6, <2>7 DEF SlotInv
<1>4. CASE forwardee[Target[s0]] = NULL
  <2>1. /\ pc' = [pc EXCEPT ![w] = kind]
        /\ local' = [local EXCEPT ![w] = [NoLocals EXCEPT !.slot = s0, !.container = c]]
        /\ UNCHANGED slot
    BY Zenon, <1>4 DEF Begin
  <2>2. \A v \in Workers : v # w => pc'[v] = pc[v] /\ local'[v] = local[v] /\ object(v)' = object(v)
    BY Zenon, <2>1 DEF IInv, LocalsOK, object
  <2>3. pc'[w] = kind /\ local'[w].slot = s0
    BY Zenon, <2>1 DEF IInv, LocalsOK, NoLocals
  <2>4. \A o \in Objects : Copying(o)' <=> Copying(o)
    BY Zenon, <2>2, <2>3 DEF Copying
  <2>5. \A p, t, s : Waits("hand", p, t, s)' <=> Waits("hand", p, t, s) \/ (p = w /\ t = NULL /\ s = s0)
    <3> SUFFICES ASSUME NEW p, NEW t, NEW s
                 PROVE  Waits("hand", p, t, s)' <=> Waits("hand", p, t, s) \/ (p = w /\ t = NULL /\ s = s0)
      BY Zenon
    <3>1. Waits("hand", p, t, s) <=> p \in Workers /\ t = NULL /\ pc[p] # "idle" /\ local[p].slot = s
      BY Zenon, WaitsAt
    <3>2. Waits("hand", p, t, s)' <=> p \in Workers /\ t = NULL /\ pc'[p] # "idle" /\ local'[p].slot = s
      BY Zenon, WaitsAtNext
    <3>3. CASE p = w
      BY Zenon, <2>3, <3>1, <3>2, <3>3
    <3>4. CASE p # w
      BY Zenon, <2>2, <3>1, <3>2, <3>4
    <3> QED
      BY Zenon, <3>3, <3>4
  <2>6. \A k, p, t : \A s \in Slots :
          Waits(k, p, t, s)' <=> \/ k = "hand" /\ p = w /\ t = NULL /\ s = s0
                                 \/ Waits(k, p, t, s) /\ ~ (k = k0 /\ p = p0 /\ t = t0 /\ s = s0)
    <3> SUFFICES ASSUME NEW k, NEW p, NEW t, NEW s \in Slots
                 PROVE  Waits(k, p, t, s)' <=> \/ k = "hand" /\ p = w /\ t = NULL /\ s = s0
                                               \/ Waits(k, p, t, s) /\ ~ (k = k0 /\ p = p0 /\ t = t0 /\ s = s0)
      BY Zenon
    <3>1. CASE k = "hand"
      BY Zenon, <1>1, <2>5, <3>1
    <3>2. CASE k = "object"
      BY Zenon, <1>1, <1>2, <2>4, <3>2
    <3>3. CASE k # "hand" /\ k # "object"
      BY Zenon, <3>3, WaitKinds
    <3> QED
      BY Zenon, <3>1, <3>2, <3>3
  <2>7. \A s \in Slots : s # s0 => SlotOnce(s)'
    BY Zenon, <2>1, <2>6, Stays DEF SlotInv
  <2>8. SlotOnce(s0)'
    <3>1. Waits("hand", w, NULL, s0)'
      BY Zenon, <2>6
    <3> QED
      BY <2>1, <2>6, <3>1, Moves DEF SlotInv
  <2> QED
    BY Zenon, <2>7, <2>8 DEF SlotInv
<1> QED
  BY Zenon, <1>3, <1>4

(* The slots of S leave the place where they wait: those with a known      *)
(* target are updated, the others go to a stack.  The slots of H, in the   *)
(* hand of the worker, are updated.                                        *)
Pushed(w, S, H, k0, p0, t0, k1, c) ==
  /\ S \subseteq Slots /\ H \subseteq Slots /\ k0 # "hand"
  /\ \A s \in S : Waits(k0, p0, t0, s) /\ ~ Waits(k0, p0, t0, s)'
  /\ \A s \in H : Waits("hand", w, NULL, s) /\ ~ Waits("hand", w, NULL, s)' /\ slot'[s] # NULL
  /\ \A s \in Known(S) : slot'[s] # NULL
  /\ \A s \in Slots : s \notin Known(S) \cup H => slot'[s] = slot[s]
  /\ \A s \in S \ Known(S) : Waits(k1, w, Task(s, c), s)'
  /\ \A s \in Slots : \A k, p, t : Waits(k, p, t, s)' =>
       \/ Waits(k, p, t, s)
       \/ s \in S \ Known(S) /\ k = k1 /\ p = w /\ t = Task(s, c)
  /\ \A s \in Slots : s \notin S \cup H => \A k, p, t : Waits(k, p, t, s) => Waits(k, p, t, s)'

(* Such a step leaves every slot in one place. *)
LEMMA SlotsPushed ==
  ASSUME SlotInv, NEW w \in Workers, NEW S, NEW H, NEW k0, NEW p0, NEW t0, NEW k1, NEW c,
         Pushed(w, S, H, k0, p0, t0, k1, c)
  PROVE  SlotInv'
<1> USE DEF Pushed
<1>1. Known(S) \subseteq S
  BY Zenon DEF Known
<1>2. S \cap H = {}
  BY Zenon DEF SlotInv, SlotOnce, OnePlace
<1>3. ASSUME NEW s \in Slots, s \notin S \cup H PROVE SlotOnce(s)'
  <2>1. SlotOnce(s) /\ slot'[s] = slot[s]
    BY Zenon, <1>1, <1>3 DEF SlotInv
  <2>2. \A k, p, t : Waits(k, p, t, s)' <=> Waits(k, p, t, s)
    BY Zenon, <1>3
  <2> QED
    BY Zenon, <2>1, <2>2, Stays
<1>4. ASSUME NEW s \in H PROVE SlotOnce(s)'
  <2>1. SlotOnce(s) /\ slot'[s] # NULL /\ Waits("hand", w, NULL, s)
    BY Zenon, <1>4 DEF SlotInv
  <2>2. \A k, p, t : Waits(k, p, t, s)' => Waits(k, p, t, s) /\ ~ (k = "hand" /\ p = w /\ t = NULL)
    BY Zenon, <1>2, <1>4
  <2> QED
    BY Zenon, <2>1, <2>2, Updated
<1>5. ASSUME NEW s \in Known(S) PROVE SlotOnce(s)'
  <2>1. SlotOnce(s) /\ slot'[s] # NULL /\ Waits(k0, p0, t0, s)
    BY Zenon, <1>1, <1>5 DEF SlotInv
  <2>2. \A k, p, t : Waits(k, p, t, s)' => Waits(k, p, t, s) /\ ~ (k = k0 /\ p = p0 /\ t = t0)
    BY ZenonT(30), <1>1, <1>5
  <2> QED
    BY Zenon, <2>1, <2>2, <1>1, Updated
<1>6. ASSUME NEW s \in S \ Known(S) PROVE SlotOnce(s)'
  <2>1. SlotOnce(s) /\ slot'[s] = slot[s] /\ Waits(k0, p0, t0, s) /\ Waits(k1, w, Task(s, c), s)'
    BY Zenon, <1>2, <1>6 DEF SlotInv
  <2>2. \A k, p, t : Waits(k, p, t, s)' =>
          \/ k = k1 /\ p = w /\ t = Task(s, c)
          \/ Waits(k, p, t, s) /\ ~ (k = k0 /\ p = p0 /\ t = t0)
    BY <1>6
  <2> QED
    BY <2>1, <2>2, Moves
<1> QED
  BY Zenon, <1>1, <1>3, <1>4, <1>5, <1>6 DEF SlotInv

-----------------------------------------------------------------------------
(* Cards.  A reference that was updated holds the place of its target, and *)
(* if it is one from the old to the young generation its card is dirty.    *)
CardInv ==
  \A s \in Slots : slot[s] # NULL =>
    /\ slot[s] = forwardee[Target[s]]
    /\ is_in_young(slot[s]) /\ InOld(s) => s \in cards

(* A store keeps this, if it cleans only cards of slots that wait. *)
LEMMA CardsStored ==
  ASSUME CardInv, UNCHANGED forwardee, NEW claimed, NEW copied, NEW dirty, Store(claimed, copied, dirty),
         \A s \in cards : s \in dirty \/ slot[s] = NULL
  PROVE  CardInv'
<1> SUFFICES ASSUME NEW s \in Slots, slot'[s] # NULL
             PROVE  /\ slot'[s] = forwardee[Target[s]]
                    /\ is_in_young(slot'[s]) /\ InOld(s) => s \in cards'
  BY Zenon DEF CardInv, InOld
<1>1. CASE s \in claimed \cup copied
  BY Zenon, <1>1 DEF Store, Young
<1>2. CASE s \notin claimed \cup copied
  BY Zenon, <1>2 DEF Store, CardInv
<1> QED
  BY Zenon, <1>1, <1>2

(* Neither references nor cards nor places change. *)
LEMMA CardsKept ==
  ASSUME CardInv, UNCHANGED <<forwardee, slot, cards>>
  PROVE  CardInv'
BY Zenon DEF CardInv, InOld

(* A slot that was updated belongs to an object that had its place before. *)
LEMMA CardsWon ==
  ASSUME IInv, SlotInv, CardInv, NEW w \in Workers, CasWon(w)
  PROVE  CardInv'
<1> DEFINE o == object(w)
<1>1. /\ pc[w] = "cas" /\ forwardee[o] = NULL
      /\ forwardee' = [forwardee EXCEPT ![o] = local[w].new_obj]
      /\ UNCHANGED <<slot, cards>>
  BY Zenon DEF CasWon
<1>2. o \in Objects
  BY Zenon, <1>1, ObjectOK DEF IInv
<1> HIDE DEF o
<1>3. \A p \in Objects : p # o => forwardee'[p] = forwardee[p]
  BY Zenon, <1>1, <1>2 DEF IInv, Heap
<1> SUFFICES ASSUME NEW s \in Slots, slot[s] # NULL
             PROVE  /\ slot[s] = forwardee'[Target[s]]
                    /\ is_in_young(slot[s]) /\ InOld(s)' => s \in cards
  BY Zenon, <1>1 DEF CardInv
<1>4. slot[s] = forwardee'[Target[s]]
  BY Zenon, <1>1, <1>3, PromotionAssumption DEF CardInv
<1>5. o \notin Holders[s]
  <2>1. SUFFICES ASSUME s \in Contents[o] PROVE FALSE
    BY Zenon DEF Holders
  <2>2. Left(o, s)
    BY Zenon, <1>1, <1>2, <2>1 DEF Contents, Left, Unpushed
  <2>3. Waits("object", o, NULL, s)
    BY Zenon, <1>2, <2>2 DEF Waits
  <2> QED
    BY Zenon, <2>3 DEF SlotInv, SlotOnce
<1>6. Holders[s] \subseteq Objects
  BY Zenon DEF Holders
<1>7. InOld(s)' => InOld(s)
  BY Zenon, <1>3, <1>5, <1>6 DEF InOld
<1> QED
  BY Zenon, <1>4, <1>7 DEF CardInv

-----------------------------------------------------------------------------
(* The actions.                                                            *)

DoneOK == done => Drained

SInv == ArrayInv /\ SlotInv /\ CardInv /\ DoneOK

(* What starting with a slot does to the workers. *)
LEMMA BeginHands ==
  ASSUME IInv, ArrayInv, NEW w \in Workers, pc[w] = "idle", NEW s0 \in Slots, NEW c,
         NEW kind \in {"container", "element", "plain"}, Begin(w, s0, c, kind)
  PROVE  /\ \A v \in Workers : pc'[v] = "idle" => local'[v].slot = NULL
         /\ \A v \in Workers : pc'[v] = "contents" => pc[v] = "contents" /\ local'[v].slot = local[v].slot
<1>1. CASE UNCHANGED <<pc, local>>
  BY Zenon, <1>1 DEF ArrayInv, Shaped
<1>2. CASE /\ pc' = [pc EXCEPT ![w] = kind]
           /\ local' = [local EXCEPT ![w] = [NoLocals EXCEPT !.slot = s0, !.container = c]]
  BY Zenon, <1>2 DEF IInv, LocalsOK, ArrayInv, Shaped
<1> QED
  BY Zenon, <1>1, <1>2 DEF Begin

(* A worker starts with slot s0, which it took from the one place among    *)
(* the roots and the stacks where it waits.                                *)
Takes(w, s0, c, kind, k1, w1, out, k0, p0, t0) ==
  /\ w \in Workers /\ Idle(w)
  /\ s0 \in Slots /\ kind \in {"container", "element", "plain"} /\ Begin(w, s0, c, kind)
  /\ UNCHANGED <<forwardee, length, done>>
  /\ k1 \in Kinds /\ w1 \in Workers /\ Flow(k1, w1, out, k1, w1, {})
  /\ \A t \in out : t.array = NULL
  /\ k0 \in Kinds \cup {"root"} /\ Waits(k0, p0, t0, s0)
  /\ \A k \in Kinds \cup {"root"} : \A p, t : \A s \in Slots :
       Waits(k, p, t, s)' <=> Waits(k, p, t, s) /\ ~ (k = k0 /\ p = p0 /\ t = t0 /\ s = s0)

(* Such a step keeps SInv. *)
LEMMA TakeSlot ==
  ASSUME IInv, SInv, NEW w, NEW s0, NEW c, NEW kind, NEW k1, NEW w1, NEW out, NEW k0, NEW p0, NEW t0,
         Takes(w, s0, c, kind, k1, w1, out, k0, p0, t0)
  PROVE  SInv'
<1> SUFFICES
      ASSUME w \in Workers, Idle(w), s0 \in Slots,
             kind \in {"container", "element", "plain"}, Begin(w, s0, c, kind),
             UNCHANGED <<forwardee, length, done>>,
             k1 \in Kinds, w1 \in Workers, Flow(k1, w1, out, k1, w1, {}), \A t \in out : t.array = NULL,
             k0 \in Kinds \cup {"root"}, Waits(k0, p0, t0, s0),
             \A k \in Kinds \cup {"root"} : \A p, t : \A s \in Slots :
               Waits(k, p, t, s)' <=> Waits(k, p, t, s) /\ ~ (k = k0 /\ p = p0 /\ t = t0 /\ s = s0)
      PROVE  SInv'
  BY Zenon DEF Takes
<1>1. pc[w] = "idle" /\ ~ done'
  BY Zenon DEF Idle
<1>2. ArrayInv' /\ \A o \in Objects : Rest(o)' <=> Rest(o)
  <2>1. /\ \A v \in Workers : pc'[v] = "idle" => local'[v].slot = NULL
        /\ \A v \in Workers : pc'[v] = "contents" => pc[v] = "contents" /\ local'[v].slot = local[v].slot
    BY Zenon, <1>1, BeginHands DEF SInv
  <2> QED
    BY <2>1, ArraysKept DEF SInv
<1>3. SlotInv'
  BY <1>1, <1>2, SlotsBegin DEF SInv
<1>4. CardInv'
  <2>1. CASE Store({}, {s0}, cards)
    BY Zenon, <2>1, CardsStored DEF SInv
  <2>2. CASE UNCHANGED <<slot, cards>>
    BY ZenonT(30), <2>2, CardsKept DEF SInv
  <2> QED
    BY Zenon, <2>1, <2>2 DEF Begin
<1> QED
  BY Zenon, <1>1, <1>2, <1>3, <1>4 DEF SInv, DoneOK

(* DequeueRef and TakeRoot. *)
LEMMA RootTaken ==
  ASSUME IInv, SInv, NEW w \in Workers, DequeueRef(w) \/ TakeRoot(w)
  PROVE  SInv'
<1>1. PICK s0 \in refs \cup plains, kind \in {"container", "plain"} :
        /\ Begin(w, s0, NULL, kind)
        /\ \/ refs' = refs \ {s0} /\ UNCHANGED <<olds, plains>> /\ s0 \in refs
           \/ plains' = plains \ {s0} /\ UNCHANGED <<refs, olds>> /\ s0 \in plains
  BY Zenon DEF DequeueRef, TakeRoot
<1>2. Idle(w) /\ UNCHANGED <<forwardee, length, stacks, done>>
  BY Zenon DEF DequeueRef, TakeRoot, BdaDrained
<1>3. s0 \in Slots /\ \A s : s \in refs' \cup olds' \cup plains' <=> s \in refs \cup olds \cup plains /\ s # s0
  BY Zenon, <1>1, PromotionAssumption, CellAssumption DEF IInv, RootsOK
<1>4. Waits("root", NULL, NULL, s0)
  BY Zenon, <1>1 DEF Waits
<1>5. Flow("bda", w, {}, "bda", w, {}) /\ "bda" \in Kinds
  BY Zenon, <1>2, NoFlow DEF Kinds
<1>6. \A k \in Kinds \cup {"root"} : \A p, t : \A s \in Slots :
        Waits(k, p, t, s)' <=> Waits(k, p, t, s) /\ ~ (k = "root" /\ p = NULL /\ t = NULL /\ s = s0)
  <2>1. \A k \in Kinds, v \in Workers : Stack(k, v)' = Stack(k, v)
    BY Zenon, <1>2 DEF Stack, stacks
  <2>2. \A k \in Kinds : \A p, t, s : Waits(k, p, t, s)' <=> Waits(k, p, t, s)
    BY Zenon, <2>1, StacksWait
  <2>3. "root" \notin Kinds
    BY Zenon DEF Kinds
  <2>4. \A p, t, s : Waits("root", p, t, s)' <=> Waits("root", p, t, s) /\ s # s0
    <3> SUFFICES ASSUME NEW p, NEW t, NEW s
                 PROVE  Waits("root", p, t, s)' <=> Waits("root", p, t, s) /\ s # s0
      BY Zenon
    <3>1. Waits("root", p, t, s) <=> p = NULL /\ t = NULL /\ s \in refs \cup olds \cup plains
      BY Zenon, WaitsAt
    <3>2. Waits("root", p, t, s)' <=> p = NULL /\ t = NULL /\ s \in refs' \cup olds' \cup plains'
      BY Zenon, WaitsAtNext
    <3> QED
      BY Zenon, <1>3, <3>1, <3>2
  <2>5. \A p, t, s : Waits("root", p, t, s) => p = NULL /\ t = NULL
    BY Zenon, WaitsAt
  <2>6. ASSUME NEW k \in Kinds, NEW p, NEW t, NEW s
        PROVE  Waits(k, p, t, s)' <=> Waits(k, p, t, s) /\ ~ (k = "root" /\ p = NULL /\ t = NULL /\ s = s0)
    BY Zenon, <2>2, <2>3
  <2>7. ASSUME NEW p, NEW t, NEW s
        PROVE  Waits("root", p, t, s)' <=>
                 Waits("root", p, t, s) /\ ~ ("root" = "root" /\ p = NULL /\ t = NULL /\ s = s0)
    BY Zenon, <2>4, <2>5
  <2> QED
    BY Zenon, <2>6, <2>7
<1>7. UNCHANGED <<forwardee, length, done>> /\ kind \in {"container", "element", "plain"}
  BY Zenon, <1>2
<1>8. Takes(w, s0, NULL, kind, "bda", w, {}, "root", NULL, NULL)
  BY Zenon, <1>1, <1>2, <1>3, <1>4, <1>5, <1>6, <1>7 DEF Takes
<1> QED
  BY Zenon, <1>8, TakeSlot

(* A slot from a stack. *)
LEMMA PopTaken ==
  ASSUME IInv, SInv, NEW w \in Workers, Idle(w), NEW k0 \in Kinds, NEW v \in Workers, NEW t0 \in Stack(k0, v),
         t0.array = NULL, NEW c, NEW kind \in {"element", "plain"}, Begin(w, t0.slot, c, kind),
         Flow(k0, v, {t0}, k0, v, {}), UNCHANGED <<forwardee, length, roots, done>>
  PROVE  SInv'
<1>1. t0.slot \in Slots
  BY Zenon, PromotionAssumption DEF SInv, ArrayInv, Shaped
<1>2. Waits(k0, v, t0, t0.slot)
  BY Zenon DEF Waits
<1>3. \A k \in Kinds \cup {"root"} : \A p, t : \A s \in Slots :
        Waits(k, p, t, s)' <=> Waits(k, p, t, s) /\ ~ (k = k0 /\ p = v /\ t = t0 /\ s = t0.slot)
  <2>1. "root" \notin Kinds
    BY Zenon DEF Kinds
  <2>2. \A p, t : \A s \in Slots : Waits("root", p, t, s)' <=> Waits("root", p, t, s)
    BY Zenon, RootsWait
  <2>3. \A k \in Kinds : \A p, t : \A s \in Slots :
          Waits(k, p, t, s)' <=> Waits(k, p, t, s) /\ ~ (k = k0 /\ p = v /\ t = t0 /\ s = t0.slot)
    <3>1. ASSUME NEW k \in Kinds, NEW p \in Workers
          PROVE  \A t : t \in Stack(k, p)' <=> t \in Stack(k, p) /\ ~ (k = k0 /\ p = v /\ t = t0)
      <4>1. Stack(k, p)' = (Stack(k, p) \ (IF k = k0 /\ p = v THEN {t0} ELSE {}))
                             \cup (IF k = k0 /\ p = v THEN {} ELSE {})
        BY Zenon DEF Flow
      <4>2. CASE k = k0 /\ p = v
        BY Zenon, <4>1, <4>2
      <4>3. CASE ~ (k = k0 /\ p = v)
        BY Zenon, <4>1, <4>3
      <4> QED
        BY Zenon, <4>2, <4>3
    <3> SUFFICES ASSUME NEW k \in Kinds, NEW p, NEW t, NEW s
                 PROVE  Waits(k, p, t, s)' <=> Waits(k, p, t, s) /\ ~ (k = k0 /\ p = v /\ t = t0 /\ s = t0.slot)
      BY Zenon
    <3>2. Waits(k, p, t, s) <=> p \in Workers /\ t \in Stack(k, p) /\ t.slot = s
      BY Zenon, WaitsOn
    <3>3. Waits(k, p, t, s)' <=> p \in Workers /\ t \in Stack(k, p)' /\ t.slot = s
      BY Zenon, WaitsOn
    <3> QED
      BY Zenon, <3>1, <3>2, <3>3
  <2> QED
    BY Zenon, <2>1, <2>2, <2>3
<1>4. /\ \A t \in {t0} : t.array = NULL
      /\ kind \in {"container", "element", "plain"}
      /\ UNCHANGED <<forwardee, length, done>>
      /\ k0 \in Kinds \cup {"root"}
  BY Zenon
<1>5. Takes(w, t0.slot, c, kind, k0, v, {t0}, k0, v, t0)
  BY Zenon, <1>1, <1>2, <1>3, <1>4 DEF Takes
<1> QED
  BY Zenon, <1>5, TakeSlot

(* ScanOld. *)
LEMMA OldScanned ==
  ASSUME IInv, SInv, NEW w \in Workers, ScanOld(w)
  PROVE  SInv'
<1>1. PICK s0 \in olds, cleaned \in SUBSET OldSlots :
        /\ cleaned \subseteq {s0}
        /\ olds' = olds \ {s0}
        /\ Store(Known({s0}), {}, cards \ cleaned)
        /\ bdaref_stack' = [bdaref_stack EXCEPT ![w] = @ \cup Unknown({s0}, first_segment)]
  BY Zenon DEF ScanOld
<1>2. ~ done /\ UNCHANGED <<forwardee, length, refs, plains, pc, local, claimed_stack, done>>
  BY Zenon DEF ScanOld, BdaDrained, Idle
<1>3. s0 \in Slots /\ \A s : s \in refs' \cup olds' \cup plains' <=> s \in refs \cup olds \cup plains /\ s # s0
  BY Zenon, <1>1, <1>2, PromotionAssumption, CellAssumption DEF IInv, RootsOK
<1>4. Waits("root", NULL, NULL, s0) /\ slot[s0] = NULL
  <2>1. Waits("root", NULL, NULL, s0)
    BY Zenon DEF Waits
  <2> QED
    BY Zenon, <1>3, <2>1 DEF SInv, SlotInv, SlotOnce
<1>5. "bda" \in Kinds /\ "root" \notin Kinds /\ "hand" \notin Kinds /\ "object" \notin Kinds
  BY Zenon DEF Kinds
<1>6. Flow("bda", w, {}, "bda", w, Unknown({s0}, first_segment))
  BY Zenon, <1>1, <1>2 DEF Flow, Stack, Kinds, IInv, StacksOK
<1>7. \A t \in Unknown({s0}, first_segment) : t.array = NULL /\ t.slot \in Slots
  <2> SUFFICES ASSUME NEW t, t \in Unknown({s0}, first_segment)
               PROVE  t.array = NULL /\ t.slot \in Slots
    BY Zenon
  <2>1. PICK S : S = {s0}
    BY Zenon
  <2>2. t \in Unknown(S, first_segment)
    BY Zenon, <2>1
  <2>3. IsTask(t, S, first_segment)
    BY Zenon, <2>2, UnknownTasks
  <2> QED
    BY Zenon, <1>3, <2>1, <2>3 DEF IsTask
<1> DEFINE none == {}
           S == {s0}
           new == Unknown(S, first_segment)
<1>a. /\ S \subseteq Slots /\ none \subseteq Slots /\ \A s \in S : s = s0
      /\ Flow("bda", w, none, "bda", w, new)
      /\ \A t \in none : t.array = NULL
      /\ \A t \in new : t.array = NULL /\ t.slot \in Slots
      /\ Yields(new, S, first_segment)
  BY Zenon, <1>3, <1>6, <1>7 DEF Yields
<1> HIDE DEF none, S, new
<1>8. ArrayInv' /\ \A o \in Objects : Rest(o)' <=> Rest(o)
  <2>1. /\ \A v \in Workers : pc'[v] = "idle" => local'[v].slot = NULL
        /\ \A v \in Workers : pc'[v] = "contents" => pc[v] = "contents" /\ local'[v].slot = local[v].slot
    BY Zenon, <1>2 DEF SInv, ArrayInv, Shaped
  <2> QED
    BY Zenon, <1>2, <1>5, <1>a, <2>1, ArraysKept DEF SInv
<1>9. \A p, t, s : /\ Waits("hand", p, t, s)' <=> Waits("hand", p, t, s)
                   /\ Waits("object", p, t, s)' <=> Waits("object", p, t, s)
  <2>1. \A o \in Objects : Copying(o)' <=> Copying(o)
    BY Zenon, <1>2 DEF Copying, object
  <2>2. \A o \in Objects : \A s : Left(o, s)' <=> Left(o, s)
    BY ZenonT(30), <1>2, <1>8, <2>1, LeftSame
  <2> QED
    BY Zenon, <1>2, <2>2, HandsWait, ObjectsWait
<1>10. \A p, t, s : Waits("root", p, t, s)' <=> Waits("root", p, t, s) /\ s # s0
  <2> SUFFICES ASSUME NEW p, NEW t, NEW s
               PROVE  Waits("root", p, t, s)' <=> Waits("root", p, t, s) /\ s # s0
    BY Zenon
  <2>1. Waits("root", p, t, s) <=> p = NULL /\ t = NULL /\ s \in refs \cup olds \cup plains
    BY Zenon, WaitsAt
  <2>2. Waits("root", p, t, s)' <=> p = NULL /\ t = NULL /\ s \in refs' \cup olds' \cup plains'
    BY Zenon, WaitsAtNext
  <2> QED
    BY Zenon, <1>3, <2>1, <2>2
<1>11. \A k \in Kinds : \A p, t : \A s \in Slots :
         Waits(k, p, t, s)' <=> \/ Waits(k, p, t, s)
                                \/ k = "bda" /\ p = w /\ s \in S \ Known(S) /\ t = Task(s, first_segment)
  <2>1. StackMoves("bda", w, none, "bda", w, S, first_segment)
    BY Zenon, <1>5, <1>a, StackWaits
  <2> QED
    BY Zenon, <2>1 DEF none, StackMoves
<1>12. SlotInv'
  <2>1. \A s \in Slots : \A k, p, t : Waits(k, p, t, s)' =>
           \/ Waits(k, p, t, s)
           \/ s \in S \ Known(S) /\ k = "bda" /\ p = w /\ t = Task(s, first_segment)
    <3> SUFFICES ASSUME NEW s \in Slots, NEW k, NEW p, NEW t, Waits(k, p, t, s)', ~ Waits(k, p, t, s)
                 PROVE  s \in S \ Known(S) /\ k = "bda" /\ p = w /\ t = Task(s, first_segment)
      BY Zenon
    <3>1. k \in Kinds
      BY Zenon, <1>9, <1>10, WaitKinds
    <3>2. Waits(k, p, t, s)' <=> \/ Waits(k, p, t, s)
                                 \/ k = "bda" /\ p = w /\ s \in S \ Known(S) /\ t = Task(s, first_segment)
      BY Zenon, <1>11, <3>1
    <3> QED
      BY Zenon, <3>2
  <2>2. \A s \in Slots : s \notin S \cup none => \A k, p, t : Waits(k, p, t, s) => Waits(k, p, t, s)'
    <3> SUFFICES ASSUME NEW s \in Slots, s # s0, NEW k, NEW p, NEW t, Waits(k, p, t, s)
                 PROVE  Waits(k, p, t, s)'
      BY Zenon DEF S
    <3>1. CASE k \in Kinds
      BY Zenon, <1>11, <3>1
    <3> QED
      BY Zenon, <1>9, <1>10, <3>1, WaitKinds
  <2>3. \A s \in S : Waits("root", NULL, NULL, s) /\ ~ Waits("root", NULL, NULL, s)'
    BY Zenon, <1>4, <1>10, <1>a
  <2>4. \A s \in S \ Known(S) : Waits("bda", w, Task(s, first_segment), s)'
    BY Zenon, <1>5, <1>11, <1>a
  <2>5. /\ \A s \in Known(S) : slot'[s] # NULL
        /\ \A s \in Slots : s \notin Known(S) \cup none => slot'[s] = slot[s]
    BY Zenon, <1>1, <1>3 DEF Store, Known, S, none
  <2>6. \A s \in none : Waits("hand", w, NULL, s) /\ ~ Waits("hand", w, NULL, s)' /\ slot'[s] # NULL
    BY Zenon DEF none
  <2> QED
    <3>1. Pushed(w, S, none, "root", NULL, NULL, "bda", first_segment)
      BY ZenonT(30), <1>a, <2>1, <2>2, <2>3, <2>4, <2>5, <2>6 DEF Pushed
    <3> QED
      BY Zenon, <3>1, SlotsPushed DEF SInv
<1>13. CardInv'
  BY ZenonT(30), <1>1, <1>2, <1>4, CardsStored DEF SInv
<1> QED
  BY Zenon, <1>2, <1>8, <1>12, <1>13 DEF SInv, DoneOK


-----------------------------------------------------------------------------
(***************************************************************************)
(* The steps of a young collection keep SInv: a reference that is reached  *)
(* waits in one place until it is updated.  From this follow the assertion *)
(* against revisiting, that a collection is complete and that dirty cards  *)
(* cover what is left of references from old to young.                     *)
(***************************************************************************)

(* A chunk of an array: its slots are updated or pushed, and the length of *)
(* the old copy says which ones are left.                                  *)
LEMMA ChunkTaken ==
  ASSUME IInv, SInv, NEW k0 \in Kinds, NEW w0 \in Workers, NEW k1 \in Kinds, NEW w \in Workers,
         NEW a \in Objects, NEW c, NEW t0 \in Stack(k0, w0), t0.array = a,
         Flow(k0, w0, {t0}, k1, w, ChunkTasks(a, c)),
         ShrinkArray(a), Store(Known(Chunk(a)), {}, cards),
         ~ done, UNCHANGED <<forwardee, roots, pc, local, done>>
  PROVE  SInv'
<1>1. /\ ArrayInv'
      /\ \A o \in Objects : o # a => (Rest(o)' <=> Rest(o))
      /\ Rest(a)' <=> chunk_start(a) > 0
      /\ \A o \in Objects : Copying(o)' <=> Copying(o)
  BY Zenon, ArraysChunk DEF SInv
<1>2. Rest(a) /\ ~ Copying(a) /\ forwardee[a] # NULL
  BY ZenonT(30), PromotionAssumption DEF Rest, SInv, ArrayInv, ArrayOnce, IInv, StacksOK, TaskOK, Stack, Kinds
<1>3. Chunk(a) \subseteq Slots /\ chunk_start(a) \in 0..Len(Fields[a])
  BY Zenon, <1>2, ChunkReached, ReachedSlots DEF IInv
<1>4. Fields[a] \in Seq(Slots) /\ length[a] \in Nat /\ length[a] <= Len(Fields[a]) /\ Len(Fields[a]) \in Nat
  BY PromotionAssumption DEF IInv, ArraysOK
<1>5. \A o \in Objects : o # a => length'[o] = length[o]
  BY Zenon DEF ShrinkArray, IInv, ArraysOK
<1>6. length'[a] = IF chunk_start(a) > 0 THEN chunk_start(a) ELSE Len(Fields[a])
  BY Zenon DEF ShrinkArray, IInv, ArraysOK
<1>7. \A o \in Objects : o # a => \A s : Left(o, s)' <=> Left(o, s)
  BY Zenon, <1>1, <1>5 DEF Left, Unpushed
<1>8. /\ \A s \in Chunk(a) : Left(a, s) /\ ~ Left(a, s)'
      /\ \A s : s \notin Chunk(a) => (Left(a, s)' <=> Left(a, s))
  BY Zenon, <1>1, <1>2, <1>3, <1>4, <1>6, ChunkLeft
<1>13. "root" \notin Kinds /\ "hand" \notin Kinds /\ "object" \notin Kinds
  BY ZenonT(30) DEF Kinds
<1>14. \A p, t, s : /\ Waits("hand", p, t, s)' <=> Waits("hand", p, t, s)
                    /\ Waits("root", p, t, s)' <=> Waits("root", p, t, s)
  BY Zenon, HandsWait, RootsWait
<1>15. /\ \A s \in Chunk(a) : Waits("object", a, NULL, s) /\ ~ Waits("object", a, NULL, s)'
       /\ \A p, t, s : Waits("object", p, t, s)' => Waits("object", p, t, s)
       /\ \A p, t, s : s \notin Chunk(a) /\ Waits("object", p, t, s) => Waits("object", p, t, s)'
  <2>1. \A p, t, s : Waits("object", p, t, s) <=> p \in Objects /\ t = NULL /\ Left(p, s)
    BY Zenon, WaitsAt
  <2>2. \A p, t, s : Waits("object", p, t, s)' <=> p \in Objects /\ t = NULL /\ Left(p, s)'
    BY Zenon, WaitsAtNext
  <2>3. \A s \in Chunk(a) : Waits("object", a, NULL, s) /\ ~ Waits("object", a, NULL, s)'
    BY Zenon, <1>8, <2>1, <2>2
  <2>4. ASSUME NEW p, NEW t, NEW s
        PROVE  /\ Waits("object", p, t, s)' => Waits("object", p, t, s)
               /\ s \notin Chunk(a) /\ Waits("object", p, t, s) => Waits("object", p, t, s)'
    <3>1. Waits("object", p, t, s) <=> p \in Objects /\ t = NULL /\ Left(p, s)
      BY Zenon, <2>1
    <3>2. Waits("object", p, t, s)' <=> p \in Objects /\ t = NULL /\ Left(p, s)'
      BY Zenon, <2>2
    <3>3. CASE p = a
      BY Zenon, <1>8, <3>1, <3>2, <3>3
    <3>4. CASE p # a
      BY Zenon, <1>7, <3>1, <3>2, <3>4
    <3> QED
      BY Zenon, <3>3, <3>4
  <2> QED
    BY Zenon, <2>3, <2>4
<1>16. \A k \in Kinds : \A p, t : \A s \in Slots :
         Waits(k, p, t, s)' <=> \/ Waits(k, p, t, s)
                                \/ k = k1 /\ p = w /\ s \in Chunk(a) \ Known(Chunk(a)) /\ t = Task(s, c)
  <2>2. \A k \in Kinds : \A p, t : \A s \in Slots :
         Waits(k, p, t, s)' <=> \/ Waits(k, p, t, s) /\ ~ (k = k0 /\ p = w0 /\ t \in {t0})
                                \/ k = k1 /\ p = w /\ s \in Chunk(a) \ Known(Chunk(a)) /\ t = Task(s, c)
    <3>1. StackMoves(k0, w0, {t0}, k1, w, Chunk(a), c)
      BY Zenon, <1>3, ChunkWaits
    <3> QED
      BY Zenon, <3>1 DEF StackMoves
  <2>3. t0.slot \notin Slots
    BY Zenon, PromotionAssumption DEF SInv, ArrayInv, Shaped
  <2>4. \A k \in Kinds : \A p, t, s : Waits(k, p, t, s) => t.slot = s
    BY Zenon, WaitsOn
  <2> QED
    BY ZenonT(30), <2>2, <2>3, <2>4
<1>17. SlotInv'
  <2> DEFINE none == {}
  <2>1. \A s \in Slots : \A k, p, t : Waits(k, p, t, s)' =>
           \/ Waits(k, p, t, s)
           \/ s \in Chunk(a) \ Known(Chunk(a)) /\ k = k1 /\ p = w /\ t = Task(s, c)
    <3> SUFFICES ASSUME NEW s \in Slots, NEW k, NEW p, NEW t, Waits(k, p, t, s)', ~ Waits(k, p, t, s)
                 PROVE  s \in Chunk(a) \ Known(Chunk(a)) /\ k = k1 /\ p = w /\ t = Task(s, c)
      BY Zenon
    <3>1. k \in Kinds
      BY Zenon, <1>14, <1>15, WaitKinds
    <3>2. Waits(k, p, t, s)' <=> \/ Waits(k, p, t, s)
                                 \/ k = k1 /\ p = w /\ s \in Chunk(a) \ Known(Chunk(a)) /\ t = Task(s, c)
      BY Zenon, <1>16, <3>1
    <3> QED
      BY Zenon, <3>2
  <2>2. \A s \in Slots : s \notin Chunk(a) \cup none => \A k, p, t : Waits(k, p, t, s) => Waits(k, p, t, s)'
    <3> SUFFICES ASSUME NEW s \in Slots, s \notin Chunk(a), NEW k, NEW p, NEW t, Waits(k, p, t, s)
                 PROVE  Waits(k, p, t, s)'
      BY Zenon
    <3>1. CASE k \in Kinds
      BY Zenon, <1>16, <3>1
    <3> QED
      BY Zenon, <1>14, <1>15, <3>1, WaitKinds
  <2>3. \A s \in Chunk(a) \ Known(Chunk(a)) : Waits(k1, w, Task(s, c), s)'
    BY Zenon, <1>3, <1>16
  <2>4. /\ \A s \in Known(Chunk(a)) : slot'[s] # NULL
        /\ \A s \in Slots : s \notin Known(Chunk(a)) \cup none => slot'[s] = slot[s]
    BY Zenon, <1>3 DEF Store, Known
  <2>5. none \subseteq Slots /\ \A s \in none :
          Waits("hand", w, NULL, s) /\ ~ Waits("hand", w, NULL, s)' /\ slot'[s] # NULL
    BY Zenon
  <2> HIDE DEF none
  <2> QED
    <3>1. Pushed(w, Chunk(a), none, "object", a, NULL, k1, c)
      BY ZenonT(30), <1>3, <1>15, <2>1, <2>2, <2>3, <2>4, <2>5 DEF Pushed
    <3> QED
      BY Zenon, <3>1, SlotsPushed DEF SInv
<1>18. CardInv'
  BY Zenon, CardsStored DEF SInv
<1> QED
  BY Zenon, <1>1, <1>17, <1>18 DEF SInv, DoneOK

(* PopBda. *)
LEMMA BdaPopped ==
  ASSUME IInv, SInv, NEW w \in Workers, PopBda(w)
  PROVE  SInv'
<1>1. PICK t0 \in bdaref_stack[w] :
       IF t0.array = NULL
         THEN /\ Begin(w, t0.slot, t0.container, "element")
              /\ bdaref_stack' = [bdaref_stack EXCEPT ![w] = @ \ {t0}]
              /\ UNCHANGED length
         ELSE /\ ShrinkArray(t0.array)
              /\ Store(Known(Chunk(t0.array)), {}, cards)
              /\ bdaref_stack' =
                   [bdaref_stack EXCEPT ![w] = (@ \ {t0}) \cup ChunkTasks(t0.array, t0.container)]
              /\ UNCHANGED <<pc, local>>
  BY Zenon DEF PopBda
<1>2. Idle(w) /\ UNCHANGED <<forwardee, roots, claimed_stack, done>>
  BY Zenon DEF PopBda
<1>3. "bda" \in Kinds /\ t0 \in Stack("bda", w)
  BY Zenon DEF Kinds, Stack
<1>4. CASE t0.array = NULL
  <2>1. Flow("bda", w, {t0}, "bda", w, {})
    BY ZenonT(30), <1>1, <1>2, <1>4 DEF Flow, Stack, Kinds, IInv, StacksOK
  <2> QED
    BY ZenonT(30), <1>1, <1>2, <1>3, <1>4, <2>1, PopTaken
<1>5. CASE t0.array # NULL
  <2>1. Flow("bda", w, {t0}, "bda", w, ChunkTasks(t0.array, t0.container))
    BY Zenon, <1>1, <1>2, <1>5 DEF Flow, Stack, Kinds, IInv, StacksOK
  <2>2. t0.array \in Objects
    BY Zenon, <1>5 DEF IInv, StacksOK, TaskOK
  <2> QED
    BY ZenonT(30), <1>1, <1>2, <1>3, <1>5, <2>1, <2>2, ChunkTaken DEF Idle
<1> QED
  BY Zenon, <1>4, <1>5

(* PopDepth and Steal. *)
LEMMA DepthPopped ==
  ASSUME IInv, SInv, NEW w \in Workers, NEW v \in Workers, Idle(w), ProcessDepth(w, v)
  PROVE  SInv'
<1>1. PICK t0 \in claimed_stack[v] :
       IF t0.array = NULL
         THEN /\ Begin(w, t0.slot, NULL, "plain")
              /\ claimed_stack' = [claimed_stack EXCEPT ![v] = @ \ {t0}]
              /\ UNCHANGED length
         ELSE /\ ShrinkArray(t0.array)
              /\ Store(Known(Chunk(t0.array)), {}, cards)
              /\ claimed_stack' = [[claimed_stack EXCEPT ![v] = @ \ {t0}]
                                     EXCEPT ![w] = @ \cup ChunkTasks(t0.array, NULL)]
              /\ UNCHANGED <<pc, local>>
  BY Zenon DEF ProcessDepth
<1>2. UNCHANGED <<forwardee, roots, bdaref_stack, done>>
  BY Zenon DEF ProcessDepth
<1>3. "claimed" \in Kinds /\ t0 \in Stack("claimed", v)
  BY Zenon DEF Kinds, Stack
<1>4. CASE t0.array = NULL
  <2>1. Flow("claimed", v, {t0}, "claimed", v, {})
    BY ZenonT(30), <1>1, <1>2, <1>4 DEF Flow, Stack, Kinds, IInv, StacksOK
  <2> QED
    BY ZenonT(30), <1>1, <1>2, <1>3, <1>4, <2>1, PopTaken
<1>5. CASE t0.array # NULL
  <2>1. Flow("claimed", v, {t0}, "claimed", w, ChunkTasks(t0.array, NULL))
    BY <1>1, <1>2, <1>5 DEF Flow, Stack, Kinds, IInv, StacksOK
  <2>2. t0.array \in Objects
    BY Zenon, <1>5 DEF IInv, StacksOK, TaskOK
  <2> QED
    BY ZenonT(30), <1>1, <1>2, <1>3, <1>5, <2>1, <2>2, ChunkTaken DEF Idle
<1> QED
  BY Zenon, <1>4, <1>5

(* Steps that leave every slot where it is. *)
LEMMA SlotsKept ==
  ASSUME ArrayInv, SlotInv, UNCHANGED <<forwardee, slot, length, roots, stacks>>,
         \A v \in Workers : /\ local'[v].slot = local[v].slot
                            /\ pc'[v] = "idle" <=> pc[v] = "idle"
                            /\ pc'[v] = "contents" <=> pc[v] = "contents"
  PROVE  ArrayInv' /\ SlotInv'
<1>1. \A k \in Kinds, v \in Workers : Stack(k, v)' = Stack(k, v)
  BY Zenon DEF Stack, stacks
<1>2. \A o \in Objects : Rest(o)' <=> Rest(o)
  BY Zenon, <1>1 DEF Rest
<1>3. \A v \in Workers : object(v)' = object(v)
  BY Zenon DEF object
<1>4. \A o \in Objects : Copying(o)' <=> Copying(o)
  BY ZenonT(30), <1>3 DEF Copying
<1>5. ArrayInv'
  <2>1. Shaped'
    BY ZenonT(30), <1>1 DEF ArrayInv, Shaped
  <2>2. \A w, v \in Workers :
          pc'[w] = "contents" /\ pc'[v] = "contents" /\ object(w)' = object(v)' => w = v
    <3> SUFFICES ASSUME NEW w \in Workers, NEW v \in Workers,
                        pc'[w] = "contents", pc'[v] = "contents", object(w)' = object(v)'
                 PROVE  w = v
      BY Zenon
    <3>1. pc[w] = "contents" /\ pc[v] = "contents" /\ object(w) = object(v)
      BY Zenon, <1>3
    <3> QED
      BY Zenon, <3>1 DEF ArrayInv, ArrayOnce
  <2>3. \A k, l \in Kinds, w, v \in Workers : \A t \in Stack(k, w)', u \in Stack(l, v)' :
          t.array # NULL /\ t.array = u.array => k = l /\ w = v /\ t = u
    <3>1. ASSUME NEW k \in Kinds, NEW l \in Kinds, NEW w \in Workers, NEW v \in Workers
          PROVE  \A t \in Stack(k, w)', u \in Stack(l, v)' :
                   t.array # NULL /\ t.array = u.array => k = l /\ w = v /\ t = u
      <4>1. Stack(k, w)' = Stack(k, w) /\ Stack(l, v)' = Stack(l, v)
        BY Zenon, <1>1
      <4>2. \A t \in Stack(k, w), u \in Stack(l, v) :
              t.array # NULL /\ t.array = u.array => k = l /\ w = v /\ t = u
        BY ZenonT(30) DEF ArrayInv, ArrayOnce
      <4> QED
        BY Zenon, <4>1, <4>2
    <3> QED
      BY Zenon, <3>1
  <2>4. /\ \A o \in Objects : Copying(o)' => ~ Rest(o)'
        /\ \A o \in Objects : forwardee'[o] = NULL \/ Copying(o)' => length'[o] = Len(Fields[o])
    BY Zenon, <1>2, <1>4 DEF ArrayInv, ArrayOnce
  <2> QED
    BY Zenon, <2>1, <2>2, <2>3, <2>4 DEF ArrayInv, ArrayOnce
<1>6. \A o \in Objects : \A s : Left(o, s)' <=> Left(o, s)
  BY ZenonT(30), <1>2, <1>4, LeftSame
<1>7. \A k, p, t, s : Waits(k, p, t, s)' <=> Waits(k, p, t, s)
  BY Zenon, <1>1, <1>6, AllWait
<1>8. SlotInv'
  BY Zenon, <1>7, Stays DEF SlotInv
<1> QED
  BY Zenon, <1>5, <1>8

(* The allocations. *)
LEMMA Allocated ==
  ASSUME IInv, SInv, NEW w \in Workers, AllocateContainer(w) \/ AllocateElement(w) \/ AllocatePlain(w)
  PROVE  SInv'
<1>1. pc[w] \notin {"idle", "contents"} /\ pc' = [pc EXCEPT ![w] = "cas"]
  BY Zenon DEF AllocateContainer, AllocateElement, AllocatePlain, FromLab, Direct, NewLab, Copied, Fail
<1>2. UNCHANGED <<forwardee, slot, cards, length, roots, stacks, done>>
  BY Zenon DEF AllocateContainer, AllocateElement, AllocatePlain
<1>3. local \in [Workers -> Locals]
  BY Zenon DEF IInv, LocalsOK
<1>4. \A c, a, how : Copied(w, c, a, how) \/ Fail(w) => \A v \in Workers : local'[v].slot = local[v].slot
  BY <1>3 DEF Copied, Fail, Locals
<1>5. \A v \in Workers : local'[v].slot = local[v].slot
  <2>1. CASE AllocateContainer(w)
    BY Zenon, <1>4, <2>1 DEF AllocateContainer
  <2>2. CASE AllocateElement(w)
    BY Zenon, <1>4, <2>2 DEF AllocateElement, FromLab, Direct, NewLab
  <2>3. CASE AllocatePlain(w)
    <3>1. \A place : local' = [local EXCEPT ![w].new_obj = place, ![w].how = "plain"]
                       => \A v \in Workers : local'[v].slot = local[v].slot
      BY <1>3 DEF Locals
    <3> QED
      BY Zenon, <1>4, <2>3, <3>1 DEF AllocatePlain
  <2> QED
    BY Zenon, <2>1, <2>2, <2>3
<1>6. \A v \in Workers : /\ pc'[v] = "idle" <=> pc[v] = "idle"
                         /\ pc'[v] = "contents" <=> pc[v] = "contents"
  BY Zenon, <1>1 DEF IInv, LocalsOK
<1>7. ArrayInv' /\ SlotInv'
  BY Zenon, <1>2, <1>5, <1>6, SlotsKept DEF SInv
<1>8. CardInv'
  BY Zenon, <1>2, CardsKept DEF SInv
<1>9. ~ done
  BY Zenon, <1>1 DEF SInv, DoneOK, Drained
<1> QED
  BY Zenon, <1>2, <1>7, <1>8, <1>9 DEF SInv, DoneOK

(* CasWon: the slots of the object stay with it. *)
LEMMA Won ==
  ASSUME IInv, SInv, NEW w \in Workers, CasWon(w)
  PROVE  SInv'
<1>1. pc[w] = "cas" /\ UNCHANGED <<slot, length, roots, local, stacks, done>> /\ pc' = [pc EXCEPT ![w] = "contents"]
  BY Zenon DEF CasWon
<1>2. /\ ArrayInv'
      /\ \A o \in Objects : Rest(o)' <=> Rest(o)
      /\ \A o \in Objects : Copying(o)' <=> Copying(o) \/ o = object(w)
      /\ \A o \in Objects : forwardee'[o] = NULL <=> forwardee[o] = NULL /\ o # object(w)
  BY Zenon, ArraysWon DEF SInv
<1>3. forwardee[object(w)] = NULL
  BY Zenon DEF CasWon
<1>4. \A o \in Objects : \A s : Left(o, s)' <=> Left(o, s)
  BY Zenon, <1>1, <1>2, <1>3 DEF Left, Unpushed
<1>5. \A v \in Workers : pc'[v] # "idle" <=> pc[v] # "idle"
  BY Zenon, <1>1 DEF IInv, LocalsOK
<1>6. \A k \in Kinds, v \in Workers : Stack(k, v)' = Stack(k, v)
  BY Zenon, <1>1 DEF Stack, stacks
<1>7. \A k, p, t, s : Waits(k, p, t, s)' <=> Waits(k, p, t, s)
  <2>1. \A v \in Workers : (pc'[v] = "idle" <=> pc[v] = "idle") /\ local'[v].slot = local[v].slot
    BY Zenon, <1>1, <1>5
  <2> QED
    BY Zenon, <1>1, <1>4, <1>6, <2>1, AllWait
<1>8. SlotInv'
  BY Zenon, <1>1, <1>7, Stays DEF SInv, SlotInv
<1>9. CardInv'
  BY Zenon, CardsWon DEF SInv
<1>10. ~ done
  BY Zenon, <1>1 DEF SInv, DoneOK, Drained
<1> QED
  BY Zenon, <1>1, <1>2, <1>8, <1>9, <1>10 DEF SInv, DoneOK

(* CasLost: the slot in the hand of the worker is updated. *)
LEMMA Lost ==
  ASSUME IInv, SInv, NEW w \in Workers, CasLost(w)
  PROVE  SInv'
<1> DEFINE none == {}
           H == {local[w].slot}
<1>1. /\ pc[w] = "cas" /\ forwardee[object(w)] # NULL
      /\ Store({}, {local[w].slot}, cards)
      /\ pc' = [pc EXCEPT ![w] = "idle"]
      /\ local' = [local EXCEPT ![w] = NoLocals]
      /\ UNCHANGED <<forwardee, length, roots, stacks, done>>
  BY Zenon DEF CasLost
<1>2. local[w].slot \in Slots
  BY Zenon, <1>1, ObjectOK, ReachedSlots DEF IInv
<1>3. \A v \in Workers : /\ pc'[v] = IF v = w THEN "idle" ELSE pc[v]
                         /\ local'[v] = IF v = w THEN NoLocals ELSE local[v]
  BY Zenon, <1>1 DEF IInv, LocalsOK
<1>4. ArrayInv' /\ \A o \in Objects : Rest(o)' <=> Rest(o)
  <2>1. /\ \A v \in Workers : pc'[v] = "idle" => local'[v].slot = NULL
        /\ \A v \in Workers : pc'[v] = "contents" => pc[v] = "contents" /\ local'[v].slot = local[v].slot
    <3>1. NoLocals.slot = NULL /\ "idle" # "contents"
      BY Zenon DEF NoLocals
    <3> SUFFICES ASSUME NEW v \in Workers
                 PROVE  /\ pc'[v] = "idle" => local'[v].slot = NULL
                        /\ pc'[v] = "contents" => pc[v] = "contents" /\ local'[v].slot = local[v].slot
      BY Zenon
    <3>2. CASE v = w
      BY Zenon, <1>3, <3>1, <3>2
    <3>3. CASE v # w
      BY Zenon, <1>3, <3>3 DEF SInv, ArrayInv, Shaped
    <3> QED
      BY Zenon, <3>2, <3>3
  <2>2. Flow("bda", w, none, "bda", w, none) /\ "bda" \in Kinds
    BY Zenon, <1>1, NoFlow DEF Kinds
  <2>3. \A t \in none : t.array = NULL /\ t.slot \in Slots
    BY Zenon
  <2> HIDE DEF none
  <2> QED
    BY ZenonT(30), <1>1, <2>1, <2>2, <2>3, ArraysKept DEF SInv
<1>5. \A o \in Objects : Copying(o)' <=> Copying(o)
  <2>1. pc[w] # "contents" /\ pc'[w] # "contents"
    <3>1. pc[w] = "cas"
      BY Zenon, <1>1
    <3>2. pc'[w] = "idle"
      BY Zenon, <1>3
    <3> QED
      BY Zenon, <3>1, <3>2
  <2>2. \A v \in Workers : v # w => pc'[v] = pc[v] /\ object(v)' = object(v)
    BY Zenon, <1>3 DEF object
  <2> QED
    BY Zenon, <2>1, <2>2 DEF Copying
<1>6. \A o \in Objects : \A s : Left(o, s)' <=> Left(o, s)
  BY Zenon, <1>1, <1>4, <1>5, LeftSame
<1>7. \A k \in Kinds, v \in Workers : Stack(k, v)' = Stack(k, v)
  BY ZenonT(30), <1>1 DEF Stack, stacks
<1>8. \A k, p, t, s : Waits(k, p, t, s)' <=> Waits(k, p, t, s) /\ ~ (k = "hand" /\ p = w)
  <2>1. \A p, t, s : Waits("hand", p, t, s)' <=> Waits("hand", p, t, s) /\ p # w
    <3> SUFFICES ASSUME NEW p, NEW t, NEW s
                 PROVE  Waits("hand", p, t, s)' <=> Waits("hand", p, t, s) /\ p # w
      BY Zenon
    <3>1. Waits("hand", p, t, s) <=> p \in Workers /\ t = NULL /\ pc[p] # "idle" /\ local[p].slot = s
      BY Zenon, WaitsAt
    <3>2. Waits("hand", p, t, s)' <=> p \in Workers /\ t = NULL /\ pc'[p] # "idle" /\ local'[p].slot = s
      BY Zenon, WaitsAtNext
    <3>3. CASE p \in Workers /\ p # w
      BY Zenon, <1>3, <3>1, <3>2, <3>3
    <3>4. CASE p \notin Workers \/ p = w
      BY Zenon, <1>3, <3>1, <3>2, <3>4
    <3> QED
      BY Zenon, <3>3, <3>4
  <2>2. \A p, t, s : /\ Waits("root", p, t, s)' <=> Waits("root", p, t, s)
                     /\ Waits("object", p, t, s)' <=> Waits("object", p, t, s)
    BY Zenon, <1>1, <1>6, RootsWait, ObjectsWait
  <2>3. \A k \in Kinds : \A p, t, s : Waits(k, p, t, s)' <=> Waits(k, p, t, s)
    BY Zenon, <1>7, StacksWait
  <2> SUFFICES ASSUME NEW k, NEW p, NEW t, NEW s
               PROVE  Waits(k, p, t, s)' <=> Waits(k, p, t, s) /\ ~ (k = "hand" /\ p = w)
    BY Zenon
  <2>4. CASE k = "hand"
    BY Zenon, <2>1, <2>4
  <2>5. CASE k # "hand"
    <3>1. Waits(k, p, t, s)' <=> Waits(k, p, t, s)
      BY Zenon, <2>2, <2>3, <2>5, WaitKinds
    <3> QED
      BY Zenon, <2>5, <3>1
  <2> QED
    BY Zenon, <2>4, <2>5
<1>9. Waits("hand", w, NULL, local[w].slot)
  BY Zenon, <1>1 DEF Waits
<1>10. SlotInv'
  <2>1. \A s \in H : Waits("hand", w, NULL, s) /\ ~ Waits("hand", w, NULL, s)' /\ slot'[s] # NULL
    BY Zenon, <1>1, <1>2, <1>8, <1>9 DEF Store, object
  <2>2. \A s \in Slots : s \notin H => slot'[s] = slot[s]
    BY Zenon, <1>1 DEF Store
  <2>3. \A s \in Slots : s \notin H => \A k, p, t : Waits(k, p, t, s) => Waits(k, p, t, s)'
    <3>1. \A t, s : Waits("hand", w, t, s) => s \in H
      BY Zenon DEF Waits, Kinds
    <3> HIDE DEF H
    <3> QED
      BY Zenon, <1>8, <3>1
  <2>4. Known(none) = {}
    BY Zenon DEF Known
  <2>5. Pushed(w, none, H, "root", NULL, NULL, "bda", NULL)
    BY ZenonT(30), <1>2, <1>8, <2>1, <2>2, <2>3, <2>4 DEF Pushed
  <2> QED
    BY Zenon, <2>5, SlotsPushed DEF SInv
<1>11. CardInv'
  BY Zenon, <1>1, CardsStored DEF SInv
<1>12. ~ done
  BY Zenon, <1>1 DEF SInv, DoneOK, Drained
<1> QED
  BY Zenon, <1>1, <1>4, <1>10, <1>11, <1>12 DEF SInv, DoneOK

(* PushContents: the slots of the object leave it for a stack, unless it   *)
(* is a large array.                                                       *)
LEMMA ContentsPushed ==
  ASSUME IInv, SInv, NEW w \in Workers, PushContents(w)
  PROVE  SInv'
<1>1. pc[w] = "contents"
  BY Zenon DEF PushContents
<1>2. PICK o \in Objects : o = object(w)
  BY Zenon, <1>1, ObjectOK DEF IInv
<1>3. PICK c : c = IF OnBdaPath(w) THEN local[w].container ELSE NULL
  BY Zenon
<1>4. PICK k1 \in Kinds : k1 = IF OnBdaPath(w) THEN "bda" ELSE "claimed"
  BY Zenon DEF Kinds
<1>5. PICK chunks \in BOOLEAN : chunks <=> InChunks(w)
  BY Zenon DEF InChunks
<1>6. PICK S : S = IF chunks THEN {} ELSE Contents[o]
  BY Zenon
<1>7. PICK new : new = IF chunks THEN {ArrayTask(o, c)} ELSE Unknown(Contents[o], c)
  BY Zenon
<1>8. PICK H : H = {local[w].slot}
  BY Zenon
<1>9. /\ Store(Known(S), H, cards)
      /\ pc' = [pc EXCEPT ![w] = "idle"]
      /\ local' = [local EXCEPT ![w] = NoLocals]
      /\ UNCHANGED <<forwardee, length, roots, done>>
  <2>1. Known({}) = {}
    BY Zenon DEF Known
  <2> QED
    BY ZenonT(30), <1>2, <1>5, <1>6, <1>8, <2>1 DEF PushContents
<1>10. Flow(k1, w, {}, k1, w, new)
  <2>1. CASE OnBdaPath(w)
    <3>1. bdaref_stack' = [bdaref_stack EXCEPT ![w] = @ \cup new] /\ UNCHANGED claimed_stack
      BY ZenonT(30), <1>2, <1>3, <1>5, <1>7, <2>1 DEF PushContents
    <3> QED
      BY Zenon, <1>4, <2>1, <3>1 DEF Flow, Stack, Kinds, IInv, StacksOK
  <2>2. CASE ~ OnBdaPath(w)
    <3>1. claimed_stack' = [claimed_stack EXCEPT ![w] = @ \cup new] /\ UNCHANGED bdaref_stack
      BY ZenonT(30), <1>2, <1>3, <1>5, <1>7, <2>2 DEF PushContents
    <3> QED
      BY Zenon, <1>4, <2>2, <3>1 DEF Flow, Stack, Kinds, IInv, StacksOK
  <2> QED
    BY Zenon, <2>1, <2>2
<1>11. Contents[o] \subseteq Slots /\ S \subseteq Slots /\ Fields[o] \in Seq(Slots)
  <2>1. Contents[o] \subseteq Slots /\ Fields[o] \in Seq(Slots)
    BY Zenon, FieldSlots
  <2> QED
    BY Zenon, <1>6, <2>1
<1>12. local[w].slot \in Slots /\ H \subseteq Slots /\ forwardee[Target[local[w].slot]] # NULL
  BY ZenonT(30), <1>1, <1>8, ObjectOK, ReachedSlots DEF IInv, LocalsOK, LocalOK, object
<1>13. \A t \in Unknown(Contents[o], c) : t.array = NULL /\ t.slot \in Slots
  <2> SUFFICES ASSUME NEW t, t \in Unknown(Contents[o], c)
               PROVE  t.array = NULL /\ t.slot \in Slots
    BY Zenon
  <2>1. IsTask(t, Contents[o], c)
    BY Zenon, UnknownTasks
  <2> QED
    BY Zenon, <1>11, <2>1 DEF IsTask
<1>14. /\ ArrayInv'
       /\ \A p \in Objects : p # o => (Rest(p)' <=> Rest(p))
       /\ Rest(o)' <=> chunks
       /\ \A p \in Objects : Copying(p)' <=> Copying(p) /\ p # o
  <2>1. IF chunks THEN new = {ArrayTask(o, c)} ELSE \A t \in new : t.array = NULL /\ t.slot \in Slots
    BY Zenon, <1>7, <1>13
  <2> QED
    BY ZenonT(30), <1>1, <1>2, <1>9, <1>10, <2>1, ArraysPushed DEF SInv
<1>15. Copying(o) /\ length[o] = Len(Fields[o]) /\ forwardee[o] # NULL
  <2>1. Copying(o)
    BY Zenon, <1>1, <1>2 DEF Copying
  <2> QED
    BY ZenonT(30), <1>1, <1>2, <2>1 DEF SInv, ArrayInv, ArrayOnce, IInv, LocalsOK, LocalOK
<1>16. \A p \in Objects : p # o => \A s : Left(p, s)' <=> Left(p, s)
  BY Zenon, <1>9, <1>14 DEF Left, Unpushed
<1>17. \A s : /\ Left(o, s) <=> s \in Contents[o]
              /\ Left(o, s)' <=> s \in Contents[o] /\ chunks
  <2>1. \A i \in DOMAIN Fields[o] : i <= length[o]
    BY <1>11, <1>15
  <2>2. \A i \in DOMAIN Fields[o] : Unpushed(o, i) /\ (Unpushed(o, i)' <=> chunks)
    BY Zenon, <1>9, <1>14, <1>15, <2>1 DEF Unpushed
  <2> QED
    BY Zenon, <2>2 DEF Left, Contents
<1>18. "root" \notin Kinds /\ "hand" \notin Kinds /\ "object" \notin Kinds
  BY Zenon DEF Kinds
<1>19. \A v \in Workers : /\ pc'[v] = IF v = w THEN "idle" ELSE pc[v]
                          /\ local'[v] = IF v = w THEN NoLocals ELSE local[v]
  BY ZenonT(30), <1>9 DEF IInv, LocalsOK
<1>20. \A p, t, s : Waits("hand", p, t, s)' <=> Waits("hand", p, t, s) /\ p # w
  <2> SUFFICES ASSUME NEW p, NEW t, NEW s
               PROVE  Waits("hand", p, t, s)' <=> Waits("hand", p, t, s) /\ p # w
    BY Zenon
  <2>1. Waits("hand", p, t, s) <=> p \in Workers /\ t = NULL /\ pc[p] # "idle" /\ local[p].slot = s
    BY Zenon, WaitsAt
  <2>2. Waits("hand", p, t, s)' <=> p \in Workers /\ t = NULL /\ pc'[p] # "idle" /\ local'[p].slot = s
    BY Zenon, WaitsAtNext
  <2>3. CASE p \in Workers /\ p # w
    BY Zenon, <1>19, <2>1, <2>2, <2>3
  <2>4. CASE p \notin Workers \/ p = w
    BY Zenon, <1>19, <2>1, <2>2, <2>4
  <2> QED
    BY Zenon, <2>3, <2>4
<1>21. \A p, t, s : Waits("root", p, t, s)' <=> Waits("root", p, t, s)
  BY Zenon, <1>9, RootsWait
<1>22. \A p, t, s : Waits("object", p, t, s)' <=> Waits("object", p, t, s) /\ (p = o => chunks)
  <2> SUFFICES ASSUME NEW p, NEW t, NEW s
               PROVE  Waits("object", p, t, s)' <=> Waits("object", p, t, s) /\ (p = o => chunks)
    BY Zenon
  <2>1. Waits("object", p, t, s) <=> p \in Objects /\ t = NULL /\ Left(p, s)
    BY Zenon, WaitsAt
  <2>2. Waits("object", p, t, s)' <=> p \in Objects /\ t = NULL /\ Left(p, s)'
    BY Zenon, WaitsAtNext
  <2>3. CASE p = o
    BY Zenon, <1>17, <2>1, <2>2, <2>3
  <2>4. CASE p # o
    BY Zenon, <1>16, <2>1, <2>2, <2>4
  <2> QED
    BY Zenon, <2>3, <2>4
<1>23. \A k \in Kinds : \A p, t : \A s \in Slots :
         Waits(k, p, t, s)' <=> \/ Waits(k, p, t, s)
                                \/ k = k1 /\ p = w /\ s \in S \ Known(S) /\ t = Task(s, c)
  <2>1. Yields(new, S, c)
    <3> SUFFICES ASSUME NEW t
                 PROVE  t \in new /\ t.slot \in Slots <=> t \in Unknown(S, c)
      BY Zenon DEF Yields
    <3>1. CASE chunks
      <4>1. t \notin Unknown(S, c)
        BY Zenon, <1>6, <3>1 DEF Unknown
      <4>2. t \in new => t.slot = NULL
        <5>1. new = {ArrayTask(o, c)}
          BY Zenon, <1>7, <3>1
        <5>2. ArrayTask(o, c).slot = NULL
          BY Zenon, TaskFields
        <5> QED
          BY Zenon, <5>1, <5>2
      <4>3. NULL \notin Slots
        BY Zenon, PromotionAssumption
      <4> QED
        BY Zenon, <4>1, <4>2, <4>3
    <3>2. CASE ~ chunks
      BY Zenon, <1>6, <1>7, <1>13, <3>2
    <3> QED
      BY ZenonT(30), <3>1, <3>2
  <2>2. PICK none : none = {}
    BY Zenon
  <2>3. Flow(k1, w, none, k1, w, new)
    BY ZenonT(30), <1>10, <2>2
  <2>4. StackMoves(k1, w, none, k1, w, S, c)
    BY Zenon, <1>11, <2>1, <2>3, StackWaits
  <2> QED
    BY Zenon, <2>2, <2>4 DEF StackMoves
<1>24. SlotInv'
  <2>1. \A s \in S : Waits("object", o, NULL, s) /\ ~ Waits("object", o, NULL, s)'
    BY Zenon, <1>6, <1>17, <1>18 DEF Waits
  <2>2. \A s \in H : Waits("hand", w, NULL, s) /\ ~ Waits("hand", w, NULL, s)' /\ slot'[s] # NULL
    BY ZenonT(30), <1>1, <1>8, <1>9, <1>12, <1>20 DEF Store, Waits
  <2>3. /\ \A s \in Known(S) : slot'[s] # NULL
        /\ \A s \in Slots : s \notin Known(S) \cup H => slot'[s] = slot[s]
    BY Zenon, <1>9, <1>11 DEF Store, Known
  <2>4. \A s \in S \ Known(S) : Waits(k1, w, Task(s, c), s)'
    BY Zenon, <1>11, <1>23
  <2>5. \A s \in Slots : \A k, p, t : Waits(k, p, t, s)' =>
          \/ Waits(k, p, t, s)
          \/ s \in S \ Known(S) /\ k = k1 /\ p = w /\ t = Task(s, c)
    <3> SUFFICES ASSUME NEW s \in Slots, NEW k, NEW p, NEW t, Waits(k, p, t, s)', ~ Waits(k, p, t, s)
                 PROVE  s \in S \ Known(S) /\ k = k1 /\ p = w /\ t = Task(s, c)
      BY Zenon
    <3>1. k # "hand" /\ k # "root" /\ k # "object"
      BY Zenon, <1>20, <1>21, <1>22
    <3>2. k \in Kinds
      BY Zenon, <3>1, WaitKinds
    <3>3. Waits(k, p, t, s)' <=> \/ Waits(k, p, t, s)
                                 \/ k = k1 /\ p = w /\ s \in S \ Known(S) /\ t = Task(s, c)
      BY Zenon, <3>2, <1>23
    <3> QED
      BY Zenon, <3>3
  <2>6. \A s \in Slots : s \notin S \cup H => \A k, p, t : Waits(k, p, t, s) => Waits(k, p, t, s)'
    <3>1. \A t, s : Waits("hand", w, t, s) => s \in H
      BY Zenon, <1>8, <1>18 DEF Waits
    <3>2. \A t, s : Waits("object", o, t, s) /\ ~ chunks => s \in S
      BY ZenonT(30), <1>6, <1>17, <1>18 DEF Waits
    <3> QED
      <4> SUFFICES ASSUME NEW s \in Slots, s \notin S \cup H, NEW k, NEW p, NEW t, Waits(k, p, t, s)
                   PROVE  Waits(k, p, t, s)'
        BY Zenon
      <4>1. CASE k \in {"hand", "root", "object"}
        BY Zenon, <1>20, <1>21, <1>22, <3>1, <3>2, <4>1
      <4>2. CASE k \in Kinds
        BY Zenon, <1>23, <4>2
      <4> QED
        BY Zenon, <4>1, <4>2, WaitKinds
  <2>7. Pushed(w, S, H, "object", o, NULL, k1, c)
    <3>1. S \subseteq Slots /\ H \subseteq Slots /\ "object" # "hand"
      BY Zenon, <1>11, <1>12
    <3> QED
      BY ZenonT(30), <3>1, <2>1, <2>2, <2>3, <2>4, <2>5, <2>6 DEF Pushed
  <2> QED
    BY Zenon, <2>7, SlotsPushed DEF SInv
<1>25. CardInv'
  BY Zenon, <1>9, CardsStored DEF SInv
<1>26. ~ done
  BY Zenon, <1>1 DEF SInv, DoneOK, Drained
<1> QED
  BY ZenonT(30), <1>9, <1>14, <1>24, <1>25, <1>26 DEF SInv, DoneOK

(* post_scavenge flushes buffers, it has nothing to do with references. *)
LEMMA Flushed ==
  ASSUME SInv, PostScavenge
  PROVE  SInv'
<1>1. UNCHANGED <<forwardee, slot, cards, length, roots, pc, local, stacks>> /\ Drained
  BY Zenon DEF PostScavenge
<1>2. ArrayInv' /\ SlotInv'
  BY Zenon, <1>1, SlotsKept DEF SInv
<1>3. CardInv'
  BY Zenon, <1>1, CardsKept DEF SInv
<1>4. Drained'
  BY Zenon, <1>1 DEF Drained, roots, stacks
<1> QED
  BY Zenon, <1>2, <1>3, <1>4 DEF SInv, DoneOK

-----------------------------------------------------------------------------
(* The theorems.                                                           *)

(* Before the collection a root waits among the roots, a field in its      *)
(* object.                                                                 *)
LEMMA InitSInv == Init => SInv
<1> SUFFICES ASSUME Init PROVE SInv
  BY Zenon
<1>1. \A k \in Kinds, w \in Workers : Stack(k, w) = {}
  BY Zenon DEF Init, Stack, Kinds
<1>2. \A w \in Workers : pc[w] = "idle" /\ local[w].slot = NULL
  BY Zenon DEF Init, NoLocals
<1>3. \A o \in Objects : ~ Copying(o) /\ ~ Rest(o) /\ forwardee[o] = NULL /\ length[o] = Len(Fields[o])
  BY Zenon, <1>1, <1>2 DEF Init, Copying, Rest
<1>4. ArrayInv
  BY Zenon, <1>1, <1>2, <1>3 DEF ArrayInv, Shaped, ArrayOnce
<1>5. \A o \in Objects : \A s : Left(o, s) <=> s \in Contents[o]
  BY ZenonT(30), <1>3 DEF Left, Unpushed, Contents
<1>6. \A k, p, t, s : Waits(k, p, t, s) <=>
        \/ k = "root" /\ p = NULL /\ t = NULL /\ s \in RefSlots \cup OldSlots \cup PlainSlots
        \/ k = "object" /\ p \in Objects /\ t = NULL /\ s \in Contents[p]
  <2> SUFFICES ASSUME NEW k, NEW p, NEW t, NEW s
               PROVE  Waits(k, p, t, s) <=>
                        \/ k = "root" /\ p = NULL /\ t = NULL /\ s \in RefSlots \cup OldSlots \cup PlainSlots
                        \/ k = "object" /\ p \in Objects /\ t = NULL /\ s \in Contents[p]
    BY Zenon
  <2>1. CASE k = "root"
    <3>1. Waits("root", p, t, s) <=> p = NULL /\ t = NULL /\ s \in refs \cup olds \cup plains
      BY Zenon, WaitsAt
    <3>2. refs = RefSlots /\ olds = OldSlots /\ plains = PlainSlots
      BY Zenon DEF Init
    <3> QED
      BY Zenon, <2>1, <3>1, <3>2
  <2>2. CASE k = "hand"
    <3>1. Waits("hand", p, t, s) <=> p \in Workers /\ t = NULL /\ pc[p] # "idle" /\ local[p].slot = s
      BY Zenon, WaitsAt
    <3> QED
      BY Zenon, <1>2, <2>2, <3>1
  <2>3. CASE k = "object"
    <3>1. Waits("object", p, t, s) <=> p \in Objects /\ t = NULL /\ Left(p, s)
      BY Zenon, WaitsAt
    <3> QED
      BY Zenon, <1>5, <2>3, <3>1
  <2>4. CASE k \in Kinds
    <3>1. Waits(k, p, t, s) <=> p \in Workers /\ t \in Stack(k, p) /\ t.slot = s
      BY Zenon, <2>4, WaitsOn
    <3>2. k # "root" /\ k # "object"
      BY Zenon, <2>4 DEF Kinds
    <3> QED
      BY Zenon, <1>1, <2>4, <3>1, <3>2
  <2>5. CASE k \notin Kinds \cup {"root", "hand", "object"}
    BY Zenon, <2>5, WaitKinds
  <2> QED
    BY Zenon, <2>1, <2>2, <2>3, <2>4, <2>5
<1>7. SlotInv
  <2> SUFFICES ASSUME NEW s \in Slots PROVE SlotOnce(s)
    BY Zenon DEF SlotInv
  <2>1. slot[s] = NULL
    BY ZenonT(30) DEF Init
  <2>2. \A o, p \in Objects : s \in Contents[o] /\ s \in Contents[p] => o = p
    BY Zenon, OneContents
  <2>3. \A o \in Objects : s \in Contents[o] => s \notin RefSlots \cup OldSlots \cup PlainSlots
    BY Zenon, NoRoot
  <2>4. OnePlace(s)
    BY Zenon, <1>6, <2>2, <2>3 DEF OnePlace
  <2>5. Cell(s) => \E k, p, t : Waits(k, p, t, s)
    BY Zenon, <1>6 DEF Cell
  <2> QED
    BY Zenon, <2>1, <2>4, <2>5 DEF SlotOnce
<1>8. CardInv
  BY Zenon DEF Init, CardInv
<1> QED
  BY Zenon, <1>4, <1>7, <1>8 DEF SInv, DoneOK, Init

(* Every step of a young collection keeps SInv. *)
LEMMA NextSInv == IInv /\ SInv /\ [Next]_vars => SInv'
<1> SUFFICES ASSUME IInv, SInv, [Next]_vars PROVE SInv'
  BY Zenon
<1>1. ASSUME NEW w \in Workers, Step(w) PROVE SInv'
  <2>1. CASE DequeueRef(w) \/ TakeRoot(w)
    BY Zenon, <2>1, RootTaken
  <2>2. CASE ScanOld(w)
    BY Zenon, <2>2, OldScanned
  <2>3. CASE PopBda(w)
    BY Zenon, <2>3, BdaPopped
  <2>4. CASE PopDepth(w)
    BY Zenon, <2>4, DepthPopped DEF PopDepth, BdaDrained
  <2>5. CASE Steal(w)
    <3>1. PICK v \in Workers : ProcessDepth(w, v) /\ Idle(w)
      BY Zenon, <2>5 DEF Steal, BdaDrained
    <3> QED
      BY Zenon, <3>1, DepthPopped
  <2>6. CASE AllocateContainer(w) \/ AllocateElement(w) \/ AllocatePlain(w)
    BY ZenonT(30), <2>6, Allocated
  <2>7. CASE CasWon(w)
    BY Zenon, <2>7, Won
  <2>8. CASE CasLost(w)
    BY Zenon, <2>8, Lost
  <2>9. CASE PushContents(w)
    BY Zenon, <2>9, ContentsPushed
  <2> QED
    BY ZenonT(30), <1>1, <2>1, <2>2, <2>3, <2>4, <2>5, <2>6, <2>7, <2>8, <2>9 DEF Step
<1>2. CASE PostScavenge
  BY Zenon, <1>2, Flushed
<1>3. CASE UNCHANGED vars
  <2>1. UNCHANGED <<forwardee, slot, cards, length, roots, pc, local, stacks, done>>
    BY Zenon, <1>3 DEF vars
  <2>2. ArrayInv' /\ SlotInv'
    BY Zenon, <2>1, SlotsKept DEF SInv
  <2>3. CardInv'
    BY Zenon, <2>1, CardsKept DEF SInv
  <2>4. DoneOK'
    BY Zenon, <2>1 DEF SInv, DoneOK, Drained, roots, stacks
  <2> QED
    BY Zenon, <2>2, <2>3, <2>4 DEF SInv
<1> QED
  BY Zenon, <1>1, <1>2, <1>3 DEF Next

(* SInv holds in every state of every behaviour. *)
LEMMA AlwaysSInv == Spec => [](IInv /\ SInv)
<1>1. Init => IInv /\ SInv
  BY Zenon, InitIInv, InitSInv
<1>2. IInv /\ SInv /\ [Next]_vars => IInv' /\ SInv'
  BY Zenon, NextIInv, NextSInv
<1> QED
  BY <1>1, <1>2, PTL DEF Spec

(* The assertion "revisiting object?" of copy_and_push_safe_barrier never  *)
(* fails: a slot on the stack of a worker or in its hand was not updated,  *)
(* by whichever worker, since it was claimed.                              *)
THEOREM NeverRevisited == Spec => []NotRevisited
<1>1. IInv /\ SInv => NotRevisited
  <2> SUFFICES ASSUME IInv, SInv, NEW w \in Workers
               PROVE  /\ \A s \in Pending(bdaref_stack[w]) \cup Pending(claimed_stack[w]) : slot[s] = NULL
                      /\ local[w].slot # NULL => slot[local[w].slot] = NULL
    BY Zenon DEF NotRevisited
  <2>1. ASSUME NEW k \in Kinds, NEW t \in Stack(k, w), t.slot # NULL
        PROVE  slot[t.slot] = NULL
    <3>1. t.slot \in Slots
      BY Zenon, <2>1 DEF SInv, ArrayInv, Shaped
    <3>2. Waits(k, w, t, t.slot)
      BY Zenon, <2>1 DEF Waits
    <3> QED
      BY Zenon, <3>1, <3>2 DEF SInv, SlotInv, SlotOnce
  <2>2. \A s \in Pending(bdaref_stack[w]) \cup Pending(claimed_stack[w]) : slot[s] = NULL
    BY Zenon, <2>1 DEF Pending, Stack, Kinds
  <2>3. ASSUME local[w].slot # NULL PROVE slot[local[w].slot] = NULL
    <3>1. pc[w] # "idle"
      BY Zenon, <2>3 DEF SInv, ArrayInv, Shaped
    <3>2. local[w].slot \in Slots
      BY Zenon, <2>3 DEF IInv, LocalsOK, LocalOK, Locals
    <3>3. Waits("hand", w, NULL, local[w].slot)
      BY Zenon, <3>1 DEF Waits
    <3> QED
      BY Zenon, <3>2, <3>3 DEF SInv, SlotInv, SlotOnce
  <2> QED
    BY Zenon, <2>2, <2>3
<1> QED
  BY <1>1, AlwaysSInv, PTL

(* A collection is complete: when post_scavenge has run, every reference   *)
(* that is reached was updated, whatever the number of workers and however *)
(* the chunks of large arrays were shared among them.                      *)
THEOREM CollectionComplete == Spec => []NothingLeft
<1>1. IInv /\ SInv => NothingLeft
  <2> SUFFICES ASSUME IInv, SInv, done, NEW s \in Abstract!Reached, slot[s] = NULL
               PROVE  FALSE
    BY Zenon DEF NothingLeft
  <2>1. Drained
    BY Zenon DEF SInv, DoneOK
  <2>2. \/ s \in RefSlots \cup OldSlots \cup PlainSlots
        \/ \E o \in Objects : forwardee[o] # NULL /\ s \in Contents[o]
    BY Zenon DEF Abstract!Reached, Abstract!Forwarded
  <2>3. s \in Slots
    BY ZenonT(30), <2>2, FieldSlots, RootSlots
  <2>4. PICK k, p, t : Waits(k, p, t, s)
    BY Zenon, <2>2, <2>3 DEF SInv, SlotInv, SlotOnce, Cell
  <2>5. p \in Objects /\ Left(p, s)
    BY Zenon, <2>1, <2>4 DEF Waits, Drained, Stack
  <2>6. ~ Copying(p) /\ ~ Rest(p)
    BY Zenon, <2>1 DEF Drained, Copying, Rest, Stack
  <2>7. PICK i \in DOMAIN Fields[p] : Fields[p][i] = s /\ forwardee[p] = NULL
    BY Zenon, <2>5, <2>6 DEF Left, Unpushed
  <2>8. CASE s \in RefSlots \cup OldSlots \cup PlainSlots
    BY ZenonT(30), <2>5, <2>7, <2>8, CellAssumption
  <2>9. ASSUME NEW o \in Objects, forwardee[o] # NULL, s \in Contents[o] PROVE FALSE
    <3>1. s \in Contents[p]
      BY Zenon, <2>5, <2>7 DEF Contents
    <3>2. o = p
      BY Zenon, <2>3, <2>5, <2>9, <3>1, OneContents
    <3> QED
      BY Zenon, <2>7, <2>9, <3>2
  <2> QED
    BY Zenon, <2>2, <2>8, <2>9
<1> QED
  BY <1>1, AlwaysSInv, PTL

(* After a collection the dirty cards cover every reference from the old   *)
(* generation to an object that is still young, also where a worker has    *)
(* cleaned the card of an old container before it claimed what is on it.   *)
THEOREM CardsComplete == Spec => []CardsCover
<1>1. SInv => CardsCover
  BY Zenon DEF SInv, CardInv, CardsCover
<1> QED
  BY <1>1, AlwaysSInv, PTL

-----------------------------------------------------------------------------
(***************************************************************************)
(* Families of objects stay together: an object that goes to a container   *)
(* as an element is referred to from that container.  A reference carries  *)
(* the container of its holder from the push to the allocation, and        *)
(* neither the place of an object nor the family of a segment changes in   *)
(* between.                                                                *)
(***************************************************************************)

(* Segments in use keep their family, and so do the copies in them. *)
FamiliesOK ==
  /\ family \in [Segments -> SegmentOrNull]
  /\ family[first_segment] = first_segment
  /\ \A o \in Objects : forwardee[o] # NULL /\ forwardee[o][1] = "segment"
       => forwardee[o][2] \in Segments /\ family[forwardee[o][2]] # NULL

(* A slot of the family of segment c: one of an old container, which       *)
(* stands in the first segment, or a field of an object that was copied to *)
(* the family.                                                             *)
Belongs(s, c) ==
  /\ c \in Segments /\ family[c] # NULL
  /\ \/ s \in OldSlots /\ family[c] = first_segment
     \/ \E p \in Holders[s] : FamilyOf(forwardee[p]) = family[c]

(* A task of the bda stack names the container of its holder. *)
BdaTaskOK(t) ==
  IF t.array = NULL
    THEN Belongs(t.slot, t.container)
    ELSE /\ t.container \in Segments /\ family[t.container] # NULL
         /\ FamilyOf(forwardee[t.array]) = family[t.container]

(* So does a worker that copies an element, and then its place is in that  *)
(* family; the first object of a container starts a family.                *)
HandOK(w) ==
  LET c == local[w].container
  IN  /\ pc[w] = "element" => Belongs(local[w].slot, c)
      /\ pc[w] \in {"cas", "contents"} =>
           \/ ~ OnBdaPath(w) /\ local[w].new_obj[1] # "segment"
           \/ /\ local[w].how = "container"
              /\ c \in Segments /\ family[c] = c /\ local[w].new_obj = InSegment(c, 0)
           \/ /\ local[w].how \in {"lab", "direct"}
              /\ Belongs(local[w].slot, c) /\ local[w].new_obj = InSegment(c, local[w].new_obj[3])
      /\ pc[w] = "contents" => forwardee[object(w)] = local[w].new_obj

(* KeptTogether for one object. *)
Kept(o) ==
  LET f == FamilyOf(forwardee[o])
  IN  f # NULL /\ (forwardee[o][3] > 0 \/ forwardee[o][2] # f) =>
        \E s \in Slots :
          /\ Target[s] = o
          /\ \/ s \in OldSlots /\ f = first_segment
             \/ \E place \in PlacesOf(s) : FamilyOf(place) = f

KInv ==
  /\ FamiliesOK
  /\ \A w \in Workers : \A t \in bdaref_stack[w] : BdaTaskOK(t)
  /\ \A w \in Workers : HandOK(w)
  /\ \A o \in Objects : Kept(o)

-----------------------------------------------------------------------------
(* What no step undoes: the place of an object and the family of a segment *)
Growth ==
  /\ \A s \in Segments : family[s] # NULL => family'[s] = family[s]
  /\ \A o \in Objects : forwardee[o] # NULL => forwardee'[o] = forwardee[o]

(* The family of a copy stays. *)
LEMMA FamilyKept ==
  ASSUME FamiliesOK, Growth, NEW o \in Objects, FamilyOf(forwardee[o]) # NULL
  PROVE  FamilyOf(forwardee[o])' = FamilyOf(forwardee[o])
<1>1. forwardee[o] # NULL /\ forwardee[o][1] = "segment"
  BY Zenon DEF FamilyOf
<1>2. forwardee'[o] = forwardee[o] /\ family'[forwardee[o][2]] = family[forwardee[o][2]]
  BY Zenon, <1>1 DEF FamiliesOK, Growth
<1> QED
  BY Zenon, <1>1, <1>2 DEF FamilyOf

(* A slot stays in its family. *)
LEMMA BelongsKept ==
  ASSUME FamiliesOK, Growth, NEW s \in Slots, NEW c, Belongs(s, c)
  PROVE  Belongs(s, c)' /\ family'[c] = family[c]
<1>1. c \in Segments /\ family[c] # NULL /\ family'[c] = family[c]
  BY Zenon DEF Belongs, Growth
<1>2. CASE s \in OldSlots /\ family[c] = first_segment
  BY Zenon, <1>1, <1>2 DEF Belongs
<1>3. ASSUME NEW p \in Holders[s], FamilyOf(forwardee[p]) = family[c]
      PROVE  Belongs(s, c)'
  <2>1. p \in Objects
    BY Zenon DEF Holders
  <2>2. FamilyOf(forwardee[p])' = family'[c]
    BY Zenon, <1>1, <1>3, <2>1, FamilyKept
  <2> QED
    BY Zenon, <1>1, <2>2 DEF Belongs
<1> QED
  BY Zenon, <1>1, <1>2, <1>3 DEF Belongs

(* A task stays right. *)
LEMMA TaskKept ==
  ASSUME FamiliesOK, Growth, NEW t, TaskOK(t), BdaTaskOK(t)
  PROVE  BdaTaskOK(t)'
<1>1. CASE t.array = NULL
  <2>1. t.slot \in Slots
    BY Zenon, <1>1, ReachedSlots, PromotionAssumption DEF TaskOK
  <2> QED
    BY Zenon, <1>1, <2>1, BelongsKept DEF BdaTaskOK
<1>2. CASE t.array # NULL
  <2>1. t.array \in Objects
    BY Zenon, <1>2 DEF TaskOK
  <2>2. t.container \in Segments /\ family[t.container] # NULL /\ family'[t.container] = family[t.container]
    BY Zenon, <1>2 DEF BdaTaskOK, Growth
  <2>3. FamilyOf(forwardee[t.array])' = family'[t.container]
    BY Zenon, <1>2, <2>1, <2>2, FamilyKept DEF BdaTaskOK
  <2> QED
    BY Zenon, <1>2, <2>2, <2>3 DEF BdaTaskOK
<1> QED
  BY Zenon, <1>1, <1>2

(* So does a worker that takes no step. *)
LEMMA HandKept ==
  ASSUME LocalsOK, FamiliesOK, Growth, NEW w \in Workers, HandOK(w),
         pc'[w] = pc[w], local'[w] = local[w]
  PROVE  HandOK(w)'
<1> DEFINE c == local[w].container
<1>1. CASE pc[w] \notin {"element", "cas", "contents"}
  BY Zenon, <1>1 DEF HandOK
<1>2. CASE pc[w] \in {"element", "cas", "contents"}
  <2>1. local[w].slot \in Slots /\ object(w) \in Objects
    BY Zenon, <1>2, ObjectOK, ReachedSlots
  <2>2. Belongs(local[w].slot, c) => Belongs(local[w].slot, c)'
    BY Zenon, <2>1, BelongsKept
  <2>3. c \in Segments /\ family[c] = c => family'[c] = c
    BY Zenon, PromotionAssumption DEF Growth
  <2>4. pc[w] = "contents" => forwardee'[object(w)] = forwardee[object(w)]
    BY Zenon, <2>1 DEF LocalsOK, LocalOK, Growth
  <2> QED
    BY Zenon, <2>2, <2>3, <2>4 DEF HandOK, OnBdaPath, object
<1> QED
  BY Zenon, <1>1, <1>2

(* So does an object that has its place. *)
LEMMA KeptKept ==
  ASSUME FamiliesOK, Growth, NEW o \in Objects, Kept(o), forwardee[o] # NULL
  PROVE  Kept(o)'
<1> DEFINE f == FamilyOf(forwardee[o])
<1>1. forwardee'[o] = forwardee[o]
  BY Zenon DEF Growth
<1>2. CASE f = NULL
  <2>1. forwardee[o][1] # "segment"
    BY Zenon, <1>2 DEF FamiliesOK, FamilyOf
  <2> QED
    BY Zenon, <1>1, <2>1 DEF Kept, FamilyOf
<1>3. CASE f # NULL
  <2>1. FamilyOf(forwardee[o])' = f
    BY Zenon, <1>3, FamilyKept
  <2>2. ASSUME NEW s \in Slots, NEW place \in PlacesOf(s), FamilyOf(place) = f
        PROVE  \E q \in PlacesOf(s)' : FamilyOf(q)' = f
    <3>1. PICK p \in Holders[s] : place = forwardee[p]
      BY Zenon DEF PlacesOf
    <3>2. p \in Objects
      BY Zenon DEF Holders
    <3>3. FamilyOf(forwardee[p])' = f
      BY Zenon, <1>3, <2>2, <3>1, <3>2, FamilyKept
    <3> QED
      BY Zenon, <3>3 DEF PlacesOf
  <2> QED
    BY Zenon, <1>1, <2>1, <2>2 DEF Kept
<1> QED
  BY Zenon, <1>2, <1>3

(* The steps of one worker: it remains to look at what the worker itself   *)
(* holds, pushes and forwards.                                             *)
LEMMA WorkerStep ==
  ASSUME IInv, KInv, Growth, FamiliesOK', NEW w \in Workers, HandOK(w)',
         \A v \in Workers \ {w} : pc'[v] = pc[v] /\ local'[v] = local[v],
         \A v \in Workers : \A t \in bdaref_stack'[v] : t \in bdaref_stack[v] \/ BdaTaskOK(t)',
         \A o \in Objects : forwardee'[o] # NULL => forwardee[o] # NULL \/ Kept(o)'
  PROVE  KInv'
<1>1. FamiliesOK /\ LocalsOK
  BY Zenon DEF IInv, KInv
<1>2. ASSUME NEW v \in Workers, NEW t \in bdaref_stack'[v]
      PROVE  BdaTaskOK(t)'
  <2>1. CASE t \in bdaref_stack[v]
    <3>1. TaskOK(t) /\ BdaTaskOK(t)
      BY Zenon, <2>1 DEF IInv, StacksOK, KInv
    <3> QED
      BY Zenon, <1>1, <3>1, TaskKept
  <2> QED
    BY Zenon, <2>1
<1>3. ASSUME NEW v \in Workers, v # w
      PROVE  HandOK(v)'
  BY Zenon, <1>1, <1>3, HandKept DEF KInv
<1>4. ASSUME NEW o \in Objects
      PROVE  Kept(o)'
  <2>1. CASE forwardee[o] # NULL
    BY Zenon, <1>1, <2>1, KeptKept DEF KInv
  <2>2. CASE forwardee'[o] = NULL
    BY Zenon, <2>2 DEF Kept, FamilyOf
  <2> QED
    BY Zenon, <2>1, <2>2
<1> QED
  BY Zenon, <1>2, <1>3, <1>4 DEF KInv

-----------------------------------------------------------------------------
(* Taking work                                                             *)

(* Steps that copy and allocate nothing. *)
LEMMA SameFamilies ==
  ASSUME FamiliesOK, UNCHANGED <<family, forwardee>>
  PROVE  FamiliesOK' /\ Growth
BY Zenon DEF FamiliesOK, Growth

(* Begin: an element belongs to the container of its task. *)
LEMMA BeginHand ==
  ASSUME LocalsOK, NEW w \in Workers, pc[w] = "idle",
         NEW s, NEW c, NEW kind \in {"container", "element", "plain"}, Begin(w, s, c, kind),
         kind = "element" => Belongs(s, c)'
  PROVE  HandOK(w)' /\ \A v \in Workers \ {w} : pc'[v] = pc[v] /\ local'[v] = local[v]
<1>1. CASE UNCHANGED <<pc, local>>
  BY Zenon, <1>1 DEF HandOK
<1>2. CASE /\ pc' = [pc EXCEPT ![w] = kind]
           /\ local' = [local EXCEPT ![w] = [NoLocals EXCEPT !.slot = s, !.container = c]]
  <2>1. /\ pc'[w] = kind /\ local'[w].slot = s /\ local'[w].container = c
        /\ \A v \in Workers \ {w} : pc'[v] = pc[v] /\ local'[v] = local[v]
    BY <1>2 DEF LocalsOK, NoLocals
  <2> QED
    BY Zenon, <2>1 DEF HandOK
<1> QED
  BY Zenon, <1>1, <1>2 DEF Begin

(* DequeueRef and TakeRoot start no element. *)
LEMMA RootFamily ==
  ASSUME IInv, KInv, NEW w \in Workers, DequeueRef(w) \/ TakeRoot(w)
  PROVE  KInv'
<1>1. PICK s \in refs \cup plains, kind \in {"container", "plain"} : Begin(w, s, NULL, kind)
  BY Zenon DEF DequeueRef, TakeRoot
<1>2. pc[w] = "idle" /\ UNCHANGED <<forwardee, family, bdaref_stack>>
  BY Zenon DEF DequeueRef, TakeRoot, BdaDrained, Idle, containers, stacks
<1>3. HandOK(w)' /\ \A v \in Workers \ {w} : pc'[v] = pc[v] /\ local'[v] = local[v]
  BY Zenon, <1>1, <1>2, BeginHand DEF IInv
<1> QED
  BY Zenon, <1>2, <1>3, SameFamilies, WorkerStep DEF KInv

(* ScanOld: the slots of an old container go to the first segment. *)
LEMMA ScanFamily ==
  ASSUME IInv, KInv, NEW w \in Workers, ScanOld(w)
  PROVE  KInv'
<1>1. PICK s \in olds : bdaref_stack' = [bdaref_stack EXCEPT ![w] = @ \cup Unknown({s}, first_segment)]
  BY Zenon DEF ScanOld
<1>2. pc[w] = "idle" /\ UNCHANGED <<forwardee, family, pc, local>>
  BY Zenon DEF ScanOld, BdaDrained, Idle, containers
<1>3. first_segment \in Segments /\ first_segment # NULL
  BY Zenon, LeastIn, PromotionAssumption DEF first_segment
<1>4. ASSUME NEW t \in Unknown({s}, first_segment)
      PROVE  BdaTaskOK(t)'
  <2>1. t.slot = s /\ t.array = NULL /\ t.container = first_segment
    <3>1. IsTask(t, {s}, first_segment)
      BY Zenon, <1>4, UnknownTasks
    <3> QED
      BY Zenon, <3>1 DEF IsTask
  <2>2. s \in OldSlots /\ family'[first_segment] = first_segment
    BY Zenon, <1>2 DEF IInv, RootsOK, KInv, FamiliesOK
  <2> QED
    BY ZenonT(30), <1>3, <2>1, <2>2 DEF BdaTaskOK, Belongs
<1>5. \A v \in Workers : \A t \in bdaref_stack'[v] : t \in bdaref_stack[v] \/ BdaTaskOK(t)'
  BY Zenon, <1>1, <1>4 DEF IInv, StacksOK
<1>6. HandOK(w)'
  BY Zenon, <1>2 DEF HandOK
<1> QED
  BY Zenon, <1>2, <1>5, <1>6, SameFamilies, WorkerStep DEF KInv

(* The slots of an object whose copy is in the family of c, as tasks for c *)
LEMMA ContentsFamily ==
  ASSUME FamiliesOK, Growth, NEW o \in Objects, NEW c \in Segments, family[c] # NULL,
         FamilyOf(forwardee[o]) = family[c],
         NEW S \in SUBSET Contents[o], NEW t \in Unknown(S, c) \cup {ArrayTask(o, c)}
  PROVE  BdaTaskOK(t)'
<1>1. family'[c] = family[c] /\ FamilyOf(forwardee[o])' = family'[c]
  BY Zenon, FamilyKept DEF Growth
<1>2. CASE t = ArrayTask(o, c)
  <2>1. t.array = o /\ t.container = c /\ o # NULL
    BY ZenonT(30), <1>2, TaskFields, PromotionAssumption
  <2> QED
    BY ZenonT(30), <1>1, <2>1 DEF BdaTaskOK
<1>3. CASE t \in Unknown(S, c)
  <2>1. t.slot \in S /\ t.array = NULL /\ t.container = c
    <3>1. IsTask(t, S, c)
      BY Zenon, <1>3, UnknownTasks
    <3> QED
      BY Zenon, <3>1 DEF IsTask
  <2>2. t.slot \in Slots /\ o \in Holders[t.slot]
    <3>1. t.slot \in Contents[o] /\ Contents[o] \subseteq Slots
      BY Zenon, <2>1, FieldSlots
    <3> QED
      BY ZenonT(30), <3>1 DEF Holders
  <2> QED
    BY ZenonT(30), <1>1, <2>1, <2>2 DEF BdaTaskOK, Belongs
<1> QED
  BY Zenon, <1>2, <1>3

(* PopBda: an element goes on with its container, and so does the rest of  *)
(* an array.                                                               *)
LEMMA PopFamily ==
  ASSUME IInv, KInv, NEW w \in Workers, PopBda(w)
  PROVE  KInv'
<1>1. pc[w] = "idle" /\ UNCHANGED <<forwardee, family>>
  BY Zenon DEF PopBda, Idle, containers
<1>2. FamiliesOK /\ FamiliesOK' /\ Growth
  BY Zenon, <1>1, SameFamilies DEF KInv
<1>3. PICK t \in bdaref_stack[w] :
        IF t.array = NULL
          THEN /\ Begin(w, t.slot, t.container, "element")
               /\ bdaref_stack' = [bdaref_stack EXCEPT ![w] = @ \ {t}]
          ELSE /\ bdaref_stack' = [bdaref_stack EXCEPT ![w] = (@ \ {t}) \cup ChunkTasks(t.array, t.container)]
               /\ UNCHANGED <<pc, local>>
  BY Zenon DEF PopBda
<1>4. TaskOK(t) /\ BdaTaskOK(t)
  BY Zenon DEF IInv, StacksOK, KInv
<1>5. CASE t.array = NULL
  <2>1. Belongs(t.slot, t.container)'
    BY Zenon, <1>2, <1>4, <1>5, TaskKept DEF BdaTaskOK
  <2>2. HandOK(w)' /\ \A v \in Workers \ {w} : pc'[v] = pc[v] /\ local'[v] = local[v]
    BY Zenon, <1>1, <1>3, <1>5, <2>1, BeginHand DEF IInv
  <2>3. \A v \in Workers : \A x \in bdaref_stack'[v] : x \in bdaref_stack[v]
    BY Zenon, <1>3, <1>5 DEF IInv, StacksOK
  <2> QED
    BY Zenon, <1>1, <1>2, <2>2, <2>3, WorkerStep
<1>6. CASE t.array # NULL
  <2> DEFINE a == t.array
             c == t.container
  <2>1. a \in Objects /\ forwardee[a] # NULL
    BY Zenon, <1>4, <1>6 DEF TaskOK
  <2>2. c \in Segments /\ family[c] # NULL /\ FamilyOf(forwardee[a]) = family[c]
    BY Zenon, <1>4, <1>6 DEF BdaTaskOK
  <2>3. Chunk(a) \subseteq Contents[a]
    BY Zenon, <2>1, ChunkContents DEF IInv
  <2>4. ASSUME NEW x \in ChunkTasks(a, c)
        PROVE  BdaTaskOK(x)'
    <3>1. x \in Unknown(Chunk(a), c) \cup {ArrayTask(a, c)}
      BY Zenon DEF ChunkTasks
    <3> QED
      BY ZenonT(30), <1>2, <2>1, <2>2, <2>3, <3>1, ContentsFamily
  <2>5. \A v \in Workers : \A x \in bdaref_stack'[v] : x \in bdaref_stack[v] \/ BdaTaskOK(x)'
    BY Zenon, <1>3, <1>6, <2>4 DEF IInv, StacksOK
  <2>6. HandOK(w)' /\ \A v \in Workers \ {w} : pc'[v] = pc[v] /\ local'[v] = local[v]
    BY Zenon, <1>1, <1>3, <1>6 DEF HandOK
  <2> QED
    BY Zenon, <1>1, <1>2, <2>5, <2>6, WorkerStep
<1> QED
  BY Zenon, <1>5, <1>6

(* PopDepth and Steal leave the bda stacks alone and start no element. *)
LEMMA DepthFamily ==
  ASSUME IInv, KInv, NEW w \in Workers, PopDepth(w) \/ Steal(w)
  PROVE  KInv'
<1>1. pc[w] = "idle" /\ \E v \in Workers : ProcessDepth(w, v)
  BY Zenon DEF PopDepth, Steal, BdaDrained, Idle
<1>2. UNCHANGED <<forwardee, family, bdaref_stack>>
  BY Zenon, <1>1 DEF ProcessDepth, containers
<1>3. HandOK(w)' /\ \A v \in Workers \ {w} : pc'[v] = pc[v] /\ local'[v] = local[v]
  <2>1. CASE UNCHANGED <<pc, local>>
    BY Zenon, <1>1, <2>1 DEF HandOK
  <2>2. CASE \E s : Begin(w, s, NULL, "plain")
    BY Zenon, <1>1, <2>2, BeginHand DEF IInv
  <2> QED
    BY Zenon, <1>1, <2>1, <2>2 DEF ProcessDepth
<1> QED
  BY Zenon, <1>2, <1>3, SameFamilies, WorkerStep DEF KInv
-----------------------------------------------------------------------------
(* Allocating                                                              *)

(* Copied: what the worker holds afterwards. *)
LEMMA CopiedHand ==
  ASSUME LocalsOK, NEW w \in Workers, NEW c, NEW a, NEW how, Copied(w, c, a, how)
  PROVE  /\ pc'[w] = "cas" /\ local'[w].slot = local[w].slot /\ local'[w].container = c
         /\ local'[w].new_obj = InSegment(c, a) /\ local'[w].how = how
         /\ \A v \in Workers \ {w} : pc'[v] = pc[v] /\ local'[v] = local[v]
BY DEF Copied, LocalsOK, Locals

(* A place outside the containers: for Fail and AllocatePlain. *)
LEMMA OutsideFamily ==
  ASSUME IInv, KInv, NEW w \in Workers,
         NEW place, place[1] # "segment", NEW how \in {"plain", "failed"},
         pc' = [pc EXCEPT ![w] = "cas"],
         local' = [local EXCEPT ![w].new_obj = place, ![w].how = how],
         UNCHANGED <<forwardee, family, bdaref_stack>>
  PROVE  KInv'
<1>1. /\ pc'[w] = "cas" /\ local'[w].new_obj = place /\ local'[w].how = how
      /\ \A v \in Workers \ {w} : pc'[v] = pc[v] /\ local'[v] = local[v]
  BY DEF IInv, LocalsOK, Locals
<1>2. how \notin {"container", "lab", "direct"}
  OBVIOUS
<1>3. HandOK(w)'
  BY Zenon, <1>1, <1>2 DEF HandOK, OnBdaPath
<1> QED
  BY Zenon, <1>1, <1>3, SameFamilies, WorkerStep DEF KInv

(* Fail. *)
LEMMA FailFamily ==
  ASSUME IInv, KInv, NEW w \in Workers, Fail(w), UNCHANGED <<forwardee, bdaref_stack>>
  PROVE  KInv'
<1>1. Self(object(w))[1] # "segment"
  BY DEF Self
<1> QED
  BY Zenon, <1>1, OutsideFamily DEF Fail, containers

(* AllocatePlain. *)
LEMMA PlainFamily ==
  ASSUME IInv, KInv, NEW w \in Workers, AllocatePlain(w)
  PROVE  KInv'
<1>1. UNCHANGED <<forwardee, bdaref_stack>>
  BY Zenon DEF AllocatePlain, stacks
<1>2. CASE Fail(w)
  BY Zenon, <1>1, <1>2, FailFamily
<1>3. ASSUME NEW place \in {Survivor(object(w), w), Tenured(object(w), w)},
             pc' = [pc EXCEPT ![w] = "cas"],
             local' = [local EXCEPT ![w].new_obj = place, ![w].how = "plain"],
             UNCHANGED <<containers, lab>>
      PROVE  KInv'
  <2>1. place[1] # "segment"
    BY <1>3 DEF Survivor, Tenured
  <2> QED
    BY Zenon, <1>1, <1>3, <2>1, OutsideFamily DEF containers
<1> QED
  BY Zenon, <1>2, <1>3 DEF AllocatePlain

(* A segment that nobody used joins a family. *)
LEMMA NewSegment ==
  ASSUME FamiliesOK, NEW s \in Segments, NEW f \in Segments,
         family[s] = NULL \/ family[s] = f,
         family' = [family EXCEPT ![s] = f], UNCHANGED forwardee
  PROVE  FamiliesOK' /\ Growth /\ family'[s] = f /\ f # NULL
<1>1. /\ family'[s] = f /\ f # NULL /\ family' \in [Segments -> SegmentOrNull]
      /\ \A x \in Segments : family[x] # NULL => family'[x] = family[x]
  BY Zenon, PromotionAssumption DEF FamiliesOK, SegmentOrNull
<1>2. Growth
  BY Zenon, <1>1 DEF Growth
<1>3. first_segment \in Segments /\ first_segment # NULL
  BY Zenon, LeastIn, PromotionAssumption DEF first_segment
<1>4. FamiliesOK'
  BY Zenon, <1>1, <1>3 DEF FamiliesOK
<1> QED
  BY Zenon, <1>1, <1>2, <1>4

(* AllocateContainer: the object starts a family. *)
LEMMA ContainerFamily ==
  ASSUME IInv, KInv, NEW w \in Workers, AllocateContainer(w)
  PROVE  KInv'
<1>1. pc[w] = "container" /\ UNCHANGED <<forwardee, bdaref_stack>>
  BY Zenon DEF AllocateContainer, stacks
<1>2. CASE Fail(w)
  BY Zenon, <1>1, <1>2, FailFamily
<1>3. CASE /\ Unused # {}
           /\ family' = [family EXCEPT ![Least(Unused)] = Least(Unused)]
           /\ Copied(w, Least(Unused), 0, "container")
  <2>1. PICK s \in Unused : s = Least(Unused)
    <3>1. Unused \subseteq Nat
      BY Zenon, PromotionAssumption DEF Unused
    <3> QED
      BY Zenon, <1>3, <3>1, LeastIn
  <2>2. s \in Segments /\ family[s] = NULL
    BY Zenon DEF Unused
  <2>3. FamiliesOK' /\ Growth /\ family'[s] = s
    BY ZenonT(30), <1>1, <1>3, <2>1, <2>2, NewSegment DEF KInv
  <2>4. /\ pc'[w] = "cas" /\ local'[w].container = s
        /\ local'[w].new_obj = InSegment(s, 0) /\ local'[w].how = "container"
        /\ \A v \in Workers \ {w} : pc'[v] = pc[v] /\ local'[v] = local[v]
    <3>1. Copied(w, s, 0, "container") /\ LocalsOK
      BY Zenon, <1>3, <2>1 DEF IInv
    <3> QED
      BY <3>1, CopiedHand
  <2>5. HandOK(w)'
    BY Zenon, <2>2, <2>3, <2>4 DEF HandOK
  <2> QED
    BY ZenonT(30), <1>1, <2>3, <2>4, <2>5, WorkerStep
<1> QED
  BY Zenon, <1>2, <1>3 DEF AllocateContainer

(* An element that was copied to a segment of its family. *)
LEMMA ElementCopied ==
  ASSUME IInv, KInv, Growth, FamiliesOK', NEW w \in Workers, pc[w] = "element",
         NEW s \in Segments, NEW a, NEW how \in {"lab", "direct"}, Copied(w, s, a, how),
         family'[s] = family[local[w].container], UNCHANGED <<forwardee, bdaref_stack>>
  PROVE  KInv'
<1>1. PICK s0, c : s0 \in Slots /\ s0 = local[w].slot /\ c = local[w].container /\ Belongs(s0, c)
  BY Zenon, ObjectOK, ReachedSlots DEF IInv, KInv, HandOK
<1>2. Belongs(s0, c)' /\ family'[c] = family[c]
  BY Zenon, <1>1, BelongsKept DEF KInv
<1>3. Belongs(s0, s)'
  BY Zenon, <1>1, <1>2 DEF Belongs
<1>4. /\ pc'[w] = "cas" /\ local'[w].slot = s0 /\ local'[w].container = s
      /\ local'[w].new_obj = InSegment(s, a) /\ local'[w].how = how
      /\ \A v \in Workers \ {w} : pc'[v] = pc[v] /\ local'[v] = local[v]
  BY Zenon, <1>1, CopiedHand DEF IInv
<1>5. InSegment(s, a) = InSegment(s, InSegment(s, a)[3])
  BY DEF InSegment
<1>6. HandOK(w)'
  BY Zenon, <1>3, <1>4, <1>5 DEF HandOK
<1> QED
  BY Zenon, <1>4, <1>6, WorkerStep

(* TakeElement takes a segment of the family or one that joins it. *)
LEMMA ElementFamily ==
  ASSUME LabsOK, FamiliesOK, NEW c \in Segments, family[c] # NULL, NEW n \in Nat,
         ~ NoSegment(c, n), TakeElement(c, n), UNCHANGED forwardee
  PROVE  FamiliesOK' /\ Growth /\ family'[element_segment(c, n)] = family[c]
<1>1. PICK s \in Segments : s = element_segment(c, n)
  BY Zenon, ElementPlace
<1>2. family[c] \in Segments
  BY Zenon DEF FamiliesOK, SegmentOrNull
<1>3. family[s] = NULL \/ family[s] = family[c]
  <2>1. HasRoom(c, n) \subseteq Nat /\ Unused \subseteq Nat
    BY Zenon, PromotionAssumption DEF HasRoom, Unused
  <2>2. CASE HasRoom(c, n) # {}
    BY Zenon, <1>1, <2>1, <2>2, LeastIn DEF element_segment, HasRoom
  <2>3. CASE HasRoom(c, n) = {}
    BY Zenon, <1>1, <2>1, <2>3, LeastIn DEF element_segment, NoSegment, Unused
  <2> QED
    BY Zenon, <2>2, <2>3
<1>4. family' = [family EXCEPT ![s] = family[c]]
  BY Zenon, <1>1 DEF TakeElement
<1> QED
  BY Zenon, <1>1, <1>2, <1>3, <1>4, NewSegment

(* AllocateElement: from the buffer, which serves the container it was     *)
(* made for, or from a segment of the container.                           *)
LEMMA AllocateFamily ==
  ASSUME IInv, KInv, NEW w \in Workers, AllocateElement(w)
  PROVE  KInv'
<1> DEFINE c == local[w].container
           n == Size[object(w)]
<1>1. pc[w] = "element" /\ UNCHANGED <<forwardee, bdaref_stack>>
  BY Zenon DEF AllocateElement, stacks
<1>2. c \in Segments /\ family[c] # NULL
  BY Zenon, <1>1 DEF KInv, HandOK, Belongs
<1>3. n \in Nat /\ BDAOldPLABSize \in Nat /\ LabsOK /\ FamiliesOK
  BY Zenon, <1>1, ObjectOK, PromotionAssumption DEF IInv, KInv
<1>4. CASE Fail(w)
  BY Zenon, <1>1, <1>4, FailFamily
<1>5. CASE FromLab(w)
  <2>1. lab[w].container = c /\ Copied(w, lab[w].container, lab[w].top, "lab") /\ UNCHANGED family
    BY Zenon, <1>5 DEF FromLab, LabFits
  <2>2. FamiliesOK' /\ Growth
    BY Zenon, <1>1, <1>3, <2>1, SameFamilies
  <2> QED
    BY Zenon, <1>1, <1>2, <2>1, <2>2, ElementCopied
<1>6. ASSUME NEW m \in Nat, ~ NoSegment(c, m), TakeElement(c, m), NEW how \in {"lab", "direct"},
             Copied(w, element_segment(c, m), element_start(c, m), how)
      PROVE  KInv'
  <2>1. FamiliesOK' /\ Growth /\ family'[element_segment(c, m)] = family[c]
    BY Zenon, <1>1, <1>2, <1>3, <1>6, ElementFamily
  <2>2. element_segment(c, m) \in Segments
    BY Zenon, <1>3, <1>6, ElementPlace
  <2> QED
    BY Zenon, <1>1, <1>6, <2>1, <2>2, ElementCopied
<1>7. CASE Direct(w)
  BY Zenon, <1>3, <1>4, <1>6, <1>7 DEF Direct
<1>8. CASE NewLab(w)
  BY Zenon, <1>3, <1>4, <1>6, <1>8 DEF NewLab
<1> QED
  BY Zenon, <1>5, <1>7, <1>8 DEF AllocateElement

-----------------------------------------------------------------------------
(* Claiming                                                                *)

(* CasWon: the object gets a place in the family of its slot. *)
LEMMA WonFamily ==
  ASSUME IInv, KInv, NEW w \in Workers, CasWon(w)
  PROVE  KInv'
<1>1. PICK o \in Objects, s0 \in Slots : o = object(w) /\ s0 = local[w].slot
  BY Zenon, ObjectOK, ReachedSlots DEF IInv, CasWon
<1>2. PICK place, c : place = local[w].new_obj /\ c = local[w].container
  OBVIOUS
<1>3. /\ pc[w] = "cas" /\ forwardee[o] = NULL
      /\ forwardee' = [forwardee EXCEPT ![o] = place] /\ pc' = [pc EXCEPT ![w] = "contents"]
      /\ UNCHANGED <<family, local, bdaref_stack>>
  BY Zenon, <1>1, <1>2 DEF CasWon, containers, stacks
<1>4. /\ forwardee'[o] = place /\ \A p \in Objects \ {o} : forwardee'[p] = forwardee[p]
      /\ pc'[w] = "contents" /\ \A v \in Workers \ {w} : pc'[v] = pc[v]
  BY Zenon, <1>3 DEF IInv, Heap, LocalsOK
<1>5. Growth
  BY Zenon, <1>3, <1>4 DEF Growth
<1>6. HandOK(w) /\ Target[s0] = o /\ FamiliesOK /\ place \in Places
  BY Zenon, <1>1, <1>2, <1>3 DEF IInv, KInv, object, LocalsOK, LocalOK
<1>7. \/ place[1] # "segment" /\ ~ OnBdaPath(w)
      \/ local[w].how = "container" /\ c \in Segments /\ family[c] = c /\ place = InSegment(c, 0)
      \/ local[w].how \in {"lab", "direct"} /\ Belongs(s0, c) /\ place = InSegment(c, place[3])
  BY Zenon, <1>1, <1>2, <1>3, <1>6 DEF HandOK
<1>8. /\ place = InSegment(c, 0) => place[1] = "segment" /\ place[2] = c /\ ~ (place[3] > 0)
      /\ place = InSegment(c, place[3]) => place[1] = "segment" /\ place[2] = c
      /\ place # NULL
  BY <1>6, NullAssumption DEF InSegment
<1>9. FamiliesOK'
  <2>1. place[1] = "segment" => place[2] \in Segments /\ family[place[2]] # NULL
    BY Zenon, <1>7, <1>8, PromotionAssumption DEF Belongs
  <2>2. \A p \in Objects : forwardee'[p] # NULL /\ forwardee'[p][1] = "segment"
          => forwardee'[p][2] \in Segments /\ family[forwardee'[p][2]] # NULL
    BY Zenon, <1>4, <1>6, <2>1 DEF FamiliesOK
  <2> QED
    BY Zenon, <1>3, <1>6, <2>2 DEF FamiliesOK
<1>10. Belongs(s0, c) => Belongs(s0, c)'
  BY Zenon, <1>5, <1>6, BelongsKept
<1>11. HandOK(w)'
  BY ZenonT(30), <1>1, <1>2, <1>3, <1>4, <1>7, <1>10 DEF HandOK, OnBdaPath, object
<1>12. Kept(o)'
  <2>1. CASE place[1] # "segment"
    BY Zenon, <1>4, <2>1 DEF Kept, FamilyOf
  <2>2. CASE c \in Segments /\ family[c] = c /\ place = InSegment(c, 0)
    <3>1. FamilyOf(forwardee[o])' = c /\ forwardee'[o][2] = c /\ ~ (forwardee'[o][3] > 0)
      BY Zenon, <1>3, <1>4, <1>8, <2>2 DEF FamilyOf
    <3> QED
      BY Zenon, <3>1 DEF Kept
  <2>3. CASE Belongs(s0, c) /\ place = InSegment(c, place[3])
    <3>1. FamilyOf(forwardee[o])' = family'[c]
      BY Zenon, <1>4, <1>8, <2>3 DEF FamilyOf
    <3>2. \/ s0 \in OldSlots /\ family'[c] = first_segment
          \/ \E q \in PlacesOf(s0)' : FamilyOf(q)' = family'[c]
      BY Zenon, <1>10, <2>3 DEF Belongs, PlacesOf
    <3> QED
      BY Zenon, <1>6, <3>1, <3>2 DEF Kept
  <2> QED
    BY Zenon, <1>7, <2>1, <2>2, <2>3
<1> QED
  BY ZenonT(30), <1>3, <1>4, <1>5, <1>9, <1>11, <1>12, WorkerStep

(* CasLost: the worker lets go of everything. *)
LEMMA LostFamily ==
  ASSUME IInv, KInv, NEW w \in Workers, CasLost(w)
  PROVE  KInv'
<1>1. UNCHANGED <<forwardee, family, bdaref_stack>>
  BY Zenon DEF CasLost, GiveBack, stacks
<1>2. pc'[w] = "idle" /\ \A v \in Workers \ {w} : pc'[v] = pc[v] /\ local'[v] = local[v]
  BY Zenon DEF CasLost, IInv, LocalsOK
<1>3. HandOK(w)'
  BY Zenon, <1>2 DEF HandOK
<1> QED
  BY Zenon, <1>1, <1>2, <1>3, SameFamilies, WorkerStep DEF KInv

(* PushContents: the fields of the object go to the segment of its copy. *)
LEMMA PushFamily ==
  ASSUME IInv, KInv, NEW w \in Workers, PushContents(w)
  PROVE  KInv'
<1>1. PICK o, c : o \in Objects /\ o = object(w) /\ c = local[w].container
  BY Zenon, ObjectOK DEF IInv, PushContents
<1>2. pc[w] = "contents" /\ UNCHANGED <<forwardee, family>>
  BY Zenon DEF PushContents, containers
<1>3. FamiliesOK /\ FamiliesOK' /\ Growth
  BY Zenon, <1>2, SameFamilies DEF KInv
<1>4. pc'[w] = "idle" /\ \A v \in Workers \ {w} : pc'[v] = pc[v] /\ local'[v] = local[v]
  BY Zenon DEF PushContents, IInv, LocalsOK
<1>5. HandOK(w)'
  BY Zenon, <1>4 DEF HandOK
<1>6. CASE ~ OnBdaPath(w)
  <2>1. UNCHANGED bdaref_stack
    BY Zenon, <1>6 DEF PushContents
  <2> QED
    BY ZenonT(30), <1>2, <1>3, <1>4, <1>5, <2>1, WorkerStep
<1>7. CASE OnBdaPath(w)
  <2>1. PICK tasks \in SUBSET (Unknown(Contents[o], c) \cup {ArrayTask(o, c)}) :
          bdaref_stack' = [bdaref_stack EXCEPT ![w] = @ \cup tasks]
    BY Zenon, <1>1, <1>7 DEF PushContents
  <2>2. \E a : c \in Segments /\ family[c] # NULL /\ forwardee[o] = InSegment(c, a)
    <3>1. HandOK(w) /\ NULL \notin Segments
      BY Zenon, PromotionAssumption DEF KInv
    <3>2. /\ forwardee[o] = local[w].new_obj
          /\ \/ c \in Segments /\ family[c] = c /\ local[w].new_obj = InSegment(c, 0)
             \/ Belongs(local[w].slot, c) /\ local[w].new_obj = InSegment(c, local[w].new_obj[3])
      BY Zenon, <1>1, <1>2, <1>7, <3>1 DEF HandOK
    <3> QED
      BY Zenon, <3>1, <3>2 DEF Belongs
  <2>3. FamilyOf(forwardee[o]) = family[c]
    <3>1. forwardee[o] # NULL
      BY Zenon, <1>1, <1>2 DEF IInv, LocalsOK, LocalOK
    <3>2. \A a : InSegment(c, a)[1] = "segment" /\ InSegment(c, a)[2] = c
      BY DEF InSegment
    <3> QED
      BY Zenon, <2>2, <3>1, <3>2 DEF FamilyOf
  <2>4. ASSUME NEW t \in tasks PROVE BdaTaskOK(t)'
    <3>1. Contents[o] \in SUBSET Contents[o] /\ t \in Unknown(Contents[o], c) \cup {ArrayTask(o, c)}
      BY Zenon, <2>1
    <3> QED
      BY ZenonT(30), <1>1, <1>3, <2>2, <2>3, <3>1, ContentsFamily
  <2>5. \A v \in Workers : \A t \in bdaref_stack'[v] : t \in bdaref_stack[v] \/ BdaTaskOK(t)'
    BY Zenon, <2>1, <2>4 DEF IInv, StacksOK
  <2> QED
    BY ZenonT(30), <1>2, <1>3, <1>4, <1>5, <2>5, WorkerStep
<1> QED
  BY Zenon, <1>6, <1>7

-----------------------------------------------------------------------------
(* In the beginning nothing has a place. *)
LEMMA InitKInv == Init => KInv
<1> SUFFICES ASSUME Init PROVE KInv
  OBVIOUS
<1>1. first_segment \in Segments /\ first_segment # NULL
  BY Zenon, LeastIn, PromotionAssumption DEF first_segment
<1>2. \A o \in Objects : forwardee[o] = NULL
  BY Zenon DEF Init
<1>3. FamiliesOK
  BY Zenon, <1>1, <1>2 DEF Init, FamiliesOK, SegmentOrNull
<1>4. \A w \in Workers : bdaref_stack[w] = {} /\ HandOK(w)
  BY Zenon DEF Init, HandOK
<1>5. \A o \in Objects : Kept(o)
  BY ZenonT(30), <1>2 DEF Kept, FamilyOf
<1> QED
  BY Zenon, <1>3, <1>4, <1>5 DEF KInv

(* Every step keeps the invariant. *)
LEMMA NextKInv == IInv /\ KInv /\ [Next]_vars => KInv'
<1> SUFFICES ASSUME IInv, KInv, [Next]_vars PROVE KInv'
  OBVIOUS
<1>1. CASE UNCHANGED <<family, forwardee, pc, local, bdaref_stack>>
  <2>1. FamiliesOK /\ FamiliesOK' /\ Growth
    BY Zenon, <1>1, SameFamilies DEF KInv
  <2>2. \A w \in Workers : HandOK(w)'
    BY Zenon, <1>1, <2>1, HandKept DEF IInv, KInv
  <2>3. \A w \in Workers : \A t \in bdaref_stack'[w] : BdaTaskOK(t)'
    BY Zenon, <1>1, <2>1, TaskKept DEF IInv, StacksOK, KInv
  <2>4. ASSUME NEW o \in Objects PROVE Kept(o)'
    <3>1. CASE forwardee[o] # NULL
      BY Zenon, <2>1, <3>1, KeptKept DEF KInv
    <3>2. CASE forwardee'[o] = NULL
      BY Zenon, <3>2 DEF Kept, FamilyOf
    <3> QED
      BY Zenon, <1>1, <3>1, <3>2
  <2> QED
    BY Zenon, <2>1, <2>2, <2>3, <2>4 DEF KInv
<1>2. ASSUME NEW w \in Workers, Step(w) PROVE KInv'
  <2>1. CASE DequeueRef(w) \/ TakeRoot(w)
    BY Zenon, <2>1, RootFamily
  <2>2. CASE ScanOld(w)
    BY Zenon, <2>2, ScanFamily
  <2>3. CASE PopBda(w)
    BY ZenonT(30), <2>3, PopFamily
  <2>4. CASE PopDepth(w) \/ Steal(w)
    BY Zenon, <2>4, DepthFamily
  <2>5. CASE AllocateContainer(w)
    BY Zenon, <2>5, ContainerFamily
  <2>6. CASE AllocateElement(w)
    BY Zenon, <2>6, AllocateFamily
  <2>7. CASE AllocatePlain(w)
    BY Zenon, <2>7, PlainFamily
  <2>8. CASE CasWon(w)
    BY Zenon, <2>8, WonFamily
  <2>9. CASE CasLost(w)
    BY Zenon, <2>9, LostFamily
  <2>10. CASE PushContents(w)
    BY Zenon, <2>10, PushFamily
  <2> QED
    BY ZenonT(30), <1>2, <2>1, <2>2, <2>3, <2>4, <2>5, <2>6, <2>7, <2>8, <2>9, <2>10 DEF Step
<1>3. CASE PostScavenge
  BY Zenon, <1>1, <1>3 DEF PostScavenge, stacks
<1>4. CASE UNCHANGED vars
  BY Zenon, <1>1, <1>4 DEF vars, containers, stacks
<1> QED
  BY Zenon, <1>2, <1>3, <1>4 DEF Next

(* An object that was copied to a container as an element is the target of *)
(* a slot in that container, whichever worker won it and whichever buffer  *)
(* its words came from: copy_bdaref_to_survivor_space never mixes families *)
THEOREM FamiliesTogether == Spec => []KeptTogether
<1>1. Init => IInv /\ KInv
  BY Zenon, InitIInv, InitKInv
<1>2. IInv /\ KInv /\ [Next]_vars => (IInv /\ KInv)'
  BY Zenon, NextIInv, NextKInv
<1>3. KInv => KeptTogether
  BY Zenon DEF KInv, Kept, KeptTogether
<1> QED
  BY <1>1, <1>2, <1>3, PTL DEF Spec
=============================================================================
