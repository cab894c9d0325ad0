-------------------------- MODULE Promotion_proofs --------------------------
(***************************************************************************)
(* Copying implements Forwarding for every graph of objects, every number  *)
(* of workers and segments and all sizes the assumption allows.            *)
(***************************************************************************)
EXTENDS Promotion, WellFoundedInduction, TLAPS

Reached == Abstract!Reached

(* A task is a reached slot, or an array that has its copy. *)
TaskOK(t) ==
  /\ t.container \in SegmentOrNull
  /\ \/ t.array = NULL /\ t.slot \in Reached
     \/ t.array \in Objects /\ forwardee[t.array] # NULL

Heap ==
  /\ forwardee \in [Objects -> Places \cup {NULL}]
  /\ slot \in [Slots -> Places \cup {NULL}]

ArraysOK == length \in [Objects -> Nat] /\ \A o \in Objects : length[o] <= Len(Fields[o])

RootsOK == refs \subseteq RefSlots /\ olds \subseteq OldSlots /\ plains \subseteq PlainSlots

LocalOK(w) ==
  /\ pc[w] # "idle" => local[w].slot \in Reached
  /\ pc[w] \in {"cas", "contents"} => local[w].new_obj \in Places
  /\ local[w].how = "lab" => \E s \in Segments, a \in 0..segment_sz : local[w].new_obj = InSegment(s, a)
  /\ pc[w] = "contents" => forwardee[object(w)] # NULL

LocalsOK ==
  /\ pc \in [Workers -> Steps]
  /\ local \in [Workers -> Locals]
  /\ \A w \in Workers : LocalOK(w)

LabsOK ==
  /\ top \in [Segments -> Nat]
  /\ lab \in [Workers -> Labs]
  /\ \A w \in Workers : lab[w].end <= segment_sz /\ (lab[w].container = NULL => lab[w].end = 0)

StacksOK ==
  /\ bdaref_stack = [w \in Workers |-> bdaref_stack[w]]
  /\ claimed_stack = [w \in Workers |-> claimed_stack[w]]
  /\ \A w \in Workers : \A t \in bdaref_stack[w] \cup claimed_stack[w] : TaskOK(t)

(* What the implementation rests on: workers only ever hold what is        *)
(* reached, and addresses stay within the segments.                        *)
IInv == Heap /\ ArraysOK /\ RootsOK /\ LocalsOK /\ LabsOK /\ StacksOK

-----------------------------------------------------------------------------
(* A set of numbers that is not empty has a least element: the segment     *)
(* that the allocation takes exists.                                       *)
LEMMA LeastIn ==
  ASSUME NEW S, S \subseteq Nat, S # {}
  PROVE  Least(S) \in S
<1> DEFINE lt == {p \in Nat \X Nat : p[1] < p[2]}
<1>1. IsWellFoundedOn(lt, Nat)
  BY Zenon, NatLessThanWellFounded DEF OpToRel
<1>2. PICK x \in S : \A y \in S : <<y, x>> \notin lt
  <2> HIDE DEF lt
  <2> QED BY Zenon, <1>1, WFMin
<1>3. \A y \in S : x \in Nat /\ y \in Nat /\ ~ (y < x)
  BY Zenon, <1>2
<1>4. \A y \in S : x <= y
  BY <1>3
<1> QED
  BY Zenon, <1>4 DEF Least

(* Reached slots are slots. *)
LEMMA ReachedSlots == Reached \subseteq Slots
<1>1. \A o \in Objects : Contents[o] \subseteq Slots
  BY PromotionAssumption DEF Contents
<1> QED
  BY <1>1, PromotionAssumption DEF Reached, Abstract!Reached, Abstract!Forwarded

(* The slots of an object that has its copy are reached. *)
LEMMA ContentsReached ==
  ASSUME NEW o \in Objects, forwardee[o] # NULL
  PROVE  Contents[o] \subseteq Reached
BY Zenon DEF Reached, Abstract!Reached, Abstract!Forwarded

(* A chunk lies in its array. *)
LEMMA ChunkContents ==
  ASSUME ArraysOK, NEW a \in Objects
  PROVE  Chunk(a) \subseteq Contents[a] /\ chunk_start(a) \in 0..Len(Fields[a])
<1>1. length[a] \in Nat /\ length[a] <= Len(Fields[a]) /\ chunk_size \in Nat \ {0} /\ Fields[a] \in Seq(Slots)
  BY Zenon, PromotionAssumption DEF ArraysOK
<1>2. min_array_size \in Nat /\ chunk_size <= min_array_size
  BY <1>1 DEF min_array_size
<1>3. chunk_start(a) \in Nat /\ chunk_start(a) <= length[a]
  BY <1>1, <1>2 DEF chunk_start
<1>4. Chunk(a) \subseteq Contents[a]
  BY <1>1, <1>3 DEF Chunk, Contents
<1> QED
  BY <1>1, <1>3, <1>4

(* So its slots are reached too. *)
LEMMA ChunkReached ==
  ASSUME ArraysOK, NEW a \in Objects, forwardee[a] # NULL
  PROVE  Chunk(a) \subseteq Reached /\ chunk_start(a) \in 0..Len(Fields[a])
BY Zenon, ChunkContents, ContentsReached

(* As long as nothing is forwarded, what is reached stays the same. *)
LEMMA SameReached ==
  ASSUME UNCHANGED forwardee
  PROVE  Reached' = Reached
BY Zenon DEF Reached, Abstract!Reached, Abstract!Forwarded

(* The tasks for reached slots are sound. *)
LEMMA UnknownOK ==
  ASSUME NEW S, S \subseteq Reached, NEW c \in SegmentOrNull, NEW t \in Unknown(S, c)
  PROVE  TaskOK(t)
BY DEF Unknown, Task, TaskOK

(* So are those of a chunk and the rest of its array. *)
LEMMA ChunkTasksOK ==
  ASSUME ArraysOK, NEW a \in Objects, forwardee[a] # NULL, NEW c \in SegmentOrNull,
         NEW t \in ChunkTasks(a, c)
  PROVE  TaskOK(t)
<1>1. CASE t \in Unknown(Chunk(a), c)
  BY Zenon, <1>1, ChunkReached, UnknownOK
<1>2. CASE t = ArrayTask(a, c)
  BY Zenon, <1>2 DEF ArrayTask, TaskOK
<1> QED
  BY Zenon, <1>1, <1>2 DEF ChunkTasks

(* Storing the places of forwarded targets into reached slots is a step of *)
(* Forwarding.                                                             *)
LEMMA StoreUpdates ==
  ASSUME Heap, UNCHANGED forwardee,
         NEW claimed, NEW copied, NEW dirty, Store(claimed, copied, dirty),
         \A s \in claimed \cup copied : s \in Reached /\ forwardee[Target[s]] # NULL
  PROVE  Abstract!Update /\ slot' \in [Slots -> Places \cup {NULL}]
<1>1. \A s \in Slots : Target[s] \in Objects /\ forwardee[Target[s]] \in Places \cup {NULL}
  BY Zenon, PromotionAssumption DEF Heap
<1>2. slot' = [s \in Slots |-> IF s \in claimed \cup copied THEN forwardee[Target[s]] ELSE slot[s]]
  BY Zenon DEF Store
<1>3. slot' \in [Slots -> Places \cup {NULL}]
  BY Zenon, <1>1, <1>2 DEF Heap
<1>4. \A s \in Slots : slot'[s] # slot[s] =>
        s \in Abstract!Reached /\ Target[s] \in Abstract!Forwarded /\ slot'[s] = forwardee[Target[s]]
  BY Zenon, <1>1, <1>2 DEF Reached, Abstract!Forwarded
<1> QED
  BY Zenon, <1>3, <1>4 DEF Abstract!Update

(* What is claimed at once is forwarded. *)
LEMMA KnownForwarded ==
  ASSUME NEW S, S \subseteq Reached
  PROVE  \A s \in Known(S) : s \in Reached /\ forwardee[Target[s]] # NULL
BY Zenon DEF Known

-----------------------------------------------------------------------------
(* Frames: what a step leaves alone stays sound.                           *)

(* Nothing is forwarded, and no worker moves. *)
LEMMA LocalsFrame ==
  ASSUME LocalsOK, UNCHANGED <<forwardee, pc, local>>
  PROVE  LocalsOK'
BY Zenon, SameReached DEF LocalsOK, LocalOK, object

(* Sound tasks stay sound. *)
LEMMA TaskFrame ==
  ASSUME UNCHANGED forwardee
  PROVE  \A t : TaskOK(t) => TaskOK(t)'
BY Zenon, SameReached DEF TaskOK

(* Nothing is forwarded, and the stacks stay as they are. *)
LEMMA StacksFrame ==
  ASSUME StacksOK, UNCHANGED <<forwardee, stacks>>
  PROVE  StacksOK'
BY Zenon, TaskFrame DEF StacksOK, stacks

(* Buffers and segments stay as they are. *)
LEMMA LabsFrame ==
  ASSUME LabsOK, UNCHANGED <<top, lab>>
  PROVE  LabsOK'
BY Zenon DEF LabsOK

(* A worker that starts with a reached slot. *)
LEMMA BeginOK ==
  ASSUME IInv, NEW w \in Workers, NEW s \in Reached, NEW c \in SegmentOrNull,
         NEW kind \in {"container", "element", "plain"},
         Begin(w, s, c, kind), UNCHANGED forwardee
  PROVE  Heap' /\ LocalsOK' /\ [Abstract!Next]_(Abstract!vars)
<1>1. s \in Slots
  BY Zenon, ReachedSlots
<1>2. CASE forwardee[Target[s]] # NULL
  <2>1. Store({}, {s}, cards) /\ UNCHANGED <<pc, local>>
    BY Zenon, <1>2 DEF Begin
  <2>2. Abstract!Update /\ slot' \in [Slots -> Places \cup {NULL}]
    BY Zenon, <1>2, <2>1, StoreUpdates DEF IInv
  <2> QED
    BY Zenon, <2>1, <2>2, LocalsFrame DEF IInv, Heap, Abstract!Next
<1>3. CASE forwardee[Target[s]] = NULL
  <2>1. /\ pc' = [pc EXCEPT ![w] = kind]
        /\ local' = [local EXCEPT ![w] = [NoLocals EXCEPT !.slot = s, !.container = c]]
        /\ UNCHANGED slot
    BY Zenon, <1>3 DEF Begin
  <2> DEFINE new == [NoLocals EXCEPT !.slot = s, !.container = c]
  <2>2. new \in Locals /\ new.slot = s /\ new.how = "none"
    BY Zenon, <1>1 DEF NoLocals, Locals
  <2>3. pc' \in [Workers -> Steps] /\ local' \in [Workers -> Locals]
    BY Zenon, <2>1, <2>2 DEF IInv, LocalsOK, Steps
  <2>4. \A v \in Workers : LocalOK(v)'
    BY Zenon, <2>1, <2>2, SameReached DEF IInv, LocalsOK, LocalOK, object
  <2> QED
    BY Zenon, <2>1, <2>3, <2>4 DEF IInv, Heap, LocalsOK, Abstract!vars
<1> QED
  BY Zenon, <1>2, <1>3

(* DequeueRef and TakeRoot. *)
LEMMA RootStep ==
  ASSUME IInv, NEW w \in Workers, DequeueRef(w) \/ TakeRoot(w)
  PROVE  IInv' /\ [Abstract!Next]_(Abstract!vars)
<1>1. PICK s \in refs \cup plains :
        Begin(w, s, NULL, "container") \/ Begin(w, s, NULL, "plain")
  BY Zenon DEF DequeueRef, TakeRoot
<1>2. s \in Reached
  BY Zenon, <1>1 DEF IInv, RootsOK, Reached, Abstract!Reached
<1>3. UNCHANGED <<forwardee, length, containers, lab, stacks>> /\ RootsOK'
  BY Zenon DEF DequeueRef, TakeRoot, IInv, RootsOK
<1>4. Heap' /\ LocalsOK' /\ [Abstract!Next]_(Abstract!vars)
  BY Zenon, <1>1, <1>2, <1>3, BeginOK DEF SegmentOrNull
<1>5. ArraysOK' /\ LabsOK' /\ StacksOK'
  BY Zenon, <1>3, LabsFrame, StacksFrame DEF IInv, ArraysOK, containers
<1> QED
  BY Zenon, <1>3, <1>4, <1>5 DEF IInv

(* ScanOld. *)
LEMMA ScanStep ==
  ASSUME IInv, NEW w \in Workers, ScanOld(w)
  PROVE  IInv' /\ [Abstract!Next]_(Abstract!vars)
<1>1. PICK s \in olds, cleaned \in SUBSET OldSlots :
        /\ Store(Known({s}), {}, cards \ cleaned)
        /\ bdaref_stack' = [bdaref_stack EXCEPT ![w] = @ \cup Unknown({s}, first_segment)]
  BY Zenon DEF ScanOld
<1>2. {s} \subseteq Reached
  BY Zenon DEF IInv, RootsOK, Reached, Abstract!Reached
<1>3. UNCHANGED <<forwardee, length, containers, pc, local, lab, claimed_stack>> /\ RootsOK'
  BY Zenon DEF ScanOld, IInv, RootsOK
<1>4. Abstract!Update /\ Heap'
  BY <1>1, <1>2, <1>3, KnownForwarded, StoreUpdates DEF IInv, Heap
<1>5. first_segment \in SegmentOrNull
  BY Zenon, LeastIn, PromotionAssumption DEF first_segment, SegmentOrNull
<1>6. \A t \in Unknown({s}, first_segment) : TaskOK(t)
  BY Zenon, <1>2, <1>5, UnknownOK
<1>7. StacksOK'
  BY Zenon, <1>1, <1>3, <1>6, TaskFrame DEF IInv, StacksOK
<1>8. ArraysOK' /\ LabsOK' /\ LocalsOK'
  BY Zenon, <1>3, LabsFrame, LocalsFrame DEF IInv, ArraysOK, containers
<1> QED
  BY Zenon, <1>3, <1>4, <1>7, <1>8 DEF IInv, Abstract!Next

(* A chunk of an array: its slots are reached, and its length stays within *)
(* that of the array.                                                      *)
LEMMA ChunkOK ==
  ASSUME IInv, NEW a \in Objects, forwardee[a] # NULL, UNCHANGED forwardee,
         ShrinkArray(a), Store(Known(Chunk(a)), {}, cards)
  PROVE  Heap' /\ ArraysOK' /\ Abstract!Update
<1>1. Chunk(a) \subseteq Reached /\ chunk_start(a) \in 0..Len(Fields[a])
  BY Zenon, ChunkReached DEF IInv
<1>2. Abstract!Update /\ Heap'
  BY Zenon, <1>1, KnownForwarded, StoreUpdates DEF IInv, Heap
<1>3. Len(Fields[a]) \in Nat
  BY PromotionAssumption
<1>4. ArraysOK'
  BY <1>1, <1>3 DEF IInv, ArraysOK, ShrinkArray
<1> QED
  BY Zenon, <1>2, <1>4

(* PopBda. *)
LEMMA PopBdaStep ==
  ASSUME IInv, NEW w \in Workers, PopBda(w)
  PROVE  IInv' /\ [Abstract!Next]_(Abstract!vars)
<1>1. PICK t \in bdaref_stack[w] :
       IF t.array = NULL
         THEN /\ Begin(w, t.slot, t.container, "element")
              /\ bdaref_stack' = [bdaref_stack EXCEPT ![w] = @ \ {t}]
              /\ UNCHANGED length
         ELSE /\ ShrinkArray(t.array)
              /\ Store(Known(Chunk(t.array)), {}, cards)
              /\ bdaref_stack' =
                   [bdaref_stack EXCEPT ![w] = (@ \ {t}) \cup ChunkTasks(t.array, t.container)]
              /\ UNCHANGED <<pc, local>>
  BY Zenon DEF PopBda
<1>2. UNCHANGED <<forwardee, roots, containers, lab, claimed_stack>>
  BY Zenon DEF PopBda
<1>3. TaskOK(t)
  BY Zenon DEF IInv, StacksOK
<1>4. RootsOK' /\ LabsOK'
  BY Zenon, <1>2, LabsFrame DEF IInv, RootsOK, roots, containers
<1>5. CASE t.array = NULL
  <2>1. Heap' /\ LocalsOK' /\ [Abstract!Next]_(Abstract!vars)
    BY Zenon, <1>1, <1>2, <1>3, <1>5, BeginOK, PromotionAssumption DEF TaskOK
  <2>2. StacksOK'
    BY Zenon, <1>1, <1>2, <1>5, TaskFrame DEF IInv, StacksOK
  <2> QED
    BY Zenon, <1>1, <1>4, <1>5, <2>1, <2>2 DEF IInv, ArraysOK
<1>6. CASE t.array # NULL
  <2>1. t.array \in Objects /\ forwardee[t.array] # NULL /\ t.container \in SegmentOrNull
    BY Zenon, <1>3, <1>6 DEF TaskOK
  <2>2. Heap' /\ ArraysOK' /\ Abstract!Update
    BY Zenon, <1>1, <1>2, <1>6, <2>1, ChunkOK
  <2>3. \A u \in ChunkTasks(t.array, t.container) : TaskOK(u)
    BY Zenon, <2>1, ChunkTasksOK DEF IInv
  <2>4. StacksOK'
    BY Zenon, <1>1, <1>2, <1>6, <2>3, TaskFrame DEF IInv, StacksOK
  <2>5. LocalsOK'
    BY Zenon, <1>1, <1>2, <1>6, LocalsFrame DEF IInv
  <2> QED
    BY Zenon, <1>4, <2>2, <2>4, <2>5 DEF IInv, Abstract!Next
<1> QED
  BY Zenon, <1>5, <1>6

(* PopDepth and Steal: a task of the claimed stack of any worker. *)
LEMMA DepthStep ==
  ASSUME IInv, NEW w \in Workers, NEW v \in Workers, ProcessDepth(w, v)
  PROVE  IInv' /\ [Abstract!Next]_(Abstract!vars)
<1>1. PICK t \in claimed_stack[v] :
       IF t.array = NULL
         THEN /\ Begin(w, t.slot, NULL, "plain")
              /\ claimed_stack' = [claimed_stack EXCEPT ![v] = @ \ {t}]
              /\ UNCHANGED length
         ELSE /\ ShrinkArray(t.array)
              /\ Store(Known(Chunk(t.array)), {}, cards)
              /\ claimed_stack' = [[claimed_stack EXCEPT ![v] = @ \ {t}]
                                     EXCEPT ![w] = @ \cup ChunkTasks(t.array, NULL)]
              /\ UNCHANGED <<pc, local>>
  BY Zenon DEF ProcessDepth
<1>2. UNCHANGED <<forwardee, roots, containers, lab, bdaref_stack>>
  BY Zenon DEF ProcessDepth
<1>3. TaskOK(t)
  BY Zenon DEF IInv, StacksOK
<1>4. RootsOK' /\ LabsOK'
  BY Zenon, <1>2, LabsFrame DEF IInv, RootsOK, roots, containers
<1>5. NULL \in SegmentOrNull
  BY Zenon DEF SegmentOrNull
<1>6. CASE t.array = NULL
  <2>1. Heap' /\ LocalsOK' /\ [Abstract!Next]_(Abstract!vars)
    BY Zenon, <1>1, <1>2, <1>3, <1>5, <1>6, BeginOK, PromotionAssumption DEF TaskOK
  <2>2. StacksOK'
    BY Zenon, <1>1, <1>2, <1>6, TaskFrame DEF IInv, StacksOK
  <2> QED
    BY Zenon, <1>1, <1>4, <1>6, <2>1, <2>2 DEF IInv, ArraysOK
<1>7. CASE t.array # NULL
  <2>1. t.array \in Objects /\ forwardee[t.array] # NULL
    BY Zenon, <1>3, <1>7 DEF TaskOK
  <2>2. Heap' /\ ArraysOK' /\ Abstract!Update
    BY Zenon, <1>1, <1>2, <1>7, <2>1, ChunkOK
  <2>3. \A u \in ChunkTasks(t.array, NULL) : TaskOK(u)
    BY Zenon, <1>5, <2>1, ChunkTasksOK DEF IInv
  <2>4. StacksOK'
    BY <1>1, <1>2, <1>7, <2>3, TaskFrame DEF IInv, StacksOK
  <2>5. LocalsOK'
    BY Zenon, <1>1, <1>2, <1>7, LocalsFrame DEF IInv
  <2> QED
    BY Zenon, <1>4, <2>2, <2>4, <2>5 DEF IInv, Abstract!Next
<1> QED
  BY Zenon, <1>6, <1>7

-----------------------------------------------------------------------------
(* An allocation ends with a place, and only segments and buffers change.  *)

(* The locals of a worker that has a place for its object. *)
LEMMA PlacedOK ==
  ASSUME LocalsOK, NEW w \in Workers, pc[w] # "idle", UNCHANGED forwardee,
         NEW c \in SegmentOrNull, NEW place \in Places,
         NEW how \in {"container", "lab", "direct", "plain", "failed"},
         how = "lab" => \E s \in Segments, a \in 0..segment_sz : place = InSegment(s, a),
         pc' = [pc EXCEPT ![w] = "cas"],
         local' = [local EXCEPT ![w].container = c, ![w].new_obj = place, ![w].how = how]
  PROVE  LocalsOK'
<1>1. local[w] \in Locals
  BY Zenon DEF LocalsOK
<1>2. /\ local' = [local EXCEPT ![w] = [@ EXCEPT !.container = c, !.new_obj = place, !.how = how]]
  BY Zenon, <1>1 DEF LocalsOK, Locals
<1>3. /\ local'[w] \in Locals /\ local'[w].slot = local[w].slot
      /\ local'[w].new_obj = place /\ local'[w].how = how
      /\ \A v \in Workers \ {w} : local'[v] = local[v]
  BY <1>1, <1>2 DEF LocalsOK, Locals
<1>4. local' \in [Workers -> Locals] /\ pc' \in [Workers -> Steps]
  BY Zenon, <1>2, <1>3 DEF LocalsOK, Steps
<1>5. \A v \in Workers : LocalOK(v)'
  BY <1>3, SameReached DEF LocalsOK, LocalOK, object
<1> QED
  BY Zenon, <1>4, <1>5 DEF LocalsOK

(* The object of a worker that is not idle is an object. *)
LEMMA ObjectOK ==
  ASSUME LocalsOK, NEW w \in Workers, pc[w] # "idle"
  PROVE  object(w) \in Objects /\ Size[object(w)] \in Nat \ {0} /\ local[w].slot \in Reached
BY Zenon, ReachedSlots, PromotionAssumption DEF LocalsOK, LocalOK, object

(* A place outside containers. *)
LEMMA OutsideOK ==
  ASSUME LocalsOK, NEW w \in Workers, pc[w] # "idle", UNCHANGED forwardee,
         NEW place \in Places, NEW how \in {"plain", "failed"},
         pc' = [pc EXCEPT ![w] = "cas"],
         local' = [local EXCEPT ![w].new_obj = place, ![w].how = how]
  PROVE  LocalsOK'
<1>1. local[w] \in Locals
  BY Zenon DEF LocalsOK
<1>2. local' = [local EXCEPT ![w] = [@ EXCEPT !.new_obj = place, !.how = how]]
  BY Zenon, <1>1 DEF LocalsOK, Locals
<1>3. /\ local'[w] \in Locals /\ local'[w].slot = local[w].slot
      /\ local'[w].new_obj = place /\ local'[w].how = how
      /\ \A v \in Workers \ {w} : local'[v] = local[v]
  BY <1>1, <1>2 DEF LocalsOK, Locals
<1>4. local' \in [Workers -> Locals] /\ pc' \in [Workers -> Steps]
  BY Zenon, <1>2, <1>3 DEF LocalsOK, Steps
<1>5. \A v \in Workers : LocalOK(v)'
  BY <1>3, SameReached DEF LocalsOK, LocalOK, object
<1> QED
  BY Zenon, <1>4, <1>5 DEF LocalsOK

(* Fail. *)
LEMMA FailOK ==
  ASSUME LocalsOK, LabsOK, NEW w \in Workers, pc[w] # "idle", UNCHANGED forwardee, Fail(w)
  PROVE  LocalsOK' /\ LabsOK'
<1>1. Self(object(w)) \in Places
  BY ObjectOK DEF Places
<1>2. LocalsOK'
  BY Zenon, <1>1, OutsideOK DEF Fail
<1> QED
  BY Zenon, <1>2, LabsFrame DEF Fail, containers

(* A place in a segment. *)
LEMMA CopiedOK ==
  ASSUME LocalsOK, NEW w \in Workers, pc[w] # "idle", UNCHANGED forwardee,
         NEW c \in Segments, NEW a \in 0..segment_sz, NEW how \in {"container", "lab", "direct"},
         Copied(w, c, a, how)
  PROVE  LocalsOK'
<1>1. InSegment(c, a) \in Places /\ c \in SegmentOrNull
  BY DEF Places, SegmentOrNull
<1> QED
  BY Zenon, <1>1, PlacedOK DEF Copied

(* AllocateContainer: the segment it takes exists. *)
LEMMA ContainerOK ==
  ASSUME LocalsOK, LabsOK, NEW w \in Workers, AllocateContainer(w)
  PROVE  LocalsOK' /\ LabsOK'
<1>1. pc[w] = "container" /\ UNCHANGED forwardee
  BY Zenon DEF AllocateContainer
<1>2. CASE Unused = {} /\ Fail(w)
  BY Zenon, <1>1, <1>2, FailOK
<1>3. CASE /\ Unused # {}
           /\ top' = [top EXCEPT ![Least(Unused)] = Size[object(w)]]
           /\ Copied(w, Least(Unused), 0, "container")
           /\ UNCHANGED lab
  <2>1. Least(Unused) \in Segments /\ 0 \in 0..segment_sz
    <3>1. Unused \subseteq Segments /\ Unused \subseteq Nat
      BY Zenon, PromotionAssumption DEF Unused
    <3>2. Least(Unused) \in Unused
      BY Zenon, <1>3, <3>1, LeastIn
    <3>3. 0 \in 0..segment_sz
      BY PromotionAssumption
    <3> QED
      BY <3>1, <3>2, <3>3, Zenon
  <2>2. LocalsOK'
    BY Zenon, <1>1, <1>3, <2>1, CopiedOK
  <2>3. Size[object(w)] \in Nat
    BY Zenon, <1>1, ObjectOK
  <2> QED
    BY Zenon, <1>3, <2>2, <2>3 DEF LabsOK
<1> QED
  BY Zenon, <1>2, <1>3 DEF AllocateContainer

(* The segment of an element exists, and the element lies within it. *)
LEMMA ElementPlace ==
  ASSUME LabsOK, NEW c, NEW n \in Nat, ~ NoSegment(c, n)
  PROVE  /\ element_segment(c, n) \in Segments
         /\ element_start(c, n) \in 0..segment_sz
         /\ element_start(c, n) = 0 \/ element_start(c, n) + n < segment_end
<1>1. segment_sz \in Nat /\ filler \in Nat /\ Segments \subseteq Nat
  BY Zenon, PromotionAssumption
<1>2. CASE HasRoom(c, n) # {}
  <2> DEFINE s == element_segment(c, n)
  <2>1. s \in HasRoom(c, n)
    <3>1. HasRoom(c, n) \subseteq Nat
      BY Zenon, <1>1 DEF HasRoom
    <3> QED
      BY Zenon, <1>2, <3>1, LeastIn DEF element_segment
  <2>2. s \in Segments /\ top[s] \in Nat /\ top[s] + n < segment_sz - filler
    BY Zenon, <2>1 DEF HasRoom, segment_end, LabsOK
  <2>3. element_start(c, n) = top[s]
    BY Zenon, <1>2 DEF element_start
  <2> HIDE DEF s
  <2>4. top[s] \in 0..segment_sz /\ top[s] + n < segment_end
    BY <1>1, <2>2 DEF segment_end
  <2>5. s = element_segment(c, n)
    BY Zenon DEF s
  <2> QED
    BY <2>2, <2>3, <2>4, <2>5, Zenon
<1>3. CASE HasRoom(c, n) = {}
  <2>1. Unused \subseteq Segments /\ Unused \subseteq Nat /\ Unused # {}
    BY Zenon, <1>1, <1>3 DEF Unused, NoSegment
  <2>2. element_segment(c, n) \in Unused
    BY Zenon, <1>3, <2>1, LeastIn DEF element_segment
  <2>3. element_start(c, n) = 0
    BY Zenon, <1>3 DEF element_start
  <2>4. 0 \in 0..segment_sz
    BY <1>1
  <2> QED
    BY <2>1, <2>2, <2>3, <2>4, Zenon
<1> QED
  BY Zenon, <1>2, <1>3

(* The tops of segments stay numbers. *)
LEMMA TakeElementTop ==
  ASSUME LabsOK, NEW c, NEW n \in Nat, ~ NoSegment(c, n), TakeElement(c, n)
  PROVE  top' \in [Segments -> Nat]
BY ElementPlace DEF TakeElement, LabsOK

(* FromLab. *)
LEMMA FromLabOK ==
  ASSUME LocalsOK, LabsOK, NEW w \in Workers, pc[w] = "element", UNCHANGED forwardee, FromLab(w)
  PROVE  LocalsOK' /\ LabsOK'
<1> DEFINE l == lab[w]
           n == Size[object(w)]
<1>1. l \in Labs /\ n \in Nat \ {0} /\ segment_sz \in Nat
  BY Zenon, ObjectOK, PromotionAssumption DEF LabsOK
<1>2. l.container \in SegmentOrNull /\ l.top \in Nat /\ l.end \in Nat
  BY Zenon, <1>1 DEF Labs
<1>3. l.top + n <= l.end /\ l.end <= segment_sz /\ (l.container = NULL => l.end = 0)
  BY Zenon DEF FromLab, LabFits, LabsOK
<1>4. l.container \in Segments /\ l.top \in 0..segment_sz
  BY <1>1, <1>2, <1>3 DEF SegmentOrNull
<1>5. Copied(w, l.container, l.top, "lab")
  BY Zenon DEF FromLab
<1>6. LocalsOK'
  BY Zenon, <1>4, <1>5, CopiedOK
<1>7. lab' = [lab EXCEPT ![w].top = @ + n] /\ UNCHANGED top
  BY Zenon DEF FromLab
<1>8. LabsOK'
  BY <1>1, <1>2, <1>7 DEF LabsOK, Labs
<1> QED
  BY Zenon, <1>6, <1>8

(* Direct. *)
LEMMA DirectOK ==
  ASSUME LocalsOK, LabsOK, NEW w \in Workers, pc[w] = "element", UNCHANGED forwardee, Direct(w)
  PROVE  LocalsOK' /\ LabsOK'
<1> DEFINE c == local[w].container
           n == Size[object(w)]
<1>1. n \in Nat
  BY Zenon, ObjectOK
<1>2. CASE Fail(w)
  BY Zenon, <1>2, FailOK
<1>3. CASE /\ ~ NoSegment(c, n)
           /\ TakeElement(c, n)
           /\ Copied(w, element_segment(c, n), element_start(c, n), "direct")
           /\ UNCHANGED lab
  <2>1. element_segment(c, n) \in Segments /\ element_start(c, n) \in 0..segment_sz
    BY Zenon, <1>1, <1>3, ElementPlace
  <2>2. LocalsOK'
    BY Zenon, <1>3, <2>1, CopiedOK
  <2> QED
    BY Zenon, <1>1, <1>3, <2>2, TakeElementTop DEF LabsOK
<1> QED
  BY Zenon, <1>2, <1>3 DEF Direct

(* NewLab: the buffer lies within its segment. *)
LEMMA NewLabOK ==
  ASSUME LocalsOK, LabsOK, NEW w \in Workers, pc[w] = "element", UNCHANGED forwardee, NewLab(w)
  PROVE  LocalsOK' /\ LabsOK'
<1> DEFINE c == local[w].container
           n == Size[object(w)]
           s == element_segment(c, BDAOldPLABSize)
           a == element_start(c, BDAOldPLABSize)
<1>1. /\ n \in Nat /\ BDAOldPLABSize \in Nat /\ filler \in Nat /\ segment_sz \in Nat
      /\ 2 * filler <= BDAOldPLABSize /\ BDAOldPLABSize + filler <= segment_sz
  BY Zenon, ObjectOK, PromotionAssumption
<1>2. CASE Fail(w)
  BY Zenon, <1>2, FailOK
<1>3. CASE /\ ~ NoSegment(c, BDAOldPLABSize)
           /\ TakeElement(c, BDAOldPLABSize)
           /\ lab' = [lab EXCEPT ![w] = [container |-> s, bottom |-> a, top |-> a + n,
                                         end |-> a + BDAOldPLABSize - filler]]
           /\ Copied(w, s, a, "lab")
  <2>1. s \in Segments /\ a \in 0..segment_sz /\ (a = 0 \/ a + BDAOldPLABSize < segment_end)
    BY Zenon, <1>1, <1>3, ElementPlace
  <2>2. LocalsOK'
    BY Zenon, <1>3, <2>1, CopiedOK
  <2>3. top' \in [Segments -> Nat]
    BY Zenon, <1>1, <1>3, TakeElementTop
  <2> DEFINE new == [container |-> s, bottom |-> a, top |-> a + n, end |-> a + BDAOldPLABSize - filler]
  <2>4. a + BDAOldPLABSize - filler \in Nat /\ a + BDAOldPLABSize - filler <= segment_sz
    BY <1>1, <2>1 DEF segment_end
  <2>5. s # NULL
    BY Zenon, <2>1, PromotionAssumption
  <2> HIDE DEF s, a, n
  <2>6. new \in Labs /\ new.end <= segment_sz /\ new.container # NULL
    BY <1>1, <2>1, <2>4, <2>5 DEF Labs, SegmentOrNull
  <2>7. lab' = [lab EXCEPT ![w] = new]
    BY Zenon, <1>3
  <2> HIDE DEF new
  <2> QED
    BY Zenon, <2>2, <2>3, <2>6, <2>7 DEF LabsOK
<1> QED
  BY Zenon, <1>2, <1>3 DEF NewLab

(* AllocatePlain. *)
LEMMA PlainOK ==
  ASSUME LocalsOK, LabsOK, NEW w \in Workers, AllocatePlain(w)
  PROVE  LocalsOK' /\ LabsOK'
<1>1. pc[w] = "plain" /\ UNCHANGED forwardee
  BY Zenon DEF AllocatePlain
<1>2. CASE Fail(w)
  BY Zenon, <1>1, <1>2, FailOK
<1>3. ASSUME NEW place \in {Survivor(object(w), w), Tenured(object(w), w)},
             pc' = [pc EXCEPT ![w] = "cas"],
             local' = [local EXCEPT ![w].new_obj = place, ![w].how = "plain"],
             UNCHANGED <<containers, lab>>
      PROVE  LocalsOK' /\ LabsOK'
  <2>1. place \in Places
    BY <1>1, ObjectOK DEF Places
  <2>2. LocalsOK'
    BY Zenon, <1>1, <1>3, <2>1, OutsideOK
  <2> QED
    BY Zenon, <1>3, <2>2, LabsFrame DEF containers
<1> QED
  BY Zenon, <1>2, <1>3 DEF AllocatePlain

(* The allocations forward nothing and update nothing. *)
LEMMA AllocateStep ==
  ASSUME IInv, NEW w \in Workers, AllocateContainer(w) \/ AllocateElement(w) \/ AllocatePlain(w)
  PROVE  IInv' /\ UNCHANGED <<forwardee, slot>>
<1>1. UNCHANGED <<forwardee, slot, length, roots, stacks>>
  BY Zenon DEF AllocateContainer, AllocateElement, AllocatePlain
<1>2. Heap' /\ ArraysOK' /\ RootsOK' /\ StacksOK'
  BY Zenon, <1>1, StacksFrame DEF IInv, Heap, ArraysOK, RootsOK, roots
<1>3. LocalsOK' /\ LabsOK'
  <2>1. LocalsOK /\ LabsOK
    BY Zenon DEF IInv
  <2>2. CASE AllocateElement(w)
    BY Zenon, <1>1, <2>1, <2>2, FromLabOK, DirectOK, NewLabOK DEF AllocateElement
  <2> QED
    BY Zenon, <2>1, <2>2, ContainerOK, PlainOK
<1> QED
  BY Zenon, <1>1, <1>2, <1>3 DEF IInv

-----------------------------------------------------------------------------
(* The compare-and-swap that wins gives a reached object its place; all    *)
(* that was sound before stays so.                                         *)
LEMMA CasWonStep ==
  ASSUME IInv, NEW w \in Workers, CasWon(w)
  PROVE  IInv' /\ Abstract!Forward
<1> DEFINE o == object(w)
           a == local[w].new_obj
<1>1. /\ pc[w] = "cas" /\ forwardee[o] = NULL
      /\ forwardee' = [forwardee EXCEPT ![o] = a]
      /\ pc' = [pc EXCEPT ![w] = "contents"]
      /\ UNCHANGED <<slot, length, roots, containers, local, lab, stacks>>
  BY Zenon DEF CasWon
<1>2. o \in Objects /\ local[w].slot \in Reached /\ a \in Places
  BY Zenon, <1>1, ObjectOK DEF IInv, LocalsOK, LocalOK
<1>3. a # NULL
  BY Zenon, <1>2, NullAssumption
<1>4. o \in {Target[s] : s \in Reached} \ Abstract!Forwarded
  BY Zenon, <1>1, <1>2 DEF object, Abstract!Forwarded
<1>5. Abstract!Forward
  BY Zenon, <1>1, <1>2, <1>4 DEF Abstract!Forward, Reached
<1> HIDE DEF o, a
<1>6. forwardee' \in [Objects -> Places \cup {NULL}]
  BY Zenon, <1>1, <1>2 DEF IInv, Heap
<1>7. /\ forwardee'[o] # NULL
      /\ \A p \in Objects : forwardee[p] # NULL => forwardee'[p] # NULL
  BY Zenon, <1>1, <1>2, <1>3 DEF IInv, Heap
<1>8. Reached \subseteq Reached'
  BY Zenon, <1>7 DEF Reached, Abstract!Reached, Abstract!Forwarded
<1>9. \A t : TaskOK(t) => TaskOK(t)'
  BY Zenon, <1>7, <1>8 DEF TaskOK
<1>10. StacksOK'
  BY Zenon, <1>1, <1>9 DEF IInv, StacksOK, stacks
<1>11. LocalsOK'
  <2>1. pc' \in [Workers -> Steps] /\ local' \in [Workers -> Locals]
    BY Zenon, <1>1 DEF IInv, LocalsOK, Steps
  <2>2. ASSUME NEW v \in Workers
        PROVE  LocalOK(v)'
    <3>1. LocalOK(v) /\ LocalOK(w)
      BY Zenon DEF IInv, LocalsOK
    <3>2. CASE v = w
      BY Zenon, <1>1, <1>7, <1>8, <3>1, <3>2 DEF LocalOK, object, o, IInv, LocalsOK
    <3>3. CASE v # w
      <4>1. pc'[v] = pc[v] /\ local'[v] = local[v]
        BY Zenon, <1>1, <3>3 DEF IInv, LocalsOK
      <4>2. pc[v] = "contents" => object(v) \in Objects
        BY Zenon, ObjectOK DEF IInv
      <4>3. object(v)' = object(v)
        BY Zenon, <4>1 DEF object
      <4> QED
        BY Zenon, <1>7, <1>8, <3>1, <4>1, <4>2, <4>3 DEF LocalOK
    <3> QED
      BY Zenon, <3>2, <3>3
  <2> QED
    BY Zenon, <2>1, <2>2 DEF LocalsOK
<1> QED
  BY Zenon, <1>1, <1>5, <1>6, <1>10, <1>11, LabsFrame
  DEF IInv, Heap, ArraysOK, RootsOK, roots, containers

(* A worker that has finished. *)
LEMMA FinishedOK ==
  ASSUME LocalsOK, UNCHANGED forwardee, NEW w \in Workers,
         pc' = [pc EXCEPT ![w] = "idle"], local' = [local EXCEPT ![w] = NoLocals]
  PROVE  LocalsOK'
<1>1. NoLocals \in Locals /\ NoLocals.how = "none"
  BY Zenon DEF NoLocals, Locals, SegmentOrNull
<1>2. pc' \in [Workers -> Steps] /\ local' \in [Workers -> Locals]
  BY Zenon, <1>1 DEF LocalsOK, Steps
<1>3. \A v \in Workers : LocalOK(v)'
  BY Zenon, <1>1, SameReached DEF LocalsOK, LocalOK, object
<1> QED
  BY Zenon, <1>2, <1>3 DEF LocalsOK

(* The loser gives its copy back and stores the winner's place. *)
LEMMA CasLostStep ==
  ASSUME IInv, NEW w \in Workers, CasLost(w)
  PROVE  IInv' /\ Abstract!Update
<1>1. /\ pc[w] = "cas" /\ forwardee[object(w)] # NULL
      /\ GiveBack(w)
      /\ Store({}, {local[w].slot}, cards)
      /\ pc' = [pc EXCEPT ![w] = "idle"]
      /\ local' = [local EXCEPT ![w] = NoLocals]
      /\ UNCHANGED <<forwardee, length, roots, stacks>>
  BY Zenon DEF CasLost
<1>2. local[w].slot \in Reached
  BY Zenon, <1>1, ObjectOK DEF IInv
<1>3. Abstract!Update /\ Heap'
  BY Zenon, <1>1, <1>2, StoreUpdates DEF IInv, Heap, object
<1>4. LocalsOK'
  BY Zenon, <1>1, FinishedOK DEF IInv
<1>5. top' \in [Segments -> Nat]
  BY Zenon, <1>1 DEF GiveBack, IInv, LabsOK
<1>6. LabsOK'
  <2>1. CASE local[w].how = "lab"
    <3>1. PICK s \in Segments, a \in 0..segment_sz : local[w].new_obj = InSegment(s, a)
      BY Zenon, <2>1 DEF IInv, LocalsOK, LocalOK
    <3>2. local[w].new_obj[3] \in Nat
      BY <3>1, PromotionAssumption DEF InSegment
    <3>3. lab' = [lab EXCEPT ![w].top = local[w].new_obj[3]]
      BY Zenon, <1>1, <2>1 DEF GiveBack
    <3> QED
      BY Zenon, <1>5, <3>2, <3>3 DEF IInv, LabsOK, Labs
  <2>2. CASE local[w].how # "lab"
    BY Zenon, <1>1, <1>5, <2>2 DEF GiveBack, IInv, LabsOK
  <2> QED
    BY Zenon, <2>1, <2>2
<1> QED
  BY Zenon, <1>1, <1>3, <1>4, <1>6, StacksFrame DEF IInv, ArraysOK, RootsOK, roots

(* The winner pushes what it has now reached. *)
LEMMA PushStep ==
  ASSUME IInv, NEW w \in Workers, PushContents(w)
  PROVE  IInv' /\ Abstract!Update
<1> DEFINE o == object(w)
           c == IF OnBdaPath(w) THEN local[w].container ELSE NULL
           tasks == IF InChunks(w) THEN {ArrayTask(o, c)} ELSE Unknown(Contents[o], c)
           claimed == IF InChunks(w) THEN {} ELSE Known(Contents[o])
<1>1. /\ pc[w] = "contents"
      /\ Store(claimed, {local[w].slot}, cards)
      /\ \/ bdaref_stack' = [bdaref_stack EXCEPT ![w] = @ \cup tasks] /\ UNCHANGED claimed_stack
         \/ claimed_stack' = [claimed_stack EXCEPT ![w] = @ \cup tasks] /\ UNCHANGED bdaref_stack
      /\ pc' = [pc EXCEPT ![w] = "idle"]
      /\ local' = [local EXCEPT ![w] = NoLocals]
      /\ UNCHANGED <<forwardee, length, roots, containers, lab>>
  BY Zenon DEF PushContents
<1>2. o \in Objects /\ local[w].slot \in Reached /\ forwardee[o] # NULL
  BY Zenon, <1>1, ObjectOK DEF IInv, LocalsOK, LocalOK
<1>3. Contents[o] \subseteq Reached
  BY Zenon, <1>2, ContentsReached
<1>4. c \in SegmentOrNull
  BY Zenon DEF IInv, LocalsOK, Locals, SegmentOrNull
<1>5. forwardee[Target[local[w].slot]] # NULL
  BY Zenon, <1>2 DEF object
<1> HIDE DEF o, c
<1>6. \A t \in tasks : TaskOK(t)
  <2>1. CASE InChunks(w)
    BY <1>2, <1>4, <2>1 DEF ArrayTask, TaskOK
  <2>2. CASE ~ InChunks(w)
    BY Zenon, <1>3, <1>4, <2>2, UnknownOK
  <2> QED
    BY Zenon, <2>1, <2>2
<1>7. \A s \in claimed \cup {local[w].slot} : s \in Reached /\ forwardee[Target[s]] # NULL
  BY Zenon, <1>2, <1>3, <1>5, KnownForwarded
<1> HIDE DEF tasks, claimed
<1>8. Abstract!Update /\ Heap'
  BY Zenon, <1>1, <1>7, StoreUpdates DEF IInv, Heap
<1>9. StacksOK'
  BY Zenon, <1>1, <1>6, TaskFrame DEF IInv, StacksOK
<1>10. LocalsOK'
  BY Zenon, <1>1, FinishedOK DEF IInv
<1> QED
  BY Zenon, <1>1, <1>8, <1>9, <1>10, LabsFrame DEF IInv, ArraysOK, RootsOK, roots, containers

(* Flushing the buffers. *)
LEMMA PostScavengeStep ==
  ASSUME IInv, PostScavenge
  PROVE  IInv' /\ UNCHANGED <<forwardee, slot>>
<1>1. /\ lab' = [w \in Workers |-> zero_size]
      /\ UNCHANGED <<forwardee, slot, length, roots, top, pc, local, stacks>>
  BY Zenon DEF PostScavenge
<1>2. zero_size \in Labs /\ zero_size.end = 0 /\ 0 <= segment_sz
  BY PromotionAssumption DEF zero_size, Labs, SegmentOrNull
<1>3. LabsOK'
  BY Zenon, <1>1, <1>2 DEF IInv, LabsOK
<1> QED
  BY Zenon, <1>1, <1>3, LocalsFrame, StacksFrame DEF IInv, Heap, ArraysOK, RootsOK, roots

-----------------------------------------------------------------------------
(* A collection starts with what it will scan, and with nothing else. *)
LEMMA InitIInv == Init => IInv /\ Abstract!Init
<1> SUFFICES ASSUME Init PROVE IInv /\ Abstract!Init
  BY Zenon
<1>1. Abstract!Init /\ Heap
  BY Zenon DEF Init, Abstract!Init, Heap
<1>2. ArraysOK /\ RootsOK
  BY PromotionAssumption DEF Init, ArraysOK, RootsOK
<1>3. NoLocals \in Locals /\ NoLocals.how = "none"
  BY Zenon DEF NoLocals, Locals, SegmentOrNull
<1>4. LocalsOK
  BY Zenon, <1>3 DEF Init, LocalsOK, LocalOK, Steps
<1>5. zero_size \in Labs /\ zero_size.end = 0 /\ 0 <= segment_sz
  BY PromotionAssumption DEF zero_size, Labs, SegmentOrNull
<1>6. LabsOK
  BY Zenon, <1>5 DEF Init, LabsOK
<1>7. StacksOK
  BY Zenon DEF Init, StacksOK
<1> QED
  BY Zenon, <1>1, <1>2, <1>4, <1>6, <1>7 DEF IInv

(* Every step keeps the invariant and is a step of Forwarding or leaves    *)
(* objects and references alone.                                           *)
LEMMA NextIInv == IInv /\ [Next]_vars => IInv' /\ [Abstract!Next]_(Abstract!vars)
<1> SUFFICES ASSUME IInv, [Next]_vars
             PROVE  IInv' /\ [Abstract!Next]_(Abstract!vars)
  BY Zenon
<1>1. ASSUME NEW w \in Workers, Step(w)
      PROVE  IInv' /\ [Abstract!Next]_(Abstract!vars)
  <2>1. CASE DequeueRef(w) \/ TakeRoot(w)
    BY Zenon, <2>1, RootStep
  <2>2. CASE ScanOld(w)
    BY Zenon, <2>2, ScanStep
  <2>3. CASE PopBda(w)
    BY Zenon, <2>3, PopBdaStep
  <2>4. CASE PopDepth(w)
    BY Zenon, <2>4, DepthStep DEF PopDepth
  <2>5. CASE Steal(w)
    BY Zenon, <2>5, DepthStep DEF Steal
  <2>6. CASE AllocateContainer(w) \/ AllocateElement(w) \/ AllocatePlain(w)
    BY Zenon, <2>6, AllocateStep DEF Abstract!vars
  <2>7. CASE CasWon(w)
    BY Zenon, <2>7, CasWonStep DEF Abstract!Next
  <2>8. CASE CasLost(w)
    BY Zenon, <2>8, CasLostStep DEF Abstract!Next
  <2>9. CASE PushContents(w)
    BY Zenon, <2>9, PushStep DEF Abstract!Next
  <2> QED
    BY Zenon, <1>1, <2>1, <2>2, <2>3, <2>4, <2>5, <2>6, <2>7, <2>8, <2>9 DEF Step
<1>2. CASE PostScavenge
  BY Zenon, <1>2, PostScavengeStep DEF Abstract!vars
<1>3. CASE UNCHANGED vars
  BY Zenon, <1>3, LocalsFrame, LabsFrame, StacksFrame
  DEF IInv, Heap, ArraysOK, RootsOK, vars, roots, containers, Abstract!vars
<1> QED
  BY Zenon, <1>1, <1>2, <1>3 DEF Next

(* Copying implements Forwarding: in every young collection, whatever the  *)
(* graph, the number of workers and the memory that is left, an object     *)
(* that is reached gets one place, no compare-and-swap takes it away, and  *)
(* every reference that PSPromotionManager updates gets the place of the   *)
(* object it refers to.                                                    *)
THEOREM CopyingImplementsForwarding == Spec => ImplementsForwarding
<1>1. Init => IInv /\ Abstract!Init
  BY Zenon, InitIInv
<1>2. IInv /\ [Next]_vars => IInv' /\ [Abstract!Next]_(Abstract!vars)
  BY Zenon, NextIInv
<1> QED
  BY <1>1, <1>2, PTL DEF Spec, ImplementsForwarding, Abstract!Spec
=============================================================================
