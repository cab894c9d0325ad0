----------------------------- MODULE Promotion -----------------------------
(***************************************************************************)
(* Copying in a young collection: workers take references from the queue   *)
(* of bda references, from old containers, from the ordinary roots and     *)
(* from their stacks, copy the objects and update the references           *)
(* (PSPromotionManager).  Objects reached on the bda path go to containers *)
(* (copy_bdaref_to_survivor_space), the others to the survivor space or    *)
(* the general space (copy_to_survivor_space), and both race for the mark  *)
(* of an object that is reached on either.                                 *)
(*                                                                         *)
(* Grain: one step per load or compare-and-swap of a mark and per          *)
(* allocation; the races of the allocations are those of                   *)
(* ContainerAllocation.  What a worker does to memory that no other worker *)
(* looks at (its copy, its stacks, its buffer, the slot it took) belongs   *)
(* to the step before or after.  A stack is the set of its tasks: in which *)
(* order they are taken does not matter here.  Places outside containers   *)
(* are one fresh place per worker and object.                              *)
(***************************************************************************)
EXTENDS Integers, Sequences, Functions

CONSTANTS
  Workers,        \* GC workers
  Objects,        \* young objects
  Slots,          \* memory cells with a reference to a young object
  Target,         \* the object a slot refers to
  Fields,         \* the slots of an object, in order
  Size,           \* words of an object
  Chunked,        \* object arrays that are long enough to be chunked
  RefSlots,       \* Refs in the queue of bda references
  OldSlots,       \* slots of objects in containers of earlier collections
  PlainSlots,     \* slots that the ordinary root tasks visit
  Segments,       \* segments of containers; the first one exists
  segment_sz,     \* words of a segment
  filler,         \* words of a filler header
  BDAOldPLABSize, \* words of a promotion buffer
  chunk_size,     \* PSPromotionManager::_array_chunk_size, slots
  NULL

ASSUME PromotionAssumption ==
  /\ Target \in [Slots -> Objects]
  /\ Fields \in [Objects -> Seq(Slots)]
  /\ Size \in [Objects -> Nat \ {0}]
  /\ Chunked \subseteq Objects
  /\ RefSlots \subseteq Slots /\ OldSlots \subseteq Slots /\ PlainSlots \subseteq Slots
  /\ Segments \subseteq Nat \ {0} /\ Segments # {}
  /\ segment_sz \in Nat /\ filler \in Nat /\ BDAOldPLABSize \in Nat /\ chunk_size \in Nat \ {0}
  /\ 2 * filler <= BDAOldPLABSize /\ BDAOldPLABSize + filler <= segment_sz
  /\ NULL \notin Objects /\ NULL \notin Slots /\ NULL \notin Segments

(* A slot is one memory cell: a field of one object, at one index, or the  *)
(* cell of one Ref, of one old container or of one ordinary root.          *)
ASSUME CellAssumption ==
  /\ \A o, p \in Objects : \A i \in DOMAIN Fields[o], j \in DOMAIN Fields[p] :
       Fields[o][i] = Fields[p][j] => o = p /\ i = j
  /\ \A o \in Objects : \A i \in DOMAIN Fields[o] :
       Fields[o][i] \notin RefSlots \cup OldSlots \cup PlainSlots
  /\ RefSlots \cap OldSlots = {} /\ RefSlots \cap PlainSlots = {} /\ OldSlots \cap PlainSlots = {}

VARIABLES
  forwardee,   \* the forwarding pointer in the mark of an object
  slot,        \* what a slot was updated with
  cards,       \* slots whose card is dirty
  length,      \* length field of the old copy of an array
  \* roots that no task has taken yet
  refs, olds, plains,
  \* containers
  family,      \* first segment of the chain of a segment, NULL if unused
  top,         \* words used in a segment
  words,       \* what each word of a segment holds
  \* workers
  pc, local,
  lab,         \* PSPromotionManager::_bda_old_lab
  bdaref_stack, claimed_stack,
  done         \* post_scavenge has flushed the buffers

containers == <<family, top, words>>
roots == <<refs, olds, plains>>
stacks == <<bdaref_stack, claimed_stack>>
vars == <<forwardee, slot, cards, length, roots, containers, pc, local, lab, stacks, done>>

Least(S) == CHOOSE s \in S : \A t \in S : s <= t
first_segment == Least(Segments)
segment_end == segment_sz - filler
min_array_size == (3 * chunk_size) \div 2

(* Where a copy can be: in a segment, in to-space, in the general space,   *)
(* or where the object was (a failed promotion).                           *)
InSegment(s, a) == <<"segment", s, a>>
Survivor(o, w) == <<"young", o, w>>
Tenured(o, w) == <<"old", o, w>>
Self(o) == <<"self", o, o>>

Places ==
  {InSegment(s, a) : s \in Segments, a \in 0..segment_sz}
    \cup {Survivor(o, w) : o \in Objects, w \in Workers}
    \cup {Tenured(o, w) : o \in Objects, w \in Workers}
    \cup {Self(o) : o \in Objects}

ASSUME NullAssumption == NULL \notin Places

is_in_young(place) == place[1] \in {"young", "self"}

(* A task of a stack: a slot, or an array of which a chunk is left (masked) *)
Task(s, c) == [slot |-> s, array |-> NULL, container |-> c]
ArrayTask(o, c) == [slot |-> NULL, array |-> o, container |-> c]
SegmentOrNull == Segments \cup {NULL}
Tasks == [slot : Slots \cup {NULL}, array : Objects \cup {NULL}, container : SegmentOrNull]

(* The locals of a worker that copies the target of a slot: the container  *)
(* of the task, the new place, and how that was allocated.                 *)
Locals == [slot : Slots \cup {NULL}, container : SegmentOrNull, new_obj : Places \cup {NULL},
           how : {"none", "container", "lab", "direct", "plain", "failed"}]
NoLocals == [slot |-> NULL, container |-> NULL, new_obj |-> NULL, how |-> "none"]
Labs == [container : SegmentOrNull, bottom : Nat, top : Nat, end : Nat]
zero_size == [container |-> NULL, bottom |-> 0, top |-> 0, end |-> 0]
Steps == {"idle", "container", "element", "plain", "cas", "contents"}

TypeOK ==
  /\ forwardee \in [Objects -> Places \cup {NULL}]
  /\ slot \in [Slots -> Places \cup {NULL}]
  /\ cards \subseteq Slots
  /\ length \in [Objects -> Nat]
  /\ refs \subseteq RefSlots /\ olds \subseteq OldSlots /\ plains \subseteq PlainSlots
  /\ family \in [Segments -> SegmentOrNull]
  /\ top \in [Segments -> 0..segment_sz]
  /\ words \in [Segments -> [0..(segment_sz - 1) -> Objects \cup {"raw", "filler"}]]
  /\ pc \in [Workers -> Steps]
  /\ local \in [Workers -> Locals]
  /\ lab \in [Workers -> Labs]
  /\ bdaref_stack \in [Workers -> SUBSET Tasks]
  /\ claimed_stack \in [Workers -> SUBSET Tasks]
  /\ done \in BOOLEAN

Init ==
  /\ forwardee = [o \in Objects |-> NULL]
  /\ slot = [s \in Slots |-> NULL]
  /\ cards = OldSlots
  /\ length = [o \in Objects |-> Len(Fields[o])]
  /\ refs = RefSlots /\ olds = OldSlots /\ plains = PlainSlots
  /\ family = [s \in Segments |-> IF s = first_segment THEN s ELSE NULL]
  /\ top = [s \in Segments |-> IF s = first_segment THEN 1 ELSE 0]
  /\ words = [s \in Segments |-> [a \in 0..(segment_sz - 1) |->
                IF s = first_segment /\ a = 0 THEN "filler" ELSE "raw"]]
  /\ pc = [w \in Workers |-> "idle"]
  /\ local = [w \in Workers |-> NoLocals]
  /\ lab = [w \in Workers |-> zero_size]
  /\ bdaref_stack = [w \in Workers |-> {}]
  /\ claimed_stack = [w \in Workers |-> {}]
  /\ done = FALSE

object(w) == Target[local[w].slot]

(* The slots of each object *)
Contents == [o \in Objects |-> {Fields[o][i] : i \in DOMAIN Fields[o]}]

-----------------------------------------------------------------------------
(* References                                                              *)

(* Is the slot in the old generation?  OldSlots are; the slots of an       *)
(* object are if its copy is.                                              *)
Holders == [s \in Slots |-> {o \in Objects : s \in Contents[o]}]
InOld(s) ==
  \/ s \in OldSlots
  \/ \E o \in Holders[s] : forwardee[o] # NULL /\ ~ is_in_young(forwardee[o])

(* encode_store_heap_oop_not_null for slots whose targets are forwarded.   *)
(* A reference into the young generation dirties the card of its slot:     *)
(* claim_or_forward_* does so for every slot (claimed), copy_and_push_*    *)
(* for the slots of the old generation (copied).                           *)
Young(S) == {s \in S : is_in_young(forwardee[Target[s]])}

(* Fault: a claimed slot that is updated at once dirties no card. *)
Store_NoClaimCard(claimed, copied, dirty) ==
  /\ slot' = [s \in Slots |-> IF s \in claimed \cup copied THEN forwardee[Target[s]] ELSE slot[s]]
  /\ cards' = dirty \cup {s \in Young(copied) : InOld(s)}

Store(claimed, copied, dirty) ==
  /\ slot' = [s \in Slots |-> IF s \in claimed \cup copied THEN forwardee[Target[s]] ELSE slot[s]]
  /\ cards' = dirty \cup Young(claimed) \cup {s \in Young(copied) : InOld(s)}

(* claim_or_forward_bdaref, claim_or_forward_depth: slots whose targets    *)
(* are forwarded are updated now, the others go to the stack.              *)
Known(S) == {s \in S : forwardee[Target[s]] # NULL}

(* Fault: a slot that was updated is pushed all the same. *)
Unknown_Every(S, c) == {Task(s, c) : s \in S}

Unknown(S, c) == {Task(s, c) : s \in S \ Known(S)}

(* Start with the target of a slot: update the slot if somebody has copied *)
(* the target, go on to allocate otherwise.                                *)
Begin(w, s, c, kind) ==
  IF forwardee[Target[s]] # NULL
    THEN Store({}, {s}, cards) /\ UNCHANGED <<pc, local>>
    ELSE /\ pc' = [pc EXCEPT ![w] = kind]
         /\ local' = [local EXCEPT ![w] = [NoLocals EXCEPT !.slot = s, !.container = c]]
         /\ UNCHANGED <<slot, cards>>

(* process_bda_array_chunk, process_array_chunk: the length of the old     *)
(* copy says how many slots are left; the task for the rest is pushed      *)
(* before the slots of this chunk.                                         *)
chunk_start(a) == IF length[a] > min_array_size THEN length[a] - chunk_size ELSE 0
Chunk(a) == {Fields[a][i] : i \in (chunk_start(a) + 1)..length[a]}

(* Fault: nobody is told of the rest. *)
ChunkTasks_DropsRest(a, c) == Unknown(Chunk(a), c)

ChunkTasks(a, c) ==
  Unknown(Chunk(a), c) \cup (IF chunk_start(a) > 0 THEN {ArrayTask(a, c)} ELSE {})

ShrinkArray(a) ==
  length' = [length EXCEPT ![a] = IF chunk_start(a) > 0 THEN chunk_start(a) ELSE Len(Fields[a])]

-----------------------------------------------------------------------------
(* Taking work                                                             *)

Idle(w) == ~ done /\ pc[w] = "idle"
BdaDrained(w) == Idle(w) /\ bdaref_stack[w] = {}

(* BDARefRootsTask: the stack is drained before the next Ref is taken. *)
DequeueRef(w) ==
  /\ BdaDrained(w)
  /\ \E s \in refs :
       /\ refs' = refs \ {s}
       /\ Begin(w, s, NULL, "container")
  /\ UNCHANGED <<forwardee, length, olds, plains, containers, lab, stacks, done>>

(* scavenge_bda_contents_parallel: clean the card, unless it is the first  *)
(* or the last one of the container, and claim what is on it.              *)
ScanOld(w) ==
  /\ BdaDrained(w)
  /\ \E s \in olds, cleaned \in SUBSET OldSlots :
       /\ cleaned \subseteq {s}
       /\ olds' = olds \ {s}
       /\ Store(Known({s}), {}, cards \ cleaned)
       /\ bdaref_stack' = [bdaref_stack EXCEPT ![w] = @ \cup Unknown({s}, first_segment)]
  /\ UNCHANGED <<forwardee, length, refs, plains, containers, pc, local, lab, claimed_stack, done>>

(* drain_bda_stacks, process_popped_bdaref_depth *)
PopBda(w) ==
  /\ Idle(w)
  /\ \E t \in bdaref_stack[w] :
       IF t.array = NULL
         THEN /\ Begin(w, t.slot, t.container, "element")
              /\ bdaref_stack' = [bdaref_stack EXCEPT ![w] = @ \ {t}]
              /\ UNCHANGED length
         ELSE /\ ShrinkArray(t.array)
              /\ Store(Known(Chunk(t.array)), {}, cards)
              /\ bdaref_stack' =
                   [bdaref_stack EXCEPT ![w] = (@ \ {t}) \cup ChunkTasks(t.array, t.container)]
              /\ UNCHANGED <<pc, local>>
  /\ UNCHANGED <<forwardee, roots, containers, lab, claimed_stack, done>>

(* The ordinary root tasks stand behind the bda tasks in the task queue: a *)
(* worker gets to them when no Ref is left.                                *)
TakeRoot(w) ==
  /\ BdaDrained(w)
  /\ refs = {}
  /\ \E s \in plains :
       /\ plains' = plains \ {s}
       /\ Begin(w, s, NULL, "plain")
  /\ UNCHANGED <<forwardee, length, refs, olds, containers, lab, stacks, done>>

(* process_popped_location_depth for a task of the claimed stack of v *)
ProcessDepth(w, v) ==
  /\ \E t \in claimed_stack[v] :
       IF t.array = NULL
         THEN /\ Begin(w, t.slot, NULL, "plain")
              /\ claimed_stack' = [claimed_stack EXCEPT ![v] = @ \ {t}]
              /\ UNCHANGED length
         ELSE /\ ShrinkArray(t.array)
              /\ Store(Known(Chunk(t.array)), {}, cards)
              /\ claimed_stack' = [[claimed_stack EXCEPT ![v] = @ \ {t}]
                                     EXCEPT ![w] = @ \cup ChunkTasks(t.array, NULL)]
              /\ UNCHANGED <<pc, local>>
  /\ UNCHANGED <<forwardee, roots, containers, lab, bdaref_stack, done>>

(* drain_stacks_depth *)
PopDepth(w) == BdaDrained(w) /\ refs = {} /\ ProcessDepth(w, w)

(* StealTask: a task of another worker, when all else is done *)
Steal(w) ==
  /\ BdaDrained(w)
  /\ refs = {} /\ plains = {} /\ claimed_stack[w] = {}
  /\ \E v \in Workers \ {w} : ProcessDepth(w, v)

-----------------------------------------------------------------------------
(* Allocating                                                              *)

Put(ws, s, a, n, v) == [ws EXCEPT ![s] = [x \in DOMAIN @ |-> IF a <= x /\ x < a + n THEN v ELSE @[x]]]

Unused == {s \in Segments : family[s] = NULL}

(* The object is copied to the words that were allocated for it. *)
Copied(w, c, a, how) ==
  /\ pc' = [pc EXCEPT ![w] = "cas"]
  /\ local' = [local EXCEPT ![w].container = c, ![w].new_obj = InSegment(c, a), ![w].how = how]

(* No room: the object is to be forwarded to itself. *)
Fail(w) ==
  /\ pc' = [pc EXCEPT ![w] = "cas"]
  /\ local' = [local EXCEPT ![w].new_obj = Self(object(w)), ![w].how = "failed"]
  /\ UNCHANGED <<containers, lab>>

(* allocate_container *)
AllocateContainer(w) ==
  LET o == object(w)
      s == Least(Unused)
  IN  /\ pc[w] = "container"
      /\ \/ /\ Unused # {}
            /\ family' = [family EXCEPT ![s] = s]
            /\ top' = [top EXCEPT ![s] = Size[o]]
            /\ words' = Put(words, s, 0, Size[o], o)
            /\ Copied(w, s, 0, "container")
            /\ UNCHANGED lab
         \/ Unused = {} /\ Fail(w)
      /\ UNCHANGED <<forwardee, slot, cards, length, roots, stacks, done>>

(* allocate_element(n, c), allocate_plab(c): the first segment from c on   *)
(* that has room, else a new one at the end of the chain                   *)

HasRoom(c, n) == {s \in Segments : family[s] = family[c] /\ s >= c /\ top[s] + n < segment_end}
NoSegment(c, n) == HasRoom(c, n) = {} /\ Unused = {}
element_segment(c, n) == IF HasRoom(c, n) # {} THEN Least(HasRoom(c, n)) ELSE Least(Unused)
element_start(c, n) == IF HasRoom(c, n) # {} THEN top[element_segment(c, n)] ELSE 0

TakeElement(c, n) ==
  LET s == element_segment(c, n)
  IN  /\ family' = [family EXCEPT ![s] = family[c]]
      /\ top' = [top EXCEPT ![s] = element_start(c, n) + n]

(* Fault: the buffer serves any container. *)
LabFits_AnyContainer(w, c, n) == lab[w].container # NULL /\ lab[w].top + n <= lab[w].end

(* BDAOldPromotionLAB: allocate, flush, initialize *)
LabFits(w, c, n) == lab[w].container = c /\ lab[w].top + n <= lab[w].end
flush(ws, l) == IF l.container = NULL THEN ws
                ELSE Put(ws, l.container, l.top, l.end + filler - l.top, "filler")

FromLab(w) ==
  LET o == object(w)
      c == local[w].container
  IN  /\ LabFits(w, c, Size[o])
      /\ words' = Put(words, lab[w].container, lab[w].top, Size[o], o)
      /\ lab' = [lab EXCEPT ![w].top = @ + Size[o]]
      /\ Copied(w, lab[w].container, lab[w].top, "lab")
      /\ UNCHANGED <<family, top>>

Large(o) == Size[o] > BDAOldPLABSize \div 2

Direct(w) ==
  LET o == object(w)
      c == local[w].container
  IN  /\ ~ LabFits(w, c, Size[o])
      /\ Large(o)
      /\ \/ /\ ~ NoSegment(c, Size[o])
            /\ TakeElement(c, Size[o])
            /\ words' = Put(words, element_segment(c, Size[o]), element_start(c, Size[o]), Size[o], o)
            /\ Copied(w, element_segment(c, Size[o]), element_start(c, Size[o]), "direct")
            /\ UNCHANGED lab
         \/ NoSegment(c, Size[o]) /\ Fail(w)

NewLab(w) ==
  LET o == object(w)
      c == local[w].container
      s == element_segment(c, BDAOldPLABSize)
      a == element_start(c, BDAOldPLABSize)
  IN  /\ ~ LabFits(w, c, Size[o])
      /\ ~ Large(o)
      /\ \/ /\ ~ NoSegment(c, BDAOldPLABSize)
            /\ TakeElement(c, BDAOldPLABSize)
            /\ words' = Put(flush(words, lab[w]), s, a, Size[o], o)
            /\ lab' = [lab EXCEPT ![w] = [container |-> s, bottom |-> a, top |-> a + Size[o],
                                          end |-> a + BDAOldPLABSize - filler]]
            /\ Copied(w, s, a, "lab")
         \/ NoSegment(c, BDAOldPLABSize) /\ Fail(w)

AllocateElement(w) ==
  /\ pc[w] = "element"
  /\ FromLab(w) \/ Direct(w) \/ NewLab(w)
  /\ UNCHANGED <<forwardee, slot, cards, length, roots, stacks, done>>

(* copy_to_survivor_space: to-space, the general space, or no room *)
AllocatePlain(w) ==
  LET o == object(w)
  IN  /\ pc[w] = "plain"
      /\ \/ /\ pc' = [pc EXCEPT ![w] = "cas"]
            /\ \E place \in {Survivor(o, w), Tenured(o, w)} :
                 local' = [local EXCEPT ![w].new_obj = place, ![w].how = "plain"]
            /\ UNCHANGED <<containers, lab>>
         \/ Fail(w)
      /\ UNCHANGED <<forwardee, slot, cards, length, roots, stacks, done>>

-----------------------------------------------------------------------------
(* Claiming                                                                *)

(* Fault: the mark is stored, not compared and swapped. *)
CasWon_Stores(w) ==
  /\ pc[w] = "cas"
  /\ forwardee' = [forwardee EXCEPT ![object(w)] = local[w].new_obj]
  /\ pc' = [pc EXCEPT ![w] = "contents"]
  /\ UNCHANGED <<slot, cards, length, roots, containers, local, lab, stacks, done>>

(* o->cas_forward_to(new_obj, test_mark) succeeds. *)
CasWon(w) ==
  /\ pc[w] = "cas"
  /\ forwardee[object(w)] = NULL
  /\ forwardee' = [forwardee EXCEPT ![object(w)] = local[w].new_obj]
  /\ pc' = [pc EXCEPT ![w] = "contents"]
  /\ UNCHANGED <<slot, cards, length, roots, containers, local, lab, stacks, done>>

(* Fault: a copy that was allocated directly stays as it is. *)
GiveBack_NoFiller(w) ==
  /\ top' = IF local[w].how = "container" THEN [top EXCEPT ![local[w].container] = 0] ELSE top
  /\ lab' = IF local[w].how = "lab" THEN [lab EXCEPT ![w].top = local[w].new_obj[3]] ELSE lab
  /\ UNCHANGED <<family, words>>

(* The loser's copy is given back: the container is left empty, the buffer *)
(* takes its words back, and what was allocated directly becomes a filler. *)
GiveBack(w) ==
  LET c == local[w].container
      a == local[w].new_obj[3]
      n == Size[object(w)]
  IN  /\ top' = IF local[w].how = "container" THEN [top EXCEPT ![c] = 0] ELSE top
      /\ lab' = IF local[w].how = "lab" THEN [lab EXCEPT ![w].top = a] ELSE lab
      /\ words' = IF local[w].how = "direct" THEN Put(words, c, a, n, "filler") ELSE words
      /\ UNCHANGED family

(* Fault: the loser copies the object again. *)
CasLost_TriesAgain(w) ==
  /\ pc[w] = "cas"
  /\ forwardee[object(w)] # NULL
  /\ GiveBack(w)
  /\ pc' = [pc EXCEPT ![w] = "plain"]
  /\ UNCHANGED <<forwardee, slot, cards, length, roots, local, stacks, done>>

(* It fails: another worker owns the object; its place goes into the slot. *)
CasLost(w) ==
  /\ pc[w] = "cas"
  /\ forwardee[object(w)] # NULL
  /\ GiveBack(w)
  /\ Store({}, {local[w].slot}, cards)
  /\ pc' = [pc EXCEPT ![w] = "idle"]
  /\ local' = [local EXCEPT ![w] = NoLocals]
  /\ UNCHANGED <<forwardee, length, roots, stacks, done>>

(* The winner pushes the contents of the object, a large array as one      *)
(* task, and updates the slot it came from.  The contents of an object     *)
(* that stays where it is go to the claimed stack on either path.          *)
OnBdaPath(w) == local[w].how \in {"container", "lab", "direct"}
InChunks(w) == object(w) \in Chunked /\ local[w].how # "failed"

PushContents(w) ==
  LET o == object(w)
      c == IF OnBdaPath(w) THEN local[w].container ELSE NULL
      tasks == IF InChunks(w) THEN {ArrayTask(o, c)} ELSE Unknown(Contents[o], c)
  IN  /\ pc[w] = "contents"
      /\ Store(IF InChunks(w) THEN {} ELSE Known(Contents[o]), {local[w].slot}, cards)
      /\ IF OnBdaPath(w)
           THEN bdaref_stack' = [bdaref_stack EXCEPT ![w] = @ \cup tasks] /\ UNCHANGED claimed_stack
           ELSE claimed_stack' = [claimed_stack EXCEPT ![w] = @ \cup tasks] /\ UNCHANGED bdaref_stack
      /\ pc' = [pc EXCEPT ![w] = "idle"]
      /\ local' = [local EXCEPT ![w] = NoLocals]
      /\ UNCHANGED <<forwardee, length, roots, containers, lab, done>>

(* post_scavenge, when every task has ended: flush_labs *)
Drained ==
  /\ refs = {} /\ olds = {} /\ plains = {}
  /\ \A w \in Workers : pc[w] = "idle" /\ bdaref_stack[w] = {} /\ claimed_stack[w] = {}

PostScavenge ==
  /\ ~ done
  /\ Drained
  /\ words' = FoldFunction(LAMBDA l, ws : flush(ws, l), words, lab)
  /\ lab' = [w \in Workers |-> zero_size]
  /\ done' = TRUE
  /\ UNCHANGED <<forwardee, slot, cards, length, roots, family, top, pc, local, stacks>>

-----------------------------------------------------------------------------
Step(w) ==
  \/ DequeueRef(w) \/ ScanOld(w) \/ PopBda(w) \/ TakeRoot(w) \/ PopDepth(w) \/ Steal(w)
  \/ AllocateContainer(w) \/ AllocateElement(w) \/ AllocatePlain(w)
  \/ CasWon(w) \/ CasLost(w) \/ PushContents(w)

Next == (\E w \in Workers : Step(w)) \/ PostScavenge

Spec == Init /\ [][Next]_vars

(* A worker waits for nobody, so some worker goes on as long as one can. *)
FairSpec == Spec /\ WF_vars(Next)

-----------------------------------------------------------------------------
(* Properties                                                              *)

(* Copying implements Forwarding: whichever worker wins, on whichever path *)
(* and whether or not memory runs out, a reached object gets one place,    *)
(* keeps it, and is the only thing a reference to it is updated with.      *)
Abstract ==
  INSTANCE Forwarding WITH RootSlots <- RefSlots \cup OldSlots \cup PlainSlots

ImplementsForwarding == Abstract!Spec

(* A slot that is still to be processed has not been updated: the          *)
(* assertion "revisiting object?" of copy_and_push_safe_barrier.           *)
Pending(stack) == {t.slot : t \in stack} \ {NULL}

NotRevisited ==
  \A w \in Workers :
    /\ \A s \in Pending(bdaref_stack[w]) \cup Pending(claimed_stack[w]) : slot[s] = NULL
    /\ local[w].slot # NULL => slot[local[w].slot] = NULL

(* The words of the copy that an object was forwarded to are never handed  *)
(* out again or filled: not by a loser that gives its copy back, not by a  *)
(* buffer that is flushed.                                                 *)
CopiesIntact ==
  \A o \in Objects :
    forwardee[o] # NULL /\ forwardee[o][1] = "segment" =>
      \A i \in 0..(Size[o] - 1) : words[forwardee[o][2]][forwardee[o][3] + i] = o

(* Every copy stays intact, and after the collection a segment holds       *)
(* nothing but such copies and fillers, without a gap, up to its top: it   *)
(* can be parsed, and no abandoned copy with old references is left in it. *)
SegmentsSound ==
  CopiesIntact /\ (done => \A s \in Segments : \A a \in 0..(top[s] - 1) :
    \/ words[s][a] = "filler"
    \/ \E o \in Objects :
         /\ words[s][a] = o
         /\ forwardee[o] # NULL /\ forwardee[o][1] = "segment" /\ forwardee[o][2] = s
         /\ forwardee[o][3] <= a /\ a < forwardee[o][3] + Size[o])

(* An object that went to a container as an element is referred to from    *)
(* that container: buffers and segments of families are never mixed up.    *)
PlacesOf(s) == {forwardee[p] : p \in Holders[s]}
FamilyOf(place) == IF place # NULL /\ place[1] = "segment" THEN family[place[2]] ELSE NULL

KeptTogether ==
  \A o \in Objects :
    LET f == FamilyOf(forwardee[o])
    IN  f # NULL /\ (forwardee[o][3] > 0 \/ forwardee[o][2] # f) =>
          \E s \in Slots :
            /\ Target[s] = o
            /\ \/ s \in OldSlots /\ f = first_segment
               \/ \E place \in PlacesOf(s) : FamilyOf(place) = f

(* After the collection every reference from the old generation to an      *)
(* object that is still young lies on a dirty card: the next collection    *)
(* finds it.                                                               *)
CardsCover ==
  done => \A s \in Slots : InOld(s) /\ slot[s] # NULL /\ is_in_young(slot[s]) => s \in cards

(* When the collection is over no reached reference is left behind, not    *)
(* even one in an array whose chunks several workers processed.            *)
NothingLeft == done => \A s \in Abstract!Reached : slot[s] # NULL

(* Every collection comes to its end. *)
ScavengeEnds == <>done
=============================================================================
