------------------------ MODULE ContainerAllocation ------------------------
(***************************************************************************)
(* Allocation in the bda old generation while GC workers promote objects   *)
(* (bda/mutableBDASpace.cpp: push_container, allocate_new_segment,         *)
(* allocate_container, allocate_element, allocate_plab, cas_allocate).     *)
(*                                                                         *)
(* The old generation is a row of spaces.  Space 0 is the general one, the *)
(* others belong to one family of bda classes each.  A collection of bda   *)
(* objects lives in a container, a chain of segments; a segment is a       *)
(* reserved stretch of a space with its own bump pointer.  Workers share   *)
(* everything and hold no lock: every pointer below is moved by            *)
(* compare-and-swap.                                                       *)
(*                                                                         *)
(* Grain: one load or one compare-and-swap of a segment's _top or          *)
(* _next_segment and of the generation's top per step.  The retry loop of  *)
(* MutableSpace::cas_allocate is one step, its successful iteration, and   *)
(* the set-up of a segment nobody else can see yet is part of that step.   *)
(* The queues of segments are the modules GenQueue and BDASpace.           *)
(* Addresses and sizes are in heap words.                                  *)
(***************************************************************************)
EXTENDS Integers, FiniteSets, Layout

CONSTANTS
  Workers,            \* GC worker threads
  Spaces,             \* indices of the spaces, 0 among them
  bottom, end,        \* MutableSpace::_bottom and _end of every space
  Segments,           \* the container structs malloc can deliver
  Sizes,              \* object sizes
  segment_sz,         \* CGRPSpace::segment_sz
  filler_header_size, \* MutableBDASpace::_filler_header_size
  BDAOldPLABSize,     \* size of a worker's buffer
  card,               \* alignment of cas_allocate_aligned, a card in words
  MaxBlocks,          \* bound: allocations in one behaviour
  NULL

Bda == Spaces \ {0}

(* Space limits and segment sizes are multiples of the card size, because  *)
(* initialize_regions aligns spaces to segment_sz and calculate_reserved_sz*)
(* aligns segment_sz to the size of a region of the compactor              *)
(* (SpacesApart in ContainerAllocation_proofs).                            *)
ASSUME AllocationAssumption ==
  /\ 0 \in Spaces
  /\ Spaces \subseteq Nat
  /\ bottom \in [Spaces -> Nat]
  /\ end \in [Spaces -> Nat]
  /\ \A s \in Spaces : bottom[s] <= end[s]
  /\ \A s, t \in Spaces : s # t => end[s] <= bottom[t] \/ end[t] <= bottom[s]
  /\ Sizes \subseteq Nat \ {0}
  /\ segment_sz \in Nat \ {0}
  /\ filler_header_size \in 1..segment_sz
  /\ BDAOldPLABSize \in Nat \ {0}
  /\ card \in Nat \ {0}
  /\ end[0] % card = 0
  /\ segment_sz % card = 0
  /\ MaxBlocks \in Nat
  /\ NULL \notin Segments

(* align_up is what the code's masks compute for powers of two. *)
ASSUME MaskAssumption ==
  \A a \in {segment_sz, card} : \E n \in 0..a : a = 2^n

VARIABLES
  space_top,        \* MutableSpace::_top of every space
  gen_top,          \* MutableBDASpace's own _top
  used,             \* the container structs in use
  seg_start, seg_top, seg_hard_end, seg_space,   \* their fields
  next_segment, prev_segment,
  parents,          \* segments that hold the object of a bda class
  given,            \* segments passed on with the contents of an object
  blocks,           \* history: memory handed out: [addr, size, seg, by]
  pc,
  op,               \* what the worker allocates: [kind, size]
  cont,             \* "container", the reference parameter
  segment,          \* allocate_element: segment; allocate_new_segment: last
  old_top,          \* allocate_element: old_top; cas_allocate: cur_top
  fresh,            \* the segment push_container returned
  obj, region_top   \* cas_allocate: obj and region_top

fields == <<seg_start, seg_top, seg_hard_end, seg_space>>
links  == <<next_segment, prev_segment>>
heap   == <<space_top, gen_top, used, fields, links, parents, given, blocks>>
locals == <<op, cont, segment, old_top, fresh, obj, region_top>>
vars   == <<heap, pc, locals>>

SegOrNull == Segments \cup {NULL}
Kinds == {"container", "element", "object"}
PCs == {"idle", "read_top", "cas_top", "next_segment", "push", "push_other",
        "link", "set_prev", "forward", "read_gen_top", "read_region_top", "cas_gen_top",
        "assert_top"}

(* MutableBDASpace::_end of a segment: room is kept for a filler. *)
seg_end(s) == seg_hard_end[s] - filler_header_size

Block(a, n, s, w) == [addr |-> a, size |-> n, seg |-> s, by |-> w]
Disjoint(a, m, b, n) == a + m <= b \/ b + n <= a

NoOp == [kind |-> "object", size |-> 0]

BlockType == [addr : Nat, size : Nat, seg : SegOrNull, by : Workers]

TypeOK ==
  /\ space_top \in [Spaces -> Nat]
  /\ gen_top \in Nat
  /\ used \subseteq Segments
  /\ seg_start \in [Segments -> Nat]
  /\ seg_top \in [Segments -> Nat]
  /\ seg_hard_end \in [Segments -> Nat]
  /\ seg_space \in [Segments -> Spaces]
  /\ next_segment \in [Segments -> SegOrNull]
  /\ prev_segment \in [Segments -> SegOrNull]
  /\ parents \subseteq used
  /\ given \subseteq used
  /\ blocks \subseteq BlockType
  /\ pc \in [Workers -> PCs]
  /\ op \in [Workers -> [kind : Kinds, size : Nat]]
  /\ cont \in [Workers -> SegOrNull]
  /\ segment \in [Workers -> SegOrNull]
  /\ old_top \in [Workers -> Nat]
  /\ fresh \in [Workers -> SegOrNull]
  /\ obj \in [Workers -> Nat]
  /\ region_top \in [Workers -> Nat]

Init ==
  /\ space_top = bottom
  /\ gen_top \in {bottom[s] : s \in Spaces}
  /\ \A s \in Spaces : gen_top <= bottom[s]
  /\ used = {}
  /\ seg_start = [s \in Segments |-> 0]
  /\ seg_top = [s \in Segments |-> 0]
  /\ seg_hard_end = [s \in Segments |-> 0]
  /\ seg_space = [s \in Segments |-> 0]
  /\ next_segment = [s \in Segments |-> NULL]
  /\ prev_segment = [s \in Segments |-> NULL]
  /\ parents = {}
  /\ given = {}
  /\ blocks = {}
  /\ pc = [w \in Workers |-> "idle"]
  /\ op = [w \in Workers |-> NoOp]
  /\ cont = [w \in Workers |-> NULL]
  /\ segment = [w \in Workers |-> NULL]
  /\ old_top = [w \in Workers |-> 0]
  /\ fresh = [w \in Workers |-> NULL]
  /\ obj = [w \in Workers |-> 0]
  /\ region_top = [w \in Workers |-> 0]

Goto(w, from, to) == pc[w] = from /\ pc' = [pc EXCEPT ![w] = to]

(* The call returns: its locals are gone. *)
Return(w, from) ==
  /\ Goto(w, from, "idle")
  /\ op' = [op EXCEPT ![w] = NoOp]
  /\ cont' = [cont EXCEPT ![w] = NULL]
  /\ segment' = [segment EXCEPT ![w] = NULL]
  /\ old_top' = [old_top EXCEPT ![w] = 0]
  /\ fresh' = [fresh EXCEPT ![w] = NULL]
  /\ obj' = [obj EXCEPT ![w] = 0]
  /\ region_top' = [region_top EXCEPT ![w] = 0]

-----------------------------------------------------------------------------
(* Reserving a stretch of a space.                                         *)

(* push_container: one segment, or as many as a large object needs. *)
reserved_sz(size) == IF size > segment_sz THEN align_up(size, segment_sz) ELSE segment_sz

(* Deliberate faults, one per property the runs check, stand before the    *)
(* definition they replace: their names say what was changed.              *)
NewTop_NotAligned(sp, n) == space_top[sp] + n

(* cas_allocate fits from top; cas_allocate_aligned makes the same test    *)
(* and then hands out the stretch that starts at the next card.            *)
Fits(sp, n) == end[sp] - space_top[sp] >= n
Start(sp) == IF sp = 0 THEN align_up(space_top[sp], card) ELSE space_top[sp]
NewTop(sp, n) == IF sp = 0 THEN align_up(space_top[sp] + n, card) ELSE space_top[sp] + n

(* cas_allocate_aligned fills the words it skips, when a filler fits. *)
Filler(w, sp) ==
  LET gap == Start(sp) - space_top[sp]
  IN  IF gap >= filler_header_size THEN {Block(space_top[sp], gap, NULL, w)} ELSE {}

(* push_container(size) on space sp, where no struct is left over from a   *)
(* full collection: reserve, malloc, setup_container, enqueue.             *)
PushContainer(w, sp) ==
  LET size == op[w].size
      n == reserved_sz(size)
      a == Start(sp)
  IN  /\ Fits(sp, n)
      /\ \E s \in Segments \ used :
           /\ fresh' = [fresh EXCEPT ![w] = s]
           /\ used' = used \cup {s}
           /\ seg_start' = [seg_start EXCEPT ![s] = a]
           /\ seg_top' = [seg_top EXCEPT ![s] = a + size]
           /\ seg_hard_end' = [seg_hard_end EXCEPT ![s] = a + n]
           /\ seg_space' = [seg_space EXCEPT ![s] = sp]
           /\ next_segment' = [next_segment EXCEPT ![s] = NULL]
           /\ prev_segment' = [prev_segment EXCEPT ![s] = NULL]
           /\ blocks' = blocks \cup {Block(a, size, s, w)} \cup Filler(w, sp)
      /\ space_top' = [space_top EXCEPT ![sp] = NewTop(sp, n)]

-----------------------------------------------------------------------------
(* allocate_container: a container for a bda object, in the space of its   *)
(* class, else in the general space.                                       *)

StartContainer(w) ==
  /\ Cardinality(blocks) < MaxBlocks
  /\ Goto(w, "idle", "push")
  /\ \E n \in Sizes : op' = [op EXCEPT ![w] = [kind |-> "container", size |-> n]]
  /\ UNCHANGED <<heap, cont, segment, old_top, fresh, obj, region_top>>

(* The space to try first: allocate_container is given it by the class of  *)
(* the object, allocate_element takes the space of the last segment.       *)
FirstSpaces(w) == IF op[w].kind = "container" THEN Bda ELSE {seg_space[cont[w]]}

AfterPush(w) == IF op[w].kind = "container" THEN "forward" ELSE "link"

(* spaces()->at(i)->push_container(size) *)
PushFirst(w) ==
  pc[w] = "push" /\ \E sp \in FirstSpaces(w) :
    \/ /\ PushContainer(w, sp)
       /\ Goto(w, "push", AfterPush(w))
       /\ segment' = [segment EXCEPT ![w] = cont[w]]
       /\ UNCHANGED <<gen_top, parents, given, op, cont, old_top, obj, region_top>>
    \/ /\ ~ Fits(sp, reserved_sz(op[w].size))
       /\ Goto(w, "push", "push_other")
       /\ UNCHANGED <<heap, locals>>

(* spaces()->at(0)->push_container(size); when that fails as well the      *)
(* generation is full and the caller takes the promotion-failed path.      *)
PushOther(w) ==
  \/ /\ pc[w] = "push_other"
     /\ PushContainer(w, 0)
     /\ Goto(w, "push_other", AfterPush(w))
     /\ segment' = [segment EXCEPT ![w] = cont[w]]
     /\ UNCHANGED <<gen_top, parents, given, op, cont, old_top, obj, region_top>>
  \/ /\ ~ Fits(0, reserved_sz(op[w].size))
     /\ Return(w, "push_other")
     /\ UNCHANGED heap

ContainerWon_PassesArgument(w) ==
  /\ Return(w, "forward")
  /\ parents' = parents \cup {cont[w]}
  /\ given' = given \cup {cont[w]}
  /\ UNCHANGED <<space_top, gen_top, used, fields, links, blocks>>

(* copy_bdaref_to_survivor_space, kind container: the worker that wins the *)
(* race to forward the object passes its container on with the contents... *)
ContainerWon(w) ==
  /\ Return(w, "forward")
  /\ parents' = parents \cup {fresh[w]}
  /\ given' = given \cup {fresh[w]}
  /\ UNCHANGED <<space_top, gen_top, used, fields, links, blocks>>

(* ... and the one that loses takes its object back and leaves an empty    *)
(* container behind: container->_top = container->_start.                  *)
ContainerLost(w) ==
  /\ Return(w, "forward")
  /\ seg_top' = [seg_top EXCEPT ![fresh[w]] = seg_start[fresh[w]]]
  /\ blocks' = {b \in blocks : b.seg # fresh[w]}
  /\ UNCHANGED <<space_top, gen_top, used, seg_start, seg_hard_end, seg_space,
                 links, parents, given>>

-----------------------------------------------------------------------------
(* allocate_element(size, c) and allocate_plab(c), which is the same code  *)
(* for a buffer of BDAOldPLABSize words.                                   *)

StartElement(w) ==
  /\ Cardinality(blocks) < MaxBlocks
  /\ Goto(w, "idle", "read_top")
  /\ \E c \in given, n \in Sizes \cup {BDAOldPLABSize} :
       /\ op' = [op EXCEPT ![w] = [kind |-> "element", size |-> n]]
       /\ cont' = [cont EXCEPT ![w] = c]
       /\ segment' = [segment EXCEPT ![w] = c]
  /\ UNCHANGED <<heap, old_top, fresh, obj, region_top>>

(* while ((old_top = segment->_top) + size < segment->_end) *)
ReadTop(w) ==
  LET s == segment[w]
  IN  /\ pc[w] = "read_top"
      /\ Goto(w, "read_top",
              IF seg_top[s] + op[w].size < seg_end(s) THEN "cas_top" ELSE "next_segment")
      /\ old_top' = [old_top EXCEPT ![w] = seg_top[s]]
      /\ UNCHANGED <<heap, op, cont, segment, fresh, obj, region_top>>

CasTop_PlainStore(w) ==
  LET s == segment[w]
  IN  /\ Return(w, "cas_top")
      /\ seg_top' = [seg_top EXCEPT ![s] = old_top[w] + op[w].size]
      /\ blocks' = blocks \cup {Block(old_top[w], op[w].size, s, w)}
      /\ given' = given \cup {s}
      /\ UNCHANGED <<space_top, gen_top, used, seg_start, seg_hard_end, seg_space,
                     links, parents>>

CasTop_RetryWithoutReload(w) ==
  LET s == segment[w]
  IN  /\ pc[w] = "cas_top"
      /\ seg_top[s] = old_top[w]
      /\ Return(w, "cas_top")
      /\ seg_top' = [seg_top EXCEPT ![s] = old_top[w] + op[w].size]
      /\ blocks' = blocks \cup {Block(old_top[w], op[w].size, s, w)}
      /\ given' = given \cup {s}
      /\ UNCHANGED <<space_top, gen_top, used, seg_start, seg_hard_end, seg_space,
                     links, parents>>

(* Atomic::cmpxchg_ptr(new_top, &(segment->_top), old_top) *)
CasTop(w) ==
  LET s == segment[w]
  IN  /\ pc[w] = "cas_top"
      /\ \/ /\ seg_top[s] = old_top[w]
            /\ Return(w, "cas_top")
            /\ seg_top' = [seg_top EXCEPT ![s] = old_top[w] + op[w].size]
            /\ blocks' = blocks \cup {Block(old_top[w], op[w].size, s, w)}
            /\ given' = given \cup {s}
         \/ /\ seg_top[s] # old_top[w]
            /\ Goto(w, "cas_top", "read_top")
            /\ UNCHANGED <<seg_top, blocks, given, locals>>
      /\ UNCHANGED <<space_top, gen_top, used, seg_start, seg_hard_end, seg_space,
                     links, parents>>

(* while ((segment = segment->_next_segment) != NULL && (container = segment)) *)
NextSegment(w) ==
  LET s == next_segment[segment[w]]
  IN  /\ pc[w] = "next_segment"
      /\ \/ /\ s # NULL
            /\ Goto(w, "next_segment", "read_top")
            /\ segment' = [segment EXCEPT ![w] = s]
            /\ cont' = [cont EXCEPT ![w] = s]
         \/ /\ s = NULL
            /\ Goto(w, "next_segment", "push")
            /\ UNCHANGED <<segment, cont>>
      /\ UNCHANGED <<heap, op, old_top, fresh, obj, region_top>>

Link_PlainStore(w) ==
  /\ Goto(w, "link", "set_prev")
  /\ next_segment' = [next_segment EXCEPT ![segment[w]] = fresh[w]]
  /\ UNCHANGED <<space_top, gen_top, used, fields, prev_segment, parents,
                 given, blocks, locals>>

(* allocate_new_segment: append the new segment to the chain, from the     *)
(* last segment this worker saw.  A loser of the compare-and-swap walks on.*)
Link(w) ==
  LET last == segment[w]
  IN  /\ pc[w] = "link"
      /\ \/ /\ next_segment[last] = NULL
            /\ Goto(w, "link", "set_prev")
            /\ next_segment' = [next_segment EXCEPT ![last] = fresh[w]]
            /\ UNCHANGED segment
         \/ /\ next_segment[last] # NULL
            /\ segment' = [segment EXCEPT ![w] = next_segment[last]]
            /\ UNCHANGED <<pc, next_segment>>
      /\ UNCHANGED <<space_top, gen_top, used, fields, prev_segment, parents,
                     given, blocks, op, cont, old_top, fresh, obj, region_top>>

(* container->_prev_segment = last, and the caller's container is the new one *)
SetPrev(w) ==
  /\ Return(w, "set_prev")
  /\ prev_segment' = [prev_segment EXCEPT ![fresh[w]] = segment[w]]
  /\ given' = given \cup {fresh[w]}
  /\ UNCHANGED <<space_top, gen_top, used, fields, next_segment, parents, blocks>>

-----------------------------------------------------------------------------
(* MutableBDASpace::cas_allocate: an object that belongs to no container.  *)

AllocateObject(w) ==
  /\ Cardinality(blocks) < MaxBlocks
  /\ \E n \in Sizes :
       /\ Fits(0, n)
       /\ Goto(w, "idle", "read_gen_top")
       /\ op' = [op EXCEPT ![w] = [kind |-> "object", size |-> n]]
       /\ obj' = [obj EXCEPT ![w] = space_top[0]]
       /\ space_top' = [space_top EXCEPT ![0] = @ + n]
       /\ blocks' = blocks \cup {Block(space_top[0], n, NULL, w)}
  /\ UNCHANGED <<gen_top, used, fields, links, parents, given,
                 cont, segment, old_top, fresh, region_top>>

(* while ((cur_top = top()) < ... *)
ReadGenTop(w) ==
  /\ Goto(w, "read_gen_top", "read_region_top")
  /\ old_top' = [old_top EXCEPT ![w] = gen_top]
  /\ UNCHANGED <<heap, op, cont, segment, fresh, obj, region_top>>

(* ... (region_top = ms->top())) *)
ReadRegionTop(w) ==
  /\ Goto(w, "read_region_top",
          IF old_top[w] < space_top[0] THEN "cas_gen_top" ELSE "assert_top")
  /\ region_top' = [region_top EXCEPT ![w] = space_top[0]]
  /\ UNCHANGED <<heap, op, cont, segment, old_top, fresh, obj>>

CasGenTop_PlainStore(w) ==
  /\ Goto(w, "cas_gen_top", "assert_top")
  /\ gen_top' = region_top[w]
  /\ UNCHANGED <<space_top, used, fields, links, parents, given, blocks, locals>>

(* Atomic::cmpxchg_ptr(region_top, top_addr(), cur_top) *)
CasGenTop(w) ==
  /\ \/ /\ gen_top = old_top[w]
        /\ Goto(w, "cas_gen_top", "assert_top")
        /\ gen_top' = region_top[w]
     \/ /\ gen_top # old_top[w]
        /\ Goto(w, "cas_gen_top", "read_gen_top")
        /\ UNCHANGED gen_top
  /\ UNCHANGED <<space_top, used, fields, links, parents, given, blocks, locals>>

(* assert(...); return obj *)
AssertTop(w) == Return(w, "assert_top") /\ UNCHANGED heap

-----------------------------------------------------------------------------
Step(w) ==
  \/ PushFirst(w) \/ PushOther(w) \/ ContainerWon(w) \/ ContainerLost(w)
  \/ ReadTop(w) \/ CasTop(w) \/ NextSegment(w) \/ Link(w) \/ SetPrev(w)
  \/ ReadGenTop(w) \/ ReadRegionTop(w) \/ CasGenTop(w) \/ AssertTop(w)

Next ==
  \E w \in Workers :
    \/ StartContainer(w)
    \/ StartElement(w)
    \/ AllocateObject(w)
    \/ Step(w)

Spec == Init /\ [][Next]_vars

(* A worker inside an allocation keeps running: it takes no lock. *)
FairSpec == Spec /\ \A w \in Workers : WF_vars(Step(w))

-----------------------------------------------------------------------------
(* Properties.                                                             *)

Quiet == \A w \in Workers : pc[w] = "idle"

(* No two allocations share a word, whichever workers race for the bump    *)
(* pointers of a space or a segment.                                       *)
BlocksDisjoint ==
  \A a, b \in blocks : a # b => Disjoint(a.addr, a.size, b.addr, b.size)

(* What is allocated for a container lies in its segment, below the        *)
(* segment's top, and a segment's top never passes its hard end.           *)
BlocksInSegment ==
  /\ \A s \in used : seg_start[s] <= seg_top[s] /\ seg_top[s] <= seg_hard_end[s]
  /\ \A b \in blocks : b.seg # NULL =>
       /\ b.seg \in used
       /\ seg_start[b.seg] <= b.addr
       /\ b.addr + b.size <= seg_top[b.seg]

(* Segments are reserved inside their space and apart from each other and  *)
(* from the objects of the general space; cas_allocate_aligned, which      *)
(* rounds its result up after testing for room, stays below the end.       *)
SegmentsApart ==
  /\ \A sp \in Spaces : bottom[sp] <= space_top[sp] /\ space_top[sp] <= end[sp]
  /\ \A s \in used :
       /\ bottom[seg_space[s]] <= seg_start[s]
       /\ seg_start[s] <= seg_hard_end[s]
       /\ seg_hard_end[s] <= space_top[seg_space[s]]
  /\ \A s, t \in used : s # t =>
       seg_hard_end[s] <= seg_start[t] \/ seg_hard_end[t] <= seg_start[s]
  /\ \A s \in used : \A b \in blocks : b.seg = NULL =>
       b.addr + b.size <= seg_start[s] \/ seg_hard_end[s] <= b.addr

(* Segments reachable from the set S by _next_segment. *)
Chained(S) ==
  LET R[n \in 0..Cardinality(Segments)] ==
        IF n = 0 THEN S
        ELSE R[n-1] \cup ({next_segment[s] : s \in R[n-1]} \ {NULL})
  IN  R[Cardinality(Segments)]

(* Racing appends lose no segment: once the workers are quiet the links of *)
(* every chain are inverse to each other, a container is the head of its   *)
(* chain, and a segment in no chain is a container that lost its race and  *)
(* is empty.                                                               *)
ChainsIntact ==
  Quiet =>
    /\ \A s \in used : next_segment[s] # NULL => prev_segment[next_segment[s]] = s
    /\ \A s \in used : prev_segment[s] # NULL => next_segment[prev_segment[s]] = s
    /\ \A s \in parents : prev_segment[s] = NULL
    /\ \A s \in used \ Chained(parents) : seg_top[s] = seg_start[s]

(* The assertion at the end of cas_allocate, "Incorrect push of the        *)
(* space's top": however the workers that push the generation's top pass   *)
(* each other, it covers the object of each when that one returns.         *)
TopCoversObject ==
  \A w \in Workers : pc[w] = "assert_top" =>
    /\ obj[w] <= space_top[0]
    /\ obj[w] + op[w].size <= gen_top

(* Every allocation returns, with memory or with the news that there is    *)
(* none: no worker is kept in a retry loop or a chain walk by the others.  *)
AllocationReturns == \A w \in Workers : pc[w] # "idle" ~> pc[w] = "idle"

(* The general space can be walked object by object up to its top, as      *)
(* MutableSpace::verify does: below top every word belongs to an object, a *)
(* filler or a segment.                                                    *)
OtherSpaceParsable ==
  \A x \in bottom[0]..(space_top[0] - 1) :
    \/ \E b \in blocks : b.addr <= x /\ x < b.addr + b.size
    \/ \E s \in used : seg_start[s] <= x /\ x < seg_hard_end[s]

-----------------------------------------------------------------------------
(* The parts that make the safety properties inductive.                    *)

(* Objects and fillers outside segments lie in the general space, below    *)
(* its top.                                                                *)
ObjectsInSpace ==
  \A b \in blocks : b.seg = NULL =>
    bottom[0] <= b.addr /\ b.addr + b.size <= space_top[0]

(* A worker inside allocate_element or allocate_new_segment holds segments *)
(* that exist, and the room it read for its compare-and-swap is there.     *)
LocalsOK ==
  /\ \A s \in used : next_segment[s] \in used \cup {NULL}
  /\ \A w \in Workers :
       /\ pc[w] \in {"read_top", "cas_top", "next_segment"} =>
            segment[w] \in used /\ cont[w] \in used
       /\ pc[w] = "cas_top" => old_top[w] + op[w].size < seg_end(segment[w])
       /\ pc[w] \in {"push", "push_other"} => op[w].kind = "container" \/ cont[w] \in used
       /\ pc[w] \in {"link", "set_prev"} => segment[w] \in used /\ fresh[w] \in used
       /\ pc[w] = "forward" => fresh[w] \in used

IInv ==
  /\ TypeOK
  /\ SegmentsApart
  /\ BlocksInSegment
  /\ BlocksDisjoint
  /\ ObjectsInSpace
  /\ LocalsOK

(* A worker that pushes the generation's top has its object below the top  *)
(* of the general space, and the tops it compares with were not overtaken. *)
PushesTop ==
  \A w \in Workers :
    /\ pc[w] \in {"read_gen_top", "read_region_top", "cas_gen_top", "assert_top"} =>
         obj[w] + op[w].size <= space_top[0]
    /\ pc[w] \in {"read_region_top", "cas_gen_top"} => old_top[w] <= gen_top
    /\ pc[w] = "cas_gen_top" =>
         old_top[w] < region_top[w] /\ obj[w] + op[w].size <= region_top[w]
    /\ pc[w] = "assert_top" => obj[w] + op[w].size <= gen_top

=============================================================================
