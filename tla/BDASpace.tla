------------------------------ MODULE BDASpace ------------------------------
(***************************************************************************)
(* One bda space over young and full collections: the containers that      *)
(* push_container carves out of it, the regions that know their container, *)
(* the summary phase that decides where a full collection moves live data  *)
(* (summarize_bda_regions), and the cleanup that returns empty containers  *)
(* to the pool (clear_bda_range).                                          *)
(*                                                                         *)
(* Grain: allocation is one step per container (its races are the subject  *)
(* of ContainerAllocation and GenQueue).  A full collection runs in the VM *)
(* thread; the summary takes one step per loop turn.  Addresses are words; *)
(* region 0 lies below the space, so that 0 is no address of the space.    *)
(***************************************************************************)
EXTENDS Containers, Sequences, SequencesExt

CONSTANTS
  RegionSize,     \* ParallelCompactData::RegionSize, words
  SegmentRegions, \* segment_sz / RegionSize
  Regions,        \* regions of the space
  filler,         \* MutableBDASpace::_filler_header_size, words
  Sizes,          \* object sizes for which containers are pushed, words
  ElementSizes,   \* object sizes allocated in an existing container, words
  MaxGCs,         \* bound: full collections in a behaviour
  MaxDead         \* bound: containers a full collection finds without a live word

ASSUME SpaceAssumption ==
  /\ RegionSize \in Nat \ {0} /\ SegmentRegions \in Nat \ {0} /\ Regions \in Nat \ {0}
  /\ filler \in 1..(RegionSize - 1)
  /\ Sizes \subseteq Nat \ {0} /\ ElementSizes \subseteq Nat \ {0}
  /\ MaxGCs \in Nat /\ MaxDead \in Nat

segment_sz == SegmentRegions * RegionSize
region_to_addr(i) == i * RegionSize
addr_to_region_idx(a) == a \div RegionSize
bottom == region_to_addr(1)
end    == region_to_addr(Regions + 1)
(* The region behind the space belongs to the next one. *)
RegionIdx == 1..(Regions + 1)

VARIABLES
  h,              \* container structs and the queues of the space
  region,         \* RegionData::_container of every region
  top,            \* top of the space
  last_segment,   \* CGRPSpace::_last_segment
  scavenge,       \* a young collection has just saved the tops
  gcs,            \* full collections so far
  \* the full collection
  gc,             \* its phase and the locals of its loops
  live,           \* RegionData::data_size of every region, words
  data,           \* the rest of RegionData that the summary computes
  empties,        \* EmptyRegionData, from _empty_region_idx to _next_append
  target_next,    \* the new top of the space
  assertion       \* the assertion of the code that failed, or "none"

vars == <<h, region, top, last_segment, scavenge, gcs, gc, live, data, empties,
          target_next, assertion>>
summary == <<gc, live, data, empties, target_next>>

Phases == {"idle", "loop", "source", "segments", "clear_other", "clear"}
Locals == [phase : Phases, cur : Nat, source : StructOrNull, target : StructOrNull,
           target_region : Nat, dest : Nat, available : Nat, segment : StructOrNull]
Idle == [phase |-> "idle", cur |-> 0, source |-> NULL, target |-> NULL, target_region |-> 0,
         dest |-> 0, available |-> 0, segment |-> NULL]

(* destination is 0 and source_region is 0 as long as they are not set. *)
RegionData == [destination : [RegionIdx -> 0..end], count : [RegionIdx -> 0..2],
               source_region : [RegionIdx -> 0..Regions], scanned : [RegionIdx -> BOOLEAN]]
ClearData == [destination |-> [r \in RegionIdx |-> 0], count |-> [r \in RegionIdx |-> 0],
              source_region |-> [r \in RegionIdx |-> 0], scanned |-> [r \in RegionIdx |-> FALSE]]
NothingLive == [r \in RegionIdx |-> 0]

TypeOK ==
  /\ h \in Heap
  /\ region \in [RegionIdx -> StructOrNull]
  /\ top \in bottom..end
  /\ last_segment \in StructOrNull
  /\ scavenge \in BOOLEAN
  /\ gcs \in 0..MaxGCs
  /\ gc \in Locals
  /\ live \in [RegionIdx -> 0..RegionSize]
  /\ data \in RegionData
  /\ empties \in Seq(RegionIdx)
  /\ target_next \in 0..end
  /\ assertion \in STRING

Init ==
  /\ h = EmptyHeap
  /\ region = [r \in RegionIdx |-> NULL]
  /\ top = bottom
  /\ last_segment = NULL
  /\ scavenge = FALSE
  /\ gcs = 0
  /\ gc = Idle
  /\ live = NothingLive
  /\ data = ClearData
  /\ empties = <<>>
  /\ target_next = 0
  /\ assertion = "none"

(* The program goes on: no pointer was null and no assertion failed. *)
Running == ~ h.crash /\ assertion = "none"

-----------------------------------------------------------------------------
(* Allocation, during a young collection                                   *)

reserved_sz(size) ==
  IF size > segment_sz THEN ((size + segment_sz - 1) \div segment_sz) * segment_sz ELSE segment_sz

(* setup_container, and install_bda_container, which gives the container   *)
(* to the regions from its start to its end.                               *)
setup(heap, el, ptr, reserved, size) ==
  [heap EXCEPT !.c[el] = [Zeroed EXCEPT !.start = ptr, !.top = ptr + size,
                            !.hard_end = ptr + reserved, !.end = ptr + reserved - filler]]

install(map, el, first, last) ==
  [r \in RegionIdx |-> IF addr_to_region_idx(first) <= r /\ r <= addr_to_region_idx(last)
                         THEN el ELSE map[r]]

(* The struct for the words from ptr on: the one its regions know from an  *)
(* earlier life, or "new".  NULL when the adjacent region never had one.   *)
struct_for(ptr, reserved) ==
  LET container == region[addr_to_region_idx(ptr)]
      temp      == region[addr_to_region_idx(ptr + reserved - 1)]
  IN  IF container = NULL THEN "new"
      ELSE IF h.c[container].start = ptr THEN container
      ELSE IF temp # container THEN temp ELSE "new"

(* The structs push_container frees: those of the segments in between. *)
freed_by(ptr, reserved, container) ==
  LET between == [k \in 1..((reserved \div segment_sz) - 1) |->
                    region[addr_to_region_idx(ptr + k * segment_sz)]]
      kept == {container, region[addr_to_region_idx(ptr)], region[addr_to_region_idx(ptr + reserved)]}
  IN  SelectSeq(between, LAMBDA s : s \notin kept)

(* AllocateHeap; which struct it returns makes no difference. *)
fresh == CHOOSE s \in Structs \ h.malloced : TRUE

(* push_container of a bda space, for the struct el that it uses *)
CanPush(size, el) ==
  LET chosen == struct_for(top, reserved_sz(size))
  IN  /\ top + reserved_sz(size) <= end
      /\ IF chosen = "new" THEN h.malloced # Structs /\ el = fresh ELSE el = chosen

pushed(size, el) ==
  LET reserved == reserved_sz(size)
      known    == region[addr_to_region_idx(top)]
      reused   == IF known = NULL THEN h
                  ELSE FoldLeft(free_container, phantom_remove(h, "pool"),
                                freed_by(top, reserved, el))
  IN  IF el = NULL THEN Crash(h)
      ELSE enqueue(setup([reused EXCEPT !.malloced = @ \cup {el}], el, top, reserved, size),
                   "containers", el)

Reserve(size, el) ==
  /\ region' = install(region, el, top, top + reserved_sz(size) - filler)
  /\ top' = top + reserved_sz(size)

(* Containers in use: known to a region below the top, and not pooled. *)
InUse == {s \in {region[r] : r \in 1..(addr_to_region_idx(top) - 1)} : s # NULL /\ ~ h.c[s].masked}

Allocating == Running /\ gc.phase = "idle"

(* allocate_container: a container for a new bda object *)
AllocateContainer ==
  /\ Allocating
  /\ \E size \in Sizes, el \in StructOrNull :
       /\ CanPush(size, el)
       /\ h' = pushed(size, el)
       /\ Reserve(size, el)
  /\ scavenge' = FALSE
  /\ UNCHANGED <<last_segment, gcs, summary, assertion>>

(* allocate_element in the segment c, when there is room *)
HasRoom(c, size) == h.c[c].top + size < h.c[c].end

AllocateElement ==
  /\ Allocating
  /\ \E c \in InUse, size \in ElementSizes :
       /\ HasRoom(c, size)
       /\ h' = [h EXCEPT !.c[c].top = @ + size]
  /\ scavenge' = FALSE
  /\ UNCHANGED <<region, top, last_segment, gcs, summary, assertion>>

(* The chain from c on has no room; its last segment decides the space. *)
Full(c, size) == \A s \in Along(h, "next_segment", c) : ~ HasRoom(s, size)
EndsOutside(c) == \E s \in Along(h, "next_segment", c) : h.c[s].other

(* allocate_element when the chain of c is full: push a container and link *)
(* it at the end of the chain.                                             *)
AllocateSegment ==
  /\ Allocating
  /\ \E size \in Sizes, c \in InUse, el \in StructOrNull :
       /\ Full(c, size)
       /\ ~ EndsOutside(c)
       /\ CanPush(size, el)
       /\ h' = IF el = NULL THEN Crash(h) ELSE append_segment(pushed(size, el), c, el)
       /\ Reserve(size, el)
  /\ scavenge' = FALSE
  /\ UNCHANGED <<last_segment, gcs, summary, assertion>>

(* The same in the general space, when this one has no room or the chain   *)
(* already ends there: the segment is known to no region of this space.    *)
AllocateOtherSegment ==
  /\ Allocating
  /\ h.malloced # Structs
  /\ \E size \in Sizes, c \in InUse :
       /\ Full(c, size)
       /\ top + reserved_sz(size) > end \/ EndsOutside(c)
       /\ h' = append_segment([h EXCEPT !.malloced = @ \cup {fresh},
                                       !.c[fresh] = [Zeroed EXCEPT !.other = TRUE]], c, fresh)
  /\ scavenge' = FALSE
  /\ UNCHANGED <<region, top, last_segment, gcs, summary, assertion>>

(* Fault: the scan is told the first container instead of the last. *)
SaveTops_First(heap) ==
  last_segment' = heap.containers.remove_end /\ h' = save_top_ptrs(heap)

(* save_top_ptrs: nothing is saved when container_count() is 0. *)
SaveTops(heap) ==
  IF heap.containers.n_elements > 0
    THEN last_segment' = heap.containers.insert_end /\ h' = save_top_ptrs(heap)
    ELSE last_segment' = NULL /\ h' = heap

(* The start of a young collection: the old-to-young tasks are queued and  *)
(* the tops saved unless the space is empty.                               *)
BeginScavenge ==
  /\ Allocating
  /\ ~ scavenge
  /\ top > bottom
  /\ SaveTops(h)
  /\ scavenge' = TRUE
  /\ UNCHANGED <<region, top, gcs, summary, assertion>>

-----------------------------------------------------------------------------
(* The summary phase: summarize_bda_regions                                *)

Regs(c) == addr_to_region_idx(h.c[c].start)..(addr_to_region_idx(h.c[c].hard_end) - 1)
Ascending(S) == SetToSortSeq(S, <)
live_in(S) == FoldSet(LAMBDA r, sum : sum + live[r], 0, S)

(* The words of region r below the top of its container *)
used_in(r) == LET t == h.c[region[r]].top
              IN  IF t <= region_to_addr(r) THEN 0
                  ELSE IF t >= region_to_addr(r + 1) THEN RegionSize ELSE t - region_to_addr(r)

(* What marking can find, region by region: any part of what is used.  A   *)
(* container larger than a segment holds one object, found (1) or not (0). *)
IsLarge(r) == Cardinality(Regs(region[r])) > SegmentRegions
MostUsed == Max({1} \cup {used_in(r) : r \in {q \in 1..(addr_to_region_idx(top) - 1) : ~ IsLarge(q)}})

Markings ==
  {m \in [1..(addr_to_region_idx(top) - 1) -> 0..MostUsed] :
     /\ \A r \in DOMAIN m :
          IF IsLarge(r) THEN m[r] <= 1 /\ \A q \in Regs(region[r]) : m[q] = m[r]
          ELSE m[r] <= used_in(r)
     /\ Cardinality({c \in InUse : \A r \in Regs(c) : m[r] = 0}) <= MaxDead}

BeginFullGC ==
  /\ Allocating
  /\ top > bottom
  /\ gcs < MaxGCs
  /\ \E m \in Markings :
       live' = [r \in RegionIdx |-> IF r \notin DOMAIN m THEN 0
                                    ELSE IF IsLarge(r) THEN m[r] * used_in(r) ELSE m[r]]
  /\ gc' = [Idle EXCEPT !.phase = "loop", !.cur = 1]
  /\ data' = ClearData
  /\ empties' = <<>>
  /\ target_next' = bottom
  /\ gcs' = gcs + 1
  /\ scavenge' = FALSE
  /\ UNCHANGED <<h, region, top, last_segment, assertion>>

InLoop == Running /\ gc.phase = "loop" /\ gc.cur < addr_to_region_idx(top)

empty(c) == h.c[c].start = h.c[c].top

(* An assertion of the code fails: the debug build stops. *)
Fails(message) ==
  /\ assertion' = message
  /\ UNCHANGED <<h, region, top, last_segment, scavenge, gcs, summary>>

(* A region that an earlier turn dealt with: remember the segment if it is *)
(* empty now.                                                              *)
SkipScanned ==
  /\ InLoop
  /\ data.scanned[gc.cur]
  /\ LET segment == region[gc.cur]
     IN  empties' = IF empty(segment) /\ addr_to_region_idx(h.c[segment].start) = gc.cur
                      THEN Append(empties, gc.cur) ELSE empties
  /\ gc' = [gc EXCEPT !.cur = @ + 1]
  /\ UNCHANGED <<h, region, top, last_segment, scavenge, gcs, live, data, target_next, assertion>>

(* The target of this turn: the first empty container, or the source.      *)
first_target == IF empties = <<>> THEN gc.cur ELSE Head(empties)
other_empties == IF empties = <<>> THEN <<>> ELSE Tail(empties)
size_of(c) == h.c[c].end - h.c[c].start
regions_from(c, r) == addr_to_region_idx(h.c[c].hard_end) - r

(* The source is larger than the target and its data does not fit. *)
Overflows ==
  LET source == region[gc.cur]
      target == region[first_target]
      n == regions_from(source, gc.cur)
  IN  /\ n > regions_from(target, first_target)
      /\ live_in(gc.cur..(gc.cur + n - 1)) > size_of(target)

(* has_empty_region(n): the difference is a size_t, huge when negative *)
has_empty_region(s, n) ==
  s # <<>> /\ (Last(s) < Head(s) \/ Last(s) - Head(s) >= n)

(* Fault: live data is added behind what the target holds. *)
Target_FromTop(heap, map, c, r) ==
  /\ h' = heap
  /\ region' = map
  /\ gc' = [gc EXCEPT !.phase = "source", !.source = map[gc.cur], !.target = c,
                      !.target_region = r, !.dest = heap.c[c].top]
  /\ UNCHANGED <<top, last_segment, scavenge, gcs, live, data, target_next, assertion>>

(* The end of the choice: the turn has its source and its target. *)
Target(heap, map, c, r) ==
  /\ h' = heap
  /\ region' = map
  /\ gc' = [gc EXCEPT !.phase = "source", !.source = map[gc.cur], !.target = c,
                      !.target_region = r, !.dest = region_to_addr(r)]
  /\ UNCHANGED <<top, last_segment, scavenge, gcs, live, data, target_next, assertion>>

StartTurn == InLoop /\ ~ data.scanned[gc.cur]
InSegments == Running /\ gc.phase = "segments"

(* add_to_pool reset the struct: addr_to_region_idx of its _hard_end, at   *)
(* the start of a turn or in the segment loop, is that of a null address.  *)
WasReset(c) == h.c[c].hard_end = 0 /\ ~ h.c[c].other

MeetReset ==
  /\ StartTurn \/ (InSegments /\ gc.segment # NULL)
  /\ WasReset(IF gc.phase = "loop" THEN region[gc.cur] ELSE gc.segment)
  /\ Fails("bad addr")

Choosing == StartTurn /\ ~ WasReset(region[gc.cur])

TakeTarget ==
  /\ Choosing
  /\ ~ Overflows
  /\ Target(h, region, region[first_target], first_target)
  /\ empties' = other_empties

(* Take as many further empty containers as the source needs and stretch   *)
(* the target to the end of the last one.                                  *)
MergeEmpties ==
  LET source == region[gc.cur]
      target == region[first_target]
      needed == regions_from(source, gc.cur) - regions_from(target, first_target)
      got(k) == FoldSet(LAMBDA i, sum : sum + regions_from(region[other_empties[i]], other_empties[i]),
                        0, 1..k)
      Enough == {k \in 1..Len(other_empties) : got(k) >= needed}
      k      == CHOOSE i \in Enough : \A j \in Enough : i <= j
      middle == region[other_empties[k]]
      failed == IF Enough = {} THEN "removing empty region without appending"
                ELSE IF \E i \in 1..k : ~ empty(region[other_empties[i]])
                THEN "should not be possible" ELSE "none"
  IN  /\ Choosing
      /\ Overflows
      /\ has_empty_region(other_empties, needed)
      /\ IF failed # "none" THEN Fails(failed)
         ELSE /\ Target([h EXCEPT !.c[target].hard_end = h.c[middle].hard_end,
                                 !.c[target].end = h.c[middle].end],
                        install(region, target, h.c[target].start, h.c[middle].end),
                        target, first_target)
              /\ empties' = SubSeq(other_empties, k + 1, Len(other_empties))

(* Too few empty containers: the source is compacted onto itself. *)
CompactInPlace ==
  /\ Choosing
  /\ Overflows
  /\ ~ has_empty_region(other_empties, regions_from(region[gc.cur], gc.cur)
                                         - regions_from(region[first_target], first_target))
  /\ Target(h, region, region[gc.cur], gc.cur)
  /\ UNCHANGED empties

(* The live words of region r get the next addresses from w.dest on; r is  *)
(* the source region of a region whose first word they reach.              *)
dest_region_1(w) == addr_to_region_idx(w.dest)
dest_region_2(w, r) == addr_to_region_idx(w.dest + live[r] - 1)

(* Fault: only a region that the data crosses into gets its source. *)
SetsSource_Crossing(w, r) == live[r] > 0 /\ dest_region_1(w) # dest_region_2(w, r)

SetsSource(w, r) ==
  live[r] > 0 /\ (dest_region_1(w) # dest_region_2(w, r) \/ w.dest % RegionSize = 0)

described(w, r) ==
  LET sent == [w.data EXCEPT !.destination[r] = w.dest, !.scanned[r] = TRUE,
                 !.count[r] = IF live[r] = 0 THEN 0
                              ELSE (IF r = dest_region_2(w, r) THEN 0 ELSE 1)
                                 + (IF dest_region_1(w) = dest_region_2(w, r) THEN 0 ELSE 1)]
  IN  IF SetsSource(w, r) THEN [sent EXCEPT !.source_region[dest_region_2(w, r)] = r] ELSE sent

place(w, r) == [dest |-> w.dest + live[r], data |-> described(w, r)]

Place(rs) == FoldLeft(place, [dest |-> gc.dest, data |-> data], rs)

(* The regions of the source *)
SummarizeSource ==
  LET n == regions_from(gc.source, gc.cur)
      w == Place([i \in 1..n |-> gc.cur + i - 1])
      source_live == w.dest - gc.dest
  IN  /\ Running
      /\ gc.phase = "source"
      /\ data' = w.data
      /\ IF size_of(gc.target) >= source_live
           THEN /\ gc' = [gc EXCEPT !.phase = "segments", !.dest = w.dest,
                                   !.available = size_of(gc.target) - source_live,
                                   !.segment = h.c[gc.source].next_segment]
                /\ UNCHANGED assertion
           ELSE /\ assertion' = "overflow of size_t"
                /\ UNCHANGED gc
      /\ UNCHANGED <<h, region, top, last_segment, scavenge, gcs, live, empties, target_next>>

(* One turn of the segment loop *)
Visiting == InSegments /\ gc.segment # NULL /\ ~ WasReset(gc.segment)

(* The segment is in the general space, does not fit, or was dealt with. *)
Unscanned(c) == {r \in Regs(c) : ~ data.scanned[r]}
Claimable(c) ==
  /\ ~ h.c[c].other
  /\ live_in(Regs(c)) <= gc.available
  /\ Unscanned(c) # {}

(* Fault: the loop goes on with the same segment. *)
SkipSegment_Stays ==
  /\ Visiting
  /\ ~ Claimable(gc.segment)
  /\ UNCHANGED vars

SkipSegment ==
  /\ Visiting
  /\ ~ Claimable(gc.segment)
  /\ gc' = [gc EXCEPT !.segment = h.c[gc.segment].next_segment]
  /\ UNCHANGED <<h, region, top, last_segment, scavenge, gcs, live, data, empties, target_next, assertion>>

(* The segment moves into the target, is empty now and leaves the chain. *)
ClaimSegment ==
  LET c == gc.segment
      prev == h.c[c].prev_segment
      w == Place(Ascending(Unscanned(c)))
      emptied == [h EXCEPT !.c[c].top = h.c[c].start]
  IN  /\ Visiting
      /\ Claimable(c)
      /\ IF prev = NULL
           THEN /\ assertion' = "should have jumped a segment to reach here"
                /\ UNCHANGED <<h, gc, data>>
           ELSE /\ h' = [leave_chain(emptied, c) EXCEPT !.c[c].prev_segment = NULL,
                                                       !.c[c].next_segment = NULL]
                /\ data' = w.data
                /\ gc' = [gc EXCEPT !.dest = w.dest, !.available = @ - (w.dest - gc.dest),
                                   !.segment = h.c[c].next_segment]
                /\ UNCHANGED assertion
      /\ UNCHANGED <<region, top, last_segment, scavenge, gcs, live, empties, target_next>>

(* The target takes the place of the source in its chain of segments. *)
relink(heap, target, source) ==
  LET succ == heap.c[source].next_segment
      prev == heap.c[source].prev_segment
      h1 == [heap EXCEPT !.c[target].next_segment = succ, !.c[target].prev_segment = prev]
      h2 == IF succ = NULL THEN h1 ELSE [h1 EXCEPT !.c[succ].prev_segment = target]
  IN  IF target = source THEN heap
      ELSE IF h2.c[target].prev_segment = NULL THEN h2
      ELSE [h2 EXCEPT !.c[h2.c[target].prev_segment].next_segment = target]

(* Something was promoted into another container: the source is empty now. *)
Promoted == gc.dest # h.c[gc.target].start

(* Fault: the source is not seen to be depleted. *)
Depleted_Never == FALSE

Depleted == Promoted /\ gc.target_region # gc.cur

(* Fault: the region is offered as empty whatever is in it. *)
Emptied_Always == TRUE

Emptied == ~ Promoted \/ Depleted

(* The rest of the turn: the top of the target, the empty containers, the  *)
(* links between segments and the new top of the space.                    *)
FinishTurn ==
  LET topped == [h EXCEPT !.c[gc.target].top = gc.dest]
      left == IF ~ Promoted /\ gc.target_region # gc.cur THEN <<gc.target_region>> \o empties
              ELSE empties
  IN  /\ InSegments
      /\ gc.segment = NULL
      /\ h' = relink(IF Depleted THEN [topped EXCEPT !.c[gc.source].top = h.c[gc.source].start]
                     ELSE topped, gc.target, gc.source)
      /\ empties' = IF Emptied THEN Append(left, gc.cur) ELSE left
      /\ target_next' = IF target_next < gc.dest THEN gc.dest ELSE target_next
      /\ gc' = [Idle EXCEPT !.phase = "loop", !.cur = gc.cur + regions_from(gc.source, gc.cur)]
      /\ UNCHANGED <<region, top, last_segment, scavenge, gcs, live, data, assertion>>

(* Fault: the new top is the end of the live data. *)
new_top_Unaligned(last_region) == target_next

(* The new top is the end of the last container in use. *)
new_top(last_region) == h.c[region[last_region]].hard_end

EndSummary ==
  LET last_region == addr_to_region_idx(target_next)
  IN  /\ Running
      /\ gc.phase = "loop"
      /\ gc.cur >= addr_to_region_idx(top)
      /\ IF target_next = bottom
           THEN UNCHANGED <<h, target_next, assertion>>
           ELSE IF data.destination[last_region] = 0
           THEN assertion' = "wrong last region ptr" /\ UNCHANGED <<h, target_next>>
           ELSE target_next' = new_top(last_region) /\ UNCHANGED <<h, assertion>>
      /\ gc' = [Idle EXCEPT !.phase = "clear_other"]
      /\ UNCHANGED <<region, top, last_segment, scavenge, gcs, live, data, empties>>

-----------------------------------------------------------------------------
(* Cleanup: clear_data_covering_space, the general space first             *)

(* clear_delete_containers of the general space: every one of its segments *)
(* leaves its chain and goes to the pool of that space.                    *)
delete(heap, s) == [leave_chain(heap, s) EXCEPT !.c[s] = [Zeroed EXCEPT !.other = TRUE]]

ClearOther ==
  /\ Running
  /\ gc.phase = "clear_other"
  /\ h' = FoldLeft(delete, h, SetToSeq({s \in Structs : h.c[s].other}))
  /\ gc' = [Idle EXCEPT !.phase = "clear", !.cur = 1]
  /\ UNCHANGED <<region, top, last_segment, scavenge, gcs, live, data, empties, target_next, assertion>>

(* clear_bda_range, one region at a time: the struct of a region that      *)
(* turned out empty goes to the pool.                                      *)
max_top == IF top < target_next THEN target_next ELSE top
InClear == Running /\ gc.phase = "clear"

ClearRegion ==
  LET c == region[gc.cur]
  IN  /\ InClear
      /\ gc.cur < addr_to_region_idx(max_top)
      /\ h' = IF c = NULL THEN Crash(h) ELSE IF empty(c) THEN add_to_pool(h, c) ELSE h
      /\ gc' = [gc EXCEPT !.cur = @ + 1]
      /\ UNCHANGED <<region, top, last_segment, scavenge, gcs, live, data, empties, target_next, assertion>>

(* save_top_ptrs and publish_new_top *)
EndFullGC ==
  /\ InClear
  /\ gc.cur >= addr_to_region_idx(max_top)
  /\ SaveTops(h)
  /\ top' = target_next
  /\ gc' = Idle
  /\ live' = NothingLive
  /\ data' = ClearData
  /\ empties' = <<>>
  /\ target_next' = 0
  /\ UNCHANGED <<region, scavenge, gcs, assertion>>

-----------------------------------------------------------------------------
FullGC ==
  \/ SkipScanned \/ MeetReset \/ TakeTarget \/ MergeEmpties \/ CompactInPlace
  \/ SummarizeSource \/ SkipSegment \/ ClaimSegment \/ FinishTurn
  \/ EndSummary \/ ClearOther \/ ClearRegion \/ EndFullGC

Next ==
  \/ AllocateContainer \/ AllocateSegment \/ AllocateOtherSegment \/ AllocateElement
  \/ BeginScavenge \/ BeginFullGC \/ FullGC

Spec == Init /\ [][Next]_vars

(* The VM thread runs a full collection without waiting for anyone. *)
FairSpec == Spec /\ WF_vars(FullGC)

-----------------------------------------------------------------------------
(* Properties                                                              *)

Summarized == Running /\ gc.phase = "clear_other"
Moving == {r \in RegionIdx : data.scanned[r] /\ live[r] > 0}
MovesTo(r) == data.destination[r]..(data.destination[r] + live[r] - 1)

(* No word of the space is the destination of two live words: the summary  *)
(* never gives an address twice, however targets and segments were chosen. *)
DestinationsDisjoint ==
  \A r, q \in Moving : r # q => MovesTo(r) \cap MovesTo(q) = {}

(* Live data moves to lower addresses or stays (the assertion of           *)
(* check_new_location): a destination is never a region still to be read.  *)
MovesLeft == \A r \in Moving : data.destination[r] <= region_to_addr(r)

(* After the summary live data lies below the top of one container and     *)
(* below the new top of the space.                                         *)
Kept(c) == {r \in Moving : h.c[c].start <= data.destination[r] /\ data.destination[r] < h.c[c].hard_end}

InContainer ==
  Summarized =>
    \A r \in Moving : \E c \in InUse :
      /\ r \in Kept(c)
      /\ data.destination[r] + live[r] <= h.c[c].top
      /\ h.c[c].top <= h.c[c].hard_end
      /\ h.c[c].hard_end <= target_next

(* After the summary the top of every container is where its live data     *)
(* ends, so no later phase has to update it.                               *)
TopsSet ==
  Summarized => \A c \in InUse : h.c[c].top - h.c[c].start = live_in(Kept(c))

(* The source region recorded for a destination region is the one whose    *)
(* data arrives at its first word: filling the region starts there.        *)
SourceRegionFirst ==
  Summarized =>
    \A r \in Moving, d \in RegionIdx :
      region_to_addr(d) \in MovesTo(r) => data.source_region[d] = r

(* Between collections the queue of containers holds the containers that   *)
(* regions know and that are not pooled, and nothing else, from both ends. *)
Known == {s \in {region[r] : r \in RegionIdx} : s # NULL /\ ~ h.c[s].masked}

QueueSound ==
  Allocating =>
    /\ Iterated(h, "containers") = Known
    /\ Along(h, "previous", h.containers.insert_end) = Known

(* A young collection scans every container that was in use when it began. *)
ScansEveryContainer ==
  Running /\ scavenge => Along(h, "previous", last_segment) = InUse

(* Up to the end of the first full collection of a space no assertion of   *)
(* the summary fails and no null pointer is followed, by the summary, the  *)
(* cleanup or the allocations around them.                                 *)
NoAssertionFails == gcs <= 1 => Running

(* A full collection comes to its end, unless an assertion stops it: the   *)
(* loop over a chain of segments never goes round.                         *)
FullGCEnds == (gc.phase # "idle") ~> (gc.phase = "idle" \/ ~ Running)
=============================================================================
