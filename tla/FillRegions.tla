---------------------------- MODULE FillRegions ----------------------------
(***************************************************************************)
(* The compaction phase of a full collection in one space: workers fill    *)
(* the regions below the new top with live words, count down the regions   *)
(* they take words from, and claim a region when nothing in it has still   *)
(* to be moved elsewhere (PSParallelCompact::fill_region,                  *)
(* decrement_destination_counts, next_src_region).                         *)
(*                                                                         *)
(* The space is the general one, which compacts into itself, or a bda      *)
(* space (bda), in which every container is filled from its start with the *)
(* data of some regions.  Its plan is any that has the properties BDASpace *)
(* checks of the summary phase: DestinationsDisjoint, InContainer, TopsSet *)
(* and MovesLeft.                                                          *)
(*                                                                         *)
(* Grain: one step per source region copied and per access to the          *)
(* destination count of a region.  Objects are single words.  The stacks   *)
(* of regions are one set: a worker drains its own and steals from others. *)
(* Region 0 lies below the space.                                          *)
(***************************************************************************)
EXTENDS Integers, FiniteSets, FiniteSetsExt

CONSTANTS
  Workers,
  RegionSize,       \* words
  ContainerRegions, \* regions of a container
  Containers        \* containers of the space

ASSUME FillAssumption ==
  RegionSize \in Nat \ {0} /\ ContainerRegions \in Nat \ {0} /\ Containers \in Nat \ {0}

Regions == 1..(ContainerRegions * Containers)
region_to_addr(r) == r * RegionSize
addr_to_region_idx(a) == a \div RegionSize
WordsOf(r) == region_to_addr(r)..(region_to_addr(r + 1) - 1)
Words == UNION {WordsOf(r) : r \in Regions}

(* RegionData::_destination_count: a count, or dc_claimed or dc_completed *)
dc_claimed == 8
dc_completed == 9

VARIABLES
  bda,         \* whether it is a bda space
  live,        \* the live words
  destination, \* RegionData::_destination of the regions with live words
  source_region, \* RegionData::_source_region, 0 when it was not set
  top,         \* new tops of the containers (bda), or of the space
  enqueue_end, \* one past the last region that is filled
  mem,         \* the word whose content is at an address
  dc,          \* destination counts
  ready,       \* regions on the stacks
  pc, cur      \* workers

plan == <<bda, live, destination, source_region, top, enqueue_end>>
vars == <<plan, mem, dc, ready, pc, cur>>

-----------------------------------------------------------------------------
(* What the summary phase left                                             *)

data(r) == live \cap WordsOf(r)
data_size(r) == Cardinality(data(r))
Sources == {r \in Regions : data_size(r) > 0}
dest_end(r) == destination[r] + data_size(r)
MovesTo(r) == destination[r]..(dest_end(r) - 1)

(* Live words of a region are numbered from 0, and moved in this order. *)
rank(a) == Cardinality({b \in data(addr_to_region_idx(a)) : b < a})
word_at(r, k) == CHOOSE a \in data(r) : rank(a) = k
new_addr(a) == destination[addr_to_region_idx(a)] + rank(a)

Numbers == 0..(Containers - 1)
container(r) == (r - 1) \div ContainerRegions
container_start(c) == region_to_addr(c * ContainerRegions + 1)
start_of(r) == container_start(container(r))
SpaceStart == region_to_addr(1)
is_in_container(r, addr) == start_of(r) <= addr /\ addr <= top[container(r)]

dest_region_1(r) == addr_to_region_idx(destination[r])
dest_region_2(r) == addr_to_region_idx(dest_end(r) - 1)

(* Fault: data that crosses a region counts for one destination. *)
destination_count_NoCrossing(r) ==
  IF r \notin Sources THEN 0 ELSE IF r = dest_region_2(r) THEN 0 ELSE 1

destination_count(r) ==
  IF r \notin Sources THEN 0
  ELSE (IF r = dest_region_2(r) THEN 0 ELSE 1)
         + (IF dest_region_1(r) = dest_region_2(r) THEN 0 ELSE 1)

(* The regions whose data arrives at the first word of region d *)
SetsSource(d) ==
  {r \in Sources : dest_region_2(r) = d /\ (dest_region_1(r) # d \/ destination[r] % RegionSize = 0)}

(* ParallelCompactData::summarize of the general space: the data of a      *)
(* region goes behind that of the region with data before it.              *)
NextSource(q, r) == q < r /\ \A p \in Sources : p <= q \/ r <= p
LastSource == CHOOSE r \in Sources : \A q \in Sources : q <= r

Compacts ==
  /\ \A r \in Sources : (\A q \in Sources : r <= q) => destination[r] = SpaceStart
  /\ \A q, r \in Sources : NextSource(q, r) => destination[r] = dest_end(q)
  /\ top = [c \in Numbers |-> IF Sources = {} THEN SpaceStart ELSE dest_end(LastSource)]
  /\ enqueue_end = addr_to_region_idx(top[0] + RegionSize - 1)

(* The plans of a bda space: data of a region goes to one container, moves *)
(* left, and containers are filled from their start without a gap.  The    *)
(* new top of the space is the end of the last container in use.           *)
MovesInto(c) == UNION {MovesTo(r) : r \in {r \in Sources : container(dest_region_1(r)) = c}}

FillsContainers ==
  /\ \A r \in Sources : /\ destination[r] <= region_to_addr(r)
                        /\ container(dest_region_1(r)) = container(dest_region_2(r))
  /\ \A r, q \in Sources : r # q => MovesTo(r) \cap MovesTo(q) = {}
  /\ top = [c \in Numbers |-> container_start(c) + Cardinality(MovesInto(c))]
  /\ \A c \in Numbers : MovesInto(c) = container_start(c)..(top[c] - 1)
  /\ enqueue_end = IF live = {} THEN 1
                   ELSE (Max({container(dest_region_1(r)) : r \in Sources}) + 1) * ContainerRegions + 1

(* Workers *)
NoRegion == [region |-> 0, src |-> 0, skip |-> 0, dest |-> 0, counts |-> FALSE]

TypeOK ==
  /\ bda \in BOOLEAN /\ live \subseteq Words /\ destination \in [Sources -> Words]
  /\ source_region \in [Regions -> 0..Max(Regions)]
  /\ top \in [Numbers -> Words \cup {Max(Words) + 1}] /\ enqueue_end \in 1..(Max(Regions) + 1)
  /\ mem \in [Words -> Words]
  /\ dc \in [Regions -> 0..2 \cup {dc_claimed, dc_completed}]
  /\ ready \subseteq Regions
  /\ pc \in [Workers -> {"idle", "copy", "check", "decrement", "claim", "complete"}]
  /\ cur \in [Workers -> [region : 0..Max(Regions), src : 0..Max(Regions), skip : 0..RegionSize,
                          dest : 0..(Max(Words) + 1), counts : BOOLEAN]]

(* The counts of the summary, and enqueue_region_draining_tasks: regions   *)
(* with count 0 are claimed and pushed.                                    *)
Init ==
  /\ bda \in BOOLEAN
  /\ live \in SUBSET Words
  /\ destination \in [Sources -> Words]
  /\ IF bda THEN FillsContainers ELSE Compacts
  /\ source_region = [d \in Regions |-> IF SetsSource(d) = {} THEN 0
                                     ELSE CHOOSE r \in SetsSource(d) : TRUE]
  /\ mem = [a \in Words |-> a]
  /\ ready = {r \in Regions : r < enqueue_end /\ destination_count(r) = 0}
  /\ dc = [r \in Regions |-> IF r \in ready THEN dc_claimed ELSE destination_count(r)]
  /\ pc = [w \in Workers |-> "idle"]
  /\ cur = [w \in Workers |-> NoRegion]

-----------------------------------------------------------------------------
(* Filling a region                                                        *)

(* Where the data for region r ends *)
limit(r) == Min({top[container(r)], region_to_addr(r + 1)})

(* A region above the top of its container is done at once. *)
NothingToFill(r) ==
  /\ bda
  /\ \/ top[container(r)] <= region_to_addr(r)
     \/ source_region[r] = 0
     \/ ~ is_in_container(r, destination[source_region[r]])

(* The first source of region r.  The count of a region that is copied to  *)
(* itself is not decremented.                                              *)
self_copied(r) ==
  source_region[r] = r /\ (bda => r + 1 \in Regions /\ container(r + 1) = container(r))

(* The number of its words that go to the region before *)
first_src_addr(r) == region_to_addr(r) - destination[source_region[r]]

(* drain_region_stacks, steal: take a region *)
TakeRegion(w) ==
  /\ pc[w] = "idle"
  /\ \E r \in ready :
       /\ ready' = ready \ {r}
       /\ IF NothingToFill(r)
            THEN dc' = [dc EXCEPT ![r] = dc_completed] /\ UNCHANGED <<pc, cur>>
            ELSE /\ cur' = [cur EXCEPT ![w] =
                             [region |-> r, src |-> source_region[r], dest |-> region_to_addr(r),
                              skip |-> first_src_addr(r), counts |-> ~ self_copied(r)]]
                 /\ pc' = [pc EXCEPT ![w] = "copy"]
                 /\ UNCHANGED dc
  /\ UNCHANGED <<plan, mem>>

(* MoveAndUpdateClosure: live words of the source region until its end, or *)
(* until the region is full                                                *)
Copy(w) ==
  LET c == cur[w]
      n == Min({data_size(c.src) - c.skip, limit(c.region) - c.dest})
  IN  /\ pc[w] = "copy"
      /\ mem' = [a \in Words |-> IF c.dest <= a /\ a < c.dest + n
                                   THEN mem[word_at(c.src, c.skip + a - c.dest)] ELSE mem[a]]
      /\ cur' = [cur EXCEPT ![w] = [c EXCEPT !.dest = c.dest + n]]
      /\ pc' = [pc EXCEPT ![w] = IF c.counts THEN "check"
                                 ELSE IF c.dest + n = limit(c.region) THEN "complete" ELSE "claim"]
      /\ UNCHANGED <<plan, dc, ready>>

(* Fault: a claimed region is counted down as well. *)
Check_NoGuard(w) ==
  /\ pc[w] = "check"
  /\ pc' = [pc EXCEPT ![w] = "decrement"]
  /\ UNCHANGED <<plan, mem, dc, ready, cur>>

(* decrement_destination_counts, for the source region *)
Check(w) ==
  /\ pc[w] = "check"
  /\ pc' = [pc EXCEPT ![w] = IF dc[cur[w].src] >= dc_claimed THEN "claim" ELSE "decrement"]
  /\ UNCHANGED <<plan, mem, dc, ready, cur>>

Decrement(w) ==
  /\ pc[w] = "decrement"
  /\ dc' = [dc EXCEPT ![cur[w].src] = @ - 1]
  /\ pc' = [pc EXCEPT ![w] = "claim"]
  /\ UNCHANGED <<plan, mem, ready, cur>>

(* next_src_region: the next region with live words; in a bda space the    *)
(* one whose data continues where the last one's ended, wrapping around.   *)
NextSources(src, dest) ==
  {r \in Sources : IF bda THEN r # src /\ destination[r] = dest
                   ELSE r > src /\ \A q \in Sources : q > src => r <= q}

Advance(w) ==
  LET c == cur[w]
  IN  IF c.dest = limit(c.region)
        THEN pc' = [pc EXCEPT ![w] = "complete"] /\ UNCHANGED cur
        ELSE \E r \in NextSources(c.src, c.dest) :
               /\ pc' = [pc EXCEPT ![w] = "copy"]
               /\ cur' = [cur EXCEPT ![w] = [c EXCEPT !.src = r, !.skip = 0, !.counts = TRUE]]

(* Fault: the region is pushed when it is seen to be available, without a  *)
(* compare-and-swap.                                                       *)
Claims_Seen(r) == r < enqueue_end /\ dc[r] \in {0, dc_claimed}

(* Fault: the last region is left out. *)
Claims_Last(r) == r < enqueue_end - 1 /\ dc[r] = 0

(* available and claim *)
Claims(r) == r < enqueue_end /\ dc[r] = 0

Claim(w) ==
  LET r == cur[w].src
  IN  /\ pc[w] = "claim"
      /\ IF Claims(r)
           THEN dc' = [dc EXCEPT ![r] = dc_claimed] /\ ready' = ready \cup {r}
           ELSE UNCHANGED <<dc, ready>>
      /\ Advance(w)
      /\ UNCHANGED <<plan, mem>>

(* set_completed *)
Complete(w) ==
  /\ pc[w] = "complete"
  /\ dc' = [dc EXCEPT ![cur[w].region] = dc_completed]
  /\ cur' = [cur EXCEPT ![w] = NoRegion]
  /\ pc' = [pc EXCEPT ![w] = "idle"]
  /\ UNCHANGED <<plan, mem, ready>>

Fill(w) == TakeRegion(w) \/ Copy(w) \/ Check(w) \/ Decrement(w) \/ Claim(w) \/ Complete(w)

Next == \E w \in Workers : Fill(w)

Spec == Init /\ [][Next]_vars

(* The operating system runs every worker that can run. *)
FairSpec == Spec /\ \A w \in Workers : WF_vars(Fill(w))

-----------------------------------------------------------------------------
(* Properties                                                              *)

(* A region that may be overwritten holds nothing that is needed: when its *)
(* count is 0 or it was claimed, every word that moves from it to another  *)
(* region has arrived there, and is never overwritten again.               *)
Evacuated ==
  \A a \in live :
    LET r == addr_to_region_idx(a)
    IN  (dc[r] = 0 \/ dc[r] >= dc_claimed) /\ addr_to_region_idx(new_addr(a)) # r =>
          mem[new_addr(a)] = a

(* The assertions of decrement_destination_count ("already claimed",       *)
(* "count would go negative"), of first_src_addr ("src region cannot be    *)
(* empty") and of next_src_region ("no source region was found") hold.     *)
CountsHold ==
  \A w \in Workers :
    /\ pc[w] = "decrement" => dc[cur[w].src] \in 1..2
    /\ pc[w] # "idle" => cur[w].src \in Sources
    /\ pc[w] = "claim" /\ cur[w].dest < limit(cur[w].region) =>
         NextSources(cur[w].src, cur[w].dest) # {}

(* No region is filled by two workers, or is still on a stack when it is   *)
(* being filled or was completed.                                          *)
FilledOnce ==
  /\ \A w, v \in Workers : w # v /\ pc[w] # "idle" /\ pc[v] # "idle" => cur[w].region # cur[v].region
  /\ \A w \in Workers : pc[w] # "idle" => cur[w].region \notin ready
  /\ \A r \in ready : dc[r] # dc_completed

(* The phase comes to its end with every region below the new top filled   *)
(* and every live word at its new address (verify_complete): no region     *)
(* waits for a count that nobody brings to 0.                              *)
Filled ==
  /\ \A r \in Regions : r < enqueue_end => dc[r] = dc_completed
  /\ \A a \in live : mem[new_addr(a)] = a

CompactionEnds == <>[]Filled
=============================================================================
