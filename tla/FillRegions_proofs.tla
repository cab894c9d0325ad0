------------------------- MODULE FillRegions_proofs -------------------------
(***************************************************************************)
(* The compaction phase is right: for every plan of the summary phase,     *)
(* every space and every number of workers, a region is filled by one      *)
(* worker, once; destination counts are exact; and no live word is         *)
(* overwritten before it has arrived at its new address.                   *)
(*                                                                         *)
(* The proof has four parts: addresses and regions; what the plans of the  *)
(* general space and of bda spaces have in common (PlanOK); claims and     *)
(* counts (BInv); and the words (MemOK).                                   *)
(***************************************************************************)
EXTENDS FillRegions, FiniteSetTheorems, WellFoundedInduction, TLAPS

-----------------------------------------------------------------------------
(* Addresses and regions *)

(* Regions follow each other. *)
LEMMA RegionStep ==
  ASSUME NEW d \in Nat
  PROVE  region_to_addr(d) \in Nat /\ region_to_addr(d + 1) = region_to_addr(d) + RegionSize
BY FillAssumption DEF region_to_addr

(* A region ends where a later one starts, or before. *)
LEMMA RegionMono ==
  ASSUME NEW d \in Nat, NEW e \in Nat, d < e
  PROVE  region_to_addr(d + 1) <= region_to_addr(e)
<1>1. PICK k \in Nat : e = (d + 1) + k
  <2>1. e - (d + 1) \in Nat /\ e = (d + 1) + (e - (d + 1))
    OBVIOUS
  <2> QED BY Zenon, <2>1
<1>2. k * RegionSize \in Nat /\ e * RegionSize = (d + 1) * RegionSize + k * RegionSize
  BY <1>1, FillAssumption
<1>3. (d + 1) * RegionSize \in Nat
  BY FillAssumption
<1> QED
  BY <1>2, <1>3 DEF region_to_addr

(* The region of an address *)
LEMMA RegionOf ==
  ASSUME NEW a \in Nat
  PROVE  /\ addr_to_region_idx(a) \in Nat
         /\ region_to_addr(addr_to_region_idx(a)) <= a
         /\ a < region_to_addr(addr_to_region_idx(a) + 1)
<1>1. PICK q, m : q = a \div RegionSize /\ m = a % RegionSize
  BY Zenon
<1>2. q \in Nat /\ m \in Nat /\ m < RegionSize /\ a = RegionSize * q + m
  BY <1>1, FillAssumption
<1>3. q * RegionSize \in Nat /\ (q + 1) * RegionSize = q * RegionSize + RegionSize /\ RegionSize * q = q * RegionSize
  BY <1>2, FillAssumption
<1>4. q * RegionSize <= a /\ a < (q + 1) * RegionSize
  BY <1>2, <1>3, FillAssumption
<1> QED
  BY Zenon, <1>1, <1>2, <1>4 DEF region_to_addr, addr_to_region_idx

(* addr_to_region_idx gives the only region that an address can lie in. *)
LEMMA RegionIs ==
  ASSUME NEW a \in Nat, NEW d \in Nat, region_to_addr(d) <= a, a < region_to_addr(d + 1)
  PROVE  addr_to_region_idx(a) = d
<1>1. PICK q : q = addr_to_region_idx(a)
  BY Zenon
<1>2. q \in Nat /\ region_to_addr(q) <= a /\ a < region_to_addr(q + 1)
  BY Zenon, <1>1, RegionOf
<1>3. /\ region_to_addr(q) \in Nat /\ region_to_addr(q + 1) \in Nat
      /\ region_to_addr(d) \in Nat /\ region_to_addr(d + 1) \in Nat
  <2>1. q + 1 \in Nat /\ d + 1 \in Nat
    BY <1>2
  <2> QED BY Zenon, <1>2, <2>1, RegionStep
<1>4. q < d => region_to_addr(q + 1) <= region_to_addr(d)
  BY Zenon, <1>2, RegionMono
<1>5. d < q => region_to_addr(d + 1) <= region_to_addr(q)
  BY Zenon, <1>2, RegionMono
<1>6. ~ (q < d) /\ ~ (d < q)
  BY <1>2, <1>3, <1>4, <1>5
<1>7. q = d
  BY <1>2, <1>6
<1> QED
  BY Zenon, <1>1, <1>7

(* Addresses that start a region *)
LEMMA RegionStart ==
  ASSUME NEW a \in Nat
  PROVE  /\ \A d \in Nat : a = region_to_addr(d) => a % RegionSize = 0
         /\ a % RegionSize = 0 => a = region_to_addr(addr_to_region_idx(a))
<1>1. ASSUME NEW d \in Nat, a = region_to_addr(d) PROVE a % RegionSize = 0
  BY <1>1, FillAssumption DEF region_to_addr
<1>2. ASSUME a % RegionSize = 0 PROVE a = region_to_addr(addr_to_region_idx(a))
  BY <1>2, FillAssumption DEF region_to_addr, addr_to_region_idx
<1> QED
  BY Zenon, <1>1, <1>2

(* The words of the space *)
LEMMA RegionsNat == \A r \in Regions : r \in Nat /\ r >= 1
BY FillAssumption DEF Regions

(* The words of a region are the addresses between its start and the start *)
(* of the next one,                                                        *)
LEMMA InRegion ==
  ASSUME NEW d \in Nat, NEW a \in WordsOf(d)
  PROVE  a \in Nat /\ addr_to_region_idx(a) = d /\ region_to_addr(d) <= a /\ a < region_to_addr(d + 1)
<1>1. region_to_addr(d) \in Nat /\ region_to_addr(d + 1) \in Nat
  <2>1. d + 1 \in Nat
    OBVIOUS
  <2> QED BY Zenon, <2>1, RegionStep
<1>2. a \in Nat /\ region_to_addr(d) <= a /\ a < region_to_addr(d + 1)
  BY <1>1 DEF WordsOf
<1> QED
  BY Zenon, <1>2, RegionIs

(* and all of these. *)
LEMMA WordsIn ==
  ASSUME NEW d \in Nat, NEW a \in Nat, region_to_addr(d) <= a, a < region_to_addr(d + 1)
  PROVE  a \in WordsOf(d)
<1>1. region_to_addr(d) \in Nat /\ region_to_addr(d + 1) \in Nat
  <2>1. d + 1 \in Nat
    OBVIOUS
  <2> QED BY Zenon, <2>1, RegionStep
<1> QED
  BY <1>1 DEF WordsOf

(* Every word of the space lies in a region of the space. *)
LEMMA WordRegion ==
  ASSUME NEW a \in Words
  PROVE  a \in Nat /\ addr_to_region_idx(a) \in Regions /\ a \in WordsOf(addr_to_region_idx(a))
<1>1. PICK r \in Regions : a \in WordsOf(r)
  BY Zenon DEF Words
<1>2. r \in Nat
  BY Zenon, RegionsNat
<1> QED
  BY Zenon, <1>1, <1>2, InRegion

(* The container of a region *)
LEMMA ContainerOf ==
  ASSUME NEW r \in Regions
  PROVE  /\ container(r) \in Numbers
         /\ container_start(container(r)) \in Nat
         /\ container_start(container(r)) <= region_to_addr(r)
<1>1. PICK k, m : k = (r - 1) \div ContainerRegions /\ m = (r - 1) % ContainerRegions
  BY Zenon
<1>2. r - 1 \in Nat /\ r - 1 < ContainerRegions * Containers
  BY FillAssumption DEF Regions
<1>3. k \in Nat /\ m \in Nat /\ m < ContainerRegions /\ r - 1 = ContainerRegions * k + m
  <2>1. PICK x \in Nat : x = r - 1
    BY Zenon, <1>2
  <2>2. k = x \div ContainerRegions /\ m = x % ContainerRegions
    BY Zenon, <1>1, <2>1
  <2>3. k \in Nat /\ m \in Nat /\ m < ContainerRegions /\ x = ContainerRegions * k + m
    BY <2>2, FillAssumption
  <2> QED BY Zenon, <2>1, <2>3
<1>4. ContainerRegions * k < ContainerRegions * Containers /\ ContainerRegions * k \in Nat
  <2>1. ContainerRegions * k \in Nat /\ ContainerRegions * Containers \in Nat
    BY <1>3, FillAssumption
  <2> QED BY <1>2, <1>3, <2>1
<1>5. k < Containers
  <2> SUFFICES ASSUME ~ (k < Containers) PROVE FALSE
    BY Zenon
  <2>1. PICK j \in Nat : k = Containers + j
    <3>1. k - Containers \in Nat /\ k = Containers + (k - Containers)
      BY <1>3, FillAssumption
    <3> QED BY Zenon, <3>1
  <2>2. ContainerRegions * k = ContainerRegions * Containers + ContainerRegions * j /\ ContainerRegions * j \in Nat
    BY <2>1, FillAssumption
  <2>3. ContainerRegions * Containers \in Nat
    BY FillAssumption
  <2> QED BY <1>4, <2>2, <2>3
<1>6. k * ContainerRegions + 1 \in Nat /\ k * ContainerRegions + 1 <= r /\ r \in Nat
  <2>1. k * ContainerRegions = ContainerRegions * k
    BY <1>3, FillAssumption
  <2>2. PICK x \in Nat : x = ContainerRegions * k
    BY Zenon, <1>4
  <2>3. r \in Nat
    BY Zenon, RegionsNat
  <2>4. x + 1 \in Nat /\ x + 1 <= r
    BY <1>3, <2>2, <2>3
  <2> QED BY Zenon, <2>1, <2>2, <2>3, <2>4
<1>7. region_to_addr(k * ContainerRegions + 1) \in Nat /\ region_to_addr(r) \in Nat
  BY Zenon, <1>6, RegionStep
<1>8. region_to_addr(k * ContainerRegions + 1) <= region_to_addr(r)
  <2>1. PICK x \in Nat : x = k * ContainerRegions + 1
    BY Zenon, <1>6
  <2>2. x < r => region_to_addr(x + 1) <= region_to_addr(r)
    BY Zenon, <1>6, <2>1, RegionMono
  <2>3. region_to_addr(x + 1) = region_to_addr(x) + RegionSize /\ region_to_addr(x) \in Nat
    BY Zenon, RegionStep
  <2>4. x = r => region_to_addr(x) = region_to_addr(r)
    BY Zenon
  <2>5. x <= r /\ x \in Nat
    BY Zenon, <1>6, <2>1
  <2>6. region_to_addr(x) <= region_to_addr(r)
    BY <1>6, <1>7, <2>2, <2>3, <2>4, <2>5, FillAssumption
  <2> QED BY Zenon, <2>1, <2>6
<1>9. k \in Numbers
  BY <1>3, <1>5, FillAssumption DEF Numbers
<1>10. container(r) = k
  BY Zenon, <1>1 DEF container
<1> QED
  BY Zenon, <1>7, <1>8, <1>9, <1>10 DEF container_start

(* What a region holds *)
LEMMA DataSize ==
  ASSUME NEW r \in Regions
  PROVE  IsFiniteSet(data(r)) /\ data_size(r) \in Nat /\ data_size(r) <= RegionSize
<1>1. PICK lo \in Nat, hi \in Nat : lo = region_to_addr(r) /\ hi = region_to_addr(r + 1) /\ hi = lo + RegionSize
  <2>1. r \in Nat /\ r + 1 \in Nat
    BY RegionsNat
  <2>2. region_to_addr(r) \in Nat /\ region_to_addr(r + 1) \in Nat /\ region_to_addr(r + 1) = region_to_addr(r) + RegionSize
    BY Zenon, <2>1, RegionStep
  <2> QED BY Zenon, <2>2
<1>2. PICK T : T = lo..(hi - 1)
  BY Zenon
<1>3. IsFiniteSet(T) /\ Cardinality(T) = RegionSize
  <2>1. lo \in Int /\ hi - 1 \in Int
    BY <1>1
  <2>2. IsFiniteSet(lo..(hi - 1)) /\ Cardinality(lo..(hi - 1)) = IF lo > hi - 1 THEN 0 ELSE (hi - 1) - lo + 1
    BY Zenon, <2>1, FS_Interval
  <2>3. IsFiniteSet(lo..(hi - 1)) /\ Cardinality(lo..(hi - 1)) = RegionSize
    BY <1>1, <2>2, FillAssumption
  <2> QED BY Zenon, <1>2, <2>3
<1>4. data(r) \subseteq T
  BY Zenon, <1>1, <1>2 DEF data, WordsOf
<1>5. IsFiniteSet(data(r)) /\ Cardinality(data(r)) <= Cardinality(T)
  BY Zenon, <1>3, <1>4, FS_Subset
<1>6. Cardinality(data(r)) \in Nat
  BY Zenon, <1>5, FS_CardinalityType
<1> QED
  BY <1>3, <1>5, <1>6 DEF data_size

(* The smaller of two numbers *)
LEMMA MinTwo == \A a, b \in Int : Min({a, b}) = IF a <= b THEN a ELSE b
<1> SUFFICES ASSUME NEW a \in Int, NEW b \in Int PROVE Min({a, b}) = IF a <= b THEN a ELSE b
  BY Zenon
<1>1. PICK m : m = IF a <= b THEN a ELSE b
  BY Zenon
<1>2. m \in {a, b} /\ \A y \in {a, b} : m <= y
  BY <1>1
<1>3. \A x \in {a, b} : (\A y \in {a, b} : x <= y) => x = m
  BY <1>1
<1> QED
  BY <1>1, <1>2, <1>3 DEF Min

(* A least number with a property, if there is any *)
LEMMA LeastOf == ASSUME NEW S, S \subseteq Nat, S # {} PROVE \E x \in S : \A y \in S : x <= y
<1> DEFINE lt == {p \in Nat \X Nat : p[1] < p[2]}
<1>1. IsWellFoundedOn(lt, Nat)
  BY Zenon, NatLessThanWellFounded DEF OpToRel
<1>2. PICK x \in S : \A y \in S : <<y, x>> \notin lt
  <2> HIDE DEF lt
  <2> QED BY Zenon, <1>1, WFMin
<1>3. \A y \in S : x \in Nat /\ y \in Nat /\ ~ (y < x)
  BY Zenon, <1>2
<1> QED
  BY <1>3

(* A greatest one, if it is bounded *)
LEMMA GreatestOf ==
  ASSUME NEW S, NEW n \in Nat, S \subseteq 0..n, S # {} PROVE \E x \in S : \A y \in S : y <= x
<1>1. PICK T : T = {n - x : x \in S}
  BY Zenon
<1>2. T \subseteq Nat /\ T # {}
  <2>1. \A x \in S : n - x \in Nat
    OBVIOUS
  <2> QED BY Zenon, <1>1, <2>1
<1>3. PICK t \in T : \A u \in T : t <= u
  BY Zenon, <1>2, LeastOf
<1>4. PICK x \in S : t = n - x
  BY Zenon, <1>1, <1>3
<1>5. \A y \in S : n - x <= n - y /\ x \in 0..n /\ y \in 0..n
  BY Zenon, <1>1, <1>3, <1>4
<1>6. \A y \in S : y <= x
  BY <1>5
<1> QED
  BY Zenon, <1>6

-----------------------------------------------------------------------------
(* The plan *)

Receives(r) == {dest_region_1(r), dest_region_2(r)}

(* Regions are copied to the left, to places of their own. *)
PlanSizes ==
  \A r \in Sources : /\ data_size(r) \in Nat /\ 0 < data_size(r) /\ data_size(r) <= RegionSize
                     /\ destination[r] \in Words /\ destination[r] <= region_to_addr(r)
PlanApart == \A r, q \in Sources : r # q => MovesTo(r) \cap MovesTo(q) = {}
(* They stay below the new tops, *)
PlanTops ==
  /\ \A d \in Regions : top[container(d)] \in Int
  /\ \A r \in Sources : \A d \in Receives(r) : d \in Regions /\ \A a \in MovesTo(r) : a < top[container(d)]
(* and fill what is below without a gap. *)
PlanContinues ==
  \A r \in Sources : \A d \in Regions : dest_end(r) \in WordsOf(d) /\ dest_end(r) < top[container(d)] =>
    /\ NextSources(r, dest_end(r)) # {}
    /\ \A q \in NextSources(r, dest_end(r)) : q \in Sources /\ destination[q] = dest_end(r)
(* What is taken from the stacks has a source, or receives nothing. *)
PlanTargets ==
  \A d \in Regions : d < enqueue_end =>
    /\ NothingToFill(d) => \A r \in Sources : d \notin Receives(r)
    /\ ~ NothingToFill(d) => source_region[d] \in SetsSource(d) /\ region_to_addr(d) < top[container(d)]

(* No region above the last that is filled receives anything. *)
PlanEnds == \A r \in Sources : \A d \in Receives(r) : d < enqueue_end

PlanOK ==
  /\ PlanSizes /\ PlanApart /\ PlanTops /\ PlanContinues /\ PlanTargets /\ PlanEnds
  /\ live \subseteq Words

(* Where the data of a region goes *)
LEMMA DestRegions ==
  ASSUME PlanSizes, NEW r \in Sources
  PROVE  /\ destination[r] \in Nat /\ dest_end(r) \in Nat /\ destination[r] < dest_end(r)
         /\ dest_region_1(r) \in Regions /\ dest_region_2(r) \in Regions
         /\ destination[r] \in WordsOf(dest_region_1(r)) /\ dest_end(r) - 1 \in WordsOf(dest_region_2(r))
         /\ dest_region_2(r) \in {dest_region_1(r), dest_region_1(r) + 1}
         /\ dest_end(r) <= region_to_addr(r + 1)
<1>1. /\ data_size(r) \in Nat /\ 0 < data_size(r) /\ data_size(r) <= RegionSize
      /\ destination[r] \in Words /\ destination[r] <= region_to_addr(r)
  BY Zenon DEF PlanSizes
<1>2. destination[r] \in Nat /\ dest_region_1(r) \in Regions /\ destination[r] \in WordsOf(dest_region_1(r))
  BY Zenon, <1>1, WordRegion DEF dest_region_1
<1>3. dest_end(r) \in Nat /\ destination[r] < dest_end(r) /\ dest_end(r) - 1 \in Nat /\ dest_end(r) <= destination[r] + RegionSize
  BY <1>1, <1>2, FillAssumption DEF dest_end
<1>4. PICK e \in Nat : e = dest_end(r) - 1
  BY Zenon, <1>3
<1>5. PICK g : g = dest_region_2(r)
  BY Zenon
<1>6. g \in Nat /\ region_to_addr(g) <= e /\ e < region_to_addr(g + 1)
  BY Zenon, <1>4, <1>5, RegionOf DEF dest_region_2
<1>7. PICK d \in Regions : d = dest_region_1(r)
  BY Zenon, <1>2
<1>8. d \in Nat /\ r \in Nat /\ r \in Regions /\ d >= 1
  BY Zenon, RegionsNat DEF Sources
<1>9. region_to_addr(d) <= destination[r] /\ destination[r] < region_to_addr(d + 1)
  BY Zenon, <1>2, <1>7, <1>8, InRegion
<1>10. /\ region_to_addr(d) \in Nat /\ region_to_addr(d + 1) = region_to_addr(d) + RegionSize
       /\ region_to_addr((d + 1) + 1) = region_to_addr(d + 1) + RegionSize
       /\ region_to_addr(r) \in Nat /\ region_to_addr(r + 1) = region_to_addr(r) + RegionSize
       /\ region_to_addr(g) \in Nat /\ region_to_addr(g + 1) = region_to_addr(g) + RegionSize
  <2>1. d + 1 \in Nat
    BY <1>8
  <2> QED BY Zenon, <1>6, <1>8, <2>1, RegionStep
<1>11. dest_end(r) <= region_to_addr(r + 1)
  BY <1>1, <1>2, <1>3, <1>10, FillAssumption
<1>12. g \in Regions
  <2>1. r < g => region_to_addr(r + 1) <= region_to_addr(g)
    BY Zenon, <1>6, <1>8, RegionMono
  <2>2. g < d => region_to_addr(g + 1) <= region_to_addr(d)
    BY Zenon, <1>6, <1>8, RegionMono
  <2>3. ~ (r < g)
    BY <1>3, <1>4, <1>6, <1>8, <1>10, <1>11, <2>1, FillAssumption
  <2>4. ~ (g < d)
    BY <1>2, <1>3, <1>4, <1>6, <1>8, <1>9, <1>10, <2>2, FillAssumption
  <2> QED BY <1>6, <1>8, <2>3, <2>4, FillAssumption DEF Regions
<1>13. g \in {d, d + 1}
  <2>1. CASE e < region_to_addr(d + 1)
    <3>1. region_to_addr(d) <= e
      BY <1>2, <1>3, <1>4, <1>9, <1>10
    <3>2. addr_to_region_idx(e) = d
      BY Zenon, <2>1, <3>1, <1>8, RegionIs
    <3> QED BY Zenon, <3>2, <1>4, <1>5 DEF dest_region_2
  <2>2. CASE ~ (e < region_to_addr(d + 1))
    <3>1. region_to_addr(d + 1) <= e /\ e < region_to_addr((d + 1) + 1) /\ d + 1 \in Nat
      BY <2>2, <1>2, <1>3, <1>4, <1>8, <1>9, <1>10, FillAssumption
    <3>2. addr_to_region_idx(e) = d + 1
      BY Zenon, <3>1, RegionIs
    <3> QED BY Zenon, <3>2, <1>4, <1>5 DEF dest_region_2
  <2> QED BY Zenon, <2>1, <2>2
<1>14. e \in WordsOf(g)
  BY Zenon, <1>6, WordsIn
<1> QED
  BY Zenon, <1>2, <1>3, <1>4, <1>5, <1>7, <1>11, <1>12, <1>13, <1>14

(* A region receives what has an address in it. *)
LEMMA ReceivesIt ==
  ASSUME PlanSizes, NEW r \in Sources, NEW d \in Nat, NEW a \in MovesTo(r), a \in WordsOf(d)
  PROVE  d \in Receives(r)
<1>1. /\ destination[r] \in Nat /\ dest_end(r) \in Nat
      /\ dest_region_1(r) \in Regions /\ dest_region_2(r) \in Regions
      /\ destination[r] \in WordsOf(dest_region_1(r)) /\ dest_end(r) - 1 \in WordsOf(dest_region_2(r))
      /\ dest_region_2(r) \in {dest_region_1(r), dest_region_1(r) + 1}
  BY Zenon, DestRegions
<1>2. PICK x \in Nat, y \in Nat : x = dest_region_1(r) /\ y = dest_region_2(r)
  BY Zenon, <1>1, RegionsNat
<1>3. region_to_addr(x) <= destination[r] /\ dest_end(r) - 1 < region_to_addr(y + 1)
  BY Zenon, <1>1, <1>2, InRegion
<1>4. a \in Nat /\ region_to_addr(d) <= a /\ a < region_to_addr(d + 1)
  BY Zenon, InRegion
<1>5. destination[r] <= a /\ a <= dest_end(r) - 1
  BY <1>1 DEF MovesTo
<1>6. /\ region_to_addr(x) \in Nat /\ region_to_addr(y + 1) \in Nat
      /\ region_to_addr(d) \in Nat /\ region_to_addr(d + 1) \in Nat
  <2>1. y + 1 \in Nat /\ d + 1 \in Nat
    OBVIOUS
  <2> QED BY Zenon, <2>1, RegionStep
<1>7. d < x => region_to_addr(d + 1) <= region_to_addr(x)
  BY Zenon, RegionMono
<1>8. y < d => region_to_addr(y + 1) <= region_to_addr(d)
  BY Zenon, RegionMono
<1>9. ~ (d < x)
  BY <1>1, <1>3, <1>4, <1>5, <1>6, <1>7
<1>10. ~ (y < d)
  BY <1>1, <1>3, <1>4, <1>5, <1>6, <1>8
<1>11. y \in {x, x + 1}
  BY Zenon, <1>1, <1>2
<1>12. d = x \/ d = y
  BY <1>9, <1>10, <1>11
<1> QED
  BY Zenon, <1>2, <1>12 DEF Receives

(* The source that fill_region starts with *)
LEMMA SourceAt ==
  ASSUME PlanSizes, NEW r \in Sources, NEW d \in Regions
  PROVE  r \in SetsSource(d) <=> region_to_addr(d) \in MovesTo(r)
<1>0. d \in Nat
  BY Zenon, RegionsNat
<1>1. /\ destination[r] \in Nat /\ dest_end(r) \in Nat /\ destination[r] < dest_end(r)
      /\ dest_region_1(r) \in Regions /\ dest_region_2(r) \in Regions
      /\ destination[r] \in WordsOf(dest_region_1(r)) /\ dest_end(r) - 1 \in WordsOf(dest_region_2(r))
      /\ dest_region_2(r) \in {dest_region_1(r), dest_region_1(r) + 1}
  BY Zenon, DestRegions
<1>2. PICK x \in Nat, y \in Nat : x = dest_region_1(r) /\ y = dest_region_2(r)
  BY Zenon, <1>1, RegionsNat
<1>3. /\ region_to_addr(x) <= destination[r] /\ destination[r] < region_to_addr(x + 1)
      /\ region_to_addr(y) <= dest_end(r) - 1 /\ dest_end(r) - 1 < region_to_addr(y + 1)
  BY Zenon, <1>1, <1>2, InRegion
<1>4. /\ region_to_addr(x) \in Nat /\ region_to_addr(y) \in Nat /\ region_to_addr(d) \in Nat
      /\ region_to_addr(x + 1) \in Nat /\ region_to_addr(y + 1) \in Nat
      /\ region_to_addr(d + 1) = region_to_addr(d) + RegionSize
  <2>1. y + 1 \in Nat /\ x + 1 \in Nat
    OBVIOUS
  <2> QED BY Zenon, <1>0, <2>1, RegionStep
<1>5. y \in {x, x + 1}
  BY Zenon, <1>1, <1>2
<1>6. ASSUME r \in SetsSource(d) PROVE region_to_addr(d) \in MovesTo(r)
  <2>1. y = d /\ (x # d \/ destination[r] % RegionSize = 0)
    BY Zenon, <1>2, <1>6 DEF SetsSource
  <2>2. region_to_addr(d) <= dest_end(r) - 1
    BY Zenon, <1>3, <2>1
  <2>3. destination[r] <= region_to_addr(d)
    <3>1. CASE x # d
      <4>1. region_to_addr(x + 1) = region_to_addr(d)
        <5>1. x + 1 = d
          BY <1>5, <2>1, <3>1
        <5> QED BY Zenon, <5>1
      <4> QED BY <1>1, <1>3, <1>4, <4>1
    <3>2. CASE x = d /\ destination[r] % RegionSize = 0
      <4>1. destination[r] = region_to_addr(x)
        BY Zenon, <1>1, <1>2, <3>2, RegionStart DEF dest_region_1
      <4>2. destination[r] = region_to_addr(d)
        BY Zenon, <3>2, <4>1
      <4> QED BY <1>1, <4>2
    <3> QED BY Zenon, <2>1, <3>1, <3>2
  <2> QED BY <1>1, <1>4, <2>2, <2>3 DEF MovesTo
<1>7. ASSUME region_to_addr(d) \in MovesTo(r) PROVE r \in SetsSource(d)
  <2>1. destination[r] <= region_to_addr(d) /\ region_to_addr(d) <= dest_end(r) - 1
    BY <1>1, <1>4, <1>7 DEF MovesTo
  <2>2. dest_end(r) <= destination[r] + RegionSize
    BY <1>1, FillAssumption DEF PlanSizes, dest_end
  <2>3. dest_end(r) - 1 \in Nat /\ dest_end(r) - 1 < region_to_addr(d + 1)
    BY <1>1, <1>4, <2>1, <2>2, FillAssumption
  <2>4. dest_region_2(r) = d
    BY Zenon, <1>0, <2>1, <2>3, RegionIs DEF dest_region_2
  <2>5. x = d => destination[r] % RegionSize = 0
    <3>1. x = d => destination[r] = region_to_addr(d)
      <4>1. x = d => region_to_addr(d) <= destination[r]
        BY Zenon, <1>3
      <4> QED BY <1>1, <1>4, <2>1, <4>1
    <3> QED BY Zenon, <1>0, <1>1, <3>1, RegionStart
  <2> QED BY Zenon, <1>2, <2>4, <2>5 DEF SetsSource
<1> QED
  BY Zenon, <1>6, <1>7

(* Regions with data are regions of the space. *)
LEMMA SourcesNat ==
  /\ Sources \subseteq Regions /\ Sources \subseteq Nat
  /\ Sources \subseteq 0..(ContainerRegions * Containers) /\ ContainerRegions * Containers \in Nat
BY FillAssumption DEF Sources, Regions

(* The general space *)
Ends ==
  \A r \in Sources : /\ destination[r] \in Nat /\ dest_end(r) \in Nat /\ destination[r] < dest_end(r)
                     /\ dest_end(r) <= destination[r] + RegionSize

(* The data of a region fills at most a region. *)
LEMMA EndsHold == ASSUME destination \in [Sources -> Words] PROVE Ends
<1> SUFFICES ASSUME NEW r \in Sources
             PROVE /\ destination[r] \in Nat /\ dest_end(r) \in Nat /\ destination[r] < dest_end(r)
                   /\ dest_end(r) <= destination[r] + RegionSize
  BY Zenon DEF Ends
<1>1. data_size(r) \in Nat /\ data_size(r) <= RegionSize /\ data_size(r) > 0
  BY Zenon, DataSize DEF Sources
<1>2. destination[r] \in Words
  BY Zenon
<1>3. destination[r] \in Nat
  BY Zenon, <1>2, WordRegion
<1> QED
  BY <1>1, <1>3, FillAssumption DEF dest_end

(* There is a last region with data before one that is not the first, *)
LEMMA SourceBefore ==
  ASSUME NEW r \in Sources, NEW q \in Sources, q < r
  PROVE  \E p \in Sources : NextSource(p, r)
<1> DEFINE S == {p \in Sources : p < r}
<1>1. S \subseteq 0..(ContainerRegions * Containers) /\ S # {}
  BY Zenon, SourcesNat
<1>2. PICK p \in S : \A y \in S : y <= p
  <2> HIDE DEF S
  <2> QED BY Zenon, <1>1, SourcesNat, GreatestOf
<1>3. p \in Sources /\ p < r
  BY Zenon, <1>2
<1>4. \A y \in Sources : y <= p \/ r <= y
  <2> SUFFICES ASSUME NEW y \in Sources PROVE y <= p \/ r <= y
    BY Zenon
  <2>1. y < r => y <= p
    BY Zenon, <1>2
  <2>2. y \in Nat /\ r \in Nat
    BY Zenon, SourcesNat
  <2> QED BY <2>1, <2>2
<1> QED
  BY Zenon, <1>3, <1>4 DEF NextSource

(* and a next one after one that is not the last. *)
LEMMA SourceAfter ==
  ASSUME NEW r \in Sources, NEW q \in Sources, r < q
  PROVE  \E p \in Sources : NextSource(r, p)
<1> DEFINE S == {p \in Sources : r < p}
<1>1. S \subseteq Nat /\ S # {}
  BY Zenon, SourcesNat
<1>2. PICK p \in S : \A y \in S : p <= y
  <2> HIDE DEF S
  <2> QED BY Zenon, <1>1, LeastOf
<1>3. p \in Sources /\ r < p
  BY Zenon, <1>2
<1>4. \A y \in Sources : y <= r \/ p <= y
  <2> SUFFICES ASSUME NEW y \in Sources PROVE y <= r \/ p <= y
    BY Zenon
  <2>1. r < y => p <= y
    BY Zenon, <1>2
  <2>2. y \in Nat /\ r \in Nat
    BY Zenon, SourcesNat
  <2> QED BY <2>1, <2>2
<1> QED
  BY Zenon, <1>3, <1>4 DEF NextSource

(* A region is the first that has data, or it goes behind another. *)
LEMMA GoesBehind ==
  ASSUME Compacts, NEW r \in Sources
  PROVE  \/ destination[r] = SpaceStart /\ \A q \in Sources : r <= q
         \/ \E p \in Sources : NextSource(p, r) /\ p < r /\ destination[r] = dest_end(p)
<1>1. CASE \E q \in Sources : q < r
  <2>1. PICK p \in Sources : NextSource(p, r)
    BY Zenon, <1>1, SourceBefore
  <2>2. p < r /\ destination[r] = dest_end(p)
    BY Zenon, <2>1 DEF Compacts, NextSource
  <2> QED BY Zenon, <2>1, <2>2
<1>2. CASE ~ \E q \in Sources : q < r
  <2>1. \A q \in Sources : r <= q
    <3> SUFFICES ASSUME NEW q \in Sources PROVE r <= q
      BY Zenon
    <3>1. ~ (q < r) /\ q \in Nat /\ r \in Nat
      BY Zenon, <1>2, SourcesNat
    <3> QED BY <3>1
  <2>2. destination[r] = SpaceStart
    BY Zenon, <2>1 DEF Compacts
  <2> QED BY Zenon, <2>1, <2>2
<1> QED
  BY Zenon, <1>1, <1>2

(* Data stays in order, *)
LEMMA InOrder ==
  ASSUME Compacts, Ends, NEW q0 \in Sources, NEW r0 \in Sources, q0 < r0
  PROVE  dest_end(q0) <= destination[r0]
<1> DEFINE S == {r \in Sources : \E q \in Sources : q < r /\ ~ (dest_end(q) <= destination[r])}
<1> SUFFICES ASSUME S # {} PROVE FALSE
  BY Zenon
<1>1. S \subseteq Nat
  BY Zenon, SourcesNat
<1>2. PICK r \in S : \A y \in S : r <= y
  <2> HIDE DEF S
  <2> QED BY Zenon, <1>1, LeastOf
<1>3. PICK q \in Sources : r \in Sources /\ q < r /\ ~ (dest_end(q) <= destination[r])
  BY Zenon, <1>2
<1>4. q \in Nat /\ r \in Nat /\ ~ (r <= q)
  <2>1. q \in Nat /\ r \in Nat
    BY Zenon, <1>3, SourcesNat
  <2> QED BY <1>3, <2>1
<1>5. PICK p \in Sources : NextSource(p, r) /\ p < r /\ destination[r] = dest_end(p)
  BY Zenon, <1>3, <1>4, GoesBehind
<1>6. p \in Nat /\ (q <= p \/ r <= q)
  BY Zenon, <1>3, <1>5, SourcesNat DEF NextSource
<1>7. CASE q = p
  BY <1>3, <1>5, <1>7 DEF Ends
<1>8. CASE q < p
  <2>1. p \notin S
    <3>1. ~ (r <= p)
      BY <1>4, <1>5, <1>6
    <3> QED BY Zenon, <1>2, <3>1
  <2>2. dest_end(q) <= destination[p]
    BY Zenon, <1>3, <1>8, <2>1
  <2>3. /\ dest_end(q) \in Nat /\ destination[p] \in Nat /\ dest_end(p) \in Nat /\ destination[p] < dest_end(p)
    BY Zenon, <1>3 DEF Ends
  <2>4. ~ (dest_end(q) <= dest_end(p))
    BY Zenon, <1>3, <1>5
  <2> QED BY <2>2, <2>3, <2>4
<1> QED
  BY <1>4, <1>6, <1>7, <1>8

(* moves to the left, *)
LEMMA ToTheLeft ==
  ASSUME Compacts, Ends, NEW r0 \in Sources
  PROVE  destination[r0] <= region_to_addr(r0)
<1> DEFINE S == {r \in Sources : ~ (destination[r] <= region_to_addr(r))}
<1> SUFFICES ASSUME S # {} PROVE FALSE
  BY Zenon
<1>1. S \subseteq Nat
  BY Zenon, SourcesNat
<1>2. PICK r \in S : \A y \in S : r <= y
  <2> HIDE DEF S
  <2> QED BY Zenon, <1>1, LeastOf
<1>3. r \in Sources /\ ~ (destination[r] <= region_to_addr(r)) /\ r \in Nat /\ r >= 1
  BY Zenon, <1>2, SourcesNat, RegionsNat
<1>4. region_to_addr(r) \in Nat /\ destination[r] \in Nat
  BY Zenon, <1>3, RegionStep DEF Ends
<1>5. CASE destination[r] = SpaceStart
  <2>1. 1 \in Nat /\ (1 < r => region_to_addr(1 + 1) <= region_to_addr(r))
    BY Zenon, <1>3, RegionMono
  <2>2. region_to_addr(1 + 1) = region_to_addr(1) + RegionSize /\ region_to_addr(1) \in Nat
    BY Zenon, <2>1, RegionStep
  <2>3. 1 = r => region_to_addr(1) = region_to_addr(r)
    BY Zenon
  <2>4. region_to_addr(1) <= region_to_addr(r)
    BY <1>3, <1>4, <2>1, <2>2, <2>3, FillAssumption
  <2> QED BY Zenon, <1>3, <1>5, <2>4 DEF SpaceStart
<1>6. ASSUME NEW p \in Sources, p < r, destination[r] = dest_end(p) PROVE FALSE
  <2>1. p \in Nat
    BY Zenon, SourcesNat
  <2>2. p \notin S
    <3>1. ~ (r <= p)
      BY <1>3, <1>6, <2>1
    <3> QED BY Zenon, <1>2, <3>1
  <2>3. destination[p] <= region_to_addr(p)
    BY Zenon, <2>2
  <2>4. region_to_addr(p + 1) <= region_to_addr(r)
    BY Zenon, <1>3, <1>6, <2>1, RegionMono
  <2>5. region_to_addr(p) \in Nat /\ region_to_addr(p + 1) = region_to_addr(p) + RegionSize
    BY Zenon, <2>1, RegionStep
  <2>6. destination[p] \in Nat /\ dest_end(p) \in Nat /\ dest_end(p) <= destination[p] + RegionSize
    BY Zenon DEF Ends
  <2>7. ~ (dest_end(p) <= region_to_addr(r))
    BY Zenon, <1>3, <1>6
  <2> QED BY <1>4, <2>3, <2>4, <2>5, <2>6, <2>7, FillAssumption
<1> QED
  BY Zenon, <1>3, <1>5, <1>6, GoesBehind

(* and leaves no gap. *)
LEMMA NoGap ==
  ASSUME Compacts, Ends, NEW a \in Nat, SpaceStart <= a, NEW r0 \in Sources, a < dest_end(r0)
  PROVE  \E r \in Sources : a \in MovesTo(r)
<1> DEFINE S == {r \in Sources : a < dest_end(r)}
<1>1. S \subseteq Nat /\ S # {}
  BY Zenon, SourcesNat
<1>2. PICK r \in S : \A y \in S : r <= y
  <2> HIDE DEF S
  <2> QED BY Zenon, <1>1, LeastOf
<1>3. r \in Sources /\ a < dest_end(r) /\ r \in Nat
  BY Zenon, <1>1, <1>2
<1>4. dest_end(r) \in Nat /\ destination[r] \in Nat
  BY Zenon, <1>3 DEF Ends
<1>5. destination[r] <= a
  <2>1. CASE destination[r] = SpaceStart
    BY Zenon, <2>1
  <2>2. ASSUME NEW p \in Sources, p < r, destination[r] = dest_end(p) PROVE destination[r] <= a
    <3>1. p \in Nat /\ dest_end(p) \in Nat
      BY Zenon, SourcesNat DEF Ends
    <3>2. ~ (r <= p)
      BY <1>3, <2>2, <3>1
    <3>3. ~ (a < dest_end(p))
      BY Zenon, <1>2, <3>2
    <3> QED BY <2>2, <3>1, <3>3
  <2> QED BY Zenon, <1>3, <2>1, <2>2, GoesBehind
<1>6. a \in MovesTo(r)
  BY <1>3, <1>4, <1>5 DEF MovesTo
<1> QED
  BY Zenon, <1>3, <1>6

(* The data of the last region ends highest. *)
LEMMA TheLast ==
  ASSUME Compacts, Ends, Sources # {}
  PROVE  /\ LastSource \in Sources
         /\ \A r \in Sources : r = LastSource \/ r < LastSource
         /\ \A r \in Sources : dest_end(r) <= dest_end(LastSource)
<1>1. \E x \in Sources : \A y \in Sources : y <= x
  BY Zenon, SourcesNat, GreatestOf
<1>2. LastSource \in Sources /\ \A y \in Sources : y <= LastSource
  BY Zenon, <1>1 DEF LastSource
<1>3. PICK l \in Sources : l = LastSource
  BY Zenon, <1>2
<1> SUFFICES ASSUME NEW r \in Sources PROVE (r = l \/ r < l) /\ dest_end(r) <= dest_end(l)
  BY Zenon, <1>2, <1>3
<1>4. r \in Nat /\ l \in Nat /\ r <= l
  BY Zenon, <1>2, <1>3, SourcesNat
<1>5. r = l \/ r < l
  BY <1>4
<1>6. /\ dest_end(r) \in Nat /\ dest_end(l) \in Nat /\ destination[l] \in Nat /\ destination[l] < dest_end(l)
  BY Zenon DEF Ends
<1>7. r < l => dest_end(r) <= destination[l]
  BY Zenon, InOrder
<1>8. r = l => dest_end(r) = dest_end(l)
  BY Zenon
<1>9. dest_end(r) <= dest_end(l)
  BY <1>5, <1>6, <1>7, <1>8
<1> QED
  BY Zenon, <1>5, <1>9

-----------------------------------------------------------------------------
(* Both kinds of plan *)

(* What the lemmas about a plan start from *)
Planned ==
  /\ live \subseteq Words /\ destination \in [Sources -> Words]
  /\ IF bda THEN FillsContainers ELSE Compacts
  /\ source_region = [d \in Regions |-> IF SetsSource(d) = {} THEN 0
                                     ELSE CHOOSE r \in SetsSource(d) : TRUE]

(* Data moves left (summarize of the general space) or by the rules of a   *)
(* bda space.                                                              *)
LEMMA SizesHold == ASSUME Planned PROVE PlanSizes
<1> SUFFICES ASSUME NEW r \in Sources
             PROVE /\ data_size(r) \in Nat /\ 0 < data_size(r) /\ data_size(r) <= RegionSize
                   /\ destination[r] \in Words /\ destination[r] <= region_to_addr(r)
  BY Zenon DEF PlanSizes
<1>1. data_size(r) \in Nat /\ data_size(r) <= RegionSize /\ data_size(r) > 0
  BY Zenon, DataSize DEF Sources
<1>2. destination[r] \in Words
  BY Zenon DEF Planned
<1>3. destination[r] <= region_to_addr(r)
  <2>1. CASE bda
    BY Zenon, <2>1 DEF Planned, FillsContainers
  <2>2. CASE ~ bda
    BY Zenon, <2>2, EndsHold, ToTheLeft DEF Planned
  <2> QED BY Zenon, <2>1, <2>2
<1>4. 0 < data_size(r)
  BY <1>1
<1> QED
  BY Zenon, <1>1, <1>2, <1>3, <1>4

(* No two regions have data that goes to the same address. *)
LEMMA ApartHolds == ASSUME Planned PROVE PlanApart
<1>1. CASE bda
  BY Zenon, <1>1 DEF Planned, FillsContainers, PlanApart
<1>2. CASE ~ bda
  <2> SUFFICES ASSUME NEW r \in Sources, NEW q \in Sources, r < q PROVE MovesTo(r) \cap MovesTo(q) = {}
    <3>1. \A r, q \in Sources : r < q \/ q < r \/ r = q
      BY SourcesNat
    <3> QED BY Zenon, <3>1 DEF PlanApart
  <2>1. dest_end(r) <= destination[q]
    BY Zenon, <1>2, EndsHold, InOrder DEF Planned
  <2>2. destination[r] \in Nat /\ dest_end(r) \in Nat /\ destination[q] \in Nat /\ dest_end(q) \in Nat
    BY Zenon, EndsHold DEF Planned, Ends
  <2> QED BY <2>1, <2>2 DEF MovesTo
<1> QED
  BY Zenon, <1>1, <1>2

(* Tops of a bda space *)
LEMMA ContainerTops ==
  ASSUME Planned, bda
  PROVE  /\ \A c \in Numbers : top[c] = container_start(c) + Cardinality(MovesInto(c))
         /\ \A c \in Numbers : MovesInto(c) = container_start(c)..(top[c] - 1)
         /\ \A c \in Numbers : Cardinality(MovesInto(c)) \in Nat
<1>1. \A c \in Numbers : MovesInto(c) = container_start(c)..(top[c] - 1)
  BY Zenon DEF Planned, FillsContainers
<1>2. \A c \in Numbers : top[c] = container_start(c) + Cardinality(MovesInto(c))
  BY Zenon DEF Planned, FillsContainers
<1>3. ASSUME NEW c \in Numbers PROVE Cardinality(MovesInto(c)) \in Nat
  <2>1. PICK m \in Nat : m = ContainerRegions * Containers
    BY Zenon, SourcesNat
  <2>2. PICK n \in Nat : n = region_to_addr(m + 1)
    <3>1. m + 1 \in Nat
      OBVIOUS
    <3> QED BY Zenon, <3>1, RegionStep
  <2>3. ASSUME NEW r \in Sources PROVE MovesTo(r) \subseteq 0..n
    <3>1. r \in Nat /\ r <= m
      BY <2>1 DEF Sources, Regions
    <3>2. r < m + 1 /\ m + 1 \in Nat
      BY <3>1
    <3>3. region_to_addr(r + 1) <= n
      BY Zenon, <2>2, <3>1, <3>2, RegionMono
    <3>4. region_to_addr(r + 1) = region_to_addr(r) + RegionSize /\ region_to_addr(r) \in Nat
      BY Zenon, <3>1, RegionStep
    <3>5. destination[r] \in Nat /\ dest_end(r) \in Nat /\ dest_end(r) <= destination[r] + RegionSize
      BY Zenon, EndsHold DEF Planned, Ends
    <3>6. destination[r] <= region_to_addr(r)
      BY Zenon DEF Planned, FillsContainers
    <3>7. dest_end(r) <= n
      BY <3>3, <3>4, <3>5, <3>6, FillAssumption
    <3> QED BY <3>5, <3>7 DEF MovesTo
  <2>4. MovesInto(c) \subseteq 0..n
    BY Zenon, <2>3 DEF MovesInto
  <2>5. 0 \in Int /\ n \in Int
    OBVIOUS
  <2>6. IsFiniteSet(0..n)
    BY Zenon, <2>5, FS_Interval
  <2> QED BY Zenon, <2>4, <2>6, FS_Subset, FS_CardinalityType
<1> QED
  BY Zenon, <1>1, <1>2, <1>3

(* Every container has a new top. *)
LEMMA TopsAreInt == ASSUME Planned, NEW d \in Regions PROVE top[container(d)] \in Nat /\ container(d) \in Numbers
<1>1. container(d) \in Numbers /\ container_start(container(d)) \in Nat
  BY Zenon, ContainerOf
<1>2. CASE bda
  <2>1. /\ top[container(d)] = container_start(container(d)) + Cardinality(MovesInto(container(d)))
        /\ Cardinality(MovesInto(container(d))) \in Nat
    BY Zenon, <1>1, <1>2, ContainerTops
  <2>2. \A x, y \in Nat : x + y \in Nat
    OBVIOUS
  <2> QED BY Zenon, <1>1, <2>1, <2>2
<1>3. CASE ~ bda
  <2>1. top[container(d)] = IF Sources = {} THEN SpaceStart ELSE dest_end(LastSource)
    BY Zenon, <1>1, <1>3 DEF Planned, Compacts
  <2>2. SpaceStart \in Nat
    BY FillAssumption DEF SpaceStart, region_to_addr
  <2>3. Sources # {} => dest_end(LastSource) \in Nat
    BY Zenon, <1>3, TheLast, EndsHold DEF Planned, Ends
  <2> QED BY Zenon, <1>1, <2>1, <2>2, <2>3
<1> QED
  BY Zenon, <1>2, <1>3

(* All that moves to a container is between its start and its new top, *)
LEMMA BelowTop ==
  ASSUME Planned, NEW r \in Sources, NEW d \in Receives(r), NEW a \in MovesTo(r)
  PROVE  d \in Regions /\ a < top[container(d)] /\ (bda => start_of(d) <= a)
<1>1. PlanSizes
  BY Zenon, SizesHold
<1>2. d \in Regions
  BY Zenon, <1>1, DestRegions DEF Receives
<1>3. top[container(d)] \in Nat /\ container(d) \in Numbers /\ container_start(container(d)) \in Nat
  BY Zenon, <1>2, TopsAreInt, ContainerOf
<1>4. CASE bda
  <2>1. container(d) = container(dest_region_1(r))
    BY Zenon, <1>4 DEF Planned, FillsContainers, Receives
  <2>2. a \in MovesInto(container(d))
    BY Zenon, <2>1 DEF MovesInto
  <2>3. a \in container_start(container(d))..(top[container(d)] - 1)
    BY Zenon, <1>3, <1>4, <2>2, ContainerTops
  <2>4. container_start(container(d)) <= a /\ a < top[container(d)]
    BY <1>3, <2>3
  <2> QED BY Zenon, <1>2, <2>4 DEF start_of
<1>5. CASE ~ bda
  <2>1. top[container(d)] = dest_end(LastSource)
    BY Zenon, <1>3, <1>5 DEF Planned, Compacts
  <2>2. dest_end(r) <= dest_end(LastSource) /\ LastSource \in Sources
    BY Zenon, <1>5, TheLast, EndsHold DEF Planned
  <2>3. destination[r] \in Nat /\ dest_end(r) \in Nat /\ dest_end(LastSource) \in Nat
    BY Zenon, <2>2, EndsHold DEF Planned, Ends
  <2>4. a < dest_end(LastSource)
    BY <2>2, <2>3 DEF MovesTo
  <2> QED BY Zenon, <1>2, <1>5, <2>1, <2>4
<1> QED
  BY Zenon, <1>4, <1>5

(* and all of that is filled. *)
LEMMA Covers ==
  ASSUME Planned, NEW d \in Regions, NEW a \in WordsOf(d), a < top[container(d)]
  PROVE  \E r \in Sources : a \in MovesTo(r) /\ (bda => container(dest_region_1(r)) = container(d))
<1>1. d \in Nat /\ d >= 1
  BY Zenon, RegionsNat
<1>2. a \in Nat /\ region_to_addr(d) <= a /\ region_to_addr(d) \in Nat
  BY Zenon, <1>1, InRegion, RegionStep
<1>3. /\ top[container(d)] \in Nat /\ container(d) \in Numbers /\ container_start(container(d)) \in Nat
      /\ container_start(container(d)) <= region_to_addr(d)
  BY Zenon, TopsAreInt, ContainerOf
<1>4. CASE bda
  <2>1. a \in container_start(container(d))..(top[container(d)] - 1)
    BY <1>2, <1>3
  <2>2. a \in MovesInto(container(d))
    BY Zenon, <1>3, <1>4, <2>1, ContainerTops
  <2> QED BY Zenon, <2>2 DEF MovesInto
<1>5. CASE ~ bda
  <2>1. SpaceStart <= region_to_addr(d) /\ SpaceStart \in Nat
    <3>1. 1 \in Nat /\ (1 < d => region_to_addr(1 + 1) <= region_to_addr(d))
      BY Zenon, <1>1, RegionMono
    <3>2. region_to_addr(1 + 1) = region_to_addr(1) + RegionSize /\ region_to_addr(1) \in Nat
      BY Zenon, <3>1, RegionStep
    <3>3. 1 = d => region_to_addr(1) = region_to_addr(d)
      BY Zenon
    <3>4. region_to_addr(1) <= region_to_addr(d)
      BY <1>1, <1>2, <3>1, <3>2, <3>3, FillAssumption
    <3> QED BY Zenon, <3>2, <3>4 DEF SpaceStart
  <2>2. SpaceStart <= a /\ ~ (a < SpaceStart)
    BY <1>2, <2>1
  <2>3. top[container(d)] = IF Sources = {} THEN SpaceStart ELSE dest_end(LastSource)
    BY Zenon, <1>3, <1>5 DEF Planned, Compacts
  <2>4. Sources # {} /\ a < dest_end(LastSource)
    BY Zenon, <2>2, <2>3
  <2>5. LastSource \in Sources /\ Ends
    BY Zenon, <1>5, <2>4, TheLast, EndsHold DEF Planned
  <2>6. PICK l \in Sources : a < dest_end(l)
    BY Zenon, <2>4, <2>5
  <2>7. Compacts
    BY Zenon, <1>5 DEF Planned
  <2>8. \E r \in Sources : a \in MovesTo(r)
    BY Zenon, <1>2, <2>2, <2>5, <2>6, <2>7, NoGap
  <2> QED BY Zenon, <1>5, <2>8
<1> QED
  BY Zenon, <1>4, <1>5

(* All that a region receives is below the new top of its container. *)
LEMMA TopsHold == ASSUME Planned PROVE PlanTops
<1>1. \A d \in Regions : top[container(d)] \in Int
  <2>1. \A x \in Nat : x \in Int
    OBVIOUS
  <2> QED BY Zenon, <2>1, TopsAreInt
<1>2. \A r \in Sources : \A d \in Receives(r) : d \in Regions
  BY Zenon, SizesHold, DestRegions DEF Receives
<1>3. \A r \in Sources : \A d \in Receives(r) : \A a \in MovesTo(r) : a < top[container(d)]
  BY Zenon, BelowTop
<1> QED
  BY Zenon, <1>1, <1>2, <1>3 DEF PlanTops

(* next_src_region finds the region whose data continues where the last    *)
(* one's ended.                                                            *)
LEMMA ContinuesHold == ASSUME Planned PROVE PlanContinues
<1> SUFFICES ASSUME NEW r \in Sources, NEW d \in Regions, dest_end(r) \in WordsOf(d), dest_end(r) < top[container(d)]
             PROVE  /\ NextSources(r, dest_end(r)) # {}
                    /\ \A q \in NextSources(r, dest_end(r)) : q \in Sources /\ destination[q] = dest_end(r)
  BY Zenon DEF PlanContinues
<1>1. PlanSizes /\ PlanApart /\ Ends
  BY Zenon, SizesHold, ApartHolds, EndsHold DEF Planned
<1>2. PICK q \in Sources : dest_end(r) \in MovesTo(q)
  BY Zenon, Covers
<1>3. /\ destination[r] \in Nat /\ dest_end(r) \in Nat /\ destination[r] < dest_end(r)
      /\ destination[q] \in Nat /\ dest_end(q) \in Nat
  BY Zenon, <1>1 DEF Ends
<1>4. destination[q] <= dest_end(r) /\ dest_end(r) < dest_end(q)
  BY <1>2, <1>3 DEF MovesTo
<1>5. q # r
  BY <1>3, <1>4
<1>6. CASE bda
  <2>1. destination[q] = dest_end(r)
    <3>1. dest_end(r) - 1 \in MovesTo(r)
      BY <1>3 DEF MovesTo
    <3>2. dest_end(r) - 1 \notin MovesTo(q)
      BY Zenon, <1>1, <1>5, <3>1 DEF PlanApart
    <3> QED BY <1>3, <1>4, <3>2 DEF MovesTo
  <2>2. q \in NextSources(r, dest_end(r))
    BY Zenon, <1>5, <1>6, <2>1 DEF NextSources
  <2>3. \A p \in NextSources(r, dest_end(r)) : p \in Sources /\ destination[p] = dest_end(r)
    BY Zenon, <1>6 DEF NextSources
  <2> QED BY Zenon, <2>2, <2>3
<1>7. CASE ~ bda
  <2>1. Compacts
    BY Zenon, <1>7 DEF Planned
  <2>2. r < q
    <3>1. r \in Nat /\ q \in Nat
      BY Zenon, SourcesNat
    <3>2. q < r => dest_end(q) <= destination[r]
      BY Zenon, <1>1, <2>1, InOrder
    <3> QED BY <1>3, <1>4, <1>5, <3>1, <3>2
  <2>3. PICK p \in Sources : NextSource(r, p)
    BY Zenon, <2>2, SourceAfter
  <2>4. \A x \in Sources : x > r <=> r < x
    BY SourcesNat
  <2>5. \A x \in Sources : r < x => ~ (x <= r)
    BY SourcesNat
  <2>6. p \in NextSources(r, dest_end(r))
    BY Zenon, <1>7, <2>3, <2>4, <2>5 DEF NextSources, NextSource
  <2>7. ASSUME NEW x \in NextSources(r, dest_end(r)) PROVE x \in Sources /\ destination[x] = dest_end(r)
    <3>1. x \in Sources /\ x > r /\ \A y \in Sources : y > r => x <= y
      BY Zenon, <1>7, <2>7 DEF NextSources
    <3>2. r < x
      BY Zenon, <2>4, <3>1
    <3>3. \A y \in Sources : y <= r \/ r < y
      BY SourcesNat
    <3>4. \A y \in Sources : y <= r \/ x <= y
      BY Zenon, <2>4, <3>1, <3>3
    <3>5. NextSource(r, x)
      BY Zenon, <3>2, <3>4 DEF NextSource
    <3> QED BY Zenon, <2>1, <3>1, <3>5 DEF Compacts
  <2> QED BY Zenon, <2>6, <2>7
<1> QED
  BY Zenon, <1>6, <1>7

(* The source of a region below the top was set. *)
LEMMA SourceSet ==
  ASSUME Planned, NEW d \in Regions, region_to_addr(d) < top[container(d)]
  PROVE  source_region[d] \in SetsSource(d)
<1>1. d \in Nat
  BY Zenon, RegionsNat
<1>2. region_to_addr(d) \in Nat /\ region_to_addr(d) <= region_to_addr(d) /\ region_to_addr(d) < region_to_addr(d + 1)
  <2>1. region_to_addr(d) \in Nat /\ region_to_addr(d + 1) = region_to_addr(d) + RegionSize
    BY Zenon, <1>1, RegionStep
  <2> QED BY <2>1, FillAssumption
<1>3. region_to_addr(d) \in WordsOf(d)
  BY Zenon, <1>1, <1>2, WordsIn
<1>4. PICK r \in Sources : region_to_addr(d) \in MovesTo(r)
  BY Zenon, <1>3, Covers
<1>5. r \in SetsSource(d)
  BY Zenon, <1>4, SizesHold, SourceAt
<1>6. source_region[d] = CHOOSE x \in SetsSource(d) : TRUE
  BY Zenon, <1>5 DEF Planned
<1> QED
  BY Zenon, <1>5, <1>6

(* fill_region finds the first source of a region, or the region receives  *)
(* nothing.                                                                *)
LEMMA TargetsHold ==
  ASSUME Planned, ~ bda => enqueue_end = addr_to_region_idx(top[0] + RegionSize - 1) PROVE PlanTargets
<1> SUFFICES ASSUME NEW d \in Regions, d < enqueue_end
             PROVE  /\ NothingToFill(d) => \A r \in Sources : d \notin Receives(r)
                    /\ ~ NothingToFill(d) => source_region[d] \in SetsSource(d) /\ region_to_addr(d) < top[container(d)]
  BY Zenon DEF PlanTargets
<1>0. d \in Nat /\ d >= 1
  BY Zenon, RegionsNat
<1>1. region_to_addr(d) \in Nat /\ top[container(d)] \in Nat
  BY Zenon, <1>0, RegionStep, TopsAreInt
<1>2. ASSUME NothingToFill(d), NEW r \in Sources, d \in Receives(r) PROVE FALSE
  <2>1. PICK a \in MovesTo(r) : a \in WordsOf(d)
    <3>1. /\ destination[r] \in Nat /\ dest_end(r) \in Nat /\ destination[r] < dest_end(r)
          /\ destination[r] \in WordsOf(dest_region_1(r)) /\ dest_end(r) - 1 \in WordsOf(dest_region_2(r))
      BY Zenon, SizesHold, DestRegions
    <3>2. destination[r] \in MovesTo(r) /\ dest_end(r) - 1 \in MovesTo(r)
      BY <3>1 DEF MovesTo
    <3> QED BY Zenon, <1>2, <3>1, <3>2 DEF Receives
  <2>2. bda
    BY Zenon, <1>2 DEF NothingToFill
  <2>3. a < top[container(d)] /\ region_to_addr(d) <= a /\ a \in Nat
    BY Zenon, <1>0, <1>2, <2>1, BelowTop, InRegion
  <2>4. region_to_addr(d) < top[container(d)] /\ ~ (top[container(d)] <= region_to_addr(d))
    BY <1>1, <2>3
  <2>5. PICK s \in Sources : s = source_region[d] /\ s \in SetsSource(d)
    BY Zenon, <2>4, SourceSet DEF SetsSource
  <2>6. s # 0
    BY RegionsNat DEF Sources
  <2>7. d \in Receives(s)
    BY Zenon, <2>5 DEF Receives, SetsSource
  <2>8. destination[s] \in MovesTo(s)
    <3>1. destination[s] \in Nat /\ dest_end(s) \in Nat /\ destination[s] < dest_end(s)
      BY Zenon, EndsHold DEF Planned, Ends
    <3> QED BY <3>1 DEF MovesTo
  <2>9. start_of(d) <= destination[s] /\ destination[s] < top[container(d)]
    BY Zenon, <2>2, <2>7, <2>8, BelowTop
  <2>10. destination[s] <= top[container(d)]
    <3>1. destination[s] \in Nat
      BY Zenon, EndsHold DEF Planned, Ends
    <3> QED BY <1>1, <2>9, <3>1
  <2> QED BY Zenon, <1>2, <2>4, <2>5, <2>6, <2>9, <2>10 DEF NothingToFill, is_in_container
<1>3. ASSUME ~ NothingToFill(d) PROVE region_to_addr(d) < top[container(d)]
  <2>1. CASE bda
    <3>1. ~ (top[container(d)] <= region_to_addr(d))
      BY Zenon, <1>3, <2>1 DEF NothingToFill
    <3> QED BY <1>1, <3>1
  <2>2. CASE ~ bda
    <3>1. 0 \in Numbers /\ container(d) \in Numbers
      <4>1. 0 \in Numbers
        BY FillAssumption DEF Numbers
      <4> QED BY Zenon, <4>1, ContainerOf
    <3>2. top[0] = top[container(d)]
      BY Zenon, <2>2, <3>1 DEF Planned, Compacts
    <3>3. PICK t \in Nat : t = top[container(d)]
      BY Zenon, <1>1
    <3>4. PICK a \in Nat : a = t + RegionSize - 1
      <4>1. t + RegionSize - 1 \in Nat
        BY FillAssumption
      <4> QED BY Zenon, <4>1
    <3>5. PICK e \in Nat : e = enqueue_end /\ region_to_addr(e) <= a
      BY Zenon, <2>2, <3>2, <3>3, <3>4, RegionOf
    <3>6. region_to_addr(d + 1) <= region_to_addr(e) /\ region_to_addr(e) \in Nat
      BY Zenon, <1>0, <3>5, RegionMono, RegionStep
    <3>7. region_to_addr(d + 1) = region_to_addr(d) + RegionSize
      BY Zenon, <1>0, RegionStep
    <3>8. region_to_addr(d) < t
      BY <1>1, <3>4, <3>5, <3>6, <3>7, FillAssumption
    <3> QED BY Zenon, <3>3, <3>8
  <2> QED BY Zenon, <2>1, <2>2
<1> QED
  BY Zenon, <1>2, <1>3, SourceSet

(* All that is received lies in regions that are filled. *)
LEMMA EndsAbove ==
  ASSUME Planned, ~ bda => enqueue_end = addr_to_region_idx(top[0] + RegionSize - 1),
         bda => enqueue_end = IF live = {} THEN 1
                  ELSE (Max({container(dest_region_1(r)) : r \in Sources}) + 1) * ContainerRegions + 1
  PROVE  PlanEnds
<1> SUFFICES ASSUME NEW r \in Sources, NEW d \in Receives(r) PROVE d < enqueue_end
  BY Zenon DEF PlanEnds
<1>1. PICK a \in MovesTo(r) : a \in WordsOf(d)
  <2>1. /\ destination[r] \in Nat /\ dest_end(r) \in Nat /\ destination[r] < dest_end(r)
        /\ destination[r] \in WordsOf(dest_region_1(r)) /\ dest_end(r) - 1 \in WordsOf(dest_region_2(r))
    BY Zenon, SizesHold, DestRegions
  <2>2. destination[r] \in MovesTo(r) /\ dest_end(r) - 1 \in MovesTo(r)
    BY <2>1 DEF MovesTo
  <2> QED BY Zenon, <2>1, <2>2 DEF Receives
<1>2. d \in Regions /\ a < top[container(d)]
  BY Zenon, BelowTop
<1>3. d \in Nat /\ d >= 1 /\ top[container(d)] \in Nat
  BY Zenon, <1>2, RegionsNat, TopsAreInt
<1>4. CASE ~ bda
  <2>1. 0 \in Numbers /\ container(d) \in Numbers
    <3>1. 0 \in Numbers
      BY FillAssumption DEF Numbers
    <3> QED BY Zenon, <1>2, <3>1, ContainerOf
  <2>2. top[0] = top[container(d)]
    BY Zenon, <1>4, <2>1 DEF Planned, Compacts
  <2>3. PICK t \in Nat : t = top[container(d)]
    BY Zenon, <1>3
  <2>4. PICK b \in Nat : b = t + RegionSize - 1
    <3>1. t + RegionSize - 1 \in Nat
      BY FillAssumption
    <3> QED BY Zenon, <3>1
  <2>5. PICK e \in Nat : e = enqueue_end /\ b < region_to_addr(e + 1)
    BY Zenon, <1>4, <2>2, <2>3, <2>4, RegionOf
  <2>6. a \in Nat /\ region_to_addr(d) <= a /\ a < t
    BY Zenon, <1>1, <1>2, <1>3, <2>3, InRegion
  <2>7. /\ region_to_addr(d) \in Nat /\ region_to_addr(d + 1) = region_to_addr(d) + RegionSize
        /\ region_to_addr(e) \in Nat /\ region_to_addr(e + 1) = region_to_addr(e) + RegionSize
    BY Zenon, <1>3, RegionStep
  <2>8. e < d => region_to_addr(e + 1) <= region_to_addr(d)
    BY Zenon, <1>3, RegionMono
  <2>9. e = d => region_to_addr(e + 1) = region_to_addr(d + 1)
    BY Zenon
  <2>10. ~ (e < d) /\ e # d
    BY <2>4, <2>5, <2>6, <2>7, <2>8, <2>9, FillAssumption
  <2>11. d < e
    BY <1>3, <2>10
  <2> QED BY Zenon, <2>5, <2>11
<1>5. CASE bda
  <2>1. live # {}
    <3> SUFFICES ASSUME live = {} PROVE FALSE
      BY Zenon
    <3>1. data(r) = {}
      BY Zenon DEF data
    <3>2. data_size(r) = 0 /\ data_size(r) > 0
      BY Zenon, <3>1, FS_EmptySet DEF data_size, Sources
    <3> QED BY <3>2
  <2>2. container(d) = container(dest_region_1(r))
    BY Zenon, <1>5 DEF Planned, FillsContainers, Receives
  <2> DEFINE S == {container(dest_region_1(q)) : q \in Sources}
  <2>3. container(d) \in S
    BY Zenon, <2>2
  <2>4. \A c \in S : c \in Numbers
    <3> SUFFICES ASSUME NEW q \in Sources PROVE container(dest_region_1(q)) \in Numbers
      BY Zenon
    <3>1. dest_region_1(q) \in Regions
      BY Zenon, SizesHold, DestRegions
    <3> QED BY Zenon, <3>1, ContainerOf
  <2>5. S \subseteq 0..Containers /\ S # {} /\ Containers \in Nat
    <3>1. Numbers \subseteq 0..Containers /\ Containers \in Nat
      BY FillAssumption DEF Numbers
    <3> QED BY Zenon, <2>3, <2>4, <3>1
  <2>6. PICK m : m = Max(S)
    BY Zenon
  <2> HIDE DEF S
  <2>7. \E c \in S : \A y \in S : y <= c
    BY Zenon, <2>5, GreatestOf
  <2>8. \E c \in S : \A y \in S : c >= y
    BY <2>5, <2>7
  <2>9. m \in S /\ m >= container(d)
    BY Zenon, <2>3, <2>6, <2>8 DEF Max
  <2>10. PICK k \in Nat : k = container(d) /\ d <= k * ContainerRegions + ContainerRegions
    <3>1. PICK x \in Nat : x = d - 1
      <4>1. d - 1 \in Nat
        BY <1>3
      <4> QED BY Zenon, <4>1
    <3>2. PICK k, l : k = x \div ContainerRegions /\ l = x % ContainerRegions
      BY Zenon
    <3>3. k \in Nat /\ l \in Nat /\ l < ContainerRegions /\ x = ContainerRegions * k + l
      BY <3>2, FillAssumption
    <3>4. ContainerRegions * k = k * ContainerRegions /\ k * ContainerRegions \in Nat
      BY <3>3, FillAssumption
    <3>5. d <= k * ContainerRegions + ContainerRegions
      BY <1>3, <3>1, <3>3, <3>4, FillAssumption
    <3> QED BY Zenon, <3>1, <3>2, <3>3, <3>5 DEF container
  <2>11. m \in Nat /\ m >= k
    BY <2>5, <2>9, <2>10
  <2>12. PICK j \in Nat : m = k + j
    <3>1. m - k \in Nat /\ m = k + (m - k)
      BY <2>11
    <3> QED BY Zenon, <3>1
  <2>13. /\ (m + 1) * ContainerRegions = k * ContainerRegions + ContainerRegions + j * ContainerRegions
         /\ j * ContainerRegions \in Nat /\ k * ContainerRegions \in Nat
    BY <2>12, FillAssumption
  <2>14. d < (m + 1) * ContainerRegions + 1
    BY <1>3, <2>10, <2>13, FillAssumption
  <2>15. enqueue_end = (m + 1) * ContainerRegions + 1
    BY Zenon, <1>5, <2>1, <2>6 DEF S
  <2> QED BY Zenon, <2>14, <2>15
<1> QED
  BY Zenon, <1>4, <1>5

(* The plans of the summary phase *)
LEMMA InitPlan == Init => PlanOK
<1> SUFFICES ASSUME Init PROVE PlanOK
  BY Zenon
<1>1. Planned
  BY Zenon DEF Init, Planned
<1>2. ~ bda => enqueue_end = addr_to_region_idx(top[0] + RegionSize - 1)
  BY Zenon DEF Init, Compacts
<1>3. PlanSizes /\ PlanApart /\ PlanTops /\ PlanContinues
  BY Zenon, <1>1, SizesHold, ApartHolds, TopsHold, ContinuesHold
<1>4. bda => enqueue_end = IF live = {} THEN 1
                ELSE (Max({container(dest_region_1(r)) : r \in Sources}) + 1) * ContainerRegions + 1
  BY Zenon DEF Init, FillsContainers
<1>5. PlanTargets /\ PlanEnds
  BY Zenon, <1>1, <1>2, <1>4, TargetsHold, EndsAbove
<1> QED
  BY Zenon, <1>1, <1>3, <1>5 DEF PlanOK, Planned

-----------------------------------------------------------------------------
(* The plan does not change *)

(* Where the data of region r starts in region d *)
Part(r, d) == IF destination[r] >= region_to_addr(d) THEN destination[r] ELSE region_to_addr(d)

Fixed ==
  /\ Sources' = Sources /\ enqueue_end' = enqueue_end /\ live' = live
  /\ \A r : /\ data(r)' = data(r) /\ data_size(r)' = data_size(r) /\ dest_end(r)' = dest_end(r)
            /\ dest_region_1(r)' = dest_region_1(r) /\ dest_region_2(r)' = dest_region_2(r)
            /\ limit(r)' = limit(r) /\ destination[r]' = destination[r] /\ Receives(r)' = Receives(r)
  /\ \A r, d : Part(r, d)' = Part(r, d)
  /\ \A a : new_addr(a)' = new_addr(a)

(* What is computed from the plan stays when the plan does. *)
LEMMA PlanFixed == ASSUME UNCHANGED plan PROVE Fixed
<1>1. /\ bda' = bda /\ live' = live /\ destination' = destination /\ source_region' = source_region
      /\ top' = top /\ enqueue_end' = enqueue_end
  BY Zenon DEF plan
<1>2. \A r : data(r)' = data(r)
  BY Zenon, <1>1 DEF data
<1>3. \A r : data_size(r)' = data_size(r)
  BY Zenon, <1>2 DEF data_size
<1>4. Sources' = Sources
  BY Zenon, <1>3 DEF Sources
<1>5. \A r : dest_end(r)' = dest_end(r)
  BY Zenon, <1>1, <1>3 DEF dest_end
<1>6. \A r : dest_region_1(r)' = dest_region_1(r)
  BY Zenon, <1>1 DEF dest_region_1
<1>7. \A r : dest_region_2(r)' = dest_region_2(r)
  BY Zenon, <1>5 DEF dest_region_2
<1>8. \A r : limit(r)' = limit(r)
  BY Zenon, <1>1 DEF limit
<1>9. \A r, d : Part(r, d)' = Part(r, d)
  BY Zenon, <1>1 DEF Part
<1>10. \A a : rank(a)' = rank(a)
  BY Zenon, <1>2 DEF rank
<1>11. \A a : new_addr(a)' = new_addr(a)
  BY Zenon, <1>1, <1>10 DEF new_addr
<1>12. \A r : Receives(r)' = Receives(r)
  BY Zenon, <1>6, <1>7 DEF Receives
<1>13. \A r : destination[r]' = destination[r]
  BY Zenon, <1>1
<1> QED
  BY Zenon, <1>1, <1>2, <1>3, <1>4, <1>5, <1>6, <1>7, <1>8, <1>9, <1>11, <1>12, <1>13 DEF Fixed

(* The plan keeps its properties. *)
LEMMA PlanStays == ASSUME PlanOK, UNCHANGED plan PROVE PlanOK'
<1>0. /\ bda' = bda /\ live' = live /\ destination' = destination /\ source_region' = source_region
      /\ top' = top /\ enqueue_end' = enqueue_end
  BY Zenon DEF plan
<1>1. Fixed
  BY Zenon, PlanFixed
<1>2. \A r : MovesTo(r)' = MovesTo(r)
  BY Zenon, <1>0, <1>1 DEF MovesTo, Fixed
<1>3. \A r, a : is_in_container(r, a)' <=> is_in_container(r, a)
  BY Zenon, <1>0 DEF is_in_container
<1>4. \A r : NothingToFill(r)' <=> NothingToFill(r)
  BY Zenon, <1>0, <1>3 DEF NothingToFill
<1>5. \A r : SetsSource(r)' = SetsSource(r)
  BY Zenon, <1>0, <1>1 DEF SetsSource, Fixed
<1>6. \A r, a : NextSources(r, a)' = NextSources(r, a)
  BY Zenon, <1>0, <1>1 DEF NextSources, Fixed
<1>7. PlanSizes'
  BY Zenon, <1>0, <1>1 DEF PlanOK, PlanSizes, Fixed
<1>8. PlanApart'
  BY Zenon, <1>1, <1>2 DEF PlanOK, PlanApart, Fixed
<1>9. PlanTops'
  BY Zenon, <1>0, <1>1, <1>2 DEF PlanOK, PlanTops, Fixed
<1>10. PlanContinues'
  BY Zenon, <1>0, <1>1, <1>6 DEF PlanOK, PlanContinues, Fixed
<1>11. PlanTargets'
  BY Zenon, <1>0, <1>1, <1>4, <1>5 DEF PlanOK, PlanTargets, Fixed
<1>12. PlanEnds'
  BY Zenon, <1>1 DEF PlanOK, PlanEnds, Fixed
<1>13. live' \subseteq Words
  BY Zenon, <1>0 DEF PlanOK
<1> QED
  BY Zenon, <1>7, <1>8, <1>9, <1>10, <1>11, <1>12, <1>13 DEF PlanOK

-----------------------------------------------------------------------------
(* The invariant *)

Held(w) == pc[w] # "idle"

Fields == {"region", "src", "skip", "dest", "counts"}

Shape ==
  /\ pc = [w \in Workers |-> pc[w]]
  /\ cur = [w \in Workers |-> cur[w]]
  /\ dc = [r \in Regions |-> dc[r]]
  /\ \A w \in Workers : Fields \subseteq DOMAIN cur[w]

Claimed ==
  /\ ready \subseteq Regions
  /\ \A r \in ready : dc[r] = dc_claimed
  /\ \A w \in Workers : Held(w) =>
       /\ cur[w].region \in Regions \ ready
       /\ dc[cur[w].region] = dc_claimed
  /\ \A w, v \in Workers : w # v /\ Held(w) /\ Held(v) => cur[w].region # cur[v].region

IInv == Shape /\ Claimed

(* The worker that fills region d has taken what comes from region r, and  *)
(* counted.                                                                *)
Past(w, r, d) ==
  /\ Held(w) /\ cur[w].region = d /\ Part(r, d) < cur[w].dest
  /\ ~ (pc[w] \in {"check", "decrement"} /\ cur[w].src = r)

(* Region d has still to take from region r. *)
Waits(r, d) == dc[d] # dc_completed /\ \A w \in Workers : ~ Past(w, r, d)
First(r) == dest_region_1(r) # dest_region_2(r) /\ Waits(r, dest_region_1(r))
Second(r) == dest_region_2(r) # r /\ Waits(r, dest_region_2(r))
Left(r) == (IF First(r) THEN 1 ELSE 0) + (IF Second(r) THEN 1 ELSE 0)

CountOK(r) ==
  /\ r \in Sources => (dc[r] >= dc_claimed /\ ~ First(r) /\ ~ Second(r)) \/ dc[r] = Left(r)
  /\ dc[r] \in {0, 1, 2, dc_claimed, dc_completed}
CountsOK == \A r \in Regions : CountOK(r)

WorkerOK(w) ==
  Held(w) =>
    /\ cur[w].src \in Sources /\ cur[w].region \in Receives(cur[w].src)
    /\ pc[w] = "copy" =>
         /\ cur[w].skip \in Nat
         /\ cur[w].dest = destination[cur[w].src] + cur[w].skip /\ cur[w].dest = Part(cur[w].src, cur[w].region)
         /\ ~ cur[w].counts => cur[w].src = cur[w].region /\ dest_region_2(cur[w].src) = cur[w].region
    /\ pc[w] # "copy" => cur[w].dest = Min({dest_end(cur[w].src), limit(cur[w].region)})
    /\ pc[w] = "decrement" => cur[w].src # cur[w].region
    /\ pc[w] = "complete" => cur[w].dest = limit(cur[w].region)
WorkersOK == \A w \in Workers : WorkerOK(w)

ReadyOK == \A r \in ready : r < enqueue_end

BInv == IInv /\ PlanOK /\ ReadyOK /\ CountsOK /\ WorkersOK

-----------------------------------------------------------------------------
(* The limit of a region is below its end and below the top of its         *)
(* container.                                                              *)
LEMMA LimitIs ==
  ASSUME PlanOK, NEW d \in Regions
  PROVE  /\ limit(d) \in Int /\ limit(d) <= top[container(d)] /\ limit(d) <= region_to_addr(d + 1)
         /\ \A a \in Int : a < top[container(d)] /\ a < region_to_addr(d + 1) => a < limit(d)
<1>1. top[container(d)] \in Int
  BY Zenon DEF PlanOK, PlanTops
<1>2. region_to_addr(d + 1) \in Int
  <2>1. d + 1 \in Nat
    BY RegionsNat
  <2>2. region_to_addr(d + 1) \in Nat
    BY Zenon, <2>1, RegionStep
  <2> QED BY <2>2
<1>3. limit(d) = IF top[container(d)] <= region_to_addr(d + 1) THEN top[container(d)] ELSE region_to_addr(d + 1)
  BY Zenon, <1>1, <1>2, MinTwo DEF limit
<1> QED
  BY <1>1, <1>2, <1>3

(* What region d receives from region r starts in d, below its limit. *)
LEMMA PartIn ==
  ASSUME PlanOK, NEW r \in Sources, NEW d \in Receives(r)
  PROVE  /\ d \in Regions /\ Part(r, d) \in Nat
         /\ Part(r, d) \in MovesTo(r) /\ Part(r, d) \in WordsOf(d) /\ Part(r, d) < limit(d)
<1>1. PlanSizes
  BY Zenon DEF PlanOK
<1>2. /\ destination[r] \in Nat /\ dest_end(r) \in Nat /\ destination[r] < dest_end(r)
      /\ dest_region_1(r) \in Regions /\ dest_region_2(r) \in Regions
      /\ destination[r] \in WordsOf(dest_region_1(r)) /\ dest_end(r) - 1 \in WordsOf(dest_region_2(r))
      /\ dest_region_2(r) \in {dest_region_1(r), dest_region_1(r) + 1}
  BY Zenon, <1>1, DestRegions
<1>3. PICK x \in Nat, y \in Nat : x = dest_region_1(r) /\ y = dest_region_2(r)
  BY Zenon, <1>2, RegionsNat
<1>4. d \in Regions /\ d \in Nat /\ (d = x \/ d = y)
  BY Zenon, <1>2, <1>3, RegionsNat DEF Receives
<1>5. /\ region_to_addr(x) <= destination[r] /\ destination[r] < region_to_addr(x + 1)
      /\ region_to_addr(y) <= dest_end(r) - 1 /\ dest_end(r) - 1 < region_to_addr(y + 1)
  BY Zenon, <1>2, <1>3, InRegion
<1>6. region_to_addr(d) \in Nat /\ region_to_addr(d + 1) = region_to_addr(d) + RegionSize
  BY Zenon, <1>4, RegionStep
<1>7. PICK p : p = Part(r, d)
  BY Zenon
<1>8. CASE destination[r] >= region_to_addr(d)
  <2>1. p = destination[r]
    BY Zenon, <1>7, <1>8 DEF Part
  <2>2. destination[r] < region_to_addr(d + 1)
    <3>1. CASE d = x
      BY Zenon, <1>5, <3>1
    <3>2. CASE d = y /\ d # x
      <4>1. d = x + 1
        BY Zenon, <1>2, <1>3, <3>2
      <4>2. destination[r] < region_to_addr(d)
        BY Zenon, <1>5, <4>1
      <4> QED BY <1>2, <1>6, <4>2, FillAssumption
    <3> QED BY Zenon, <1>4, <3>1, <3>2
  <2>3. p \in Nat /\ region_to_addr(d) <= p /\ p < region_to_addr(d + 1) /\ destination[r] <= p /\ p <= dest_end(r) - 1
    BY <1>2, <1>6, <1>8, <2>1, <2>2
  <2> QED BY <1>2, <1>4, <1>6, <1>7, <2>3, WordsIn, LimitIs DEF PlanOK, PlanTops, MovesTo
<1>9. CASE ~ (destination[r] >= region_to_addr(d))
  <2>1. p = region_to_addr(d)
    BY Zenon, <1>7, <1>9 DEF Part
  <2>2. d = y
    <3>1. d # x
      <4>1. d = x => region_to_addr(d) <= destination[r]
        BY Zenon, <1>5
      <4> QED BY <1>2, <1>6, <1>9, <4>1
    <3> QED BY Zenon, <1>4, <3>1
  <2>3. region_to_addr(d) <= dest_end(r) - 1
    BY Zenon, <1>5, <2>2
  <2>4. p \in Nat /\ region_to_addr(d) <= p /\ p < region_to_addr(d + 1) /\ destination[r] <= p /\ p <= dest_end(r) - 1
    BY <1>2, <1>6, <1>9, <2>1, <2>3, FillAssumption
  <2> QED BY <1>2, <1>4, <1>6, <1>7, <2>4, WordsIn, LimitIs DEF PlanOK, PlanTops, MovesTo
<1> QED
  BY Zenon, <1>8, <1>9

(* Only worker w moves. *)
Only(w) == \A v \in Workers \ {w} : pc'[v] = pc[v] /\ cur'[v] = cur[v]

(* A region goes on waiting for a source when nothing about it has         *)
(* changed.                                                                *)
LEMMA WaitsSame ==
  ASSUME Fixed, NEW w \in Workers, Only(w), NEW r, NEW d,
         dc'[d] = dc_completed <=> dc[d] = dc_completed, Past(w, r, d)' <=> Past(w, r, d)
  PROVE  Waits(r, d)' <=> Waits(r, d)
<1>1. \A v \in Workers : Past(v, r, d)' <=> Past(v, r, d)
  <2> SUFFICES ASSUME NEW v \in Workers, v # w PROVE Past(v, r, d)' <=> Past(v, r, d)
    BY Zenon
  <2>1. pc'[v] = pc[v] /\ cur'[v] = cur[v] /\ Part(r, d)' = Part(r, d)
    BY Zenon DEF Only, Fixed
  <2> QED BY Zenon, <2>1 DEF Past, Held
<1> QED
  BY Zenon, <1>1 DEF Waits

(* A count goes on being right when nobody has counted for it. *)
LEMMA CountSame ==
  ASSUME Fixed, NEW r, CountOK(r), dc'[r] = dc[r],
         r \in Sources => (First(r)' <=> First(r)) /\ (Second(r)' <=> Second(r))
  PROVE  CountOK(r)'
<1>1. r \in Sources => Left(r)' = Left(r)
  BY Zenon DEF Left
<1>2. Sources' = Sources
  BY Zenon DEF Fixed
<1> QED
  BY Zenon, <1>1, <1>2 DEF CountOK

(* What is left of a region's data, from what its destinations wait for *)
LEMMA FirstSecond ==
  ASSUME Fixed, NEW r, \A d \in Receives(r) : Waits(r, d)' <=> Waits(r, d)
  PROVE  (First(r)' <=> First(r)) /\ (Second(r)' <=> Second(r))
<1>1. dest_region_1(r)' = dest_region_1(r) /\ dest_region_2(r)' = dest_region_2(r)
  BY Zenon DEF Fixed
<1>2. PICK x, y : x = dest_region_1(r) /\ y = dest_region_2(r)
  BY Zenon
<1>3. (Waits(r, x)' <=> Waits(r, x)) /\ (Waits(r, y)' <=> Waits(r, y))
  BY Zenon, <1>2 DEF Receives
<1>4. First(r)' <=> x # y /\ Waits(r, x)'
  BY Zenon, <1>1, <1>2 DEF First
<1>5. Second(r)' <=> y # r /\ Waits(r, y)'
  BY Zenon, <1>1, <1>2 DEF Second
<1> QED
  BY Zenon, <1>2, <1>3, <1>4, <1>5 DEF First, Second

(* Workers that make no step keep their part of the invariant. *)
LEMMA WorkerSame ==
  ASSUME Fixed, NEW v, WorkerOK(v), pc'[v] = pc[v], cur'[v] = cur[v]
  PROVE  WorkerOK(v)'
<1>1. /\ Sources' = Sources /\ Receives(cur[v].src)' = Receives(cur[v].src)
      /\ destination[cur[v].src]' = destination[cur[v].src]
      /\ Part(cur[v].src, cur[v].region)' = Part(cur[v].src, cur[v].region)
      /\ dest_region_2(cur[v].src)' = dest_region_2(cur[v].src)
      /\ dest_end(cur[v].src)' = dest_end(cur[v].src) /\ limit(cur[v].region)' = limit(cur[v].region)
  BY Zenon DEF Fixed
<1> QED
  BY Zenon, <1>1 DEF WorkerOK, Held

(* A worker that has to count is waited for. *)
LEMMA Waiting ==
  ASSUME BInv, NEW w \in Workers, pc[w] \in {"check", "decrement"}
  PROVE  Waits(cur[w].src, cur[w].region)
<1>1. Held(w) /\ dc[cur[w].region] = dc_claimed
  BY Zenon DEF BInv, IInv, Claimed, Held
<1>2. dc[cur[w].region] # dc_completed
  BY <1>1 DEF dc_claimed, dc_completed
<1>3. ASSUME NEW v \in Workers, Past(v, cur[w].src, cur[w].region) PROVE FALSE
  <2>1. CASE v = w
    BY Zenon, <1>3, <2>1 DEF Past
  <2>2. CASE v # w
    BY Zenon, <1>1, <1>3, <2>2 DEF BInv, IInv, Claimed, Past
  <2> QED BY Zenon, <2>1, <2>2
<1> QED
  BY Zenon, <1>2, <1>3 DEF Waits

(* The count of the source region of a worker that is about to decrement   *)
LEMMA Countable ==
  ASSUME BInv, NEW w \in Workers, pc[w] \in {"check", "decrement"}, cur[w].src # cur[w].region
  PROVE  /\ cur[w].src \in Sources /\ dc[cur[w].src] = Left(cur[w].src) /\ dc[cur[w].src] \in 1..2
         /\ cur[w].region = dest_region_2(cur[w].src) => Second(cur[w].src)
         /\ cur[w].region # dest_region_2(cur[w].src) =>
              First(cur[w].src) /\ cur[w].region = dest_region_1(cur[w].src)
<1>1. Held(w)
  BY Zenon DEF Held
<1>2. PICK r, d : r = cur[w].src /\ d = cur[w].region
  BY Zenon
<1>3. r \in Sources /\ d \in Receives(r) /\ Waits(r, d)
  BY Zenon, <1>1, <1>2, Waiting DEF BInv, WorkersOK, WorkerOK
<1>4. d = dest_region_2(r) => Second(r)
  BY Zenon, <1>2, <1>3 DEF Second
<1>5. d # dest_region_2(r) => First(r) /\ d = dest_region_1(r)
  BY Zenon, <1>3 DEF First, Receives
<1>6. r \in Regions /\ CountOK(r)
  BY Zenon, <1>3, SourcesNat DEF BInv, CountsOK
<1>7. dc[r] = Left(r)
  BY Zenon, <1>3, <1>4, <1>5, <1>6 DEF CountOK
<1>8. Left(r) \in 1..2
  BY <1>4, <1>5 DEF Left
<1> QED
  BY Zenon, <1>2, <1>3, <1>4, <1>5, <1>7, <1>8

(* Where a worker goes on when its region is not full *)
LEMMA GoesOn ==
  ASSUME BInv, NEW w \in Workers, Held(w), pc[w] # "copy", cur[w].dest # limit(cur[w].region)
  PROVE  /\ cur[w].dest = dest_end(cur[w].src) /\ cur[w].region \in Regions
         /\ cur[w].dest \in WordsOf(cur[w].region)
         /\ NextSources(cur[w].src, cur[w].dest) # {}
         /\ \A q \in NextSources(cur[w].src, cur[w].dest) : q \in Sources /\ destination[q] = cur[w].dest
<1>1. PICK r, d, a : r = cur[w].src /\ d = cur[w].region /\ a = cur[w].dest
  BY Zenon
<1>2. r \in Sources /\ d \in Receives(r) /\ a = Min({dest_end(r), limit(d)}) /\ a # limit(d)
  BY Zenon, <1>1 DEF BInv, WorkersOK, WorkerOK
<1>3. PlanOK /\ PlanSizes /\ PlanContinues
  BY Zenon DEF BInv, PlanOK
<1>4. d \in Regions /\ Part(r, d) \in Nat /\ Part(r, d) \in MovesTo(r) /\ Part(r, d) \in WordsOf(d)
  BY Zenon, <1>2, <1>3, PartIn
<1>5. limit(d) \in Int /\ limit(d) <= top[container(d)] /\ limit(d) <= region_to_addr(d + 1) /\ top[container(d)] \in Int
  BY Zenon, <1>3, <1>4, LimitIs DEF PlanOK, PlanTops
<1>6. destination[r] \in Nat /\ dest_end(r) \in Nat
  BY Zenon, <1>2, <1>3, DestRegions
<1>7. dest_end(r) \in Int
  BY <1>6
<1>8. a = IF dest_end(r) <= limit(d) THEN dest_end(r) ELSE limit(d)
  BY Zenon, <1>2, <1>5, <1>7, MinTwo
<1>9. a = dest_end(r) /\ dest_end(r) < limit(d)
  BY <1>2, <1>5, <1>6, <1>8
<1>10. d \in Nat /\ d + 1 \in Nat
  BY <1>4, RegionsNat
<1>11. region_to_addr(d) <= Part(r, d) /\ region_to_addr(d) \in Nat /\ region_to_addr(d + 1) \in Nat
  BY Zenon, <1>4, <1>10, InRegion, RegionStep
<1>12. Part(r, d) < dest_end(r)
  BY <1>4, <1>6 DEF MovesTo
<1>13. a \in Nat /\ region_to_addr(d) <= a /\ a < region_to_addr(d + 1) /\ a < top[container(d)]
  BY <1>4, <1>5, <1>6, <1>9, <1>11, <1>12
<1>14. a \in WordsOf(d)
  BY Zenon, <1>10, <1>13, WordsIn
<1>15. /\ NextSources(r, a) # {}
       /\ \A q \in NextSources(r, a) : q \in Sources /\ destination[q] = a
  BY Zenon, <1>2, <1>3, <1>4, <1>9, <1>13, <1>14 DEF PlanContinues
<1> QED
  BY Zenon, <1>1, <1>4, <1>9, <1>14, <1>15

(* The assertions of the code *)
LEMMA CountsFollow == BInv => CountsHold
<1> SUFFICES ASSUME BInv, NEW w \in Workers
             PROVE  /\ pc[w] = "decrement" => dc[cur[w].src] \in 1..2
                    /\ pc[w] # "idle" => cur[w].src \in Sources
                    /\ pc[w] = "claim" /\ cur[w].dest < limit(cur[w].region) =>
                         NextSources(cur[w].src, cur[w].dest) # {}
  BY Zenon DEF CountsHold
<1>1. pc[w] # "idle" => cur[w].src \in Sources
  BY Zenon DEF BInv, WorkersOK, WorkerOK, Held
<1>2. ASSUME pc[w] = "decrement" PROVE dc[cur[w].src] \in 1..2
  <2>1. cur[w].src # cur[w].region
    BY Zenon, <1>2 DEF BInv, WorkersOK, WorkerOK, Held
  <2> QED BY Zenon, <1>2, <2>1, Countable
<1>3. ASSUME pc[w] = "claim", cur[w].dest < limit(cur[w].region) PROVE NextSources(cur[w].src, cur[w].dest) # {}
  <2>1. Held(w) /\ pc[w] # "copy"
    BY Zenon, <1>3 DEF Held
  <2>2. PICK l, a : l = limit(cur[w].region) /\ a = cur[w].dest
    BY Zenon
  <2>3. l \in Int
    BY Zenon, <2>1, <2>2, LimitIs DEF BInv, IInv, Claimed
  <2>4. a = l => a \in Int
    BY Zenon, <2>3
  <2>5. a # l
    BY <1>3, <2>2, <2>3, <2>4
  <2> QED BY Zenon, <2>1, <2>2, <2>5, GoesOn
<1> QED
  BY Zenon, <1>1, <1>2, <1>3

-----------------------------------------------------------------------------
(* Init *)
LEMMA InitInv == Init => BInv
<1> SUFFICES ASSUME Init PROVE BInv
  BY Zenon
<1>1. Shape
  <2>1. Fields \subseteq DOMAIN NoRegion
    BY DEF Fields, NoRegion
  <2>2. pc = [w \in Workers |-> "idle"] /\ cur = [w \in Workers |-> NoRegion]
    BY Zenon DEF Init
  <2>3. dc = [r \in Regions |-> IF r \in ready THEN dc_claimed ELSE destination_count(r)]
    BY Zenon DEF Init
  <2>4. dc = [r \in Regions |-> dc[r]]
    BY <2>3
  <2>5. pc = [w \in Workers |-> pc[w]] /\ cur = [w \in Workers |-> cur[w]]
    BY <2>2
  <2> QED BY Zenon, <2>1, <2>2, <2>4, <2>5 DEF Shape
<1>2. Claimed
  BY Zenon DEF Init, Claimed, Held
<1>3. PlanOK
  BY Zenon, InitPlan
<1>4. ReadyOK
  BY Zenon DEF Init, ReadyOK
<1>5. WorkersOK
  BY Zenon DEF Init, WorkersOK, WorkerOK, Held
<1>6. CountsOK
  <2> SUFFICES ASSUME NEW r \in Regions PROVE CountOK(r)
    BY Zenon DEF CountsOK
  <2>1. dc[r] = IF r \in ready THEN dc_claimed ELSE destination_count(r)
    BY Zenon DEF Init
  <2>2. r \in ready => destination_count(r) = 0
    BY Zenon DEF Init
  <2>3. \A d \in Regions : dc[d] # dc_completed
    <3> SUFFICES ASSUME NEW d \in Regions PROVE dc[d] # dc_completed
      BY Zenon
    <3>1. dc[d] = IF d \in ready THEN dc_claimed ELSE destination_count(d)
      BY Zenon DEF Init
    <3>2. destination_count(d) \in 0..2
      BY DEF destination_count
    <3> QED BY <3>1, <3>2 DEF dc_claimed, dc_completed
  <2>4. ASSUME r \in Sources
        PROVE  /\ First(r) <=> dest_region_1(r) # dest_region_2(r)
               /\ Second(r) <=> r # dest_region_2(r)
    <3>1. PlanSizes
      BY Zenon, <1>3 DEF PlanOK
    <3>2. dest_region_1(r) \in Regions /\ dest_region_2(r) \in Regions
      BY Zenon, <2>4, <3>1, DestRegions
    <3>3. \A d : \A w \in Workers : ~ Past(w, r, d)
      BY Zenon DEF Init, Past, Held
    <3>4. Waits(r, dest_region_1(r)) /\ Waits(r, dest_region_2(r))
      BY Zenon, <2>3, <3>2, <3>3 DEF Waits
    <3> QED BY Zenon, <3>4 DEF First, Second
  <2>5. r \in Sources => destination_count(r) = Left(r)
    BY <2>4 DEF destination_count, Left
  <2>6. destination_count(r) \in {0, 1, 2}
    BY DEF destination_count
  <2>7. Left(r) = 0 => ~ First(r) /\ ~ Second(r)
    BY DEF Left
  <2>8. r \in Sources => (dc[r] >= dc_claimed /\ ~ First(r) /\ ~ Second(r)) \/ dc[r] = Left(r)
    <3>1. dc_claimed >= dc_claimed
      BY DEF dc_claimed
    <3> QED BY Zenon, <2>1, <2>2, <2>5, <2>7, <3>1
  <2>9. dc[r] \in {0, 1, 2, dc_claimed, dc_completed}
    BY Zenon, <2>1, <2>6
  <2> QED BY Zenon, <2>8, <2>9 DEF CountOK
<1> QED
  BY Zenon, <1>1, <1>2, <1>3, <1>4, <1>5, <1>6 DEF BInv, IInv

(* A worker takes a region from a stack. *)
LEMMA TakeRegionKeeps == ASSUME IInv, NEW w \in Workers, TakeRegion(w) PROVE IInv'
<1>1. PICK r \in ready :
        /\ ready' = ready \ {r}
        /\ IF NothingToFill(r)
             THEN dc' = [dc EXCEPT ![r] = dc_completed] /\ UNCHANGED <<pc, cur>>
             ELSE /\ cur' = [cur EXCEPT ![w] =
                              [region |-> r, src |-> source_region[r], dest |-> region_to_addr(r),
                               skip |-> first_src_addr(r), counts |-> ~ self_copied(r)]]
                  /\ pc' = [pc EXCEPT ![w] = "copy"]
                  /\ UNCHANGED dc
  BY Zenon DEF TakeRegion
<1>2. pc[w] = "idle"
  BY Zenon DEF TakeRegion
<1>3. CASE NothingToFill(r)
  <2>1. Shape'
    BY Zenon, <1>1, <1>3 DEF IInv, Shape
  <2>2. /\ ready' = ready \ {r} /\ UNCHANGED <<pc, cur>>
        /\ \A q \in Regions \ {r} : dc'[q] = dc[q]
    BY Zenon, <1>1, <1>3 DEF IInv, Shape
  <2>3. Claimed'
    BY <2>2 DEF IInv, Claimed, Held
  <2> QED BY Zenon, <2>1, <2>3 DEF IInv
<1>4. CASE ~ NothingToFill(r)
  <2>1. Shape'
    BY <1>1, <1>4 DEF IInv, Shape, Fields
  <2>2. /\ ready' = ready \ {r} /\ UNCHANGED dc /\ cur'[w].region = r
        /\ \A v \in Workers \ {w} : pc'[v] = pc[v] /\ cur'[v] = cur[v]
    BY <1>1, <1>4 DEF IInv, Shape
  <2>3. Claimed'
    BY <1>1, <2>2 DEF IInv, Claimed, Held
  <2> QED BY Zenon, <2>1, <2>3 DEF IInv
<1> QED BY Zenon, <1>3, <1>4

(* Steps that change only the place and the locals of a worker that goes   *)
(* on with its region                                                      *)
LEMMA GoesOnKeeps ==
  ASSUME IInv, NEW w \in Workers, Held(w), UNCHANGED <<dc, ready>>,
         NEW label, label # "idle", pc' = [pc EXCEPT ![w] = label],
         NEW c, cur' = [cur EXCEPT ![w] = c], c.region = cur[w].region,
         Fields \subseteq DOMAIN c
  PROVE  IInv'
<1>1. Shape'
  BY Zenon DEF IInv, Shape
<1>2. /\ UNCHANGED <<dc, ready>> /\ cur'[w].region = cur[w].region
      /\ \A v \in Workers \ {w} : pc'[v] = pc[v] /\ cur'[v] = cur[v]
  BY Zenon DEF IInv, Shape
<1>3. Claimed'
  BY <1>2 DEF IInv, Claimed, Held
<1> QED BY Zenon, <1>1, <1>3 DEF IInv

(* Copying into a claimed region keeps the invariant. *)
LEMMA CopyKeeps == ASSUME IInv, NEW w \in Workers, Copy(w) PROVE IInv'
<1> DEFINE c == cur[w]
           n == Min({data_size(c.src) - c.skip, limit(c.region) - c.dest})
           label == IF c.counts THEN "check"
                    ELSE IF c.dest + n = limit(c.region) THEN "complete" ELSE "claim"
           e == [c EXCEPT !.dest = c.dest + n]
<1>1. pc[w] = "copy" /\ cur' = [cur EXCEPT ![w] = e] /\ UNCHANGED <<dc, ready>>
  BY Zenon DEF Copy
<1>2. pc' = [pc EXCEPT ![w] = label]
  BY Zenon DEF Copy
<1>3. e.region = cur[w].region /\ Fields \subseteq DOMAIN e
  BY DEF IInv, Shape, Fields
<1>4. label # "idle"
  BY Zenon
<1> HIDE DEF label, e
<1> QED BY Zenon, <1>1, <1>2, <1>3, <1>4, GoesOnKeeps DEF Held

(* Looking at the counter of the source region keeps the invariant. *)
LEMMA CheckKeeps == ASSUME IInv, NEW w \in Workers, Check(w) PROVE IInv'
<1> DEFINE label == IF dc[cur[w].src] >= dc_claimed THEN "claim" ELSE "decrement"
<1>1. pc[w] = "check" /\ pc' = [pc EXCEPT ![w] = label] /\ UNCHANGED <<dc, ready, cur>>
  BY Zenon DEF Check
<1>2. cur' = [cur EXCEPT ![w] = cur[w]]
  BY Zenon, <1>1 DEF IInv, Shape
<1>3. label # "idle"
  BY Zenon
<1>4. Fields \subseteq DOMAIN cur[w]
  BY Zenon DEF IInv, Shape
<1> HIDE DEF label
<1> QED BY Zenon, <1>1, <1>2, <1>3, <1>4, GoesOnKeeps DEF Held

(* What is counted down is a count, so it is no region that is held. *)
LEMMA DecrementKeeps == ASSUME IInv, CountsHold, NEW w \in Workers, Decrement(w) PROVE IInv'
<1>1. /\ pc[w] = "decrement" /\ pc' = [pc EXCEPT ![w] = "claim"]
      /\ dc' = [dc EXCEPT ![cur[w].src] = @ - 1] /\ UNCHANGED <<ready, cur>>
  BY Zenon DEF Decrement
<1>2. dc[cur[w].src] # dc_claimed
  BY <1>1 DEF CountsHold, dc_claimed
<1>3. Shape'
  BY Zenon, <1>1 DEF IInv, Shape
<1>4. Claimed'
  BY Zenon, <1>1, <1>2 DEF IInv, Shape, Claimed, Held
<1> QED BY Zenon, <1>3, <1>4 DEF IInv

(* What is claimed had a count of 0, so it is no region that is held. *)
LEMMA ClaimKeeps == ASSUME IInv, CountsHold, NEW w \in Workers, Claim(w) PROVE IInv'
<1> DEFINE r == cur[w].src
<1>1. pc[w] = "claim" /\ r \in Regions
  BY Zenon DEF Claim, CountsHold, Sources
<1>2. /\ pc' = [pc EXCEPT ![w] = pc'[w]] /\ pc'[w] # "idle"
      /\ cur' = [cur EXCEPT ![w] = cur'[w]] /\ cur'[w].region = cur[w].region
      /\ Fields \subseteq DOMAIN cur'[w]
  <2>1. Advance(w)
    BY Zenon DEF Claim
  <2>2. CASE cur[w].dest = limit(cur[w].region)
    BY Zenon, <2>1, <2>2 DEF Advance, IInv, Shape
  <2>3. CASE cur[w].dest # limit(cur[w].region)
    <3>1. PICK q \in NextSources(cur[w].src, cur[w].dest) :
            /\ pc' = [pc EXCEPT ![w] = "copy"]
            /\ cur' = [cur EXCEPT ![w] = [cur[w] EXCEPT !.src = q, !.skip = 0, !.counts = TRUE]]
      BY Zenon, <2>1, <2>3 DEF Advance
    <3> QED BY Zenon, <3>1 DEF IInv, Shape, Fields
  <2> QED BY Zenon, <2>2, <2>3
<1>3. CASE Claims(r)
  <2>1. dc' = [dc EXCEPT ![r] = dc_claimed] /\ ready' = ready \cup {r}
    BY Zenon, <1>3 DEF Claim
  <2>2. dc[r] # dc_claimed
    BY <1>3 DEF Claims, dc_claimed
  <2>3. Shape'
    BY Zenon, <1>2, <2>1 DEF IInv, Shape
  <2>4. /\ dc'[r] = dc_claimed /\ \A q \in Regions \ {r} : dc'[q] = dc[q]
        /\ \A v \in Workers \ {w} : pc'[v] = pc[v] /\ cur'[v] = cur[v]
    BY Zenon, <1>1, <1>2, <2>1 DEF IInv, Shape
  <2>5. Claimed'
    <3> HIDE DEF r
    <3> QED BY <1>1, <1>2, <2>1, <2>2, <2>4 DEF IInv, Claimed, Held
  <2> QED BY Zenon, <2>3, <2>5 DEF IInv
<1>4. CASE ~ Claims(r)
  <2>1. UNCHANGED <<dc, ready>>
    BY Zenon, <1>4 DEF Claim
  <2> HIDE DEF r
  <2> QED BY Zenon, <1>1, <1>2, <2>1, GoesOnKeeps DEF Held
<1> QED BY Zenon, <1>3, <1>4

(* Completing a region keeps the invariant. *)
LEMMA CompleteKeeps == ASSUME IInv, NEW w \in Workers, Complete(w) PROVE IInv'
<1>1. /\ pc[w] = "complete" /\ pc' = [pc EXCEPT ![w] = "idle"]
      /\ dc' = [dc EXCEPT ![cur[w].region] = dc_completed]
      /\ cur' = [cur EXCEPT ![w] = NoRegion] /\ UNCHANGED ready
  BY Zenon DEF Complete
<1>2. Shape'
  BY Zenon, <1>1 DEF IInv, Shape, NoRegion, Fields
<1>3. Claimed'
  BY ZenonT(30), <1>1 DEF IInv, Shape, Claimed, Held
<1> QED BY Zenon, <1>2, <1>3 DEF IInv

-----------------------------------------------------------------------------
(* The counts *)

(* Counts stay right when no count is due, and when a region is claimed or *)
(* completed.                                                              *)
LEMMA CountsKept ==
  ASSUME CountsOK, Fixed,
         \A r \in Sources : \A d \in Receives(r) :
           (Waits(r, d)' <=> Waits(r, d)) \/ (r = d /\ d = dest_region_2(r)),
         \A r \in Regions : \/ dc'[r] = dc[r]
                            \/ dc'[r] \in {dc_claimed, dc_completed} /\ dc[r] \in {0, dc_claimed}
  PROVE  CountsOK'
<1> SUFFICES ASSUME NEW r \in Regions PROVE CountOK(r)'
  BY Zenon DEF CountsOK
<1>1. CountOK(r) /\ Sources' = Sources
  BY Zenon DEF CountsOK, Fixed
<1>2. ASSUME r \in Sources PROVE (First(r)' <=> First(r)) /\ (Second(r)' <=> Second(r))
  <2>1. dest_region_1(r)' = dest_region_1(r) /\ dest_region_2(r)' = dest_region_2(r)
    BY Zenon DEF Fixed
  <2>2. PICK x, y : x = dest_region_1(r) /\ y = dest_region_2(r)
    BY Zenon
  <2>3. (Waits(r, x)' <=> Waits(r, x)) \/ x = y
    BY Zenon, <1>2, <2>2 DEF Receives
  <2>4. (Waits(r, y)' <=> Waits(r, y)) \/ y = r
    BY Zenon, <1>2, <2>2 DEF Receives
  <2>5. First(r)' <=> x # y /\ Waits(r, x)'
    BY Zenon, <2>1, <2>2 DEF First
  <2>6. Second(r)' <=> y # r /\ Waits(r, y)'
    BY Zenon, <2>1, <2>2 DEF Second
  <2> QED BY Zenon, <2>2, <2>3, <2>4, <2>5, <2>6 DEF First, Second
<1>3. CASE dc'[r] = dc[r]
  BY Zenon, <1>1, <1>2, <1>3, CountSame
<1>4. CASE dc'[r] \in {dc_claimed, dc_completed} /\ dc[r] \in {0, dc_claimed}
  <2>1. r \in Sources => ~ First(r) /\ ~ Second(r)
    <3>1. Left(r) = dc[r] => ~ First(r) /\ ~ Second(r)
      BY <1>4 DEF Left, dc_claimed
    <3> QED BY Zenon, <1>1, <3>1 DEF CountOK
  <2>2. dc'[r] >= dc_claimed
    BY <1>4 DEF dc_claimed, dc_completed
  <2> QED BY Zenon, <1>1, <1>2, <1>4, <2>1, <2>2 DEF CountOK
<1> QED
  BY Zenon, <1>3, <1>4

(* All of the invariant, when a worker makes a step *)
LEMMA StepKeeps ==
  ASSUME BInv, UNCHANGED plan, NEW w \in Workers, Only(w), IInv', ReadyOK', CountsOK', WorkerOK(w)'
  PROVE  BInv'
<1>1. Fixed /\ PlanOK'
  BY Zenon, PlanFixed, PlanStays DEF BInv
<1>2. WorkersOK'
  <2>1. \A v \in Workers : v # w => WorkerOK(v)'
    BY Zenon, <1>1, WorkerSame DEF BInv, WorkersOK, Only
  <2> QED BY Zenon, <2>1 DEF WorkersOK
<1> QED
  BY Zenon, <1>1, <1>2 DEF BInv

(* Taking a region: nothing has been copied into it yet. *)
LEMMA TakeRegionCounts == ASSUME BInv, NEW w \in Workers, TakeRegion(w) PROVE BInv'
<1>1. PICK d \in ready :
        /\ ready' = ready \ {d}
        /\ IF NothingToFill(d)
             THEN dc' = [dc EXCEPT ![d] = dc_completed] /\ UNCHANGED <<pc, cur>>
             ELSE /\ cur' = [cur EXCEPT ![w] =
                              [region |-> d, src |-> source_region[d], dest |-> region_to_addr(d),
                               skip |-> first_src_addr(d), counts |-> ~ self_copied(d)]]
                  /\ pc' = [pc EXCEPT ![w] = "copy"]
                  /\ UNCHANGED dc
  BY Zenon DEF TakeRegion
<1>2. pc[w] = "idle" /\ UNCHANGED plan
  BY Zenon DEF TakeRegion
<1>3. IInv' /\ Fixed /\ PlanOK /\ PlanSizes
  BY Zenon, <1>2, TakeRegionKeeps, PlanFixed DEF BInv, PlanOK
<1>4. d \in Regions /\ d < enqueue_end /\ dc[d] = dc_claimed
  BY Zenon DEF BInv, IInv, Claimed, ReadyOK
<1>5. ReadyOK'
  BY Zenon, <1>1, <1>3 DEF BInv, ReadyOK, Fixed
<1>6. CASE NothingToFill(d)
  <2>1. \A r \in Sources : d \notin Receives(r)
    BY Zenon, <1>3, <1>4, <1>6 DEF PlanOK, PlanTargets
  <2>2. dc' = [dc EXCEPT ![d] = dc_completed] /\ pc' = pc /\ cur' = cur
    BY Zenon, <1>1, <1>6
  <2>3. Only(w)
    BY Zenon, <2>2 DEF Only
  <2>4. \A q \in Regions \ {d} : dc'[q] = dc[q]
    BY Zenon, <2>2 DEF BInv, IInv, Shape
  <2>5. dc'[d] = dc_completed
    BY Zenon, <1>4, <2>2 DEF BInv, IInv, Shape
  <2>6. ASSUME NEW r \in Sources, NEW e \in Receives(r) PROVE Waits(r, e)' <=> Waits(r, e)
    <3>1. e \in Regions /\ e # d
      BY Zenon, <1>3, <2>1, PartIn
    <3>2. dc'[e] = dc[e]
      BY Zenon, <2>4, <3>1
    <3>3. Past(w, r, e)' <=> Past(w, r, e)
      BY Zenon, <1>3, <2>2 DEF Past, Held, Fixed
    <3> QED BY Zenon, <1>3, <2>3, <3>2, <3>3, WaitsSame
  <2>7. CountsOK'
    BY Zenon, <1>3, <1>4, <2>4, <2>5, <2>6, CountsKept DEF BInv
  <2>8. WorkerOK(w)'
    BY Zenon, <1>3, <2>2, WorkerSame DEF BInv, WorkersOK
  <2> QED BY Zenon, <1>2, <1>3, <1>5, <2>3, <2>7, <2>8, StepKeeps
<1>7. CASE ~ NothingToFill(d)
  <2>1. source_region[d] \in SetsSource(d)
    BY Zenon, <1>3, <1>4, <1>7 DEF PlanOK, PlanTargets
  <2>2. PICK s \in Sources : s = source_region[d] /\ s \in SetsSource(d)
    BY Zenon, <2>1 DEF SetsSource
  <2>3. /\ cur' = [cur EXCEPT ![w] =
                    [region |-> d, src |-> s, dest |-> region_to_addr(d),
                     skip |-> first_src_addr(d), counts |-> ~ self_copied(d)]]
        /\ pc' = [pc EXCEPT ![w] = "copy"]
        /\ dc' = dc
    BY Zenon, <1>1, <1>7, <2>2
  <2>4. /\ cur'[w].region = d /\ cur'[w].src = s /\ cur'[w].dest = region_to_addr(d)
        /\ cur'[w].skip = first_src_addr(d) /\ cur'[w].counts = ~ self_copied(d)
        /\ pc'[w] = "copy"
    BY <2>3 DEF BInv, IInv, Shape
  <2>5. Only(w)
    BY Zenon, <2>3 DEF Only, BInv, IInv, Shape
  <2>6. d \in Nat /\ region_to_addr(d) \in Nat
    BY Zenon, <1>4, RegionsNat, RegionStep
  <2>7. ASSUME NEW r \in Sources, NEW e \in Receives(r) PROVE Waits(r, e)' <=> Waits(r, e)
    <3>1. ~ Past(w, r, e)
      BY Zenon, <1>2 DEF Past, Held
    <3>2. ~ Past(w, r, e)'
      <4> SUFFICES ASSUME Past(w, r, e)' PROVE FALSE
        BY Zenon
      <4>1. e = d /\ Part(r, d) < region_to_addr(d)
        BY Zenon, <1>3, <2>4 DEF Past, Fixed
      <4>2. Part(r, d) \in WordsOf(d)
        BY Zenon, <1>3, <4>1, PartIn
      <4>3. region_to_addr(d) <= Part(r, d) /\ Part(r, d) \in Nat
        BY Zenon, <2>6, <4>2, InRegion
      <4> QED BY <2>6, <4>1, <4>3
    <3> QED BY Zenon, <1>3, <2>3, <2>5, <3>1, <3>2, WaitsSame
  <2>8. CountsOK'
    BY Zenon, <1>3, <2>3, <2>7, CountsKept DEF BInv
  <2>9. region_to_addr(d) \in MovesTo(s)
    BY Zenon, <1>3, <1>4, <2>2, SourceAt
  <2>10. destination[s] \in Nat /\ dest_end(s) \in Nat
    BY Zenon, <1>3, DestRegions
  <2>11. destination[s] <= region_to_addr(d)
    BY <2>6, <2>9, <2>10 DEF MovesTo
  <2>12. /\ Part(s, d) = region_to_addr(d) /\ first_src_addr(d) \in Nat
         /\ region_to_addr(d) = destination[s] + first_src_addr(d)
    BY <2>2, <2>6, <2>10, <2>11 DEF Part, first_src_addr
  <2>13. d \in Receives(s) /\ dest_region_2(s) = d
    BY Zenon, <2>2 DEF SetsSource, Receives
  <2>14. self_copied(d) => s = d
    BY Zenon, <2>2 DEF self_copied
  <2>15. /\ Sources' = Sources /\ Receives(s)' = Receives(s) /\ destination[s]' = destination[s]
         /\ Part(s, d)' = Part(s, d) /\ dest_region_2(s)' = dest_region_2(s)
    BY Zenon, <1>3 DEF Fixed
  <2>16. WorkerOK(w)'
    BY Zenon, <2>4, <2>12, <2>13, <2>14, <2>15 DEF WorkerOK
  <2> QED BY Zenon, <1>2, <1>3, <1>5, <2>5, <2>8, <2>16, StepKeeps
<1> QED
  BY Zenon, <1>6, <1>7

(* Advance of the destination by a copy *)
LEMMA CopyTo ==
  ASSUME BInv, NEW w \in Workers, pc[w] = "copy", NEW n,
         n = Min({data_size(cur[w].src) - cur[w].skip, limit(cur[w].region) - cur[w].dest})
  PROVE  /\ cur[w].dest \in Nat /\ n \in Nat /\ cur[w].dest < cur[w].dest + n
         /\ cur[w].dest + n = Min({dest_end(cur[w].src), limit(cur[w].region)})
         /\ cur[w].dest + n <= dest_end(cur[w].src) /\ cur[w].dest + n <= limit(cur[w].region)
         /\ cur[w].dest = Part(cur[w].src, cur[w].region)
         /\ cur[w].dest = destination[cur[w].src] + cur[w].skip
<1>1. PICK r, d, a, k : r = cur[w].src /\ d = cur[w].region /\ a = cur[w].dest /\ k = cur[w].skip
  BY Zenon
<1>2. r \in Sources /\ d \in Receives(r) /\ a = destination[r] + k /\ a = Part(r, d) /\ k \in Nat
  BY Zenon, <1>1 DEF BInv, WorkersOK, WorkerOK, Held
<1>3. PlanOK /\ PlanSizes
  BY Zenon DEF BInv, PlanOK
<1>4. d \in Regions /\ a \in Nat /\ a \in MovesTo(r) /\ a < limit(d)
  BY Zenon, <1>2, <1>3, PartIn
<1>5. destination[r] \in Nat /\ dest_end(r) \in Nat /\ data_size(r) \in Nat /\ limit(d) \in Int
  BY Zenon, <1>2, <1>3, <1>4, DestRegions, LimitIs DEF PlanSizes
<1>6. dest_end(r) = destination[r] + data_size(r)
  BY Zenon DEF dest_end
<1>7. destination[r] <= a /\ a < dest_end(r)
  BY <1>4, <1>5 DEF MovesTo
<1>8. data_size(r) - k \in Int /\ limit(d) - a \in Int /\ dest_end(r) \in Int
  BY <1>2, <1>4, <1>5
<1>9. n = IF data_size(r) - k <= limit(d) - a THEN data_size(r) - k ELSE limit(d) - a
  BY Zenon, <1>1, <1>8, MinTwo
<1>10. Min({dest_end(r), limit(d)}) = IF dest_end(r) <= limit(d) THEN dest_end(r) ELSE limit(d)
  BY Zenon, <1>5, <1>8, MinTwo
<1>11. /\ n \in Nat /\ a < a + n
       /\ a + n = (IF dest_end(r) <= limit(d) THEN dest_end(r) ELSE limit(d))
       /\ a + n <= dest_end(r) /\ a + n <= limit(d)
  BY <1>2, <1>4, <1>5, <1>6, <1>7, <1>9
<1> QED
  BY Zenon, <1>1, <1>2, <1>4, <1>10, <1>11

(* Copying: the only data that is passed comes from the source region, and *)
(* it is not counted before the next steps (or never, when the region is   *)
(* copied to itself).                                                      *)
LEMMA CopyCounts == ASSUME BInv, NEW w \in Workers, Copy(w) PROVE BInv'
<1>1. PICK n : n = Min({data_size(cur[w].src) - cur[w].skip, limit(cur[w].region) - cur[w].dest})
  BY Zenon
<1>2. PICK s, d, a, b : s = cur[w].src /\ d = cur[w].region /\ a = cur[w].dest /\ b = a + n
  BY Zenon
<1>3. /\ pc[w] = "copy" /\ UNCHANGED plan /\ dc' = dc /\ ready' = ready
      /\ cur' = [cur EXCEPT ![w] = [cur[w] EXCEPT !.dest = b]]
      /\ pc' = [pc EXCEPT ![w] = IF cur[w].counts THEN "check"
                                 ELSE IF b = limit(d) THEN "complete" ELSE "claim"]
  BY Zenon, <1>1, <1>2 DEF Copy
<1>4. IInv' /\ Fixed /\ PlanOK /\ PlanSizes
  BY Zenon, <1>3, CopyKeeps, PlanFixed DEF BInv, PlanOK
<1>5. ReadyOK'
  BY Zenon, <1>3, <1>4 DEF BInv, ReadyOK, Fixed
<1>6. Only(w)
  BY Zenon, <1>3 DEF Only, BInv, IInv, Shape
<1>7. /\ cur'[w].region = d /\ cur'[w].src = s /\ cur'[w].dest = b
      /\ pc'[w] = IF cur[w].counts THEN "check" ELSE IF b = limit(d) THEN "complete" ELSE "claim"
  BY <1>2, <1>3 DEF BInv, IInv, Shape, Fields
<1>8. /\ a \in Nat /\ b \in Nat /\ a < b /\ b = Min({dest_end(s), limit(d)})
      /\ b <= dest_end(s) /\ b <= limit(d) /\ a = Part(s, d)
  <2>1. /\ a \in Nat /\ n \in Nat /\ a < b /\ b = Min({dest_end(s), limit(d)})
        /\ b <= dest_end(s) /\ b <= limit(d) /\ a = Part(s, d)
    BY Zenon, <1>1, <1>2, <1>3, CopyTo
  <2> QED BY <1>2, <2>1
<1>9. /\ s \in Sources /\ d \in Receives(s) /\ Held(w)
      /\ ~ cur[w].counts => s = d /\ dest_region_2(s) = d
  BY Zenon, <1>2, <1>3 DEF BInv, WorkersOK, WorkerOK, Held
<1>10. destination[s] \in Nat /\ dest_end(s) \in Nat /\ a \in MovesTo(s)
  BY Zenon, <1>4, <1>8, <1>9, DestRegions, PartIn
<1>11. ASSUME NEW r \in Sources, NEW e \in Receives(r)
       PROVE  (Waits(r, e)' <=> Waits(r, e)) \/ (r = e /\ e = dest_region_2(r))
  <2>1. CASE e # d
    <3>1. ~ Past(w, r, e) /\ ~ Past(w, r, e)'
      BY Zenon, <1>2, <1>7, <2>1 DEF Past
    <3> QED BY Zenon, <1>3, <1>4, <1>6, <3>1, WaitsSame
  <2>2. CASE e = d /\ r # s
    <3>1. Part(r, d) \in MovesTo(r) /\ Part(r, d) \in Nat
      BY Zenon, <1>4, <2>2, PartIn
    <3>2. Part(r, d) \notin MovesTo(s)
      BY Zenon, <1>4, <1>9, <2>2, <3>1 DEF PlanOK, PlanApart
    <3>3. Part(r, d) < b <=> Part(r, d) < a
      BY <1>8, <1>10, <3>1, <3>2 DEF MovesTo
    <3>4. Part(r, d)' = Part(r, d)
      BY Zenon, <1>4 DEF Fixed
    <3>5. Past(w, r, d)' <=> Part(r, d) < b
      <4>1. pc'[w] # "idle"
        BY Zenon, <1>7
      <4> QED BY Zenon, <1>7, <2>2, <3>4, <4>1 DEF Past, Held
    <3>6. Past(w, r, d) <=> Part(r, d) < a
      BY Zenon, <1>2, <1>9, <2>2 DEF Past
    <3>7. Past(w, r, e)' <=> Past(w, r, e)
      BY Zenon, <2>2, <3>3, <3>5, <3>6
    <3> QED BY Zenon, <1>3, <1>4, <1>6, <3>7, WaitsSame
  <2>3. CASE e = d /\ r = s /\ cur[w].counts
    <3>1. ~ Past(w, r, e)'
      BY Zenon, <1>7, <2>3 DEF Past
    <3>2. ~ Past(w, r, e)
      <4>1. ~ (a < a)
        BY <1>8
      <4> QED BY Zenon, <1>2, <1>8, <2>3, <4>1 DEF Past
    <3> QED BY Zenon, <1>3, <1>4, <1>6, <3>1, <3>2, WaitsSame
  <2>4. CASE e = d /\ r = s /\ ~ cur[w].counts
    BY Zenon, <1>9, <2>4
  <2> QED BY Zenon, <2>1, <2>2, <2>3, <2>4
<1>12. CountsOK'
  BY Zenon, <1>3, <1>4, <1>11, CountsKept DEF BInv
<1>13. WorkerOK(w)'
  <2>1. /\ Sources' = Sources /\ Receives(s)' = Receives(s)
        /\ dest_end(s)' = dest_end(s) /\ limit(d)' = limit(d)
    BY Zenon, <1>4 DEF Fixed
  <2>2. pc'[w] # "copy" /\ pc'[w] # "decrement" /\ (pc'[w] = "complete" => b = limit(d))
    BY Zenon, <1>7
  <2> QED BY Zenon, <1>7, <1>8, <1>9, <2>1, <2>2 DEF WorkerOK
<1> QED
  BY Zenon, <1>3, <1>4, <1>5, <1>6, <1>12, <1>13, StepKeeps

(* Looking at the count: a claimed source is the region that is being      *)
(* filled, for which no count is due.                                      *)
LEMMA CheckCounts == ASSUME BInv, NEW w \in Workers, Check(w) PROVE BInv'
<1>1. PICK s, d : s = cur[w].src /\ d = cur[w].region
  BY Zenon
<1>2. /\ pc[w] = "check" /\ UNCHANGED plan /\ dc' = dc /\ ready' = ready /\ cur' = cur
      /\ pc' = [pc EXCEPT ![w] = IF dc[s] >= dc_claimed THEN "claim" ELSE "decrement"]
  BY Zenon, <1>1 DEF Check
<1>3. IInv' /\ Fixed /\ PlanOK /\ PlanSizes
  BY Zenon, <1>2, CheckKeeps, PlanFixed DEF BInv, PlanOK
<1>4. ReadyOK'
  BY Zenon, <1>2, <1>3 DEF BInv, ReadyOK, Fixed
<1>5. Only(w)
  BY Zenon, <1>2 DEF Only, BInv, IInv, Shape
<1>6. pc'[w] = IF dc[s] >= dc_claimed THEN "claim" ELSE "decrement"
  BY Zenon, <1>2 DEF BInv, IInv, Shape
<1>7. s \in Sources /\ d \in Receives(s) /\ Held(w) /\ cur[w].dest = Min({dest_end(s), limit(d)})
  BY Zenon, <1>1, <1>2 DEF BInv, WorkersOK, WorkerOK, Held
<1>8. dc[d] = dc_claimed
  BY Zenon, <1>1, <1>7 DEF BInv, IInv, Claimed
<1>9. dc[s] >= dc_claimed => s = d /\ d = dest_region_2(s)
  <2> SUFFICES ASSUME dc[s] >= dc_claimed PROVE s = d /\ d = dest_region_2(s)
    BY Zenon
  <2>1. s = d
    <3>1. s # d => dc[s] \in 1..2
      BY Zenon, <1>1, <1>2, Countable
    <3> QED BY <3>1 DEF dc_claimed
  <2>2. Waits(s, d)
    BY Zenon, <1>1, <1>2, Waiting
  <2>3. d # dest_region_2(s) => First(s)
    BY Zenon, <1>7, <2>2 DEF First, Receives
  <2>4. CountOK(s)
    BY Zenon, <1>7, SourcesNat DEF BInv, CountsOK
  <2>5. dc[s] # Left(s)
    <3>1. Left(s) \in 0..2
      BY DEF Left
    <3> QED BY <3>1 DEF dc_claimed
  <2> QED BY Zenon, <1>7, <2>1, <2>3, <2>4, <2>5 DEF CountOK
<1>10. ASSUME NEW r \in Sources, NEW e \in Receives(r)
       PROVE  (Waits(r, e)' <=> Waits(r, e)) \/ (r = e /\ e = dest_region_2(r))
  <2>1. CASE (e # d \/ r # s) \/ ~ (dc[s] >= dc_claimed)
    <3>1. Part(r, e)' = Part(r, e)
      BY Zenon, <1>3 DEF Fixed
    <3>2. pc'[w] # "idle" /\ pc[w] # "idle"
      BY <1>2, <1>6
    <3>3. Past(w, r, e)' <=> Past(w, r, e)
      <4>1. CASE e # d
        BY Zenon, <1>1, <1>2, <4>1 DEF Past
      <4>2. CASE r # s
        BY Zenon, <1>1, <1>2, <3>1, <3>2, <4>2 DEF Past, Held
      <4>3. CASE e = d /\ r = s /\ ~ (dc[s] >= dc_claimed)
        <5>1. pc'[w] = "decrement"
          BY Zenon, <1>6, <4>3
        <5> QED BY Zenon, <1>1, <1>2, <4>3, <5>1 DEF Past
      <4> QED BY Zenon, <2>1, <4>1, <4>2, <4>3
    <3> QED BY Zenon, <1>2, <1>3, <1>5, <3>3, WaitsSame
  <2>2. CASE e = d /\ r = s /\ dc[s] >= dc_claimed
    BY Zenon, <1>9, <2>2
  <2> QED BY Zenon, <2>1, <2>2
<1>11. CountsOK'
  BY Zenon, <1>2, <1>3, <1>10, CountsKept DEF BInv
<1>12. WorkerOK(w)'
  <2>1. /\ Sources' = Sources /\ Receives(s)' = Receives(s)
        /\ dest_end(s)' = dest_end(s) /\ limit(d)' = limit(d)
    BY Zenon, <1>3 DEF Fixed
  <2>2. pc'[w] # "copy" /\ pc'[w] # "complete"
    BY Zenon, <1>6
  <2>3. pc'[w] = "decrement" => s # d
    <3>1. dc_claimed >= dc_claimed
      BY DEF dc_claimed
    <3> QED BY Zenon, <1>6, <1>8, <3>1
  <2> QED BY Zenon, <1>1, <1>2, <1>7, <2>1, <2>2, <2>3 DEF WorkerOK
<1> QED
  BY Zenon, <1>2, <1>3, <1>4, <1>5, <1>11, <1>12, StepKeeps

(* Counting down: one destination fewer is waited for. *)
LEMMA DecrementCounts == ASSUME BInv, NEW w \in Workers, Decrement(w) PROVE BInv'
<1>1. PICK s, d : s = cur[w].src /\ d = cur[w].region
  BY Zenon
<1>2. /\ pc[w] = "decrement" /\ UNCHANGED plan /\ ready' = ready /\ cur' = cur
      /\ dc' = [dc EXCEPT ![s] = @ - 1] /\ pc' = [pc EXCEPT ![w] = "claim"]
  BY Zenon, <1>1 DEF Decrement
<1>3. IInv' /\ Fixed /\ PlanOK /\ PlanSizes
  BY Zenon, <1>2, CountsFollow, DecrementKeeps, PlanFixed DEF BInv, PlanOK
<1>4. ReadyOK'
  BY Zenon, <1>2, <1>3 DEF BInv, ReadyOK, Fixed
<1>5. Only(w)
  BY Zenon, <1>2 DEF Only, BInv, IInv, Shape
<1>6. pc'[w] = "claim"
  BY Zenon, <1>2 DEF BInv, IInv, Shape
<1>7. s \in Sources /\ d \in Receives(s) /\ Held(w) /\ s # d /\ cur[w].dest = Min({dest_end(s), limit(d)})
  BY Zenon, <1>1, <1>2 DEF BInv, WorkersOK, WorkerOK, Held
<1>8. /\ dc[s] = Left(s) /\ dc[s] \in 1..2
      /\ d = dest_region_2(s) => Second(s)
      /\ d # dest_region_2(s) => First(s) /\ d = dest_region_1(s)
  BY Zenon, <1>1, <1>2, <1>7, Countable
<1>9. s \in Regions /\ d \in Regions /\ dc[d] = dc_claimed
  BY Zenon, <1>1, <1>7, SourcesNat DEF BInv, IInv, Claimed
<1>10. dc'[s] = dc[s] - 1 /\ \A q \in Regions \ {s} : dc'[q] = dc[q]
  BY Zenon, <1>2, <1>9 DEF BInv, IInv, Shape
<1>11. \A q \in Regions : dc'[q] = dc_completed <=> dc[q] = dc_completed
  <2>1. dc'[s] # dc_completed /\ dc[s] # dc_completed
    BY <1>8, <1>10 DEF dc_completed
  <2> QED BY Zenon, <1>10, <2>1
<1>12. ASSUME NEW r \in Sources, NEW e \in Receives(r), r # s \/ e # d
       PROVE  Waits(r, e)' <=> Waits(r, e)
  <2>1. Part(r, e)' = Part(r, e) /\ pc'[w] # "idle" /\ pc[w] # "idle"
    BY <1>2, <1>3, <1>6 DEF Fixed
  <2>2. Past(w, r, e)' <=> Past(w, r, e)
    <3>1. CASE e # d
      BY Zenon, <1>1, <1>2, <3>1 DEF Past
    <3>2. CASE r # s
      BY Zenon, <1>1, <1>2, <2>1, <3>2 DEF Past, Held
    <3> QED BY Zenon, <1>12, <3>1, <3>2
  <2>3. e \in Regions
    BY Zenon, <1>3, PartIn
  <2> QED BY ZenonT(30), <1>3, <1>5, <1>11, <2>2, <2>3, WaitsSame
<1>13. ~ Waits(s, d)'
  <2>1. Part(s, d) \in Nat /\ Part(s, d) \in MovesTo(s) /\ Part(s, d) < limit(d)
    BY Zenon, <1>3, <1>7, PartIn
  <2>2. destination[s] \in Nat /\ dest_end(s) \in Nat /\ limit(d) \in Int
    BY Zenon, <1>3, <1>7, <1>9, DestRegions, LimitIs
  <2>3. Part(s, d) < dest_end(s) /\ dest_end(s) \in Int
    BY <2>1, <2>2 DEF MovesTo
  <2>4. cur[w].dest = IF dest_end(s) <= limit(d) THEN dest_end(s) ELSE limit(d)
    BY Zenon, <1>7, <2>2, <2>3, MinTwo
  <2>5. Part(s, d) < cur[w].dest
    BY Zenon, <2>1, <2>3, <2>4
  <2>6. Part(s, d)' = Part(s, d)
    BY Zenon, <1>3 DEF Fixed
  <2>7. Past(w, s, d)'
    <3>1. pc'[w] # "idle" /\ pc'[w] \notin {"check", "decrement"}
      BY <1>6
    <3> QED BY Zenon, <1>1, <1>2, <2>5, <2>6, <3>1 DEF Past, Held
  <2> QED BY Zenon, <2>7 DEF Waits
<1>14. CountsOK'
  <2> SUFFICES ASSUME NEW r \in Regions PROVE CountOK(r)'
    BY Zenon DEF CountsOK
  <2>1. CountOK(r)
    BY Zenon DEF BInv, CountsOK
  <2>2. CASE r # s
    <3>1. r \in Sources => (First(r)' <=> First(r)) /\ (Second(r)' <=> Second(r))
      BY Zenon, <1>3, <1>12, <2>2, FirstSecond
    <3>2. dc'[r] = dc[r]
      BY Zenon, <1>10, <2>2
    <3> QED BY Zenon, <1>3, <2>1, <3>1, <3>2, CountSame
  <2>3. CASE r = s
    <3>1. PICK x, y : x = dest_region_1(s) /\ y = dest_region_2(s)
      BY Zenon
    <3>2. x \in Receives(s) /\ y \in Receives(s)
      BY Zenon, <3>1 DEF Receives
    <3>3. dest_region_1(s)' = x /\ dest_region_2(s)' = y
      BY Zenon, <1>3, <3>1 DEF Fixed
    <3>4. (First(s)' <=> x # y /\ Waits(s, x)') /\ (Second(s)' <=> y # s /\ Waits(s, y)')
      BY Zenon, <3>3 DEF First, Second
    <3>5. (First(s) <=> x # y /\ Waits(s, x)) /\ (Second(s) <=> y # s /\ Waits(s, y))
      BY Zenon, <3>1 DEF First, Second
    <3>6. x # d => (Waits(s, x)' <=> Waits(s, x))
      BY Zenon, <1>7, <1>12, <3>2
    <3>7. y # d => (Waits(s, y)' <=> Waits(s, y))
      BY Zenon, <1>7, <1>12, <3>2
    <3>8. CASE d = y
      <4>1. Second(s) /\ ~ Second(s)'
        BY Zenon, <1>8, <1>13, <3>1, <3>4, <3>8
      <4>2. First(s)' <=> First(s)
        BY Zenon, <3>4, <3>5, <3>6, <3>8
      <4>3. Left(s)' = Left(s) - 1
        BY <4>1, <4>2 DEF Left
      <4> QED BY <1>8, <1>10, <2>3, <4>3 DEF CountOK
    <3>9. CASE d # y
      <4>1. First(s) /\ ~ First(s)'
        BY Zenon, <1>8, <1>13, <3>1, <3>4, <3>9
      <4>2. Second(s)' <=> Second(s)
        BY Zenon, <3>4, <3>5, <3>7, <3>9
      <4>3. Left(s)' = Left(s) - 1
        BY <4>1, <4>2 DEF Left
      <4> QED BY <1>8, <1>10, <2>3, <4>3 DEF CountOK
    <3> QED BY Zenon, <3>8, <3>9
  <2> QED BY Zenon, <2>2, <2>3
<1>15. WorkerOK(w)'
  <2>1. /\ Sources' = Sources /\ Receives(s)' = Receives(s)
        /\ dest_end(s)' = dest_end(s) /\ limit(d)' = limit(d)
    BY Zenon, <1>3 DEF Fixed
  <2>2. pc'[w] # "copy" /\ pc'[w] # "complete" /\ pc'[w] # "decrement"
    BY Zenon, <1>6
  <2> QED BY Zenon, <1>1, <1>2, <1>7, <2>1, <2>2 DEF WorkerOK
<1> QED
  BY Zenon, <1>2, <1>3, <1>4, <1>5, <1>14, <1>15, StepKeeps

(* Claiming a source with count 0, and going on with the next source *)
LEMMA ClaimCounts == ASSUME BInv, NEW w \in Workers, Claim(w) PROVE BInv'
<1>1. PICK s, d, a : s = cur[w].src /\ d = cur[w].region /\ a = cur[w].dest
  BY Zenon
<1>2. /\ pc[w] = "claim" /\ UNCHANGED plan /\ Advance(w)
      /\ IF Claims(s)
           THEN dc' = [dc EXCEPT ![s] = dc_claimed] /\ ready' = ready \cup {s}
           ELSE dc' = dc /\ ready' = ready
  BY Zenon, <1>1 DEF Claim
<1>3. IInv' /\ Fixed /\ PlanOK /\ PlanSizes
  BY Zenon, <1>2, CountsFollow, ClaimKeeps, PlanFixed DEF BInv, PlanOK
<1>4. ReadyOK'
  BY Zenon, <1>2, <1>3 DEF BInv, ReadyOK, Fixed, Claims
<1>5. s \in Sources /\ d \in Receives(s) /\ Held(w) /\ a = Min({dest_end(s), limit(d)}) /\ s \in Regions
  BY Zenon, <1>1, <1>2, SourcesNat DEF BInv, WorkersOK, WorkerOK, Held
<1>6. \/ /\ a = limit(d) /\ pc' = [pc EXCEPT ![w] = "complete"] /\ cur' = cur
      \/ /\ a # limit(d) /\ pc' = [pc EXCEPT ![w] = "copy"]
         /\ \E q \in NextSources(s, a) :
              cur' = [cur EXCEPT ![w] = [cur[w] EXCEPT !.src = q, !.skip = 0, !.counts = TRUE]]
  <2>1. CASE a = limit(d)
    BY Zenon, <1>1, <1>2, <2>1 DEF Advance
  <2>2. CASE a # limit(d)
    BY Zenon, <1>1, <1>2, <2>2 DEF Advance
  <2> QED BY Zenon, <2>1, <2>2
<1>7. \A r \in Regions : dc'[r] = dc[r] \/ (dc'[r] = dc_claimed /\ dc[r] = 0)
  BY Zenon, <1>2, <1>5 DEF BInv, IInv, Shape, Claims
<1>8. \A r \in Regions : dc'[r] = dc_completed <=> dc[r] = dc_completed
  <2>1. dc_claimed # dc_completed /\ 0 # dc_completed
    BY DEF dc_claimed, dc_completed
  <2> QED BY Zenon, <1>7, <2>1
<1>9. Only(w) /\ cur'[w].region = d /\ cur'[w].dest = a /\ pc'[w] \in {"copy", "complete"}
  <2>1. CASE pc' = [pc EXCEPT ![w] = "complete"] /\ cur' = cur
    BY Zenon, <1>1, <2>1 DEF Only, BInv, IInv, Shape
  <2>2. ASSUME pc' = [pc EXCEPT ![w] = "copy"], NEW q,
               cur' = [cur EXCEPT ![w] = [cur[w] EXCEPT !.src = q, !.skip = 0, !.counts = TRUE]]
        PROVE  Only(w) /\ cur'[w].region = d /\ cur'[w].dest = a /\ pc'[w] \in {"copy", "complete"}
    BY Zenon, <1>1, <2>2 DEF Only, BInv, IInv, Shape, Fields
  <2> QED BY Zenon, <1>6, <2>1, <2>2
<1>10. ASSUME NEW r \in Sources, NEW e \in Receives(r) PROVE Waits(r, e)' <=> Waits(r, e)
  <2>1. Part(r, e)' = Part(r, e)
    BY Zenon, <1>3 DEF Fixed
  <2>2. pc'[w] # "idle" /\ pc'[w] \notin {"check", "decrement"}
    BY <1>9
  <2>3. pc[w] # "idle" /\ pc[w] \notin {"check", "decrement"}
    BY <1>2
  <2>4. Past(w, r, e)' <=> d = e /\ Part(r, e) < a
    BY Zenon, <1>9, <2>1, <2>2 DEF Past, Held
  <2>5. Past(w, r, e) <=> d = e /\ Part(r, e) < a
    BY Zenon, <1>1, <2>3 DEF Past, Held
  <2>6. e \in Regions
    BY Zenon, <1>3, PartIn
  <2>7. Past(w, r, e)' <=> Past(w, r, e)
    BY Zenon, <2>4, <2>5
  <2> QED BY Zenon, <1>3, <1>8, <1>9, <2>6, <2>7, WaitsSame
<1>11. CountsOK'
  BY Zenon, <1>3, <1>7, <1>10, CountsKept DEF BInv
<1>12. WorkerOK(w)'
  <2>1. Sources' = Sources /\ limit(d)' = limit(d)
    BY Zenon, <1>3 DEF Fixed
  <2>2. CASE a = limit(d) /\ pc' = [pc EXCEPT ![w] = "complete"] /\ cur' = cur
    <3>1. pc'[w] = "complete"
      BY Zenon, <2>2 DEF BInv, IInv, Shape
    <3>2. pc'[w] # "copy" /\ pc'[w] # "decrement"
      BY <3>1
    <3>3. Receives(s)' = Receives(s) /\ dest_end(s)' = dest_end(s)
      BY Zenon, <1>3 DEF Fixed
    <3> QED BY Zenon, <1>1, <1>5, <2>1, <2>2, <3>2, <3>3 DEF WorkerOK
  <2>3. ASSUME a # limit(d), pc' = [pc EXCEPT ![w] = "copy"], NEW q \in NextSources(s, a),
               cur' = [cur EXCEPT ![w] = [cur[w] EXCEPT !.src = q, !.skip = 0, !.counts = TRUE]]
        PROVE  WorkerOK(w)'
    <3>1. pc'[w] = "copy" /\ cur'[w].src = q /\ cur'[w].skip = 0 /\ cur'[w].counts = TRUE
      BY Zenon, <2>3 DEF BInv, IInv, Shape, Fields
    <3>2. pc[w] # "copy"
      BY Zenon, <1>2
    <3>3. d \in Regions /\ a \in WordsOf(d) /\ q \in Sources /\ destination[q] = a
      BY Zenon, <1>1, <1>5, <2>3, <3>2, GoesOn
    <3>4. d \in Nat
      BY Zenon, <3>3, RegionsNat
    <3>5. a \in Nat /\ region_to_addr(d) <= a /\ region_to_addr(d) \in Nat
      BY Zenon, <3>3, <3>4, InRegion, RegionStep
    <3>6. destination[q] \in Nat /\ dest_end(q) \in Nat /\ destination[q] < dest_end(q)
      BY Zenon, <1>3, <3>3, DestRegions
    <3>7. a \in MovesTo(q)
      BY <3>3, <3>6 DEF MovesTo
    <3>8. d \in Receives(q)
      BY Zenon, <1>3, <3>3, <3>4, <3>7, ReceivesIt
    <3>9. Part(q, d) = a /\ a = destination[q] + 0
      BY <3>3, <3>5 DEF Part
    <3>10. /\ Receives(q)' = Receives(q) /\ destination[q]' = destination[q]
           /\ Part(q, d)' = Part(q, d)
      BY Zenon, <1>3 DEF Fixed
    <3>11. 0 \in Nat /\ pc'[w] # "decrement" /\ pc'[w] # "complete"
      BY <3>1
    <3> QED BY Zenon, <1>9, <2>1, <3>1, <3>3, <3>8, <3>9, <3>10, <3>11 DEF WorkerOK
  <2> QED BY Zenon, <1>6, <2>2, <2>3
<1> QED
  BY Zenon, <1>2, <1>3, <1>4, <1>9, <1>11, <1>12, StepKeeps

(* Completing a region: all that it receives has been taken. *)
LEMMA CompleteCounts == ASSUME BInv, NEW w \in Workers, Complete(w) PROVE BInv'
<1>1. PICK s, d : s = cur[w].src /\ d = cur[w].region
  BY Zenon
<1>2. /\ pc[w] = "complete" /\ UNCHANGED plan /\ ready' = ready
      /\ dc' = [dc EXCEPT ![d] = dc_completed] /\ pc' = [pc EXCEPT ![w] = "idle"]
      /\ cur' = [cur EXCEPT ![w] = NoRegion]
  BY Zenon, <1>1 DEF Complete
<1>3. IInv' /\ Fixed /\ PlanOK /\ PlanSizes
  BY Zenon, <1>2, CompleteKeeps, PlanFixed DEF BInv, PlanOK
<1>4. ReadyOK'
  BY Zenon, <1>2, <1>3 DEF BInv, ReadyOK, Fixed
<1>5. Only(w) /\ pc'[w] = "idle"
  BY Zenon, <1>2 DEF Only, BInv, IInv, Shape
<1>6. Held(w) /\ cur[w].dest = limit(d)
  BY Zenon, <1>1, <1>2 DEF BInv, WorkersOK, WorkerOK, Held
<1>7. d \in Regions /\ dc[d] = dc_claimed
  BY Zenon, <1>1, <1>6 DEF BInv, IInv, Claimed
<1>8. dc'[d] = dc_completed /\ \A q \in Regions \ {d} : dc'[q] = dc[q]
  BY Zenon, <1>2, <1>7 DEF BInv, IInv, Shape
<1>9. ASSUME NEW r \in Sources, NEW e \in Receives(r) PROVE Waits(r, e)' <=> Waits(r, e)
  <2>1. e \in Regions /\ Part(r, e) < limit(e)
    BY Zenon, <1>3, PartIn
  <2>2. CASE e = d
    <3>1. ~ Waits(r, e)'
      BY Zenon, <1>8, <2>2 DEF Waits
    <3>2. pc[w] \notin {"check", "decrement"}
      BY <1>2
    <3>3. Past(w, r, e)
      BY Zenon, <1>1, <1>6, <2>1, <2>2, <3>2 DEF Past
    <3> QED BY Zenon, <3>1, <3>3 DEF Waits
  <2>3. CASE e # d
    <3>1. ~ Past(w, r, e)
      BY Zenon, <1>1, <2>3 DEF Past
    <3>2. ~ Past(w, r, e)'
      BY Zenon, <1>5 DEF Past, Held
    <3>3. dc'[e] = dc[e]
      BY Zenon, <1>8, <2>1, <2>3
    <3> QED BY Zenon, <1>3, <1>5, <3>1, <3>2, <3>3, WaitsSame
  <2> QED BY Zenon, <2>2, <2>3
<1>10. CountsOK'
  BY Zenon, <1>3, <1>7, <1>8, <1>9, CountsKept DEF BInv
<1>11. WorkerOK(w)'
  BY Zenon, <1>5 DEF WorkerOK, Held
<1> QED
  BY Zenon, <1>2, <1>3, <1>4, <1>5, <1>10, <1>11, StepKeeps

-----------------------------------------------------------------------------
(* The words *)

(* A worker has filled the new address of word a. *)
Reached(w, a) ==
  Held(w) /\ cur[w].region = addr_to_region_idx(new_addr(a)) /\ new_addr(a) < cur[w].dest
Arrived(a) ==
  dc[addr_to_region_idx(new_addr(a))] = dc_completed \/ \E w \in Workers : Reached(w, a)

(* A live word is at its new address from then on, and at its old one      *)
(* until then.                                                             *)
MemOK == \A a \in live : IF Arrived(a) THEN mem[new_addr(a)] = a ELSE mem[a] = a

(* Live words of a region are numbered without repetition, and the number  *)
(* is no more than the distance to the start of the region.                *)
LEMMA Ranks ==
  ASSUME live \subseteq Words, NEW a \in live, NEW r, r = addr_to_region_idx(a)
  PROVE  /\ a \in Nat /\ r \in Regions /\ a \in data(r) /\ r \in Sources
         /\ rank(a) \in Nat /\ rank(a) < data_size(r) /\ region_to_addr(r) + rank(a) <= a
         /\ \A b \in data(r) : b < a => rank(b) < rank(a)
<1>1. a \in Nat /\ r \in Regions /\ a \in WordsOf(r)
  BY Zenon, WordRegion
<1>2. a \in data(r)
  BY Zenon, <1>1 DEF data
<1>3. IsFiniteSet(data(r)) /\ data_size(r) \in Nat
  BY Zenon, <1>1, DataSize
<1>4. r \in Nat
  BY Zenon, <1>1, RegionsNat
<1>5. \A b \in data(r) : b \in Nat /\ addr_to_region_idx(b) = r /\ region_to_addr(r) <= b
  BY Zenon, <1>4, InRegion DEF data
<1>6. \A b \in data(r) : rank(b) = Cardinality({c \in data(r) : c < b})
  BY Zenon, <1>5 DEF rank
<1>7. PICK S : S = {c \in data(r) : c < a}
  BY Zenon
<1>8. IsFiniteSet(S) /\ rank(a) = Cardinality(S) /\ S \subseteq data(r)
  BY Zenon, <1>2, <1>3, <1>6, <1>7, FS_Subset
<1>9. a \notin S
  <2>1. ~ (a < a)
    BY <1>1
  <2> QED BY Zenon, <1>7, <2>1
<1>10. rank(a) \in Nat
  BY Zenon, <1>8, FS_CardinalityType
<1>11. rank(a) < data_size(r)
  <2>1. /\ Cardinality(S) <= Cardinality(data(r))
        /\ Cardinality(S) = Cardinality(data(r)) => S = data(r)
    BY Zenon, <1>3, <1>8, FS_Subset
  <2>2. rank(a) <= data_size(r) /\ rank(a) # data_size(r)
    BY Zenon, <1>2, <1>8, <1>9, <2>1 DEF data_size
  <2> QED BY <1>3, <1>10, <2>2
<1>12. r \in Sources
  <2>1. data_size(r) > 0
    BY <1>3, <1>10, <1>11
  <2> QED BY Zenon, <1>1, <2>1 DEF Sources
<1>13. region_to_addr(r) + rank(a) <= a
  <2>1. PICK lo \in Nat : lo = region_to_addr(r) /\ lo <= a
    BY Zenon, <1>2, <1>4, <1>5, RegionStep
  <2>2. lo \in Int /\ a - 1 \in Int
    BY <1>1
  <2>3. IsFiniteSet(lo..(a - 1)) /\ Cardinality(lo..(a - 1)) = IF lo > a - 1 THEN 0 ELSE (a - 1) - lo + 1
    BY Zenon, <2>2, FS_Interval
  <2>4. Cardinality(lo..(a - 1)) = a - lo
    BY <1>1, <2>1, <2>3
  <2>5. S \subseteq lo..(a - 1)
    <3> SUFFICES ASSUME NEW c \in S PROVE c \in lo..(a - 1)
      BY Zenon
    <3>1. c < a /\ c \in Nat /\ lo <= c
      BY Zenon, <1>5, <1>7, <2>1
    <3> QED BY <1>1, <3>1
  <2>6. rank(a) <= a - lo
    BY Zenon, <1>8, <2>3, <2>4, <2>5, FS_Subset
  <2>7. lo + rank(a) <= a
    BY <1>1, <1>10, <2>6
  <2> QED BY Zenon, <2>1, <2>7
<1>14. ASSUME NEW b \in data(r), b < a PROVE rank(b) < rank(a)
  <2>1. PICK T : T = {c \in data(r) : c < b}
    BY Zenon
  <2>2. T \subseteq S
    <3> SUFFICES ASSUME NEW c \in T PROVE c \in S
      BY Zenon
    <3>1. c \in data(r) /\ c < b /\ c \in Nat /\ b \in Nat
      BY Zenon, <1>5, <2>1
    <3>2. c < a
      BY <1>1, <1>14, <3>1
    <3> QED BY Zenon, <1>7, <3>1, <3>2
  <2>3. b \in S /\ b \notin T
    <3>1. ~ (b < b)
      BY <1>5
    <3> QED BY Zenon, <1>7, <1>14, <2>1, <3>1
  <2>4. /\ IsFiniteSet(T) /\ Cardinality(T) <= Cardinality(S)
        /\ Cardinality(T) = Cardinality(S) => T = S
    BY Zenon, <1>8, <2>2, FS_Subset
  <2>5. rank(b) = Cardinality(T) /\ Cardinality(T) \in Nat
    BY Zenon, <1>6, <2>1, <2>4, FS_CardinalityType
  <2>6. rank(b) <= rank(a) /\ rank(b) # rank(a) /\ rank(b) \in Nat
    BY Zenon, <1>8, <2>3, <2>4, <2>5
  <2> QED BY <1>10, <2>6
<1> QED
  BY Zenon, <1>1, <1>2, <1>10, <1>11, <1>12, <1>13, <1>14

(* The new address of a live word *)
LEMMA NewAddr ==
  ASSUME PlanOK, NEW a \in live, NEW r, r = addr_to_region_idx(a), NEW x, x = new_addr(a), NEW d, d = addr_to_region_idx(x)
  PROVE  /\ r \in Sources /\ a \in Words /\ a \in data(r) /\ x \in Nat /\ x \in MovesTo(r) /\ x <= a
         /\ d \in Receives(r) /\ d \in Regions /\ x \in WordsOf(d) /\ x < limit(d) /\ x \in Words
         /\ x = destination[r] + rank(a) /\ rank(a) \in Nat
<1>1. live \subseteq Words /\ PlanSizes /\ PlanTops
  BY Zenon DEF PlanOK
<1>2. /\ a \in Nat /\ r \in Regions /\ a \in data(r) /\ r \in Sources
      /\ rank(a) \in Nat /\ rank(a) < data_size(r) /\ region_to_addr(r) + rank(a) <= a
  BY Zenon, <1>1, Ranks
<1>3. x = destination[r] + rank(a)
  BY Zenon DEF new_addr
<1>4. /\ destination[r] \in Nat /\ dest_end(r) \in Nat /\ data_size(r) \in Nat
      /\ destination[r] <= region_to_addr(r)
  BY Zenon, <1>1, <1>2, DestRegions DEF PlanSizes
<1>5. r \in Nat /\ region_to_addr(r) \in Nat
  BY Zenon, <1>2, RegionsNat, RegionStep
<1>6. x \in Nat /\ destination[r] <= x /\ x < destination[r] + data_size(r) /\ x <= a
  BY <1>2, <1>3, <1>4, <1>5
<1>7. x \in MovesTo(r)
  BY <1>4, <1>6 DEF MovesTo, dest_end
<1>8. d \in Nat /\ region_to_addr(d) <= x /\ x < region_to_addr(d + 1)
  BY Zenon, <1>6, RegionOf
<1>9. x \in WordsOf(d)
  BY Zenon, <1>6, <1>8, WordsIn
<1>10. d \in Receives(r)
  BY Zenon, <1>1, <1>2, <1>7, <1>8, <1>9, ReceivesIt
<1>11. d \in Regions /\ x < top[container(d)]
  BY Zenon, <1>1, <1>2, <1>7, <1>10 DEF PlanTops
<1>12. x \in Int
  BY <1>6
<1>13. x < limit(d)
  BY Zenon, <1>8, <1>11, <1>12, LimitIs
<1>14. x \in Words
  BY Zenon, <1>9, <1>11 DEF Words
<1>15. a \in Words
  BY Zenon, <1>1
<1> QED
  BY ZenonT(30), <1>2, <1>3, <1>6, <1>7, <1>9, <1>10, <1>11, <1>13, <1>14, <1>15

(* A worker that is past a region has filled all that comes from it. *)
LEMMA PastAll ==
  ASSUME BInv, NEW v \in Workers, NEW r \in Sources, NEW d \in Receives(r), Past(v, r, d),
         NEW x \in MovesTo(r), x \in WordsOf(d), x < limit(d)
  PROVE  x < cur[v].dest
<1>1. PICK s, y : s = cur[v].src /\ y = cur[v].dest
  BY Zenon
<1>2. Held(v) /\ cur[v].region = d /\ Part(r, d) < y
  BY Zenon, <1>1 DEF Past
<1>3. /\ s \in Sources /\ d \in Receives(s)
      /\ pc[v] = "copy" => y = Part(s, d)
      /\ pc[v] # "copy" => y = Min({dest_end(s), limit(d)})
  BY Zenon, <1>1, <1>2 DEF BInv, WorkersOK, WorkerOK
<1>4. PlanOK /\ PlanSizes /\ PlanApart
  BY Zenon DEF BInv, PlanOK
<1>5. /\ Part(r, d) \in Nat /\ Part(r, d) \in MovesTo(r)
      /\ Part(s, d) \in Nat /\ Part(s, d) \in MovesTo(s) /\ Part(s, d) < limit(d)
  BY Zenon, <1>3, <1>4, PartIn
<1>6. /\ destination[r] \in Nat /\ dest_end(r) \in Nat /\ destination[s] \in Nat /\ dest_end(s) \in Nat
  BY Zenon, <1>3, <1>4, DestRegions
<1>7. d \in Regions /\ limit(d) \in Int
  BY Zenon, <1>4, LimitIs, PartIn
<1>8. destination[r] <= x /\ x < dest_end(r) /\ x \in Int
  BY <1>6 DEF MovesTo
<1>9. destination[s] <= Part(s, d) /\ Part(s, d) < dest_end(s) /\ destination[r] <= Part(r, d)
  BY <1>5, <1>6 DEF MovesTo
<1>10. CASE pc[v] = "copy"
  <2>1. y = Part(s, d)
    BY Zenon, <1>3, <1>10
  <2>2. r # s
    <3>1. ~ (Part(s, d) < Part(s, d))
      BY <1>5
    <3> QED BY Zenon, <1>2, <2>1, <3>1
  <2>3. y \notin MovesTo(r)
    BY Zenon, <1>3, <1>4, <1>5, <2>1, <2>2 DEF PlanApart
  <2>4. x < y
    BY <1>2, <1>5, <1>6, <1>8, <1>9, <2>1, <2>3 DEF MovesTo
  <2> QED BY Zenon, <1>1, <2>4
<1>11. CASE pc[v] # "copy"
  <2>1. dest_end(s) \in Int
    BY <1>6
  <2>2. y = IF dest_end(s) <= limit(d) THEN dest_end(s) ELSE limit(d)
    BY Zenon, <1>3, <1>7, <1>11, <2>1, MinTwo
  <2>3. CASE r = s
    <3>1. x < dest_end(s)
      BY Zenon, <1>8, <2>3
    <3>2. x < y
      BY Zenon, <2>2, <3>1
    <3> QED BY Zenon, <1>1, <3>2
  <2>4. CASE r # s
    <3>1. y \in Int /\ Part(s, d) < y /\ y <= dest_end(s)
      BY <1>5, <1>6, <1>7, <1>9, <2>2
    <3>2. y - 1 \in MovesTo(s)
      BY <1>5, <1>6, <1>9, <3>1 DEF MovesTo
    <3>3. y - 1 \notin MovesTo(r)
      BY Zenon, <1>3, <1>4, <2>4, <3>2 DEF PlanApart
    <3>4. x < y
      BY <1>2, <1>5, <1>6, <1>8, <1>9, <3>1, <3>3 DEF MovesTo
    <3> QED BY Zenon, <1>1, <3>4
  <2> QED BY Zenon, <2>3, <2>4
<1> QED
  BY Zenon, <1>10, <1>11

(* All that leaves a region has arrived when the region may be filled. *)
LEMMA LeftHasArrived ==
  ASSUME BInv, NEW a \in live, NEW r, r = addr_to_region_idx(a), dc[r] = 0 \/ dc[r] >= dc_claimed,
         addr_to_region_idx(new_addr(a)) # r
  PROVE  Arrived(a)
<1>1. PlanOK
  BY Zenon DEF BInv
<1>2. PICK x, d : x = new_addr(a) /\ d = addr_to_region_idx(x)
  BY Zenon
<1>3. /\ r \in Sources /\ x \in MovesTo(r) /\ d \in Receives(r) /\ d \in Regions
      /\ x \in WordsOf(d) /\ x < limit(d)
  BY Zenon, <1>1, <1>2, NewAddr
<1>4. CountOK(r)
  BY Zenon, <1>3, SourcesNat DEF BInv, CountsOK
<1>5. ~ First(r) /\ ~ Second(r)
  <2>1. dc[r] = Left(r) => ~ First(r) /\ ~ Second(r)
    BY DEF Left, dc_claimed
  <2> QED BY Zenon, <1>3, <1>4, <2>1 DEF CountOK
<1>6. ~ Waits(r, d)
  <2>1. d # r
    BY Zenon, <1>2
  <2>2. CASE d = dest_region_2(r)
    BY Zenon, <1>5, <2>1, <2>2 DEF Second
  <2>3. CASE d # dest_region_2(r)
    <3>1. d = dest_region_1(r)
      BY Zenon, <1>3, <2>3 DEF Receives
    <3> QED BY Zenon, <1>5, <2>3, <3>1 DEF First
  <2> QED BY Zenon, <2>2, <2>3
<1>7. CASE dc[d] = dc_completed
  BY Zenon, <1>2, <1>7 DEF Arrived
<1>8. ASSUME NEW v \in Workers, Past(v, r, d) PROVE Arrived(a)
  <2>1. x < cur[v].dest
    BY Zenon, <1>3, <1>8, PastAll
  <2>2. Held(v) /\ cur[v].region = d
    BY Zenon, <1>8 DEF Past
  <2> QED BY Zenon, <1>2, <2>1, <2>2 DEF Arrived, Reached
<1> QED
  BY Zenon, <1>6, <1>7, <1>8 DEF Waits

(* A word has arrived, or not, as before when nothing about it has         *)
(* changed.                                                                *)
LEMMA ArrivedSame ==
  ASSUME Fixed, NEW w \in Workers, Only(w), NEW a, NEW d, d = addr_to_region_idx(new_addr(a)),
         dc'[d] = dc_completed <=> dc[d] = dc_completed, Reached(w, a)' <=> Reached(w, a)
  PROVE  Arrived(a)' <=> Arrived(a)
<1>1. new_addr(a)' = new_addr(a)
  BY Zenon DEF Fixed
<1>2. \A v \in Workers : Reached(v, a)' <=> Reached(v, a)
  <2> SUFFICES ASSUME NEW v \in Workers, v # w PROVE Reached(v, a)' <=> Reached(v, a)
    BY Zenon
  <2>1. pc'[v] = pc[v] /\ cur'[v] = cur[v]
    BY Zenon DEF Only
  <2> QED BY Zenon, <1>1, <2>1 DEF Reached, Held
<1> QED
  BY Zenon, <1>1, <1>2 DEF Arrived

(* Steps that copy nothing and let nothing arrive keep the words. *)
LEMMA MemSame ==
  ASSUME MemOK, Fixed, mem' = mem, \A a \in live : Arrived(a)' <=> Arrived(a)
  PROVE  MemOK'
<1>1. live' = live /\ \A a : new_addr(a)' = new_addr(a)
  BY Zenon DEF Fixed
<1> SUFFICES ASSUME NEW a \in live PROVE IF Arrived(a)' THEN mem[new_addr(a)] = a ELSE mem[a] = a
  BY Zenon, <1>1 DEF MemOK
<1> QED
  BY Zenon DEF MemOK

(* Taking a region lets no word arrive. *)
LEMMA TakeRegionWords == ASSUME BInv, MemOK, NEW w \in Workers, TakeRegion(w) PROVE MemOK'
<1>1. PICK d \in ready :
        /\ ready' = ready \ {d}
        /\ IF NothingToFill(d)
             THEN dc' = [dc EXCEPT ![d] = dc_completed] /\ UNCHANGED <<pc, cur>>
             ELSE /\ cur' = [cur EXCEPT ![w] =
                              [region |-> d, src |-> source_region[d], dest |-> region_to_addr(d),
                               skip |-> first_src_addr(d), counts |-> ~ self_copied(d)]]
                  /\ pc' = [pc EXCEPT ![w] = "copy"]
                  /\ UNCHANGED dc
  BY Zenon DEF TakeRegion
<1>2. pc[w] = "idle" /\ UNCHANGED plan /\ mem' = mem
  BY Zenon DEF TakeRegion
<1>3. Fixed /\ PlanOK
  BY Zenon, <1>2, PlanFixed DEF BInv
<1>4. d \in Regions /\ d < enqueue_end
  BY Zenon DEF BInv, IInv, Claimed, ReadyOK
<1> SUFFICES ASSUME NEW a \in live PROVE Arrived(a)' <=> Arrived(a)
  BY Zenon, <1>2, <1>3, MemSame
<1>5. PICK x, e, r : x = new_addr(a) /\ e = addr_to_region_idx(x) /\ r = addr_to_region_idx(a)
  BY Zenon
<1>6. r \in Sources /\ e \in Receives(r) /\ e \in Regions /\ x \in WordsOf(e)
  BY Zenon, <1>3, <1>5, NewAddr
<1>7. new_addr(a)' = x
  BY Zenon, <1>3, <1>5 DEF Fixed
<1>8. CASE NothingToFill(d)
  <2>1. e # d
    BY Zenon, <1>3, <1>4, <1>6, <1>8 DEF PlanOK, PlanTargets
  <2>2. dc' = [dc EXCEPT ![d] = dc_completed] /\ pc' = pc /\ cur' = cur
    BY Zenon, <1>1, <1>8
  <2>3. dc'[e] = dc[e]
    BY Zenon, <1>6, <2>1, <2>2 DEF BInv, IInv, Shape
  <2>4. Only(w)
    BY Zenon, <2>2 DEF Only
  <2>5. Reached(w, a)' <=> Reached(w, a)
    BY Zenon, <1>5, <1>7, <2>2 DEF Reached, Held
  <2> QED BY Zenon, <1>3, <1>5, <2>3, <2>4, <2>5, ArrivedSame
<1>9. CASE ~ NothingToFill(d)
  <2>1. /\ cur' = [cur EXCEPT ![w] =
                    [region |-> d, src |-> source_region[d], dest |-> region_to_addr(d),
                     skip |-> first_src_addr(d), counts |-> ~ self_copied(d)]]
        /\ pc' = [pc EXCEPT ![w] = "copy"]
        /\ dc' = dc
    BY Zenon, <1>1, <1>9
  <2>2. cur'[w].region = d /\ cur'[w].dest = region_to_addr(d)
    BY <2>1 DEF BInv, IInv, Shape
  <2>3. Only(w)
    BY Zenon, <2>1 DEF Only, BInv, IInv, Shape
  <2>4. ~ Reached(w, a)
    BY Zenon, <1>2 DEF Reached, Held
  <2>5. ~ Reached(w, a)'
    <3> SUFFICES ASSUME Reached(w, a)' PROVE FALSE
      BY Zenon
    <3>1. d = e /\ x < region_to_addr(d)
      BY Zenon, <1>5, <1>7, <2>2 DEF Reached
    <3>2. d \in Nat
      BY Zenon, <1>4, RegionsNat
    <3>3. region_to_addr(d) <= x /\ x \in Nat /\ region_to_addr(d) \in Nat
      BY Zenon, <1>6, <3>1, <3>2, InRegion, RegionStep
    <3> QED BY <3>1, <3>3
  <2> QED BY ZenonT(30), <1>3, <1>5, <2>1, <2>3, <2>4, <2>5, ArrivedSame
<1> QED
  BY Zenon, <1>8, <1>9

(* Steps after which a worker holds what it held, and is where it was *)
LEMMA StaysWords ==
  ASSUME BInv, MemOK, NEW w \in Workers, UNCHANGED plan, mem' = mem, Only(w), Held(w), Held(w)',
         cur'[w].region = cur[w].region, cur'[w].dest = cur[w].dest,
         \A d \in Regions : dc'[d] = dc_completed <=> dc[d] = dc_completed
  PROVE  MemOK'
<1>1. Fixed /\ PlanOK
  BY Zenon, PlanFixed DEF BInv
<1> SUFFICES ASSUME NEW a \in live PROVE Arrived(a)' <=> Arrived(a)
  BY Zenon, <1>1, MemSame
<1>2. PICK d \in Regions : d = addr_to_region_idx(new_addr(a))
  BY Zenon, <1>1, NewAddr
<1>3. new_addr(a)' = new_addr(a)
  BY Zenon, <1>1 DEF Fixed
<1>4. Reached(w, a)' <=> Reached(w, a)
  BY Zenon, <1>3 DEF Reached
<1> QED
  BY Zenon, <1>1, <1>2, <1>4, ArrivedSame

(* Looking at the count of a region moves no word. *)
LEMMA CheckWords == ASSUME BInv, MemOK, NEW w \in Workers, Check(w) PROVE MemOK'
<1>1. /\ pc[w] = "check" /\ UNCHANGED plan /\ mem' = mem /\ dc' = dc /\ cur' = cur
      /\ pc' = [pc EXCEPT ![w] = IF dc[cur[w].src] >= dc_claimed THEN "claim" ELSE "decrement"]
  BY Zenon DEF Check
<1>2. Only(w) /\ Held(w)
  BY Zenon, <1>1 DEF Only, BInv, IInv, Shape, Held
<1>3. Held(w)'
  BY <1>1 DEF BInv, IInv, Shape, Held
<1> QED
  BY Zenon, <1>1, <1>2, <1>3, StaysWords

(* Counting down moves no word. *)
LEMMA DecrementWords == ASSUME BInv, MemOK, NEW w \in Workers, Decrement(w) PROVE MemOK'
<1>1. /\ pc[w] = "decrement" /\ UNCHANGED plan /\ mem' = mem /\ cur' = cur
      /\ dc' = [dc EXCEPT ![cur[w].src] = @ - 1] /\ pc' = [pc EXCEPT ![w] = "claim"]
  BY Zenon DEF Decrement
<1>2. Only(w) /\ Held(w)
  BY Zenon, <1>1 DEF Only, BInv, IInv, Shape, Held
<1>3. Held(w)'
  BY <1>1 DEF BInv, IInv, Shape, Held
<1>4. dc[cur[w].src] \in 1..2
  BY Zenon, <1>1, CountsFollow DEF CountsHold
<1>5. dc[cur[w].src] - 1 # dc_completed /\ dc[cur[w].src] # dc_completed
  BY <1>4 DEF dc_completed
<1>6. \A d \in Regions : dc'[d] = dc_completed <=> dc[d] = dc_completed
  BY Zenon, <1>1, <1>5 DEF BInv, IInv, Shape
<1> QED
  BY Zenon, <1>1, <1>2, <1>3, <1>6, StaysWords

(* Claiming moves no word. *)
LEMMA ClaimWords == ASSUME BInv, MemOK, NEW w \in Workers, Claim(w) PROVE MemOK'
<1>1. /\ pc[w] = "claim" /\ UNCHANGED plan /\ mem' = mem /\ Advance(w)
      /\ IF Claims(cur[w].src)
           THEN dc' = [dc EXCEPT ![cur[w].src] = dc_claimed] ELSE dc' = dc
  BY Zenon DEF Claim
<1>2. \A r \in Regions : dc'[r] = dc[r] \/ (dc'[r] = dc_claimed /\ dc[r] = 0)
  BY Zenon, <1>1 DEF BInv, IInv, Shape, Claims
<1>3. \A r \in Regions : dc'[r] = dc_completed <=> dc[r] = dc_completed
  <2>1. dc_claimed # dc_completed /\ 0 # dc_completed
    BY DEF dc_claimed, dc_completed
  <2> QED BY Zenon, <1>2, <2>1
<1>4. Only(w) /\ cur'[w].region = cur[w].region /\ cur'[w].dest = cur[w].dest /\ pc'[w] \in {"copy", "complete"}
  <2>1. CASE pc' = [pc EXCEPT ![w] = "complete"] /\ cur' = cur
    BY Zenon, <2>1 DEF Only, BInv, IInv, Shape
  <2>2. ASSUME pc' = [pc EXCEPT ![w] = "copy"], NEW q,
               cur' = [cur EXCEPT ![w] = [cur[w] EXCEPT !.src = q, !.skip = 0, !.counts = TRUE]]
        PROVE  /\ Only(w) /\ cur'[w].region = cur[w].region /\ cur'[w].dest = cur[w].dest
               /\ pc'[w] \in {"copy", "complete"}
    BY Zenon, <2>2 DEF Only, BInv, IInv, Shape, Fields
  <2>3. \/ pc' = [pc EXCEPT ![w] = "complete"] /\ cur' = cur
        \/ /\ pc' = [pc EXCEPT ![w] = "copy"]
           /\ \E q : cur' = [cur EXCEPT ![w] = [cur[w] EXCEPT !.src = q, !.skip = 0, !.counts = TRUE]]
    <3>1. CASE cur[w].dest = limit(cur[w].region)
      BY Zenon, <1>1, <3>1 DEF Advance
    <3>2. CASE cur[w].dest # limit(cur[w].region)
      BY Zenon, <1>1, <3>2 DEF Advance
    <3> QED BY Zenon, <3>1, <3>2
  <2> QED BY Zenon, <2>1, <2>2, <2>3
<1>5. Held(w) /\ Held(w)'
  BY <1>1, <1>4 DEF Held
<1> QED
  BY Zenon, <1>1, <1>3, <1>4, <1>5, StaysWords

(* A completed region had received all its words. *)
LEMMA CompleteWords == ASSUME BInv, MemOK, NEW w \in Workers, Complete(w) PROVE MemOK'
<1>1. PICK d : d = cur[w].region
  BY Zenon
<1>2. /\ pc[w] = "complete" /\ UNCHANGED plan /\ mem' = mem
      /\ dc' = [dc EXCEPT ![d] = dc_completed] /\ pc' = [pc EXCEPT ![w] = "idle"]
      /\ cur' = [cur EXCEPT ![w] = NoRegion]
  BY Zenon, <1>1 DEF Complete
<1>3. Fixed /\ PlanOK
  BY Zenon, <1>2, PlanFixed DEF BInv
<1>4. Only(w) /\ pc'[w] = "idle"
  BY Zenon, <1>2 DEF Only, BInv, IInv, Shape
<1>5. Held(w) /\ cur[w].dest = limit(d)
  BY Zenon, <1>1, <1>2 DEF BInv, WorkersOK, WorkerOK, Held
<1>6. d \in Regions
  BY Zenon, <1>1, <1>5 DEF BInv, IInv, Claimed
<1> SUFFICES ASSUME NEW a \in live PROVE Arrived(a)' <=> Arrived(a)
  BY Zenon, <1>2, <1>3, MemSame
<1>7. PICK x, e : x = new_addr(a) /\ e = addr_to_region_idx(x)
  BY Zenon
<1>8. e \in Regions /\ x < limit(e)
  BY Zenon, <1>3, <1>7, NewAddr
<1>9. new_addr(a)' = x
  BY Zenon, <1>3, <1>7 DEF Fixed
<1>10. CASE e = d
  <2>1. Reached(w, a)
    BY Zenon, <1>1, <1>5, <1>7, <1>8, <1>10 DEF Reached
  <2>2. dc'[e] = dc_completed
    BY Zenon, <1>2, <1>6, <1>10 DEF BInv, IInv, Shape
  <2> QED BY Zenon, <1>7, <1>9, <2>1, <2>2 DEF Arrived
<1>11. CASE e # d
  <2>1. ~ Reached(w, a)
    BY Zenon, <1>1, <1>7, <1>11 DEF Reached
  <2>2. ~ Reached(w, a)'
    BY Zenon, <1>4 DEF Reached, Held
  <2>3. dc'[e] = dc[e]
    BY Zenon, <1>2, <1>8, <1>11 DEF BInv, IInv, Shape
  <2> QED BY ZenonT(30), <1>3, <1>4, <1>7, <2>1, <2>2, <2>3, ArrivedSame
<1> QED
  BY Zenon, <1>10, <1>11

(* Copying: the words that arrive *)
LEMMA CopyWords == ASSUME BInv, MemOK, NEW w \in Workers, Copy(w) PROVE MemOK'
<1>1. PICK n : n = Min({data_size(cur[w].src) - cur[w].skip, limit(cur[w].region) - cur[w].dest})
  BY Zenon
<1>2. PICK s, d, y, z, k :
        s = cur[w].src /\ d = cur[w].region /\ y = cur[w].dest /\ z = y + n /\ k = cur[w].skip
  BY Zenon
<1>3. /\ pc[w] = "copy" /\ UNCHANGED plan /\ dc' = dc
      /\ cur' = [cur EXCEPT ![w] = [cur[w] EXCEPT !.dest = z]]
      /\ pc' = [pc EXCEPT ![w] = IF cur[w].counts THEN "check"
                                 ELSE IF z = limit(d) THEN "complete" ELSE "claim"]
      /\ mem' = [a \in Words |-> IF y <= a /\ a < z THEN mem[word_at(s, k + a - y)] ELSE mem[a]]
  BY Zenon, <1>1, <1>2 DEF Copy
<1>4. Fixed /\ PlanOK /\ PlanSizes /\ PlanApart
  BY Zenon, <1>3, PlanFixed DEF BInv, PlanOK
<1>5. Only(w)
  BY Zenon, <1>3 DEF Only, BInv, IInv, Shape
<1>6. cur'[w].region = d /\ cur'[w].dest = z
  BY <1>2, <1>3 DEF BInv, IInv, Shape, Fields
<1>7. Held(w) /\ Held(w)'
  <2>1. pc'[w] = IF cur[w].counts THEN "check" ELSE IF z = limit(d) THEN "complete" ELSE "claim"
    BY ZenonT(30), <1>3 DEF BInv, IInv, Shape
  <2> QED BY <1>3, <2>1 DEF Held
<1>8. /\ y \in Nat /\ z \in Nat /\ y < z /\ z <= dest_end(s) /\ z <= limit(d) /\ y = Part(s, d)
      /\ y = destination[s] + k
  <2>1. /\ y \in Nat /\ n \in Nat /\ y < z /\ z <= dest_end(s) /\ z <= limit(d) /\ y = Part(s, d)
        /\ y = destination[s] + k
    BY Zenon, <1>1, <1>2, <1>3, CopyTo
  <2> QED BY <1>2, <2>1
<1>9. s \in Sources /\ d \in Receives(s) /\ k \in Nat
  BY Zenon, <1>2, <1>3, <1>7 DEF BInv, WorkersOK, WorkerOK
<1>10. /\ destination[s] \in Nat /\ dest_end(s) \in Nat /\ y \in MovesTo(s) /\ y \in WordsOf(d)
       /\ d \in Regions /\ d \in Nat
  BY Zenon, <1>4, <1>8, <1>9, DestRegions, PartIn, RegionsNat
<1>11. /\ region_to_addr(d) \in Nat /\ region_to_addr(d + 1) \in Nat
       /\ region_to_addr(d) <= y /\ limit(d) <= region_to_addr(d + 1) /\ limit(d) \in Int
  <2>1. d + 1 \in Nat
    BY <1>10
  <2> QED BY ZenonT(30), <1>4, <1>10, <2>1, RegionStep, InRegion, LimitIs
<1>12. dc[d] = dc_claimed
  BY Zenon, <1>2, <1>7 DEF BInv, IInv, Claimed
<1>13. ASSUME NEW a \in live, NEW x, x = new_addr(a), addr_to_region_idx(x) = d
       PROVE  Arrived(a) <=> x < y
  <2>1. dc[d] # dc_completed
    BY <1>12 DEF dc_claimed, dc_completed
  <2>2. Reached(w, a) <=> x < y
    BY Zenon, <1>2, <1>7, <1>13 DEF Reached
  <2>3. ASSUME NEW v \in Workers, Reached(v, a) PROVE v = w
    BY Zenon, <1>2, <1>7, <1>13, <2>3 DEF Reached, BInv, IInv, Claimed
  <2> QED BY Zenon, <1>13, <2>1, <2>2, <2>3 DEF Arrived
<1> SUFFICES ASSUME NEW a \in live
             PROVE  IF Arrived(a)' THEN mem'[new_addr(a)] = a ELSE mem'[a] = a
  <2>1. live' = live /\ \A a : new_addr(a)' = new_addr(a)
    BY Zenon, <1>4 DEF Fixed
  <2> QED BY Zenon, <2>1 DEF MemOK
<1>14. PICK x, e, r : x = new_addr(a) /\ e = addr_to_region_idx(x) /\ r = addr_to_region_idx(a)
  BY Zenon
<1>15. /\ r \in Sources /\ a \in Words /\ a \in data(r) /\ x \in Nat /\ x \in MovesTo(r) /\ x <= a
       /\ e \in Regions /\ x \in WordsOf(e) /\ x \in Words
       /\ x = destination[r] + rank(a) /\ rank(a) \in Nat
  BY Zenon, <1>4, <1>14, NewAddr
<1>16. new_addr(a)' = x
  BY Zenon, <1>4, <1>14 DEF Fixed
<1>17. a \in Nat
  BY Zenon, <1>15, WordRegion
<1>18. IF Arrived(a) THEN mem[x] = a ELSE mem[a] = a
  BY Zenon, <1>14 DEF MemOK
<1>19. CASE y <= x /\ x < z
  <2>1. e = d
    <3>1. region_to_addr(d) <= x /\ x < region_to_addr(d + 1)
      BY <1>8, <1>11, <1>15, <1>19
    <3> QED BY ZenonT(30), <1>10, <1>14, <1>15, <3>1, RegionIs
  <2>2. Reached(w, a)'
    BY ZenonT(30), <1>6, <1>7, <1>14, <1>16, <1>19, <2>1 DEF Reached
  <2>3. Arrived(a)'
    BY Zenon, <2>2 DEF Arrived
  <2>4. ~ Arrived(a)
    <3>1. ~ (x < y)
      BY <1>8, <1>15, <1>19
    <3> QED BY Zenon, <1>13, <1>14, <2>1, <3>1
  <2>5. mem[a] = a
    BY Zenon, <1>18, <2>4
  <2>6. x \in MovesTo(s)
    <3>1. destination[s] <= y
      BY <1>10 DEF MovesTo
    <3> QED BY SMTT(30), <1>8, <1>10, <1>15, <1>19, <3>1 DEF MovesTo
  <2>7. r = s
    BY ZenonT(30), <1>4, <1>9, <1>15, <2>6 DEF PlanApart
  <2>8. rank(a) = k + x - y
    <3>1. x = destination[s] + rank(a)
      BY Zenon, <1>15, <2>7
    <3> QED BY <1>8, <1>9, <1>10, <1>15, <3>1
  <2>9. word_at(s, k + x - y) = a
    <3>1. PICK b \in data(s) : b = word_at(s, k + x - y) /\ rank(b) = rank(a)
      <4>1. \E b \in data(s) : rank(b) = k + x - y
        BY Zenon, <1>15, <2>7, <2>8
      <4>2. word_at(s, k + x - y) \in data(s) /\ rank(word_at(s, k + x - y)) = k + x - y
        BY Zenon, <4>1 DEF word_at
      <4> QED BY Zenon, <2>8, <4>2
    <3>2. b \in live /\ addr_to_region_idx(b) = s
      <4>1. s \in Nat
        BY Zenon, <1>9, SourcesNat
      <4> QED BY Zenon, <4>1, InRegion DEF data
    <3>3. b \in Nat /\ live \subseteq Words
      BY Zenon, <1>4, <3>2, WordRegion DEF PlanOK
    <3>4. b < a => rank(b) < rank(a)
      BY Zenon, <1>14, <2>7, <3>3, Ranks
    <3>5. a < b => rank(a) < rank(b)
      BY ZenonT(30), <1>15, <2>7, <3>2, <3>3, Ranks
    <3>6. b = a
      BY <1>15, <1>17, <3>1, <3>3, <3>4, <3>5
    <3> QED BY Zenon, <3>1, <3>6
  <2>10. mem'[x] = mem[word_at(s, k + x - y)]
    BY Zenon, <1>3, <1>15, <1>19
  <2> QED BY Zenon, <1>14, <2>3, <2>5, <2>9, <2>10
<1>20. CASE ~ (y <= x /\ x < z)
  <2>1. x < z <=> x < y
    BY <1>8, <1>15, <1>20
  <2>2. Reached(w, a)' <=> Reached(w, a)
    BY Zenon, <1>2, <1>6, <1>7, <1>14, <1>16, <2>1 DEF Reached
  <2>3. Arrived(a)' <=> Arrived(a)
    BY Zenon, <1>3, <1>4, <1>5, <2>2, ArrivedSame
  <2>4. CASE Arrived(a)
    <3>1. mem'[x] = mem[x]
      BY Zenon, <1>3, <1>15, <1>20
    <3> QED BY Zenon, <1>14, <1>18, <2>3, <2>4, <3>1
  <2>5. CASE ~ Arrived(a)
    <3>1. ~ (y <= a /\ a < z)
      <4> SUFFICES ASSUME y <= a, a < z PROVE FALSE
        BY Zenon
      <4>1. region_to_addr(d) <= a /\ a < region_to_addr(d + 1)
        BY <1>8, <1>11, <1>17
      <4>2. r = d
        BY Zenon, <1>10, <1>14, <1>17, <4>1, RegionIs
      <4>3. dc[r] >= dc_claimed
        BY <1>12, <4>2 DEF dc_claimed
      <4>4. e = d
        BY Zenon, <1>14, <2>5, <4>2, <4>3, LeftHasArrived
      <4>5. ~ (x < y)
        BY Zenon, <1>13, <1>14, <2>5, <4>4
      <4> QED BY <1>8, <1>15, <1>17, <2>1, <4>5
    <3>2. mem'[a] = mem[a]
      BY Zenon, <1>3, <1>15, <3>1
    <3> QED BY Zenon, <1>14, <1>18, <2>3, <2>5, <3>2
  <2> QED BY Zenon, <2>4, <2>5
<1> QED
  BY Zenon, <1>19, <1>20

-----------------------------------------------------------------------------
CInv == BInv /\ MemOK

(* The invariant holds when the phase starts, *)
LEMMA CInvInit == Init => CInv
<1> SUFFICES ASSUME Init PROVE CInv
  BY Zenon
<1>1. BInv /\ PlanOK
  BY Zenon, InitInv DEF BInv
<1>2. ASSUME NEW a \in live PROVE IF Arrived(a) THEN mem[new_addr(a)] = a ELSE mem[a] = a
  <2>1. \A w \in Workers : ~ Reached(w, a)
    BY Zenon DEF Init, Reached, Held
  <2>2. PICK d \in Regions : d = addr_to_region_idx(new_addr(a)) /\ a \in Words
    BY Zenon, <1>1, NewAddr
  <2>3. dc[d] # dc_completed
    <3>1. dc[d] = IF d \in ready THEN dc_claimed ELSE destination_count(d)
      BY Zenon DEF Init
    <3>2. destination_count(d) \in 0..2
      BY DEF destination_count
    <3> QED BY <3>1, <3>2 DEF dc_claimed, dc_completed
  <2>4. ~ Arrived(a)
    BY Zenon, <2>1, <2>2, <2>3 DEF Arrived
  <2>5. mem[a] = a
    BY Zenon, <2>2 DEF Init
  <2> QED BY Zenon, <2>4, <2>5
<1> QED
  BY Zenon, <1>1, <1>2 DEF CInv, MemOK

(* and every step keeps it. *)
LEMMA CInvNext == CInv /\ [Next]_vars => CInv'
<1> SUFFICES ASSUME CInv, [Next]_vars PROVE CInv'
  BY Zenon
<1>1. CASE UNCHANGED vars
  <2>1. UNCHANGED plan /\ mem' = mem /\ dc' = dc /\ ready' = ready /\ pc' = pc /\ cur' = cur
    BY Zenon, <1>1 DEF vars
  <2>2. Fixed /\ PlanOK' /\ BInv /\ MemOK
    BY Zenon, <2>1, PlanFixed, PlanStays DEF CInv, BInv
  <2>3. IInv'
    BY Zenon, <2>1, <2>2 DEF BInv, IInv, Shape, Claimed, Held
  <2>4. ReadyOK'
    BY Zenon, <2>1, <2>2 DEF BInv, ReadyOK, Fixed
  <2>5. WorkersOK'
    BY Zenon, <2>1, <2>2, WorkerSame DEF BInv, WorkersOK
  <2>6. \A w, r, d : Past(w, r, d)' <=> Past(w, r, d)
    BY Zenon, <2>1, <2>2 DEF Past, Held, Fixed
  <2>7. \A r, d : Waits(r, d)' <=> Waits(r, d)
    BY Zenon, <2>1, <2>6 DEF Waits
  <2>8. CountsOK'
    BY Zenon, <2>1, <2>2, <2>7, CountsKept DEF BInv
  <2>9. \A w, a : Reached(w, a)' <=> Reached(w, a)
    BY Zenon, <2>1, <2>2 DEF Reached, Held, Fixed
  <2>10. \A a : Arrived(a)' <=> Arrived(a)
    BY Zenon, <2>1, <2>2, <2>9 DEF Arrived, Fixed
  <2>11. MemOK'
    BY Zenon, <2>1, <2>2, <2>10, MemSame
  <2> QED BY Zenon, <2>2, <2>3, <2>4, <2>5, <2>8, <2>11 DEF CInv, BInv
<1>2. ASSUME NEW w \in Workers, Fill(w) PROVE CInv'
  <2>1. BInv /\ MemOK
    BY Zenon DEF CInv
  <2>2. CASE TakeRegion(w)
    BY Zenon, <2>1, <2>2, TakeRegionCounts, TakeRegionWords DEF CInv
  <2>3. CASE Copy(w)
    BY ZenonT(30), <2>1, <2>3, CopyCounts, CopyWords DEF CInv
  <2>4. CASE Check(w)
    BY Zenon, <2>1, <2>4, CheckCounts, CheckWords DEF CInv
  <2>5. CASE Decrement(w)
    BY Zenon, <2>1, <2>5, DecrementCounts, DecrementWords DEF CInv
  <2>6. CASE Claim(w)
    BY Zenon, <2>1, <2>6, ClaimCounts, ClaimWords DEF CInv
  <2>7. CASE Complete(w)
    BY Zenon, <2>1, <2>7, CompleteCounts, CompleteWords DEF CInv
  <2> QED BY Zenon, <1>2, <2>2, <2>3, <2>4, <2>5, <2>6, <2>7 DEF Fill
<1> QED BY Zenon, <1>1, <1>2 DEF Next

(* No region is filled by two workers, none is filled again, and none is   *)
(* on a stack while it is being filled: the claim of fill_region and       *)
(* enqueue_region_draining_tasks is exclusive, for every plan of the       *)
(* summary, every space and every number of workers.                       *)
THEOREM ClaimsExclusive == Spec => []FilledOnce
<1>1. CInv => FilledOnce
  BY DEF CInv, BInv, IInv, Claimed, FilledOnce, Held, dc_claimed, dc_completed
<1> QED BY CInvInit, CInvNext, <1>1, PTL DEF Spec

(* The destination counts are right: the assertions of                     *)
(* decrement_destination_count, first_src_addr and next_src_region never   *)
(* fail.                                                                   *)
THEOREM CountsRight == Spec => []CountsHold
<1>1. CInv => CountsHold
  BY Zenon, CountsFollow DEF CInv
<1> QED BY CInvInit, CInvNext, <1>1, PTL DEF Spec

(* A region that may be overwritten (its count is 0, or it is claimed)     *)
(* holds nothing that is needed: all that leaves it has arrived, and       *)
(* stays.                                                                  *)
THEOREM WordsSurvive == Spec => []Evacuated
<1>1. CInv => Evacuated
  <2> SUFFICES ASSUME CInv, NEW a \in live, NEW r, r = addr_to_region_idx(a),
                      dc[r] = 0 \/ dc[r] >= dc_claimed, addr_to_region_idx(new_addr(a)) # r
               PROVE  mem[new_addr(a)] = a
    BY Zenon DEF Evacuated
  <2>1. Arrived(a)
    BY Zenon, LeftHasArrived DEF CInv
  <2> QED BY Zenon, <2>1 DEF CInv, MemOK
<1> QED BY CInvInit, CInvNext, <1>1, PTL DEF Spec

(* When every region below the new top is completed (what verify_complete  *)
(* looks at), every live word is at its new address.                       *)
THEOREM EndsRight ==
  Spec => []((\A r \in Regions : r < enqueue_end => dc[r] = dc_completed) => Filled)
<1> DEFINE Ended == \A r \in Regions : r < enqueue_end => dc[r] = dc_completed
<1>1. CInv => (Ended => Filled)
  <2> SUFFICES ASSUME CInv, Ended, NEW a \in live PROVE mem[new_addr(a)] = a
    BY Zenon DEF Filled
  <2>1. PICK r, d : r = addr_to_region_idx(a) /\ d = addr_to_region_idx(new_addr(a))
    BY Zenon
  <2>2. PlanOK /\ PlanEnds
    BY Zenon DEF CInv, BInv, PlanOK
  <2>3. r \in Sources /\ d \in Receives(r) /\ d \in Regions
    BY Zenon, <2>1, <2>2, NewAddr
  <2>4. dc[d] = dc_completed
    BY Zenon, <2>2, <2>3 DEF PlanEnds
  <2>5. Arrived(a)
    BY Zenon, <2>1, <2>4 DEF Arrived
  <2> QED BY Zenon, <2>5 DEF CInv, MemOK
<1> QED BY CInvInit, CInvNext, <1>1, PTL DEF Spec
=============================================================================
