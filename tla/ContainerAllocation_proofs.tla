--------------------- MODULE ContainerAllocation_proofs ---------------------
(***************************************************************************)
(* The memory that ContainerAllocation hands out, for every number of      *)
(* workers, spaces and segments and all sizes the assumption allows: IInv  *)
(* is inductive, and the safety properties follow from it.  First the      *)
(* lemmas: the arithmetic of rounding up, what is free in a space, and     *)
(* what push_container does to the memory of the old generation.  Two      *)
(* theorems about the layout of the spaces show where the assumptions of   *)
(* ContainerAllocation come from.                                          *)
(***************************************************************************)
EXTENDS ContainerAllocation, TLAPS

-----------------------------------------------------------------------------
(* Rounding up to an alignment.                                            *)

(* Quotient and remainder. *)
LEMMA DivMod ==
  ASSUME NEW x \in Int, NEW a \in Nat \ {0}
  PROVE  /\ x \div a \in Int
         /\ x % a \in Int
         /\ x = a * (x \div a) + (x % a)
         /\ 0 <= x % a
         /\ x % a < a
  OBVIOUS

(* A number below the modulus is its own remainder. *)
LEMMA ModSmall ==
  ASSUME NEW x \in Nat, NEW a \in Nat \ {0}, x < a
  PROVE  x % a = x
  OBVIOUS

(* Distinct multiples of a are at least a apart. *)
LEMMA MultiplesApart ==
  ASSUME NEW i \in Int, NEW q \in Int, NEW a \in Nat \ {0}, a * i > a * q
  PROVE  a * i >= a * q + a
<1>1. i > q
  OBVIOUS
<1>2. i >= q + 1
  BY <1>1
<1>3. a * i >= a * (q + 1)
  BY <1>2
<1> QED
  BY <1>3

(* A number that is a times something leaves no remainder. *)
LEMMA ModMultiple ==
  ASSUME NEW k \in Int, NEW a \in Nat \ {0}
  PROVE  (a * k) % a = 0
<1> DEFINE q == (a * k) \div a
           r == (a * k) % a
<1>1. q \in Int /\ r \in Int /\ a * k = a * q + r /\ 0 <= r /\ r < a
  BY DivMod
<1>2. CASE r > 0
  <2>1. a * k > a * q
    BY <1>1, <1>2
  <2>2. a * k >= a * q + a
    BY Zenon, <1>1, <2>1, MultiplesApart
  <2> QED
    BY <1>1, <2>2
<1> QED
  BY <1>1, <1>2

(* Sums of natural numbers *)
LEMMA NatSum == \A a, b \in Nat : a + b \in Nat
OBVIOUS

(* Order of natural numbers *)
LEMMA NatTrans == \A a, b, c \in Nat : a <= b /\ b <= c => a <= c
OBVIOUS

(* More of it *)
LEMMA NatOrder ==
  /\ \A a \in Nat : a <= a
  /\ \A a, b \in Nat : a <= a + b
  /\ \A a, b \in Nat : a < b => a <= b
  /\ \A a, b \in Nat : a < b \/ b <= a
OBVIOUS

(* What ends before a header that ends at d ends before d. *)
LEMMA NatRoom == \A a, b, c, d, e \in Nat : a <= b /\ b + c < d - e => a <= b + c /\ b + c <= d
OBVIOUS

(* align_size_up_ in closed form. *)
LEMMA AlignUp ==
  ASSUME NEW x \in Nat, NEW a \in Nat \ {0}
  PROVE  /\ align_up(x, a) = IF x % a = 0 THEN x ELSE a * (x \div a) + a
         /\ align_up(x, a) \in Nat
         /\ x <= align_up(x, a)
         /\ align_up(x, a) < x + a
         /\ align_up(x, a) % a = 0
<1>1. x % a = 0 => (a - (x % a)) % a = 0
  BY DivMod
<1>2. x % a # 0 => (a - (x % a)) % a = a - (x % a)
  BY ModSmall, DivMod
<1>3. align_up(x, a) = IF x % a = 0 THEN x ELSE a * (x \div a) + a
  BY <1>1, <1>2, DivMod DEF align_up
<1>4. a * (x \div a) + a = a * ((x \div a) + 1)
  BY DivMod
<1>5. (a * ((x \div a) + 1)) % a = 0
  BY ModMultiple, DivMod
<1>6. PICK p, m : p = a * (x \div a) /\ m = x % a
  BY Zenon
<1>7. p \in Int /\ m \in Int /\ x = p + m /\ 0 <= m /\ m < a
  BY <1>6, DivMod
<1>8. align_up(x, a) = IF m = 0 THEN x ELSE p + a
  BY Zenon, <1>3, <1>6
<1>9. align_up(x, a) \in Nat /\ x <= align_up(x, a) /\ align_up(x, a) < x + a
  BY <1>7, <1>8
<1>10. align_up(x, a) % a = 0
  BY Zenon, <1>3, <1>4, <1>5
<1> QED
  BY Zenon, <1>3, <1>9, <1>10

(* It is the least multiple of the alignment that is not below x. *)
LEMMA AlignUpLeast ==
  ASSUME NEW x \in Nat, NEW a \in Nat \ {0}, NEW m \in Int, m % a = 0, x <= m
  PROVE  align_up(x, a) <= m
<1>1. m = a * (m \div a) /\ m \div a \in Int
  BY DivMod
<1>2. x = a * (x \div a) + (x % a) /\ 0 <= x % a /\ x \div a \in Int
  BY DivMod
<1>3. CASE x % a = 0
  BY Zenon, <1>3, AlignUp
<1>4. CASE x % a # 0
  <2>1. a * (m \div a) > a * (x \div a)
    BY <1>1, <1>2, <1>4, DivMod
  <2>2. a * (m \div a) >= a * (x \div a) + a
    BY Zenon, <2>1, <1>1, <1>2, MultiplesApart
  <2> QED
    BY Zenon, <2>2, <1>1, <1>4, AlignUp
<1> QED
  BY Zenon, <1>3, <1>4

(* A sum and a difference of two multiples are multiples. *)
LEMMA ModSum ==
  ASSUME NEW m \in Int, NEW n \in Int, NEW a \in Nat \ {0}, m % a = 0, n % a = 0
  PROVE  (m + n) % a = 0 /\ (m - n) % a = 0
<1> DEFINE i == m \div a
           j == n \div a
<1>1. i \in Int /\ j \in Int /\ m = a * i /\ n = a * j
  BY DivMod
<1>2. m + n = a * (i + j) /\ m - n = a * (i - j)
  BY <1>1
<1>3. (a * (i + j)) % a = 0 /\ (a * (i - j)) % a = 0
  BY <1>1, ModMultiple
<1> QED
  BY Zenon, <1>2, <1>3

(* Rounding up commutes with adding a multiple of the alignment. *)
LEMMA AlignUpShift ==
  ASSUME NEW x \in Nat, NEW n \in Nat, NEW a \in Nat \ {0}, n % a = 0
  PROVE  align_up(x + n, a) = align_up(x, a) + n
<1> DEFINE u == align_up(x, a)
           v == align_up(x + n, a)
<1>1. u \in Nat /\ x <= u /\ u % a = 0
  BY Zenon, AlignUp
<1>2. v \in Nat /\ x + n <= v /\ v % a = 0
  <2> DEFINE y == x + n
  <2>1. y \in Nat
    OBVIOUS
  <2> HIDE DEF y
  <2>2. align_up(y, a) \in Nat /\ y <= align_up(y, a) /\ align_up(y, a) % a = 0
    BY Zenon, <2>1, AlignUp
  <2> QED
    BY Zenon, <2>2 DEF y
<1>3. (u + n) % a = 0 /\ (v - n) % a = 0
  <2> HIDE DEF u, v
  <2>1. u \in Int /\ v \in Int /\ n \in Int
    BY <1>1, <1>2
  <2>2. (u + n) % a = 0
    BY Zenon, <1>1, <2>1, ModSum
  <2>3. (v - n) % a = 0
    BY Zenon, <1>2, <2>1, ModSum
  <2> QED
    BY Zenon, <2>2, <2>3
<1>4. v <= u + n
  <2>1. x + n \in Nat /\ u + n \in Int /\ x + n <= u + n
    BY <1>1
  <2> QED
    BY Zenon, <2>1, <1>3, AlignUpLeast
<1>5. u <= v - n
  <2>1. v - n \in Int /\ x <= v - n
    BY <1>2
  <2> QED
    BY Zenon, <2>1, <1>3, AlignUpLeast
<1> HIDE DEF u, v
<1>6. v = u + n
  BY <1>1, <1>2, <1>4, <1>5
<1> QED
  BY Zenon, <1>6 DEF u, v

(* A multiple of a multiple of a is a multiple of a. *)
LEMMA ModTransitive ==
  ASSUME NEW n \in Int, NEW s \in Nat \ {0}, NEW a \in Nat \ {0}, s % a = 0, n % s = 0
  PROVE  n % a = 0
<1> DEFINE k == s \div a
           m == n \div s
<1>1. k \in Int /\ m \in Int /\ s = a * k /\ n = s * m
  BY DivMod
<1> HIDE DEF k, m
<1>2. k * m \in Int
  BY <1>1
<1>3. (a * k) * m = a * (k * m)
  BY <1>1
<1>4. n = a * (k * m)
  BY Zenon, <1>1, <1>3
<1>5. (a * (k * m)) % a = 0
  BY Zenon, <1>2, ModMultiple
<1> QED
  BY Zenon, <1>4, <1>5

-----------------------------------------------------------------------------
(* The start-up code establishes what AllocationAssumption asks of the     *)
(* segment size and of the limits of the spaces.                           *)

(* A generation of n bda spaces: limits are in order and inside it, spaces *)
(* do not overlap, the general space is the last one and ends where the    *)
(* generation does, bda spaces are whole numbers of segments.              *)
LaidOut(lower, upper, n, start, last, seg_size) ==
  /\ lower \in [0..n -> start..last]
  /\ upper \in [0..n -> start..last]
  /\ \A s \in 0..n : lower[s] <= upper[s]
  /\ \A s, t \in 0..n : s # t => upper[s] <= lower[t] \/ upper[t] <= lower[s]
  /\ \A s \in 1..n : upper[s] <= lower[0]
  /\ upper[0] = last
  /\ \A s \in 1..n : (upper[s] - lower[s]) % seg_size = 0

(* align_size_down yields a multiple that is not above its argument. *)
LEMMA AlignDown ==
  ASSUME NEW x \in Nat, NEW a \in Nat \ {0}
  PROVE  /\ align_size_down(x, a) \in 0..x
         /\ align_size_down(x, a) % a = 0
<1>1. x % a \in 0..(a - 1) /\ x = a * (x \div a) + (x % a)
  OBVIOUS
<1>2. x \div a \in Nat
  OBVIOUS
<1>3. align_size_down(x, a) = a * (x \div a)
  BY <1>1 DEF align_size_down
<1>4. ASSUME NEW q \in Nat PROVE (a * q) % a = 0
  BY Z3
<1>. QED
  BY <1>1, <1>2, <1>3, <1>4

(* A quotient times the divisor is not above the dividend. *)
LEMMA Quotient ==
  ASSUME NEW x \in Nat, NEW d \in Nat \ {0}
  PROVE  x \div d \in Nat /\ d * (x \div d) <= x
OBVIOUS

(* Multiplication by a natural number is monotone. *)
LEMMA TimesMonotone ==
  ASSUME NEW i \in Nat, NEW j \in Nat, NEW n \in Nat, i <= j
  PROVE  i * n \in Nat /\ j * n \in Nat /\ i * n <= j * n
<1>1. PICK k \in Nat : j = i + k
  BY j - i \in Nat, j = i + (j - i)
<1>2. j * n = i * n + k * n
  BY <1>1
<1>3. i * n \in Nat /\ k * n \in Nat
  BY <1>1
<1>. QED
  BY <1>2, <1>3

(* The bda spaces fit in the generation, and each is a whole number of     *)
(* segments, so the loop in initialize_regions does not run.               *)
LEMMA RegionSize ==
  ASSUME NEW space_size \in Nat, NEW n \in Nat, NEW alignment \in Nat \ {0},
         NEW ratio \in Fraction, ratio[2] <= ratio[1]
  PROVE  LET sz == bda_region_sz(space_size, n, alignment, ratio)
         IN  /\ sz \in Nat
             /\ n * sz <= space_size
             /\ sz % alignment = 0
             /\ ~ (sz > 0 /\ sz < alignment)
<1> DEFINE share == (space_size * ratio[2]) \div ratio[1]
           bda_space == align_size_down(share, alignment)
           each == bda_space \div n
           sz == bda_region_sz(space_size, n, alignment, ratio)
<1>1. ratio[1] \in Nat \ {0} /\ ratio[2] \in Nat \ {0}
  BY Zenon DEF Fraction
<1>2. share \in Nat /\ share <= space_size
  <2>1. space_size * ratio[2] \in Nat /\ space_size * ratio[2] <= space_size * ratio[1]
    <3>1. ratio[2] * space_size \in Nat /\ ratio[2] * space_size <= ratio[1] * space_size
      BY Zenon, <1>1, TimesMonotone
    <3>. QED
      BY <1>1, <3>1
  <2>2. share \in Nat /\ ratio[1] * share <= space_size * ratio[2]
    BY Zenon, <1>1, <2>1, Quotient
  <2>3. ASSUME share > space_size PROVE FALSE
    <3>1. (space_size + 1) * ratio[1] <= share * ratio[1]
      BY <1>1, <2>2, <2>3, TimesMonotone
    <3>2. (space_size + 1) * ratio[1] = space_size * ratio[1] + ratio[1]
      BY <1>1
    <3>. QED
      BY <1>1, <2>1, <2>2, <3>1, <3>2
  <2>. QED
    BY <2>2, <2>3
<1>3. bda_space \in Nat /\ bda_space <= space_size
  BY <1>2, AlignDown
<1>4. CASE n = 0
  BY <1>4 DEF bda_region_sz
<1>5. CASE n > 0
  <2>1. each \in Nat /\ n * each <= bda_space
    BY <1>3, <1>5, Quotient
  <2>2. sz = align_size_down(each, alignment)
    BY Zenon, <1>5 DEF bda_region_sz
  <2>3. sz \in Nat /\ sz <= each /\ sz % alignment = 0
    BY <2>1, <2>2, AlignDown
  <2>4. sz * n <= each * n
    BY Zenon, <2>1, <2>3, TimesMonotone
  <2>5. sz < alignment => sz % alignment = sz
    BY <2>3
  <2>. HIDE DEF sz, each, bda_space
  <2>6. n * sz <= space_size
    BY <1>3, <2>1, <2>3, <2>4
  <2>. QED
    BY <2>3, <2>5, <2>6 DEF sz
<1>. QED
  BY <1>4, <1>5

(* initialize_regions gives the spaces limits in the right order inside    *)
(* the generation, apart from each other, and makes every bda space a      *)
(* whole number of segments, for any number of bda spaces and any BDARatio *)
(* that it accepts.                                                        *)
THEOREM SpacesApart ==
  ASSUME NEW start \in Nat, NEW last \in Nat, start <= last,
         NEW n \in Nat, NEW seg_size \in Nat \ {0},
         NEW ratio \in Fraction, ratio[2] <= ratio[1]
  PROVE  LET sz     == bda_region_sz(last - start, n, seg_size, ratio)
             lower == space_bottom(start, sz, n)
             upper    == space_end(start, last, sz, n)
         IN  LaidOut(lower, upper, n, start, last, seg_size)
<1> DEFINE sz     == bda_region_sz(last - start, n, seg_size, ratio)
           lower == space_bottom(start, sz, n)
           upper    == space_end(start, last, sz, n)
<1>0. last - start \in Nat
  OBVIOUS
<1>1. sz \in Nat /\ n * sz <= last - start /\ sz % seg_size = 0
  BY Zenon, <1>0, RegionSize
<1>. HIDE DEF sz
<1>2. \A i \in 0..n : i * sz \in Nat /\ i * sz <= n * sz
  BY <1>1, TimesMonotone
<1>3. \A i \in 1..n : (i - 1) * sz \in Nat /\ i * sz = (i - 1) * sz + sz
  BY <1>1, <1>2
<1>4. /\ lower[0] = start + n * sz
      /\ upper[0] = last
      /\ \A i \in 1..n : lower[i] = start + (i - 1) * sz /\ upper[i] = start + i * sz
  BY DEF space_bottom, space_end
<1>5. \A i \in 0..n : lower[i] \in start..last /\ upper[i] \in start..last /\ lower[i] <= upper[i]
  <2>1. lower[0] \in start..last /\ upper[0] \in start..last /\ lower[0] <= upper[0]
    BY <1>1, <1>2, <1>4
  <2>2. ASSUME NEW i \in 1..n
        PROVE  lower[i] \in start..last /\ upper[i] \in start..last /\ lower[i] <= upper[i]
    <3>1. /\ (i - 1) * sz \in Nat
          /\ i * sz = (i - 1) * sz + sz
          /\ i * sz \in Nat
          /\ i * sz <= n * sz
      BY <1>2, <1>3
    <3>2. lower[i] = start + (i - 1) * sz /\ upper[i] = start + i * sz
      BY Zenon, <1>4
    <3>3. n * sz \in Nat
      BY <1>2
    <3>. HIDE DEF lower, upper
    <3>. QED
      BY <1>1, <3>1, <3>2, <3>3
  <2>. QED
    BY <2>1, <2>2
<1>6. lower = [i \in 0..n |-> lower[i]] /\ upper = [i \in 0..n |-> upper[i]]
  BY Zenon DEF space_bottom, space_end
<1>7. ASSUME NEW s \in 0..n, NEW t \in 0..n, s # t, s # 0, t = 0 \/ s < t
      PROVE  upper[s] <= lower[t]
  <2>1. CASE t = 0
    BY <1>2, <1>4, <1>7, <2>1
  <2>2. CASE s < t
    <3>1. s * sz <= (t - 1) * sz
      BY <1>1, <1>7, <2>2, TimesMonotone
    <3>. QED
      BY <1>2, <1>3, <1>4, <1>7, <2>2, <3>1
  <2>. QED
    BY Zenon, <1>7, <2>1, <2>2
<1>8. \A s, t \in 0..n : s # t => upper[s] <= lower[t] \/ upper[t] <= lower[s]
  BY <1>7
<1>9. \A s \in 1..n : (upper[s] - lower[s]) % seg_size = 0
  <2>1. \A s \in 1..n : upper[s] - lower[s] = sz
    BY <1>1, <1>2, <1>3, <1>4
  <2>. QED
    BY Zenon, <1>1, <2>1
<1>10. lower \in [0..n -> start..last] /\ upper \in [0..n -> start..last]
  BY Zenon, <1>5, <1>6
<1>11. \A s \in 1..n : upper[s] <= lower[0]
  BY <1>7
<1>. HIDE DEF lower, upper
<1>12. LaidOut(lower, upper, n, start, last, seg_size)
  BY Zenon, <1>4, <1>5, <1>8, <1>9, <1>10, <1>11 DEF LaidOut
<1>. QED
  BY Zenon, <1>12 DEF lower, upper, sz

(* A generation that was laid out stays so when it grows: update_layout    *)
(* moves no limit between two spaces.                                      *)
THEOREM GrowthKeepsLayout ==
  ASSUME NEW n \in Nat, NEW start \in Nat, NEW last \in Nat, NEW new_last \in Nat,
         NEW lower, NEW upper, NEW seg_size \in Nat \ {0},
         LaidOut(lower, upper, n, start, last, seg_size),
         last <= new_last
  PROVE  LaidOut(lower, update_layout(upper, last, new_last), n, start, new_last, seg_size)
<1> DEFINE new_end == update_layout(upper, last, new_last)
<1>1. /\ new_end \in [0..n -> start..new_last]
      /\ new_end[0] = new_last
      /\ \A s \in 1..n : new_end[s] = upper[s]
  BY DEF LaidOut, update_layout
<1>2. lower \in [0..n -> start..new_last]
  BY DEF LaidOut
<1>3. ASSUME NEW s \in 0..n PROVE lower[s] <= new_end[s]
  <2>. HIDE DEF new_end
  <2>1. CASE s = 0
    BY <1>1, <1>2, <2>1
  <2>2. CASE s \in 1..n
    BY Zenon, <1>1, <2>2 DEF LaidOut
  <2>. QED
    BY <2>1, <2>2
<1>4. \A s, t \in 0..n : s # t => new_end[s] <= lower[t] \/ new_end[t] <= lower[s]
  <2> SUFFICES ASSUME NEW s \in 0..n, NEW t \in 0..n, s # t
               PROVE  new_end[s] <= lower[t] \/ new_end[t] <= lower[s]
    BY Zenon
  <2>. HIDE DEF new_end
  <2>1. CASE s = 0
    BY <1>1, <2>1, t \in 1..n DEF LaidOut
  <2>2. CASE t = 0
    BY <1>1, <2>2, s \in 1..n DEF LaidOut
  <2>3. CASE s # 0 /\ t # 0
    BY <1>1, <2>3, s \in 1..n, t \in 1..n DEF LaidOut
  <2>. QED
    BY Zenon, <2>1, <2>2, <2>3
<1>. QED
  BY Zenon, <1>1, <1>2, <1>3, <1>4 DEF LaidOut

-----------------------------------------------------------------------------
(* Reserving a stretch of a space.                                         *)

(* push_container reserves room for the object and a multiple of a card. *)
LEMMA ReservedSize ==
  ASSUME NEW size \in Nat
  PROVE  /\ reserved_sz(size) \in Nat
         /\ size <= reserved_sz(size)
         /\ reserved_sz(size) % card = 0
<1>1. segment_sz \in Nat \ {0} /\ card \in Nat \ {0} /\ segment_sz % card = 0
  BY Zenon, AllocationAssumption
<1>2. CASE size > segment_sz
  <2>1. align_up(size, segment_sz) \in Nat /\ size <= align_up(size, segment_sz)
    BY Zenon, <1>1, AlignUp
  <2>2. align_up(size, segment_sz) % segment_sz = 0
    BY Zenon, <1>1, AlignUp
  <2>3. align_up(size, segment_sz) % card = 0
    BY <1>1, <2>1, <2>2, ModTransitive
  <2> QED
    BY Zenon, <1>2, <2>1, <2>3 DEF reserved_sz
<1>3. CASE ~ (size > segment_sz)
  BY <1>1, <1>3 DEF reserved_sz
<1> QED
  BY Zenon, <1>2, <1>3

(* What fits is reserved between the old top and the end of the space: the *)
(* rounding of cas_allocate_aligned after its test does no harm, because   *)
(* the end and the size are multiples of a card.                           *)
LEMMA Reserve ==
  ASSUME TypeOK, NEW sp \in Spaces, NEW n \in Nat, n % card = 0, Fits(sp, n)
  PROVE  /\ Start(sp) \in Nat
         /\ space_top[sp] <= Start(sp)
         /\ NewTop(sp, n) = Start(sp) + n
         /\ Start(sp) + n <= end[sp]
         /\ sp # 0 => Start(sp) = space_top[sp]
<1>1. card \in Nat \ {0} /\ end[0] \in Nat /\ end[0] % card = 0 /\ end[sp] \in Nat
  BY Zenon, AllocationAssumption
<1>2. space_top[sp] \in Nat /\ end[sp] - space_top[sp] >= n
  BY Zenon DEF TypeOK, Fits
<1>3. CASE sp # 0
  BY <1>1, <1>2, <1>3 DEF Start, NewTop
<1>4. CASE sp = 0
  <2> DEFINE x == space_top[0]
             e == end[0]
  <2>1. x \in Nat /\ e \in Nat /\ e % card = 0 /\ e - x >= n
    BY Zenon, <1>1, <1>2, <1>4
  <2>2. Start(sp) = align_up(x, card) /\ NewTop(sp, n) = align_up(x + n, card)
    BY Zenon, <1>4 DEF Start, NewTop
  <2> HIDE DEF x, e
  <2>3. align_up(x, card) \in Nat /\ x <= align_up(x, card)
    BY Zenon, <1>1, <2>1, AlignUp
  <2>4. align_up(x + n, card) = align_up(x, card) + n
    BY Zenon, <1>1, <2>1, AlignUpShift
  <2>5. x + n \in Nat /\ e \in Int /\ x + n <= e
    BY <2>1
  <2>6. align_up(x + n, card) <= e
    BY Zenon, <1>1, <2>1, <2>5, AlignUpLeast
  <2> QED
    BY Zenon, <1>4, <2>2, <2>3, <2>4, <2>6 DEF x, e
<1> QED
  BY Zenon, <1>3, <1>4

(* Every block lies in the part of its space that is in use. *)
BlockSpace(b) == IF b.seg = NULL THEN 0 ELSE seg_space[b.seg]

(* The words of a block lie between the bottom and the top of its space. *)
LEMMA BlockExtent ==
  ASSUME IInv, NEW b \in blocks
  PROVE  /\ b.addr \in Nat /\ b.size \in Nat
         /\ BlockSpace(b) \in Spaces
         /\ bottom[BlockSpace(b)] <= b.addr
         /\ b.addr + b.size <= space_top[BlockSpace(b)]
         /\ space_top[BlockSpace(b)] <= end[BlockSpace(b)]
<1>1. b \in BlockType /\ b.addr \in Nat /\ b.size \in Nat /\ b.seg \in SegOrNull
  BY Zenon DEF IInv, TypeOK, BlockType
<1>2. CASE b.seg = NULL
  BY Zenon, <1>1, <1>2, AllocationAssumption
     DEF IInv, ObjectsInSpace, SegmentsApart, BlockSpace
<1>3. CASE b.seg # NULL
  <2> DEFINE s == b.seg
             sp == seg_space[s]
  <2>1. s \in used /\ s \in Segments /\ sp \in Spaces
    BY Zenon, <1>1, <1>3 DEF IInv, BlocksInSegment, TypeOK, SegOrNull
  <2>2. /\ seg_start[s] \in Nat /\ seg_top[s] \in Nat /\ seg_hard_end[s] \in Nat
        /\ space_top[sp] \in Nat /\ bottom[sp] \in Nat /\ end[sp] \in Nat
    BY Zenon, <2>1, AllocationAssumption DEF IInv, TypeOK
  <2>3. seg_start[s] <= b.addr /\ b.addr + b.size <= seg_top[s] /\ seg_top[s] <= seg_hard_end[s]
    BY Zenon, <1>3, <2>1 DEF IInv, BlocksInSegment
  <2>4. /\ bottom[sp] <= seg_start[s] /\ seg_hard_end[s] <= space_top[sp]
        /\ space_top[sp] <= end[sp]
    BY Zenon, <2>1 DEF IInv, SegmentsApart
  <2>5. BlockSpace(b) = sp
    BY Zenon, <1>3 DEF BlockSpace
  <2> HIDE DEF s, sp
  <2> QED
    BY <1>1, <2>1, <2>2, <2>3, <2>4, <2>5
<1> QED
  BY Zenon, <1>2, <1>3

(* A stretch at or above the top of one space, below its end, meets no     *)
(* block that exists.                                                      *)
LEMMA AboveTopIsFree ==
  ASSUME IInv, NEW sp \in Spaces, NEW x \in Nat, NEW m \in Nat,
         space_top[sp] <= x, x + m <= end[sp], NEW b \in blocks
  PROVE  Disjoint(b.addr, b.size, x, m)
<1> DEFINE t == BlockSpace(b)
<1>1. /\ b.addr \in Nat /\ b.size \in Nat /\ t \in Spaces
      /\ bottom[t] <= b.addr /\ b.addr + b.size <= space_top[t] /\ space_top[t] <= end[t]
  BY Zenon, BlockExtent
<1>2. /\ bottom[t] \in Nat /\ end[t] \in Nat /\ space_top[t] \in Nat
      /\ bottom[sp] \in Nat /\ end[sp] \in Nat /\ space_top[sp] \in Nat
      /\ bottom[sp] <= space_top[sp]
  BY Zenon, <1>1, AllocationAssumption DEF IInv, TypeOK, SegmentsApart
<1>3. t # sp => end[t] <= bottom[sp] \/ end[sp] <= bottom[t]
  BY Zenon, <1>1, AllocationAssumption
<1> HIDE DEF t
<1> QED
  BY <1>1, <1>2, <1>3 DEF Disjoint

(* The same for the segments that exist. *)
LEMMA AboveTopNoSegment ==
  ASSUME IInv, NEW sp \in Spaces, NEW x \in Nat, NEW m \in Nat,
         space_top[sp] <= x, x + m <= end[sp], NEW s \in used
  PROVE  seg_hard_end[s] <= x \/ x + m <= seg_start[s]
<1> DEFINE t == seg_space[s]
<1>1. /\ seg_start[s] \in Nat /\ seg_hard_end[s] \in Nat /\ t \in Spaces
      /\ bottom[t] <= seg_start[s] /\ seg_hard_end[s] <= space_top[t]
      /\ seg_start[s] <= seg_hard_end[s]
  BY Zenon DEF IInv, TypeOK, SegmentsApart
<1>2. /\ bottom[t] \in Nat /\ end[t] \in Nat /\ space_top[t] \in Nat
      /\ bottom[sp] \in Nat /\ end[sp] \in Nat /\ space_top[sp] \in Nat
      /\ bottom[sp] <= space_top[sp] /\ space_top[t] <= end[t]
  BY Zenon, <1>1, AllocationAssumption DEF IInv, TypeOK, SegmentsApart
<1>3. t # sp => end[t] <= bottom[sp] \/ end[sp] <= bottom[t]
  BY Zenon, <1>1, AllocationAssumption
<1> HIDE DEF t
<1> QED
  BY <1>1, <1>2, <1>3

(* The four invariants about memory that is handed out. *)
Memory == SegmentsApart /\ BlocksInSegment /\ BlocksDisjoint /\ ObjectsInSpace

(* What push_container writes when it takes a..a+n-1 of space sp for s. *)
Pushed(w, sp, s, a, n) ==
  /\ op[w].size \in Nat /\ op[w].size <= n
  /\ space_top[sp] <= a
  /\ a + n <= end[sp]
  /\ fresh' = [fresh EXCEPT ![w] = s]
  /\ used' = used \cup {s}
  /\ seg_start' = [seg_start EXCEPT ![s] = a]
  /\ seg_top' = [seg_top EXCEPT ![s] = a + op[w].size]
  /\ seg_hard_end' = [seg_hard_end EXCEPT ![s] = a + n]
  /\ seg_space' = [seg_space EXCEPT ![s] = sp]
  /\ next_segment' = [next_segment EXCEPT ![s] = NULL]
  /\ prev_segment' = [prev_segment EXCEPT ![s] = NULL]
  /\ space_top' = [space_top EXCEPT ![sp] = a + n]
  /\ \/ blocks' = blocks \cup {Block(a, op[w].size, s, w)}
     \/ /\ sp = 0
        /\ blocks' = blocks \cup {Block(a, op[w].size, s, w)}
                        \cup {Block(space_top[0], a - space_top[0], NULL, w)}

(* What PushContainer writes, for the segment s it takes. *)
LEMMA PushWrites ==
  ASSUME IInv, NEW w \in Workers, NEW sp \in Spaces, PushContainer(w, sp)
  PROVE  \E s \in Segments \ used, a \in Nat, n \in Nat : Pushed(w, sp, s, a, n)
<1> DEFINE n == reserved_sz(op[w].size)
           a == Start(sp)
<1>1. op[w].size \in Nat /\ n \in Nat /\ op[w].size <= n /\ n % card = 0
  <2>1. op[w].size \in Nat
    BY Zenon DEF IInv, TypeOK
  <2> QED
    BY Zenon, <2>1, ReservedSize
<1>2. Fits(sp, n)
  BY Zenon DEF PushContainer
<1>3. /\ a \in Nat /\ space_top[sp] <= a /\ NewTop(sp, n) = a + n /\ a + n <= end[sp]
      /\ sp # 0 => a = space_top[sp]
  <2> HIDE DEF n
  <2> QED
    BY Zenon, <1>1, <1>2, Reserve DEF IInv
<1>4. PICK s \in Segments \ used :
           /\ fresh' = [fresh EXCEPT ![w] = s]
           /\ used' = used \cup {s}
           /\ seg_start' = [seg_start EXCEPT ![s] = a]
           /\ seg_top' = [seg_top EXCEPT ![s] = a + op[w].size]
           /\ seg_hard_end' = [seg_hard_end EXCEPT ![s] = a + n]
           /\ seg_space' = [seg_space EXCEPT ![s] = sp]
           /\ next_segment' = [next_segment EXCEPT ![s] = NULL]
           /\ prev_segment' = [prev_segment EXCEPT ![s] = NULL]
           /\ blocks' = blocks \cup {Block(a, op[w].size, s, w)} \cup Filler(w, sp)
  BY Zenon DEF PushContainer
<1>5. space_top' = [space_top EXCEPT ![sp] = a + n]
  BY Zenon, <1>3 DEF PushContainer
<1>6. \/ Filler(w, sp) = {}
      \/ sp = 0 /\ Filler(w, sp) = {Block(space_top[0], a - space_top[0], NULL, w)}
  <2>1. filler_header_size \in Nat /\ filler_header_size >= 1
    BY AllocationAssumption
  <2>2. space_top[sp] \in Nat
    BY Zenon DEF IInv, TypeOK
  <2>3. sp # 0 => ~ (a - space_top[sp] >= filler_header_size)
    BY <1>3, <2>1, <2>2
  <2> QED
    BY Zenon, <2>3 DEF Filler
<1>7. \/ blocks' = blocks \cup {Block(a, op[w].size, s, w)}
      \/ /\ sp = 0
         /\ blocks' = blocks \cup {Block(a, op[w].size, s, w)}
                         \cup {Block(space_top[0], a - space_top[0], NULL, w)}
  <2> HIDE DEF a, n
  <2> QED
    BY Zenon, <1>4, <1>6
<1> HIDE DEF a, n
<1> QED
  BY Zenon, <1>1, <1>3, <1>4, <1>5, <1>7 DEF Pushed

(* push_container keeps all four. *)
LEMMA PushMemory ==
  ASSUME IInv, NEW w \in Workers, NEW sp \in Spaces, PushContainer(w, sp)
  PROVE  Memory'
<1>1. PICK s \in Segments \ used, a \in Nat, n \in Nat : Pushed(w, sp, s, a, n)
  BY Zenon, PushWrites
<1> USE DEF Pushed
<1> DEFINE size == op[w].size
           new == Block(a, size, s, w)
           fill == Block(space_top[0], a - space_top[0], NULL, w)
<1>2. /\ 0 \in Spaces /\ s # NULL /\ NULL \notin Segments
      /\ \A t \in Spaces : bottom[t] \in Nat /\ end[t] \in Nat
  BY Zenon, AllocationAssumption
<1>3. /\ \A t \in Spaces : /\ space_top[t] \in Nat
                           /\ bottom[t] <= space_top[t] /\ space_top[t] <= end[t]
      /\ \A t \in used : /\ t \in Segments /\ seg_start[t] \in Nat /\ seg_top[t] \in Nat
                         /\ seg_hard_end[t] \in Nat /\ seg_space[t] \in Spaces
      /\ \A b \in blocks : b.addr \in Nat /\ b.size \in Nat /\ b.seg \in SegOrNull
  BY Zenon DEF IInv, TypeOK, SegmentsApart, BlockType
<1>4. /\ DOMAIN seg_start = Segments /\ DOMAIN seg_top = Segments
      /\ DOMAIN seg_hard_end = Segments /\ DOMAIN seg_space = Segments
      /\ DOMAIN space_top = Spaces
  BY Zenon DEF IInv, TypeOK
<1>5. \A t \in used : /\ t # s
                     /\ seg_start'[t] = seg_start[t] /\ seg_top'[t] = seg_top[t]
                     /\ seg_hard_end'[t] = seg_hard_end[t] /\ seg_space'[t] = seg_space[t]
  BY Zenon, <1>1, <1>3, <1>4
<1>6. seg_start'[s] = a /\ seg_top'[s] = a + size /\ seg_hard_end'[s] = a + n /\ seg_space'[s] = sp
  BY Zenon, <1>1, <1>4
<1>7. \A t \in Spaces : /\ space_top'[t] = IF t = sp THEN a + n ELSE space_top[t]
                       /\ space_top[t] <= space_top'[t]
  BY <1>1, <1>3, <1>4
<1>a. a + n \in Nat /\ \A t \in Spaces : space_top'[t] \in Nat
  <2>1. a + n \in Nat
    BY Zenon, <1>1, NatSum
  <2> QED
    BY Zenon, <1>3, <1>7, <2>1
<1>8. /\ new.addr = a /\ new.size = size /\ new.seg = s
      /\ fill.addr = space_top[0] /\ fill.size = a - space_top[0] /\ fill.seg = NULL
  BY Zenon DEF Block
<1>9. \A b \in blocks' : b \in blocks \/ b = new \/ (sp = 0 /\ b = fill)
  BY Zenon, <1>1
<1>10. sp = 0 => fill.addr + fill.size = a /\ fill.size \in Nat /\ fill.addr \in Nat
  BY <1>1, <1>2, <1>3, <1>8
<1> HIDE DEF size, new, fill
<1>11. SegmentsApart'
  <2>1. \A t \in Spaces : bottom[t] <= space_top'[t] /\ space_top'[t] <= end[t]
    BY <1>1, <1>2, <1>3, <1>7
  <2>2. \A t \in used' : /\ bottom[seg_space'[t]] <= seg_start'[t]
                        /\ seg_start'[t] <= seg_hard_end'[t]
                        /\ seg_hard_end'[t] <= space_top'[seg_space'[t]]
    <3>1. bottom[sp] <= a /\ a <= a + n /\ a + n <= space_top'[sp]
      BY <1>1, <1>2, <1>3, <1>7
    <3>2. ASSUME NEW t \in used
          PROVE  /\ bottom[seg_space[t]] <= seg_start[t]
                 /\ seg_start[t] <= seg_hard_end[t]
                 /\ seg_hard_end[t] <= space_top'[seg_space[t]]
      <4>1. /\ bottom[seg_space[t]] <= seg_start[t]
            /\ seg_start[t] <= seg_hard_end[t]
            /\ seg_hard_end[t] <= space_top[seg_space[t]]
        BY Zenon DEF IInv, SegmentsApart
      <4>2. space_top[seg_space[t]] <= space_top'[seg_space[t]]
        BY Zenon, <1>3, <1>7
      <4>3. space_top'[seg_space[t]] \in Nat /\ space_top[seg_space[t]] \in Nat
        BY Zenon, <1>3, <1>a
      <4> QED
        BY Zenon, <1>3, <4>1, <4>2, <4>3, NatTrans
    <3> QED
      BY <1>1, <1>5, <1>6, <3>1, <3>2
  <2>3. \A t, u \in used' : t # u =>
          seg_hard_end'[t] <= seg_start'[u] \/ seg_hard_end'[u] <= seg_start'[t]
    <3>1. \A t \in used : seg_hard_end[t] <= a \/ a + n <= seg_start[t]
      BY Zenon, <1>1, AboveTopNoSegment
    <3>2. \A t, u \in used : t # u =>
            seg_hard_end[t] <= seg_start[u] \/ seg_hard_end[u] <= seg_start[t]
      BY Zenon DEF IInv, SegmentsApart
    <3> QED
      BY <1>1, <1>5, <1>6, <3>1, <3>2
  <2>4. \A t \in used' : \A b \in blocks' : b.seg = NULL =>
          b.addr + b.size <= seg_start'[t] \/ seg_hard_end'[t] <= b.addr
    <3> SUFFICES ASSUME NEW t \in used', NEW b \in blocks', b.seg = NULL
                 PROVE  b.addr + b.size <= seg_start'[t] \/ seg_hard_end'[t] <= b.addr
      BY Zenon
    <3>1. CASE b \in blocks /\ t \in used
      BY Zenon, <1>5, <3>1 DEF IInv, SegmentsApart
    <3>2. CASE b \in blocks /\ t = s
      <4>1. bottom[0] <= b.addr /\ b.addr + b.size <= space_top[0]
        BY Zenon, <3>2 DEF IInv, ObjectsInSpace
      <4>2. Disjoint(b.addr, b.size, a, n)
        BY Zenon, <1>1, <3>2, AboveTopIsFree
      <4> QED
        BY Zenon, <1>6, <3>2, <4>2 DEF Disjoint
    <3>3. CASE sp = 0 /\ b = fill /\ t = s
      BY <1>6, <1>10, <3>3, <1>1
    <3>4. CASE sp = 0 /\ b = fill /\ t \in used
      <4>1. a - space_top[0] \in Nat /\ space_top[0] \in Nat
            /\ space_top[0] <= space_top[0] /\ space_top[0] + (a - space_top[0]) <= end[0]
        BY <1>1, <1>2, <1>3, <3>4
      <4>2. seg_hard_end[t] <= space_top[0] \/ space_top[0] + (a - space_top[0]) <= seg_start[t]
        BY Zenon, <1>2, <3>4, <4>1, AboveTopNoSegment
      <4> QED
        BY Zenon, <1>5, <1>8, <3>4, <4>2
    <3> QED
      BY Zenon, <1>1, <1>2, <1>8, <1>9, <3>1, <3>2, <3>3, <3>4
  <2> QED
    BY Zenon, <2>1, <2>2, <2>3, <2>4 DEF SegmentsApart
<1>12. BlocksInSegment'
  <2>1. \A t \in used' : seg_start'[t] <= seg_top'[t] /\ seg_top'[t] <= seg_hard_end'[t]
    <3>1. a <= a + size /\ a + size <= a + n
      BY <1>1 DEF size
    <3>2. \A t \in used : seg_start[t] <= seg_top[t] /\ seg_top[t] <= seg_hard_end[t]
      BY Zenon DEF IInv, BlocksInSegment
    <3> QED
      BY <1>1, <1>5, <1>6, <3>1, <3>2
  <2>2. \A b \in blocks' : b.seg # NULL =>
          /\ b.seg \in used'
          /\ seg_start'[b.seg] <= b.addr
          /\ b.addr + b.size <= seg_top'[b.seg]
    <3>1. \A b \in blocks : b.seg # NULL =>
            b.seg \in used /\ seg_start[b.seg] <= b.addr /\ b.addr + b.size <= seg_top[b.seg]
      BY Zenon DEF IInv, BlocksInSegment
    <3>2. /\ new.seg \in used' /\ seg_start'[new.seg] <= new.addr
          /\ new.addr + new.size <= seg_top'[new.seg]
      BY <1>1, <1>6, <1>8 DEF size
    <3> QED
      BY Zenon, <1>1, <1>5, <1>8, <1>9, <3>1, <3>2
  <2> QED
    BY Zenon, <2>1, <2>2 DEF BlocksInSegment
<1>13. BlocksDisjoint'
  <2>1. \A b \in blocks : Disjoint(b.addr, b.size, new.addr, new.size)
    <3>1. size \in Nat /\ a + size <= end[sp]
      BY <1>1, <1>2 DEF size
    <3> QED
      BY Zenon, <1>1, <1>8, <3>1, AboveTopIsFree
  <2>2. sp = 0 => \A b \in blocks : Disjoint(b.addr, b.size, fill.addr, fill.size)
    <3>1. sp = 0 => fill.addr + fill.size <= end[0] /\ space_top[0] <= fill.addr
      BY <1>1, <1>2, <1>3, <1>8, <1>10
    <3> QED
      BY Zenon, <1>2, <1>10, <3>1, AboveTopIsFree
  <2>3. sp = 0 => Disjoint(fill.addr, fill.size, new.addr, new.size)
    BY <1>8, <1>10, <1>1 DEF Disjoint
  <2>4. \A b, c \in blocks : b # c => Disjoint(b.addr, b.size, c.addr, c.size)
    BY Zenon DEF IInv, BlocksDisjoint
  <2>5. \A x, m, y, k : Disjoint(x, m, y, k) => Disjoint(y, k, x, m)
    BY Zenon DEF Disjoint
  <2>6. \A b, c \in blocks' : b # c => Disjoint(b.addr, b.size, c.addr, c.size)
    BY Zenon, <1>9, <2>1, <2>2, <2>3, <2>4, <2>5
  <2> QED
    BY Zenon, <2>6 DEF BlocksDisjoint, Disjoint
<1>14. ObjectsInSpace'
  <2>1. \A b \in blocks : b.seg = NULL => bottom[0] <= b.addr /\ b.addr + b.size <= space_top'[0]
    <3>1. \A b \in blocks : b.seg = NULL => bottom[0] <= b.addr /\ b.addr + b.size <= space_top[0]
      BY Zenon DEF IInv, ObjectsInSpace
    <3>2. space_top'[0] \in Nat /\ space_top[0] <= space_top'[0] /\ space_top[0] \in Nat
      BY Zenon, <1>2, <1>3, <1>7, <1>a
    <3> QED
      BY <1>3, <3>1, <3>2
  <2>2. sp = 0 => bottom[0] <= fill.addr /\ fill.addr + fill.size <= space_top'[0]
    <3>1. a <= a + n
      BY Zenon, <1>1, NatOrder
    <3>2. sp = 0 => space_top'[0] = a + n
      BY Zenon, <1>2, <1>7
    <3>3. sp = 0 => bottom[0] <= fill.addr
      BY Zenon, <1>2, <1>3, <1>8
    <3>4. sp = 0 => fill.addr + fill.size = a
      BY Zenon, <1>10
    <3> QED
      BY Zenon, <3>1, <3>2, <3>3, <3>4
  <2> QED
    BY Zenon, <1>2, <1>8, <1>9, <2>1, <2>2 DEF ObjectsInSpace
<1> QED
  BY Zenon, <1>11, <1>12, <1>13, <1>14 DEF Memory

(* A successful compare-and-swap of a segment's top keeps the memory part  *)
(* of the invariant: the words it wins lie above every block of the        *)
(* segment and below its end.                                              *)
LEMMA CasTopMemory ==
  ASSUME IInv, NEW w \in Workers, pc[w] = "cas_top",
         seg_top[segment[w]] = old_top[w],
         seg_top' = [seg_top EXCEPT ![segment[w]] = old_top[w] + op[w].size],
         blocks' = blocks \cup {Block(old_top[w], op[w].size, segment[w], w)},
         UNCHANGED <<space_top, used, seg_start, seg_hard_end, seg_space>>
  PROVE  Memory'
<1> DEFINE s == segment[w]
           o == old_top[w]
           size == op[w].size
           new == Block(o, size, s, w)
<1>1. s \in used /\ s \in Segments /\ s # NULL
  BY Zenon, AllocationAssumption DEF IInv, LocalsOK, TypeOK
<1>2. /\ o \in Nat /\ size \in Nat /\ filler_header_size \in Nat
      /\ \A t \in used : /\ t \in Segments /\ seg_start[t] \in Nat /\ seg_top[t] \in Nat
                         /\ seg_hard_end[t] \in Nat
      /\ \A b \in blocks : b.addr \in Nat /\ b.size \in Nat
  BY AllocationAssumption DEF IInv, TypeOK, BlockType
<1>3. o + size < seg_hard_end[s] - filler_header_size
  BY Zenon DEF IInv, LocalsOK, seg_end
<1>4. \A t \in used : seg_top'[t] = IF t = s THEN o + size ELSE seg_top[t]
  BY Zenon, <1>1, <1>2 DEF IInv, TypeOK
<1>5. new.addr = o /\ new.size = size /\ new.seg = s
  BY Zenon DEF Block
<1>6. \A b \in blocks' : b \in blocks \/ b = new
  BY Zenon
<1>7. seg_top[s] = o
  BY Zenon
<1> HIDE DEF s, o, size, new
<1>8. /\ \A t \in used : seg_start[t] <= seg_top[t] /\ seg_top[t] <= seg_hard_end[t]
      /\ \A b \in blocks : b.seg # NULL =>
           b.seg \in used /\ seg_start[b.seg] <= b.addr /\ b.addr + b.size <= seg_top[b.seg]
  BY Zenon DEF IInv, BlocksInSegment
<1>9. SegmentsApart'
  BY Zenon, <1>1, <1>5, <1>6 DEF IInv, SegmentsApart
<1>10. BlocksInSegment'
  <2>1. \A t \in used : seg_start[t] <= seg_top'[t] /\ seg_top'[t] <= seg_hard_end[t]
    <3>1. seg_start[s] <= o + size /\ o + size <= seg_hard_end[s]
      BY Zenon, <1>1, <1>2, <1>3, <1>7, <1>8, NatRoom
    <3> QED
      BY Zenon, <1>4, <1>8, <3>1
  <2>2. \A b \in blocks : b.seg # NULL =>
          /\ b.seg \in used /\ seg_start[b.seg] <= b.addr
          /\ b.addr + b.size <= seg_top'[b.seg]
    <3> SUFFICES ASSUME NEW b \in blocks, b.seg # NULL
                 PROVE  /\ b.seg \in used /\ seg_start[b.seg] <= b.addr
                        /\ b.addr + b.size <= seg_top'[b.seg]
      BY Zenon
    <3>1. /\ b.seg \in used /\ seg_start[b.seg] <= b.addr
          /\ b.addr + b.size <= seg_top[b.seg]
      BY Zenon, <1>8
    <3>2. CASE b.seg = s
      <4>1. b.addr + b.size \in Nat /\ o + size \in Nat /\ o <= o + size
        BY Zenon, <1>2, NatSum, NatOrder
      <4>2. b.addr + b.size <= o /\ seg_top'[b.seg] = o + size
        BY Zenon, <1>1, <1>4, <1>7, <3>1, <3>2
      <4> QED
        BY Zenon, <1>2, <3>1, <4>1, <4>2, NatTrans
    <3>3. CASE b.seg # s
      <4>1. seg_top'[b.seg] = seg_top[b.seg]
        BY Zenon, <1>4, <3>1, <3>3
      <4> QED
        BY Zenon, <3>1, <4>1
    <3> QED
      BY Zenon, <3>2, <3>3
  <2>3. seg_start[s] <= o /\ o + size <= seg_top'[s]
    <3>1. o + size \in Nat /\ seg_top'[s] = o + size
      BY Zenon, <1>1, <1>2, <1>4, NatSum
    <3>2. o + size <= seg_top'[s]
      BY Zenon, <3>1, NatOrder
    <3> QED
      BY Zenon, <1>1, <1>7, <1>8, <3>2
  <2> QED
    BY ZenonT(30), <1>1, <1>5, <1>6, <2>1, <2>2, <2>3 DEF BlocksInSegment
<1>11. BlocksDisjoint'
  <2>1. ASSUME NEW b \in blocks
        PROVE  Disjoint(b.addr, b.size, o, size)
    <3>1. CASE b.seg = NULL
      <4>1. b.addr + b.size <= seg_start[s] \/ seg_hard_end[s] <= b.addr
        BY Zenon, <1>1, <3>1 DEF IInv, SegmentsApart
      <4> QED
        BY <1>1, <1>2, <1>3, <1>7, <1>8, <4>1 DEF Disjoint
    <3>2. CASE b.seg = s
      BY Zenon, <1>1, <1>2, <1>7, <1>8, <3>2 DEF Disjoint
    <3>3. CASE b.seg # NULL /\ b.seg # s
      <4> DEFINE t == b.seg
      <4>1. /\ t \in used /\ seg_start[t] <= b.addr /\ b.addr + b.size <= seg_top[t]
            /\ seg_top[t] <= seg_hard_end[t]
        BY Zenon, <1>8, <3>3
      <4>2. seg_hard_end[s] <= seg_start[t] \/ seg_hard_end[t] <= seg_start[s]
        BY Zenon, <1>1, <3>3, <4>1 DEF IInv, SegmentsApart
      <4> HIDE DEF t
      <4>3. /\ seg_start[t] \in Nat /\ seg_top[t] \in Nat /\ seg_hard_end[t] \in Nat
            /\ seg_start[s] \in Nat /\ seg_hard_end[s] \in Nat /\ seg_start[s] <= o
        BY Zenon, <1>1, <1>2, <1>7, <1>8, <4>1
      <4> QED
        BY <1>2, <1>3, <4>1, <4>2, <4>3 DEF Disjoint
    <3> QED
      BY Zenon, <3>1, <3>2, <3>3
  <2>2. \A x, m, y, k : Disjoint(x, m, y, k) => Disjoint(y, k, x, m)
    BY Zenon DEF Disjoint
  <2>3. \A b, c \in blocks' : b # c => Disjoint(b.addr, b.size, c.addr, c.size)
    BY Zenon, <1>5, <1>6, <2>1, <2>2 DEF IInv, BlocksDisjoint
  <2> QED
    BY Zenon, <2>3 DEF BlocksDisjoint, Disjoint
<1>12. ObjectsInSpace'
  BY Zenon, <1>1, <1>5, <1>6 DEF IInv, ObjectsInSpace
<1> QED
  BY Zenon, <1>9, <1>10, <1>11, <1>12 DEF Memory


-----------------------------------------------------------------------------
(* The steps of a worker *)

(* The worker that lost the race to forward a container empties it. *)
LEMMA LostMemory ==
  ASSUME IInv, NEW w \in Workers, ContainerLost(w)
  PROVE  Memory'
<1> DEFINE s == fresh[w]
<1>1. pc[w] = "forward" /\ s \in used /\ s \in Segments
  BY Zenon DEF ContainerLost, Return, Goto, IInv, LocalsOK, TypeOK
<1>2. /\ seg_top' = [seg_top EXCEPT ![s] = seg_start[s]]
      /\ blocks' = {b \in blocks : b.seg # s}
      /\ UNCHANGED <<space_top, used, seg_start, seg_hard_end, seg_space>>
  BY Zenon DEF ContainerLost
<1>3. \A t \in used : /\ t \in Segments /\ seg_start[t] \in Nat /\ seg_top[t] \in Nat
                     /\ seg_hard_end[t] \in Nat
  BY Zenon DEF IInv, TypeOK
<1>4. \A t \in used : seg_top'[t] = IF t = s THEN seg_start[s] ELSE seg_top[t]
  BY Zenon, <1>1, <1>2, <1>3 DEF IInv, TypeOK
<1> HIDE DEF s
<1>5. SegmentsApart'
  BY Zenon, <1>2 DEF IInv, SegmentsApart
<1>6. BlocksInSegment'
  <2>1. \A t \in used : seg_start[t] <= seg_top'[t] /\ seg_top'[t] <= seg_hard_end[t]
    BY <1>1, <1>3, <1>4 DEF IInv, BlocksInSegment, SegmentsApart
  <2>2. \A b \in blocks' : b.seg # NULL =>
          /\ b.seg \in used /\ seg_start[b.seg] <= b.addr
          /\ b.addr + b.size <= seg_top'[b.seg]
    BY Zenon, <1>2, <1>4 DEF IInv, BlocksInSegment
  <2> QED
    BY Zenon, <1>2, <2>1, <2>2 DEF BlocksInSegment
<1>7. BlocksDisjoint'
  BY Zenon, <1>2 DEF IInv, BlocksDisjoint, Disjoint
<1>8. ObjectsInSpace'
  BY Zenon, <1>2 DEF IInv, ObjectsInSpace
<1> QED
  BY Zenon, <1>5, <1>6, <1>7, <1>8 DEF Memory

(* cas_allocate takes the words above the top of the general space. *)
LEMMA ObjectMemory ==
  ASSUME IInv, NEW w \in Workers, AllocateObject(w)
  PROVE  Memory'
<1>1. PICK n \in Sizes :
        /\ Fits(0, n)
        /\ space_top' = [space_top EXCEPT ![0] = @ + n]
        /\ blocks' = blocks \cup {Block(space_top[0], n, NULL, w)}
  BY Zenon DEF AllocateObject
<1>2. UNCHANGED <<used, seg_start, seg_top, seg_hard_end, seg_space>>
  BY Zenon DEF AllocateObject, fields
<1> DEFINE x == space_top[0]
           new == Block(x, n, NULL, w)
<1>3. /\ 0 \in Spaces /\ n \in Nat /\ x \in Nat /\ end[0] \in Nat /\ bottom[0] \in Nat
      /\ bottom[0] <= x
      /\ \A t \in Spaces : bottom[t] \in Nat /\ end[t] \in Nat /\ space_top[t] \in Nat
      /\ \A t \in used : /\ t \in Segments /\ seg_start[t] \in Nat /\ seg_hard_end[t] \in Nat
                         /\ seg_space[t] \in Spaces
      /\ \A b \in blocks : b.addr \in Nat /\ b.size \in Nat
  BY Zenon, AllocationAssumption DEF IInv, TypeOK, SegmentsApart, BlockType
<1>4. x + n <= end[0]
  BY <1>1, <1>3 DEF Fits
<1>5. \A t \in Spaces : /\ space_top'[t] = IF t = 0 THEN x + n ELSE space_top[t]
                       /\ space_top[t] <= space_top'[t]
  BY <1>1, <1>3 DEF IInv, TypeOK
<1>6. new.addr = x /\ new.size = n /\ new.seg = NULL
  BY Zenon DEF Block
<1>7. \A b \in blocks' : b \in blocks \/ b = new
  BY Zenon, <1>1
<1>8. x <= x
  BY Zenon, <1>3, NatOrder
<1>9. \A b \in blocks : Disjoint(b.addr, b.size, x, n)
  BY Zenon, <1>3, <1>4, <1>8, AboveTopIsFree
<1>10. \A t \in used : seg_hard_end[t] <= x \/ x + n <= seg_start[t]
  BY Zenon, <1>3, <1>4, <1>8, AboveTopNoSegment
<1> HIDE DEF x, new
<1>11. SegmentsApart'
  <2>1. \A t \in Spaces : bottom[t] <= space_top'[t] /\ space_top'[t] <= end[t]
    <3> SUFFICES ASSUME NEW t \in Spaces
                 PROVE  bottom[t] <= space_top'[t] /\ space_top'[t] <= end[t]
      BY Zenon
    <3>1. bottom[t] <= space_top[t] /\ space_top[t] <= end[t]
      BY Zenon DEF IInv, SegmentsApart
    <3>2. CASE t = 0
      <4>1. space_top'[t] = x + n /\ x + n \in Nat
        BY Zenon, <1>3, <1>5, <3>2, NatSum
      <4> QED
        BY Zenon, <1>3, <1>4, <1>5, <3>1, <3>2, <4>1, NatTrans
    <3>3. CASE t # 0
      BY Zenon, <1>5, <3>1, <3>3
    <3> QED
      BY Zenon, <3>2, <3>3
  <2>2. ASSUME NEW t \in used
        PROVE  /\ bottom[seg_space[t]] <= seg_start[t]
               /\ seg_start[t] <= seg_hard_end[t]
               /\ seg_hard_end[t] <= space_top'[seg_space[t]]
    <3>1. /\ bottom[seg_space[t]] <= seg_start[t]
          /\ seg_start[t] <= seg_hard_end[t]
          /\ seg_hard_end[t] <= space_top[seg_space[t]]
      BY Zenon DEF IInv, SegmentsApart
    <3>2. /\ space_top[seg_space[t]] <= space_top'[seg_space[t]]
          /\ space_top'[seg_space[t]] \in Nat /\ space_top[seg_space[t]] \in Nat
      BY <1>3, <1>5
    <3> QED
      BY <1>3, <3>1, <3>2
  <2>3. \A t \in used : \A b \in blocks' : b.seg = NULL =>
          b.addr + b.size <= seg_start[t] \/ seg_hard_end[t] <= b.addr
    BY Zenon, <1>6, <1>7, <1>10 DEF IInv, SegmentsApart
  <2>4. \A t, u \in used : t # u =>
          seg_hard_end[t] <= seg_start[u] \/ seg_hard_end[u] <= seg_start[t]
    BY Zenon DEF IInv, SegmentsApart
  <2> QED
    BY ZenonT(30), <1>2, <2>1, <2>2, <2>3, <2>4 DEF SegmentsApart
<1>12. BlocksInSegment'
  BY Zenon, <1>2, <1>6, <1>7 DEF IInv, BlocksInSegment
<1>13. BlocksDisjoint'
  <2>1. \A y, m, z, k : Disjoint(y, m, z, k) => Disjoint(z, k, y, m)
    BY Zenon DEF Disjoint
  <2>2. \A b, c \in blocks' : b # c => Disjoint(b.addr, b.size, c.addr, c.size)
    BY Zenon, <1>6, <1>7, <1>9, <2>1 DEF IInv, BlocksDisjoint
  <2> QED
    BY Zenon, <2>2 DEF BlocksDisjoint, Disjoint
<1>14. ObjectsInSpace'
  <2>1. space_top'[0] = x + n /\ space_top[0] = x
    BY Zenon, <1>3, <1>5 DEF x
  <2> QED
    BY <1>3, <1>6, <1>7, <2>1 DEF IInv, ObjectsInSpace
<1> QED
  BY Zenon, <1>11, <1>12, <1>13, <1>14 DEF Memory

-----------------------------------------------------------------------------
(* The invariant and the steps that preserve it.                           *)

(* Memory depends on these variables only. *)
LEMMA SameMemory ==
  ASSUME IInv, UNCHANGED <<space_top, used, fields, blocks>>
  PROVE  Memory'
BY Zenon DEF IInv, Memory, SegmentsApart, BlocksInSegment, BlocksDisjoint, ObjectsInSpace, Disjoint, fields

(* The fields and variables PushContainer writes keep their types, and the *)
(* new segment and the old ones can be relied on by every worker.          *)
LEMMA PushTypes ==
  ASSUME IInv, NEW w \in Workers, NEW sp \in Spaces, PushContainer(w, sp)
  PROVE  /\ space_top' \in [Spaces -> Nat]
         /\ used' \subseteq Segments
         /\ seg_start' \in [Segments -> Nat]
         /\ seg_top' \in [Segments -> Nat]
         /\ seg_hard_end' \in [Segments -> Nat]
         /\ seg_space' \in [Segments -> Spaces]
         /\ next_segment' \in [Segments -> SegOrNull]
         /\ prev_segment' \in [Segments -> SegOrNull]
         /\ blocks' \subseteq BlockType
         /\ fresh' \in [Workers -> SegOrNull]
         /\ fresh'[w] \in used' /\ \A v \in Workers : v # w => fresh'[v] = fresh[v]
         /\ used \subseteq used'
         /\ \A s \in used : seg_hard_end'[s] = seg_hard_end[s]
         /\ \A s \in used' : next_segment'[s] \in used' \cup {NULL}
<1>1. PICK s \in Segments \ used, a \in Nat, n \in Nat : Pushed(w, sp, s, a, n)
  BY Zenon, PushWrites
<1> USE DEF Pushed
<1>2. Block(a, op[w].size, s, w) \in BlockType
  BY Zenon, <1>1 DEF Block, BlockType, SegOrNull
<1>3. sp = 0 => Block(space_top[0], a - space_top[0], NULL, w) \in BlockType
  <2>1. sp = 0 => space_top[0] \in Nat /\ a - space_top[0] \in Nat
    BY <1>1 DEF IInv, TypeOK
  <2> QED
    BY Zenon, <2>1 DEF Block, BlockType, SegOrNull
<1>4. blocks' \subseteq BlockType
  BY Zenon, <1>1, <1>2, <1>3 DEF IInv, TypeOK
<1>5. /\ fresh'[w] \in used' /\ \A v \in Workers : v # w => fresh'[v] = fresh[v]
      /\ used \subseteq used'
      /\ \A t \in used : seg_hard_end'[t] = seg_hard_end[t]
      /\ \A t \in used' : next_segment'[t] \in used' \cup {NULL}
  <2>1. fresh'[w] \in used' /\ \A v \in Workers : v # w => fresh'[v] = fresh[v]
    BY Zenon, <1>1 DEF IInv, TypeOK
  <2>2. used \subseteq used' /\ \A t \in used : seg_hard_end'[t] = seg_hard_end[t]
    BY Zenon, <1>1 DEF IInv, TypeOK
  <2>3. \A t \in used' : next_segment'[t] \in used' \cup {NULL}
    <3> SUFFICES ASSUME NEW t \in used'
                 PROVE  next_segment'[t] \in used' \cup {NULL}
      BY Zenon
    <3>1. t \in used \/ t = s
      BY Zenon, <1>1
    <3>2. next_segment'[s] = NULL /\ \A q \in used : next_segment'[q] = next_segment[q]
      BY Zenon, <1>1 DEF IInv, TypeOK
    <3>3. \A q \in used : next_segment[q] \in used \cup {NULL}
      BY Zenon DEF IInv, LocalsOK
    <3> QED
      BY Zenon, <2>2, <3>1, <3>2, <3>3
  <2> QED
    BY Zenon, <2>1, <2>2, <2>3
<1>6. /\ space_top' \in [Spaces -> Nat]
      /\ seg_start' \in [Segments -> Nat]
      /\ seg_top' \in [Segments -> Nat]
      /\ seg_hard_end' \in [Segments -> Nat]
  <2>1. a + n \in Nat /\ a + op[w].size \in Nat
    BY Zenon, <1>1, NatSum
  <2> QED
    BY Zenon, <1>1, <2>1 DEF IInv, TypeOK
<1>7. /\ used' \subseteq Segments
      /\ seg_space' \in [Segments -> Spaces]
      /\ next_segment' \in [Segments -> SegOrNull]
      /\ prev_segment' \in [Segments -> SegOrNull]
      /\ fresh' \in [Workers -> SegOrNull]
  BY Zenon, <1>1 DEF IInv, TypeOK, SegOrNull
<1> QED
  BY Zenon, <1>4, <1>5, <1>6, <1>7

(* The first and the second attempt of allocate_container and of           *)
(* allocate_new_segment.                                                   *)
LEMMA PushKeepsIInv ==
  ASSUME IInv, NEW w \in Workers, NEW sp \in Spaces, NEW from \in {"push", "push_other"},
         PushContainer(w, sp), Goto(w, from, AfterPush(w)),
         segment' = [segment EXCEPT ![w] = cont[w]],
         UNCHANGED <<gen_top, parents, given, op, cont, old_top, obj, region_top>>
  PROVE  IInv'
<1>1. Memory'
  BY Zenon, PushMemory
<1>2. TypeOK'
  <2>1. AfterPush(w) \in PCs
    BY Zenon DEF AfterPush, PCs
  <2>2. parents' \subseteq used' /\ given' \subseteq used'
    BY Zenon, PushTypes DEF IInv, TypeOK
  <2> QED
    BY Zenon, <2>1, <2>2, PushTypes DEF IInv, TypeOK, Goto
<1>3. LocalsOK'
  <2>1. ASSUME NEW v \in Workers
        PROVE  /\ pc'[v] \in {"read_top", "cas_top", "next_segment"} =>
                    segment'[v] \in used' /\ cont'[v] \in used'
               /\ pc'[v] = "cas_top" => old_top'[v] + op'[v].size < seg_end(segment[v])'
               /\ pc'[v] \in {"push", "push_other"} =>
                    op'[v].kind = "container" \/ cont'[v] \in used'
               /\ pc'[v] \in {"link", "set_prev"} => segment'[v] \in used' /\ fresh'[v] \in used'
               /\ pc'[v] = "forward" => fresh'[v] \in used'
    <3>1. CASE v = w
      <4>1. pc'[w] = AfterPush(w) /\ segment'[w] = cont[w]
        BY ZenonT(30) DEF Goto, IInv, TypeOK
      <4>2. pc'[w] = "link" => cont[w] \in used
        <5>1. pc[w] \in {"push", "push_other"}
          BY Zenon DEF Goto
        <5>2. op[w].kind = "container" => pc'[w] # "link"
          BY Zenon, <4>1 DEF AfterPush
        <5> QED
          BY Zenon, <5>1, <5>2 DEF IInv, LocalsOK
      <4> QED
        BY Zenon, <3>1, <4>1, <4>2, PushTypes DEF AfterPush
    <3>2. CASE v # w
      <4>1. pc'[v] = pc[v] /\ segment'[v] = segment[v] /\ fresh'[v] = fresh[v]
        BY Zenon, <3>2, PushTypes DEF Goto, IInv, TypeOK
      <4>2. used \subseteq used'
        BY Zenon, PushTypes
      <4>3. pc[v] = "cas_top" => seg_hard_end'[segment[v]] = seg_hard_end[segment[v]]
        BY Zenon, PushTypes DEF IInv, LocalsOK
      <4> QED
        BY Zenon, <4>1, <4>2, <4>3 DEF IInv, LocalsOK, seg_end
    <3> QED
      BY Zenon, <3>1, <3>2
  <2> QED
    BY Zenon, <2>1, PushTypes DEF LocalsOK
<1> QED
  BY Zenon, <1>1, <1>2, <1>3 DEF IInv, Memory

(* The invariant holds when the old generation has been laid out. *)
LEMMA InitIInv == Init => IInv
<1> SUFFICES ASSUME Init PROVE IInv
  BY Zenon
<1>1. TypeOK
  <2>1. space_top \in [Spaces -> Nat] /\ 0 \in Spaces /\ gen_top \in Nat
    BY Zenon, AllocationAssumption DEF Init
  <2> QED
    BY Zenon, <2>1 DEF Init, TypeOK, SegOrNull, PCs, NoOp, Kinds
<1>2. SegmentsApart
  <2>1. \A sp \in Spaces : bottom[sp] <= space_top[sp] /\ space_top[sp] <= end[sp]
    BY Zenon, AllocationAssumption, NatOrder DEF Init
  <2> QED
    BY Zenon, <2>1 DEF Init, SegmentsApart
<1> QED
  BY Zenon, <1>1, <1>2 DEF Init, IInv, BlocksInSegment, BlocksDisjoint, ObjectsInSpace, LocalsOK

(* The functions that hold the workers' locals. *)
LEMMA LocalTypes ==
  IInv => /\ pc \in [Workers -> PCs]
          /\ op \in [Workers -> [kind : Kinds, size : Nat]]
          /\ cont \in [Workers -> SegOrNull] /\ segment \in [Workers -> SegOrNull]
          /\ old_top \in [Workers -> Nat] /\ fresh \in [Workers -> SegOrNull]
          /\ obj \in [Workers -> Nat] /\ region_top \in [Workers -> Nat]
          /\ given \subseteq used /\ space_top \in [Spaces -> Nat] /\ gen_top \in Nat
BY Zenon DEF IInv, TypeOK

(* Every step of every worker keeps the invariant. *)
LEMMA NextIInv == IInv /\ [Next]_vars => IInv'
<1> SUFFICES ASSUME IInv PROVE [Next]_vars => IInv'
  BY Zenon
<1> USE DEF Memory
<1>1. ASSUME NEW w \in Workers, StartContainer(w) PROVE IInv'
  <2>1. Memory'
    BY Zenon, <1>1, SameMemory DEF StartContainer, heap
  <2>2. TypeOK'
    <3>1. op' \in [Workers -> [kind : Kinds, size : Nat]]
      <4>1. PICK n \in Sizes : op' = [op EXCEPT ![w] = [kind |-> "container", size |-> n]]
        BY Zenon, <1>1 DEF StartContainer
      <4>2. [kind |-> "container", size |-> n] \in [kind : Kinds, size : Nat]
        BY Zenon, AllocationAssumption DEF Kinds
      <4> QED
        BY Zenon, <4>1, <4>2, LocalTypes
    <3>2. pc' \in [Workers -> PCs]
      BY Zenon, <1>1, LocalTypes DEF StartContainer, Goto, PCs
    <3> QED
      BY Zenon, <1>1, <3>1, <3>2 DEF StartContainer, heap, fields, links, IInv, TypeOK
  <2>3. LocalsOK'
    <3> PICK n \in Sizes : /\ op' = [op EXCEPT ![w] = [kind |-> "container", size |-> n]]
                          /\ pc' = [pc EXCEPT ![w] = "push"]
      BY Zenon, <1>1 DEF StartContainer, Goto
    <3>1. pc'[w] = "push" /\ op'[w].kind = "container"
      BY Zenon, LocalTypes
    <3>2. \A v \in Workers : v # w => pc'[v] = pc[v] /\ op'[v] = op[v]
      BY Zenon, LocalTypes
    <3>3. UNCHANGED <<used, next_segment, seg_start, seg_hard_end, cont, segment, old_top, fresh>>
      BY Zenon, <1>1 DEF StartContainer, heap, fields, links
    <3>4. ASSUME NEW v \in Workers, v = w
          PROVE  pc'[v] \notin {"read_top", "cas_top", "next_segment", "push_other", "link",
                               "set_prev", "forward"}
      BY Zenon, <3>1, <3>4
    <3> QED
      BY Zenon, <3>1, <3>2, <3>3, <3>4 DEF IInv, LocalsOK, seg_end
  <2> QED
    BY Zenon, <2>1, <2>2, <2>3 DEF IInv
<1>2. ASSUME NEW w \in Workers, StartElement(w) PROVE IInv'
  <2>1. Memory'
    BY Zenon, <1>2, SameMemory DEF StartElement, heap
  <2>2. TypeOK'
    <3>1. PICK c \in given, n \in Sizes \cup {BDAOldPLABSize} :
            /\ op' = [op EXCEPT ![w] = [kind |-> "element", size |-> n]]
            /\ cont' = [cont EXCEPT ![w] = c]
            /\ segment' = [segment EXCEPT ![w] = c]
      BY Zenon, <1>2 DEF StartElement
    <3>2. [kind |-> "element", size |-> n] \in [kind : Kinds, size : Nat]
      BY Zenon, AllocationAssumption DEF Kinds
    <3>3. c \in SegOrNull
      BY Zenon DEF IInv, TypeOK, SegOrNull
    <3>4. /\ op' \in [Workers -> [kind : Kinds, size : Nat]]
          /\ cont' \in [Workers -> SegOrNull] /\ segment' \in [Workers -> SegOrNull]
      BY Zenon, <3>1, <3>2, <3>3, LocalTypes
    <3>5. pc' \in [Workers -> PCs]
      BY Zenon, <1>2, LocalTypes DEF StartElement, Goto, PCs
    <3> QED
      BY Zenon, <1>2, <3>4, <3>5 DEF StartElement, heap, fields, links, IInv, TypeOK
  <2>3. LocalsOK'
    <3> PICK c \in given, n \in Sizes \cup {BDAOldPLABSize} :
               /\ op' = [op EXCEPT ![w] = [kind |-> "element", size |-> n]]
               /\ cont' = [cont EXCEPT ![w] = c]
               /\ segment' = [segment EXCEPT ![w] = c]
               /\ pc' = [pc EXCEPT ![w] = "read_top"]
      BY Zenon, <1>2 DEF StartElement, Goto
    <3>1. pc'[w] = "read_top" /\ segment'[w] \in used /\ cont'[w] \in used
      BY Zenon, LocalTypes
    <3>2. \A v \in Workers : v # w => /\ pc'[v] = pc[v] /\ op'[v] = op[v]
                                     /\ segment'[v] = segment[v] /\ cont'[v] = cont[v]
      BY Zenon, LocalTypes
    <3>3. UNCHANGED <<used, next_segment, seg_start, seg_hard_end, old_top, fresh>>
      BY Zenon, <1>2 DEF StartElement, heap, fields, links
    <3>4. ASSUME NEW v \in Workers, v = w
          PROVE  /\ pc'[v] \notin {"cas_top", "push", "push_other", "link", "set_prev", "forward"}
                 /\ segment'[v] \in used' /\ cont'[v] \in used'
      BY <3>1, <3>3, <3>4
    <3>5. ASSUME NEW v \in Workers, v # w, pc'[v] = pc[v], op'[v] = op[v],
                 segment'[v] = segment[v], cont'[v] = cont[v]
          PROVE  /\ pc'[v] \in {"read_top", "cas_top", "next_segment"} =>
                       segment'[v] \in used' /\ cont'[v] \in used'
                 /\ pc'[v] = "cas_top" =>
                       old_top'[v] + op'[v].size < seg_end(segment[v])
                 /\ pc'[v] \in {"push", "push_other"} =>
                       op'[v].kind = "container" \/ cont'[v] \in used'
                 /\ pc'[v] \in {"link", "set_prev"} => segment'[v] \in used' /\ fresh'[v] \in used'
                 /\ pc'[v] = "forward" => fresh'[v] \in used'
      BY <3>3, <3>5 DEF IInv, LocalsOK
    <3>6. \A s : seg_end(s)' = seg_end(s)
      BY Zenon, <3>3 DEF seg_end
    <3> QED
      BY ZenonT(30), <3>2, <3>3, <3>4, <3>5, <3>6 DEF IInv, LocalsOK
  <2> QED
    BY Zenon, <2>1, <2>2, <2>3 DEF IInv
<1>3. ASSUME NEW w \in Workers, AllocateObject(w) PROVE IInv'
  <2>1. Memory'
    BY Zenon, <1>3, ObjectMemory
  <2>2. TypeOK'
    <3>1. PICK n \in Sizes :
            /\ op' = [op EXCEPT ![w] = [kind |-> "object", size |-> n]]
            /\ obj' = [obj EXCEPT ![w] = space_top[0]]
            /\ space_top' = [space_top EXCEPT ![0] = @ + n]
            /\ blocks' = blocks \cup {Block(space_top[0], n, NULL, w)}
            /\ Goto(w, "idle", "read_gen_top")
      BY Zenon, <1>3 DEF AllocateObject
    <3>2. n \in Nat /\ 0 \in Spaces /\ space_top[0] \in Nat
      BY Zenon, AllocationAssumption DEF IInv, TypeOK
    <3>3. Block(space_top[0], n, NULL, w) \in BlockType
      BY Zenon, <3>2 DEF Block, BlockType, SegOrNull
    <3>4. blocks' \subseteq BlockType /\ space_top' \in [Spaces -> Nat]
      <4>1. blocks \subseteq BlockType
        BY Zenon DEF IInv, TypeOK
      <4>2. blocks' \subseteq BlockType
        BY Zenon, <3>1, <3>3, <4>1
      <4>3. space_top \in [Spaces -> Nat] /\ space_top[0] + n \in Nat
        BY <3>2, LocalTypes
      <4>4. space_top' \in [Spaces -> Nat]
        BY Zenon, <3>1, <4>3
      <4> QED
        BY Zenon, <4>2, <4>4
    <3>5. op' \in [Workers -> [kind : Kinds, size : Nat]] /\ obj' \in [Workers -> Nat]
      BY Zenon, <3>1, <3>2, LocalTypes DEF Kinds
    <3> QED
      BY Zenon, <1>3, <3>1, <3>4, <3>5 DEF AllocateObject, fields, links, Goto, IInv, TypeOK, PCs
  <2>3. LocalsOK'
    <3> PICK n \in Sizes : /\ op' = [op EXCEPT ![w] = [kind |-> "object", size |-> n]]
                          /\ pc' = [pc EXCEPT ![w] = "read_gen_top"]
      BY Zenon, <1>3 DEF AllocateObject, Goto
    <3>1. pc'[w] = "read_gen_top"
      BY Zenon, LocalTypes
    <3>2. \A v \in Workers : v # w => pc'[v] = pc[v] /\ op'[v] = op[v]
      BY Zenon, LocalTypes
    <3>3. UNCHANGED <<used, next_segment, seg_start, seg_hard_end, cont, segment, old_top, fresh>>
      BY Zenon, <1>3 DEF AllocateObject, fields, links
    <3>4. ASSUME NEW v \in Workers, v = w
          PROVE  pc'[v] \notin {"read_top", "cas_top", "next_segment", "push", "push_other", "link",
                               "set_prev", "forward"}
      BY Zenon, <3>1, <3>4
    <3> QED
      BY Zenon, <3>2, <3>3, <3>4 DEF IInv, LocalsOK, seg_end
  <2> QED
    BY Zenon, <2>1, <2>2, <2>3 DEF IInv
<1>4. ASSUME NEW w \in Workers, PushFirst(w) PROVE IInv'
  <2>1. PICK sp \in FirstSpaces(w) :
          \/ /\ PushContainer(w, sp)
             /\ Goto(w, "push", AfterPush(w))
             /\ segment' = [segment EXCEPT ![w] = cont[w]]
             /\ UNCHANGED <<gen_top, parents, given, op, cont, old_top, obj, region_top>>
          \/ /\ Goto(w, "push", "push_other")
             /\ UNCHANGED <<heap, locals>>
    BY Zenon, <1>4 DEF PushFirst
  <2>2. sp \in Spaces
    <3>1. op[w].kind = "container" => FirstSpaces(w) \subseteq Spaces
      BY Zenon DEF FirstSpaces, Bda
    <3>2. op[w].kind # "container" => cont[w] \in used /\ FirstSpaces(w) = {seg_space[cont[w]]}
      BY Zenon, <1>4 DEF FirstSpaces, PushFirst, IInv, LocalsOK
    <3> QED
      BY <3>1, <3>2 DEF IInv, TypeOK
  <2>3. CASE UNCHANGED <<heap, locals>> /\ Goto(w, "push", "push_other")
    <3>1. Memory'
      BY Zenon, <2>3, SameMemory DEF heap
    <3>2. TypeOK'
      BY Zenon, <2>3 DEF heap, locals, fields, links, Goto, IInv, TypeOK, PCs
    <3>3. LocalsOK'
      BY Zenon, <2>3 DEF heap, locals, fields, links, Goto, IInv, TypeOK, LocalsOK, seg_end
    <3> QED
      BY Zenon, <3>1, <3>2, <3>3 DEF IInv
  <2> QED
    BY Zenon, <2>1, <2>2, <2>3, PushKeepsIInv
<1>5. ASSUME NEW w \in Workers, PushOther(w) PROVE IInv'
  <2>1. CASE /\ PushContainer(w, 0)
             /\ Goto(w, "push_other", AfterPush(w))
             /\ segment' = [segment EXCEPT ![w] = cont[w]]
             /\ UNCHANGED <<gen_top, parents, given, op, cont, old_top, obj, region_top>>
    BY Zenon, <2>1, PushKeepsIInv, AllocationAssumption
  <2>2. CASE Return(w, "push_other") /\ UNCHANGED heap
    <3>1. Memory'
      BY Zenon, <2>2, SameMemory DEF heap
    <3>2. TypeOK'
      BY Zenon, <2>2 DEF heap, fields, links, Return, Goto, NoOp, IInv, TypeOK, PCs, Kinds, SegOrNull
    <3>3. LocalsOK'
      BY Zenon, <2>2 DEF heap, fields, links, Return, Goto, IInv, TypeOK, LocalsOK, seg_end
    <3> QED
      BY Zenon, <3>1, <3>2, <3>3 DEF IInv
  <2> QED
    BY Zenon, <1>5, <2>1, <2>2 DEF PushOther
<1>6. ASSUME NEW w \in Workers, ContainerWon(w) PROVE IInv'
  <2>1. Memory'
    BY Zenon, <1>6, SameMemory DEF ContainerWon
  <2>2. TypeOK'
    <3>1. fresh[w] \in used
      BY Zenon, <1>6 DEF ContainerWon, Return, Goto, IInv, LocalsOK
    <3> QED
      BY Zenon, <1>6, <3>1
         DEF ContainerWon, fields, links, Return, Goto, NoOp, IInv, TypeOK, PCs, Kinds, SegOrNull
  <2>3. LocalsOK'
    BY Zenon, <1>6 DEF ContainerWon, fields, links, Return, Goto, IInv, TypeOK, LocalsOK, seg_end
  <2> QED
    BY Zenon, <2>1, <2>2, <2>3 DEF IInv
<1>7. ASSUME NEW w \in Workers, ContainerLost(w) PROVE IInv'
  <2>1. Memory'
    BY Zenon, <1>7, LostMemory
  <2>2. TypeOK'
    <3>1. fresh[w] \in Segments
      BY Zenon, <1>7 DEF ContainerLost, Return, Goto, IInv, LocalsOK, TypeOK
    <3>2. blocks' \subseteq BlockType /\ seg_top' \in [Segments -> Nat]
      BY Zenon, <1>7, <3>1 DEF ContainerLost, IInv, TypeOK
    <3> QED
      BY Zenon, <1>7, <3>2
         DEF ContainerLost, links, Return, Goto, NoOp, IInv, TypeOK, PCs, Kinds, SegOrNull
  <2>3. LocalsOK'
    BY Zenon, <1>7 DEF ContainerLost, links, Return, Goto, IInv, TypeOK, LocalsOK, seg_end
  <2> QED
    BY Zenon, <2>1, <2>2, <2>3 DEF IInv
<1>8. ASSUME NEW w \in Workers, ReadTop(w) PROVE IInv'
  <2>1. Memory'
    BY Zenon, <1>8, SameMemory DEF ReadTop, heap
  <2>2. segment[w] \in used /\ seg_top[segment[w]] \in Nat
    BY Zenon, <1>8 DEF ReadTop, IInv, TypeOK, LocalsOK
  <2>3. TypeOK'
    BY Zenon, <1>8, <2>2 DEF ReadTop, heap, fields, links, Goto, IInv, TypeOK, PCs
  <2>4. LocalsOK'
    BY Zenon, <1>8, <2>2 DEF ReadTop, heap, fields, links, Goto, IInv, TypeOK, LocalsOK, seg_end
  <2> QED
    BY Zenon, <2>1, <2>3, <2>4 DEF IInv
<1>9. ASSUME NEW w \in Workers, CasTop(w) PROVE IInv'
  <2>1. segment[w] \in used /\ segment[w] \in Segments /\ old_top[w] + op[w].size \in Nat
    <3>1. old_top[w] \in Nat /\ op[w].size \in Nat
      BY Zenon, LocalTypes
    <3>2. segment[w] \in used /\ segment[w] \in Segments
      BY Zenon, <1>9 DEF CasTop, Goto, IInv, TypeOK, LocalsOK
    <3> QED
      BY Zenon, <3>1, <3>2, NatSum
  <2>2. CASE /\ seg_top[segment[w]] = old_top[w]
             /\ Return(w, "cas_top")
             /\ seg_top' = [seg_top EXCEPT ![segment[w]] = old_top[w] + op[w].size]
             /\ blocks' = blocks \cup {Block(old_top[w], op[w].size, segment[w], w)}
             /\ given' = given \cup {segment[w]}
    <3>1. UNCHANGED <<space_top, gen_top, used, seg_start, seg_hard_end, seg_space,
                      links, parents>> /\ pc[w] = "cas_top"
      BY Zenon, <1>9 DEF CasTop
    <3>2. Memory'
      BY Zenon, <2>2, <3>1, CasTopMemory
    <3>3. TypeOK'
      <4>1. Block(old_top[w], op[w].size, segment[w], w) \in BlockType
        BY Zenon, <2>1 DEF Block, BlockType, SegOrNull, IInv, TypeOK
      <4>2. blocks' \subseteq BlockType /\ seg_top' \in [Segments -> Nat]
        BY Zenon, <2>1, <2>2, <4>1 DEF IInv, TypeOK
      <4> QED
        BY Zenon, <2>1, <2>2, <3>1, <4>2
           DEF links, Return, Goto, NoOp, IInv, TypeOK, PCs, Kinds, SegOrNull
    <3>4. LocalsOK'
      BY Zenon, <2>2, <3>1 DEF links, Return, Goto, IInv, TypeOK, LocalsOK, seg_end
    <3> QED
      BY Zenon, <3>2, <3>3, <3>4 DEF IInv
  <2>3. CASE Goto(w, "cas_top", "read_top") /\ UNCHANGED <<seg_top, blocks, given, locals>>
    <3>1. UNCHANGED heap
      BY Zenon, <1>9, <2>3 DEF CasTop, heap, fields
    <3>2. Memory'
      BY Zenon, <3>1, SameMemory DEF heap
    <3>3. TypeOK'
      BY Zenon, <2>3, <3>1 DEF heap, locals, fields, links, Goto, IInv, TypeOK, PCs
    <3>4. LocalsOK'
      BY Zenon, <2>3, <3>1 DEF heap, locals, fields, links, Goto, IInv, TypeOK, LocalsOK, seg_end
    <3> QED
      BY Zenon, <3>2, <3>3, <3>4 DEF IInv
  <2> QED
    BY Zenon, <1>9, <2>2, <2>3 DEF CasTop
<1>10. ASSUME NEW w \in Workers, NextSegment(w) PROVE IInv'
  <2>1. Memory'
    BY Zenon, <1>10, SameMemory DEF NextSegment, heap
  <2>2. segment[w] \in used /\ cont[w] \in used /\ next_segment[segment[w]] \in used \cup {NULL}
    BY Zenon, <1>10 DEF NextSegment, IInv, LocalsOK
  <2>3. TypeOK'
    BY Zenon, <1>10, <2>2 DEF NextSegment, heap, fields, links, Goto, IInv, TypeOK, PCs, SegOrNull
  <2>4. LocalsOK'
    <3>1. UNCHANGED <<used, next_segment, seg_hard_end, op, old_top, fresh>>
      BY Zenon, <1>10 DEF NextSegment, heap, fields, links
    <3>2. \A v \in Workers : v # w => pc'[v] = pc[v] /\ segment'[v] = segment[v] /\ cont'[v] = cont[v]
      BY Zenon, <1>10 DEF NextSegment, Goto, IInv, TypeOK
    <3>3. pc'[w] \in {"read_top", "push"} /\ segment'[w] \in used /\ cont'[w] \in used
      BY ZenonT(30), <1>10, <2>2 DEF NextSegment, Goto, IInv, TypeOK
    <3> QED
      BY ZenonT(30), <3>1, <3>2, <3>3 DEF IInv, LocalsOK, seg_end
  <2> QED
    BY Zenon, <2>1, <2>3, <2>4 DEF IInv
<1>11. ASSUME NEW w \in Workers, Link(w) PROVE IInv'
  <2>1. Memory'
    BY Zenon, <1>11, SameMemory DEF Link
  <2>2. /\ segment[w] \in used /\ fresh[w] \in used
        /\ next_segment[segment[w]] \in used \cup {NULL}
    BY Zenon, <1>11 DEF Link, IInv, LocalsOK
  <2>3. TypeOK'
    BY Zenon, <1>11, <2>2 DEF Link, fields, Goto, IInv, TypeOK, PCs, SegOrNull
  <2>4. LocalsOK'
    <3>1. UNCHANGED <<used, seg_hard_end, op, cont, old_top, fresh>>
      BY Zenon, <1>11 DEF Link, fields
    <3>2. \A v \in Workers : v # w => pc'[v] = pc[v] /\ segment'[v] = segment[v]
      BY Zenon, <1>11 DEF Link, Goto, IInv, TypeOK
    <3>3. pc'[w] \in {"link", "set_prev"} /\ segment'[w] \in used
      BY Zenon, <1>11, <2>2 DEF Link, Goto, IInv, TypeOK
    <3>4. \A t \in used : next_segment'[t] \in used \cup {NULL}
      BY Zenon, <1>11, <2>2 DEF Link, IInv, TypeOK, LocalsOK
    <3> QED
      BY ZenonT(30), <2>2, <3>1, <3>2, <3>3, <3>4 DEF IInv, LocalsOK, seg_end
  <2> QED
    BY Zenon, <2>1, <2>3, <2>4 DEF IInv
<1>12. ASSUME NEW w \in Workers, SetPrev(w) PROVE IInv'
  <2>1. Memory'
    BY Zenon, <1>12, SameMemory DEF SetPrev
  <2>2. fresh[w] \in used /\ segment[w] \in used
    BY Zenon, <1>12 DEF SetPrev, Return, Goto, IInv, LocalsOK
  <2>3. TypeOK'
    BY Zenon, <1>12, <2>2
       DEF SetPrev, fields, Return, Goto, NoOp, IInv, TypeOK, PCs, Kinds, SegOrNull
  <2>4. LocalsOK'
    BY Zenon, <1>12 DEF SetPrev, fields, Return, Goto, IInv, TypeOK, LocalsOK, seg_end
  <2> QED
    BY Zenon, <2>1, <2>3, <2>4 DEF IInv
<1>13. ASSUME NEW w \in Workers, ReadGenTop(w) PROVE IInv'
  <2>1. Memory'
    BY Zenon, <1>13, SameMemory DEF ReadGenTop, heap
  <2>2. TypeOK'
    BY Zenon, <1>13 DEF ReadGenTop, heap, fields, links, Goto, IInv, TypeOK, PCs
  <2>3. LocalsOK'
    BY Zenon, <1>13 DEF ReadGenTop, heap, fields, links, Goto, IInv, TypeOK, LocalsOK, seg_end
  <2> QED
    BY Zenon, <2>1, <2>2, <2>3 DEF IInv
<1>14. ASSUME NEW w \in Workers, ReadRegionTop(w) PROVE IInv'
  <2>1. Memory'
    BY Zenon, <1>14, SameMemory DEF ReadRegionTop, heap
  <2>2. TypeOK'
    <3>1. space_top[0] \in Nat
      BY Zenon, AllocationAssumption DEF IInv, TypeOK
    <3> QED
      BY Zenon, <1>14, <3>1 DEF ReadRegionTop, heap, fields, links, Goto, IInv, TypeOK, PCs
  <2>3. LocalsOK'
    BY Zenon, <1>14 DEF ReadRegionTop, heap, fields, links, Goto, IInv, TypeOK, LocalsOK, seg_end
  <2> QED
    BY Zenon, <2>1, <2>2, <2>3 DEF IInv
<1>15. ASSUME NEW w \in Workers, CasGenTop(w) PROVE IInv'
  <2>1. Memory'
    BY Zenon, <1>15, SameMemory DEF CasGenTop
  <2>2. TypeOK'
    <3>1. gen_top' \in Nat
      BY Zenon, <1>15, LocalTypes DEF CasGenTop
    <3>2. pc' \in [Workers -> PCs]
      BY Zenon, <1>15, LocalTypes DEF CasGenTop, Goto, PCs
    <3> QED
      BY Zenon, <1>15, <3>1, <3>2 DEF CasGenTop, locals, fields, links, IInv, TypeOK
  <2>3. LocalsOK'
    BY ZenonT(30), <1>15 DEF CasGenTop, locals, fields, links, Goto, IInv, TypeOK, LocalsOK, seg_end
  <2> QED
    BY Zenon, <2>1, <2>2, <2>3 DEF IInv
<1>16. ASSUME NEW w \in Workers, AssertTop(w) PROVE IInv'
  <2>1. Memory'
    BY Zenon, <1>16, SameMemory DEF AssertTop, heap
  <2>2. TypeOK'
    BY Zenon, <1>16
       DEF AssertTop, heap, fields, links, Return, Goto, NoOp, IInv, TypeOK, PCs, Kinds, SegOrNull
  <2>3. LocalsOK'
    BY Zenon, <1>16 DEF AssertTop, heap, fields, links, Return, Goto, IInv, TypeOK, LocalsOK, seg_end
  <2> QED
    BY Zenon, <2>1, <2>2, <2>3 DEF IInv
<1>17. CASE UNCHANGED vars
  BY Zenon, <1>17 DEF vars, heap, locals, fields, links, IInv, TypeOK, SegmentsApart, BlocksInSegment,
     BlocksDisjoint, Disjoint, ObjectsInSpace, LocalsOK, seg_end
<1> QED
  BY Zenon, <1>1, <1>2, <1>3, <1>4, <1>5, <1>6, <1>7, <1>8, <1>9, <1>10, <1>11, <1>12, <1>13,
     <1>14, <1>15, <1>16, <1>17 DEF Next, Step

(* The inductive invariant holds in every reachable state. *)
THEOREM InductiveInvariant == Spec => []IInv
BY InitIInv, NextIInv, PTL DEF Spec

(* Every variable keeps its type, whatever the workers interleave. *)
THEOREM TypeCorrect == Spec => []TypeOK
<1>1. IInv => TypeOK
  BY Zenon DEF IInv
<1> QED
  BY <1>1, InductiveInvariant, PTL

(* No word of the old generation is handed out twice, for any number of    *)
(* workers racing in cas_allocate, push_container and allocate_element.    *)
THEOREM AllocationsDisjoint == Spec => []BlocksDisjoint
<1>1. IInv => BlocksDisjoint
  BY Zenon DEF IInv
<1> QED
  BY <1>1, InductiveInvariant, PTL

(* What is allocated for a container stays inside its segment, and the     *)
(* segment's top never passes its hard end.                                *)
THEOREM AllocationsInSegment == Spec => []BlocksInSegment
<1>1. IInv => BlocksInSegment
  BY Zenon DEF IInv
<1> QED
  BY <1>1, InductiveInvariant, PTL

(* Segments lie inside their space, apart from each other and from the     *)
(* objects of the general space; the rounding in cas_allocate_aligned      *)
(* never carries the top past the end.                                     *)
THEOREM ReservationsApart == Spec => []SegmentsApart
<1>1. IInv => SegmentsApart
  BY Zenon DEF IInv
<1> QED
  BY <1>1, InductiveInvariant, PTL

-----------------------------------------------------------------------------
(* The top of the generation, which workers push after they allocated in   *)
(* the general space: PushesTop is inductive relative to IInv, and the     *)
(* assertion of cas_allocate follows.                                      *)

(* push_container raises the top of its space only. *)
LEMMA PushRaises ==
  ASSUME IInv, NEW w \in Workers, NEW sp \in Spaces, PushContainer(w, sp)
  PROVE  space_top[0] <= space_top'[0]
<1>1. PICK s \in Segments \ used, a \in Nat, n \in Nat : Pushed(w, sp, s, a, n)
  BY Zenon, PushWrites
<1>2. DOMAIN space_top = Spaces /\ 0 \in Spaces /\ space_top[0] \in Nat
  BY Zenon, AllocationAssumption DEF IInv, TypeOK
<1>3. space_top[sp] <= a /\ space_top' = [space_top EXCEPT ![sp] = a + n]
  BY Zenon, <1>1 DEF Pushed
<1> QED
  BY <1>2, <1>3

(* No step lowers the top of the general space. *)
LEMMA TopRises ==
  ASSUME IInv, [Next]_vars
  PROVE  space_top[0] <= space_top'[0] /\ space_top[0] \in Nat /\ space_top'[0] \in Nat
<1>1. 0 \in Spaces /\ space_top[0] \in Nat
  BY Zenon, AllocationAssumption DEF IInv, TypeOK
<1>2. space_top'[0] \in Nat
  BY Zenon, <1>1, NextIInv DEF IInv, TypeOK
<1>3. ASSUME NEW w \in Workers, NEW sp \in Spaces, PushContainer(w, sp)
      PROVE  space_top[0] <= space_top'[0]
  BY Zenon, <1>3, PushRaises
<1>4. ASSUME NEW w \in Workers, AllocateObject(w)
      PROVE  space_top[0] <= space_top'[0]
  <2>1. PICK n \in Sizes : space_top' = [space_top EXCEPT ![0] = @ + n]
    BY Zenon, <1>4 DEF AllocateObject
  <2>2. n \in Nat /\ DOMAIN space_top = Spaces
    BY Zenon, AllocationAssumption DEF IInv, TypeOK
  <2> QED
    BY <1>1, <2>1, <2>2
<1>5. ASSUME NEW w \in Workers, PushFirst(w)
      PROVE  space_top[0] <= space_top'[0]
  <2>1. op[w].kind # "container" => seg_space[cont[w]] \in Spaces
    BY Zenon, <1>5 DEF PushFirst, IInv, LocalsOK, TypeOK
  <2>2. FirstSpaces(w) \subseteq Spaces
    BY Zenon, <2>1 DEF FirstSpaces, Bda
  <2>3. (\E sp \in Spaces : PushContainer(w, sp)) \/ UNCHANGED space_top
    BY Zenon, <1>5, <2>2 DEF PushFirst, heap
  <2> QED
    BY <1>1, <1>3, <2>3
<1>6. ASSUME NEW w \in Workers, PushOther(w)
      PROVE  space_top[0] <= space_top'[0]
  <2>1. PushContainer(w, 0) \/ UNCHANGED space_top
    BY Zenon, <1>6 DEF PushOther, heap
  <2> QED
    BY <1>1, <1>3, <2>1
<1>7. CASE UNCHANGED space_top
  BY <1>1, <1>7
<1>8. \/ \E w \in Workers : AllocateObject(w) \/ PushFirst(w) \/ PushOther(w)
      \/ UNCHANGED space_top
  BY ZenonT(30) DEF Next, Step, vars, heap, StartContainer, StartElement, ContainerWon, ContainerLost,
     ReadTop, CasTop, NextSegment, Link, SetPrev, ReadGenTop, ReadRegionTop, CasGenTop, AssertTop
<1> QED
  BY Zenon, <1>1, <1>2, <1>4, <1>5, <1>6, <1>7, <1>8

(* What PushesTop says of one worker. *)
PushesTopOf(w) ==
  /\ pc[w] \in {"read_gen_top", "read_region_top", "cas_gen_top", "assert_top"} =>
       obj[w] + op[w].size <= space_top[0]
  /\ pc[w] \in {"read_region_top", "cas_gen_top"} => old_top[w] <= gen_top
  /\ pc[w] = "cas_gen_top" =>
       old_top[w] < region_top[w] /\ obj[w] + op[w].size <= region_top[w]
  /\ pc[w] = "assert_top" => obj[w] + op[w].size <= gen_top

(* Workers that push the generation's top only raise it, and stop when it  *)
(* covers their object.                                                    *)
LEMMA NextPushesTop == IInv /\ PushesTop /\ [Next]_vars => PushesTop'
<1> SUFFICES ASSUME IInv, PushesTop, NEW v \in Workers
             PROVE  [Next]_vars => PushesTopOf(v)'
  BY Zenon DEF PushesTop, PushesTopOf
<1>0. SUFFICES ASSUME [Next]_vars PROVE PushesTopOf(v)'
  BY Zenon
<1>1. PushesTopOf(v)
  BY Zenon DEF PushesTop, PushesTopOf
<1>2. IInv'
  BY Zenon, <1>0, NextIInv
<1>3. /\ space_top[0] <= space_top'[0] /\ space_top[0] \in Nat /\ space_top'[0] \in Nat
  BY Zenon, <1>0, TopRises
<1>4. /\ gen_top \in Nat /\ gen_top' \in Nat /\ pc[v] \in PCs
      /\ obj[v] \in Nat /\ op[v].size \in Nat /\ old_top[v] \in Nat /\ region_top[v] \in Nat
  BY ZenonT(30), <1>2 DEF IInv, TypeOK
<1>a. ASSUME UNCHANGED gen_top
      PROVE  gen_top <= gen_top'
  BY Zenon, <1>4, <1>a, NatOrder
<1>5. ASSUME gen_top <= gen_top',
             pc'[v] = pc[v], obj'[v] = obj[v], op'[v] = op[v],
             old_top'[v] = old_top[v], region_top'[v] = region_top[v]
      PROVE  PushesTopOf(v)'
  <2>1. obj[v] + op[v].size \in Nat
    BY Zenon, <1>4, NatSum
  <2>2. \A x \in Nat : /\ x <= space_top[0] => x <= space_top'[0]
                       /\ x <= gen_top => x <= gen_top'
    BY Zenon, <1>3, <1>4, <1>5, NatTrans
  <2> QED
    BY Zenon, <1>1, <1>4, <1>5, <2>1, <2>2 DEF PushesTopOf
<1>6. ASSUME pc'[v] \notin {"read_gen_top", "read_region_top", "cas_gen_top", "assert_top"}
      PROVE  PushesTopOf(v)'
  BY Zenon, <1>6 DEF PushesTopOf
<1>7. ASSUME NEW w \in Workers, AllocateObject(w)
      PROVE  PushesTopOf(v)'
  <2>1. CASE v # w
    <3>1. /\ pc'[v] = pc[v] /\ obj'[v] = obj[v] /\ op'[v] = op[v]
          /\ old_top'[v] = old_top[v] /\ region_top'[v] = region_top[v] /\ gen_top' = gen_top
      <4> PICK n \in Sizes : /\ op' = [op EXCEPT ![w] = [kind |-> "object", size |-> n]]
                            /\ obj' = [obj EXCEPT ![w] = space_top[0]]
                            /\ pc' = [pc EXCEPT ![w] = "read_gen_top"]
                            /\ UNCHANGED <<old_top, region_top, gen_top>>
        BY ZenonT(30), <1>7 DEF AllocateObject, Goto
      <4> QED
        BY Zenon, <2>1, LocalTypes
    <3>2. gen_top <= gen_top'
      BY Zenon, <1>a, <3>1
    <3> QED
      BY Zenon, <1>5, <3>1, <3>2
  <2>2. CASE v = w
    <3>1. PICK n \in Sizes :
            /\ op' = [op EXCEPT ![w] = [kind |-> "object", size |-> n]]
            /\ obj' = [obj EXCEPT ![w] = space_top[0]]
            /\ space_top' = [space_top EXCEPT ![0] = @ + n]
            /\ pc' = [pc EXCEPT ![w] = "read_gen_top"]
      BY Zenon, <1>7 DEF AllocateObject, Goto
    <3>2. n \in Nat /\ 0 \in Spaces
      BY Zenon, AllocationAssumption
    <3>3. obj'[v] = space_top[0] /\ op'[v].size = n /\ space_top'[0] = space_top[0] + n
          /\ pc'[v] = "read_gen_top"
      BY Zenon, <2>2, <3>1, <3>2 DEF IInv, TypeOK
    <3> QED
      BY <1>3, <3>2, <3>3 DEF PushesTopOf
  <2> QED
    BY Zenon, <2>1, <2>2
<1>8. ASSUME NEW w \in Workers, ReadGenTop(w)
      PROVE  PushesTopOf(v)'
  <2>1. CASE v # w
    <3>1. /\ pc'[v] = pc[v] /\ obj'[v] = obj[v] /\ op'[v] = op[v]
          /\ old_top'[v] = old_top[v] /\ region_top'[v] = region_top[v]
      BY Zenon, <1>8, <2>1, LocalTypes DEF ReadGenTop, heap, Goto
    <3>2. gen_top <= gen_top'
      BY Zenon, <1>a, <1>8 DEF ReadGenTop, heap
    <3> QED
      BY Zenon, <1>5, <3>1, <3>2
  <2>2. CASE v = w
    <3>1. /\ pc[v] = "read_gen_top" /\ pc'[v] = "read_region_top" /\ old_top'[v] = gen_top
          /\ UNCHANGED <<obj, op, region_top, gen_top, space_top>>
      BY Zenon, <1>8, <2>2 DEF ReadGenTop, heap, Goto, IInv, TypeOK
    <3> QED
      BY <1>1, <1>4, <3>1 DEF PushesTopOf
  <2> QED
    BY Zenon, <2>1, <2>2
<1>9. ASSUME NEW w \in Workers, ReadRegionTop(w)
      PROVE  PushesTopOf(v)'
  <2>1. CASE v # w
    <3>1. /\ pc'[v] = pc[v] /\ obj'[v] = obj[v] /\ op'[v] = op[v]
          /\ old_top'[v] = old_top[v] /\ region_top'[v] = region_top[v]
      BY ZenonT(30), <1>9, <2>1, LocalTypes DEF ReadRegionTop, heap, Goto
    <3>2. gen_top <= gen_top'
      BY Zenon, <1>a, <1>9 DEF ReadRegionTop, heap
    <3> QED
      BY Zenon, <1>5, <3>1, <3>2
  <2>2. CASE v = w
    <3>1. /\ pc[v] = "read_region_top" /\ region_top'[v] = space_top[0]
          /\ pc'[v] = IF old_top[v] < space_top[0] THEN "cas_gen_top" ELSE "assert_top"
          /\ UNCHANGED <<obj, op, old_top, gen_top, space_top>>
      BY Zenon, <1>9, <2>2 DEF ReadRegionTop, heap, Goto, IInv, TypeOK
    <3> QED
      <4>1. obj[v] + op[v].size <= space_top[0] /\ old_top[v] <= gen_top
        BY Zenon, <1>1, <3>1 DEF PushesTopOf
      <4>2. CASE old_top[v] < space_top[0]
        BY Zenon, <3>1, <4>1, <4>2 DEF PushesTopOf
      <4>3. CASE ~ (old_top[v] < space_top[0])
        <5>1. obj[v] + op[v].size \in Nat /\ space_top[0] <= old_top[v]
          BY Zenon, <1>3, <1>4, <4>3, NatSum, NatOrder
        <5>2. obj[v] + op[v].size <= gen_top
          BY Zenon, <1>3, <1>4, <4>1, <5>1, NatTrans
        <5> QED
          BY Zenon, <3>1, <4>1, <4>3, <5>2 DEF PushesTopOf
      <4> QED
        BY Zenon, <4>2, <4>3
  <2> QED
    BY Zenon, <2>1, <2>2
<1>10. ASSUME NEW w \in Workers, CasGenTop(w)
       PROVE  PushesTopOf(v)'
  <2>1. gen_top <= gen_top'
    <3>1. pc[w] = "cas_gen_top"
      BY Zenon, <1>10 DEF CasGenTop, Goto
    <3>2. old_top[w] < region_top[w] /\ old_top[w] \in Nat /\ region_top[w] \in Nat
      BY Zenon, <3>1 DEF PushesTop, IInv, TypeOK
    <3>3. CASE gen_top = old_top[w] /\ gen_top' = region_top[w]
      BY Zenon, <1>4, <3>2, <3>3, NatOrder
    <3>4. CASE UNCHANGED gen_top
      BY Zenon, <1>a, <3>4
    <3> QED
      BY Zenon, <1>10, <3>3, <3>4 DEF CasGenTop
  <2>2. CASE v # w
    <3>1. /\ pc'[v] = pc[v] /\ obj'[v] = obj[v] /\ op'[v] = op[v]
          /\ old_top'[v] = old_top[v] /\ region_top'[v] = region_top[v]
      BY Zenon, <1>10, <2>2, LocalTypes DEF CasGenTop, locals, Goto
    <3> QED
      BY Zenon, <1>5, <2>1, <3>1
  <2>3. CASE v = w
    <3>1. /\ pc[v] = "cas_gen_top"
          /\ \/ pc'[v] = "assert_top" /\ gen_top' = region_top[v]
             \/ pc'[v] = "read_gen_top"
          /\ UNCHANGED <<obj, op, old_top, region_top, space_top>>
      BY Zenon, <1>10, <2>3 DEF CasGenTop, locals, Goto, IInv, TypeOK
    <3>2. obj[v] + op[v].size <= space_top[0] /\ obj[v] + op[v].size <= region_top[v]
      BY Zenon, <1>1, <3>1 DEF PushesTopOf
    <3>3. CASE pc'[v] = "assert_top" /\ gen_top' = region_top[v]
      BY Zenon, <3>1, <3>2, <3>3 DEF PushesTopOf
    <3>4. CASE pc'[v] = "read_gen_top"
      BY Zenon, <3>1, <3>2, <3>4 DEF PushesTopOf
    <3> QED
      BY Zenon, <3>1, <3>3, <3>4
  <2> QED
    BY Zenon, <2>2, <2>3
<1>11. ASSUME NEW w \in Workers, NEW from \in PCs, Return(w, from), UNCHANGED gen_top
       PROVE  PushesTopOf(v)'
  <2>1. CASE v # w
    <3>1. /\ pc'[v] = pc[v] /\ obj'[v] = obj[v] /\ op'[v] = op[v]
          /\ old_top'[v] = old_top[v] /\ region_top'[v] = region_top[v]
      BY Zenon, <1>11, <2>1 DEF Return, Goto, IInv, TypeOK
    <3>2. gen_top <= gen_top'
      BY Zenon, <1>a, <1>11
    <3> QED
      BY Zenon, <1>5, <3>1, <3>2
  <2>2. CASE v = w
    BY Zenon, <1>6, <1>11, <2>2 DEF Return, Goto, IInv, TypeOK
  <2> QED
    BY Zenon, <2>1, <2>2
<1>12. ASSUME NEW w \in Workers, NEW from \in PCs, NEW to \in PCs, Goto(w, from, to),
              to \notin {"read_gen_top", "read_region_top", "cas_gen_top", "assert_top"},
              \A u \in Workers : u # w => UNCHANGED <<obj[u], op[u], old_top[u], region_top[u]>>,
              UNCHANGED gen_top
       PROVE  PushesTopOf(v)'
  <2>1. CASE v # w
    <3>1. pc'[v] = pc[v]
      BY Zenon, <1>12, <2>1 DEF Goto, IInv, TypeOK
    <3>2. UNCHANGED <<obj[v], op[v], old_top[v], region_top[v]>>
      BY Zenon, <1>12, <2>1
    <3>3. gen_top <= gen_top'
      BY Zenon, <1>a, <1>12
    <3> QED
      BY Zenon, <1>5, <3>1, <3>2, <3>3
  <2>2. CASE v = w
    BY Zenon, <1>6, <1>12, <2>2 DEF Goto, IInv, TypeOK
  <2> QED
    BY Zenon, <2>1, <2>2
<1> USE DEF PCs
<1>13. ASSUME NEW w \in Workers, AssertTop(w) PROVE PushesTopOf(v)'
  BY Zenon, <1>11, <1>13 DEF AssertTop, heap
<1>14. ASSUME NEW w \in Workers, ContainerWon(w) PROVE PushesTopOf(v)'
  BY Zenon, <1>11, <1>14 DEF ContainerWon
<1>15. ASSUME NEW w \in Workers, ContainerLost(w) PROVE PushesTopOf(v)'
  BY Zenon, <1>11, <1>15 DEF ContainerLost
<1>16. ASSUME NEW w \in Workers, SetPrev(w) PROVE PushesTopOf(v)'
  BY Zenon, <1>11, <1>16 DEF SetPrev
<1>17. ASSUME NEW w \in Workers, PushFirst(w) PROVE PushesTopOf(v)'
  <2>1. AfterPush(w) \in PCs /\ AfterPush(w) \in {"forward", "link"}
    BY Zenon DEF AfterPush
  <2> QED
    BY Zenon, <1>12, <1>17, <2>1 DEF PushFirst, heap, locals
<1>18. ASSUME NEW w \in Workers, PushOther(w) PROVE PushesTopOf(v)'
  <2>1. AfterPush(w) \in PCs /\ AfterPush(w) \in {"forward", "link"}
    BY Zenon DEF AfterPush
  <2> QED
    BY Zenon, <1>11, <1>12, <1>18, <2>1 DEF PushOther, heap
<1>19. ASSUME NEW w \in Workers, StartContainer(w) PROVE PushesTopOf(v)'
  <2>1. \A u \in Workers : u # w => UNCHANGED <<obj[u], op[u], old_top[u], region_top[u]>>
    BY Zenon, <1>19 DEF StartContainer, IInv, TypeOK
  <2> QED
    BY Zenon, <1>12, <1>19, <2>1 DEF StartContainer, heap
<1>20. ASSUME NEW w \in Workers, StartElement(w) PROVE PushesTopOf(v)'
  <2>1. \A u \in Workers : u # w => UNCHANGED <<obj[u], op[u], old_top[u], region_top[u]>>
    BY Zenon, <1>20 DEF StartElement, IInv, TypeOK
  <2> QED
    BY Zenon, <1>12, <1>20, <2>1 DEF StartElement, heap
<1>21. ASSUME NEW w \in Workers, ReadTop(w) PROVE PushesTopOf(v)'
  <2>1. \A u \in Workers : u # w => UNCHANGED <<obj[u], op[u], old_top[u], region_top[u]>>
    BY Zenon, <1>21 DEF ReadTop, IInv, TypeOK
  <2> QED
    BY Zenon, <1>12, <1>21, <2>1 DEF ReadTop, heap
<1>22. ASSUME NEW w \in Workers, CasTop(w) PROVE PushesTopOf(v)'
  BY Zenon, <1>11, <1>12, <1>22 DEF CasTop, locals
<1>23. ASSUME NEW w \in Workers, NextSegment(w) PROVE PushesTopOf(v)'
  BY Zenon, <1>12, <1>23 DEF NextSegment, heap
<1>24. ASSUME NEW w \in Workers, Link(w) PROVE PushesTopOf(v)'
  <2>1. CASE Goto(w, "link", "set_prev")
    BY Zenon, <1>12, <1>24, <2>1 DEF Link
  <2>2. CASE UNCHANGED pc
    <3>1. UNCHANGED <<obj, op, old_top, region_top, gen_top>>
      BY Zenon, <1>24 DEF Link
    <3>2. gen_top <= gen_top'
      BY Zenon, <1>a, <3>1
    <3> QED
      BY Zenon, <1>5, <2>2, <3>1, <3>2
  <2> QED
    BY Zenon, <1>24, <2>1, <2>2 DEF Link
<1>25. CASE UNCHANGED vars
  BY Zenon, <1>a, <1>5, <1>25 DEF vars, heap, locals
<1> QED
  BY Zenon, <1>0, <1>7, <1>8, <1>9, <1>10, <1>13, <1>14, <1>15, <1>16, <1>17, <1>18, <1>19, <1>20,
     <1>21, <1>22, <1>23, <1>24, <1>25 DEF Next, Step

(* The assertion at the end of cas_allocate, "Incorrect push of the        *)
(* space's top", never fails.                                              *)
THEOREM AssertionHolds == Spec => []TopCoversObject
<1>1. Init => PushesTop
  BY Zenon DEF Init, PushesTop
<1>2. IInv /\ PushesTop => TopCoversObject
  <2> SUFFICES ASSUME IInv, PushesTop, NEW w \in Workers, pc[w] = "assert_top"
               PROVE  obj[w] <= space_top[0] /\ obj[w] + op[w].size <= gen_top
    BY Zenon DEF TopCoversObject
  <2>1. /\ obj[w] \in Nat /\ op[w].size \in Nat /\ space_top[0] \in Nat
    BY Zenon, AllocationAssumption DEF IInv, TypeOK
  <2>2. obj[w] + op[w].size <= space_top[0] /\ obj[w] + op[w].size <= gen_top
    BY Zenon DEF PushesTop
  <2> QED
    BY <2>1, <2>2
<1> QED
  BY <1>1, <1>2, InductiveInvariant, NextPushesTop, PTL DEF Spec

=============================================================================
