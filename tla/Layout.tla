------------------------------- MODULE Layout -------------------------------
(* Sizes and limits that are fixed when the virtual machine starts: the    *)
(* size of a segment, which the constructor of MutableBDASpace computes    *)
(* from the command line, and the limits of the spaces, which              *)
(* initialize_regions sets and update_layout changes when the generation   *)
(* is resized.  Everything is in words.  The code aligns with masks, which *)
(* round to multiples when the alignment is a power of two; the alignments *)
(* here are (the default options give segments of 2^17 words).             *)
EXTENDS Integers

(* align_size_up_: the least multiple of the alignment that is not below x *)
align_up(x, a) == x + ((a - (x % a)) % a)

(* align_size_down_: the greatest multiple that is not above x *)
align_size_down(x, a) == x - (x % a)

(* A double of the command line, as numerator and denominator. *)
Fraction == (Nat \ {0}) \X (Nat \ {0})

(* What a collection is expected to need, in words: a field is one word, a *)
(* header two.  The options are those of the command line.                 *)
estimated_sz(o) ==
  LET term1 == o.BDAElementNumberFields
      term2 == o.BDAElementNumberFields * o.BDADelegationLevel * 3
      term3 == 3 + o.ContainerNodeFields * (3 + term1 + term2)
  IN  (term3 * o.BDACollectionSize * o.BDAContainerFraction[1]) \div o.BDAContainerFraction[2]

(* calculate_reserved_sz: a segment is a whole number of compactor regions *)
(* (MinRegionSize), so that none is split.                                 *)
calculate_reserved_sz(o, region) == align_up(estimated_sz(o), region)

(* initialize_regions: the bda spaces share space_size / BDARatio and are  *)
(* whole numbers of segments.  The loop that lowers the share while a bda  *)
(* space is smaller than a segment and not empty does not run: there is no *)
(* such multiple of a segment.                                             *)
bda_region_sz(space_size, nregions, alignment, BDARatio) ==
  LET bda_space == align_size_down((space_size * BDARatio[2]) \div BDARatio[1], alignment)
  IN  IF nregions > 0 THEN align_size_down(bda_space \div nregions, alignment) ELSE 0

(* The bda spaces lie one behind the other, the general space (0) behind   *)
(* them, up to the end of the generation.                                  *)
space_bottom(start, region_sz, nregions) ==
  [i \in 0..nregions |-> start + (IF i = 0 THEN nregions ELSE i - 1) * region_sz]

space_end(start, last, region_sz, nregions) ==
  [i \in 0..nregions |-> IF i = 0 THEN last ELSE start + i * region_sz]

(* update_layout: when the generation grows to new_last the general space  *)
(* grows with it; when the generation shrinks no space does.               *)
update_layout(end, last, new_last) ==
  IF new_last > last THEN [end EXCEPT ![0] = new_last] ELSE end

=============================================================================
