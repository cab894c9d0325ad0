----------------------- MODULE MCContainerAllocation -----------------------
(* Model of ContainerAllocation for TLC: the smallest old generation in    *)
(* which an element goes through every outcome, a bda space of one segment *)
(* below a general space of two, as the virtual machine lays out 24 words  *)
(* when BDARatio is 3 and the compactor's regions have 8 words.            *)
EXTENDS ContainerAllocation, TLC

MCOptions == [BDAElementNumberFields |-> 1, BDADelegationLevel |-> 0, ContainerNodeFields |-> 1,
              BDACollectionSize |-> 1, BDAContainerFraction |-> <<1, 1>>]
MCSegment == calculate_reserved_sz(MCOptions, 8)
MCRegion  == bda_region_sz(24, 1, MCSegment, <<3, 1>>)
MCSpaces  == 0..1
MCBottom  == space_bottom(0, MCRegion, 1)
MCEnd     == space_end(0, 24, MCRegion, 1)

=============================================================================
