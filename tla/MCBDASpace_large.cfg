SPECIFICATION Spec
CONSTANTS
  s1 = s1 s2 = s2 s3 = s3 s4 = s4 s5 = s5 s6 = s6 s7 = s7
  NULL = NULL
  Structs <- Five
  RegionSize = 3
  SegmentRegions = 1
  Regions = 7
  filler = 1
  Sizes <- OneOrTwoSegments
  ElementSizes <- None_
  MaxGCs = 1
  MaxDead = 3
INVARIANTS
  MovesLeft
CONSTRAINT
  UpToLastGC
CHECK_DEADLOCK FALSE
