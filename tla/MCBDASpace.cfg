SPECIFICATION Spec
CONSTANTS
  s1 = s1 s2 = s2 s3 = s3 s4 = s4 s5 = s5 s6 = s6 s7 = s7
  NULL = NULL
  Structs <- Five
  RegionSize = 4
  SegmentRegions = 1
  Regions = 3
  filler = 1
  Sizes <- One
  ElementSizes <- One
  MaxGCs = 2
  MaxDead = 4
INVARIANTS
  
  InContainer
  SourceRegionFirst
  
CHECK_DEADLOCK FALSE
