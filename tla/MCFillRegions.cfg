SPECIFICATION FairSpec
CONSTANTS
  w1 = w1 w2 = w2
  Workers <- Two
  RegionSize = 2
  ContainerRegions = 2
  Containers = 2
INVARIANTS
  Evacuated
  CountsHold
  FilledOnce
PROPERTY CompactionEnds
CHECK_DEADLOCK FALSE
