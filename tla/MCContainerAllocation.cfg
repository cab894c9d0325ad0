CONSTANTS
  Workers = {w1, w2}
  Spaces <- MCSpaces
  bottom <- MCBottom
  end <- MCEnd
  Segments = {s1, s2, s3}
  Sizes = {2, 9}
  segment_sz <- MCSegment
  filler_header_size = 2
  BDAOldPLABSize = 2
  card = 4
  MaxBlocks = 3
  NULL = NULL
SPECIFICATION FairSpec
CHECK_DEADLOCK FALSE
INVARIANTS
  TypeOK
  BlocksDisjoint
  SegmentsApart
  ChainsIntact
  TopCoversObject
PROPERTY AllocationReturns
