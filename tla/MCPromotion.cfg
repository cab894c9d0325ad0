SPECIFICATION FairSpec
CONSTANTS
  w1 = w1 w2 = w2 arr = arr bda = bda elem = elem box = box leaf = leaf
  NULL = NULL
  Workers <- Two
  Objects <- Graph
  Slots <- GraphSlots
  Target <- GraphTarget
  Fields <- GraphFields
  Size <- GraphSize
  Chunked <- Arrays
  RefSlots <- Refs
  OldSlots <- Olds
  PlainSlots <- Roots
  Segments <- FourSegments
  segment_sz = 6
  filler = 1
  BDAOldPLABSize = 3
  chunk_size = 1
INVARIANTS
  NotRevisited
  SegmentsSound
  KeptTogether
  CardsCover
  NothingLeft
PROPERTIES
  ImplementsForwarding
  ScavengeEnds
CHECK_DEADLOCK FALSE
