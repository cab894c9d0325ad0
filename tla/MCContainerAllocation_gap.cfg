CONSTANTS
  Workers = {w1}
  Spaces <- MCSpaces
  bottom <- MCBottom
  end <- MCEnd
  Segments = {s1, s2, s3}
  Sizes = {2, 3}
  segment_sz <- MCSegment
  filler_header_size = 2
  BDAOldPLABSize = 2
  card = 4
  MaxBlocks = 3
  NULL = NULL
SPECIFICATION Spec
CHECK_DEADLOCK FALSE
INVARIANT OtherSpaceParsable
