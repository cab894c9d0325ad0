SPECIFICATION FairSpec
CONSTANTS
  w1 = w1 w2 = w2 w3 = w3
  NoWorker = NoWorker
  Workers <- Three
  BdaSpaces = 1
  general_used = FALSE
  target = 0
  MaxRefs = 1
  MaxSupply = 1
  MaxScavenges = 2
PROPERTY ScavengeEnds
CHECK_DEADLOCK FALSE
