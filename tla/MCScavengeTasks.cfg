SPECIFICATION Spec
SYMMETRY Alike
CONSTANTS
  w1 = w1 w2 = w2 w3 = w3
  NoWorker = NoWorker
  Workers <- Three
  BdaSpaces = 1
  general_used = TRUE
  target = 1
  MaxRefs = 2
  MaxSupply = 1
  MaxScavenges = 2
INVARIANTS
  EnoughWorkers
  RefsFirst
  AllDone
  
  
CHECK_DEADLOCK FALSE
