CONSTANTS
  JavaThreads = {j1, j2}
  Workers = {w1, w2}
  Refs = {r1, r2, r3}
  NULL = NULL
SPECIFICATION FairSpec
INVARIANTS
  QueueIsTail
  TakenOnce
PROPERTIES
  LeavesOnlyByDequeue
  DrainTerminates
