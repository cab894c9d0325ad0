CONSTANTS
  JavaThreads = {j1}
  Workers = {w1}
  Refs = {r1}
  NULL = NULL
SPECIFICATION Spec
INVARIANT NoStaleRoot
