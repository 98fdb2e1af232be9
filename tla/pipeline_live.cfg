SPECIFICATION FairSpec
CONSTANTS
  m1 = m1
  m2 = m2
  g1 = g1
  a1 = a1
  VM = VM
  Mutators <- MCOneMutator
  GCThreads <- None
  Agents <- None
  NC = 2
  Adaptive = TRUE
  Threshold = 0
  Backlog = 1
  BufferSize = 1
  MaxFree = 1
  MaxTraceSize = 1
  MaxEvents = 2
  MaxOps = 1
PROPERTY OperationsEnd
PROPERTY HandedIsWritten
PROPERTY HaltedResume
