SPECIFICATION MCSpec
CONSTANTS
  m1 = m1
  m2 = m2
  g1 = g1
  a1 = a1
  VM = VM
  Mutators <- MCOneMutator
  GCThreads <- MCGCThreads
  Agents <- None
  NC = 2
  Adaptive = FALSE
  Threshold = 0
  Backlog = 2
  BufferSize = 1
  MaxFree = 1
  MaxTraceSize = 1
  MaxEvents = 2
  MaxOps = 2
INVARIANT AllMarksSplitTrace
INVARIANT AllBuffersAccounted
INVARIANT AllShutdownComplete
PROPERTY AllRotationsClean
