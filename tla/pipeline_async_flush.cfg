SPECIFICATION Spec
CONSTANTS
  m1 = m1
  m2 = m2
  g1 = g1
  a1 = a1
  VM = VM
  Mutators <- MCOneMutator
  GCThreads <- None
  Agents <- MCAgents
  NC = 0
  Adaptive = FALSE
  Threshold = 0
  Backlog = 2
  BufferSize = 1
  MaxFree = 1
  MaxTraceSize = 0
  MaxEvents = 2
  MaxOps = 0
INVARIANT AgentFlushesAll
