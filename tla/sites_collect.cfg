SPECIFICATION FairSpec
CONSTANTS
  j1 = j1
  c1 = c1
  NULL = NULL
  JavaThreads = {j1}
  CompilerThreads = {c1}
  Klasses <- MCKlasses
  Super <- MCSuper
  Arrays = {"Array"}
  Frames <- MCFrames
  Name <- MCName
  Unloadable = {"u"}
  CallSites <- MCCallSites
  Allocates <- MCAllocates
  Unresolved <- MCUnresolved
  ALLOCATION_SITE_IDENTIFIER_FIRST_CUSTOM = 2
  SmallRange = 5
  BigRange = 5
  YellowZone = 50
  RedZone = 25
  YellowDepth = 2
  TraceObjectsMaxStackTraceDepth = 0
  ExtendAllocationSiteIdRange = TRUE
  ReuseUnloadedAllocationSites = TRUE
  MaxType = 4
  Programs <- CollectPrograms
PROPERTY GCStarts
CHECK_DEADLOCK FALSE
