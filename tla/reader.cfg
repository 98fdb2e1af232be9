SPECIFICATION FairSpec
CONSTANTS
  h1 = h1
  h2 = h2
  s1 = s1
  s2 = s2
  Threads <- MCThreads
  Slaves <- MCSlaves
  Files <- MCFiles
  MAX_QUEUE_SIZE = 2
  Faults = TRUE
  Cancels = TRUE
INVARIANT TypeOK
INVARIANT HeapOwned
INVARIANT NoneStranded
INVARIANT ThreadOrder
INVARIANT SyncIsolated
INVARIANT CleanBeforeFull
INVARIANT ReturnsComplete
INVARIANT QueueLimited
PROPERTY ParseEnds
