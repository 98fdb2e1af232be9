SPECIFICATION MCSpec
CONSTANTS
  r1 = r1
  r2 = r2
  Requesters <- MCRequesters
  Limit = 2
  Epsilon = 1
  OnMinor = FALSE
  GCBuffers = 1
  Locker = FALSE
  Toggles = FALSE
  MaxFiles = 2
  MaxSize = 4
INVARIANT TypeOK
INVARIANT PrologueStillHolds
INVARIANT SingleGCRotates
INVARIANT ToggledStartsSynced
PROPERTY RotatesAgain
