SPECIFICATION Spec
CONSTANTS
  r1 = r1
  r2 = r2
  Requesters <- MCOneRequester
  Limit = 2
  Epsilon = 0
  OnMinor = TRUE
  GCBuffers = 0
  Locker = TRUE
  Toggles = FALSE
  MaxFiles = 2
  MaxSize = 3
INVARIANT SingleGCRotates
