SPECIFICATION Spec
CONSTANTS
  FIRST_CUSTOM_INDEX = 4
  MAX_INDEX = 6
  INDEX_MAX_WIDTH = 2
  BITS = 2
  MaxWidth = 6
  Marker <- MCMarker
  Compressors = {"quyte", "lzw"}
  Inputs <- MCInputs
  MaxBuffers <- MCMaxBuffers
  Capacities = {8, 30}
INVARIANT TypeOK
INVARIANT RoundTrip
INVARIANT ReaderInStep
CHECK_DEADLOCK FALSE
