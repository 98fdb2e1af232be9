SPECIFICATION Spec
CONSTANTS
  FIRST_CUSTOM_INDEX = 4
  MAX_INDEX = 6
  INDEX_MAX_WIDTH = 2
  BITS = 2
  MaxWidth = 6
  Marker <- MCMarker
  Compressors = {"lzw"}
  Inputs <- LZWInputs
  MaxBuffers <- LZWMaxBuffers
  Capacities = {30}
INVARIANT RoundTrip
CHECK_DEADLOCK FALSE
