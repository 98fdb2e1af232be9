SPECIFICATION MCSpec
CONSTANTS
  t1 = t1
  t2 = t2
  t3 = t3
  f1 = f1
  f2 = f2
  b1 = b1
  b2 = b2
  NoBuffer = NoBuffer
  Callers <- MCCallers
  Buffers <- MCBuffers
  InitialCapacity = 1
  MaxCapacity = 3
  ResizeMode = "resize_enabled_preserve_order"
  Underflow = FALSE
  Overflow = FALSE
SYMMETRY Symmetry
INVARIANT TypeOK
INVARIANT RingInv
INVARIANT NoLostWakeup
INVARIANT CapacityBounded
PROPERTY QueueSpec
PROPERTY FreeListSpec
CHECK_DEADLOCK FALSE
