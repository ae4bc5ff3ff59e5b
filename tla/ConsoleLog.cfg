SPECIFICATION Spec
CONSTANTS
  Writers = {shell}
  Lengths = {1, 2, 3}
  MaxMessages = 1
  LogBufSize = 3
  RingCapacity = 4
  FifoDepth = 1
  RxThreshold = 1
  ReadSizes = {}
  MaxRx = 0
  NoTask = NoTask
INVARIANT LogByteIdentical
CHECK_DEADLOCK FALSE
