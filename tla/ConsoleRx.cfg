SPECIFICATION Spec
CONSTANTS
  Writers = {shell}
  Lengths = {1}
  MaxMessages = 1
  LogBufSize = 2
  RingCapacity = 2
  FifoDepth = 3
  RxThreshold = 2
  ReadSizes = {1, 2}
  MaxRx = 6
  NoTask = NoTask
INVARIANTS TypeOK RxNoLostWakeup
PROPERTIES RxLost RxReadEnds
CHECK_DEADLOCK FALSE
