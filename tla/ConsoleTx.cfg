SPECIFICATION Spec
CONSTANTS
  Writers = {camera, shell}
  Lengths = {1, 3}
  MaxMessages = 2
  LogBufSize = 3
  RingCapacity = 2
  FifoDepth = 1
  RxThreshold = 1
  ReadSizes = {}
  MaxRx = 0
  NoTask = NoTask
INVARIANTS TxPreserved TxArmed TxWaitAccounted
PROPERTIES TxWaitEnds TxDrains
CHECK_DEADLOCK FALSE
