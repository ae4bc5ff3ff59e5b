SPECIFICATION Spec
CONSTANTS
  FrameIds = 2
  AiFirst = TRUE
INVARIANTS OneOwner
PROPERTIES BufferReturns
CHECK_DEADLOCK FALSE
