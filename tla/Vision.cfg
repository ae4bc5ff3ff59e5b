SPECIFICATION Spec
CONSTANTS
  FrameIds = 3
  AiFirst = FALSE
INVARIANTS TypeOK NetworkReadsFrame WaitsForOwn FramesMatch
PROPERTIES ImplementsSlot
CHECK_DEADLOCK FALSE
