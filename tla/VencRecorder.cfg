SPECIFICATION Spec
CONSTANTS
  LogBlockNbr = 5
  BlockUnits = 2
  BatchBlocks = 2
  TargetFrames = 2
  HeaderUnits = 1
  FrameUnits = {1, 3, 6}
  EndUnits = 1
  MaxSessions = 3
  OtherWrites = TRUE
INVARIANTS TypeOK MagicComplete CompleteIsOnDisk RequestKept EncoderReleased
PROPERTIES RequestEnds
CHECK_DEADLOCK FALSE
