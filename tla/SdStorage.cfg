SPECIFICATION Spec
CONSTANTS
  Tasks <- MC_Tasks
  LogBlockNbr = 2
  AddressSpace = 4
  Lbas = {0, 1, 3}
  Transfers <- MC_Transfers
  Counts = {1, 2}
  Blank = x
  LateAnswers = FALSE
INVARIANTS TypeOK NoStrayDma
PROPERTIES ImplementsDevice
CHECK_DEADLOCK FALSE
