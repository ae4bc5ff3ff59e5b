SPECIFICATION Spec
CONSTANTS
  Tasks <- MC_Tasks
  LogBlockNbr = 2
  AddressSpace = 4
  Lbas = {0}
  Transfers <- MC_FewTransfers
  Counts = {1}
  Blank = x
  LateAnswers = TRUE
INVARIANTS OneTransfer SuccessIsReal
PROPERTIES CallEnds Recovers
CHECK_DEADLOCK FALSE
