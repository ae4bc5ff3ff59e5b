SPECIFICATION Spec
CONSTANTS
  Data = {a, b}
  Size = 4
  Calls <- MC_Calls
  Wants <- MC_Wants
INVARIANT TypeOK
INVARIANT NoOverlap
PROPERTY ImplementsQueue
