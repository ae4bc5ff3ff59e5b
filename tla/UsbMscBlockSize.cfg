\* The comment that a block size is never zero, against the 16 bits it is kept in.
CONSTANTS
  LogBlockNbr = 2
  BlockSize = 2
  SizeLimit = 4
  Commands <- MCCommands
  TestBlocks = {1}
SPECIFICATION Spec
INVARIANT BlockSizeVerified
