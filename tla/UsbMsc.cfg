\* The USB disk, its host and the shell's self test.  Nothing here stops:
\* deadlock is checked.
CONSTANTS
  LogBlockNbr = 2
  BlockSize = 2
  SizeLimit = 4
  Commands <- MCCommands
  TestBlocks = {1}
SPECIFICATION Spec
INVARIANT TypeOK StatusHonest
PROPERTY SectorsExact CommandEnds
