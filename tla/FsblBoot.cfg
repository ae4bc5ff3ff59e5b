\* The flash driver and the boot, with calls, resets and power losses.
\* The boot loader stops in the image it jumps to.
CONSTANTS
  FlashSize = 12
  SectorSize = 4
  PageSize = 4
  Contents <- MCContents
  Chips = {"MX25UM25645G", "other"}
  Writes <- MCWrites
  Erases <- MCErases
  MaxCalls = 2
  MaxResets = 2
SPECIFICATION Spec
INVARIANTS FlashExact JumpReadsImage JumpKnown
PROPERTY BootEnds
CHECK_DEADLOCK FALSE
