----------------------------- MODULE MC_UsbMsc ------------------------------
(* The host's commands, each in the situation it is there for.             *)
EXTENDS UsbMsc

Command(op, dir, lba, count, total) ==
  [op |-> op, dir |-> dir, lba |-> lba, count |-> count, total |-> total]

MCCommands ==
  { Command("read",  "in",  0, 2, 4),      \* two blocks
    Command("write", "out", 0, 2, 4),
    Command("write", "out", 1, 2, 4),      \* the second block does not exist
    Command("write", "out", 1, 1, 3),      \* host and command disagree
    Command("read",  "in",  0, 1, 4),      \* a block size of SizeLimit
    Command("write", "out", 0, 1, 4),
    Command("read",  "out", 0, 1, 2),      \* wrong direction
    Command("write", "out", 0, 0, 0),      \* no data at all
    Command("ready", "in",  0, 0, 0),
    Command("capacity", "in", 0, 0, 2),    \* the host has room for more
    Command("sense", "in", 0, 0, 1),
    Command("other", "out", 0, 0, 1) }     \* a command with data nobody knows
=============================================================================
