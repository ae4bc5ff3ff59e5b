------------------------------ MODULE FsblBoot ------------------------------
(***************************************************************************)
(* The first stage boot loader: main (fsbl/Core/Src/main.c) initialises    *)
(* the NOR flash, does not look at the result, and BOOT_Application        *)
(* (boot/stm32_boot_xip.c) maps the flash and jumps to the image in it.    *)
(* The MCU may be reset at any moment, before or after the jump: the       *)
(* driver's object is lost, the chip keeps its link, its latch and the     *)
(* operation it is in.  A power loss resets the chip too; it is ready when *)
(* the MCU starts.                                                         *)
(*                                                                         *)
(* Between initialisation and mapping the flash may be written through     *)
(* the driver's interface; main itself does not.                           *)
(***************************************************************************)
EXTENDS NorFlash

CONSTANTS MaxCalls,   \* bound: calls of the driver's interface
          MaxResets   \* bound: resets and power losses

ASSUME BootAssumption == MaxCalls \in Nat /\ MaxResets \in Nat

VARIABLES mapped,         \* the read that memory-mapped mode makes: its link and
                          \* command, and whether NORFlash_Init returned OK
          calls, resets   \* how many there were

vars == <<norVars, mapped, calls, resets>>

NotMapped == [on |-> FALSE, link |-> "none", command |-> FALSE, ok |-> FALSE]

BootInit ==
  /\ \E id \in Chips, link \in {"1S1S1S", "8D8D8D"}, prompt \in BOOLEAN :
       Init(id, link, prompt)
  /\ mapped = NotMapped /\ calls = 0 /\ resets = 0

UseFlash ==
  /\ calls < MaxCalls
  /\ (\E w \in Writes : Write(w)) \/ (\E e \in Erases : EraseSector(e)) \/ EraseChip
  /\ calls' = calls + 1
  /\ UNCHANGED <<mapped, resets>>

(* main goes on whatever NORFlash_Init returned, and                       *)
(* NORFlash_EnableMemoryMappedMode succeeds whatever is in the object.     *)
Map ==
  /\ pc \in {"ready", "failed"}
  /\ mapped' = [on |-> TRUE, link |-> obj.link, command |-> obj.table,
                ok |-> pc = "ready"]
  /\ pc' = "mapped"
  /\ UNCHANGED <<chip, mem, obj, k, call, result, before, target, calls, resets>>

(* JumpToApplication: stack pointer and entry are read through the mapping.*)
Jump ==
  /\ pc = "mapped"
  /\ pc' = "jumped"
  /\ UNCHANGED <<chip, mem, obj, k, call, result, before, target, mapped, calls, resets>>

(* The MCU starts again: only the chip and its cells are as they were.     *)
Restart ==
  /\ resets < MaxResets /\ resets' = resets + 1
  /\ obj' = Object /\ pc' = "init" /\ k' = 1 /\ call' = NoCall /\ result' = "none"
  /\ mapped' = NotMapped
  /\ UNCHANGED <<before, target, calls>>

McuReset  == Restart /\ UNCHANGED <<chip, mem>>
PowerLoss == Restart /\ ChipResets(TRUE)

Fsbl == \/ Driver /\ UNCHANGED <<mapped, calls, resets>>
        \/ Map \/ Jump

Chip == (ChipDone \/ ChipReady) /\ UNCHANGED <<mapped, calls, resets>>

Next == Fsbl \/ Chip \/ UseFlash \/ McuReset \/ PowerLoss

(* The FSBL runs, and the chip ends what it began: nothing is assumed of   *)
(* resets, which are bounded, nor of calls.                                *)
Spec == BootInit /\ [][Next]_vars /\ WF_vars(Fsbl) /\ WF_vars(Chip)
-----------------------------------------------------------------------------
(* Whatever is interrupted where, the flash holds in every cell what it    *)
(* held before the last call or what that call asks for, and nothing else  *)
(* once the call has returned OK: pages do not wrap onto bytes outside the *)
(* range, and no piece is lost or written twice at another place.          *)
FlashExact ==
  /\ \A a \in Addresses : mem[a] \in {before[a], target[a]}
  /\ result = "OK" => mem = target

CanRead == /\ Hears
           /\ mapped.on /\ mapped.link = chip.link /\ mapped.command

(* With the chip of the board, ready in time, the jump reads the image:    *)
(* chip and mapping speak the same link with the chip's read command, and  *)
(* the chip is not busy, whatever link, latch or erase a reset of the MCU  *)
(* left it in.                                                             *)
JumpReadsImage == pc = "jumped" /\ chip.id = MX25UM25645G /\ chip.prompt => CanRead

(* main jumps whatever NORFlash_Init returned, but what it returned is so: *)
(* after OK the jump reads the image, with any chip, prompt or not.        *)
JumpKnown == pc = "jumped" /\ mapped.ok => CanRead

(* Once the resets are over, the boot loader ends in the jump: no poll of  *)
(* the status register waits for a chip that does not hear it.             *)
BootEnds == <>[](pc = "jumped")
=============================================================================
