------------------------------ MODULE NorFlash ------------------------------
(***************************************************************************)
(* The NOR flash driver of the FSBL (Drivers/BSP/NORFlash/norflash.c) and  *)
(* the MX25UM25645G it drives over XSPI2.  Driver and chip each have a     *)
(* link (1S1S1S, 4S4S4S, 8D8D8D): a command is heard only on the chip's    *)
(* link, and while the chip programs or erases it hears only status reads  *)
(* and resets; after a reset that cut such an operation short it hears     *)
(* nothing until it is ready.  A page program wraps within its page and    *)
(* only clears bits.                                                       *)
(*                                                                         *)
(* A cell is 1 when erased; it stands for the two bytes that the octal     *)
(* link always transfers together, so that calls with an odd address or    *)
(* length, which the driver does not refuse, are left out.                 *)
(* LL_XSPI_ConfigRegularCmd never fails for a command with an instruction, *)
(* and every command of the driver has one: the driver's error returns     *)
(* from it are not taken.                                                  *)
(***************************************************************************)
EXTENDS Integers, Sequences

CONSTANTS FlashSize, SectorSize, PageSize,
          Contents,    \* what the cells may hold when the power comes
          Chips,       \* what may be soldered: the chip, or "other"
          Writes,      \* [addr, data] of the calls of NORFlash_Write
          Erases       \* [addr, size] of the calls of NORFlash_EraseSector

ASSUME FlashAssumption ==
  /\ PageSize \in Nat \ {0} /\ SectorSize \in Nat \ {0} /\ FlashSize \in Nat \ {0}
  /\ SectorSize % PageSize = 0 /\ FlashSize % SectorSize = 0
  /\ Contents \subseteq [0 .. FlashSize - 1 -> {0, 1}]
  /\ \A w \in Writes : /\ w.data \in Seq({0, 1}) /\ w.addr \in Nat
                       /\ w.addr + Len(w.data) <= FlashSize
  /\ \A e \in Erases : e.addr \in Nat /\ e.size \in Nat /\ e.addr + e.size <= FlashSize

VARIABLES chip,    \* which, its link, latch, operation, whether it is ready, and
                   \* whether it always is within the driver's delay (prompt)
          mem,     \* its cells
          obj,     \* NORFlashObject: the link, and whether Command is filled in
          pc, k,   \* where the driver is; the next entry of PhyLinkTable
          call,    \* the call in progress: what is left of it
          result   \* what the last write or erase returned

VARIABLES before, target  \* history: the cells at the last call, and as it asks

norVars == <<chip, mem, obj, pc, k, call, result, before, target>>

Addresses == 0 .. FlashSize - 1
MX25UM25645G == "MX25UM25645G"
PhyLinkTable == <<"1S1S1S", "4S4S4S", "8D8D8D">>

NoOp   == [a \in {} |-> 0]      \* the new values of the cells an operation changes
NoCall == [op |-> "none", addr |-> 0, data |-> << >>, size |-> 0, aligned |-> TRUE]
Object == [link |-> "1S1S1S", table |-> FALSE]      \* zero at the start of the FSBL

Busy == chip.op # NoOp
OnLink == chip.id = MX25UM25645G /\ chip.link = obj.link
Hears  == OnLink /\ ~Busy /\ chip.ready

Apply(cells, op) == [a \in Addresses |-> IF a \in DOMAIN op THEN op[a] ELSE cells[a]]

(* The chip ends its operation.                                            *)
ChipDone ==
  /\ Busy
  /\ mem' = Apply(mem, chip.op)
  /\ chip' = [chip EXCEPT !.op = NoOp, !.wel = FALSE]
  /\ UNCHANGED <<obj, pc, k, call, result, before, target>>

(* A reset of the chip: what it was changing is changed in part, and only  *)
(* then may it take longer than the driver's delay to be ready.            *)
ChipResets(ready) ==
  /\ ready \/ (Busy /\ ~chip.prompt)
  /\ \E S \in SUBSET DOMAIN chip.op :
       mem' = [a \in Addresses |-> IF a \in S THEN chip.op[a] ELSE mem[a]]
  /\ chip' = [chip EXCEPT !.link = "1S1S1S", !.wel = FALSE, !.op = NoOp, !.ready = ready]

ChipReady ==
  /\ ~chip.ready
  /\ chip' = [chip EXCEPT !.ready = TRUE]
  /\ UNCHANGED <<mem, obj, pc, k, call, result, before, target>>
-----------------------------------------------------------------------------
Goto(p) == pc' = p

(* NORFlash_XSPI_Init: the base command is for one line.                   *)
XspiInit ==
  /\ pc = "init"
  /\ obj' = [obj EXCEPT !.link = "1S1S1S"]
  /\ k' = 1 /\ Goto("reset")
  /\ UNCHANGED <<chip, mem, call, result, before, target>>

HearsReset(link) == chip.id = MX25UM25645G /\ chip.link = link /\ chip.ready

(* Fault: the chip is reset on one line and on four only.                  *)
Reset_NotOctal ==
  /\ pc = "reset"
  /\ IF k <= 2
     THEN /\ obj' = [obj EXCEPT !.link = PhyLinkTable[k]]
          /\ IF HearsReset(PhyLinkTable[k])
             THEN \E ready \in BOOLEAN : ChipResets(ready) ELSE UNCHANGED <<chip, mem>>
          /\ k' = k + 1 /\ UNCHANGED pc
     ELSE /\ obj' = [obj EXCEPT !.link = "1S1S1S"]
          /\ Goto("id")
          /\ UNCHANGED <<chip, mem, k>>
  /\ UNCHANGED <<call, result, before, target>>

(* NORFlash_Reset: enable reset and reset on every link; whichever the     *)
(* chip is on, even busy, it hears one pair.  Then a delay of 10 ms.       *)
Reset ==
  /\ pc = "reset"
  /\ IF k <= Len(PhyLinkTable)
     THEN /\ obj' = [obj EXCEPT !.link = PhyLinkTable[k]]
          /\ IF HearsReset(PhyLinkTable[k])
             THEN \E ready \in BOOLEAN : ChipResets(ready) ELSE UNCHANGED <<chip, mem>>
          /\ k' = k + 1 /\ UNCHANGED pc
     ELSE /\ obj' = [obj EXCEPT !.link = "1S1S1S"]
          /\ Goto("id")
          /\ UNCHANGED <<chip, mem, k>>
  /\ UNCHANGED <<call, result, before, target>>

(* The JEDEC ID; NORFlash_MX25UM25645G_Init fills in the commands first.   *)
ReadId ==
  /\ pc = "id"
  /\ IF Hears THEN obj' = [obj EXCEPT !.table = TRUE] /\ Goto("cr2")
     ELSE Goto("failed") /\ UNCHANGED obj
  /\ UNCHANGED <<chip, mem, k, call, result, before, target>>

(* Fault: the write enable before CR2 is forgotten.                        *)
ReadCr2_NotEnabled ==
  /\ pc = "cr2"
  /\ IF Hears /\ chip.link = "1S1S1S" THEN Goto("dtr") ELSE Goto("failed")
  /\ UNCHANGED <<chip, mem, obj, k, call, result, before, target>>

(* The interface bits of CR2 are 0 after a reset, so that the error is not *)
(* taken; then write enable.                                               *)
ReadCr2 ==
  /\ pc = "cr2"
  /\ IF Hears /\ chip.link = "1S1S1S"
     THEN chip' = [chip EXCEPT !.wel = TRUE] /\ Goto("dtr")
     ELSE Goto("failed") /\ UNCHANGED chip
  /\ UNCHANGED <<mem, obj, k, call, result, before, target>>

(* Fault: the driver stays on one line.                                    *)
EnableDtr_LinkKept ==
  /\ pc = "dtr"
  /\ chip' = IF Hears /\ chip.wel THEN [chip EXCEPT !.link = "8D8D8D", !.wel = FALSE] ELSE chip
  /\ Goto("ready")
  /\ UNCHANGED <<mem, obj, k, call, result, before, target>>

(* CR2 := DTR octal, and the driver follows.                               *)
EnableDtr ==
  /\ pc = "dtr"
  /\ chip' = IF Hears /\ chip.wel THEN [chip EXCEPT !.link = "8D8D8D", !.wel = FALSE] ELSE chip
  /\ obj' = [obj EXCEPT !.link = "8D8D8D"]
  /\ Goto("ready")
  /\ UNCHANGED <<mem, k, call, result, before, target>>
-----------------------------------------------------------------------------
Enter(c, asks) ==
  /\ pc = "ready"
  /\ call' = c
  /\ before' = mem /\ target' = asks
  /\ result' = "none" /\ Goto("loop")
  /\ UNCHANGED <<chip, mem, obj, k>>

Programmed(cells, first, data) ==
  [a \in Addresses |-> IF a \in first .. first + Len(data) - 1 /\ data[a - first + 1] = 0
                       THEN 0 ELSE cells[a]]

Write(w) ==
  Enter([op |-> "write", addr |-> w.addr, data |-> w.data, size |-> 0,
         aligned |-> w.addr % PageSize = 0],
        Programmed(mem, w.addr, w.data))

EraseSector(e) ==
  Enter([op |-> "sector", addr |-> e.addr, data |-> << >>, size |-> e.size, aligned |-> TRUE],
        [a \in Addresses |-> IF a \in e.addr .. e.addr + e.size - 1 THEN 1 ELSE mem[a]])

EraseChip ==
  Enter([op |-> "chip", addr |-> 0, data |-> << >>, size |-> 1, aligned |-> TRUE],
        [a \in Addresses |-> 1])

Return(rc) == result' = rc /\ Goto("ready") /\ call' = NoCall

(* Only whole sectors are erased: those before one that is not, are.       *)
Refused(c) == c.op = "sector" /\ (c.size < SectorSize \/ c.addr % SectorSize # 0)

(* The head of the loop of a call: its end, an error, or one more piece.   *)
Loop ==
  /\ pc = "loop"
  /\ LET done == IF call.op = "write" THEN call.data = << >> ELSE call.size = 0
     IN \/ done /\ call.op = "write" /\ Goto("flush") /\ UNCHANGED <<call, result>>
        \/ done /\ call.op # "write" /\ Return("OK")
        \/ ~done /\ Refused(call) /\ Return("ERROR")
        \/ ~done /\ ~Refused(call) /\ Goto("wait") /\ UNCHANGED <<call, result>>
  /\ UNCHANGED <<chip, mem, obj, k, before, target>>

(* NORFlash_WaitBusy polls the status for ever: it takes a chip on the     *)
(* driver's link to end it.                                                *)
WaitBusy ==
  /\ pc \in {"wait", "erasing", "flush"} /\ Hears
  /\ \/ pc = "wait" /\ Goto("enable") /\ UNCHANGED <<call, result>>
     \/ pc = "flush" /\ Return("OK")
     \/ /\ pc = "erasing"
        /\ call' = IF call.op = "chip" THEN [call EXCEPT !.size = 0]
                   ELSE [call EXCEPT !.addr = @ + SectorSize, !.size = @ - SectorSize]
        /\ Goto("loop") /\ UNCHANGED result
  /\ UNCHANGED <<chip, mem, obj, k, before, target>>

(* NORFlash_EnableWrite: 0x06, and the latch is polled for ever.           *)
EnableWrite ==
  /\ pc = "enable" /\ Hears
  /\ chip' = [chip EXCEPT !.wel = TRUE]
  /\ Goto(IF call.op = "write" THEN "program" ELSE "erase")
  /\ UNCHANGED <<mem, obj, k, call, result, before, target>>

Least(a, b) == IF a < b THEN a ELSE b

(* Fault: pieces are a page long wherever they begin.                      *)
WriteSize_WholePages(c) == Least(Len(c.data), PageSize)

WriteSize(c) ==
  Least(Len(c.data), IF c.aligned THEN PageSize ELSE PageSize - (c.addr % PageSize))

(* The chip's page program: the address wraps within the page.             *)
PageProgram(addr, data) ==
  LET page == addr - (addr % PageSize)
      cell(i) == page + ((addr + i - 1) % PageSize)
  IN [a \in {cell(i) : i \in 1 .. Len(data)} |->
        IF \E i \in 1 .. Len(data) : cell(i) = a /\ data[i] = 0 THEN 0 ELSE mem[a]]

Starts(op) == chip' = IF Hears /\ chip.wel THEN [chip EXCEPT !.op = op] ELSE chip

ProgramPage ==
  LET n == WriteSize(call)
  IN /\ pc = "program"
     /\ Starts(PageProgram(call.addr, SubSeq(call.data, 1, n)))
     /\ call' = [call EXCEPT !.addr = @ + n, !.aligned = TRUE,
                             !.data = SubSeq(@, n + 1, Len(@))]
     /\ Goto("loop")
     /\ UNCHANGED <<mem, obj, k, result, before, target>>

Erase ==
  /\ pc = "erase"
  /\ LET erased == IF call.op = "chip" THEN Addresses
                   ELSE call.addr .. call.addr + SectorSize - 1
     IN Starts([a \in erased |-> 1])
  /\ Goto("erasing")
  /\ UNCHANGED <<mem, obj, k, call, result, before, target>>

Init(id, link, prompt) ==
  /\ chip = [id |-> id, link |-> link, prompt |-> prompt, wel |-> FALSE, ready |-> TRUE,
             op |-> NoOp]
  /\ mem \in Contents
  /\ obj = Object /\ pc = "init" /\ k = 1 /\ call = NoCall /\ result = "none"
  /\ before = mem /\ target = mem

Driver == XspiInit \/ Reset \/ ReadId \/ ReadCr2 \/ EnableDtr \/ Loop \/ WaitBusy
          \/ EnableWrite \/ ProgramPage \/ Erase
=============================================================================
