--------------------------- MODULE FsblBootProofs ---------------------------
(***************************************************************************)
(* Two results, for every size of the flash, every content, every call and *)
(* any number of resets.  The jump of the boot loader reads the image when *)
(* NORFlash_Init returned OK, which it does with a chip ready in time: the *)
(* three resets of NORFlash_Reset bring the chip to one line from wherever *)
(* it was, and from there driver and chip change link together.  The cells *)
(* hold what they held before the last call or what it asks for: a piece   *)
(* stays within its page, and what the chip is changing, what the call     *)
(* has still to start and what is done make up all that it asks for.       *)
(***************************************************************************)
EXTENDS FsblBoot, TLAPS, SequenceTheorems

(* Chip and object are the records they began as.                          *)
Shapes ==
  /\ chip = [id |-> chip.id, link |-> chip.link, prompt |-> chip.prompt, wel |-> chip.wel,
              ready |-> chip.ready, op |-> chip.op]
  /\ chip.ready \in BOOLEAN /\ chip.prompt \in BOOLEAN
  /\ chip.link \in {"1S1S1S", "8D8D8D"}
  /\ obj = [link |-> obj.link, table |-> obj.table]
  /\ k \in 1 .. 4

Quiet == chip.op = NoOp

(* A chip that is not ready yet was reset, and does nothing.               *)
Recovering == ~chip.ready => chip.link = "1S1S1S" /\ Quiet /\ ~chip.prompt

(* In NORFlash_Reset: a chip that is on one line has just been reset, and  *)
(* after the third pair the chip is on one line.                           *)
Resetting ==
  pc = "reset" /\ chip.id = MX25UM25645G =>
    /\ k > 1 /\ chip.link = "1S1S1S" => Quiet
    /\ k > 3 => chip.link = "1S1S1S"

(* In the rest of NORFlash_Init: both are on one line.                     *)
Identifying ==
  /\ pc \in {"id", "cr2", "dtr"} =>
       /\ obj.link = "1S1S1S"
       /\ chip.id = MX25UM25645G => chip.link = "1S1S1S" /\ Quiet
  /\ pc \in {"cr2", "dtr"} => chip.id = MX25UM25645G /\ chip.ready /\ obj.table = TRUE
  /\ pc = "dtr" => chip.wel = TRUE
  /\ pc = "failed" => chip.id # MX25UM25645G \/ ~chip.prompt

(* Afterwards: both are on the octal link.                                 *)
Octal == /\ chip.id = MX25UM25645G /\ chip.link = "8D8D8D"
         /\ obj.link = "8D8D8D" /\ obj.table = TRUE

(* Between calls the chip is not busy: every call waits for it at its end, *)
(* an erase after every sector.                                            *)
Working ==
  /\ pc \in {"ready", "loop", "wait", "enable", "program", "erase", "erasing", "flush"}
       => Octal
  /\ pc = "ready" => Quiet
  /\ pc = "program" => call.op = "write"
  /\ pc = "loop" /\ call.op # "write" => Quiet

Mapped ==
  pc \in {"mapped", "jumped"} /\ (mapped.ok \/ (chip.id = MX25UM25645G /\ chip.prompt)) =>
    /\ Octal /\ Quiet
    /\ mapped.on = TRUE /\ mapped.link = "8D8D8D" /\ mapped.command = TRUE

BootInv == Shapes /\ Recovering /\ Resetting /\ Identifying /\ Working /\ Mapped

(* The table of NORFlash_Reset.                                            *)
LEMMA ThreeLinks ==
  /\ Len(PhyLinkTable) = 3
  /\ PhyLinkTable[1] = "1S1S1S" /\ PhyLinkTable[2] = "4S4S4S"
  /\ PhyLinkTable[3] = "8D8D8D"
  BY DEF PhyLinkTable

(* The driver and the chip start anywhere the chip may be.                 *)
LEMMA BootInitInv == BootInit => BootInv
  BY DEF BootInit, Init, BootInv, Shapes, Recovering, Resetting, Identifying, Working, Mapped, Object

(* A reset chip is on one line and not busy.                               *)
LEMMA ChipAfterReset ==
  ASSUME Shapes, NEW ready \in BOOLEAN, ChipResets(ready)
  PROVE  /\ chip' = [id |-> chip.id, link |-> "1S1S1S", prompt |-> chip.prompt, wel |-> FALSE,
                     ready |-> ready, op |-> NoOp]
         /\ ready \/ ~chip.prompt
<1>1. /\ chip' = [chip EXCEPT !.link = "1S1S1S", !.wel = FALSE, !.op = NoOp, !.ready = ready]
      /\ ready \/ ~chip.prompt
  BY DEF ChipResets
<1> QED  BY <1>1 DEF Shapes

(* A chip that begins an operation keeps its link.                         *)
LEMMA ChipKeepsLink ==
  ASSUME Shapes, NEW op, Starts(op)
  PROVE  chip' = [id |-> chip.id, link |-> chip.link, prompt |-> chip.prompt, wel |-> chip.wel,
                 ready |-> chip.ready, op |-> chip'.op]
<1>1. chip' = [chip EXCEPT !.op = op] \/ chip' = chip
  BY DEF Starts
<1> QED  BY <1>1 DEF Shapes

USE DEF BootInv, Shapes, Recovering, Resetting, Identifying, Working, Mapped, Octal, Quiet, Goto

(* NORFlash_Init keeps the invariant.                                      *)
LEMMA InitialisationKeeps ==
  ASSUME BootInv, UNCHANGED mapped,
         XspiInit \/ Reset \/ ReadId \/ ReadCr2 \/ EnableDtr
  PROVE  BootInv'
<1>1. CASE XspiInit
  BY <1>1 DEF XspiInit
<1>2. CASE Reset
  <2>1. CASE k > 3
    BY <1>2, <2>1, ThreeLinks DEF Reset
  <2>2. CASE k \in 1 .. 3 /\ HearsReset(PhyLinkTable[k])
    <3>1. PICK ready \in BOOLEAN : ChipResets(ready)
      BY <1>2, <2>2, ThreeLinks DEF Reset
    <3>2. /\ chip' = [id |-> chip.id, link |-> "1S1S1S", prompt |-> chip.prompt, wel |-> FALSE,
                      ready |-> ready, op |-> NoOp]
          /\ ready \/ ~chip.prompt
      BY <3>1, ChipAfterReset
    <3>3. k' = k + 1 /\ pc' = pc /\ pc = "reset"
          /\ obj' = [obj EXCEPT !.link = PhyLinkTable[k]]
      BY <1>2, <2>2, ThreeLinks DEF Reset
    <3> QED  BY <2>2, <3>2, <3>3 DEF HearsReset
  <2>3. CASE k \in 1 .. 3 /\ ~HearsReset(PhyLinkTable[k])
    <3>1. UNCHANGED chip /\ k' = k + 1 /\ pc' = pc /\ pc = "reset"
          /\ obj' = [obj EXCEPT !.link = PhyLinkTable[k]]
      BY <1>2, <2>3, ThreeLinks DEF Reset
    <3>2. CASE k = 1
      BY <2>3, <3>1, <3>2, ThreeLinks DEF HearsReset
    <3>3. CASE k = 2
      BY <2>3, <3>1, <3>3, ThreeLinks DEF HearsReset
    <3>4. CASE k = 3
      BY <2>3, <3>1, <3>4, ThreeLinks DEF HearsReset
    <3>5. k = 1 \/ k = 2 \/ k = 3
      BY <2>3
    <3> QED  BY <3>2, <3>3, <3>4, <3>5
  <2>4. k > 3 \/ k \in 1 .. 3
    OBVIOUS
  <2> QED  BY <2>1, <2>2, <2>3, <2>4
<1>3. CASE ReadId
  BY <1>3 DEF ReadId, Hears, OnLink, Busy
<1>4. CASE ReadCr2
  BY <1>4 DEF ReadCr2, Hears, OnLink, Busy
<1>5. CASE EnableDtr
  BY <1>5 DEF EnableDtr, Hears, OnLink, Busy
<1> QED  BY <1>1, <1>2, <1>3, <1>4, <1>5

(* A write or an erase keeps it, from its call to its return.              *)
LEMMA CallKeeps ==
  ASSUME BootInv, UNCHANGED mapped,
         Loop \/ WaitBusy \/ EnableWrite \/ ProgramPage \/ Erase
  PROVE  BootInv'
<1>1. CASE Loop
  <2>1. pc = "loop" /\ UNCHANGED <<chip, obj, k, mapped>>
    BY <1>1 DEF Loop
  <2>2. \/ pc' = "flush" \/ pc' = "wait"
        \/ pc' = "ready" /\ call.op # "write"
    BY <1>1 DEF Loop, Return, Refused
  <2> QED  BY <2>1, <2>2
<1>2. CASE WaitBusy
  <2>1. Quiet /\ Octal
    BY <1>2 DEF WaitBusy, Hears, Busy
  <2> QED  BY <1>2, <2>1 DEF WaitBusy, Return
<1>3. CASE EnableWrite
  BY <1>3 DEF EnableWrite
<1>4. CASE ProgramPage
  <2>1. PICK op : Starts(op)
    BY <1>4 DEF ProgramPage
  <2>2. pc = "program" /\ pc' = "loop" /\ UNCHANGED <<obj, k, mapped>>
        /\ call'.op = call.op
    BY <1>4 DEF ProgramPage
  <2> QED  BY <2>1, <2>2, ChipKeepsLink
<1>5. CASE Erase
  BY <1>5 DEF Erase, Starts
<1> QED  BY <1>1, <1>2, <1>3, <1>4, <1>5

(* Calling the driver, mapping, the jump, the chip, and resets keep it.    *)
LEMMA OthersKeep ==
  ASSUME BootInv, UseFlash \/ Map \/ Jump \/ Chip \/ McuReset \/ PowerLoss
  PROVE  BootInv'
<1>1. CASE UseFlash
  <2>1. pc = "ready" /\ pc' = "loop" /\ UNCHANGED <<chip, obj, k, mapped>>
    BY <1>1 DEF UseFlash, Write, EraseSector, EraseChip, Enter
  <2> QED  BY <2>1
<1>2. CASE Map
  BY <1>2 DEF Map
<1>3. CASE Jump
  BY <1>3 DEF Jump
<1>4. CASE ChipDone /\ UNCHANGED <<mapped, calls, resets>>
  <2>1. ~Quiet /\ UNCHANGED <<obj, pc, k, call, mapped>>
        /\ chip' = [chip EXCEPT !.op = NoOp, !.wel = FALSE]
    BY <1>4 DEF ChipDone, Busy
  <2>2. chip' = [id |-> chip.id, link |-> chip.link, prompt |-> chip.prompt, wel |-> FALSE,
                 ready |-> chip.ready, op |-> NoOp]
    BY <2>1
  <2> QED  BY <2>1, <2>2
<1>5. CASE McuReset
  BY <1>5 DEF McuReset, Restart, Object
<1>6. CASE PowerLoss
  <2>1. chip' = [id |-> chip.id, link |-> "1S1S1S", prompt |-> chip.prompt, wel |-> FALSE, ready |-> TRUE, op |-> NoOp]
    BY <1>6, ChipAfterReset DEF PowerLoss
  <2>2. obj' = [link |-> "1S1S1S", table |-> FALSE] /\ pc' = "init" /\ k' = 1
    BY <1>6 DEF PowerLoss, Restart, Object
  <2> QED  BY <2>1, <2>2
<1>7. CASE ChipReady /\ UNCHANGED <<mapped, calls, resets>>
  <2>1. ~chip.ready /\ chip' = [chip EXCEPT !.ready = TRUE] /\ UNCHANGED <<obj, pc, k, call, mapped>>
    BY <1>7 DEF ChipReady
  <2>2. chip' = [id |-> chip.id, link |-> chip.link, prompt |-> chip.prompt, wel |-> chip.wel,
                 ready |-> TRUE, op |-> chip.op]
    BY <2>1
  <2> QED  BY <2>1, <2>2
<1> QED  BY <1>1, <1>2, <1>3, <1>4, <1>5, <1>6, <1>7 DEF Chip

(* The inductive invariant: from the first reset command on, driver and    *)
(* chip speak the same link.                                               *)
THEOREM BootInvariance == Spec => []BootInv
<1>1. BootInv /\ [Next]_vars => BootInv'
  <2> SUFFICES ASSUME BootInv, [Next]_vars PROVE BootInv'
    OBVIOUS
  <2>1. CASE Fsbl
    BY <2>1, InitialisationKeeps, CallKeeps, OthersKeep DEF Fsbl, Driver
  <2>2. CASE Chip \/ UseFlash \/ McuReset \/ PowerLoss
    BY <2>2, OthersKeep
  <2>3. CASE UNCHANGED vars
    BY <2>3 DEF vars, norVars
  <2> QED  BY <2>1, <2>2, <2>3 DEF Next
<1> HIDE DEF BootInv
<1> QED  BY BootInitInv, <1>1, PTL DEF Spec

(* What NORFlash_Init returned is so: after OK the jump reads the image,   *)
(* however long the chip takes after a reset (main, BOOT_Application).     *)
THEOREM JumpIsKnown == Spec => []JumpKnown
<1>1. BootInv => JumpKnown
  BY DEF JumpKnown, CanRead, Hears, OnLink, Busy
<1> HIDE DEF BootInv
<1> QED  BY BootInvariance, <1>1, PTL

(* With the chip of the board, ready in time, the jump always reads the    *)
(* image, whatever state a reset of the MCU left the chip in               *)
(* (NORFlash_Reset, BOOT_Application).                                     *)
THEOREM JumpIsSafe == Spec => []JumpReadsImage
<1>1. BootInv => JumpReadsImage
  BY DEF JumpReadsImage, CanRead, Hears, OnLink, Busy
<1> HIDE DEF BootInv
<1> QED  BY BootInvariance, <1>1, PTL
-----------------------------------------------------------------------------
HIDE DEF BootInv, Shapes, Recovering, Resetting, Identifying, Working, Mapped, Octal, Quiet, Goto

(* What a call has asked for and what is left of it.                       *)
Bits == {0, 1}
CallType == [op : {"none", "write", "sector", "chip"}, addr : Nat, data : Seq(Bits),
             size : Nat, aligned : BOOLEAN]
InCall == pc \in {"loop", "wait", "enable", "program", "erase", "erasing", "flush"}
Asked  == pc \in {"wait", "enable", "program", "erase", "erasing"}

FlashTypes ==
  /\ mem \in [Addresses -> Bits] /\ before \in [Addresses -> Bits]
  /\ target \in [Addresses -> Bits] /\ call \in CallType
  /\ DOMAIN chip.op \subseteq Addresses

(* Every call in its piece: where it is in the flash, and what the cells   *)
(* still to come shall be.                                                 *)
WriteCall ==
  /\ call.addr + Len(call.data) <= FlashSize
  /\ call.aligned /\ call.data # << >> => call.addr % PageSize = 0
  /\ \A i \in 1 .. Len(call.data) :
       target[call.addr + i - 1] = IF call.data[i] = 0 THEN 0 ELSE before[call.addr + i - 1]
  /\ Asked => call.data # << >>
  /\ pc = "flush" => call.data = << >>
SectorCall ==
  /\ call.addr + call.size <= FlashSize
  /\ \A a \in call.addr .. call.addr + call.size - 1 : target[a] = 1
  /\ Asked => call.size >= SectorSize
ChipCall ==
  /\ \A a \in Addresses : target[a] = 1
  /\ call.size \in {0, 1}
CallKnown ==
  InCall =>
    /\ result = "none"
    /\ call.op \in {"write", "sector", "chip"}
    /\ call.op = "write" => WriteCall
    /\ call.op = "sector" => SectorCall
    /\ call.op = "chip" => ChipCall
    /\ pc \in {"program", "flush"} => call.op = "write"
    /\ pc \in {"erase", "erasing"} => call.op # "write"
    /\ pc \in {"program", "erase"} => ~Busy /\ chip.wel = TRUE

(* The cells that no operation of the call has been started for.           *)
Todo ==
  IF call.op = "chip" THEN IF call.size = 0 \/ pc = "erasing" THEN {} ELSE Addresses
  ELSE IF call.op = "write" THEN call.addr .. call.addr + Len(call.data) - 1
  ELSE IF pc = "erasing" THEN call.addr + SectorSize .. call.addr + call.size - 1
  ELSE call.addr .. call.addr + call.size - 1

Content ==
  /\ \A a \in Addresses : mem[a] \in {before[a], target[a]}
  /\ \A a \in DOMAIN chip.op : chip.op[a] = target[a]
  /\ InCall => \A a \in Addresses : a \in Todo \/ a \in DOMAIN chip.op \/ mem[a] = target[a]
  /\ result = "OK" => ~Busy /\ mem = target

FlashInv == FlashTypes /\ CallKnown /\ Content

(* The sizes of the flash are positive.                                    *)
LEMMA FlashSizes ==
  /\ PageSize \in Nat \ {0} /\ SectorSize \in Nat \ {0} /\ FlashSize \in Nat \ {0}
  /\ Addresses = 0 .. FlashSize - 1
BY FlashAssumption DEF Addresses

(* The chip's page program of a piece that stays within its page writes    *)
(* the piece, cell by cell.                                                *)
LEMMA PageIs ==
  ASSUME NEW addr \in Nat, NEW data \in Seq(Bits),
         (addr % PageSize) + Len(data) <= PageSize
  PROVE  LET op == PageProgram(addr, data)
         IN  /\ DOMAIN op = addr .. addr + Len(data) - 1
             /\ \A a \in DOMAIN op : op[a] = IF data[a - addr + 1] = 0 THEN 0 ELSE mem[a]
<1> DEFINE page == addr - (addr % PageSize)
           cell(i) == page + ((addr + i - 1) % PageSize)
           op == PageProgram(addr, data)
           n == Len(data)
<1>1. /\ PageSize \in Nat \ {0} /\ n \in Nat
      /\ \A x \in Nat : x \div PageSize \in Nat /\ x % PageSize \in Nat /\ x % PageSize < PageSize
  BY FlashSizes, LenProperties
<1>2. \A x \in Nat : x - PageSize * (x \div PageSize) = x % PageSize
  BY <1>1
<1>3. \A x, q, r \in Nat : r < PageSize /\ x = q * PageSize + r => x % PageSize = r
  BY <1>1
<1>4. ASSUME NEW i \in 1 .. n
      PROVE  cell(i) = addr + i - 1
  <2> DEFINE q == addr \div PageSize
             r == addr % PageSize
  <2>1. q \in Nat /\ r \in Nat /\ addr - PageSize * q = r
    BY <1>1, <1>2
  <2>2. r + n <= PageSize
    OBVIOUS
  <2>3. cell(i) = addr - r + ((addr + i - 1) % PageSize)
    OBVIOUS
  <2> HIDE DEF q, r, cell, n
  <2>4. PageSize * q \in Nat /\ PageSize * q = q * PageSize
    BY <1>1, <2>1
  <2>5. addr + i - 1 = q * PageSize + (r + i - 1) /\ r + i - 1 \in Nat /\ addr + i - 1 \in Nat
        /\ r + i - 1 < PageSize
    BY <1>1, <2>1, <2>2, <2>4
  <2>6. (addr + i - 1) % PageSize = r + i - 1
    BY <1>3, <2>1, <2>5
  <2> QED
    BY <1>1, <2>1, <2>3, <2>6
<1>5. op = [a \in {cell(i) : i \in 1 .. n} |->
              IF \E i \in 1 .. n : cell(i) = a /\ data[i] = 0 THEN 0 ELSE mem[a]]
  BY DEF PageProgram
<1> HIDE DEF cell, op, n
<1>6. {cell(i) : i \in 1 .. n} = addr .. addr + n - 1
  <2>1. ASSUME NEW i \in 1 .. n
        PROVE  cell(i) \in addr .. addr + n - 1
    <3>1. addr + i - 1 \in addr .. addr + n - 1
      BY <1>1
    <3> QED
      BY <1>4, <3>1
  <2>2. ASSUME NEW a \in addr .. addr + n - 1
        PROVE  \E i \in 1 .. n : cell(i) = a
    <3>1. a - addr + 1 \in 1 .. n /\ addr + (a - addr + 1) - 1 = a
      BY <1>1
    <3>2. cell(a - addr + 1) = a
      BY <1>4, <3>1
    <3> QED
      BY <3>1, <3>2
  <2> QED
    BY <2>1, <2>2
<1>7. ASSUME NEW a \in addr .. addr + n - 1
      PROVE  op[a] = IF data[a - addr + 1] = 0 THEN 0 ELSE mem[a]
  <2>1. a - addr + 1 \in 1 .. n /\ cell(a - addr + 1) = a
    <3>1. a - addr + 1 \in 1 .. n /\ addr + (a - addr + 1) - 1 = a
      BY <1>1
    <3> QED
      BY <1>4, <3>1
  <2>2. ASSUME NEW i \in 1 .. n, cell(i) = a
        PROVE  i = a - addr + 1
    BY <1>1, <1>4, <2>2
  <2>3. op[a] = IF \E i \in 1 .. n : cell(i) = a /\ data[i] = 0 THEN 0 ELSE mem[a]
    BY <1>5, <1>6
  <2> QED
    BY <2>1, <2>2, <2>3
<1> QED
  BY <1>5, <1>6, <1>7 DEF n, op

(* The piece that ProgramPage takes stays within its page.                 *)
LEMMA PieceFits ==
  ASSUME FlashTypes, WriteCall, call.data # << >>
  PROVE  LET n == WriteSize(call)
         IN  /\ n \in 1 .. Len(call.data)
             /\ (call.addr % PageSize) + n <= PageSize
             /\ n < Len(call.data) => (call.addr + n) % PageSize = 0
<1> DEFINE r == call.addr % PageSize
           q == call.addr \div PageSize
           n == WriteSize(call)
<1>1. /\ PageSize \in Nat \ {0} /\ call.addr \in Nat /\ call.data \in Seq(Bits)
      /\ Len(call.data) \in Nat /\ Len(call.data) >= 1 /\ call.aligned \in BOOLEAN
  BY FlashSizes, LenProperties, EmptySeq DEF FlashTypes, CallType
<1>2. r \in Nat /\ r < PageSize /\ q \in Nat /\ call.addr - PageSize * q = r
  BY <1>1
<1>3. call.aligned => r = 0
  BY DEF WriteCall
<1>4. n = Least(Len(call.data), IF call.aligned THEN PageSize ELSE PageSize - r)
  BY DEF WriteSize
<1> HIDE DEF r, q
<1>5. n = Least(Len(call.data), PageSize - r)
  BY <1>1, <1>3, <1>4
<1> HIDE DEF n
<1>6. n \in 1 .. Len(call.data) /\ r + n <= PageSize
      /\ (n < Len(call.data) => r + n = PageSize)
  BY <1>1, <1>2, <1>5 DEF Least
<1>7. ASSUME n < Len(call.data)
      PROVE  (call.addr + n) % PageSize = 0
  <2>1. PageSize * q \in Nat /\ (q + 1) * PageSize = PageSize * q + PageSize
    BY <1>1, <1>2
  <2>2. call.addr + n = (q + 1) * PageSize + 0 /\ call.addr + n \in Nat
    BY <1>1, <1>2, <1>6, <1>7, <2>1
  <2>3. \A x, p, s \in Nat : s < PageSize /\ x = p * PageSize + s => x % PageSize = s
    BY <1>1
  <2> QED
    BY <1>1, <1>2, <2>2, <2>3
<1> QED
  BY <1>6, <1>7 DEF n, r

(* At the start nothing has been asked for.                                *)
LEMMA FlashInit == BootInit => FlashInv
<1> SUFFICES ASSUME BootInit
             PROVE  FlashInv
  OBVIOUS
<1>1. /\ mem \in [Addresses -> Bits] /\ before = mem /\ target = mem /\ result = "none"
      /\ call = NoCall /\ pc = "init" /\ chip.op = NoOp
  BY FlashAssumption DEF BootInit, Init, Addresses, Bits
<1>2. call \in CallType
  BY <1>1, EmptySeq DEF NoCall, CallType
<1>3. DOMAIN chip.op = {}
  BY <1>1 DEF NoOp
<1>4. FlashTypes
  BY <1>1, <1>2, <1>3 DEF FlashTypes
<1>5. CallKnown /\ Content
  BY <1>1, <1>3 DEF CallKnown, Content, InCall
<1> QED
  BY <1>4, <1>5 DEF FlashInv

(* A chip that is not busy changes no cell.                                *)
LEMMA QuietChip == ~Busy => DOMAIN chip.op = {}
BY DEF Busy, NoOp

(* The chip ends what it does.                                             *)
LEMMA ChipDoneKeeps ==
  ASSUME BootInv, FlashInv, ChipDone
  PROVE  FlashInv'
<1>1. /\ Busy /\ mem' = Apply(mem, chip.op) /\ chip'.op = NoOp
      /\ UNCHANGED <<pc, call, result, before, target>>
  BY DEF ChipDone, BootInv, Shapes
<1>2. DOMAIN chip'.op = {} /\ ~Busy'
  BY <1>1 DEF NoOp, Busy
<1>3. \A a \in Addresses : mem'[a] = IF a \in DOMAIN chip.op THEN target[a] ELSE mem[a]
  BY <1>1 DEF Apply, FlashInv, Content
<1>4. mem' \in [Addresses -> Bits]
  <2>1. \A a \in Addresses : mem'[a] \in Bits
    BY <1>3 DEF FlashInv, FlashTypes
  <2> QED
    BY <1>1, <2>1 DEF Apply
<1>5. FlashTypes'
  BY <1>1, <1>2, <1>4 DEF FlashInv, FlashTypes
<1>6. Todo' = Todo /\ (InCall' <=> InCall)
  BY <1>1 DEF Todo, InCall
<1>7. CallKnown'
  <2>1. pc \in {"program", "erase"} => FALSE
    BY <1>1 DEF FlashInv, CallKnown, InCall
  <2> QED
    BY <1>1, <1>6, <2>1 DEF FlashInv, CallKnown, WriteCall, SectorCall, ChipCall, Asked
<1>8. Content'
  <2>1. \A a \in Addresses : mem'[a] \in {before[a], target[a]}
    BY <1>3 DEF FlashInv, Content
  <2>2. InCall => \A a \in Addresses : a \in Todo \/ mem'[a] = target[a]
    BY <1>3 DEF FlashInv, Content
  <2>3. result # "OK"
    BY <1>1 DEF FlashInv, Content
  <2> QED
    BY <1>1, <1>2, <1>6, <2>1, <2>2, <2>3 DEF Content
<1> QED
  BY <1>5, <1>7, <1>8 DEF FlashInv

(* A chip that is reset has changed some of the cells.                     *)
LEMMA ResetKeeps ==
  ASSUME BootInv, FlashInv, NEW ready \in BOOLEAN, ChipResets(ready), ~InCall',
         call' = call \/ call' = NoCall, result' = result \/ result' = "none",
         UNCHANGED <<before, target>>
  PROVE  FlashInv'
<1>1. PICK S \in SUBSET DOMAIN chip.op :
        mem' = [a \in Addresses |-> IF a \in S THEN chip.op[a] ELSE mem[a]]
  BY DEF ChipResets
<1>2. chip'.op = NoOp
  BY ChipAfterReset DEF BootInv
<1>3. DOMAIN chip'.op = {} /\ ~Busy'
  BY <1>2 DEF NoOp, Busy
<1>4. \A a \in Addresses : mem'[a] = IF a \in S THEN target[a] ELSE mem[a]
  BY <1>1 DEF FlashInv, Content
<1>5. mem' \in [Addresses -> Bits]
  <2>1. \A a \in Addresses : mem'[a] \in Bits
    BY <1>4 DEF FlashInv, FlashTypes
  <2> QED
    BY <1>1, <2>1
<1>6. NoCall \in CallType
  BY EmptySeq DEF NoCall, CallType
<1>7. FlashTypes'
  BY <1>3, <1>5, <1>6 DEF FlashInv, FlashTypes
<1>8. CallKnown'
  BY DEF CallKnown
<1>9. Content'
  <2>1. \A a \in Addresses : mem'[a] \in {before[a], target[a]}
    BY <1>4 DEF FlashInv, Content
  <2>2. result' = "OK" => mem' = target
    <3> SUFFICES ASSUME result = "OK"
                 PROVE  mem' = target
      OBVIOUS
    <3>1. mem = target
      BY DEF FlashInv, Content
    <3>2. \A a \in Addresses : mem'[a] = target[a]
      BY <1>4, <3>1
    <3> QED
      BY <1>1, <3>2 DEF FlashInv, FlashTypes
  <2> QED
    BY <1>3, <2>1, <2>2 DEF Content
<1> QED
  BY <1>7, <1>8, <1>9 DEF FlashInv

(* Outside the calls: cells, calls and history stay.                       *)
LEMMA OutsideKeeps ==
  ASSUME FlashInv, UNCHANGED <<mem, before, target>>, chip'.op = chip.op, ~InCall',
         call' = call \/ call' = NoCall, result' = result \/ result' = "none"
  PROVE  FlashInv'
<1>1. NoCall \in CallType
  BY EmptySeq DEF NoCall, CallType
<1>2. FlashTypes'
  BY <1>1 DEF FlashInv, FlashTypes
<1>3. CallKnown'
  BY DEF CallKnown
<1>4. Content'
  BY DEF FlashInv, Content, Busy
<1> QED
  BY <1>2, <1>3, <1>4 DEF FlashInv

(* The driver's initialisation and the mapping.                            *)
LEMMA FlashInitialisation ==
  ASSUME BootInv, FlashInv, XspiInit \/ Reset \/ ReadId \/ ReadCr2 \/ EnableDtr \/ Map \/ Jump
  PROVE  FlashInv'
<1>1. CASE Reset
  <2>1. pc = "reset" /\ pc' \in {"reset", "id"} /\ UNCHANGED <<call, result, before, target>>
        /\ ((\E ready \in BOOLEAN : ChipResets(ready)) \/ UNCHANGED <<chip, mem>>)
    BY <1>1 DEF Reset, Goto
  <2>2. ~InCall'
    BY <2>1 DEF InCall
  <2> QED
    BY <2>1, <2>2, ResetKeeps, OutsideKeeps
<1>2. ASSUME XspiInit \/ ReadId \/ ReadCr2 \/ EnableDtr \/ Map \/ Jump
      PROVE  FlashInv'
  <2>1. /\ pc' \in {"reset", "cr2", "failed", "dtr", "ready", "mapped", "jumped"}
        /\ UNCHANGED <<mem, call, result, before, target>>
    BY <1>2 DEF XspiInit, ReadId, ReadCr2, EnableDtr, Map, Jump, Goto
  <2>2. chip'.op = chip.op
    BY <1>2 DEF XspiInit, ReadId, ReadCr2, EnableDtr, Map, Jump, BootInv, Shapes
  <2>3. ~InCall'
    BY <2>1 DEF InCall
  <2> QED
    BY <2>1, <2>2, <2>3, OutsideKeeps
<1> QED
  BY <1>1, <1>2

(* A reset of the MCU, with or without the chip.                           *)
LEMMA FlashRestart ==
  ASSUME BootInv, FlashInv, McuReset \/ PowerLoss
  PROVE  FlashInv'
<1>1. pc' = "init" /\ call' = NoCall /\ result' = "none" /\ UNCHANGED <<before, target>>
  BY DEF McuReset, PowerLoss, Restart
<1>2. ~InCall'
  BY <1>1 DEF InCall
<1>3. ChipResets(TRUE) \/ UNCHANGED <<chip, mem>>
  BY DEF McuReset, PowerLoss
<1> QED
  BY <1>1, <1>2, <1>3, ResetKeeps, OutsideKeeps

(* A call of NORFlash_Write, NORFlash_EraseSector or NORFlash_EraseChip    *)
(* begins on a chip that is not busy.                                      *)
LEMMA CallBegins ==
  ASSUME BootInv, FlashInv, UseFlash
  PROVE  FlashInv'
<1>1. /\ pc = "ready" /\ pc' = "loop" /\ ~Busy /\ ~Busy' /\ DOMAIN chip'.op = {}
      /\ before' = mem /\ mem' = mem /\ result' = "none" /\ chip' = chip
  <2>1. /\ pc = "ready" /\ pc' = "loop" /\ before' = mem /\ mem' = mem /\ result' = "none"
        /\ chip' = chip
    BY DEF UseFlash, Write, EraseSector, EraseChip, Enter, Goto
  <2>2. ~Busy
    BY <2>1 DEF BootInv, Working, Quiet, Busy
  <2> QED
    BY <2>1, <2>2, QuietChip DEF Busy
<1>2. InCall' /\ ~Asked'
  BY <1>1 DEF InCall, Asked
<1>3. mem \in [Addresses -> Bits]
  BY DEF FlashInv, FlashTypes
(* What a call has to ask for.                                             *)
<1>4. ASSUME call' \in CallType, target' \in [Addresses -> Bits],
             \A a \in Addresses : a \in Todo' \/ target'[a] = mem[a],
             call'.op \in {"write", "sector", "chip"},
             call'.op = "write" => WriteCall',
             call'.op = "sector" => SectorCall',
             call'.op = "chip" => ChipCall'
      PROVE  FlashInv'
  <2>1. FlashTypes'
    BY <1>1, <1>3, <1>4 DEF FlashTypes
  <2>2. CallKnown'
    BY <1>1, <1>4 DEF CallKnown
  <2>3. Content'
    BY <1>1, <1>4 DEF Content
  <2> QED
    BY <2>1, <2>2, <2>3 DEF FlashInv
<1>5. ASSUME NEW w \in Writes, Write(w)
      PROVE  FlashInv'
  <2>1. /\ w.data \in Seq(Bits) /\ w.addr \in Nat /\ w.addr + Len(w.data) <= FlashSize
        /\ Len(w.data) \in Nat /\ FlashSize \in Nat
    BY FlashAssumption, LenProperties DEF Bits
  <2>2. /\ call' = [op |-> "write", addr |-> w.addr, data |-> w.data, size |-> 0,
                    aligned |-> w.addr % PageSize = 0]
        /\ target' = Programmed(mem, w.addr, w.data)
    BY <1>5 DEF Write, Enter
  <2>3. /\ call' \in CallType /\ call'.op = "write" /\ call'.addr = w.addr /\ call'.data = w.data
        /\ call'.aligned => w.addr % PageSize = 0
    <3>1. (w.addr % PageSize = 0) \in BOOLEAN
      OBVIOUS
    <3> QED
      BY <2>1, <2>2, <3>1 DEF CallType
  <2>4. \A a \in Addresses :
          target'[a] = IF a \in w.addr .. w.addr + Len(w.data) - 1 /\ w.data[a - w.addr + 1] = 0
                       THEN 0 ELSE mem[a]
    BY <2>2 DEF Programmed
  <2>5. target' \in [Addresses -> Bits]
    <3>1. \A a \in Addresses : target'[a] \in Bits
      BY <1>3, <2>4 DEF Bits
    <3> QED
      BY <2>2, <3>1 DEF Programmed
  <2>6. WriteCall'
    <3>1. ASSUME NEW i \in 1 .. Len(w.data)
          PROVE  target'[w.addr + i - 1] = IF w.data[i] = 0 THEN 0 ELSE before'[w.addr + i - 1]
      <4> DEFINE a == w.addr + i - 1
      <4>1. a \in Addresses /\ a \in w.addr .. w.addr + Len(w.data) - 1 /\ a - w.addr + 1 = i
        BY <2>1 DEF Addresses
      <4> HIDE DEF a
      <4>2. target'[a] = IF w.data[i] = 0 THEN 0 ELSE mem[a]
        BY <2>4, <4>1
      <4> QED
        BY <1>1, <4>2 DEF a
    <3>2. pc' # "flush"
      BY <1>1
    <3> QED
      BY <1>2, <2>1, <2>3, <3>1, <3>2 DEF WriteCall
  <2>7. Todo' = w.addr .. w.addr + Len(w.data) - 1
    BY <2>3 DEF Todo
  <2> QED
    BY <1>4, <2>3, <2>4, <2>5, <2>6, <2>7
<1>6. ASSUME NEW e \in Erases, EraseSector(e)
      PROVE  FlashInv'
  <2>1. e.addr \in Nat /\ e.size \in Nat /\ e.addr + e.size <= FlashSize /\ FlashSize \in Nat
    BY FlashAssumption
  <2>2. /\ call' = [op |-> "sector", addr |-> e.addr, data |-> << >>, size |-> e.size,
                    aligned |-> TRUE]
        /\ target' = [a \in Addresses |-> IF a \in e.addr .. e.addr + e.size - 1
                                          THEN 1 ELSE mem[a]]
    BY <1>6 DEF EraseSector, Enter
  <2>3. call' \in CallType /\ call'.op = "sector" /\ call'.addr = e.addr /\ call'.size = e.size
    BY <2>1, <2>2, EmptySeq DEF CallType
  <2>4. target' \in [Addresses -> Bits]
    BY <1>3, <2>2 DEF Bits
  <2>5. SectorCall'
    <3>1. \A a \in e.addr .. e.addr + e.size - 1 : a \in Addresses
      BY <2>1 DEF Addresses
    <3> QED
      BY <1>2, <2>1, <2>2, <2>3, <3>1 DEF SectorCall
  <2>6. Todo' = e.addr .. e.addr + e.size - 1
    BY <1>1, <2>3 DEF Todo
  <2> QED
    BY <1>4, <2>2, <2>3, <2>4, <2>5, <2>6
<1>7. CASE EraseChip
  <2>1. /\ call' = [op |-> "chip", addr |-> 0, data |-> << >>, size |-> 1, aligned |-> TRUE]
        /\ target' = [a \in Addresses |-> 1]
    BY <1>7 DEF EraseChip, Enter
  <2>2. call' \in CallType /\ call'.op = "chip" /\ call'.size = 1
    BY <2>1, EmptySeq DEF CallType
  <2>3. target' \in [Addresses -> Bits] /\ ChipCall'
    BY <2>1, <2>2 DEF Bits, ChipCall, Addresses
  <2>4. Todo' = Addresses
    BY <1>1, <2>2 DEF Todo, Addresses
  <2> QED
    BY <1>4, <2>2, <2>3, <2>4
<1> QED
  BY <1>5, <1>6, <1>7 DEF UseFlash

(* The driver waits and decides: the cells and what is to come stay.       *)
LEMMA DecidingKeeps ==
  ASSUME FlashInv, InCall, InCall', UNCHANGED <<chip, mem, before, target, result, call>>,
         Todo' = Todo,
         pc' \in {"wait", "enable", "flush"},
         pc' = "flush" => call.op = "write" /\ call.data = << >>,
         pc' # "flush" /\ call.op = "write" => call.data # << >>,
         pc' # "flush" /\ call.op = "sector" => call.size >= SectorSize
  PROVE  FlashInv'
<1>1. FlashTypes'
  BY DEF FlashInv, FlashTypes
<1>2. CallKnown'
  BY DEF FlashInv, CallKnown, WriteCall, SectorCall, ChipCall, Asked
<1>3. Content'
  BY DEF FlashInv, Content, Busy
<1> QED
  BY <1>1, <1>2, <1>3 DEF FlashInv

(* A call that returns OK on a chip that is not busy has changed every     *)
(* cell that it should.                                                    *)
LEMMA ReturnKeeps ==
  ASSUME FlashInv, InCall, ~Busy, UNCHANGED <<chip, mem, before, target>>,
         NEW rc \in {"OK", "ERROR"}, Return(rc),
         rc = "OK" => Todo = {}
  PROVE  FlashInv'
<1>1. pc' = "ready" /\ call' = NoCall /\ result' = rc
  BY DEF Return, Goto
<1>2. ~InCall'
  BY <1>1 DEF InCall
<1>3. NoCall \in CallType
  BY EmptySeq DEF NoCall, CallType
<1>4. FlashTypes' /\ CallKnown'
  BY <1>1, <1>2, <1>3 DEF FlashInv, FlashTypes, CallKnown
<1>5. rc = "OK" => mem = target
  <2> SUFFICES ASSUME rc = "OK"
               PROVE  mem = target
    OBVIOUS
  <2>1. \A a \in Addresses : mem[a] = target[a]
    BY QuietChip DEF FlashInv, Content
  <2> QED
    BY <2>1 DEF FlashInv, FlashTypes
<1>6. Content'
  BY <1>1, <1>2, <1>5 DEF FlashInv, Content, Busy
<1> QED
  BY <1>4, <1>6 DEF FlashInv

(* The head of the loop: one more piece, the end of the call, or an error. *)
LEMMA LoopKeeps ==
  ASSUME BootInv, FlashInv, Loop
  PROVE  FlashInv'
<1>1. /\ pc = "loop" /\ InCall /\ UNCHANGED <<chip, mem, before, target>>
      /\ call.op \in {"write", "sector", "chip"}
      /\ call.size \in Nat /\ call.data \in Seq(Bits) /\ SectorSize \in Nat
  <2>1. pc = "loop" /\ InCall /\ UNCHANGED <<chip, mem, before, target>>
    BY DEF Loop, InCall
  <2> QED
    BY <2>1, FlashSizes DEF FlashInv, FlashTypes, CallKnown, CallType
<1> DEFINE done == IF call.op = "write" THEN call.data = << >> ELSE call.size = 0
<1>2. \/ done /\ call.op = "write" /\ Goto("flush") /\ UNCHANGED <<call, result>>
      \/ done /\ call.op # "write" /\ Return("OK")
      \/ ~done /\ Refused(call) /\ Return("ERROR")
      \/ ~done /\ ~Refused(call) /\ Goto("wait") /\ UNCHANGED <<call, result>>
  BY DEF Loop
<1>3. call.op # "write" => ~Busy
  BY <1>1 DEF BootInv, Working, Quiet, Busy
<1>4. CASE done /\ call.op = "write" /\ Goto("flush") /\ UNCHANGED <<call, result>>
  <2>1. pc' = "flush" /\ InCall' /\ Todo' = Todo
    BY <1>1, <1>4 DEF Goto, InCall, Todo
  <2> QED
    BY <1>1, <1>4, <2>1, DecidingKeeps
<1>5. CASE done /\ call.op # "write" /\ Return("OK")
  <2>1. Todo = {}
    <3>1. CASE call.op = "chip"
      BY <1>5, <3>1 DEF Todo
    <3>2. CASE call.op = "sector"
      <4>1. Todo = call.addr .. call.addr + 0 - 1 /\ call.addr \in Nat
        BY <1>1, <1>5, <3>2 DEF Todo, FlashInv, FlashTypes, CallType
      <4> QED
        BY <4>1
    <3> QED
      BY <1>1, <1>5, <3>1, <3>2
  <2> QED
    BY <1>1, <1>3, <1>5, <2>1, ReturnKeeps
<1>6. CASE ~done /\ Refused(call) /\ Return("ERROR")
  <2>1. call.op # "write"
    BY <1>6 DEF Refused
  <2> QED
    BY <1>1, <1>3, <1>6, <2>1, ReturnKeeps
<1>7. CASE ~done /\ ~Refused(call) /\ Goto("wait") /\ UNCHANGED <<call, result>>
  <2>1. pc' = "wait" /\ InCall' /\ Todo' = Todo
    BY <1>1, <1>7 DEF Goto, InCall, Todo
  <2>2. call.op = "sector" => call.size >= SectorSize
    BY <1>1, <1>7 DEF Refused
  <2> QED
    BY <1>1, <1>7, <2>1, <2>2, DecidingKeeps
<1> QED
  BY <1>2, <1>4, <1>5, <1>6, <1>7

(* NORFlash_WaitBusy ends on a chip that is not busy: the piece that was   *)
(* asked for is behind the call.                                           *)
LEMMA WaitBusyKeeps ==
  ASSUME BootInv, FlashInv, WaitBusy
  PROVE  FlashInv'
<1>1. /\ ~Busy /\ InCall /\ UNCHANGED <<chip, mem, before, target>>
      /\ call.op \in {"write", "sector", "chip"} /\ result = "none"
      /\ pc \in {"wait", "erasing", "flush"}
  <2>1. pc \in {"wait", "erasing", "flush"} /\ InCall /\ ~Busy
    BY DEF WaitBusy, InCall, Hears
  <2> QED
    BY <2>1 DEF WaitBusy, FlashInv, CallKnown
<1>2. CASE pc = "wait"
  <2>1. pc' = "enable" /\ UNCHANGED <<call, result>>
    BY <1>2 DEF WaitBusy, Goto
  <2>2. InCall' /\ Todo' = Todo
    BY <1>2, <2>1 DEF InCall, Todo
  <2>3. /\ call.op = "write" => call.data # << >>
        /\ call.op = "sector" => call.size >= SectorSize
    BY <1>1, <1>2 DEF FlashInv, CallKnown, WriteCall, SectorCall, Asked
  <2> QED
    BY <1>1, <2>1, <2>2, <2>3, DecidingKeeps
<1>3. CASE pc = "flush"
  <2>1. Return("OK")
    BY <1>3 DEF WaitBusy
  <2>2. call.op = "write" /\ call.data = << >> /\ call.addr \in Nat
    BY <1>1, <1>3 DEF FlashInv, FlashTypes, CallType, CallKnown, WriteCall
  <2>3. Todo = call.addr .. call.addr + 0 - 1
    <3>1. Len(call.data) = 0
      BY <2>2, EmptySeq
    <3> QED
      BY <2>2, <3>1 DEF Todo
  <2>4. Todo = {}
    BY <2>2, <2>3
  <2> QED
    BY <1>1, <2>1, <2>4, ReturnKeeps
<1>4. CASE pc = "erasing"
  <2>1. /\ pc' = "loop" /\ result' = result
        /\ call' = IF call.op = "chip" THEN [call EXCEPT !.size = 0]
                   ELSE [call EXCEPT !.addr = @ + SectorSize, !.size = @ - SectorSize]
    BY <1>4 DEF WaitBusy, Goto
  <2>2. call \in CallType /\ SectorSize \in Nat \ {0} /\ call.addr \in Nat /\ call.size \in Nat
    BY FlashSizes DEF FlashInv, FlashTypes, CallType
  <2>3. call.op # "write"
    BY <1>1, <1>4 DEF FlashInv, CallKnown
  <2>4. ASSUME call' \in CallType, call'.op = call.op, Todo' = Todo,
               call.op = "sector" => SectorCall', call.op = "chip" => ChipCall'
        PROVE  FlashInv'
    <3>1. FlashTypes'
      BY <1>1, <2>4 DEF FlashInv, FlashTypes
    <3>2. InCall'
      BY <2>1 DEF InCall
    <3>3. CallKnown'
      BY <1>1, <2>1, <2>3, <2>4 DEF CallKnown
    <3>4. Content'
      BY <1>1, <2>1, <2>4, <3>2 DEF FlashInv, Content
    <3> QED
      BY <3>1, <3>3, <3>4 DEF FlashInv
  <2>5. CASE call.op = "chip"
    <3>1. call' \in CallType /\ call'.op = "chip" /\ call'.size = 0
      BY <2>1, <2>2, <2>5 DEF CallType
    <3>2. ChipCall'
      BY <1>1, <1>4, <2>5, <3>1 DEF FlashInv, CallKnown, ChipCall, Addresses
    <3>3. Todo' = Todo
      BY <1>4, <2>5, <3>1 DEF Todo
    <3> QED
      BY <2>4, <2>5, <3>1, <3>2, <3>3
  <2>6. CASE call.op = "sector"
    <3>1. SectorCall /\ call.size >= SectorSize
      BY <1>1, <1>4, <2>6 DEF FlashInv, CallKnown, SectorCall, Asked
    <3>2. call' = [call EXCEPT !.addr = @ + SectorSize, !.size = @ - SectorSize]
      BY <2>1, <2>6
    <3>3. call.addr + SectorSize \in Nat /\ call.size - SectorSize \in Nat
      BY <2>2, <3>1
    <3>4. /\ call' \in CallType /\ call'.op = "sector"
          /\ call'.addr = call.addr + SectorSize /\ call'.size = call.size - SectorSize
      BY <2>2, <2>6, <3>2, <3>3 DEF CallType
    <3>5. call'.addr + call'.size = call.addr + call.size
      BY <2>2, <3>4
    <3>6. call'.addr .. call'.addr + call'.size - 1
            \subseteq call.addr .. call.addr + call.size - 1
      BY <2>2, <3>4, <3>5
    <3>7. SectorCall'
      BY <1>1, <2>1, <3>1, <3>5, <3>6 DEF SectorCall, Asked
    <3>8. Todo' = Todo
      <4>1. Todo' = call'.addr .. call'.addr + call'.size - 1
        BY <2>1, <3>4 DEF Todo
      <4>2. Todo = call.addr + SectorSize .. call.addr + call.size - 1
        BY <1>4, <2>6 DEF Todo
      <4>3. call'.addr = call.addr + SectorSize
            /\ call'.addr + call'.size - 1 = call.addr + call.size - 1
        BY <2>2, <3>3, <3>4
      <4> QED
        BY <4>1, <4>2, <4>3
    <3> QED
      BY <2>4, <2>6, <3>4, <3>7, <3>8
  <2> QED
    BY <1>1, <2>3, <2>5, <2>6
<1> QED
  BY <1>1, <1>2, <1>3, <1>4

(* NORFlash_EnableWrite ends on a chip whose latch is set.                 *)
LEMMA EnableWriteKeeps ==
  ASSUME BootInv, FlashInv, EnableWrite
  PROVE  FlashInv'
<1>1. /\ pc = "enable" /\ InCall /\ Asked /\ ~Busy
      /\ UNCHANGED <<mem, call, result, before, target>>
      /\ pc' = IF call.op = "write" THEN "program" ELSE "erase"
  BY DEF EnableWrite, Goto, InCall, Asked, Hears
<1>2. chip'.op = chip.op /\ chip'.wel = TRUE /\ ~Busy'
  <2>1. chip'.op = chip.op /\ chip'.wel = TRUE
    BY DEF EnableWrite, BootInv, Shapes
  <2> QED
    BY <1>1, <2>1 DEF Busy
<1>3. InCall' /\ Asked' /\ Todo' = Todo
  BY <1>1 DEF InCall, Asked, Todo
<1>4. FlashTypes'
  BY <1>1, <1>2 DEF FlashInv, FlashTypes
<1>5. CallKnown'
  BY <1>1, <1>2, <1>3 DEF FlashInv, CallKnown, WriteCall, SectorCall, ChipCall
<1>6. Content'
  BY <1>1, <1>2, <1>3 DEF FlashInv, Content
<1> QED
  BY <1>4, <1>5, <1>6 DEF FlashInv

(* With the latch set, a chip on the driver's link begins what it is told. *)
LEMMA ChipStarts ==
  ASSUME BootInv, FlashInv, pc \in {"program", "erase"}, NEW op, Starts(op)
  PROVE  ~Busy /\ DOMAIN chip.op = {} /\ chip'.op = op
<1>1. ~Busy /\ chip.wel = TRUE
  BY DEF FlashInv, CallKnown, InCall
<1>2. OnLink /\ chip.ready
  BY DEF BootInv, Recovering, Working, Octal, OnLink
<1>3. chip' = [chip EXCEPT !.op = op]
  BY <1>1, <1>2 DEF Starts, Hears
<1> QED
  BY <1>1, <1>3, QuietChip DEF BootInv, Shapes

(* One piece is programmed: the cells the chip will clear are those of the *)
(* piece, and the call goes on behind it.                                  *)
LEMMA ProgramPageKeeps ==
  ASSUME BootInv, FlashInv, ProgramPage
  PROVE  FlashInv'
<1> DEFINE n == WriteSize(call)
           piece == SubSeq(call.data, 1, n)
           rest == SubSeq(call.data, n + 1, Len(call.data))
           op == PageProgram(call.addr, piece)
<1>1. /\ pc = "program" /\ pc' = "loop" /\ InCall /\ InCall' /\ ~Asked'
      /\ Starts(op)
      /\ call' = [call EXCEPT !.addr = @ + n, !.aligned = TRUE, !.data = rest]
      /\ UNCHANGED <<mem, result, before, target>>
  BY DEF ProgramPage, Goto, InCall, Asked
<1>2. /\ call.op = "write" /\ result = "none" /\ WriteCall /\ call.data # << >>
  BY <1>1 DEF FlashInv, CallKnown, WriteCall, Asked
<1>3. /\ ~Busy /\ DOMAIN chip.op = {} /\ chip'.op = op
  BY <1>1, ChipStarts
<1>4. /\ n \in 1 .. Len(call.data) /\ (call.addr % PageSize) + n <= PageSize
      /\ n < Len(call.data) => (call.addr + n) % PageSize = 0
  BY <1>2, PieceFits DEF FlashInv
<1>5. /\ call.addr \in Nat /\ call.data \in Seq(Bits) /\ Len(call.data) \in Nat
      /\ call \in CallType /\ FlashSize \in Nat
  BY FlashSizes, LenProperties DEF FlashInv, FlashTypes, CallType
<1> HIDE DEF n
<1>6. /\ piece \in Seq(Bits) /\ Len(piece) = n
      /\ \A i \in 1 .. n : piece[i] = call.data[i]
  BY <1>4, <1>5, SubSeqProperties
<1>7. /\ rest \in Seq(Bits) /\ Len(rest) = Len(call.data) - n
      /\ \A i \in 1 .. Len(call.data) - n : rest[i] = call.data[n + i]
  <2>1. n + 1 \in 1 .. Len(call.data) + 1
    BY <1>4, <1>5
  <2>2. /\ rest \in Seq(Bits)
        /\ Len(rest) = IF n + 1 <= Len(call.data) THEN Len(call.data) - (n + 1) + 1 ELSE 0
        /\ \A i \in 1 .. Len(call.data) - (n + 1) + 1 : rest[i] = call.data[(n + 1) + i - 1]
    BY <1>5, <2>1, SubSeqProperties
  <2>3. Len(rest) = Len(call.data) - n
    BY <1>4, <1>5, <2>2
  <2>4. ASSUME NEW i \in 1 .. Len(call.data) - n
        PROVE  rest[i] = call.data[n + i]
    <3>1. (n + 1) + i - 1 = n + i /\ i \in 1 .. Len(call.data) - (n + 1) + 1
      BY <1>4, <1>5
    <3> QED
      BY <2>2, <3>1
  <2> QED
    BY <2>2, <2>3, <2>4
<1>8. /\ DOMAIN op = call.addr .. call.addr + n - 1
      /\ \A a \in DOMAIN op : op[a] = IF piece[a - call.addr + 1] = 0 THEN 0 ELSE mem[a]
  <2>1. (call.addr % PageSize) + Len(piece) <= PageSize
    BY <1>4, <1>6
  <2> QED
    BY <1>5, <1>6, <2>1, PageIs
<1> HIDE DEF piece, rest, op
<1>9. /\ call' \in CallType /\ call'.op = "write" /\ call'.addr = call.addr + n
      /\ call'.data = rest /\ call'.aligned = TRUE
  <2>1. call.addr + n \in Nat
    BY <1>4, <1>5
  <2> QED
    BY <1>1, <1>2, <1>5, <1>7, <2>1 DEF CallType
<1>10. \A a \in DOMAIN op : a \in Addresses /\ op[a] = target[a]
  <2> TAKE a \in DOMAIN op
  <2>1. a - call.addr + 1 \in 1 .. n /\ a - call.addr + 1 \in 1 .. Len(call.data)
        /\ call.addr + (a - call.addr + 1) - 1 = a
    BY <1>4, <1>5, <1>8
  <2>2. a \in Addresses
    BY <1>2, <1>4, <1>5, <1>8 DEF WriteCall, Addresses
  <2> DEFINE i == a - call.addr + 1
  <2>3. target[a] = IF call.data[i] = 0 THEN 0 ELSE before[a]
    BY <1>2, <2>1 DEF WriteCall
  <2>4. op[a] = IF call.data[i] = 0 THEN 0 ELSE mem[a]
    BY <1>6, <1>8, <2>1
  <2>5. mem[a] \in {before[a], target[a]}
    BY <2>2 DEF FlashInv, Content
  <2> QED
    BY <2>2, <2>3, <2>4, <2>5
<1>11. FlashTypes'
  BY <1>1, <1>3, <1>9, <1>10 DEF FlashInv, FlashTypes
<1>12. WriteCall'
  <2>1. call'.addr + Len(call'.data) = call.addr + Len(call.data)
    BY <1>4, <1>5, <1>7, <1>9
  <2>2. call'.aligned /\ call'.data # << >> => call'.addr % PageSize = 0
    <3>1. call'.data # << >> => n < Len(call.data)
      <4>1. Len(rest) = 0 => rest = << >>
        BY <1>7, EmptySeq
      <4> QED
        BY <1>4, <1>5, <1>7, <1>9, <4>1
    <3> QED
      BY <1>4, <1>9, <3>1
  <2>3. ASSUME NEW i \in 1 .. Len(call'.data)
        PROVE  target[call'.addr + i - 1]
                 = IF call'.data[i] = 0 THEN 0 ELSE before[call'.addr + i - 1]
    <3>1. i \in 1 .. Len(call.data) - n /\ call'.data[i] = call.data[n + i]
      BY <1>7, <1>9
    <3>2. n + i \in 1 .. Len(call.data) /\ call.addr + (n + i) - 1 = call'.addr + i - 1
      BY <1>4, <1>5, <1>9, <3>1
    <3> QED
      BY <1>2, <3>1, <3>2 DEF WriteCall
  <2> QED
    BY <1>1, <1>2, <2>1, <2>2, <2>3 DEF WriteCall
<1>13. CallKnown'
  BY <1>1, <1>2, <1>9, <1>12 DEF CallKnown
<1>14. Content'
  <2>1. \A a \in Todo : a \in Todo' \/ a \in DOMAIN op
    <3>1. Todo = call.addr .. call.addr + Len(call.data) - 1
      BY <1>2 DEF Todo
    <3>2. Todo' = call.addr + n .. call.addr + n + (Len(call.data) - n) - 1
      BY <1>7, <1>9 DEF Todo
    <3> QED
      BY <1>4, <1>5, <1>8, <3>1, <3>2
  <2>2. \A a \in Addresses : a \in Todo' \/ a \in DOMAIN op \/ mem[a] = target[a]
    BY <1>1, <1>3, <2>1 DEF FlashInv, Content
  <2> QED
    BY <1>1, <1>2, <1>3, <1>10, <2>2 DEF FlashInv, Content
<1> QED
  BY <1>11, <1>13, <1>14 DEF FlashInv

(* One sector, or the chip, is erased.                                     *)
LEMMA EraseKeeps ==
  ASSUME BootInv, FlashInv, Erase
  PROVE  FlashInv'
<1> DEFINE erased == IF call.op = "chip" THEN Addresses
                     ELSE call.addr .. call.addr + SectorSize - 1
           op == [a \in erased |-> 1]
<1>1. /\ pc = "erase" /\ pc' = "erasing" /\ InCall /\ InCall' /\ Asked /\ Asked'
      /\ Starts(op) /\ UNCHANGED <<mem, call, result, before, target>>
  BY DEF Erase, Goto, InCall, Asked
<1>2. call.op \in {"sector", "chip"} /\ result = "none"
  BY <1>1 DEF FlashInv, CallKnown
<1>3. DOMAIN chip.op = {} /\ chip'.op = op
  BY <1>1, ChipStarts
<1>4. DOMAIN op = erased /\ \A a \in erased : op[a] = 1
  OBVIOUS
<1>5. /\ call.addr \in Nat /\ call.size \in Nat /\ SectorSize \in Nat \ {0} /\ FlashSize \in Nat
      /\ Addresses = 0 .. FlashSize - 1
  BY FlashSizes DEF FlashInv, FlashTypes, CallType
<1> HIDE DEF op
<1>6. CASE call.op = "sector"
  <2>1. SectorCall /\ call.size >= SectorSize /\ call.addr + call.size <= FlashSize
    BY <1>1, <1>6 DEF FlashInv, CallKnown, SectorCall
  <2>2. erased = call.addr .. call.addr + SectorSize - 1
    BY <1>6
  <2>3. erased \subseteq call.addr .. call.addr + call.size - 1 /\ erased \subseteq Addresses
    BY <1>5, <2>1, <2>2
  <2>4. \A a \in erased : target[a] = 1
    BY <2>1, <2>3 DEF SectorCall
  <2>5. \A a \in Todo : a \in Todo' \/ a \in erased
    <3>1. Todo = call.addr .. call.addr + call.size - 1
      BY <1>1, <1>6 DEF Todo
    <3>2. Todo' = call.addr + SectorSize .. call.addr + call.size - 1
      BY <1>1, <1>6 DEF Todo
    <3> QED
      BY <1>5, <2>2, <3>1, <3>2
  <2> HIDE DEF erased
  <2>6. FlashTypes'
    BY <1>1, <1>3, <1>4, <2>3 DEF FlashInv, FlashTypes
  <2>7. CallKnown'
    BY <1>1, <1>2, <1>6, <2>1 DEF CallKnown, SectorCall
  <2>8. Content'
    <3>1. \A a \in Addresses : a \in Todo' \/ a \in DOMAIN op \/ mem[a] = target[a]
      BY <1>1, <1>3, <1>4, <2>5 DEF FlashInv, Content
    <3> QED
      BY <1>1, <1>2, <1>3, <1>4, <2>4, <3>1 DEF FlashInv, Content
  <2> QED
    BY <2>6, <2>7, <2>8 DEF FlashInv
<1>7. CASE call.op = "chip"
  <2>1. ChipCall /\ erased = Addresses
    BY <1>1, <1>7 DEF FlashInv, CallKnown
  <2>2. \A a \in erased : target[a] = 1
    BY <2>1 DEF ChipCall
  <2> HIDE DEF erased
  <2>3. FlashTypes'
    BY <1>1, <1>3, <1>4, <2>1 DEF FlashInv, FlashTypes
  <2>4. CallKnown'
    BY <1>1, <1>2, <1>7, <2>1 DEF CallKnown, ChipCall, Addresses
  <2>5. Content'
    BY <1>1, <1>2, <1>3, <1>4, <2>1, <2>2 DEF FlashInv, Content
  <2> QED
    BY <2>3, <2>4, <2>5 DEF FlashInv
<1> QED
  BY <1>2, <1>6, <1>7

(* A chip that becomes ready changes nothing else.                         *)
LEMMA ChipReadyKeeps ==
  ASSUME BootInv, FlashInv, ChipReady
  PROVE  FlashInv'
<1>1. chip'.op = chip.op /\ chip'.wel = chip.wel
      /\ UNCHANGED <<mem, pc, call, result, before, target>>
  BY DEF ChipReady, BootInv, Shapes
<1> QED
  BY <1>1 DEF FlashInv, FlashTypes, CallKnown, WriteCall, SectorCall, ChipCall, Content,
              InCall, Asked, Todo, Busy

(* Every step keeps what a call has asked for and what is left of it.      *)
LEMMA FlashStep ==
  ASSUME BootInv, FlashInv, [Next]_vars
  PROVE  FlashInv'
<1>1. CASE Fsbl
  BY <1>1, FlashInitialisation, LoopKeeps, WaitBusyKeeps, EnableWriteKeeps, ProgramPageKeeps,
     EraseKeeps DEF Fsbl, Driver
<1>2. CASE Chip \/ UseFlash \/ McuReset \/ PowerLoss
  BY <1>2, ChipDoneKeeps, ChipReadyKeeps, CallBegins, FlashRestart DEF Chip
<1>3. CASE UNCHANGED vars
  <2>1. UNCHANGED <<chip, mem, pc, call, result, before, target>>
    BY <1>3 DEF vars, norVars
  <2> QED
    BY <2>1 DEF FlashInv, FlashTypes, CallKnown, WriteCall, SectorCall, ChipCall, Content,
                InCall, Asked, Todo, Busy
<1> QED
  BY <1>1, <1>2, <1>3 DEF Next

(* Whatever is interrupted where, every cell of the flash holds what it    *)
(* held before the last call or what that call asks for, and once the call *)
(* has returned OK, what it asks for (NORFlash_Write, NORFlash_EraseSector,*)
(* NORFlash_EraseChip).                                                    *)
THEOREM FlashIsExact == Spec => []FlashExact
<1>1. FlashInv => FlashExact
  BY DEF FlashInv, Content, FlashExact
<1>2. BootInv /\ FlashInv /\ [Next]_vars => FlashInv'
  BY FlashStep
<1> HIDE DEF FlashInv, FlashExact
<1> QED
  BY BootInvariance, FlashInit, <1>1, <1>2, PTL DEF Spec
=============================================================================
