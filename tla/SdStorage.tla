----------------------------- MODULE SdStorage ------------------------------
(***************************************************************************)
(* The driver of the SD NAND on SDMMC2 that USB, shell and recorder share  *)
(* (app/Core/Src/drivers/sdmmc_drv.c), with the part of the HAL it drives  *)
(* (stm32n6xx_hal_sd.c) and the card.  A call takes the mutex, clears its  *)
(* done flag, starts a DMA transfer, polls done flag and ErrorCode, polls  *)
(* the card and gives the mutex back; the SDMMC2 interrupt ends the        *)
(* transfer at any moment between.                                         *)
(*                                                                         *)
(* The software gives up after 5 s, the hardware after SDMMC_DATATIMEOUT   *)
(* (2^32 - 1 card clocks, over a minute).  LateAnswers says whether the    *)
(* card may take longer than the software waits.                           *)
(***************************************************************************)
EXTENDS Naturals, Sequences

CONSTANTS Tasks,        \* tasks that use the storage
          LogBlockNbr,  \* blocks of the card
          AddressSpace, \* 2^32: block addresses are uint32_t
          Lbas,         \* addresses the tasks use
          Transfers,    \* block sequences the tasks write
          Counts,       \* block counts the tasks read
          Blank,        \* what the card holds at first
          LateAnswers   \* may a transfer outlast the 5 s of sd_wait_done_flag?

ASSUME StorageAssumption ==
  /\ LogBlockNbr \in Nat \ {0} /\ AddressSpace \in Nat /\ LogBlockNbr < AddressSpace
  /\ Lbas \subseteq 0 .. AddressSpace - 1
  /\ Counts \subseteq 1 .. AddressSpace - LogBlockNbr
  /\ \A data \in Transfers : Len(data) \in 1 .. AddressSpace - LogBlockNbr
  /\ \A data \in Transfers : data = [i \in 1 .. Len(data) |-> data[i]]
  /\ LateAnswers \in BOOLEAN
  /\ Tasks \cap {"NULL", "free", "none"} = {}

VARIABLES sd2_io_mutex, \* "NULL" before SD_InitTask, "free", or its holder
          sd2_ready,    \* the card is initialised
          pc, req,      \* per task: where it is, and the call's arguments
          buf,          \* per task: the buffer it passes, as memory holds it
          rc            \* per task: what its call returns; "ERROR" is any
                        \* status but HAL_OK

VARIABLES done,         \* sd2_rx_done and sd2_tx_done
          State,        \* hsd2.State
          ErrorCode,    \* hsd2.ErrorCode is not HAL_SD_ERROR_NONE
          dma,          \* the transfer of the SDMMC
          card_busy,    \* the card programs: it is not in TRANSFER
          disk,         \* what the card stores
          stale         \* history: tasks whose call an earlier, late transfer touched

halVars  == <<State, ErrorCode, dma, card_busy>>
vars == <<sd2_io_mutex, sd2_ready, pc, req, rc, buf, done, halVars, disk, stale>>

NoCall == [op |-> "none", lba |-> 0, n |-> 0, data |-> << >>, moved |-> 0]
NoDma  == [active |-> FALSE, op |-> "none", task |-> "none", lba |-> 0, n |-> 0, moved |-> 0]

Init ==
  /\ sd2_io_mutex = "NULL" /\ sd2_ready = FALSE
  /\ pc = [t \in Tasks |-> "idle"]
  /\ req = [t \in Tasks |-> NoCall]
  /\ buf = [t \in Tasks |-> << >>]
  /\ rc = [t \in Tasks |-> "none"]
  /\ done = [read |-> FALSE, write |-> FALSE]
  /\ State = "READY" /\ ErrorCode = FALSE /\ card_busy = FALSE
  /\ dma = NoDma
  /\ disk = [b \in 0 .. LogBlockNbr - 1 |-> Blank]
  /\ stale = {}
-----------------------------------------------------------------------------
(* SD_InitTask: the mutex exists before the cards are initialised.         *)
CreateMutex ==
  /\ sd2_io_mutex = "NULL"
  /\ sd2_io_mutex' = "free"
  /\ UNCHANGED <<sd2_ready, pc, req, rc, buf, done, halVars, disk, stale>>

CardInitialised ==
  /\ sd2_io_mutex # "NULL" /\ ~sd2_ready
  /\ sd2_ready' = TRUE
  /\ UNCHANGED <<sd2_io_mutex, pc, req, rc, buf, done, halVars, disk, stale>>
-----------------------------------------------------------------------------
(* sd_storage_write(lba, Len(data), data), sd_storage_read(lba, n, data).  *)
(* A task's buffer is static or on its stack: each call uses it again.     *)
WriteCall(t, lba, data) ==
  /\ pc[t] = "idle"
  /\ pc' = [pc EXCEPT ![t] = "lock"]
  /\ req' = [req EXCEPT ![t] = [op |-> "write", lba |-> lba, n |-> Len(data),
                                data |-> data, moved |-> 0]]
  /\ buf' = [buf EXCEPT ![t] = data]
  /\ rc' = [rc EXCEPT ![t] = "none"]
  /\ stale' = stale \ {t}
  /\ UNCHANGED <<sd2_io_mutex, sd2_ready, done, halVars, disk>>

ReadCall(t, lba, n) ==
  /\ pc[t] = "idle"
  /\ pc' = [pc EXCEPT ![t] = "lock"]
  /\ req' = [req EXCEPT ![t] = [op |-> "read", lba |-> lba, n |-> n,
                                data |-> << >>, moved |-> 0]]
  /\ buf' = [buf EXCEPT ![t] = [i \in 1 .. n |-> Blank]]
  /\ rc' = [rc EXCEPT ![t] = "none"]
  /\ stale' = stale \ {t}
  /\ UNCHANGED <<sd2_io_mutex, sd2_ready, done, halVars, disk>>

(* The call returns.  Its buffer matters no more unless the DMA still uses *)
(* it.                                                                     *)
Return(t) ==
  /\ pc' = [pc EXCEPT ![t] = "idle"]
  /\ req' = [req EXCEPT ![t] = NoCall]
  /\ buf' = [buf EXCEPT ![t] = IF dma.task = t THEN @ ELSE << >>]

(* sd_storage_lock(5000): no mutex yet, the mutex in time, or a timeout.   *)
TakeLock(t) ==
  /\ pc[t] = "lock" /\ sd2_io_mutex = "free"
  /\ sd2_io_mutex' = t
  /\ pc' = [pc EXCEPT ![t] = "clear"]
  /\ UNCHANGED <<sd2_ready, req, rc, buf, done, halVars, disk, stale>>

(* Fault: the result of sd_storage_lock is not looked at.                  *)
LockFails_Ignored(t) ==
  /\ pc[t] = "lock" /\ sd2_io_mutex # "free"
  /\ pc' = [pc EXCEPT ![t] = "clear"]
  /\ UNCHANGED <<sd2_io_mutex, sd2_ready, req, rc, buf, done, halVars, disk, stale>>

LockFails(t) ==
  /\ pc[t] = "lock" /\ sd2_io_mutex # "free"
  /\ Return(t)
  /\ rc' = [rc EXCEPT ![t] = "ERROR"]
  /\ UNCHANGED <<sd2_io_mutex, sd2_ready, done, halVars, disk, stale>>

(* The task leaves sd_storage_read_locked or sd_storage_write_locked.      *)
Leave(t, result) ==
  /\ rc' = [rc EXCEPT ![t] = result]
  /\ pc' = [pc EXCEPT ![t] = "unlock"]

(* Fault: the done flag is not cleared.                                    *)
ClearDone_Kept(t) ==
  /\ pc[t] = "clear"
  /\ \/ ~sd2_ready /\ Leave(t, "ERROR") /\ UNCHANGED done
     \/ /\ sd2_ready
        /\ UNCHANGED done
        /\ pc' = [pc EXCEPT ![t] = "start"]
        /\ UNCHANGED rc
  /\ UNCHANGED <<sd2_io_mutex, sd2_ready, req, buf, halVars, disk, stale>>

(* The checks before the transfer, then sd2_tx_done = 0 or sd2_rx_done = 0.*)
ClearDone(t) ==
  /\ pc[t] = "clear"
  /\ \/ ~sd2_ready /\ Leave(t, "ERROR") /\ UNCHANGED done
     \/ /\ sd2_ready
        /\ done' = [done EXCEPT ![req[t].op] = FALSE]
        /\ pc' = [pc EXCEPT ![t] = "start"]
        /\ UNCHANGED rc
  /\ UNCHANGED <<sd2_io_mutex, sd2_ready, req, buf, halVars, disk, stale>>

(* Fault: the check allows one block too many.                             *)
InRange_OffByOne(r) == (r.lba + r.n) % AddressSpace <= LogBlockNbr + 1

(* The range check of the HAL, in 32-bit arithmetic.                       *)
InRange(r) == (r.lba + r.n) % AddressSpace <= LogBlockNbr

(* HAL_SD_ReadBlocks_DMA, HAL_SD_WriteBlocks_DMA.  The card rejects the    *)
(* command for an address it does not have, and may reject any command.    *)
StartBusy(t) ==
  /\ pc[t] = "start" /\ State = "BUSY"
  /\ Leave(t, "ERROR")
  /\ UNCHANGED <<sd2_io_mutex, sd2_ready, req, buf, done, halVars, disk, stale>>

StartFails(t) ==
  /\ pc[t] = "start" /\ State = "READY"
  /\ ErrorCode' = TRUE
  /\ Leave(t, "ERROR")
  /\ UNCHANGED <<sd2_io_mutex, sd2_ready, req, buf, done, State, dma,
                 card_busy, disk, stale>>

StartTransfer(t) ==
  LET r == req[t]
  IN /\ pc[t] = "start" /\ State = "READY"
     /\ InRange(r) /\ r.lba < LogBlockNbr /\ ~card_busy
     /\ State' = "BUSY" /\ ErrorCode' = FALSE
     /\ dma' = [active |-> TRUE, op |-> r.op, task |-> t, lba |-> r.lba,
                n |-> r.n, moved |-> 0]
     /\ stale' = IF done[r.op] THEN stale \cup {t} ELSE stale
     /\ pc' = [pc EXCEPT ![t] = "flag"]
     /\ UNCHANGED <<sd2_io_mutex, sd2_ready, req, rc, buf, done, card_busy, disk>>

(* Fault: the flag of either direction ends the wait.                      *)
WaitFlag_Either(t) ==
  /\ pc[t] = "flag"
  /\ pc' = [pc EXCEPT ![t] = IF done.read \/ done.write THEN "card" ELSE "error"]
  /\ UNCHANGED <<sd2_io_mutex, sd2_ready, req, rc, buf, done, halVars, disk, stale>>

(* One round of sd_wait_done_flag: the flag, then the error code.          *)
WaitFlag(t) ==
  /\ pc[t] = "flag"
  /\ pc' = [pc EXCEPT ![t] = IF done[req[t].op] THEN "card" ELSE "error"]
  /\ UNCHANGED <<sd2_io_mutex, sd2_ready, req, rc, buf, done, halVars, disk, stale>>

(* Fault: the error code is not looked at while waiting.                   *)
WaitError_Ignored(t) ==
  /\ pc[t] = "error"
  /\ pc' = [pc EXCEPT ![t] = "flag"]
  /\ UNCHANGED <<sd2_io_mutex, sd2_ready, req, rc, buf, done, halVars, disk, stale>>

WaitError(t) ==
  /\ pc[t] = "error"
  /\ IF ErrorCode THEN Leave(t, "ERROR")
     ELSE pc' = [pc EXCEPT ![t] = "flag"] /\ UNCHANGED rc
  /\ UNCHANGED <<sd2_io_mutex, sd2_ready, req, buf, done, halVars, disk, stale>>

WaitTimeout(t) ==
  /\ LateAnswers
  /\ pc[t] = "flag"
  /\ Leave(t, "ERROR")
  /\ UNCHANGED <<sd2_io_mutex, sd2_ready, req, buf, done, halVars, disk, stale>>

(* sd_wait_card_transfer: the card reports TRANSFER, or 5 s pass.          *)
CardTransfer(t) ==
  /\ pc[t] = "card"
  /\ ~dma.active /\ ~card_busy
  /\ Leave(t, "OK")
  /\ UNCHANGED <<sd2_io_mutex, sd2_ready, req, buf, done, halVars, disk, stale>>

CardTimeout(t) ==
  /\ pc[t] = "card"
  /\ dma.active => LateAnswers
  /\ Leave(t, "ERROR")
  /\ UNCHANGED <<sd2_io_mutex, sd2_ready, req, buf, done, halVars, disk, stale>>

(* sd_storage_unlock and the return.                                       *)
Unlock(t) ==
  /\ pc[t] = "unlock"
  /\ sd2_io_mutex' = "free"
  /\ Return(t)
  /\ UNCHANGED <<sd2_ready, rc, done, halVars, disk, stale>>
-----------------------------------------------------------------------------
(* The DMA moves one block between the card and memory as it is now.       *)
MoveBlock ==
  LET b == dma.lba + dma.moved
      i == dma.moved + 1
      t == dma.task
  IN /\ dma.active /\ dma.moved < dma.n /\ b < LogBlockNbr
     /\ dma' = [dma EXCEPT !.moved = i]
     /\ req' = [req EXCEPT ![t].moved = IF @ < req[t].n THEN @ + 1 ELSE @]
     /\ IF dma.op = "write"
        THEN /\ disk' = [disk EXCEPT ![b] = IF i \in DOMAIN buf[t] THEN buf[t][i] ELSE Blank]
             /\ UNCHANGED buf
        ELSE /\ buf' = [buf EXCEPT ![t] =
                  [j \in DOMAIN @ |-> IF j = i THEN disk[b] ELSE @[j]]]
             /\ UNCHANGED disk
     /\ stale' = IF dma.op = "read" /\ pc[t] \in {"lock", "clear", "start"}
                 THEN stale \cup {t} ELSE stale
     /\ UNCHANGED <<sd2_io_mutex, sd2_ready, pc, rc, done, State,
                    ErrorCode, card_busy>>

(* HAL_SD_IRQHandler, DATAEND: several blocks need a stop command, whose   *)
(* error only shows in ErrorCode; the completion callback runs anyway.     *)
DataEnd ==
  /\ dma.active /\ dma.moved = dma.n
  /\ dma' = NoDma
  /\ \/ UNCHANGED ErrorCode
     \/ dma.n > 1 /\ ErrorCode' = TRUE
  /\ State' = "READY"
  /\ done' = [done EXCEPT ![dma.op] = TRUE]
  /\ card_busy' = (dma.op = "write")
  /\ UNCHANGED <<sd2_io_mutex, sd2_ready, pc, req, rc, buf, disk, stale>>

(* Fault: the HAL stays busy after a data error.                           *)
DataError_StaysBusy ==
  /\ dma.active
  /\ dma' = NoDma
  /\ ErrorCode' = TRUE /\ State' = State
  /\ card_busy' = (dma.op = "write")
  /\ UNCHANGED <<sd2_io_mutex, sd2_ready, pc, req, rc, buf, done, disk, stale>>

(* HAL_SD_IRQHandler, CRC failure, data timeout, overrun or underrun.      *)
DataError ==
  /\ dma.active
  /\ dma' = NoDma
  /\ ErrorCode' = TRUE /\ State' = "READY"
  /\ card_busy' = (dma.op = "write")
  /\ UNCHANGED <<sd2_io_mutex, sd2_ready, pc, req, rc, buf, done, disk, stale>>

SDMMC2_IRQHandler == DataEnd \/ DataError

(* The card has programmed what it received.                               *)
CardReady ==
  /\ card_busy /\ card_busy' = FALSE
  /\ UNCHANGED <<sd2_io_mutex, sd2_ready, pc, req, rc, buf, done, State,
                 ErrorCode, dma, disk, stale>>
-----------------------------------------------------------------------------
TaskStep(t) ==
  \/ TakeLock(t) \/ LockFails(t) \/ ClearDone(t)
  \/ StartBusy(t) \/ StartFails(t) \/ StartTransfer(t)
  \/ WaitFlag(t) \/ WaitError(t) \/ WaitTimeout(t)
  \/ CardTransfer(t) \/ CardTimeout(t) \/ Unlock(t)

Next ==
  \/ CreateMutex \/ CardInitialised
  \/ \E t \in Tasks :
       \/ \E lba \in Lbas, data \in Transfers : WriteCall(t, lba, data)
       \/ \E lba \in Lbas, n \in Counts : ReadCall(t, lba, n)
       \/ TaskStep(t)
  \/ MoveBlock \/ SDMMC2_IRQHandler \/ CardReady

(* A transfer ends: by DATAEND, or by the data timeout of the SDMMC.       *)
Fairness == /\ \A t \in Tasks : WF_vars(TaskStep(t))
            /\ WF_vars(MoveBlock) /\ WF_vars(SDMMC2_IRQHandler) /\ WF_vars(CardReady)

Spec == Init /\ [][Next]_vars /\ Fairness
-----------------------------------------------------------------------------
(* The mutex is free or some task's; a running transfer is some task's,    *)
(* lies on the card, although the range check of the HAL wraps, and never  *)
(* moves more blocks than it was started for.                              *)
TypeOK ==
  /\ sd2_io_mutex \in {"NULL", "free"} \cup Tasks
  /\ sd2_ready \in BOOLEAN /\ ErrorCode \in BOOLEAN /\ card_busy \in BOOLEAN
  /\ pc \in [Tasks -> {"idle", "lock", "clear", "start", "flag", "error",
                       "card", "unlock"}]
  /\ req \in [Tasks -> [op : {"none", "read", "write"}, lba : Nat, n : Nat,
                        data : Transfers \cup {<< >>}, moved : Nat]]
  /\ rc \in [Tasks -> {"none", "OK", "ERROR"}]
  /\ State \in {"READY", "BUSY"} /\ done \in [read : BOOLEAN, write : BOOLEAN]
  /\ dma \in [active : BOOLEAN, op : {"none", "read", "write"},
              task : Tasks \cup {"none"}, lba : Nat, n : Nat, moved : Nat]
  /\ dma.moved <= dma.n
  /\ dma.active => dma.task \in Tasks /\ dma.lba + dma.n <= LogBlockNbr
  /\ DOMAIN disk = 0 .. LogBlockNbr - 1
  /\ stale \subseteq Tasks

(* The HAL is busy exactly while a transfer runs, and a task that holds no *)
(* lock is in no critical part: two transfers never overlap, whatever      *)
(* times out (HAL_SD_WriteBlocks_DMA, sd_storage_lock).                    *)
OneTransfer ==
  /\ (State = "BUSY") = dma.active
  /\ \A t \in Tasks : pc[t] \notin {"idle", "lock"} => sd2_io_mutex = t

(* A write that is about to report success is on the card, and a read has  *)
(* what the card holds, also after earlier calls timed out.  The           *)
(* exceptions are the two ways a late transfer of an earlier call reaches  *)
(* into this one: its completion sets the done flag after the call cleared *)
(* it, so that sd_wait_done_flag returns at once and a data error of this  *)
(* transfer goes unnoticed; or it reads into the buffer this call fills.   *)
SuccessIsReal ==
  \A t \in Tasks :
    (pc[t] = "unlock" /\ rc[t] = "OK" /\ t \notin stale) =>
      LET r == req[t]
      IN \A i \in 1 .. r.n :
           disk[r.lba + i - 1] = IF r.op = "write" THEN r.data[i] ELSE buf[t][i]

(* Unless the card answers late, the DMA moves data only for the task that *)
(* holds the lock and is still waiting: it never touches a buffer whose    *)
(* owner has returned.                                                     *)
NoStrayDma ==
  dma.active => /\ sd2_io_mutex = dma.task
                /\ pc[dma.task] \in {"flag", "error"}

(* Every call returns, and after a timeout the device is usable again.     *)
CallEnds == \A t \in Tasks : pc[t] # "idle" ~> pc[t] = "idle"
Recovers == State = "BUSY" ~> State = "READY"

(* The driver keeps the promise of BlockDevice.                            *)
Device == INSTANCE BlockDevice WITH
  Clients <- Tasks,
  call <- [t \in Tasks |->
            IF req[t].op = "read"
            THEN [req[t] EXCEPT !.data = SubSeq(buf[t], 1, req[t].moved)]
            ELSE req[t]],
  reply <- [t \in Tasks |-> IF pc[t] = "idle" THEN rc[t] ELSE "none"]
ImplementsDevice == Device!Spec
=============================================================================
