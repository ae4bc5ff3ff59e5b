-------------------------- MODULE SdStorageProofs ---------------------------
(***************************************************************************)
(* Proofs about the SD NAND driver of module SdStorage, for every set of   *)
(* tasks, card, address space and set of calls.                            *)
(*                                                                         *)
(* SdInv holds whatever times out, Quiet while no transfer outlasts the    *)
(* wait.  RealInv, on SdInv, says what a call that no late transfer has    *)
(* touched has moved, and gives SuccessIsReal; with Quiet it makes the     *)
(* running transfer the one its task waits for, so that every block the    *)
(* DMA moves is a Transfer of BlockDevice.                                 *)
(***************************************************************************)
EXTENDS SdStorage, TLAPS, SequenceTheorems

(* The lengths of a call that do not wrap the range check of the HAL.      *)
Lengths == 0 .. AddressSpace - LogBlockNbr

(* A call past the lock knows what it does: its op is read or write, and   *)
(* its length is one that callers use.                                     *)
CallKnown ==
  \A t \in Tasks : /\ pc[t] # "idle" => req[t].op # "none"
                   /\ req[t].n \in Lengths

SdInv == TypeOK /\ OneTransfer /\ CallKnown

(* While a transfer runs, its task holds the lock and waits, and nothing   *)
(* ends that wait; a call that is about to start waits for a clear flag.   *)
Quiet ==
  /\ dma.active =>
       /\ sd2_io_mutex = dma.task
       /\ pc[dma.task] \in {"flag", "error"}
       /\ req[dma.task].op = dma.op
       /\ ~done[dma.op]
       /\ ~ErrorCode
  /\ \A t \in Tasks : pc[t] = "start" => ~done[req[t].op]

-----------------------------------------------------------------------------
(* The idle DMA is well typed.                                             *)
LEMMA NoDmaTyped ==
  /\ NoDma \in [active : BOOLEAN, op : {"none", "read", "write"},
                 task : Tasks \cup {"none"}, lba : Nat, n : Nat, moved : Nat]
  /\ NoDma.active = FALSE /\ NoDma.moved <= NoDma.n
BY DEF NoDma

(* So is the record of a task that makes no call.                          *)
LEMMA NoCallTyped ==
  /\ NoCall \in [op : {"none", "read", "write"}, lba : Nat, n : Nat,
                  data : Transfers \cup {<< >>}, moved : Nat]
  /\ NoCall.n \in Lengths
<1>1. 0 \in Lengths
  BY StorageAssumption DEF Lengths
<1> QED BY <1>1 DEF NoCall

(* Start of the firmware: no mutex, no call, no transfer.                  *)
LEMMA InitInv == Init => SdInv /\ Quiet
<1> SUFFICES ASSUME Init PROVE SdInv /\ Quiet
  OBVIOUS
<1>2. TypeOK
  BY NoCallTyped, NoDmaTyped DEF Init, TypeOK
<1>3. OneTransfer /\ CallKnown /\ Quiet
  BY NoCallTyped, NoDmaTyped DEF Init, OneTransfer, CallKnown, Quiet
<1> QED BY <1>2, <1>3 DEF SdInv

(* SD_InitTask.                                                            *)
LEMMA StartUpInv ==
  ASSUME SdInv, CreateMutex \/ CardInitialised
  PROVE  SdInv' /\ (Quiet => Quiet')
<1>1. CASE CreateMutex
  <2>1. TypeOK'
    BY <1>1 DEF CreateMutex, SdInv, TypeOK, halVars
  <2>2. OneTransfer' /\ CallKnown'
    BY <1>1, StorageAssumption
       DEF CreateMutex, SdInv, TypeOK, OneTransfer, CallKnown, halVars
  <2>3. Quiet => Quiet'
    BY <1>1, StorageAssumption DEF CreateMutex, SdInv, TypeOK, Quiet, halVars
  <2> QED BY <2>1, <2>2, <2>3 DEF SdInv
<1>2. CASE CardInitialised
  BY <1>2 DEF CardInitialised, SdInv, TypeOK, OneTransfer, CallKnown, Quiet, halVars
<1> QED BY <1>1, <1>2

(* A task calls sd_storage_write or sd_storage_read.                       *)
LEMMA CallInv ==
  ASSUME SdInv, NEW t \in Tasks,
         \/ \E lba \in Lbas, data \in Transfers : WriteCall(t, lba, data)
         \/ \E lba \in Lbas, n \in Counts : ReadCall(t, lba, n)
  PROVE  SdInv' /\ (Quiet => Quiet')
<1> DEFINE Calls == [op : {"none", "read", "write"}, lba : Nat, n : Nat,
                    data : Transfers \cup {<< >>}, moved : Nat]
<1>1. \E r \in Calls : r.op # "none" /\ r.n \in Lengths
              /\ req' = [req EXCEPT ![t] = r]
  <2>1. ASSUME NEW lba \in Lbas, NEW data \in Transfers, WriteCall(t, lba, data)
        PROVE  \E r \in Calls : r.op # "none" /\ r.n \in Lengths
              /\ req' = [req EXCEPT ![t] = r]
    <3> DEFINE r == [op |-> "write", lba |-> lba, n |-> Len(data), data |-> data,
                     moved |-> 0]
    <3>1. lba \in Nat /\ Len(data) \in 0 .. AddressSpace - LogBlockNbr
      BY StorageAssumption
    <3>2. r \in Calls /\ r.op # "none" /\ r.n \in Lengths
      BY <3>1 DEF Lengths
    <3>3. req' = [req EXCEPT ![t] = r]
      BY <2>1 DEF WriteCall
    <3> QED BY <3>2, <3>3
  <2>2. ASSUME NEW lba \in Lbas, NEW n \in Counts, ReadCall(t, lba, n)
        PROVE  \E r \in Calls : r.op # "none" /\ r.n \in Lengths
              /\ req' = [req EXCEPT ![t] = r]
    <3> DEFINE r == [op |-> "read", lba |-> lba, n |-> n, data |-> << >>, moved |-> 0]
    <3>1. lba \in Nat /\ n \in 0 .. AddressSpace - LogBlockNbr
      BY StorageAssumption
    <3>2. r \in Calls /\ r.op # "none" /\ r.n \in Lengths
      BY <3>1 DEF Lengths
    <3>3. req' = [req EXCEPT ![t] = r]
      BY <2>2 DEF ReadCall
    <3> QED BY <3>2, <3>3
  <2> QED BY <2>1, <2>2
<1>2. PICK r \in Calls : r.op # "none" /\ r.n \in Lengths
              /\ req' = [req EXCEPT ![t] = r]
  BY <1>1
<1>3. /\ pc[t] = "idle" /\ pc' = [pc EXCEPT ![t] = "lock"]
      /\ rc' = [rc EXCEPT ![t] = "none"] /\ stale' = stale \ {t}
      /\ sd2_io_mutex' = sd2_io_mutex /\ sd2_ready' = sd2_ready /\ done' = done
      /\ State' = State /\ ErrorCode' = ErrorCode /\ dma' = dma
      /\ card_busy' = card_busy /\ disk' = disk
  BY DEF WriteCall, ReadCall, halVars
<1>4. req' \in [Tasks -> Calls]
  BY <1>2 DEF SdInv, TypeOK
<1>5. TypeOK'
  BY <1>3, <1>4 DEF SdInv, TypeOK
<1>6. OneTransfer'
  BY <1>3 DEF SdInv, TypeOK, OneTransfer
<1>7. CallKnown'
  BY <1>2, <1>3 DEF SdInv, TypeOK, CallKnown
<1>8. Quiet => Quiet'
  <2> HIDE DEF Calls
  <2>1. \A u \in Tasks \ {t} : req'[u] = req[u] /\ pc'[u] = pc[u]
    BY <1>2, <1>3 DEF SdInv, TypeOK
  <2>2. pc'[t] = "lock"
    BY <1>3 DEF SdInv, TypeOK
  <2>3. dma.active => dma.task \in Tasks
    BY DEF SdInv, TypeOK
  <2> QED BY <1>3, <2>1, <2>2, <2>3 DEF Quiet
<1> QED BY <1>5, <1>6, <1>7, <1>8 DEF SdInv

(* sd_storage_lock.                                                        *)
LEMMA LockInv ==
  ASSUME SdInv, NEW t \in Tasks, TakeLock(t) \/ LockFails(t)
  PROVE  SdInv' /\ (Quiet => Quiet')
<1>1. CASE TakeLock(t)
  <2>1. /\ pc[t] = "lock" /\ pc' = [pc EXCEPT ![t] = "clear"]
        /\ sd2_io_mutex = "free" /\ sd2_io_mutex' = t
        /\ sd2_ready' = sd2_ready /\ req' = req /\ rc' = rc
        /\ done' = done /\ State' = State /\ ErrorCode' = ErrorCode /\ dma' = dma
        /\ card_busy' = card_busy /\ disk' = disk /\ stale' = stale
    BY <1>1 DEF TakeLock, halVars
  <2>2. TypeOK'
    BY <2>1 DEF SdInv, TypeOK
  <2>3. OneTransfer'
    BY <2>1, StorageAssumption DEF SdInv, TypeOK, OneTransfer
  <2>4. CallKnown'
    BY <2>1 DEF SdInv, TypeOK, CallKnown
  <2>5. Quiet => Quiet'
    BY <2>1, StorageAssumption DEF SdInv, TypeOK, Quiet
  <2> QED BY <2>2, <2>3, <2>4, <2>5 DEF SdInv
<1>2. CASE LockFails(t)
  <2>1. TypeOK'
    BY <1>2, NoCallTyped DEF LockFails, Return, SdInv, TypeOK, halVars
  <2>2. OneTransfer'
    BY <1>2 DEF LockFails, Return, SdInv, TypeOK, OneTransfer, halVars
  <2>3. CallKnown'
    BY <1>2, NoCallTyped DEF LockFails, Return, SdInv, TypeOK, CallKnown
  <2>4. Quiet => Quiet'
    BY <1>2 DEF LockFails, Return, SdInv, TypeOK, Quiet, halVars
  <2> QED BY <2>1, <2>2, <2>3, <2>4 DEF SdInv
<1> QED BY <1>1, <1>2

(* The checks before a transfer and the clearing of the done flag.         *)
LEMMA ClearDoneInv ==
  ASSUME SdInv, NEW t \in Tasks, ClearDone(t)
  PROVE  SdInv' /\ (Quiet => Quiet')
<1>1. req[t].op \in {"read", "write"} /\ pc[t] = "clear" /\ sd2_io_mutex = t
  BY DEF SdInv, TypeOK, OneTransfer, CallKnown, ClearDone
<1>2. /\ \E where \in {"unlock", "start"} : pc' = [pc EXCEPT ![t] = where]
      /\ rc' \in [Tasks -> {"none", "OK", "ERROR"}]
      /\ done' \in {done, [done EXCEPT ![req[t].op] = FALSE]}
      /\ sd2_io_mutex' = sd2_io_mutex /\ sd2_ready' = sd2_ready /\ req' = req
      /\ State' = State /\ ErrorCode' = ErrorCode /\ dma' = dma
      /\ card_busy' = card_busy /\ disk' = disk /\ stale' = stale
  BY DEF ClearDone, Leave, SdInv, TypeOK, halVars
<1>3. TypeOK'
  <2>1. pc' \in [Tasks -> {"idle", "lock", "clear", "start", "flag", "error",
                           "card", "unlock"}]
    BY <1>2 DEF SdInv, TypeOK
  <2>2. done' \in [read : BOOLEAN, write : BOOLEAN]
    BY <1>1, <1>2 DEF SdInv, TypeOK
  <2> QED BY <1>2, <2>1, <2>2 DEF SdInv, TypeOK
<1>4. OneTransfer'
  BY <1>1, <1>2 DEF SdInv, TypeOK, OneTransfer
<1>5. CallKnown'
  BY <1>1, <1>2 DEF SdInv, TypeOK, CallKnown
<1>6. Quiet => Quiet'
  BY <1>1 DEF ClearDone, Leave, SdInv, TypeOK, OneTransfer, Quiet, halVars
<1> QED BY <1>3, <1>4, <1>5, <1>6 DEF SdInv

(* HAL_SD_ReadBlocks_DMA and HAL_SD_WriteBlocks_DMA: refused.              *)
LEMMA StartRefusedInv ==
  ASSUME SdInv, NEW t \in Tasks, StartBusy(t) \/ StartFails(t)
  PROVE  SdInv' /\ (Quiet => Quiet')
<1>1. /\ pc[t] = "start" /\ pc' = [pc EXCEPT ![t] = "unlock"]
      /\ rc' = [rc EXCEPT ![t] = "ERROR"]
      /\ ErrorCode' \in BOOLEAN /\ (ErrorCode' # ErrorCode => State = "READY")
      /\ sd2_io_mutex' = sd2_io_mutex /\ sd2_ready' = sd2_ready /\ req' = req
      /\ done' = done /\ State' = State /\ dma' = dma
      /\ card_busy' = card_busy /\ disk' = disk /\ stale' = stale
  BY DEF StartBusy, StartFails, Leave, SdInv, TypeOK, halVars
<1>2. TypeOK'
  BY <1>1 DEF SdInv, TypeOK
<1>3. OneTransfer' /\ CallKnown'
  BY <1>1 DEF SdInv, TypeOK, OneTransfer, CallKnown
<1>4. Quiet => Quiet'
  BY <1>1 DEF SdInv, TypeOK, OneTransfer, Quiet
<1> QED BY <1>2, <1>3, <1>4 DEF SdInv

(* A call as long as the callers make them does not wrap the range check.  *)
LEMMA NoWrap ==
  ASSUME NEW A \in Nat, NEW L \in Nat, NEW l \in Nat, NEW n \in 0 .. A - L,
         l < L, (l + n) % A <= L
  PROVE  l + n <= L
<1>1. l + n \in Nat /\ l + n < A
  OBVIOUS
<1>2. (l + n) % A = l + n
  <2> DEFINE x == l + n
  <2>1. x \in Nat /\ x < A
    BY <1>1
  <2> HIDE DEF x
  <2>2. x % A = x
    BY <2>1
  <2> QED BY <2>2 DEF x
<1> QED BY <1>2

(* A transfer starts.                                                      *)
LEMMA StartTransferInv ==
  ASSUME SdInv, NEW t \in Tasks, StartTransfer(t)
  PROVE  SdInv' /\ (Quiet => Quiet')
<1>1. /\ req[t] \in [op : {"none", "read", "write"}, lba : Nat, n : Nat,
                     data : Transfers \cup {<< >>}, moved : Nat]
      /\ pc[t] = "start" /\ sd2_io_mutex = t
  BY DEF SdInv, TypeOK, OneTransfer, StartTransfer
<1>2. /\ dma' = [active |-> TRUE, op |-> req[t].op, task |-> t,
                 lba |-> req[t].lba, n |-> req[t].n, moved |-> 0]
      /\ State' = "BUSY" /\ ErrorCode' = FALSE
      /\ pc' = [pc EXCEPT ![t] = "flag"]
      /\ stale' \in {stale \cup {t}, stale}
      /\ UNCHANGED <<sd2_io_mutex, sd2_ready, req, rc, done, card_busy, disk>>
      /\ InRange(req[t]) /\ req[t].lba < LogBlockNbr
  BY DEF StartTransfer
<1>3. SdInv'
  <2>1. dma' \in [active : BOOLEAN, op : {"none", "read", "write"},
                  task : Tasks \cup {"none"}, lba : Nat, n : Nat, moved : Nat]
        /\ dma'.moved <= dma'.n /\ dma'.active /\ dma'.task \in Tasks
    <3>1. req[t].n \in Nat
      BY <1>1, StorageAssumption
    <3> QED BY <1>1, <1>2, <3>1
  <2> DEFINE lba == req[t].lba
             n == req[t].n
  <2>6. dma'.lba + dma'.n <= LogBlockNbr
    <3>1. /\ lba \in Nat /\ n \in 0 .. AddressSpace - LogBlockNbr /\ lba < LogBlockNbr
          /\ LogBlockNbr \in Nat /\ AddressSpace \in Nat
          /\ (lba + n) % AddressSpace <= LogBlockNbr
      <4>1. n \in Lengths
        BY DEF SdInv, CallKnown
      <4>2. (lba + n) % AddressSpace <= LogBlockNbr /\ lba < LogBlockNbr
        BY <1>2 DEF InRange
      <4>3. lba \in Nat
        BY <1>1
      <4> HIDE DEF lba, n
      <4> QED BY <4>1, <4>2, <4>3, StorageAssumption DEF Lengths
    <3>2. dma'.lba = lba /\ dma'.n = n
      BY <1>2
    <3> HIDE DEF lba, n
    <3>3. lba + n <= LogBlockNbr
      BY <3>1, NoWrap
    <3> QED BY <3>2, <3>3
  <2>2. pc' \in [Tasks -> {"idle", "lock", "clear", "start", "flag", "error",
                           "card", "unlock"}]
    BY <1>2 DEF SdInv, TypeOK
  <2>3. TypeOK'
    BY <1>2, <2>1, <2>2, <2>6 DEF SdInv, TypeOK
  <2>4. OneTransfer'
    BY <1>1, <1>2, <2>1 DEF SdInv, TypeOK, OneTransfer
  <2>5. CallKnown'
    BY <1>1, <1>2 DEF SdInv, TypeOK, CallKnown
  <2> QED BY <2>3, <2>4, <2>5 DEF SdInv
<1>4. Quiet => Quiet'
  BY <1>1, <1>2 DEF SdInv, TypeOK, Quiet
<1> QED BY <1>3, <1>4

(* sd_wait_done_flag within its 5 s.                                       *)
LEMMA WaitInv ==
  ASSUME SdInv, NEW t \in Tasks, WaitFlag(t) \/ WaitError(t)
  PROVE  SdInv' /\ (Quiet => Quiet')
<1>1. CASE WaitFlag(t)
  <2>1. TypeOK'
    BY <1>1 DEF WaitFlag, SdInv, TypeOK, halVars
  <2>2. OneTransfer'
    BY <1>1 DEF WaitFlag, SdInv, TypeOK, OneTransfer, halVars
  <2>3. CallKnown'
    BY <1>1 DEF WaitFlag, SdInv, TypeOK, CallKnown
  <2>4. Quiet => Quiet'
    BY <1>1 DEF WaitFlag, SdInv, TypeOK, Quiet, halVars
  <2> QED BY <2>1, <2>2, <2>3, <2>4 DEF SdInv
<1>2. CASE WaitError(t)
  <2>1. SdInv'
    <3>1. /\ pc[t] = "error"
          /\ \E where \in {"unlock", "flag"} : pc' = [pc EXCEPT ![t] = where]
          /\ rc' \in [Tasks -> {"none", "OK", "ERROR"}]
          /\ sd2_io_mutex' = sd2_io_mutex /\ sd2_ready' = sd2_ready /\ req' = req
          /\ done' = done /\ State' = State /\ ErrorCode' = ErrorCode /\ dma' = dma
          /\ card_busy' = card_busy /\ disk' = disk /\ stale' = stale
      BY <1>2 DEF WaitError, Leave, SdInv, TypeOK, halVars
    <3>2. TypeOK'
      <4>1. pc' \in [Tasks -> {"idle", "lock", "clear", "start", "flag", "error",
                               "card", "unlock"}]
        BY <3>1 DEF SdInv, TypeOK
      <4> QED BY <3>1, <4>1 DEF SdInv, TypeOK
    <3>3. OneTransfer'
      BY <3>1 DEF SdInv, TypeOK, OneTransfer
    <3>4. CallKnown'
      BY <3>1 DEF SdInv, TypeOK, CallKnown
    <3> QED BY <3>2, <3>3, <3>4 DEF SdInv
  <2>2. Quiet => Quiet'
    BY <1>2 DEF WaitError, Leave, SdInv, TypeOK, OneTransfer, Quiet, halVars
  <2> QED BY <2>1, <2>2
<1> QED BY <1>1, <1>2

(* sd_wait_done_flag after 5 s.                                            *)
LEMMA WaitTimeoutInv ==
  ASSUME SdInv, NEW t \in Tasks, WaitTimeout(t)
  PROVE  SdInv' /\ LateAnswers
<1>1. LateAnswers
  BY DEF WaitTimeout
<1>2. TypeOK'
  BY DEF WaitTimeout, Leave, SdInv, TypeOK, halVars
<1>3. OneTransfer'
  BY DEF WaitTimeout, Leave, SdInv, TypeOK, OneTransfer, halVars
<1>4. CallKnown'
  BY DEF WaitTimeout, Leave, SdInv, TypeOK, CallKnown
<1> QED BY <1>1, <1>2, <1>3, <1>4 DEF SdInv

(* sd_wait_card_transfer.                                                  *)
LEMMA CardInv ==
  ASSUME SdInv, NEW t \in Tasks, CardTransfer(t) \/ CardTimeout(t)
  PROVE  SdInv' /\ (Quiet => Quiet')
<1>1. /\ pc[t] = "card" /\ pc' = [pc EXCEPT ![t] = "unlock"]
      /\ rc' \in [Tasks -> {"none", "OK", "ERROR"}]
      /\ sd2_io_mutex' = sd2_io_mutex /\ sd2_ready' = sd2_ready /\ req' = req
      /\ done' = done /\ State' = State /\ ErrorCode' = ErrorCode /\ dma' = dma
      /\ card_busy' = card_busy /\ disk' = disk /\ stale' = stale
  BY DEF CardTransfer, CardTimeout, Leave, SdInv, TypeOK, halVars
<1>2. TypeOK'
  BY <1>1 DEF SdInv, TypeOK
<1>3. OneTransfer' /\ CallKnown'
  BY <1>1 DEF SdInv, TypeOK, OneTransfer, CallKnown
<1>4. Quiet => Quiet'
  BY <1>1 DEF SdInv, TypeOK, OneTransfer, Quiet
<1> QED BY <1>2, <1>3, <1>4 DEF SdInv

(* sd_storage_unlock: no other task is past the lock.                      *)
LEMMA UnlockInv ==
  ASSUME SdInv, NEW t \in Tasks, Unlock(t)
  PROVE  SdInv' /\ (Quiet => Quiet')
<1>1. \A u \in Tasks \ {t} : pc[u] \in {"idle", "lock"}
  BY DEF Unlock, SdInv, OneTransfer
<1>2. TypeOK'
  BY NoCallTyped DEF Unlock, Return, SdInv, TypeOK, halVars
<1>3. OneTransfer'
  BY <1>1 DEF Unlock, Return, SdInv, TypeOK, OneTransfer, halVars
<1>4. CallKnown'
  BY NoCallTyped DEF Unlock, Return, SdInv, TypeOK, CallKnown
<1>5. Quiet => Quiet'
  BY <1>1 DEF Unlock, Return, SdInv, TypeOK, OneTransfer, Quiet, halVars
<1> QED BY <1>2, <1>3, <1>4, <1>5 DEF SdInv

(* The DMA moves a block.                                                  *)
LEMMA MoveBlockInv ==
  ASSUME SdInv, MoveBlock
  PROVE  SdInv' /\ (Quiet => Quiet')
<1> DEFINE u == dma.task
<1>1. /\ dma.active /\ u \in Tasks /\ dma.moved \in Nat /\ dma.n \in Nat
      /\ dma.moved < dma.n
      /\ dma' = [dma EXCEPT !.moved = dma.moved + 1]
      /\ req' = [req EXCEPT ![u].moved = IF @ < req[u].n THEN @ + 1 ELSE @]
      /\ stale' \in {stale \cup {u}, stale}
      /\ UNCHANGED <<sd2_io_mutex, sd2_ready, pc, rc, done, State, ErrorCode, card_busy>>
  BY DEF MoveBlock, SdInv, TypeOK
<1>2. DOMAIN disk' = DOMAIN disk
  BY DEF MoveBlock
<1>3. /\ req' \in [Tasks -> [op : {"none", "read", "write"}, lba : Nat, n : Nat,
                            data : Transfers \cup {<< >>}, moved : Nat]]
      /\ \A t \in Tasks : req'[t].op = req[t].op /\ req'[t].n = req[t].n
  <2>1. req[u].moved \in Nat /\ req[u].n \in Nat
    BY <1>1, StorageAssumption DEF SdInv, TypeOK
  <2>2. (IF req[u].moved < req[u].n THEN req[u].moved + 1 ELSE req[u].moved) \in Nat
    BY <2>1
  <2>3. PICK k \in Nat : req' = [req EXCEPT ![u].moved = k]
    BY <1>1, <2>2
  <2>4. /\ req \in [Tasks -> [op : {"none", "read", "write"}, lba : Nat, n : Nat,
                             data : Transfers \cup {<< >>}, moved : Nat]]
        /\ u \in Tasks
    BY <1>1 DEF SdInv, TypeOK
  <2> HIDE DEF u
  <2> QED BY <2>3, <2>4
<1>4. /\ dma' \in [active : BOOLEAN, op : {"none", "read", "write"},
                  task : Tasks \cup {"none"}, lba : Nat, n : Nat, moved : Nat]
      /\ dma'.lba = dma.lba /\ dma'.n = dma.n
      /\ dma'.moved <= dma'.n /\ dma'.active /\ dma'.task = u /\ dma'.op = dma.op
  <2>1. /\ dma \in [active : BOOLEAN, op : {"none", "read", "write"},
                    task : Tasks \cup {"none"}, lba : Nat, n : Nat, moved : Nat]
        /\ dma.active /\ dma.task = u
    BY <1>1 DEF SdInv, TypeOK
  <2>2. PICK k \in Nat : k = dma.moved + 1 /\ k <= dma.n /\ dma' = [dma EXCEPT !.moved = k]
    <3>1. dma.moved + 1 \in Nat /\ dma.moved + 1 <= dma.n
      BY <1>1
    <3> QED BY <1>1, <3>1
  <2> HIDE DEF u
  <2> QED BY <2>1, <2>2
<1> HIDE DEF u
<1>5. TypeOK'
  BY <1>1, <1>2, <1>3, <1>4 DEF SdInv, TypeOK
<1>6. OneTransfer' /\ CallKnown'
  <2>1. pc' = pc /\ State' = State /\ sd2_io_mutex' = sd2_io_mutex
    BY <1>1
  <2>2. dma.active = TRUE /\ dma'.active = TRUE
    BY <1>1, <1>4 DEF SdInv, TypeOK
  <2>3. OneTransfer'
    BY <2>1, <2>2 DEF SdInv, OneTransfer
  <2>4. CallKnown'
    BY <1>3, <2>1 DEF SdInv, CallKnown
  <2> QED BY <2>3, <2>4
<1>7. Quiet => Quiet'
  BY <1>1, <1>3, <1>4 DEF Quiet, u
<1> QED BY <1>5, <1>6, <1>7 DEF SdInv

(* HAL_SD_IRQHandler ends the transfer.                                    *)
LEMMA EndInv ==
  ASSUME SdInv, SDMMC2_IRQHandler \/ CardReady
  PROVE  SdInv' /\ (Quiet => Quiet')
<1>1. CASE DataEnd
  <2>1. SdInv'
    <3>1. /\ done' = [done EXCEPT ![dma.op] = TRUE] /\ dma' = NoDma
          /\ State' = "READY" /\ ErrorCode' \in BOOLEAN /\ card_busy' \in BOOLEAN
          /\ UNCHANGED <<sd2_io_mutex, sd2_ready, pc, req, rc, disk, stale>>
      BY <1>1 DEF DataEnd, SdInv, TypeOK
    <3>2. done' \in [read : BOOLEAN, write : BOOLEAN]
      BY <3>1 DEF SdInv, TypeOK
    <3>3. TypeOK'
      BY <3>1, <3>2, NoDmaTyped DEF SdInv, TypeOK
    <3>4. OneTransfer' /\ CallKnown'
      BY <3>1, NoDmaTyped DEF SdInv, OneTransfer, CallKnown
    <3> QED BY <3>3, <3>4 DEF SdInv
  <2>2. Quiet => Quiet'
    <3> SUFFICES ASSUME Quiet, NEW t \in Tasks, pc[t] = "start" PROVE FALSE
      BY <1>1 DEF DataEnd, NoDma, Quiet
    <3>1. sd2_io_mutex = t
      BY DEF SdInv, OneTransfer
    <3> QED BY <1>1, <3>1 DEF DataEnd, Quiet
  <2> QED BY <2>1, <2>2
<1>2. CASE DataError
  <2>1. /\ dma' = NoDma /\ State' = "READY" /\ ErrorCode' \in BOOLEAN
        /\ card_busy' \in BOOLEAN
        /\ UNCHANGED <<sd2_io_mutex, sd2_ready, pc, req, rc, done, disk, stale>>
    BY <1>2 DEF DataError
  <2>2. TypeOK'
    BY <2>1, NoDmaTyped DEF SdInv, TypeOK
  <2>3. OneTransfer' /\ CallKnown'
    BY <2>1, NoDmaTyped DEF SdInv, OneTransfer, CallKnown
  <2>4. Quiet => Quiet'
    BY <2>1, NoDmaTyped DEF Quiet
  <2> QED BY <2>2, <2>3, <2>4 DEF SdInv
<1>3. CASE CardReady
  BY <1>3 DEF CardReady, SdInv, TypeOK, OneTransfer, CallKnown, Quiet
<1> QED BY <1>1, <1>2, <1>3 DEF SDMMC2_IRQHandler

(* Every step.                                                             *)
LEMMA NextInv ==
  ASSUME SdInv, [Next]_vars
  PROVE  SdInv' /\ (Quiet /\ ~LateAnswers => Quiet')
<1>1. CASE CreateMutex \/ CardInitialised
  BY <1>1, StartUpInv
<1>2. ASSUME NEW t \in Tasks,
             \/ \E lba \in Lbas, data \in Transfers : WriteCall(t, lba, data)
             \/ \E lba \in Lbas, n \in Counts : ReadCall(t, lba, n)
      PROVE  SdInv' /\ (Quiet /\ ~LateAnswers => Quiet')
  BY <1>2, CallInv
<1>3. ASSUME NEW t \in Tasks, TaskStep(t)
      PROVE  SdInv' /\ (Quiet /\ ~LateAnswers => Quiet')
  BY <1>3, LockInv, ClearDoneInv, StartRefusedInv, StartTransferInv, WaitInv,
     WaitTimeoutInv, CardInv, UnlockInv DEF TaskStep
<1>4. CASE MoveBlock
  BY <1>4, MoveBlockInv
<1>5. CASE SDMMC2_IRQHandler \/ CardReady
  BY <1>5, EndInv
<1>6. CASE UNCHANGED vars
  BY <1>6 DEF vars, halVars, SdInv, TypeOK, OneTransfer, CallKnown, Quiet
<1> QED BY <1>1, <1>2, <1>3, <1>4, <1>5, <1>6 DEF Next
-----------------------------------------------------------------------------
(* Whatever times out, SdInv holds in every reachable state.               *)
THEOREM Invariance == Spec => []SdInv
<1>1. Init => SdInv
  BY InitInv
<1>2. SdInv /\ [Next]_vars => SdInv'
  BY NextInv
<1> QED BY <1>1, <1>2, PTL DEF Spec

(* Mutex, card and transfer stay in their ranges (HAL_SD_IRQHandler,       *)
(* sd_storage_lock).                                                       *)
THEOREM StorageTypes == Spec => []TypeOK
<1>1. SdInv => TypeOK
  BY DEF SdInv
<1> QED BY <1>1, Invariance, PTL

(* The HAL is busy exactly while a transfer runs and only the holder of    *)
(* the mutex is past the lock, also after calls that timed out.            *)
THEOREM OneTransferAlways == Spec => []OneTransfer
<1>1. SdInv => OneTransfer
  BY DEF SdInv
<1> QED BY <1>1, Invariance, PTL

(* When no transfer outlasts the 5 s of sd_wait_done_flag, the DMA works   *)
(* only for the task that holds the lock and waits for it.                 *)
THEOREM NoStrayDmaInTime == ~LateAnswers => (Spec => []NoStrayDma)
<1> SUFFICES ASSUME ~LateAnswers PROVE Spec => []NoStrayDma
  OBVIOUS
<1>1. Init => SdInv /\ Quiet
  BY InitInv
<1>2. (SdInv /\ Quiet) /\ [Next]_vars => (SdInv /\ Quiet)'
  BY NextInv
<1>3. SdInv /\ Quiet => NoStrayDma
  BY DEF Quiet, NoStrayDma
<1> QED BY <1>1, <1>2, <1>3, PTL DEF Spec
-----------------------------------------------------------------------------
(* What a block can hold.                                                  *)
Contents == {Blank} \cup UNION {{data[i] : i \in 1 .. Len(data)} : data \in Transfers}

(* Card and buffers hold blocks.                                           *)
Blocks == /\ disk \in [0 .. LogBlockNbr - 1 -> Contents]
          /\ buf \in [Tasks -> Seq(Contents)]

(* The transfer that runs is the one task t's call started.                *)
Running(t) == /\ dma.active /\ dma.task = t
              /\ dma.op = req[t].op /\ dma.lba = req[t].lba /\ dma.n = req[t].n

(* The first k blocks of t's call are on the card as in the buffer.        *)
Matches(t, k) ==
  \A i \in 1 .. k :
    disk[req[t].lba + i - 1] = IF req[t].op = "write" THEN req[t].data[i] ELSE buf[t][i]

(* A call that no late transfer of an earlier call has touched: its buffer *)
(* is its own; while it waits, its transfer runs and the flag is clear, or *)
(* it is over, and the flag is set only if all blocks have been moved;     *)
(* none runs when it reports success.                                      *)
InHand(t) ==
  /\ req[t].op = "read"  => Len(buf[t]) = req[t].n
  /\ req[t].op = "write" => Len(req[t].data) = req[t].n
  /\ req[t].op = "write" /\ pc[t] \in {"lock", "clear", "start", "flag", "error"}
       => buf[t] = req[t].data
  /\ pc[t] \in {"flag", "error", "card"} =>
       \/ Running(t) /\ ~done[req[t].op] /\ pc[t] # "card" /\ Matches(t, dma.moved)
       \/ ~dma.active /\ (done[req[t].op] \/ pc[t] = "card" => Matches(t, req[t].n))
  /\ pc[t] = "unlock" /\ rc[t] = "OK" => ~dma.active /\ Matches(t, req[t].n)

RealInv == Blocks /\ (dma.active => dma.op # "none") /\ \A t \in Tasks \ stale : InHand(t)

(* What the invariant says of the types, for the proofs below.             *)
LEMMA Typed ==
  ASSUME SdInv
  PROVE  /\ DOMAIN pc = Tasks /\ DOMAIN req = Tasks /\ DOMAIN rc = Tasks
         /\ \A t \in Tasks : /\ req[t].op \in {"none", "read", "write"}
                             /\ pc[t] # "idle" => req[t].op # "none"
                             /\ req[t].lba \in Nat /\ req[t].n \in Nat /\ req[t].moved \in Nat
         /\ done \in [read : BOOLEAN, write : BOOLEAN]
         /\ dma.moved \in Nat /\ dma.n \in Nat /\ dma.lba \in Nat /\ dma.moved <= dma.n
         /\ dma.op \in {"none", "read", "write"}
         /\ dma.active => dma.task \in Tasks /\ dma.lba + dma.n <= LogBlockNbr
         /\ LogBlockNbr \in Nat
BY StorageAssumption DEF SdInv, TypeOK, CallKnown

(* Blocks that callers write are blocks.                                   *)
LEMMA TransfersAreBlocks ==
  ASSUME NEW data \in Transfers
  PROVE  data \in Seq(Contents) /\ Len(data) \in Nat
<1>1. Len(data) \in Nat /\ data = [i \in 1 .. Len(data) |-> data[i]]
  BY StorageAssumption
<1>2. \A i \in 1 .. Len(data) : data[i] \in Contents
  BY DEF Contents
<1> DEFINE n == Len(data)
<1> HIDE DEF n
<1>3. [i \in 1 .. n |-> data[i]] \in Seq(Contents)
  BY <1>1, <1>2 DEF n
<1> QED
  BY <1>1, <1>3 DEF n

(* A step that moves nothing and leaves a task where it is.                *)
LEMMA HandKept ==
  ASSUME NEW t \in Tasks, InHand(t), UNCHANGED <<dma, done, disk>>,
         req'[t] = req[t], buf'[t] = buf[t], pc'[t] = pc[t], rc'[t] = rc[t]
  PROVE  InHand(t)'
BY DEF InHand, Running, Matches

(* A task at the lock does not see what the DMA and the others do.         *)
LEMMA HandOutside ==
  ASSUME NEW t \in Tasks, InHand(t), pc[t] \in {"idle", "lock"},
         req'[t] = req[t], buf'[t] = buf[t], pc'[t] = pc[t]
  PROVE  InHand(t)'
BY DEF InHand

(* A call that has failed promises nothing.                                *)
LEMMA HandFailed ==
  ASSUME NEW t \in Tasks, InHand(t), req'[t] = req[t], buf'[t] = buf[t],
         pc'[t] = "unlock", rc'[t] = "ERROR"
  PROVE  InHand(t)'
BY DEF InHand

(* A task that is not calling has nothing in hand.                         *)
LEMMA HandEmpty ==
  ASSUME NEW t \in Tasks, req'[t] = NoCall, pc'[t] = "idle"
  PROVE  InHand(t)'
BY DEF InHand, NoCall

(* A call begins.                                                          *)
LEMMA CallReal ==
  ASSUME SdInv, RealInv, NEW t \in Tasks,
         \/ \E lba \in Lbas, data \in Transfers : WriteCall(t, lba, data)
         \/ \E lba \in Lbas, n \in Counts : ReadCall(t, lba, n)
  PROVE  RealInv'
<1>1. /\ pc' = [pc EXCEPT ![t] = "lock"] /\ rc' = [rc EXCEPT ![t] = "none"]
      /\ stale' = stale \ {t} /\ UNCHANGED <<dma, done, disk>>
      /\ \A u \in Tasks \ {t} : req'[u] = req[u] /\ buf'[u] = buf[u]
      /\ DOMAIN buf' = Tasks
  BY Typed DEF WriteCall, ReadCall, halVars, RealInv, Blocks
<1>2. InHand(t)' /\ buf'[t] \in Seq(Contents)
  <2>1. pc'[t] = "lock"
    BY <1>1, Typed
  <2>2. ASSUME NEW lba \in Lbas, NEW data \in Transfers, WriteCall(t, lba, data)
        PROVE  InHand(t)' /\ buf'[t] \in Seq(Contents)
    <3>1. /\ req'[t].op = "write" /\ req'[t].data = data /\ req'[t].n = Len(data)
          /\ buf'[t] = data
      BY <2>2, Typed DEF WriteCall, RealInv, Blocks
    <3> QED
      BY <2>1, <3>1, TransfersAreBlocks DEF InHand
  <2>3. ASSUME NEW lba \in Lbas, NEW n \in Counts, ReadCall(t, lba, n)
        PROVE  InHand(t)' /\ buf'[t] \in Seq(Contents)
    <3>1. req'[t].op = "read" /\ req'[t].n = n /\ buf'[t] = [i \in 1 .. n |-> Blank]
      BY <2>3, Typed DEF ReadCall, RealInv, Blocks
    <3>2. n \in Nat /\ Blank \in Contents
      BY StorageAssumption DEF Contents
    <3>3. buf'[t] \in Seq(Contents) /\ Len(buf'[t]) = n
      BY <3>1, <3>2
    <3> QED
      BY <2>1, <3>1, <3>3 DEF InHand
  <2> QED
    BY <2>2, <2>3
<1>3. Blocks'
  <2>1. \A u \in Tasks : buf'[u] \in Seq(Contents)
    BY <1>1, <1>2 DEF RealInv, Blocks
  <2>2. buf' = [u \in Tasks |-> buf'[u]]
    BY DEF WriteCall, ReadCall, RealInv, Blocks
  <2> QED
    BY <1>1, <2>1, <2>2 DEF RealInv, Blocks
<1>4. ASSUME NEW u \in Tasks \ {t}, u \notin stale'
      PROVE  InHand(u)'
  <2>1. pc'[u] = pc[u] /\ rc'[u] = rc[u] /\ u \notin stale
    BY <1>1, <1>4, Typed
  <2> QED
    BY <1>1, <2>1, HandKept DEF RealInv
<1> QED
  BY <1>1, <1>2, <1>3, <1>4 DEF RealInv

(* A task's step before its transfer, while it waits and when it leaves.   *)
LEMMA TaskReal ==
  ASSUME SdInv, RealInv, NEW t \in Tasks, TaskStep(t)
  PROVE  RealInv'
<1>1. /\ UNCHANGED disk /\ pc' = [pc EXCEPT ![t] = pc'[t]]
      /\ \A u \in Tasks \ {t} : /\ req'[u] = req[u] /\ buf'[u] = buf[u]
                                /\ pc'[u] = pc[u] /\ rc'[u] = rc[u]
      /\ stale \subseteq stale'
      /\ buf' = buf \/ buf' = [buf EXCEPT ![t] = << >>]
  BY Typed DEF TaskStep, TakeLock, LockFails, ClearDone, StartBusy, StartFails, StartTransfer,
     WaitFlag, WaitError, WaitTimeout, CardTransfer, CardTimeout, Unlock, Leave, Return, halVars,
     RealInv, Blocks
<1>5. dma'.active => dma'.op # "none"
  <2>1. CASE UNCHANGED dma
    BY <2>1 DEF RealInv
  <2>2. CASE StartTransfer(t)
    BY <2>2, Typed DEF StartTransfer
  <2> QED
    BY <2>1, <2>2 DEF TaskStep, TakeLock, LockFails, ClearDone, StartBusy, StartFails,
       WaitFlag, WaitError, WaitTimeout, CardTransfer, CardTimeout, Unlock, halVars
<1>2. Blocks'
  <2>1. << >> \in Seq(Contents)
    OBVIOUS
  <2> QED
    BY <1>1, <2>1 DEF RealInv, Blocks
<1>3. ASSUME NEW u \in Tasks \ {t}, u \notin stale'
      PROVE  InHand(u)'
  <2>1. InHand(u)
    BY <1>1, <1>3 DEF RealInv
  <2>2. CASE UNCHANGED <<dma, done>>
    BY <1>1, <2>1, <2>2, HandKept
  <2>3. CASE pc[t] \in {"clear", "start"}
    <3>1. pc[u] \in {"idle", "lock"}
      <4>1. sd2_io_mutex = t
        BY <2>3 DEF SdInv, OneTransfer
      <4>2. pc[u] \notin {"idle", "lock"} => sd2_io_mutex = u
        BY DEF SdInv, OneTransfer
      <4> QED
        BY <4>1, <4>2
    <3> QED
      BY <1>1, <2>1, <3>1, HandOutside
  <2>4. UNCHANGED <<dma, done>> \/ pc[t] \in {"clear", "start"}
    BY DEF TaskStep, TakeLock, LockFails, ClearDone, StartBusy, StartFails, StartTransfer,
       WaitFlag, WaitError, WaitTimeout, CardTransfer, CardTimeout, Unlock, halVars
  <2> QED
    BY <2>2, <2>3, <2>4
<1>4. ASSUME t \notin stale'
      PROVE  InHand(t)'
  <2>1. InHand(t)
    BY <1>1, <1>4 DEF RealInv
  <2>2. CASE TakeLock(t)
    <3>1. /\ pc[t] = "lock" /\ pc'[t] = "clear"
          /\ UNCHANGED <<req, buf>>
      BY <2>2, Typed DEF TakeLock
    <3> QED
      BY <2>1, <3>1 DEF InHand
  <2>3. CASE LockFails(t) \/ Unlock(t)
    <3>1. req'[t] = NoCall /\ pc'[t] = "idle"
      BY <2>3, Typed DEF LockFails, Unlock, Return
    <3> QED
      BY <3>1, HandEmpty
  <2>4. CASE ClearDone(t)
    <3>1. pc[t] = "clear" /\ UNCHANGED <<req, buf>>
      BY <2>4 DEF ClearDone
    <3>2. CASE sd2_ready
      <4>1. pc'[t] = "start"
        BY <2>4, <3>2, Typed DEF ClearDone
      <4> QED
        BY <2>1, <3>1, <4>1 DEF InHand
    <3>3. CASE ~sd2_ready
      <4>1. pc'[t] = "unlock" /\ rc'[t] = "ERROR"
        BY <2>4, <3>3, Typed DEF ClearDone, Leave
      <4> QED
        BY <2>1, <3>1, <4>1, HandFailed
    <3> QED
      BY <3>2, <3>3
  <2>5. CASE StartBusy(t) \/ StartFails(t) \/ WaitTimeout(t) \/ CardTimeout(t)
    <3>1. UNCHANGED <<req, buf>> /\ pc'[t] = "unlock" /\ rc'[t] = "ERROR"
      BY <2>5, Typed DEF StartBusy, StartFails, WaitTimeout, CardTimeout, Leave
    <3> QED
      BY <2>1, <3>1, HandFailed
  <2>6. CASE StartTransfer(t)
    <3>1. /\ pc[t] = "start" /\ pc'[t] = "flag" /\ UNCHANGED <<req, buf, done, disk>>
          /\ dma' = [active |-> TRUE, op |-> req[t].op, task |-> t, lba |-> req[t].lba,
                     n |-> req[t].n, moved |-> 0]
          /\ ~done[req[t].op]
      BY <1>4, <2>6, Typed DEF StartTransfer
    <3>2. Running(t)' /\ Matches(t, dma.moved)'
      BY <3>1 DEF Running, Matches
    <3> QED
      BY <2>1, <3>1, <3>2 DEF InHand
  <2>7. CASE WaitFlag(t)
    <3>1. /\ pc[t] = "flag" /\ pc'[t] = IF done[req[t].op] THEN "card" ELSE "error"
          /\ UNCHANGED <<req, buf, rc, dma, done, disk>>
      BY <2>7, Typed DEF WaitFlag, halVars
    <3> QED
      BY <2>1, <3>1 DEF InHand, Running, Matches
  <2>8. CASE WaitError(t)
    <3>1. pc[t] = "error" /\ UNCHANGED <<req, buf, dma, done, disk>>
      BY <2>8 DEF WaitError, halVars
    <3>2. CASE ErrorCode
      <4>1. pc'[t] = "unlock" /\ rc'[t] = "ERROR"
        BY <2>8, <3>2, Typed DEF WaitError, Leave
      <4> QED
        BY <2>1, <3>1, <4>1, HandFailed
    <3>3. CASE ~ErrorCode
      <4>1. pc'[t] = "flag"
        BY <2>8, <3>3, Typed DEF WaitError
      <4> QED
        BY <2>1, <3>1, <4>1 DEF InHand, Running, Matches
    <3> QED
      BY <3>2, <3>3
  <2>9. CASE CardTransfer(t)
    <3>1. /\ pc[t] = "card" /\ ~dma.active /\ pc'[t] = "unlock"
          /\ UNCHANGED <<req, buf, dma, done, disk>>
      BY <2>9, Typed DEF CardTransfer, Leave, halVars
    <3> QED
      BY <2>1, <3>1 DEF InHand, Running, Matches
  <2> QED
    BY <2>2, <2>3, <2>4, <2>5, <2>6, <2>7, <2>8, <2>9 DEF TaskStep
<1> QED
  BY <1>2, <1>3, <1>4, <1>5 DEF RealInv

(* The end of a transfer: all of its blocks are moved when it ends well.   *)
LEMMA EndReal ==
  ASSUME SdInv, RealInv, SDMMC2_IRQHandler \/ CardReady
  PROVE  RealInv'
<1>1. /\ UNCHANGED <<pc, req, rc, buf, disk, stale>>
  BY DEF SDMMC2_IRQHandler, DataEnd, DataError, CardReady
<1>2. Blocks'
  BY <1>1 DEF RealInv, Blocks
<1>3. ASSUME NEW t \in Tasks, InHand(t)
      PROVE  InHand(t)'
  <2>1. CASE CardReady
    <3>1. UNCHANGED <<dma, done>>
      BY <2>1 DEF CardReady
    <3> QED
      BY <1>1, <1>3, <3>1, HandKept
  <2>2. CASE SDMMC2_IRQHandler
    <3>1. dma.active /\ ~dma'.active
      BY <2>2, NoDmaTyped DEF SDMMC2_IRQHandler, DataEnd, DataError
    <3>2. ~(pc[t] = "unlock" /\ rc[t] = "OK")
      BY <1>3, <3>1 DEF InHand
    <3>3. ASSUME pc[t] \in {"flag", "error", "card"}
          PROVE  done'[req[t].op] \/ pc[t] = "card" => Matches(t, req[t].n)
      <4>1. Running(t) /\ ~done[req[t].op] /\ pc[t] # "card" /\ Matches(t, dma.moved)
        BY <1>3, <3>1, <3>3 DEF InHand
      <4>2. CASE DataEnd
        BY <4>1, <4>2 DEF DataEnd, Running
      <4>3. CASE DataError
        BY <4>1, <4>3 DEF DataError
      <4> QED
        BY <2>2, <4>2, <4>3 DEF SDMMC2_IRQHandler
    <3> QED
      BY <1>1, <1>3, <3>1, <3>2, <3>3 DEF InHand, Matches
  <2> QED
    BY <2>1, <2>2
<1>4. dma'.active => dma'.op # "none"
  BY NoDmaTyped DEF SDMMC2_IRQHandler, DataEnd, DataError, CardReady, RealInv
<1> QED
  BY <1>1, <1>2, <1>3, <1>4 DEF RealInv

(* A block moves: the one whose turn it is, for the task whose call it is  *)
(* or, late, into the buffer of one that is then stale.                    *)
LEMMA MoveReal ==
  ASSUME SdInv, RealInv, MoveBlock
  PROVE  RealInv'
<1>1. /\ dma.task \in Tasks /\ dma.active
      /\ dma.lba + dma.moved \in 0 .. LogBlockNbr - 1
      /\ dma.moved \in Nat /\ dma.moved + 1 \in 1 .. dma.n /\ dma.lba \in Nat /\ dma.n \in Nat
  BY Typed DEF MoveBlock
<1>0. PICK u \in Tasks, i \in 1 .. dma.n, b \in 0 .. LogBlockNbr - 1 :
        u = dma.task /\ i = dma.moved + 1 /\ b = dma.lba + dma.moved
  BY <1>1
<1>2. /\ dma' = [dma EXCEPT !.moved = i]
      /\ UNCHANGED <<pc, rc, done>>
      /\ \A t \in Tasks : /\ req'[t].op = req[t].op /\ req'[t].lba = req[t].lba
                          /\ req'[t].n = req[t].n /\ req'[t].data = req[t].data
  BY <1>0, Typed DEF MoveBlock, SdInv, TypeOK
<1>3. /\ dma'.moved = i /\ dma'.active = dma.active /\ dma'.task = u
      /\ dma'.op = dma.op /\ dma'.lba = dma.lba /\ dma'.n = dma.n
  BY <1>0, <1>2, Typed DEF SdInv, TypeOK
<1>4. /\ \A c \in DOMAIN disk : c # b => disk'[c] = disk[c]
      /\ dma.op = "write" =>
           buf' = buf /\ disk'[b] = IF i \in DOMAIN buf[u] THEN buf[u][i] ELSE Blank
      /\ dma.op # "write" =>
           /\ disk' = disk
           /\ buf' = [buf EXCEPT ![u] = [j \in DOMAIN @ |-> IF j = i THEN disk[b] ELSE @[j]]]
  BY <1>0, <1>1 DEF MoveBlock, RealInv, Blocks
<1>5. /\ disk \in [0 .. LogBlockNbr - 1 -> Contents] /\ buf \in [Tasks -> Seq(Contents)]
      /\ buf[u] \in Seq(Contents) /\ disk[b] \in Contents /\ Blank \in Contents
  BY <1>0, <1>1 DEF RealInv, Blocks, Contents
<1>6. /\ stale \subseteq stale'
      /\ dma.op = "read" /\ pc[u] \in {"lock", "clear", "start"} => u \in stale'
  BY <1>0 DEF MoveBlock
<1>7. Blocks'
  <2>1. CASE dma.op = "write"
    <3>1. (IF i \in DOMAIN buf[u] THEN buf[u][i] ELSE Blank) \in Contents
      BY <1>5
    <3>2. disk' = [disk EXCEPT ![b] = disk'[b]] /\ disk'[b] \in Contents
      BY <1>0, <1>1, <1>4, <1>5, <2>1, <3>1 DEF MoveBlock
    <3>3. disk' \in [0 .. LogBlockNbr - 1 -> Contents]
      BY <1>5, <3>2
    <3> QED
      BY <1>4, <1>5, <2>1, <3>3 DEF Blocks
  <2>2. CASE dma.op # "write"
    <3> DEFINE s == [j \in DOMAIN buf[u] |-> IF j = i THEN disk[b] ELSE buf[u][j]]
    <3>1. s \in Seq(Contents)
      BY <1>5
    <3> HIDE DEF s
    <3>2. buf' = [buf EXCEPT ![u] = s]
      BY <1>4, <2>2 DEF s
    <3> QED
      BY <1>0, <1>1, <1>4, <1>5, <2>2, <3>1, <3>2 DEF Blocks
  <2> QED
    BY <2>1, <2>2
<1>8. ASSUME NEW t \in Tasks \ {u}, t \notin stale'
      PROVE  InHand(t)'
  <2>1. InHand(t) /\ buf'[t] = buf[t]
    BY <1>0, <1>1, <1>4, <1>5, <1>6, <1>8 DEF RealInv
  <2>2. pc[t] \notin {"flag", "error", "card"} /\ ~(pc[t] = "unlock" /\ rc[t] = "OK")
    BY <1>0, <1>1, <1>8, <2>1 DEF InHand, Running
  <2> QED
    BY <1>2, <2>1, <2>2 DEF InHand
<1>9. ASSUME u \notin stale'
      PROVE  InHand(u)'
  <2>1. InHand(u)
    BY <1>0, <1>1, <1>6, <1>9 DEF RealInv
  <2>2. ~(pc[u] = "unlock" /\ rc[u] = "OK")
    BY <1>0, <1>1, <2>1 DEF InHand
  <2>3. Len(buf'[u]) = Len(buf[u])
    <3>1. CASE dma.op = "write"
      BY <1>4, <3>1
    <3>2. CASE dma.op # "write"
      <4>1. buf'[u] = [j \in DOMAIN buf[u] |-> IF j = i THEN disk[b] ELSE buf[u][j]]
        BY <1>0, <1>1, <1>4, <1>5, <3>2
      <4> QED
        BY <1>5, <4>1
    <3> QED
      BY <3>1, <3>2
  <2>4. CASE pc[u] \notin {"flag", "error", "card"}
    <3>1. CASE pc[u] \in {"lock", "clear", "start"}
      <4>1. dma.op = "write"
        <5>1. dma.op # "none"
          BY <1>0, <1>1 DEF RealInv
        <5> QED
          BY <1>6, <1>9, <3>1, <5>1, Typed
      <4> QED
        BY <1>2, <1>4, <2>1, <3>1, <4>1 DEF InHand
    <3>2. CASE pc[u] \notin {"lock", "clear", "start"}
      BY <1>2, <2>1, <2>2, <2>3, <2>4, <3>2 DEF InHand
    <3> QED
      BY <3>1, <3>2
  <2>5. CASE pc[u] \in {"flag", "error", "card"}
    <3>1. Running(u) /\ ~done[req[u].op] /\ pc[u] # "card" /\ Matches(u, dma.moved)
      BY <1>0, <1>1, <2>1, <2>5 DEF InHand
    <3>2. Running(u)'
      BY <1>2, <1>3, <3>1 DEF Running
    <3>3. ASSUME NEW k \in 1 .. i
          PROVE  disk'[req[u].lba + k - 1]
                   = IF req[u].op = "write" THEN req[u].data[k] ELSE buf'[u][k]
      <4>1. req[u].lba = dma.lba /\ req[u].op = dma.op /\ req[u].n = dma.n
        BY <3>1 DEF Running
      <4>2. dma.lba + k - 1 \in 0 .. LogBlockNbr - 1
        BY <1>0, <1>1, Typed, <3>3
      <4>3. CASE k # i
        <5>1. k \in 1 .. dma.moved /\ dma.lba + k - 1 # b
          BY <1>0, <1>1, <4>3
        <5>2. disk[dma.lba + k - 1] = IF dma.op = "write" THEN req[u].data[k] ELSE buf[u][k]
          BY <3>1, <4>1, <5>1 DEF Matches
        <5>3. disk'[dma.lba + k - 1] = disk[dma.lba + k - 1]
          BY <1>4, <1>5, <4>2, <5>1
        <5>4. CASE dma.op = "write"
          BY <4>1, <5>2, <5>3, <5>4
        <5>5. CASE dma.op # "write"
          <6>1. k \in DOMAIN buf[u]
            <7>1. Len(buf[u]) = dma.n
              BY <2>1, <4>1, <5>5, Typed, <2>5 DEF InHand
            <7>2. k \in 1 .. dma.n
              BY <1>0, <1>1
            <7> QED
              BY <1>5, <7>1, <7>2
          <6>2. buf'[u] = [j \in DOMAIN buf[u] |-> IF j = i THEN disk[b] ELSE buf[u][j]]
            BY <1>0, <1>1, <1>4, <1>5, <5>5
          <6>3. buf'[u][k] = buf[u][k]
            BY <4>3, <6>1, <6>2
          <6> QED
            BY <4>1, <5>2, <5>3, <5>5, <6>3
        <5> QED
          BY <5>4, <5>5
      <4>4. CASE k = i
        <5>1. dma.lba + k - 1 = b
          BY <1>0, <1>1, <4>4
        <5>2. CASE dma.op = "write"
          <6>1. buf[u] = req[u].data /\ Len(req[u].data) = dma.n
            BY <2>1, <2>5, <3>1, <4>1, <5>2 DEF InHand
          <6>2. i \in DOMAIN buf[u]
            BY <1>0, <1>1, <1>5, <6>1
          <6> QED
            BY <1>4, <4>1, <4>4, <5>1, <5>2, <6>1, <6>2
        <5>3. CASE dma.op # "write"
          <6>1. i \in DOMAIN buf[u]
            <7>1. Len(buf[u]) = dma.n
              BY <2>1, <4>1, <5>3, Typed, <2>5 DEF InHand
            <7> QED
              BY <1>0, <1>1, <1>5, <7>1
          <6>2. buf'[u] = [j \in DOMAIN buf[u] |-> IF j = i THEN disk[b] ELSE buf[u][j]]
            BY <1>0, <1>1, <1>4, <1>5, <5>3
          <6> QED
            BY <1>4, <4>1, <4>4, <5>1, <5>3, <6>1, <6>2
        <5> QED
          BY <5>2, <5>3
      <4> QED
        BY <4>3, <4>4
    <3>4. Matches(u, dma.moved)'
      <4>1. Matches(u, i)'
        BY <1>2, <3>3, <1>0, <1>1 DEF Matches
      <4> QED
        BY <1>3, <3>3, <1>0, <1>1, <1>2 DEF Matches
    <3> QED
      <4>1. req[u].op = "write" => buf'[u] = buf[u]
        BY <1>4, <3>1 DEF Running
      <4> QED
        BY <1>2, <2>1, <2>2, <2>3, <2>5, <3>1, <3>2, <3>4, <4>1 DEF InHand
  <2> QED
    BY <2>4, <2>5
<1> QED
  BY <1>3, <1>7, <1>8, <1>9 DEF RealInv

(* Every step keeps what the calls in hand have moved.                     *)
LEMMA RealStep ==
  ASSUME SdInv, RealInv, [Next]_vars
  PROVE  RealInv'
<1>1. CASE CreateMutex \/ CardInitialised \/ UNCHANGED vars
  <2>1. UNCHANGED <<pc, req, rc, buf, done, dma, disk, stale>>
    BY <1>1 DEF CreateMutex, CardInitialised, vars, halVars
  <2>2. \A t \in Tasks \ stale' : InHand(t)'
    BY <2>1, HandKept DEF RealInv
  <2> QED
    BY <2>1, <2>2 DEF RealInv, Blocks
<1>2. ASSUME NEW t \in Tasks,
             \/ \E lba \in Lbas, data \in Transfers : WriteCall(t, lba, data)
             \/ \E lba \in Lbas, n \in Counts : ReadCall(t, lba, n)
      PROVE  RealInv'
  BY <1>2, CallReal
<1>3. ASSUME NEW t \in Tasks, TaskStep(t)
      PROVE  RealInv'
  BY <1>3, TaskReal
<1>4. CASE MoveBlock
  BY <1>4, MoveReal
<1>5. CASE SDMMC2_IRQHandler \/ CardReady
  BY <1>5, EndReal
<1> QED
  BY <1>1, <1>2, <1>3, <1>4, <1>5 DEF Next

(* The firmware starts with blank blocks and no call.                      *)
LEMMA RealInit == Init => RealInv
<1> SUFFICES ASSUME Init
             PROVE  RealInv
  OBVIOUS
<1>1. Blocks
  <2>1. Blank \in Contents /\ << >> \in Seq(Contents)
    BY DEF Contents
  <2> QED
    BY <2>1 DEF Init, Blocks
<1>2. \A t \in Tasks : InHand(t)
  BY DEF Init, InHand, NoCall
<1> QED
  BY <1>1, <1>2, NoDmaTyped DEF Init, RealInv

(* A call that no late transfer has touched and that reports success has   *)
(* moved all of its blocks, also after earlier calls timed out.            *)
THEOREM SuccessMeansTransferred == Spec => []SuccessIsReal
<1>1. RealInv => SuccessIsReal
  BY DEF RealInv, InHand, Matches, SuccessIsReal
<1>2. SdInv /\ RealInv /\ [Next]_vars => RealInv'
  BY RealStep
<1> HIDE DEF RealInv, SdInv, SuccessIsReal
<1> QED
  BY Invariance, RealInit, <1>1, <1>2, PTL DEF Spec
-----------------------------------------------------------------------------
(* How far a call of t is: no block before its transfer, what the DMA has  *)
(* moved during it, and all of them where it is about to succeed.          *)
Progress(t) ==
  /\ pc[t] = "idle" => req[t] = NoCall
  /\ req[t].moved <= req[t].n
  /\ pc[t] \in {"lock", "clear", "start"} => req[t].moved = 0
  /\ dma.active /\ dma.task = t => req[t].moved = dma.moved
  /\ pc[t] \in {"flag", "error"} /\ done[req[t].op] => req[t].moved = req[t].n
  /\ pc[t] = "card" => req[t].moved = req[t].n
  /\ pc[t] = "unlock" => rc[t] = "ERROR" \/ (rc[t] = "OK" /\ req[t].moved = req[t].n)

InTime == Quiet /\ stale = {} /\ \A t \in Tasks : Progress(t)

(* A step that changes nothing of what Progress(t) speaks of.              *)
LEMMA ProgressKept ==
  ASSUME NEW t \in Tasks, Progress(t), UNCHANGED <<dma, done>>,
         req'[t] = req[t], pc'[t] = pc[t], rc'[t] = rc[t]
  PROVE  Progress(t)'
BY DEF Progress

(* A task that waits for the lock is not concerned by the transfer.        *)
LEMMA ProgressOutside ==
  ASSUME NEW t \in Tasks, Progress(t), pc[t] \in {"idle", "lock"},
         req'[t] = req[t], pc'[t] = pc[t], ~(dma'.active /\ dma'.task = t)
  PROVE  Progress(t)'
BY DEF Progress

(* While a transfer runs, it is the one its task waits for.                *)
LEMMA RunningNow ==
  ASSUME SdInv, RealInv, InTime, dma.active
  PROVE  /\ dma.task \in Tasks /\ Running(dma.task) /\ InHand(dma.task)
         /\ pc[dma.task] \in {"flag", "error"} /\ sd2_io_mutex = dma.task
         /\ req[dma.task].moved = dma.moved /\ ~done[dma.op]
<1>1. dma.task \in Tasks
  BY Typed
<1>2. InHand(dma.task) /\ Progress(dma.task)
  BY <1>1 DEF RealInv, InTime
<1> QED
  BY <1>1, <1>2 DEF InTime, Quiet, InHand, Progress

(* Only the holder of the mutex is past the lock.                          *)
LEMMA OthersOutside ==
  ASSUME SdInv, NEW t \in Tasks, pc[t] \notin {"idle", "lock"}, NEW u \in Tasks \ {t}
  PROVE  pc[u] \in {"idle", "lock"}
BY DEF SdInv, OneTransfer

(* A call begins.                                                          *)
LEMMA CallProgress ==
  ASSUME SdInv, RealInv, InTime, NEW t \in Tasks,
         \/ \E lba \in Lbas, data \in Transfers : WriteCall(t, lba, data)
         \/ \E lba \in Lbas, n \in Counts : ReadCall(t, lba, n)
  PROVE  stale' = {} /\ \A u \in Tasks : Progress(u)'
<1>1. /\ pc[t] = "idle" /\ pc' = [pc EXCEPT ![t] = "lock"] /\ rc' = [rc EXCEPT ![t] = "none"]
      /\ stale' = stale \ {t} /\ UNCHANGED <<dma, done>>
      /\ \A u \in Tasks \ {t} : req'[u] = req[u]
  BY Typed DEF WriteCall, ReadCall, halVars
<1>2. Progress(t)'
  <2>1. req'[t].moved = 0 /\ req'[t].n \in Nat
    <3>1. ASSUME NEW lba \in Lbas, NEW data \in Transfers, WriteCall(t, lba, data)
          PROVE  req'[t].moved = 0 /\ req'[t].n \in Nat
      BY <3>1, Typed, TransfersAreBlocks DEF WriteCall
    <3>2. ASSUME NEW lba \in Lbas, NEW n \in Counts, ReadCall(t, lba, n)
          PROVE  req'[t].moved = 0 /\ req'[t].n \in Nat
      BY <3>2, Typed, StorageAssumption DEF ReadCall
    <3> QED
      BY <3>1, <3>2
  <2>2. pc'[t] = "lock" /\ ~(dma'.active /\ dma'.task = t)
    BY <1>1, Typed, RunningNow
  <2> QED
    BY <2>1, <2>2 DEF Progress
<1>3. ASSUME NEW u \in Tasks \ {t}
      PROVE  Progress(u)'
  <2>1. pc'[u] = pc[u] /\ rc'[u] = rc[u] /\ Progress(u)
    BY <1>1, Typed DEF InTime
  <2> QED
    BY <1>1, <2>1, ProgressKept
<1> QED
  BY <1>1, <1>2, <1>3 DEF InTime

(* A task's step.                                                          *)
LEMMA TaskProgress ==
  ASSUME SdInv, RealInv, InTime, NEW t \in Tasks, TaskStep(t)
  PROVE  stale' = {} /\ \A u \in Tasks : Progress(u)'
<1>1. \A u \in Tasks \ {t} : req'[u] = req[u] /\ pc'[u] = pc[u] /\ rc'[u] = rc[u]
  BY Typed DEF TaskStep, TakeLock, LockFails, ClearDone, StartBusy, StartFails, StartTransfer,
     WaitFlag, WaitError, WaitTimeout, CardTransfer, CardTimeout, Unlock, Leave, Return
<1>2. UNCHANGED <<dma, done, stale>> \/ ClearDone(t) \/ StartTransfer(t)
  BY DEF TaskStep, TakeLock, LockFails, StartBusy, StartFails, WaitFlag, WaitError,
     WaitTimeout, CardTransfer, CardTimeout, Unlock, halVars
<1>3. ASSUME StartTransfer(t)
      PROVE  ~done[req[t].op] /\ stale' = stale
  BY <1>3 DEF StartTransfer, InTime, Quiet
<1>4. stale' = {}
  <2>1. ClearDone(t) => stale' = stale
    BY DEF ClearDone
  <2> QED
    BY <1>2, <1>3, <2>1 DEF InTime
<1>5. ASSUME NEW u \in Tasks \ {t}
      PROVE  Progress(u)'
  <2>1. Progress(u)
    BY DEF InTime
  <2>2. CASE UNCHANGED <<dma, done, stale>>
    BY <1>1, <2>1, <2>2, ProgressKept
  <2>3. CASE ClearDone(t) \/ StartTransfer(t)
    <3>1. pc[t] \in {"clear", "start"}
      BY <2>3 DEF ClearDone, StartTransfer
    <3>2. pc[u] \in {"idle", "lock"}
      BY <3>1, OthersOutside
    <3>3. ~(dma'.active /\ dma'.task = u)
      <4>1. CASE ClearDone(t)
        <5>1. dma' = dma
          BY <4>1 DEF ClearDone, halVars
        <5> QED
          BY <3>2, <5>1, RunningNow
      <4>2. CASE StartTransfer(t)
        BY <4>2 DEF StartTransfer
      <4> QED
        BY <2>3, <4>1, <4>2
    <3> QED
      BY <1>1, <2>1, <3>2, <3>3, ProgressOutside
  <2> QED
    BY <1>2, <2>2, <2>3
<1>6. Progress(t)'
  <2>1. Progress(t) /\ req[t].n \in Nat /\ req[t].moved \in Nat
    BY Typed DEF InTime
  <2>2. CASE TakeLock(t)
    <3>1. pc[t] = "lock" /\ pc'[t] = "clear" /\ UNCHANGED <<req, dma>>
      BY <2>2, Typed DEF TakeLock, halVars
    <3> QED
      BY <2>1, <3>1 DEF Progress
  <2>3. CASE LockFails(t) \/ Unlock(t)
    <3>1. req'[t] = NoCall /\ pc'[t] = "idle" /\ UNCHANGED dma
      BY <2>3, Typed DEF LockFails, Unlock, Return, halVars
    <3>2. ~(dma'.active /\ dma'.task = t)
      BY <2>3, <3>1, RunningNow DEF LockFails, Unlock
    <3> QED
      BY <3>1, <3>2 DEF Progress, NoCall
  <2>4. CASE ClearDone(t)
    <3>1. pc[t] = "clear" /\ UNCHANGED <<req, dma>>
      BY <2>4 DEF ClearDone, halVars
    <3>2. CASE sd2_ready
      <4>1. pc'[t] = "start"
        BY <2>4, <3>2, Typed DEF ClearDone
      <4> QED
        BY <2>1, <3>1, <4>1 DEF Progress
    <3>3. CASE ~sd2_ready
      <4>1. pc'[t] = "unlock" /\ rc'[t] = "ERROR"
        BY <2>4, <3>3, Typed DEF ClearDone, Leave
      <4> QED
        BY <2>1, <3>1, <4>1 DEF Progress
    <3> QED
      BY <3>2, <3>3
  <2>5. CASE StartBusy(t) \/ StartFails(t) \/ WaitTimeout(t) \/ CardTimeout(t)
    <3>1. UNCHANGED <<req, dma>> /\ pc'[t] = "unlock" /\ rc'[t] = "ERROR"
      BY <2>5, Typed DEF StartBusy, StartFails, WaitTimeout, CardTimeout, Leave, halVars
    <3> QED
      BY <2>1, <3>1 DEF Progress
  <2>6. CASE StartTransfer(t)
    <3>1. pc[t] = "start" /\ pc'[t] = "flag" /\ UNCHANGED <<req, done>> /\ dma'.moved = 0
      BY <2>6, Typed DEF StartTransfer
    <3> QED
      BY <1>3, <2>1, <2>6, <3>1 DEF Progress
  <2>7. CASE WaitFlag(t)
    <3>1. /\ pc[t] = "flag" /\ pc'[t] = IF done[req[t].op] THEN "card" ELSE "error"
          /\ UNCHANGED <<req, dma, done>>
      BY <2>7, Typed DEF WaitFlag, halVars
    <3> QED
      BY <2>1, <3>1 DEF Progress
  <2>8. CASE WaitError(t)
    <3>1. pc[t] = "error" /\ UNCHANGED <<req, dma, done>>
      BY <2>8 DEF WaitError, halVars
    <3>2. CASE ErrorCode
      <4>1. pc'[t] = "unlock" /\ rc'[t] = "ERROR"
        BY <2>8, <3>2, Typed DEF WaitError, Leave
      <4> QED
        BY <2>1, <3>1, <4>1 DEF Progress
    <3>3. CASE ~ErrorCode
      <4>1. pc'[t] = "flag"
        BY <2>8, <3>3, Typed DEF WaitError
      <4> QED
        BY <2>1, <3>1, <4>1 DEF Progress
    <3> QED
      BY <3>2, <3>3
  <2>9. CASE CardTransfer(t)
    <3>1. pc[t] = "card" /\ pc'[t] = "unlock" /\ rc'[t] = "OK" /\ UNCHANGED <<req, dma>>
      BY <2>9, Typed DEF CardTransfer, Leave, halVars
    <3> QED
      BY <2>1, <3>1 DEF Progress
  <2> QED
    BY <2>2, <2>3, <2>4, <2>5, <2>6, <2>7, <2>8, <2>9 DEF TaskStep
<1> QED
  BY <1>4, <1>5, <1>6

(* The SDMMC and the card.                                                 *)
LEMMA TransferProgress ==
  ASSUME SdInv, RealInv, InTime, MoveBlock \/ SDMMC2_IRQHandler \/ CardReady
  PROVE  stale' = {} /\ \A u \in Tasks : Progress(u)'
<1>1. CASE CardReady
  <2>1. UNCHANGED <<dma, done, stale, req, pc, rc>>
    BY <1>1 DEF CardReady
  <2> QED
    BY <2>1, ProgressKept DEF InTime
<1>2. ASSUME NEW t \in Tasks, MoveBlock, t = dma.task
      PROVE  stale' = {} /\ \A u \in Tasks : Progress(u)'
  <2>1. /\ dma.active /\ dma.moved < dma.n /\ dma.moved \in Nat /\ dma.n \in Nat
        /\ UNCHANGED <<pc, rc, done>>
    BY <1>2, Typed DEF MoveBlock
  <2>2. /\ Running(t) /\ pc[t] \in {"flag", "error"} /\ req[t].moved = dma.moved /\ ~done[dma.op]
        /\ Progress(t)
    BY <1>2, <2>1, RunningNow DEF InTime
  <2>3. stale' = {}
    BY <1>2, <2>2 DEF MoveBlock, InTime
  <2>4. req[t].n = dma.n /\ req[t].op = dma.op
    BY <2>2 DEF Running
  <2>5. req' = [req EXCEPT ![t].moved = dma.moved + 1] /\ dma'.moved = dma.moved + 1
    <3>1. dma' = [dma EXCEPT !.moved = dma.moved + 1]
      BY <1>2 DEF MoveBlock
    <3> QED
      BY <1>2, <2>1, <2>2, <2>4, <3>1, Typed DEF MoveBlock, SdInv, TypeOK
  <2>6. /\ req'[t].moved = dma.moved + 1 /\ req'[t].n = dma.n /\ req'[t].op = dma.op
        /\ \A u \in Tasks \ {t} : req'[u] = req[u]
        /\ dma'.task = t
    BY <1>2, <2>4, <2>5, Typed DEF MoveBlock, SdInv, TypeOK
  <2>7. Progress(t)'
    BY <2>1, <2>2, <2>5, <2>6 DEF Progress
  <2>8. ASSUME NEW u \in Tasks \ {t}
        PROVE  Progress(u)'
    <3>1. Progress(u) /\ pc[u] \in {"idle", "lock"}
      BY <2>2, OthersOutside DEF InTime
    <3> QED
      BY <2>1, <2>6, <3>1, ProgressOutside
  <2> QED
    BY <2>3, <2>7, <2>8
<1>3. ASSUME NEW t \in Tasks, SDMMC2_IRQHandler, t = dma.task
      PROVE  stale' = {} /\ \A u \in Tasks : Progress(u)'
  <2>1. dma.active /\ ~dma'.active /\ UNCHANGED <<pc, rc, req, stale>>
    BY <1>3, NoDmaTyped DEF SDMMC2_IRQHandler, DataEnd, DataError
  <2>2. /\ Running(t) /\ pc[t] \in {"flag", "error"} /\ req[t].moved = dma.moved /\ ~done[dma.op]
        /\ Progress(t)
    BY <1>3, <2>1, RunningNow DEF InTime
  <2>3. req[t].n = dma.n /\ req[t].op = dma.op
    BY <2>2 DEF Running
  <2>4. done'[req[t].op] => req[t].moved = req[t].n
    BY <1>3, <2>2, <2>3 DEF SDMMC2_IRQHandler, DataEnd, DataError
  <2>5. Progress(t)'
    BY <2>1, <2>2, <2>4 DEF Progress
  <2>6. ASSUME NEW u \in Tasks \ {t}
        PROVE  Progress(u)'
    <3>1. Progress(u) /\ pc[u] \in {"idle", "lock"}
      BY <2>2, OthersOutside DEF InTime
    <3> QED
      BY <2>1, <3>1, ProgressOutside
  <2> QED
    BY <2>1, <2>5, <2>6 DEF InTime
<1>4. MoveBlock \/ SDMMC2_IRQHandler => dma.task \in Tasks
  BY Typed DEF MoveBlock, SDMMC2_IRQHandler, DataEnd, DataError
<1> QED
  BY <1>1, <1>2, <1>3, <1>4

(* Every step, when no transfer outlasts the wait.                         *)
LEMMA InTimeStep ==
  ASSUME ~LateAnswers, SdInv, RealInv, InTime, [Next]_vars
  PROVE  InTime'
<1>1. Quiet'
  BY NextInv DEF InTime
<1>2. CASE CreateMutex \/ CardInitialised \/ UNCHANGED vars
  <2>1. UNCHANGED <<pc, req, rc, done, dma, stale>>
    BY <1>2 DEF CreateMutex, CardInitialised, vars, halVars
  <2> QED
    BY <1>1, <2>1, ProgressKept DEF InTime
<1>3. ASSUME NEW t \in Tasks,
             \/ \E lba \in Lbas, data \in Transfers : WriteCall(t, lba, data)
             \/ \E lba \in Lbas, n \in Counts : ReadCall(t, lba, n)
      PROVE  InTime'
  BY <1>1, <1>3, CallProgress DEF InTime
<1>4. ASSUME NEW t \in Tasks, TaskStep(t)
      PROVE  InTime'
  BY <1>1, <1>4, TaskProgress DEF InTime
<1>5. CASE MoveBlock \/ SDMMC2_IRQHandler \/ CardReady
  BY <1>1, <1>5, TransferProgress DEF InTime
<1> QED
  BY <1>2, <1>3, <1>4, <1>5 DEF Next

(* No call has begun.                                                      *)
LEMMA InTimeInit == Init => InTime
<1> SUFFICES ASSUME Init
             PROVE  InTime
  OBVIOUS
<1>1. ASSUME NEW t \in Tasks
      PROVE  Progress(t)
  <2>1. pc[t] = "idle" /\ req[t] = NoCall /\ ~dma.active
    BY NoDmaTyped DEF Init
  <2>2. NoCall.moved <= NoCall.n
    BY DEF NoCall
  <2> QED
    BY <2>1, <2>2 DEF Progress
<1> QED
  BY <1>1, InitInv DEF InTime, Init

(* A sequence cut to nothing is empty.                                     *)
LEMMA NothingTaken == \A s : SubSeq(s, 1, 0) = << >>
BY SubSeqEmpty

(* The next block put into a buffer comes behind those it holds.           *)
LEMMA PutNext ==
  ASSUME NEW S, NEW s \in Seq(S), NEW x \in S, NEW m \in Nat, m + 1 <= Len(s)
  PROVE  SubSeq([j \in DOMAIN s |-> IF j = m + 1 THEN x ELSE s[j]], 1, m + 1)
           = Append(SubSeq(s, 1, m), x)
<1> DEFINE u == [j \in DOMAIN s |-> IF j = m + 1 THEN x ELSE s[j]]
           p == SubSeq(u, 1, m + 1)
           q == Append(SubSeq(s, 1, m), x)
<1>1. Len(s) \in Nat /\ DOMAIN s = 1 .. Len(s)
  BY LenProperties
<1>2. u \in Seq(S) /\ Len(u) = Len(s)
  BY <1>1
<1>3. /\ \A j \in 1 .. m : u[j] = s[j]
      /\ u[m + 1] = x
  BY <1>1
<1> HIDE DEF u
<1>4. p \in Seq(S) /\ Len(p) = m + 1 /\ \A j \in 1 .. m + 1 : p[j] = u[j]
  <2>1. \A j \in 1 .. m + 1 : u[j] \in S
    BY <1>1, <1>2
  <2> QED
    BY <1>1, <1>2, <2>1
<1>5. SubSeq(s, 1, m) \in Seq(S) /\ Len(SubSeq(s, 1, m)) = m
      /\ \A j \in 1 .. m : SubSeq(s, 1, m)[j] = s[j]
  <2>1. \A j \in 1 .. m : s[j] \in S
    BY <1>1
  <2> QED
    BY <1>1, <2>1
<1>6. q \in Seq(S) /\ Len(q) = m + 1 /\ (\A j \in 1 .. m : q[j] = s[j]) /\ q[m + 1] = x
  <2> DEFINE r == SubSeq(s, 1, m)
  <2>1. r \in Seq(S) /\ Len(r) = m
    BY <1>5
  <2> HIDE DEF r
  <2>2. Append(r, x) \in Seq(S) /\ Len(Append(r, x)) = m + 1 /\ Append(r, x)[m + 1] = x
        /\ \A j \in 1 .. m : Append(r, x)[j] = r[j]
    BY <2>1
  <2> QED
    BY <1>5, <2>2 DEF r
<1>7. \A j \in 1 .. m + 1 : p[j] = q[j]
  <2>1. \A j \in 1 .. m + 1 : j = m + 1 \/ j \in 1 .. m
    OBVIOUS
  <2> HIDE DEF p, q
  <2> QED
    BY <1>3, <1>4, <1>6, <2>1
<1>8. p = q
  <2> HIDE DEF p, q
  <2> QED
    BY <1>4, <1>6, <1>7, SeqEqual
<1> QED
  BY <1>8 DEF u

(* The calls and replies of BlockDevice, as the driver's state shows them. *)
Done(t) == SubSeq(buf[t], 1, req[t].moved)
CallOf(t) == IF req[t].op = "read" THEN [req[t] EXCEPT !.data = Done(t)] ELSE req[t]
ReplyOf(t) == IF pc[t] = "idle" THEN rc[t] ELSE "none"
Calls == [t \in Tasks |-> CallOf(t)]
Replies == [t \in Tasks |-> ReplyOf(t)]

(* A step that shows in the call and the reply of no task but t.           *)
LEMMA OnlyOf ==
  ASSUME NEW t \in Tasks, NEW c, NEW r, CallOf(t)' = c, ReplyOf(t)' = r,
         \A u \in Tasks \ {t} : CallOf(u)' = CallOf(u) /\ ReplyOf(u)' = ReplyOf(u)
  PROVE  Calls' = [Calls EXCEPT ![t] = c] /\ Replies' = [Replies EXCEPT ![t] = r]
BY DEF Calls, Replies

(* A step that shows in none: BlockDevice stutters.                        *)
LEMMA NothingShows ==
  ASSUME disk' = disk, \A u \in Tasks : CallOf(u)' = CallOf(u) /\ ReplyOf(u)' = ReplyOf(u)
  PROVE  UNCHANGED Device!vars
<1>1. Calls' = Calls /\ Replies' = Replies
  BY DEF Calls, Replies
<1> QED
  BY <1>1 DEF Device!vars, Calls, Replies, CallOf, ReplyOf, Done

(* What is left alone shows in nothing.                                    *)
LEMMA ShowsTheSame ==
  ASSUME NEW u \in Tasks, req'[u] = req[u], buf'[u] = buf[u],
         pc'[u] = pc[u] \/ (pc[u] # "idle" /\ pc'[u] # "idle"),
         pc'[u] = "idle" => rc'[u] = rc[u]
  PROVE  CallOf(u)' = CallOf(u) /\ ReplyOf(u)' = ReplyOf(u)
BY DEF CallOf, ReplyOf, Done

(* A task calls sd_storage_write or sd_storage_read.                       *)
LEMMA CallShows ==
  ASSUME SdInv, RealInv, InTime, NEW t \in Tasks,
         \/ \E lba \in Lbas, data \in Transfers : WriteCall(t, lba, data)
         \/ \E lba \in Lbas, n \in Counts : ReadCall(t, lba, n)
  PROVE  Device!Next
<1>1. /\ pc[t] = "idle" /\ pc'[t] = "lock" /\ disk' = disk
      /\ \A u \in Tasks \ {t} : /\ req'[u] = req[u] /\ buf'[u] = buf[u]
                                /\ pc'[u] = pc[u] /\ rc'[u] = rc[u]
  BY Typed DEF WriteCall, ReadCall, RealInv, Blocks
<1>2. \A u \in Tasks \ {t} : CallOf(u)' = CallOf(u) /\ ReplyOf(u)' = ReplyOf(u)
  BY <1>1, ShowsTheSame
<1>3. ReplyOf(t)' = "none" /\ Calls[t].op = "none"
  <2>1. req[t] = NoCall
    BY <1>1 DEF InTime, Progress
  <2> QED
    BY <1>1, <2>1 DEF ReplyOf, Calls, CallOf, NoCall
<1>4. ASSUME NEW lba \in Lbas, NEW data \in Transfers, WriteCall(t, lba, data)
      PROVE  Device!Write(t, lba, data)
  <2>1. CallOf(t)' = [op |-> "write", lba |-> lba, n |-> Len(data), data |-> data, moved |-> 0]
    BY <1>4, Typed DEF WriteCall, CallOf
  <2> DEFINE r == [op |-> "write", lba |-> lba, n |-> Len(data), data |-> data, moved |-> 0]
  <2> HIDE DEF r
  <2>2. Calls' = [Calls EXCEPT ![t] = r] /\ Replies' = [Replies EXCEPT ![t] = "none"]
    BY <1>2, <1>3, <2>1, OnlyOf DEF r
  <2> QED
    BY <1>1, <1>3, <2>2 DEF Device!Write, Calls, Replies, CallOf, ReplyOf, Done, r
<1>5. ASSUME NEW lba \in Lbas, NEW n \in Counts, ReadCall(t, lba, n)
      PROVE  Device!Read(t, lba, n)
  <2> DEFINE r == [op |-> "read", lba |-> lba, n |-> n, data |-> << >>, moved |-> 0]
  <2>1. CallOf(t)' = r
    <3>1. req'[t] = r
      BY <1>5, Typed DEF ReadCall
    <3>2. Done(t)' = << >>
      <4>1. Done(t)' = SubSeq(buf'[t], 1, 0)
        BY <3>1 DEF Done
      <4> QED
        BY <4>1, NothingTaken
    <3> QED
      BY <3>1, <3>2 DEF CallOf
  <2> HIDE DEF r
  <2>2. Calls' = [Calls EXCEPT ![t] = r] /\ Replies' = [Replies EXCEPT ![t] = "none"]
    BY <1>2, <1>3, <2>1, OnlyOf
  <2> QED
    BY <1>1, <1>3, <2>2 DEF Device!Read, Calls, Replies, CallOf, ReplyOf, Done, r
<1> QED
  BY <1>4, <1>5 DEF Device!Next

(* A task's step: it returns, or shows nothing.                            *)
LEMMA TaskShows ==
  ASSUME SdInv, RealInv, InTime, NEW t \in Tasks, TaskStep(t)
  PROVE  [Device!Next]_(Device!vars)
<1>1. /\ disk' = disk
      /\ \A u \in Tasks \ {t} : /\ req'[u] = req[u] /\ buf'[u] = buf[u]
                                /\ pc'[u] = pc[u] /\ rc'[u] = rc[u]
  BY Typed DEF TaskStep, TakeLock, LockFails, ClearDone, StartBusy, StartFails, StartTransfer,
     WaitFlag, WaitError, WaitTimeout, CardTransfer, CardTimeout, Unlock, Leave, Return, halVars,
     RealInv, Blocks
<1>2. \A u \in Tasks \ {t} : CallOf(u)' = CallOf(u) /\ ReplyOf(u)' = ReplyOf(u)
  BY <1>1, ShowsTheSame
<1>3. pc[t] # "idle" /\ req[t].op # "none"
  BY Typed DEF TaskStep, TakeLock, LockFails, ClearDone, StartBusy, StartFails, StartTransfer,
     WaitFlag, WaitError, WaitTimeout, CardTransfer, CardTimeout, Unlock
<1>4. CASE LockFails(t) \/ Unlock(t)
  <2>1. req'[t] = NoCall /\ pc'[t] = "idle"
    BY <1>4, Typed DEF LockFails, Unlock, Return
  <2>2. PICK r \in {"OK", "ERROR"} : rc'[t] = r /\ (r = "OK" => req[t].moved = req[t].n)
    <3>1. CASE LockFails(t)
      BY <3>1, Typed DEF LockFails
    <3>2. CASE Unlock(t)
      <4>1. rc'[t] = rc[t] /\ pc[t] = "unlock"
        BY <3>2 DEF Unlock
      <4> QED
        BY <4>1 DEF InTime, Progress
    <3> QED
      BY <1>4, <3>1, <3>2
  <2>3. CallOf(t)' = NoCall /\ ReplyOf(t)' = r
    BY <2>1, <2>2 DEF CallOf, ReplyOf, NoCall
  <2>4. Calls' = [Calls EXCEPT ![t] = NoCall] /\ Replies' = [Replies EXCEPT ![t] = r]
    BY <1>2, <2>3, OnlyOf
  <2>5. /\ Calls[t].op # "none"
        /\ r = "OK" => Calls[t].moved = Calls[t].n
    <3>1. Calls[t].op = req[t].op /\ Calls[t].moved = req[t].moved /\ Calls[t].n = req[t].n
      BY DEF SdInv, TypeOK, Calls, CallOf
    <3> QED
      BY <1>3, <2>2, <3>1
  <2>6. NoCall = Device!NoCall
    BY DEF NoCall, Device!NoCall
  <2>7. Device!Return(t, r)
    BY <1>1, <2>4, <2>5, <2>6 DEF Device!Return, Calls, Replies, CallOf, ReplyOf, Done
  <2> QED
    BY <2>7 DEF Device!Next
<1>5. CASE ~(LockFails(t) \/ Unlock(t))
  <2>1. req'[t] = req[t] /\ buf'[t] = buf[t] /\ pc'[t] # "idle"
    BY <1>5, Typed DEF TaskStep, TakeLock, ClearDone, StartBusy, StartFails, StartTransfer,
       WaitFlag, WaitError, WaitTimeout, CardTransfer, CardTimeout, Leave
  <2>2. CallOf(t)' = CallOf(t) /\ ReplyOf(t)' = ReplyOf(t)
    BY <1>3, <2>1, ShowsTheSame
  <2>3. \A u \in Tasks : CallOf(u)' = CallOf(u) /\ ReplyOf(u)' = ReplyOf(u)
    BY <1>2, <2>2
  <2> QED
    BY <1>1, <2>3, NothingShows
<1> QED
  BY <1>4, <1>5

(* The DMA moves a block: the transfer of BlockDevice.                     *)
LEMMA MoveShows ==
  ASSUME SdInv, RealInv, InTime, MoveBlock
  PROVE  Device!Next
<1>1. PICK t \in Tasks : t = dma.task
  BY Typed DEF MoveBlock
<1>2. /\ Running(t) /\ InHand(t) /\ pc[t] \in {"flag", "error"} /\ req[t].moved = dma.moved
  BY <1>1, RunningNow DEF MoveBlock
<1>3. PICK m \in Nat, i \in 1 .. dma.n, b \in 0 .. LogBlockNbr - 1 :
        /\ m = dma.moved /\ i = m + 1 /\ b = dma.lba + m
        /\ m < dma.n
  BY Typed DEF MoveBlock
<1>4. /\ req[t].moved = m /\ req[t].n = dma.n /\ req[t].lba = dma.lba /\ req[t].op = dma.op
      /\ dma.n \in Nat /\ dma.op \in {"read", "write"} /\ pc[t] # "idle" /\ req[t].lba \in Nat
  BY <1>1, <1>2, <1>3, Typed DEF Running
<1>5. /\ req' = [req EXCEPT ![t].moved = i]
      /\ pc' = pc /\ rc' = rc
  BY <1>1, <1>3, <1>4 DEF MoveBlock, SdInv, TypeOK
<1>6. /\ req \in [Tasks -> [op : {"none", "read", "write"}, lba : Nat, n : Nat,
                         data : Transfers \cup {<< >>}, moved : Nat]]
      /\ buf \in [Tasks -> Seq(Contents)] /\ disk \in [0 .. LogBlockNbr - 1 -> Contents]
  BY DEF SdInv, TypeOK, RealInv, Blocks
<1>7. CASE dma.op = "write"
  <2>1. buf' = buf /\ disk' = [disk EXCEPT ![b] = req[t].data[i]]
    <3>1. buf[t] = req[t].data /\ Len(buf[t]) = dma.n
      BY <1>2, <1>4, <1>7 DEF InHand
    <3>2. i \in DOMAIN buf[t]
      BY <1>3, <1>6, <3>1
    <3> QED
      BY <1>1, <1>3, <1>7, <3>1, <3>2 DEF MoveBlock
  <2>2. CallOf(t)' = [req[t] EXCEPT !.moved = i] /\ CallOf(t) = req[t]
    BY <1>4, <1>5, <1>6, <1>7 DEF CallOf
  <2>3. \A u \in Tasks \ {t} : CallOf(u)' = CallOf(u) /\ ReplyOf(u)' = ReplyOf(u)
    BY <1>5, <1>6, <2>1, ShowsTheSame
  <2>4. ReplyOf(t)' = ReplyOf(t)
    BY <1>5 DEF ReplyOf
  <2> DEFINE c == [req[t] EXCEPT !.moved = i]
  <2> HIDE DEF c
  <2>5. Calls' = [Calls EXCEPT ![t] = c] /\ Replies' = Replies
    BY <2>2, <2>3, <2>4 DEF Calls, Replies, c
  <2>6. Calls[t] = req[t]
    BY <2>2 DEF Calls
  <2>7. Calls' = [Calls EXCEPT ![t].moved = @ + 1]
    BY <1>3, <1>4, <2>5, <2>6 DEF c
  <2>8. /\ Calls[t].op = "write" /\ Calls[t].moved < Calls[t].n
        /\ Calls[t].lba + Calls[t].moved = b /\ b < LogBlockNbr
        /\ Calls[t].moved + 1 = i
    BY <1>3, <1>4, <1>7, <2>6, Typed
  <2>9. Device!Transfer(t)
    BY <2>1, <2>5, <2>6, <2>7, <2>8 DEF Device!Transfer, Calls, Replies, CallOf, ReplyOf, Done
  <2> QED
    BY <2>9 DEF Device!Next
<1>8. CASE dma.op = "read"
  <2>1. disk' = disk /\ buf' = [buf EXCEPT ![t] =
                          [j \in DOMAIN buf[t] |-> IF j = i THEN disk[b] ELSE buf[t][j]]]
    BY <1>1, <1>3, <1>8 DEF MoveBlock
  <2>2. Len(buf[t]) = dma.n
    BY <1>2, <1>4, <1>8 DEF InHand
  <2>3. Done(t)' = Append(Done(t), disk[b])
    <3>1. buf[t] \in Seq(Contents) /\ disk[b] \in Contents
      BY <1>6
    <3>2. buf'[t] = [j \in DOMAIN buf[t] |-> IF j = i THEN disk[b] ELSE buf[t][j]]
      BY <1>6, <2>1
    <3>3. Done(t) = SubSeq(buf[t], 1, m) /\ Done(t)' = SubSeq(buf'[t], 1, m + 1)
      BY <1>3, <1>4, <1>5, <1>6 DEF Done
    <3>4. m + 1 <= Len(buf[t])
      BY <1>3, <1>4, <2>2
    <3> QED
      <4> DEFINE s == buf[t]
                 x == disk[b]
      <4>1. s \in Seq(Contents) /\ x \in Contents /\ m + 1 <= Len(s)
        BY <3>1, <3>4
      <4>2. Done(t) = SubSeq(s, 1, m)
        BY <3>3
      <4>3. Done(t)' = SubSeq([j \in DOMAIN s |-> IF j = m + 1 THEN x ELSE s[j]], 1, m + 1)
        BY <1>3, <3>2, <3>3
      <4> HIDE DEF s, x
      <4>4. SubSeq([j \in DOMAIN s |-> IF j = m + 1 THEN x ELSE s[j]], 1, m + 1)
              = Append(SubSeq(s, 1, m), x)
        BY <4>1, PutNext
      <4>5. Done(t)' = Append(Done(t), x)
        BY <4>2, <4>3, <4>4
      <4> QED
        BY <4>5 DEF x
  <2>4. CallOf(t)' = [CallOf(t) EXCEPT !.moved = i, !.data = Append(Done(t), disk[b])]
    <3>1. req'[t] = [req[t] EXCEPT !.moved = i]
      BY <1>5, <1>6
    <3>2. req[t].op = "read" /\ req'[t].op = "read"
      BY <1>4, <1>6, <1>8, <3>1
    <3>3. CallOf(t)' = [req'[t] EXCEPT !.data = Done(t)']
      BY <3>2 DEF CallOf
    <3>4. CallOf(t) = [req[t] EXCEPT !.data = Done(t)]
      BY <3>2 DEF CallOf
    <3> DEFINE d == Done(t)
               e == Append(Done(t), disk[b])
    <3>5. CallOf(t)' = [req'[t] EXCEPT !.data = e] /\ CallOf(t) = [req[t] EXCEPT !.data = d]
      BY <2>3, <3>3, <3>4
    <3> HIDE DEF d, e
    <3>6. CallOf(t)' = [CallOf(t) EXCEPT !.moved = i, !.data = e]
      BY <1>6, <3>1, <3>5
    <3> QED
      BY <3>6 DEF e
  <2>5. \A u \in Tasks \ {t} : CallOf(u)' = CallOf(u) /\ ReplyOf(u)' = ReplyOf(u)
    BY <1>5, <1>6, <2>1, ShowsTheSame
  <2>6. ReplyOf(t)' = ReplyOf(t)
    BY <1>5 DEF ReplyOf
  <2> DEFINE c == [CallOf(t) EXCEPT !.moved = i, !.data = Append(Done(t), disk[b])]
  <2> HIDE DEF c
  <2>7. Calls' = [Calls EXCEPT ![t] = c] /\ Replies' = Replies
    BY <2>4, <2>5, <2>6 DEF Calls, Replies, c
  <2>8. /\ Calls[t] = CallOf(t) /\ Calls[t].data = Done(t)
        /\ Calls[t].op = "read" /\ Calls[t].moved = m /\ Calls[t].n = dma.n
        /\ Calls[t].lba = dma.lba
    BY <1>4, <1>6, <1>8 DEF Calls, CallOf
  <2>9. Calls' = [Calls EXCEPT ![t].moved = @ + 1, ![t].data = Append(@, disk[b])]
    BY <1>3, <2>7, <2>8 DEF c
  <2>10. Calls[t].moved < Calls[t].n /\ Calls[t].lba + Calls[t].moved = b /\ b < LogBlockNbr
    BY <1>3, <2>8, Typed
  <2>11. Device!Transfer(t)
    BY <2>1, <2>7, <2>8, <2>9, <2>10 DEF Device!Transfer, Calls, Replies, CallOf, ReplyOf, Done
  <2> QED
    BY <2>11 DEF Device!Next
<1> QED
  BY <1>4, <1>7, <1>8

(* A step of the driver is one of BlockDevice, or shows in nothing.        *)
LEMMA DeviceStep ==
  ASSUME SdInv, RealInv, InTime, [Next]_vars
  PROVE  [Device!Next]_(Device!vars)
<1>1. CASE CreateMutex \/ CardInitialised \/ SDMMC2_IRQHandler \/ CardReady \/ UNCHANGED vars
  <2>1. UNCHANGED <<pc, req, rc, buf, disk>>
    BY <1>1 DEF CreateMutex, CardInitialised, SDMMC2_IRQHandler, DataEnd, DataError, CardReady,
       vars
  <2> QED
    BY <2>1, ShowsTheSame, NothingShows
<1>2. ASSUME NEW t \in Tasks,
             \/ \E lba \in Lbas, data \in Transfers : WriteCall(t, lba, data)
             \/ \E lba \in Lbas, n \in Counts : ReadCall(t, lba, n)
      PROVE  [Device!Next]_(Device!vars)
  BY <1>2, CallShows
<1>3. ASSUME NEW t \in Tasks, TaskStep(t)
      PROVE  [Device!Next]_(Device!vars)
  BY <1>3, TaskShows
<1>4. CASE MoveBlock
  BY <1>4, MoveShows
<1> QED
  BY <1>1, <1>2, <1>3, <1>4 DEF Next

(* When no transfer outlasts the 5 s of sd_wait_done_flag, the driver is   *)
(* the block device its clients count on: it transfers their blocks one    *)
(* after the other during the call, and reports success only for all.      *)
THEOREM DeviceImplemented == ~LateAnswers => (Spec => ImplementsDevice)
<1> SUFFICES ASSUME ~LateAnswers PROVE Spec => ImplementsDevice
  OBVIOUS
<1>1. Init => Device!Init
  <2> SUFFICES ASSUME Init
               PROVE  Device!Init
    OBVIOUS
  <2>1. \A t \in Tasks : CallOf(t) = NoCall /\ ReplyOf(t) = "none"
    BY DEF Init, CallOf, ReplyOf, NoCall
  <2>2. Calls = [t \in Tasks |-> NoCall] /\ Replies = [t \in Tasks |-> "none"]
    BY <2>1 DEF Calls, Replies
  <2>3. NoCall = Device!NoCall
    BY DEF NoCall, Device!NoCall
  <2> QED
    BY <2>2, <2>3 DEF Device!Init, Calls, Replies, CallOf, ReplyOf, Done
<1>2. Init => SdInv /\ RealInv /\ InTime
  BY InitInv, RealInit, InTimeInit
<1>3. (SdInv /\ RealInv /\ InTime) /\ [Next]_vars => (SdInv /\ RealInv /\ InTime)'
  BY NextInv, RealStep, InTimeStep
<1>4. (SdInv /\ RealInv /\ InTime) /\ [Next]_vars => [Device!Next]_(Device!vars)
  BY DeviceStep
<1> HIDE DEF SdInv, RealInv, InTime
<1> QED
  BY <1>1, <1>2, <1>3, <1>4, PTL DEF Spec, ImplementsDevice, Device!Spec
=============================================================================
