------------------------ MODULE SerialConsoleProofs ------------------------
(***************************************************************************)
(* Proofs about SerialConsole, for any number of logging tasks and any     *)
(* sizes of the rings and FIFOs: the types, and the three facts about the  *)
(* handshake of tasks and interrupt handler that no wake-up depends on     *)
(* timing for.  ConsoleInv, their conjunction, is inductive: no conjunct   *)
(* of the handshake needs another, but each needs the types.               *)
(*                                                                         *)
(* Then the order of the bytes.  RxInv: what arrived and is still in FIFO, *)
(* ring or at the reader ascends, and nothing there is newer than the last *)
(* arrival.  TxInv: what a task is writing is the end of what it logged.   *)
(* That no byte is lost or moved by filtering a task's bytes out of the    *)
(* wire is an induction over sequences, done by taking the least prefix    *)
(* that would be a counterexample (LeastElement).                          *)
(***************************************************************************)
EXTENDS SerialConsole, TLAPS, SequenceTheorems, WellFoundedInduction

ConsoleInv == TypeOK /\ TxArmed /\ TxWaitAccounted /\ RxNoLostWakeup

(* The first n elements of a sequence and the others, as the loops that    *)
(* move bytes one at a time leave them.                                    *)
LEMMA TakeRest ==
  ASSUME NEW S, NEW s \in Seq(S), NEW n \in 0 .. Len(s)
  PROVE  /\ Take(s, n) \in Seq(S) /\ Len(Take(s, n)) = n
         /\ Rest(s, n) \in Seq(S) /\ Len(Rest(s, n)) = Len(s) - n
         /\ n = 0 => Rest(s, n) = s
         /\ Rest(s, n) # << >> <=> n < Len(s)
<1>1. Take(s, n) \in Seq(S) /\ Len(Take(s, n)) = n
  BY DEF Take
<1>2. Rest(s, n) \in Seq(S) /\ Len(Rest(s, n)) = Len(s) - n
  BY DEF Rest
<1>3. n = 0 => Rest(s, n) = s
  BY DEF Rest
<1>4. Rest(s, n) # << >> <=> n < Len(s)
  BY <1>2
<1> QED BY <1>1, <1>2, <1>3, <1>4

(* The k elements of a sequence after the first i.                         *)
LEMMA Slice ==
  ASSUME NEW S, NEW s \in Seq(S), NEW i \in Nat, NEW k \in Nat, i + k <= Len(s)
  PROVE  /\ SubSeq(s, i + 1, i + k) \in Seq(S)
         /\ Len(SubSeq(s, i + 1, i + k)) = k
OBVIOUS

(* Least is one of its arguments and exceeds neither.                      *)
LEMMA LeastFact ==
  ASSUME NEW a \in Nat, NEW b \in Nat
  PROVE  Least(a, b) \in Nat /\ Least(a, b) <= a /\ Least(a, b) <= b
         /\ (Least(a, b) = a \/ Least(a, b) = b)
BY DEF Least

(* A formatted message is a sequence of bytes.                             *)
LEMMA PayloadType ==
  ASSUME NEW t \in Writers, NEW m \in Nat, NEW n \in Nat, LogBufSize \in Nat
  PROVE  LogPayload(t, m, n) \in Seq(Bytes)
<1> DEFINE k == Least(n, LogBufSize)
           b(i) == Byte(t, m, IF n >= LogBufSize /\ i = LogBufSize THEN NUL ELSE i)
<1>1. k \in Nat
  BY LeastFact
<1>2. \A i \in 1 .. k : b(i) \in Bytes
  <2>1. SUFFICES ASSUME NEW i \in 1 .. k PROVE b(i) \in Bytes
    OBVIOUS
  <2>2. (IF n >= LogBufSize /\ i = LogBufSize THEN NUL ELSE i) \in Nat
    BY <1>1 DEF NUL
  <2> QED BY <2>2 DEF Byte, Bytes
<1>3. LogPayload(t, m, n) = [i \in 1 .. k |-> b(i)]
  BY DEF LogPayload
<1> HIDE DEF k, b
<1> QED BY <1>1, <1>2, <1>3
-----------------------------------------------------------------------------
(* The initial state: nothing logged, nothing received, nobody waits.      *)
LEMMA InitInv == Init => ConsoleInv
<1> SUFFICES ASSUME Init PROVE ConsoleInv
  OBVIOUS
<1>1. TypeOK
  <2>1. /\ tx_rb \in Seq(Bytes) /\ tx_fifo \in Seq(Bytes) /\ wire \in Seq(Bytes)
        /\ rx_rb \in Seq(Nat) /\ rx_fifo \in Seq(Nat) /\ delivered \in Seq(Nat)
        /\ Len(tx_rb) = 0 /\ Len(tx_fifo) = 0 /\ Len(rx_rb) = 0 /\ Len(rx_fifo) = 0
    BY DEF Init
  <2>2. 0 <= RingCapacity /\ 0 <= FifoDepth /\ 0 \in 0 .. MaxRx
        /\ 0 \in 0 .. MaxMessages
    BY ConsoleAssumption
  <2>3. writer \in [Writers -> [pc : {"idle", "write", "wait"},
                              data : Seq(Bytes), written : Nat]]
    BY DEF Init
  <2>4. \A t \in Writers : writer[t].written <= Len(writer[t].data)
    BY DEF Init
  <2> QED BY <2>1, <2>2, <2>3, <2>4 DEF Init, TypeOK
<1>2. TxArmed /\ TxWaitAccounted /\ RxNoLostWakeup
  BY DEF Init, TxArmed, TxWaitAccounted, RxNoLostWakeup
<1> QED BY <1>1, <1>2 DEF ConsoleInv

(* console_log_write gives a task bytes to send and waits for nothing.     *)
LEMMA LogCallInv ==
  ASSUME ConsoleInv, NEW t \in Writers, NEW n \in Lengths, LogCall(t, n)
  PROVE  ConsoleInv'
<1> DEFINE m == messages[t] + 1
           payload == LogPayload(t, m, n)
<1> USE DEF ConsoleInv
<1>0. m \in 0 .. MaxMessages /\ m \in Nat /\ n \in Nat
  BY ConsoleAssumption DEF LogCall, TypeOK
<1>1. payload \in Seq(Bytes)
  BY <1>0, PayloadType, ConsoleAssumption
<1>2. /\ messages' = [messages EXCEPT ![t] = m]
      /\ logged' = [logged EXCEPT ![t] = @ \o payload]
      /\ writer' = [writer EXCEPT ![t] = [pc |-> "write", data |-> payload, written |-> 0]]
  BY DEF LogCall
<1> HIDE DEF m, payload
<1>3. TypeOK'
  <2>1. messages' \in [Writers -> 0 .. MaxMessages]
    BY <1>0, <1>2 DEF TypeOK
  <2>2. logged' \in [Writers -> Seq(Bytes)]
    <3>1. logged[t] \o payload \in Seq(Bytes)
      BY <1>1 DEF TypeOK
    <3> QED BY <1>2, <3>1 DEF TypeOK
  <2>3. writer' \in [Writers -> [pc : {"idle", "write", "wait"},
                                 data : Seq(Bytes), written : Nat]]
    BY <1>1, <1>2 DEF TypeOK
  <2>4. \A u \in Writers : writer'[u].written <= Len(writer'[u].data)
    BY <1>1, <1>2 DEF TypeOK
  <2>5. UNCHANGED <<tx_rb, tx_fifo, tx_it, wire, tx_wait_task, tx_notified,
                    missed, rxVars>>
    BY DEF LogCall
  <2> QED BY <2>1, <2>2, <2>3, <2>4, <2>5 DEF TypeOK, rxVars
<1>4. TxWaitAccounted'
  BY <1>2 DEF LogCall, TxWaitAccounted, TypeOK
<1>5. TxArmed' /\ RxNoLostWakeup'
  BY DEF LogCall, TxArmed, RxNoLostWakeup, rxVars
<1> QED BY <1>3, <1>4, <1>5

(* The critical section of a write: it arms the interrupt, and the task    *)
(* leaves it registered unless it is done or found space.                  *)
LEMMA WritePassInv ==
  ASSUME ConsoleInv, NEW t \in Writers, WritePass(t)
  PROVE  ConsoleInv'
<1> USE DEF ConsoleInv
<1> DEFINE w       == writer[t]
           chunk   == Least(RingCapacity - Len(tx_rb), Len(w.data) - w.written)
           filled  == tx_rb \o SubSeq(w.data, w.written + 1, w.written + chunk)
           moved   == Least(FifoDepth - Len(tx_fifo), Len(filled))
           written == w.written + chunk
           full    == Len(filled) - moved = RingCapacity
           done    == written = Len(w.data)
<1>1. w \in [pc : {"idle", "write", "wait"}, data : Seq(Bytes), written : Nat]
      /\ w.written <= Len(w.data)
  BY DEF TypeOK
<1>2. /\ Len(tx_rb) \in Nat /\ RingCapacity - Len(tx_rb) \in Nat
      /\ Len(tx_fifo) \in Nat /\ FifoDepth - Len(tx_fifo) \in Nat
      /\ w.data \in Seq(Bytes) /\ Len(w.data) \in Nat /\ w.written \in Nat
      /\ Len(w.data) - w.written \in Nat
  BY <1>1, ConsoleAssumption DEF TypeOK
<1>3. chunk \in Nat /\ chunk <= RingCapacity - Len(tx_rb)
      /\ chunk <= Len(w.data) - w.written
  BY <1>2, LeastFact
<1>4. written \in Nat /\ written <= Len(w.data)
  BY <1>2, <1>3
<1>5. SubSeq(w.data, w.written + 1, w.written + chunk) \in Seq(Bytes)
      /\ Len(SubSeq(w.data, w.written + 1, w.written + chunk)) = chunk
  <2>1. w.written + chunk <= Len(w.data)
    BY <1>4
  <2> HIDE DEF chunk, w, written
  <2> QED BY <1>2, <1>3, <2>1, Slice
<1>6. filled \in Seq(Bytes) /\ Len(filled) = Len(tx_rb) + chunk
      /\ Len(filled) <= RingCapacity
  <2>1. tx_rb \in Seq(Bytes)
    BY DEF TypeOK
  <2>2. RingCapacity \in Nat
    BY ConsoleAssumption
  <2> DEFINE more == SubSeq(w.data, w.written + 1, w.written + chunk)
  <2>3. more \in Seq(Bytes) /\ Len(more) = chunk
    BY <1>5
  <2> HIDE DEF chunk, w, more
  <2>4. tx_rb \o more \in Seq(Bytes) /\ Len(tx_rb \o more) = Len(tx_rb) + chunk
    BY <1>3, <2>1, <2>3
  <2>5. Len(tx_rb) + chunk <= RingCapacity
    BY <1>2, <1>3, <2>2
  <2> QED BY <2>4, <2>5 DEF more
<1>7. moved \in 0 .. Len(filled) /\ moved <= FifoDepth - Len(tx_fifo)
  <2> HIDE DEF filled
  <2>1. Len(filled) \in Nat
    BY <1>6
  <2>2. /\ moved \in Nat /\ moved <= FifoDepth - Len(tx_fifo) /\ moved <= Len(filled)
    BY <1>2, <2>1, LeastFact
  <2> QED BY <2>1, <2>2
<1>8. /\ w.pc = "write"
      /\ tx_rb' = Rest(filled, moved)
      /\ tx_fifo' = tx_fifo \o Take(filled, moved)
      /\ tx_it' = TRUE
      /\ tx_wait_task' = (IF ~done /\ full THEN t ELSE tx_wait_task)
      /\ missed' = [u \in Writers |->
           IF u = t THEN (IF ~done /\ ~full THEN "space" ELSE "no")
           ELSE IF u = tx_wait_task /\ ~done /\ full THEN "displaced"
           ELSE missed[u]]
      /\ writer' = [writer EXCEPT ![t] =
           IF done THEN [pc |-> "idle", data |-> << >>, written |-> 0]
           ELSE [@ EXCEPT !.pc = "wait", !.written = written]]
      /\ UNCHANGED <<wire, tx_notified, logged, messages, rxVars>>
  BY DEF WritePass
<1> HIDE DEF chunk, filled, moved, written, full, done
<1>9. TypeOK'
  <2>1. tx_rb' \in Seq(Bytes) /\ Len(tx_rb') <= RingCapacity
    <3>1. Rest(filled, moved) \in Seq(Bytes)
          /\ Len(Rest(filled, moved)) = Len(filled) - moved
      BY <1>6, <1>7, TakeRest
    <3> QED BY <1>6, <1>7, <1>8, <3>1, ConsoleAssumption
  <2>2. tx_fifo' \in Seq(Bytes) /\ Len(tx_fifo') <= FifoDepth
    <3>1. Take(filled, moved) \in Seq(Bytes) /\ Len(Take(filled, moved)) = moved
      BY <1>6, <1>7, TakeRest
    <3>2. tx_fifo \in Seq(Bytes)
      BY DEF TypeOK
    <3> QED BY <1>2, <1>7, <1>8, <3>1, <3>2, ConsoleAssumption
  <2>3. tx_wait_task' \in Writers \cup {NoTask} /\ tx_it' \in BOOLEAN
    BY <1>8 DEF TypeOK
  <2>4. missed' \in [Writers -> {"no", "space", "displaced"}]
    BY <1>8 DEF TypeOK
  <2>5. /\ writer' \in [Writers -> [pc : {"idle", "write", "wait"},
                                    data : Seq(Bytes), written : Nat]]
        /\ \A u \in Writers : writer'[u].written <= Len(writer'[u].data)
    <3>1. [pc |-> "idle", data |-> << >>, written |-> 0]
            \in [pc : {"idle", "write", "wait"}, data : Seq(Bytes), written : Nat]
      OBVIOUS
    <3>2. [w EXCEPT !.pc = "wait", !.written = written]
            \in [pc : {"idle", "write", "wait"}, data : Seq(Bytes), written : Nat]
      BY <1>1, <1>4
    <3>3. /\ [w EXCEPT !.pc = "wait", !.written = written].data = w.data
          /\ [w EXCEPT !.pc = "wait", !.written = written].written = written
      BY <1>1
    <3>4. writer' = [writer EXCEPT ![t] =
            IF done THEN [pc |-> "idle", data |-> << >>, written |-> 0]
            ELSE [w EXCEPT !.pc = "wait", !.written = written]]
      BY <1>8 DEF TypeOK
    <3>5. writer'[t].written <= Len(writer'[t].data)
      BY <1>4, <3>3, <3>4 DEF TypeOK
    <3> QED BY <3>1, <3>2, <3>4, <3>5 DEF TypeOK
  <2> QED BY <1>8, <2>1, <2>2, <2>3, <2>4, <2>5 DEF TypeOK, rxVars
<1>10. TxArmed'
  BY <1>8 DEF TxArmed
<1>11. TxWaitAccounted'
  <2>1. SUFFICES ASSUME NEW u \in Writers, writer'[u].pc = "wait"
                 PROVE  \/ tx_wait_task' = u \/ u \in tx_notified' \/ missed'[u] # "no"
    BY DEF TxWaitAccounted
  <2>2. CASE u = t
    <3>1. ~done
      BY <1>8, <2>1, <2>2 DEF TypeOK
    <3> QED BY <1>8, <2>2, <3>1
  <2>3. CASE u # t
    <3>1. writer'[u] = writer[u]
      BY <1>8, <2>3 DEF TypeOK
    <3> QED BY <1>8, <2>1, <2>3, <3>1 DEF TxWaitAccounted
  <2> QED BY <2>2, <2>3
<1>12. RxNoLostWakeup'
  BY <1>8 DEF RxNoLostWakeup, rxVars
<1> QED BY <1>9, <1>10, <1>11, <1>12

(* A notified task continues its write; its notification is consumed.      *)
LEMMA WriteWakeInv ==
  ASSUME ConsoleInv, NEW t \in Writers, WriteWake(t)
  PROVE  ConsoleInv'
<1> USE DEF ConsoleInv
<1>1. TypeOK'
  BY DEF WriteWake, TypeOK, rxVars
<1>2. TxWaitAccounted'
  BY DEF WriteWake, TxWaitAccounted, TypeOK
<1>3. TxArmed' /\ RxNoLostWakeup'
  BY DEF WriteWake, TxArmed, RxNoLostWakeup, rxVars
<1> QED BY <1>1, <1>2, <1>3

(* A shift of the transmit FIFO moves a byte nothing else looks at.        *)
LEMMA ShiftOutInv == ASSUME ConsoleInv, ShiftOut PROVE ConsoleInv'
<1> USE DEF ConsoleInv
<1>1. tx_fifo \in Seq(Bytes) /\ tx_fifo # << >> /\ wire \in Seq(Bytes)
      /\ Len(tx_fifo) <= FifoDepth
  BY DEF ShiftOut, TypeOK
<1>2. /\ Tail(tx_fifo) \in Seq(Bytes) /\ Len(Tail(tx_fifo)) = Len(tx_fifo) - 1
      /\ Append(wire, Head(tx_fifo)) \in Seq(Bytes)
  BY <1>1
<1>3. Len(Tail(tx_fifo)) <= FifoDepth
  BY <1>1, <1>2, ConsoleAssumption
<1>4. TypeOK'
  BY <1>2, <1>3 DEF ShiftOut, TypeOK, rxVars
<1>5. TxArmed' /\ TxWaitAccounted' /\ RxNoLostWakeup'
  BY DEF ShiftOut, TxArmed, TxWaitAccounted, RxNoLostWakeup, rxVars
<1> QED BY <1>4, <1>5

(* Neither does an arriving byte, or a silent line.                        *)
LEMMA LineInv == ASSUME ConsoleInv, ShiftIn \/ LineIdle PROVE ConsoleInv'
<1> USE DEF ConsoleInv
<1>1. CASE ShiftIn
  <2>1. arrived' \in 0 .. MaxRx /\ arrived' \in Nat
    BY <1>1, ConsoleAssumption DEF ShiftIn, TypeOK
  <2>2. rx_fifo' \in Seq(Nat) /\ Len(rx_fifo') <= FifoDepth /\ overrun' \in BOOLEAN
    <3>1. rx_fifo \in Seq(Nat) /\ Len(rx_fifo) <= FifoDepth /\ overrun \in BOOLEAN
      BY DEF TypeOK
    <3>2. CASE Len(rx_fifo) < FifoDepth
      <4>1. rx_fifo' = Append(rx_fifo, arrived') /\ overrun' = overrun
        BY <1>1, <3>2 DEF ShiftIn
      <4>2. Append(rx_fifo, arrived') \in Seq(Nat)
            /\ Len(Append(rx_fifo, arrived')) = Len(rx_fifo) + 1
        BY <2>1, <3>1
      <4> QED BY <3>1, <3>2, <4>1, <4>2, ConsoleAssumption
    <3>3. CASE ~(Len(rx_fifo) < FifoDepth)
      BY <1>1, <3>1, <3>3 DEF ShiftIn
    <3> QED BY <3>2, <3>3
  <2>3. TypeOK'
    BY <1>1, <2>1, <2>2 DEF ShiftIn, TypeOK, txVars
  <2> QED
    BY <1>1, <2>3 DEF ShiftIn, TxArmed, TxWaitAccounted, RxNoLostWakeup, txVars
<1>2. CASE LineIdle
  <2>1. TypeOK'
    BY <1>2 DEF LineIdle, TypeOK, txVars
  <2> QED
    BY <1>2, <2>1 DEF LineIdle, TxArmed, TxWaitAccounted, RxNoLostWakeup, txVars
<1> QED BY <1>1, <1>2

(* The reading task: it registers in the same critical section in which it *)
(* finds the ring empty.                                                   *)
LEMMA ReaderInv ==
  ASSUME ConsoleInv, (\E len \in ReadSizes : ReadCall(len)) \/ ReaderStep
  PROVE  ConsoleInv'
<1> USE DEF ConsoleInv
<1>1. ASSUME NEW len \in ReadSizes, ReadCall(len) PROVE ConsoleInv'
  <2>1. TypeOK'
    BY <1>1 DEF ReadCall, TypeOK, txVars
  <2> QED
    BY <1>1, <2>1 DEF ReadCall, TxArmed, TxWaitAccounted, RxNoLostWakeup, txVars
<1>2. CASE ReadPass
  <2> DEFINE read_len == Least(Len(rx_rb), want)
  <2>1. rx_rb \in Seq(Nat) /\ Len(rx_rb) \in Nat /\ Len(rx_rb) <= RingCapacity
        /\ want \in Nat \ {0} /\ delivered \in Seq(Nat)
    BY <1>2, ConsoleAssumption DEF ReadPass, TypeOK
  <2>2. read_len \in 0 .. Len(rx_rb) /\ (read_len = 0 => Len(rx_rb) = 0)
    BY <2>1 DEF Least
  <2>3. /\ reader = "read"
        /\ rx_rb' = Rest(rx_rb, read_len)
        /\ delivered' = delivered \o Take(rx_rb, read_len)
        /\ rx_wait_task' = (rx_wait_task \/ read_len = 0)
        /\ reader' = (IF read_len = 0 THEN "wait" ELSE "idle")
        /\ UNCHANGED <<rx_fifo, arrived, idle, overrun, rx_notified, want, txVars>>
    BY <1>2 DEF ReadPass
  <2> HIDE DEF read_len
  <2>4. /\ Take(rx_rb, read_len) \in Seq(Nat) /\ Rest(rx_rb, read_len) \in Seq(Nat)
        /\ Len(Rest(rx_rb, read_len)) = Len(rx_rb) - read_len
        /\ read_len = 0 => Rest(rx_rb, read_len) = rx_rb
    BY <2>1, <2>2, TakeRest
  <2>5. delivered' \in Seq(Nat)
    BY <2>1, <2>3, <2>4
  <2>6. rx_rb' \in Seq(Nat) /\ Len(rx_rb') <= RingCapacity
    BY <2>1, <2>2, <2>3, <2>4, ConsoleAssumption
  <2>7. /\ rx_wait_task' \in BOOLEAN /\ reader' \in {"idle", "wait"}
    BY <2>3 DEF TypeOK
  <2>8. TypeOK'
    BY <2>3, <2>5, <2>6, <2>7 DEF TypeOK, txVars
  <2>9. RxNoLostWakeup'
    <3>1. SUFFICES ASSUME reader' = "wait" PROVE rx_wait_task' /\ rx_rb' = << >>
      BY DEF RxNoLostWakeup
    <3>2. read_len = 0
      BY <2>3, <3>1
    <3>3. rx_rb = << >>
      BY <2>1, <2>2, <3>2
    <3> QED BY <2>3, <2>4, <3>2, <3>3
  <2> QED BY <2>3, <2>8, <2>9 DEF TxArmed, TxWaitAccounted, txVars
<1>3. CASE ReadWake
  <2>1. TypeOK'
    BY <1>3 DEF ReadWake, TypeOK, txVars
  <2> QED
    BY <1>3, <2>1 DEF ReadWake, TxArmed, TxWaitAccounted, RxNoLostWakeup, txVars
<1> QED BY <1>1, <1>2, <1>3 DEF ReaderStep

(* The handler: what it takes from a waiting task it gives as a            *)
(* notification, and it leaves the interrupt armed unless the ring is      *)
(* empty.                                                                  *)
LEMMA IrqInv == ASSUME ConsoleInv, IrqHandler PROVE ConsoleInv'
<1> USE DEF ConsoleInv
<1> DEFINE kept  == Least(RingCapacity - Len(rx_rb), Len(rx_fifo))
           moved == IF TxPending THEN Least(FifoDepth - Len(tx_fifo), Len(tx_rb)) ELSE 0
           empty == TxPending /\ moved = Len(tx_rb)
           wake  == (moved > 0 \/ empty) /\ tx_wait_task # NoTask
<1>1. /\ tx_rb \in Seq(Bytes) /\ tx_fifo \in Seq(Bytes)
      /\ rx_rb \in Seq(Nat) /\ rx_fifo \in Seq(Nat)
      /\ Len(tx_rb) \in Nat /\ FifoDepth - Len(tx_fifo) \in Nat
      /\ Len(rx_fifo) \in Nat /\ RingCapacity - Len(rx_rb) \in Nat
      /\ Len(tx_rb) <= RingCapacity /\ Len(rx_rb) <= RingCapacity
  BY ConsoleAssumption DEF TypeOK
<1>2. kept \in 0 .. Len(rx_fifo) /\ kept <= RingCapacity - Len(rx_rb)
  BY <1>1 DEF Least
<1>3. moved \in 0 .. Len(tx_rb) /\ moved <= FifoDepth - Len(tx_fifo)
  BY <1>1 DEF Least
<1>4. /\ rx_fifo' = << >> /\ idle' = FALSE /\ overrun' = FALSE
      /\ rx_rb' = rx_rb \o Take(rx_fifo, kept)
      /\ rx_notified' = (rx_notified \/ (rx_fifo # << >> /\ rx_wait_task))
      /\ rx_wait_task' = (rx_wait_task /\ ~(rx_fifo # << >>))
      /\ UNCHANGED <<arrived, reader, want, delivered>>
  BY DEF IrqHandler, IrqReceive
<1>5. /\ tx_rb' = Rest(tx_rb, moved)
      /\ tx_fifo' = tx_fifo \o Take(tx_rb, moved)
      /\ tx_it' = (tx_it /\ ~empty)
      /\ tx_notified' = (IF wake THEN tx_notified \cup {tx_wait_task} ELSE tx_notified)
      /\ tx_wait_task' = (IF wake THEN NoTask ELSE tx_wait_task)
      /\ UNCHANGED <<wire, writer, logged, messages, missed>>
  BY DEF IrqHandler, IrqTransmit
<1>6. /\ empty => moved = Len(tx_rb)
      /\ ~tx_it => moved = 0
  BY DEF TxPending
<1> HIDE DEF kept, moved, empty, wake
<1>7. /\ Take(rx_fifo, kept) \in Seq(Nat) /\ Len(Take(rx_fifo, kept)) = kept
      /\ Rest(tx_rb, moved) \in Seq(Bytes)
      /\ Len(Rest(tx_rb, moved)) = Len(tx_rb) - moved
      /\ Take(tx_rb, moved) \in Seq(Bytes) /\ Len(Take(tx_rb, moved)) = moved
  <2>1. Take(rx_fifo, kept) \in Seq(Nat) /\ Len(Take(rx_fifo, kept)) = kept
    BY <1>1, <1>2, TakeRest
  <2>2. /\ Take(tx_rb, moved) \in Seq(Bytes) /\ Len(Take(tx_rb, moved)) = moved
        /\ Rest(tx_rb, moved) \in Seq(Bytes)
        /\ Len(Rest(tx_rb, moved)) = Len(tx_rb) - moved
    BY <1>1, <1>3, TakeRest
  <2> QED BY <2>1, <2>2
<1>8. TypeOK'
  <2>1. rx_rb' \in Seq(Nat) /\ Len(rx_rb') <= RingCapacity
    BY <1>1, <1>2, <1>4, <1>7, ConsoleAssumption
  <2>2. tx_rb' \in Seq(Bytes) /\ Len(tx_rb') <= RingCapacity
    BY <1>1, <1>3, <1>5, <1>7, ConsoleAssumption
  <2>3. tx_fifo' \in Seq(Bytes) /\ Len(tx_fifo') <= FifoDepth
    BY <1>1, <1>3, <1>5, <1>7, ConsoleAssumption
  <2>4. rx_fifo' \in Seq(Nat) /\ Len(rx_fifo') <= FifoDepth
    BY <1>4, ConsoleAssumption
  <2>5. /\ rx_notified' \in BOOLEAN /\ rx_wait_task' \in BOOLEAN /\ tx_it' \in BOOLEAN
        /\ idle' \in BOOLEAN /\ overrun' \in BOOLEAN
    BY <1>4, <1>5 DEF TypeOK
  <2>6. tx_notified' \subseteq Writers /\ tx_wait_task' \in Writers \cup {NoTask}
    <3>1. CASE wake
      <4>1. tx_wait_task \in Writers
        BY <3>1 DEF wake, TypeOK
      <4> QED BY <1>5, <3>1, <4>1 DEF TypeOK
    <3>2. CASE ~wake
      BY <1>5, <3>2 DEF TypeOK
    <3> QED BY <3>1, <3>2
  <2> QED BY <1>4, <1>5, <2>1, <2>2, <2>3, <2>4, <2>5, <2>6 DEF TypeOK
<1>9. TxArmed'
  <2>1. SUFFICES ASSUME ~tx_it' PROVE tx_rb' = << >>
    BY DEF TxArmed
  <2>2. CASE tx_it
    <3>1. moved = Len(tx_rb)
      BY <1>5, <1>6, <2>1, <2>2
    <3> QED BY <1>1, <1>3, <1>5, <3>1, TakeRest
  <2>3. CASE ~tx_it
    <3>1. tx_rb = << >>
      BY <2>3 DEF TxArmed
    <3>2. moved = 0
      BY <1>6, <2>3
    <3> QED BY <1>1, <1>3, <1>5, <3>1, <3>2, TakeRest
  <2> QED BY <2>2, <2>3
<1>10. TxWaitAccounted'
  <2>1. SUFFICES ASSUME NEW u \in Writers, writer[u].pc = "wait"
                 PROVE  \/ tx_wait_task' = u \/ u \in tx_notified' \/ missed[u] # "no"
    BY <1>5 DEF TxWaitAccounted
  <2>2. tx_wait_task = u \/ u \in tx_notified \/ missed[u] # "no"
    BY <2>1 DEF TxWaitAccounted
  <2> QED BY <1>5, <2>2
<1>11. RxNoLostWakeup'
  <2>1. SUFFICES ASSUME reader' = "wait", ~rx_notified'
                 PROVE  rx_wait_task' /\ rx_rb' = << >>
    BY DEF RxNoLostWakeup
  <2>2. reader = "wait" /\ ~rx_notified
    BY <1>4, <2>1
  <2>3. rx_wait_task /\ rx_rb = << >>
    BY <2>2 DEF RxNoLostWakeup
  <2>4. rx_fifo = << >>
    BY <1>4, <2>1, <2>3
  <2>5. kept = 0 /\ Take(rx_fifo, kept) = << >>
    BY <1>1, <1>2, <1>7, <2>4
  <2>6. rx_rb' = << >> \o << >>
    BY <1>4, <2>3, <2>5
  <2>7. rx_rb' = << >>
    BY <2>6
  <2> QED BY <1>4, <2>3, <2>4, <2>7
<1> QED BY <1>8, <1>9, <1>10, <1>11
-----------------------------------------------------------------------------
(* Every step keeps the invariant.                                         *)
LEMMA NextInv == ConsoleInv /\ [Next]_vars => ConsoleInv'
<1> SUFFICES ASSUME ConsoleInv, [Next]_vars PROVE ConsoleInv'
  OBVIOUS
<1>1. ASSUME NEW t \in Writers, NEW n \in Lengths, LogCall(t, n) PROVE ConsoleInv'
  BY <1>1, LogCallInv
<1>2. ASSUME NEW t \in Writers, TaskStep(t) PROVE ConsoleInv'
  BY <1>2, WritePassInv, WriteWakeInv DEF TaskStep
<1>3. CASE (\E len \in ReadSizes : ReadCall(len)) \/ ReaderStep
  BY <1>3, ReaderInv
<1>4. CASE ShiftOut \/ ShiftIn \/ LineIdle
  BY <1>4, ShiftOutInv, LineInv
<1>5. CASE IrqHandler
  BY <1>5, IrqInv
<1>6. CASE UNCHANGED vars
  BY <1>6 DEF ConsoleInv, TypeOK, TxArmed, TxWaitAccounted, RxNoLostWakeup,
     vars, txVars, rxVars
<1> QED BY <1>1, <1>2, <1>3, <1>4, <1>5, <1>6 DEF Next

(* The types and the three facts of the handshake hold in every state of   *)
(* every behaviour (serial_console_write, _read and _irq_handler).         *)
THEOREM ConsoleInvariance == Spec => []ConsoleInv
BY InitInv, NextInv, PTL DEF Spec

(* Rings and FIFOs never hold more than their size.                        *)
THEOREM ConsoleTypes == Spec => []TypeOK
BY ConsoleInvariance, PTL DEF ConsoleInv

(* Bytes never rest in the transmit ring with the interrupt disabled.      *)
THEOREM TransmitArmed == Spec => []TxArmed
BY ConsoleInvariance, PTL DEF ConsoleInv

(* A writer waits only with a wake-up to come, or after one of the two     *)
(* losses of the single tx_wait_task slot.                                 *)
THEOREM WriterAccounted == Spec => []TxWaitAccounted
BY ConsoleInvariance, PTL DEF ConsoleInv

(* The reader never sleeps on data.                                        *)
THEOREM ReaderNotLost == Spec => []RxNoLostWakeup
BY ConsoleInvariance, PTL DEF ConsoleInv

-----------------------------------------------------------------------------
(* Bytes are numbered as they arrive, and no byte has a number that has    *)
(* not arrived: what comes next is larger than what is there.              *)
InOrderUpTo(s, top) ==
  /\ \A i \in 1 .. Len(s) - 1 : s[i] < s[i + 1]
  /\ \A i \in 1 .. Len(s) : s[i] <= top

RxInv == InOrderUpTo(Received, arrived)

(* Taking a prefix and putting it back before the rest changes nothing.    *)
LEMMA TakeThenRest ==
  ASSUME NEW S, NEW s \in Seq(S), NEW n \in 0 .. Len(s)
  PROVE  Take(s, n) \o Rest(s, n) = s
<1>1. 1 \in 1 .. Len(s) + 1 /\ n \in 1 - 1 .. Len(s) /\ Len(s) \in n .. Len(s)
  OBVIOUS
<1>2. SubSeq(s, 1, n) \o SubSeq(s, n + 1, Len(s)) = SubSeq(s, 1, Len(s))
  BY <1>1, ConcatAdjacentSubSeq
<1> QED
  BY <1>2, SubSeqFull DEF Take, Rest

(* The same behind other elements: what moves from one queue to the end of *)
(* another changes nothing in the two of them together.                    *)
LEMMA MoveAcross ==
  ASSUME NEW S, NEW s \in Seq(S), NEW t \in Seq(S), NEW n \in 0 .. Len(t)
  PROVE  (s \o Take(t, n)) \o Rest(t, n) = s \o t
<1> DEFINE a == Take(t, n)
           b == Rest(t, n)
<1>1. a \in Seq(S) /\ b \in Seq(S)
  BY TakeRest
<1>2. a \o b = t
  BY TakeThenRest
<1> HIDE DEF a, b
<1>3. (s \o a) \o b = s \o (a \o b)
  BY <1>1, ConcatAssociative
<1> QED
  BY <1>2, <1>3 DEF a, b

(* Bytes stay in order when the last ones are dropped, and when one that   *)
(* is new comes behind them.                                               *)
LEMMA OrderOfPrefix ==
  ASSUME NEW s \in Seq(Nat), NEW t \in Seq(Nat), NEW top \in Nat, NEW n \in 0 .. Len(t),
         InOrderUpTo(s \o t, top)
  PROVE  InOrderUpTo(s \o Take(t, n), top)
<1>1. /\ Take(t, n) \in Seq(Nat) /\ Len(Take(t, n)) = n
      /\ \A i \in 1 .. n : Take(t, n)[i] = t[i]
  BY DEF Take
<1>2. /\ Len(s \o t) = Len(s) + Len(t) /\ Len(s \o Take(t, n)) = Len(s) + n
      /\ \A i \in 1 .. Len(s) + n : (s \o Take(t, n))[i] = (s \o t)[i]
  <2>1. /\ Len(s \o Take(t, n)) = Len(s) + n
        /\ \A i \in 1 .. Len(s) + n :
             (s \o Take(t, n))[i] = IF i <= Len(s) THEN s[i] ELSE Take(t, n)[i - Len(s)]
    BY <1>1, ConcatProperties
  <2>2. /\ Len(s \o t) = Len(s) + Len(t)
        /\ \A i \in 1 .. Len(s) + Len(t) :
             (s \o t)[i] = IF i <= Len(s) THEN s[i] ELSE t[i - Len(s)]
    BY ConcatProperties
  <2>3. ASSUME NEW i \in 1 .. Len(s) + n
        PROVE  (s \o Take(t, n))[i] = (s \o t)[i]
    <3>1. i \in 1 .. Len(s) + Len(t) /\ (i > Len(s) => i - Len(s) \in 1 .. n)
      OBVIOUS
    <3> QED
      BY <1>1, <2>1, <2>2, <3>1
  <2> QED
    BY <2>1, <2>2, <2>3
<1> DEFINE old == s \o t
           new == s \o Take(t, n)
<1>3. /\ \A i \in 1 .. Len(old) - 1 : old[i] < old[i + 1]
      /\ \A i \in 1 .. Len(old) : old[i] <= top
  BY DEF InOrderUpTo
<1> HIDE DEF old, new
<1>4. Len(new) \in Nat /\ Len(new) <= Len(old) /\ Len(old) \in Nat
      /\ \A i \in 1 .. Len(new) : new[i] = old[i]
  <2>1. Len(new) = Len(s) + n /\ Len(old) = Len(s) + Len(t)
    BY <1>2 DEF old, new
  <2> QED
    BY <1>2, <2>1 DEF old, new
<1>5. /\ \A i \in 1 .. Len(new) - 1 : new[i] < new[i + 1]
      /\ \A i \in 1 .. Len(new) : new[i] <= top
  <2>1. ASSUME NEW i \in 1 .. Len(new) - 1
        PROVE  new[i] < new[i + 1]
    <3>1. i \in 1 .. Len(new) /\ i + 1 \in 1 .. Len(new) /\ i \in 1 .. Len(old) - 1
      BY <1>4
    <3> QED
      BY <1>3, <1>4, <3>1
  <2> QED
    BY <1>3, <1>4, <2>1
<1> QED
  BY <1>5 DEF InOrderUpTo, new

(* One more number, newer than all the others, comes behind them.          *)
LEMMA OrderOfAppend ==
  ASSUME NEW s \in Seq(Nat), NEW top \in Nat, NEW x \in Nat, top < x, InOrderUpTo(s, top)
  PROVE  InOrderUpTo(Append(s, x), x)
<1>1. /\ Len(Append(s, x)) = Len(s) + 1 /\ Len(s) \in Nat
      /\ \A i \in 1 .. Len(s) : Append(s, x)[i] = s[i]
      /\ Append(s, x)[Len(s) + 1] = x
  BY AppendProperties, LenProperties
<1>2. \A i \in 1 .. Len(s) : s[i] \in Nat
  BY ElementOfSeq
<1> DEFINE new == Append(s, x)
<1> HIDE DEF new
<1>3. ASSUME NEW i \in 1 .. Len(new) - 1
      PROVE  new[i] < new[i + 1]
  <2>1. i \in 1 .. Len(s) /\ new[i] = s[i] /\ s[i] \in Nat /\ s[i] <= top
    BY <1>1, <1>2 DEF InOrderUpTo, new
  <2>2. CASE i = Len(s)
    BY <1>1, <2>1, <2>2 DEF new
  <2>3. CASE i < Len(s)
    <3>1. i \in 1 .. Len(s) - 1 /\ i + 1 \in 1 .. Len(s)
      BY <1>1, <2>1, <2>3
    <3> QED
      BY <1>1, <2>1, <3>1 DEF InOrderUpTo, new
  <2> QED
    BY <1>1, <2>1, <2>2, <2>3
<1>4. ASSUME NEW i \in 1 .. Len(new)
      PROVE  new[i] <= x
  <2>1. i \in 1 .. Len(s) \/ i = Len(s) + 1
    BY <1>1 DEF new
  <2>2. CASE i = Len(s) + 1
    BY <1>1, <2>2 DEF new
  <2>3. CASE i \in 1 .. Len(s)
    <3>1. new[i] = s[i] /\ s[i] <= top /\ s[i] \in Nat
      BY <1>1, <1>2, <2>3 DEF InOrderUpTo, new
    <3> QED
      BY <3>1
  <2> QED
    BY <2>1, <2>2, <2>3
<1> QED
  BY <1>3, <1>4 DEF InOrderUpTo, new

(* The reading task's bytes are sequences of numbers.                      *)
LEMMA RxTypes ==
  ASSUME TypeOK
  PROVE  /\ delivered \in Seq(Nat) /\ rx_rb \in Seq(Nat) /\ rx_fifo \in Seq(Nat)
         /\ arrived \in Nat /\ Received \in Seq(Nat)
BY ConsoleAssumption DEF TypeOK, Received

(* A byte arrives: it is stored behind the others, or lost.                *)
LEMMA ShiftReceived ==
  ASSUME TypeOK, ShiftIn
  PROVE  /\ arrived' = arrived + 1
         /\ \/ Received' = Append(Received, arrived')
            \/ Received' = Received /\ Len(rx_fifo) = FifoDepth /\ overrun'
<1>1. /\ delivered \in Seq(Nat) /\ rx_rb \in Seq(Nat) /\ rx_fifo \in Seq(Nat)
      /\ arrived \in Nat /\ Received \in Seq(Nat)
  BY RxTypes
<1>2. arrived' = arrived + 1 /\ arrived' \in Nat /\ UNCHANGED <<delivered, rx_rb>>
  BY <1>1 DEF ShiftIn
<1>3. CASE Len(rx_fifo) < FifoDepth
  <2>1. rx_fifo' = Append(rx_fifo, arrived')
    BY <1>3 DEF ShiftIn
  <2>2. Received' = Append(Received, arrived')
    BY <1>1, <1>2, <2>1, AppendIsConcat, ConcatAssociative, AppendProperties, ConcatProperties
       DEF Received
  <2> QED
    BY <1>2, <2>2
<1>4. CASE ~ (Len(rx_fifo) < FifoDepth)
  <2>1. rx_fifo' = rx_fifo /\ overrun' /\ Len(rx_fifo) = FifoDepth
    <3>1. rx_fifo' = rx_fifo /\ overrun'
      BY <1>4 DEF ShiftIn
    <3>2. Len(rx_fifo) <= FifoDepth /\ Len(rx_fifo) \in Nat /\ FifoDepth \in Nat
      BY <1>1, ConsoleAssumption DEF TypeOK
    <3> QED
      BY <1>4, <3>1, <3>2
  <2> QED
    BY <1>2, <2>1 DEF Received
<1> QED
  BY <1>3, <1>4

(* A byte that arrives is newer than all before it; one that meets a full  *)
(* FIFO is none of them.                                                   *)
LEMMA ShiftInOrder ==
  ASSUME TypeOK, RxInv, ShiftIn
  PROVE  RxInv'
<1>1. arrived \in Nat /\ Received \in Seq(Nat)
  BY RxTypes
<1>2. arrived' = arrived + 1 /\ arrived' \in Nat /\ arrived < arrived'
  BY <1>1, ShiftReceived
<1>3. CASE Received' = Append(Received, arrived')
  BY <1>1, <1>2, <1>3, OrderOfAppend DEF RxInv
<1>4. CASE Received' = Received
  <2>1. \A i \in 1 .. Len(Received) : Received[i] \in Nat
    BY <1>1, ElementOfSeq
  <2> QED
    BY <1>1, <1>2, <1>4, <2>1 DEF RxInv, InOrderUpTo
<1> QED
  BY <1>3, <1>4, ShiftReceived

(* A read takes bytes from the head of the ring.                           *)
LEMMA ReadReceived ==
  ASSUME TypeOK, ReadPass
  PROVE  arrived' = arrived /\ Received' = Received
<1> DEFINE n == Least(Len(rx_rb), want)
<1>1. /\ delivered \in Seq(Nat) /\ rx_rb \in Seq(Nat) /\ rx_fifo \in Seq(Nat)
      /\ want \in Nat /\ Len(rx_rb) \in Nat
  BY RxTypes, ConsoleAssumption DEF TypeOK
<1>2. n \in 0 .. Len(rx_rb)
  BY <1>1 DEF Least
<1>3. rx_rb' = Rest(rx_rb, n) /\ delivered' = delivered \o Take(rx_rb, n)
      /\ UNCHANGED <<rx_fifo, arrived>>
  BY DEF ReadPass
<1> HIDE DEF n
<1>4. delivered' \o rx_rb' = delivered \o rx_rb
  BY <1>1, <1>2, <1>3, MoveAcross
<1> QED
  BY <1>3, <1>4 DEF Received

(* The handler moves bytes from the FIFO behind those in the ring, and     *)
(* drops those behind them.                                                *)
LEMMA IrqReceived ==
  ASSUME TypeOK, IrqHandler,
         NEW n, n = Least(RingCapacity - Len(rx_rb), Len(rx_fifo))
  PROVE  /\ n \in 0 .. Len(rx_fifo) /\ arrived' = arrived
         /\ rx_rb' = rx_rb \o Take(rx_fifo, n)
         /\ Received' = (delivered \o rx_rb) \o Take(rx_fifo, n)
<1>1. /\ delivered \in Seq(Nat) /\ rx_rb \in Seq(Nat) /\ rx_fifo \in Seq(Nat)
      /\ Len(rx_fifo) \in Nat /\ RingCapacity - Len(rx_rb) \in Nat
  BY RxTypes, ConsoleAssumption DEF TypeOK
<1>2. n \in 0 .. Len(rx_fifo)
  BY <1>1 DEF Least
<1>3. rx_rb' = rx_rb \o Take(rx_fifo, n) /\ rx_fifo' = << >> /\ UNCHANGED <<delivered, arrived>>
  BY DEF IrqHandler, IrqReceive
<1> DEFINE a == Take(rx_fifo, n)
<1>4. a \in Seq(Nat)
  BY <1>1, <1>2, TakeRest
<1>5. Received' = (delivered \o (rx_rb \o a)) \o << >>
  BY <1>3 DEF Received
<1> HIDE DEF a
<1>6. delivered \o (rx_rb \o a) = (delivered \o rx_rb) \o a
  <2>1. a \in Seq(Nat) /\ delivered \in Seq(Nat) /\ rx_rb \in Seq(Nat)
    BY <1>1, <1>4
  <2> QED
    BY <2>1, ConcatAssociative
<1>7. (delivered \o rx_rb) \o a \in Seq(Nat)
  BY <1>1, <1>4, ConcatProperties
<1> QED
  BY <1>2, <1>3, <1>5, <1>6, <1>7, ConcatEmptySeq DEF a

(* The handler moves bytes from FIFO to ring and drops the newest.         *)
LEMMA IrqOrder ==
  ASSUME TypeOK, RxInv, IrqHandler
  PROVE  RxInv'
<1>1. PICK n : n = Least(RingCapacity - Len(rx_rb), Len(rx_fifo))
  OBVIOUS
<1>2. /\ n \in 0 .. Len(rx_fifo) /\ arrived' = arrived
      /\ Received' = (delivered \o rx_rb) \o Take(rx_fifo, n)
  BY <1>1, IrqReceived
<1>3. /\ delivered \o rx_rb \in Seq(Nat) /\ rx_fifo \in Seq(Nat) /\ arrived \in Nat
  BY RxTypes, ConcatProperties
<1>4. InOrderUpTo((delivered \o rx_rb) \o Take(rx_fifo, n), arrived)
  <2>1. InOrderUpTo((delivered \o rx_rb) \o rx_fifo, arrived)
    BY DEF RxInv, Received
  <2> QED
    BY <1>2, <1>3, <2>1, OrderOfPrefix
<1> QED
  BY <1>2, <1>4 DEF RxInv

(* Every step keeps the order.                                             *)
LEMMA RxStep ==
  ASSUME ConsoleInv, RxInv, [Next]_vars
  PROVE  RxInv'
<1>1. TypeOK
  BY DEF ConsoleInv
<1>2. CASE UNCHANGED <<delivered, rx_rb, rx_fifo, arrived>>
  BY <1>2 DEF RxInv, Received
<1>3. CASE ShiftIn \/ ReadPass \/ IrqHandler
  BY <1>1, <1>3, ShiftInOrder, ReadReceived, IrqOrder DEF RxInv
<1>4. \/ UNCHANGED <<delivered, rx_rb, rx_fifo, arrived>>
      \/ ShiftIn \/ ReadPass \/ IrqHandler
  BY DEF Next, TaskStep, ReaderStep, LogCall, WritePass, WriteWake, ReadCall, ReadWake,
         ShiftOut, LineIdle, vars, txVars, rxVars
<1> QED
  BY <1>2, <1>3, <1>4

(* What reads return, and what is buffered behind it, is in the order of   *)
(* arrival with nothing twice (serial_console_irq_handler,                 *)
(* serial_console_read).                                                   *)
THEOREM ReceivedInOrder == Spec => []RxInOrder
<1>1. Init => RxInv
  <2> SUFFICES ASSUME Init
               PROVE  RxInv
    OBVIOUS
  <2>1. delivered = << >> /\ rx_rb = << >> /\ rx_fifo = << >>
    BY DEF Init
  <2>2. Received = << >>
    BY <2>1 DEF Received
  <2>3. Len(Received) = 0
    BY <2>2
  <2> QED
    BY <2>3 DEF RxInv, InOrderUpTo
<1>2. RxInv => RxInOrder
  BY DEF RxInv, RxInOrder, InOrderUpTo, Received
<1>3. ConsoleInv /\ RxInv /\ [Next]_vars => RxInv'
  BY RxStep
<1> HIDE DEF RxInv, RxInOrder, ConsoleInv
<1> QED
  BY ConsoleInvariance, <1>1, <1>2, <1>3, PTL DEF Spec

(* The first part of a sequence that was put together from two.            *)
LEMMA TakeOfConcat ==
  ASSUME NEW S, NEW s \in Seq(S), NEW t \in Seq(S)
  PROVE  Take(s \o t, Len(s)) = s
<1> DEFINE u == s \o t
<1>1. /\ u \in Seq(S) /\ Len(s) \in Nat /\ Len(s) \in 0 .. Len(u)
      /\ \A i \in 1 .. Len(s) : u[i] = s[i]
  BY ConcatProperties, LenProperties
<1> HIDE DEF u
<1>2. /\ Take(u, Len(s)) \in Seq(S) /\ Len(Take(u, Len(s))) = Len(s)
      /\ \A i \in 1 .. Len(s) : Take(u, Len(s))[i] = u[i]
  BY <1>1, TakeRest DEF Take
<1>3. Take(u, Len(s)) = s
  BY <1>1, <1>2, SeqEqual
<1> QED
  BY <1>3 DEF u

(* The handler drops the newest bytes, and only if the ring is full then.  *)
LEMMA IrqDropsNewest ==
  ASSUME TypeOK, IrqHandler
  PROVE  \/ arrived' = arrived /\ Received' = Received
         \/ /\ arrived' = arrived /\ Len(rx_rb') = RingCapacity
            /\ Received' = Take(Received, Len(Received'))
<1>1. PICK n : n = Least(RingCapacity - Len(rx_rb), Len(rx_fifo))
  OBVIOUS
<1> DEFINE s == delivered \o rx_rb
           a == Take(rx_fifo, n)
<1>2. /\ n \in 0 .. Len(rx_fifo) /\ arrived' = arrived /\ rx_rb' = rx_rb \o a
      /\ Received' = s \o a
  BY <1>1, IrqReceived
<1>3. /\ rx_rb \in Seq(Nat) /\ rx_fifo \in Seq(Nat) /\ s \in Seq(Nat)
      /\ Len(s) \in Nat /\ Len(rx_rb) \in Nat /\ Len(rx_fifo) \in Nat
      /\ RingCapacity \in Nat /\ Len(rx_rb) <= RingCapacity
  BY RxTypes, ConcatProperties, LenProperties, ConsoleAssumption DEF TypeOK
<1>4. /\ a \in Seq(Nat) /\ Len(a) = n
      /\ a \o Rest(rx_fifo, n) = rx_fifo /\ Rest(rx_fifo, n) \in Seq(Nat)
  BY <1>2, <1>3, TakeRest, TakeThenRest
<1> HIDE DEF a
<1>5. CASE n = Len(rx_fifo)
  <2>1. a = rx_fifo
    BY <1>3, <1>5, SubSeqFull DEF a, Take
  <2> QED
    BY <1>2, <2>1 DEF Received
<1>6. CASE n # Len(rx_fifo)
  <2>1. n = RingCapacity - Len(rx_rb)
    BY <1>1, <1>6 DEF Least
  <2>2. Len(rx_rb') = Len(rx_rb) + n
    BY <1>2, <1>3, <1>4, ConcatProperties
  <2>3. Len(rx_rb') = RingCapacity
    BY <1>3, <2>1, <2>2
  <2>4. Received = (s \o a) \o Rest(rx_fifo, n)
    <3> DEFINE b == Rest(rx_fifo, n)
    <3>1. Received = s \o (a \o b)
      BY <1>4 DEF Received
    <3>2. s \in Seq(Nat) /\ a \in Seq(Nat) /\ b \in Seq(Nat)
      BY <1>3, <1>4
    <3> HIDE DEF s, b
    <3>3. Received = (s \o a) \o b
      BY <3>1, <3>2, ConcatAssociative
    <3> QED
      BY <3>3 DEF b
  <2>5. s \o a \in Seq(Nat)
    BY <1>3, <1>4, ConcatProperties
  <2> HIDE DEF s
  <2>6. Take((s \o a) \o Rest(rx_fifo, n), Len(s \o a)) = s \o a
    BY <1>4, <2>5, TakeOfConcat
  <2> QED
    BY <1>2, <2>3, <2>4, <2>6
<1> QED
  BY <1>5, <1>6

(* A byte is lost only in the FIFO, when it is full, or in the handler,    *)
(* when the ring is (serial_console_irq_handler).                          *)
THEOREM LossOnlyWhenFull == Spec => RxLost
<1> DEFINE Kept ==
      \/ arrived' = arrived /\ Received' = Received
      \/ arrived' = arrived + 1 /\ Received' = Append(Received, arrived')
      \/ /\ arrived' = arrived + 1 /\ Received' = Received
         /\ Len(rx_fifo) = FifoDepth /\ overrun'
      \/ /\ arrived' = arrived /\ Len(rx_rb') = RingCapacity
         /\ Received' = Take(Received, Len(Received'))
<1>1. TypeOK /\ [Next]_vars => [Kept]_vars
  <2> SUFFICES ASSUME TypeOK, [Next]_vars
               PROVE  Kept \/ UNCHANGED vars
    OBVIOUS
  <2>1. CASE UNCHANGED <<delivered, rx_rb, rx_fifo, arrived>>
    BY <2>1 DEF Received
  <2>2. CASE ShiftIn
    BY <2>2, ShiftReceived
  <2>3. CASE ReadPass
    BY <2>3, ReadReceived
  <2>4. CASE IrqHandler
    BY <2>4, IrqDropsNewest
  <2>5. \/ UNCHANGED <<delivered, rx_rb, rx_fifo, arrived>>
        \/ ShiftIn \/ ReadPass \/ IrqHandler
    BY DEF Next, TaskStep, ReaderStep, LogCall, WritePass, WriteWake, ReadCall, ReadWake,
           ShiftOut, LineIdle, vars, txVars, rxVars
  <2> QED
    BY <2>1, <2>2, <2>3, <2>4, <2>5
<1>2. RxLost <=> [][Kept]_vars
  BY DEF RxLost
<1>3. ConsoleInv => TypeOK
  BY DEF ConsoleInv
<1> HIDE DEF Kept, ConsoleInv, TypeOK
<1> QED
  BY ConsoleInvariance, <1>1, <1>2, <1>3, PTL DEF Spec

-----------------------------------------------------------------------------
(* Every set of numbers that is not empty has a least element: what        *)
(* induction over a sequence is made of here.                              *)
LEMMA LeastElement ==
  ASSUME NEW T \in SUBSET Nat, T # {}
  PROVE  \E n \in T : \A m \in T : ~ (m < n)
<1>1. OpToRel(<, Nat) = {p \in Nat \X Nat : p[1] < p[2]}
  BY DEF OpToRel
<1>2. IsWellFoundedOn(OpToRel(<, Nat), Nat)
  BY NatLessThanWellFounded
<1> QED
  BY <1>1, <1>2, WFMin

(* The recursion of Filtered: its value at every prefix.                   *)
Prefix(g, t, s, n) ==
  IF n = 0 THEN << >>
  ELSE IF s[n][1] = t THEN Append(g[n - 1], s[n]) ELSE g[n - 1]

(* A function as Filtered asks for exists for every prefix.                *)
LEMMA FilterExists ==
  ASSUME NEW t, NEW s, Len(s) \in Nat
  PROVE  \E g : g = [n \in 0 .. Len(s) |-> Prefix(g, t, s, n)]
<1> DEFINE Upto(k) == \E g : g = [n \in 0 .. k |-> Prefix(g, t, s, n)]
           Bad == {k \in Nat : ~ Upto(k)}
<1>1. Upto(0)
  <2> DEFINE g == [n \in 0 .. 0 |-> << >>]
  <2>1. g = [n \in 0 .. 0 |-> Prefix(g, t, s, n)]
    BY DEF Prefix
  <2> HIDE DEF g
  <2> QED
    BY <2>1
<1>2. ASSUME NEW k \in Nat, Upto(k)
      PROVE  Upto(k + 1)
  <2>1. PICK g : g = [n \in 0 .. k |-> Prefix(g, t, s, n)]
    BY <1>2
  <2> DEFINE h == [n \in 0 .. k + 1 |-> IF n <= k THEN g[n] ELSE Prefix(g, t, s, n)]
  <2>2. \A n \in 0 .. k + 1 : h[n] = Prefix(h, t, s, n)
    <3> TAKE n \in 0 .. k + 1
    <3>1. n # 0 => n - 1 \in 0 .. k /\ n - 1 \in 0 .. k + 1 /\ n - 1 <= k
      OBVIOUS
    <3>2. n # 0 => h[n - 1] = g[n - 1]
      BY <3>1
    <3>3. Prefix(h, t, s, n) = Prefix(g, t, s, n)
      BY <3>2 DEF Prefix
    <3>4. n <= k => n \in 0 .. k
      OBVIOUS
    <3>5. n <= k => g[n] = Prefix(g, t, s, n)
      BY <2>1, <3>4
    <3> QED
      BY <3>3, <3>5
  <2>3. h = [n \in 0 .. k + 1 |-> h[n]]
    OBVIOUS
  <2> HIDE DEF h
  <2>4. h = [n \in 0 .. k + 1 |-> Prefix(h, t, s, n)]
    BY <2>2, <2>3
  <2> QED
    BY <2>4
<1> HIDE DEF Upto
<1>3. Bad = {}
  <2> SUFFICES ASSUME Bad # {}
               PROVE  FALSE
    OBVIOUS
  <2>1. PICK k \in Bad : \A m \in Bad : ~ (m < k)
    BY LeastElement
  <2>2. k \in Nat /\ ~ Upto(k)
    OBVIOUS
  <2>3. k # 0
    BY <1>1, <2>2
  <2>4. k - 1 \in Nat /\ k - 1 < k /\ (k - 1) + 1 = k
    BY <2>2, <2>3
  <2>5. Upto(k - 1)
    BY <2>1, <2>4
  <2> QED
    BY <1>2, <2>2, <2>4, <2>5
<1>4. Upto(Len(s))
  BY <1>3
<1> QED
  BY <1>4 DEF Upto

(* So the recursive function in Filtered is the one its body describes.    *)
LEMMA FilterIs ==
  ASSUME NEW t, NEW s, Len(s) \in Nat
  PROVE  Filtered(t, s) = [n \in 0 .. Len(s) |-> Prefix(Filtered(t, s), t, s, n)]
<1>1. Filtered(t, s) = CHOOSE g : g = [n \in 0 .. Len(s) |-> Prefix(g, t, s, n)]
  BY DEF Filtered, Prefix
<1>2. \E g : g = [n \in 0 .. Len(s) |-> Prefix(g, t, s, n)]
  BY FilterExists
<1> QED
  BY <1>1, <1>2, Zenon

(* Filtering a prefix of a sequence gives the same as stopping there.      *)
LEMMA FilterOfPrefix ==
  ASSUME NEW t, NEW s, NEW u, Len(s) \in Nat, Len(u) \in Nat, Len(s) <= Len(u),
         \A i \in 1 .. Len(s) : u[i] = s[i]
  PROVE  Filtered(t, u)[Len(s)] = Filtered(t, s)[Len(s)]
<1> DEFINE f == Filtered(t, s)
           g == Filtered(t, u)
           Bad == {k \in Nat : k <= Len(s) /\ f[k] # g[k]}
<1>1. /\ \A n \in 0 .. Len(s) : f[n] = Prefix(f, t, s, n)
      /\ \A n \in 0 .. Len(u) : g[n] = Prefix(g, t, u, n)
  BY FilterIs
<1> HIDE DEF f, g
<1>2. Bad = {}
  <2> SUFFICES ASSUME Bad # {}
               PROVE  FALSE
    OBVIOUS
  <2>1. PICK k \in Bad : \A m \in Bad : ~ (m < k)
    BY LeastElement
  <2>2. k \in Nat /\ k <= Len(s) /\ f[k] # g[k] /\ k \in 0 .. Len(s) /\ k \in 0 .. Len(u)
    OBVIOUS
  <2>3. f[k] = Prefix(f, t, s, k) /\ g[k] = Prefix(g, t, u, k)
    BY <1>1, <2>2
  <2>4. k # 0
    BY <2>2, <2>3 DEF Prefix
  <2>5. k - 1 \in Nat /\ k - 1 <= Len(s) /\ k - 1 < k /\ k \in 1 .. Len(s)
    BY <2>2, <2>4
  <2>6. f[k - 1] = g[k - 1] /\ u[k] = s[k]
    BY <2>1, <2>5
  <2> QED
    BY <2>2, <2>3, <2>6 DEF Prefix
<1> QED
  BY <1>2 DEF f, g

(* One more byte: it is behind the task's others if it is the task's.      *)
LEMMA FilterAppend ==
  ASSUME NEW S, NEW s \in Seq(S), NEW b \in S, NEW t
  PROVE  OfTask(t, Append(s, b)) = IF b[1] = t THEN Append(OfTask(t, s), b) ELSE OfTask(t, s)
<1> DEFINE u == Append(s, b)
<1>1. /\ Len(s) \in Nat /\ Len(u) = Len(s) + 1 /\ \A i \in 1 .. Len(s) : u[i] = s[i]
      /\ u[Len(u)] = b
  BY AppendProperties, LenProperties
<1> HIDE DEF u
<1>2. Filtered(t, u)[Len(u)] = Prefix(Filtered(t, u), t, u, Len(u))
  <2>1. Len(u) \in Nat /\ Len(u) \in 0 .. Len(u)
    BY <1>1
  <2> QED
    BY <2>1, FilterIs
<1>3. Len(u) # 0 /\ Len(u) - 1 = Len(s)
  BY <1>1
<1>4. Filtered(t, u)[Len(s)] = Filtered(t, s)[Len(s)]
  <2>1. Len(u) \in Nat /\ Len(s) <= Len(u)
    BY <1>1
  <2> QED
    BY <1>1, <2>1, FilterOfPrefix
<1> QED
  BY <1>1, <1>2, <1>3, <1>4 DEF OfTask, Prefix, u

(* Nothing is nobody's.                                                    *)
LEMMA FilterEmpty == \A t : OfTask(t, << >>) = << >>
<1> TAKE t
<1>1. Len(<< >>) = 0 /\ 0 \in 0 .. 0
  OBVIOUS
<1>2. Filtered(t, << >>)[0] = Prefix(Filtered(t, << >>), t, << >>, 0)
  BY <1>1, FilterIs
<1> QED
  BY <1>1, <1>2 DEF OfTask, Prefix

(* Every byte of d is task u's.                                            *)
AllOf(u, d) == \A i \in 1 .. Len(d) : d[i][1] = u

(* A piece of one task's bytes goes whole behind that task's, and is       *)
(* nothing to the others.                                                  *)
LEMMA FilterPiece ==
  ASSUME NEW S, NEW s \in Seq(S), NEW d \in Seq(S), NEW t, NEW u,
         AllOf(u, d),
         OfTask(t, s) \in Seq(S)
  PROVE  OfTask(t, s \o d) = IF t = u THEN OfTask(t, s) \o d ELSE OfTask(t, s)
<1> DEFINE Good(k) == OfTask(t, s \o SubSeq(d, 1, k))
                        = IF t = u THEN OfTask(t, s) \o SubSeq(d, 1, k) ELSE OfTask(t, s)
           Bad == {k \in Nat : k <= Len(d) /\ ~ Good(k)}
<1>1. Len(d) \in Nat
  BY LenProperties
<1>2. Good(0)
  <2>1. SubSeq(d, 1, 0) = << >>
    BY SubSeqEmpty
  <2>2. s \o << >> = s /\ OfTask(t, s) \o << >> = OfTask(t, s)
    BY ConcatEmptySeq
  <2> QED
    BY <2>1, <2>2
<1>3. ASSUME NEW k \in Nat, k + 1 <= Len(d), Good(k)
      PROVE  Good(k + 1)
  <2> DEFINE p == SubSeq(d, 1, k)
             q == SubSeq(d, 1, k + 1)
             b == d[k + 1]
  <2>1. k + 1 \in 1 .. Len(d) /\ 1 \in 1 .. Len(d) /\ k + 1 \in 1 .. Len(d) /\ (k + 1) - 1 = k
    BY <1>1, <1>3
  <2>2. b \in S /\ b[1] = u
    BY <2>1, ElementOfSeq DEF AllOf
  <2>3. p \in Seq(S)
    <3>1. \A i \in 1 .. k : d[i] \in S
      BY <1>1, <1>3, ElementOfSeq
    <3> QED
      BY <3>1, SubSeqProperties
  <2>4. q = p \o << b >>
    BY <2>1, SubSeqRecursiveSecond
  <2> DEFINE mine == OfTask(t, s)
  <2>5. OfTask(t, s \o p) = IF t = u THEN mine \o p ELSE mine
    BY <1>3
  <2>6. mine \in Seq(S)
    OBVIOUS
  <2> HIDE DEF p, q, b, mine
  <2>7. q = Append(p, b)
    BY <2>2, <2>3, <2>4, AppendIsConcat
  <2>8. s \o q = Append(s \o p, b) /\ mine \o q = Append(mine \o p, b) /\ s \o p \in Seq(S)
    BY <2>2, <2>3, <2>6, <2>7
  <2>9. OfTask(t, s \o q) = IF b[1] = t THEN Append(OfTask(t, s \o p), b) ELSE OfTask(t, s \o p)
    <3> DEFINE c == s \o p
    <3>1. c \in Seq(S) /\ b \in S /\ s \o q = Append(c, b)
      BY <2>2, <2>8
    <3> HIDE DEF c
    <3>2. OfTask(t, Append(c, b)) = IF b[1] = t THEN Append(OfTask(t, c), b) ELSE OfTask(t, c)
      BY <3>1, FilterAppend
    <3> QED
      BY <3>1, <3>2 DEF c
  <2>10. OfTask(t, s \o q) = IF t = u THEN mine \o q ELSE mine
    BY <2>2, <2>5, <2>8, <2>9
  <2> QED
    BY <2>10 DEF q, mine
<1> HIDE DEF Good
<1>4. Bad = {}
  <2> SUFFICES ASSUME Bad # {}
               PROVE  FALSE
    OBVIOUS
  <2>1. PICK k \in Bad : \A m \in Bad : ~ (m < k)
    BY LeastElement
  <2>2. k \in Nat /\ k <= Len(d) /\ ~ Good(k)
    OBVIOUS
  <2>3. k # 0
    BY <1>2, <2>2
  <2>4. k - 1 \in Nat /\ k - 1 <= Len(d) /\ k - 1 < k /\ (k - 1) + 1 = k
    BY <1>1, <2>2, <2>3
  <2>5. Good(k - 1)
    BY <2>1, <2>4
  <2> QED
    BY <1>3, <2>2, <2>4, <2>5
<1>5. Good(Len(d))
  BY <1>1, <1>4
<1>6. SubSeq(d, 1, Len(d)) = d
  BY SubSeqFull
<1> QED
  BY <1>5, <1>6 DEF Good

(* What a task is writing is the end of what it has logged.                *)
Own(t) ==
  /\ writer[t].pc = "idle" => writer[t].data = << >>
  /\ Len(writer[t].data) <= Len(logged[t])
  /\ \A i \in 1 .. Len(writer[t].data) :
       /\ writer[t].data[i][1] = t
       /\ writer[t].data[i] = logged[t][Len(logged[t]) - Len(writer[t].data) + i]

Sent == wire \o tx_fifo \o tx_rb
TxInv == TxPreserved /\ \A t \in Writers : Own(t)

(* Bytes that go through one queue into another stay in their order.       *)
LEMMA Through ==
  ASSUME NEW S, NEW a \in Seq(S), NEW b \in Seq(S), NEW f \in Seq(S), NEW n \in 0 .. Len(f)
  PROVE  a \o (b \o Take(f, n)) \o Rest(f, n) = (a \o b) \o f
<1> DEFINE c == Take(f, n)
           d == Rest(f, n)
<1>1. c \in Seq(S) /\ d \in Seq(S)
  BY TakeRest
<1>2. a \o b \in Seq(S)
  OBVIOUS
<1>3. ((a \o b) \o c) \o d = (a \o b) \o f
  BY <1>2, MoveAcross
<1> HIDE DEF c, d
<1>4. a \o (b \o c) = (a \o b) \o c
  <2>1. c \in Seq(S)
    BY <1>1
  <2> QED
    BY <2>1, ConcatAssociative
<1> QED
  BY <1>3, <1>4 DEF c, d

(* The same for the transmit FIFO, through which bytes go to the wire.     *)
LEMMA WireThrough ==
  ASSUME wire \in Seq(Bytes), tx_fifo \in Seq(Bytes),
         NEW f \in Seq(Bytes), NEW n \in 0 .. Len(f)
  PROVE  wire \o (tx_fifo \o Take(f, n)) \o Rest(f, n) = (wire \o tx_fifo) \o f
BY Through

(* The bytes on their way are bytes.                                       *)
LEMMA TxTypes ==
  ASSUME TypeOK
  PROVE  /\ wire \in Seq(Bytes) /\ tx_fifo \in Seq(Bytes) /\ tx_rb \in Seq(Bytes)
         /\ Sent \in Seq(Bytes)
BY DEF TypeOK, Sent

(* A task that logs has written nothing of its message yet.                *)
LEMMA LogCallTx ==
  ASSUME TypeOK, TxInv, NEW t \in Writers, NEW n \in Lengths, LogCall(t, n)
  PROVE  TxInv'
<1> DEFINE m == messages[t] + 1
           payload == LogPayload(t, m, n)
<1>1. m \in Nat /\ n \in Nat /\ LogBufSize \in Nat
  BY ConsoleAssumption DEF TypeOK
<1>2. payload \in Seq(Bytes) /\ Len(payload) \in Nat
  <2>1. payload \in Seq(Bytes)
    BY <1>1, PayloadType
  <2> QED
    BY <2>1, LenProperties
<1>3. \A i \in 1 .. Len(payload) : payload[i][1] = t
  <2> DEFINE k == Least(n, LogBufSize)
  <2>1. k \in Nat
    BY <1>1, LeastFact
  <2> DEFINE c(i) == IF n >= LogBufSize /\ i = LogBufSize THEN NUL ELSE i
  <2>2. payload = [i \in 1 .. k |-> Byte(t, m, c(i))]
    BY DEF LogPayload
  <2> HIDE DEF k, m, c, payload
  <2>3. Len(payload) = k
    BY <2>1, <2>2
  <2>4. \A i \in 1 .. k : payload[i] = Byte(t, m, c(i))
    BY <2>2
  <2>5. \A x : Byte(t, m, x)[1] = t
    BY DEF Byte
  <2> QED
    BY <2>3, <2>4, <2>5
<1>4. /\ writer[t].pc = "idle"
      /\ logged' = [logged EXCEPT ![t] = @ \o payload]
      /\ writer' = [writer EXCEPT ![t] = [pc |-> "write", data |-> payload, written |-> 0]]
      /\ Sent' = Sent
  BY DEF LogCall, Sent
<1> HIDE DEF payload
<1>5. /\ logged \in [Writers -> Seq(Bytes)] /\ logged[t] \in Seq(Bytes) /\ Len(logged[t]) \in Nat
      /\ DOMAIN writer = Writers
  <2>1. logged \in [Writers -> Seq(Bytes)] /\ DOMAIN writer = Writers
    BY DEF TypeOK
  <2> QED
    BY <2>1, LenProperties
<1>6. /\ logged'[t] = logged[t] \o payload /\ writer'[t].data = payload /\ writer'[t].written = 0
      /\ writer'[t].pc = "write"
      /\ \A u \in Writers \ {t} : logged'[u] = logged[u] /\ writer'[u] = writer[u]
  BY <1>4, <1>5
<1>7. /\ Len(logged'[t]) = Len(logged[t]) + Len(payload)
      /\ \A i \in 1 .. Len(payload) : logged'[t][Len(logged[t]) + i] = payload[i]
  BY <1>2, <1>5, <1>6, ConcatProperties
<1>8. ASSUME NEW u \in Writers
      PROVE  Own(u)'
  <2>1. CASE u = t
    <3>1. \A i \in 1 .. Len(payload) :
            Len(logged'[t]) - Len(payload) + i = Len(logged[t]) + i
      BY <1>2, <1>5, <1>7
    <3>2. Len(payload) <= Len(logged'[t])
      BY <1>2, <1>5, <1>7
    <3> QED
      BY <1>3, <1>6, <1>7, <2>1, <3>1, <3>2 DEF Own
  <2>2. CASE u # t
    <3>1. Own(u) /\ logged'[u] = logged[u] /\ writer'[u] = writer[u]
      BY <1>6, <2>2 DEF TxInv
    <3> QED
      BY <3>1 DEF Own
  <2> QED
    BY <2>1, <2>2
<1>9. ASSUME NEW u \in Writers
      PROVE  OfTask(u, Sent') = Take(logged'[u], Len(logged'[u]) - Unwritten(u)')
  <2>1. OfTask(u, Sent) = Take(logged[u], Len(logged[u]) - Unwritten(u))
    BY DEF TxInv, TxPreserved, Sent
  <2>2. CASE u = t
    <3>1. Len(writer[t].data) = 0 /\ writer[t].written = 0
      <4>1. writer[t].data = << >> /\ writer[t].written \in Nat
            /\ writer[t].written <= Len(writer[t].data)
        BY <1>4 DEF TxInv, Own, TypeOK
      <4> QED
        BY <4>1
    <3>2. Len(logged[t]) - Unwritten(t) = Len(logged[t])
      BY <1>5, <3>1 DEF Unwritten
    <3>3. Len(logged'[t]) - Unwritten(t)' = Len(logged[t])
      BY <1>2, <1>5, <1>6, <1>7 DEF Unwritten
    <3>4. Take(logged'[t], Len(logged[t])) = Take(logged[t], Len(logged[t]))
      <4>1. Take(logged[t] \o payload, Len(logged[t])) = Take(logged[t], Len(logged[t]))
        <5>1. CASE Len(logged[t]) = 0
          BY <1>5, <5>1, SubSeqEmpty DEF Take
        <5>2. CASE Len(logged[t]) # 0
          <6>1. Len(logged[t]) \in 1 .. Len(logged[t]) /\ 1 \in 1 .. Len(logged[t])
            BY <1>5, <5>2
          <6> QED
            BY <1>2, <1>5, <6>1, SubSeqOfConcat1 DEF Take
        <5> QED
          BY <5>1, <5>2
      <4> QED
        BY <1>6, <4>1
    <3> QED
      BY <1>4, <2>1, <2>2, <3>2, <3>3, <3>4
  <2>3. CASE u # t
    BY <1>4, <1>6, <2>1, <2>3 DEF Unwritten
  <2> QED
    BY <2>2, <2>3
<1> QED
  BY <1>8, <1>9 DEF TxInv, TxPreserved, Sent

(* The critical section of a write appends a piece of the task's data to   *)
(* the ring, and moves bytes from the ring to the FIFO.                    *)
LEMMA PassMoves ==
  ASSUME TypeOK, NEW t \in Writers, WritePass(t)
  PROVE  \E k \in Nat :
           LET w == writer[t]
               piece == SubSeq(w.data, w.written + 1, w.written + k)
           IN  /\ w.written + k <= Len(w.data)
               /\ piece \in Seq(Bytes) /\ Len(piece) = k
               /\ Sent' = Sent \o piece
               /\ logged' = logged
               /\ writer' = [writer EXCEPT ![t] =
                    IF w.written + k = Len(w.data)
                    THEN [pc |-> "idle", data |-> << >>, written |-> 0]
                    ELSE [w EXCEPT !.pc = "wait", !.written = w.written + k]]
<1> DEFINE w      == writer[t]
           k      == Least(RingCapacity - Len(tx_rb), Len(w.data) - w.written)
           piece  == SubSeq(w.data, w.written + 1, w.written + k)
           filled == tx_rb \o piece
           n      == Least(FifoDepth - Len(tx_fifo), Len(filled))
<1>1. /\ w.data \in Seq(Bytes) /\ w.written \in Nat /\ Len(w.data) \in Nat
      /\ Len(w.data) - w.written \in Nat
      /\ RingCapacity - Len(tx_rb) \in Nat /\ FifoDepth - Len(tx_fifo) \in Nat
  BY ConsoleAssumption DEF TypeOK
<1>2. /\ wire \in Seq(Bytes) /\ tx_fifo \in Seq(Bytes) /\ tx_rb \in Seq(Bytes)
  BY TxTypes
<1>3. k \in Nat /\ w.written + k <= Len(w.data)
  <2>1. k \in Nat /\ k <= Len(w.data) - w.written
    BY <1>1, LeastFact
  <2> HIDE DEF w, k
  <2> QED
    BY <1>1, <2>1
<1>4. /\ tx_rb' = Rest(filled, n) /\ tx_fifo' = tx_fifo \o Take(filled, n)
      /\ wire' = wire /\ logged' = logged
      /\ writer' = [writer EXCEPT ![t] =
           IF w.written + k = Len(w.data)
           THEN [pc |-> "idle", data |-> << >>, written |-> 0]
           ELSE [@ EXCEPT !.pc = "wait", !.written = w.written + k]]
  BY DEF WritePass
<1>5. writer' = [writer EXCEPT ![t] =
        IF w.written + k = Len(w.data)
        THEN [pc |-> "idle", data |-> << >>, written |-> 0]
        ELSE [w EXCEPT !.pc = "wait", !.written = w.written + k]]
  BY <1>4 DEF TypeOK
<1> HIDE DEF k
<1>6. piece \in Seq(Bytes) /\ Len(piece) = k
  <2> HIDE DEF w
  <2> QED
    BY <1>1, <1>3, Slice
<1> HIDE DEF piece
<1>7. filled \in Seq(Bytes) /\ n \in 0 .. Len(filled)
  <2>1. filled \in Seq(Bytes)
    BY <1>2, <1>6
  <2>2. Len(filled) \in Nat
    BY <2>1, LenProperties
  <2> HIDE DEF filled
  <2>3. FifoDepth - Len(tx_fifo) \in Nat
    BY <1>1
  <2>4. n \in Nat /\ n <= Len(filled)
    BY <2>2, <2>3, LeastFact
  <2> QED
    BY <2>1, <2>2, <2>4
<1> HIDE DEF n
<1>8. Sent' = Sent \o piece
  <2>1. Sent' = (wire \o tx_fifo) \o filled
    <3> HIDE DEF filled
    <3>1. Sent' = wire \o (tx_fifo \o Take(filled, n)) \o Rest(filled, n)
      BY <1>4 DEF Sent
    <3>2. wire \o (tx_fifo \o Take(filled, n)) \o Rest(filled, n) = (wire \o tx_fifo) \o filled
      BY <1>2, <1>7, WireThrough
    <3> QED
      BY <3>1, <3>2
  <2>2. wire \o tx_fifo \in Seq(Bytes)
    BY <1>2
  <2> DEFINE a == wire \o tx_fifo
  <2>3. a \in Seq(Bytes) /\ tx_rb \in Seq(Bytes) /\ piece \in Seq(Bytes)
    BY <1>2, <1>6, <2>2
  <2> HIDE DEF a
  <2>4. a \o (tx_rb \o piece) = (a \o tx_rb) \o piece
    BY <2>3, ConcatAssociative
  <2> QED
    BY <2>1, <2>4 DEF a, Sent
<1> QED
  BY <1>3, <1>4, <1>5, <1>6, <1>8 DEF piece

(* A prefix of what a task has logged, with the piece that follows it.     *)
LEMMA PrefixAndPiece ==
  ASSUME NEW S, NEW l \in Seq(S), NEW p \in Seq(S), NEW k \in Nat, k + Len(p) <= Len(l),
         \A i \in 1 .. Len(p) : p[i] = l[k + i]
  PROVE  Take(l, k) \o p = Take(l, k + Len(p))
<1> DEFINE n == Len(p)
           q == SubSeq(l, k + 1, k + n)
<1>1. n \in Nat /\ Len(l) \in Nat
  BY LenProperties
<1>2. q \in Seq(S) /\ Len(q) = n
  BY <1>1, Slice
<1>3. \A i \in 1 .. n : q[i] = l[k + i]
  BY <1>1
<1>4. q = p
  <2> HIDE DEF q
  <2> QED
    BY <1>1, <1>2, <1>3, SeqEqual
<1>5. SubSeq(l, 1, k) \o SubSeq(l, k + 1, k + n) = SubSeq(l, 1, k + n)
  <2>1. 1 \in 1 .. Len(l) + 1 /\ k \in 1 - 1 .. Len(l) /\ k + n \in k .. Len(l)
    BY <1>1
  <2> HIDE DEF n
  <2> QED
    BY <2>1, ConcatAdjacentSubSeq
<1> QED
  BY <1>4, <1>5 DEF Take

(* The elements of a piece are the elements it was cut from.               *)
LEMMA PieceElements ==
  ASSUME NEW S, NEW s \in Seq(S), NEW m \in Nat, NEW k \in Nat, m + k <= Len(s)
  PROVE  \A i \in 1 .. k : SubSeq(s, m + 1, m + k)[i] = s[m + i]
<1>1. Len(s) \in Nat
  BY LenProperties
<1>2. ASSUME NEW i \in 1 .. k
      PROVE  SubSeq(s, m + 1, m + k)[i] = s[m + i]
  <2>1. \A j \in 1 .. (m + k) - (m + 1) + 1 : SubSeq(s, m + 1, m + k)[j] = s[(m + 1) + j - 1]
    OBVIOUS
  <2>2. i \in 1 .. (m + k) - (m + 1) + 1 /\ (m + 1) + i - 1 = m + i
    OBVIOUS
  <2> QED
    BY <2>1, <2>2
<1> QED
  BY <1>2

(* A piece of one task's bytes behind what is on its way already.          *)
LEMMA SentThenPiece ==
  ASSUME Sent \in Seq(Bytes), NEW d \in Seq(Bytes), NEW t, NEW u,
         AllOf(u, d),
         OfTask(t, Sent) \in Seq(Bytes)
  PROVE  OfTask(t, Sent \o d) = IF t = u THEN OfTask(t, Sent) \o d ELSE OfTask(t, Sent)
BY FilterPiece

(* The critical section of a write: the piece is the task's next bytes.    *)
LEMMA WritePassTx ==
  ASSUME TypeOK, TxInv, NEW t \in Writers, WritePass(t)
  PROVE  TxInv'
<1> DEFINE data == writer[t].data
           written == writer[t].written
           len == Len(logged[t])
<1>1. PICK k \in Nat :
        /\ written + k <= Len(data)
        /\ SubSeq(data, written + 1, written + k) \in Seq(Bytes)
        /\ Len(SubSeq(data, written + 1, written + k)) = k
        /\ Sent' = Sent \o SubSeq(data, written + 1, written + k)
        /\ logged' = logged
        /\ writer' = [writer EXCEPT ![t] =
             IF written + k = Len(data)
             THEN [pc |-> "idle", data |-> << >>, written |-> 0]
             ELSE [writer[t] EXCEPT !.pc = "wait", !.written = written + k]]
  BY PassMoves
<1> DEFINE piece == SubSeq(data, written + 1, written + k)
<1>2. /\ data \in Seq(Bytes) /\ written \in Nat /\ Len(data) \in Nat
      /\ logged[t] \in Seq(Bytes) /\ len \in Nat
      /\ \A u \in Writers : logged[u] \in Seq(Bytes)
      /\ DOMAIN writer = Writers
      /\ writer[t] \in [pc : {"idle", "write", "wait"}, data : Seq(Bytes), written : Nat]
  <2>1. /\ data \in Seq(Bytes) /\ written \in Nat /\ logged[t] \in Seq(Bytes)
        /\ \A u \in Writers : logged[u] \in Seq(Bytes)
        /\ DOMAIN writer = Writers
        /\ writer[t] \in [pc : {"idle", "write", "wait"}, data : Seq(Bytes), written : Nat]
    BY DEF TypeOK
  <2> QED
    BY <2>1, LenProperties
<1>3. /\ Len(data) <= len
      /\ \A i \in 1 .. Len(data) : data[i][1] = t /\ data[i] = logged[t][len - Len(data) + i]
  BY DEF TxInv, Own
<1>4. /\ \A u \in Writers \ {t} : writer'[u] = writer[u]
      /\ written + k = Len(data) =>
           writer'[t].pc = "idle" /\ writer'[t].data = << >> /\ writer'[t].written = 0
      /\ written + k # Len(data) =>
           writer'[t].pc = "wait" /\ writer'[t].data = data /\ writer'[t].written = written + k
  BY <1>1, <1>2
<1> HIDE DEF data, written, len
<1>5. \A i \in 1 .. k : piece[i] = data[written + i]
  <2>1. data \in Seq(Bytes) /\ written \in Nat /\ k \in Nat /\ written + k <= Len(data)
    BY <1>1, <1>2
  <2>2. \A i \in 1 .. k : SubSeq(data, written + 1, written + k)[i] = data[written + i]
    BY <2>1, PieceElements
  <2> QED
    BY <2>2
<1>6. /\ piece \in Seq(Bytes) /\ Len(piece) = k
      /\ Sent' = Sent \o piece
      /\ \A i \in 1 .. k : piece[i][1] = t
      /\ \A i \in 1 .. k : piece[i] = logged[t][(len - (Len(data) - written)) + i]
  <2>1. ASSUME NEW i \in 1 .. k
        PROVE  piece[i][1] = t /\ piece[i] = logged[t][(len - (Len(data) - written)) + i]
    <3>1. /\ written + i \in 1 .. Len(data)
          /\ len - Len(data) + (written + i) = (len - (Len(data) - written)) + i
      <4>1. /\ k \in Nat /\ written + k <= Len(data) /\ written \in Nat /\ Len(data) \in Nat
            /\ len \in Nat /\ i \in 1 .. k
        BY <1>1, <1>2
      <4>2. \A a, b, c, d, j \in Nat :
              j \in 1 .. d /\ b + d <= a => b + j \in 1 .. a /\ c - a + (b + j) = (c - (a - b)) + j
        OBVIOUS
      <4> QED
        BY <4>1, <4>2
    <3> QED
      BY <1>3, <1>5, <3>1
  <2> QED
    BY <1>1, <2>1
<1> HIDE DEF piece
<1>7. /\ Sent \in Seq(Bytes)
      /\ \A u \in Writers : OfTask(u, Sent) = Take(logged[u], Len(logged[u]) - Unwritten(u))
  BY TxTypes DEF TxInv, TxPreserved, Sent
<1>8. ASSUME NEW u \in Writers
      PROVE  OfTask(u, Sent) \in Seq(Bytes)
  <2> DEFINE n == Len(logged[u]) - Unwritten(u)
  <2>1. n \in 0 .. Len(logged[u])
    <3>1. /\ writer[u].written \in Nat /\ writer[u].written <= Len(writer[u].data)
          /\ writer[u].data \in Seq(Bytes)
      BY DEF TypeOK
    <3>2. Len(writer[u].data) <= Len(logged[u])
      BY DEF TxInv, Own
    <3>3. Len(writer[u].data) \in Nat /\ Len(logged[u]) \in Nat
      BY <1>2, <3>1, LenProperties
    <3>4. \A a, b, c \in Nat : c <= b /\ b <= a => a - (b - c) \in 0 .. a
      OBVIOUS
    <3>5. n = Len(logged[u]) - (Len(writer[u].data) - writer[u].written)
      BY DEF Unwritten
    <3> HIDE DEF n
    <3> QED
      BY <3>1, <3>2, <3>3, <3>4, <3>5
  <2> HIDE DEF n
  <2>2. Take(logged[u], n) \in Seq(Bytes)
    BY <1>2, <2>1, TakeRest
  <2> QED
    BY <1>7, <2>2 DEF n
<1>9. ASSUME NEW u \in Writers
      PROVE  OfTask(u, Sent \o piece) = IF u = t THEN OfTask(u, Sent) \o piece ELSE OfTask(u, Sent)
  <2>1. /\ Sent \in Seq(Bytes) /\ piece \in Seq(Bytes)
        /\ AllOf(t, piece) /\ OfTask(u, Sent) \in Seq(Bytes)
    BY <1>6, <1>7, <1>8 DEF AllOf
  <2> QED
    BY <2>1, SentThenPiece
<1>10. ASSUME NEW u \in Writers, u # t
       PROVE  /\ OfTask(u, Sent') = Take(logged'[u], Len(logged'[u]) - Unwritten(u)')
              /\ Own(u)'
  <2>1. OfTask(u, Sent') = OfTask(u, Sent)
    BY <1>6, <1>9, <1>10
  <2>2. writer'[u] = writer[u] /\ logged'[u] = logged[u]
    BY <1>1, <1>4, <1>10
  <2>3. Own(u)
    BY DEF TxInv
  <2> QED
    BY <1>7, <2>1, <2>2, <2>3 DEF Unwritten, Own
<1>11. Own(t)'
  <2>1. CASE written + k = Len(data)
    <3>1. writer'[t].pc = "idle" /\ writer'[t].data = << >> /\ Len(writer'[t].data) = 0
      BY <1>4, <2>1
    <3>2. logged'[t] = logged[t] /\ 0 <= Len(logged[t])
      BY <1>1, <1>2 DEF len
    <3> QED
      BY <3>1, <3>2 DEF Own
  <2>2. CASE written + k # Len(data)
    <3>1. writer'[t].pc = "wait" /\ writer'[t].data = data /\ logged'[t] = logged[t]
      BY <1>1, <1>4, <2>2
    <3> QED
      BY <1>3, <3>1 DEF Own, len
  <2> QED
    BY <2>1, <2>2
<1>12. OfTask(t, Sent') = Take(logged'[t], Len(logged'[t]) - Unwritten(t)')
  <2> DEFINE m == len - (Len(data) - written)
  <2>1. m \in Nat /\ m + k <= len
    BY <1>1, <1>2, <1>3
  <2>2. OfTask(t, Sent) = Take(logged[t], m)
    BY <1>7 DEF Unwritten, len, data, written
  <2>3. OfTask(t, Sent') = Take(logged[t], m) \o piece
    BY <1>6, <1>9, <2>2
  <2>4. \A i \in 1 .. k : piece[i] = logged[t][m + i]
    BY <1>6
  <2> HIDE DEF m
  <2>5. Take(logged[t], m) \o piece = Take(logged[t], m + k)
    BY <1>2, <1>6, <2>1, <2>4, PrefixAndPiece DEF len
  <2>6. Len(logged'[t]) - Unwritten(t)' = m + k
    <3>1. logged'[t] = logged[t]
      BY <1>1
    <3>2. CASE written + k = Len(data)
      <4>1. Unwritten(t)' = 0
        BY <1>4, <3>2 DEF Unwritten
      <4> QED
        BY <1>1, <1>2, <3>1, <3>2, <4>1 DEF m, len
    <3>3. CASE written + k # Len(data)
      <4>1. Unwritten(t)' = Len(data) - (written + k)
        BY <1>4, <3>3 DEF Unwritten
      <4> QED
        BY <1>1, <1>2, <3>1, <4>1 DEF m, len
    <3> QED
      BY <3>2, <3>3
  <2>7. logged'[t] = logged[t]
    BY <1>1
  <2> QED
    BY <2>3, <2>5, <2>6, <2>7
<1> QED
  BY <1>10, <1>11, <1>12 DEF TxInv, TxPreserved, Sent

(* The USART and the handler move bytes towards the wire.                  *)
LEMMA MovesTx ==
  ASSUME TypeOK, ShiftOut \/ IrqHandler
  PROVE  Sent' = Sent /\ UNCHANGED <<writer, logged>>
<1>1. wire \in Seq(Bytes) /\ tx_fifo \in Seq(Bytes) /\ tx_rb \in Seq(Bytes)
  BY TxTypes
<1>2. CASE ShiftOut
  <2>1. /\ tx_fifo # << >> /\ wire' = Append(wire, Head(tx_fifo)) /\ tx_fifo' = Tail(tx_fifo)
        /\ tx_rb' = tx_rb /\ UNCHANGED <<writer, logged>>
    BY <1>2 DEF ShiftOut
  <2>2. ASSUME NEW s \in Seq(Bytes), NEW f \in Seq(Bytes), f # << >>
        PROVE  Append(s, Head(f)) \o Tail(f) = s \o f
    <3>1. Head(f) \in Bytes /\ Tail(f) \in Seq(Bytes)
      BY <2>2, HeadTailProperties
    <3> QED
      BY <2>2, <3>1
  <2>3. wire' \o tx_fifo' = wire \o tx_fifo
    BY <1>1, <2>1, <2>2
  <2> QED
    BY <2>1, <2>3 DEF Sent
<1>3. CASE IrqHandler
  <2> DEFINE n == IF TxPending THEN Least(FifoDepth - Len(tx_fifo), Len(tx_rb)) ELSE 0
  <2>1. tx_rb' = Rest(tx_rb, n) /\ tx_fifo' = tx_fifo \o Take(tx_rb, n) /\ wire' = wire
        /\ UNCHANGED <<writer, logged>>
    BY <1>3 DEF IrqHandler, IrqTransmit
  <2>2. n \in 0 .. Len(tx_rb)
    <3>1. Len(tx_rb) \in Nat /\ FifoDepth - Len(tx_fifo) \in Nat
      BY ConsoleAssumption DEF TypeOK
    <3>2. /\ Least(FifoDepth - Len(tx_fifo), Len(tx_rb)) \in Nat
          /\ Least(FifoDepth - Len(tx_fifo), Len(tx_rb)) <= Len(tx_rb)
      BY <3>1, LeastFact
    <3> QED
      BY <3>1, <3>2
  <2> HIDE DEF n
  <2>3. wire \o (tx_fifo \o Take(tx_rb, n)) \o Rest(tx_rb, n) = (wire \o tx_fifo) \o tx_rb
    BY <1>1, <2>2, WireThrough
  <2> QED
    BY <2>1, <2>3 DEF Sent
<1> QED
  BY <1>2, <1>3

(* A step that moves no task's bytes and begins no write.                  *)
LEMMA TxStutters ==
  ASSUME TxInv, Sent' = Sent, logged' = logged,
         \A t \in Writers : /\ writer'[t].data = writer[t].data
                            /\ writer'[t].written = writer[t].written
                            /\ writer'[t].pc = "idle" => writer[t].pc = "idle"
  PROVE  TxInv'
<1>1. ASSUME NEW t \in Writers
      PROVE  Own(t)' /\ Unwritten(t)' = Unwritten(t)
  <2>1. Own(t)
    BY DEF TxInv
  <2> QED
    BY <2>1 DEF Own, Unwritten
<1> QED
  BY <1>1 DEF TxInv, TxPreserved, Sent

(* Every step keeps each task's bytes in order and complete.               *)
LEMMA TxStep ==
  ASSUME ConsoleInv, TxInv, [Next]_vars
  PROVE  TxInv'
<1>1. TypeOK
  BY DEF ConsoleInv
<1>2. ASSUME NEW t \in Writers, NEW n \in Lengths, LogCall(t, n)
      PROVE  TxInv'
  BY <1>1, <1>2, LogCallTx
<1>3. ASSUME NEW t \in Writers, WritePass(t)
      PROVE  TxInv'
  BY <1>1, <1>3, WritePassTx
<1>4. ASSUME NEW t \in Writers, WriteWake(t)
      PROVE  TxInv'
  <2>1. Sent' = Sent /\ logged' = logged /\ writer' = [writer EXCEPT ![t].pc = "write"]
    BY <1>4 DEF WriteWake, Sent
  <2>2. \A u \in Writers : /\ writer'[u].data = writer[u].data
                           /\ writer'[u].written = writer[u].written
                           /\ writer'[u].pc = "idle" => writer[u].pc = "idle"
    BY <1>1, <2>1 DEF TypeOK
  <2> QED
    BY <2>1, <2>2, TxStutters
<1>5. CASE ShiftOut \/ IrqHandler
  BY <1>1, <1>5, MovesTx, TxStutters
<1>6. CASE UNCHANGED <<wire, tx_fifo, tx_rb, writer, logged>>
  <2>1. Sent' = Sent
    BY <1>6 DEF Sent
  <2> QED
    BY <1>6, <2>1, TxStutters
<1>7. \/ (\E t \in Writers : (\E n \in Lengths : LogCall(t, n)) \/ TaskStep(t))
      \/ ShiftOut \/ IrqHandler
      \/ UNCHANGED <<wire, tx_fifo, tx_rb, writer, logged>>
  BY DEF Next, ReaderStep, ReadPass, ReadCall, ReadWake, ShiftIn, LineIdle, vars, txVars, rxVars
<1> QED
  BY <1>2, <1>3, <1>4, <1>5, <1>6, <1>7 DEF TaskStep

(* However writes of several tasks are cut up and interleaved, each task's *)
(* accepted bytes leave in order, none lost and none sent twice            *)
(* (serial_console_write, serial_console_irq_handler).                     *)
THEOREM SentInOrder == Spec => []TxPreserved
<1>1. Init => TxInv
  <2> SUFFICES ASSUME Init, NEW t \in Writers
               PROVE  Own(t) /\ OfTask(t, Sent) = Take(logged[t], Len(logged[t]) - Unwritten(t))
    BY DEF TxInv, TxPreserved, Sent
  <2>1. /\ writer[t].pc = "idle" /\ writer[t].data = << >> /\ writer[t].written = 0
        /\ logged[t] = << >> /\ wire = << >> /\ tx_fifo = << >> /\ tx_rb = << >>
    BY DEF Init
  <2>2. Len(writer[t].data) = 0 /\ Len(logged[t]) = 0 /\ Sent = << >>
    BY <2>1 DEF Sent
  <2>3. Own(t)
    BY <2>1, <2>2 DEF Own
  <2>4. Len(logged[t]) - Unwritten(t) = 0
    BY <2>1, <2>2 DEF Unwritten
  <2>5. Take(logged[t], 0) = << >>
    BY SubSeqEmpty DEF Take
  <2> QED
    BY <2>2, <2>3, <2>4, <2>5, FilterEmpty
<1>2. TxInv => TxPreserved
  BY DEF TxInv
<1>3. ConsoleInv /\ TxInv /\ [Next]_vars => TxInv'
  BY TxStep
<1> HIDE DEF TxInv, TxPreserved, ConsoleInv
<1> QED
  BY ConsoleInvariance, <1>1, <1>2, <1>3, PTL DEF Spec
=============================================================================
