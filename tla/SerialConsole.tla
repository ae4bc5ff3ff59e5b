---------------------------- MODULE SerialConsole ---------------------------
(***************************************************************************)
(* The USART1 console of the APP: tasks that log (console_log.c), the task *)
(* that reads commands (the shell), the interrupt handler, and the two     *)
(* lwrb rings between them (app/Core/Src/console/serial_console.c).        *)
(*                                                                         *)
(* Every use of a ring is inside a critical section or the handler, so a   *)
(* ring is the queue that module Lwrb implements, of RingCapacity bytes.   *)
(* The USART moves bytes between its FIFOs and the line at any time; a     *)
(* shift that happens inside a critical section is the same as one just    *)
(* before it.                                                              *)
(***************************************************************************)
EXTENDS Naturals, Sequences, FiniteSets

CONSTANTS Writers,       \* tasks that call console_log_write
          Lengths,       \* formatted lengths n of a log message
          MaxMessages,   \* messages a task logs
          LogBufSize,    \* CONSOLE_LOG_BUF_SIZE
          RingCapacity,  \* SERIAL_TX_BUFFER_SIZE - 1, SERIAL_RX_BUFFER_SIZE - 1
          FifoDepth,     \* depth of the USART's two hardware FIFOs
          RxThreshold,   \* FIFO level of the RXFT interrupt
          ReadSizes,     \* lengths a read asks for
          MaxRx,         \* bytes that arrive on the line
          NoTask         \* the NULL of a waiting-task slot

ASSUME ConsoleAssumption ==
  /\ NoTask \notin Writers
  /\ Lengths \subseteq Nat \ {0} /\ ReadSizes \subseteq Nat \ {0}
  /\ MaxMessages \in Nat /\ MaxRx \in Nat
  /\ LogBufSize \in Nat \ {0} /\ RingCapacity \in Nat \ {0}
  /\ FifoDepth \in Nat \ {0} /\ RxThreshold \in 1 .. FifoDepth

VARIABLES tx_rb,         \* ring of bytes to send
          tx_fifo,       \* transmit FIFO
          tx_it,         \* TXE_TXFNF interrupt enabled
          wire,          \* history: bytes sent on the line
          tx_wait_task,  \* the one task the handler wakes for ring space
          writer,        \* per task: [pc, data, written], locals of a write
          tx_notified,   \* tasks with notification SERIAL_TX_NOTIFY_INDEX pending
          logged,        \* history: per task, every byte passed to a write
          messages,      \* messages logged per task
          missed         \* history: why a waiting task is not in tx_wait_task

VARIABLES rx_fifo,       \* receive FIFO
          rx_rb,         \* ring of received bytes
          arrived,       \* bytes that came in on the line
          idle,          \* IDLE flag
          overrun,       \* ORE flag
          rx_wait_task,  \* TRUE when the reading task waits for data
          reader,        \* pc of the reading task
          rx_notified,   \* its notification SERIAL_RX_NOTIFY_INDEX is pending
          want,          \* bytes its read asks for
          delivered      \* history: bytes its reads returned

txVars == <<tx_rb, tx_fifo, tx_it, wire, tx_wait_task, writer, tx_notified,
            logged, messages, missed>>
rxVars == <<rx_fifo, rx_rb, arrived, idle, overrun, rx_wait_task, reader,
            rx_notified, want, delivered>>
vars == <<txVars, rxVars>>

Least(a, b) == IF a < b THEN a ELSE b

(* The first n elements of s, and what remains.                            *)
Take(s, n) == SubSeq(s, 1, n)
Rest(s, n) == SubSeq(s, n + 1, Len(s))

Init ==
  /\ tx_rb = << >> /\ tx_fifo = << >> /\ tx_it = FALSE /\ wire = << >>
  /\ tx_wait_task = NoTask /\ tx_notified = {}
  /\ writer = [t \in Writers |-> [pc |-> "idle", data |-> << >>, written |-> 0]]
  /\ logged = [t \in Writers |-> << >>]
  /\ messages = [t \in Writers |-> 0]
  /\ missed = [t \in Writers |-> "no"]
  /\ rx_fifo = << >> /\ rx_rb = << >> /\ arrived = 0
  /\ idle = FALSE /\ overrun = FALSE
  /\ rx_wait_task = FALSE /\ reader = "idle" /\ rx_notified = FALSE
  /\ want = 0 /\ delivered = << >>
-----------------------------------------------------------------------------
(* Byte i of message m of task t, and the terminator vsnprintf stores.     *)
Byte(t, m, i) == <<t, m, i>>
NUL == 0
Bytes == Writers \X Nat \X Nat

(* What vsnprintf formats, and what console_log_write passes on of it: a   *)
(* message that does not fit is cut, its last byte the terminator.         *)
Formatted(t, m, n) == [i \in 1 .. n |-> Byte(t, m, i)]
LogPayload(t, m, n) ==
  [i \in 1 .. Least(n, LogBufSize) |->
     Byte(t, m, IF n >= LogBufSize /\ i = LogBufSize THEN NUL ELSE i)]

(* console_log_write(level, ...) with a level that is not filtered out.    *)
LogCall(t, n) ==
  LET m == messages[t] + 1
      payload == LogPayload(t, m, n)
  IN /\ writer[t].pc = "idle"
     /\ m <= MaxMessages
     /\ messages' = [messages EXCEPT ![t] = m]
     /\ logged' = [logged EXCEPT ![t] = @ \o payload]
     /\ writer' = [writer EXCEPT ![t] = [pc |-> "write", data |-> payload, written |-> 0]]
     /\ UNCHANGED <<tx_rb, tx_fifo, tx_it, wire, tx_wait_task, tx_notified,
                    missed, rxVars>>

(* Fault: a short count of lwrb_write is taken for all of the data.        *)
WritePass_ShortCount(t) ==
  LET w       == writer[t]
      chunk   == Least(RingCapacity - Len(tx_rb), Len(w.data) - w.written)
      filled  == tx_rb \o SubSeq(w.data, w.written + 1, w.written + chunk)
      moved   == Least(FifoDepth - Len(tx_fifo), Len(filled))
      written == Len(w.data)
      full    == Len(filled) - moved = RingCapacity
      done    == written = Len(w.data)
  IN /\ w.pc = "write"
     /\ tx_rb' = Rest(filled, moved)
     /\ tx_fifo' = tx_fifo \o Take(filled, moved)
     /\ tx_it' = TRUE
     /\ tx_wait_task' = IF ~done /\ full THEN t ELSE tx_wait_task
     /\ missed' = [u \in Writers |->
          IF u = t THEN (IF ~done /\ ~full THEN "space" ELSE "no")
          ELSE IF u = tx_wait_task /\ ~done /\ full THEN "displaced"
          ELSE missed[u]]
     /\ writer' = [writer EXCEPT ![t] =
          IF done THEN [pc |-> "idle", data |-> << >>, written |-> 0]
          ELSE [@ EXCEPT !.pc = "wait", !.written = written]]
     /\ UNCHANGED <<wire, tx_notified, logged, messages, rxVars>>

(* Fault: the interrupt is not enabled.                                    *)
WritePass_NotArmed(t) ==
  LET w       == writer[t]
      chunk   == Least(RingCapacity - Len(tx_rb), Len(w.data) - w.written)
      filled  == tx_rb \o SubSeq(w.data, w.written + 1, w.written + chunk)
      moved   == Least(FifoDepth - Len(tx_fifo), Len(filled))
      written == w.written + chunk
      full    == Len(filled) - moved = RingCapacity
      done    == written = Len(w.data)
  IN /\ w.pc = "write"
     /\ tx_rb' = Rest(filled, moved)
     /\ tx_fifo' = tx_fifo \o Take(filled, moved)
     /\ tx_it' = tx_it
     /\ tx_wait_task' = IF ~done /\ full THEN t ELSE tx_wait_task
     /\ missed' = [u \in Writers |->
          IF u = t THEN (IF ~done /\ ~full THEN "space" ELSE "no")
          ELSE IF u = tx_wait_task /\ ~done /\ full THEN "displaced"
          ELSE missed[u]]
     /\ writer' = [writer EXCEPT ![t] =
          IF done THEN [pc |-> "idle", data |-> << >>, written |-> 0]
          ELSE [@ EXCEPT !.pc = "wait", !.written = written]]
     /\ UNCHANGED <<wire, tx_notified, logged, messages, rxVars>>

(* One pass of the loop of serial_console_write: the critical section that *)
(* fills the ring, tops up the FIFO, enables the interrupt and registers   *)
(* the task when it finds the ring full; then the task returns or waits.   *)
WritePass(t) ==
  LET w       == writer[t]
      chunk   == Least(RingCapacity - Len(tx_rb), Len(w.data) - w.written)
      filled  == tx_rb \o SubSeq(w.data, w.written + 1, w.written + chunk)
      moved   == Least(FifoDepth - Len(tx_fifo), Len(filled))
      written == w.written + chunk
      full    == Len(filled) - moved = RingCapacity
      done    == written = Len(w.data)
  IN /\ w.pc = "write"
     /\ tx_rb' = Rest(filled, moved)
     /\ tx_fifo' = tx_fifo \o Take(filled, moved)
     /\ tx_it' = TRUE
     /\ tx_wait_task' = IF ~done /\ full THEN t ELSE tx_wait_task
     /\ missed' = [u \in Writers |->
          IF u = t THEN (IF ~done /\ ~full THEN "space" ELSE "no")
          ELSE IF u = tx_wait_task /\ ~done /\ full THEN "displaced"
          ELSE missed[u]]
     /\ writer' = [writer EXCEPT ![t] =
          IF done THEN [pc |-> "idle", data |-> << >>, written |-> 0]
          ELSE [@ EXCEPT !.pc = "wait", !.written = written]]
     /\ UNCHANGED <<wire, tx_notified, logged, messages, rxVars>>

(* ulTaskNotifyTakeIndexed(SERIAL_TX_NOTIFY_INDEX, pdTRUE, portMAX_DELAY). *)
WriteWake(t) ==
  /\ writer[t].pc = "wait"
  /\ t \in tx_notified
  /\ tx_notified' = tx_notified \ {t}
  /\ writer' = [writer EXCEPT ![t].pc = "write"]
  /\ UNCHANGED <<tx_rb, tx_fifo, tx_it, wire, tx_wait_task, logged, messages,
                 missed, rxVars>>

(* The USART sends the oldest byte of its FIFO.                            *)
ShiftOut ==
  /\ tx_fifo # << >>
  /\ wire' = Append(wire, Head(tx_fifo))
  /\ tx_fifo' = Tail(tx_fifo)
  /\ UNCHANGED <<tx_rb, tx_it, tx_wait_task, writer, tx_notified, logged,
                 messages, missed, rxVars>>
-----------------------------------------------------------------------------
(* A byte arrives: stored in the FIFO, or lost with the ORE flag set.      *)
ShiftIn ==
  /\ arrived < MaxRx
  /\ arrived' = arrived + 1
  /\ IF Len(rx_fifo) < FifoDepth
     THEN rx_fifo' = Append(rx_fifo, arrived') /\ UNCHANGED overrun
     ELSE overrun' = TRUE /\ UNCHANGED rx_fifo
  /\ UNCHANGED <<rx_rb, idle, rx_wait_task, reader, rx_notified, want,
                 delivered, txVars>>

(* The line falls silent after a byte.                                     *)
LineIdle ==
  /\ rx_fifo # << >> /\ ~idle
  /\ idle' = TRUE
  /\ UNCHANGED <<rx_fifo, rx_rb, arrived, overrun, rx_wait_task, reader,
                 rx_notified, want, delivered, txVars>>

(* serial_console_read(data, len).                                         *)
ReadCall(len) ==
  /\ reader = "idle"
  /\ reader' = "read" /\ want' = len
  /\ UNCHANGED <<rx_fifo, rx_rb, arrived, idle, overrun, rx_wait_task,
                 rx_notified, delivered, txVars>>

(* One pass of its loop: the critical section takes what there is or       *)
(* registers the task.                                                     *)
ReadPass ==
  LET read_len == Least(Len(rx_rb), want)
  IN /\ reader = "read"
     /\ rx_rb' = Rest(rx_rb, read_len)
     /\ delivered' = delivered \o Take(rx_rb, read_len)
     /\ rx_wait_task' = (rx_wait_task \/ read_len = 0)
     /\ reader' = IF read_len = 0 THEN "wait" ELSE "idle"
     /\ UNCHANGED <<rx_fifo, arrived, idle, overrun, rx_notified, want, txVars>>

ReadWake ==
  /\ reader = "wait"
  /\ rx_notified
  /\ rx_notified' = FALSE
  /\ reader' = "read"
  /\ UNCHANGED <<rx_fifo, rx_rb, arrived, idle, overrun, rx_wait_task, want,
                 delivered, txVars>>
-----------------------------------------------------------------------------
RxPending == Len(rx_fifo) >= RxThreshold \/ idle \/ overrun
TxPending == tx_it /\ Len(tx_fifo) < FifoDepth

(* Fault: bytes are stored whether the ring has room or not.               *)
IrqReceive_NoLimit ==
  LET kept == Len(rx_fifo)
      rx_has_data == rx_fifo # << >>
  IN /\ idle' = FALSE /\ overrun' = FALSE
     /\ rx_fifo' = << >>
     /\ rx_rb' = rx_rb \o Take(rx_fifo, kept)
     /\ rx_notified' = (rx_notified \/ (rx_has_data /\ rx_wait_task))
     /\ rx_wait_task' = (rx_wait_task /\ ~rx_has_data)
     /\ UNCHANGED <<arrived, reader, want, delivered>>

(* Fault: only the threshold interrupt notifies the reader.                *)
IrqReceive_LosesWake ==
  LET kept == Least(RingCapacity - Len(rx_rb), Len(rx_fifo))
      rx_has_data == rx_fifo # << >>
  IN /\ idle' = FALSE /\ overrun' = FALSE
     /\ rx_fifo' = << >>
     /\ rx_rb' = rx_rb \o Take(rx_fifo, kept)
     /\ rx_notified' = (rx_notified \/ (Len(rx_fifo) >= RxThreshold /\ rx_wait_task))
     /\ rx_wait_task' = (rx_wait_task /\ ~rx_has_data)
     /\ UNCHANGED <<arrived, reader, want, delivered>>

(* Fault: bytes of the FIFO are stored only if all of them fit.            *)
IrqReceive_AllOrNothing ==
  LET kept == IF Len(rx_fifo) <= RingCapacity - Len(rx_rb) THEN Len(rx_fifo) ELSE 0
      rx_has_data == rx_fifo # << >>
  IN /\ idle' = FALSE /\ overrun' = FALSE
     /\ rx_fifo' = << >>
     /\ rx_rb' = rx_rb \o Take(rx_fifo, kept)
     /\ rx_notified' = (rx_notified \/ (rx_has_data /\ rx_wait_task))
     /\ rx_wait_task' = (rx_wait_task /\ ~rx_has_data)
     /\ UNCHANGED <<arrived, reader, want, delivered>>

(* Fault: IDLE is acknowledged but does not drain the FIFO.                *)
IrqReceive_IdleIgnored ==
  LET kept == IF Len(rx_fifo) < RxThreshold THEN 0
             ELSE Least(RingCapacity - Len(rx_rb), Len(rx_fifo))
      rx_has_data == Len(rx_fifo) >= RxThreshold
  IN /\ idle' = FALSE /\ overrun' = FALSE
     /\ rx_fifo' = IF Len(rx_fifo) < RxThreshold THEN rx_fifo ELSE << >>
     /\ rx_rb' = rx_rb \o Take(rx_fifo, kept)
     /\ rx_notified' = (rx_notified \/ (rx_has_data /\ rx_wait_task))
     /\ rx_wait_task' = (rx_wait_task /\ ~rx_has_data)
     /\ UNCHANGED <<arrived, reader, want, delivered>>

(* Receive half of serial_console_irq_handler: the FIFO is drained; bytes  *)
(* the ring has no room for are dropped; a waiting reader is notified.     *)
IrqReceive ==
  LET kept == Least(RingCapacity - Len(rx_rb), Len(rx_fifo))
      rx_has_data == rx_fifo # << >>
  IN /\ idle' = FALSE /\ overrun' = FALSE
     /\ rx_fifo' = << >>
     /\ rx_rb' = rx_rb \o Take(rx_fifo, kept)
     /\ rx_notified' = (rx_notified \/ (rx_has_data /\ rx_wait_task))
     /\ rx_wait_task' = (rx_wait_task /\ ~rx_has_data)
     /\ UNCHANGED <<arrived, reader, want, delivered>>

(* Fault: the interrupt is disabled with bytes left in the ring.           *)
IrqTransmit_DisarmsEarly ==
  LET moved == IF TxPending THEN Least(FifoDepth - Len(tx_fifo), Len(tx_rb)) ELSE 0
      empty == TxPending /\ moved = Len(tx_rb)
      wake  == (moved > 0 \/ empty) /\ tx_wait_task # NoTask
  IN /\ tx_rb' = Rest(tx_rb, moved)
     /\ tx_fifo' = tx_fifo \o Take(tx_rb, moved)
     /\ tx_it' = (tx_it /\ moved = 0)
     /\ tx_notified' = IF wake THEN tx_notified \cup {tx_wait_task} ELSE tx_notified
     /\ tx_wait_task' = IF wake THEN NoTask ELSE tx_wait_task
     /\ UNCHANGED <<wire, writer, logged, messages, missed>>

(* Fault: the slot is cleared without a notification.                      *)
IrqTransmit_ForgetsTask ==
  LET moved == IF TxPending THEN Least(FifoDepth - Len(tx_fifo), Len(tx_rb)) ELSE 0
      empty == TxPending /\ moved = Len(tx_rb)
      wake  == (moved > 0 \/ empty) /\ tx_wait_task # NoTask
  IN /\ tx_rb' = Rest(tx_rb, moved)
     /\ tx_fifo' = tx_fifo \o Take(tx_rb, moved)
     /\ tx_it' = (tx_it /\ ~empty)
     /\ tx_notified' = tx_notified
     /\ tx_wait_task' = IF wake THEN NoTask ELSE tx_wait_task
     /\ UNCHANGED <<wire, writer, logged, messages, missed>>

(* Transmit half: top up the FIFO, disable the interrupt once the ring is  *)
(* empty, notify the registered task.                                      *)
IrqTransmit ==
  LET moved == IF TxPending THEN Least(FifoDepth - Len(tx_fifo), Len(tx_rb)) ELSE 0
      empty == TxPending /\ moved = Len(tx_rb)
      wake  == (moved > 0 \/ empty) /\ tx_wait_task # NoTask
  IN /\ tx_rb' = Rest(tx_rb, moved)
     /\ tx_fifo' = tx_fifo \o Take(tx_rb, moved)
     /\ tx_it' = (tx_it /\ ~empty)
     /\ tx_notified' = IF wake THEN tx_notified \cup {tx_wait_task} ELSE tx_notified
     /\ tx_wait_task' = IF wake THEN NoTask ELSE tx_wait_task
     /\ UNCHANGED <<wire, writer, logged, messages, missed>>

(* serial_console_irq_handler: one invocation serves both directions.      *)
IrqHandler == (RxPending \/ TxPending) /\ IrqReceive /\ IrqTransmit
-----------------------------------------------------------------------------
TaskStep(t) == WritePass(t) \/ WriteWake(t)
ReaderStep  == ReadPass \/ ReadWake

Next == \/ \E t \in Writers : (\E n \in Lengths : LogCall(t, n)) \/ TaskStep(t)
        \/ (\E len \in ReadSizes : ReadCall(len)) \/ ReaderStep
        \/ ShiftOut \/ ShiftIn \/ LineIdle
        \/ IrqHandler

(* The USART never stops, its interrupt is served, and the scheduler runs  *)
(* every ready task: the tasks of higher priority all block between events.*)
Fairness == /\ WF_vars(ShiftOut) /\ WF_vars(LineIdle) /\ WF_vars(IrqHandler)
            /\ \A t \in Writers : WF_vars(TaskStep(t))
            /\ WF_vars(ReaderStep)

Spec == Init /\ [][Next]_vars /\ Fairness
-----------------------------------------------------------------------------
(* Rings and FIFOs hold what their sizes allow, and every local of a task  *)
(* is what serial_console_write and serial_console_read can make it.       *)
TypeOK ==
  /\ tx_rb \in Seq(Bytes) /\ Len(tx_rb) <= RingCapacity
  /\ tx_fifo \in Seq(Bytes) /\ Len(tx_fifo) <= FifoDepth
  /\ wire \in Seq(Bytes) /\ tx_it \in BOOLEAN
  /\ tx_wait_task \in Writers \cup {NoTask} /\ tx_notified \subseteq Writers
  /\ writer \in [Writers -> [pc : {"idle", "write", "wait"},
                            data : Seq(Bytes), written : Nat]]
  /\ \A t \in Writers : writer[t].written <= Len(writer[t].data)
  /\ logged \in [Writers -> Seq(Bytes)]
  /\ messages \in [Writers -> 0 .. MaxMessages]
  /\ missed \in [Writers -> {"no", "space", "displaced"}]
  /\ rx_rb \in Seq(Nat) /\ Len(rx_rb) <= RingCapacity
  /\ rx_fifo \in Seq(Nat) /\ Len(rx_fifo) <= FifoDepth
  /\ arrived \in 0 .. MaxRx /\ delivered \in Seq(Nat)
  /\ idle \in BOOLEAN /\ overrun \in BOOLEAN /\ rx_wait_task \in BOOLEAN
  /\ rx_notified \in BOOLEAN /\ reader \in {"idle", "read", "wait"}
  /\ want \in ReadSizes \cup {0} /\ (reader # "idle" => want \in ReadSizes)

(* The bytes of s that are task t's, in their order; the recursion is over *)
(* the prefixes of s.                                                      *)
Filtered(t, s) ==
  LET f[n \in 0 .. Len(s)] ==
        IF n = 0 THEN << >>
        ELSE IF s[n][1] = t THEN Append(f[n - 1], s[n]) ELSE f[n - 1]
  IN f
OfTask(t, s) == Filtered(t, s)[Len(s)]

Unwritten(t) == Len(writer[t].data) - writer[t].written

(* However writes of several tasks are cut up and interleaved, each task's *)
(* accepted bytes leave in order, none lost and none sent twice            *)
(* (serial_console_write and the handler both feed the FIFO).              *)
TxPreserved ==
  \A t \in Writers :
    OfTask(t, wire \o tx_fifo \o tx_rb)
      = Take(logged[t], Len(logged[t]) - Unwritten(t))

(* Bytes never rest in the ring with the interrupt that moves them         *)
(* disabled, though the handler disables it and several tasks enable it.   *)
TxArmed == tx_rb # << >> => tx_it

(* A task that waits for ring space has a wake-up to come: it is           *)
(* registered or already notified - except for the two ways the single     *)
(* tx_wait_task slot loses it: the FIFO took a byte inside the task's own  *)
(* critical section, so it found space and waits unregistered, or another  *)
(* task took the slot.                                                     *)
TxWaitAccounted ==
  \A t \in Writers : writer[t].pc = "wait" =>
    \/ tx_wait_task = t \/ t \in tx_notified
    \/ missed[t] # "no"

(* A task whose wake-up was not lost in one of those ways does finish.     *)
TxWaitEnds ==
  \A t \in Writers :
    (writer[t].pc = "wait" /\ missed[t] = "no") ~>
      (writer[t].pc # "wait" \/ missed[t] # "no")

(* Everything accepted into the ring reaches the line.                     *)
TxDrains == []<>(tx_rb = << >> /\ tx_fifo = << >>)

(* The reading task never sleeps on data: between finding the ring empty   *)
(* and sleeping, the handler cannot slip a byte past it.                   *)
RxNoLostWakeup ==
  (reader = "wait" /\ ~rx_notified) => (rx_wait_task /\ rx_rb = << >>)

(* What reads return, followed by what is buffered behind it.              *)
Received == delivered \o rx_rb \o rx_fifo

(* What reads return, followed by what is buffered, is in arrival order    *)
(* with nothing twice; a byte that was lost leaves a gap                   *)
(* (serial_console_irq_handler, serial_console_read).                      *)
RxInOrder ==
  \A i \in 1 .. Len(Received) - 1 : Received[i] < Received[i + 1]

(* A byte is lost in two ways only.  One that arrives is stored, unless    *)
(* the FIFO is full, and then ORE says so; one that was stored stays until *)
(* it is read, unless the handler finds no room: then the ring is full     *)
(* afterwards, and the newest bytes are those that go                      *)
(* (serial_console_irq_handler, serial_console_read).                      *)
RxLost ==
  [][\/ arrived' = arrived /\ Received' = Received
     \/ arrived' = arrived + 1 /\ Received' = Append(Received, arrived')
     \/ /\ arrived' = arrived + 1 /\ Received' = Received
        /\ Len(rx_fifo) = FifoDepth /\ overrun'
     \/ /\ arrived' = arrived /\ Len(rx_rb') = RingCapacity
        /\ Received' = Take(Received, Len(Received'))]_vars

(* A read that waits while bytes are in the FIFO ends, also when they are   *)
(* too few for the RXFT threshold: the IDLE interrupt fetches them, and     *)
(* the wake-up it gives is not lost (serial_console_irq_handler).           *)
RxReadEnds == (reader = "wait" /\ rx_fifo # << >>) ~> (reader = "idle")

(* console_log.h: "output is byte-identical to writing the formatted        *)
(* string directly": what a task in console_log_write passes to             *)
(* serial_console_write is the string that was formatted.                   *)
LogByteIdentical ==
  \A t \in Writers : writer[t].pc # "idle" =>
    \E n \in Lengths : writer[t].data = Formatted(t, messages[t], n)
=============================================================================
