----------------------------- MODULE UsbMscProofs -----------------------------
(***************************************************************************)
(* What TLAPS proves of the USB disk, for every card, every block size and *)
(* every set of commands.                                                  *)
(*                                                                         *)
(* UsbInv says what the device waits for at each stage, in which order the *)
(* events of the task stand, that host and device are at the same command, *)
(* and where its data is: sent by the host, in the packet, in the buffer,  *)
(* moved to the card.  One lemma per action shows that it is kept; the     *)
(* three ways an action can leave the storage callback or enter it         *)
(* (EventEnds, EventCalls, InsideCallback) are shared by all of them.      *)
(***************************************************************************)
EXTENDS UsbMsc, SequenceTheorems, TLAPS

(***************************************************************************)
(* Types.  A cell of a block, of a packet or of the buffer says where it   *)
(* comes from.                                                             *)
(***************************************************************************)
Cell == {"blank", "host", "test"} \X Nat
Endpoint == [busy : BOOLEAN, stalled : BOOLEAN,
             kind : {"none", "data", "cbw", "csw"}, len : Nat]
Msc == [stage : {"CMD", "DATA", "STATUS", "STATUS_SENT"},
        cbw : Commands \cup {NoCommand},
        status : {"PASSED", "FAILED", "PHASE_ERROR"},
        residue : Nat, total_len : Nat, xferred_len : Nat,
        sense : {"none", "illegal", "notready"},
        buf : Seq(Cell),
        ep : [in : Endpoint, out : Endpoint]]
EventType == [ev : {"xfer", "clear", "reset", "config"}, ep : {"in", "out", "none"},
              n : Nat, cmd : Commands \cup {NoCommand}]
HostType == [at : {"enum", "idle", "out", "in", "status"},
             cmd : Commands \cup {NoCommand}, sent : Seq(Cell), got : Seq(Cell)]
ShellType == [at : {"idle", "write", "read"}, blk : Blocks]

Types ==
  /\ msc \in Msc /\ Len(msc.buf) <= BlockSize
  /\ queue \in Seq(EventType)
  /\ pc \in {"idle", "call", "fetch", "store", "unlock"}
  /\ size \in 0 .. BlockSize /\ ret \in {"OK", "ERROR"}
  /\ sd2_ready \in BOOLEAN /\ sd2_io_mutex \in {"free", "usb", "shell"}
  /\ disk \in [Blocks -> [Cells -> Cell]]
  /\ host \in HostType /\ shell \in ShellType /\ moved \in Seq(Cell)

(***************************************************************************)
(* The card: who holds its mutex, and what the callback in progress has    *)
(* checked and fetched.                                                    *)
(***************************************************************************)
Locked == pc \in {"fetch", "store", "unlock"}
Card ==
  /\ sd2_io_mutex = "usb" <=> Locked
  /\ sd2_io_mutex = "shell" => shell.at \in {"write", "read"}
  /\ pc # "unlock" => ret = "OK"
  /\ Locked => InRange
  /\ pc = "store" => msc.cbw.op = "write"
  /\ pc = "store" /\ NeedsSector => msc_sector = disk[Lba(msc)]

(***************************************************************************)
(* The stages of the device: which endpoint each one waits on.             *)
(***************************************************************************)
Free(e)     == ~e.busy /\ ~e.stalled /\ e.kind = "none"
InFlight(e) == e.busy /\ ~e.stalled
Halted(e)   == e.busy /\ e.stalled /\ e.kind = "none"

Left(m) == m.cbw.total - m.xferred_len
Valid(c) == Validate(c) = "PASSED" /\ c.total > 0

Listening(m) == /\ m.stage = "CMD" /\ Free(m.ep.in)
                /\ InFlight(m.ep.out) /\ m.ep.out.kind \in {"none", "cbw"}
Deaf(m)      == m.stage = "CMD" /\ Free(m.ep.in) /\ Halted(m.ep.out)
Sending(m)   == /\ m.stage = "DATA" /\ Free(m.ep.out)
                /\ InFlight(m.ep.in) /\ m.ep.in.kind \in {"none", "data"}
                /\ m.cbw.op # "write"
                /\ m.ep.in.len = Len(m.buf) /\ m.ep.in.len >= 1
                /\ m.ep.in.len <= m.total_len - m.xferred_len
                /\ m.cbw.op # "read" => m.ep.in.len = m.total_len - m.xferred_len
Taking(m)    == /\ m.stage = "DATA" /\ Free(m.ep.in)
                /\ InFlight(m.ep.out) /\ m.ep.out.kind \in {"none", "data"}
                /\ m.cbw.op # "read"
                /\ m.ep.out.len \in 1 .. BlockSize
                /\ m.ep.out.len <= m.total_len - m.xferred_len
Silent(m)    == m.stage = "STATUS" /\ Free(m.ep.out) /\ Halted(m.ep.in)
Reporting(m) == /\ m.stage = "STATUS_SENT"
                /\ InFlight(m.ep.in) /\ m.ep.in.kind \in {"none", "csw"}
                /\ Free(m.ep.out) \/ Halted(m.ep.out)
                /\ m.residue = Left(m)
Waiting(m) == \/ Listening(m) \/ Deaf(m) \/ Sending(m) \/ Taking(m)
              \/ Silent(m) \/ Reporting(m)

(* The command was left as it is, without a transfer: only a reset ends it.*)
Lost(m) == /\ m.stage = "DATA" /\ Free(m.ep.in) /\ Free(m.ep.out)
           /\ m.cbw.op \in {"read", "write"} /\ block_sz(m) = 0

InCallback ==
  /\ msc.stage = "DATA" /\ Free(msc.ep.in) /\ Free(msc.ep.out)
  /\ msc.cbw.op \in {"read", "write"} /\ block_sz(msc) # 0
  /\ queue # << >> /\ queue[1].ev = "xfer"
  /\ size >= 1 /\ size <= Left(msc)

Lengths(m) ==
  /\ m.xferred_len <= m.total_len /\ m.total_len <= m.cbw.total
  /\ m.cbw.op \in {"read", "write"} => m.total_len = m.cbw.total
  /\ m.stage = "DATA" /\ m.cbw.op \in {"read", "write"} => Valid(m.cbw)
  /\ m.stage # "DATA" /\ m.status = "PASSED" /\ m.cbw.op \in {"read", "write"} => Left(m) = 0

Device ==
  /\ IF pc = "idle" THEN msc = Cleared \/ Waiting(msc) \/ Lost(msc) ELSE InCallback
  /\ msc.stage # "CMD" => Lengths(msc)
  /\ msc.status # "PASSED" => msc.sense # "none"

(***************************************************************************)
(* The events of the task: at most one transfer, at the head, then at most *)
(* one cleared halt, then the reset; the configuration comes alone.        *)
(***************************************************************************)
HeadIs(ev, ep) == queue # << >> /\ queue[1].ev = ev /\ queue[1].ep = ep

EventOrder ==
  \A i \in 1 .. Len(queue) :
    /\ queue[i].ev = "xfer" => i = 1 /\ queue[i].ep \in {"in", "out"}
    /\ queue[i].ev = "clear" => queue[i].ep \in {"in", "out"}
    /\ queue[i].ev = "reset" => i = Len(queue) /\ host.at = "enum" /\ queue[i].ep = "none"
    /\ queue[i].ev = "config" => Len(queue) = 1 /\ host.at = "enum" /\ queue[i].ep = "none"
ClearsOnce ==
  \A i, j \in 1 .. Len(queue) : queue[i].ev = "clear" /\ queue[j].ev = "clear" => i = j
ClearsHalted ==
  \A i \in 1 .. Len(queue) : queue[i].ev = "clear" => Halted(msc.ep[queue[i].ep])
Enumerating ==
  /\ msc = Cleared => host.at = "enum"
  /\ host.at = "enum" =>
       \/ pc = "idle" /\ msc = Cleared /\ \A i \in 1 .. Len(queue) : queue[i].ev = "config"
       \/ queue # << >> /\ queue[Len(queue)].ev = "reset"
Completion ==
  pc = "idle" =>
    /\ HeadIs("xfer", "in") => /\ InFlight(msc.ep.in) /\ msc.ep.in.kind = "none"
                               /\ msc.stage = "DATA" => queue[1].n = msc.ep.in.len
    /\ HeadIs("xfer", "out") => /\ InFlight(msc.ep.out) /\ msc.ep.out.kind = "none"
                                /\ msc.stage = "CMD" => queue[1].cmd \in Commands
                                /\ msc.stage = "DATA" => queue[1].n \in 1 .. msc.ep.out.len
    /\ host.at # "enum" /\ InFlight(msc.ep.in)
         => msc.ep.in.kind # "none" \/ HeadIs("xfer", "in")
    /\ host.at # "enum" /\ InFlight(msc.ep.out)
         => msc.ep.out.kind # "none" \/ HeadIs("xfer", "out")
Events == EventOrder /\ ClearsOnce /\ ClearsHalted /\ Enumerating /\ Completion

(***************************************************************************)
(* The host and the device are at the same command.                        *)
(***************************************************************************)
InStep ==
  /\ host.at = "idle" =>
       /\ host.sent = << >> /\ host.got = << >>
       /\ msc.stage \in {"CMD", "STATUS_SENT"}
       /\ msc.stage = "CMD" => ~HeadIs("xfer", "out")
       /\ msc.stage = "STATUS_SENT" => HeadIs("xfer", "in")
  /\ host.at \in {"in", "out", "status"} =>
       /\ msc.stage = "CMD" => /\ HeadIs("xfer", "out") /\ queue[1].cmd = host.cmd
                               /\ host.sent = << >> /\ host.got = << >>
       /\ msc.stage # "CMD" => msc.cbw = host.cmd
       /\ msc.stage = "STATUS_SENT" => ~HeadIs("xfer", "in")

(***************************************************************************)
(* The data of the command on its way between host and card.               *)
(***************************************************************************)
HostRun(s, first) == \A i \in 1 .. Len(s) : s[i] = HostByte(first + i)
Arrived == IF pc # "idle" THEN size
           ELSE IF msc.stage = "DATA" /\ HeadIs("xfer", "out") THEN queue[1].n ELSE 0
Done == pc = "unlock" /\ ret = "OK"

WriteData ==
  msc.cbw.op = "write" /\ msc.stage # "CMD" =>
    /\ HostRun(moved, 0)
    /\ Len(moved) = msc.xferred_len + (IF Done THEN size ELSE 0)
    /\ pc # "idle" \/ (msc.stage = "DATA" /\ HeadIs("xfer", "out")) =>
         Len(msc.buf) = Arrived /\ HostRun(msc.buf, msc.xferred_len)
    /\ host.at \in {"in", "out", "status"} /\ ~Lost(msc)
         /\ (msc.stage = "DATA" \/ msc.status = "PASSED") =>
         Len(host.sent) = msc.xferred_len + Arrived

InBuffer ==
  Done \/ (pc = "idle" /\ msc.stage = "DATA" /\ ~HeadIs("xfer", "in") /\ ~Lost(msc))
Gone == IF pc = "idle" /\ msc.stage = "DATA" /\ HeadIs("xfer", "in") THEN queue[1].n ELSE 0
ReadData ==
  /\ Done /\ msc.cbw.op = "read" => Len(msc.buf) = size
  /\ msc.cbw.op = "read" /\ msc.stage # "CMD" /\ host.at \in {"in", "out", "status"} =>
       /\ Len(host.got) = msc.xferred_len + Gone
       /\ moved = IF InBuffer THEN host.got \o msc.buf ELSE host.got

Data == HostRun(host.sent, 0) /\ WriteData /\ ReadData

UsbInv == Types /\ Card /\ Device /\ Events /\ InStep /\ Data
-----------------------------------------------------------------------------
(* Command and lengths stay as they were.                                  *)
Kept(m, r) == /\ r.cbw = m.cbw /\ r.total_len = m.total_len
              /\ r.xferred_len = m.xferred_len

(* What the host may ask, field by field (msc_cbw_t).                      *)
LEMMA CommandTypes ==
  ASSUME NEW c \in Commands \cup {NoCommand}
  PROVE  /\ c.op \in {"read", "write", "ready", "capacity", "sense", "other", "none"}
         /\ c.dir \in {"in", "out"} /\ c.lba \in Nat /\ c.count \in Nat /\ c.total \in Nat
BY UsbAssumption DEF NoCommand

(* A transfer armed on a free IN endpoint (usbd_edpt_xfer).                *)
LEMMA XferIn ==
  ASSUME NEW m \in Msc, NEW k \in {"none", "data", "cbw", "csw"},
         NEW n \in Nat, Free(m.ep.in)
  PROVE  LET r == Xfer(m, "in", k, n)
         IN  /\ r \in Msc /\ Kept(m, r) /\ r.stage = m.stage /\ r.status = m.status
             /\ r.residue = m.residue /\ r.sense = m.sense /\ r.buf = m.buf
             /\ r.ep.out = m.ep.out
             /\ InFlight(r.ep.in) /\ r.ep.in.kind = k /\ r.ep.in.len = n
BY DEF Xfer, Msc, Endpoint, Free, InFlight, Kept

(* A transfer armed on a free OUT endpoint (usbd_edpt_xfer).               *)
LEMMA XferOut ==
  ASSUME NEW m \in Msc, NEW k \in {"none", "data", "cbw", "csw"},
         NEW n \in Nat, Free(m.ep.out)
  PROVE  LET r == Xfer(m, "out", k, n)
         IN  /\ r \in Msc /\ Kept(m, r) /\ r.stage = m.stage /\ r.status = m.status
             /\ r.residue = m.residue /\ r.sense = m.sense /\ r.buf = m.buf
             /\ r.ep.in = m.ep.in
             /\ InFlight(r.ep.out) /\ r.ep.out.kind = k /\ r.ep.out.len = n
BY DEF Xfer, Msc, Endpoint, Free, InFlight, Kept

Ended(m, r) ==
  /\ r \in Msc /\ Kept(m, r) /\ Len(r.buf) <= Len(m.buf)
  /\ \/ r.stage = "STATUS" /\ Free(r.ep.out) /\ Halted(r.ep.in)
     \/ /\ r.stage = "STATUS_SENT" /\ r.residue = m.cbw.total - m.xferred_len
        /\ InFlight(r.ep.in) /\ r.ep.in.kind = "csw"
        /\ Free(r.ep.out) \/ Halted(r.ep.out)

(* The status goes out with the residue of the moment (send_csw).          *)
LEMMA CswSent ==
  ASSUME NEW m \in Msc, Free(m.ep.in), m.xferred_len <= m.cbw.total
  PROVE  LET r == SendCsw(m)
         IN  /\ r \in Msc /\ Kept(m, r) /\ Len(r.buf) = 0
             /\ r.stage = "STATUS_SENT" /\ r.residue = m.cbw.total - m.xferred_len
             /\ InFlight(r.ep.in) /\ r.ep.in.kind = "csw" /\ r.ep.out = m.ep.out
             /\ r.status = m.status /\ r.sense = m.sense
<1> DEFINE s == [m EXCEPT !.residue = m.cbw.total - m.xferred_len,
                 !.stage = "STATUS_SENT", !.buf = << >>]
<1>1. m.cbw.total - m.xferred_len \in Nat
  BY CommandTypes DEF Msc
<1>2. << >> \in Seq(Cell) /\ Len(<< >>) = 0
  OBVIOUS
<1>3. ASSUME NEW b \in Seq(Cell)
      PROVE  LET t == [m EXCEPT !.residue = m.cbw.total - m.xferred_len,
                                !.stage = "STATUS_SENT", !.buf = b]
             IN  /\ t \in Msc /\ Kept(m, t) /\ t.buf = b /\ t.stage = "STATUS_SENT"
                 /\ t.residue = m.cbw.total - m.xferred_len /\ t.ep = m.ep
                 /\ t.status = m.status /\ t.sense = m.sense
  BY <1>1 DEF Msc, Kept
<1>4. SendCsw(m) = Xfer(s, "in", "csw", 0)
  BY DEF SendCsw
<1>5. /\ s \in Msc /\ Kept(m, s) /\ s.buf = << >> /\ s.stage = "STATUS_SENT"
      /\ s.residue = m.cbw.total - m.xferred_len /\ s.ep = m.ep
      /\ s.status = m.status /\ s.sense = m.sense
  BY <1>2, <1>3
<1> HIDE DEF s
<1> QED
  BY <1>2, <1>4, <1>5, XferIn DEF Kept

(* A failed command stalls what is left of its data stage, or sends its    *)
(* status at once (fail_scsi_op, proc_stage_status).                       *)
LEMMA FailEnds ==
  ASSUME NEW m \in Msc, Free(m.ep.in), Free(m.ep.out), m.xferred_len <= m.cbw.total,
         NEW st \in {"FAILED", "PHASE_ERROR"}
  PROVE  LET r == StageStatus(FailOp(m, st))
         IN  /\ Ended(m, r) /\ r.status = st /\ r.sense # "none"
             /\ m.cbw.dir = "out" /\ m.xferred_len < m.cbw.total =>
                  r.stage = "STATUS_SENT" /\ Halted(r.ep.out)
<1> DEFINE s == [m EXCEPT !.status = st,
                          !.residue = m.cbw.total - m.xferred_len,
                          !.stage = "STATUS",
                          !.sense = IF @ = "none" THEN "illegal" ELSE @]
<1>1. m.cbw.total - m.xferred_len \in Nat /\ m.cbw.dir \in {"in", "out"}
      /\ m.cbw.total \in Nat /\ m.xferred_len \in Nat
  BY CommandTypes DEF Msc
<1>2. s \in Msc /\ Kept(m, s) /\ s.buf = m.buf /\ s.stage = "STATUS"
      /\ s.residue = m.cbw.total - m.xferred_len /\ s.ep = m.ep
      /\ s.status = st /\ s.sense # "none"
  BY <1>1 DEF Msc, Kept
<1>3. FailOp(m, st) = IF s.residue > 0 THEN Stall(s, m.cbw.dir) ELSE s
  BY DEF FailOp
<1> HIDE DEF s
<1>4. Len(s.buf) \in Nat
  BY <1>2 DEF Msc
<1>5. CASE s.residue = 0
  <2>1. StageStatus(s) = SendCsw(s)
    BY <1>1, <1>2, <1>5 DEF StageStatus, Free, Kept
  <2> QED
    BY <1>1, <1>2, <1>3, <1>4, <1>5, <2>1, CswSent DEF Ended, Kept
<1>6. CASE s.residue > 0 /\ m.cbw.dir = "in"
  <2> DEFINE f == Stall(s, "in")
  <2>1. f \in Msc /\ f.stage = "STATUS" /\ Kept(s, f) /\ f.ep.in.stalled
        /\ Halted(f.ep.in) /\ f.ep.out = m.ep.out /\ f.status = st /\ f.sense # "none"
        /\ f.buf = s.buf
    BY <1>2 DEF Stall, Msc, Endpoint, NoTransfer, Halted, Kept
  <2>2. FailOp(m, st) = f
    BY <1>3, <1>6
  <2> HIDE DEF f
  <2>3. StageStatus(f) = f
    BY <2>1 DEF StageStatus
  <2> QED
    BY <1>1, <1>2, <1>4, <1>6, <2>1, <2>2, <2>3 DEF Ended, Kept
<1>7. CASE s.residue > 0 /\ m.cbw.dir = "out"
  <2> DEFINE f == Stall(s, "out")
  <2>1. f \in Msc /\ f.stage = "STATUS" /\ Kept(s, f) /\ f.ep.in = m.ep.in
        /\ Halted(f.ep.out) /\ f.status = st /\ f.sense # "none" /\ f.buf = s.buf
    BY <1>2 DEF Stall, Msc, Endpoint, NoTransfer, Halted, Kept
  <2>2. FailOp(m, st) = f
    BY <1>3, <1>7
  <2> HIDE DEF f
  <2>3. StageStatus(f) = SendCsw(f)
    BY <1>1, <1>2, <1>7, <2>1 DEF StageStatus, Free, Kept
  <2> QED
    BY <1>1, <1>2, <1>4, <2>1, <2>2, <2>3, CswSent DEF Ended, Kept
<1> QED
  BY <1>1, <1>2, <1>5, <1>6, <1>7

(* A command that ended its data stage sends its status, unless the host   *)
(* still waits for data (proc_stage_status).                               *)
LEMMA PassEnds ==
  ASSUME NEW m \in Msc, Free(m.ep.in), Free(m.ep.out), m.xferred_len <= m.cbw.total
  PROVE  LET r == StageStatus([m EXCEPT !.stage = "STATUS"])
         IN  /\ Ended(m, r) /\ r.status = m.status /\ r.sense = m.sense
             /\ m.cbw.dir = "out" => r.stage = "STATUS_SENT"
<1> DEFINE s == [m EXCEPT !.stage = "STATUS"]
<1>1. m.cbw.total - m.xferred_len \in Nat /\ m.cbw.dir \in {"in", "out"}
      /\ m.cbw.total \in Nat /\ m.xferred_len \in Nat
  BY CommandTypes DEF Msc
<1>2. s \in Msc /\ Kept(m, s) /\ s.buf = m.buf /\ s.stage = "STATUS"
      /\ s.ep = m.ep /\ s.status = m.status /\ s.sense = m.sense
  BY DEF Msc, Kept
<1> HIDE DEF s
<1>3. Len(s.buf) \in Nat
  BY <1>2 DEF Msc
<1>4. CASE ~(m.cbw.total > m.xferred_len /\ m.cbw.dir = "in")
  <2>1. StageStatus(s) = SendCsw(s)
    BY <1>1, <1>2, <1>4 DEF StageStatus, Free, Kept
  <2> QED
    <3>1. LET r == SendCsw(s)
          IN  /\ r \in Msc /\ Kept(s, r) /\ Len(r.buf) = 0
              /\ r.stage = "STATUS_SENT" /\ r.residue = m.cbw.total - m.xferred_len
              /\ InFlight(r.ep.in) /\ r.ep.in.kind = "csw" /\ r.ep.out = m.ep.out
              /\ r.status = m.status /\ r.sense = m.sense
      BY <1>1, <1>2, CswSent DEF Kept
    <3>2. StageStatus([m EXCEPT !.stage = "STATUS"]) = SendCsw(s)
      BY <2>1 DEF s
    <3> HIDE DEF SendCsw
    <3> QED
      BY <1>1, <1>2, <1>3, <3>1, <3>2 DEF Ended, Kept
<1>5. CASE m.cbw.total > m.xferred_len /\ m.cbw.dir = "in"
  <2>1. LET f == Stall(s, "in") IN f \in Msc /\ f.stage = "STATUS" /\ Kept(s, f) /\ f.ep.in.stalled
        /\ Halted(f.ep.in) /\ f.ep.out = m.ep.out /\ f.status = s.status /\ f.sense = s.sense /\ f.buf = s.buf
    BY <1>2 DEF Stall, Msc, Endpoint, NoTransfer, Halted, Kept
  <2>2. StageStatus(s) = Stall(s, "in")
    BY <1>1, <1>2, <1>5 DEF StageStatus, Free, Kept
  <2> QED
    BY <1>1, <1>2, <1>3, <1>5, <2>1, <2>2 DEF Ended, Kept, s
<1> QED
  BY <1>4, <1>5
-----------------------------------------------------------------------------
(* What is left of the queue when its first event is handled, and what is  *)
(* in it when one more is seen.                                            *)
LEMMA TailIs ==
  ASSUME NEW S, NEW q \in Seq(S), q # << >>
  PROVE  /\ Tail(q) \in Seq(S) /\ Len(q) \in Nat /\ Len(q) >= 1
         /\ Len(Tail(q)) = Len(q) - 1 /\ Head(q) = q[1] /\ q[1] \in S
         /\ \A i \in 1 .. Len(q) - 1 : Tail(q)[i] = q[i + 1]
         /\ Tail(q) # << >> <=> Len(q) >= 2
<1>1. /\ Tail(q) \in Seq(S) /\ Len(q) \in Nat /\ Len(q) >= 1
      /\ Len(Tail(q)) = Len(q) - 1 /\ Head(q) = q[1]
      /\ \A i \in 1 .. Len(q) - 1 : Tail(q)[i] = q[i + 1]
  BY HeadTailProperties
<1>2. q[1] \in S
  BY <1>1
<1>3. Tail(q) = << >> <=> Len(Tail(q)) = 0
  BY <1>1, EmptySeq
<1> QED
  BY <1>1, <1>2, <1>3

(* The queue with one more event.                                          *)
LEMMA AppendIs ==
  ASSUME NEW S, NEW q \in Seq(S), NEW e \in S
  PROVE  /\ Append(q, e) \in Seq(S) /\ Len(q) \in Nat /\ Len(Append(q, e)) = Len(q) + 1
         /\ \A i \in 1 .. Len(q) : Append(q, e)[i] = q[i]
         /\ Append(q, e)[Len(q) + 1] = e
         /\ Append(q, e) # << >>
BY AppendProperties

Active == host.at \in {"in", "out", "status"}

(* The queue after a transfer or a cleared halt is handled.                *)
LEMMA AfterEvent ==
  ASSUME Types, Events, queue # << >>, queue[1].ev \in {"xfer", "clear"},
         queue' = Tail(queue), host' = host, pc' = "idle",
         msc'.stage # "CMD" \/ InFlight(msc'.ep.out) \/ Halted(msc'.ep.out),
         host.at # "enum" =>
           /\ InFlight(msc'.ep.in) => msc'.ep.in.kind # "none"
           /\ InFlight(msc'.ep.out) => msc'.ep.out.kind # "none",
         \A i \in 2 .. Len(queue) : queue[i].ev = "clear" => Halted(msc'.ep[queue[i].ep])
  PROVE  /\ queue' \in Seq(EventType) /\ Events'
         /\ ~HeadIs("xfer", "in")' /\ ~HeadIs("xfer", "out")'
         /\ \A i \in 1 .. Len(queue') : queue'[i] \in EventType /\ queue'[i].ev \notin {"xfer", "config"}
<1>1. /\ queue' \in Seq(EventType) /\ Len(queue) \in Nat /\ Len(queue) >= 1
      /\ Len(queue') = Len(queue) - 1
      /\ \A i \in 1 .. Len(queue') : queue'[i] = queue[i + 1]
      /\ queue' # << >> <=> Len(queue) >= 2
  BY TailIs DEF Types
<1>2. \A i \in 1 .. Len(queue) : queue[i] \in EventType
  BY <1>1 DEF Types
<1>3. \A i \in 2 .. Len(queue) : queue[i].ev \notin {"xfer", "config"}
  <2> SUFFICES ASSUME NEW i \in 2 .. Len(queue)
               PROVE  queue[i].ev \notin {"xfer", "config"}
    OBVIOUS
  <2>1. i \in 1 .. Len(queue) /\ i # 1 /\ Len(queue) # 1
    BY <1>1
  <2> QED
    BY <2>1 DEF Events, EventOrder
<1>4. \A i \in 1 .. Len(queue') : queue'[i] \in EventType /\ queue'[i].ev \notin {"xfer", "config"}
  BY <1>1, <1>2, <1>3
<1>5. ~HeadIs("xfer", "in")' /\ ~HeadIs("xfer", "out")'
  <2>1. queue' # << >> => 1 \in 1 .. Len(queue')
    BY <1>1
  <2> QED
    BY <2>1, <1>4 DEF HeadIs
<1>6. EventOrder'
  <2> SUFFICES ASSUME NEW i \in 1 .. Len(queue')
               PROVE  /\ queue'[i].ev = "clear" => queue'[i].ep \in {"in", "out"}
                      /\ queue'[i].ev = "reset" =>
                           i = Len(queue') /\ host.at = "enum" /\ queue'[i].ep = "none"
    BY <1>4 DEF EventOrder
  <2>1. i + 1 \in 1 .. Len(queue) /\ queue'[i] = queue[i + 1]
    BY <1>1
  <2>2. Len(queue') = Len(queue) - 1 /\ Len(queue) \in Nat /\ i \in Nat
    BY <1>1
  <2>3. \A l, n, j \in Nat : l = n - 1 /\ j + 1 = n => j = l
    OBVIOUS
  <2>4. Len(queue') \in Nat
    BY <1>1, LenProperties
  <2>5. i + 1 = Len(queue) => i = Len(queue')
    BY <2>2, <2>3, <2>4
  <2> QED
    BY <2>1, <2>5 DEF Events, EventOrder
<1>7. ClearsOnce'
  BY <1>1 DEF Events, ClearsOnce
<1>8. ClearsHalted'
  BY <1>1 DEF Events, ClearsHalted
<1>9. msc' # Cleared
  BY DEF Cleared, NoTransfer, InFlight, Halted
<1>10. Enumerating'
  <2> SUFFICES ASSUME host.at = "enum"
               PROVE  queue' # << >> /\ queue'[Len(queue')].ev = "reset"
    BY <1>9 DEF Enumerating
  <2>1. queue # << >> /\ queue[Len(queue)].ev = "reset"
    BY <1>1 DEF Events, Enumerating
  <2> QED
    BY <1>1, <2>1
<1>11. Completion'
  BY <1>5 DEF Completion
<1> QED
  BY <1>1, <1>4, <1>5, <1>6, <1>7, <1>8, <1>10, <1>11 DEF Events

(* A device that waits on a transfer has not lost its command.             *)
LEMMA NotLost ==
  ASSUME NEW m, Waiting(m)
  PROVE  ~Lost(m)
BY DEF Waiting, Listening, Deaf, Sending, Taking, Silent, Reporting, Lost, Free, InFlight, Halted

(* An event of a transfer ends: the device waits on the host again, and    *)
(* what the task holds of the card it has given back.                      *)
LEMMA EventEnds ==
  ASSUME UsbInv,
         queue # << >>, queue[1].ev = "xfer", queue' = Tail(queue),
         host' = host, host.at # "idle", shell' = shell, disk' = disk,
         sd2_ready' = sd2_ready,
         \/ ~Locked /\ sd2_io_mutex' = sd2_io_mutex
         \/ Locked /\ sd2_io_mutex' = "free",
         pc' = "idle", size' \in 0 .. BlockSize, ret' = "OK", moved' \in Seq(Cell),
         msc' \in Msc, Len(msc'.buf) <= BlockSize,
         Waiting(msc'), msc'.stage # "CMD", Lengths(msc'),
         msc'.status # "PASSED" => msc'.sense # "none",
         InFlight(msc'.ep.in) => msc'.ep.in.kind # "none",
         InFlight(msc'.ep.out) => msc'.ep.out.kind # "none",
         \A i \in 2 .. Len(queue) : queue[i].ev # "clear",
         Active => msc'.cbw = host.cmd,
         msc'.cbw.op = "write" =>
           /\ HostRun(moved', 0) /\ Len(moved') = msc'.xferred_len
           /\ Active /\ (msc'.stage = "DATA" \/ msc'.status = "PASSED") =>
                Len(host.sent) = msc'.xferred_len,
         msc'.cbw.op = "read" /\ Active =>
           /\ Len(host.got) = msc'.xferred_len
           /\ moved' = IF msc'.stage = "DATA" THEN host.got \o msc'.buf ELSE host.got
  PROVE  UsbInv'
<1>1. /\ queue' \in Seq(EventType) /\ Events'
      /\ ~HeadIs("xfer", "in")' /\ ~HeadIs("xfer", "out")'
  BY AfterEvent DEF UsbInv
<1>2. Types'
  BY <1>1 DEF UsbInv, Types
<1>3. Card'
  BY DEF UsbInv, Card, Types, Locked
<1>4. Device'
  BY DEF Device
<1>5. InStep'
  BY <1>1 DEF InStep, Active
<1>6. HostRun(host.sent, 0)'
  BY DEF UsbInv, Data, HostRun
<1>7. ~Done' /\ Arrived' = 0 /\ Gone' = 0 /\ (InBuffer' <=> msc'.stage = "DATA")
  <2>1. ~Lost(msc')
    BY NotLost
  <2> QED
    BY <1>1, <2>1 DEF Done, Arrived, Gone, InBuffer
<1>8. msc'.xferred_len \in Nat
  BY DEF Msc
<1>9. WriteData'
  BY <1>1, <1>7, <1>8 DEF WriteData, HostRun, Active
<1>10. ReadData'
  <2>1. Gone' = 0 /\ ~Done' /\ (InBuffer' <=> msc'.stage = "DATA")
    BY <1>7
  <2>2. Active' <=> Active
    BY DEF Active
  <2>3. msc'.cbw.op = "read" /\ Active =>
          /\ Len(host'.got) = msc'.xferred_len + Gone'
          /\ moved' = IF InBuffer' THEN host'.got \o msc'.buf ELSE host'.got
    <3> SUFFICES ASSUME msc'.cbw.op = "read" /\ Active
                 PROVE  /\ Len(host.got) = msc'.xferred_len + Gone'
                        /\ moved' = IF InBuffer' THEN host.got \o msc'.buf ELSE host.got
      OBVIOUS
    <3>1. Len(host.got) = msc'.xferred_len
      OBVIOUS
    <3>2. msc'.xferred_len + Gone' = msc'.xferred_len
      BY <2>1, <1>8
    <3> QED
      BY <3>1, <3>2, <2>1
  <2> QED
    BY <2>1, <2>2, <2>3 DEF ReadData, Active
<1> QED
  BY <1>1, <1>2, <1>3, <1>4, <1>5, <1>6, <1>9, <1>10 DEF UsbInv, Data

(* An event of a transfer calls the storage: it stays at the head.         *)
LEMMA EventCalls ==
  ASSUME UsbInv, pc = "idle",
         queue # << >>, queue[1].ev = "xfer", host.at # "idle",
         UNCHANGED <<queue, ret, disk, host, shell, sd2_ready, sd2_io_mutex>>,
         pc' = "call", size' \in 1 .. BlockSize, moved' \in Seq(Cell),
         msc' \in Msc, Len(msc'.buf) <= BlockSize,
         msc'.stage = "DATA", Free(msc'.ep.in), Free(msc'.ep.out),
         msc'.cbw.op \in {"read", "write"}, size' <= Left(msc'), Lengths(msc'),
         block_sz(msc') # 0,
         msc'.status # "PASSED" => msc'.sense # "none",
         \A i \in 2 .. Len(queue) : queue[i].ev # "clear",
         Active => msc'.cbw = host.cmd,
         msc'.cbw.op = "write" =>
           /\ HostRun(moved', 0) /\ Len(moved') = msc'.xferred_len
           /\ Len(msc'.buf) = size' /\ HostRun(msc'.buf, msc'.xferred_len)
           /\ Active => Len(host.sent) = msc'.xferred_len + size',
         msc'.cbw.op = "read" /\ Active =>
           Len(host.got) = msc'.xferred_len /\ moved' = host.got
  PROVE  UsbInv'
<1>1. BlockSize \in Nat
  BY UsbAssumption
<1>2. Types'
  <2>1. size' \in 0 .. BlockSize
    BY <1>1
  <2> QED
    BY <2>1 DEF UsbInv, Types
<1>3. Card'
  BY DEF UsbInv, Card, Types, Locked
<1>4. Device'
  BY DEF Device, InCallback
<1>5. Events'
  <2>1. Len(queue) \in Nat /\ \A i \in 1 .. Len(queue) : queue[i].ev # "clear"
    <3>1. Len(queue) \in Nat /\ \A i \in 1 .. Len(queue) : i = 1 \/ i \in 2 .. Len(queue)
      BY LenProperties DEF UsbInv, Types
    <3> QED
      BY <3>1
  <2>2. EventOrder' /\ ClearsOnce' /\ ClearsHalted'
    BY <2>1 DEF UsbInv, Events, EventOrder, ClearsOnce, ClearsHalted
  <2>3. msc' # Cleared
    BY DEF Cleared
  <2>4. 1 \in 1 .. Len(queue)
    BY <2>1, EmptySeq DEF UsbInv, Types
  <2>5. Enumerating'
    BY <2>3, <2>4 DEF UsbInv, Events, Enumerating
  <2> QED
    BY <2>2, <2>5 DEF Events, Completion
<1>6. InStep'
  BY DEF InStep, Active
<1>7. ~Done' /\ Arrived' = size' /\ Gone' = 0 /\ ~InBuffer'
  BY DEF Done, Arrived, Gone, InBuffer
<1>8. HostRun(host.sent, 0)'
  BY DEF UsbInv, Data, HostRun
<1>9. msc'.xferred_len \in Nat
  BY DEF Msc
<1>10. WriteData'
  BY <1>7, <1>9 DEF WriteData, HostRun, Active
<1>11. ReadData'
  <2> SUFFICES ASSUME msc'.cbw.op = "read" /\ Active
               PROVE  Len(host.got) = msc'.xferred_len + Gone'
    BY <1>7 DEF ReadData, Active
  <2>1. Len(host.got) = msc'.xferred_len
    OBVIOUS
  <2>2. msc'.xferred_len + Gone' = msc'.xferred_len
    BY <1>7, <1>9
  <2> QED
    BY <2>1, <2>2
<1> QED
  BY <1>2, <1>3, <1>4, <1>5, <1>6, <1>8, <1>10, <1>11 DEF UsbInv, Data

(* An event of a transfer leaves a command whose block size is lost: the   *)
(* device waits for nothing (TU_VERIFY of proc_read10_cmd and              *)
(* proc_write10_host_data).                                                *)
LEMMA EventHangs ==
  ASSUME UsbInv, pc = "idle",
         queue # << >>, queue[1].ev = "xfer", queue' = Tail(queue), host.at # "idle",
         UNCHANGED <<pc, size, ret, disk, host, shell, sd2_ready, sd2_io_mutex>>,
         moved' \in Seq(Cell),
         msc' \in Msc, Len(msc'.buf) <= BlockSize, Lost(msc'), Lengths(msc'),
         msc'.status # "PASSED" => msc'.sense # "none",
         \A i \in 2 .. Len(queue) : queue[i].ev # "clear",
         Active => msc'.cbw = host.cmd,
         msc'.cbw.op = "write" => HostRun(moved', 0) /\ Len(moved') = msc'.xferred_len,
         msc'.cbw.op = "read" /\ Active =>
           Len(host.got) = msc'.xferred_len /\ moved' = host.got
  PROVE  UsbInv'
<1>1. /\ msc'.stage = "DATA" /\ ~InFlight(msc'.ep.in) /\ ~InFlight(msc'.ep.out)
  BY DEF Lost, Free, InFlight
<1>2. /\ queue' \in Seq(EventType) /\ Events'
      /\ ~HeadIs("xfer", "in")' /\ ~HeadIs("xfer", "out")'
  BY <1>1, AfterEvent DEF UsbInv
<1>3. Types'
  BY <1>2 DEF UsbInv, Types
<1>4. Card'
  BY DEF UsbInv, Card, Locked
<1>5. Device'
  BY DEF Device
<1>6. InStep'
  BY <1>1, <1>2 DEF InStep, Active
<1>7. HostRun(host.sent, 0)'
  BY DEF UsbInv, Data, HostRun
<1>8. ~Done' /\ Arrived' = 0 /\ Gone' = 0 /\ ~InBuffer' /\ pc' = "idle"
  BY <1>2 DEF Done, Arrived, Gone, InBuffer
<1>9. msc'.xferred_len \in Nat
  BY DEF Msc
<1>10. WriteData'
  BY <1>2, <1>8, <1>9 DEF WriteData, HostRun, Active
<1>11. ReadData'
  <2> SUFFICES ASSUME msc'.cbw.op = "read" /\ Active
               PROVE  Len(host.got) = msc'.xferred_len + Gone'
    BY <1>8 DEF ReadData, Active
  <2>1. msc'.xferred_len + Gone' = msc'.xferred_len
    BY <1>8, <1>9
  <2> QED
    BY <2>1
<1> QED
  BY <1>3, <1>4, <1>5, <1>2, <1>6, <1>7, <1>10, <1>11 DEF UsbInv, Data
-----------------------------------------------------------------------------
(* A transfer at the head of the queue has completed on an endpoint the    *)
(* device waits on.                                                        *)
LEMMA AtHead ==
  ASSUME UsbInv, NEW d \in {"in", "out"}, NextEvent("xfer", d)
  PROVE  /\ pc = "idle" /\ queue # << >> /\ HeadIs("xfer", d)
         /\ Head(queue) = queue[1] /\ queue[1] \in EventType
         /\ InFlight(msc.ep[d]) /\ msc.ep[d].kind = "none"
         /\ Waiting(msc)
<1>1. queue # << >> /\ Head(queue) = queue[1] /\ queue[1] \in EventType
  BY TailIs DEF UsbInv, Types, NextEvent
<1>2. pc = "idle" /\ HeadIs("xfer", d)
  BY <1>1 DEF NextEvent, HeadIs
<1>3. InFlight(msc.ep[d]) /\ msc.ep[d].kind = "none"
  BY <1>2 DEF UsbInv, Events, Completion
<1>4. msc # Cleared /\ ~Lost(msc)
  BY <1>3 DEF Cleared, NoTransfer, InFlight, Lost, Free
<1> QED
  BY <1>1, <1>2, <1>3, <1>4 DEF UsbInv, Device

(* No halt is being cleared while no endpoint is halted.                   *)
LEMMA NoClear ==
  ASSUME UsbInv, ~Halted(msc.ep.in), ~Halted(msc.ep.out)
  PROVE  \A i \in 1 .. Len(queue) : queue[i].ev # "clear"
BY DEF UsbInv, Events, ClearsHalted, EventOrder

(* The next packet is not empty and fits (proc_read10_cmd,                 *)
(* proc_write10_cmd).                                                      *)
LEMMA ChunkIs ==
  ASSUME NEW m \in Msc, m.xferred_len < m.cbw.total
  PROVE  Chunk(m) \in 1 .. BlockSize /\ Chunk(m) <= Left(m)
BY CommandTypes, UsbAssumption DEF Chunk, Least, Left, Msc

(* An ended command leaves the device waiting on the host.                 *)
LEMMA EndedWaits ==
  ASSUME NEW m \in Msc, NEW r, Ended(m, r)
  PROVE  /\ Waiting(r) /\ r.stage \in {"STATUS", "STATUS_SENT"}
         /\ InFlight(r.ep.in) => r.ep.in.kind # "none"
         /\ InFlight(r.ep.out) => r.ep.out.kind # "none"
BY DEF Ended, Waiting, Silent, Reporting, Free, Halted, InFlight, Left, Kept

(* The packet or command of the host frees the OUT endpoint.               *)
LEMMA CompletedOut ==
  ASSUME UsbInv, InFlight(msc.ep.out), msc.ep.out.kind = "none"
  PROVE  LET m == Completed("out")
         IN  /\ m \in Msc /\ Kept(msc, m) /\ m.stage = msc.stage /\ m.status = msc.status
             /\ m.residue = msc.residue /\ m.sense = msc.sense /\ m.buf = msc.buf
             /\ m.ep.in = msc.ep.in /\ Free(m.ep.out)
BY DEF UsbInv, Types, Completed, Msc, Endpoint, InFlight, Free, Kept

(* What the host took frees the IN endpoint.                               *)
LEMMA CompletedIn ==
  ASSUME UsbInv, InFlight(msc.ep.in), msc.ep.in.kind = "none"
  PROVE  LET m == Completed("in")
         IN  /\ m \in Msc /\ Kept(msc, m) /\ m.stage = msc.stage /\ m.status = msc.status
             /\ m.residue = msc.residue /\ m.sense = msc.sense /\ m.buf = msc.buf
             /\ m.ep.out = msc.ep.out /\ Free(m.ep.in)
BY DEF UsbInv, Types, Completed, Msc, Endpoint, InFlight, Free, Kept

(* The device that has received the command c.                             *)
Began(c, m) ==
  /\ m \in Msc /\ Len(m.buf) <= BlockSize /\ m.stage = "DATA"
  /\ m.cbw = c /\ m.status = "PASSED"
  /\ m.total_len = c.total /\ m.xferred_len = 0
  /\ Free(m.ep.in) /\ Free(m.ep.out)

(* Only the STATUS stage is looked at after an event.                      *)
LEMMA StageKept ==
  ASSUME NEW m, m.stage # "STATUS"
  PROVE  StageStatus(m) = m
BY DEF StageStatus

(* Every built-in or rejected command sends, takes or ends                 *)
(* (proc_builtin_scsi, mscd_xfer_cb).                                      *)
LEMMA BuiltInEnds ==
  ASSUME NEW c \in Commands, NEW m, Began(c, m), c.op \notin {"read", "write"}
  PROVE  LET r == StageStatus(BuiltIn(m))
         IN  /\ r \in Msc /\ Len(r.buf) <= BlockSize /\ r.cbw = c
             /\ Waiting(r) /\ r.stage # "CMD" /\ Lengths(r)
             /\ r.status # "PASSED" => r.sense # "none"
             /\ InFlight(r.ep.in) => r.ep.in.kind # "none"
             /\ InFlight(r.ep.out) => r.ep.out.kind # "none"
<1>1. /\ c.op \in {"ready", "capacity", "sense", "other"}
      /\ c.dir \in {"in", "out"} /\ c.total \in Nat /\ BlockSize \in Nat /\ BlockSize >= 1
  BY UsbAssumption
<1>2. m \in Msc /\ Len(m.buf) <= BlockSize /\ Len(m.buf) \in Nat /\ m.cbw = c
      /\ Free(m.ep.in) /\ Free(m.ep.out) /\ m.xferred_len = 0 /\ m.xferred_len <= m.cbw.total
      /\ m.total_len = c.total /\ m.stage = "DATA"
  BY <1>1 DEF Began, Msc
<1> DEFINE Good(r) == /\ r \in Msc /\ Len(r.buf) <= BlockSize /\ r.cbw = c
                      /\ Waiting(r) /\ r.stage # "CMD" /\ Lengths(r)
                      /\ r.status # "PASSED" => r.sense # "none"
                      /\ InFlight(r.ep.in) => r.ep.in.kind # "none"
                      /\ InFlight(r.ep.out) => r.ep.out.kind # "none"
<1> SUFFICES Good(StageStatus(BuiltIn(m)))
  OBVIOUS
<1>3. ASSUME NEW x \in Msc, NEW r, Ended(x, r), x.cbw = c, Len(x.buf) <= BlockSize,
             x.xferred_len <= x.total_len, x.total_len <= c.total,
             r.status # "PASSED" => r.sense # "none"
      PROVE  Good(r)
  <2>1. Len(r.buf) <= BlockSize
    BY <1>1, <1>3, LenProperties DEF Ended, Msc
  <2>2. r.cbw = c /\ r.xferred_len = x.xferred_len /\ r.total_len = x.total_len /\ r \in Msc
    BY <1>3 DEF Ended, Kept
  <2>3. Lengths(r)
    BY <1>1, <1>3, <2>2 DEF Lengths
  <2> QED
    BY <1>3, <2>1, <2>2, <2>3, EndedWaits
<1>4. ASSUME NEW x \in Msc, x.cbw = c, Free(x.ep.in), Free(x.ep.out), x.buf = m.buf,
             x.xferred_len = 0, x.total_len = c.total
      PROVE  Good(StageStatus(FailOp(x, "FAILED")))
  <2>1. 0 <= x.cbw.total
    BY <1>1, <1>4
  <2> QED
    BY <1>1, <1>2, <1>4, <1>3, <2>1, FailEnds
<1>5. ASSUME NEW s \in {"none", "illegal", "notready"}
      PROVE  LET x == [m EXCEPT !.sense = s]
             IN  /\ x \in Msc /\ x.cbw = c /\ Free(x.ep.in) /\ Free(x.ep.out)
                 /\ x.buf = m.buf /\ x.xferred_len = 0 /\ x.total_len = c.total
                 /\ x.stage = "DATA" /\ x.status = m.status
  BY <1>2 DEF Msc
<1>6. ASSUME NEW s \in {"none", "illegal", "notready"}
       PROVE  Good(StageStatus(FailOp([m EXCEPT !.sense = s], "FAILED")))
  <2> DEFINE x == [m EXCEPT !.sense = s]
  <2>1. /\ x \in Msc /\ x.cbw = c /\ Free(x.ep.in) /\ Free(x.ep.out)
        /\ x.buf = m.buf /\ x.xferred_len = 0 /\ x.total_len = c.total
    BY <1>5
  <2> HIDE DEF x, Good
  <2>2. Good(StageStatus(FailOp(x, "FAILED")))
    BY <1>4, <2>1
  <2> QED
    BY <2>2 DEF x
<1>7. CASE c.total > 0 /\ c.dir = "out" /\ c.total > BlockSize
  BY <1>2, <1>4, <1>7 DEF BuiltIn
<1>8. CASE c.total > 0 /\ c.dir = "out" /\ ~(c.total > BlockSize)
  <2> DEFINE r == Xfer(m, "out", "data", c.total)
  <2>1. BuiltIn(m) = r
    BY <1>2, <1>8 DEF BuiltIn
  <2>2. /\ r \in Msc /\ Kept(m, r) /\ r.stage = m.stage /\ r.status = m.status
        /\ r.sense = m.sense /\ r.buf = m.buf
        /\ r.ep.in = m.ep.in
        /\ InFlight(r.ep.out) /\ r.ep.out.kind = "data" /\ r.ep.out.len = c.total
    BY <1>1, <1>2, XferOut
  <2> HIDE DEF r
  <2>3. StageStatus(r) = r
    BY <1>2, <2>2, StageKept
  <2>4. Taking(r) /\ Lengths(r)
    BY <1>1, <1>2, <1>8, <2>2 DEF Taking, Left, Kept, Lengths
  <2> QED
    BY <1>2, <2>1, <2>2, <2>3, <2>4 DEF Waiting, Kept, Free, InFlight, Began
<1>9. ASSUME NEW x \in Msc, x.cbw = c, Free(x.ep.in), Free(x.ep.out), x.buf = m.buf,
             x.xferred_len = 0, x.total_len = c.total, x.stage = "DATA",
             ~(c.total > 0 /\ c.dir = "out"), x.status = "PASSED"
      PROVE  Good(StageStatus(Answer(x, 1)))
  <2>1. CASE c.total = 0
    BY <1>4, <1>9, <2>1 DEF Answer
  <2>2. CASE c.total # 0
    <3> DEFINE y == [x EXCEPT !.total_len = 1, !.buf = <<Blank>>]
               r == Xfer(y, "in", "data", 1)
    <3>1. Least(1, c.total) = 1
      BY <1>1, <2>2 DEF Least
    <3>2. <<Blank>> \in Seq(Cell) /\ Len(<<Blank>>) = 1
      BY DEF Blank, Cell
    <3>3. ASSUME NEW b \in Seq(Cell)
          PROVE  LET z == [x EXCEPT !.total_len = 1, !.buf = b]
                 IN  /\ z \in Msc /\ z.cbw = c /\ Free(z.ep.in) /\ Free(z.ep.out)
                     /\ z.buf = b /\ z.xferred_len = 0 /\ z.total_len = 1
                     /\ z.stage = "DATA" /\ z.status = "PASSED"
      BY <1>9 DEF Msc
    <3>4. /\ y \in Msc /\ y.cbw = c /\ Free(y.ep.in) /\ Free(y.ep.out)
          /\ y.buf = <<Blank>> /\ y.xferred_len = 0 /\ y.total_len = 1
          /\ y.stage = "DATA" /\ y.status = "PASSED"
      BY <3>2, <3>3
    <3>5. Answer(x, 1) = r
      BY <1>9, <2>2, <3>1 DEF Answer
    <3> HIDE DEF y
    <3>6. /\ r \in Msc /\ Kept(y, r) /\ r.stage = y.stage /\ r.status = y.status
          /\ r.sense = y.sense /\ r.buf = y.buf /\ r.ep.out = y.ep.out
          /\ InFlight(r.ep.in) /\ r.ep.in.kind = "data" /\ r.ep.in.len = 1
      BY <3>4, XferIn
    <3> HIDE DEF r
    <3>7. StageStatus(r) = r
      BY <3>4, <3>6, StageKept
    <3>8. Len(r.buf) = 1 /\ Lengths(r)
      BY <1>1, <2>2, <3>2, <3>4, <3>6 DEF Kept, Lengths
    <3>9. Sending(r)
      BY <1>1, <3>4, <3>6, <3>8 DEF Sending, Kept
    <3> QED
      BY <1>1, <3>4, <3>5, <3>6, <3>7, <3>8, <3>9 DEF Waiting, Kept, Free, InFlight
  <2> QED
    BY <2>1, <2>2
<1>10. Good(StageStatus(NoAnswer(m)))
  <2>1. CASE c.total > 0
    BY <1>2, <1>4, <2>1 DEF NoAnswer
  <2>2. CASE ~(c.total > 0)
    <3>1. NoAnswer(m) = [m EXCEPT !.stage = "STATUS"]
      BY <1>2, <2>2 DEF NoAnswer
    <3> QED
      BY <1>1, <1>2, <1>3, <3>1, PassEnds DEF Began
  <2> QED
    BY <2>1, <2>2
<1>11. CASE ~(c.total > 0 /\ c.dir = "out")
  <2> HIDE DEF Good
  <2>1. CASE c.op = "ready"
    <3>1. StageStatus(BuiltIn(m)) = IF sd2_ready THEN StageStatus(NoAnswer(m))
                       ELSE StageStatus(FailOp([m EXCEPT !.sense = "notready"], "FAILED"))
      BY <1>2, <1>11, <2>1 DEF BuiltIn
    <3> QED
      BY <1>10, <1>6, <3>1
  <2>2. CASE c.op = "capacity"
    <3> DEFINE s == IF m.sense = "none" THEN "notready" ELSE m.sense
    <3>1. StageStatus(BuiltIn(m)) = IF sd2_ready THEN StageStatus(Answer(m, 1))
                       ELSE StageStatus(FailOp([m EXCEPT !.sense = s], "FAILED"))
      BY <1>2, <1>11, <2>2 DEF BuiltIn
    <3>2. s \in {"none", "illegal", "notready"}
      BY <1>2 DEF Msc
    <3> QED
      <4>1. Good(StageStatus(Answer(m, 1)))
        BY <1>2, <1>9, <1>11 DEF Began
      <4>2. Good(StageStatus(FailOp([m EXCEPT !.sense = s], "FAILED")))
        BY <1>6, <3>2
      <4> QED
        BY <3>1, <4>1, <4>2
  <2>3. CASE c.op = "sense"
    <3> DEFINE x == [m EXCEPT !.sense = "none"]
    <3>1. BuiltIn(m) = Answer(x, 1)
      BY <1>2, <1>11, <2>3 DEF BuiltIn
    <3>2. /\ x \in Msc /\ x.cbw = c /\ Free(x.ep.in) /\ Free(x.ep.out)
          /\ x.buf = m.buf /\ x.xferred_len = 0 /\ x.total_len = c.total
          /\ x.stage = "DATA" /\ x.status = "PASSED"
      BY <1>5 DEF Began
    <3> HIDE DEF x
    <3> QED
      BY <1>9, <1>11, <3>1, <3>2
  <2>4. CASE c.op = "other"
    <3> DEFINE s == IF m.sense = "none" THEN "illegal" ELSE m.sense
    <3>1. BuiltIn(m) = FailOp([m EXCEPT !.sense = s], "FAILED")
      BY <1>2, <1>11, <2>4 DEF BuiltIn, Unsupported
    <3>2. s \in {"none", "illegal", "notready"}
      BY <1>2 DEF Msc
    <3> QED
      BY <1>6, <3>1, <3>2
  <2> QED
    BY <1>1, <2>1, <2>2, <2>3, <2>4
<1> HIDE DEF Good
<1> QED
  BY <1>7, <1>8, <1>11

(* What rdwr10_validate_cmd lets through.                                  *)
LEMMA ValidIs ==
  ASSUME NEW c \in Commands, c.op \in {"read", "write"}, Validate(c) = "PASSED", c.total > 0
  PROVE  /\ Valid(c) /\ c.count \in Nat \ {0} /\ c.total \div c.count \in Nat \ {0}
         /\ c.dir = IF c.op = "read" THEN "in" ELSE "out"
<1>1. c.total \in Nat /\ c.count \in Nat
  BY UsbAssumption
<1>2. /\ ~(c.dir # (IF c.op = "read" THEN "in" ELSE "out"))
      /\ c.count # 0 /\ c.total \div c.count # 0
  BY <1>1 DEF Validate
<1>3. c.total \div c.count \in Nat
  BY <1>1, <1>2
<1> QED
  BY <1>1, <1>2, <1>3 DEF Valid

(* A command received keeps the invariant (mscd_xfer_cb, MSC_STAGE_CMD).   *)
LEMMA CommandReceivedKeeps ==
  ASSUME UsbInv, CommandReceived
  PROVE  UsbInv'
<1> DEFINE c == queue[1].cmd
           m == [Completed("out") EXCEPT
                  !.cbw = c, !.status = "PASSED", !.residue = 0, !.stage = "DATA",
                  !.total_len = c.total, !.xferred_len = 0]
<1>1. /\ NextEvent("xfer", "out") /\ msc.stage = "CMD" /\ Head(queue) = queue[1]
      /\ pc = "idle" /\ queue # << >> /\ HeadIs("xfer", "out")
      /\ InFlight(msc.ep.out) /\ msc.ep.out.kind = "none" /\ Waiting(msc)
  BY AtHead DEF CommandReceived
<1>2. c \in Commands
  BY <1>1 DEF UsbInv, Events, Completion
<1>3. c.op \in {"read", "write", "ready", "capacity", "sense", "other"} /\ c.total \in Nat
      /\ BlockSize \in Nat /\ BlockSize >= 1
  BY <1>2, UsbAssumption
<1>4. Free(msc.ep.in)
  BY <1>1 DEF Waiting, Listening, Deaf, Sending, Taking, Silent, Reporting
<1>5. Began(c, m)
  <2> DEFINE o == Completed("out")
  <2>1. o \in Msc /\ o.buf = msc.buf /\ Free(o.ep.in) /\ Free(o.ep.out)
    BY <1>1, <1>4, CompletedOut
  <2> HIDE DEF o
  <2>2. LET x == [o EXCEPT !.cbw = c, !.status = "PASSED", !.residue = 0, !.stage = "DATA",
                  !.total_len = c.total, !.xferred_len = 0]
        IN  /\ x \in Msc /\ x.buf = o.buf /\ x.stage = "DATA" /\ x.cbw = c
            /\ x.status = "PASSED" /\ x.total_len = c.total /\ x.xferred_len = 0
            /\ x.ep = o.ep
    BY <1>2, <1>3, <2>1 DEF Msc
  <2> QED
    BY <2>1, <2>2 DEF Began, o, UsbInv, Types
<1> HIDE DEF m
<1>6. /\ m \in Msc /\ Len(m.buf) <= BlockSize /\ Len(m.buf) \in Nat /\ m.cbw = c /\ m.stage = "DATA"
      /\ m.status = "PASSED" /\ m.total_len = c.total /\ m.xferred_len = 0
      /\ Free(m.ep.in) /\ Free(m.ep.out) /\ m.xferred_len <= m.cbw.total
  BY <1>3, <1>5, LenProperties DEF Began, Msc
<1>7. \A i \in 2 .. Len(queue) : queue[i].ev # "clear"
  <2>1. \A i \in 1 .. Len(queue) : queue[i].ev # "clear"
    BY <1>1, <1>4, NoClear DEF Free, InFlight, Halted
  <2> QED
    BY <2>1
<1>8. host.at # "idle" /\ (Active => c = host.cmd /\ host.sent = << >> /\ host.got = << >>)
  BY <1>1 DEF UsbInv, InStep, Active
<1>9. /\ UNCHANGED <<sd2_ready, sd2_io_mutex, disk, host, shell>>
      /\ moved' = << >> /\ moved' \in Seq(Cell) /\ Len(moved') = 0
  BY EmptySeq DEF CommandReceived
<1>10. ~Locked /\ ret = "OK" /\ size \in 0 .. BlockSize
  BY <1>1 DEF UsbInv, Card, Locked, Types
<1>11. HostRun(<< >>, 0) /\ Len(<< >>) = 0
  BY DEF HostRun
<1>12. ASSUME msc' = StageStatus(BuiltIn(m)), c.op \notin {"read", "write"},
              queue' = Tail(queue), UNCHANGED <<pc, size, ret>>
       PROVE  UsbInv'
  <2>1. /\ msc' \in Msc /\ Len(msc'.buf) <= BlockSize /\ msc'.cbw = c
        /\ Waiting(msc') /\ msc'.stage # "CMD" /\ Lengths(msc')
        /\ msc'.status # "PASSED" => msc'.sense # "none"
        /\ InFlight(msc'.ep.in) => msc'.ep.in.kind # "none"
        /\ InFlight(msc'.ep.out) => msc'.ep.out.kind # "none"
    BY <1>2, <1>5, <1>12, BuiltInEnds
  <2> QED
    BY <1>1, <1>7, <1>8, <1>9, <1>10, <1>12, <2>1, EventEnds DEF HeadIs
<1>13. ASSUME c.op \in {"read", "write"}, Ended(m, msc'), queue' = Tail(queue),
              UNCHANGED <<pc, size, ret>>,
              msc'.status # "PASSED" => msc'.sense # "none",
              msc'.status = "PASSED" => c.total = 0
       PROVE  UsbInv'
  <2>1. /\ msc' \in Msc /\ Len(msc'.buf) <= BlockSize /\ msc'.cbw = c
        /\ msc'.xferred_len = 0 /\ msc'.total_len = c.total
    BY <1>3, <1>6, <1>13, LenProperties DEF Ended, Kept, Msc
  <2>2. Lengths(msc') /\ msc'.stage \in {"STATUS", "STATUS_SENT"}
    BY <1>3, <1>6, <1>13, <2>1, EndedWaits DEF Lengths, Left
  <2> QED
    BY <1>1, <1>6, <1>7, <1>8, <1>9, <1>10, <1>11, <1>13, <2>1, <2>2, EndedWaits, EventEnds DEF HeadIs
<1>14. ASSUME c.op = "write", Validate(c) = "PASSED", c.total > 0,
              msc' = StageStatus(Xfer(m, "out", "data", Chunk(m))), queue' = Tail(queue),
              UNCHANGED <<pc, size, ret>>
       PROVE  UsbInv'
  <2> DEFINE r == Xfer(m, "out", "data", Chunk(m))
  <2>1. Chunk(m) \in 1 .. BlockSize /\ Chunk(m) <= Left(m)
    BY <1>3, <1>6, <1>14, ChunkIs
  <2>2. /\ r \in Msc /\ Kept(m, r) /\ r.stage = m.stage /\ r.status = m.status
        /\ r.sense = m.sense /\ r.buf = m.buf /\ r.ep.in = m.ep.in
        /\ InFlight(r.ep.out) /\ r.ep.out.kind = "data" /\ r.ep.out.len = Chunk(m)
    BY <1>6, <2>1, XferOut
  <2> HIDE DEF r
  <2>3. msc' = r
    BY <1>6, <1>14, <2>2, StageKept DEF r
  <2>4. Taking(r)
    BY <1>6, <1>14, <2>1, <2>2 DEF Taking, Left, Kept
  <2>5. Lengths(r)
    BY <1>2, <1>3, <1>6, <1>14, <2>2, ValidIs DEF Lengths, Kept
  <2> QED
    BY <1>1, <1>3, <1>6, <1>7, <1>8, <1>9, <1>10, <1>11, <1>14, <2>2, <2>3, <2>4, <2>5, EventEnds
       DEF HeadIs, Waiting, Kept, Free, InFlight
<1>15. ASSUME c.op = "read", Validate(c) = "PASSED", c.total > 0, CallStorage(m, Chunk(m))
       PROVE  UsbInv'
  <2>1. Chunk(m) \in 1 .. BlockSize /\ Chunk(m) <= Left(m)
    BY <1>3, <1>6, <1>15, ChunkIs
  <2>2. Lengths(m)
    BY <1>2, <1>3, <1>6, <1>15, ValidIs DEF Lengths
  <2>3. CASE block_sz(m) # 0
    <3>1. msc' = m /\ pc' = "call" /\ size' = Chunk(m) /\ UNCHANGED <<queue, ret>>
      BY <1>15, <2>3 DEF CallStorage
    <3> QED
      BY <1>1, <1>3, <1>6, <1>7, <1>8, <1>9, <1>10, <1>11, <1>15, <2>1, <2>2, <2>3, <3>1, EventCalls
         DEF HeadIs
  <2>4. CASE block_sz(m) = 0
    <3>1. msc' = m /\ queue' = Tail(queue) /\ UNCHANGED <<pc, size, ret>>
      BY <1>6, <1>15, <2>4, StageKept DEF CallStorage, Handled
    <3>2. Lost(m)
      BY <1>6, <1>15, <2>4 DEF Lost
    <3> QED
      BY <1>1, <1>3, <1>6, <1>7, <1>8, <1>9, <1>10, <1>11, <1>15, <2>2, <3>1, <3>2, EventHangs
         DEF HeadIs
  <2> QED
    BY <2>3, <2>4
<1>16. \/ c.op \notin {"read", "write"} /\ Handled(BuiltIn(m)) /\ UNCHANGED <<pc, size, ret>>
       \/ c.op \in {"read", "write"} /\ Validate(c) # "PASSED"
          /\ Handled(FailOp(m, Validate(c))) /\ UNCHANGED <<pc, size, ret>>
       \/ c.op \in {"read", "write"} /\ Validate(c) = "PASSED" /\ c.total = 0
          /\ Handled([m EXCEPT !.stage = "STATUS"]) /\ UNCHANGED <<pc, size, ret>>
       \/ Validate(c) = "PASSED" /\ c.total > 0 /\ c.op = "write"
          /\ Handled(Xfer(m, "out", "data", Chunk(m))) /\ UNCHANGED <<pc, size, ret>>
       \/ Validate(c) = "PASSED" /\ c.total > 0 /\ c.op = "read"
          /\ CallStorage(m, Chunk(m))
  BY <1>1, Zenon DEF CommandReceived, m
<1>17. CASE c.op \notin {"read", "write"} /\ Handled(BuiltIn(m)) /\ UNCHANGED <<pc, size, ret>>
  BY <1>12, <1>17 DEF Handled
<1>18. CASE c.op \in {"read", "write"} /\ Validate(c) # "PASSED"
            /\ Handled(FailOp(m, Validate(c))) /\ UNCHANGED <<pc, size, ret>>
  <2>1. Validate(c) \in {"FAILED", "PHASE_ERROR"}
    BY <1>18 DEF Validate
  <2>2. Ended(m, msc') /\ msc'.status = Validate(c) /\ msc'.sense # "none"
    BY <1>6, <1>18, <2>1, FailEnds DEF Handled
  <2> QED
    BY <1>13, <1>18, <2>1, <2>2 DEF Handled
<1>19. CASE c.op \in {"read", "write"} /\ Validate(c) = "PASSED" /\ c.total = 0
            /\ Handled([m EXCEPT !.stage = "STATUS"]) /\ UNCHANGED <<pc, size, ret>>
  <2>1. Ended(m, msc') /\ msc'.status = "PASSED"
    BY <1>6, <1>19, PassEnds DEF Handled
  <2> QED
    BY <1>13, <1>19, <2>1 DEF Handled
<1>20. CASE Validate(c) = "PASSED" /\ c.total > 0 /\ c.op = "write"
            /\ Handled(Xfer(m, "out", "data", Chunk(m))) /\ UNCHANGED <<pc, size, ret>>
  BY <1>14, <1>20 DEF Handled
<1>21. CASE Validate(c) = "PASSED" /\ c.total > 0 /\ c.op = "read"
            /\ CallStorage(m, Chunk(m))
  BY <1>15, <1>21
<1> QED
  BY <1>17, <1>18, <1>19, <1>20, <1>21, <1>16

(* A packet of the host keeps it (MSC_STAGE_DATA, OUT).                    *)
LEMMA DataReceivedKeeps ==
  ASSUME UsbInv, DataReceived
  PROVE  UsbInv'
<1> DEFINE n == queue[1].n
           m == Completed("out")
<1>1. /\ NextEvent("xfer", "out") /\ msc.stage = "DATA" /\ Head(queue) = queue[1]
      /\ pc = "idle" /\ queue # << >> /\ HeadIs("xfer", "out")
      /\ InFlight(msc.ep.out) /\ msc.ep.out.kind = "none" /\ Waiting(msc)
  BY AtHead DEF DataReceived
<1>2. Taking(msc)
  BY <1>1 DEF Waiting, Listening, Deaf, Sending, Taking, Silent, Reporting, InFlight, Free
<1>3. n \in 1 .. msc.ep.out.len
  BY <1>1 DEF UsbInv, Events, Completion
<1>4. /\ m \in Msc /\ Kept(msc, m) /\ m.stage = "DATA" /\ m.status = msc.status
      /\ m.sense = msc.sense /\ m.buf = msc.buf /\ Free(m.ep.in) /\ Free(m.ep.out)
  BY <1>1, <1>2, CompletedOut DEF Taking
<1>5. /\ Lengths(msc) /\ (msc.status # "PASSED" => msc.sense # "none")
      /\ msc \in Msc /\ Len(msc.buf) <= BlockSize /\ size \in 0 .. BlockSize /\ moved \in Seq(Cell)
  BY <1>1 DEF UsbInv, Device, Types
<1>6. /\ msc.xferred_len \in Nat /\ msc.total_len \in Nat /\ msc.cbw.total \in Nat
      /\ BlockSize \in Nat /\ msc.ep.out.len \in Nat /\ n \in Nat /\ n >= 1
      /\ n <= BlockSize /\ msc.xferred_len + n <= msc.total_len /\ msc.total_len <= msc.cbw.total
  <2>1. msc.xferred_len \in Nat /\ msc.total_len \in Nat /\ msc.cbw.total \in Nat
        /\ BlockSize \in Nat /\ msc.ep.out.len \in Nat
    BY <1>5, CommandTypes, UsbAssumption DEF Msc, Endpoint
  <2> QED
    BY <1>2, <1>3, <1>5, <2>1 DEF Taking, Lengths
<1>7. \A i \in 2 .. Len(queue) : queue[i].ev # "clear"
  <2>1. \A i \in 1 .. Len(queue) : queue[i].ev # "clear"
    BY <1>2, NoClear DEF Taking, Free, InFlight, Halted
  <2> QED
    BY <2>1
<1>8. host.at # "idle" /\ (Active => msc.cbw = host.cmd)
  BY <1>1 DEF UsbInv, InStep, Active
<1>9. UNCHANGED <<sd2_ready, sd2_io_mutex, disk, host, shell, moved>>
  BY DEF DataReceived
<1>10. ~Locked /\ ret = "OK"
  BY <1>1 DEF UsbInv, Card, Locked
<1> HIDE DEF m
<1>11. CASE msc.cbw.op = "write"
  <2>1. CallStorage(m, n) /\ m.cbw.op = "write"
    BY <1>1, <1>4, <1>11 DEF DataReceived, m, Kept
  <2>2. ~Done /\ Arrived = n
    BY <1>1 DEF Done, Arrived
  <2>3. /\ HostRun(moved, 0) /\ Len(moved) = msc.xferred_len
        /\ Len(msc.buf) = n /\ HostRun(msc.buf, msc.xferred_len)
        /\ Active => Len(host.sent) = msc.xferred_len + n
    <3>1. WriteData /\ msc.stage # "CMD"
      BY <1>1 DEF UsbInv, Data
    <3>2. Len(moved) = msc.xferred_len + 0
      BY <1>11, <2>2, <3>1 DEF WriteData
    <3>3. ~Lost(msc)
      BY <1>1, NotLost
    <3> QED
      BY <1>1, <1>6, <1>11, <2>2, <3>1, <3>2, <3>3 DEF WriteData, Active
  <2>4. Lengths(m)
    BY <1>1, <1>4, <1>5 DEF Lengths, Kept
  <2>5. n <= Left(m) /\ n \in 1 .. BlockSize
    BY <1>4, <1>6 DEF Left, Kept
  <2>6. CASE block_sz(m) # 0
    <3>1. msc' = m /\ pc' = "call" /\ size' = n /\ UNCHANGED <<queue, ret>>
      BY <2>1, <2>6 DEF CallStorage
    <3> QED
      BY <1>1, <1>4, <1>5, <1>7, <1>8, <1>9, <1>11, <2>3, <2>4, <2>5, <2>6, <3>1, EventCalls
         DEF HeadIs, Kept
  <2>7. CASE block_sz(m) = 0
    <3>1. msc' = m /\ queue' = Tail(queue) /\ UNCHANGED <<pc, size, ret>>
      BY <1>4, <2>1, <2>7, StageKept DEF CallStorage, Handled
    <3>2. Lost(m)
      BY <1>4, <2>1, <2>7 DEF Lost
    <3> QED
      BY <1>1, <1>4, <1>5, <1>7, <1>8, <1>9, <1>11, <2>3, <2>4, <3>1, <3>2, EventHangs
         DEF HeadIs, Kept
  <2> QED
    BY <2>6, <2>7
<1>12. CASE msc.cbw.op # "write"
  <2> DEFINE x == [m EXCEPT !.xferred_len = @ + n, !.sense = "illegal"]
  <2>1. /\ x \in Msc /\ x.cbw = msc.cbw /\ x.total_len = msc.total_len
        /\ x.xferred_len = msc.xferred_len + n /\ x.buf = msc.buf
        /\ Free(x.ep.in) /\ Free(x.ep.out)
    <3>1. m.xferred_len + n \in Nat /\ m.xferred_len = msc.xferred_len
      BY <1>4, <1>6 DEF Kept
    <3>2. x.xferred_len = m.xferred_len + n /\ x \in Msc /\ x.cbw = m.cbw
          /\ x.total_len = m.total_len /\ x.buf = m.buf /\ x.ep = m.ep
      BY <1>4, <3>1 DEF Msc
    <3> HIDE DEF x
    <3> QED
      BY <1>4, <3>1, <3>2 DEF Kept
  <2>2. msc' = StageStatus(FailOp(x, "FAILED")) /\ queue' = Tail(queue)
        /\ UNCHANGED <<pc, size, ret>>
    BY <1>1, <1>4, <1>12 DEF DataReceived, Handled, m, Kept
  <2> HIDE DEF x
  <2>3. x.xferred_len <= x.cbw.total /\ x.xferred_len <= x.total_len /\ x.total_len <= x.cbw.total
    BY <1>6, <2>1
  <2>4. Ended(x, msc') /\ msc'.status = "FAILED" /\ msc'.sense # "none"
    BY <2>1, <2>2, <2>3, FailEnds
  <2>5. /\ msc' \in Msc /\ Len(msc'.buf) <= BlockSize /\ msc'.cbw = msc.cbw
        /\ msc'.xferred_len = x.xferred_len /\ msc'.total_len = x.total_len
    BY <1>5, <1>6, <2>1, <2>4, LenProperties DEF Ended, Kept, Msc
  <2>6. Waiting(msc') /\ msc'.stage \in {"STATUS", "STATUS_SENT"}
    BY <2>1, <2>4, EndedWaits
  <2>7. msc.cbw.op \notin {"read", "write"}
    BY <1>2, <1>12 DEF Taking
  <2>8. Lengths(msc')
    BY <2>1, <2>3, <2>5, <2>6, <2>7 DEF Lengths
  <2> QED
    BY <1>1, <1>5, <1>7, <1>8, <1>9, <1>10, <2>1, <2>2, <2>4, <2>5, <2>6, <2>7, <2>8, EndedWaits, EventEnds
       DEF HeadIs
<1> QED
  BY <1>11, <1>12

(* A packet the host took keeps it (MSC_STAGE_DATA, IN).                   *)
LEMMA DataSentKeeps ==
  ASSUME UsbInv, DataSent
  PROVE  UsbInv'
<1> DEFINE n == queue[1].n
           o == Completed("in")
           m == [o EXCEPT !.xferred_len = @ + n]
<1>1. /\ NextEvent("xfer", "in") /\ msc.stage = "DATA" /\ Head(queue) = queue[1]
      /\ pc = "idle" /\ queue # << >> /\ HeadIs("xfer", "in")
      /\ InFlight(msc.ep.in) /\ msc.ep.in.kind = "none" /\ Waiting(msc)
  BY AtHead DEF DataSent
<1>2. Sending(msc)
  BY <1>1 DEF Waiting, Listening, Deaf, Sending, Taking, Silent, Reporting, InFlight, Free
<1>3. n = msc.ep.in.len
  BY <1>1 DEF UsbInv, Events, Completion
<1>4. /\ Lengths(msc) /\ (msc.status # "PASSED" => msc.sense # "none")
      /\ msc \in Msc /\ Len(msc.buf) <= BlockSize /\ size \in 0 .. BlockSize /\ moved \in Seq(Cell)
  BY <1>1 DEF UsbInv, Device, Types
<1>5. /\ msc.xferred_len \in Nat /\ msc.total_len \in Nat /\ msc.cbw.total \in Nat
      /\ BlockSize \in Nat /\ n \in Nat
      /\ msc.xferred_len + n <= msc.total_len /\ msc.total_len <= msc.cbw.total
  <2>1. msc.xferred_len \in Nat /\ msc.total_len \in Nat /\ msc.cbw.total \in Nat
        /\ BlockSize \in Nat /\ msc.ep.in.len \in Nat
    BY <1>4, CommandTypes, UsbAssumption DEF Msc, Endpoint
  <2> QED
    BY <1>2, <1>3, <1>4, <2>1 DEF Sending, Lengths
<1>6. /\ m \in Msc /\ m.cbw = msc.cbw /\ m.total_len = msc.total_len /\ m.stage = "DATA"
      /\ m.xferred_len = msc.xferred_len + n /\ m.status = msc.status
      /\ m.sense = msc.sense /\ m.buf = msc.buf /\ Free(m.ep.in) /\ Free(m.ep.out)
  <2>1. /\ o \in Msc /\ Kept(msc, o) /\ o.stage = "DATA" /\ o.status = msc.status
        /\ o.sense = msc.sense /\ o.buf = msc.buf /\ Free(o.ep.in) /\ Free(o.ep.out)
    BY <1>1, <1>2, CompletedIn DEF Sending
  <2> HIDE DEF o
  <2> QED
    BY <1>5, <2>1 DEF Msc, Kept
<1>7. \A i \in 2 .. Len(queue) : queue[i].ev # "clear"
  <2>1. \A i \in 1 .. Len(queue) : queue[i].ev # "clear"
    BY <1>2, NoClear DEF Sending, Free, InFlight, Halted
  <2> QED
    BY <2>1
<1>8. host.at # "idle" /\ (Active => msc.cbw = host.cmd)
  BY <1>1 DEF UsbInv, InStep, Active
<1>9. UNCHANGED <<sd2_ready, sd2_io_mutex, disk, host, shell, moved>>
  BY DEF DataSent
<1>10. ~Locked /\ ret = "OK" /\ msc.cbw.op # "write"
  BY <1>1, <1>2 DEF UsbInv, Card, Locked, Sending
<1>11. msc.cbw.op = "read" /\ Active =>
         Len(host.got) = msc.xferred_len + n /\ moved = host.got
  BY <1>1 DEF UsbInv, Data, ReadData, Active, Gone, InBuffer, Done
<1>12. \/ m.xferred_len >= m.total_len /\ Handled([m EXCEPT !.stage = "STATUS"])
          /\ UNCHANGED <<pc, size, ret>>
       \/ ~(m.xferred_len >= m.total_len) /\ CallStorage(m, Chunk(m))
  BY <1>1, Zenon DEF DataSent
<1> HIDE DEF m, o
<1>13. CASE m.xferred_len >= m.total_len /\ Handled([m EXCEPT !.stage = "STATUS"])
            /\ UNCHANGED <<pc, size, ret>>
  <2>1. m.xferred_len <= m.cbw.total /\ m.xferred_len = m.total_len
    BY <1>5, <1>6, <1>13
  <2>2. Ended(m, msc') /\ msc'.status = m.status /\ msc'.sense = m.sense /\ queue' = Tail(queue)
    BY <1>6, <1>13, <2>1, PassEnds DEF Handled
  <2>3. /\ msc' \in Msc /\ Len(msc'.buf) <= BlockSize /\ msc'.cbw = msc.cbw
        /\ msc'.xferred_len = msc.xferred_len + n /\ msc'.total_len = msc.total_len
    BY <1>4, <1>5, <1>6, <2>2, LenProperties DEF Ended, Kept, Msc
  <2>4. Waiting(msc') /\ msc'.stage \in {"STATUS", "STATUS_SENT"}
    BY <1>6, <2>2, EndedWaits
  <2>5. Lengths(msc')
    <3>1. msc'.xferred_len = msc'.total_len /\ msc'.xferred_len \in Nat /\ msc'.cbw.total \in Nat
          /\ msc'.total_len <= msc'.cbw.total /\ msc'.stage # "DATA"
      BY <1>5, <1>6, <2>1, <2>3, <2>4
    <3>2. msc'.cbw.op \in {"read", "write"} => msc'.total_len = msc'.cbw.total
      BY <1>4, <2>3 DEF Lengths
    <3> QED
      BY <3>1, <3>2 DEF Lengths, Left
  <2> QED
    BY <1>1, <1>4, <1>6, <1>7, <1>8, <1>9, <1>10, <1>11, <1>13, <2>2, <2>3, <2>4, <2>5, EndedWaits, EventEnds
       DEF HeadIs
<1>14. CASE ~(m.xferred_len >= m.total_len) /\ CallStorage(m, Chunk(m))
  <2>1. CallStorage(m, Chunk(m))
    BY <1>14
  <2>2. m.cbw.op = "read"
    BY <1>2, <1>3, <1>5, <1>6, <1>14 DEF Sending
  <2>3. m.xferred_len < m.cbw.total
    BY <1>5, <1>6, <1>14
  <2>4. Chunk(m) \in 1 .. BlockSize /\ Chunk(m) <= Left(m)
    BY <1>6, <2>3, ChunkIs
  <2>5. Lengths(m)
    BY <1>1, <1>4, <1>5, <1>6 DEF Lengths
  <2>6. CASE block_sz(m) # 0
    <3>1. msc' = m /\ pc' = "call" /\ size' = Chunk(m) /\ UNCHANGED <<queue, ret>>
      BY <2>1, <2>6 DEF CallStorage
    <3> QED
      BY <1>1, <1>4, <1>6, <1>7, <1>8, <1>9, <1>11, <2>2, <2>4, <2>5, <2>6, <3>1, EventCalls
         DEF HeadIs
  <2>7. CASE block_sz(m) = 0
    <3>1. msc' = m /\ queue' = Tail(queue) /\ UNCHANGED <<pc, size, ret>>
      BY <1>6, <2>1, <2>7, StageKept DEF CallStorage, Handled
    <3>2. Lost(m)
      BY <1>6, <2>2, <2>7 DEF Lost
    <3> QED
      BY <1>1, <1>4, <1>6, <1>7, <1>8, <1>9, <1>11, <2>2, <2>5, <3>1, <3>2, EventHangs
         DEF HeadIs
  <2> QED
    BY <2>6, <2>7
<1> QED
  BY <1>12, <1>13, <1>14

(* A status the host took keeps it (MSC_STAGE_STATUS_SENT).                *)
LEMMA StatusSentKeeps ==
  ASSUME UsbInv, StatusSent
  PROVE  UsbInv'
<1> DEFINE o == Completed("in")
           s == [o EXCEPT !.stage = "CMD"]
<1>1. /\ NextEvent("xfer", "in") /\ msc.stage = "STATUS_SENT" /\ Head(queue) = queue[1]
      /\ pc = "idle" /\ queue # << >> /\ HeadIs("xfer", "in")
      /\ InFlight(msc.ep.in) /\ msc.ep.in.kind = "none" /\ Waiting(msc)
  BY AtHead DEF StatusSent
<1>2. Reporting(msc)
  BY <1>1 DEF Waiting, Listening, Deaf, Sending, Taking, Silent, Reporting
<1>3. /\ o \in Msc /\ o.ep.out = msc.ep.out /\ Free(o.ep.in) /\ o.stage = "STATUS_SENT"
      /\ o.buf = msc.buf /\ o.status = msc.status /\ o.sense = msc.sense
  BY <1>1, CompletedIn
<1>4. /\ queue' = Tail(queue) /\ moved' = << >>
      /\ UNCHANGED <<pc, size, ret, sd2_ready, sd2_io_mutex, disk, host, shell>>
      /\ msc' = StageStatus(IF o.ep.out.stalled THEN s ELSE PrepareCbw(o))
  BY DEF StatusSent, Handled
<1> HIDE DEF o
<1>5. /\ s \in Msc /\ s.stage = "CMD" /\ s.ep = o.ep /\ s.buf = o.buf
      /\ s.status = o.status /\ s.sense = o.sense
  BY <1>3 DEF Msc
<1>6. PrepareCbw(o) = Xfer(s, "out", "cbw", 0)
  BY DEF PrepareCbw
<1> HIDE DEF s
<1>7. /\ msc' \in Msc /\ msc'.stage = "CMD" /\ msc'.ep.in = o.ep.in /\ msc'.buf = msc.buf
      /\ msc'.status = msc.status /\ msc'.sense = msc.sense
      /\ IF Halted(msc.ep.out) THEN msc'.ep.out = msc.ep.out
         ELSE InFlight(msc'.ep.out) /\ msc'.ep.out.kind = "cbw"
  <2>1. CASE Halted(msc.ep.out)
    BY <1>3, <1>4, <1>5, <2>1, StageKept DEF Halted
  <2>2. CASE ~Halted(msc.ep.out)
    <3>1. Free(s.ep.out) /\ ~o.ep.out.stalled
      BY <1>2, <1>3, <1>5, <2>2 DEF Reporting, Free
    <3> DEFINE r == Xfer(s, "out", "cbw", 0)
    <3>2. /\ r \in Msc /\ r.stage = "CMD" /\ r.status = s.status
          /\ r.sense = s.sense /\ r.buf = s.buf /\ r.ep.in = s.ep.in
          /\ InFlight(r.ep.out) /\ r.ep.out.kind = "cbw"
      BY <1>5, <3>1, XferOut
    <3>3. msc' = StageStatus(r)
      BY <1>4, <1>6, <3>1
    <3> HIDE DEF r
    <3>4. msc' = r
      BY <3>2, <3>3, StageKept
    <3> QED
      BY <1>3, <1>5, <2>2, <3>2, <3>4
  <2> QED
    BY <2>1, <2>2
<1>8. \A i \in 2 .. Len(queue) : queue[i].ev = "clear" => Halted(msc'.ep[queue[i].ep])
  <2> SUFFICES ASSUME NEW i \in 2 .. Len(queue), queue[i].ev = "clear"
               PROVE  Halted(msc'.ep[queue[i].ep])
    OBVIOUS
  <2>1. i \in 1 .. Len(queue)
    OBVIOUS
  <2>2. Halted(msc.ep[queue[i].ep]) /\ queue[i].ep \in {"in", "out"}
    BY <2>1 DEF UsbInv, Events, ClearsHalted, EventOrder
  <2>3. queue[i].ep = "out"
    BY <1>1, <2>2 DEF Halted, InFlight
  <2> QED
    BY <1>7, <2>2, <2>3
<1>9. ~Active /\ (host.at = "idle" => host.sent = << >> /\ host.got = << >>)
  BY <1>1 DEF UsbInv, InStep, Active
<1>10. Listening(msc') \/ Deaf(msc')
  BY <1>3, <1>7 DEF Listening, Deaf
<1>11. /\ queue' \in Seq(EventType) /\ Events'
       /\ ~HeadIs("xfer", "in")' /\ ~HeadIs("xfer", "out")'
  <2>1. Free(msc'.ep.in) /\ (InFlight(msc'.ep.out) => msc'.ep.out.kind # "none")
        /\ (InFlight(msc'.ep.out) \/ Halted(msc'.ep.out))
    BY <1>3, <1>7 DEF InFlight, Halted
  <2>2. InFlight(msc'.ep.in) => msc'.ep.in.kind # "none"
    BY <2>1 DEF Free, InFlight
  <2>3. queue[1].ev \in {"xfer", "clear"} /\ Types /\ Events /\ pc' = "idle"
    BY <1>1, <1>4 DEF HeadIs, UsbInv
  <2> QED
    BY <1>1, <1>4, <1>8, <2>1, <2>2, <2>3, AfterEvent
<1>12. Types'
  BY <1>4, <1>7, <1>11, EmptySeq DEF UsbInv, Types
<1>13. Card'
  BY <1>1, <1>4 DEF UsbInv, Card, Locked
<1>14. Device'
  BY <1>1, <1>4, <1>7, <1>10 DEF UsbInv, Device, Waiting
<1>15. InStep'
  BY <1>4, <1>7, <1>9, <1>11 DEF InStep, Active
<1>16. Data'
  BY <1>1, <1>4, <1>7 DEF UsbInv, Data, WriteData, ReadData, Done, HostRun
<1> QED
  BY <1>11, <1>12, <1>13, <1>14, <1>15, <1>16 DEF UsbInv

(* A cleared halt keeps it (mscd_control_xfer_cb).                         *)
LEMMA HaltClearedKeeps ==
  ASSUME UsbInv, NEW d \in {"in", "out"}, HaltCleared(d)
  PROVE  UsbInv'
<1> DEFINE m == [msc EXCEPT !.ep[d].busy = FALSE, !.ep[d].stalled = FALSE]
<1>1. /\ queue # << >> /\ Head(queue) = queue[1] /\ queue[1].ev = "clear" /\ queue[1].ep = d
      /\ pc = "idle" /\ queue[1] \in EventType /\ Len(queue) \in Nat /\ Len(queue) >= 1
  BY TailIs DEF UsbInv, Types, HaltCleared, NextEvent
<1>2. Halted(msc.ep[d])
  BY <1>1 DEF UsbInv, Events, ClearsHalted
<1>3. msc \in Msc /\ Len(msc.buf) <= BlockSize /\ BlockSize \in Nat
  BY UsbAssumption DEF UsbInv, Types
<1>4. Waiting(msc)
  <2>1. msc # Cleared /\ ~Lost(msc)
    BY <1>2 DEF Halted, Cleared, NoTransfer, Lost, Free
  <2> QED
    BY <1>1, <2>1 DEF UsbInv, Device
<1>5. /\ queue' = Tail(queue) /\ msc' = Resume(m, d)
      /\ UNCHANGED <<pc, size, ret, sd2_ready, sd2_io_mutex, disk, host, shell, moved>>
  BY DEF HaltCleared
<1>6. /\ m \in Msc /\ Kept(msc, m) /\ m.stage = msc.stage /\ m.status = msc.status
      /\ m.residue = msc.residue /\ m.sense = msc.sense /\ m.buf = msc.buf
      /\ Free(m.ep[d])
      /\ d = "in" => m.ep.out = msc.ep.out
      /\ d = "out" => m.ep.in = msc.ep.in
  <2>1. CASE d = "in"
    BY <1>2, <1>3, <2>1 DEF Msc, Endpoint, Halted, Free, Kept
  <2>2. CASE d = "out"
    BY <1>2, <1>3, <2>2 DEF Msc, Endpoint, Halted, Free, Kept
  <2> QED
    BY <2>1, <2>2
<1> HIDE DEF m
<1>7. \A i \in 2 .. Len(queue) : queue[i].ev # "clear"
  <2> SUFFICES ASSUME NEW i \in 2 .. Len(queue), queue[i].ev = "clear"
               PROVE  FALSE
    OBVIOUS
  <2>1. i \in 1 .. Len(queue) /\ 1 \in 1 .. Len(queue) /\ i # 1
    BY <1>1
  <2> QED
    BY <1>1, <2>1 DEF UsbInv, Events, ClearsOnce
<1>8. ~HeadIs("xfer", "in") /\ ~HeadIs("xfer", "out")
  BY <1>1 DEF HeadIs
<1>9. /\ msc.stage # "CMD" => Lengths(msc)
      /\ msc.status # "PASSED" => msc.sense # "none"
  BY DEF UsbInv, Device
(* Whatever was resumed: a new answer to wait for, of the same command.    *)
<1>10. ASSUME msc' \in Msc, Kept(msc, msc'), Len(msc'.buf) <= BlockSize,
              msc'.status = msc.status, msc'.sense = msc.sense, Waiting(msc'),
              msc'.stage = "CMD" <=> msc.stage = "CMD",
              msc'.stage # "CMD" => msc'.stage = "STATUS_SENT" /\ msc.stage # "DATA",
              msc'.stage = "CMD" => InFlight(msc'.ep.out),
              host.at # "enum" =>
                 /\ InFlight(msc'.ep.in) => msc'.ep.in.kind # "none"
                 /\ InFlight(msc'.ep.out) => msc'.ep.out.kind # "none"
       PROVE  UsbInv'
  <2>1. /\ queue' \in Seq(EventType) /\ Events'
        /\ ~HeadIs("xfer", "in")' /\ ~HeadIs("xfer", "out")'
    <3>1. Types /\ Events /\ pc' = "idle" /\ queue[1].ev \in {"xfer", "clear"}
      BY <1>1, <1>5 DEF UsbInv
    <3> QED
      BY <1>1, <1>5, <1>7, <1>10, <3>1, AfterEvent
  <2>2. Types'
    BY <1>5, <1>10, <2>1 DEF UsbInv, Types
  <2>3. Card'
    BY <1>1, <1>5 DEF UsbInv, Card, Locked
  <2>4. Device'
    BY <1>1, <1>5, <1>9, <1>10 DEF Device, Lengths, Kept, Left
  <2>5. InStep'
    BY <1>5, <1>8, <1>10, <2>1 DEF UsbInv, InStep, Kept
  <2>6. Data'
    <3>1. ~Done /\ ~Done' /\ Arrived = 0 /\ Arrived' = 0 /\ Gone = 0 /\ Gone' = 0
      BY <1>1, <1>5, <1>8, <2>1 DEF Done, Arrived, Gone
    <3>2. msc.stage # "CMD" => ~InBuffer /\ ~InBuffer'
      BY <1>1, <1>5, <1>10 DEF InBuffer, Done
    <3>3. WriteData'
      <4>1. ~Lost(msc)
        BY <1>4, NotLost
      <4> QED
        BY <1>1, <1>5, <1>8, <1>10, <2>1, <3>1, <4>1
           DEF UsbInv, Data, WriteData, Kept, HostRun
    <3>4. ReadData'
      BY <1>5, <1>10, <3>1, <3>2 DEF UsbInv, Data, ReadData, Kept
    <3> QED
      BY <1>5, <3>3, <3>4 DEF UsbInv, Data, HostRun
  <2> QED
    BY <2>1, <2>2, <2>3, <2>4, <2>5, <2>6 DEF UsbInv
<1>11. CASE d = "in"
  <2>1. Silent(msc)
    BY <1>2, <1>4, <1>11 DEF Waiting, Listening, Deaf, Sending, Taking, Silent, Reporting,
                             Halted, Free, InFlight
  <2>2. msc' = SendCsw(m)
    BY <1>5, <1>6, <1>11, <2>1 DEF Resume, Silent
  <2>3. m.xferred_len <= m.cbw.total
    BY <1>3, <1>6, <1>9, <2>1, CommandTypes DEF Silent, Lengths, Kept, Msc
  <2>4. /\ msc' \in Msc /\ Kept(m, msc') /\ Len(msc'.buf) = 0
        /\ msc'.stage = "STATUS_SENT" /\ msc'.residue = m.cbw.total - m.xferred_len
        /\ InFlight(msc'.ep.in) /\ msc'.ep.in.kind = "csw" /\ msc'.ep.out = m.ep.out
        /\ msc'.status = m.status /\ msc'.sense = m.sense
    BY <1>6, <1>11, <2>2, <2>3, CswSent
  <2>5. Reporting(msc')
    BY <1>6, <1>11, <2>1, <2>4 DEF Silent, Reporting, Left, Kept
  <2> QED
    BY <1>3, <1>6, <1>10, <1>11, <2>1, <2>4, <2>5 DEF Silent, Waiting, Kept, Free, InFlight
<1>12. CASE d = "out" /\ msc.stage = "CMD"
  <2>1. Deaf(msc)
    BY <1>2, <1>4, <1>12 DEF Waiting, Listening, Deaf, Sending, Taking, Silent, Reporting,
                             Halted, InFlight
  <2>2. msc' = PrepareCbw(m)
    BY <1>5, <1>6, <1>12 DEF Resume, Free
  <2> DEFINE s == [m EXCEPT !.stage = "CMD"]
  <2>3. /\ s \in Msc /\ Kept(m, s) /\ s.stage = "CMD" /\ s.ep = m.ep /\ s.buf = m.buf
        /\ s.status = m.status /\ s.sense = m.sense
    BY <1>6 DEF Msc, Kept
  <2>4. msc' = Xfer(s, "out", "cbw", 0)
    BY <2>2 DEF PrepareCbw
  <2> HIDE DEF s
  <2>5. /\ msc' \in Msc /\ Kept(s, msc') /\ msc'.stage = "CMD" /\ msc'.status = s.status
        /\ msc'.sense = s.sense /\ msc'.buf = s.buf /\ msc'.ep.in = s.ep.in
        /\ InFlight(msc'.ep.out) /\ msc'.ep.out.kind = "cbw"
    BY <1>6, <1>12, <2>3, <2>4, XferOut
  <2>6. Listening(msc')
    BY <1>6, <1>12, <2>1, <2>3, <2>5 DEF Deaf, Listening
  <2> QED
    BY <1>3, <1>6, <1>10, <1>12, <2>3, <2>5, <2>6 DEF Listening, Waiting, Kept, Free, InFlight
<1>13. CASE d = "out" /\ msc.stage # "CMD"
  <2>1. Reporting(msc)
    BY <1>2, <1>4, <1>13 DEF Waiting, Listening, Deaf, Sending, Taking, Silent, Reporting,
                             Halted, Free, InFlight
  <2>2. msc' = m
    BY <1>5, <1>6, <1>13 DEF Resume
  <2>3. Reporting(msc')
    BY <1>6, <1>13, <2>1, <2>2 DEF Reporting, Left, Kept
  <2>4. host.at # "enum" => msc.ep.in.kind # "none"
    BY <1>1, <1>8, <2>1 DEF UsbInv, Events, Completion, Reporting
  <2> QED
    BY <1>3, <1>6, <1>10, <1>13, <2>1, <2>2, <2>3, <2>4 DEF Reporting, Waiting, Free, InFlight
<1> QED
  BY <1>11, <1>12, <1>13

(* A reset or a configuration is the last event of the queue.              *)
LEMMA EmptyQueue ==
  ASSUME UsbInv, queue # << >>, Tail(queue) = queue', queue[1].ev \in {"reset", "config"}
  PROVE  queue' = << >> /\ host.at = "enum" /\ Len(queue) = 1
<1>1. Len(queue) \in Nat /\ Len(queue) >= 1 /\ (queue' # << >> <=> Len(queue) >= 2)
  BY TailIs DEF UsbInv, Types
<1>2. Len(queue) = 1 /\ host.at = "enum"
  <2>1. 1 \in 1 .. Len(queue)
    BY <1>1
  <2>2. /\ queue[1].ev = "reset" => 1 = Len(queue) /\ host.at = "enum"
        /\ queue[1].ev = "config" => Len(queue) = 1 /\ host.at = "enum"
    BY <2>1, Zenon DEF UsbInv, Events, EventOrder
  <2> QED
    BY <2>2
<1> QED
  BY <1>1, <1>2

(* mscd_reset leaves a device of the right type.                           *)
LEMMA ClearedType == Cleared \in Msc /\ Len(Cleared.buf) = 0
BY EmptySeq DEF Cleared, Msc, Endpoint, NoTransfer

(* The reset of the bus keeps it (mscd_reset).                             *)
LEMMA BusResetKeeps ==
  ASSUME UsbInv, BusReset
  PROVE  UsbInv'
<1>1. /\ queue # << >> /\ Head(queue) = queue[1] /\ queue[1].ev = "reset" /\ pc = "idle"
      /\ queue' = Tail(queue) /\ msc' = Cleared /\ moved' = << >>
      /\ UNCHANGED <<pc, size, ret, sd2_ready, sd2_io_mutex, disk, host, shell>>
  BY TailIs DEF UsbInv, Types, BusReset, NextEvent
<1>2. queue' = << >> /\ host.at = "enum"
  BY <1>1, EmptyQueue
<1>3. Types'
  BY <1>1, <1>2, EmptySeq, ClearedType, UsbAssumption DEF UsbInv, Types
<1>4. Card'
  BY <1>1 DEF UsbInv, Card, Locked
<1>5. Device'
  BY <1>1 DEF Device, Cleared
<1>6. Len(<< >>) = 0
  OBVIOUS
<1>7. Events'
  <2>1. EventOrder' /\ ClearsOnce' /\ ClearsHalted'
    BY <1>2, <1>6 DEF EventOrder, ClearsOnce, ClearsHalted
  <2>2. Enumerating'
    <3>1. \A i \in 1 .. Len(queue') : queue'[i].ev = "config"
      BY <1>2, <1>6
    <3>2. host'.at = "enum" /\ pc' = "idle"
      BY <1>1, <1>2
    <3> QED
      BY <1>1, <3>1, <3>2 DEF Enumerating
  <2>3. Completion'
    BY <1>1, <1>2 DEF Completion, HeadIs
  <2> QED
    BY <2>1, <2>2, <2>3 DEF Events
<1>8. InStep'
  BY <1>1, <1>2 DEF InStep
<1>9. Data'
  BY <1>1 DEF UsbInv, Data, WriteData, ReadData, Done, HostRun, Cleared, NoCommand
<1> QED
  BY <1>3, <1>4, <1>5, <1>7, <1>8, <1>9 DEF UsbInv

(* The configuration keeps it (mscd_open).                                 *)
LEMMA ConfiguredKeeps ==
  ASSUME UsbInv, Configured
  PROVE  UsbInv'
<1>1. /\ queue # << >> /\ Head(queue) = queue[1] /\ queue[1].ev = "config" /\ pc = "idle"
      /\ queue' = Tail(queue) /\ msc' = PrepareCbw(msc) /\ host' = [Idle EXCEPT !.at = "idle"]
      /\ UNCHANGED <<pc, size, ret, sd2_ready, sd2_io_mutex, disk, shell, moved>>
  BY TailIs DEF UsbInv, Types, Configured, NextEvent
<1>2. queue' = << >> /\ host.at = "enum" /\ Len(queue) = 1
  BY <1>1, EmptyQueue
<1>3. msc = Cleared
  BY <1>1, <1>2 DEF UsbInv, Events, Enumerating
<1>4. host' = [at |-> "idle", cmd |-> NoCommand, sent |-> << >>, got |-> << >>]
  BY <1>1 DEF Idle
<1> DEFINE s == [msc EXCEPT !.stage = "CMD"]
<1>5. /\ s \in Msc /\ s.stage = "CMD" /\ s.ep = msc.ep /\ s.buf = msc.buf
      /\ s.status = "PASSED" /\ s.cbw = msc.cbw
  BY <1>3, ClearedType DEF Msc, Cleared
<1>6. msc' = Xfer(s, "out", "cbw", 0)
  BY <1>1 DEF PrepareCbw
<1>7. Free(s.ep.in) /\ Free(s.ep.out)
  BY <1>3, <1>5 DEF Cleared, NoTransfer, Free
<1> HIDE DEF s
<1>8. /\ msc' \in Msc /\ Kept(s, msc') /\ msc'.stage = "CMD" /\ msc'.status = "PASSED"
      /\ msc'.buf = s.buf /\ msc'.ep.in = s.ep.in
      /\ InFlight(msc'.ep.out) /\ msc'.ep.out.kind = "cbw"
  BY <1>5, <1>6, <1>7, XferOut
<1>9. Listening(msc')
  BY <1>7, <1>8 DEF Listening
<1>10. Types'
  <2>1. host' \in HostType
    BY <1>4, EmptySeq DEF HostType
  <2> QED
    BY <1>1, <1>2, <1>3, <1>5, <1>8, <2>1, EmptySeq, ClearedType, UsbAssumption DEF UsbInv, Types
<1>11. Card'
  BY <1>1 DEF UsbInv, Card, Locked
<1>12. Device'
  BY <1>1, <1>8, <1>9 DEF Device, Waiting
<1>13. Len(<< >>) = 0
  OBVIOUS
<1>14. Events'
  <2>1. msc' # Cleared
    BY <1>8 DEF Cleared, NoTransfer, InFlight
  <2>2. ~InFlight(msc'.ep.in)
    BY <1>7, <1>8 DEF Free, InFlight
  <2>3. EventOrder' /\ ClearsOnce' /\ ClearsHalted'
    BY <1>2, <1>13 DEF EventOrder, ClearsOnce, ClearsHalted
  <2>4. Enumerating' /\ Completion'
    BY <1>2, <1>4, <1>8, <2>1, <2>2 DEF Enumerating, Completion, HeadIs
  <2> QED
    BY <2>3, <2>4 DEF Events
<1>15. InStep'
  BY <1>2, <1>4, <1>8 DEF InStep, HeadIs
<1>16. Data'
  <2>1. HostRun(host.sent, 0)'
    BY <1>4, <1>13 DEF HostRun
  <2>2. ~Done'
    BY <1>1 DEF Done
  <2> QED
    BY <1>8, <2>1, <2>2 DEF Data, WriteData, ReadData
<1> QED
  BY <1>10, <1>11, <1>12, <1>14, <1>15, <1>16 DEF UsbInv
-----------------------------------------------------------------------------
(* What holds inside a storage callback.                                   *)
LEMMA InCall ==
  ASSUME UsbInv, pc # "idle"
  PROVE  /\ InCallback /\ Lengths(msc) /\ Valid(msc.cbw) /\ msc \in Msc /\ Len(msc.buf) <= BlockSize
         /\ msc.cbw.op \in {"read", "write"} /\ msc.total_len = msc.cbw.total
         /\ msc.xferred_len \in Nat /\ msc.cbw.total \in Nat /\ BlockSize \in Nat
         /\ size \in Nat /\ size >= 1 /\ size <= BlockSize
         /\ msc.xferred_len + size <= msc.cbw.total
         /\ msc.status # "PASSED" => msc.sense # "none"
         /\ host.at # "idle" /\ (Active => msc.cbw = host.cmd)
         /\ \A i \in 2 .. Len(queue) : queue[i].ev # "clear"
         /\ moved \in Seq(Cell)
<1>1. InCallback /\ msc.stage = "DATA" /\ Lengths(msc) /\ (msc.status # "PASSED" => msc.sense # "none")
  BY DEF UsbInv, Device, InCallback
<1>2. /\ msc \in Msc /\ Len(msc.buf) <= BlockSize /\ msc.xferred_len \in Nat
      /\ msc.cbw.total \in Nat /\ BlockSize \in Nat /\ size \in 0 .. BlockSize /\ moved \in Seq(Cell)
  BY CommandTypes, UsbAssumption DEF UsbInv, Types, Msc
<1>3. /\ msc.cbw.op \in {"read", "write"} /\ size \in Nat /\ size >= 1 /\ size <= BlockSize
      /\ msc.xferred_len + size <= msc.cbw.total
  BY <1>1, <1>2 DEF InCallback, Left
<1>4. msc.total_len = msc.cbw.total /\ Valid(msc.cbw)
  BY <1>1, <1>3 DEF Lengths
<1>5. host.at # "idle" /\ (Active => msc.cbw = host.cmd)
  BY <1>1 DEF UsbInv, InStep, Active
<1>6. \A i \in 1 .. Len(queue) : queue[i].ev # "clear"
  BY <1>1, NoClear DEF InCallback, Free, Halted
<1>7. \A i \in 2 .. Len(queue) : queue[i].ev # "clear"
  BY <1>6
<1> QED
  BY <1>1, <1>2, <1>3, <1>4, <1>5, <1>7

(* A storage callback that returned an error.                              *)
LEMMA IoFails ==
  ASSUME UsbInv, pc # "idle", ~Done,
         Handled(IoDone("ERROR")), pc' = "idle", size' = 0, ret' = "OK",
         UNCHANGED <<msc_sector, sd2_ready, disk, host, shell, moved>>,
         \/ ~Locked /\ sd2_io_mutex' = sd2_io_mutex
         \/ Locked /\ sd2_io_mutex' = "free"
  PROVE  UsbInv'
<1> DEFINE x == [msc EXCEPT !.sense = "notready"]
<1>1. /\ x \in Msc /\ Kept(msc, x) /\ x.buf = msc.buf /\ Free(x.ep.in) /\ Free(x.ep.out)
  BY InCall DEF Msc, Kept, InCallback
<1>2. msc' = StageStatus(FailOp(x, "FAILED")) /\ queue' = Tail(queue)
  BY DEF Handled, IoDone
<1> HIDE DEF x
<1>3. x.xferred_len <= x.cbw.total
  BY <1>1, InCall DEF Kept
<1>4. Ended(x, msc') /\ msc'.status = "FAILED" /\ msc'.sense # "none"
  BY <1>1, <1>2, <1>3, FailEnds
<1>5. /\ msc' \in Msc /\ Kept(msc, msc') /\ Len(msc'.buf) <= BlockSize
      /\ msc'.stage \in {"STATUS", "STATUS_SENT"}
  <2>1. Len(msc'.buf) \in Nat /\ Len(x.buf) \in Nat /\ Len(msc'.buf) <= Len(x.buf)
    BY <1>1, <1>4, LenProperties DEF Ended, Msc
  <2> QED
    BY <1>1, <1>4, <2>1, InCall, EndedWaits DEF Ended, Kept
<1>6. Lengths(msc')
  BY <1>4, <1>5, InCall DEF Lengths, Kept
<1>7. msc.cbw.op = "write" => HostRun(moved, 0) /\ Len(moved) = msc.xferred_len
  <2>1. msc.cbw.op = "write" => HostRun(moved, 0) /\ Len(moved) = msc.xferred_len + 0
    BY InCall DEF UsbInv, Data, WriteData, InCallback
  <2> QED
    BY <2>1, InCall
<1>8. msc.cbw.op = "read" /\ Active => Len(host.got) = msc.xferred_len /\ moved = host.got
  <2>1. Gone = 0 /\ ~InBuffer
    BY DEF Gone, InBuffer
  <2>2. msc.cbw.op = "read" /\ Active => Len(host.got) = msc.xferred_len + Gone /\ moved = host.got
    BY <2>1, InCall DEF UsbInv, Data, ReadData, Active, InCallback
  <2> QED
    BY <2>1, <2>2, InCall
<1>9. queue # << >> /\ queue[1].ev = "xfer" /\ 0 \in 0 .. BlockSize
  BY InCall DEF InCallback
<1> QED
  BY <1>1, <1>2, <1>4, <1>5, <1>6, <1>7, <1>8, <1>9, InCall, EndedWaits, EventEnds DEF Kept

(* A callback that is refused keeps it (out of range, no lock).            *)
LEMMA RefuseKeeps ==
  ASSUME UsbInv, Refuse
  PROVE  UsbInv'
<1>1. pc = "call" /\ ret = "OK" /\ ~Locked /\ ~Done
  BY DEF UsbInv, Card, Refuse, Locked, Done
<1> QED
  BY <1>1, IoFails DEF Refuse

(* The end of a callback keeps it, whatever its result (proc_read_io_data, *)
(* proc_write_io_data).                                                    *)
LEMMA UnlockKeeps ==
  ASSUME UsbInv, Unlock
  PROVE  UsbInv'
<1>1. /\ pc = "unlock" /\ Locked /\ sd2_io_mutex' = "free" /\ pc' = "idle" /\ size' = 0 /\ ret' = "OK"
      /\ Handled(IoDone(ret)) /\ ret \in {"OK", "ERROR"}
      /\ UNCHANGED <<msc_sector, sd2_ready, disk, host, shell, moved>>
  BY DEF UsbInv, Types, Unlock, Locked
<1>2. CASE ret = "ERROR"
  BY <1>1, <1>2, IoFails DEF Done
<1>3. ASSUME ret = "OK", msc.cbw.op = "read"
      PROVE  UsbInv'
  <2> DEFINE r == Xfer(msc, "in", "data", size)
  <2>1. IoDone(ret) = r
    BY <1>3 DEF IoDone
  <2>2. /\ r \in Msc /\ Kept(msc, r) /\ r.stage = "DATA" /\ r.status = msc.status
        /\ r.sense = msc.sense /\ r.buf = msc.buf /\ r.ep.out = msc.ep.out
        /\ InFlight(r.ep.in) /\ r.ep.in.kind = "data" /\ r.ep.in.len = size
    BY <1>1, InCall, XferIn DEF InCallback
  <2> HIDE DEF r
  <2>3. msc' = r /\ queue' = Tail(queue)
    BY <1>1, <2>1, <2>2, StageKept DEF Handled
  <2>4. /\ Len(msc.buf) = size
        /\ Active => Len(host.got) = msc.xferred_len /\ moved = host.got \o msc.buf
    <3>1. Done /\ InBuffer /\ Gone = 0
      BY <1>1, <1>3 DEF Done, InBuffer, Gone
    <3>2. /\ Len(msc.buf) = size
          /\ Active => Len(host.got) = msc.xferred_len + Gone /\ moved = host.got \o msc.buf
      BY <1>1, <1>3, <3>1, InCall DEF UsbInv, Data, ReadData, Active, InCallback
    <3>3. msc.xferred_len \in Nat
      BY <1>1, InCall
    <3>4. msc.xferred_len + Gone = msc.xferred_len
      BY <3>1, <3>3
    <3> QED
      BY <3>2, <3>4
  <2>5. Sending(r) /\ Lengths(r)
    <3>1. size <= msc.total_len - msc.xferred_len
      BY <1>1, InCall
    <3>2. Sending(r)
      BY <1>1, <1>3, <2>2, <2>4, <3>1, InCall DEF Sending, Kept, InCallback
    <3> QED
      BY <1>1, <2>2, <3>2, InCall DEF Lengths, Kept
  <2>6. queue # << >> /\ queue[1].ev = "xfer" /\ 0 \in 0 .. BlockSize
    BY <1>1, InCall DEF InCallback
  <2> QED
    BY <1>1, <1>3, <2>2, <2>3, <2>4, <2>5, <2>6, InCall, EventEnds
       DEF Kept, Waiting, Sending, Free, InFlight
<1>4. ASSUME ret = "OK", msc.cbw.op = "write"
      PROVE  UsbInv'
  <2> DEFINE t == [msc EXCEPT !.xferred_len = @ + size]
  <2>1. /\ t \in Msc /\ t.cbw = msc.cbw /\ t.total_len = msc.total_len /\ t.stage = "DATA"
        /\ t.xferred_len = msc.xferred_len + size /\ t.status = msc.status
        /\ t.sense = msc.sense /\ t.buf = msc.buf /\ Free(t.ep.in) /\ Free(t.ep.out)
    <3>1. msc.xferred_len + size \in Nat
      BY <1>1, InCall
    <3> QED
      BY <1>1, <3>1, InCall DEF Msc, InCallback
  <2>2. IoDone(ret) = IF t.xferred_len >= t.total_len THEN [t EXCEPT !.stage = "STATUS"]
                      ELSE Xfer(t, "out", "data", Chunk(t))
    BY <1>4 DEF IoDone
  <2> HIDE DEF t
  <2>3. /\ HostRun(moved, 0) /\ Len(moved) = t.xferred_len
        /\ Active => Len(host.sent) = t.xferred_len
    <3>1. Done /\ Arrived = size
      BY <1>1, <1>4 DEF Done, Arrived
    <3>2. msc.stage = "DATA" /\ ~Lost(msc)
      BY <1>1, InCall DEF InCallback, Lost
    <3> QED
      BY <1>1, <1>4, <2>1, <3>1, <3>2 DEF UsbInv, Data, WriteData, Active
  <2>4. t.xferred_len <= t.cbw.total /\ t.total_len = t.cbw.total /\ t.xferred_len \in Nat
        /\ t.cbw.total \in Nat /\ Valid(t.cbw)
    BY <1>1, <2>1, InCall
  <2>5. queue # << >> /\ queue[1].ev = "xfer" /\ 0 \in 0 .. BlockSize
    BY <1>1, InCall DEF InCallback
  <2>6. CASE t.xferred_len >= t.total_len
    <3>1. msc' = StageStatus([t EXCEPT !.stage = "STATUS"]) /\ queue' = Tail(queue)
      BY <1>1, <2>2, <2>6 DEF Handled
    <3>2. Ended(t, msc') /\ msc'.status = t.status /\ msc'.sense = t.sense
      BY <2>1, <2>4, <3>1, PassEnds
    <3>3. /\ msc' \in Msc /\ Kept(t, msc') /\ Len(msc'.buf) <= BlockSize
          /\ msc'.stage \in {"STATUS", "STATUS_SENT"}
      <4>1. Len(msc'.buf) \in Nat /\ Len(t.buf) \in Nat /\ Len(msc'.buf) <= Len(t.buf)
        BY <2>1, <3>2, LenProperties DEF Ended, Msc
      <4> QED
        BY <1>1, <2>1, <3>2, <4>1, InCall, EndedWaits DEF Ended, Kept
    <3>4. Lengths(msc')
      BY <2>4, <2>6, <3>3 DEF Lengths, Left, Kept
    <3> QED
      BY <1>1, <1>4, <2>1, <2>3, <2>5, <3>1, <3>2, <3>3, <3>4, InCall, EndedWaits, EventEnds DEF Kept
  <2>7. CASE ~(t.xferred_len >= t.total_len)
    <3> DEFINE r == Xfer(t, "out", "data", Chunk(t))
    <3>1. t.xferred_len < t.cbw.total
      BY <2>4, <2>7
    <3>2. Chunk(t) \in 1 .. BlockSize /\ Chunk(t) <= Left(t)
      BY <2>1, <3>1, ChunkIs
    <3>3. /\ r \in Msc /\ Kept(t, r) /\ r.stage = "DATA" /\ r.status = t.status
          /\ r.sense = t.sense /\ r.buf = t.buf /\ r.ep.in = t.ep.in
          /\ InFlight(r.ep.out) /\ r.ep.out.kind = "data" /\ r.ep.out.len = Chunk(t)
      BY <1>1, <2>1, <3>2, InCall, XferOut
    <3> HIDE DEF r
    <3>4. msc' = r /\ queue' = Tail(queue)
      BY <1>1, <2>2, <2>7, <3>3, StageKept DEF Handled, r
    <3>5. Taking(r)
      BY <1>4, <2>1, <2>4, <3>2, <3>3 DEF Taking, Left, Kept
    <3>6. Lengths(r)
      BY <2>4, <3>3 DEF Lengths, Kept
    <3> QED
      BY <1>1, <1>4, <2>1, <2>3, <2>5, <3>3, <3>4, <3>5, <3>6, InCall, EventEnds
         DEF Kept, Waiting, Taking, Free, InFlight
  <2> QED
    BY <2>6, <2>7
<1>5. msc.cbw.op \in {"read", "write"}
  BY <1>1, InCall
<1> QED
  BY <1>1, <1>2, <1>3, <1>4, <1>5

(* Inside a callback only the buffer and what is moved change.             *)
LEMMA InsideCallback ==
  ASSUME UsbInv, pc # "idle", pc' # "idle", UNCHANGED <<queue, size, host>>,
         msc' \in Msc, Kept(msc, msc'), msc'.stage = msc.stage, msc'.status = msc.status,
         msc'.sense = msc.sense, msc'.ep = msc.ep
  PROVE  Device' /\ Events' /\ InStep'
<1>1. InCallback' /\ Lengths(msc') /\ (msc'.status # "PASSED" => msc'.sense # "none")
  BY InCall DEF InCallback, Left, Kept, Lengths, block_sz
<1>2. Device'
  BY <1>1 DEF Device
<1>3. EventOrder' /\ ClearsOnce'
  BY DEF UsbInv, Events, EventOrder, ClearsOnce
<1>4. ClearsHalted'
  BY DEF UsbInv, Events, ClearsHalted
<1>5. msc' # Cleared
  BY InCall DEF InCallback, Cleared
<1>6. Enumerating'
  BY <1>5 DEF UsbInv, Events, Enumerating
<1>7. Completion'
  BY DEF Completion
<1>8. InStep'
  BY DEF UsbInv, InStep, HeadIs, Kept
<1> QED
  BY <1>2, <1>3, <1>4, <1>6, <1>7, <1>8 DEF Events

(* Taking the card's mutex keeps it (sd_storage_lock in usb_msc.c).        *)
LEMMA LockKeeps ==
  ASSUME UsbInv, Lock
  PROVE  UsbInv'
<1>1. /\ pc = "call" /\ InRange /\ sd2_io_mutex = "free" /\ sd2_io_mutex' = "usb"
      /\ pc' \in {"fetch", "store"} /\ (pc' = "store" => ~NeedsSector)
      /\ UNCHANGED <<msc, queue, size, ret, msc_sector, sd2_ready, disk, host, shell, moved>>
  BY DEF Lock
<1>2. Device' /\ Events' /\ InStep'
  BY <1>1, InCall, InsideCallback DEF Kept
<1>3. Types'
  BY <1>1 DEF UsbInv, Types
<1>4. InRange' /\ (NeedsSector <=> NeedsSector') /\ msc.cbw.op \in {"read", "write"}
  BY <1>1, InCall DEF InRange, NeedsSector, Lba, Offset, block_sz
<1>5. Card'
  <2>1. (sd2_io_mutex' = "usb" <=> Locked') /\ sd2_io_mutex' # "shell"
    BY <1>1 DEF Locked
  <2>2. ret' = "OK"
    BY <1>1 DEF UsbInv, Card
  <2>3. pc' = "store" => msc.cbw.op = "write" /\ ~NeedsSector'
    BY <1>1, <1>4 DEF NeedsSector
  <2> QED
    BY <1>1, <1>4, <2>1, <2>2, <2>3 DEF Card
<1>6. Data'
  <2>1. ~Done /\ ~Done' /\ Arrived' = Arrived /\ Gone' = Gone /\ (InBuffer <=> InBuffer')
    BY <1>1 DEF Done, Arrived, Gone, InBuffer, HeadIs
  <2>2. WriteData'
    BY <1>1, <2>1 DEF UsbInv, Data, WriteData, HostRun
  <2>3. ReadData'
    BY <1>1, <2>1 DEF UsbInv, Data, ReadData
  <2> QED
    BY <1>1, <2>2, <2>3 DEF UsbInv, Data, HostRun
<1> QED
  BY <1>2, <1>3, <1>5, <1>6 DEF UsbInv

(* Where in the card the callback is.                                      *)
LEMMA Place ==
  ASSUME UsbInv, Locked
  PROVE  /\ block_sz(msc) \in Nat \ {0}
         /\ Lba(msc) \in Blocks /\ Offset(msc) \in Nat
         /\ Offset(msc) + size <= BlockSize
         /\ Offset(msc) < block_sz(msc)
<1>1. InRange /\ pc # "idle"
  BY DEF UsbInv, Card, Locked
<1>2. msc.cbw \in Commands
  <2>1. msc.cbw \in Commands \cup {NoCommand} /\ msc.cbw # NoCommand
    BY <1>1, InCall DEF Msc, NoCommand
  <2> QED
    BY <2>1
<1>3. block_sz(msc) \in Nat \ {0}
  <2>1. msc.cbw.total \div msc.cbw.count \in Nat /\ SizeLimit \in Nat \ {0}
    BY <1>1, <1>2, InCall, ValidIs, UsbAssumption DEF Valid
  <2>2. block_sz(msc) # 0
    BY <1>1, InCall DEF InCallback
  <2>3. \A x \in Nat : x % SizeLimit \in Nat
    BY <2>1
  <2> QED
    BY <2>1, <2>2, <2>3 DEF block_sz
<1>4. msc.cbw.lba \in Nat /\ msc.xferred_len \in Nat /\ size \in Nat /\ BlockSize \in Nat
      /\ LogBlockNbr \in Nat
  BY <1>1, <1>2, InCall, UsbAssumption
<1> DEFINE b == block_sz(msc)
<1>5. msc.xferred_len \div b \in Nat /\ msc.xferred_len % b \in Nat /\ msc.xferred_len % b < b
  <2> HIDE DEF b
  <2>1. b \in Nat \ {0}
    BY <1>3 DEF b
  <2> QED
    BY <1>4, <2>1
<1>6. Lba(msc) \in Nat /\ Offset(msc) \in Nat /\ Offset(msc) < block_sz(msc)
  BY <1>4, <1>5 DEF Lba, Offset
<1> QED
  BY <1>1, <1>3, <1>4, <1>6 DEF InRange, Blocks

(* Reading the sector keeps it (sd_storage_read_locked).                   *)
LEMMA FetchKeeps ==
  ASSUME UsbInv, Fetch
  PROVE  UsbInv'
<1>1. /\ pc = "fetch" /\ Locked /\ pc # "idle" /\ ret = "OK" /\ InRange
      /\ UNCHANGED <<queue, size, sd2_ready, sd2_io_mutex, disk, host, shell>>
  BY DEF UsbInv, Card, Fetch, Locked
<1>2. disk \in [Blocks -> [Cells -> Cell]] /\ Lba(msc) \in Blocks
  BY <1>1, Place DEF UsbInv, Types
<1>3. msc.cbw.op = "read" => ~Done /\ (Active => Len(host.got) = msc.xferred_len /\ moved = host.got)
  <2>1. Gone = 0 /\ ~InBuffer /\ ~Done /\ msc.stage = "DATA" /\ msc.xferred_len \in Nat
    BY <1>1, InCall DEF Gone, InBuffer, Done, InCallback
  <2>2. msc.cbw.op = "read" /\ Active => Len(host.got) = msc.xferred_len + Gone /\ moved = host.got
    BY <2>1 DEF UsbInv, Data, ReadData, Active
  <2> QED
    BY <2>1, <2>2
<1>6. ASSUME pc' \in {"store", "unlock"}, Kept(msc, msc'),
             pc' = "store" => ret' = "OK" /\ msc.cbw.op = "write" /\ msc_sector' = disk[Lba(msc)]
      PROVE  Card'
  <2>1. InRange' /\ Lba(msc') = Lba(msc)
    BY <1>1, <1>6 DEF InRange, Lba, Offset, block_sz, Kept
  <2>2. sd2_io_mutex' = "usb" /\ Locked'
    BY <1>1, <1>6 DEF UsbInv, Card, Locked
  <2> QED
    BY <1>1, <1>6, <2>1, <2>2 DEF UsbInv, Card, Kept
<1> DEFINE data == [i \in 1 .. size |-> disk[Lba(msc)][Offset(msc) + i - 1]]
<1>7. CASE /\ msc.cbw.op = "read" /\ msc' = [msc EXCEPT !.buf = data]
           /\ moved' = moved \o data /\ pc' = "unlock" /\ UNCHANGED ret
  <2>1. data \in Seq(Cell) /\ Len(data) = size
    <3>1. size \in Nat /\ size <= BlockSize /\ BlockSize \in Nat /\ Offset(msc) \in Nat
          /\ Offset(msc) + size <= BlockSize
      BY <1>1, InCall, Place
    <3>2. \A i \in 1 .. size : Offset(msc) + i - 1 \in Cells
      BY <3>1 DEF Cells
    <3>3. \A i \in 1 .. size : disk[Lba(msc)][Offset(msc) + i - 1] \in Cell
      BY <1>2, <3>2
    <3> QED
      BY <3>1, <3>3
  <2> HIDE DEF data
  <2>2. /\ msc' \in Msc /\ Kept(msc, msc') /\ msc'.stage = msc.stage /\ msc'.status = msc.status
        /\ msc'.sense = msc.sense /\ msc'.ep = msc.ep /\ msc'.buf = data
    BY <1>1, <1>7, <2>1, InCall DEF Msc, Kept
  <2>3. Device' /\ Events' /\ InStep'
    BY <1>1, <1>7, <2>2, InsideCallback
  <2>4. Types'
    <3>1. moved' \in Seq(Cell) /\ Len(msc'.buf) <= BlockSize
      BY <1>1, <1>7, <2>1, <2>2, InCall, ConcatProperties
    <3> QED
      BY <1>1, <1>7, <2>2, <3>1 DEF UsbInv, Types
  <2>5. Card'
    BY <1>6, <1>7, <2>2
  <2>6. Data'
    <3>1. Gone' = 0 /\ Done' /\ InBuffer'
      BY <1>1, <1>7 DEF Gone, Done, InBuffer
    <3>2. WriteData'
      BY <1>7, <2>2 DEF WriteData, Kept
    <3>3. ReadData'
      <4>1. msc.xferred_len + Gone' = msc.xferred_len
        BY <1>1, <3>1, InCall
      <4>2. /\ Len(msc'.buf) = size'
            /\ Active => Len(host.got) = msc.xferred_len /\ moved' = host.got \o msc'.buf
        BY <1>1, <1>3, <1>7, <2>1, <2>2
      <4> QED
        BY <1>1, <1>7, <2>2, <3>1, <4>1, <4>2 DEF ReadData, Active, Kept
    <3> QED
      BY <1>1, <3>2, <3>3 DEF UsbInv, Data, HostRun
  <2> QED
    BY <2>3, <2>4, <2>5, <2>6 DEF UsbInv
<1>8. ASSUME UNCHANGED <<msc, moved>>,
             \/ pc' = "store" /\ msc.cbw.op = "write" /\ ret' = ret /\ msc_sector' = disk[Lba(msc)]
             \/ pc' = "unlock" /\ ret' = "ERROR"
      PROVE  UsbInv'
  <2>1. Device' /\ Events' /\ InStep'
    BY <1>1, <1>8, InCall, InsideCallback DEF Kept
  <2>2. Types'
    BY <1>1, <1>8 DEF UsbInv, Types
  <2>3. Card'
    BY <1>1, <1>6, <1>8 DEF Kept
  <2>4. Data'
    <3>1. ~Done /\ ~Done' /\ Arrived' = Arrived /\ Gone' = Gone /\ (InBuffer <=> InBuffer')
      BY <1>1, <1>8 DEF Done, Arrived, Gone, InBuffer, HeadIs
    <3>2. WriteData'
      BY <1>1, <1>8, <3>1 DEF UsbInv, Data, WriteData, HostRun
    <3>3. ReadData'
      BY <1>1, <1>8, <3>1 DEF UsbInv, Data, ReadData
    <3> QED
      BY <1>1, <3>2, <3>3 DEF UsbInv, Data, HostRun
  <2> QED
    BY <2>1, <2>2, <2>3, <2>4 DEF UsbInv
<1>9. msc.cbw.op \in {"read", "write"}
  BY <1>1, InCall
<1> QED
  BY <1>7, <1>8, <1>9 DEF Fetch

(* The sector as it is written: the packet of the host in its place, the   *)
(* block of the card around it.                                            *)
LEMMA PatchedIs ==
  ASSUME UsbInv, pc = "store"
  PROVE  /\ Patched \in [Cells -> Cell]
         /\ \A i \in Cells :
              Patched[i] = IF i \in Offset(msc) .. Offset(msc) + size - 1
                           THEN HostByte(msc.xferred_len + i - Offset(msc) + 1)
                           ELSE disk[Lba(msc)][i]
<1>1. /\ Locked /\ pc # "idle" /\ msc.cbw.op = "write"
      /\ NeedsSector => msc_sector = disk[Lba(msc)]
  BY DEF UsbInv, Card, Locked
<1>2. /\ Lba(msc) \in Blocks /\ Offset(msc) \in Nat /\ BlockSize \in Nat
      /\ Offset(msc) + size <= BlockSize /\ size \in Nat /\ msc.xferred_len \in Nat
      /\ disk \in [Blocks -> [Cells -> Cell]]
  BY <1>1, Place, InCall DEF UsbInv, Types
<1>3. Len(msc.buf) = size /\ HostRun(msc.buf, msc.xferred_len)
  BY <1>1, InCall DEF UsbInv, Data, WriteData, Arrived, InCallback
<1>4. ASSUME NEW i \in Cells
      PROVE  /\ Patched[i] \in Cell
             /\ Patched[i] = IF i \in Offset(msc) .. Offset(msc) + size - 1
                             THEN HostByte(msc.xferred_len + i - Offset(msc) + 1)
                             ELSE disk[Lba(msc)][i]
  <2>1. i \in Nat /\ i < BlockSize
    BY <1>2 DEF Cells
  <2>2. CASE i \in Offset(msc) .. Offset(msc) + size - 1
    <3> DEFINE j == i - Offset(msc) + 1
    <3>1. j \in 1 .. size /\ msc.xferred_len + j \in Nat
          /\ msc.xferred_len + j = msc.xferred_len + i - Offset(msc) + 1
      BY <1>2, <2>1, <2>2
    <3>2. Patched[i] = msc.buf[j]
      BY <2>2 DEF Patched
    <3> HIDE DEF j
    <3>3. msc.buf[j] = HostByte(msc.xferred_len + j)
      BY <1>3, <3>1 DEF HostRun
    <3>4. HostByte(msc.xferred_len + j) \in Cell
      BY <3>1 DEF HostByte, Cell
    <3> QED
      BY <2>2, <3>1, <3>2, <3>3, <3>4
  <2>3. CASE i \notin Offset(msc) .. Offset(msc) + size - 1
    <3>1. NeedsSector
      BY <1>2, <2>1, <2>3 DEF NeedsSector
    <3>2. Patched[i] = disk[Lba(msc)][i]
      BY <1>1, <2>3, <3>1 DEF Patched
    <3> QED
      BY <1>2, <2>3, <3>2
  <2> QED
    BY <2>2, <2>3
<1>5. Patched \in [Cells -> Cell]
  BY <1>4 DEF Patched
<1> QED
  BY <1>4, <1>5

(* Writing the sector keeps it, stored or failed                           *)
(* (sd_storage_write_locked).                                              *)
LEMMA StoreKeeps ==
  ASSUME UsbInv, Store
  PROVE  UsbInv'
<1> DEFINE lba == Lba(msc)
           stored == [disk EXCEPT ![lba] = Patched]
<1>1. /\ pc = "store" /\ Locked /\ pc # "idle" /\ pc' = "unlock" /\ msc.cbw.op = "write" /\ ret = "OK"
      /\ UNCHANGED <<msc, queue, size, sd2_ready, sd2_io_mutex, host, shell>> /\ InRange
  BY DEF UsbInv, Card, Store, Locked
<1>2. disk' \in {disk, stored}
      /\ \/ moved' = moved \o SubSeq(msc.buf, 1, size) /\ ret' = ret
         \/ moved' = moved /\ ret' = "ERROR"
  BY DEF Store
<1>3. disk \in [Blocks -> [Cells -> Cell]] /\ lba \in Blocks /\ Patched \in [Cells -> Cell]
  BY <1>1, Place, PatchedIs DEF UsbInv, Types
<1>4. disk' \in [Blocks -> [Cells -> Cell]] /\ (\A b \in Blocks : b # lba => disk'[b] = disk[b])
  <2> HIDE DEF lba
  <2> QED
    BY <1>2, <1>3
<1> HIDE DEF stored
<1>6. Device' /\ Events' /\ InStep'
  BY <1>1, InCall, InsideCallback DEF Kept
<1>7. /\ HostRun(moved, 0) /\ Len(moved) = msc.xferred_len
      /\ Len(msc.buf) = size /\ HostRun(msc.buf, msc.xferred_len)
      /\ Active => Len(host.sent) = msc.xferred_len + size
      /\ msc.buf \in Seq(Cell) /\ moved \in Seq(Cell)
  <2>1. ~Done /\ Arrived = size /\ msc.stage = "DATA" /\ msc.xferred_len \in Nat
        /\ msc.buf \in Seq(Cell) /\ moved \in Seq(Cell) /\ ~Lost(msc)
    BY <1>1, InCall DEF Done, Arrived, InCallback, Msc, Lost
  <2>2. Len(moved) = msc.xferred_len + 0
    BY <1>1, <2>1 DEF UsbInv, Data, WriteData
  <2> QED
    BY <1>1, <2>1, <2>2 DEF UsbInv, Data, WriteData, Active
<1>8. size \in Nat /\ msc.xferred_len \in Nat
  BY <1>1, InCall
<1>9. SubSeq(msc.buf, 1, size) = msc.buf
  BY <1>7, <1>8, SubSeqFull
<1>10. \/ moved' = moved \o msc.buf /\ ret' = "OK"
       \/ moved' = moved /\ ret' = "ERROR"
  BY <1>1, <1>2, <1>9
<1>11. moved' \in Seq(Cell)
  BY <1>7, <1>10, ConcatProperties
<1>12. Types'
  BY <1>1, <1>4, <1>10, <1>11 DEF UsbInv, Types
<1>13. Card'
  <2>1. InRange' /\ (sd2_io_mutex' = "usb" <=> Locked') /\ sd2_io_mutex' # "shell"
    BY <1>1 DEF UsbInv, Card, Locked, InRange, Lba, Offset, block_sz
  <2> QED
    BY <1>1, <2>1 DEF Card
<1>14. Data'
  <2>1. Arrived' = size /\ Gone' = 0 /\ msc.stage = "DATA"
    BY <1>1, InCall DEF Arrived, Gone, InCallback
  <2>2. HostRun(moved', 0) /\ Len(moved') = msc.xferred_len + (IF Done' THEN size ELSE 0)
    <3>1. CASE moved' = moved \o msc.buf /\ ret' = "OK"
      <4>1. /\ Len(moved') = msc.xferred_len + size
            /\ \A i \in 1 .. Len(moved') :
                 moved'[i] = IF i <= Len(moved) THEN moved[i] ELSE msc.buf[i - Len(moved)]
        <5>1. /\ Len(moved \o msc.buf) = Len(moved) + Len(msc.buf)
              /\ \A i \in 1 .. Len(moved \o msc.buf) :
                   (moved \o msc.buf)[i]
                     = IF i <= Len(moved) THEN moved[i] ELSE msc.buf[i - Len(moved)]
          BY <1>7, ConcatProperties, Zenon
        <5>2. Len(moved) + Len(msc.buf) = msc.xferred_len + size
          BY <1>7
        <5> QED
          BY <3>1, <5>1, <5>2, Zenon
      <4>2. ASSUME NEW i \in 1 .. Len(moved')
            PROVE  moved'[i] = HostByte(0 + i)
        <5>1. CASE i <= Len(moved)
          <6>1. i \in 1 .. Len(moved) /\ moved'[i] = moved[i]
            BY <1>7, <1>8, <4>1, <5>1
          <6> QED
            BY <1>7, <6>1 DEF HostRun
        <5>2. CASE ~(i <= Len(moved))
          <6> DEFINE j == i - msc.xferred_len
          <6>1. j \in 1 .. size /\ msc.xferred_len + j = 0 + i
            BY <1>7, <1>8, <4>1, <5>2
          <6>2. moved'[i] = msc.buf[j]
            BY <1>7, <4>1, <5>2
          <6> HIDE DEF j
          <6> QED
            BY <1>7, <6>1, <6>2 DEF HostRun
        <5> QED
          BY <5>1, <5>2
      <4> QED
        BY <1>1, <3>1, <4>1, <4>2 DEF HostRun, Done
    <3>2. CASE moved' = moved /\ ret' = "ERROR"
      BY <1>7, <1>8, <3>2 DEF Done
    <3> QED
      BY <1>10, <3>1, <3>2
  <2>3. WriteData'
    BY <1>1, <1>7, <2>1, <2>2 DEF WriteData, Active, HostRun
  <2>4. ReadData'
    BY <1>1 DEF ReadData
  <2> QED
    BY <1>1, <2>3, <2>4 DEF UsbInv, Data, HostRun
<1> QED
  BY <1>6, <1>12, <1>13, <1>14 DEF UsbInv
-----------------------------------------------------------------------------
(* What the host does leaves the card as it was.                           *)
LEMMA CardKept ==
  ASSUME UsbInv, UNCHANGED <<pc, size, ret, msc_sector, sd2_ready, sd2_io_mutex, disk, shell>>,
         Kept(msc, msc')
  PROVE  Card'
<1>1. Lba(msc') = Lba(msc) /\ Offset(msc') = Offset(msc)
  BY DEF Lba, Offset, block_sz, Kept
<1>2. (InRange <=> InRange') /\ (NeedsSector <=> NeedsSector') /\ (Locked <=> Locked')
  BY <1>1 DEF InRange, NeedsSector, Locked, Kept
<1> QED
  BY <1>1, <1>2 DEF UsbInv, Card, Kept

(* An endpoint that the host may serve: the device waits on it, and no     *)
(* event but a cleared halt is on its way.                                 *)
LEMMA Armed ==
  ASSUME UsbInv, NEW d \in {"in", "out"}, msc.ep[d].kind # "none", host.at # "enum"
  PROVE  /\ pc = "idle" /\ Waiting(msc) /\ InFlight(msc.ep[d]) /\ ~Locked /\ ~Done
         /\ \A i \in 1 .. Len(queue) : queue[i].ev = "clear"
         /\ Listening(msc) \/ Sending(msc) \/ Taking(msc) \/ Reporting(msc)
         /\ ~Reporting(msc) => queue = << >>
         /\ Arrived = 0 /\ Gone = 0 /\ (InBuffer <=> msc.stage = "DATA")
<1>1. pc = "idle" /\ ~Locked /\ ~Done
  BY DEF UsbInv, Device, InCallback, Free, Locked, Done
<1>2. Waiting(msc)
  BY <1>1 DEF UsbInv, Device, Cleared, NoTransfer, Lost, Free
<1>3. InFlight(msc.ep[d]) /\ (Listening(msc) \/ Sending(msc) \/ Taking(msc) \/ Reporting(msc))
  BY <1>2 DEF Waiting, Listening, Deaf, Sending, Taking, Silent, Reporting, Free, InFlight, Halted
<1>4. ~HeadIs("xfer", "in") /\ ~HeadIs("xfer", "out")
  <2>1. CASE d = "in"
    BY <1>1, <1>3, <2>1 DEF UsbInv, Events, Completion,
                            Listening, Sending, Taking, Reporting, Free, InFlight, Halted
  <2>2. CASE d = "out"
    BY <1>1, <1>3, <2>2 DEF UsbInv, Events, Completion,
                            Listening, Sending, Taking, Reporting, Free, InFlight, Halted
  <2> QED
    BY <2>1, <2>2
<1>5. ASSUME NEW i \in 1 .. Len(queue)
      PROVE  queue[i].ev = "clear"
  <2>1. queue[i] \in EventType /\ Len(queue) \in Nat /\ queue # << >>
    BY LenProperties, EmptySeq DEF UsbInv, Types
  <2>2. queue[i].ev \notin {"reset", "config"}
    BY DEF UsbInv, Events, EventOrder
  <2>3. queue[i].ev # "xfer"
    BY <1>4, <2>1 DEF UsbInv, Events, EventOrder, HeadIs
  <2> QED
    BY <2>1, <2>2, <2>3 DEF EventType
<1>6. ~Reporting(msc) => queue = << >>
  <2> SUFFICES ASSUME ~Reporting(msc)
               PROVE  queue = << >>
    OBVIOUS
  <2>1. ~Halted(msc.ep.in) /\ ~Halted(msc.ep.out)
    BY <1>3 DEF Listening, Sending, Taking, Free, InFlight, Halted
  <2>2. Len(queue) \in Nat /\ \A i \in 1 .. Len(queue) : FALSE
    BY <1>5, <2>1, NoClear, LenProperties DEF UsbInv, Types
  <2>3. Len(queue) = 0
    BY <2>2
  <2> QED
    BY <2>3, EmptySeq DEF UsbInv, Types
<1>7. Arrived = 0 /\ Gone = 0 /\ (InBuffer <=> msc.stage = "DATA")
  BY <1>1, <1>2, <1>4, NotLost DEF Arrived, Gone, InBuffer
<1> QED
  BY <1>1, <1>2, <1>3, <1>5, <1>6, <1>7

(* The queue of one event.                                                 *)
LEMMA OneEvent ==
  ASSUME UsbInv, NEW e \in EventType, queue = << >>, Sees(e)
  PROVE  /\ queue' \in Seq(EventType) /\ Len(queue') = 1 /\ queue'[1] = e /\ queue' # << >>
         /\ \A i \in 1 .. Len(queue') : i = 1 /\ queue'[i] = e
<1>1. Len(queue) = 0 /\ queue \in Seq(EventType)
  BY DEF UsbInv, Types
<1>2. /\ queue' \in Seq(EventType) /\ Len(queue') = 0 + 1 /\ queue'[0 + 1] = e /\ queue' # << >>
  BY <1>1, AppendIs DEF Sees
<1> QED
  BY <1>2

(* The host serves an endpoint.                                            *)
LEMMA HostServes ==
  ASSUME UsbInv, NEW d \in {"in", "out"}, NEW e \in EventType,
         msc.ep[d].kind # "none", host.at # "enum", queue = << >>,
         Sees(e), e.ev = "xfer", e.ep = d,
         UNCHANGED <<pc, size, ret, msc_sector, sd2_ready, sd2_io_mutex, disk, shell, moved>>,
         host' \in HostType, host'.at # "enum",
         NEW b \in Seq(Cell), Len(b) <= BlockSize, msc' = [Taken(d) EXCEPT !.buf = b],
         Sending(msc) => b = msc.buf,
         d = "in" /\ msc.stage = "DATA" => e.n = msc.ep.in.len,
         d = "out" /\ msc.stage = "CMD" => e.cmd \in Commands,
         d = "out" /\ msc.stage = "DATA" => e.n \in 1 .. msc.ep.out.len
  PROVE  /\ Types' /\ Card' /\ Device' /\ Events'
         /\ Kept(msc, msc') /\ msc'.stage = msc.stage /\ msc'.status = msc.status /\ msc'.buf = b
         /\ HeadIs("xfer", d)' /\ queue'[1] = e
         /\ d = "in" => ~HeadIs("xfer", "out")'
         /\ d = "out" => ~HeadIs("xfer", "in")'
         /\ ~Done'
<1>1. /\ pc = "idle" /\ Waiting(msc) /\ InFlight(msc.ep[d]) /\ ~Locked /\ ~Done
      /\ Listening(msc) \/ Sending(msc) \/ Taking(msc) \/ Reporting(msc)
  BY Armed
<1>2. /\ queue' \in Seq(EventType) /\ Len(queue') = 1 /\ queue'[1] = e /\ queue' # << >>
      /\ \A i \in 1 .. Len(queue') : i = 1 /\ queue'[i] = e
  BY OneEvent
<1>3. /\ msc' \in Msc /\ Kept(msc, msc') /\ msc'.stage = msc.stage /\ msc'.status = msc.status
      /\ msc'.residue = msc.residue /\ msc'.sense = msc.sense /\ msc'.buf = b
      /\ InFlight(msc'.ep[d]) /\ msc'.ep[d].kind = "none" /\ msc'.ep[d].len = msc.ep[d].len
      /\ d = "in" => msc'.ep.out = msc.ep.out
      /\ d = "out" => msc'.ep.in = msc.ep.in
  <2>1. msc \in Msc
    BY DEF UsbInv, Types
  <2>2. CASE d = "in"
    BY <1>1, <2>1, <2>2 DEF Taken, Msc, Endpoint, Kept, InFlight
  <2>3. CASE d = "out"
    BY <1>1, <2>1, <2>3 DEF Taken, Msc, Endpoint, Kept, InFlight
  <2> QED
    BY <2>2, <2>3
<1>4. /\ d = "in" => ~InFlight(msc.ep.out)
      /\ d = "out" => ~InFlight(msc.ep.in)
  BY <1>1 DEF Listening, Sending, Taking, Reporting, Free, InFlight, Halted
<1>5. Types'
  BY <1>2, <1>3 DEF UsbInv, Types
<1>6. Card'
  BY <1>3, CardKept
<1>7. Device'
  <2>1. Waiting(msc')
    <3>1. CASE d = "in"
      BY <1>1, <1>3, <3>1 DEF Listening, Sending, Taking, Reporting, Free, InFlight, Halted,
                              Waiting, Kept, Left
    <3>2. CASE d = "out"
      BY <1>1, <1>3, <3>2 DEF Listening, Sending, Taking, Reporting, Free, InFlight, Halted,
                              Waiting, Kept, Left
    <3> QED
      BY <3>1, <3>2
  <2>2. msc'.stage # "CMD" => Lengths(msc')
    BY <1>3 DEF UsbInv, Device, Lengths, Left, Kept
  <2> QED
    BY <1>1, <1>3, <2>1, <2>2 DEF UsbInv, Device
<1>8. /\ HeadIs("xfer", d)'
      /\ d = "in" => ~HeadIs("xfer", "out")'
      /\ d = "out" => ~HeadIs("xfer", "in")'
  BY <1>2 DEF HeadIs
<1>9. Events'
  <2>1. EventOrder' /\ ClearsOnce' /\ ClearsHalted'
    BY <1>2 DEF EventOrder, ClearsOnce, ClearsHalted
  <2>2. Enumerating'
    BY <1>3 DEF Enumerating, Cleared, NoTransfer, InFlight
  <2>3. Completion'
    <3>1. CASE d = "in"
      BY <1>2, <1>3, <1>4, <1>8, <3>1 DEF Completion
    <3>2. CASE d = "out"
      BY <1>2, <1>3, <1>4, <1>8, <3>2 DEF Completion
    <3> QED
      BY <3>1, <3>2
  <2> QED
    BY <2>1, <2>2, <2>3 DEF Events
<1> QED
  BY <1>1, <1>2, <1>3, <1>5, <1>6, <1>7, <1>8, <1>9 DEF Done
-----------------------------------------------------------------------------
(* The events the host causes are events.                                  *)
LEMMA EventIn ==
  ASSUME NEW ev \in {"xfer", "clear", "reset", "config"}, NEW ep \in {"in", "out", "none"},
         NEW n \in Nat, NEW c \in Commands \cup {NoCommand}
  PROVE  /\ Event(ev, ep, n, c) \in EventType
         /\ Event(ev, ep, n, c).ev = ev /\ Event(ev, ep, n, c).ep = ep
         /\ Event(ev, ep, n, c).n = n /\ Event(ev, ep, n, c).cmd = c
BY DEF Event, EventType

(* A command of the host keeps it.                                         *)
LEMMA HostCommandKeeps ==
  ASSUME UsbInv, NEW c \in Commands, HostCommand(c)
  PROVE  UsbInv'
<1> DEFINE e == Event("xfer", "out", 0, c)
           b == << >>
<1>1. /\ host.at = "idle" /\ msc.ep.out.kind = "cbw" /\ Sees(e)
      /\ msc' = [Taken("out") EXCEPT !.buf = b]
      /\ UNCHANGED <<pc, size, ret, msc_sector, sd2_ready, sd2_io_mutex, disk, shell, moved>>
  BY DEF HostCommand
<1>2. /\ host'.at \in {"status", "in", "out"} /\ host'.cmd = c /\ host'.sent = << >> /\ host'.got = << >>
      /\ host' \in HostType
  <2>1. /\ host' = [at |-> IF c.total = 0 THEN "status" ELSE c.dir,
                    cmd |-> c, sent |-> << >>, got |-> << >>]
        /\ c.dir \in {"in", "out"}
    BY UsbAssumption DEF HostCommand
  <2> QED
    BY <2>1, EmptySeq DEF HostType
<1>3. e \in EventType /\ e.ev = "xfer" /\ e.ep = "out" /\ e.cmd = c
  BY EventIn
<1>4. msc.stage = "CMD" /\ queue = << >> /\ Listening(msc) /\ pc = "idle"
  BY <1>1, Armed DEF Listening, Sending, Taking, Reporting, Free, Halted
<1>5. b \in Seq(Cell) /\ Len(b) <= BlockSize /\ Len(b) = 0
  BY UsbAssumption, EmptySeq
<1> HIDE DEF e, b
<1>6. /\ Types' /\ Card' /\ Device' /\ Events' /\ msc'.stage = "CMD"
      /\ HeadIs("xfer", "out")' /\ queue'[1] = e /\ ~Done'
  BY <1>1, <1>2, <1>3, <1>4, <1>5, HostServes DEF Listening, Sending
<1>7. InStep'
  BY <1>2, <1>3, <1>6 DEF InStep
<1>8. Data'
  <2>1. HostRun(host.sent, 0)'
    BY <1>2, EmptySeq DEF HostRun
  <2> QED
    BY <1>6, <2>1 DEF Data, WriteData, ReadData
<1> QED
  BY <1>6, <1>7, <1>8 DEF UsbInv

(* A packet of the host, whole or short, keeps it.                         *)
LEMMA HostSendsKeeps ==
  ASSUME UsbInv, NEW n \in 1 .. BlockSize, HostSends(n)
  PROVE  UsbInv'
<1> DEFINE packet == [i \in 1 .. n |-> HostByte(Len(host.sent) + i)]
           sent == host.sent \o packet
           e == Event("xfer", "out", n, NoCommand)
           b == SubSeq(sent, Len(host.sent) + 1, Len(sent))
<1>1. /\ host.at = "out" /\ msc.ep.out.kind = "data" /\ n \in 1 .. msc.ep.out.len /\ Sees(e)
      /\ host' = [host EXCEPT !.sent = sent,
                              !.at = IF Len(sent) = host.cmd.total THEN "status" ELSE @]
      /\ msc' = [Taken("out") EXCEPT !.buf = b]
      /\ UNCHANGED <<pc, size, ret, msc_sector, sd2_ready, sd2_io_mutex, disk, shell, moved>>
  BY DEF HostSends
<1>2. /\ pc = "idle" /\ queue = << >> /\ Taking(msc) /\ msc.stage = "DATA"
      /\ Arrived = 0 /\ Gone = 0
  BY <1>1, Armed DEF Listening, Sending, Taking, Reporting, Free, Halted
<1>3. /\ n \in Nat /\ n <= BlockSize /\ BlockSize \in Nat /\ host \in HostType
      /\ host.sent \in Seq(Cell) /\ Len(host.sent) \in Nat /\ msc.xferred_len \in Nat
  BY UsbAssumption, LenProperties DEF UsbInv, Types, HostType, Msc
<1>4. packet \in Seq(Cell) /\ Len(packet) = n
      /\ \A i \in 1 .. n : packet[i] = HostByte(Len(host.sent) + i)
  <2>1. \A i \in 1 .. n : HostByte(Len(host.sent) + i) \in Cell
    BY <1>3 DEF HostByte, Cell
  <2> QED
    BY <1>3, <2>1
<1> HIDE DEF packet
<1>5. /\ sent \in Seq(Cell) /\ Len(sent) = Len(host.sent) + n
      /\ \A i \in 1 .. Len(host.sent) + n : sent[i] = HostByte(i)
  <2>1. /\ sent \in Seq(Cell) /\ Len(sent) = Len(host.sent) + n
        /\ \A i \in 1 .. Len(host.sent) + n :
             sent[i] = IF i <= Len(host.sent) THEN host.sent[i] ELSE packet[i - Len(host.sent)]
    BY <1>3, <1>4, ConcatProperties
  <2>2. ASSUME NEW i \in 1 .. Len(host.sent) + n
        PROVE  sent[i] = HostByte(i)
    <3>1. CASE i <= Len(host.sent)
      <4>1. sent[i] = host.sent[i] /\ i \in 1 .. Len(host.sent) /\ 0 + i = i
        BY <1>3, <2>1, <3>1
      <4>2. host.sent[i] = HostByte(0 + i)
        BY <4>1 DEF UsbInv, Data, HostRun
      <4> QED
        BY <4>1, <4>2
    <3>2. CASE ~(i <= Len(host.sent))
      <4> DEFINE j == i - Len(host.sent)
      <4>1. j \in 1 .. n /\ Len(host.sent) + j = i
        BY <1>3, <3>2
      <4>2. sent[i] = packet[j]
        BY <2>1, <3>2
      <4> HIDE DEF j
      <4> QED
        BY <1>4, <4>1, <4>2
    <3> QED
      BY <3>1, <3>2
  <2> QED
    BY <2>1, <2>2
<1> HIDE DEF sent
<1>6. /\ b \in Seq(Cell) /\ Len(b) = n
      /\ \A i \in 1 .. n : b[i] = HostByte(Len(host.sent) + i)
  <2>1. \A i \in Len(host.sent) + 1 .. Len(sent) : sent[i] \in Cell
    BY <1>3, <1>5
  <2>2. /\ b \in Seq(Cell) /\ Len(b) = n
        /\ \A i \in 1 .. n : b[i] = sent[Len(host.sent) + 1 + i - 1]
    BY <1>3, <1>5, <2>1, SubSeqProperties
  <2>3. ASSUME NEW i \in 1 .. n
        PROVE  b[i] = HostByte(Len(host.sent) + i)
    <3>1. Len(host.sent) + 1 + i - 1 = Len(host.sent) + i
          /\ Len(host.sent) + i \in 1 .. Len(host.sent) + n
      BY <1>3
    <3> QED
      BY <1>5, <2>2, <3>1
  <2> QED
    BY <2>2, <2>3
<1>7. /\ host' \in HostType /\ host'.at \in {"out", "status"} /\ host'.cmd = host.cmd
      /\ host'.sent = sent /\ host'.got = host.got
  BY <1>1, <1>3, <1>5 DEF HostType
<1>8. e \in EventType /\ e.ev = "xfer" /\ e.ep = "out" /\ e.n = n
  BY <1>3, EventIn
<1> HIDE DEF e, b
<1>9. /\ Types' /\ Card' /\ Device' /\ Events' /\ msc'.stage = "DATA" /\ Kept(msc, msc')
      /\ msc'.buf = b /\ HeadIs("xfer", "out")' /\ queue'[1] = e /\ ~Done'
      /\ msc'.status = msc.status
  BY <1>1, <1>2, <1>3, <1>6, <1>7, <1>8, HostServes DEF Taking, Sending, Free, InFlight
<1>10. InStep'
  BY <1>1, <1>2, <1>7, <1>9 DEF UsbInv, InStep, Kept
<1>11. Data'
  <2>1. HostRun(host.sent, 0)'
    <3>1. ASSUME NEW i \in 1 .. Len(sent)
          PROVE  sent[i] = HostByte(0 + i)
      <4>1. i \in 1 .. Len(host.sent) + n /\ 0 + i = i
        BY <1>3, <1>5
      <4> QED
        BY <1>5, <4>1
    <3> QED
      BY <1>7, <3>1 DEF HostRun
  <2>2. WriteData'
    <3> SUFFICES ASSUME msc.cbw.op = "write"
                 PROVE  /\ HostRun(moved', 0) /\ Len(moved') = msc.xferred_len + 0
                        /\ Len(b) = n /\ HostRun(b, msc.xferred_len)
                        /\ Len(host'.sent) = msc.xferred_len + n
      <4>1. Arrived' = n
        BY <1>1, <1>2, <1>8, <1>9 DEF Arrived
      <4> QED
        BY <1>9, <4>1 DEF WriteData, Kept, HostRun
    <3>1. Len(host.sent) = msc.xferred_len + 0
      BY <1>1, <1>2, Armed, NotLost DEF UsbInv, Data, WriteData
    <3>2. HostRun(moved', 0) /\ Len(moved') = msc.xferred_len + 0
      BY <1>1, <1>2 DEF UsbInv, Data, WriteData, Done, HostRun
    <3>3. Len(host.sent) = msc.xferred_len
      BY <1>3, <3>1
    <3> QED
      BY <1>5, <1>6, <1>7, <3>2, <3>3 DEF HostRun
  <2>3. ReadData'
    BY <1>2, <1>9 DEF ReadData, Taking, Kept
  <2> QED
    BY <2>1, <2>2, <2>3 DEF Data
<1> QED
  BY <1>9, <1>10, <1>11 DEF UsbInv

(* A packet taken by the host keeps it.                                    *)
LEMMA HostReceivesKeeps ==
  ASSUME UsbInv, HostReceives
  PROVE  UsbInv'
<1> DEFINE n == msc.ep.in.len
           got == host.got \o SubSeq(msc.buf, 1, n)
           e == Event("xfer", "in", n, NoCommand)
<1>1. /\ host.at = "in" /\ msc.ep.in.kind = "data" /\ Sees(e)
      /\ host' = [host EXCEPT !.got = got,
                   !.at = IF Len(got) = host.cmd.total \/ n < BlockSize THEN "status" ELSE @]
      /\ msc' = Taken("in")
      /\ UNCHANGED <<pc, size, ret, msc_sector, sd2_ready, sd2_io_mutex, disk, shell, moved>>
  BY DEF HostReceives
<1>2. /\ pc = "idle" /\ queue = << >> /\ Sending(msc) /\ msc.stage = "DATA"
      /\ Arrived = 0 /\ Gone = 0 /\ InBuffer /\ ~Done
  BY <1>1, Armed DEF Listening, Sending, Taking, Reporting, Free, Halted
<1>3. /\ msc \in Msc /\ msc.buf \in Seq(Cell) /\ Len(msc.buf) <= BlockSize /\ n = Len(msc.buf)
      /\ n \in Nat /\ host \in HostType /\ host.got \in Seq(Cell) /\ msc.xferred_len \in Nat
  BY <1>2, LenProperties DEF UsbInv, Types, HostType, Msc, Sending
<1>4. got = host.got \o msc.buf /\ got \in Seq(Cell) /\ Len(got) = Len(host.got) + n
  <2>1. SubSeq(msc.buf, 1, n) = msc.buf
    BY <1>3, SubSeqFull
  <2>2. got = host.got \o msc.buf
    BY <2>1
  <2> HIDE DEF got
  <2> QED
    BY <1>3, <2>2, ConcatProperties
<1>5. msc' = [Taken("in") EXCEPT !.buf = msc.buf]
  <2>1. CASE TRUE
    BY <1>1, <1>3 DEF Taken, Msc
  <2> QED
    BY <2>1
<1> HIDE DEF got
<1>6. /\ host' \in HostType /\ host'.at \in {"in", "status"} /\ host'.cmd = host.cmd
      /\ host'.sent = host.sent /\ host'.got = got
  BY <1>1, <1>3, <1>4 DEF HostType
<1>7. e \in EventType /\ e.ev = "xfer" /\ e.ep = "in" /\ e.n = n
  BY <1>3, EventIn
<1> HIDE DEF e
<1>8. /\ Types' /\ Card' /\ Device' /\ Events' /\ msc'.stage = "DATA" /\ Kept(msc, msc')
      /\ HeadIs("xfer", "in")' /\ queue'[1] = e /\ ~Done' /\ msc'.buf = msc.buf
  BY <1>1, <1>2, <1>3, <1>5, <1>6, <1>7, HostServes
<1>9. InStep'
  BY <1>1, <1>2, <1>6, <1>8 DEF UsbInv, InStep, Kept
<1>10. Data'
  <2>1. HostRun(host.sent, 0)'
    BY <1>6 DEF UsbInv, Data, HostRun
  <2>2. WriteData'
    BY <1>2, <1>8 DEF WriteData, Sending, Kept
  <2>3. ReadData'
    <3> SUFFICES ASSUME msc.cbw.op = "read"
                 PROVE  Len(got) = msc.xferred_len + n /\ moved = got
      <4>1. Gone' = n /\ ~InBuffer'
        BY <1>1, <1>2, <1>7, <1>8 DEF Gone, InBuffer
      <4> QED
        BY <1>1, <1>6, <1>8, <4>1 DEF ReadData, Kept
    <3>1. Len(host.got) = msc.xferred_len + 0 /\ moved = host.got \o msc.buf
      BY <1>1, <1>2 DEF UsbInv, Data, ReadData
    <3>2. Len(host.got) = msc.xferred_len
      BY <1>3, <3>1
    <3> QED
      BY <1>4, <3>1, <3>2
  <2> QED
    BY <2>1, <2>2, <2>3 DEF Data
<1> QED
  BY <1>8, <1>9, <1>10 DEF UsbInv

(* A status taken by the host keeps it.                                    *)
LEMMA HostStatusKeeps ==
  ASSUME UsbInv, HostStatus
  PROVE  UsbInv'
<1> DEFINE e == Event("xfer", "in", 0, NoCommand)
<1>1. /\ host.at = "status" /\ msc.ep.in.kind = "csw" /\ Sees(e) /\ ~ControlPending
      /\ host' = [Idle EXCEPT !.at = "idle"] /\ msc' = Taken("in")
      /\ UNCHANGED <<pc, size, ret, msc_sector, sd2_ready, sd2_io_mutex, disk, shell, moved>>
  BY DEF HostStatus
<1>2. /\ pc = "idle" /\ Reporting(msc) /\ msc.stage = "STATUS_SENT" /\ ~Done
      /\ \A i \in 1 .. Len(queue) : queue[i].ev = "clear"
  BY <1>1, Armed DEF Listening, Sending, Taking, Reporting, Free, Halted
<1>3. queue = << >>
  <2>1. Len(queue) \in Nat /\ \A i \in 1 .. Len(queue) : FALSE
    BY <1>1, <1>2, LenProperties DEF ControlPending, UsbInv, Types
  <2>2. Len(queue) = 0
    BY <2>1
  <2> QED
    BY <2>2, EmptySeq DEF UsbInv, Types
<1>4. msc \in Msc /\ msc.buf \in Seq(Cell) /\ Len(msc.buf) <= BlockSize /\ msc.xferred_len \in Nat
  BY DEF UsbInv, Types, Msc
<1>5. msc' = [Taken("in") EXCEPT !.buf = msc.buf]
  BY <1>1, <1>4 DEF Taken, Msc
<1>6. host' \in HostType /\ host'.at = "idle" /\ host'.sent = << >> /\ host'.got = << >>
  <2>1. host' = [at |-> "idle", cmd |-> NoCommand, sent |-> << >>, got |-> << >>]
    BY <1>1 DEF Idle
  <2> QED
    BY <2>1, EmptySeq DEF HostType
<1>7. e \in EventType /\ e.ev = "xfer" /\ e.ep = "in"
  BY EventIn
<1> HIDE DEF e
<1>8. /\ Types' /\ Card' /\ Device' /\ Events' /\ msc'.stage = "STATUS_SENT" /\ Kept(msc, msc')
      /\ HeadIs("xfer", "in")' /\ ~Done'
  BY <1>1, <1>2, <1>3, <1>4, <1>5, <1>6, <1>7, HostServes
<1>9. InStep'
  BY <1>6, <1>8 DEF InStep
<1>10. Data'
  <2>1. HostRun(host.sent, 0)'
    BY <1>6, EmptySeq DEF HostRun
  <2>2. WriteData'
    BY <1>1, <1>2, <1>6, <1>8 DEF UsbInv, Data, WriteData, Kept, HostRun
  <2>3. ReadData'
    BY <1>6, <1>8 DEF ReadData
  <2> QED
    BY <2>1, <2>2, <2>3 DEF Data
<1> QED
  BY <1>8, <1>9, <1>10 DEF UsbInv
-----------------------------------------------------------------------------
(* A halt the host clears keeps it.                                        *)
LEMMA HostClearsKeeps ==
  ASSUME UsbInv, NEW d \in {"in", "out"}, HostClears(d)
  PROVE  UsbInv'
<1> DEFINE e == Event("clear", d, 0, NoCommand)
<1>1. /\ msc.ep[d].stalled /\ ~ControlPending /\ host.at \in {d, "status", "idle"} /\ Sees(e)
      /\ host' = [host EXCEPT !.at = IF @ = d THEN "status" ELSE @]
      /\ UNCHANGED <<msc, pc, size, ret, msc_sector, sd2_ready, sd2_io_mutex, disk, shell, moved>>
  BY DEF HostClears, task
<1>2. pc = "idle" /\ ~Done
  BY <1>1 DEF UsbInv, Device, InCallback, Free, Done
<1>3. Waiting(msc) /\ msc # Cleared
  BY <1>1, <1>2 DEF UsbInv, Device, Cleared, NoTransfer, Lost, Free
<1>4. Halted(msc.ep[d])
  BY <1>1, <1>3 DEF Waiting, Listening, Deaf, Sending, Taking, Silent, Reporting,
                    Free, InFlight, Halted
<1>5. /\ host' \in HostType /\ host.at # "enum" /\ host'.at # "enum" /\ host'.cmd = host.cmd
      /\ host'.sent = host.sent /\ host'.got = host.got
      /\ host'.at = "idle" <=> host.at = "idle"
      /\ (Active <=> Active')
  BY <1>1 DEF UsbInv, Types, HostType, Active
<1>6. e \in EventType /\ e.ev = "clear" /\ e.ep = d
  BY EventIn
<1> HIDE DEF e
<1>7. /\ queue' \in Seq(EventType) /\ Len(queue) \in Nat /\ Len(queue') = Len(queue) + 1
      /\ \A i \in 1 .. Len(queue) : queue'[i] = queue[i]
      /\ queue'[Len(queue) + 1] = e /\ queue' # << >>
  BY <1>1, <1>6, AppendIs DEF UsbInv, Types, Sees
<1>8. \A i \in 1 .. Len(queue) : /\ queue[i] \in EventType
                                 /\ queue[i].ev \notin {"clear", "reset", "config"}
  BY <1>1, <1>5, <1>7 DEF ControlPending, UsbInv, Types, Events, EventOrder
<1>9. \A i \in 1 .. Len(queue') : i \in 1 .. Len(queue) \/ (i = Len(queue) + 1 /\ queue'[i] = e)
  BY <1>7
<1>10. /\ HeadIs("xfer", "in") <=> HeadIs("xfer", "in")'
       /\ HeadIs("xfer", "out") <=> HeadIs("xfer", "out")'
       /\ queue # << >> => queue'[1] = queue[1]
  <2>1. CASE queue = << >>
    <3>1. Len(queue) = 0
      BY <2>1
    <3>2. queue'[1] = e
      BY <1>7, <3>1
    <3> QED
      BY <1>6, <2>1, <3>2 DEF HeadIs
  <2>2. CASE queue # << >>
    <3>1. 1 \in 1 .. Len(queue)
      BY <1>7, <2>2, EmptySeq DEF UsbInv, Types
    <3>2. queue'[1] = queue[1]
      BY <1>7, <3>1
    <3> QED
      BY <1>7, <2>2, <3>2 DEF HeadIs
  <2> QED
    BY <2>1, <2>2
<1>11. Types'
  BY <1>1, <1>5, <1>7 DEF UsbInv, Types
<1>12. Card'
  BY <1>1, CardKept DEF Kept
<1>13. Device'
  BY <1>1, <1>2, <1>3 DEF UsbInv, Device
<1>14. Events'
  <2>1. EventOrder'
    <3> SUFFICES ASSUME NEW i \in 1 .. Len(queue')
                 PROVE  /\ queue'[i].ev = "xfer" => i = 1 /\ queue'[i].ep \in {"in", "out"}
                        /\ queue'[i].ev = "clear" => queue'[i].ep \in {"in", "out"}
                        /\ queue'[i].ev \notin {"reset", "config"}
      BY DEF EventOrder
    <3>1. CASE i \in 1 .. Len(queue)
      BY <1>7, <1>8, <3>1 DEF UsbInv, Events, EventOrder
    <3>2. CASE queue'[i] = e
      BY <1>6, <3>2
    <3> QED
      BY <1>9, <3>1, <3>2
  <2>2. ClearsOnce'
    BY <1>7, <1>8, <1>9 DEF ClearsOnce
  <2>3. ClearsHalted'
    BY <1>1, <1>4, <1>6, <1>7, <1>8, <1>9 DEF ClearsHalted
  <2>4. Enumerating'
    BY <1>1, <1>3, <1>5 DEF Enumerating
  <2>5. Completion'
    BY <1>1, <1>5, <1>10 DEF UsbInv, Events, Completion, HeadIs
  <2> QED
    BY <2>1, <2>2, <2>3, <2>4, <2>5 DEF Events
<1>15. InStep'
  BY <1>1, <1>5, <1>10 DEF UsbInv, InStep, HeadIs, Active
<1>16. Data'
  <2>1. ~Done' /\ Arrived' = Arrived /\ Gone' = Gone /\ (InBuffer <=> InBuffer')
    BY <1>1, <1>2, <1>10 DEF Done, Arrived, Gone, InBuffer, HeadIs
  <2>2. WriteData'
    BY <1>1, <1>2, <1>5, <1>10, <2>1 DEF UsbInv, Data, WriteData, HostRun, Active
  <2>3. ReadData'
    BY <1>1, <1>2, <1>5, <2>1 DEF UsbInv, Data, ReadData, Active
  <2> QED
    BY <1>5, <2>2, <2>3 DEF UsbInv, Data, HostRun
<1> QED
  BY <1>11, <1>12, <1>13, <1>14, <1>15, <1>16 DEF UsbInv

(* A data stage the host gives up keeps it.                                *)
LEMMA HostSkipsKeeps ==
  ASSUME UsbInv, HostSkips
  PROVE  UsbInv'
<1>1. /\ host.at = "out" /\ host' = [host EXCEPT !.at = "status"]
      /\ UNCHANGED <<msc, queue, pc, size, ret, msc_sector, sd2_ready, sd2_io_mutex, disk, shell, moved>>
  BY DEF HostSkips, task
<1>2. /\ host' \in HostType /\ host'.at = "status" /\ host'.cmd = host.cmd
      /\ host'.sent = host.sent /\ host'.got = host.got
  BY <1>1 DEF UsbInv, Types, HostType
<1>3. Types'
  BY <1>1, <1>2 DEF UsbInv, Types
<1>4. Card'
  BY <1>1, CardKept DEF Kept
<1>5. Device'
  BY <1>1 DEF UsbInv, Device, InCallback
<1>6. Events'
  <2>1. EventOrder' /\ ClearsOnce' /\ ClearsHalted'
    BY <1>1, <1>2 DEF UsbInv, Events, EventOrder, ClearsOnce, ClearsHalted
  <2>2. Enumerating' /\ Completion'
    BY <1>1, <1>2 DEF UsbInv, Events, Enumerating, Completion, HeadIs
  <2> QED
    BY <2>1, <2>2 DEF Events
<1>7. InStep'
  BY <1>1, <1>2 DEF UsbInv, InStep, HeadIs
<1>8. Data'
  <2>1. (Done <=> Done') /\ Arrived' = Arrived /\ Gone' = Gone /\ (InBuffer <=> InBuffer')
    BY <1>1 DEF Done, Arrived, Gone, InBuffer, HeadIs
  <2>2. WriteData'
    BY <1>1, <1>2, <2>1 DEF UsbInv, Data, WriteData, HostRun, HeadIs
  <2>3. ReadData'
    BY <1>1, <1>2, <2>1 DEF UsbInv, Data, ReadData
  <2> QED
    BY <1>2, <2>2, <2>3 DEF UsbInv, Data, HostRun
<1> QED
  BY <1>3, <1>4, <1>5, <1>6, <1>7, <1>8 DEF UsbInv

(* A reset by the host, at any moment, keeps it.                           *)
LEMMA HostResetsKeeps ==
  ASSUME UsbInv, HostResets
  PROVE  UsbInv'
<1> DEFINE e == Event("reset", "none", 0, NoCommand)
<1>1. /\ host.at # "enum" /\ host' = Idle /\ Sees(e)
      /\ msc' = [msc EXCEPT !.ep.in.kind = "none", !.ep.out.kind = "none"]
      /\ UNCHANGED <<pc, size, ret, msc_sector, sd2_ready, sd2_io_mutex, disk, shell, moved>>
  BY DEF HostResets
<1>2. host' \in HostType /\ host'.at = "enum" /\ host'.sent = << >>
  <2>1. host' = [at |-> "enum", cmd |-> NoCommand, sent |-> << >>, got |-> << >>]
    BY <1>1 DEF Idle
  <2> QED
    BY <2>1, EmptySeq DEF HostType
<1>3. /\ msc' \in Msc /\ Kept(msc, msc') /\ msc'.stage = msc.stage /\ msc'.status = msc.status
      /\ msc'.residue = msc.residue /\ msc'.sense = msc.sense /\ msc'.buf = msc.buf
      /\ msc'.ep.in.kind = "none" /\ msc'.ep.in.len = msc.ep.in.len
      /\ msc'.ep.out.kind = "none" /\ msc'.ep.out.len = msc.ep.out.len
      /\ Free(msc.ep.in) => Free(msc'.ep.in)
      /\ Free(msc.ep.out) => Free(msc'.ep.out)
      /\ InFlight(msc.ep.in) => InFlight(msc'.ep.in)
      /\ InFlight(msc.ep.out) => InFlight(msc'.ep.out)
      /\ Halted(msc.ep.in) => Halted(msc'.ep.in)
      /\ Halted(msc.ep.out) => Halted(msc'.ep.out)
  BY <1>1 DEF UsbInv, Types, Msc, Endpoint, Kept, Free, InFlight, Halted
<1>4. e \in EventType /\ e.ev = "reset" /\ e.ep = "none"
  BY EventIn
<1> HIDE DEF e
<1>5. /\ queue' \in Seq(EventType) /\ Len(queue) \in Nat /\ Len(queue') = Len(queue) + 1
      /\ \A i \in 1 .. Len(queue) : queue'[i] = queue[i]
      /\ queue'[Len(queue')] = e /\ queue' # << >>
  BY <1>1, <1>4, AppendIs DEF UsbInv, Types, Sees
<1>6. \A i \in 1 .. Len(queue) : /\ queue[i] \in EventType
                                 /\ queue[i].ev \notin {"reset", "config"}
  BY <1>1, <1>5 DEF UsbInv, Types, Events, EventOrder
<1>7. \A i \in 1 .. Len(queue') : i \in 1 .. Len(queue) \/ (i = Len(queue') /\ queue'[i] = e)
  BY <1>5
<1>8. /\ HeadIs("xfer", "in") <=> HeadIs("xfer", "in")'
      /\ HeadIs("xfer", "out") <=> HeadIs("xfer", "out")'
      /\ queue # << >> => queue'[1] = queue[1]
  <2>1. CASE queue = << >>
    <3>1. Len(queue) = 0
      BY <2>1
    <3>2. queue'[1] = e
      BY <1>5, <3>1
    <3> QED
      BY <1>4, <2>1, <3>2 DEF HeadIs
  <2>2. CASE queue # << >>
    <3>1. 1 \in 1 .. Len(queue)
      BY <1>5, <2>2, EmptySeq DEF UsbInv, Types
    <3>2. queue'[1] = queue[1]
      BY <1>5, <3>1
    <3> QED
      BY <1>5, <2>2, <3>2 DEF HeadIs
  <2> QED
    BY <2>1, <2>2
<1>9. Types'
  BY <1>1, <1>2, <1>3, <1>5 DEF UsbInv, Types
<1>10. Card'
  BY <1>1, <1>3, CardKept
<1>11. Device'
  <2>1. pc = "idle" => Waiting(msc') \/ Lost(msc')
    <3>1. pc = "idle" => Waiting(msc) \/ Lost(msc)
      BY <1>1 DEF UsbInv, Device, Events, Enumerating
    <3>2. Lost(msc) => Lost(msc')
      BY <1>3 DEF Lost, Kept, block_sz
    <3>3. Waiting(msc) => Waiting(msc')
      BY <1>3 DEF Waiting, Listening, Deaf, Sending, Taking, Silent, Reporting, Kept, Left
    <3> QED
      BY <3>1, <3>2, <3>3
  <2>2. pc # "idle" => InCallback'
    BY <1>1, <1>3, <1>5, <1>8 DEF UsbInv, Device, InCallback, Left, Kept, block_sz
  <2>3. msc'.stage # "CMD" => Lengths(msc')
    BY <1>3 DEF UsbInv, Device, Lengths, Left, Kept
  <2> QED
    BY <1>1, <1>3, <2>1, <2>2, <2>3 DEF UsbInv, Device
<1>12. Events'
  <2>1. EventOrder'
    <3> SUFFICES ASSUME NEW i \in 1 .. Len(queue')
                 PROVE  /\ queue'[i].ev = "xfer" => i = 1 /\ queue'[i].ep \in {"in", "out"}
                        /\ queue'[i].ev = "clear" => queue'[i].ep \in {"in", "out"}
                        /\ queue'[i].ev = "reset" => i = Len(queue') /\ queue'[i].ep = "none"
                        /\ queue'[i].ev # "config"
      BY <1>2 DEF EventOrder
    <3>1. CASE i \in 1 .. Len(queue)
      BY <1>5, <1>6, <3>1 DEF UsbInv, Events, EventOrder
    <3>2. CASE i = Len(queue') /\ queue'[i] = e
      BY <1>4, <3>2
    <3> QED
      BY <1>7, <3>1, <3>2
  <2>2. ClearsOnce'
    BY <1>4, <1>5, <1>7 DEF UsbInv, Events, ClearsOnce
  <2>3. ClearsHalted'
    <3> SUFFICES ASSUME NEW i \in 1 .. Len(queue'), queue'[i].ev = "clear"
                 PROVE  Halted(msc'.ep[queue'[i].ep])
      BY DEF ClearsHalted
    <3>1. i \in 1 .. Len(queue) /\ queue'[i] = queue[i]
      BY <1>4, <1>5, <1>7
    <3>2. Halted(msc.ep[queue[i].ep]) /\ queue[i].ep \in {"in", "out"}
      BY <3>1 DEF UsbInv, Events, ClearsHalted, EventOrder
    <3> QED
      BY <1>3, <3>1, <3>2
  <2>4. Enumerating'
    BY <1>2, <1>4, <1>5 DEF Enumerating
  <2>5. Completion'
    BY <1>1, <1>2, <1>3, <1>8 DEF UsbInv, Events, Completion, HeadIs
  <2> QED
    BY <2>1, <2>2, <2>3, <2>4, <2>5 DEF Events
<1>13. InStep'
  BY <1>2 DEF InStep
<1>14. Data'
  <2>1. HostRun(host.sent, 0)'
    BY <1>2, EmptySeq DEF HostRun
  <2>2. (Done <=> Done') /\ Arrived' = Arrived
    BY <1>1, <1>3, <1>8 DEF Done, Arrived, HeadIs
  <2>3. WriteData'
    BY <1>1, <1>2, <1>3, <1>8, <2>2 DEF UsbInv, Data, WriteData, HostRun, Kept
  <2>4. ReadData'
    BY <1>1, <1>2, <1>3, <2>2 DEF UsbInv, Data, ReadData, Kept
  <2> QED
    BY <2>1, <2>3, <2>4 DEF Data
<1> QED
  BY <1>9, <1>10, <1>11, <1>12, <1>13, <1>14 DEF UsbInv

(* A configuration by the host keeps it.                                   *)
LEMMA HostConfiguresKeeps ==
  ASSUME UsbInv, HostConfigures
  PROVE  UsbInv'
<1> DEFINE e == Event("config", "none", 0, NoCommand)
<1>1. /\ host.at = "enum" /\ queue = << >> /\ pc = "idle" /\ Sees(e)
      /\ UNCHANGED <<msc, pc, size, ret, msc_sector, sd2_ready, sd2_io_mutex, disk, host, shell, moved>>
  BY DEF HostConfigures, task
<1>2. e \in EventType /\ e.ev = "config" /\ e.ep = "none"
  BY EventIn
<1> HIDE DEF e
<1>3. /\ queue' \in Seq(EventType) /\ Len(queue') = 1 /\ queue'[1] = e /\ queue' # << >>
      /\ \A i \in 1 .. Len(queue') : i = 1 /\ queue'[i] = e
  BY <1>1, <1>2, OneEvent
<1>4. msc = Cleared
  BY <1>1 DEF UsbInv, Events, Enumerating
<1>5. ~HeadIs("xfer", "in")' /\ ~HeadIs("xfer", "out")'
  BY <1>2, <1>3 DEF HeadIs
<1>6. Types'
  BY <1>1, <1>3 DEF UsbInv, Types
<1>7. Card'
  BY <1>1, CardKept DEF Kept
<1>8. Device'
  BY <1>1 DEF UsbInv, Device
<1>9. Events'
  <2>1. EventOrder' /\ ClearsOnce' /\ ClearsHalted'
    BY <1>1, <1>2, <1>3 DEF EventOrder, ClearsOnce, ClearsHalted
  <2>2. Enumerating' /\ Completion'
    BY <1>1, <1>2, <1>3, <1>4, <1>5 DEF Enumerating, Completion
  <2> QED
    BY <2>1, <2>2 DEF Events
<1>10. InStep'
  BY <1>1 DEF InStep
<1>11. Data'
  <2>1. msc.stage = "CMD" /\ ~Done'
    BY <1>1, <1>4 DEF Cleared, Done
  <2> QED
    BY <1>1, <2>1 DEF UsbInv, Data, WriteData, ReadData, HostRun
<1> QED
  BY <1>6, <1>7, <1>8, <1>9, <1>10, <1>11 DEF UsbInv
-----------------------------------------------------------------------------
(* A step that leaves task, queue and host alone.                          *)
LEMMA QuietKeeps ==
  ASSUME UsbInv, UNCHANGED <<msc, queue, pc, size, ret, host, moved>>, Types', Card'
  PROVE  UsbInv'
<1>1. Device'
  BY DEF UsbInv, Device, InCallback
<1>2. Events'
  <2>1. EventOrder' /\ ClearsOnce' /\ ClearsHalted'
    BY DEF UsbInv, Events, EventOrder, ClearsOnce, ClearsHalted
  <2>2. Enumerating' /\ Completion'
    BY DEF UsbInv, Events, Enumerating, Completion, HeadIs
  <2> QED
    BY <2>1, <2>2 DEF Events
<1>3. InStep'
  BY DEF UsbInv, InStep, HeadIs
<1>4. Data'
  <2>1. (Done <=> Done') /\ Arrived' = Arrived /\ Gone' = Gone /\ (InBuffer <=> InBuffer')
    BY DEF Done, Arrived, Gone, InBuffer, HeadIs
  <2>2. WriteData'
    BY <2>1 DEF UsbInv, Data, WriteData, HostRun, HeadIs
  <2>3. ReadData'
    BY <2>1 DEF UsbInv, Data, ReadData
  <2> QED
    BY <2>2, <2>3 DEF UsbInv, Data, HostRun
<1> QED
  BY <1>1, <1>2, <1>3, <1>4 DEF UsbInv

(* The end of the card's initialisation keeps it (SD_InitTask).            *)
LEMMA CardInitialisedKeeps ==
  ASSUME UsbInv, CardInitialised
  PROVE  UsbInv'
<1>1. /\ sd2_ready' = TRUE
      /\ UNCHANGED <<msc, pc, size, ret, msc_sector, queue, sd2_io_mutex, disk, host, shell, moved>>
  BY DEF CardInitialised, task
<1>2. sd2_ready' \in BOOLEAN
  BY <1>1
<1>3. Types'
  BY <1>1, <1>2 DEF UsbInv, Types
<1>4. InRange => InRange'
  BY <1>1 DEF InRange, Lba, Offset, block_sz
<1>5. Card'
  BY <1>1, <1>4 DEF UsbInv, Card, Locked, NeedsSector, Lba, Offset, block_sz
<1> QED
  BY <1>1, <1>3, <1>5, QuietKeeps

(* Every step of "sd write" keeps it (sdmmc_cmd.c).                        *)
LEMMA ShellKeeps ==
  ASSUME UsbInv, Shell
  PROVE  UsbInv'
<1>1. /\ UNCHANGED <<msc, pc, size, ret, msc_sector, queue, sd2_ready, host, moved>>
  BY DEF Shell, ShellBegin, ShellLock, ShellTimeout, ShellWrite, ShellReadBack, task
<1>2. shell \in ShellType /\ disk \in [Blocks -> [Cells -> Cell]]
  BY DEF UsbInv, Types
<1>3. InRange' <=> InRange
  BY <1>1 DEF InRange, Lba, Offset, block_sz
(* What Card asks of the shell and its mutex; the task sees its own block. *)
<1>4. ASSUME shell' \in ShellType, disk' \in [Blocks -> [Cells -> Cell]],
             sd2_io_mutex' \in {"free", "usb", "shell"},
             sd2_io_mutex' = "usb" <=> sd2_io_mutex = "usb",
             sd2_io_mutex' = "shell" => shell'.at \in {"write", "read"},
             sd2_io_mutex = "shell" \/ disk' = disk
      PROVE  UsbInv'
  <2>1. Types'
    BY <1>1, <1>4 DEF UsbInv, Types
  <2>2. (Locked' <=> Locked) /\ (Locked => disk' = disk)
    BY <1>1, <1>4 DEF UsbInv, Card, Locked
  <2>3. pc = "store" => Locked
    BY DEF Locked
  <2>4. pc' = "store" /\ NeedsSector' => msc_sector' = disk'[Lba(msc')]
    BY <1>1, <2>2, <2>3 DEF UsbInv, Card, NeedsSector, Lba, Offset, block_sz
  <2>5. Card'
    BY <1>1, <1>3, <1>4, <2>2, <2>4 DEF UsbInv, Card
  <2> QED
    BY <1>1, <2>1, <2>5, QuietKeeps
<1>5. shell.blk \in Blocks /\ Pattern(shell.blk) \in [Cells -> Cell]
  BY <1>2, UsbAssumption DEF ShellType, Pattern, Cell, Blocks
<1>6. /\ sd2_io_mutex = "shell" => shell.at \in {"write", "read"}
      /\ sd2_io_mutex \in {"free", "usb", "shell"}
  BY DEF UsbInv, Card, Types
<1>7. ASSUME NEW b \in TestBlocks, ShellBegin(b)
      PROVE  UsbInv'
  <2>1. b \in Blocks
    BY UsbAssumption DEF Blocks
  <2>2. /\ shell' \in ShellType /\ shell'.at = "write"
        /\ UNCHANGED <<sd2_io_mutex, disk>> /\ shell.at = "idle"
    BY <1>7, <2>1 DEF ShellBegin, ShellType
  <2> QED
    BY <1>2, <1>4, <1>6, <2>2
<1>8. CASE ShellLock
  <2>1. /\ shell' = shell /\ disk' = disk /\ shell.at \in {"write", "read"}
        /\ sd2_io_mutex = "free" /\ sd2_io_mutex' = "shell"
    BY <1>8 DEF ShellLock
  <2> QED
    BY <1>2, <1>4, <1>6, <2>1
<1>9. ShellEnd => shell' \in ShellType /\ shell'.at = "idle"
  BY <1>2 DEF ShellEnd, ShellType
<1>10. CASE ShellTimeout
  <2>1. /\ ShellEnd /\ disk' = disk /\ sd2_io_mutex' = sd2_io_mutex /\ sd2_io_mutex = "usb"
    BY <1>10 DEF ShellTimeout
  <2> QED
    BY <1>2, <1>4, <1>6, <1>9, <2>1
<1>11. CASE ShellWrite
  <2> DEFINE stored == [disk EXCEPT ![shell.blk] = Pattern(shell.blk)]
  <2>1. /\ sd2_io_mutex = "shell" /\ sd2_io_mutex' = "free" /\ disk' \in {disk, stored}
        /\ shell' = [shell EXCEPT !.at = "read"] \/ ShellEnd
    BY <1>11 DEF ShellWrite
  <2>2. stored \in [Blocks -> [Cells -> Cell]]
    BY <1>2, <1>5
  <2> HIDE DEF stored
  <2>3. shell' \in ShellType
    BY <1>2, <1>9, <2>1 DEF ShellType
  <2> QED
    BY <1>2, <1>4, <2>1, <2>2, <2>3
<1>12. CASE ShellReadBack
  <2>1. ShellEnd /\ sd2_io_mutex = "shell" /\ sd2_io_mutex' = "free" /\ disk' = disk
    BY <1>12 DEF ShellReadBack
  <2> QED
    BY <1>2, <1>4, <1>9, <2>1
<1> QED
  BY <1>7, <1>8, <1>10, <1>11, <1>12 DEF Shell

(* The invariant holds when the USB task starts.                           *)
LEMMA UsbInit == Init => UsbInv
<1> SUFFICES ASSUME Init
             PROVE  UsbInv
  OBVIOUS
<1>1. /\ msc = Cleared /\ queue = << >> /\ pc = "idle" /\ size = 0 /\ ret = "OK"
      /\ sd2_ready = FALSE /\ sd2_io_mutex = "free"
      /\ disk = [b \in Blocks |-> [i \in Cells |-> Blank]] /\ moved = << >>
  BY DEF Init
<1>2. /\ host \in HostType /\ host.at = "enum" /\ host.sent = << >>
      /\ shell \in ShellType /\ shell.at = "idle"
  <2>1. /\ host = [at |-> "enum", cmd |-> NoCommand, sent |-> << >>, got |-> << >>]
        /\ shell = [at |-> "idle", blk |-> 0]
    BY DEF Init, Idle
  <2>2. 0 \in Blocks
    BY UsbAssumption DEF Blocks
  <2> QED
    BY <2>1, <2>2, EmptySeq DEF HostType, ShellType
<1>3. Len(<< >>) = 0
  OBVIOUS
<1>4. Types
  <2>1. disk \in [Blocks -> [Cells -> Cell]]
    BY <1>1 DEF Blank, Cell
  <2>2. sd2_ready \in BOOLEAN
    BY <1>1
  <2> QED
    BY <1>1, <1>2, <2>1, <2>2, ClearedType, EmptySeq, UsbAssumption DEF Types
<1>5. Card
  BY <1>1, <1>2 DEF Card, Locked
<1>6. Device
  BY <1>1 DEF Device, Cleared
<1>7. Events
  BY <1>1, <1>2, <1>3 DEF Events, EventOrder, ClearsOnce, ClearsHalted, Enumerating,
                          Completion, HeadIs
<1>8. InStep
  BY <1>2 DEF InStep
<1>9. Data
  <2>1. HostRun(host.sent, 0)
    BY <1>2, <1>3 DEF HostRun
  <2> QED
    BY <1>1, <2>1 DEF Data, WriteData, ReadData, Done, Cleared
<1> QED
  BY <1>4, <1>5, <1>6, <1>7, <1>8, <1>9 DEF UsbInv
-----------------------------------------------------------------------------
(* Every step of task, host, shell and card keeps the invariant.           *)
LEMMA UsbStep == UsbInv /\ [Next]_vars => UsbInv'
<1> SUFFICES ASSUME UsbInv, [Next]_vars
             PROVE  UsbInv'
  OBVIOUS
<1>1. CASE CardInitialised
  BY <1>1, CardInitialisedKeeps
<1>2. CASE UsbTask
  BY <1>2, CommandReceivedKeeps, DataReceivedKeeps, DataSentKeeps, StatusSentKeeps,
     HaltClearedKeeps, BusResetKeeps, ConfiguredKeeps, RefuseKeeps, LockKeeps, FetchKeeps,
     StoreKeeps, UnlockKeeps DEF UsbTask
<1>3. CASE Shell
  BY <1>3, ShellKeeps
<1>4. CASE HostGoesOn
  BY <1>4, HostSendsKeeps, HostReceivesKeeps, HostStatusKeeps, HostClearsKeeps,
     HostConfiguresKeeps DEF HostGoesOn
<1>5. ASSUME NEW c \in Commands, HostCommand(c)
      PROVE  UsbInv'
  BY <1>5, HostCommandKeeps
<1>6. CASE HostSkips
  BY <1>6, HostSkipsKeeps
<1>7. CASE HostResets
  BY <1>7, HostResetsKeeps
<1>8. CASE UNCHANGED vars
  <2>1. UNCHANGED <<msc, queue, pc, size, ret, msc_sector, sd2_ready, sd2_io_mutex, disk,
                    host, shell, moved>>
    BY <1>8 DEF vars
  <2>2. Types'
    BY <2>1 DEF UsbInv, Types
  <2>3. Card'
    BY <2>1, CardKept DEF Kept
  <2> QED
    BY <2>1, <2>2, <2>3, QuietKeeps
<1> QED
  BY <1>1, <1>2, <1>3, <1>4, <1>5, <1>6, <1>7, <1>8 DEF Next

(* The invariant holds of every reachable state of the USB disk            *)
(* (msc_device.c, usb_msc.c, sdmmc_cmd.c).                                 *)
THEOREM UsbInvariance == Spec => []UsbInv
<1> HIDE DEF UsbInv, Init, Next, Fairness
<1> QED BY UsbInit, UsbStep, PTL DEF Spec

(* Quotient and remainder, and the rows of a table of n columns.           *)
LEMMA DivMod ==
  ASSUME NEW x \in Nat, NEW n \in Nat \ {0}
  PROVE  \E q, r \in Nat : q = x \div n /\ r = x % n /\ r < n /\ x = q * n + r
<1> DEFINE q == x \div n
           r == x % n
<1>1. q \in Nat /\ r \in Nat /\ r < n
  OBVIOUS
<1>2. x - n * q = r
  OBVIOUS
<1>3. q = x \div n /\ r = x % n
  OBVIOUS
<1> HIDE DEF q, r
<1>4. n * q \in Nat /\ n * q = q * n
  BY <1>1
<1>5. \A y \in Nat : x - y = r => x = y + r
  BY <1>1
<1>6. x = n * q + r
  BY <1>2, <1>4, <1>5
<1>7. x = q * n + r
  BY <1>4, <1>6
<1> QED
  BY <1>1, <1>3, <1>7

(* Row and column of a place in a table of n columns.                      *)
LEMMA RowPlace ==
  ASSUME NEW l \in Nat, NEW x \in Nat, NEW n \in Nat \ {0},
         NEW row, row = l + x \div n, NEW col, col = x % n
  PROVE  row * n + col = l * n + x
<1>1. PICK q \in Nat, r \in Nat : q = x \div n /\ r = x % n /\ x = q * n + r
  BY DivMod
<1>2. row = l + q /\ col = r
  BY <1>1
<1>3. (l + q) * n = l * n + q * n /\ l * n \in Nat /\ q * n \in Nat
  OBVIOUS
<1>4. \A a, b \in Nat : a + b + r = a + (b + r)
  OBVIOUS
<1>5. (l + q) * n + r = l * n + x
  BY <1>1, <1>3, <1>4
<1> QED
  BY <1>2, <1>5
(* A later row begins after the end of an earlier one.                     *)
LEMMA Rows ==
  ASSUME NEW p \in Nat, NEW q \in Nat, NEW n \in Nat, p < q
  PROVE  p * n + n <= q * n
<1>1. q = (p + 1) + (q - p - 1) /\ q - p - 1 \in Nat
  OBVIOUS
<1>2. \A k \in Nat : ((p + 1) + k) * n = p * n + n + k * n /\ k * n \in Nat /\ p * n \in Nat
  OBVIOUS
<1>3. \A k \in Nat : (p + 1) + k = q => p * n + n <= q * n
  BY <1>2
<1> QED
  BY <1>1, <1>3

(* The device is at a stage the code knows, with lengths in its buffers    *)
(* (mscd_interface_t, the callbacks of usb_msc.c).                         *)
THEOREM UsbTypes == Spec => []TypeOK
<1>1. UsbInv => TypeOK
  BY LenProperties DEF UsbInv, Types, TypeOK, Msc, HostType, ShellType
<1> HIDE DEF UsbInv, TypeOK
<1> QED BY <1>1, UsbInvariance, PTL

(* The status of a read or write that the host takes is so: residue, data  *)
(* and sense (proc_read_io_data, proc_write_io_data, send_csw).            *)
LEMMA StatusSo == UsbInv => StatusHonest
<1> SUFFICES ASSUME UsbInv, host.at = "status", msc.ep.in.kind = "csw",
                    msc.cbw.op \in {"read", "write"}
             PROVE  /\ msc.residue
                         = msc.cbw.total - Len(IF msc.cbw.op = "read" THEN host.got ELSE moved)
                    /\ msc.status = "PASSED" =>
                         /\ msc.residue = 0
                         /\ moved = IF msc.cbw.op = "read" THEN host.got ELSE host.sent
                    /\ msc.status # "PASSED" => msc.sense # "none"
  BY DEF StatusHonest
<1>1. /\ pc = "idle" /\ Reporting(msc) /\ ~Done /\ Arrived = 0 /\ Gone = 0
      /\ msc.stage = "STATUS_SENT" /\ ~InBuffer
  BY Armed DEF Listening, Sending, Taking, Reporting, Free
<1>2. /\ msc.residue = msc.cbw.total - msc.xferred_len
      /\ msc.status = "PASSED" => msc.cbw.total - msc.xferred_len = 0
      /\ msc.status # "PASSED" => msc.sense # "none"
      /\ msc.xferred_len \in Nat
  BY <1>1 DEF UsbInv, Types, Msc, Device, Lengths, Reporting, Left
<1>3. CASE msc.cbw.op = "read"
  <2>1. Len(host.got) = msc.xferred_len + 0 /\ moved = host.got
    BY <1>1, <1>3 DEF UsbInv, Data, ReadData
  <2>2. Len(host.got) = msc.xferred_len
    BY <1>2, <2>1
  <2> QED
    BY <1>2, <1>3, <2>1, <2>2
<1>4. CASE msc.cbw.op = "write"
  <2>1. Len(moved) = msc.xferred_len + 0 /\ HostRun(moved, 0) /\ HostRun(host.sent, 0)
        /\ (msc.status = "PASSED" => Len(host.sent) = msc.xferred_len + 0)
    BY <1>1, <1>4 DEF UsbInv, Data, WriteData, Lost
  <2>2. Len(moved) = msc.xferred_len
    BY <1>2, <2>1
  <2>3. ASSUME msc.status = "PASSED"
        PROVE  moved = host.sent
    <3>1. Len(moved) = Len(host.sent) /\ moved \in Seq(Cell) /\ host.sent \in Seq(Cell)
      BY <2>1, <2>3 DEF UsbInv, Types, HostType
    <3>2. \A i \in 1 .. Len(moved) : moved[i] = host.sent[i]
      BY <2>1, <3>1 DEF HostRun
    <3> QED
      BY <3>1, <3>2, SeqEqual
  <2> QED
    BY <1>2, <1>4, <2>2, <2>3
<1> QED
  BY <1>3, <1>4

(* No status lies, whatever failed, was stalled or was reset before it     *)
(* (send_csw).                                                             *)
THEOREM StatusIsHonest == Spec => []StatusHonest
<1> HIDE DEF UsbInv, StatusHonest
<1> QED BY StatusSo, UsbInvariance, PTL

(* A packet of an agreed write lands at its place of the card, and nothing *)
(* else changes (tud_msc_write10_cb).                                      *)
LEMMA StoreIsExact ==
  ASSUME UsbInv, Store, disk' # disk, Agreed(msc.cbw)
  PROVE  HostBytesStored
<1>1. /\ pc = "store" /\ Locked /\ pc # "idle" /\ msc.cbw.op = "write"
      /\ disk' = [disk EXCEPT ![Lba(msc)] = Patched]
  BY DEF UsbInv, Card, Store, Locked
<1>2. /\ Lba(msc) \in Nat /\ Lba(msc) \in Blocks /\ Offset(msc) \in Nat
      /\ Offset(msc) + size <= BlockSize
  BY <1>1, Place, UsbAssumption DEF Blocks
<1>3. /\ size \in Nat /\ size >= 1 /\ msc.xferred_len \in Nat /\ BlockSize \in Nat \ {0}
      /\ msc.cbw.lba \in Nat /\ msc.cbw.count \in Nat \ {0} /\ LogBlockNbr \in Nat
  BY <1>1, InCall, CommandTypes, UsbAssumption DEF Msc, Agreed
<1>4. disk \in [Blocks -> [Cells -> Cell]]
  BY DEF UsbInv, Types
<1>5. block_sz(msc) = BlockSize
  <2>1. \A c \in Nat \ {0}, n \in Nat : (c * n) \div c = n
    OBVIOUS
  <2>2. msc.cbw.total = msc.cbw.count * BlockSize
    BY DEF Agreed
  <2>3. msc.cbw.total \div msc.cbw.count = BlockSize
    BY <1>3, <2>1, <2>2
  <2>4. BlockSize % SizeLimit = BlockSize
    BY UsbAssumption
  <2> QED
    BY <2>3, <2>4 DEF block_sz
<1> DEFINE lba == Lba(msc)
           off == Offset(msc)
           first == msc.cbw.lba * BlockSize + msc.xferred_len
           last == first + size - 1
<1>6. lba * BlockSize + off = first
  <2>1. lba = msc.cbw.lba + msc.xferred_len \div BlockSize /\ off = msc.xferred_len % BlockSize
    BY <1>5 DEF Lba, Offset
  <2> DEFINE l == msc.cbw.lba
             x == msc.xferred_len
  <2>2. l \in Nat /\ x \in Nat /\ BlockSize \in Nat \ {0}
    BY <1>3
  <2>3. lba = l + x \div BlockSize /\ off = x % BlockSize
    BY <2>1
  <2> HIDE DEF lba, off, l, x
  <2>4. lba * BlockSize + off = l * BlockSize + x
    BY <2>2, <2>3, RowPlace
  <2> QED
    BY <2>4 DEF l, x
<1>7. first \in Nat
  BY <1>3
<1>8. ASSUME NEW i \in Cells
      PROVE  Patched[i] = IF i \in off .. off + size - 1
                          THEN HostByte(msc.xferred_len + i - off + 1) ELSE disk[lba][i]
  BY <1>1, <1>8, PatchedIs
<1>9. lba \in Blocks /\ lba \in Nat /\ off \in Nat /\ off + size <= BlockSize
      /\ disk' = [disk EXCEPT ![lba] = Patched]
  BY <1>1, <1>2
<1> HIDE DEF first, lba, off
<1>10. ASSUME NEW b \in Blocks, NEW i \in Cells, NEW a, a = b * BlockSize + i
       PROVE  disk'[b][i] = IF a \in first .. last
                            THEN HostByte(msc.xferred_len + a - first + 1) ELSE disk[b][i]
  <2>1. b \in Nat /\ i \in Nat /\ i < BlockSize
    BY <1>3 DEF Blocks, Cells
  <2>2. b * BlockSize \in Nat /\ lba * BlockSize \in Nat
    BY <1>3, <1>9, <2>1
  <2>3. CASE b = lba
    <3>1. disk'[b] = Patched
      BY <1>4, <1>9, <2>3
    <3>2. a - first = i - off /\ a \in Nat
          /\ (a \in first .. last <=> i \in off .. off + size - 1)
      BY <1>3, <1>6, <1>7, <1>9, <1>10, <2>1, <2>2, <2>3
    <3>3. msc.xferred_len + a - first + 1 = msc.xferred_len + i - off + 1
      BY <1>3, <1>7, <1>9, <2>1, <3>2
    <3> QED
      BY <1>8, <2>3, <3>1, <3>2, <3>3
  <2>4. CASE b < lba
    <3>1. b * BlockSize + BlockSize <= lba * BlockSize
      BY <1>3, <1>9, <2>1, <2>4, Rows
    <3>2. a \notin first .. last
      BY <1>3, <1>6, <1>7, <1>9, <1>10, <2>1, <2>2, <3>1
    <3>3. disk'[b] = disk[b]
      BY <1>4, <1>9, <2>1, <2>4
    <3> QED
      BY <3>2, <3>3
  <2>5. CASE lba < b
    <3>1. lba * BlockSize + BlockSize <= b * BlockSize
      BY <1>3, <1>9, <2>1, <2>5, Rows
    <3>2. a \notin first .. last
      BY <1>3, <1>6, <1>7, <1>9, <1>10, <2>1, <2>2, <3>1
    <3>3. disk'[b] = disk[b]
      BY <1>4, <1>9, <2>1, <2>5
    <3> QED
      BY <3>2, <3>3
  <2> QED
    BY <1>9, <2>1, <2>3, <2>4, <2>5
<1> QED
  BY <1>10 DEF HostBytesStored, first

(* Every change of the card is the shell's pattern or the packet of the    *)
(* host at its place (tud_msc_write10_cb, sdmmc_cmd.c).                    *)
THEOREM SectorsAreExact == Spec => SectorsExact
<1> DEFINE Exact == disk' # disk =>
                      \/ disk' = [disk EXCEPT ![shell.blk] = Pattern(shell.blk)] /\ shell' # shell
                      \/ msc.cbw.op = "write" /\ (Agreed(msc.cbw) => HostBytesStored)
<1>1. UsbInv /\ [Next]_vars => [Exact]_vars
  <2> SUFFICES ASSUME UsbInv, Next, disk' # disk
               PROVE  \/ /\ disk' = [disk EXCEPT ![shell.blk] = Pattern(shell.blk)]
                         /\ shell' # shell
                      \/ msc.cbw.op = "write" /\ (Agreed(msc.cbw) => HostBytesStored)
    OBVIOUS
  <2>1. Store \/ ShellWrite
    BY DEF Next, UsbTask, Shell, HostGoesOn, CardInitialised, CommandReceived, DataReceived,
           DataSent, StatusSent, HaltCleared, BusReset, Configured, Refuse, Lock, Fetch, Unlock,
           ShellBegin, ShellLock, ShellTimeout, ShellReadBack,
           HostCommand, HostSends, HostReceives, HostStatus, HostClears, HostSkips, HostResets,
           HostConfigures
  <2>2. CASE Store
    <3>1. msc.cbw.op = "write"
      BY <2>2 DEF UsbInv, Card, Store
    <3> QED
      BY <2>2, <3>1, StoreIsExact
  <2>3. CASE ShellWrite
    <3>1. shell \in ShellType /\ shell.at = "write"
      BY <2>3 DEF UsbInv, Types, ShellWrite
    <3>2. disk' = [disk EXCEPT ![shell.blk] = Pattern(shell.blk)]
      BY <2>3 DEF ShellWrite
    <3>3. shell'.at # "write"
      BY <2>3, <3>1 DEF ShellWrite, ShellEnd, ShellType
    <3> QED
      BY <3>1, <3>2, <3>3
  <2> QED
    BY <2>1, <2>2, <2>3
<1>2. SectorsExact <=> [][Exact]_vars
  BY DEF SectorsExact
<1> HIDE DEF UsbInv, Next, Exact, Fairness, Init
<1> QED BY <1>1, <1>2, UsbInvariance, PTL DEF Spec
=============================================================================
