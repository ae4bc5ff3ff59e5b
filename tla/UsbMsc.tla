------------------------------- MODULE UsbMsc -------------------------------
(***************************************************************************)
(* The SD NAND as a USB disk: the callbacks of usb/usb_msc.c, run by the   *)
(* bulk-only transport of TinyUSB (msc_device.c) in the USB task, for a    *)
(* host that sends commands, data and control requests, and that may reset *)
(* the bus at any moment.  The shell's "sd write" self test                *)
(* (shell_cmds/sdmmc_cmd.c) shares the card under the mutex of             *)
(* sdmmc_drv.c.  The card keeps the promise of BlockDevice: a block call   *)
(* transfers its block or fails, and a failed write may have stored it.    *)
(*                                                                         *)
(* Data is counted in cells, BlockSize of them in a block and in the       *)
(* endpoint buffer (512 bytes for both in the code).                       *)
(***************************************************************************)
EXTENDS Integers, Sequences

CONSTANTS LogBlockNbr,  \* blocks of the card
          BlockSize,    \* cells of a block, and CFG_TUD_MSC_EP_BUFSIZE
          SizeLimit,    \* 2^16: block sizes are kept in an uint16_t
          Commands,     \* what the host may ask: [op, dir, lba, count, total]
          TestBlocks    \* the blocks the shell tests

ASSUME UsbAssumption ==
  /\ LogBlockNbr \in Nat \ {0} /\ BlockSize \in Nat \ {0}
  /\ SizeLimit \in Nat /\ BlockSize < SizeLimit
  /\ TestBlocks \subseteq 0 .. LogBlockNbr - 1
  /\ \A c \in Commands :
       /\ c.op \in {"read", "write", "ready", "capacity", "sense", "other"}
       /\ c.dir \in {"in", "out"} /\ c.lba \in Nat /\ c.count \in Nat /\ c.total \in Nat

VARIABLES msc,          \* _mscd_itf, its buffer buf, and the two bulk endpoints
          queue,        \* the events of the USB task (_usbd_q)
          pc,           \* where the task is in a storage callback
          size, ret,    \* bufsize and result of that callback
          msc_sector,   \* its sector buffer
          sd2_ready, sd2_io_mutex,
          disk

VARIABLES host,   \* the host: where it is, its command, data sent and received
          shell,  \* "sd write": where it is, its block
          moved   \* history: cells of the command transferred to or from the card

task == <<msc, pc, size, ret, msc_sector>>
vars == <<msc, queue, pc, size, ret, msc_sector, sd2_ready, sd2_io_mutex, disk,
          host, shell, moved>>

Blocks == 0 .. LogBlockNbr - 1
Cells  == 0 .. BlockSize - 1
Blank       == <<"blank", 0>>
HostByte(i) == <<"host", i>>
Pattern(b)  == [i \in Cells |-> <<"test", b>>]

NoCommand  == [op |-> "none", dir |-> "in", lba |-> 0, count |-> 0, total |-> 0]
NoTransfer == [busy |-> FALSE, stalled |-> FALSE, kind |-> "none", len |-> 0]

(* mscd_reset, with the endpoint state that configuration_reset clears.    *)
Cleared == [stage |-> "CMD", cbw |-> NoCommand, status |-> "PASSED", residue |-> 0,
            total_len |-> 0, xferred_len |-> 0, sense |-> "none", buf |-> << >>,
            ep |-> [in |-> NoTransfer, out |-> NoTransfer]]
Idle == [at |-> "enum", cmd |-> NoCommand, sent |-> << >>, got |-> << >>]

Init ==
  /\ msc = Cleared /\ queue = << >>
  /\ pc = "idle" /\ size = 0 /\ ret = "OK"
  /\ msc_sector = [i \in Cells |-> Blank]
  /\ sd2_ready = FALSE /\ sd2_io_mutex = "free"
  /\ disk = [b \in Blocks |-> [i \in Cells |-> Blank]]
  /\ host = Idle
  /\ shell = [at |-> "idle", blk |-> 0]
  /\ moved = << >>

(* CardInit of SD_InitTask ends: sd_get_handle(2) is no longer NULL.       *)
CardInitialised ==
  /\ ~sd2_ready
  /\ sd2_ready' = TRUE
  /\ UNCHANGED <<task, queue, sd2_io_mutex, disk, host, shell, moved>>
-----------------------------------------------------------------------------
(* usbd_edpt_xfer: an endpoint that is busy takes no second transfer.      *)
Xfer(m, d, kind, n) ==
  IF m.ep[d].busy THEN m
  ELSE [m EXCEPT !.ep[d].busy = TRUE, !.ep[d].kind = kind, !.ep[d].len = n]

(* usbd_edpt_stall: it aborts the transfer in flight.                      *)
Stall(m, d) == [m EXCEPT !.ep[d] = [NoTransfer EXCEPT !.busy = TRUE, !.stalled = TRUE]]

PrepareCbw(m) == Xfer([m EXCEPT !.stage = "CMD"], "out", "cbw", 0)

(* The status is copied to the one endpoint buffer.                        *)
SendCsw(m) ==
  Xfer([m EXCEPT !.residue = m.cbw.total - m.xferred_len,
                 !.stage = "STATUS_SENT", !.buf = << >>], "in", "csw", 0)

(* fail_scsi_op: a data stage that is not complete is stalled.             *)
FailOp(m, status) ==
  LET failed == [m EXCEPT !.status = status,
                          !.residue = m.cbw.total - m.xferred_len,
                          !.stage = "STATUS",
                          !.sense = IF @ = "none" THEN "illegal" ELSE @]
  IN IF failed.residue > 0 THEN Stall(failed, m.cbw.dir) ELSE failed

(* proc_stage_status, after every event.                                   *)
StageStatus(m) ==
  IF m.stage # "STATUS" \/ m.ep.in.stalled THEN m
  ELSE IF m.cbw.total > m.xferred_len /\ m.cbw.dir = "in" THEN Stall(m, "in")
  ELSE SendCsw(m)

(* rdwr10_validate_cmd: the lengths of host and command must agree.        *)
Validate(c) ==
  IF c.total = 0 THEN IF c.count > 0 THEN "PHASE_ERROR" ELSE "PASSED"
  ELSE IF c.dir # (IF c.op = "read" THEN "in" ELSE "out") THEN "PHASE_ERROR"
  ELSE IF c.count = 0 THEN "FAILED"
  ELSE IF c.total \div c.count = 0 THEN "PHASE_ERROR"
  ELSE "PASSED"

Least(a, b) == IF a < b THEN a ELSE b
(* Fault: the length is not capped at the endpoint buffer.                 *)
Chunk_Uncapped(m) == m.cbw.total - m.xferred_len

Chunk(m) == Least(BlockSize, m.cbw.total - m.xferred_len)

(* Validate has seen the quotient; rdwr10_get_blocksize cuts it to 16 bits.*)
block_sz(m) == (m.cbw.total \div m.cbw.count) % SizeLimit
Lba(m)      == m.cbw.lba + m.xferred_len \div block_sz(m)
Offset(m)   == m.xferred_len % block_sz(m)

(* The built-in commands: a status, or the one-cell answer to send, or the *)
(* rejection by tud_msc_scsi_cb.                                           *)
Answer(m, n) ==
  IF m.cbw.total = 0 THEN FailOp(m, "FAILED")
  ELSE Xfer([m EXCEPT !.total_len = Least(n, m.cbw.total), !.buf = <<Blank>>],
            "in", "data", Least(n, m.cbw.total))

NoAnswer(m) ==
  IF m.cbw.total > 0 THEN FailOp(m, "FAILED") ELSE [m EXCEPT !.stage = "STATUS"]

Unsupported(m) ==
  FailOp([m EXCEPT !.sense = IF @ = "none" THEN "illegal" ELSE @], "FAILED")

BuiltIn(m) ==
  IF m.cbw.total > 0 /\ m.cbw.dir = "out"
  THEN IF m.cbw.total > BlockSize THEN FailOp(m, "FAILED")
       ELSE Xfer(m, "out", "data", m.cbw.total)
  ELSE CASE m.cbw.op = "ready" ->
              IF sd2_ready THEN NoAnswer(m)
              ELSE FailOp([m EXCEPT !.sense = "notready"], "FAILED")
         [] m.cbw.op = "capacity" ->
              IF sd2_ready THEN Answer(m, 1)
              ELSE FailOp([m EXCEPT !.sense = IF @ = "none" THEN "notready" ELSE @], "FAILED")
         [] m.cbw.op = "sense" -> Answer([m EXCEPT !.sense = "none"], 1)
         [] OTHER -> Unsupported(m)
-----------------------------------------------------------------------------
(* The end of an event: status stage, and the next event.                  *)
Handled(m) == msc' = StageStatus(m) /\ queue' = Tail(queue)

NextEvent(ev, ep) ==
  /\ pc = "idle" /\ queue # << >>
  /\ Head(queue).ev = ev /\ Head(queue).ep = ep

(* The transfer that completed is no longer busy.                          *)
Completed(d) == [msc EXCEPT !.ep[d].busy = FALSE]

(* tud_msc_read10_cb or tud_msc_write10_cb begins; the event ends with it. *)
(* With no block size the command is left as it is (TU_VERIFY).            *)
CallStorage(m, n) ==
  \/ /\ block_sz(m) # 0
     /\ msc' = m
     /\ pc' = "call" /\ size' = n
     /\ UNCHANGED <<queue, ret, msc_sector>>
  \/ /\ block_sz(m) = 0
     /\ Handled(m)
     /\ UNCHANGED <<pc, size, ret, msc_sector>>

(* mscd_xfer_cb in MSC_STAGE_CMD.                                          *)
CommandReceived ==
  /\ NextEvent("xfer", "out") /\ msc.stage = "CMD"
  /\ LET c == Head(queue).cmd
         m == [Completed("out") EXCEPT
                 !.cbw = c, !.status = "PASSED", !.residue = 0, !.stage = "DATA",
                 !.total_len = c.total, !.xferred_len = 0]
     IN \/ /\ c.op \in {"read", "write"}
           /\ \/ /\ Validate(c) # "PASSED"
                 /\ Handled(FailOp(m, Validate(c)))
                 /\ UNCHANGED <<pc, size, ret, msc_sector>>
              \/ /\ Validate(c) = "PASSED" /\ c.total = 0
                 /\ Handled([m EXCEPT !.stage = "STATUS"])
                 /\ UNCHANGED <<pc, size, ret, msc_sector>>
              \/ /\ Validate(c) = "PASSED" /\ c.total > 0 /\ c.op = "write"
                 /\ Handled(Xfer(m, "out", "data", Chunk(m)))
                 /\ UNCHANGED <<pc, size, ret, msc_sector>>
              \/ /\ Validate(c) = "PASSED" /\ c.total > 0 /\ c.op = "read"
                 /\ CallStorage(m, Chunk(m))
        \/ /\ c.op \notin {"read", "write"}
           /\ Handled(BuiltIn(m))
           /\ UNCHANGED <<pc, size, ret, msc_sector>>
  /\ moved' = << >>
  /\ UNCHANGED <<sd2_ready, sd2_io_mutex, disk, host, shell>>

(* In MSC_STAGE_DATA: a packet of the host arrived.                        *)
DataReceived ==
  /\ NextEvent("xfer", "out") /\ msc.stage = "DATA"
  /\ LET m == Completed("out")
         n == Head(queue).n
     IN IF m.cbw.op = "write" THEN CallStorage(m, n)
        ELSE /\ Handled(FailOp([m EXCEPT !.xferred_len = @ + n, !.sense = "illegal"],
                                "FAILED"))
             /\ UNCHANGED <<pc, size, ret, msc_sector>>
  /\ UNCHANGED <<sd2_ready, sd2_io_mutex, disk, host, shell, moved>>

(* In MSC_STAGE_DATA: the host took a packet.                              *)
DataSent ==
  /\ NextEvent("xfer", "in") /\ msc.stage = "DATA"
  /\ LET m == [Completed("in") EXCEPT !.xferred_len = @ + Head(queue).n]
     IN IF m.xferred_len >= m.total_len
        THEN /\ Handled([m EXCEPT !.stage = "STATUS"])
             /\ UNCHANGED <<pc, size, ret, msc_sector>>
        ELSE CallStorage(m, Chunk(m))
  /\ UNCHANGED <<sd2_ready, sd2_io_mutex, disk, host, shell, moved>>

(* In MSC_STAGE_STATUS_SENT: the host took the status.                     *)
StatusSent ==
  /\ NextEvent("xfer", "in") /\ msc.stage = "STATUS_SENT"
  /\ LET m == Completed("in")
     IN Handled(IF m.ep.out.stalled THEN [m EXCEPT !.stage = "CMD"] ELSE PrepareCbw(m))
  /\ moved' = << >>
  /\ UNCHANGED <<pc, size, ret, msc_sector, sd2_ready, sd2_io_mutex, disk, host, shell>>

(* Fault: a halt cleared on IN does not resume the status.                 *)
Resume_OutOnly(m, d) ==
  IF d = "out" /\ m.stage = "CMD" /\ ~m.ep.out.busy THEN PrepareCbw(m) ELSE m

(* mscd_control_xfer_cb, after usbd_edpt_clear_stall.                      *)
Resume(m, d) ==
  CASE d = "in" /\ m.stage = "STATUS" -> SendCsw(m)
    [] d = "out" /\ m.stage = "CMD" /\ ~m.ep.out.busy -> PrepareCbw(m)
    [] OTHER -> m

HaltCleared(d) ==
  /\ NextEvent("clear", d)
  /\ msc' = Resume([msc EXCEPT !.ep[d].busy = FALSE, !.ep[d].stalled = FALSE], d)
  /\ queue' = Tail(queue)
  /\ UNCHANGED <<pc, size, ret, msc_sector, sd2_ready, sd2_io_mutex, disk, host, shell, moved>>

BusReset ==
  /\ NextEvent("reset", "none")
  /\ msc' = Cleared /\ queue' = Tail(queue)
  /\ moved' = << >>
  /\ UNCHANGED <<pc, size, ret, msc_sector, sd2_ready, sd2_io_mutex, disk, host, shell>>

(* mscd_open; the host knows when its SET_CONFIGURATION is answered.       *)
Configured ==
  /\ NextEvent("config", "none")
  /\ msc' = PrepareCbw(msc) /\ queue' = Tail(queue)
  /\ host' = [Idle EXCEPT !.at = "idle"]
  /\ UNCHANGED <<pc, size, ret, msc_sector, sd2_ready, sd2_io_mutex, disk, shell, moved>>
-----------------------------------------------------------------------------
(* tud_msc_read10_cb and tud_msc_write10_cb.                               *)
InRange ==
  /\ sd2_ready /\ Lba(msc) < LogBlockNbr
  /\ Offset(msc) <= BlockSize /\ size <= BlockSize - Offset(msc)

(* Fault: a short write that begins at the block's first byte reads        *)
(* nothing.                                                                *)
NeedsSector_ByOffset == msc.cbw.op = "read" \/ Offset(msc) # 0

NeedsSector == msc.cbw.op = "read" \/ Offset(msc) # 0 \/ size # BlockSize

(* Fault: the bytes of a write count whatever its callback returned.       *)
IoDone_Unchecked(result) ==
  LET taken == [msc EXCEPT !.xferred_len = @ + size]
  IN IF msc.cbw.op = "read" /\ result = "ERROR"
     THEN FailOp([msc EXCEPT !.sense = "notready"], "FAILED")
     ELSE IF msc.cbw.op = "read" THEN Xfer(msc, "in", "data", size)
     ELSE IF taken.xferred_len >= taken.total_len THEN [taken EXCEPT !.stage = "STATUS"]
     ELSE Xfer(taken, "out", "data", Chunk(taken))

(* proc_read_io_data, proc_write_io_data with the callback's result.       *)
IoDone(result) ==
  LET taken == [msc EXCEPT !.xferred_len = @ + size]
  IN IF result = "ERROR"
     THEN FailOp([msc EXCEPT !.sense = "notready"], "FAILED")
     ELSE IF msc.cbw.op = "read" THEN Xfer(msc, "in", "data", size)
     ELSE IF taken.xferred_len >= taken.total_len THEN [taken EXCEPT !.stage = "STATUS"]
     ELSE Xfer(taken, "out", "data", Chunk(taken))

Refuse ==
  /\ pc = "call"
  /\ ~InRange \/ sd2_io_mutex # "free"     \* out of range, or no lock in 5 s
  /\ Handled(IoDone("ERROR"))
  /\ pc' = "idle" /\ size' = 0
  /\ UNCHANGED <<ret, msc_sector, sd2_ready, sd2_io_mutex, disk, host, shell, moved>>

Lock ==
  /\ pc = "call" /\ InRange /\ sd2_io_mutex = "free"
  /\ sd2_io_mutex' = "usb"
  /\ pc' = IF NeedsSector THEN "fetch" ELSE "store"
  /\ UNCHANGED <<msc, queue, size, ret, msc_sector, sd2_ready, disk, host, shell, moved>>

(* sd_storage_read_locked(lba, 1, msc_sector), and for a read the memcpy.  *)
Fetch ==
  /\ pc = "fetch"
  /\ \/ /\ msc_sector' = disk[Lba(msc)]
        /\ IF msc.cbw.op = "read"
           THEN LET data == [i \in 1 .. size |-> disk[Lba(msc)][Offset(msc) + i - 1]]
                IN /\ msc' = [msc EXCEPT !.buf = data]
                   /\ moved' = moved \o data
                   /\ pc' = "unlock"
           ELSE pc' = "store" /\ UNCHANGED <<msc, moved>>
        /\ UNCHANGED ret
     \/ /\ ret' = "ERROR" /\ pc' = "unlock"
        /\ UNCHANGED <<msc, msc_sector, moved>>
  /\ UNCHANGED <<queue, size, sd2_ready, sd2_io_mutex, disk, host, shell>>

Patched ==
  [i \in Cells |-> IF i \in Offset(msc) .. Offset(msc) + size - 1
                   THEN msc.buf[i - Offset(msc) + 1] ELSE msc_sector[i]]

(* memcpy into the sector, sd_storage_write_locked(lba, 1, msc_sector).    *)
Store ==
  LET lba    == Lba(msc)
      stored == [disk EXCEPT ![lba] = Patched]
  IN /\ pc = "store"
     /\ msc_sector' = Patched
     /\ \/ disk' = stored /\ moved' = moved \o SubSeq(msc.buf, 1, size) /\ UNCHANGED ret
        \/ disk' \in {disk, stored} /\ ret' = "ERROR" /\ UNCHANGED moved
     /\ pc' = "unlock"
     /\ UNCHANGED <<msc, queue, size, sd2_ready, sd2_io_mutex, host, shell>>

Unlock ==
  /\ pc = "unlock"
  /\ sd2_io_mutex' = "free"
  /\ pc' = "idle" /\ size' = 0 /\ ret' = "OK"
  /\ Handled(IoDone(ret))
  /\ UNCHANGED <<msc_sector, sd2_ready, disk, host, shell, moved>>

UsbTask == \/ CommandReceived \/ DataReceived \/ DataSent \/ StatusSent
           \/ \E d \in {"in", "out"} : HaltCleared(d)
           \/ BusReset \/ Configured
           \/ Refuse \/ Lock \/ Fetch \/ Store \/ Unlock
-----------------------------------------------------------------------------
(* The host, as the bulk-only transport asks of it.                        *)
Event(ev, ep, n, cmd) == [ev |-> ev, ep |-> ep, n |-> n, cmd |-> cmd]
Sees(e) == queue' = Append(queue, e)
Taken(d) == [msc EXCEPT !.ep[d].kind = "none"]
ControlPending == \E i \in 1 .. Len(queue) : queue[i].ev = "clear"

HostCommand(c) ==
  /\ host.at = "idle" /\ msc.ep.out.kind = "cbw"
  /\ host' = [at |-> IF c.total = 0 THEN "status" ELSE c.dir,
              cmd |-> c, sent |-> << >>, got |-> << >>]
  /\ msc' = [Taken("out") EXCEPT !.buf = << >>]
  /\ Sees(Event("xfer", "out", 0, c))
  /\ UNCHANGED <<pc, size, ret, msc_sector, sd2_ready, sd2_io_mutex, disk, shell, moved>>

(* A packet, as long as the device asked for or shorter.                   *)
HostSends(n) ==
  LET sent == host.sent \o [i \in 1 .. n |-> HostByte(Len(host.sent) + i)]
  IN /\ host.at = "out" /\ msc.ep.out.kind = "data" /\ n \in 1 .. msc.ep.out.len
     /\ host' = [host EXCEPT !.sent = sent,
                             !.at = IF Len(sent) = host.cmd.total THEN "status" ELSE @]
     /\ msc' = [Taken("out") EXCEPT !.buf = SubSeq(sent, Len(host.sent) + 1, Len(sent))]
     /\ Sees(Event("xfer", "out", n, NoCommand))
     /\ UNCHANGED <<pc, size, ret, msc_sector, sd2_ready, sd2_io_mutex, disk, shell, moved>>

(* A short packet ends the data stage.                                     *)
HostReceives ==
  LET n   == msc.ep.in.len
      got == host.got \o SubSeq(msc.buf, 1, n)
  IN /\ host.at = "in" /\ msc.ep.in.kind = "data"
     /\ host' = [host EXCEPT !.got = got,
                  !.at = IF Len(got) = host.cmd.total \/ n < BlockSize THEN "status" ELSE @]
     /\ msc' = Taken("in")
     /\ Sees(Event("xfer", "in", n, NoCommand))
     /\ UNCHANGED <<pc, size, ret, msc_sector, sd2_ready, sd2_io_mutex, disk, shell, moved>>

HostStatus ==
  /\ host.at = "status" /\ msc.ep.in.kind = "csw" /\ ~ControlPending
  /\ host' = [Idle EXCEPT !.at = "idle"]
  /\ msc' = Taken("in")
  /\ Sees(Event("xfer", "in", 0, NoCommand))
  /\ UNCHANGED <<pc, size, ret, msc_sector, sd2_ready, sd2_io_mutex, disk, shell, moved>>

(* A stalled endpoint: the host clears its halt; a stalled data stage is   *)
(* over.  It may read the status before it clears a halt of OUT.           *)
HostClears(d) ==
  /\ msc.ep[d].stalled /\ ~ControlPending
  /\ host.at \in {d, "status", "idle"}
  /\ host' = [host EXCEPT !.at = IF @ = d THEN "status" ELSE @]
  /\ Sees(Event("clear", d, 0, NoCommand))
  /\ UNCHANGED <<task, sd2_ready, sd2_io_mutex, disk, shell, moved>>

HostSkips ==
  /\ host.at = "out" /\ msc.ep.out.stalled
  /\ host' = [host EXCEPT !.at = "status"]
  /\ UNCHANGED <<task, queue, sd2_ready, sd2_io_mutex, disk, shell, moved>>

(* The host gives up (its timeout): transfers in flight are lost.          *)
HostResets ==
  /\ host.at # "enum"
  /\ host' = Idle
  /\ msc' = [msc EXCEPT !.ep.in.kind = "none", !.ep.out.kind = "none"]
  /\ Sees(Event("reset", "none", 0, NoCommand))
  /\ UNCHANGED <<pc, size, ret, msc_sector, sd2_ready, sd2_io_mutex, disk, shell, moved>>

HostConfigures ==
  /\ host.at = "enum" /\ queue = << >> /\ pc = "idle"
  /\ Sees(Event("config", "none", 0, NoCommand))
  /\ UNCHANGED <<task, sd2_ready, sd2_io_mutex, disk, host, shell, moved>>
-----------------------------------------------------------------------------
(* "sd write": a pattern, then its read back, each under a lock of its own.*)
ShellBegin(b) ==
  /\ shell.at = "idle" /\ sd2_ready
  /\ shell' = [at |-> "write", blk |-> b]
  /\ UNCHANGED <<task, queue, sd2_ready, sd2_io_mutex, disk, host, moved>>

ShellLock ==
  /\ shell.at \in {"write", "read"} /\ sd2_io_mutex = "free"
  /\ sd2_io_mutex' = "shell"
  /\ UNCHANGED <<task, queue, sd2_ready, disk, host, shell, moved>>

ShellEnd == shell' = [shell EXCEPT !.at = "idle"]

ShellTimeout ==
  /\ shell.at \in {"write", "read"} /\ sd2_io_mutex = "usb"
  /\ ShellEnd
  /\ UNCHANGED <<task, queue, sd2_ready, sd2_io_mutex, disk, host, moved>>

ShellWrite ==
  LET stored == [disk EXCEPT ![shell.blk] = Pattern(shell.blk)]
  IN /\ shell.at = "write" /\ sd2_io_mutex = "shell"
     /\ \/ disk' = stored /\ shell' = [shell EXCEPT !.at = "read"]
        \/ disk' \in {disk, stored} /\ ShellEnd
     /\ sd2_io_mutex' = "free"
     /\ UNCHANGED <<task, queue, sd2_ready, host, moved>>

(* Its verdict is printed and forgotten.                                   *)
ShellReadBack ==
  /\ shell.at = "read" /\ sd2_io_mutex = "shell"
  /\ ShellEnd
  /\ sd2_io_mutex' = "free"
  /\ UNCHANGED <<task, queue, sd2_ready, disk, host, moved>>

Shell == (\E b \in TestBlocks : ShellBegin(b)) \/ ShellLock \/ ShellTimeout
         \/ ShellWrite \/ ShellReadBack

HostGoesOn == \/ \E n \in 1 .. BlockSize : HostSends(n)
              \/ HostReceives \/ HostStatus
              \/ \E d \in {"in", "out"} : HostClears(d)
              \/ HostConfigures

Next == \/ CardInitialised \/ UsbTask \/ Shell \/ HostGoesOn
        \/ \E c \in Commands : HostCommand(c)
        \/ HostSkips \/ HostResets

(* The USB task is scheduled, a card answers, the host goes on with a      *)
(* command it began, and the shell gives the mutex back.  Nothing says     *)
(* that the host asks or resets, or that the shell tests.                  *)
Fairness == WF_vars(UsbTask) /\ WF_vars(HostGoesOn) /\ WF_vars(ShellWrite)
            /\ WF_vars(ShellReadBack)

Spec == Init /\ [][Next]_vars /\ Fairness
-----------------------------------------------------------------------------
TypeOK ==
  /\ msc.stage \in {"CMD", "DATA", "STATUS", "STATUS_SENT"}
  /\ msc.cbw \in Commands \cup {NoCommand}
  /\ msc.status \in {"PASSED", "FAILED", "PHASE_ERROR"}
  /\ msc.residue \in Nat /\ msc.total_len \in Nat /\ msc.xferred_len \in Nat
  /\ msc.sense \in {"none", "illegal", "notready"}
  /\ Len(msc.buf) \in 0 .. BlockSize
  /\ pc \in {"idle", "call", "fetch", "store", "unlock"}
  /\ size \in 0 .. BlockSize /\ ret \in {"OK", "ERROR"}
  /\ sd2_ready \in BOOLEAN /\ sd2_io_mutex \in {"free", "usb", "shell"}
  /\ DOMAIN disk = Blocks /\ \A b \in Blocks : DOMAIN disk[b] = Cells
  /\ host.at \in {"enum", "idle", "out", "in", "status"}
  /\ shell.at \in {"idle", "write", "read"} /\ shell.blk \in Blocks

(* Host and command agree on the length.                                   *)
Agreed(c) == c.count > 0 /\ c.total = c.count * BlockSize

(* Every change of the card is the shell's pattern in its block, or the    *)
(* last packet of the host, byte for byte at the place the command names:  *)
(* no other byte of the block changes, whatever the other client wrote     *)
(* there before.                                                           *)
HostBytesStored ==
  LET first == msc.cbw.lba * BlockSize + msc.xferred_len
      last  == first + size - 1
  IN \A b \in Blocks, i \in Cells :
       LET a == b * BlockSize + i
       IN disk'[b][i] = IF a \in first .. last
                        THEN HostByte(msc.xferred_len + a - first + 1) ELSE disk[b][i]

SectorsExact ==
  [][disk' # disk =>
       \/ disk' = [disk EXCEPT ![shell.blk] = Pattern(shell.blk)] /\ shell' # shell
       \/ msc.cbw.op = "write" /\ (Agreed(msc.cbw) => HostBytesStored)]_vars

(* What a status the host takes says is so: a passed read or write has     *)
(* moved all of its bytes, in order and unchanged, between host and card;  *)
(* one that did not pass counts the missing bytes right and leaves a sense *)
(* key.                                                                    *)
StatusHonest ==
  host.at = "status" /\ msc.ep.in.kind = "csw"
  /\ msc.cbw.op \in {"read", "write"} /\ Agreed(msc.cbw)
  => /\ msc.residue = msc.cbw.total - Len(IF msc.cbw.op = "read" THEN host.got ELSE moved)
     /\ msc.status = "PASSED" =>
          /\ msc.residue = 0
          /\ moved = IF msc.cbw.op = "read" THEN host.got ELSE host.sent
     /\ msc.status # "PASSED" => msc.sense # "none"

(* A block size that is a multiple of 2^16 passes rdwr10_validate_cmd and  *)
(* comes out as 0 of rdwr10_get_blocksize.                                 *)
SizeLost(c) ==
  /\ c.op \in {"read", "write"} /\ c.total > 0 /\ Validate(c) = "PASSED"
  /\ (c.total \div c.count) % SizeLimit = 0

(* A command the host began ends with a status, or with a reset, after     *)
(* which the device is open for the next one; a command whose block size   *)
(* is lost is left to the host's reset alone.                              *)
CommandEnds ==
  host.at # "idle" /\ ~SizeLost(host.cmd) ~> host.at = "idle" /\ msc.ep.out.kind = "cbw"

(* msc_device.c, where a read or write takes its block size: "already      *)
(* verified non-zero".                                                     *)
BlockSizeVerified ==
  msc.stage = "DATA" /\ msc.cbw.op \in {"read", "write"} => block_sz(msc) # 0
=============================================================================
