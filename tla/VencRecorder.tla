---------------------------- MODULE VencRecorder ----------------------------
(***************************************************************************)
(* The H.264 recorder (app/Core/Src/drivers/venc_recorder.c): the shell    *)
(* requests a recording, the camera task encodes one frame after the other *)
(* and streams what the encoder produces, in batches, to consecutive       *)
(* blocks of the SD NAND from LBA 1; LBA 0 is wiped first and gets the     *)
(* N6VENC1 metadata last.  The NAND is shared: it is the BlockDevice that  *)
(* module SdStorage implements, with a second client that writes anywhere. *)
(* The board may reset at any moment; only the disk survives.              *)
(*                                                                         *)
(* Sizes are in units, BlockUnits to a block.  A unit is tagged with the   *)
(* recording it belongs to and its position in that recording's stream.    *)
(***************************************************************************)
EXTENDS Naturals, Sequences

CONSTANTS LogBlockNbr,   \* blocks of the SD NAND
          BlockUnits,    \* units in a block
          BatchBlocks,   \* VENC_SD_BATCH_BLOCKS
          TargetFrames,  \* VENC_TARGET_FRAMES
          HeaderUnits,   \* units the encoder produces at the start of a stream
          FrameUnits,    \* the numbers of units an encoded frame may have
          EndUnits,      \* units at the end of a stream
          MaxSessions,   \* recordings, a bound of the model
          OtherWrites    \* may another client write to the NAND?

ASSUME RecorderAssumption ==
  /\ LogBlockNbr \in Nat \ {0} /\ BlockUnits \in Nat \ {0}
  /\ BatchBlocks \in Nat \ {0} /\ TargetFrames \in Nat \ {0}
  /\ HeaderUnits \in Nat /\ EndUnits \in Nat /\ FrameUnits \subseteq Nat
  /\ MaxSessions \in Nat /\ OtherWrites \in BOOLEAN

VARIABLES disk, call, reply,  \* the block device
          status,             \* s_status: [state, frames, error]
          pc, after, err,     \* the camera task: where it is, and locals
          rest,               \* units venc_storage_append has still to copy
          s_encoder_live, s_sd_next_lba, s_stream_bytes,
          batch,              \* s_sd_batch, the s_sd_batch_used units of it
          camera              \* FALSE when CameraTask has left its loop

VARIABLES session,            \* history: recordings requested
          produced,           \* history: units the encoder produced
          foreign             \* history: blocks the other client wrote last

deviceVars   == <<disk, call, reply, foreign>>
streamVars   == <<rest, s_sd_next_lba, s_stream_bytes, batch, produced>>
vars == <<deviceVars, streamVars, status, pc, after, err, s_encoder_live,
          camera, session>>

Device == INSTANCE BlockDevice WITH
  Clients <- {"venc"}, Lbas <- {}, Transfers <- {}, Counts <- {}

Least(a, b) == IF a < b THEN a ELSE b
BatchUnits == BatchBlocks * BlockUnits

(* Contents of a block: a unit of padding is zero; the metadata block has  *)
(* the magic and what venc_write_metadata puts there (and, as history, the *)
(* recording and the length of the stream it produced).                    *)
Pad == <<0, 0>>
ZeroBlock == [kind |-> "data", cells |-> [j \in 1 .. BlockUnits |-> Pad]]
OtherBlock == [kind |-> "other", cells |-> << >>]
MetaBlock(s, bytes, frames, total) ==
  [kind |-> "N6VENC1", cells |-> <<s, bytes, frames, total>>]

Unit(s, i) == <<s, i>>

(* blocks = (s_sd_batch_used + 511) / 512, and the blocks themselves: what *)
(* the batch does not fill is zero.                                        *)
BlocksFor(n) == (n + BlockUnits - 1) \div BlockUnits
BatchData ==
  [k \in 1 .. BlocksFor(Len(batch)) |->
     [kind |-> "data",
      cells |-> [j \in 1 .. BlockUnits |->
                   IF (k - 1) * BlockUnits + j <= Len(batch)
                   THEN batch[(k - 1) * BlockUnits + j] ELSE Pad]]]

AtBoot == [state |-> "IDLE", frames |-> 0, error |-> "NONE"]

Init ==
  /\ Device!Init
  /\ disk = [b \in 0 .. LogBlockNbr - 1 |-> OtherBlock]
  /\ foreign = 0 .. LogBlockNbr - 1
  /\ session = 0
  /\ status = AtBoot /\ pc = "idle" /\ after = "none" /\ err = "NONE"
  /\ rest = << >> /\ s_encoder_live = FALSE /\ s_sd_next_lba = 0
  /\ s_stream_bytes = 0 /\ batch = << >> /\ produced = 0 /\ camera = TRUE
-----------------------------------------------------------------------------
(* Fault: a request does not reset the last error.                         *)
Request_KeepsError ==
  /\ status.state \in {"IDLE", "COMPLETE", "ERROR"}
  /\ session < MaxSessions
  /\ session' = session + 1
  /\ status' = [state |-> "REQUESTED", frames |-> 0, error |-> status.error]
  /\ UNCHANGED <<deviceVars, streamVars, pc, after, err, s_encoder_live, camera>>

(* VencRecorder_Request, by the shell; the NAND is ready.                  *)
Request ==
  /\ status.state \in {"IDLE", "COMPLETE", "ERROR"}
  /\ session < MaxSessions
  /\ session' = session + 1
  /\ status' = [state |-> "REQUESTED", frames |-> 0, error |-> "NONE"]
  /\ UNCHANGED <<deviceVars, streamVars, pc, after, err, s_encoder_live, camera>>

(* CameraTask: a frame is complete, VencRecorder_ProcessFrame looks at the *)
(* state; or the capture failed and the task leaves its loop for ever.     *)
ProcessFrame ==
  /\ camera /\ pc = "idle"
  /\ \/ status.state = "REQUESTED" /\ pc' = "begin"
     \/ status.state = "RECORDING" /\ pc' = "encode"
  /\ UNCHANGED <<deviceVars, streamVars, status, after, err, s_encoder_live,
                 camera, session>>

CaptureFails ==
  /\ camera /\ pc = "idle"
  /\ camera' = FALSE
  /\ UNCHANGED <<deviceVars, streamVars, status, pc, after, err,
                 s_encoder_live, session>>
-----------------------------------------------------------------------------
(* sd_storage_write: the call, and its result.                             *)
StorageWrite(lba, data) == Device!Write("venc", lba, data) /\ UNCHANGED foreign
StorageDone(result) == /\ call["venc"].op = "none"
                       /\ reply["venc"] = result

(* The ways out of a step of the session: ProcessFrame stores the error.   *)
Fail(e) == /\ err' = e
           /\ pc' = "result"
           /\ s_encoder_live' = FALSE

(* venc_encoder_begin: venc_write_metadata(0).                             *)
Begin ==
  /\ pc = "begin"
  /\ StorageWrite(0, <<ZeroBlock>>)
  /\ pc' = "wiped"
  /\ UNCHANGED <<streamVars, status, after, err, s_encoder_live, camera, session>>

WipeFails ==
  /\ pc = "wiped" /\ StorageDone("ERROR")
  /\ Fail("SD_WRITE")
  /\ UNCHANGED <<deviceVars, streamVars, status, after, camera, session>>

(* The rest of it: the encoder may refuse at any of its calls; when it     *)
(* starts, its header is appended.                                         *)
ResetStream ==
  /\ s_sd_next_lba' = 1 /\ s_stream_bytes' = 0 /\ batch' = << >>

EncoderRefuses ==
  /\ pc = "wiped" /\ StorageDone("OK")
  /\ ResetStream
  /\ rest' = << >> /\ produced' = 0
  /\ \E e \in {"ARENA", "INIT", "CONFIG", "STREAM_START"} : Fail(e)
  /\ UNCHANGED <<deviceVars, status, after, camera, session>>

EncoderStarts ==
  /\ pc = "wiped" /\ StorageDone("OK")
  /\ ResetStream
  /\ s_encoder_live' = TRUE
  /\ produced' = HeaderUnits
  /\ rest' = [i \in 1 .. HeaderUnits |-> Unit(session, i)]
  /\ pc' = "append" /\ after' = "started"
  /\ UNCHANGED <<deviceVars, status, err, camera, session>>
-----------------------------------------------------------------------------
(* Fault: what is appended is not cut at the end of the batch.             *)
Append1_NoLimit ==
  LET chunk == Len(rest)
  IN /\ pc = "append" /\ rest # << >>
     /\ batch' = batch \o SubSeq(rest, 1, chunk)
     /\ s_stream_bytes' = s_stream_bytes + chunk
     /\ rest' = SubSeq(rest, chunk + 1, Len(rest))
     /\ pc' = IF Len(batch) + chunk = BatchUnits THEN "flush" ELSE "append"
     /\ UNCHANGED <<deviceVars, s_sd_next_lba, produced, status, after, err,
                    s_encoder_live, camera, session>>

(* venc_storage_append, one pass: copy what fits, flush a full batch.      *)
Append1 ==
  LET chunk == Least(Len(rest), BatchUnits - Len(batch))
  IN /\ pc = "append" /\ rest # << >>
     /\ batch' = batch \o SubSeq(rest, 1, chunk)
     /\ s_stream_bytes' = s_stream_bytes + chunk
     /\ rest' = SubSeq(rest, chunk + 1, Len(rest))
     /\ pc' = IF Len(batch) + chunk = BatchUnits THEN "flush" ELSE "append"
     /\ UNCHANGED <<deviceVars, s_sd_next_lba, produced, status, after, err,
                    s_encoder_live, camera, session>>

AppendReturns ==
  /\ pc = "append" /\ rest = << >>
  /\ pc' = IF after = "ended" THEN "flush" ELSE after
  /\ after' = IF after = "ended" THEN "flushed" ELSE after
  /\ UNCHANGED <<deviceVars, streamVars, status, err, s_encoder_live, camera, session>>

(* venc_storage_flush, called by append and by venc_encoder_finish.        *)
FlushNothing ==
  /\ pc = "flush" /\ batch = << >>
  /\ pc' = "flushed"
  /\ UNCHANGED <<deviceVars, streamVars, status, after, err, s_encoder_live,
                 camera, session>>

FlushNoSpace ==
  /\ pc = "flush" /\ batch # << >>
  /\ s_sd_next_lba + BlocksFor(Len(batch)) > LogBlockNbr
  /\ Fail("NO_SPACE")
  /\ UNCHANGED <<deviceVars, streamVars, status, after, camera, session>>

Flush ==
  /\ pc = "flush" /\ batch # << >>
  /\ s_sd_next_lba + BlocksFor(Len(batch)) <= LogBlockNbr
  /\ StorageWrite(s_sd_next_lba, BatchData)
  /\ pc' = "flushing"
  /\ UNCHANGED <<streamVars, status, after, err, s_encoder_live, camera, session>>

(* Fault: the result of the write is not looked at.                        *)
FlushFails_Ignored ==
  /\ pc = "flushing" /\ StorageDone("ERROR")
  /\ s_sd_next_lba' = s_sd_next_lba + BlocksFor(Len(batch))
  /\ batch' = << >>
  /\ pc' = IF after = "flushed" THEN "flushed" ELSE "append"
  /\ UNCHANGED <<deviceVars, rest, s_stream_bytes, produced, status, after, err,
                 s_encoder_live, camera, session>>

FlushFails ==
  /\ pc = "flushing" /\ StorageDone("ERROR")
  /\ Fail("SD_WRITE")
  /\ UNCHANGED <<deviceVars, streamVars, status, after, camera, session>>

FlushDone ==
  /\ pc = "flushing" /\ StorageDone("OK")
  /\ s_sd_next_lba' = s_sd_next_lba + BlocksFor(Len(batch))
  /\ batch' = << >>
  /\ pc' = IF after = "flushed" THEN "flushed" ELSE "append"
  /\ UNCHANGED <<deviceVars, rest, s_stream_bytes, produced, status, after, err,
                 s_encoder_live, camera, session>>
-----------------------------------------------------------------------------
(* ProcessFrame after a successful begin.                                  *)
Started ==
  /\ pc = "started"
  /\ status' = [status EXCEPT !.state = "RECORDING"]
  /\ pc' = "encode"
  /\ UNCHANGED <<deviceVars, streamVars, after, err, s_encoder_live, camera, session>>

(* The encoder hands over n units to append.                               *)
Produce(n, then) ==
  /\ rest' = [i \in 1 .. n |-> Unit(session, produced + i)]
  /\ produced' = produced + n
  /\ pc' = "append" /\ after' = then
  /\ UNCHANGED <<s_sd_next_lba, s_stream_bytes, batch>>

(* venc_encode_frame.                                                      *)
EncodeFrame ==
  /\ pc = "encode"
  /\ \E n \in FrameUnits : Produce(n, "encoded")
  /\ UNCHANGED <<deviceVars, status, err, s_encoder_live, camera, session>>

EncodeFails ==
  /\ pc = "encode"
  /\ Fail("ENCODE")
  /\ UNCHANGED <<deviceVars, streamVars, status, after, camera, session>>

(* The frame is stored: count it, and finish or wait for the next one.     *)
CountFrame ==
  /\ pc = "encoded"
  /\ status' = [status EXCEPT !.frames = @ + 1]
  /\ pc' = IF status.frames + 1 >= TargetFrames THEN "finish" ELSE "idle"
  /\ UNCHANGED <<deviceVars, streamVars, after, err, s_encoder_live, camera, session>>

(* venc_encoder_finish: when H264EncStrmEnd fails it returns at once, and  *)
(* does not release the encoder.                                           *)
StreamEnds ==
  /\ pc = "finish"
  /\ Produce(EndUnits, "ended")
  /\ UNCHANGED <<deviceVars, status, err, s_encoder_live, camera, session>>

StreamEndFails ==
  /\ pc = "finish"
  /\ err' = "STREAM_END" /\ pc' = "result"
  /\ UNCHANGED <<deviceVars, streamVars, status, after, s_encoder_live, camera, session>>

(* All is stored: venc_write_metadata(1).                                  *)
Commit ==
  /\ pc = "flushed"
  /\ StorageWrite(0, <<MetaBlock(session, s_stream_bytes, status.frames, produced)>>)
  /\ pc' = "committing"
  /\ UNCHANGED <<streamVars, status, after, err, s_encoder_live, camera, session>>

(* Faults: a failed commit passes for a success; the encoder is kept.      *)
Committed_ErrorLost ==
  /\ pc = "committing"
  /\ \/ StorageDone("OK") /\ err' = "NONE"
     \/ StorageDone("ERROR") /\ err' = "NONE"
  /\ s_encoder_live' = FALSE
  /\ pc' = "result"
  /\ UNCHANGED <<deviceVars, streamVars, status, after, camera, session>>

Committed_NotReleased ==
  /\ pc = "committing"
  /\ \/ StorageDone("OK") /\ err' = "NONE"
     \/ StorageDone("ERROR") /\ err' = "SD_WRITE"
  /\ s_encoder_live' = s_encoder_live
  /\ pc' = "result"
  /\ UNCHANGED <<deviceVars, streamVars, status, after, camera, session>>

Committed ==
  /\ pc = "committing"
  /\ \/ StorageDone("OK") /\ err' = "NONE"
     \/ StorageDone("ERROR") /\ err' = "SD_WRITE"
  /\ s_encoder_live' = FALSE
  /\ pc' = "result"
  /\ UNCHANGED <<deviceVars, streamVars, status, after, camera, session>>

(* ProcessFrame publishes the result: s_status.error, then s_status.state. *)
SetError ==
  /\ pc = "result"
  /\ status' = [status EXCEPT !.error = err]
  /\ pc' = "publish"
  /\ UNCHANGED <<deviceVars, streamVars, after, err, s_encoder_live, camera, session>>

(* Fault: a failure is not published.                                      *)
SetState_NoError ==
  /\ pc = "publish"
  /\ status' = [status EXCEPT !.state = IF err = "NONE" THEN "COMPLETE" ELSE @]
  /\ pc' = "idle"
  /\ UNCHANGED <<deviceVars, streamVars, after, err, s_encoder_live, camera, session>>

SetState ==
  /\ pc = "publish"
  /\ status' = [status EXCEPT !.state = IF err = "NONE" THEN "COMPLETE" ELSE "ERROR"]
  /\ pc' = "idle"
  /\ UNCHANGED <<deviceVars, streamVars, after, err, s_encoder_live, camera, session>>
-----------------------------------------------------------------------------
(* The device serves the recorder's call.                                  *)
DeviceTransfers ==
  /\ Device!Transfer("venc")
  /\ foreign' = foreign \ {call["venc"].lba + call["venc"].moved}
  /\ UNCHANGED <<streamVars, status, pc, after, err, s_encoder_live, camera, session>>

DeviceReturns ==
  /\ \E rc \in {"OK", "ERROR"} : Device!Return("venc", rc)
  /\ UNCHANGED <<streamVars, foreign, status, pc, after, err, s_encoder_live,
                 camera, session>>

(* The USB host, or sd write in the shell, writes a block.                 *)
OtherWrite ==
  /\ OtherWrites
  /\ \E b \in 0 .. LogBlockNbr - 1 :
       /\ disk' = [disk EXCEPT ![b] = OtherBlock]
       /\ foreign' = foreign \cup {b}
  /\ UNCHANGED <<call, reply, streamVars, status, pc, after, err,
                 s_encoder_live, camera, session>>

(* A reset or a loss of power: RAM is lost, a transfer stops where it is.  *)
Reset ==
  /\ status' = AtBoot /\ pc' = "idle" /\ after' = "none" /\ err' = "NONE"
  /\ rest' = << >> /\ s_encoder_live' = FALSE /\ s_sd_next_lba' = 0
  /\ s_stream_bytes' = 0 /\ batch' = << >> /\ produced' = 0 /\ camera' = TRUE
  /\ call' = [call EXCEPT !["venc"] = Device!NoCall]
  /\ UNCHANGED <<disk, reply, foreign, session>>
-----------------------------------------------------------------------------
Session == \/ Begin \/ WipeFails \/ EncoderRefuses \/ EncoderStarts
           \/ Append1 \/ AppendReturns
           \/ FlushNothing \/ FlushNoSpace \/ Flush \/ FlushFails \/ FlushDone
           \/ Started \/ EncodeFrame \/ EncodeFails \/ CountFrame
           \/ StreamEnds \/ StreamEndFails \/ Commit \/ Committed
           \/ SetError \/ SetState

Next == \/ Request \/ ProcessFrame \/ CaptureFails \/ Session
        \/ DeviceTransfers \/ DeviceReturns \/ OtherWrite \/ Reset

(* The camera delivers frames or fails, the task runs, calls return.       *)
Fairness == /\ WF_vars(ProcessFrame) /\ WF_vars(Session)
            /\ WF_vars(DeviceReturns)

Spec == Init /\ [][Next]_vars /\ Fairness
-----------------------------------------------------------------------------
States == {"IDLE", "REQUESTED", "RECORDING", "COMPLETE", "ERROR"}
Errors == {"NONE", "SD_WRITE", "ARENA", "INIT", "CONFIG", "STREAM_START",
           "ENCODE", "STREAM_END", "NO_SPACE"}

(* The batch never overflows s_sd_batch and the next block to write never  *)
(* passes the end of the card (venc_storage_append, venc_storage_flush).   *)
TypeOK ==
  /\ status.state \in States /\ status.frames \in 0 .. TargetFrames
  /\ status.error \in Errors /\ err \in Errors
  /\ Len(batch) <= BatchUnits /\ s_sd_next_lba \in 0 .. LogBlockNbr
  /\ s_stream_bytes \in Nat /\ produced \in Nat
  /\ s_encoder_live \in BOOLEAN /\ camera \in BOOLEAN
  /\ foreign \subseteq DOMAIN disk /\ DOMAIN disk = 0 .. LogBlockNbr - 1

(* Block k of the stream of length n that recording s produced.            *)
StreamBlock(s, k, n) ==
  [kind |-> "data",
   cells |-> [j \in 1 .. BlockUnits |->
                IF (k - 1) * BlockUnits + j <= n
                THEN Unit(s, (k - 1) * BlockUnits + j) ELSE Pad]]

(* docs/venc-recording.md: LBA 0 has the magic only after everything was   *)
(* encoded and stored.  Whenever it is there - after failures of the card, *)
(* resets in the middle of a transfer, a second recording cut short - the  *)
(* whole stream it describes is on the blocks from LBA 1, in order,        *)
(* complete and zero-padded, except where another client wrote since.      *)
MagicComplete ==
  disk[0].kind = "N6VENC1" =>
    LET s      == disk[0].cells[1]
        bytes  == disk[0].cells[2]
        frames == disk[0].cells[3]
        total  == disk[0].cells[4]
    IN /\ bytes = total /\ frames = TargetFrames
       /\ BlocksFor(bytes) < LogBlockNbr
       /\ \A k \in 1 .. BlocksFor(bytes) :
            k \notin foreign => disk[k] = StreamBlock(s, k, bytes)

(* The status never claims a recording the disk does not have: COMPLETE    *)
(* means the metadata of this recording reached LBA 0.                     *)
CompleteIsOnDisk ==
  (status.state = "COMPLETE" /\ 0 \notin foreign) =>
    /\ disk[0].kind = "N6VENC1"
    /\ disk[0].cells[1] = session

(* The shell's request, made while the camera task is still publishing the *)
(* result of the recording before, is not spoilt by it.                    *)
RequestKept ==
  status.state = "REQUESTED" /\ pc \in {"idle", "begin", "wiped"} =>
    status.error = "NONE" /\ status.frames = 0

(* An encoder outlives its session only when H264EncStrmEnd failed: the    *)
(* arena that venc_encoder_begin resets is otherwise no encoder's.         *)
EncoderReleased ==
  (s_encoder_live /\ pc \in {"idle", "begin", "wiped"} /\ status.state # "RECORDING")
    => err = "STREAM_END"

(* An accepted request comes to an end, unless CameraTask has left its     *)
(* loop - then nobody serves it, now or later.                             *)
RequestEnds ==
  status.state = "REQUESTED" ~> (status.state \notin {"REQUESTED", "RECORDING"} \/ ~camera)
=============================================================================
