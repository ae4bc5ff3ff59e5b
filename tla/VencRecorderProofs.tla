------------------------- MODULE VencRecorderProofs -------------------------
(***************************************************************************)
(* Proofs about the H.264 recorder: whatever the sizes of card, batch and  *)
(* frames, and whatever fails or is reset, the magic in LBA 0 stands only  *)
(* before a whole recording, and COMPLETE only after it.                   *)
(***************************************************************************)
EXTENDS VencRecorder, SequenceTheorems, TLAPS

Call  == call["venc"]
Reply == reply["venc"]

(* Units of the stream that were in batches flushed before.                *)
Stored == s_stream_bytes - Len(batch)

(* A recording runs: what the encoder produced is rest, batch and disk.    *)
Streaming ==
  \/ pc \in {"append", "flush", "flushing", "started", "encode", "encoded",
             "finish", "flushed", "committing"}
  \/ pc = "idle" /\ status.state = "RECORDING"

(* The states and places of VencRecorder_ProcessFrame that go together,    *)
(* and how many frames they have counted.                                  *)
Control ==
  /\ status = [state |-> status.state, frames |-> status.frames, error |-> status.error]
  /\ status.state \in States /\ status.error \in Errors /\ err \in Errors
  /\ status.frames \in 0 .. TargetFrames
  /\ s_encoder_live \in BOOLEAN /\ camera \in BOOLEAN /\ session \in Nat
  /\ pc \in {"idle", "begin", "wiped", "append", "flush", "flushing", "started",
             "encode", "encoded", "finish", "flushed", "committing", "result",
             "publish"}
  /\ pc # "idle" => status.state \in {"REQUESTED", "RECORDING"}
  /\ pc \in {"begin", "wiped", "started"} => status.state = "REQUESTED"
  /\ status.state = "REQUESTED" => status.frames = 0
  /\ pc \in {"append", "flush", "flushing"} =>
       /\ after \in {"started", "encoded", "ended", "flushed"}
       /\ after = "flushed" => pc # "append"
       /\ status.state = (IF after = "started" THEN "REQUESTED" ELSE "RECORDING")
       /\ after = "encoded" => status.frames < TargetFrames
       /\ after \in {"ended", "flushed"} => status.frames = TargetFrames
  /\ pc \in {"encode", "encoded"} => status.state = "RECORDING"
  /\ pc \in {"idle", "encode", "encoded"} /\ status.state = "RECORDING" =>
       status.frames < TargetFrames
  /\ pc \in {"finish", "flushed", "committing"} =>
       status.state = "RECORDING" /\ status.frames = TargetFrames

(* Who holds the encoder, and what the last result was.                    *)
Released ==
  /\ pc \in {"result", "publish"} /\ s_encoder_live => err = "STREAM_END"
  /\ RequestKept /\ EncoderReleased

(* Batch and rest are consecutive pieces of the stream of this recording,  *)
(* and the batch begins at a block boundary of it.                         *)
Stream ==
  /\ batch \in Seq(Nat \X Nat) /\ rest \in Seq(Nat \X Nat)
  /\ s_stream_bytes \in Nat /\ produced \in Nat
  /\ Len(batch) <= BatchUnits /\ s_sd_next_lba \in 0 .. LogBlockNbr
  /\ Streaming =>
       /\ s_sd_next_lba >= 1
       /\ s_stream_bytes + Len(rest) = produced
       /\ Len(batch) <= s_stream_bytes
       /\ \A i \in 1 .. Len(batch) : batch[i] = Unit(session, Stored + i)
       /\ \A i \in 1 .. Len(rest) : rest[i] = Unit(session, s_stream_bytes + i)
       /\ pc \notin {"flush", "flushing"} => Len(batch) < BatchUnits
       /\ pc \notin {"flushed", "committing"} => Stored = (s_sd_next_lba - 1) * BlockUnits
  /\ pc \in {"flushed", "committing"} =>
       /\ batch = << >> /\ rest = << >>
       /\ s_sd_next_lba - 1 = BlocksFor(s_stream_bytes)
  /\ pc \in {"flush", "flushing"} /\ after # "flushed" => Len(batch) = BatchUnits
  /\ pc \in {"flush", "flushing"} /\ after = "flushed" => rest = << >>
  /\ Streaming /\ pc \notin {"append", "flush", "flushing"} => rest = << >>

(* A block the recording wrote holds what it wrote, unless another client  *)
(* wrote there since.                                                      *)
Holds(b, content) == b \notin foreign => disk[b] = content

(* The calls a step of the recorder makes, and nothing else.               *)
CallKnown ==
  /\ call = [c \in {"venc"} |-> call[c]] /\ reply = [c \in {"venc"} |-> reply[c]]
  /\ Call = [op |-> Call.op, lba |-> Call.lba, n |-> Call.n, data |-> Call.data,
             moved |-> Call.moved]
  /\ Call.op \in {"none", "write"}
  /\ Call.op = "write" =>
       /\ pc \in {"wiped", "flushing", "committing"}
       /\ Call.n \in Nat /\ Call.moved \in 0 .. Call.n
  /\ pc = "wiped" /\ Call.op = "write" =>
       Call.lba = 0 /\ Call.n = 1 /\ Call.data = <<ZeroBlock>>
  /\ pc = "flushing" =>
       batch # << >> /\ s_sd_next_lba + BlocksFor(Len(batch)) <= LogBlockNbr
  /\ pc = "flushing" /\ Call.op = "write" =>
       /\ Call.lba = s_sd_next_lba /\ Call.n = BlocksFor(Len(batch))
       /\ Call.data = BatchData
  /\ pc = "committing" /\ Call.op = "write" =>
       /\ Call.lba = 0 /\ Call.n = 1
       /\ Call.data = <<MetaBlock(session, s_stream_bytes, status.frames, produced)>>

(* A call of the recorder has reached block m of it.                       *)
Reached(m) == \/ Call.op = "write" /\ Call.moved >= m
              \/ Call.op = "none" /\ Reply = "OK"

Unmarked == disk[0].kind # "N6VENC1"
Marked   == 0 \notin foreign => disk[0].kind = "N6VENC1" /\ disk[0].cells[1] = session

(* The blocks of the card: LBA 0 has no magic while the recording runs,    *)
(* and what was flushed is where the stream says.                          *)
Card ==
  /\ disk = [b \in 0 .. LogBlockNbr - 1 |-> disk[b]]
  /\ foreign \subseteq 0 .. LogBlockNbr - 1
  /\ pc = "wiped" /\ Reached(1) => Unmarked
  /\ Streaming /\ pc # "committing" => Unmarked
  /\ pc = "committing" /\ Reached(1) => Marked
  /\ Streaming => \A k \in 1 .. s_sd_next_lba - 1 :
                    Holds(k, StreamBlock(session, k, Stored))
  /\ pc = "flushing" => \A m \in 1 .. BlocksFor(Len(batch)) :
                         Reached(m) => Holds(s_sd_next_lba + m - 1, BatchData[m])
  /\ pc \in {"result", "publish"} /\ err = "NONE" => Marked
  /\ MagicComplete /\ CompleteIsOnDisk

RecInv == Control /\ Released /\ Stream /\ CallKnown /\ Card
-----------------------------------------------------------------------------
(* The number of blocks n units need (venc_storage_flush).                 *)
LEMMA BlocksLemma ==
  ASSUME NEW n \in Nat
  PROVE  /\ BlocksFor(n) \in Nat
         /\ n <= BlocksFor(n) * BlockUnits
         /\ (BlocksFor(n) - 1) * BlockUnits < n
         /\ n > 0 => BlocksFor(n) >= 1
<1>1. n + BlockUnits - 1 \in Nat
  BY RecorderAssumption
<1>2. \A x \in Nat : LET q == x \div BlockUnits
                     IN q \in Nat /\ q * BlockUnits <= x /\ x < q * BlockUnits + BlockUnits
  BY RecorderAssumption
<1> DEFINE q == (n + BlockUnits - 1) \div BlockUnits
<1>3. q \in Nat /\ q * BlockUnits <= n + BlockUnits - 1
      /\ n + BlockUnits - 1 < q * BlockUnits + BlockUnits
  BY <1>1, <1>2
<1>4. (q - 1) * BlockUnits = q * BlockUnits - BlockUnits /\ q * BlockUnits \in Nat
      /\ (q = 0 => q * BlockUnits = 0)
  BY <1>3, RecorderAssumption
<1>5. BlocksFor(n) = q
  BY DEF BlocksFor
<1> HIDE DEF q
<1> QED BY <1>3, <1>4, <1>5, RecorderAssumption

(* There is one such number.                                               *)
LEMMA BlocksUnique ==
  ASSUME NEW n \in Nat, NEW b \in Nat,
         n <= b * BlockUnits, (b - 1) * BlockUnits < n
  PROVE  BlocksFor(n) = b
<1>1. \A x \in Int, y \in Int : x * BlockUnits < y * BlockUnits => x < y
  BY RecorderAssumption
<1> DEFINE q == BlocksFor(n)
<1>2. q \in Nat /\ n <= q * BlockUnits /\ (q - 1) * BlockUnits < n
  BY BlocksLemma
<1> HIDE DEF q
<1>3. (q - 1) * BlockUnits < b * BlockUnits /\ (b - 1) * BlockUnits < q * BlockUnits
  <2>1. /\ (q - 1) * BlockUnits \in Int /\ q * BlockUnits \in Int
        /\ (b - 1) * BlockUnits \in Int /\ b * BlockUnits \in Int
    BY <1>2, RecorderAssumption
  <2> QED BY <1>2, <2>1
<1>4. q - 1 < b /\ b - 1 < q
  BY <1>1, <1>2, <1>3
<1> QED BY <1>2, <1>4 DEF q

(* Whole blocks before n units add up.                                     *)
LEMMA BlocksAdd ==
  ASSUME NEW a \in Nat, NEW n \in Nat
  PROVE  BlocksFor(a * BlockUnits + n) = a + BlocksFor(n)
<1> DEFINE b == BlocksFor(n)
<1>1. b \in Nat /\ n <= b * BlockUnits /\ (b - 1) * BlockUnits < n
  BY BlocksLemma
<1>2. /\ (a + b) * BlockUnits = a * BlockUnits + b * BlockUnits
      /\ (a + b - 1) * BlockUnits = a * BlockUnits + (b - 1) * BlockUnits
      /\ a * BlockUnits \in Nat
      /\ b * BlockUnits \in Int /\ (b - 1) * BlockUnits \in Int
  BY <1>1, RecorderAssumption
<1>3. a * BlockUnits + n <= (a + b) * BlockUnits
      /\ (a + b - 1) * BlockUnits < a * BlockUnits + n
  BY <1>1, <1>2
<1> HIDE DEF b
<1>4. BlocksFor(a * BlockUnits + n) = a + b
  BY <1>1, <1>2, <1>3, BlocksUnique
<1> QED BY <1>4 DEF b

(* A block the stream fills does not change when the stream grows.         *)
LEMMA FullBlock ==
  ASSUME NEW s, NEW k \in Nat, NEW n \in Nat, NEW m \in Nat,
         k * BlockUnits <= n, n <= m
  PROVE  StreamBlock(s, k, n) = StreamBlock(s, k, m)
<1>1. (k - 1) * BlockUnits + BlockUnits = k * BlockUnits
      /\ k * BlockUnits \in Nat /\ (k - 1) * BlockUnits \in Int
  BY RecorderAssumption
<1>2. \A j \in 1 .. BlockUnits :
        (k - 1) * BlockUnits + j <= n /\ (k - 1) * BlockUnits + j <= m
  BY <1>1, RecorderAssumption
<1> QED BY <1>2 DEF StreamBlock

(* The batch is the next piece of the stream, zero-padded where it ends    *)
(* (what venc_storage_flush writes).                                       *)
LEMMA BatchBlock ==
  ASSUME Stream, Streaming, Stored = (s_sd_next_lba - 1) * BlockUnits,
         NEW m \in 1 .. BlocksFor(Len(batch))
  PROVE  BatchData[m] = StreamBlock(session, s_sd_next_lba + m - 1, s_stream_bytes)
<1> DEFINE a == s_sd_next_lba - 1
           k == s_sd_next_lba + m - 1
<1>1. /\ Len(batch) \in Nat /\ s_stream_bytes \in Nat /\ a \in Nat /\ m \in Nat
      /\ s_stream_bytes = a * BlockUnits + Len(batch)
      /\ \A i \in 1 .. Len(batch) : batch[i] = Unit(session, a * BlockUnits + i)
      /\ BlocksFor(Len(batch)) \in Nat /\ a * BlockUnits \in Nat
  BY BlocksLemma, LenProperties, RecorderAssumption DEF Stream, Stored
<1>2. (k - 1) * BlockUnits = a * BlockUnits + (m - 1) * BlockUnits
      /\ (m - 1) * BlockUnits \in Nat
  BY <1>1, RecorderAssumption DEF Stream
<1>3. ASSUME NEW j \in 1 .. BlockUnits
      PROVE  (IF (m - 1) * BlockUnits + j <= Len(batch)
              THEN batch[(m - 1) * BlockUnits + j] ELSE Pad)
             = IF (k - 1) * BlockUnits + j <= s_stream_bytes
               THEN Unit(session, (k - 1) * BlockUnits + j) ELSE Pad
  <2> HIDE DEF a, k
  <2>1. (m - 1) * BlockUnits + j <= Len(batch)
        <=> (k - 1) * BlockUnits + j <= s_stream_bytes
    BY <1>1, <1>2, RecorderAssumption
  <2>2. ASSUME (m - 1) * BlockUnits + j <= Len(batch)
        PROVE  batch[(m - 1) * BlockUnits + j] = Unit(session, (k - 1) * BlockUnits + j)
    <3>1. (m - 1) * BlockUnits + j \in 1 .. Len(batch)
      BY <1>1, <1>2, <2>2, RecorderAssumption
    <3>2. a * BlockUnits + ((m - 1) * BlockUnits + j) = (k - 1) * BlockUnits + j
      BY <1>1, <1>2, RecorderAssumption
    <3> QED BY <1>1, <3>1, <3>2
  <2> QED BY <2>1, <2>2
<1> QED BY <1>3 DEF BatchData, StreamBlock
-----------------------------------------------------------------------------
(* A full batch is not empty.                                              *)
LEMMA BatchHoldsUnits == BatchUnits \in Nat \ {0} /\ Len(<< >>) = 0
BY EmptySeq, RecorderAssumption DEF BatchUnits

(* No step leaves the states that go together.                             *)
LEMMA ControlStep ==
  ASSUME Control, Stream, [Next]_vars
  PROVE  Control'
<1> USE RecorderAssumption DEF Control, States, Errors
<1>1. CASE Request
  BY <1>1 DEF Request
<1>2. CASE ProcessFrame
  BY <1>2 DEF ProcessFrame
<1>3. CASE CaptureFails
  BY <1>3 DEF CaptureFails
<1>4. CASE Begin
  BY <1>4 DEF Begin
<1>5. CASE WipeFails
  BY <1>5 DEF WipeFails, Fail
<1>6. CASE EncoderRefuses
  BY <1>6 DEF EncoderRefuses, Fail, ResetStream
<1>7. CASE EncoderStarts
  BY <1>7 DEF EncoderStarts, ResetStream
<1>8. CASE Append1
  BY <1>8 DEF Append1
<1>9. CASE AppendReturns
  BY <1>9 DEF AppendReturns
<1>10. CASE FlushNothing
  <2>1. after = "flushed"
    BY <1>10, BatchHoldsUnits DEF FlushNothing, Stream
  <2> QED BY <1>10, <2>1 DEF FlushNothing
<1>11. CASE FlushNoSpace
  BY <1>11 DEF FlushNoSpace, Fail
<1>12. CASE Flush
  BY <1>12 DEF Flush
<1>13. CASE FlushFails
  BY <1>13 DEF FlushFails, Fail
<1>14. CASE FlushDone
  BY <1>14 DEF FlushDone
<1>15. CASE Started
  BY <1>15 DEF Started
<1>16. CASE EncodeFrame
  BY <1>16 DEF EncodeFrame, Produce
<1>17. CASE EncodeFails
  BY <1>17 DEF EncodeFails, Fail
<1>18. CASE CountFrame
  BY <1>18 DEF CountFrame
<1>19. CASE StreamEnds
  BY <1>19 DEF StreamEnds, Produce
<1>20. CASE StreamEndFails
  BY <1>20 DEF StreamEndFails
<1>21. CASE Commit
  BY <1>21 DEF Commit
<1>22. CASE Committed
  BY <1>22 DEF Committed
<1>23. CASE SetError
  BY <1>23 DEF SetError
<1>24. CASE SetState
  BY <1>24 DEF SetState
<1>25. CASE DeviceTransfers
  BY <1>25 DEF DeviceTransfers
<1>26. CASE DeviceReturns
  BY <1>26 DEF DeviceReturns
<1>27. CASE OtherWrite
  BY <1>27 DEF OtherWrite
<1>28. CASE Reset
  <2>1. /\ status' = AtBoot /\ pc' = "idle" /\ err' = "NONE"
        /\ s_encoder_live' \in BOOLEAN /\ camera' \in BOOLEAN /\ session' = session
    BY <1>28 DEF Reset
  <2>2. /\ status'.state = "IDLE" /\ status'.frames = 0 /\ status'.error = "NONE"
        /\ status' = [state |-> status'.state, frames |-> status'.frames,
                      error |-> status'.error]
    BY <2>1 DEF AtBoot
  <2> QED BY <2>1, <2>2
<1>29. CASE UNCHANGED vars
  BY <1>29 DEF vars
<1> QED
  BY <1>1, <1>2, <1>3, <1>4, <1>5, <1>6, <1>7, <1>8, <1>9, <1>10, <1>11, <1>12, <1>13, <1>14, <1>15, <1>16, <1>17, <1>18, <1>19, <1>20, <1>21, <1>22, <1>23, <1>24, <1>25, <1>26, <1>27, <1>28, <1>29
  DEF Next, Session

(* No step loses track of the encoder, or spoils a request.                *)
LEMMA ReleasedStep ==
  ASSUME Control, Released, [Next]_vars
  PROVE  Released'
<1> USE RecorderAssumption DEF Control, Released, RequestKept, EncoderReleased
<1>1. CASE Request
  BY <1>1 DEF Request
<1>2. CASE ProcessFrame
  BY <1>2 DEF ProcessFrame
<1>3. CASE CaptureFails
  BY <1>3 DEF CaptureFails
<1>4. CASE Begin
  BY <1>4 DEF Begin
<1>5. CASE WipeFails
  BY <1>5 DEF WipeFails, Fail
<1>6. CASE EncoderRefuses
  BY <1>6 DEF EncoderRefuses, Fail, ResetStream
<1>7. CASE EncoderStarts
  BY <1>7 DEF EncoderStarts, ResetStream
<1>8. CASE Append1
  BY <1>8 DEF Append1
<1>9. CASE AppendReturns
  BY <1>9 DEF AppendReturns
<1>10. CASE FlushNothing
  BY <1>10 DEF FlushNothing
<1>11. CASE FlushNoSpace
  BY <1>11 DEF FlushNoSpace, Fail
<1>12. CASE Flush
  BY <1>12 DEF Flush
<1>13. CASE FlushFails
  BY <1>13 DEF FlushFails, Fail
<1>14. CASE FlushDone
  BY <1>14 DEF FlushDone
<1>15. CASE Started
  BY <1>15 DEF Started
<1>16. CASE EncodeFrame
  BY <1>16 DEF EncodeFrame, Produce
<1>17. CASE EncodeFails
  BY <1>17 DEF EncodeFails, Fail
<1>18. CASE CountFrame
  BY <1>18 DEF CountFrame
<1>19. CASE StreamEnds
  BY <1>19 DEF StreamEnds, Produce
<1>20. CASE StreamEndFails
  BY <1>20 DEF StreamEndFails
<1>21. CASE Commit
  BY <1>21 DEF Commit
<1>22. CASE Committed
  BY <1>22 DEF Committed
<1>23. CASE SetError
  BY <1>23 DEF SetError
<1>24. CASE SetState
  BY <1>24 DEF SetState
<1>25. CASE DeviceTransfers
  BY <1>25 DEF DeviceTransfers
<1>26. CASE DeviceReturns
  BY <1>26 DEF DeviceReturns
<1>27. CASE OtherWrite
  BY <1>27 DEF OtherWrite
<1>28. CASE Reset
  BY <1>28 DEF Reset, AtBoot
<1>29. CASE UNCHANGED vars
  BY <1>29 DEF vars
<1> QED
  BY <1>1, <1>2, <1>3, <1>4, <1>5, <1>6, <1>7, <1>8, <1>9, <1>10, <1>11, <1>12, <1>13, <1>14, <1>15, <1>16, <1>17, <1>18, <1>19, <1>20, <1>21, <1>22, <1>23, <1>24, <1>25, <1>26, <1>27, <1>28, <1>29
  DEF Next, Session
(* A stream that ends at a block boundary has so many blocks.              *)
LEMMA WholeBlocks ==
  ASSUME NEW b \in Nat
  PROVE  BlocksFor(b * BlockUnits) = b
<1>1. BlocksFor(0) = 0
  BY BlocksUnique, RecorderAssumption
<1>2. b * BlockUnits + 0 = b * BlockUnits
  BY RecorderAssumption
<1>3. BlocksFor(b * BlockUnits + 0) = b + BlocksFor(0)
  BY BlocksAdd
<1> QED BY <1>1, <1>2, <1>3

(* One pass of venc_storage_append moves a piece from rest to the batch.   *)
LEMMA AppendKeeps ==
  ASSUME Control, Stream, Append1
  PROVE  Stream' /\ Stored' = Stored
<1> DEFINE chunk == Least(Len(rest), BatchUnits - Len(batch))
           moving == SubSeq(rest, 1, chunk)
           left == SubSeq(rest, chunk + 1, Len(rest))
<1>1. /\ pc = "append" /\ rest # << >> /\ batch' = batch \o moving
      /\ s_stream_bytes' = s_stream_bytes + chunk /\ rest' = left
      /\ pc' = (IF Len(batch) + chunk = BatchUnits THEN "flush" ELSE "append")
      /\ UNCHANGED <<s_sd_next_lba, produced, status, after, session>>
  BY DEF Append1
<1>2. /\ Streaming /\ batch \in Seq(Nat \X Nat) /\ rest \in Seq(Nat \X Nat)
      /\ Len(batch) \in Nat /\ Len(rest) \in Nat /\ Len(rest) > 0
      /\ Len(batch) < BatchUnits /\ s_stream_bytes \in Nat
      /\ s_stream_bytes + Len(rest) = produced /\ Len(batch) <= s_stream_bytes
      /\ \A i \in 1 .. Len(rest) : rest[i] \in Nat \X Nat
      /\ \A i \in 1 .. Len(batch) : batch[i] = Unit(session, Stored + i)
      /\ \A i \in 1 .. Len(rest) : rest[i] = Unit(session, s_stream_bytes + i)
  <2>1. Streaming
    BY <1>1 DEF Streaming
  <2>2. batch \in Seq(Nat \X Nat) /\ rest \in Seq(Nat \X Nat)
    BY DEF Stream
  <2>3. Len(batch) \in Nat /\ Len(rest) \in Nat /\ Len(rest) > 0
    BY <1>1, <2>2, LenProperties, EmptySeq
  <2>4. \A i \in 1 .. Len(rest) : rest[i] \in Nat \X Nat
    BY <2>2, ElementOfSeq
  <2> QED BY <1>1, <2>1, <2>2, <2>3, <2>4 DEF Stream
<1>3. chunk \in 1 .. Len(rest) /\ Len(batch) + chunk <= BatchUnits
  BY <1>2, BatchHoldsUnits DEF Least
<1> HIDE DEF chunk
<1>4. /\ moving \in Seq(Nat \X Nat) /\ Len(moving) = chunk
      /\ \A i \in 1 .. chunk : moving[i] = rest[i]
  <2>1. \A i \in 1 .. chunk : rest[i] \in Nat \X Nat
    BY <1>2, <1>3
  <2>2. /\ moving \in Seq(Nat \X Nat)
        /\ Len(moving) = IF 1 <= chunk THEN chunk - 1 + 1 ELSE 0
        /\ \A i \in 1 .. chunk - 1 + 1 : moving[i] = rest[1 + i - 1]
    BY <1>3, <2>1, SubSeqProperties
  <2> QED BY <1>3, <2>2
<1>5. /\ left \in Seq(Nat \X Nat) /\ Len(left) = Len(rest) - chunk
      /\ \A i \in 1 .. Len(rest) - chunk : left[i] = rest[chunk + i]
  <2>1. \A i \in chunk + 1 .. Len(rest) : rest[i] \in Nat \X Nat
    BY <1>2, <1>3
  <2>2. chunk + 1 \in Int /\ Len(rest) \in Int
    BY <1>2, <1>3
  <2>3. /\ left \in Seq(Nat \X Nat)
        /\ Len(left) = IF chunk + 1 <= Len(rest) THEN Len(rest) - (chunk + 1) + 1 ELSE 0
        /\ \A i \in 1 .. Len(rest) - (chunk + 1) + 1 : left[i] = rest[chunk + 1 + i - 1]
    BY <2>1, <2>2, SubSeqProperties
  <2> HIDE DEF left
  <2>4. Len(left) = Len(rest) - chunk
    <3>1. CASE chunk + 1 <= Len(rest)
      BY <1>2, <1>3, <2>3, <3>1
    <3>2. CASE chunk = Len(rest)
      <4>1. ~ (chunk + 1 <= Len(rest)) /\ Len(rest) - chunk = 0
        BY <1>2, <3>2
      <4> QED BY <2>3, <4>1
    <3> QED BY <1>2, <1>3, <3>1, <3>2
  <2>5. \A i \in 1 .. Len(rest) - chunk : left[i] = rest[chunk + i]
    BY <1>2, <1>3, <2>3
  <2> QED BY <2>3, <2>4, <2>5
<1> HIDE DEF moving, left
<1>6. /\ batch' \in Seq(Nat \X Nat) /\ Len(batch') = Len(batch) + chunk
      /\ \A i \in 1 .. Len(batch) + chunk :
           batch'[i] = IF i <= Len(batch) THEN batch[i] ELSE moving[i - Len(batch)]
  BY <1>1, <1>2, <1>4, ConcatProperties
<1>7. Stored' = Stored /\ Stored \in Nat
  BY <1>1, <1>2, <1>3, <1>6 DEF Stored, Stream
<1>8. \A i \in 1 .. Len(batch') : batch'[i] = Unit(session, Stored' + i)
  <2> SUFFICES ASSUME NEW i \in 1 .. Len(batch) + chunk
               PROVE  batch'[i] = Unit(session, Stored + i)
    BY <1>6, <1>7
  <2>1. CASE i <= Len(batch)
    <3>1. i \in 1 .. Len(batch)
      BY <1>2, <1>3, <2>1
    <3> QED BY <1>2, <1>6, <2>1, <3>1
  <2>2. CASE i > Len(batch)
    <3>1. i - Len(batch) \in 1 .. chunk /\ i \in Nat
      BY <1>2, <1>3, <2>2
    <3>2. batch'[i] = rest[i - Len(batch)]
      <4>1. ~ (i <= Len(batch))
        BY <1>2, <2>2, <3>1
      <4> QED BY <1>4, <1>6, <3>1, <4>1
    <3>3. rest[i - Len(batch)] = Unit(session, s_stream_bytes + (i - Len(batch)))
      BY <1>2, <1>3, <3>1
    <3>4. s_stream_bytes + (i - Len(batch)) = Stored + i
      BY <1>2, <3>1 DEF Stored
    <3> QED BY <3>2, <3>3, <3>4
  <2> QED BY <1>2, <1>3, <2>1, <2>2
<1>9. \A i \in 1 .. Len(rest') : rest'[i] = Unit(session, s_stream_bytes' + i)
  <2> SUFFICES ASSUME NEW i \in 1 .. Len(rest) - chunk
               PROVE  left[i] = Unit(session, s_stream_bytes + chunk + i)
    BY <1>1, <1>5
  <2>1. chunk + i \in 1 .. Len(rest) /\ s_stream_bytes + (chunk + i) = s_stream_bytes + chunk + i
    BY <1>2, <1>3
  <2> QED BY <1>2, <1>5, <2>1
<1>10. after \notin {"flushed"} /\ (pc' = "flush" => Len(batch') = BatchUnits)
  BY <1>1, <1>6 DEF Control
<1>11. s_stream_bytes' + Len(rest') = produced'
  BY <1>1, <1>2, <1>3, <1>5
<1>12. /\ Len(batch') <= BatchUnits /\ (pc' # "flush" => Len(batch') < BatchUnits)
       /\ pc' \in {"flush", "append"} /\ Len(batch') <= s_stream_bytes'
       /\ s_stream_bytes' \in Nat
  <2>1. s_stream_bytes' = s_stream_bytes + chunk /\ Len(batch') = Len(batch) + chunk
    BY <1>1, <1>6
  <2>2. pc' \in {"flush", "append"} /\ (pc' # "flush" => Len(batch') # BatchUnits)
    BY <1>1, <1>6
  <2>3. /\ Len(batch) \in Nat /\ s_stream_bytes \in Nat /\ chunk \in Nat
        /\ BatchUnits \in Nat /\ Len(batch) <= s_stream_bytes
    BY <1>2, <1>3, BatchHoldsUnits
  <2>4. Len(batch) + chunk <= BatchUnits
    BY <1>3
  <2> HIDE DEF chunk
  <2> QED BY <2>1, <2>2, <2>3, <2>4
<1>13. /\ s_sd_next_lba' >= 1 /\ s_sd_next_lba' \in 0 .. LogBlockNbr /\ produced' \in Nat
       /\ Stored' = (s_sd_next_lba' - 1) * BlockUnits
  BY <1>1, <1>2, <1>7 DEF Stream
<1> QED
  BY <1>1, <1>5, <1>6, <1>7, <1>8, <1>9, <1>10, <1>11, <1>12, <1>13 DEF Stream, Streaming

(* A flush that succeeds moves the start of the batch by its blocks.       *)
LEMMA FlushKeeps ==
  ASSUME Control, Stream, CallKnown, FlushDone
  PROVE  Stream'
<1> DEFINE n == Len(batch)
           a == s_sd_next_lba - 1
<1>1. /\ pc = "flushing" /\ Streaming /\ batch' = << >>
      /\ s_sd_next_lba' = s_sd_next_lba + BlocksFor(n)
      /\ pc' = (IF after = "flushed" THEN "flushed" ELSE "append")
      /\ UNCHANGED <<rest, s_stream_bytes, produced, after, session>>
  BY DEF FlushDone, Streaming
<1>2. /\ n \in Nat /\ a \in Nat /\ s_stream_bytes \in Nat
      /\ s_stream_bytes = a * BlockUnits + n /\ a * BlockUnits \in Nat
      /\ BlocksFor(n) \in Nat
  BY <1>1, LenProperties, BlocksLemma, RecorderAssumption DEF Stream, Stored
<1>3. s_sd_next_lba' \in 0 .. LogBlockNbr /\ s_sd_next_lba' >= 1
  <2>1. s_sd_next_lba \in Nat /\ s_sd_next_lba >= 1
        /\ s_sd_next_lba + BlocksFor(n) <= LogBlockNbr
    BY <1>1 DEF CallKnown, Stream
  <2> HIDE DEF n
  <2> QED BY <1>1, <1>2, <2>1, RecorderAssumption
<1>4. /\ batch' \in Seq(Nat \X Nat) /\ Len(batch') = 0
      /\ Stored' = s_stream_bytes
  BY <1>1, <1>2, EmptySeq DEF Stored
<1>5. CASE after = "flushed"
  <2>1. BlocksFor(s_stream_bytes) = a + BlocksFor(n)
    BY <1>2, BlocksAdd
  <2>2. s_sd_next_lba' - 1 = BlocksFor(s_stream_bytes')
    <3>1. s_stream_bytes' = s_stream_bytes /\ s_sd_next_lba \in Nat
      BY <1>1 DEF Stream
    <3>2. s_sd_next_lba' - 1 = a + BlocksFor(n)
      BY <1>1, <1>2, <3>1
    <3> QED BY <2>1, <3>1, <3>2
  <2> QED
    BY <1>1, <1>3, <1>4, <1>5, <2>2, BatchHoldsUnits DEF Stream, Streaming
<1>6. CASE after # "flushed"
  <2>1. n = BatchBlocks * BlockUnits
    BY <1>1, <1>6 DEF Stream, BatchUnits
  <2>2. BlocksFor(n) = BatchBlocks
    BY <2>1, WholeBlocks, RecorderAssumption
  <2>3. (a + BatchBlocks) * BlockUnits = a * BlockUnits + BatchBlocks * BlockUnits
    BY <1>2, RecorderAssumption
  <2>4. s_stream_bytes = (s_sd_next_lba' - 1) * BlockUnits
    <3>1. s_sd_next_lba' - 1 = a + BatchBlocks
      BY <1>1, <1>2, <2>2, RecorderAssumption DEF Stream
    <3> HIDE DEF n, a
    <3> QED BY <1>2, <2>1, <2>3, <3>1
  <2> QED
    BY <1>1, <1>3, <1>4, <1>6, <2>4, BatchHoldsUnits DEF Stream, Streaming
<1> QED BY <1>5, <1>6

(* Batch and rest stay the next pieces of the stream.                      *)
LEMMA StreamStep ==
  ASSUME Control, Stream, CallKnown, [Next]_vars
  PROVE  Stream'
<1> USE RecorderAssumption, BatchHoldsUnits
<1> DEFINE Same == UNCHANGED <<streamVars, session>>
<1>1. ASSUME Same, ~Streaming', pc' \notin {"flush", "flushing", "flushed", "committing"}
      PROVE  Stream'
  BY <1>1 DEF Stream, streamVars
<1>2. CASE Request
  <2>1. /\ streamVars' = streamVars /\ pc' = "idle"
        /\ status'.state = "REQUESTED" /\ ~Streaming'
    BY <1>2 DEF Request, Control, Streaming
  <2> QED BY <2>1 DEF Stream, streamVars
<1>3. CASE ProcessFrame
  BY <1>3 DEF ProcessFrame, Control, Stream, Streaming, streamVars, Stored
<1>4. CASE CaptureFails
  BY <1>4 DEF CaptureFails, Control, Stream, Streaming, streamVars, Stored
<1>5. CASE Begin \/ WipeFails \/ FlushNoSpace \/ FlushFails \/ EncodeFails
           \/ StreamEndFails \/ Committed \/ SetError
  <2>1. Same /\ pc' \in {"wiped", "result", "publish"}
    BY <1>5 DEF Begin, WipeFails, FlushNoSpace, FlushFails, EncodeFails,
                StreamEndFails, Committed, SetError, Fail
  <2> QED BY <1>1, <2>1 DEF Streaming
<1>6. CASE SetState
  <2>1. Same /\ pc' = "idle" /\ status'.state # "RECORDING"
    BY <1>6 DEF SetState, Control
  <2> QED BY <1>1, <2>1 DEF Streaming
<1>7. CASE EncoderRefuses
  <2>1. /\ s_sd_next_lba' = 1 /\ s_stream_bytes' = 0 /\ batch' = << >>
        /\ rest' = << >> /\ produced' = 0 /\ pc' = "result"
    BY <1>7 DEF EncoderRefuses, ResetStream, Fail
  <2> QED BY <2>1, EmptySeq DEF Stream, Streaming
<1>8. CASE EncoderStarts
  <2>1. /\ s_sd_next_lba' = 1 /\ s_stream_bytes' = 0 /\ batch' = << >>
        /\ rest' = [i \in 1 .. HeaderUnits |-> Unit(session, i)]
        /\ produced' = HeaderUnits /\ pc' = "append" /\ session' = session
    BY <1>8 DEF EncoderStarts, ResetStream
  <2>2. rest' \in Seq(Nat \X Nat) /\ Len(rest') = HeaderUnits
    BY <2>1, IsASeq DEF Control, Unit
  <2> QED BY <2>1, <2>2, EmptySeq DEF Stream, Streaming, Stored
<1>9. CASE Append1
  BY <1>9, AppendKeeps
<1>10. CASE AppendReturns
  <2>1. /\ pc = "append" /\ rest = << >> /\ Same /\ Streaming /\ Streaming'
        /\ pc' = (IF after = "ended" THEN "flush" ELSE after)
        /\ after' = (IF after = "ended" THEN "flushed" ELSE after)
    BY <1>10 DEF AppendReturns, Streaming, Control
  <2>2. pc' \in {"started", "encoded", "flush"} /\ (pc' = "flush" => after' = "flushed")
    BY <2>1 DEF Control
  <2> QED BY <2>1, <2>2 DEF Stream, streamVars, Stored
<1>11. CASE FlushNothing
  <2>1. /\ pc = "flush" /\ batch = << >> /\ Same /\ Streaming /\ Streaming'
        /\ pc' = "flushed"
    BY <1>11 DEF FlushNothing, Streaming
  <2>2. after = "flushed" /\ rest = << >> /\ s_stream_bytes = (s_sd_next_lba - 1) * BlockUnits
    BY <2>1 DEF Stream, Stored
  <2>3. s_sd_next_lba - 1 = BlocksFor(s_stream_bytes)
    BY <2>1, <2>2, WholeBlocks DEF Stream
  <2> QED BY <2>1, <2>2, <2>3 DEF Stream, streamVars, Stored
<1>12. CASE Flush
  <2>1. pc = "flush" /\ pc' = "flushing" /\ after' = after /\ Same /\ Streaming
    BY <1>12 DEF Flush, Streaming
  <2> QED BY <2>1 DEF Stream, streamVars, Stored
<1>13. CASE FlushDone
  BY <1>13, FlushKeeps
<1>14. CASE Started \/ CountFrame
  <2>1. /\ pc \in {"started", "encoded"} /\ pc' \in {"encode", "finish", "idle"}
        /\ Same /\ Streaming
    BY <1>14 DEF Started, CountFrame, Streaming
  <2> QED BY <2>1 DEF Stream, streamVars, Stored
<1>15. ASSUME NEW n \in Nat, NEW then, pc \in {"encode", "finish"}, Produce(n, then),
              session' = session
       PROVE  Stream'
  <2>1. /\ rest' = [i \in 1 .. n |-> Unit(session, produced + i)]
        /\ produced' = produced + n /\ pc' = "append"
        /\ UNCHANGED <<s_sd_next_lba, s_stream_bytes, batch, session>>
    BY <1>15 DEF Produce
  <2>2. /\ rest = << >> /\ Streaming /\ s_stream_bytes = produced
        /\ produced \in Nat
    BY <1>15 DEF Stream, Streaming
  <2>3. \A i \in 1 .. n : Unit(session, produced + i) \in Nat \X Nat
    BY <1>15, <2>2 DEF Control, Unit
  <2>4. rest' \in Seq(Nat \X Nat) /\ Len(rest') = n
    BY <1>15, <2>1, <2>3, IsASeq
  <2> QED BY <1>15, <2>1, <2>2, <2>4 DEF Stream, Stored
<1>16. CASE EncodeFrame
  <2>1. PICK n \in FrameUnits : Produce(n, "encoded")
    BY <1>16 DEF EncodeFrame
  <2> QED BY <1>15, <1>16, <2>1 DEF EncodeFrame
<1>17. CASE StreamEnds
  BY <1>15, <1>17 DEF StreamEnds
<1>18. CASE Commit
  <2>1. pc = "flushed" /\ pc' = "committing" /\ Same /\ Streaming
    BY <1>18 DEF Commit, Streaming
  <2> QED BY <2>1 DEF Stream, streamVars, Stored
<1>19. CASE DeviceTransfers \/ DeviceReturns \/ OtherWrite \/ UNCHANGED vars
  <2>1. Same /\ UNCHANGED <<pc, after, status>>
    BY <1>19 DEF DeviceTransfers, DeviceReturns, OtherWrite, vars
  <2> QED BY <2>1 DEF Stream, Streaming, streamVars, Stored
<1>20. CASE Reset
  <2>1. /\ s_sd_next_lba' = 0 /\ s_stream_bytes' = 0 /\ batch' = << >>
        /\ rest' = << >> /\ produced' = 0 /\ pc' = "idle" /\ status'.state = "IDLE"
    BY <1>20 DEF Reset, AtBoot
  <2> QED BY <2>1, EmptySeq DEF Stream, Streaming
<1> QED
  BY <1>2, <1>3, <1>4, <1>5, <1>6, <1>7, <1>8, <1>9, <1>10, <1>11, <1>12, <1>13,
     <1>14, <1>16, <1>17, <1>18, <1>19, <1>20
  DEF Next, Session
-----------------------------------------------------------------------------
(* What sd_storage_write begins.                                           *)
LEMMA WriteBegins ==
  ASSUME CallKnown, NEW lba, NEW data, StorageWrite(lba, data)
  PROVE  /\ Call' = [op |-> "write", lba |-> lba, n |-> Len(data), data |-> data,
                     moved |-> 0]
         /\ call' = [c \in {"venc"} |-> call'[c]] /\ reply' = [c \in {"venc"} |-> reply'[c]]
         /\ Call.op = "none" /\ Reply' = "none" /\ UNCHANGED <<disk, foreign>>
<1>1. /\ call["venc"].op = "none"
      /\ call' = [call EXCEPT !["venc"] = [op |-> "write", lba |-> lba, n |-> Len(data),
                                           data |-> data, moved |-> 0]]
      /\ reply' = [reply EXCEPT !["venc"] = "none"] /\ UNCHANGED <<disk, foreign>>
  BY DEF StorageWrite, Device!Write
<1>2. call = [c \in {"venc"} |-> call[c]] /\ reply = [c \in {"venc"} |-> reply[c]]
  BY DEF CallKnown
<1> QED BY <1>1, <1>2 DEF Call, Reply

(* One block of it reaches the card.                                       *)
LEMMA BlockReached ==
  ASSUME CallKnown, DeviceTransfers
  PROVE  /\ Call.op = "write" /\ Call.moved < Call.n
         /\ Call' = [op |-> "write", lba |-> Call.lba, n |-> Call.n, data |-> Call.data,
                     moved |-> Call.moved + 1]
         /\ call' = [c \in {"venc"} |-> call'[c]] /\ UNCHANGED reply
         /\ disk' = [disk EXCEPT ![Call.lba + Call.moved] = Call.data[Call.moved + 1]]
         /\ foreign' = foreign \ {Call.lba + Call.moved}
         /\ UNCHANGED <<streamVars, status, pc, after, err, s_encoder_live, camera, session>>
<1>1. /\ Call.op # "none" /\ Call.moved < Call.n
      /\ Call.op = "write" =>
           /\ disk' = [disk EXCEPT ![Call.lba + Call.moved] = Call.data[Call.moved + 1]]
           /\ call' = [call EXCEPT !["venc"].moved = @ + 1]
      /\ UNCHANGED reply
      /\ foreign' = foreign \ {Call.lba + Call.moved}
      /\ UNCHANGED <<streamVars, status, pc, after, err, s_encoder_live, camera, session>>
  BY DEF DeviceTransfers, Device!Transfer, Call
<1>2. /\ Call.op = "write" /\ call = [c \in {"venc"} |-> call[c]]
      /\ Call = [op |-> Call.op, lba |-> Call.lba, n |-> Call.n, data |-> Call.data,
                 moved |-> Call.moved]
  BY <1>1 DEF CallKnown
<1>3. call' = [c \in {"venc"} |-> [call["venc"] EXCEPT !.moved = @ + 1]]
  BY <1>1, <1>2
<1>4. call["venc"] = [op |-> Call.op, lba |-> Call.lba, n |-> Call.n, data |-> Call.data,
                      moved |-> Call.moved]
  BY <1>2 DEF Call
<1>5. call'["venc"] = [op |-> "write", lba |-> Call.lba, n |-> Call.n, data |-> Call.data,
                       moved |-> Call.moved + 1]
  BY <1>2, <1>3, <1>4
<1> QED BY <1>1, <1>2, <1>3, <1>5 DEF Call

(* sd_storage_write returns.                                               *)
LEMMA WriteReturns ==
  ASSUME CallKnown, DeviceReturns
  PROVE  /\ Call.op = "write" /\ Call'.op = "none" /\ Reply' \in {"OK", "ERROR"}
         /\ Call' = Device!NoCall
         /\ Reply' = "OK" => Call.moved = Call.n
         /\ call' = [c \in {"venc"} |-> call'[c]] /\ reply' = [c \in {"venc"} |-> reply'[c]]
         /\ UNCHANGED <<disk, foreign, streamVars, status, pc, after, err, s_encoder_live,
                        camera, session>>
<1>1. PICK rc \in {"OK", "ERROR"} : Device!Return("venc", rc)
  BY DEF DeviceReturns
<1>2. /\ call["venc"].op # "none" /\ (rc = "OK" => call["venc"].moved = call["venc"].n)
      /\ call' = [call EXCEPT !["venc"] = Device!NoCall]
      /\ reply' = [reply EXCEPT !["venc"] = rc] /\ UNCHANGED disk
  BY <1>1 DEF Device!Return
<1>3. call = [c \in {"venc"} |-> call[c]] /\ reply = [c \in {"venc"} |-> reply[c]]
      /\ Call.op \in {"none", "write"}
  BY DEF CallKnown
<1>4. Call' = Device!NoCall /\ Reply' = rc
  BY <1>2, <1>3 DEF Call, Reply
<1>5. Call.op = "write" /\ (rc = "OK" => Call.moved = Call.n)
  BY <1>2, <1>3 DEF Call
<1>6. call' = [c \in {"venc"} |-> call'[c]] /\ reply' = [c \in {"venc"} |-> reply'[c]]
  BY <1>2, <1>3
<1>7. UNCHANGED <<foreign, streamVars, status, pc, after, err, s_encoder_live, camera,
                  session>>
  BY DEF DeviceReturns
<1> QED BY <1>1, <1>2, <1>4, <1>5, <1>6, <1>7 DEF Device!NoCall

(* As long as the batch is the same, so are the blocks it is written as.   *)
LEMMA SameBatch == batch' = batch => BatchData' = BatchData
BY DEF BatchData, BlocksFor

(* What venc_storage_flush writes has as many blocks as it counted.        *)
LEMMA BatchLength ==
  ASSUME Stream
  PROVE  Len(BatchData) = BlocksFor(Len(batch)) /\ BlocksFor(Len(batch)) \in Nat
<1>1. Len(batch) \in Nat
  BY LenProperties DEF Stream
<1>2. BlocksFor(Len(batch)) \in Nat
  BY <1>1, BlocksLemma
<1> QED BY <1>2 DEF BatchData

(* Only the calls of the recorder are ever made.                           *)
LEMMA CallStep ==
  ASSUME Control, Stream, CallKnown, [Next]_vars
  PROVE  CallKnown'
<1>1. ASSUME UNCHANGED <<call, reply>>, Call.op = "none", pc' \notin {"flushing"}
      PROVE  CallKnown'
  BY <1>1 DEF CallKnown, Call
<1>2. CASE Begin
  <2>1. /\ StorageWrite(0, <<ZeroBlock>>) /\ pc' = "wiped"
    BY <1>2 DEF Begin
  <2>2. Len(<<ZeroBlock>>) = 1
    OBVIOUS
  <2>3. /\ Call' = [op |-> "write", lba |-> 0, n |-> 1, data |-> <<ZeroBlock>>, moved |-> 0]
        /\ call' = [c \in {"venc"} |-> call'[c]] /\ reply' = [c \in {"venc"} |-> reply'[c]]
    BY <2>1, <2>2, WriteBegins
  <2>4. ZeroBlock' = ZeroBlock
    BY DEF ZeroBlock
  <2> QED BY <2>1, <2>3, <2>4 DEF CallKnown
<1>3. CASE Flush
  <2>1. /\ StorageWrite(s_sd_next_lba, BatchData) /\ pc' = "flushing" /\ batch # << >>
        /\ s_sd_next_lba + BlocksFor(Len(batch)) <= LogBlockNbr
        /\ UNCHANGED <<s_sd_next_lba, batch>>
    BY <1>3 DEF Flush, streamVars
  <2>2. /\ Call' = [op |-> "write", lba |-> s_sd_next_lba, n |-> BlocksFor(Len(batch)),
                    data |-> BatchData, moved |-> 0]
        /\ call' = [c \in {"venc"} |-> call'[c]] /\ reply' = [c \in {"venc"} |-> reply'[c]]
    BY <2>1, WriteBegins, BatchLength
  <2>3. BatchData' = BatchData /\ BlocksFor(Len(batch))' = BlocksFor(Len(batch))
    BY <2>1, SameBatch DEF BlocksFor
  <2> QED BY <2>1, <2>2, <2>3, BatchLength DEF CallKnown
<1>4. CASE Commit
  <2> DEFINE m == MetaBlock(session, s_stream_bytes, status.frames, produced)
  <2>1. /\ StorageWrite(0, <<m>>) /\ pc' = "committing"
        /\ UNCHANGED <<session, s_stream_bytes, status, produced>>
    BY <1>4 DEF Commit, streamVars
  <2>2. Len(<<m>>) = 1
    OBVIOUS
  <2>3. m' = m
    BY <2>1 DEF MetaBlock
  <2> HIDE DEF m
  <2>4. /\ Call' = [op |-> "write", lba |-> 0, n |-> 1, data |-> <<m>>, moved |-> 0]
        /\ call' = [c \in {"venc"} |-> call'[c]] /\ reply' = [c \in {"venc"} |-> reply'[c]]
    BY <2>1, <2>2, WriteBegins
  <2>5. Call'.data = <<m'>>
    BY <2>3, <2>4
  <2> QED BY <2>1, <2>4, <2>5 DEF CallKnown, m
<1>5. CASE DeviceTransfers
  <2>1. /\ Call.op = "write" /\ Call.moved < Call.n
        /\ Call' = [op |-> "write", lba |-> Call.lba, n |-> Call.n, data |-> Call.data,
                    moved |-> Call.moved + 1]
        /\ call' = [c \in {"venc"} |-> call'[c]] /\ UNCHANGED reply
        /\ UNCHANGED <<pc, session, s_stream_bytes, status, produced, batch, s_sd_next_lba>>
    BY <1>5, BlockReached DEF streamVars
  <2>2. BatchData' = BatchData /\ BlocksFor(Len(batch))' = BlocksFor(Len(batch))
        /\ ZeroBlock' = ZeroBlock
    BY <2>1, SameBatch DEF BlocksFor, ZeroBlock
  <2>3. MetaBlock(session, s_stream_bytes, status.frames, produced)'
          = MetaBlock(session, s_stream_bytes, status.frames, produced)
    BY <2>1 DEF MetaBlock
  <2>4. Call.n \in Nat /\ Call.moved \in 0 .. Call.n /\ pc \in {"wiped", "flushing", "committing"}
    BY <2>1 DEF CallKnown
  <2> QED BY <2>1, <2>2, <2>3, <2>4 DEF CallKnown
<1>6. CASE DeviceReturns
  <2>1. /\ Call'.op = "none" /\ Call' = Device!NoCall
        /\ call' = [c \in {"venc"} |-> call'[c]] /\ reply' = [c \in {"venc"} |-> reply'[c]]
        /\ UNCHANGED <<pc, batch, s_sd_next_lba>>
    BY <1>6, WriteReturns DEF streamVars
  <2>2. BlocksFor(Len(batch))' = BlocksFor(Len(batch))
    BY <2>1 DEF BlocksFor
  <2> QED BY <2>1, <2>2 DEF CallKnown, Device!NoCall
<1>7. CASE Reset
  <2>1. /\ call' = [call EXCEPT !["venc"] = Device!NoCall] /\ UNCHANGED reply
        /\ pc' = "idle"
    BY <1>7 DEF Reset
  <2>2. Call' = Device!NoCall /\ call' = [c \in {"venc"} |-> call'[c]]
    BY <2>1 DEF CallKnown, Call
  <2> QED BY <2>1, <2>2 DEF CallKnown, Device!NoCall
<1>8. CASE Request \/ ProcessFrame \/ CaptureFails
  <2>1. UNCHANGED <<call, reply>> /\ pc = "idle" /\ pc' # "flushing"
    BY <1>8 DEF Request, ProcessFrame, CaptureFails, deviceVars, Control
  <2> QED BY <1>1, <2>1 DEF CallKnown
<1>9. CASE Session /\ ~Begin /\ ~Flush /\ ~Commit
  <2>1. UNCHANGED <<call, reply>> /\ pc' # "flushing"
        /\ (pc \notin {"wiped", "flushing", "committing"} \/ Call.op = "none")
    BY <1>9
    DEF Session, WipeFails, EncoderRefuses, EncoderStarts, Append1, AppendReturns,
        FlushNothing, FlushNoSpace, FlushFails, FlushDone, Started, EncodeFrame,
        EncodeFails, CountFrame, StreamEnds, StreamEndFails, Committed, SetError,
        SetState, Fail, Produce, StorageDone, deviceVars, Control, Call
  <2> QED BY <1>1, <2>1 DEF CallKnown
<1>10. CASE OtherWrite \/ UNCHANGED vars
  <2>1. UNCHANGED <<call, reply, pc, session, s_stream_bytes, status, produced, batch,
                    s_sd_next_lba>>
    BY <1>10 DEF OtherWrite, vars, deviceVars, streamVars
  <2>2. BatchData' = BatchData /\ BlocksFor(Len(batch))' = BlocksFor(Len(batch))
        /\ ZeroBlock' = ZeroBlock
    BY <2>1, SameBatch DEF BlocksFor, ZeroBlock
  <2>3. MetaBlock(session, s_stream_bytes, status.frames, produced)'
          = MetaBlock(session, s_stream_bytes, status.frames, produced)
    BY <2>1 DEF MetaBlock
  <2> QED BY <2>1, <2>2, <2>3 DEF CallKnown, Call
<1> QED
  BY <1>2, <1>3, <1>4, <1>5, <1>6, <1>7, <1>8, <1>9, <1>10 DEF Next
-----------------------------------------------------------------------------
(* The magic holds what it says as long as no block changes.               *)
LEMMA MagicKept ==
  ASSUME MagicComplete, UNCHANGED <<disk, foreign>>
  PROVE  MagicComplete'
BY DEF MagicComplete, StreamBlock, BlocksFor

(* What a step that writes no block must keep.                             *)
LEMMA CardQuiet ==
  ASSUME Card, UNCHANGED <<disk, foreign, session>>,
         pc' \notin {"wiped", "flushing", "committing"},
         Streaming' => /\ Unmarked
                       /\ \A k \in 1 .. s_sd_next_lba' - 1 :
                            Holds(k, StreamBlock(session, k, Stored')),
         pc' \in {"result", "publish"} /\ err' = "NONE" => Marked,
         status'.state = "COMPLETE" => Marked
  PROVE  Card'
<1>1. MagicComplete'
  BY MagicKept DEF Card
<1>2. Unmarked' = Unmarked /\ Marked' = Marked
  BY DEF Unmarked, Marked
<1>3. CompleteIsOnDisk'
  BY DEF Marked, CompleteIsOnDisk
<1>4. Streaming' => \A k \in 1 .. s_sd_next_lba' - 1 :
                      Holds(k, StreamBlock(session, k, Stored))'
  BY DEF Holds, StreamBlock
<1>5. disk' = [b \in 0 .. LogBlockNbr - 1 |-> disk'[b]] /\ foreign' \subseteq 0 .. LogBlockNbr - 1
  BY DEF Card
<1> QED BY <1>1, <1>2, <1>3, <1>4, <1>5 DEF Card

(* A flush that succeeded leaves all blocks before the batch complete.     *)
LEMMA FlushStores ==
  ASSUME Control, Stream, CallKnown, Card, FlushDone
  PROVE  \A k \in 1 .. s_sd_next_lba' - 1 : Holds(k, StreamBlock(session, k, Stored'))
<1> DEFINE n == BlocksFor(Len(batch))
<1>1. /\ pc = "flushing" /\ Streaming /\ Reached(n + 1) /\ Call.op = "none" /\ Reply = "OK"
      /\ s_sd_next_lba' = s_sd_next_lba + n /\ batch' = << >>
      /\ s_stream_bytes' = s_stream_bytes
  BY DEF FlushDone, StorageDone, Streaming, Reached, Call, Reply
<1>2. /\ Stored = (s_sd_next_lba - 1) * BlockUnits /\ s_sd_next_lba \in Nat /\ s_sd_next_lba >= 1
      /\ n \in Nat /\ Stored \in Nat /\ s_stream_bytes \in Nat /\ Stored <= s_stream_bytes
  <2>1. Len(batch) \in Nat /\ Len(batch) <= s_stream_bytes /\ s_stream_bytes \in Nat
    BY <1>1, LenProperties DEF Stream
  <2>2. n \in Nat
    BY <2>1, BlocksLemma
  <2> QED BY <1>1, <2>1, <2>2 DEF Stream, Stored
<1>3. Stored' = s_stream_bytes
  BY <1>1, <1>2, EmptySeq DEF Stored
<1> HIDE DEF n
<1> SUFFICES ASSUME NEW k \in 1 .. s_sd_next_lba + n - 1
             PROVE  Holds(k, StreamBlock(session, k, s_stream_bytes))
  <2>1. s_sd_next_lba' - 1 = s_sd_next_lba + n - 1
    BY <1>1, <1>2
  <2> QED BY <1>3, <2>1
<1>4. CASE k <= s_sd_next_lba - 1
  <2>1. k \in 1 .. s_sd_next_lba - 1 /\ k \in Nat
    BY <1>2, <1>4
  <2>2. Holds(k, StreamBlock(session, k, Stored))
    BY <1>1, <2>1 DEF Card
  <2>3. k * BlockUnits <= (s_sd_next_lba - 1) * BlockUnits
    BY <1>2, <2>1, RecorderAssumption
  <2>4. StreamBlock(session, k, Stored) = StreamBlock(session, k, s_stream_bytes)
    BY <1>2, <2>1, <2>3, FullBlock
  <2> QED BY <2>2, <2>4
<1>5. CASE k > s_sd_next_lba - 1
  <2> DEFINE m == k - (s_sd_next_lba - 1)
  <2>1. m \in 1 .. n /\ s_sd_next_lba + m - 1 = k
    BY <1>2, <1>5
  <2> HIDE DEF m
  <2>2. Holds(k, BatchData[m])
    BY <1>1, <2>1 DEF Card, Reached, n
  <2>3. BatchData[m] = StreamBlock(session, k, s_stream_bytes)
    BY <1>1, <1>2, <2>1, BatchBlock DEF n
  <2> QED BY <2>2, <2>3
<1> QED BY <1>2, <1>4, <1>5

(* The block of the call in progress reaches the card.                     *)
LEMMA TransferKeeps ==
  ASSUME Control, Stream, CallKnown, Card, DeviceTransfers
  PROVE  Card'
<1> DEFINE b == Call.lba + Call.moved
<1>1. /\ Call.op = "write" /\ Call.moved < Call.n /\ Call'.op = "write"
      /\ Call'.moved = Call.moved + 1
      /\ disk' = [disk EXCEPT ![b] = Call.data[Call.moved + 1]]
      /\ foreign' = foreign \ {b}
      /\ UNCHANGED <<s_stream_bytes, produced, batch, s_sd_next_lba, status, pc, err, session>>
  BY BlockReached DEF streamVars
<1>2. /\ pc \in {"wiped", "flushing", "committing"} /\ Call.n \in Nat
      /\ Call.moved \in 0 .. Call.n
  BY <1>1 DEF CallKnown
<1>3. /\ disk = [i \in 0 .. LogBlockNbr - 1 |-> disk[i]] /\ 0 \in 0 .. LogBlockNbr - 1
      /\ foreign \subseteq 0 .. LogBlockNbr - 1
  BY RecorderAssumption DEF Card
<1>4. /\ disk' = [i \in 0 .. LogBlockNbr - 1 |-> disk'[i]]
      /\ foreign' \subseteq 0 .. LogBlockNbr - 1
      /\ \A i \in 0 .. LogBlockNbr - 1 :
           disk'[i] = IF i = b THEN Call.data[Call.moved + 1] ELSE disk[i]
  BY <1>1, <1>3
<1>5. CompleteIsOnDisk'
  BY <1>1, <1>2 DEF CompleteIsOnDisk, Control
<1>6. /\ Streaming' = Streaming /\ Stored' = Stored
      /\ \A k : StreamBlock(session, k, Stored)' = StreamBlock(session, k, Stored)
  BY <1>1 DEF Streaming, Stored, StreamBlock
<1>7. CASE pc = "wiped"
  <2>1. b = 0 /\ Call.data[Call.moved + 1] = ZeroBlock
    <3>1. Call.lba = 0 /\ Call.n = 1 /\ Call.data = <<ZeroBlock>>
      BY <1>1, <1>7 DEF CallKnown
    <3>2. Call.moved = 0
      BY <1>1, <1>2, <3>1
    <3> QED BY <3>1, <3>2
  <2>2. Unmarked'
    BY <1>3, <1>4, <2>1 DEF Unmarked, ZeroBlock
  <2>3. MagicComplete'
    BY <2>2 DEF MagicComplete, Unmarked
  <2> QED BY <1>1, <1>4, <1>5, <1>7, <2>2, <2>3 DEF Card, Streaming
<1>8. CASE pc = "flushing"
  <2>1. /\ Call.lba = s_sd_next_lba /\ Call.n = BlocksFor(Len(batch))
        /\ Call.data = BatchData /\ s_sd_next_lba + BlocksFor(Len(batch)) <= LogBlockNbr
        /\ Streaming /\ s_sd_next_lba \in Nat /\ s_sd_next_lba >= 1
    BY <1>1, <1>8 DEF CallKnown, Streaming, Stream
  <2>2. b \in 1 .. LogBlockNbr - 1 /\ b \in 0 .. LogBlockNbr - 1 /\ b # 0 /\ b >= s_sd_next_lba
    BY <1>1, <1>2, <2>1, RecorderAssumption
  <2>3. Unmarked'
    BY <1>3, <1>4, <1>8, <2>1, <2>2 DEF Card, Unmarked
  <2>4. MagicComplete'
    BY <2>3 DEF MagicComplete, Unmarked
  <2>5. \A k \in 1 .. s_sd_next_lba - 1 : Holds(k, StreamBlock(session, k, Stored))'
    <3> SUFFICES ASSUME NEW k \in 1 .. s_sd_next_lba - 1
                 PROVE  Holds(k, StreamBlock(session, k, Stored))'
      OBVIOUS
    <3>1. k # b /\ k \in 0 .. LogBlockNbr - 1
      BY <1>2, <2>1, <2>2, RecorderAssumption
    <3>2. disk'[k] = disk[k] /\ (k \notin foreign' => k \notin foreign)
      BY <1>1, <1>4, <3>1
    <3>3. Holds(k, StreamBlock(session, k, Stored))
      BY <2>1 DEF Card
    <3> QED BY <1>6, <3>2, <3>3 DEF Holds
  <2>6. ASSUME NEW m \in 1 .. BlocksFor(Len(batch)), Reached(m)'
        PROVE  Holds(s_sd_next_lba + m - 1, BatchData[m])'
    <3> DEFINE k == s_sd_next_lba + m - 1
    <3>1. m <= Call.moved + 1 /\ m \in Nat
      BY <1>1, <2>6 DEF Reached
    <3>2. BatchData' = BatchData /\ s_sd_next_lba' = s_sd_next_lba
      BY <1>1, SameBatch
    <3>3. k \in 0 .. LogBlockNbr - 1
      <4>1. BlocksFor(Len(batch)) \in Nat /\ m <= BlocksFor(Len(batch)) /\ m >= 1
        BY <3>1, BatchLength
      <4> QED BY <2>1, <3>1, <4>1, RecorderAssumption
    <3>4. CASE m = Call.moved + 1
      <4>1. k = b
        BY <1>2, <2>1, <3>4
      <4>2. disk'[k] = BatchData[m]
        BY <1>4, <2>1, <3>3, <3>4, <4>1
      <4> QED BY <3>2, <4>2 DEF Holds
    <3>5. CASE m <= Call.moved
      <4>1. k # b
        BY <1>2, <2>1, <3>1, <3>5
      <4>2. disk'[k] = disk[k] /\ (k \notin foreign' => k \notin foreign)
        BY <1>1, <1>4, <3>3, <4>1
      <4>3. Reached(m)
        BY <1>1, <3>5 DEF Reached
      <4>4. Holds(k, BatchData[m])
        BY <1>8, <2>6, <4>3 DEF Card
      <4> QED BY <3>2, <4>2, <4>4 DEF Holds
    <3> QED BY <1>2, <3>1, <3>4, <3>5
  <2>7. BlocksFor(Len(batch))' = BlocksFor(Len(batch))
    BY <1>1 DEF BlocksFor
  <2> QED BY <1>1, <1>4, <1>5, <1>8, <2>3, <2>4, <2>5, <2>6, <2>7 DEF Card
<1>9. CASE pc = "committing"
  <2> DEFINE m == MetaBlock(session, s_stream_bytes, status.frames, produced)
  <2>1. b = 0 /\ Call.data[Call.moved + 1] = m
    <3>1. Call.lba = 0 /\ Call.n = 1 /\ Call.data = <<m>>
      BY <1>1, <1>9 DEF CallKnown
    <3>2. Call.moved = 0
      BY <1>1, <1>2, <3>1
    <3> HIDE DEF m
    <3> QED BY <3>1, <3>2
  <2>2. disk'[0].kind = "N6VENC1" /\ disk'[0].cells = <<session, s_stream_bytes, status.frames, produced>>
    BY <1>3, <1>4, <2>1 DEF MetaBlock
  <2>3. Marked'
    BY <1>1, <2>2 DEF Marked
  <2>4. /\ Streaming /\ batch = << >> /\ rest = << >> /\ s_sd_next_lba \in 0 .. LogBlockNbr
        /\ s_sd_next_lba - 1 = BlocksFor(s_stream_bytes) /\ s_sd_next_lba >= 1
        /\ s_stream_bytes \in Nat /\ s_stream_bytes + Len(rest) = produced
        /\ status.frames = TargetFrames
    BY <1>9 DEF Stream, Streaming, Control
  <2>5. Stored = s_stream_bytes /\ produced = s_stream_bytes
    BY <2>4, EmptySeq DEF Stored
  <2>6. ASSUME NEW k \in 1 .. s_sd_next_lba - 1
        PROVE  k \notin foreign' => disk'[k] = StreamBlock(session, k, s_stream_bytes)
    <3>1. k # b /\ k \in 0 .. LogBlockNbr - 1
      BY <2>1, <2>4, RecorderAssumption
    <3>2. disk'[k] = disk[k] /\ (k \notin foreign' => k \notin foreign)
      BY <1>1, <1>4, <3>1
    <3>3. Holds(k, StreamBlock(session, k, Stored))
      BY <2>4 DEF Card
    <3> QED BY <2>5, <3>2, <3>3 DEF Holds
  <2>7. MagicComplete'
    <3>1. /\ disk'[0].cells[1] = session /\ disk'[0].cells[2] = s_stream_bytes
          /\ disk'[0].cells[3] = TargetFrames /\ disk'[0].cells[4] = s_stream_bytes
      BY <2>2, <2>4, <2>5
    <3>2. BlocksFor(s_stream_bytes) < LogBlockNbr
      <4>1. BlocksFor(s_stream_bytes) \in Nat
        BY <2>4, BlocksLemma
      <4> QED BY <2>4, <4>1, RecorderAssumption
    <3>3. \A k \in 1 .. BlocksFor(s_stream_bytes) :
            k \notin foreign' => disk'[k] = StreamBlock(session, k, s_stream_bytes)
      BY <2>4, <2>6
    <3> QED BY <3>1, <3>2, <3>3 DEF MagicComplete, BlocksFor, StreamBlock
  <2>8. Streaming' => \A k \in 1 .. s_sd_next_lba' - 1 : Holds(k, StreamBlock(session, k, Stored))'
    BY <1>1, <1>6, <2>5, <2>6 DEF Holds
  <2> QED BY <1>1, <1>4, <1>5, <1>9, <2>3, <2>7, <2>8 DEF Card
<1> QED BY <1>2, <1>7, <1>8, <1>9

(* Another client may overwrite any block, but makes it foreign.           *)
LEMMA OtherWriteKeeps ==
  ASSUME Control, Stream, CallKnown, Card, OtherWrite
  PROVE  Card'
<1>1. PICK b \in 0 .. LogBlockNbr - 1 :
        disk' = [disk EXCEPT ![b] = OtherBlock] /\ foreign' = foreign \cup {b}
  BY DEF OtherWrite
<1>2. UNCHANGED <<call, reply, s_stream_bytes, batch, s_sd_next_lba, status, pc, err, session>>
  BY DEF OtherWrite, streamVars
<1>3. disk = [i \in 0 .. LogBlockNbr - 1 |-> disk[i]] /\ foreign \subseteq 0 .. LogBlockNbr - 1
      /\ 0 \in 0 .. LogBlockNbr - 1
  BY RecorderAssumption DEF Card
<1>4. /\ disk' = [i \in 0 .. LogBlockNbr - 1 |-> disk'[i]]
      /\ foreign' \subseteq 0 .. LogBlockNbr - 1
      /\ disk'[b].kind = "other" /\ b \in foreign'
      /\ \A i \in 0 .. LogBlockNbr - 1 : i # b => disk'[i] = disk[i]
      /\ \A i : i \notin foreign' => i \notin foreign /\ i # b
  BY <1>1, <1>3 DEF OtherBlock
<1>5. ASSUME NEW k \in 0 .. LogBlockNbr - 1, NEW x, k \notin foreign => disk[k] = x
      PROVE  k \notin foreign' => disk'[k] = x
  BY <1>4, <1>5
<1>6. (Unmarked => Unmarked') /\ (Marked => Marked')
  BY <1>2, <1>3, <1>4 DEF Unmarked, Marked
<1>7. CompleteIsOnDisk'
  BY <1>2, <1>3, <1>4 DEF CompleteIsOnDisk, Card
<1>8. MagicComplete'
  <2> SUFFICES ASSUME disk'[0].kind = "N6VENC1"
               PROVE  MagicComplete'
    BY DEF MagicComplete
  <2>1. disk'[0] = disk[0]
    BY <1>3, <1>4
  <2> DEFINE bytes == disk[0].cells[2]
  <2>2. /\ bytes = disk[0].cells[4] /\ disk[0].cells[3] = TargetFrames
        /\ BlocksFor(bytes) < LogBlockNbr
        /\ \A k \in 1 .. BlocksFor(bytes) :
             k \notin foreign => disk[k] = StreamBlock(disk[0].cells[1], k, bytes)
    BY <2>1 DEF MagicComplete, Card
  <2>3. ASSUME NEW k \in 1 .. BlocksFor(bytes)
        PROVE  k \notin foreign' => disk'[k] = StreamBlock(disk[0].cells[1], k, bytes)
    <3>1. CASE k \in 0 .. LogBlockNbr - 1
      BY <1>5, <2>2, <3>1
    <3>2. CASE k \notin 0 .. LogBlockNbr - 1
      <4>1. disk'[k] = disk[k]
        BY <1>1, <1>3, <3>2
      <4> QED BY <1>4, <2>2, <4>1
    <3> QED BY <3>1, <3>2
  <2> QED BY <2>1, <2>2, <2>3 DEF MagicComplete, BlocksFor, StreamBlock
<1>9. /\ Streaming' = Streaming /\ Stored' = Stored
      /\ \A m : Reached(m)' = Reached(m)
      /\ \A k : StreamBlock(session, k, Stored)' = StreamBlock(session, k, Stored)
      /\ BatchData' = BatchData /\ BlocksFor(Len(batch))' = BlocksFor(Len(batch))
  BY <1>2, SameBatch DEF Streaming, Stored, Reached, Call, Reply, StreamBlock, BlocksFor
<1>10. Streaming => \A k \in 1 .. s_sd_next_lba - 1 :
                      Holds(k, StreamBlock(session, k, Stored))'
  <2> SUFFICES ASSUME Streaming, NEW k \in 1 .. s_sd_next_lba - 1
               PROVE  Holds(k, StreamBlock(session, k, Stored))'
    OBVIOUS
  <2>1. k \in 0 .. LogBlockNbr - 1
    BY RecorderAssumption DEF Stream
  <2>2. Holds(k, StreamBlock(session, k, Stored))
    BY DEF Card
  <2> QED BY <1>5, <1>9, <2>1, <2>2 DEF Holds
<1>11. pc = "flushing" => \A m \in 1 .. BlocksFor(Len(batch)) :
         Reached(m) => Holds(s_sd_next_lba + m - 1, BatchData[m])'
  <2> SUFFICES ASSUME pc = "flushing", NEW m \in 1 .. BlocksFor(Len(batch)), Reached(m)
               PROVE  Holds(s_sd_next_lba + m - 1, BatchData[m])'
    OBVIOUS
  <2>1. s_sd_next_lba + BlocksFor(Len(batch)) <= LogBlockNbr /\ BlocksFor(Len(batch)) \in Nat
        /\ s_sd_next_lba \in Nat
    BY BatchLength DEF CallKnown, Stream
  <2>2. s_sd_next_lba + m - 1 \in 0 .. LogBlockNbr - 1
    BY <2>1, RecorderAssumption
  <2>3. Holds(s_sd_next_lba + m - 1, BatchData[m])
    BY DEF Card
  <2> QED BY <1>2, <1>5, <1>9, <2>2, <2>3 DEF Holds
<1> QED
  BY <1>2, <1>4, <1>6, <1>7, <1>8, <1>9, <1>10, <1>11 DEF Card

(* No step puts the card in contradiction to the stream.                   *)
LEMMA CardStep ==
  ASSUME Control, Stream, CallKnown, Card, [Next]_vars
  PROVE  Card'
<1> DEFINE Same == UNCHANGED <<disk, foreign, session>>
           Same2 == UNCHANGED <<s_stream_bytes, batch, s_sd_next_lba>>
           Places == {"wiped", "flushing", "committing"}
<1>1. status.state = "COMPLETE" => Marked /\ pc = "idle"
  BY DEF Card, CompleteIsOnDisk, Marked, Control
<1>2. ASSUME Same, Same2, pc' \notin Places, Streaming' => Streaming /\ pc # "committing",
             pc' \in {"result", "publish"} /\ err' = "NONE" => Marked,
             status'.state = "COMPLETE" => Marked
      PROVE  Card'
  <2>1. Stored' = Stored
    BY <1>2 DEF Stored
  <2> QED BY <1>2, <2>1, CardQuiet DEF Card
<1>3. CASE Request
  <2>1. /\ UNCHANGED <<disk, foreign>> /\ pc' = "idle" /\ status'.state = "REQUESTED"
    BY <1>3 DEF Request, deviceVars, Control
  <2>2. MagicComplete' /\ CompleteIsOnDisk' /\ ~Streaming'
    BY <2>1, MagicKept DEF Card, CompleteIsOnDisk, Streaming
  <2> QED BY <2>1, <2>2 DEF Card
<1>4. CASE ProcessFrame \/ CaptureFails
  <2>1. /\ Same /\ Same2 /\ pc = "idle" /\ pc' \in {"idle", "begin", "encode"}
        /\ status' = status /\ (pc' = "encode" => status.state = "RECORDING")
    BY <1>4 DEF ProcessFrame, CaptureFails, deviceVars, streamVars
  <2> QED BY <1>1, <1>2, <2>1 DEF Streaming
<1>5. CASE WipeFails \/ FlushNoSpace \/ FlushFails \/ EncodeFails \/ StreamEndFails
  <2>1. /\ Same /\ Same2 /\ pc # "idle" /\ pc' = "result" /\ status' = status /\ err' # "NONE"
    BY <1>5 DEF WipeFails, FlushNoSpace, FlushFails, EncodeFails, StreamEndFails, Fail,
                deviceVars, streamVars
  <2> QED BY <1>1, <1>2, <2>1 DEF Streaming
<1>6. CASE EncoderRefuses
  <2>1. /\ Same /\ pc # "idle" /\ pc' = "result" /\ status' = status /\ err' # "NONE"
    BY <1>6 DEF EncoderRefuses, Fail, deviceVars
  <2> QED BY <1>1, <2>1, CardQuiet DEF Streaming
<1>7. CASE EncoderStarts
  <2>1. /\ Same /\ pc = "wiped" /\ pc' = "append" /\ status' = status
        /\ s_sd_next_lba' = 1 /\ Reached(1)
    BY <1>7 DEF EncoderStarts, ResetStream, deviceVars, StorageDone, Reached, Call, Reply
  <2>2. Unmarked
    BY <2>1 DEF Card
  <2>3. \A k : k \notin 1 .. s_sd_next_lba' - 1
    BY <2>1
  <2> QED BY <1>1, <2>1, <2>2, <2>3, CardQuiet DEF Streaming
<1>8. CASE Append1
  <2>1. /\ Same /\ UNCHANGED s_sd_next_lba /\ pc = "append" /\ status' = status
        /\ pc' \in {"append", "flush"} /\ Stored' = Stored
    BY <1>8, AppendKeeps DEF Append1, deviceVars
  <2> QED BY <1>1, <2>1, CardQuiet DEF Streaming, Card
<1>9. CASE AppendReturns \/ FlushNothing \/ Started
  <2>1. /\ Same /\ Same2 /\ pc # "idle" /\ Streaming /\ pc # "committing"
        /\ status'.state # "COMPLETE"
        /\ pc' \in {"flush", "flushed", "encode", "started", "encoded"}
    BY <1>9 DEF AppendReturns, FlushNothing, Started, deviceVars, streamVars, Streaming,
                Control
  <2> QED BY <1>2, <2>1
<1>10. CASE FlushDone
  <2>1. /\ Same /\ pc = "flushing" /\ status' = status /\ pc' \in {"flushed", "append"}
    BY <1>10 DEF FlushDone, deviceVars
  <2>2. Unmarked
    BY <2>1 DEF Card, Streaming
  <2> QED BY <1>1, <1>10, <2>1, <2>2, FlushStores, CardQuiet
<1>11. CASE CountFrame
  <2>1. /\ Same /\ Same2 /\ pc = "encoded" /\ pc' \in {"finish", "idle"}
        /\ status'.state = "RECORDING"
    BY <1>11 DEF CountFrame, deviceVars, streamVars, Control
  <2> QED BY <1>2, <2>1 DEF Streaming
<1>12. CASE EncodeFrame \/ StreamEnds
  <2>1. /\ Same /\ Same2 /\ pc \in {"encode", "finish"} /\ pc' = "append" /\ status' = status
    BY <1>12 DEF EncodeFrame, StreamEnds, Produce, deviceVars
  <2> QED BY <1>1, <1>2, <2>1 DEF Streaming
<1>13. CASE Committed
  <2>1. /\ Same /\ Same2 /\ pc = "committing" /\ pc' = "result" /\ status' = status
        /\ err' = "NONE" => Reached(1)
    BY <1>13 DEF Committed, StorageDone, Reached, Call, Reply, deviceVars, streamVars
  <2> QED BY <1>1, <1>2, <2>1 DEF Streaming, Card
<1>14. CASE SetError \/ SetState
  <2>1. /\ Same /\ Same2 /\ pc \in {"result", "publish"} /\ pc' \in {"publish", "idle"}
        /\ err' = err /\ (pc' = "idle" => status'.state \in {"COMPLETE", "ERROR"})
        /\ status'.state = "COMPLETE" => err = "NONE"
    BY <1>14 DEF SetError, SetState, deviceVars, streamVars, Control
  <2> QED BY <1>2, <2>1 DEF Streaming, Card
<1>15. CASE Begin \/ Flush \/ Commit
  <2>1. PICK lba, data : StorageWrite(lba, data)
    BY <1>15 DEF Begin, Flush, Commit
  <2>2. /\ UNCHANGED <<disk, foreign>> /\ Call'.op = "write" /\ Call'.moved = 0
    BY <2>1, WriteBegins
  <2>3. /\ Same /\ Same2 /\ status' = status /\ pc # "idle" /\ pc' \in Places
        /\ Streaming' => Streaming /\ pc # "committing"
    BY <1>15, <2>2 DEF Begin, Flush, Commit, streamVars, Streaming
  <2>4. MagicComplete' /\ CompleteIsOnDisk'
    BY <1>1, <2>3, MagicKept DEF Card, CompleteIsOnDisk
  <2>5. \A m \in Nat : m >= 1 => ~Reached(m)'
    BY <2>2 DEF Reached
  <2>6. \A m \in 1 .. BlocksFor(Len(batch))' : ~Reached(m)'
    <3>1. BlocksFor(Len(batch))' = BlocksFor(Len(batch))
      BY <2>3 DEF BlocksFor
    <3> QED BY <2>5, <3>1, BatchLength
  <2>7. Streaming' => Unmarked' /\ \A k \in 1 .. s_sd_next_lba' - 1 :
                        Holds(k, StreamBlock(session, k, Stored))'
    <3>1. Stored' = Stored /\ Unmarked' = Unmarked
      BY <2>3 DEF Stored, Unmarked
    <3>2. Streaming' => Unmarked
      BY <2>3 DEF Card
    <3>3. ASSUME Streaming', NEW k \in 1 .. s_sd_next_lba - 1
          PROVE  Holds(k, StreamBlock(session, k, Stored))'
      <4>1. Holds(k, StreamBlock(session, k, Stored))
        BY <2>3, <3>3 DEF Card
      <4> QED BY <2>3, <3>1, <4>1 DEF Holds, StreamBlock
    <3> QED BY <2>3, <3>1, <3>2, <3>3
  <2> QED BY <2>3, <2>4, <2>5, <2>6, <2>7 DEF Card
<1>16. CASE DeviceReturns
  <2>1. /\ Same /\ Same2 /\ UNCHANGED <<status, pc, err>> /\ Call.op = "write"
        /\ Call'.op = "none" /\ (Reply' = "OK" => Call.moved = Call.n)
    BY <1>16, WriteReturns DEF streamVars
  <2>2. MagicComplete' /\ CompleteIsOnDisk'
    BY <2>1, MagicKept DEF Card, CompleteIsOnDisk
  <2>3. /\ Streaming' = Streaming /\ Stored' = Stored /\ Unmarked' = Unmarked /\ Marked' = Marked
        /\ BatchData' = BatchData /\ BlocksFor(Len(batch))' = BlocksFor(Len(batch))
    BY <2>1, SameBatch DEF Streaming, Stored, Unmarked, Marked, BlocksFor, Holds
  <2>4. pc \in {"wiped", "committing"} /\ Reached(1)' => Reached(1)
    BY <2>1 DEF Reached, CallKnown
  <2>5. ASSUME pc = "flushing", NEW m \in 1 .. BlocksFor(Len(batch)), Reached(m)'
        PROVE  Reached(m)
    BY <2>1, <2>5, BatchLength DEF Reached, CallKnown
  <2>6. pc = "flushing" => \A m \in 1 .. BlocksFor(Len(batch)) :
          Reached(m)' => Holds(s_sd_next_lba + m - 1, BatchData[m])'
    BY <2>1, <2>3, <2>5 DEF Card, Holds
  <2>7. Streaming => \A k \in 1 .. s_sd_next_lba - 1 :
                       Holds(k, StreamBlock(session, k, Stored))'
    BY <2>1, <2>3 DEF Card, Holds, StreamBlock
  <2> QED BY <2>1, <2>2, <2>3, <2>4, <2>6, <2>7 DEF Card
<1>17. CASE Reset
  <2>1. /\ Same /\ pc' = "idle" /\ status'.state = "IDLE"
    BY <1>17 DEF Reset, AtBoot
  <2> QED BY <2>1, CardQuiet DEF Streaming
<1>18. CASE UNCHANGED vars
  <2>1. UNCHANGED <<disk, foreign, session, call, reply, s_stream_bytes, batch, s_sd_next_lba,
                    status, pc, err>>
    BY <1>18 DEF vars, deviceVars, streamVars
  <2>2. MagicComplete' /\ CompleteIsOnDisk'
    BY <2>1, MagicKept DEF Card, CompleteIsOnDisk
  <2>3. /\ Streaming' = Streaming /\ Stored' = Stored /\ Unmarked' = Unmarked /\ Marked' = Marked
        /\ BatchData' = BatchData /\ BlocksFor(Len(batch))' = BlocksFor(Len(batch))
        /\ \A m : Reached(m)' = Reached(m)
    BY <2>1, SameBatch DEF Streaming, Stored, Unmarked, Marked, BlocksFor, Reached, Call, Reply
  <2>4. pc = "flushing" => \A m \in 1 .. BlocksFor(Len(batch)) :
          Reached(m) => Holds(s_sd_next_lba + m - 1, BatchData[m])'
    BY <2>1, <2>3 DEF Card, Holds
  <2>5. Streaming => \A k \in 1 .. s_sd_next_lba - 1 :
                       Holds(k, StreamBlock(session, k, Stored))'
    BY <2>1, <2>3 DEF Card, Holds, StreamBlock
  <2> QED BY <2>1, <2>2, <2>3, <2>4, <2>5 DEF Card
<1> QED
  BY <1>3, <1>4, <1>5, <1>6, <1>7, <1>8, <1>9, <1>10, <1>11, <1>12, <1>13, <1>14, <1>15,
     <1>16, <1>17, <1>18, TransferKeeps, OtherWriteKeeps
  DEF Next, Session
-----------------------------------------------------------------------------
(* The recorder starts with an unmarked card, or one of unknown content.   *)
LEMMA RecInit == Init => RecInv
<1> SUFFICES ASSUME Init PROVE RecInv
  OBVIOUS
<1> USE RecorderAssumption
<1>1. /\ status = AtBoot /\ pc = "idle" /\ err = "NONE" /\ rest = << >> /\ batch = << >>
      /\ s_encoder_live = FALSE /\ s_sd_next_lba = 0 /\ s_stream_bytes = 0
      /\ produced = 0 /\ session = 0
      /\ call = [c \in {"venc"} |-> Device!NoCall] /\ reply = [c \in {"venc"} |-> "none"]
      /\ disk = [b \in 0 .. LogBlockNbr - 1 |-> OtherBlock]
      /\ foreign = 0 .. LogBlockNbr - 1
  BY DEF Init, Device!Init
<1>2. /\ status.state = "IDLE" /\ status.frames = 0 /\ status.error = "NONE"
      /\ status = [state |-> status.state, frames |-> status.frames, error |-> status.error]
  BY <1>1 DEF AtBoot
<1>3. ~Streaming
  BY <1>1, <1>2 DEF Streaming
<1>4. s_encoder_live \in BOOLEAN /\ camera \in BOOLEAN /\ ~s_encoder_live
  BY DEF Init
<1>5. Control
  BY <1>1, <1>2, <1>4 DEF Control, States, Errors
<1>6. Released
  BY <1>1, <1>2, <1>4 DEF Released, RequestKept, EncoderReleased
<1>7. Stream
  BY <1>1, <1>3, EmptySeq DEF Stream
<1>8. CallKnown
  BY <1>1 DEF CallKnown, Call, Device!NoCall
<1>9. disk[0].kind = "other"
  BY <1>1 DEF OtherBlock
<1>10. Card
  BY <1>1, <1>2, <1>3, <1>9 DEF Card, MagicComplete, CompleteIsOnDisk
<1> QED BY <1>5, <1>6, <1>7, <1>8, <1>10 DEF RecInv

(* The inductive invariant of the recorder.                                *)
THEOREM RecorderInvariance == Spec => []RecInv
<1>1. RecInv /\ [Next]_vars => RecInv'
  BY ControlStep, ReleasedStep, StreamStep, CallStep, CardStep DEF RecInv
<1> QED BY <1>1, RecInit, PTL DEF Spec

(* The batch never overflows s_sd_batch, the next block never passes the   *)
(* end of the card (venc_storage_append, venc_storage_flush).              *)
THEOREM RecorderTypes == Spec => []TypeOK
<1>1. RecInv => TypeOK
  BY DEF RecInv, Control, Stream, Card, TypeOK
<1> QED BY <1>1, RecorderInvariance, PTL

(* The magic of venc_write_metadata stands only before a whole recording,  *)
(* whatever failed, was reset or was written by another client before.     *)
THEOREM MagicIsTrue == Spec => []MagicComplete
<1>1. RecInv => MagicComplete
  BY DEF RecInv, Card
<1> QED BY <1>1, RecorderInvariance, PTL

(* COMPLETE is only claimed of a recording that is on the card             *)
(* (VencRecorder_ProcessFrame).                                            *)
THEOREM CompleteIsTrue == Spec => []CompleteIsOnDisk
<1>1. RecInv => CompleteIsOnDisk
  BY DEF RecInv, Card
<1> QED BY <1>1, RecorderInvariance, PTL

(* No result of the recording before spoils a request                      *)
(* (VencRecorder_Request).                                                 *)
THEOREM RequestIsKept == Spec => []RequestKept
<1>1. RecInv => RequestKept
  BY DEF RecInv, Released
<1> QED BY <1>1, RecorderInvariance, PTL

(* Only a failed H264EncStrmEnd keeps the encoder (venc_encoder_finish).   *)
THEOREM EncoderIsReleased == Spec => []EncoderReleased
<1>1. RecInv => EncoderReleased
  BY DEF RecInv, Released
<1> QED BY <1>1, RecorderInvariance, PTL
=============================================================================
