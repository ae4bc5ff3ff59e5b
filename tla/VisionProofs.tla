---------------------------- MODULE VisionProofs ----------------------------
(***************************************************************************)
(* Proofs about module VisionPipeline, for every number of frame ids and   *)
(* either start-up order.                                                  *)
(***************************************************************************)
EXTENDS VisionPipeline, TLAPS

Ready   == ai \notin {"off", "started", "input"}
Pending == flags \cup notified
Armed   == armed /\ cam \in {"request", "wait"}

(* The busy flag covers both owners, who are never two.                    *)
Owned ==
  /\ CameraOwns \/ AiOwns => s_ai_buffer_busy
  /\ ~(CameraOwns /\ AiOwns)
  /\ ai_notified => ai = "wait"

(* Pipe 2 works only for the camera task that owns the buffer, or for one  *)
(* that has stopped.                                                       *)
PipeTwo ==
  p2 \notin {"off", "done"} => /\ Armed \/ cam = "stopped"
                               /\ ~AiOwns

(* An event is pending only for a snapshot that raised it.                 *)
EventsOwn ==
  /\ "P1" \in Pending => p1 = "done" /\ cam \in {"wait", "stopped"}
  /\ "P2" \in Pending => p2 = "done" /\ (Armed \/ cam = "stopped")
  /\ "OVERRUN" \in Pending => p2 \in {"damaged", "done"} /\ (Armed \/ cam = "stopped")

(* Pipe 1 is active only in the wait, and its overrun flag stays up from   *)
(* the loss to the next snapshot.                                          *)
PipeOne ==
  /\ p1 \in {"requested", "capturing", "damaged"} => cam \in {"wait", "stopped"}
  /\ cam = "wait" => p1 # "off" /\ "OVERRUN" \notin events
  /\ cam \in {"pipe2", "request"} => p1 = "off"
  /\ p1 \in {"off", "requested", "capturing"} => "OVERRUN1" \notin flags
  /\ p1 = "damaged" => "OVERRUN1" \in flags
  /\ p1 = "done" => (preview \in Frames <=> "OVERRUN1" \notin flags)

(* What the wait has seen is not pending any more, and the overrun of a    *)
(* frame is not seen later than the frame.                                 *)
Seen ==
  /\ cam = "wait" =>
       /\ "P1" \in events => p1 = "done" /\ "P1" \notin Pending
       /\ armed /\ "P2" \in events => p2 = "done" /\ Pending \cap {"P2", "OVERRUN"} = {}
       /\ "P2" \in events => armed
       /\ armed /\ p2 = "done" => /\ "P2" \in Pending \cup events
                                  /\ input \in Frames \/ "OVERRUN" \in Pending
  /\ p2 = "damaged" => "OVERRUN" \in Pending \/ cam = "stopped"
  /\ "P1" \in notified => "P1" \notin flags
  /\ "P2" \in notified => flags \cap {"P2", "OVERRUN"} = {}
  /\ armed /\ cam = "request" /\ p2 = "done" =>
       /\ "P2" \in Pending
       /\ input \in Frames \/ "OVERRUN" \in Pending
  /\ armed /\ cam = "request" => p2 # "off"

IInv == /\ TypeOK /\ Owned /\ PipeTwo /\ EventsOwn /\ PipeOne /\ Seen
        /\ WaitsForOwn /\ NetworkReadsFrame

(* Without a frame start between the requests, both pipes take the same    *)
(* frame.                                                                  *)
Matched ==
  armed /\ ~split =>
    /\ cam = "request" => p2 = "requested"
    /\ cam = "wait" =>
         /\ p2 # "off" /\ (p1 = "requested" <=> p2 = "requested")
         /\ p1 \in {"capturing", "damaged"} /\ p2 = "done" /\ input \in Frames
              => input = frame
         /\ p1 = "done" /\ p2 \in {"capturing", "damaged"} /\ preview \in Frames
              => preview = frame
         /\ p1 = "done" /\ p2 = "done" /\ input \in Frames /\ preview \in Frames
              => preview = input

(* When the network task initialises first, no claim is made too early.    *)
InOrder ==
  /\ cam # "off" => Ready
  /\ s_ai_buffer_busy => CameraOwns \/ AiOwns
  /\ cam \in {"copy", "submit"} /\ armed => "P2" \in events
-----------------------------------------------------------------------------
(* Start of the firmware: nobody owns the buffer, the pipes are off.       *)
LEMMA InitInv == Init => IInv
<1> SUFFICES ASSUME Init PROVE IInv
  OBVIOUS
<1>1. TypeOK
  <2>1. frame \in Frames
    BY VisionAssumption DEF Init, Frames
  <2> QED BY <2>1 DEF Init, TypeOK
<1>2. Owned /\ WaitsForOwn /\ NetworkReadsFrame
  BY DEF Init, Owned, WaitsForOwn, NetworkReadsFrame, CameraOwns, AiOwns
<1>3. PipeTwo /\ EventsOwn /\ PipeOne /\ Seen
  BY DEF Init, PipeTwo, EventsOwn, PipeOne, Seen, Pending, Armed
<1> QED BY <1>1, <1>2, <1>3 DEF IInv

(* The network task: only its own flag and its owner change.               *)
LEMMA AiInv == IInv /\ AiStep => IInv'
<1> SUFFICES ASSUME IInv, AiStep PROVE IInv'
  OBVIOUS
<1> USE DEF IInv, TypeOK, Owned, PipeTwo, EventsOwn, PipeOne, Seen, WaitsForOwn,
            NetworkReadsFrame, CameraOwns, AiOwns, Pending, Armed, camVars, dcmipp, aiVars
<1>1. CASE AiStart
  BY <1>1, VisionAssumption DEF AiStart
<1>2. CASE AiInput
  BY <1>2, VisionAssumption DEF AiInput
<1>3. CASE AiReady
  BY <1>3, VisionAssumption DEF AiReady
<1>4. CASE AiTake
  BY <1>4, VisionAssumption DEF AiTake
<1>5. CASE AiPublish
  BY <1>5, VisionAssumption DEF AiPublish
<1>6. CASE AiRelease
  BY <1>6, VisionAssumption DEF AiRelease
<1> QED BY <1>1, <1>2, <1>3, <1>4, <1>5, <1>6 DEF AiStep

(* The camera task starts.                                                 *)
LEMMA StartInv == IInv /\ CameraStart => IInv'
<1> SUFFICES ASSUME IInv, CameraStart PROVE IInv'
  OBVIOUS
<1> USE DEF IInv, TypeOK, Owned, PipeTwo, EventsOwn, PipeOne, Seen, WaitsForOwn,
            NetworkReadsFrame, CameraOwns, AiOwns, Pending, Armed, camVars, dcmipp, aiVars
<1>1. CASE CameraStart
  BY <1>1, VisionAssumption DEF CameraStart
<1> QED BY <1>1

(* One snapshot, from the claim of the buffer to the recorder.             *)
LEMMA CameraInv == IInv /\ CameraStep => IInv'
<1> SUFFICES ASSUME IInv, CameraStep PROVE IInv'
  OBVIOUS
<1> USE DEF IInv, TypeOK, Owned, PipeTwo, EventsOwn, PipeOne, Seen, WaitsForOwn,
            NetworkReadsFrame, CameraOwns, AiOwns, Pending, Armed, camVars, dcmipp, aiVars
<1>1. CASE GetInputBuffer
  BY <1>1, VisionAssumption DEF GetInputBuffer
<1>2. CASE DiscardEvents
  BY <1>2, VisionAssumption DEF DiscardEvents
<1>3. CASE ArmPipe1
  BY <1>3, VisionAssumption DEF ArmPipe1
<1>4. CASE RequestPipe2
  BY <1>4, VisionAssumption DEF RequestPipe2
<1>5. CASE RequestPipe1
  BY <1>5, VisionAssumption DEF RequestPipe1
<1>6. CASE WaitEvents
  <2> HIDE DEF IInv, TypeOK, Owned, PipeTwo, EventsOwn, PipeOne, Seen, WaitsForOwn,
               NetworkReadsFrame, CameraOwns, AiOwns, Pending, Armed, camVars, dcmipp, aiVars
  <2> USE <1>6 DEF WaitEvents, IInv, dcmipp
  <2>1. TypeOK'
    BY DEF Stop, TypeOK
  <2>2. Owned'
    BY DEF Stop, Owned, CameraOwns, AiOwns
  <2>3. PipeTwo'
    BY DEF Stop, PipeTwo, Armed, AiOwns, needed, Seen, EventsOwn, Pending, TypeOK
  <2>4. EventsOwn'
    BY DEF Stop, needed, EventsOwn, Pending, Armed, Seen, TypeOK
  <2>5. PipeOne'
    BY DEF Stop, needed, PipeOne, EventsOwn, Pending, Seen, TypeOK
  <2>6. Seen'
    BY DEF Stop, needed, Seen, EventsOwn, Pending, Armed, TypeOK
  <2>7. WaitsForOwn'
    BY DEF Stop, needed, WaitsForOwn, EventsOwn, PipeOne, Seen, Pending, TypeOK
  <2>8. NetworkReadsFrame'
    BY DEF Stop, NetworkReadsFrame
  <2> QED BY <2>1, <2>2, <2>3, <2>4, <2>5, <2>6, <2>7, <2>8
<1>7. CASE CopyPreview
  BY <1>7, VisionAssumption DEF CopyPreview
<1>8. CASE SubmitFrame
  BY <1>8, VisionAssumption DEF SubmitFrame
<1>9. CASE ProcessFrame
  BY <1>9, VisionAssumption DEF ProcessFrame
<1> QED BY <1>1, <1>2, <1>3, <1>4, <1>5, <1>6, <1>7, <1>8, <1>9 DEF CameraStep

(* The wait gives up.                                                      *)
LEMMA TimeoutInv == IInv /\ WaitTimeout => IInv'
<1> SUFFICES ASSUME IInv, WaitTimeout PROVE IInv'
  OBVIOUS
<1> USE DEF WaitTimeout, Stop, IInv, dcmipp
<1>1. TypeOK'
  BY DEF TypeOK
<1>2. Owned' /\ PipeTwo'
  BY DEF Owned, PipeTwo, CameraOwns, AiOwns, Armed
<1>3. EventsOwn' /\ PipeOne'
  BY DEF EventsOwn, PipeOne, Pending, Armed, TypeOK
<1>4. Seen'
  BY DEF Seen, Pending
<1>5. WaitsForOwn' /\ NetworkReadsFrame'
  BY DEF WaitsForOwn, NetworkReadsFrame
<1> QED BY <1>1, <1>2, <1>3, <1>4, <1>5

(* The pipes.                                                              *)
LEMMA DcmippInv == IInv /\ Dcmipp => IInv'
<1> SUFFICES ASSUME IInv, Dcmipp PROVE IInv'
  OBVIOUS
<1>1. CASE FrameStart
  <2> USE <1>1 DEF FrameStart, IInv, camVars, aiVars
  <2>1. TypeOK'
    BY VisionAssumption DEF TypeOK, Enabled, Capturing, Frames, Torn
  <2>2. Owned' /\ PipeTwo'
    BY DEF Owned, PipeTwo, CameraOwns, AiOwns, Armed, Capturing, TypeOK
  <2>3. EventsOwn'
    BY DEF EventsOwn, PipeTwo, PipeOne, Pending, Armed, Capturing, TypeOK
  <2>4. PipeOne'
    BY DEF PipeOne, Capturing, Frames, Torn, TypeOK
  <2>5. Seen'
    BY DEF Seen, EventsOwn, PipeTwo, Pending, Armed, Capturing, Frames, Torn, TypeOK
  <2>6. WaitsForOwn' /\ NetworkReadsFrame'
    BY DEF WaitsForOwn, NetworkReadsFrame, PipeTwo, AiOwns, Armed, Capturing, TypeOK
  <2> QED BY <2>1, <2>2, <2>3, <2>4, <2>5, <2>6
<1>2. CASE Overrun1
  <2> USE <1>2 DEF Overrun1, IInv, camVars, aiVars
  <2>1. TypeOK'
    BY VisionAssumption DEF TypeOK, Enabled, Capturing, Frames, Torn
  <2>2. Owned' /\ PipeTwo'
    BY DEF Owned, PipeTwo, CameraOwns, AiOwns, Armed, Capturing, TypeOK
  <2>3. EventsOwn'
    BY DEF EventsOwn, PipeTwo, PipeOne, Pending, Armed, Capturing, TypeOK
  <2>4. PipeOne'
    BY DEF PipeOne, Capturing, Frames, Torn, TypeOK
  <2>5. Seen'
    BY DEF Seen, EventsOwn, PipeTwo, Pending, Armed, Capturing, Frames, Torn, TypeOK
  <2>6. WaitsForOwn' /\ NetworkReadsFrame'
    BY DEF WaitsForOwn, NetworkReadsFrame, PipeTwo, AiOwns, Armed, Capturing, TypeOK
  <2> QED BY <2>1, <2>2, <2>3, <2>4, <2>5, <2>6
<1>3. CASE Overrun
  <2> USE <1>3 DEF Overrun, IInv, camVars, aiVars
  <2>1. TypeOK'
    BY VisionAssumption DEF TypeOK, Enabled, Capturing, Frames, Torn
  <2>2. Owned' /\ PipeTwo'
    BY DEF Owned, PipeTwo, CameraOwns, AiOwns, Armed, Capturing, TypeOK
  <2>3. EventsOwn'
    BY DEF EventsOwn, PipeTwo, PipeOne, Pending, Armed, Capturing, TypeOK
  <2>4. PipeOne'
    BY DEF PipeOne, Capturing, Frames, Torn, TypeOK
  <2>5. Seen'
    BY DEF Seen, EventsOwn, PipeTwo, Pending, Armed, Capturing, Frames, Torn, TypeOK
  <2>6. WaitsForOwn' /\ NetworkReadsFrame'
    BY DEF WaitsForOwn, NetworkReadsFrame, PipeTwo, AiOwns, Armed, Capturing, TypeOK
  <2> QED BY <2>1, <2>2, <2>3, <2>4, <2>5, <2>6
<1>4. CASE Pipe1Done
  <2> USE <1>4 DEF Pipe1Done, IInv, camVars, aiVars
  <2>1. TypeOK'
    BY VisionAssumption DEF TypeOK, Enabled, Capturing, Frames, Torn
  <2>2. Owned' /\ PipeTwo'
    BY DEF Owned, PipeTwo, CameraOwns, AiOwns, Armed, Capturing, TypeOK
  <2>3. EventsOwn'
    BY DEF EventsOwn, PipeTwo, PipeOne, Pending, Armed, Capturing, TypeOK
  <2>4. PipeOne'
    BY DEF PipeOne, Capturing, Frames, Torn, TypeOK
  <2>5. Seen'
    BY DEF Seen, EventsOwn, PipeTwo, Pending, Armed, Capturing, Frames, Torn, TypeOK
  <2>6. WaitsForOwn' /\ NetworkReadsFrame'
    BY DEF WaitsForOwn, NetworkReadsFrame, PipeTwo, AiOwns, Armed, Capturing, TypeOK
  <2> QED BY <2>1, <2>2, <2>3, <2>4, <2>5, <2>6
<1>5. CASE Pipe2Done
  <2> USE <1>5 DEF Pipe2Done, IInv, camVars, aiVars
  <2>1. TypeOK'
    BY VisionAssumption DEF TypeOK, Enabled, Capturing, Frames, Torn
  <2>2. Owned' /\ PipeTwo'
    BY DEF Owned, PipeTwo, CameraOwns, AiOwns, Armed, Capturing, TypeOK
  <2>3. EventsOwn'
    BY DEF EventsOwn, PipeTwo, PipeOne, Pending, Armed, Capturing, TypeOK
  <2>4. PipeOne'
    BY DEF PipeOne, Capturing, Frames, Torn, TypeOK
  <2>5. Seen'
    BY DEF Seen, EventsOwn, PipeTwo, Pending, Armed, Capturing, Frames, Torn, TypeOK
  <2>6. WaitsForOwn' /\ NetworkReadsFrame'
    BY DEF WaitsForOwn, NetworkReadsFrame, PipeTwo, AiOwns, Armed, Capturing, TypeOK
  <2> QED BY <2>1, <2>2, <2>3, <2>4, <2>5, <2>6
<1> QED BY <1>1, <1>2, <1>3, <1>4, <1>5 DEF Dcmipp

(* The interrupt.                                                          *)
LEMMA IrqInv == IInv /\ IrqHandler => IInv'
<1> SUFFICES ASSUME IInv, IrqHandler PROVE IInv'
  OBVIOUS
<1> USE DEF IrqHandler, IInv, camVars, aiVars
<1>1. TypeOK'
  BY DEF TypeOK, Enabled
<1>2. Owned' /\ PipeTwo'
  BY DEF Owned, PipeTwo, CameraOwns, AiOwns, Armed
<1>3. Pending' = Pending
  BY DEF Pending
<1>4. EventsOwn'
  BY <1>3 DEF EventsOwn, Armed
<1>5. PipeOne'
  BY DEF PipeOne, Enabled
<1>6. Seen'
  BY <1>3 DEF Seen, EventsOwn, Pending, Enabled, TypeOK
<1>7. WaitsForOwn' /\ NetworkReadsFrame'
  BY DEF WaitsForOwn, NetworkReadsFrame, Enabled
<1> QED BY <1>1, <1>2, <1>4, <1>5, <1>6, <1>7

(* Every step.                                                             *)
LEMMA NextInv == IInv /\ [Next]_vars => IInv'
<1>1. IInv /\ UNCHANGED vars => IInv'
  BY DEF vars, camVars, dcmipp, aiVars, IInv, TypeOK, Owned, PipeTwo, EventsOwn,
         PipeOne, Seen, WaitsForOwn, NetworkReadsFrame, CameraOwns, AiOwns, Pending, Armed
<1> QED BY <1>1, AiInv, StartInv, CameraInv, TimeoutInv, DcmippInv, IrqInv DEF Next

(* IInv holds in every reachable state.                                    *)
THEOREM Invariance == Spec => []IInv
<1> QED BY InitInv, NextInv, PTL DEF Spec

(* Owner, events and pipes stay in the states the code gives them          *)
(* (CameraTask, AIInstanceSegmentationTask, the DCMIPP interrupt).         *)
THEOREM VisionTypes == Spec => []TypeOK
<1>1. IInv => TypeOK
  BY DEF IInv
<1> QED BY <1>1, Invariance, PTL

(* The network never evaluates a frame that is being written, overrun or   *)
(* replaced (AIInstanceSegmentationTask, CameraDemo_StartPipe1).           *)
THEOREM NetworkSafe == Spec => []NetworkReadsFrame
<1>1. IInv => NetworkReadsFrame
  BY DEF IInv
<1> QED BY <1>1, Invariance, PTL

(* A wait ends by the events of its own snapshot: LCD and recorder read a  *)
(* preview that no pipe writes any more, and which lost data exactly if    *)
(* pipe 1's overrun flag is up, the one nobody reads; the frame for the    *)
(* network is whole (CameraDemo_WaitPipe1Frame, CameraDemo_StartPipe1).    *)
THEOREM SnapshotComplete == Spec => []WaitsForOwn
<1>1. IInv => WaitsForOwn
  BY DEF IInv
<1> QED BY <1>1, Invariance, PTL
-----------------------------------------------------------------------------
(* Every step keeps the frames of the two pipes together.                  *)
LEMMA MatchedInv == IInv /\ Matched /\ FramesMatch /\ [Next]_vars => (Matched /\ FramesMatch)'
<1> SUFFICES ASSUME IInv, Matched, FramesMatch, [Next]_vars
             PROVE  (Matched /\ FramesMatch)'
  OBVIOUS
<1> USE DEF Matched, FramesMatch, camVars, dcmipp, aiVars
<1>1. CASE AiStep
  BY <1>1 DEF AiStep, AiStart, AiInput, AiReady, AiTake, AiPublish, AiRelease
<1>2. CASE CameraStart \/ GetInputBuffer \/ DiscardEvents \/ ArmPipe1
  BY <1>2 DEF CameraStart, GetInputBuffer, DiscardEvents, ArmPipe1
<1>3. CASE RequestPipe2
  BY <1>3 DEF RequestPipe2
<1>4. CASE RequestPipe1
  BY <1>4 DEF RequestPipe1, IInv, Seen
<1>5. CASE WaitEvents
  BY <1>5 DEF WaitEvents, Stop, needed, IInv, TypeOK, PipeOne, EventsOwn, Seen, Pending
<1>6. CASE WaitTimeout
  BY <1>6 DEF WaitTimeout, Stop
<1>7. CASE CopyPreview \/ SubmitFrame \/ ProcessFrame
  BY <1>7 DEF CopyPreview, SubmitFrame, ProcessFrame
<1>8. CASE FrameStart
  BY <1>8 DEF FrameStart, Capturing, IInv, TypeOK, PipeOne, PipeTwo, Armed, WaitsForOwn
<1>9. CASE Overrun1 \/ Overrun \/ IrqHandler
  BY <1>9 DEF Overrun1, Overrun, IrqHandler, Enabled, IInv, TypeOK, PipeOne
<1>10. CASE Pipe1Done
  BY <1>10, VisionAssumption
     DEF Pipe1Done, Capturing, Torn, Frames, IInv, TypeOK, PipeOne
<1>11. CASE Pipe2Done
  BY <1>11, VisionAssumption
     DEF Pipe2Done, Capturing, Torn, Frames, IInv, TypeOK, PipeTwo, Armed
<1>12. CASE UNCHANGED vars
  BY <1>12 DEF vars
<1> QED BY <1>1, <1>2, <1>3, <1>4, <1>5, <1>6, <1>7, <1>8, <1>9, <1>10, <1>11, <1>12
        DEF Next, CameraStep, Dcmipp

(* Preview and submitted frame are the same frame, unless one began        *)
(* between the two requests of CameraDemo_StartPipe1.                      *)
THEOREM SameFrame == Spec => []FramesMatch
<1>1. Init => Matched /\ FramesMatch
  BY DEF Init, Matched, FramesMatch
<1> QED BY <1>1, MatchedInv, Invariance, PTL DEF Spec
-----------------------------------------------------------------------------
(* With AiFirst no step loses a claim.                                     *)
LEMMA InOrderInv == AiFirst /\ IInv /\ InOrder /\ [Next]_vars => InOrder'
<1> SUFFICES ASSUME AiFirst, IInv, InOrder, [Next]_vars PROVE InOrder'
  OBVIOUS
<1> USE DEF InOrder, Ready, CameraOwns, AiOwns, camVars, dcmipp, aiVars
<1>1. CASE AiStep
  BY <1>1 DEF AiStep, AiStart, AiInput, AiReady, AiTake, AiPublish, AiRelease
<1>2. CASE CameraStart \/ GetInputBuffer \/ DiscardEvents \/ ArmPipe1
  <2>1. ai_input \in BOOLEAN
    BY DEF IInv, TypeOK
  <2>2. CASE CameraStart
    BY <2>2 DEF CameraStart
  <2>3. CASE GetInputBuffer
    <3>1. CASE s_ai_buffer_busy
      BY <2>3, <3>1 DEF GetInputBuffer
    <3>2. CASE ~s_ai_buffer_busy
      BY <2>3, <3>2 DEF GetInputBuffer
    <3> QED BY <3>1, <3>2
  <2>4. CASE DiscardEvents \/ ArmPipe1
    BY <2>1, <2>4 DEF DiscardEvents, ArmPipe1
  <2> QED BY <1>2, <2>2, <2>3, <2>4
<1>3. CASE RequestPipe2 \/ RequestPipe1 \/ WaitEvents \/ WaitTimeout
  BY <1>3 DEF RequestPipe2, RequestPipe1, WaitEvents, WaitTimeout, Stop, needed
<1>4. CASE CopyPreview \/ SubmitFrame \/ ProcessFrame
  BY <1>4 DEF CopyPreview, SubmitFrame, ProcessFrame
<1>5. CASE Dcmipp \/ IrqHandler
  BY <1>5 DEF Dcmipp, FrameStart, Overrun, Overrun1, Pipe1Done, Pipe2Done, IrqHandler
<1>6. CASE UNCHANGED vars
  BY <1>6 DEF vars
<1> QED BY <1>1, <1>2, <1>3, <1>4, <1>5, <1>6 DEF Next, CameraStep

(* With the start-up order of main.c the busy flag and the owner agree     *)
(* (AIInstanceSegmentation_GetInputBuffer, CancelFrame).                   *)
THEOREM OwnerKnown == AiFirst => (Spec => []OneOwner)
<1> SUFFICES ASSUME AiFirst PROVE Spec => []OneOwner
  OBVIOUS
<1>1. Init => InOrder
  BY DEF Init, InOrder, Ready, CameraOwns, AiOwns
<1>2. IInv /\ InOrder /\ [Next]_vars => InOrder'
  BY InOrderInv
<1>3. IInv /\ InOrder => OneOwner
  BY DEF IInv, TypeOK, Owned, InOrder, OneOwner
<1> QED BY <1>1, <1>2, <1>3, Invariance, PTL DEF Spec
-----------------------------------------------------------------------------
(* Every step of the pipeline is one of FrameSlot, or none of its business.*)
LEMMA SlotStep == IInv /\ [Next]_vars => [Slot!Next]_Slot!vars
<1> SUFFICES ASSUME IInv, [Next]_vars PROVE Slot!Next \/ UNCHANGED Slot!vars
  OBVIOUS
<1> USE DEF Slot!vars, camVars, dcmipp, aiVars
<1>1. CASE AiStart \/ AiInput \/ AiReady \/ AiTake
  BY <1>1 DEF AiStart, AiInput, AiReady, AiTake
<1>2. CASE AiPublish
  BY <1>2 DEF AiPublish, IInv, Owned, AiOwns, NetworkReadsFrame, Slot!Next, Slot!Publish
<1>3. CASE AiRelease
  BY <1>3 DEF AiRelease, IInv, Owned, AiOwns, Slot!Next, Slot!GiveBack
<1>4. CASE GetInputBuffer
  BY <1>4 DEF GetInputBuffer, IInv, Owned, AiOwns, Slot!Next, Slot!Claim
<1>5. CASE CameraStart \/ DiscardEvents \/ ArmPipe1 \/ RequestPipe2 \/ RequestPipe1
  BY <1>5 DEF CameraStart, DiscardEvents, ArmPipe1, RequestPipe2, RequestPipe1
<1>6. CASE WaitEvents \/ WaitTimeout
  <2>1. Stop \/ UNCHANGED s_ai_buffer_busy
    BY <1>6 DEF WaitEvents, WaitTimeout
  <2>2. cam = "wait" /\ UNCHANGED <<ai, ai_notified, submitted, result>>
    BY <1>6 DEF WaitEvents, WaitTimeout
  <2>3. CASE armed /\ Stop
    <3>1. s_ai_buffer_busy /\ ~ai_notified /\ ai \notin {"run", "release"}
      BY <2>2, <2>3 DEF IInv, Owned, CameraOwns, AiOwns
    <3> QED BY <2>2, <2>3, <3>1 DEF Stop, Slot!Next, Slot!Cancel
  <2>4. CASE UNCHANGED s_ai_buffer_busy
    BY <2>2, <2>4
  <2> QED BY <2>1, <2>3, <2>4 DEF Stop
<1>7. CASE SubmitFrame
  BY <1>7 DEF SubmitFrame, IInv, TypeOK, Owned, CameraOwns, AiOwns, WaitsForOwn,
              Slot!Next, Slot!Submit
<1>8. CASE CopyPreview \/ ProcessFrame \/ Dcmipp \/ IrqHandler
  BY <1>8 DEF CopyPreview, ProcessFrame, Dcmipp, FrameStart, Overrun1, Overrun,
              Pipe1Done, Pipe2Done, IrqHandler
<1>9. CASE UNCHANGED vars
  BY <1>9 DEF vars
<1> QED BY <1>1, <1>2, <1>3, <1>4, <1>5, <1>6, <1>7, <1>8, <1>9
        DEF Next, AiStep, CameraStep

(* The pipeline implements FrameSlot: every frame that the network takes   *)
(* is published once, unchanged, before the buffer is free again.          *)
THEOREM Refinement == Spec => ImplementsSlot
<1>1. Init => Slot!Init
  BY VisionAssumption DEF Init, Slot!Init, Torn, Frames
<1> QED BY <1>1, SlotStep, Invariance, PTL DEF Spec, ImplementsSlot, Slot!Spec
=============================================================================
