--------------------------- MODULE VisionPipeline ---------------------------
(***************************************************************************)
(* The camera task takes snapshots with the two pipes of the DCMIPP and    *)
(* hands frames to the network task (app/Core/Src/drivers/camera_demo.c,   *)
(* ai_instance_segmentation.c).  Pipe 1 fills the preview, which LCD and   *)
(* recorder use; pipe 2, armed only when the network's input buffer is     *)
(* free, fills that buffer.  The DCMIPP interrupt turns flags into event   *)
(* bits of the camera task, and preempts it at every step.                 *)
(*                                                                         *)
(* AiFirst says that the network task has initialised before the camera    *)
(* task runs: so do the priorities of main.c.                              *)
(***************************************************************************)
EXTENDS Naturals

CONSTANTS FrameIds, \* frames of the sensor are told apart modulo FrameIds
          AiFirst

ASSUME VisionAssumption == FrameIds \in Nat \ {0} /\ AiFirst \in BOOLEAN

VARIABLES cam,      \* where the camera task is
          ai_input, \* GetInputBuffer returned the buffer
          armed,    \* s_ai_capture_armed
          events    \* the events WaitPipe1Frame has seen

VARIABLES frame,    \* the sensor's present frame
          p1, p2,   \* the pipes: "off", "requested", "capturing", "damaged", "done"
          flags,    \* P1SR and P2SR: frames complete, overruns
          notified, \* event bits in the notification of the camera task
          preview,  \* the frame in s_camera_preview; 0: none or not all of it
          input     \* the frame in s_input; 0 likewise

VARIABLES ai,          \* where the network task is
          ai_notified, \* its notification
          s_ai_buffer_busy,
          submitted,   \* history: the frame handed over last
          result,      \* the frame whose objects s_boxes holds
          split        \* history: a frame began between the requests of the two pipes

camVars == <<cam, ai_input, armed, events>>
dcmipp  == <<frame, p1, p2, flags, preview, input>>
aiVars  == <<ai, ai_notified, s_ai_buffer_busy, submitted, result>>
vars    == <<camVars, dcmipp, notified, aiVars, split>>

Frames == 1 .. FrameIds
Torn   == 0

Init ==
  /\ cam = "off" /\ ai_input = FALSE /\ armed = FALSE /\ events = {}
  /\ frame = 1 /\ p1 = "off" /\ p2 = "off" /\ flags = {} /\ notified = {}
  /\ preview = Torn /\ input = Torn
  /\ ai = "off" /\ ai_notified = FALSE /\ s_ai_buffer_busy = FALSE
  /\ submitted = Torn /\ result = Torn /\ split = FALSE
-----------------------------------------------------------------------------
(* AIInstanceSegmentationTask: the handle, then the input buffer, then     *)
(* s_ai_ready.                                                             *)
AiStart ==
  /\ ai = "off" /\ ai' = "started"
  /\ UNCHANGED <<ai_notified, s_ai_buffer_busy, submitted, result,
                 camVars, dcmipp, notified, split>>

AiInput ==
  /\ ai = "started" /\ ai' = "input"
  /\ UNCHANGED <<ai_notified, s_ai_buffer_busy, submitted, result,
                 camVars, dcmipp, notified, split>>

AiReady ==
  /\ ai = "input" /\ ai' = "wait"
  /\ UNCHANGED <<ai_notified, s_ai_buffer_busy, submitted, result,
                 camVars, dcmipp, notified, split>>

(* Its loop: wait, evaluate the buffer, publish, give the buffer back.     *)
AiTake ==
  /\ ai = "wait" /\ ai_notified
  /\ ai_notified' = FALSE
  /\ ai' = "run"
  /\ UNCHANGED <<s_ai_buffer_busy, submitted, result, camVars, dcmipp,
                 notified, split>>

(* stai_network_run in STAI_MODE_SYNC: what it found belongs to the frame  *)
(* that the buffer held.                                                   *)
AiPublish ==
  /\ ai = "run"
  /\ result' = input
  /\ ai' = "release"
  /\ UNCHANGED <<ai_notified, s_ai_buffer_busy, submitted, camVars, dcmipp,
                 notified, split>>

AiRelease ==
  /\ ai = "release"
  /\ s_ai_buffer_busy' = FALSE
  /\ ai' = "wait"
  /\ UNCHANGED <<ai_notified, submitted, result, camVars, dcmipp, notified,
                 split>>

AiStep == AiStart \/ AiInput \/ AiReady \/ AiTake \/ AiPublish \/ AiRelease
-----------------------------------------------------------------------------
(* CameraTask: CameraDemo_Init succeeds, or the loop never starts.         *)
CameraStart ==
  /\ cam = "off"
  /\ AiFirst => ai \notin {"off", "started", "input"}
  /\ cam' \in {"buffer", "stopped"}
  /\ UNCHANGED <<ai_input, armed, events, dcmipp, notified, aiVars, split>>

(* Mutant: the busy flag is not looked at.                                 *)
GetInputBuffer_Unchecked ==
  /\ cam = "buffer" /\ cam' = "discard"
  /\ IF ai # "off" THEN s_ai_buffer_busy' = TRUE /\ ai_input' = (ai # "started")
     ELSE ai_input' = FALSE /\ UNCHANGED s_ai_buffer_busy
  /\ UNCHANGED <<armed, events, dcmipp, notified, ai, ai_notified, submitted,
                 result, split>>

(* AIInstanceSegmentation_GetInputBuffer claims the buffer as soon as the  *)
(* network task exists, even while it has no buffer yet.                   *)
GetInputBuffer ==
  /\ cam = "buffer" /\ cam' = "discard"
  /\ IF ai # "off" /\ ~s_ai_buffer_busy
     THEN s_ai_buffer_busy' = TRUE /\ ai_input' = (ai # "started")
     ELSE ai_input' = FALSE /\ UNCHANGED s_ai_buffer_busy
  /\ UNCHANGED <<armed, events, dcmipp, notified, ai, ai_notified, submitted,
                 result, split>>

(* CameraDemo_StartPipe1: old events, pipe 1, pipe 2, and the requests.    *)
DiscardEvents ==
  /\ cam = "discard" /\ cam' = "pipe1"
  /\ notified' = {}
  /\ UNCHANGED <<ai_input, armed, events, dcmipp, aiVars, split>>

ArmPipe1 ==
  /\ cam = "pipe1" /\ cam' = "pipe2"
  /\ flags' = flags \ {"P1", "OVERRUN1"}
  /\ p1' = "off"
  /\ armed' = ai_input
  /\ UNCHANGED <<ai_input, events, frame, p2, preview, input, notified, aiVars,
                 split>>

RequestPipe2 ==
  /\ cam = "pipe2" /\ cam' = "request"
  /\ split' = FALSE
  /\ IF armed THEN p2' = "requested" /\ flags' = flags \ {"P2", "OVERRUN"}
     ELSE UNCHANGED <<p2, flags>>
  /\ UNCHANGED <<ai_input, armed, events, frame, p1, preview, input, notified,
                 aiVars>>

(* Mutant: the wait starts with the events of the snapshot before it.      *)
RequestPipe1_OldEvents ==
  /\ cam = "request" /\ cam' = "wait"
  /\ p1' = "requested"
  /\ UNCHANGED <<ai_input, armed, events, frame, p2, flags, preview, input,
                 notified, aiVars, split>>

RequestPipe1 ==
  /\ cam = "request" /\ cam' = "wait"
  /\ p1' = "requested"
  /\ events' = {}
  /\ UNCHANGED <<ai_input, armed, frame, p2, flags, preview, input, notified,
                 aiVars, split>>
-----------------------------------------------------------------------------
(* Mutant: the claim is not cancelled.                                     *)
Stop_KeepsClaim ==
  /\ cam' = "stopped"
  /\ armed' = FALSE
  /\ UNCHANGED s_ai_buffer_busy

(* Mutant: the buffer is freed whether or not this snapshot claimed it.    *)
Stop_AlwaysCancels ==
  /\ cam' = "stopped"
  /\ s_ai_buffer_busy' = FALSE
  /\ armed' = FALSE

(* AIInstanceSegmentation_CancelFrame, when the buffer was claimed.        *)
Stop ==
  /\ cam' = "stopped"
  /\ s_ai_buffer_busy' = IF armed THEN FALSE ELSE s_ai_buffer_busy
  /\ armed' = FALSE

(* Mutant: the wait is for the preview alone.                              *)
needed_PreviewOnly == {"P1"}

needed == {"P1"} \cup IF armed THEN {"P2"} ELSE {}

(* Mutant: the overrun is looked at only when frames are still missing.    *)
WaitEvents_FramesFirst ==
  /\ cam = "wait" /\ notified # {}
  /\ events' = events \cup notified
  /\ notified' = {}
  /\ IF needed \subseteq events'
     THEN cam' = "copy" /\ UNCHANGED <<armed, s_ai_buffer_busy>>
     ELSE IF "OVERRUN" \in events' THEN Stop
     ELSE cam' = "wait" /\ UNCHANGED <<armed, s_ai_buffer_busy>>
  /\ UNCHANGED <<ai_input, dcmipp, ai, ai_notified, submitted, result, split>>

(* CameraDemo_WaitPipe1Frame: notified events, with the overrun first; an  *)
(* error ends the loop of CameraTask for good.                             *)
WaitEvents ==
  /\ cam = "wait" /\ notified # {}
  /\ events' = events \cup notified
  /\ notified' = {}
  /\ IF "OVERRUN" \in events' THEN Stop
     ELSE /\ cam' = IF needed \subseteq events' THEN "copy" ELSE "wait"
          /\ UNCHANGED <<armed, s_ai_buffer_busy>>
  /\ UNCHANGED <<ai_input, dcmipp, ai, ai_notified, submitted, result, split>>

(* One second passes; events may be waiting by then.                       *)
WaitTimeout ==
  /\ cam = "wait"
  /\ Stop
  /\ UNCHANGED <<ai_input, events, dcmipp, notified, ai, ai_notified,
                 submitted, result, split>>

(* CameraDemo_CopyPreviewToLcd reads the preview.                          *)
CopyPreview ==
  /\ cam = "copy" /\ cam' = "submit"
  /\ UNCHANGED <<ai_input, armed, events, dcmipp, notified, aiVars, split>>

(* AIInstanceSegmentation_SubmitCameraFrame: nothing before s_ai_ready.    *)
SubmitFrame ==
  /\ cam = "submit" /\ cam' = "process"
  /\ IF armed /\ "P2" \in events /\ ai \notin {"off", "started", "input"}
     THEN ai_notified' = TRUE /\ submitted' = input
     ELSE UNCHANGED <<ai_notified, submitted>>
  /\ UNCHANGED <<ai_input, armed, events, dcmipp, notified, ai,
                 s_ai_buffer_busy, result, split>>

(* VencRecorder_ProcessFrame reads the preview; the next snapshot.         *)
ProcessFrame ==
  /\ cam = "process" /\ cam' = "buffer"
  /\ UNCHANGED <<ai_input, armed, events, dcmipp, notified, aiVars, split>>

CameraStep ==
  \/ GetInputBuffer \/ DiscardEvents \/ ArmPipe1 \/ RequestPipe2 \/ RequestPipe1
  \/ WaitEvents \/ CopyPreview \/ SubmitFrame \/ ProcessFrame
-----------------------------------------------------------------------------
Capturing == {"capturing", "damaged"}

(* A frame of the sensor begins: requested pipes write their memory.       *)
FrameStart ==
  /\ p1 \notin Capturing /\ p2 \notin Capturing
  /\ frame' = (frame % FrameIds) + 1
  /\ IF p1 = "requested" THEN p1' = "capturing" /\ preview' = Torn
     ELSE UNCHANGED <<p1, preview>>
  /\ IF p2 = "requested" THEN p2' = "capturing" /\ input' = Torn
     ELSE UNCHANGED <<p2, input>>
  /\ split' = (split \/ (p2 = "requested" /\ p1 # "requested"))
  /\ UNCHANGED <<camVars, flags, notified, aiVars>>

(* Pipe 1 loses data of its frame.                                         *)
Overrun1 ==
  /\ p1 = "capturing" /\ p1' = "damaged"
  /\ flags' = flags \cup {"OVERRUN1"}
  /\ UNCHANGED <<camVars, frame, p2, preview, input, notified, aiVars, split>>

(* Pipe 2 loses data of its frame.                                         *)
Overrun ==
  /\ p2 = "capturing" /\ p2' = "damaged"
  /\ flags' = flags \cup {"OVERRUN"}
  /\ UNCHANGED <<camVars, frame, p1, preview, input, notified, aiVars, split>>

(* A pipe has written its frame, or what is left of it: a snapshot ends by *)
(* itself.                                                                 *)
Pipe1Done ==
  /\ p1 \in Capturing /\ p1' = "done"
  /\ flags' = flags \cup {"P1"}
  /\ preview' = IF p1 = "damaged" THEN Torn ELSE frame
  /\ UNCHANGED <<camVars, frame, p2, input, notified, aiVars, split>>

Pipe2Done ==
  /\ p2 \in Capturing /\ p2' = "done"
  /\ flags' = flags \cup {"P2"}
  /\ input' = IF p2 = "damaged" THEN Torn ELSE frame
  /\ UNCHANGED <<camVars, frame, p1, preview, notified, aiVars, split>>

(* Mutant: status bits that raise no interrupt are passed on as well.      *)
IrqHandler_Unmasked ==
  /\ flags # {}
  /\ flags' = {}
  /\ notified' = notified \cup flags
  /\ UNCHANGED <<camVars, frame, p1, p2, preview, input, aiVars, split>>

(* The flags that interrupt: FRAMEIE of P1IER, FRAMEIE and OVRIE of P2IER. *)
Enabled == {"P1", "P2", "OVERRUN"}

(* CameraDemo_DCMIPP_IRQHandler: the enabled flags become event bits and   *)
(* are cleared, all at once.  The overrun of pipe 1 is not enabled: it     *)
(* stays in P1SR, which nothing else reads, until pipe 1 is armed again.   *)
IrqHandler ==
  LET raised == flags \cap Enabled
  IN /\ raised # {}
     /\ flags' = flags \ raised
     /\ notified' = notified \cup raised
     /\ UNCHANGED <<camVars, frame, p1, p2, preview, input, aiVars, split>>

Dcmipp == FrameStart \/ Overrun1 \/ Overrun \/ Pipe1Done \/ Pipe2Done

Next == AiStep \/ CameraStart \/ CameraStep \/ WaitTimeout \/ Dcmipp \/ IrqHandler

Fairness ==
  /\ WF_vars(AiStep) /\ WF_vars(CameraStart) /\ WF_vars(CameraStep)
  /\ WF_vars(WaitTimeout) /\ WF_vars(IrqHandler)
  /\ WF_vars(FrameStart) /\ WF_vars(Pipe1Done) /\ WF_vars(Pipe2Done)

Spec == Init /\ [][Next]_vars /\ Fairness
-----------------------------------------------------------------------------
(* The flags of the DCMIPP and the events of the camera task are those the *)
(* driver knows, and tasks and pipes are in one of their states.           *)
TypeOK ==
  /\ cam \in {"off", "buffer", "discard", "pipe1", "pipe2", "request", "wait",
              "copy", "submit", "process", "stopped"}
  /\ ai \in {"off", "started", "input", "wait", "run", "release"}
  /\ ai_input \in BOOLEAN /\ armed \in BOOLEAN /\ ai_notified \in BOOLEAN
  /\ s_ai_buffer_busy \in BOOLEAN /\ split \in BOOLEAN
  /\ {p1, p2} \subseteq {"off", "requested", "capturing", "damaged", "done"}
  /\ flags \subseteq Enabled \cup {"OVERRUN1"}
  /\ notified \subseteq Enabled /\ events \subseteq Enabled
  /\ frame \in Frames
  /\ {preview, input, submitted, result} \subseteq Frames \cup {Torn}

(* Who may touch the input buffer.                                         *)
CameraOwns ==
  \/ cam \in {"discard", "pipe1"} /\ ai_input
  \/ cam \in {"pipe2", "request", "wait", "copy", "submit"} /\ armed
AiOwns == ai_notified \/ ai \in {"run", "release"}

(* With the start-up order of main.c, the busy flag is set exactly while   *)
(* the buffer has an owner, and never has two: no claim is lost, none is   *)
(* given back twice.                                                       *)
OneOwner ==
  /\ s_ai_buffer_busy = (CameraOwns \/ AiOwns)
  /\ ~(CameraOwns /\ AiOwns)

(* While the network runs, its buffer holds the whole frame the camera     *)
(* submitted, and pipe 2 has no request left that could overwrite it       *)
(* (s_ai_buffer_busy).                                                     *)
NetworkReadsFrame ==
  ai_notified \/ ai = "run" =>
    /\ submitted \in Frames /\ input = submitted
    /\ p2 \in {"off", "done"}

(* A wait ends by the events of its own snapshot: no pipe writes any more  *)
(* what LCD, recorder and network are given, and what pipe 2 wrote is a    *)
(* whole frame.  What pipe 1 wrote is one exactly when its overrun flag is *)
(* clear: only a bit of P1SR that CameraDemo_WaitPipe1Frame never asks for *)
(* tells a whole preview from one with lost data.                          *)
WaitsForOwn ==
  cam \in {"copy", "submit", "process"} =>
    /\ p1 = "done" /\ (preview \in Frames <=> "OVERRUN1" \notin flags)
    /\ armed /\ cam # "process" => p2 = "done" /\ input \in Frames

(* Preview and submitted frame are the same frame of the sensor, unless    *)
(* one began after pipe 2 was requested and before pipe 1 was, or pipe 1   *)
(* lost data (CameraDemo_StartPipe1 arms the pipes one after the other).   *)
FramesMatch ==
  cam \in {"copy", "submit"} /\ armed =>
    split \/ "OVERRUN1" \in flags \/ preview = input

(* With the start-up order of main.c the buffer always becomes free again. *)
BufferReturns == s_ai_buffer_busy ~> ~s_ai_buffer_busy

(* The pipeline keeps the promise of FrameSlot.                            *)
Slot == INSTANCE FrameSlot WITH
  owner <- IF ~s_ai_buffer_busy THEN "nobody"
           ELSE IF ai = "release" THEN "done"
           ELSE IF ai_notified \/ ai = "run" THEN "network"
           ELSE "camera",
  item <- submitted
ImplementsSlot == Slot!Spec
=============================================================================
