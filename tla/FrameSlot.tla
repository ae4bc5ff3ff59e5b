----------------------------- MODULE FrameSlot ------------------------------
(***************************************************************************)
(* What the camera and the network promise each other about the one input  *)
(* buffer (app/Core/Src/drivers/ai_instance_segmentation.c): it has one    *)
(* owner at a time, and a frame handed over is evaluated exactly once,     *)
(* unchanged, before the buffer is free again.                             *)
(***************************************************************************)
CONSTANT Frames

VARIABLES owner,  \* "nobody", "camera", "network", "done": evaluated, not yet given back
          item,   \* the frame handed over
          result  \* the frame whose objects are published
vars == <<owner, item, result>>

Init == owner = "nobody" /\ item \notin Frames /\ result = item

Claim ==
  /\ owner = "nobody" /\ owner' = "camera"
  /\ UNCHANGED <<item, result>>

Cancel ==
  /\ owner = "camera" /\ owner' = "nobody"
  /\ UNCHANGED <<item, result>>

Submit ==
  /\ owner = "camera" /\ owner' = "network"
  /\ item' \in Frames
  /\ UNCHANGED result

Publish ==
  /\ owner = "network" /\ owner' = "done"
  /\ result' = item
  /\ UNCHANGED item

GiveBack ==
  /\ owner = "done" /\ owner' = "nobody"
  /\ UNCHANGED <<item, result>>

Next == Claim \/ Cancel \/ Submit \/ Publish \/ GiveBack

Spec == Init /\ [][Next]_vars
=============================================================================
