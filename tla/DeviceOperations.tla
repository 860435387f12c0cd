-------------------------- MODULE DeviceOperations --------------------------
(***************************************************************************)
(* The operations of a device, one after the other, captures included.     *)
(***************************************************************************)
EXTENDS ScreenCapture

vars == <<platform, dev, call, screen, cap>>

Init == CommandsInit /\ CaptureInit

Next ==
  \/ CommandStep /\ UNCHANGED <<screen, cap>>
  \/ CaptureStep
  \/ Waiting /\ call.count = MaxCalls /\ UNCHANGED vars

Spec == Init /\ [][Next]_vars

-----------------------------------------------------------------------------
TypeOK == CommandsTypeOK /\ CaptureTypeOK

(* Success is answered only when the device is as the operation promises:  *)
(* no command failed unnoticed on the way, none undid an earlier one.  An  *)
(* answer given on a state that could not be read promises less.  Whatever *)
(* is answered, a key is pressed at most once.                             *)
AnswersAreTrue ==
  /\ call.answer = "success" => Kept(call.req)
  /\ dev.pressed <= 1

(* What a capture says of the screen, and of its own failure, is so.       *)
CaptureIsHonest == StableIsSeenTwice /\ GivesUpLast
=============================================================================
