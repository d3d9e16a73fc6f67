------------------------------ MODULE Driving -------------------------------
(***************************************************************************)
(* What reaches the control loop and when: frame ring and encoder, the     *)
(* restarted CAN queue, the USB packets, the state of the car, the gates, the *)
(* learners' samples, the path of the plan and the loop that paces them.   *)
(*                                                                         *)
(* No two of these modules share a variable, so a behaviour of all of them *)
(* is one of each: the run chooses at its start which one moves.           *)
(***************************************************************************)
EXTENDS CanQueueRestart, FramePipeline, PandaCodec, VehicleState,
  VehicleMessages, SafetyHolds, TorquePoints, ControlLoop, LanePlan

VARIABLE focus   \* the component that moves in this behaviour

drivingVars == <<focus, allVars, pipeVars, codec_frames, vehicleVars,
  messageVars, indicatorVars, holdVars, pointsVars, loopVars, lanePlanVars>>

DrivingInit ==
  /\ focus \in {"can_restart", "frames", "packets", "vehicle", "messages",
                "indicator", "gates", "samples", "loop", "path"}
  /\ RInit /\ PipeInit /\ CodecInit /\ VehicleInit /\ MessagesInit
  /\ IndicatorInit /\ HoldsInit /\ LearnerInit /\ LoopInit /\ LanePlanInit
  /\ focus # "messages" => body = {}

RestartMoves ==
  /\ focus = "can_restart" /\ RNext
  /\ UNCHANGED <<focus, pipeVars, codec_frames, vehicleVars, messageVars,
                 indicatorVars, holdVars, pointsVars, loopVars,
                 lanePlanVars>>
FramesMove ==
  /\ focus = "frames" /\ PipeNext
  /\ UNCHANGED <<focus, allVars, codec_frames, vehicleVars, messageVars,
                 indicatorVars, holdVars, pointsVars, loopVars,
                 lanePlanVars>>
PacketsMove ==
  /\ focus = "packets" /\ AddFrame
  /\ UNCHANGED <<focus, allVars, pipeVars, vehicleVars, messageVars,
                 indicatorVars, holdVars, pointsVars, loopVars,
                 lanePlanVars>>
VehicleMoves ==
  /\ focus = "vehicle" /\ VehicleNext
  /\ UNCHANGED <<focus, allVars, pipeVars, codec_frames, messageVars,
                 indicatorVars, holdVars, pointsVars, loopVars,
                 lanePlanVars>>
MessagesMove ==
  /\ focus = "messages" /\ MessagesNext
  /\ UNCHANGED <<focus, allVars, pipeVars, codec_frames, vehicleVars,
                 indicatorVars, holdVars, pointsVars, loopVars,
                 lanePlanVars>>
IndicatorMoves ==
  /\ focus = "indicator" /\ IndicatorNext
  /\ UNCHANGED <<focus, allVars, pipeVars, codec_frames, vehicleVars,
                 messageVars, holdVars, pointsVars, loopVars,
                 lanePlanVars>>
GatesMove ==
  /\ focus = "gates" /\ HoldsNext
  /\ UNCHANGED <<focus, allVars, pipeVars, codec_frames, vehicleVars,
                 messageVars, indicatorVars, pointsVars, loopVars,
                 lanePlanVars>>
PointsMove ==
  /\ focus = "samples" /\ PointsNext
  /\ UNCHANGED <<focus, allVars, pipeVars, codec_frames, vehicleVars,
                 messageVars, indicatorVars, holdVars, loopVars,
                 lanePlanVars>>
LoopMoves ==
  /\ focus = "loop" /\ LoopNext
  /\ UNCHANGED <<focus, allVars, pipeVars, codec_frames, vehicleVars,
                 messageVars, indicatorVars, holdVars, pointsVars,
                 lanePlanVars>>
PathMoves ==
  /\ focus = "path" /\ LanePlanNext
  /\ UNCHANGED <<focus, allVars, pipeVars, codec_frames, vehicleVars,
                 messageVars, indicatorVars, holdVars, pointsVars,
                 loopVars>>

DrivingNext ==
  \/ RestartMoves
  \/ FramesMove
  \/ PacketsMove
  \/ VehicleMoves
  \/ MessagesMove
  \/ IndicatorMoves
  \/ GatesMove
  \/ PointsMove
  \/ LoopMoves
  \/ PathMoves

DrivingSpec == DrivingInit /\ [][DrivingNext]_drivingVars

-----------------------------------------------------------------------------

(* The inductive invariants of the components; each is stated in its own    *)
(* module, with the parts that only make it inductive.  That of LanePlan     *)
(* says, too, that a lane is read where the plan will be and that the path   *)
(* runs between the two.                                                    *)
ComponentsInv ==
  /\ RestartInv /\ PipeInv /\ VehicleInv /\ MessagesInv /\ IndicatorInv
  /\ HoldsInv /\ PointsInv /\ LoopInv /\ LanePlanInv

(* The same of the component that moves: the others stand where they began,  *)
(* and need not be looked at again in each of its states.                   *)
DrivingInv ==
  /\ focus = "can_restart" => RestartInv
  /\ focus = "frames" => PipeInv
  /\ focus = "vehicle" => VehicleInv
  /\ focus = "messages" => MessagesInv
  /\ focus = "indicator" => IndicatorInv
  /\ focus = "gates" => HoldsInv
  /\ focus = "samples" => PointsInv
  /\ focus = "loop" => LoopInv
  /\ focus = "path" => LanePlanInv

(* Whatever restarts, batches of two generations stay apart and undelivered *)
(* ones stay in the ring (CanQueueRestart).                                 *)
RestartsKeepBatches == GenerationsStayApart /\ UndeliveredStaysInRing

(* A copied picture is whole, a recorded one is the one the model saw, and   *)
(* pictures are recorded in order (FramePipeline).                          *)
RecordedAsSeen ==
  CopiedPictureIsWhole /\ RecordedAsModelled /\ RecordedInOrder

(* What the CAN messages tell of the car is what it does: cruise, brake and  *)
(* buttons (VehicleState), doors, motor, wheels and blinkers (VehicleMessages). *)
VehicleIsKnown == CruiseIsKnown /\ CarIsKnown /\ BlinkerIsSteady

(* The loop does not run in a burst after an overrun (ControlLoop), the      *)
(* filter is never predicted over more than one gap, and torque points come *)
(* only from steering (TorquePoints).                                       *)
TimeIsKept == NoBurst /\ PredictionIsShort /\ PointsComeFromSteering
=============================================================================
