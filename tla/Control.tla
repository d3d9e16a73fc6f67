------------------------------ MODULE Control -------------------------------
(***************************************************************************)
(* What a control tick decides: engagement, the lane change, the steering  *)
(* command and the frame it goes out in, the cruise buttons, and the departure *)
(* alerts, and the torque that the plan asks for.                          *)
(*                                                                         *)
(* No two of these modules share a variable, so a behaviour of all of them *)
(* is one of each: the run chooses at its start which one moves.           *)
(***************************************************************************)
EXTENDS EngageLatch, DepartureAlert, LaneChange, Steering, LkasFrame,
  AdaptiveCruise, TorqueLaw

VARIABLE focus   \* the component that moves in this behaviour

controlVars == <<focus, latchVars, departureVars, laneVars, steeringVars,
  frameVars, cruiseVars, lawVars>>

ControlInit ==
  /\ focus \in {"latch", "departure", "lane_change", "steering",
                "lkas_frame", "cruise", "law"}
  /\ LatchInit /\ DepartureInit /\ LaneInit /\ SteeringInit /\ FrameInit
  /\ CruiseInit /\ LawInit
  /\ focus # "steering" => avoid
  /\ focus # "lkas_frame" => lkas_seed = CHOOSE s \in Seeds : TRUE

LatchMoves ==
  /\ focus = "latch" /\ LatchNext
  /\ UNCHANGED <<focus, departureVars, laneVars, steeringVars, frameVars,
                 cruiseVars, lawVars>>
DepartureMoves ==
  /\ focus = "departure" /\ DepartureNext
  /\ UNCHANGED <<focus, latchVars, laneVars, steeringVars, frameVars,
                 cruiseVars, lawVars>>
LaneMoves ==
  /\ focus = "lane_change" /\ LaneNext
  /\ UNCHANGED <<focus, latchVars, departureVars, steeringVars, frameVars,
                 cruiseVars, lawVars>>
SteeringMoves ==
  /\ focus = "steering" /\ AnySteerTick
  /\ UNCHANGED <<focus, latchVars, departureVars, laneVars, frameVars,
                 cruiseVars, lawVars>>
FrameMoves ==
  /\ focus = "lkas_frame" /\ SendLkas
  /\ UNCHANGED <<focus, latchVars, departureVars, laneVars, steeringVars,
                 cruiseVars, lawVars>>
CruiseMoves ==
  /\ focus = "cruise" /\ CruiseNext
  /\ UNCHANGED <<focus, latchVars, departureVars, laneVars, steeringVars,
                 frameVars, lawVars>>
LawMoves ==
  /\ focus = "law" /\ AnyLawTick
  /\ UNCHANGED <<focus, latchVars, departureVars, laneVars, steeringVars,
                 frameVars, cruiseVars>>

ControlNext ==
  \/ LatchMoves
  \/ DepartureMoves
  \/ LaneMoves
  \/ SteeringMoves
  \/ FrameMoves
  \/ CruiseMoves
  \/ LawMoves

(* The loop goes on and time passes, when it is engagement that moves. *)
ControlFairness ==
  /\ WF_latchVars(focus = "latch" /\ Elapse)
  /\ WF_latchVars(focus = "latch" /\ AnyTick)

ControlSpec == ControlInit /\ [][ControlNext]_controlVars /\ ControlFairness

-----------------------------------------------------------------------------

(* The inductive invariants of the components: engagement, the departure    *)
(* alerts, the lane change, the steering command, the cruise, and the        *)
(* torque law with its delayed setpoint, integrator and slip factor.         *)
ControlInv == LatchInv /\ DepartureInv /\ LaneInv /\ SteeringInv /\ CruiseInv /\ LawInv

(* A lane change ends in time, one cut off is not resumed by the blinker     *)
(* that started it, and none begins at once on the other side (LaneChange). *)
LaneChangesEnd == [](DesireEndsInTime /\ CutOffStaysOff) /\ NoSwerve

(* The steering command begins again at zero after a cut and never jumps     *)
(* the counter the car checks (Steering, LkasFrame's frame holds it).       *)
CommandIsSteady == CutBeginsAtZero /\ CounterKeepsStep /\ []FrameCarriesCommand

(* No button is pressed against the driver or beyond the ceiling, and none   *)
(* before the car had the time to answer the last SET- (AdaptiveCruise).    *)
CruiseIsPolite == []LeavesDriverAlone /\ SlowdownIsAwaited
=============================================================================
