----------------------------- MODULE LaneChange -----------------------------
(***************************************************************************)
(* What LateralPlanner (lateral_planner.cc) keeps from one plan to the     *)
(* next: the lane change that a blinker arms, the driver's torque begins   *)
(* and the model's picture ends; the choice between the lanes and the      *)
(* model's own path with its blend; and the count of unusable solutions.   *)
(*                                                                         *)
(* A plan is one call of update(), one per model frame.  Left is -1 and    *)
(* right is 1; probabilities and times are whole steps.                    *)
(***************************************************************************)
EXTENDS Integers

CONSTANTS
  FadeSteps,      \* steps of lane_change_lane_prob from 1 to 0
  ChangeTimeout,  \* frames of a lane change until it is given up: 10 s
  SettleFrames,   \* frames in which a large output does not end it: 0.5 s
  MixSteps        \* steps of plan_mix from 0 to 1

ASSUME LaneAssumption ==
  /\ {FadeSteps, ChangeTimeout, SettleFrames, MixSteps} \subseteq Nat \ {0}
  /\ SettleFrames < ChangeTimeout

Sides == {-1, 1}

VARIABLES
  lane,         \* the fields of update_lane_change()
  route,        \* laneless_buffer, plan_mix
  failures,     \* invalid_count, up to 2
  solution,     \* mpc_solution_valid of the last target
  lane_input,   \* the input of the last plan that properties speak of
  cancelled     \* history: a change was cut off, and neither blinker nor edge moved since

laneVars == <<lane, route, failures, solution, lane_input, cancelled>>

(* lane_change_state *)
Off == 0
PreChange == 1
Changing == 2
Finishing == 3

Change(phase, side) ==
  IF phase < Changing THEN "none" ELSE IF side = -1 THEN "left" ELSE IF side = 1 THEN "right" ELSE "none"
Desire == Change(lane.state, lane.side)

LaneInit ==
  /\ lane = [state |-> Off, side |-> 0, blinked |-> FALSE, prob |-> FadeSteps, timer |-> 0]
  /\ route = [buffer |-> FALSE, mix |-> MixSteps]
  /\ failures = 0 /\ solution = FALSE
  /\ lane_input = [slow |-> FALSE, valid |-> FALSE] /\ cancelled = FALSE

-----------------------------------------------------------------------------
(* update_lane_change() *)

(* The vehicle, the controller and the model, as the planner reads them.   *)
LaneInputs ==
  [blinkers : SUBSET Sides, slow : BOOLEAN, active : BOOLEAN, large_output : BOOLEAN,
   torque : {-1, 0, 1},        \* the side the driver steers to, beyond the threshold
   blindspot : {0} \cup Sides, \* occupied
   edge : {0} \cup Sides,      \* road_edge
   done : BOOLEAN]             \* the model sees the change as over

OneBlinker(in) == in.blinkers \in {{-1}, {1}}

(* The side of the blinker, the left one first in lane_direction and the   *)
(* right one in direction_now; without a blinker the last side is kept.    *)
EdgeBlocks(in) ==
  /\ lane.state = Off
  /\ \/ in.edge = -1 /\ -1 \in in.blinkers
     \/ in.edge = 1 /\ in.blinkers = {1}

SideNow(in) == IF 1 \in in.blinkers THEN 1 ELSE IF -1 \in in.blinkers THEN -1 ELSE lane.side

CutOff(in) ==
  ~in.active \/ lane.timer > ChangeTimeout \/ (in.large_output /\ lane.timer > SettleFrames)

TorqueApplied(in) == lane.side # 0 /\ in.torque = lane.side
Blindspot(in) == lane.side # 0 /\ in.blindspot = lane.side
Less(prob, fade) == IF prob > fade THEN prob - fade ELSE 0

(* The state, the side and the lanes' probability after the frame. *)
Now(phase, side, prob) == [lane EXCEPT !.state = phase, !.side = side, !.prob = prob]

Advanced(in, fade) ==
  CASE lane.state = Off ->
         IF OneBlinker(in) /\ ~lane.blinked /\ ~in.slow
         THEN Now(PreChange, SideNow(in), FadeSteps)
         ELSE Now(Off, lane.side, lane.prob)
    [] lane.state = PreChange ->
         IF ~OneBlinker(in) \/ in.slow THEN Now(Off, lane.side, lane.prob)
         ELSE IF ~Blindspot(in) /\ TorqueApplied(in) THEN Now(Changing, lane.side, lane.prob)
         ELSE Now(PreChange, lane.side, lane.prob)
    [] lane.state = Changing ->
         LET faded == Less(lane.prob, fade)
         IN  Now(IF in.done /\ faded = 0 THEN Finishing ELSE Changing, lane.side, faded)
    [] lane.state = Finishing ->
         IF lane.prob + 2 < FadeSteps THEN Now(Finishing, lane.side, lane.prob + 2)
         ELSE IF OneBlinker(in) THEN Now(PreChange, lane.side, FadeSteps)
         ELSE Now(Off, 0, FadeSteps)

Stepped(in, fade) ==
  IF EdgeBlocks(in) THEN Now(Off, 0, lane.prob)
  ELSE IF CutOff(in) THEN Now(Off, 0, lane.prob)
  ELSE Advanced(in, fade)

Timer(phase) == IF phase < Changing THEN 0 ELSE lane.timer + 1

BlinkedUnlessCut(in) == OneBlinker(in) /\ ~EdgeBlocks(in) /\ ~CutOff(in)
Blinked(in) == OneBlinker(in) /\ ~EdgeBlocks(in)

LaneChanged(in, fade) ==
  LET next == Stepped(in, fade)
  IN [next EXCEPT !.timer = Timer(next.state), !.blinked = Blinked(in)]

-----------------------------------------------------------------------------
(* update() *)

(* Which path is used: the model's own when the lanes are poor, with a     *)
(* band against chattering; the lanes during a lane change.                *)
UsesModelPath(laneless, probability, phase) ==
  \/ laneless
  \/ phase = Off /\ (probability = "low" \/ (probability = "between" /\ route.buffer))

Buffer(laneless, probability, phase) ==
  ~laneless /\ UsesModelPath(FALSE, probability, phase)

(* plan_mix follows at its own rate, twice as fast back to the lanes.      *)
Mix(model_path) ==
  IF model_path THEN (IF route.mix < MixSteps THEN route.mix + 1 ELSE MixSteps)
  ELSE Less(route.mix, 2)

(* A solver that fails is reset and starts at the measured curvature; two  *)
(* bad solutions in a row make the target invalid.                         *)
FailureCount(bad) == IF ~bad THEN 0 ELSE IF failures = 2 THEN 2 ELSE failures + 1

Plan(in, fade, laneless, probability, bad) ==
  /\ lane' = LaneChanged(in, fade)
  /\ route' = [buffer |-> Buffer(laneless, probability, lane'.state),
               mix |-> Mix(UsesModelPath(laneless, probability, lane'.state))]
  /\ failures' = FailureCount(bad) /\ solution' = (failures' < 2)
  /\ lane_input' = [slow |-> in.slow, valid |-> TRUE]
  /\ cancelled' = (\/ ~EdgeBlocks(in) /\ CutOff(in) /\ lane.state >= Changing
                   \/ cancelled) /\ OneBlinker(in) /\ ~EdgeBlocks(in)

(* A model that is not valid gives an invalid target and changes nothing.  *)
NoPlan ==
  /\ lane_input' = [slow |-> FALSE, valid |-> FALSE]
  /\ UNCHANGED <<lane, route, failures, solution, cancelled>>

(* What no branch reads in the present state stays at its default.         *)
Relevant(in, fade) ==
  /\ lane.state # PreChange => in.torque = 0 /\ in.blindspot = 0
  /\ lane.state # Off => in.edge = 0
  /\ lane.state # Changing => ~in.done /\ fade = 1

AnyPlan ==
  \E in \in LaneInputs, fade \in 1 .. 2 :
    /\ Relevant(in, fade)
    /\ \E laneless, bad \in BOOLEAN, probability \in {"low", "between", "high"} :
         Plan(in, fade, laneless, probability, bad)

LaneNext == AnyPlan \/ NoPlan
LaneSpec == LaneInit /\ [][LaneNext]_laneVars

-----------------------------------------------------------------------------

LaneTypeOK ==
  /\ lane \in [state : Off .. Finishing, side : {-1, 0, 1}, blinked : BOOLEAN,
               prob : 0 .. FadeSteps, timer : 0 .. ChangeTimeout + 2]
  /\ route \in [buffer : BOOLEAN, mix : 0 .. MixSteps]
  /\ failures \in 0 .. 2 /\ solution \in BOOLEAN /\ cancelled \in BOOLEAN

(* The desire given to the model ends: however blinkers, lanes and driver  *)
(* behave, no change is asked for longer than its timeout, and none is     *)
(* asked for without a side.                                               *)
DesireEndsInTime ==
  /\ lane.timer <= ChangeTimeout + 1
  /\ lane.state >= Changing => Desire # "none" /\ lane.timer >= 1

(* A change that was cut off while it ran is not taken up again under the  *)
(* same blinker.                                                           *)
CutOffStaysOff == cancelled => lane.state = Off

(* The inductive invariant: a cut-off change is not taken up because the    *)
(* blinker that began it is not new.                                        *)
LaneInv == LaneTypeOK /\ DesireEndsInTime /\ (cancelled => lane.state = Off /\ lane.blinked)

(* One change does not turn into the opposite one.                         *)
NoSwerve == [][Desire # "none" => Desire' \in {Desire, "none"}]_laneVars
=============================================================================
