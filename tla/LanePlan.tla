------------------------------ MODULE LanePlan ------------------------------
(***************************************************************************)
(* From the model's lane lines to the path that is planned along.  modeld  *)
(* gives every point of a lane line the time at which the plan reaches it  *)
(* (k230_fill_model_state, ipc_messages.cc); the planner of controlsd      *)
(* weighs the lines and reads them at the times of the plan's own points   *)
(* (LanePlanner, lateral_planner.cc).                                      *)
(*                                                                         *)
(* The model's grids are quadratic, so point i lies at i*i in units of the *)
(* grid, in x as in time.  A plan may be any sequence of distances: near a *)
(* stop a quantised one runs backwards and need not begin at the car.      *)
(* Times are in units of 1 / Scale, positions and probabilities small      *)
(* integers.                                                               *)
(***************************************************************************)
EXTENDS Integers

CONSTANTS
  LastPoint,       \* kTrajectorySize - 1
  Distances,  \* bound: where a point of a plan may lie
  Scale,      \* bound: precision of a time
  ProbTop,    \* a probability of 1
  ProbStep    \* kProbRatePerS * kDtModel

ASSUME LanePlanAssumption ==
  /\ LastPoint \in Nat \ {0} /\ Scale \in Nat \ {0}
  /\ 0 \in Distances /\ Distances \subseteq Int
  /\ ProbTop \in Nat \ {0} /\ ProbStep \in Nat \ {0}

VARIABLES
  plan,       \* x of the points of the plan
  lane_t,     \* lane_t of the state filled in, NaN where there is no time
  xidx, tidx, \* of the loop
  likely      \* left_prob_eff_, right_prob_eff_

fillVars == <<plan, lane_t, xidx, tidx>>
lanePlanVars == <<fillVars, likely>>

NaN == -1
Points == 0 .. LastPoint
Grid(i) == i * i   \* model_x_idx, model_t_idx
Plans == [Points -> Distances]

Clamp(x, lo, hi) == IF x < lo THEN lo ELSE IF x > hi THEN hi ELSE x

-----------------------------------------------------------------------------
(* modeld: the times of the lane points *)

NoTimes == [i \in Points |-> IF i = 0 THEN 0 ELSE NaN]

(* The share of a span that is covered, of Scale. *)
ShareUnclamped(covered, span) == IF span > 0 THEN (covered * Scale) \div span ELSE Scale
Share(covered, span) ==
  IF span > 0 THEN (Clamp(covered, 0, span) * Scale) \div span ELSE Scale

(* The time at which the plan is at x, between its points t and t + 1. *)
TimeBetween(t, x) ==
  Grid(t) * Scale + (Grid(t + 1) - Grid(t)) * Share(x - plan[t], plan[t + 1] - plan[t])

(* The point of the plan that the inner loop stops at. *)
StopsAt(t, x) ==
  /\ \A j \in tidx + 1 .. t : plan[j] < x
  /\ t < LastPoint => plan[t + 1] >= x

NewModelFrame ==
  /\ xidx > LastPoint
  /\ plan' \in Plans
  /\ lane_t' = NoTimes /\ xidx' = 1 /\ tidx' = 0

(* One turn of the loop; at the end of the plan it is left. *)
FillTime ==
  /\ xidx <= LastPoint
  /\ \E t \in tidx .. LastPoint :
       /\ StopsAt(t, Grid(xidx))
       /\ tidx' = t
       /\ lane_t' = [lane_t EXCEPT ![xidx] = IF t = LastPoint THEN Grid(LastPoint) * Scale
                                             ELSE TimeBetween(t, Grid(xidx))]
       /\ xidx' = IF t = LastPoint THEN LastPoint + 1 ELSE xidx + 1
  /\ UNCHANGED plan

-----------------------------------------------------------------------------
(* controlsd: the weight of the lanes and the path *)

(* update_probabilities(): what width and spread leave of a probability is *)
(* followed at a limited rate.                                             *)
Likely(left, right) ==
  [left |-> Clamp(left, likely.left - ProbStep, likely.left + ProbStep),
   right |-> Clamp(right, likely.right - ProbStep, likely.right + ProbStep)]

LaneWeight(l) == ProbTop * (l.left + l.right) - l.left * l.right   \* d_prob_, of ProbTop^2

(* interp() over the points that have a time: between the last one before  *)
(* and the first one at or after the time asked for.                       *)
Timed == {i \in Points : lane_t[i] # NaN}
ReadAt(time, y) ==
  IF time <= lane_t[0] THEN y[0]
  ELSE IF \A i \in Timed : lane_t[i] < time
  THEN LET end == CHOOSE i \in Timed : i + 1 \notin Timed IN y[end]
  ELSE LET i == CHOOSE k \in Timed : lane_t[k] >= time /\ \A j \in Timed : j < k => lane_t[j] < time
           span == lane_t[i] - lane_t[i - 1]
       IN  y[i - 1] + ((time - lane_t[i - 1]) * (y[i] - y[i - 1])) \div span

(* lane_path(): plan and lane, by the weight of the lane. *)
Blended(weight, lane, own) ==
  LET whole == ProbTop * ProbTop
  IN  (weight * lane + (whole - weight) * own) \div whole

(* The lateral positions: the lane moves away by one unit at every point,  *)
(* the plan goes straight on.                                              *)
MiddleOfLane == [i \in Points |-> Scale * i]
LaneAt(i) == ReadAt(Grid(i) * Scale, MiddleOfLane)
PathAt(i) == Blended(LaneWeight(likely), LaneAt(i), 0)

(* update(), as far as the lateral positions of the path. *)
PlanPath(left, right) ==
  /\ xidx > LastPoint
  /\ likely' = Likely(left, right)
  /\ UNCHANGED fillVars

LanePlanInit ==
  /\ plan = [i \in Points |-> 0] /\ lane_t = NoTimes /\ xidx = 1 /\ tidx = 0
  /\ likely = [left |-> 0, right |-> 0]

ModelFrame == (NewModelFrame \/ FillTime) /\ UNCHANGED likely
AnyPlanPath == \E left, right \in 0 .. ProbTop : PlanPath(left, right)
LanePlanNext == ModelFrame \/ AnyPlanPath
LanePlanSpec == LanePlanInit /\ [][LanePlanNext]_lanePlanVars

-----------------------------------------------------------------------------
(* Properties *)

Times == 0 .. Grid(LastPoint) * Scale

(* Every variable keeps its type. *)
LanePlanTypeOK ==
  /\ plan \in Plans
  /\ lane_t \in [Points -> Times \cup {NaN}]
  /\ xidx \in 1 .. LastPoint + 1 /\ tidx \in Points
  /\ likely \in [left : 0 .. ProbTop, right : 0 .. ProbTop]

(* The times of a lane never fall and have no gap, also where the plan      *)
(* itself runs backwards (the comment at the loop: they stay monotone).     *)
LaneTimesRise ==
  /\ lane_t[0] = 0
  /\ \A i, j \in Points :
       i <= j /\ lane_t[j] # NaN => lane_t[i] # NaN /\ lane_t[i] <= lane_t[j]

(* While a plan begins at the car and does not run backwards, its path reads *)
(* the lane where the plan will be: between the two points around it.       *)
Rises == plan[0] = 0 /\ \A i, j \in Points : i <= j => plan[i] <= plan[j]
LaneIsReadAhead ==
  xidx > LastPoint /\ Rises =>
    \A i, j \in Points :
      j < LastPoint /\ Grid(j) <= plan[i] /\ plan[i] < Grid(j + 1) =>
        LaneAt(i) \in MiddleOfLane[j] .. MiddleOfLane[j + 1]

(* The path runs between the plan's own and the lane's, with any weight and *)
(* any plan.                                                                *)
PathIsBetween ==
  xidx > LastPoint => \A i \in Points : LaneAt(i) \in 0 .. LastPoint * Scale /\ PathAt(i) \in 0 .. LaneAt(i)

(* The parts that make these inductive: the loop has filled the points      *)
(* before its own, and the time of its last one is not behind the point of   *)
(* the plan that it has come to,                                            *)
FillingLoop ==
  xidx <= LastPoint =>
    /\ tidx < LastPoint /\ (plan[0] = 0 => plan[tidx] < Grid(xidx))
    /\ \A i \in Points : lane_t[i] # NaN <=> i < xidx
    /\ lane_t[xidx - 1] <= TimeBetween(tidx, Grid(xidx - 1))

(* and a plan from the car that does not run backwards passes a point of the *)
(* lane at the time of that point, or never where there is none.            *)
PassesAtItsTime ==
  Rises =>
    \A k, i \in Points :
      /\ k \in Timed => /\ plan[i] < Grid(k) => lane_t[k] >= Grid(i) * Scale
                        /\ plan[i] >= Grid(k) => lane_t[k] <= Grid(i) * Scale
                        /\ plan[i] > Grid(k) => lane_t[k] < Grid(i) * Scale
      /\ k \notin Timed /\ xidx > LastPoint => plan[i] < Grid(k)

FillInv == LanePlanTypeOK /\ LaneTimesRise /\ FillingLoop /\ PassesAtItsTime
LanePlanInv == FillInv /\ LaneIsReadAhead /\ PathIsBetween
=============================================================================
