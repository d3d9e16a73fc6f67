--------------------------- MODULE DepartureAlert ---------------------------
(***************************************************************************)
(* DepartureAlertDetector (departure_alert.cc): while the car stands, it   *)
(* waits for the lead to leave or for the model's plan to open, and tells  *)
(* the driver once.  The two triggers share one `consumed` mark; each has  *)
(* timers that some ticks leave alone, because the model runs slower than  *)
(* the control loop and its frames come late or not at all.                *)
(*                                                                         *)
(* A tick is one call of update(); times are ages (-1: not running), moved *)
(* by DepartureElapse.                                                     *)
(***************************************************************************)
EXTENDS Integers

CONSTANTS
  MinimumStop, LeadArm, LeadConfirm,   \* kMinimumStopTimeS, kLeadArmTimeS, kLeadConfirmTimeS
  SignalStop, GreenConfirm,            \* kTrafficSignalDisplayStopTimeS, kGreenLightConfirmTimeS
  AlertDisplay                         \* kAlertDisplayTimeS

ASSUME DepartureAssumption ==
  {MinimumStop, LeadArm, LeadConfirm, SignalStop, GreenConfirm, AlertDisplay} \subseteq Nat

VARIABLES
  dep,          \* the fields of the detector
  dep_fired,    \* the alert for which the last tick advanced event_id_, or "none"
  dep_history   \* for how long the car has stood, and the alerts since it last moved

departureVars == <<dep, dep_fired, dep_history>>

NotRunning == -1
StoodFor == [lead |-> MinimumStop + LeadArm + LeadConfirm, green |-> SignalStop + GreenConfirm]
StopCap == IF StoodFor.lead >= StoodFor.green THEN StoodFor.lead ELSE StoodFor.green

(* reset_lead(), reset_green_light() and reset_cycle(), which leaves what   *)
(* the driver was told and since when the car stands to its caller.        *)
LeadReset(d) ==
  [d EXCEPT !.seen = NotRunning, !.leaving = NotRunning, !.lead_armed = FALSE]
GreenReset(d) == [d EXCEPT !.opening = NotRunning, !.green_armed = FALSE]
CycleReset(d, consumed, stopped) ==
  [GreenReset(LeadReset(d)) EXCEPT !.consumed = consumed, !.stopped = stopped]

DepartureInit ==
  /\ dep = [consumed |-> FALSE, stopped |-> NotRunning, seen |-> NotRunning,
            leaving |-> NotRunning, lead_armed |-> FALSE, opening |-> NotRunning,
            green_armed |-> FALSE, type |-> "none", shown |-> 0]
  /\ dep_fired = "none"
  /\ dep_history = [stood |-> NotRunning, alerts |-> 0]

-----------------------------------------------------------------------------

Since(age) == IF age = NotRunning THEN 0 ELSE age

Timed(d) == IF d.shown = 0 THEN [d EXCEPT !.type = "none"] ELSE d

MovedKeepingTimers(d, motion) ==
  CASE motion = "reset" -> [d EXCEPT !.consumed = FALSE, !.stopped = NotRunning]
    [] motion = "stand" -> [d EXCEPT !.stopped = Since(d.stopped)]
    [] OTHER -> CycleReset(d, d.consumed, NotRunning)

(* motion: "reset" (moving, pedal, gear or a stale vehicle), "creep", "stand" *)
Moved(d, motion) ==
  CASE motion = "reset" -> CycleReset(d, FALSE, NotRunning)
    [] motion = "stand" -> [d EXCEPT !.stopped = Since(d.stopped)]
    [] OTHER -> CycleReset(d, d.consumed, NotRunning)

(* The lead: absent, in sight, or further away than it was and leaving. *)
LeadWatched(d, updated, lead) ==
  LET seen == Since(d.seen)
      armed == seen >= LeadArm
  IN
  IF lead = "absent" THEN LeadReset(d)
  ELSE IF ~(updated /\ d.stopped >= MinimumStop) THEN d
  ELSE [d EXCEPT !.seen = seen, !.lead_armed = armed,
                 !.leaving = IF armed /\ lead = "leaving" THEN Since(d.leaving)
                             ELSE NotRunning]

(* The plan: ends at the stop, opens, or neither. *)
PlanWatched(d, updated, plan) ==
  LET armed == d.green_armed \/ (plan = "stopped" /\ d.stopped >= SignalStop) IN
  IF ~updated THEN d
  ELSE [d EXCEPT !.green_armed = armed,
                 !.opening = IF armed /\ plan = "open" THEN Since(d.opening) ELSE NotRunning]

(* A candidate counts in a tick that looked at it. *)
Departed(d, updated, lead) ==
  updated /\ lead # "absent" /\ d.leaving # NotRunning /\ d.leaving >= LeadConfirm
Opened(d, updated) == updated /\ d.opening # NotRunning /\ d.opening >= GreenConfirm

(* trigger() *)
Triggered(d, type) ==
  [CycleReset(d, TRUE, d.stopped) EXCEPT !.type = type, !.shown = AlertDisplay]

DepartureTick(motion, updated, valid, lead, plan) ==
  LET moved == Moved(Timed(dep), motion)
      watching == moved.stopped # NotRunning /\ ~moved.consumed
      watched == PlanWatched(LeadWatched(moved, updated, lead), updated /\ valid, plan)
      alert == IF ~watching THEN "none"
               ELSE IF Departed(watched, updated, lead) THEN "lead"
               ELSE IF Opened(watched, updated /\ valid) THEN "green"
               ELSE "none"
  IN
  /\ dep' = IF alert # "none" THEN Triggered(watched, alert)
            ELSE IF watching THEN watched ELSE moved
  /\ dep_fired' = alert
  /\ dep_history' =
       [stood |-> IF motion = "stand" THEN Since(dep_history.stood) ELSE NotRunning,
        alerts |-> (IF motion = "reset" THEN 0 ELSE dep_history.alerts)
                   + (IF alert = "none" THEN 0 ELSE 1)]

(* DepartureAlertInput, as far as update() tells its values apart; a lead is *)
(* valid only from a fresh model (observe_vision_lead).                       *)
Inputs ==
  {in \in [motion : {"reset", "creep", "stand"}, updated : BOOLEAN, valid : BOOLEAN,
           lead : {"absent", "present", "leaving"}, plan : {"stopped", "open", "between"}] :
     ~in.valid => in.lead = "absent" /\ in.plan = "between"}

AnyDepartureTick ==
  \E in \in Inputs : DepartureTick(in.motion, in.updated, in.valid, in.lead, in.plan)

Later(age) == IF age = NotRunning \/ age = StopCap THEN age ELSE age + 1

DepartureElapse ==
  /\ dep' = [dep EXCEPT !.stopped = Later(@), !.seen = Later(@), !.leaving = Later(@),
                        !.opening = Later(@), !.shown = IF @ = 0 THEN 0 ELSE @ - 1]
  /\ dep_history' = [dep_history EXCEPT !.stood = Later(@)]
  /\ UNCHANGED dep_fired

DepartureNext == AnyDepartureTick \/ DepartureElapse
DepartureSpec == DepartureInit /\ [][DepartureNext]_departureVars

-----------------------------------------------------------------------------
(* Properties *)

Ages == NotRunning .. StopCap
Detectors ==
  [consumed : BOOLEAN, stopped : Ages, seen : Ages, leaving : Ages, lead_armed : BOOLEAN,
   opening : Ages, green_armed : BOOLEAN, type : {"none", "lead", "green"},
   shown : 0 .. AlertDisplay]

(* Every variable keeps its type. *)
DepartureTypeOK ==
  /\ dep \in Detectors
  /\ dep_fired \in {"none", "lead", "green"}
  /\ dep_history \in [stood : Ages, alerts : Nat]

(* A timer that waits for another began when that one had run its time; at  *)
(* the cap of the ages the two can no longer be told apart.                 *)
Follows(age, first, wait) ==
  age # NotRunning => first # NotRunning /\ (first = StopCap \/ first >= age + wait)

(* The lead is watched in a stop, and leaves once it was armed; the plan    *)
(* opens after it was armed, in the stop it was armed in.                   *)
TimersFollow(d) ==
  /\ Follows(d.seen, d.stopped, MinimumStop)
  /\ Follows(d.leaving, d.seen, LeadArm)
  /\ d.green_armed => d.stopped >= SignalStop
  /\ Follows(d.opening, d.stopped, SignalStop)

(* A stop is alerted at most once, by whichever trigger comes first, and   *)
(* only when the car has stood without interruption for as long as that    *)
(* trigger needs: to arm, and then to confirm (departure-alerts.md).       *)
StopAlertedOnce ==
  /\ dep_history.alerts <= 1
  /\ dep_fired # "none" => dep_history.stood >= StoodFor[dep_fired]

(* The detector's stop is the real one, and an alert marks it as consumed.  *)
DepartureInv ==
  /\ DepartureTypeOK /\ StopAlertedOnce
  /\ TimersFollow(dep)
  /\ Follows(dep.stopped, dep_history.stood, 0)
  /\ ~dep.consumed => dep_history.alerts = 0
=============================================================================
