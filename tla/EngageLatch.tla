---------------------------- MODULE EngageLatch ----------------------------
(***************************************************************************)
(* The engage state machine of LateralController::update() together with   *)
(* EngageEvents (k230_controlsd.cc): when the SET/CANCEL buttons, the      *)
(* vehicle's faults, the two holds and the clock engage steering, keep it  *)
(* waiting, reject it or end it, and what the driver is told about it.     *)
(*                                                                         *)
(* A tick is one call of update(), with everything it reads chosen freely: *)
(* the driver, the vehicle, Panda and the model share no clock with the    *)
(* loop.  Torque, curvature and frame contents are left out; what they     *)
(* depend on here is `active`, `steer_hold` and `sending`.  force_engaged  *)
(* (offline replay) is FALSE and zero_release_when_inactive is TRUE.       *)
(***************************************************************************)
EXTENDS Naturals

CONSTANTS
  Faults,        \* block reasons of the vehicle and the planner that may stand
  EngageGrace,   \* kPandaEngageGraceS
  PathDebounce,  \* the 0.5 s a recovered path must stay usable
  ReleaseTime    \* driving_params.inactive_release_ms

(* The order that asks for Panda before the vehicle's faults. *)
RankPandaFirst ==
  [not_engaged |-> 1, panda_not_ready |-> 2, panda_controls_off |-> 3,
   controller_disabled |-> 4, seeds_missing |-> 5,
   vehicle_state_stale |-> 6, speed_invalid |-> 7, door_open |-> 8,
   seatbelt_unlatched |-> 9, esp_disabled |-> 10, park_brake |-> 11,
   brake_error |-> 12, gear_not_drive |-> 13, mdps_fault |-> 14, paramsd_invalid |-> 15,
   esp_stale |-> 16, yaw_rate_invalid |-> 17, stopped |-> 18, path_invalid |-> 19,
   lateral_plan_invalid |-> 20, lateral_plan_stale |-> 21]

(* The order in which active_block_reason() looks for a reason. *)
Rank == [not_engaged |-> 1, controller_disabled |-> 2, seeds_missing |-> 3,
         vehicle_state_stale |-> 4, speed_invalid |-> 5, door_open |-> 6,
         seatbelt_unlatched |-> 7, esp_disabled |-> 8, park_brake |-> 9,
         brake_error |-> 10, gear_not_drive |-> 11, mdps_fault |-> 12,
         paramsd_invalid |-> 13, panda_not_ready |-> 14, panda_controls_off |-> 15,
         esp_stale |-> 16, yaw_rate_invalid |-> 17, stopped |-> 18, path_invalid |-> 19,
         lateral_plan_invalid |-> 20, lateral_plan_stale |-> 21]

BlockReasons == DOMAIN Rank

(* The kinds of control_block.h; every other reason is a Reject. *)
Hard == {"controller_disabled", "door_open", "seatbelt_unlatched", "esp_disabled", "park_brake",
         "brake_error", "gear_not_drive", "mdps_fault", "paramsd_invalid"}
Transient == {"panda_not_ready", "panda_controls_off"}
Availability == {"stopped", "path_invalid"}
Reject == BlockReasons \ (Hard \cup Transient \cup Availability)

(* Reasons a tick works out by itself rather than reads. *)
Computed == Transient \cup Availability \cup {"not_engaged"}

ASSUME LatchAssumption ==
  /\ Faults \subseteq BlockReasons \ Computed
  /\ EngageGrace \in Nat \ {0} /\ PathDebounce \in Nat \ {0} /\ ReleaseTime \in Nat

Buttons == {"none", "set", "cancel", "other"}

VARIABLES
  engaged, last_button,             \* engaged_, last_button_
  pending, pending_age,             \* panda_engage_pending_ and its age
  path_debounced, path_seen_invalid, path_age,   \* the path debounce
  release_age,                      \* age of last_disengage_s_
  active, block, steer_hold, sending,   \* the result of the last tick
  told,                             \* the last event EngageEvents advanced an id for
  unbroken_age,                     \* history: age of the last unusable path a tick read
  hard_seen                         \* history: the last tick read a hard fault and
                                    \* nothing that makes the vehicle's data moot

latch == <<engaged, last_button, pending, pending_age>>
debounce == <<path_debounced, path_seen_invalid, path_age>>
result == <<active, block, steer_hold, sending, told>>
latchVars == <<latch, debounce, release_age, result, unbroken_age, hard_seen>>

OlderWithoutEnd(age, cap) == age + 1

Older(age, cap) == IF age < cap THEN age + 1 ELSE age
NotUsable == PathDebounce + 1   \* path_valid_since_s_ < 0

LatchInit ==
  /\ engaged = FALSE /\ last_button = "none"
  /\ pending = FALSE /\ pending_age = EngageGrace
  /\ path_debounced = FALSE /\ path_seen_invalid = FALSE /\ path_age = NotUsable
  /\ release_age = ReleaseTime
  /\ active = FALSE /\ block = "not_engaged" /\ steer_hold = FALSE
  /\ sending = FALSE /\ told = "nothing"
  /\ unbroken_age = PathDebounce /\ hard_seen = FALSE

-----------------------------------------------------------------------------
(* update() *)

(* A release of SET into another button, a bug the code avoids. *)
SetLeft(button) == last_button = "set" /\ button # "set"

SetReleased(button) == last_button = "set" /\ button = "none"
Cancelled(button) == button = "cancel" /\ last_button # "cancel"

(* engaged_ after update_button_state(). *)
Latched(button) == (engaged /\ ~Cancelled(button)) \/ SetReleased(button)

(* engage_requested *)
Asked(button) == SetReleased(button) /\ ~engaged

Debounced(usable, age) ==
  /\ usable
  /\ \/ path_debounced
     \/ ~path_seen_invalid
     \/ age >= PathDebounce /\ age # NotUsable

DebouncePath(usable) ==
  /\ path_seen_invalid' = (path_seen_invalid \/ ~usable)
  /\ path_age' = IF ~usable THEN NotUsable
                 ELSE IF ~path_debounced /\ path_age = NotUsable THEN 0
                 ELSE path_age
  /\ path_debounced' = Debounced(usable, path_age')

(* Everything that stands against steering at this tick. *)
Standing(logical, faults, ready, allowed, slow) ==
  faults \cup
  (IF logical THEN {} ELSE {"not_engaged"}) \cup
  (IF ready THEN {} ELSE {"panda_not_ready"}) \cup
  (IF allowed THEN {} ELSE {"panda_controls_off"}) \cup
  (IF path_debounced' THEN {} ELSE IF slow THEN {"stopped"} ELSE {"path_invalid"})

(* active_block_reason(): the first of them in order. *)
FirstOf(standing) ==
  IF standing = {} THEN "none"
  ELSE CHOOSE r \in standing : \A s \in standing : Rank[r] <= Rank[s]

(* A hard fault found while engaged, or by the request itself. *)
Broken(button, reason) == Latched(button) /\ reason \in Hard

Refused(button, reason) == Asked(button) /\ reason \in Hard \cup Reject

(* panda_engage_pending_ before the wait is judged, and its age. *)
Waiting(button, reason) ==
  /\ ~Broken(button, reason)
  /\ IF Asked(button) THEN reason \in Transient ELSE pending /\ ~Cancelled(button)

Waited(button) == IF Asked(button) THEN 0 ELSE pending_age

LateByOne(button, reason) ==
  /\ Waiting(button, reason)
  /\ reason \notin Availability \cup {"none"}
  /\ reason \notin Transient \/ Waited(button) > EngageGrace

(* The wait ends in a rejection. *)
Late(button, reason) ==
  /\ Waiting(button, reason)
  /\ reason \notin Availability \cup {"none"}
  /\ reason \notin Transient \/ Waited(button) >= EngageGrace

(* EngageEvents::update(), `rejected` being engage_rejected. *)
TellSteering(rejected) ==
  told' = IF rejected THEN "reject"
          ELSE IF active' = active THEN told
          ELSE IF active' THEN "engage" ELSE "disengage"

Tell(rejected) ==
  told' = IF rejected THEN "reject"
          ELSE IF engaged' = engaged THEN told
          ELSE IF engaged' THEN "engage" ELSE "disengage"

(* What a tick that found `reason` does. *)
Decide(button, reason) ==
  LET broken == Broken(button, reason)
      refused == Refused(button, reason)
      late == Late(button, reason)
  IN
  /\ engaged' = (Latched(button) /\ ~broken /\ ~refused /\ ~late)
  /\ pending' = (Waiting(button, reason) /\ ~late /\ reason \in Transient)
  /\ pending_age' = IF pending' THEN Waited(button) ELSE EngageGrace
  /\ active' = (reason = "none")
  /\ block' = reason
  /\ steer_hold' = (Latched(button) /\ reason \in Availability \cup {"lateral_plan_invalid"})
  /\ release_age' = IF Cancelled(button) \/ broken \/ refused \/ late THEN 0 ELSE release_age
  /\ Tell(refused \/ late)

(* should_send: steering, or the zero-torque frames around it. *)
Send(faults) ==
  sending' = ("seeds_missing" \notin faults /\
              (active' \/ engaged' \/ release_age' < ReleaseTime))

Unjudgeable == {"seeds_missing", "vehicle_state_stale", "speed_invalid"}

Tick(button, faults, ready, allowed, usable, slow) ==
  /\ DebouncePath(usable)
  /\ \E reason \in {FirstOf(Standing(Latched(button), faults, ready, allowed, slow))} :
       Decide(button, reason)
  /\ Send(faults)
  /\ last_button' = button
  /\ unbroken_age' = IF usable THEN unbroken_age ELSE 0
  /\ hard_seen' = (faults \cap Hard # {} /\ faults \cap Unjudgeable = {})

Elapse ==
  /\ pending_age' = Older(pending_age, EngageGrace)
  /\ path_age' = IF path_age = NotUsable THEN NotUsable ELSE Older(path_age, PathDebounce)
  /\ release_age' = Older(release_age, ReleaseTime)
  /\ unbroken_age' = Older(unbroken_age, PathDebounce)
  /\ UNCHANGED <<engaged, last_button, pending, path_debounced, path_seen_invalid,
                 active, block, steer_hold, sending, told, hard_seen>>

(* A Panda that is not ready is never taken to allow control (control_holds.cc). *)
AnyTick ==
  \E button \in Buttons, faults \in SUBSET Faults, ready, allowed, usable, slow \in BOOLEAN :
    /\ allowed => ready
    /\ Tick(button, faults, ready, allowed, usable, slow)

LatchNext == Elapse \/ AnyTick

LatchSpec == LatchInit /\ [][LatchNext]_latchVars

(* The 100 Hz loop keeps running and time keeps passing. *)
LatchFairSpec == LatchSpec /\ WF_latchVars(Elapse) /\ WF_latchVars(AnyTick)

-----------------------------------------------------------------------------
(* Properties *)

Events == {"nothing", "engage", "disengage", "reject"}

(* The type invariant of the controller and of what it reported. *)
LatchTypeOK ==
  /\ engaged \in BOOLEAN /\ last_button \in Buttons
  /\ pending \in BOOLEAN /\ pending_age \in 0 .. EngageGrace
  /\ path_debounced \in BOOLEAN /\ path_seen_invalid \in BOOLEAN
  /\ path_age \in 0 .. NotUsable /\ release_age \in 0 .. ReleaseTime
  /\ active \in BOOLEAN /\ block \in BlockReasons \cup {"none"}
  /\ steer_hold \in BOOLEAN /\ sending \in BOOLEAN /\ told \in Events
  /\ unbroken_age \in 0 .. PathDebounce /\ hard_seen \in BOOLEAN

(* A vehicle fault the tick can judge ends engagement in that very tick,   *)
(* whatever Panda, the path or the planner say and also while a request    *)
(* waits for Panda (control_block.h: Hard "releases at once";              *)
(* lateral_controller.cc: a fault must not hide behind a transient reason).*)
HardFaultEnds == hard_seen => ~engaged /\ ~active /\ ~pending

(* Torque needs engagement and no block reason at all, and a request that  *)
(* still waits for Panda is engaged but steers nothing.                    *)
SteersOnlyEngaged ==
  /\ active => engaged /\ ~pending /\ block = "none"
  /\ pending => engaged /\ block \in Transient

(* Engagement begins only when SET is released, and a waiting request that *)
(* was refused, cancelled or timed out never comes back by itself          *)
(* (lateral_controller.cc: "does not engage silently once the gate         *)
(* clears").                                                               *)
EngagesOnlyOnSet ==
  [][/\ ~engaged /\ engaged' => last_button = "set" /\ last_button' = "none"
     /\ ~pending /\ pending' => ~engaged /\ engaged']_latchVars

(* What the driver was told last is what holds: after `engage` control is  *)
(* engaged, after `disengage` or `reject` it is not, through every mix of  *)
(* requests, waits, rejections and faults.                                 *)
DriverKnows == engaged <=> told = "engage"

(* Once the path has been interrupted, steering means that no tick of the  *)
(* whole debounce time has read an unusable path (gtest_control_      *)
(* replay.cc, PathFlickerDebounce: a flickering path must not reactivate). *)
SteersOnSteadyPath ==
  active /\ path_seen_invalid => unbroken_age = PathDebounce

(* The inductive invariant: besides the above, steering means a debounced   *)
(* path, and one that was interrupted has been usable long enough.         *)
LatchInv ==
  /\ LatchTypeOK /\ SteersOnlyEngaged /\ HardFaultEnds /\ DriverKnows
  /\ active => path_debounced
  /\ path_debounced /\ path_seen_invalid => path_age = PathDebounce
  /\ path_age # NotUsable => path_age <= unbroken_age

(* A waiting request is answered: Panda's consent keeps it, and otherwise  *)
(* it is rejected or ended once the grace is over.                         *)
RequestIsAnswered == pending ~> ~pending

(* The claim of departure-alerts.md: while a request waits for Panda       *)
(* nothing is announced; consent announces `engage` once and its absence   *)
(* is announced as UNABLE.  The code announces `engage` when the wait      *)
(* begins.                                                                 *)
WaitIsSilent == pending => told # "engage"
=============================================================================
