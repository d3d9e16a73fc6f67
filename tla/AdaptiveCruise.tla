--------------------------- MODULE AdaptiveCruise ---------------------------
(***************************************************************************)
(* AdaptiveCruiseController (adaptive_cruise.cc): the vision cruise, which *)
(* presses SET- and RES+ for the driver.  The car does not report its set  *)
(* speed, so the controller adds up its own pulses (`commanded`) under a   *)
(* ceiling (`maximum`), and measures again after the driver or a mismatch. *)
(*                                                                         *)
(* One tick is one call of update().  Its stages are operators from        *)
(* the controller's state to its next, composed in the order of update().  *)
(* Speeds are counted in display steps above 0, the slowest settable one   *)
(* being 1; what the lead asks for, whether the cluster stands steady and  *)
(* whether the speeds and their scale are known are inputs.  Times are     *)
(* ages or remaining times that CruiseElapse moves, and Never is -1.       *)
(***************************************************************************)
EXTENDS Integers

CONSTANTS
  CruiseTop,        \* the fastest speed, in steps
  LeadHold, LeadRestore, CommandInterval,   \* of AdaptiveCruiseConfig
  SlowInterval,     \* step_kph / deceleration_rate_kph_per_s
  PulseFrames,      \* button_pulse_frames
  MismatchSteps,    \* kMismatchKph, in whole steps
  AccelRelease, CruiseTeardown, DriverSettle, MismatchHold, Backoff  \* k...S

ASSUME CruiseAssumption ==
  /\ {CruiseTop, LeadHold, CommandInterval, PulseFrames, AccelRelease,
      CruiseTeardown, DriverSettle, MismatchHold, Backoff} \subseteq Nat \ {0}
  /\ MismatchSteps \in Nat
  /\ LeadRestore \in Nat
  /\ SlowInterval \in Nat /\ SlowInterval >= CommandInterval

VARIABLES
  acc,     \* the fields of the controller; `button` is what the last tick pressed
  acc_age  \* history: since the driver touched a button, and since the
           \* session last began a SET- of its own

cruiseVars == <<acc, acc_age>>

Never == -1
LongestOf(a, b) == IF a >= b THEN a ELSE b
CommandCap == LongestOf(SlowInterval, MismatchHold)
HistoryCap == LongestOf(SlowInterval, LeadRestore)
LeadCap == LongestOf(LeadHold, LeadRestore) + 1

(* What session_ = Session{} leaves of a controller. *)
WithoutSession(c) ==
  [c EXCEPT !.session = FALSE, !.maximum = 0, !.commanded = 0, !.lead = Never, !.reanchor = FALSE,
            !.mismatch = Never, !.backoff = 0, !.adjusting = 0, !.was_set = FALSE]

CruiseInit ==
  /\ acc = [main |-> FALSE, command |-> Never, accelerator |-> AccelRelease, off |-> Never,
            button |-> "none", frames |-> 0, session |-> FALSE, maximum |-> 0, commanded |-> 0,
            lead |-> Never, reanchor |-> FALSE, mismatch |-> Never, backoff |-> 0,
            adjusting |-> 0, was_set |-> FALSE]
  /\ acc_age = [driver |-> HistoryCap, set |-> HistoryCap]

-----------------------------------------------------------------------------
(* The stages of update().  `in` is its input:                             *)
(*   enabled, cruise_on, main, driver : the switches and the driver's button *)
(*   accelerator, permitted : the pedal; Panda, brake and speeds in order  *)
(*   set_speed, cluster, steady : speeds, 0 when unknown                   *)
(*   lead, wanted : whether a lead was seen; the speed that keeps the gap  *)

MainPressed(c, in) == in.main /\ ~c.main

(* teardown_session() *)
TornDown(c, in) ==
  LET off == IF in.cruise_on THEN Never ELSE IF c.off = Never THEN 0 ELSE c.off
      over == ~in.enabled \/ MainPressed(c, in) \/ off >= CruiseTeardown
      left == [c EXCEPT !.off = off]
  IN IF over THEN WithoutSession(left) ELSE left

(* track_driver_adjustment() *)
Tracked(c, in) ==
  IF in.driver /\ c.session
  THEN [c EXCEPT !.adjusting = DriverSettle, !.reanchor = TRUE]
  ELSE c

(* begin_session_if_ready() and begin_session() *)
Begun(c, in) ==
  IF in.enabled /\ in.cruise_on /\ ~MainPressed(c, in) /\ ~c.session /\ in.set_speed > 0
  THEN [c EXCEPT !.session = TRUE, !.maximum = in.set_speed, !.commanded = in.set_speed,
                 !.command = 0, !.was_set = FALSE, !.button = "none", !.frames = 0,
                 !.reanchor = FALSE, !.mismatch = Never, !.backoff = 0]
  ELSE c

(* reanchor_after_driver() *)
Reanchored(c, in) ==
  IF c.session /\ in.cruise_on /\ c.reanchor /\ c.adjusting = 0 /\ ~in.driver
     /\ in.cluster > 0 /\ in.steady
  THEN [c EXCEPT !.commanded = in.cluster, !.maximum = in.cluster, !.reanchor = FALSE,
                 !.mismatch = Never, !.backoff = 0, !.command = 0]
  ELSE c

(* resolve_command_mismatch() *)
Resolved(c, in) ==
  LET apart == in.cluster - c.commanded \notin -MismatchSteps .. MismatchSteps
      since == IF c.mismatch = Never THEN 0 ELSE c.mismatch
  IN
  IF ~(/\ c.session /\ in.cruise_on /\ in.cluster > 0
       /\ c.adjusting = 0 /\ c.frames = 0 /\ c.command >= MismatchHold)
  THEN c
  ELSE IF ~apart THEN [c EXCEPT !.mismatch = Never]
  ELSE IF since < MismatchHold THEN [c EXCEPT !.mismatch = since]
  ELSE [c EXCEPT !.backoff = IF in.cluster > c.commanded THEN Backoff ELSE c.backoff,
                 !.commanded = IF in.cluster > c.maximum THEN c.maximum ELSE in.cluster,
                 !.mismatch = Never]

(* update_vision_lead() *)
Watched(c, in) == IF in.lead THEN [c EXCEPT !.lead = 0] ELSE c

(* target_speed() *)
TargetSpeed(c, in) ==
  IF ~c.session THEN c.commanded
  ELSE IF c.lead # Never /\ c.lead <= LeadHold
       THEN IF in.wanted > c.maximum THEN c.maximum ELSE in.wanted
  ELSE IF c.lead = Never \/ c.lead >= LeadRestore THEN c.maximum
  ELSE c.commanded

CommandAllowed(c, in) ==
  /\ c.session /\ in.enabled /\ in.cruise_on /\ in.permitted
  /\ c.accelerator >= AccelRelease
  /\ c.adjusting = 0 /\ c.backoff = 0
  /\ ~in.driver /\ ~MainPressed(c, in)

IntervalReadyEqually(c) == c.command = Never \/ c.command >= CommandInterval

IntervalReady(c) ==
  c.command = Never \/ c.command >= IF c.was_set THEN SlowInterval ELSE CommandInterval

(* The button pace_buttons() would begin to press now. *)
ButtonFor(c, target) ==
  IF ~IntervalReady(c) THEN "none"
  ELSE IF target < c.commanded THEN "set"
  ELSE IF target > c.commanded THEN "resume"
  ELSE "none"

(* pace_buttons(): cut the pulse, continue it, or begin one. *)
Paced(c, in, target) ==
  IF ~CommandAllowed(c, in) THEN [c EXCEPT !.button = "none", !.frames = 0]
  ELSE IF c.frames > 0 THEN [c EXCEPT !.frames = @ - 1]
  ELSE LET button == ButtonFor(c, target) IN
       IF button = "none" THEN [c EXCEPT !.button = "none"]
       ELSE [c EXCEPT !.button = button, !.was_set = (button = "set"),
                      !.commanded = @ + IF button = "set" THEN -1 ELSE 1,
                      !.command = 0, !.frames = PulseFrames - 1, !.mismatch = Never]

Before(c, in) == IF in.accelerator THEN [c EXCEPT !.accelerator = 0] ELSE c

(* Everything update() does before it chooses a button. *)
Steered(c, in) ==
  Watched(Resolved(Reanchored(Begun(Tracked(TornDown(Before(c, in), in), in), in), in), in), in)

-----------------------------------------------------------------------------

(* update() *)
Update(in) ==
  LET c == Steered(acc, in)
      next == Paced(c, in, TargetSpeed(c, in))
      begun == next.commanded < c.commanded
  IN
  /\ acc' = [next EXCEPT !.main = in.main]
  /\ acc_age' = [driver |-> IF in.driver THEN 0 ELSE acc_age.driver,
                 set |-> IF begun THEN 0 ELSE IF next.session THEN acc_age.set ELSE HistoryCap]

Driving ==
  [enabled |-> TRUE, cruise_on |-> TRUE, main |-> FALSE, driver |-> FALSE, accelerator |-> FALSE,
   permitted |-> TRUE, steady |-> FALSE, lead |-> FALSE, set_speed |-> 0, cluster |-> 0,
   wanted |-> 1]

(* A tick with a switch off, a button of the driver's or no session yet: no *)
(* button is pressed, so the other speeds and the permission do not matter. *)
SwitchTick ==
  \E enabled, cruise_on, main, driver, accelerator, near \in BOOLEAN,
     set_speed \in IF acc.session THEN {0} ELSE 0 .. CruiseTop :
    Update([Driving EXCEPT !.enabled = enabled, !.cruise_on = cruise_on, !.main = main,
                           !.driver = driver, !.accelerator = accelerator, !.lead = near,
                           !.set_speed = set_speed])

(* A tick of a session left alone. *)
DriveTick ==
  /\ acc.session
  /\ \E accelerator, permitted, near, steady \in BOOLEAN,
        cluster \in 0 .. CruiseTop, wanted \in 1 .. CruiseTop :
       Update([Driving EXCEPT !.accelerator = accelerator, !.lead = near, !.permitted = permitted,
                              !.steady = steady, !.cluster = cluster, !.wanted = wanted])

Aged(age, most) == IF age = Never \/ age = most THEN age ELSE age + 1
Remaining(time) == IF time = 0 THEN 0 ELSE time - 1

CruiseElapse ==
  /\ acc' = [acc EXCEPT !.lead = Aged(@, LeadCap), !.command = Aged(@, CommandCap),
                        !.accelerator = Aged(@, AccelRelease), !.off = Aged(@, CruiseTeardown),
                        !.adjusting = Remaining(@), !.mismatch = Aged(@, MismatchHold),
                        !.backoff = Remaining(@)]
  /\ acc_age' = [acc_age EXCEPT !.driver = Aged(@, HistoryCap), !.set = Aged(@, HistoryCap)]

CruiseNext == SwitchTick \/ DriveTick \/ CruiseElapse
CruiseSpec == CruiseInit /\ [][CruiseNext]_cruiseVars

-----------------------------------------------------------------------------
(* Properties *)

(* Every field keeps its type. *)
Controllers ==
  [main : BOOLEAN, command : Never .. CommandCap, accelerator : 0 .. AccelRelease,
   off : Never .. CruiseTeardown, button : {"none", "set", "resume"}, frames : 0 .. PulseFrames,
   session : BOOLEAN, maximum : 0 .. CruiseTop, commanded : 0 .. CruiseTop,
   lead : Never .. LeadCap, reanchor : BOOLEAN, mismatch : Never .. MismatchHold,
   backoff : 0 .. Backoff, adjusting : 0 .. DriverSettle, was_set : BOOLEAN]

CruiseTypeOK ==
  acc \in Controllers /\ acc_age \in [driver : 0 .. HistoryCap, set : 0 .. HistoryCap]

(* The driver is left alone for a command interval, but no longer than the  *)
(* wait for the cluster to settle.                                          *)
Patience == IF CommandInterval <= DriverSettle THEN CommandInterval ELSE DriverSettle

(* The controller never presses a button within that time of the driver's  *)
(* own, the press that opened the session included, and never more than    *)
(* one step beyond the ceiling or the slowest speed, through every         *)
(* teardown, blink of the cruise, reanchoring and correction.              *)
LeavesDriverAlone ==
  acc.button # "none" =>
    /\ acc_age.driver >= Patience
    /\ acc.commanded \in 1 .. acc.maximum

(* The inductive invariant.  In a session the last command is no older than *)
(* what the driver did, unless that has settled; and after a recent SET- of *)
(* its own, the controller still knows it was one, and how old it is.       *)
DriverIsAwaited(c, driver) ==
  c.session =>
    /\ c.maximum >= 1 /\ c.commanded \in 1 .. c.maximum /\ c.command >= 0
    /\ driver >= Patience \/ driver >= c.command \/ driver + c.adjusting >= DriverSettle

SetIsRemembered(c, set) ==
  set < SlowInterval => c.session /\ c.was_set /\ c.command <= set

CruiseInv ==
  /\ CruiseTypeOK
  /\ DriverIsAwaited(acc, acc_age.driver) /\ SetIsRemembered(acc, acc_age.set)
  /\ acc.button # "none" => acc.session
  /\ LeavesDriverAlone

(* After a SET- of its own, the controller begins no other button in the   *)
(* same session before the car had the time to answer (runtime.md:         *)
(* "repeated SET- pulses wait for that response, and RES+ cannot           *)
(* immediately reverse a recent slowdown").                                *)
SlowdownIsAwaited ==
  [][acc.button = "none" /\ acc'.button # "none" =>
       acc_age.set >= SlowInterval]_cruiseVars
=============================================================================
