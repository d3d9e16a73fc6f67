------------------------------ MODULE Steering ------------------------------
(***************************************************************************)
(* What LateralController::update() puts on the wire once the engage state *)
(* machine (EngageLatch) has decided: the torque of LKAS11 with the ramp   *)
(* and the cut that keep the steering rack from faulting above 85 degrees, *)
(* the fade while the driver steers, the limits on a step of torque, and   *)
(* the counter of the frames (lateral_controller.cc, hyundai_can.cc).      *)
(*                                                                         *)
(* A tick reads the state of the gates, the steering angle, the driver's *)
(* torque and the torque the control law asks for, all chosen freely.      *)
(* Frames, torques and the counter are scaled down; lround() is kept.      *)
(***************************************************************************)
EXTENDS Integers

CONSTANTS
  SteerMax, DeltaUp, DeltaDown,      \* steer_max, steer_delta_up, steer_delta_down
  DriverAllowance, DriverMultiplier, \* steer_driver_allowance, its multiplier times its factor
  DriverTorque,                      \* a driver's torque above driver_torque_threshold
  FadeTop, FadeBack,                 \* 100 and 5 of the driver torque timer
  MaxFaultFrames, RampMargin, CutFrames,  \* avoid_lkas_fault_max_frames, 20, ..._cut_frames
  CounterValues                           \* 16, the values of the counter in LKAS11

ASSUME SteeringAssumption ==
  /\ {SteerMax, DeltaUp, DeltaDown, DriverTorque, FadeTop, FadeBack, CounterValues} \subseteq Nat \ {0}
  /\ {DriverAllowance, DriverMultiplier, MaxFaultFrames, RampMargin, CutFrames} \subseteq Nat

(* The verdicts of the gates: torque, the request held without torque,     *)
(* zero torque after a disengagement, nothing sent.                        *)
States == {"active", "hold", "release", "silent"}
SteerTorques == -SteerMax .. SteerMax

VARIABLES
  avoid,                      \* avoid_lkas_fault_enabled
  last_torque,                \* last_torque_
  angle_limit, fault_frames,  \* angle_limit_counter_, fault_angle_frames_
  cut_steer, cut_frames,      \* cut_steer_, cut_steer_frames_
  fade_timer,                 \* driver_steering_torque_above_timer_
  lkas_valid, lkas_counter,   \* lkas11_counter_valid_, lkas11_counter_
  lkas_frame,                 \* the frame of the last tick, or NothingSent
  asked_above                 \* history: frames in a row that asked for steering
                              \* at a fault angle, and how long that has been so

cutVars == <<angle_limit, cut_steer, cut_frames>>
steeringVars == <<avoid, last_torque, fault_frames, cutVars, fade_timer,
                  lkas_valid, lkas_counter, lkas_frame, asked_above>>

NothingSent == [torque |-> 0, request |-> FALSE, toi |-> FALSE, count |-> -1]
LongAsked == MaxFaultFrames + 2

SteeringInit ==
  /\ avoid \in BOOLEAN
  /\ last_torque = 0 /\ angle_limit = 0 /\ fault_frames = 0
  /\ cut_steer = FALSE /\ cut_frames = 0 /\ fade_timer = FadeTop
  /\ lkas_valid = FALSE /\ lkas_counter = 0
  /\ lkas_frame = NothingSent /\ asked_above = 0

-----------------------------------------------------------------------------
(* Torque *)

Least(a, b) == IF a < b THEN a ELSE b
Most(a, b) == IF a > b THEN a ELSE b
Between(x, lo, hi) == Least(Most(x, lo), hi)
Magnitude(x) == Most(x, -x)

(* lround(asked * num / den): halves go away from zero. *)
Scaled(asked, num, den) ==
  LET rounded == (2 * Magnitude(asked) * num + den) \div (2 * den)
  IN  IF asked < 0 THEN -rounded ELSE rounded

(* apply_hyundai_steer_torque_limits() *)
Limited(desired, last, driver) ==
  LET top == SteerMax + (DriverAllowance + driver) * DriverMultiplier
      bottom == -SteerMax + (-DriverAllowance + driver) * DriverMultiplier
      allowed == Between(desired, Least(Most(-SteerMax, bottom), 0),
                                  Most(Least(SteerMax, top), 0))
  IN  IF last > 0
      THEN Between(allowed, Most(last - DeltaDown, -DeltaUp), last + DeltaUp)
      ELSE Between(allowed, last - DeltaUp, Least(last + DeltaDown, DeltaUp))

(* The frames a ramp takes. *)
RampFrames == Most(1, MaxFaultFrames - RampMargin)

(* desired_torque: what the law asks for, faded while the driver steers    *)
(* and ramped down while the wheel stays above the fault angle.            *)
Desired(asked, above, frames) ==
  LET ramp == IF above THEN RampFrames - Least(frames, RampFrames) ELSE RampFrames
  IN  Scaled(asked, fade_timer * ramp, FadeTop * RampFrames)

-----------------------------------------------------------------------------
(* One tick *)

(* What reset_control_state() leaves of a counter, when the tick calls it. *)
Kept(reset, counter) == IF reset THEN 0 ELSE counter

(* update_cut_steer_state(); cut_frames counts as far as it is compared. *)
CutSteer(steers, reset, above, errors) ==
  LET counted == IF avoid /\ steers /\ above THEN Kept(reset, angle_limit) + 1 ELSE 0
      over == IF avoid THEN counted > MaxFaultFrames ELSE errors > MaxFaultFrames
      spent == Kept(reset, cut_frames) >= Most(1, CutFrames)
  IN  /\ cut_steer' = (over \/ (cut_steer /\ ~reset /\ ~spent))
      /\ angle_limit' = IF cut_steer' THEN 0 ELSE counted
      /\ cut_frames' = IF ~cut_steer' THEN (IF spent THEN 0 ELSE Kept(reset, cut_frames))
                       ELSE Least(Kept(reset, cut_frames) + 1, Most(1, CutFrames))

(* fault_angle_frames_, counted as far as it changes the ramp; the frames  *)
(* of the cut's own counter (angle_limit) would let the ramp begin again.  *)
FaultFrames(steers, above) ==
  IF steers /\ avoid /\ above THEN Least(fault_frames + 1, RampFrames) ELSE 0

(* update_driver_steering_guard(), at the end of the tick *)
Faded(reset, driver) ==
  LET timer == IF reset THEN FadeTop ELSE fade_timer
  IN  IF driver # 0 THEN Most(0, timer - 1) ELSE Least(FadeTop, timer + FadeBack)

(* next_lkas11_counter(): the first frame after silence takes up the       *)
(* counter of the car, whatever it is by then.                             *)
CountedFrom(seed) == IF lkas_valid THEN lkas_counter ELSE (seed + 1) % CounterValues

(* Whether the counter runs on. *)
CountingWhileActive(state) == state = "active"

Counting(state) == state # "silent"

(* build_frames(), apply_lkas_command() *)
Sent(state, torque, count) ==
  IF state = "silent" THEN NothingSent
  ELSE [torque |-> torque, count |-> count, toi |-> cut_steer',
        request |-> state \in {"active", "hold"} /\ ~cut_steer']

(* update(), from the state on.  A reset belongs to a tick that ends     *)
(* engaged steering, so never to an active one.                            *)
SteerTick(state, reset, above, asked, driver, errors, seed) ==
  LET steers == state = "active"
      torque == IF steers THEN Limited(Desired(asked, above, fault_frames'), last_torque, driver)
                ELSE 0
      count == CountedFrom(seed)
  IN  /\ CutSteer(steers, reset, above, errors)
      /\ fault_frames' = FaultFrames(steers, above)
      /\ last_torque' = torque
      /\ lkas_frame' = Sent(state, torque, count)
      /\ lkas_valid' = Counting(state)
      /\ lkas_counter' = IF state = "silent" THEN 0 ELSE (count + 1) % CounterValues
      /\ fade_timer' = Faded(reset, driver)
      /\ asked_above' = IF lkas_frame'.request /\ above THEN Least(asked_above + 1, LongAsked)
                        ELSE 0
      /\ UNCHANGED avoid

AnySteerTick ==
  \E state \in States, above \in BOOLEAN, driver \in {-DriverTorque, 0, DriverTorque},
     seed \in 0 .. CounterValues - 1, errors \in {0, MaxFaultFrames + 1} :
    \E reset \in (IF state = "active" THEN {FALSE} ELSE BOOLEAN),
       asked \in (IF state = "active" THEN SteerTorques ELSE {0}) :
      /\ lkas_valid => seed = 0
      /\ avoid => errors = 0
      /\ SteerTick(state, reset, above, asked, driver, errors, seed)

SteeringSpec == SteeringInit /\ [][AnySteerTick]_steeringVars

-----------------------------------------------------------------------------
(* Properties *)

(* Every variable keeps its type. *)
SteeringTypeOK ==
  /\ avoid \in BOOLEAN /\ last_torque \in SteerTorques
  /\ angle_limit \in 0 .. MaxFaultFrames /\ fault_frames \in 0 .. RampFrames
  /\ cut_steer \in BOOLEAN /\ cut_frames \in 0 .. Most(1, CutFrames)
  /\ fade_timer \in 0 .. FadeTop
  /\ lkas_valid \in BOOLEAN /\ lkas_counter \in 0 .. CounterValues - 1
  /\ lkas_frame \in [torque : SteerTorques, request : BOOLEAN, toi : BOOLEAN, count : -1 .. CounterValues - 1]
  /\ asked_above \in 0 .. LongAsked

(* A ramp takes no less time than the limits need for the whole torque. The *)
(* defaults of control_params.h: 384 <= 7 * (89 - 20).                      *)
RampIsLong == SteerMax <= DeltaDown * RampFrames

(* A cut that the angle forces begins in a frame without torque: the ramp  *)
(* is over and the limits have let the torque down by then, whatever the   *)
(* law and the driver did meanwhile (the comment at the ramp: a fault or a *)
(* cut met with torque is felt as a knock in the wheel).                   *)
CutBeginsAtZero ==
  [][RampIsLong /\ avoid /\ cut_steer' /\ ~cut_steer => lkas_frame'.torque = 0]_steeringVars

(* From one frame to the next the counter of LKAS11 goes up by one, also   *)
(* where steering ends, waits or is taken up again.                        *)
CounterKeepsStep ==
  [][lkas_frame.count >= 0 /\ lkas_frame'.count >= 0
       => lkas_frame'.count = (lkas_frame.count + 1) % CounterValues]_steeringVars

(* The inductive invariant: the counter kept is the next one; the frames    *)
(* the ramp counts are at least those the cut counts; and the torque, of    *)
(* which half a unit is rounding, is under the line of the ramp.            *)
CounterIsNext ==
  lkas_frame.count >= 0 =>
    lkas_valid /\ lkas_counter = (lkas_frame.count + 1) % CounterValues

RampCounts == fault_frames >= Least(angle_limit, RampFrames)

TorqueUnderRamp ==
  2 * RampFrames * Magnitude(last_torque)
    <= 2 * SteerMax * (RampFrames - fault_frames) + RampFrames

SteeringInv ==
  SteeringTypeOK /\ CounterIsNext /\ RampCounts /\ (RampIsLong => TorqueUnderRamp)

(* params/README.md, avoid_lkas_fault_max_frames: the number of frames at  *)
(* the fault angle after which the request is cut.                         *)
RequestIsBroken == avoid => asked_above <= MaxFaultFrames + 1
=============================================================================
