----------------------------- MODULE TorqueLaw -----------------------------
(***************************************************************************)
(* How a tick of LateralController::update() turns the plan's curvature    *)
(* into the torque it asks for: the clip on the curvature, and             *)
(* TorqueController (lateral_torque.cc) with the ring of past requests     *)
(* that stands for the delay of the steering rack, the cached slip factor  *)
(* of the vehicle model and the integrator.                                *)
(*                                                                         *)
(* Curvatures are small integers and a lateral acceleration is a curvature *)
(* times the square of the speed.  What the plan and the sensors say, and  *)
(* the feedforward with its friction, bank and offset, are chosen freely.  *)
(***************************************************************************)
EXTENDS Integers

CONSTANTS
  RingLength,    \* kRequestBufferLen
  Delays,        \* values of delay_frames
  Curve,         \* kMaxCurvature
  FeedTop,       \* the largest feedforward, either way
  OutTop,        \* the largest output, 1.0 in the code
  Kis,           \* integral gains: of the parameters and as learned
  Stiffnesses    \* tire_stiffness_factor, of the parameters and as learned

ASSUME LawAssumption ==
  /\ RingLength \in Nat /\ RingLength >= 2
  /\ Delays # {} /\ Delays \subseteq 1 .. RingLength
  /\ {Curve, FeedTop, OutTop} \subseteq Nat
  /\ Kis # {} /\ Kis \subseteq Nat
  /\ Stiffnesses # {}

VARIABLES
  curvature,   \* prev_desired_curvature_
  requests, request_head,   \* lat_accel_request_, request_head_
  integral,    \* i_
  slip,        \* slip_factor_, as the values it was computed from, and last_*
  law,         \* the setpoint of the last tick, its delay and its vehicle model
  past        \* history: the last RingLength requests, the newest at 0

lawVars == <<curvature, requests, request_head, integral, slip, law, past>>

Curvatures == -Curve .. Curve

(* Unknown (NaN), below min_steer_speed_mps, below 5 m/s, above it. *)
Speeds == {"unknown", "stopped", "slow", "fast"}
Square == [unknown |-> 0, stopped |-> 0, slow |-> 1, fast |-> 2]
Steerable == {"slow", "fast"}
LatAccels == -2 * Curve .. 2 * Curve

(* LiveLateralParams and SteeringParams: the gain, and the stiffness with   *)
(* the steer ratio that is learned together with it.                        *)
Models == [stiffness : Stiffnesses, learned : BOOLEAN]
NoModel == [stiffness |-> "none", learned |-> FALSE]

LawInit ==
  /\ curvature = 0
  /\ requests = [i \in 0 .. RingLength - 1 |-> 0] /\ request_head = 0
  /\ integral = 0
  /\ slip = [of |-> NoModel, last |-> NoModel]
  /\ law = [expected |-> 0, delay |-> 1, model |-> NoModel]
  /\ past = [back \in 0 .. RingLength - 1 |-> 0]

-----------------------------------------------------------------------------

Clamp(x, lo, hi) == IF x < lo THEN lo ELSE IF x > hi THEN hi ELSE x

(* The rate that the lateral jerk allows, and the bound that the lateral    *)
(* acceleration allows, shifted by the roll of the road.                    *)
Rate(speed) == IF speed = "fast" THEN 1 ELSE 2
AccelBound(speed) == IF speed = "fast" THEN Curve ELSE 2 * Curve

(* clip_curvature() *)
Clipped(speed, wanted, roll) ==
  IF speed = "unknown" THEN curvature
  ELSE LET near == Clamp(wanted, curvature - Rate(speed), curvature + Rate(speed))
           held == Clamp(near, roll - AccelBound(speed), roll + AccelBound(speed))
       IN  Clamp(held, -Curve, Curve)

(* update_vehicle_model(), called where the curvature is estimated: not     *)
(* below the speed at which steering begins.                                *)
KeyWithoutStiffness(model) == model.learned = slip.last.learned

SameKey(model) == model = slip.last

SlipFor(speed, model) ==
  IF speed \notin Steerable \/ SameKey(model) THEN slip ELSE [of |-> model, last |-> model]

(* estimate_actual_curvature(): none is known where it cannot be steered. *)
ActualCurvature(speed, measured) == IF speed \in Steerable THEN measured ELSE 0

(* The request of `back` ticks before the newest one. *)
At(ring, head, back) == ring[(head - back + 2 * RingLength) % RingLength]

(* pid_update(): conditional integration *)
Gain(speed) == IF speed = "slow" THEN 2 ELSE 1
Integrated(error, feed, ki, frozen, speed) ==
  LET next == integral + error * ki
      control == error * Gain(speed) + next + feed
      windsUp == /\ ~(error >= 0 /\ (control <= OutTop \/ next < 0))
                 /\ ~(error <= 0 /\ (control >= -OutTop \/ next > 0))
  IN  IF frozen \/ windsUp THEN integral ELSE next

(* The ring moves on in every tick. *)
RequestedWhileOn(on, request) ==
  /\ request_head' = IF on THEN (request_head + 1) % RingLength ELSE request_head
  /\ requests' = IF on THEN [requests EXCEPT ![request_head'] = request] ELSE requests

Requested(on, request) ==
  /\ request_head' = (request_head + 1) % RingLength
  /\ requests' = [requests EXCEPT ![request_head'] = request]

(* One tick: update() of the controller from the curvature on.  The plan is *)
(* followed while it steers; otherwise the clip follows the measurement, so *)
(* that steering begins from where the car is.                              *)
LawTick(steers, speed, plan, measured, roll, delay, model, feed, ki, pressed) ==
  LET actual == ActualCurvature(speed, measured)
      wanted == IF steers THEN plan ELSE actual
      on == steers /\ speed \in Steerable
      expected == At(requests', request_head', delay - 1)
      error == expected - actual * Square[speed]
      frozen == pressed \/ speed = "slow"
  IN  /\ curvature' = Clipped(speed, wanted, roll)
      /\ Requested(on, curvature' * Square[speed])
      /\ slip' = SlipFor(speed, model)
      /\ integral' = IF on THEN Integrated(error, feed, ki, frozen, speed) ELSE 0
      /\ law' = [expected |-> expected, delay |-> delay,
                 model |-> IF speed \in Steerable THEN model ELSE NoModel]
      /\ past' = [back \in 0 .. RingLength - 1 |->
                     IF back = 0 THEN curvature' * Square[speed] ELSE past[back - 1]]

(* It steers at a known speed only; a roll is known only with a learned     *)
(* model.  What a tick does not read is not chosen.                         *)
AnyLawTick ==
  \E steers \in BOOLEAN, speed \in Speeds, delay \in Delays :
    \E plan \in (IF steers THEN Curvatures ELSE {0}),
       measured \in (IF speed \in Steerable THEN Curvatures ELSE {0}),
       model \in (IF speed \in Steerable THEN Models ELSE {NoModel}),
       pressed \in (IF steers /\ speed = "fast" THEN BOOLEAN ELSE {TRUE}) :
      \E roll \in (IF model.learned THEN {0, 1} ELSE {0}),
         feed \in (IF pressed THEN {0} ELSE {-FeedTop, FeedTop}),
         ki \in (IF pressed THEN {0} ELSE Kis) :
        /\ steers => speed # "unknown"
        /\ LawTick(steers, speed, plan, measured, roll, delay, model, feed, ki, pressed)

LawSpec == LawInit /\ [][AnyLawTick]_lawVars

-----------------------------------------------------------------------------
(* Properties *)

(* Every variable keeps its type. *)
LawTypeOK ==
  /\ curvature \in Curvatures
  /\ requests \in [0 .. RingLength - 1 -> LatAccels]
  /\ request_head \in 0 .. RingLength - 1
  /\ past \in [0 .. RingLength - 1 -> LatAccels]
  /\ integral \in Int
  /\ slip \in [of : Models \cup {NoModel}, last : Models \cup {NoModel}]
  /\ law \in [expected : LatAccels, delay : Delays \cup {1}, model : Models \cup {NoModel}]

(* The setpoint is what was asked for `delay` ticks ago, also across ticks  *)
(* in which nothing was steered: a ring that stood still meanwhile would    *)
(* compare the car with an old request and kick when steering begins (the   *)
(* comment at the ring).                                                    *)
SetpointIsDelayed == law.expected = past[law.delay - 1]

(* The integrator does not wind up, however long an error lasts, whatever   *)
(* the feedforward and the gains do meanwhile.                              *)
IntegralIsBounded == integral \in -(OutTop + FeedTop) .. OutTop + FeedTop

(* The slip factor used is that of the parameters used with it, though the  *)
(* file's and the learned ones take turns.                                  *)
SlipIsCurrent == law.model # NoModel => slip.of = law.model

(* With what the ring holds and which parameters it was computed from.      *)
RingHoldsPast == \A back \in 0 .. RingLength - 1 : At(requests, request_head, back) = past[back]

LawInv ==
  /\ LawTypeOK /\ SetpointIsDelayed /\ IntegralIsBounded /\ SlipIsCurrent
  /\ RingHoldsPast /\ slip.of = slip.last
=============================================================================
