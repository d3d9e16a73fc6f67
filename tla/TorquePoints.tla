---------------------------- MODULE TorquePoints ----------------------------
(***************************************************************************)
(* When the learners of lateral_learners.cc look at the car, and from what *)
(* the torque learner takes a point.  VehicleParamsLearner looks at every  *)
(* control tick and predicts from its last time to this one; every         *)
(* MotionPeriod TorqueEstimator keeps a sample of what was commanded, told *)
(* for a Lag later, and takes a point if the steering was on, and left to  *)
(* itself, all over a window it reads by interpolation.  Ticks come late,  *)
(* inputs grow stale, and no sample is kept of a stale tick.               *)
(*                                                                         *)
(* Times are ages, counted at the ticks; Never is the age of no time.      *)
(***************************************************************************)
EXTENDS Integers, SequencesExt

CONSTANTS
  TickGap,       \* longest time between two control ticks
  MotionPeriod,  \* kDtMdl
  Lag,           \* lag_s_
  Engaged,       \* kMinEngageBuffer
  HistoryLength  \* kHistLen

ASSUME PointsAssumption ==
  /\ {TickGap, MotionPeriod, Lag, Engaged} \subseteq Nat \ {0}
  /\ HistoryLength \in Nat /\ HistoryLength > 1
  /\ (HistoryLength - 1) * MotionPeriod >= Engaged

NoTime == -1
AgeCap == Engaged + Lag + MotionPeriod

VARIABLES
  learner,       \* kf: age of the filter's time; motion: of the last motion tick;
                 \* raw: the samples, oldest first
  learner_last   \* history: how far the last tick predicted, whether it took a point,
                 \* for how long the steering was on and left alone before it and with it

pointsVars == <<learner, learner_last>>

LearnerInit ==
  /\ learner = [kf |-> NoTime, motion |-> NoTime, raw |-> <<>>]
  /\ learner_last = [predicted |-> 0, taken |-> FALSE, steady |-> 0, run |-> 0, idle |-> TRUE]

-----------------------------------------------------------------------------

Grown(age, gap, most) == IF age = NoTime THEN age ELSE IF age + gap > most THEN most ELSE age + gap

(* How long VehicleParamsLearner::update() predicts: an active filter is   *)
(* taken from its time to now.                                             *)
Predicted(kf, fresh, filtering) == IF fresh /\ filtering /\ kf # NoTime THEN kf ELSE 0

TimedWhenActive(kf, fresh, filtering) == IF fresh /\ filtering THEN 0 ELSE kf

(* Its time after the tick: that of the observation, or set without one    *)
(* when the filter rests or its inputs are stale.                          *)
TimedAt(kf, fresh, filtering) == 0

MotionDue(motion) == motion = NoTime \/ motion >= MotionPeriod

KeptSample(samples, sample) ==
  Append(IF Len(samples) = HistoryLength THEN Tail(samples) ELSE samples, sample)

(* interp_raw(): whether a flag, read `back` before the newest sample,     *)
(* is set, at least in part.                                               *)
Interpolated(samples, back, flag) ==
  LET older == {i \in DOMAIN samples : samples[i].age >= back}
      last == CHOOSE i \in older : \A j \in older : j <= i
  IN  IF older = {} THEN samples[1][flag]
      ELSE IF last = Len(samples) \/ samples[last].age = back THEN samples[last][flag]
      ELSE samples[last][flag] \/ samples[last + 1][flag]

(* The points of the window, from Engaged before now to now, as ages of    *)
(* samples, which are told Lag late.                                       *)
WindowAges ==
  {Engaged + Lag - i * MotionPeriod :
     i \in {n \in 0 .. Engaged + Lag : n * MotionPeriod < Engaged + Lag}}

(* handle_device_motion(): the gates on what was commanded. *)
TakesPoint(samples) ==
  /\ Len(samples) = HistoryLength
  /\ \A back \in WindowAges : Interpolated(samples, back, "on")
  /\ \A back \in WindowAges : ~Interpolated(samples, back, "override")

(* LateralLearners::update() `gap` after the last: the inputs are fresh,   *)
(* the vehicle filter is active, the steering is on, the driver overrides  *)
(* it, the motion is fit to make a point of, and the fit after it is no    *)
(* number, which resets the samples.                                       *)
LearnerTick(gap, fresh, filtering, on, override, fit, nan) ==
  LET kf == Grown(learner.kf, gap, AgeCap)
      motion == Grown(learner.motion, gap, MotionPeriod)
      aged == [i \in DOMAIN learner.raw |->
                 [learner.raw[i] EXCEPT !.age = Grown(@, gap, AgeCap)]]
      due == MotionDue(motion)
      kept == IF due /\ fresh THEN KeptSample(aged, [age |-> 0, on |-> on, override |-> override])
             ELSE aged
      since == Grown(learner_last.run, gap, AgeCap)
      broken == due /\ fresh /\ (override \/ (~on /\ learner_last.idle))
  IN
  /\ learner' = [kf |-> TimedAt(kf, fresh, filtering),
                 motion |-> IF due THEN 0 ELSE motion,
                 raw |-> IF due /\ nan THEN <<>> ELSE kept]
  /\ learner_last' =
       [predicted |-> Predicted(kf, fresh, filtering),
        taken |-> due /\ fresh /\ fit /\ TakesPoint(kept),
        steady |-> since, run |-> IF broken THEN 0 ELSE since,
        idle |-> IF due /\ fresh THEN ~on ELSE learner_last.idle]

PointsNext ==
  \E gap \in 1 .. TickGap, fresh, filtering, on, override, fit, nan \in BOOLEAN :
    LearnerTick(gap, fresh, filtering, on, override, fit, nan)

PointsSpec == LearnerInit /\ [][PointsNext]_pointsVars

-----------------------------------------------------------------------------
(* Properties *)

(* However long the inputs were stale or the car stood, the filter never   *)
(* predicts over more than the time since the last tick: longer steps let  *)
(* it diverge.                                                             *)
PredictionIsShort == learner_last.predicted <= TickGap

(* A point is taken only if, for as long as the engage buffer before this  *)
(* tick, no sample saw the driver override and no two in a row saw the     *)
(* steering off.                                                           *)
PointsComeFromSteering == learner_last.taken => learner_last.steady >= Engaged

(* The inductive invariant: the samples are as far apart as motion ticks,  *)
(* and the tick that last broke the steering is one of them, seen as such, *)
(* or older than them all.                                                 *)
Samples == [age : 0 .. AgeCap, on : BOOLEAN, override : BOOLEAN]
PointsTypeOK ==
  /\ learner.kf \in NoTime .. AgeCap /\ learner.motion \in NoTime .. MotionPeriod
  /\ learner.raw \in Seq(Samples)
  /\ learner_last.run \in 0 .. AgeCap /\ learner_last.idle \in BOOLEAN

Far(age, apart) == age = AgeCap \/ age >= apart

Ordered(raw) ==
  \A i, j \in 1 .. Len(raw) : i < j => Far(raw[i].age, raw[j].age + MotionPeriod)

Spaced(raw, motion) ==
  /\ Len(raw) <= HistoryLength /\ Ordered(raw)
  /\ \A i \in 1 .. Len(raw) : Far(raw[i].age, (Len(raw) - i) * MotionPeriod + motion)

SamplesAreSpaced ==
  LET raw == learner.raw IN
  /\ Spaced(raw, learner.motion)
  /\ raw # <<>> => /\ learner.motion # NoTime
                   /\ learner_last.idle <=> ~raw[Len(raw)].on

(* A sample at which the steering was overridden, or off once more. *)
Breaks(raw, i) == raw[i].override \/ (~raw[i].on /\ (i = 1 \/ ~raw[i - 1].on))

Remembers(raw, run) ==
  raw # <<>> /\ run < Engaged =>
    run >= raw[1].age \/ \E i \in 1 .. Len(raw) : raw[i].age = run /\ Breaks(raw, i)

PointsInv ==
  /\ PointsTypeOK /\ SamplesAreSpaced /\ Remembers(learner.raw, learner_last.run)
  /\ learner.kf \in {NoTime, 0} /\ PredictionIsShort /\ PointsComeFromSteering
=============================================================================
