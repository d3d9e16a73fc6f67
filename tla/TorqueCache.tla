---------------------------- MODULE TorqueCache -----------------------------
(***************************************************************************)
(* The estimate of TorqueEstimator (lateral_learners.cc) and the file that *)
(* carries it over restarts.  Points are kept in rings, one per range of   *)
(* the torque; a publication fits them and moves a filter towards the fit, *)
(* held near the factor of the parameters; the file holds the filter and   *)
(* the points with the parameters it was learned for as its key.           *)
(*                                                                         *)
(* The factor and its fits are small numbers; a fit may be no number.  The *)
(* file is written whole (LearnerStore) but may be lost or spoilt.         *)
(***************************************************************************)
EXTENDS Integers, SequencesExt, FiniteSetsExt

CONSTANTS
  Ranges,         \* the buckets
  RingSize,       \* kPointsPerBucket
  MinPoints,      \* kMinPointsTotal; a bucket needs at least one
  Values,         \* what a point may measure
  Factors,        \* lat_accel_factor of the parameters at a start
  Fits,           \* factors that a fit may give
  Sanity,         \* kFactorSanity, here as a distance
  PublishEvery, PersistEvery   \* 5 and 240

ASSUME CacheAssumption ==
  /\ {RingSize, PublishEvery, PersistEvery} \subseteq Nat \ {0}
  /\ {MinPoints, Sanity} \subseteq Nat /\ Factors \cup Fits \subseteq Int
  /\ PersistEvery % PublishEvery = 0

VARIABLES
  torque,       \* the estimator: rings, filter, key (offline_) and frame
  torque_file,  \* none, corrupt, or the whole of what serialize() wrote
  torque_saved  \* history: the points when the file was written

cacheVars == <<torque, torque_file, torque_saved>>

NoCache == [is |-> "none"]
NoSamples == [slots |-> [i \in 0 .. RingSize - 1 |-> 0], head |-> 0, count |-> 0]
NoPoints == [range \in Ranges |-> NoSamples]

PointsOf(ring) == [i \in 1 .. ring.count |-> ring.slots[(ring.head + i - 1) % RingSize]]
Points(rings) == [range \in Ranges |-> PointsOf(rings[range])]

(* add_point() *)
Added(ring, value) ==
  IF ring.count < RingSize
  THEN [ring EXCEPT !.slots[(ring.head + ring.count) % RingSize] = value, !.count = @ + 1]
  ELSE [ring EXCEPT !.slots[ring.head] = value, !.head = (@ + 1) % RingSize]

Near(fit, key) ==
  IF fit < key - Sanity THEN key - Sanity ELSE IF fit > key + Sanity THEN key + Sanity ELSE fit

(* update_params(): the filter moves towards the fit. *)
Filtered(factor, fit) == IF factor <= fit THEN factor .. fit ELSE fit .. factor

Calculable(rings) == \A range \in Ranges : rings[range].count > 0
Valid(rings) ==
  Calculable(rings) /\ MapThenSumSet(LAMBDA range : rings[range].count, Ranges) >= MinPoints

-----------------------------------------------------------------------------

(* get_msg(): what it says and what it leaves, for any fit. *)
Messages(t) ==
  IF ~Valid(t.rings) THEN {[valid |-> FALSE, after |-> t]}
  ELSE {[valid |-> FALSE, after |-> [t EXCEPT !.rings = NoPoints]]} \cup
       {[valid |-> TRUE, after |-> [t EXCEPT !.factor = factor]] :
          factor \in UNION {Filtered(t.factor, Near(fit, t.key)) : fit \in Fits}}

(* The points of a bucket in the file, the oldest first. *)
OldestFirst(ring) == PointsOf(ring)

Serialized(t, valid) ==
  [is |-> "whole", key |-> t.key, valid |-> valid, factor |-> t.factor,
   points |-> [range \in Ranges |-> OldestFirst(t.rings[range])]]

KeyMatches(file, key) == file.key = key

Restored(file, key) ==
  [rings |-> [range \in Ranges |-> FoldLeft(Added, NoSamples, file.points[range])],
   factor |-> IF file.valid THEN file.factor ELSE key, key |-> key, frame |-> 0]

Fresh(key) == [rings |-> NoPoints, factor |-> key, key |-> key, frame |-> 0]

(* update() at a motion tick: perhaps a point, then the message that is    *)
(* due, then another one for the file.                                     *)
Pointed(t) ==
  {t} \cup {[t EXCEPT !.rings[range] = Added(@, value)] : range \in Ranges, value \in Values}

TorqueTick ==
  \E t \in Pointed(torque) :
  \E published \in IF t.frame % PublishEvery = 0 THEN Messages(t)
                   ELSE {[valid |-> FALSE, after |-> t]} :
    IF t.frame # 0
    THEN /\ torque' = [published.after EXCEPT !.frame = (@ + 1) % PersistEvery]
         /\ UNCHANGED <<torque_file, torque_saved>>
    ELSE \E kept \in Messages(published.after) :
         /\ torque' = [kept.after EXCEPT !.frame = (@ + 1) % PersistEvery]
         /\ torque_file' = Serialized(kept.after, kept.valid)
         /\ torque_saved' = Points(kept.after.rings)

(* controlsd starts: restore() with the parameters of the day; a corrupt   *)
(* file is removed, one of another key left alone.                         *)
TorqueRestart ==
  \E key \in Factors :
    /\ torque' = IF torque_file.is = "whole" /\ KeyMatches(torque_file, key)
                 THEN Restored(torque_file, key) ELSE Fresh(key)
    /\ torque_file' = IF torque_file.is = "corrupt" THEN NoCache ELSE torque_file
    /\ UNCHANGED torque_saved

FileSpoilt ==
  /\ torque_file' \in {NoCache, [is |-> "corrupt"]}
  /\ UNCHANGED <<torque, torque_saved>>

CacheInit ==
  /\ \E key \in Factors : torque = Fresh(key)
  /\ torque_file = NoCache
  /\ torque_saved = Points(NoPoints)

CacheNext == TorqueTick \/ TorqueRestart \/ FileSpoilt
CacheSpec == CacheInit /\ [][CacheNext]_cacheVars

-----------------------------------------------------------------------------
(* Properties *)

(* The factor that steers is near the one of the parameters in force,      *)
(* whatever was fitted, and whatever file another set of parameters left.  *)
FactorIsSane == torque.factor \in torque.key - Sanity .. torque.key + Sanity

(* A restart with the same parameters has the points of the last file, in  *)
(* their order: the next ones replace the oldest, as without the restart.  *)
RestartKeepsPoints ==
  [][TorqueRestart /\ torque_file.is = "whole" =>
       Points(torque'.rings) = IF torque_file.key = torque'.key THEN torque_saved
                               ELSE Points(NoPoints)]_cacheVars

(* The inductive invariant of FactorIsSane: a file that says its factor is *)
(* valid holds one near the key it was learned for, and a factor of a fit  *)
(* lies between the last one and one near the key.                         *)
IsEstimator(t) ==
  t = [rings |-> t.rings, factor |-> t.factor, key |-> t.key, frame |-> t.frame]

CacheInv ==
  /\ IsEstimator(torque) /\ torque.key \in Factors /\ FactorIsSane
  /\ torque_file.is = "whole" =>
       /\ torque_file.key \in Factors
       /\ torque_file.valid
            => torque_file.factor \in torque_file.key - Sanity .. torque_file.key + Sanity
=============================================================================
