--------------------------- MODULE DrivingProofs ---------------------------
(***************************************************************************)
(* Proofs about what reaches the control loop and when, for every value of *)
(* the constants: one section for each component of Driving but the packing *)
(* of USB packets, then the composed module.  Every section goes the same  *)
(* way: the invariant of the component holds at first, every step keeps it, *)
(* and the properties follow from it.                                      *)
(***************************************************************************)
EXTENDS Driving, CanQueueProofs, SequenceTheorems, WellFoundedInduction

-----------------------------------------------------------------------------
(* The two input holds (SafetyHolds).  What a gate remembers is tied to    *)
(* what really happened: the age of the last ready snapshot is the age of  *)
(* the last consent exactly while that snapshot allowed control, and the   *)
(* age of the last usable path is that of the newest good plan (HoldsInv). *)
(* So a decision that rests on a hold rests on something recent.           *)

(* An age moves to the next one, up to the first that no bound accepts. *)
LEMMA OlderStays ==
  ASSUME NEW limit \in Nat, NEW age \in 0 .. limit + 1
  PROVE  Older(age, limit) \in 0 .. limit + 1
BY DEF Older

LEMMA PlanCapIsNat == PlanCap \in Nat /\ PlanCap >= ModelTimeout /\ PlanCap >= PathHold
BY HoldsAssumption DEF PlanCap

LEMMA HoldsInitially == HoldsInit => HoldsInv
<1> SUFFICES ASSUME HoldsInit PROVE HoldsInv
  OBVIOUS
<1> USE HoldsAssumption, PlanCapIsNat DEF HoldsInit
<1>1. panda \in [age : 0 .. StateTimeout + 1, transport : BOOLEAN, safety : BOOLEAN,
                allowed : BOOLEAN]
  OBVIOUS
<1>2. model \in [age : 0 .. ModelTimeout + 1, valid : BOOLEAN, reach : BOOLEAN]
  OBVIOUS
<1>3. /\ ready_age \in 0 .. HealthHold + 1 /\ consent_age \in 0 .. HealthHold + 1
      /\ usable_age \in 0 .. PlanCap + 1 /\ plan_age \in 0 .. PlanCap + 1
  OBVIOUS
<1> QED BY <1>1, <1>2, <1>3 DEF HoldsInv, HoldsTypeOK

LEMMA HoldsStep == HoldsInv /\ [HoldsNext]_holdVars => HoldsInv'
<1> SUFFICES ASSUME HoldsInv, [HoldsNext]_holdVars PROVE HoldsInv'
  OBVIOUS
<1> USE HoldsAssumption, PlanCapIsNat DEF HoldsInv, HoldsTypeOK, snapshots, gates, verdict, history
<1>1. CASE \E transport, safety, allowed \in BOOLEAN : PublishHealth(transport, safety, allowed)
  BY <1>1 DEF PublishHealth
<1>2. CASE PublishDisconnected
  BY <1>2 DEF PublishDisconnected
<1>3. CASE \E age \in 0 .. ModelTimeout + 1, valid, reach \in BOOLEAN : PublishModel(age, valid, reach)
  BY <1>3 DEF PublishModel
<1>4. CASE ElapseHolds
  <2>1. /\ panda' \in [age : 0 .. StateTimeout + 1, transport : BOOLEAN, safety : BOOLEAN,
                       allowed : BOOLEAN]
        /\ model' \in [age : 0 .. ModelTimeout + 1, valid : BOOLEAN, reach : BOOLEAN]
    BY <1>4 DEF ElapseHolds, Older
  <2>2. ready_age' \in 0 .. HealthHold + 1 /\ consent_age' \in 0 .. HealthHold + 1
    BY <1>4, OlderStays DEF ElapseHolds
  <2>3. usable_age' \in 0 .. PlanCap + 1 /\ plan_age' \in 0 .. PlanCap + 1
    BY <1>4, OlderStays DEF ElapseHolds
  <2>4. /\ last_controls_allowed' => consent_age' = ready_age'
        /\ last_usable' => plan_age' = usable_age'
    BY <1>4 DEF ElapseHolds
  <2> QED BY <1>4, <2>1, <2>2, <2>3, <2>4 DEF ElapseHolds
<1>5. CASE GateTick
  <2>1. /\ have_last_ready' \in BOOLEAN /\ last_controls_allowed' \in BOOLEAN
        /\ ready' \in BOOLEAN /\ controls_allowed' \in BOOLEAN
        /\ last_usable' \in BOOLEAN /\ path_usable' \in BOOLEAN /\ path_held' \in BOOLEAN
    BY <1>5, Zenon DEF GateTick, PandaGate, PathGate, ReadyRaw, PandaHeld, TransportReady,
                       RawUsable, PathHeld, RawPathInvalid, ModelFresh
  <2>2. /\ ready_age' \in 0 .. HealthHold + 1 /\ consent_age' \in 0 .. HealthHold + 1
        /\ last_controls_allowed' => consent_age' = ready_age'
    BY <1>5 DEF GateTick, PandaGate
  <2>3. /\ usable_age' \in 0 .. PlanCap + 1 /\ plan_age' \in 0 .. PlanCap + 1
        /\ last_usable' => plan_age' = usable_age'
    BY <1>5 DEF GateTick, PathGate
  <2> QED BY <1>5, <2>1, <2>2, <2>3 DEF GateTick
<1>6. CASE UNCHANGED holdVars
  BY <1>6 DEF holdVars
<1> QED BY <1>1, <1>2, <1>3, <1>4, <1>5, <1>6 DEF HoldsNext, Publish

(* The invariant of the gates holds in every reachable state. *)
THEOREM HoldsInvariant == HoldsSpec => []HoldsInv
  BY HoldsInitially, HoldsStep, PTL DEF HoldsSpec

(* A tick lets control through only on a consent at most HealthHold old    *)
(* that no ready Panda has withdrawn since.                                *)
THEOREM HoldsConsentIsRecent == HoldsSpec => ConsentIsRecent
<1>1. HoldsInv /\ [HoldsNext]_holdVars
        => [GateTick /\ controls_allowed' => consent_age' <= HealthHold]_holdVars
  <2> SUFFICES ASSUME HoldsInv, GateTick, controls_allowed' PROVE consent_age' <= HealthHold
    OBVIOUS
  <2> USE HoldsAssumption DEF HoldsInv, HoldsTypeOK, GateTick, PandaGate
  <2>1. CASE ReadyRaw
    BY <2>1 DEF PandaHeld
  <2>2. CASE ~ReadyRaw
    <3>1. ready_age <= HealthHold /\ last_controls_allowed
      BY <2>2 DEF PandaHeld
    <3>2. consent_age' = consent_age
      BY <2>2
    <3> QED BY <3>1, <3>2
  <2> QED BY <2>1, <2>2
<1> QED BY <1>1, HoldsInvariant, PTL DEF HoldsSpec, ConsentIsRecent

(* A tick accepts a path only from a valid, fresh model with a recent plan *)
(* behind it, held or not.                                                 *)
THEOREM HoldsPathIsRecent == HoldsSpec => PathIsRecent
<1>1. HoldsInv /\ [HoldsNext]_holdVars
        => [GateTick /\ path_usable' =>
              /\ model.valid /\ model.age <= ModelTimeout
              /\ plan_age' <= IF model.reach THEN ModelTimeout ELSE PathHold]_holdVars
  <2> SUFFICES ASSUME HoldsInv, GateTick, path_usable'
               PROVE  /\ model.valid /\ model.age <= ModelTimeout
                      /\ plan_age' <= IF model.reach THEN ModelTimeout ELSE PathHold
    OBVIOUS
  <2> USE HoldsAssumption DEF HoldsInv, HoldsTypeOK, GateTick, PathGate, ModelFresh
  <2>1. CASE RawUsable
    BY <2>1 DEF RawUsable
  <2>2. CASE ~RawUsable
    BY <2>2 DEF PathHeld, RawPathInvalid
  <2> QED BY <2>1, <2>2
<1> QED BY <1>1, HoldsInvariant, PTL DEF HoldsSpec, PathIsRecent

(* Both gates rest on what is recent, for every timeout and hold time.     *)
THEOREM HoldsGatesAreRecent == HoldsSpec => GatesAreRecent
BY HoldsConsentIsRecent, HoldsPathIsRecent DEF GatesAreRecent

-----------------------------------------------------------------------------
(* The pace of the loop (ControlLoop): the gaps between the last sends are *)
(* those that the schedule leaves, so three never fall into one period.    *)

LEMMA LoopInitially == LoopInit => LoopInv
<1> SUFFICES ASSUME LoopInit PROVE LoopInv
  OBVIOUS
<1>1. Period \in Nat /\ Period > 0
  BY LoopAssumption
<1>2. gaps[1] = Period /\ gaps[2] = Period /\ gaps[3] = Period /\ gaps \in [1 .. 3 -> 0 .. Period]
  BY <1>1 DEF LoopInit
<1> QED BY <1>1, <1>2 DEF LoopInit, LoopInv, LoopTypeOK, SendsArePaced, NoBurst

(* The times between the last sends, before and after a step. *)
LEMMA GapTypes ==
  ASSUME LoopInv
  PROVE  /\ Period \in Nat /\ Period > 0 /\ lead \in Int /\ lead >= -Period /\ lead <= Period
         /\ gaps[1] \in 0 .. Period /\ gaps[2] \in 0 .. Period /\ gaps[3] \in 0 .. Period
BY LoopAssumption DEF LoopInv, LoopTypeOK

LEMMA LoopStep == LoopInv /\ [LoopNext]_loopVars => LoopInv'
<1> SUFFICES ASSUME LoopInv, [LoopNext]_loopVars PROVE LoopInv'
  OBVIOUS
<1> USE GapTypes
<1>1. CASE BeginTick
  BY <1>1 DEF BeginTick, LoopInv, LoopTypeOK, SendsArePaced, NoBurst
<1>2. CASE SendTick
  <2>1. CASE gaps' = gaps
    BY <1>2, <2>1 DEF SendTick, LoopInv, LoopTypeOK, SendsArePaced, NoBurst
  <2>2. CASE gaps' = <<0, gaps[1], gaps[2]>>
    <3>1. /\ gaps' \in [1 .. 3 -> 0 .. Period]
          /\ gaps'[1] = 0 /\ gaps'[2] = gaps[1] /\ gaps'[3] = gaps[2]
      BY <2>2
    <3> QED BY <1>2, <3>1 DEF SendTick, LoopInv, LoopTypeOK, SendsArePaced, NoBurst
  <2> QED BY <1>2, <2>1, <2>2 DEF SendTick
<1>3. CASE FinishTick
  BY <1>3 DEF FinishTick, Schedule, LoopInv, LoopTypeOK, SendsArePaced, NoBurst
<1>4. CASE Pass
  <2>1. /\ gaps' \in [1 .. 3 -> 0 .. Period]
        /\ gaps'[1] = IF gaps[1] < Period THEN gaps[1] + 1 ELSE Period
        /\ gaps'[2] = gaps[2] /\ gaps'[3] = gaps[3]
    BY <1>4 DEF Pass, AtMost, LoopInv, LoopTypeOK
  <2> QED BY <1>4, <2>1 DEF Pass, LoopInv, LoopTypeOK, SendsArePaced, NoBurst
<1>5. CASE DrainOne \/ PutRx \/ UNCHANGED loopVars
  BY <1>5 DEF DrainOne, PutRx, loopVars, LoopInv, LoopTypeOK, SendsArePaced, NoBurst
<1> QED BY <1>1, <1>2, <1>3, <1>4, <1>5 DEF LoopNext

(* Of three sends in a row the last comes a period after the first or      *)
(* later, however late ticks run and whatever is sent in between.          *)
THEOREM LoopNeverBursts == LoopSpec => []NoBurst
<1>1. LoopInv => NoBurst
  BY DEF LoopInv
<1> QED BY <1>1, LoopInitially, LoopStep, PTL DEF LoopSpec

-----------------------------------------------------------------------------
(* The state of the car (VehicleState): while no message is missing, the   *)
(* estimate of the cruise control is what the car does; what a lost message*)
(* would have told is told by the next one, or the estimate is not trusted.*)

StatesOver(U, B, N) == [button : U, main : B, brake : B, active : B, set : N, scc : B, cruise : B]

(* The records that the steps write, under names the provers do not look into. *)
OfActive(v, x) == [v EXCEPT !.active = x]
OfSpeed(v, x, n) == [v EXCEPT !.active = x, !.set = n]
OfButton(v, b, m) == [v EXCEPT !.button = b, !.main = m]
OfCruise(v, y) == [v EXCEPT !.cruise = y]

LEMMA StateTyped ==
  ASSUME NEW U, NEW B, NEW N, NEW v \in StatesOver(U, B, N),
         NEW b \in U, NEW m \in B, NEW x \in B, NEW y \in B, NEW n \in N
  PROVE  /\ [v EXCEPT !.active = x] \in StatesOver(U, B, N)
         /\ [v EXCEPT !.active = x, !.set = n] \in StatesOver(U, B, N)
         /\ [v EXCEPT !.button = b, !.main = m] \in StatesOver(U, B, N)
         /\ [v EXCEPT !.cruise = y] \in StatesOver(U, B, N)
         /\ [v EXCEPT !.brake = m, !.active = x, !.cruise = y] \in StatesOver(U, B, N)
         /\ [v EXCEPT !.scc = m, !.cruise = y] \in StatesOver(U, B, N)
BY DEF StatesOver

LEMMA FieldsOfActive ==
  ASSUME NEW U, NEW B, NEW N, NEW v \in StatesOver(U, B, N), NEW x
  PROVE  /\ OfActive(v, x).active = x /\ OfActive(v, x).set = v.set /\ OfActive(v, x).brake = v.brake /\ OfActive(v, x).scc = v.scc
         /\ OfActive(v, x).cruise = v.cruise /\ OfActive(v, x).button = v.button /\ OfActive(v, x).main = v.main
BY DEF StatesOver, OfActive

LEMMA FieldsOfSpeed ==
  ASSUME NEW U, NEW B, NEW N, NEW v \in StatesOver(U, B, N), NEW x, NEW n
  PROVE  /\ OfSpeed(v, x, n).active = x /\ OfSpeed(v, x, n).set = n /\ OfSpeed(v, x, n).brake = v.brake /\ OfSpeed(v, x, n).scc = v.scc
         /\ OfSpeed(v, x, n).cruise = v.cruise /\ OfSpeed(v, x, n).button = v.button /\ OfSpeed(v, x, n).main = v.main
BY DEF StatesOver, OfSpeed

LEMMA FieldsOfButton ==
  ASSUME NEW U, NEW B, NEW N, NEW v \in StatesOver(U, B, N), NEW b, NEW m
  PROVE  /\ OfButton(v, b, m).active = v.active /\ OfButton(v, b, m).set = v.set /\ OfButton(v, b, m).brake = v.brake /\ OfButton(v, b, m).scc = v.scc
         /\ OfButton(v, b, m).cruise = v.cruise /\ OfButton(v, b, m).button = b /\ OfButton(v, b, m).main = m
BY DEF StatesOver, OfButton

LEMMA FieldsOfCruise ==
  ASSUME NEW U, NEW B, NEW N, NEW v \in StatesOver(U, B, N), NEW y
  PROVE  /\ OfCruise(v, y).active = v.active /\ OfCruise(v, y).set = v.set /\ OfCruise(v, y).brake = v.brake /\ OfCruise(v, y).scc = v.scc
         /\ OfCruise(v, y).cruise = y /\ OfCruise(v, y).button = v.button /\ OfCruise(v, y).main = v.main
BY DEF StatesOver, OfCruise

LEMMA EstimateTells ==
  ASSUME NEW v \in VehicleStates, NEW button \in Buttons \cup {"none"}, NEW main \in BOOLEAN,
         NEW speed \in 1 .. TopSpeed
  PROVE  LET e == Estimated(v, button, main, speed)
             pressed == IF WentDown(v, button) THEN button ELSE "none"
             stays == v.active /\ ~(main /\ ~v.main)
         IN  /\ e \in VehicleStates
             /\ e.button = button /\ (e.main <=> main) /\ (e.brake <=> v.brake) /\ (e.scc <=> v.scc)
             /\ v.scc => (e.cruise <=> v.cruise)
             /\ ~(pressed \in {"set", "resume"} /\ ~v.brake) =>
                   e.set = v.set /\ (e.active <=> stays /\ pressed # "cancel")
             /\ pressed \in {"set", "resume"} /\ ~v.brake =>
                  /\ e.active
                  /\ e.set = IF v.set = 0 THEN speed
                             ELSE IF pressed = "set" THEN IF stays THEN Slower(v.set) ELSE speed
                             ELSE IF stays THEN v.set + 1 ELSE v.set
<1> DEFINE released == IF main /\ ~v.main THEN [v EXCEPT !.active = FALSE] ELSE v
           pressed == IF WentDown(v, button) THEN button ELSE "none"
           stays == v.active /\ ~(main /\ ~v.main)
           counted ==
             CASE pressed = "cancel" -> [released EXCEPT !.active = FALSE]
               [] pressed = "set" /\ ~v.brake ->
                    [released EXCEPT !.active = TRUE,
                                     !.set = IF released.active /\ v.set # 0 THEN Slower(v.set)
                                             ELSE speed]
               [] pressed = "resume" /\ ~v.brake ->
                    [released EXCEPT !.active = TRUE,
                                     !.set = IF v.set = 0 THEN speed
                                             ELSE IF released.active THEN v.set + 1 ELSE v.set]
               [] OTHER -> released
           kept == [counted EXCEPT !.button = button, !.main = main]
           e == [kept EXCEPT !.cruise = IF v.scc THEN v.cruise ELSE kept.active]
<1> DEFINE U == Buttons \cup {"none"}
           S == StatesOver(U, BOOLEAN, Nat)
<1>0. Estimated(v, button, main, speed) = e
  BY DEF Estimated
<1>1. VehicleStates = S /\ v \in S /\ pressed \in U /\ speed \in Nat /\ v.set \in Nat
      /\ Slower(v.set) \in Nat /\ v.active \in BOOLEAN /\ v.cruise \in BOOLEAN /\ v.scc \in BOOLEAN
      /\ v.brake \in BOOLEAN /\ v.main \in BOOLEAN
  BY VehicleAssumption DEF VehicleStates, StatesOver, Slower
<1>a. PICK off \in BOOLEAN, on \in BOOLEAN : off = FALSE /\ on = TRUE
  OBVIOUS
<1>2. /\ released \in S /\ (released.active <=> stays) /\ released.set = v.set
      /\ (released.brake <=> v.brake) /\ (released.scc <=> v.scc) /\ (released.cruise <=> v.cruise)
  <2>1. CASE main /\ ~v.main
    <3>1. released = OfActive(v, off)
      BY <1>a, <2>1 DEF OfActive
    <3>2. OfActive(v, off) \in S
      BY <1>1, <3>1, StateTyped, Zenon DEF OfActive
    <3> HIDE DEF released, S
    <3>3. /\ released.active = off /\ released.set = v.set /\ released.brake = v.brake
          /\ released.scc = v.scc /\ released.cruise = v.cruise
      <4>1. v \in StatesOver(U, BOOLEAN, Nat)
        BY <1>1 DEF S
      <4> QED BY <4>1, <3>1, FieldsOfActive
    <3>4. released \in S
      BY <3>1, <3>2
    <3> QED BY <1>a, <2>1, <3>3, <3>4, Zenon
  <2>2. CASE ~(main /\ ~v.main)
    BY <1>1, <2>2, Zenon
  <2> QED BY <2>1, <2>2
<1> HIDE DEF released
<1> DEFINE takes == pressed \in {"set", "resume"} /\ ~v.brake
           set == IF v.set = 0 THEN speed
                  ELSE IF pressed = "set" THEN IF stays THEN Slower(v.set) ELSE speed
                  ELSE IF stays THEN v.set + 1 ELSE v.set
<1>3. /\ counted \in S /\ (counted.active <=> takes \/ (stays /\ pressed # "cancel"))
      /\ counted.set = (IF takes THEN set ELSE v.set)
      /\ (counted.brake <=> v.brake) /\ (counted.scc <=> v.scc) /\ (counted.cruise <=> v.cruise)
  <2>1. CASE pressed = "cancel"
    <3>1. counted = OfActive(released, off) /\ ~takes
      BY <1>a, <2>1 DEF OfActive
    <3>2. OfActive(released, off) \in S
      BY <1>2, <3>1, StateTyped, Zenon DEF OfActive
    <3> HIDE DEF counted
    <3>3. /\ counted.active = off /\ counted.set = released.set /\ counted.brake = released.brake
          /\ counted.scc = released.scc /\ counted.cruise = released.cruise
      BY <1>2, <3>1, FieldsOfActive
    <3>4. /\ counted \in S /\ (counted.active <=> FALSE) /\ (counted.brake <=> v.brake)
          /\ (counted.scc <=> v.scc) /\ (counted.cruise <=> v.cruise)
      BY <1>a, <1>2, <3>1, <3>2, <3>3, Zenon
    <3>5. counted.set = v.set
      BY <1>2, <3>3
    <3> QED BY <2>1, <3>1, <3>4, <3>5, Zenon
  <2>2. CASE takes
    <3>0. set \in Nat
      BY <1>1
    <3>1. counted = OfSpeed(released, on, set)
      BY <1>a, <2>2, <1>1, <1>2 DEF OfSpeed
    <3> HIDE DEF counted, set
    <3>2. counted \in S
      BY <1>2, <3>0, <3>1, StateTyped, Zenon DEF OfSpeed
    <3>3. /\ counted.active = on /\ counted.set = set /\ counted.brake = released.brake
          /\ counted.scc = released.scc /\ counted.cruise = released.cruise
      BY <1>2, <3>1, FieldsOfSpeed
    <3> QED BY <1>a, <1>2, <2>2, <3>2, <3>3, Zenon
  <2>3. CASE pressed # "cancel" /\ ~takes
    <3>1. counted = released
      BY <2>3
    <3> HIDE DEF counted
    <3> QED BY <1>2, <2>3, <3>1, Zenon
  <2> QED BY <2>1, <2>2, <2>3
<1> HIDE DEF counted
<1>4. /\ kept \in S /\ (kept.active <=> counted.active) /\ kept.set = counted.set
      /\ (kept.brake <=> counted.brake) /\ (kept.scc <=> counted.scc)
      /\ kept.button = button /\ (kept.main <=> main)
  <2>1. kept \in S
    BY <1>3, StateTyped, Zenon
  <2>0. kept = OfButton(counted, button, main)
    BY DEF OfButton
  <2> HIDE DEF kept
  <2>2. /\ kept.active = counted.active /\ kept.set = counted.set /\ kept.brake = counted.brake
        /\ kept.scc = counted.scc /\ kept.button = button /\ kept.main = main
    BY <1>3, <2>0, FieldsOfButton
  <2> QED BY <2>1, <2>2, Zenon
<1> HIDE DEF kept
<1>5. /\ e \in S /\ (e.active <=> kept.active) /\ e.set = kept.set
      /\ (e.brake <=> kept.brake) /\ (e.scc <=> kept.scc)
      /\ e.button = kept.button /\ (e.main <=> kept.main)
      /\ (e.cruise <=> IF v.scc THEN v.cruise ELSE kept.active)
  <2>0. (IF v.scc THEN v.cruise ELSE kept.active) \in BOOLEAN
    BY <1>1, <1>4 DEF StatesOver
  <2>1. e \in S
    BY <1>4, <2>0, StateTyped, Zenon
  <2> DEFINE cruise == IF v.scc THEN v.cruise ELSE kept.active
  <2>3. e = OfCruise(kept, cruise)
    BY DEF OfCruise
  <2> HIDE DEF e, cruise
  <2>2. /\ e.active = kept.active /\ e.set = kept.set /\ e.brake = kept.brake
        /\ e.scc = kept.scc /\ e.button = kept.button /\ e.main = kept.main
        /\ e.cruise = cruise
    BY <1>4, <2>3, FieldsOfCruise
  <2> QED BY <2>1, <2>2, Zenon DEF cruise
<1> HIDE DEF e, S, stays, takes, set, pressed
<1>6. /\ e \in VehicleStates /\ e.button = button /\ (e.main <=> main)
      /\ (e.brake <=> v.brake) /\ (e.scc <=> v.scc) /\ (v.scc => (e.cruise <=> v.cruise))
  BY <1>1, <1>3, <1>4, <1>5, Zenon
<1>7. (e.active <=> takes \/ (stays /\ pressed # "cancel")) /\ e.set = IF takes THEN set ELSE v.set
  BY <1>3, <1>4, <1>5
<1>8. /\ ~takes => e.set = v.set /\ (e.active <=> stays /\ pressed # "cancel")
      /\ takes => e.active /\ e.set = set
  BY <1>7
<1> QED BY <1>0, <1>6, <1>8, Zenon DEF stays, takes, set, pressed

LEMMA BrakeTells ==
  ASSUME NEW v \in VehicleStates, NEW brake \in BOOLEAN
  PROVE  LET w == BrakeTold(v, brake) IN
         /\ w \in VehicleStates /\ (w.brake <=> brake) /\ (w.active <=> v.active /\ ~brake)
         /\ (w.cruise <=> v.cruise /\ (v.scc \/ ~brake)) /\ w.set = v.set /\ (w.scc <=> v.scc)
         /\ w.button = v.button /\ (w.main <=> v.main)
<1>1. PICK y \in BOOLEAN, z \in BOOLEAN :
        y = (v.active /\ ~brake) /\ z = (v.cruise /\ (v.scc \/ ~brake))
  OBVIOUS
<1>2. PICK w : w = BrakeTold(v, brake)
  OBVIOUS
<1>3. w = [v EXCEPT !.brake = brake, !.active = y, !.cruise = z]
  BY <1>1, <1>2 DEF BrakeTold, VehicleStates
<1>4. /\ w \in VehicleStates
      /\ w.brake = brake /\ w.active = y /\ w.cruise = z
      /\ w.set = v.set /\ w.scc = v.scc /\ w.button = v.button /\ w.main = v.main
  BY <1>3 DEF VehicleStates
<1> QED BY <1>1, <1>2, <1>4, Zenon

LEMMA SccTells ==
  ASSUME NEW v \in VehicleStates, NEW on \in BOOLEAN
  PROVE  LET w == SccTold(v, on) IN
         /\ w \in VehicleStates /\ w.scc /\ (w.cruise <=> on) /\ (w.active <=> v.active)
         /\ (w.brake <=> v.brake) /\ w.set = v.set /\ w.button = v.button /\ (w.main <=> v.main)
<1>1. PICK x \in BOOLEAN : x = TRUE
  OBVIOUS
<1>2. PICK w : w = SccTold(v, on)
  OBVIOUS
<1>3. w = [v EXCEPT !.scc = x, !.cruise = on]
  BY <1>1, <1>2 DEF SccTold
<1>4. /\ w \in VehicleStates
      /\ w.scc = x /\ w.cruise = on /\ w.active = v.active
      /\ w.brake = v.brake /\ w.set = v.set /\ w.button = v.button /\ w.main = v.main
  BY <1>3 DEF VehicleStates
<1> QED BY <1>1, <1>2, <1>4, Zenon

-----------------------------------------------------------------------------
(* The car under its driver. *)

(* The car after the driver pressed `button` driving at `speed`. *)
AfterPress(c, button, speed) == Pressed([c EXCEPT !.speed = speed, !.button = button], button)

LEMMA PressTells ==
  ASSUME NEW c \in Cars, NEW button \in Buttons, NEW speed \in 1 .. TopSpeed,
         NEW w, w = AfterPress(c, button, speed)
  PROVE  /\ w \in Cars /\ w.button = button /\ w.speed = speed
         /\ (w.brake <=> c.brake) /\ (w.main <=> c.main)
         /\ w.on <=> button # "cancel" /\ (c.on \/ ~c.brake)
         /\ w.set = IF button = "cancel" \/ c.brake THEN c.set
                    ELSE IF button = "set" THEN IF c.on THEN Slower(c.set) ELSE speed
                    ELSE IF c.set = 0 THEN speed
                    ELSE IF c.on THEN c.set + 1 ELSE c.set
<1> DEFINE takes == button # "cancel" /\ ~c.brake
           set == IF ~takes THEN c.set
                  ELSE IF button = "set" THEN IF c.on THEN Slower(c.set) ELSE speed
                  ELSE IF c.set = 0 THEN speed
                  ELSE IF c.on THEN c.set + 1 ELSE c.set
<1>1. /\ c.on \in BOOLEAN /\ c.set \in Nat /\ c.brake \in BOOLEAN /\ c.main \in BOOLEAN
      /\ c.button \in Buttons \cup {"none"} /\ set \in Nat
  BY VehicleAssumption DEF Cars, Slower
<1>2. PICK on \in BOOLEAN : on = (takes \/ (c.on /\ button # "cancel"))
  OBVIOUS
<1>4. w = [c EXCEPT !.on = on, !.set = set, !.speed = speed, !.brake = c.brake,
                    !.button = button, !.main = c.main]
  <2>1. CASE button = "cancel"
    <3>1. (on = FALSE) /\ set = c.set
      BY <1>2, <2>1
    <3>2. w = [c EXCEPT !.speed = speed, !.button = button, !.on = FALSE]
      BY <2>1 DEF AfterPress, Pressed, Cars
    <3> HIDE DEF set
    <3> QED BY <3>1, <3>2 DEF Cars
  <2>2. CASE button # "cancel" /\ c.brake
    <3>1. (on = c.on) /\ set = c.set
      BY <1>1, <1>2, <2>2
    <3>2. w = [c EXCEPT !.speed = speed, !.button = button]
      BY <2>2 DEF AfterPress, Pressed, Cars
    <3> HIDE DEF set
    <3> QED BY <3>1, <3>2 DEF Cars
  <2>3. CASE takes
    <3>1. on = TRUE
      BY <1>1, <1>2, <2>3
    <3>2. w = [c EXCEPT !.speed = speed, !.button = button, !.on = TRUE, !.set = set]
      BY <2>3 DEF AfterPress, Pressed, Cars
    <3> HIDE DEF set
    <3> QED BY <3>1, <3>2 DEF Cars
  <2> QED BY <1>1, <2>1, <2>2, <2>3
<1> HIDE DEF set
<1>5. /\ w \in Cars /\ w.on = on /\ w.set = set /\ w.speed = speed /\ w.brake = c.brake
      /\ w.button = button /\ w.main = c.main
  <2>1. button \in Buttons \cup {"none"}
    OBVIOUS
  <2> QED BY <1>1, <1>4, <2>1 DEF Cars
<1>6. w.on <=> button # "cancel" /\ (c.on \/ ~c.brake)
  BY <1>2, <1>5, Zenon
<1> HIDE DEF takes
<1> QED BY <1>1, <1>5, <1>6 DEF set, takes

-----------------------------------------------------------------------------
(* The inductive invariant. *)

LEMMA VehicleInitially == VehicleInit => VehicleInv
<1> SUFFICES ASSUME VehicleInit PROVE VehicleInv
  OBVIOUS
<1>1. /\ car.on = FALSE /\ car.set = 0 /\ car.brake = FALSE /\ car.button = "none" /\ car.main = FALSE
      /\ vehicle.button = "none" /\ vehicle.main = FALSE /\ vehicle.brake = FALSE
      /\ vehicle.active = FALSE /\ vehicle.set = 0 /\ vehicle.scc = FALSE
      /\ vehicle.cruise = FALSE /\ news = {} /\ misheard = FALSE
  BY DEF VehicleInit
<1>2. VehicleTypeOK
  BY VehicleAssumption DEF VehicleInit, VehicleTypeOK, Cars, VehicleStates
<1>3. MessagesWillTell /\ CruiseHolds /\ CruiseIsKnown
  BY <1>1 DEF MessagesWillTell, CruiseHolds, CruiseIsKnown, StaysOn, WentDown
<1> QED BY <1>2, <1>3 DEF VehicleInv

(* What the invariant says of a car and what is known of it, and the same  *)
(* with what the next CLU11 will tell spelled out.                         *)
Remains(c, v) == v.active /\ ~(c.main /\ ~v.main)
Pressing(c, v) == IF WentDown(v, c.button) THEN c.button ELSE "none"
Takes(c, v) == Pressing(c, v) \in {"set", "resume"} /\ ~v.brake
SetTo(c, v) == IF v.set = 0 THEN c.speed
               ELSE IF Pressing(c, v) = "set" THEN IF Remains(c, v) THEN Slower(v.set) ELSE c.speed
               ELSE IF Remains(c, v) THEN v.set + 1 ELSE v.set

ToldOf(c, v, n, mis) ==
  LET said == Estimated(v, c.button, c.main, c.speed) IN
  /\ "clu" \notin n => v.button = c.button /\ (v.main <=> c.main)
  /\ "tcs" \notin n => (v.brake <=> c.brake)
  /\ ~mis /\ ("clu" \in n => "tcs" \in n) =>
       /\ v.set = c.set /\ (c.on <=> v.active /\ ~c.brake /\ ~(c.main /\ ~v.main))
       /\ ~WentDown(v, c.button)
  /\ ~mis /\ "clu" \in n /\ "tcs" \notin n =>
       said.set = c.set /\ (said.active <=> c.on)
  /\ {"clu", "tcs"} \cap n = {} /\ ~mis =>
       v.active = c.on /\ v.set = c.set
  /\ v.brake => ~v.active
  /\ v.scc /\ "scc" \notin n => v.cruise = c.on

Spelled(c, v, n, mis) ==
  /\ "clu" \notin n => v.button = c.button /\ (v.main <=> c.main)
  /\ "tcs" \notin n => (v.brake <=> c.brake)
  /\ ~mis /\ ("clu" \in n => "tcs" \in n) =>
       /\ v.set = c.set /\ (c.on <=> Remains(c, v) /\ ~c.brake)
       /\ ~WentDown(v, c.button)
  /\ ~mis /\ "clu" \in n /\ "tcs" \notin n =>
       /\ c.set = (IF Takes(c, v) THEN SetTo(c, v) ELSE v.set)
       /\ c.on <=> Takes(c, v) \/ (Remains(c, v) /\ Pressing(c, v) # "cancel")
  /\ "clu" \notin n /\ "tcs" \notin n /\ ~mis => (v.active <=> c.on) /\ v.set = c.set
  /\ v.brake => ~v.active
  /\ v.scc /\ "scc" \notin n => (v.cruise <=> c.on)

LEMMA ToldIsSpelled ==
  ASSUME NEW c \in Cars, NEW v \in VehicleStates, NEW n, NEW mis
  PROVE  ToldOf(c, v, n, mis) <=> Spelled(c, v, n, mis)
<1> DEFINE said == Estimated(v, c.button, c.main, c.speed)
           empty == {"clu", "tcs"} \cap n = {}
           activeIs == v.active = c.on
           cruiseIs == v.cruise = c.on
<1>1. /\ c.button \in Buttons \cup {"none"} /\ c.main \in BOOLEAN
      /\ c.speed \in 1 .. TopSpeed /\ c.on \in BOOLEAN /\ v.active \in BOOLEAN
      /\ v.cruise \in BOOLEAN
  BY DEF Cars, VehicleStates
<1>2. /\ said.set = (IF Takes(c, v) THEN SetTo(c, v) ELSE v.set)
      /\ said.active <=> Takes(c, v) \/ (Remains(c, v) /\ Pressing(c, v) # "cancel")
  <2>1. /\ ~Takes(c, v) => said.set = v.set /\ (said.active <=> Remains(c, v) /\ Pressing(c, v) # "cancel")
        /\ Takes(c, v) => said.active /\ said.set = SetTo(c, v)
    BY <1>1, EstimateTells DEF Takes, Pressing, Remains, SetTo
  <2> HIDE DEF said
  <2> QED BY <2>1
<1>3. /\ empty <=> "clu" \notin n /\ "tcs" \notin n
      /\ activeIs <=> (v.active <=> c.on)
      /\ cruiseIs <=> (v.cruise <=> c.on)
  BY <1>1
<1>4. ToldOf(c, v, n, mis) <=>
        /\ "clu" \notin n => v.button = c.button /\ (v.main <=> c.main)
        /\ "tcs" \notin n => (v.brake <=> c.brake)
        /\ ~mis /\ ("clu" \in n => "tcs" \in n) =>
             /\ v.set = c.set /\ (c.on <=> v.active /\ ~c.brake /\ ~(c.main /\ ~v.main))
             /\ ~WentDown(v, c.button)
        /\ ~mis /\ "clu" \in n /\ "tcs" \notin n =>
             said.set = c.set /\ (said.active <=> c.on)
        /\ empty /\ ~mis => activeIs /\ v.set = c.set
        /\ v.brake => ~v.active
        /\ v.scc /\ "scc" \notin n => cruiseIs
  BY Zenon DEF ToldOf
<1> HIDE DEF said, empty, activeIs, cruiseIs
<1> QED BY <1>2, <1>3, <1>4 DEF Spelled, Remains

LEMMA InvIsSpelled ==
  /\ VehicleTypeOK => (MessagesWillTell /\ CruiseIsKnown <=> Spelled(car, vehicle, news, misheard))
  /\ VehicleTypeOK' =>
       (MessagesWillTell' /\ CruiseIsKnown' <=> Spelled(car', vehicle', news', misheard'))
<1>1. VehicleTypeOK => (ToldOf(car, vehicle, news, misheard) <=> Spelled(car, vehicle, news, misheard))
  BY ToldIsSpelled DEF VehicleTypeOK
<1>2. VehicleTypeOK' =>
        (ToldOf(car', vehicle', news', misheard') <=> Spelled(car', vehicle', news', misheard'))
  BY ToldIsSpelled DEF VehicleTypeOK
<1>3. MessagesWillTell /\ CruiseIsKnown <=> ToldOf(car, vehicle, news, misheard)
  BY Zenon DEF MessagesWillTell, CruiseIsKnown, ToldOf, StaysOn
<1>4. MessagesWillTell' /\ CruiseIsKnown' <=> ToldOf(car', vehicle', news', misheard')
  BY Zenon DEF MessagesWillTell, CruiseIsKnown, ToldOf, StaysOn
<1> QED BY <1>1, <1>2, <1>3, <1>4, Zenon

LEMMA VehicleStep == VehicleInv /\ [VehicleNext]_vehicleVars => VehicleInv'
<1> SUFFICES ASSUME VehicleInv, [VehicleNext]_vehicleVars PROVE VehicleInv'
  OBVIOUS
<1>1. /\ VehicleTypeOK /\ car \in Cars /\ vehicle \in VehicleStates
      /\ Spelled(car, vehicle, news, misheard) /\ CruiseHolds
  BY InvIsSpelled DEF VehicleInv, VehicleTypeOK
<1> SUFFICES car' \in Cars /\ vehicle' \in VehicleStates
             /\ Spelled(car', vehicle', news', misheard') /\ CruiseHolds'
  BY InvIsSpelled DEF VehicleInv, VehicleTypeOK
<1>2. /\ car.on \in BOOLEAN /\ car.set \in Nat /\ car.speed \in 1 .. TopSpeed /\ car.brake \in BOOLEAN
      /\ car.button \in Buttons \cup {"none"} /\ car.main \in BOOLEAN
      /\ vehicle.button \in Buttons \cup {"none"} /\ vehicle.set \in Nat
  BY <1>1 DEF Cars, VehicleStates
<1>3. CASE PressButton
  <2>1. PICK button \in Buttons, speed \in 1 .. TopSpeed :
          car' = AfterPress(car, button, speed)
    BY <1>3 DEF PressButton, AfterPress
  <2>2. /\ "clu" \notin news /\ car.button = "none" /\ ~car.main
        /\ news' = news \cup {"clu", "scc"} /\ misheard' = (misheard \/ "tcs" \in news)
        /\ vehicle' = vehicle
    BY <1>3 DEF PressButton
  <2>3. /\ car' \in Cars /\ car'.button = button /\ car'.speed = speed
        /\ (car'.brake <=> car.brake) /\ (car'.main <=> car.main)
        /\ car'.on <=> button # "cancel" /\ (car.on \/ ~car.brake)
        /\ car'.set = IF button = "cancel" \/ car.brake THEN car.set
                      ELSE IF button = "set" THEN IF car.on THEN Slower(car.set) ELSE speed
                      ELSE IF car.set = 0 THEN speed
                      ELSE IF car.on THEN car.set + 1 ELSE car.set
    BY <1>1, <2>1, PressTells
  <2>4. CruiseHolds'
    BY <1>1, <1>2, <2>3 DEF CruiseHolds, Slower
  <2>5. /\ vehicle.button = "none" /\ ~vehicle.main /\ (Remains(car, vehicle) <=> vehicle.active)
        /\ WentDown(vehicle, car'.button) /\ (Remains(car', vehicle) <=> vehicle.active)
        /\ Pressing(car', vehicle) = button
    BY <1>1, <1>2, <2>2, <2>3 DEF Spelled, Remains, WentDown, Pressing, Buttons
  <2>6. /\ Takes(car', vehicle) <=> button # "cancel" /\ ~vehicle.brake
        /\ SetTo(car', vehicle) =
             IF vehicle.set = 0 THEN speed
             ELSE IF button = "set" THEN IF vehicle.active THEN Slower(vehicle.set) ELSE speed
             ELSE IF vehicle.active THEN vehicle.set + 1 ELSE vehicle.set
    BY <2>3, <2>5 DEF Takes, SetTo, Buttons
  <2>7. /\ vehicle.brake => ~vehicle.active
        /\ "tcs" \notin news => (vehicle.brake <=> car.brake)
        /\ ~misheard => vehicle.set = car.set /\ (car.on <=> vehicle.active /\ ~car.brake)
    BY <1>1, <2>2, <2>5 DEF Spelled
  <2>8. /\ "clu" \in news' /\ "scc" \in news' /\ ("tcs" \in news' <=> "tcs" \in news)
        /\ ~misheard' /\ "tcs" \notin news' => ~misheard /\ "tcs" \notin news
        /\ "tcs" \in news' => misheard'
    BY <2>2
  <2>9. ~misheard' /\ "tcs" \notin news' =>
          /\ car'.set = (IF Takes(car', vehicle) THEN SetTo(car', vehicle) ELSE vehicle.set)
          /\ car'.on <=> Takes(car', vehicle) \/ (Remains(car', vehicle) /\ Pressing(car', vehicle) # "cancel")
    BY <1>1, <1>2, <2>3, <2>5, <2>6, <2>7, <2>8 DEF CruiseHolds
  <2>10. Spelled(car', vehicle, news', misheard')
    BY <2>3, <2>7, <2>8, <2>9 DEF Spelled
  <2> QED BY <1>1, <2>2, <2>3, <2>4, <2>10
<1>4. CASE PressMain
  <2>1. /\ "clu" \notin news /\ car.button = "none" /\ ~car.main
        /\ news' = news \cup {"clu", "scc"} /\ misheard' = misheard /\ vehicle' = vehicle
    BY <1>4 DEF PressMain
  <2>2. PICK t \in BOOLEAN, f \in BOOLEAN : t = TRUE /\ f = FALSE
    OBVIOUS
  <2>3. car' = [car EXCEPT !.main = t, !.on = f]
    BY <1>4, <2>2 DEF PressMain
  <2>4. /\ car' \in Cars /\ car'.main = t /\ car'.on = f /\ car'.set = car.set
        /\ car'.speed = car.speed /\ car'.brake = car.brake /\ car'.button = car.button
    BY <1>1, <2>3 DEF Cars
  <2>5. car'.main /\ ~car'.on
    BY <2>2, <2>4, Zenon
  <2>6. CruiseHolds'
    BY <2>5 DEF CruiseHolds
  <2>7. /\ vehicle.button = "none" /\ ~vehicle.main /\ ~Remains(car', vehicle)
        /\ Pressing(car', vehicle) = "none" /\ ~WentDown(vehicle, car'.button)
        /\ ~Takes(car', vehicle)
    BY <1>1, <2>1, <2>4, <2>5 DEF Spelled, Remains, WentDown, Pressing, Takes
  <2>8. Spelled(car', vehicle, news', misheard')
    BY <1>1, <2>1, <2>4, <2>5, <2>7 DEF Spelled
  <2> QED BY <1>1, <2>1, <2>4, <2>6, <2>8
<1>5. CASE Release
  <2>1. /\ "clu" \notin news
        /\ news' = news \cup {"clu"} /\ misheard' = misheard /\ vehicle' = vehicle
    BY <1>5 DEF Release
  <2>2. PICK f \in BOOLEAN : f = FALSE
    OBVIOUS
  <2>3. car' = [car EXCEPT !.button = "none", !.main = f]
    BY <1>5, <2>2 DEF Release
  <2>4. /\ car' \in Cars /\ car'.main = f /\ car'.on = car.on /\ car'.set = car.set
        /\ car'.speed = car.speed /\ car'.brake = car.brake /\ car'.button = "none"
    BY <1>1, <2>3 DEF Cars
  <2>5. ~car'.main
    BY <2>2, <2>4, Zenon
  <2>6. CruiseHolds'
    BY <1>1, <2>4 DEF CruiseHolds
  <2>7. /\ ~WentDown(vehicle, car'.button) /\ Pressing(car', vehicle) = "none"
        /\ ~Takes(car', vehicle) /\ (Remains(car', vehicle) <=> vehicle.active)
        /\ (vehicle.main <=> car.main)
    BY <1>1, <2>1, <2>4, <2>5 DEF Spelled, Remains, WentDown, Pressing, Takes
  <2>8. Spelled(car', vehicle, news', misheard')
    BY <1>1, <2>1, <2>4, <2>5, <2>7 DEF Spelled, Remains
  <2> QED BY <1>1, <2>1, <2>4, <2>6, <2>8
<1>6. CASE Brake
  <2>1. /\ "tcs" \notin news /\ news' = news \cup {"tcs", "scc"}
        /\ misheard' = (misheard \/ "clu" \in news) /\ vehicle' = vehicle
    BY <1>6 DEF Brake
  <2>2. PICK b \in BOOLEAN, o \in BOOLEAN : b = ~car.brake /\ o = (car.on /\ car.brake)
    OBVIOUS
  <2>3. car' = [car EXCEPT !.brake = b, !.on = o]
    BY <1>1, <1>6, <2>2 DEF Brake, Cars
  <2>4. /\ car' \in Cars /\ car'.brake = b /\ car'.on = o /\ car'.set = car.set
        /\ car'.speed = car.speed /\ car'.main = car.main /\ car'.button = car.button
    BY <1>1, <2>3 DEF Cars
  <2>5. (car'.brake <=> ~car.brake) /\ (car'.on <=> car.on /\ car.brake)
    BY <2>2, <2>4, Zenon
  <2>6. CruiseHolds' /\ ~car'.on
    BY <1>1, <2>5 DEF CruiseHolds
  <2>7. /\ Remains(car', vehicle) <=> Remains(car, vehicle)
        /\ WentDown(vehicle, car'.button) <=> WentDown(vehicle, car.button)
    BY <2>4 DEF Remains, WentDown
  <2>8. Spelled(car', vehicle, news', misheard')
    <3>1. ~misheard' => ~misheard /\ "clu" \notin news /\ "clu" \notin news'
      BY <2>1
    <3>2. "clu" \notin news' <=> "clu" \notin news
      BY <2>1
    <3>3. "tcs" \in news' /\ "scc" \in news'
      BY <2>1
    <3>4. ~misheard' => vehicle.set = car.set /\ (car.on <=> Remains(car, vehicle) /\ ~car.brake)
                        /\ ~WentDown(vehicle, car.button) /\ (vehicle.brake <=> car.brake)
                        /\ (Remains(car, vehicle) => vehicle.active)
                        /\ (vehicle.brake => ~vehicle.active)
      BY <1>1, <2>1, <3>1 DEF Spelled, Remains
    <3>5. ~misheard' => ~(Remains(car', vehicle) /\ ~car'.brake)
      BY <2>5, <2>7, <3>4
    <3> QED BY <1>1, <2>4, <2>6, <2>7, <3>2, <3>3, <3>4, <3>5 DEF Spelled
  <2> QED BY <1>1, <2>1, <2>4, <2>6, <2>8
<1>7. CASE HearClu
  <2>1. CASE vehicle' = Estimated(vehicle, car.button, car.main, car.speed)
             /\ news' = news \ {"clu"} /\ UNCHANGED <<car, misheard>>
    <3>1. /\ vehicle' \in VehicleStates
          /\ vehicle'.button = car.button /\ (vehicle'.main <=> car.main)
          /\ (vehicle'.brake <=> vehicle.brake) /\ (vehicle'.scc <=> vehicle.scc)
          /\ vehicle.scc => (vehicle'.cruise <=> vehicle.cruise)
          /\ ~Takes(car, vehicle) => vehicle'.set = vehicle.set
                 /\ (vehicle'.active <=> Remains(car, vehicle) /\ Pressing(car, vehicle) # "cancel")
          /\ Takes(car, vehicle) => vehicle'.active /\ vehicle'.set = SetTo(car, vehicle)
      BY <1>1, <1>2, <2>1, EstimateTells DEF Takes, Pressing, Remains, SetTo
    <3>2. /\ "clu" \notin news' /\ ("tcs" \in news' <=> "tcs" \in news)
          /\ ("scc" \in news' <=> "scc" \in news)
          /\ car' = car /\ misheard' = misheard
      BY <2>1
    <3>3. /\ (Remains(car, vehicle') <=> vehicle'.active) /\ ~WentDown(vehicle', car.button)
      BY <3>1 DEF Remains, WentDown
    <3>4. CruiseHolds'
      BY <1>1, <3>2 DEF CruiseHolds
    <3>5. (Takes(car, vehicle) => ~vehicle.brake) /\ (Remains(car, vehicle) => vehicle.active)
      BY DEF Takes, Remains
    <3>6. ~misheard => vehicle'.set = car.set /\ (car.on <=> vehicle'.active /\ ~car.brake)
      <4>1. CASE "clu" \in news /\ "tcs" \notin news
        BY <1>1, <3>1, <3>5, <4>1 DEF Spelled, CruiseHolds
      <4>2. CASE "clu" \in news => "tcs" \in news
        <5>1. ~misheard => vehicle.set = car.set /\ (car.on <=> Remains(car, vehicle) /\ ~car.brake)
                           /\ ~WentDown(vehicle, car.button)
          BY <1>1, <4>2 DEF Spelled
        <5>2. ~misheard => Pressing(car, vehicle) = "none" /\ ~Takes(car, vehicle)
          BY <5>1 DEF Pressing, Takes
        <5> QED BY <3>1, <5>1, <5>2
      <4> QED BY <4>1, <4>2
    <3>7. vehicle'.brake => ~vehicle'.active
      BY <1>1, <3>1, <3>5 DEF Spelled
    <3>8. "tcs" \notin news => (vehicle'.brake <=> car.brake)
      BY <1>1, <3>1 DEF Spelled
    <3>9. vehicle'.scc /\ "scc" \notin news => (vehicle'.cruise <=> car.on)
      BY <1>1, <3>1 DEF Spelled
    <3>10. Spelled(car, vehicle', news', misheard)
      BY <3>1, <3>2, <3>3, <3>6, <3>7, <3>8, <3>9 DEF Spelled
    <3> QED BY <1>1, <3>1, <3>2, <3>4, <3>10
  <2>2. CASE UNCHANGED <<vehicle, car, news, misheard>>
    BY <1>1, <2>2 DEF CruiseHolds
  <2> QED BY <1>7, <2>1, <2>2 DEF HearClu, Taken, Sources
<1>8. CASE HearTcs
  <2>1. /\ vehicle' = BrakeTold(vehicle, car.brake) /\ car' = car /\ misheard' = misheard
        /\ "tcs" \notin news' /\ ("clu" \in news' <=> "clu" \in news)
        /\ ("scc" \in news' <=> "scc" \in news)
    BY <1>8 DEF HearTcs
  <2>2. /\ vehicle' \in VehicleStates /\ (vehicle'.brake <=> car.brake)
        /\ (vehicle'.active <=> vehicle.active /\ ~car.brake)
        /\ (vehicle'.cruise <=> vehicle.cruise /\ (vehicle.scc \/ ~car.brake))
        /\ vehicle'.set = vehicle.set /\ (vehicle'.scc <=> vehicle.scc)
        /\ vehicle'.button = vehicle.button /\ (vehicle'.main <=> vehicle.main)
    BY <1>1, <1>2, <2>1, BrakeTells
  <2>3. CruiseHolds'
    BY <1>1, <2>1 DEF CruiseHolds
  <2>4. /\ Remains(car, vehicle') <=> Remains(car, vehicle) /\ ~car.brake
        /\ WentDown(vehicle', car.button) <=> WentDown(vehicle, car.button)
        /\ Pressing(car, vehicle') = Pressing(car, vehicle)
    BY <2>2 DEF Remains, WentDown, Pressing
  <2>5. ~misheard /\ "clu" \in news /\ "tcs" \in news =>
          /\ car.set = (IF Takes(car, vehicle') THEN SetTo(car, vehicle') ELSE vehicle'.set)
          /\ car.on <=> Takes(car, vehicle') \/ (Remains(car, vehicle') /\ Pressing(car, vehicle') # "cancel")
    <3>1. ~misheard /\ "clu" \in news /\ "tcs" \in news =>
            /\ vehicle.set = car.set /\ (car.on <=> Remains(car, vehicle) /\ ~car.brake)
            /\ ~WentDown(vehicle, car.button)
      BY <1>1 DEF Spelled
    <3>2. ~WentDown(vehicle, car.button) => Pressing(car, vehicle') = "none" /\ ~Takes(car, vehicle')
      BY <2>4 DEF Pressing, Takes
    <3> QED BY <2>2, <2>4, <3>1, <3>2
  <2>6. ~misheard /\ "clu" \in news /\ "tcs" \notin news =>
          /\ car.set = (IF Takes(car, vehicle') THEN SetTo(car, vehicle') ELSE vehicle'.set)
          /\ car.on <=> Takes(car, vehicle') \/ (Remains(car, vehicle') /\ Pressing(car, vehicle') # "cancel")
    <3>1. ~misheard /\ "clu" \in news /\ "tcs" \notin news =>
            /\ (vehicle.brake <=> car.brake) /\ (vehicle.brake => ~vehicle.active)
            /\ car.set = (IF Takes(car, vehicle) THEN SetTo(car, vehicle) ELSE vehicle.set)
            /\ car.on <=> Takes(car, vehicle) \/ (Remains(car, vehicle) /\ Pressing(car, vehicle) # "cancel")
      BY <1>1 DEF Spelled
    <3>2. (vehicle.brake <=> car.brake) /\ (vehicle.brake => ~vehicle.active) =>
            /\ Takes(car, vehicle') <=> Takes(car, vehicle)
            /\ Remains(car, vehicle') <=> Remains(car, vehicle)
            /\ SetTo(car, vehicle') = SetTo(car, vehicle)
      BY <2>2, <2>4 DEF Takes, SetTo, Remains
    <3> QED BY <2>2, <2>4, <3>1, <3>2
  <2>7. Spelled(car, vehicle', news', misheard)
    <3>1. ~misheard /\ ~("clu" \in news) =>
            /\ vehicle.set = car.set /\ (car.on <=> Remains(car, vehicle) /\ ~car.brake)
            /\ ~WentDown(vehicle, car.button)
            /\ vehicle.button = car.button /\ (vehicle.main <=> car.main)
            /\ (Remains(car, vehicle) <=> vehicle.active)
      BY <1>1 DEF Spelled, Remains
    <3>2. "clu" \notin news => vehicle.button = car.button /\ (vehicle.main <=> car.main)
      BY <1>1 DEF Spelled
    <3>3. vehicle.scc /\ "scc" \notin news => (vehicle.cruise <=> car.on)
      BY <1>1 DEF Spelled
    <3> QED BY <2>1, <2>2, <2>4, <2>5, <2>6, <3>1, <3>2, <3>3 DEF Spelled
  <2> QED BY <1>1, <2>1, <2>2, <2>3, <2>7
<1>9. CASE HearScc
  <2>1. /\ vehicle' = SccTold(vehicle, car.on) /\ car' = car /\ misheard' = misheard
        /\ "scc" \notin news' /\ ("clu" \in news' <=> "clu" \in news)
        /\ ("tcs" \in news' <=> "tcs" \in news)
    BY <1>9 DEF HearScc
  <2>2. /\ vehicle' \in VehicleStates /\ vehicle'.scc /\ (vehicle'.cruise <=> car.on)
        /\ (vehicle'.active <=> vehicle.active) /\ (vehicle'.brake <=> vehicle.brake)
        /\ vehicle'.set = vehicle.set /\ vehicle'.button = vehicle.button
        /\ (vehicle'.main <=> vehicle.main)
    BY <1>1, <1>2, <2>1, SccTells
  <2>3. CruiseHolds'
    BY <1>1, <2>1 DEF CruiseHolds
  <2>4. /\ Remains(car, vehicle') <=> Remains(car, vehicle)
        /\ WentDown(vehicle', car.button) <=> WentDown(vehicle, car.button)
        /\ Pressing(car, vehicle') = Pressing(car, vehicle)
        /\ Takes(car, vehicle') <=> Takes(car, vehicle)
        /\ SetTo(car, vehicle') = SetTo(car, vehicle)
    BY <2>2 DEF Remains, WentDown, Pressing, Takes, SetTo
  <2>5. Spelled(car, vehicle', news', misheard)
    BY <1>1, <2>1, <2>2, <2>4 DEF Spelled
  <2> QED BY <1>1, <2>1, <2>2, <2>3, <2>5
<1>10. CASE UNCHANGED vehicleVars
  BY <1>1, <1>10 DEF vehicleVars, CruiseHolds
<1> QED BY <1>3, <1>4, <1>5, <1>6, <1>7, <1>8, <1>9, <1>10 DEF VehicleNext

(* VehicleCanState knows the cruise control of the car, for every bound of *)
(* its speeds.                                                             *)
THEOREM CruiseStaysKnown == VehicleSpec => []CruiseIsKnown
<1>1. VehicleInv => CruiseIsKnown
  BY DEF VehicleInv
<1> QED BY <1>1, VehicleInitially, VehicleStep, PTL DEF VehicleSpec

-----------------------------------------------------------------------------
(* The messages of the car (VehicleMessages): what is told wrong is told   *)
(* wrong for no longer than its message is silent, and what always comes   *)
(* was told a moment ago.                                                  *)

LEMMA MessagesAre ==
  Messages = {"lkas11", "clu11", "sas11", "esp12", "whl_spd11", "mdps12", "scc11", "tcs13", "tcs15",
              "e_ems11", "elect_gear", "cgw1", "cgw2", "lca11", "tpms11"}
BY DEF Messages, Tells

LEMMA WhatIsTold ==
  /\ "toi_unavailable" \in Tells["mdps12"]
  /\ \A m \in Messages : "moving" \in Tells[m] => m = "whl_spd11"
  /\ \A m \in Messages : m \notin {"cgw1", "cgw2"} => Tells[m] \cap Doors = {}
<1>1. SUFFICES ASSUME NEW m \in Messages
      PROVE  /\ "moving" \in Tells[m] => m = "whl_spd11"
             /\ m \notin {"cgw1", "cgw2"} => Tells[m] \cap Doors = {}
  BY DEF Tells
<1>2. Doors = {"rear_left_door", "rear_right_door", "driver_door", "passenger_door"}
  BY DEF Doors, Tells
<1> QED BY <1>2, MessagesAre DEF Tells

LEMMA StrangersStay ==
  ASSUME NEW m \in Messages, NEW frame \in Strangers(m)
  PROVE  ~Accepted(frame)
<1>1. MinLength(m) \in {4, 5, 6, 8} /\ Buses(m) \subseteq {0, 1, 2}
  BY DEF MinLength, Buses
<1> DEFINE own == [message |-> m, flags |-> FALSE, src |-> CHOOSE bus \in Buses(m) : TRUE,
                   data_len |-> 8]
<1>2. CASE frame = [own EXCEPT !.flags = TRUE]
  BY <1>2 DEF Accepted, WellFormed
<1>3. CASE frame = [own EXCEPT !.data_len = MinLength(m) - 1]
  <2>1. frame.message = m /\ frame.data_len = MinLength(m) - 1
    BY <1>3
  <2> QED BY <1>1, <2>1 DEF Accepted
<1>4. ASSUME NEW bus \in ({0, 1, 2} \ Buses(m)) \cup {128}, frame = [own EXCEPT !.src = bus]
      PROVE  ~Accepted(frame)
  <2>1. frame.message = m /\ frame.src = bus
    BY <1>4
  <2> QED BY <1>1, <2>1 DEF Accepted
<1> QED BY <1>2, <1>3, <1>4 DEF Strangers

(* What the controller steers by is in messages it may rely on. *)
LEMMA KnownWhileYoung == MessagesInv => CarIsKnown
<1> SUFFICES ASSUME MessagesInv PROVE CarIsKnown
  OBVIOUS
<1> USE MessagesAssumption DEF MessagesInv, MessagesTypeOK
<1> DEFINE Others == {"esp12", "scc11", "lca11", "tpms11"}
           Needed == {"lkas11", "clu11", "sas11", "mdps12", "tcs13", "tcs15", "e_ems11", "elect_gear",
                      "cgw1", "cgw2", "whl_spd11"}
<1>1. ASSUME NEW c \in Changing, NEW m \in Lossy, c \in Tells[m], Fresh(m)
      PROVE  missed[c] <= Timeout
  <2>1. missed[c] <= silence[m] /\ silence[m] <= Timeout
    BY <1>1 DEF WrongIsYoung, Fresh
  <2>2. silence[m] \in Nat /\ missed[c] \in Nat
    OBVIOUS
  <2> QED BY <2>1, <2>2
<1>2. ASSUME VehicleStateFresh, SeedFramesReady,
             NEW c \in Changing \ UNION {Tells[m] : m \in Others}
      PROVE  missed[c] <= Timeout
  <2>1. CASE \E m \in Lossy : c \in Tells[m]
    <3>1. PICK m \in Lossy : c \in Tells[m]
      BY <2>1
    <3>2. m \in Needed
      BY <1>2, <3>1, MessagesAre
    <3> QED BY <1>1, <1>2, <3>1, <3>2 DEF VehicleStateFresh
  <2>2. CASE ~ \E m \in Lossy : c \in Tells[m]
    <3>1. PICK m \in Seeds : c \in Tells[m]
      BY <2>2
    <3>2. m \in seeds
      BY <1>2 DEF SeedFramesReady
    <3>3. missed[c] <= 1
      BY <2>2, <3>1, <3>2 DEF WrongIsYoung
    <3>4. missed[c] \in Nat
      OBVIOUS
    <3> QED BY <3>3, <3>4
  <2> QED BY <2>1, <2>2
<1>3. ASSUME SpeedIsKnown, "moving" \in Changing
      PROVE  missed["moving"] <= Timeout
  <2>1. PICK m \in Lossy \cup Seeds : "moving" \in Tells[m]
    BY <1>3
  <2>2. m = "whl_spd11"
    BY <2>1, WhatIsTold, MessagesAre DEF Seeds
  <2>3. m \in Lossy
    BY <2>1, <2>2 DEF Seeds
  <2> QED BY <1>1, <1>3, <2>1, <2>2, <2>3 DEF SpeedIsKnown
<1>4. SteeringFault => unavailable > FaultFrames
  BY DEF SteeringFault, DerivedAsTold
<1> QED BY <1>2, <1>3, <1>4 DEF CarIsKnown, DerivedAsTold

LEMMA MessagesInitially == MessagesInit => MessagesInv
<1> SUFFICES ASSUME MessagesInit PROVE MessagesInv
  OBVIOUS
<1>1. MessagesTypeOK
  BY MessagesAssumption DEF MessagesInit, MessagesTypeOK
<1>2. WrongIsYoung
  <2>1. \A c \in Changing : missed[c] = Timeout + 1
    BY DEF MessagesInit
  <2>2. \A m \in Lossy : silence[m] = Timeout + 1
    BY DEF MessagesInit
  <2>3. seeds = {} /\ Timeout \in Nat
    BY MessagesAssumption DEF MessagesInit
  <2>4. \A c \in Changing, m \in Lossy : missed[c] <= silence[m]
    BY <2>1, <2>2, <2>3
  <2> QED BY <2>3, <2>4, Zenon DEF WrongIsYoung
<1>3. DerivedAsTold
  BY DEF MessagesInit, DerivedAsTold
<1> QED BY <1>1, <1>2, <1>3 DEF MessagesInv

LEMMA MessagesStep == MessagesInv /\ [MessagesNext]_messageVars => MessagesInv'
<1> SUFFICES ASSUME MessagesInv, [MessagesNext]_messageVars PROVE MessagesInv'
  OBVIOUS
<1> USE MessagesAssumption DEF MessagesInv
<1>1. CASE HearMessage
  <2>1. PICK m \in Messages :
          /\ Update(m, body \cap Tells[m])
          /\ missed' = [c \in Changing |-> IF c \in Tells[m] THEN 0 ELSE missed[c]]
          /\ unavailable' = IF m # "mdps12" THEN unavailable
                            ELSE IF "toi_unavailable" \in body THEN Count(unavailable) ELSE 0
    BY <1>1 DEF HearMessage
  <2>2. silence' = [l \in Lossy |-> IF l = m THEN 0 ELSE silence[l]]
    BY <2>1 DEF Update
  <2>3. MessagesTypeOK'
    BY <2>1, <2>2 DEF MessagesTypeOK, Update, Count
  <2>4. WrongIsYoung'
    <3> SUFFICES ASSUME NEW c \in Changing
                 PROVE  /\ \A l \in Lossy : c \in Tells[l] => missed'[c] <= silence'[l]
                        /\ c \notin UNION {Tells[l] : l \in Lossy} =>
                             \A l \in seeds' : c \in Tells[l] => missed'[c] <= 1
      BY DEF WrongIsYoung
    <3>1. /\ c \in Tells[m] => missed'[c] = 0
          /\ c \notin Tells[m] => missed'[c] = missed[c]
          /\ missed'[c] \in Nat
      BY <2>1 DEF MessagesTypeOK
    <3>2. ASSUME NEW l \in Lossy, c \in Tells[l] PROVE missed'[c] <= silence'[l]
      <4>1. silence'[l] = IF l = m THEN 0 ELSE silence[l]
        BY <2>2
      <4>2. missed[c] <= silence[l] /\ silence[l] \in Nat
        BY <3>2 DEF WrongIsYoung, MessagesTypeOK
      <4> QED BY <3>1, <3>2, <4>1, <4>2
    <3>3. ASSUME c \notin UNION {Tells[l] : l \in Lossy}, NEW l \in seeds', c \in Tells[l]
          PROVE  missed'[c] <= 1
      <4>1. l = m \/ l \in seeds
        BY <2>1 DEF Update
      <4> QED BY <3>1, <3>3, <4>1 DEF WrongIsYoung
    <3> QED BY <3>2, <3>3
  <2>5. DerivedAsTold'
    <3>1. door_open' <=> told' \cap Doors # {}
      <4>1. CASE m \in {"cgw1", "cgw2"}
        BY <2>1, <4>1 DEF Update
      <4>2. CASE m \notin {"cgw1", "cgw2"}
        <5>1. Tells[m] \cap Doors = {}
          BY <4>2, WhatIsTold
        <5>2. told' \cap Doors = told \cap Doors
          BY <2>1, <5>1 DEF Update
        <5> QED BY <2>1, <4>2, <5>2 DEF Update, DerivedAsTold
      <4> QED BY <4>1, <4>2
    <3>2. unavailable' = error_count'
      BY <2>1, WhatIsTold DEF Update, DerivedAsTold
    <3> QED BY <3>1, <3>2 DEF DerivedAsTold
  <2> QED BY <2>3, <2>4, <2>5
<1>2. CASE HearStranger
  <2>1. PICK m \in Lossy : \E frame \in Strangers(m) :
          /\ ~Accepted(frame) => UNCHANGED <<told, door_open, error_count, mdps_hard_fault, seeds, silence>>
          /\ UNCHANGED <<body, missed, unavailable>>
    BY <1>2 DEF HearStranger
  <2>2. UNCHANGED <<told, door_open, error_count, seeds, silence, missed, unavailable>>
    BY <2>1, StrangersStay
  <2> QED BY <2>2 DEF MessagesTypeOK, WrongIsYoung, DerivedAsTold
<1>3. CASE Change
  BY <1>3 DEF Change, MessagesTypeOK, WrongIsYoung, DerivedAsTold
<1>4. CASE TimePasses
  <2>1. /\ silence' = [m \in Lossy |-> IF silence[m] <= Timeout THEN silence[m] + 1 ELSE silence[m]]
        /\ missed' = [c \in Changing |->
             IF (c \in told) = (c \in body) \/ missed[c] > Timeout THEN missed[c] ELSE missed[c] + 1]
        /\ UNCHANGED <<told, door_open, error_count, seeds, unavailable>>
    BY <1>4 DEF TimePasses
  <2>2. MessagesTypeOK'
    BY <2>1 DEF MessagesTypeOK
  <2>3. WrongIsYoung'
    <3> SUFFICES ASSUME NEW c \in Changing
                 PROVE  /\ \A l \in Lossy : c \in Tells[l] => missed'[c] <= silence'[l]
                        /\ c \notin UNION {Tells[l] : l \in Lossy} =>
                             \A l \in seeds : c \in Tells[l] => missed'[c] <= 1
      BY <2>1 DEF WrongIsYoung
    <3>1. missed'[c] \in {missed[c], missed[c] + 1} /\ missed[c] \in 0 .. Timeout + 1
          /\ missed'[c] \in 0 .. Timeout + 1
      BY <2>1, <2>2 DEF MessagesTypeOK
    <3>2. ASSUME NEW l \in Lossy, c \in Tells[l] PROVE missed'[c] <= silence'[l]
      <4>1. silence'[l] = IF silence[l] <= Timeout THEN silence[l] + 1 ELSE silence[l]
        BY <2>1
      <4>2. missed[c] <= silence[l] /\ silence[l] \in 0 .. Timeout + 1
        BY <3>2 DEF WrongIsYoung, MessagesTypeOK
      <4> QED BY <3>1, <4>1, <4>2
    <3>3. ASSUME c \notin UNION {Tells[l] : l \in Lossy} PROVE missed'[c] <= 1
      <4>1. missed[c] = 0
        BY <1>4, <3>3 DEF TimePasses
      <4> QED BY <3>1, <4>1
    <3> QED BY <3>2, <3>3
  <2>4. DerivedAsTold'
    BY <2>1 DEF DerivedAsTold
  <2> QED BY <2>2, <2>3, <2>4
<1>5. CASE UNCHANGED messageVars
  BY <1>5 DEF messageVars, MessagesTypeOK, WrongIsYoung, DerivedAsTold
<1> QED BY <1>1, <1>2, <1>3, <1>4, <1>5 DEF MessagesNext

(* Doors, motor, wheels and faults of the car are known, for every timeout  *)
(* and whichever messages are lost.                                        *)
THEOREM CarStaysKnown == MessagesSpec => []CarIsKnown
BY KnownWhileYoung, MessagesInitially, MessagesStep, PTL DEF MessagesSpec

-----------------------------------------------------------------------------
(* The blinkers (VehicleMessages): the hold bridges the dark phases of the *)
(* lamp, and nothing renews it once the lever is off.                      *)

(* The hold and the lamp keep their types, whatever their values are. *)
LEMMA LampTyped ==
  ASSUME NEW B, NEW P, NEW H, NEW O,
         NEW l \in [lever : B, lit : B, phase : P, heard : H, told : B, off : O],
         NEW lever \in B, NEW lit \in B, NEW phase \in P, NEW heard \in H, NEW said \in B, NEW off \in O
  PROVE  /\ [l EXCEPT !.heard = heard, !.told = said] \in [lever : B, lit : B, phase : P, heard : H, told : B, off : O]
         /\ [l EXCEPT !.lever = lever, !.lit = lit, !.phase = phase, !.told = said, !.off = off] \in [lever : B, lit : B, phase : P, heard : H, told : B, off : O]
         /\ [l EXCEPT !.lit = lit, !.phase = phase] \in [lever : B, lit : B, phase : P, heard : H, told : B, off : O]
         /\ [l EXCEPT !.heard = heard, !.phase = phase, !.off = off] \in [lever : B, lit : B, phase : P, heard : H, told : B, off : O]
OBVIOUS

LEMMA HoldTyped ==
  ASSUME NEW B, NEW H, NEW v \in [hold : H, blinker : B], NEW hold \in H, NEW blinker \in B
  PROVE  /\ [v EXCEPT !.hold = hold, !.blinker = blinker] \in [hold : H, blinker : B]
         /\ [v EXCEPT !.hold = hold] \in [hold : H, blinker : B]
OBVIOUS

LEMMA IndicatorInitially == IndicatorInit => IndicatorInv
BY IndicatorAssumption
   DEF IndicatorInit, IndicatorInv, IndicatorTypeOK, HoldBridges, BlinkerIsSteady

LEMMA IndicatorStep == IndicatorInv /\ [IndicatorNext]_indicatorVars => IndicatorInv'
<1> SUFFICES ASSUME IndicatorInv, [IndicatorNext]_indicatorVars PROVE IndicatorInv'
  OBVIOUS
<1>t. /\ FlashTime \in Nat /\ CgwPeriod \in Nat /\ BlinkerHold \in Nat
      /\ FlashTime > CgwPeriod /\ BlinkerHold > FlashTime + CgwPeriod
      /\ indicator.hold \in 0 .. BlinkerHold /\ lamp.phase \in 0 .. FlashTime
      /\ lamp.heard \in 0 .. CgwPeriod /\ lamp.off \in 0 .. BlinkerHold + CgwPeriod
  BY IndicatorAssumption DEF IndicatorInv, IndicatorTypeOK
<1>b. lamp.lever \in BOOLEAN /\ lamp.lit \in BOOLEAN /\ lamp.told \in BOOLEAN /\ indicator.blinker \in BOOLEAN
  BY DEF IndicatorInv, IndicatorTypeOK
<1>1. CASE HearCgw
  <2> DEFINE hold == IF lamp.lit THEN BlinkerHold ELSE indicator.hold
  <2>1. IndicatorTypeOK'
    <3>1. 0 \in 0 .. CgwPeriod /\ (lamp.told \/ (lamp.lever /\ lamp.lit)) \in BOOLEAN
      BY <1>t
    <3>3. /\ (IF lamp.lit THEN BlinkerHold ELSE indicator.hold) \in 0 .. BlinkerHold
          /\ ((IF lamp.lit THEN BlinkerHold ELSE indicator.hold) > 0) \in BOOLEAN
      BY <1>t
    <3>8. indicator' \in [hold : 0 .. BlinkerHold, blinker : BOOLEAN]
      BY <1>1, <1>t, <1>b, <3>1, <3>3, HoldTyped, Zenon DEF HearCgw, LampTold, IndicatorInv, IndicatorTypeOK
    <3>9. lamp' \in [lever : BOOLEAN, lit : BOOLEAN, phase : 0 .. FlashTime, heard : 0 .. CgwPeriod,
                     told : BOOLEAN, off : 0 .. BlinkerHold + CgwPeriod]
      BY <1>1, <1>t, <1>b, <3>1, LampTyped, Zenon DEF HearCgw, LampTold, IndicatorInv, IndicatorTypeOK
    <3> QED BY <3>8, <3>9 DEF IndicatorTypeOK
  <2>2. /\ indicator'.hold = hold /\ (indicator'.blinker <=> hold > 0)
        /\ lamp'.heard = 0 /\ (lamp'.told <=> lamp.told \/ (lamp.lever /\ lamp.lit))
        /\ (lamp'.lever <=> lamp.lever) /\ (lamp'.lit <=> lamp.lit)
        /\ lamp'.phase = lamp.phase /\ lamp'.off = lamp.off
    BY <1>1 DEF HearCgw, LampTold, IndicatorInv, IndicatorTypeOK
  <2> QED BY <1>t, <2>1, <2>2 DEF IndicatorInv, HoldBridges, BlinkerIsSteady
<1>2. CASE MoveLever
  <2>1. IndicatorTypeOK'
    <3>1. (~lamp.lever) \in BOOLEAN /\ FALSE \in BOOLEAN
      OBVIOUS
    <3>2. 0 \in 0 .. FlashTime /\ 0 \in 0 .. BlinkerHold + CgwPeriod
      BY <1>t
    <3>8. indicator' \in [hold : 0 .. BlinkerHold, blinker : BOOLEAN]
      BY <1>2, <1>t, <1>b, <3>1, HoldTyped, Zenon DEF MoveLever, IndicatorInv, IndicatorTypeOK
    <3>9. lamp' \in [lever : BOOLEAN, lit : BOOLEAN, phase : 0 .. FlashTime, heard : 0 .. CgwPeriod,
                     told : BOOLEAN, off : 0 .. BlinkerHold + CgwPeriod]
      BY <1>2, <1>t, <1>b, <3>1, <3>2, LampTyped, Zenon DEF MoveLever, IndicatorInv, IndicatorTypeOK
    <3> QED BY <3>8, <3>9 DEF IndicatorTypeOK
  <2>2. /\ indicator' = indicator
        /\ lamp'.heard = lamp.heard /\ ~lamp'.told /\ (lamp'.lever <=> ~lamp.lever)
        /\ (lamp'.lit <=> ~lamp.lever) /\ lamp'.phase = 0 /\ lamp'.off = 0
    BY <1>2 DEF MoveLever, IndicatorInv, IndicatorTypeOK
  <2> QED BY <1>t, <2>1, <2>2 DEF IndicatorInv, HoldBridges, BlinkerIsSteady
<1>3. CASE Flash
  <2>1. IndicatorTypeOK'
    <3>1. (~lamp.lit) \in BOOLEAN
      OBVIOUS
    <3>2. 0 \in 0 .. FlashTime
      BY <1>t
    <3>8. indicator' \in [hold : 0 .. BlinkerHold, blinker : BOOLEAN]
      BY <1>3, <1>t, <1>b, <3>1, HoldTyped, Zenon DEF Flash, IndicatorInv, IndicatorTypeOK
    <3>9. lamp' \in [lever : BOOLEAN, lit : BOOLEAN, phase : 0 .. FlashTime, heard : 0 .. CgwPeriod,
                     told : BOOLEAN, off : 0 .. BlinkerHold + CgwPeriod]
      BY <1>3, <1>t, <1>b, <3>1, <3>2, LampTyped, Zenon DEF Flash, IndicatorInv, IndicatorTypeOK
    <3> QED BY <3>8, <3>9 DEF IndicatorTypeOK
  <2>2. /\ indicator' = indicator /\ lamp.phase = FlashTime /\ lamp.lever
        /\ lamp'.heard = lamp.heard /\ (lamp'.told <=> lamp.told) /\ lamp'.lever
        /\ (lamp'.lit <=> ~lamp.lit) /\ lamp'.phase = 0 /\ lamp'.off = lamp.off
    BY <1>3 DEF Flash, IndicatorInv, IndicatorTypeOK
  <2> QED BY <1>t, <2>1, <2>2 DEF IndicatorInv, HoldBridges, BlinkerIsSteady
<1>4. CASE IndicatorElapse
  <2>1. IndicatorTypeOK'
    <3>1. /\ lamp.heard + 1 \in 0 .. CgwPeriod
          /\ (IF lamp.lever THEN lamp.phase + 1 ELSE 0) \in 0 .. FlashTime
          /\ (IF lamp.lever \/ lamp.off = BlinkerHold + CgwPeriod THEN lamp.off ELSE lamp.off + 1)
               \in 0 .. BlinkerHold + CgwPeriod
      BY <1>4, <1>t DEF IndicatorElapse
    <3>3. Sooner(indicator.hold) \in 0 .. BlinkerHold
      BY <1>t DEF Sooner
    <3>8. indicator' \in [hold : 0 .. BlinkerHold, blinker : BOOLEAN]
      BY <1>4, <1>t, <1>b, <3>1, <3>3, HoldTyped, Zenon DEF IndicatorElapse, IndicatorInv, IndicatorTypeOK
    <3>9. lamp' \in [lever : BOOLEAN, lit : BOOLEAN, phase : 0 .. FlashTime, heard : 0 .. CgwPeriod,
                     told : BOOLEAN, off : 0 .. BlinkerHold + CgwPeriod]
      BY <1>4, <1>t, <1>b, <3>1, LampTyped, Zenon DEF IndicatorElapse, IndicatorInv, IndicatorTypeOK
    <3> QED BY <3>8, <3>9 DEF IndicatorTypeOK
  <2>2. /\ indicator'.hold = Sooner(indicator.hold) /\ (indicator'.blinker <=> indicator.blinker)
        /\ lamp.heard < CgwPeriod /\ (lamp.lever => lamp.phase < FlashTime)
        /\ lamp'.heard = lamp.heard + 1 /\ (lamp'.told <=> lamp.told)
        /\ (lamp'.lever <=> lamp.lever) /\ (lamp'.lit <=> lamp.lit)
        /\ lamp'.phase = (IF lamp.lever THEN lamp.phase + 1 ELSE 0)
        /\ lamp'.off = (IF lamp.lever \/ lamp.off = BlinkerHold + CgwPeriod THEN lamp.off ELSE lamp.off + 1)
    BY <1>4 DEF IndicatorElapse, IndicatorInv, IndicatorTypeOK
  <2> QED BY <1>t, <2>1, <2>2 DEF IndicatorInv, HoldBridges, BlinkerIsSteady, Sooner
<1>5. CASE UNCHANGED indicatorVars
  BY <1>5 DEF indicatorVars, IndicatorInv, IndicatorTypeOK, HoldBridges, BlinkerIsSteady
<1> QED BY <1>1, <1>2, <1>3, <1>4, <1>5 DEF IndicatorNext

(* The blinker is on while the lever is, and not for long after.           *)
THEOREM BlinkerIsAsLever == IndicatorSpec => []BlinkerIsSteady
<1>1. IndicatorInv => BlinkerIsSteady
  BY DEF IndicatorInv
<1> QED BY <1>1, IndicatorInitially, IndicatorStep, PTL DEF IndicatorSpec

-----------------------------------------------------------------------------
(* The restarted CAN queue (CanQueueRestart).  Outside reset() the queue of*)
(* one generation is a CanQueue whose producer stands still while it is down,*)
(* so its invariant is that of CanQueueProofs, instantiated.               *)

QueueTheorems == INSTANCE CanQueueProofs WITH ppc <- Place

(* The two names of the queue whose producer stands still in a reset().    *)
LEMMA SameInvariant == QueueTheorems!QueueInv <=> Standing!QueueInv
BY Zenon
   DEF Standing!QueueInv, QueueTheorems!QueueInv, Standing!WithinCapacity,
       QueueTheorems!WithinCapacity, Standing!CallFrames, QueueTheorems!CallFrames,
       Standing!Histories, QueueTheorems!Histories, Standing!RingHoldsUndelivered,
       QueueTheorems!RingHoldsUndelivered, Standing!CopiesInProgress,
       QueueTheorems!CopiesInProgress, Standing!DeliveredInOrder,
       QueueTheorems!DeliveredInOrder, Standing!TypeOK, QueueTheorems!TypeOK,
       Standing!ProducerPlaces, QueueTheorems!ProducerPlaces, Standing!ConsumerPlaces,
       QueueTheorems!ConsumerPlaces, Standing!Halves, QueueTheorems!Halves, Standing!SlotOf,
       QueueTheorems!SlotOf, Standing!Whole, QueueTheorems!Whole

LEMMA SameSteps == [QueueTheorems!Next]_(QueueTheorems!vars) <=> [Standing!Next]_(Standing!vars)
BY Zenon
   DEF Standing!Next, QueueTheorems!Next, Standing!Push, QueueTheorems!Push, Standing!Pop,
       QueueTheorems!Pop, Standing!PushStart, QueueTheorems!PushStart, Standing!PushReject,
       QueueTheorems!PushReject, Standing!PushAdmit, QueueTheorems!PushAdmit,
       Standing!PushFillLo, QueueTheorems!PushFillLo, Standing!PushFillHi,
       QueueTheorems!PushFillHi, Standing!PushCommit, QueueTheorems!PushCommit,
       Standing!PopStart, QueueTheorems!PopStart, Standing!PopNothing,
       QueueTheorems!PopNothing, Standing!PopAdmit, QueueTheorems!PopAdmit, Standing!PopCopyLo,
       QueueTheorems!PopCopyLo, Standing!PopCopyHi, QueueTheorems!PopCopyHi,
       Standing!PopCommit, QueueTheorems!PopCommit, Standing!vars, QueueTheorems!vars,
       Standing!sharedVars, QueueTheorems!sharedVars, Standing!prodVars,
       QueueTheorems!prodVars, Standing!consVars, QueueTheorems!consVars, Standing!Full,
       QueueTheorems!Full, Standing!Readable, QueueTheorems!Readable, Standing!UnsignedDiff,
       QueueTheorems!UnsignedDiff, Standing!Contents, QueueTheorems!Contents, Standing!SlotOf,
       QueueTheorems!SlotOf, Standing!Whole, QueueTheorems!Whole

LEMMA StandingStep == Standing!QueueInv /\ [Standing!Next]_(Standing!vars) => Standing!QueueInv'
<1>1. QueueTheorems!QueueInv /\ [QueueTheorems!Next]_(QueueTheorems!vars) => QueueTheorems!QueueInv'
  BY SlotCountAssumption, MaxSeqAssumption, BatchAssumption, QueueTheorems!StepInv
<1>2. QueueTheorems!QueueInv' <=> Standing!QueueInv'
  BY Zenon
   DEF Standing!QueueInv, QueueTheorems!QueueInv, Standing!WithinCapacity,
       QueueTheorems!WithinCapacity, Standing!CallFrames, QueueTheorems!CallFrames,
       Standing!Histories, QueueTheorems!Histories, Standing!RingHoldsUndelivered,
       QueueTheorems!RingHoldsUndelivered, Standing!CopiesInProgress,
       QueueTheorems!CopiesInProgress, Standing!DeliveredInOrder,
       QueueTheorems!DeliveredInOrder, Standing!TypeOK, QueueTheorems!TypeOK,
       Standing!ProducerPlaces, QueueTheorems!ProducerPlaces, Standing!ConsumerPlaces,
       QueueTheorems!ConsumerPlaces, Standing!Halves, QueueTheorems!Halves, Standing!SlotOf,
       QueueTheorems!SlotOf, Standing!Whole, QueueTheorems!Whole
<1> QED BY <1>1, <1>2, SameInvariant, SameSteps, Zenon

(* What the queue does while no reset() is under way. *)
LEMMA OrdinaryIsStanding == Next => Standing!Next
BY SMTT(60)
   DEF Next, Standing!Next, Push, Standing!Push, Pop, Standing!Pop, PushStart,
       Standing!PushStart, PushReject, Standing!PushReject, PushAdmit, Standing!PushAdmit,
       PushFillLo, Standing!PushFillLo, PushFillHi, Standing!PushFillHi, PushCommit,
       Standing!PushCommit, PopStart, Standing!PopStart, PopNothing, Standing!PopNothing,
       PopAdmit, Standing!PopAdmit, PopCopyLo, Standing!PopCopyLo, PopCopyHi,
       Standing!PopCopyHi, PopCommit, Standing!PopCommit, vars, Standing!vars, sharedVars,
       Standing!sharedVars, prodVars, Standing!prodVars, consVars, Standing!consVars, Full,
       Standing!Full, Readable, Standing!Readable, UnsignedDiff, Standing!UnsignedDiff,
       Contents, Standing!Contents, SlotOf, Standing!SlotOf, Whole, Standing!Whole,
       Place, ResetPlaces

(* The invariant of that queue, spelled out. *)
StandingParts ==
  /\ write_seq \in 0 .. MaxSeq /\ read_seq \in 0 .. MaxSeq
  /\ slots \in [0 .. SlotCount - 1 -> Halves]
  /\ Place \in ProducerPlaces /\ pw \in 0 .. MaxSeq /\ pbatch \in Batches \cup {Blank}
  /\ cpc \in ConsumerPlaces /\ cr \in 0 .. MaxSeq /\ cbuf \in Halves
  /\ accepted \in Seq(Batches) /\ delivered \in Seq(Batches \cup {Blank, Torn})
  /\ WithinCapacity
  /\ Place # "idle" => pw = write_seq /\ write_seq < MaxSeq /\ pbatch \in Batches
  /\ Place \in {"fill_lo", "fill_hi", "commit"} => write_seq - read_seq < SlotCount
  /\ cpc # "idle" => cr = read_seq
  /\ cpc \in {"copy_lo", "copy_hi", "commit"} => read_seq < write_seq
  /\ Histories /\ RingHoldsUndelivered
  /\ Place = "fill_hi" => slots[SlotOf(pw)].lo = pbatch
  /\ Place = "commit" => slots[SlotOf(pw)] = Whole(pbatch)
  /\ cpc = "copy_hi" => cbuf.lo = accepted[cr + 1]
  /\ cpc = "commit" => cbuf = Whole(accepted[cr + 1])
  /\ DeliveredInOrder

LEMMA StandingIs == Standing!QueueInv <=> StandingParts
BY Zenon
   DEF StandingParts, Standing!QueueInv, WithinCapacity, Standing!WithinCapacity, CallFrames, Standing!CallFrames, Histories,
       Standing!Histories, RingHoldsUndelivered, Standing!RingHoldsUndelivered,
       CopiesInProgress, Standing!CopiesInProgress, DeliveredInOrder,
       Standing!DeliveredInOrder, TypeOK, Standing!TypeOK, ProducerPlaces,
       Standing!ProducerPlaces, ConsumerPlaces, Standing!ConsumerPlaces, Halves,
       Standing!Halves, SlotOf, Standing!SlotOf, Whole, Standing!Whole

LEMMA StandingNext == Standing!QueueInv' <=> StandingParts'
BY StandingIs, PTL

LEMMA RestartInitially == RInit => RestartInv
<1> SUFFICES ASSUME RInit PROVE RestartInv
  OBVIOUS
<1>1. Init /\ clr = 0 /\ restarts = 0 /\ resetting = FALSE /\ overlap = FALSE /\ ppc = "idle"
      /\ cpc = "idle"
  BY DEF RInit, Init
<1>2. QueueInv
  BY <1>1, InitInv
<1>3. RestartTypeOK
  BY <1>1, <1>2, RestartAssumption, SlotCountAssumption DEF QueueInv, TypeOK, RestartTypeOK, RTypeOK
<1>4. Standing!QueueInv
  BY <1>1, <1>2, StandingIs DEF StandingParts, QueueInv, TypeOK, CallFrames, CopiesInProgress, Place, ResetPlaces
<1>5. CallsStayInRange /\ ResetPhases
  BY <1>1 DEF CallsStayInRange, ResetPhases
<1> QED BY <1>1, <1>3, <1>4, <1>5 DEF RestartInv, GenerationHolds

LEMMA HalfWritten ==
  ASSUME NEW B, NEW b \in [lo : B, hi : B], NEW x \in B
  PROVE  /\ b.lo \in B /\ b.hi \in B
         /\ [lo |-> x, hi |-> b.hi] \in [lo : B, hi : B]
         /\ [lo |-> b.lo, hi |-> x] \in [lo : B, hi : B]
OBVIOUS

(* What push() and pop() may touch, whatever generation they belong to.    *)
LEMMA PushKeepsRange ==
  ASSUME RestartTypeOK, CallsStayInRange, Push, UNCHANGED <<clr, restarts, resetting>>,
         overlap' \in BOOLEAN
  PROVE  /\ RestartTypeOK' /\ CallsStayInRange'
         /\ ppc \in ProducerPlaces /\ ppc' \in ProducerPlaces
<1> USE SlotCountAssumption, MaxSeqAssumption DEF RestartTypeOK, RTypeOK, CallsStayInRange, sharedVars, consVars,
        ProducerPlaces
<1>1. SlotOf(pw) \in 0 .. SlotCount - 1
  BY DEF SlotOf
<1>2. CASE \E b \in Batches : PushStart(b)
  BY <1>2 DEF PushStart
<1>3. CASE PushReject
  BY <1>3 DEF PushReject
<1>4. CASE PushAdmit
  BY <1>4 DEF PushAdmit
<1>5. CASE PushFillLo \/ PushFillHi
  <2>1. PICK half : slots' = [slots EXCEPT ![SlotOf(pw)] = half] /\ half \in Halves
    BY <1>1, <1>5, HalfWritten DEF PushFillLo, PushFillHi, Halves
  <2>2. slots' \in [0 .. SlotCount - 1 -> Halves]
    BY <1>1, <2>1
  <2> QED BY <1>5, <2>2 DEF PushFillLo, PushFillHi
<1>6. CASE PushCommit
  <2>1. Append(accepted, pbatch) \in Seq(Batches)
    BY <1>6 DEF PushCommit
  <2> QED BY <1>6, <2>1 DEF PushCommit
<1> QED BY <1>2, <1>3, <1>4, <1>5, <1>6 DEF Push

LEMMA PopKeepsRange ==
  ASSUME RestartTypeOK, CallsStayInRange, Pop, UNCHANGED <<clr, restarts, resetting>>,
         overlap' \in BOOLEAN
  PROVE  /\ RestartTypeOK' /\ CallsStayInRange'
         /\ ppc' = ppc /\ write_seq' = write_seq /\ accepted' = accepted
         /\ cpc = "idle" => cpc' = "check"
<1> USE SlotCountAssumption, MaxSeqAssumption DEF RestartTypeOK, RTypeOK, CallsStayInRange, sharedVars, prodVars,
        ConsumerPlaces
<1>1. SlotOf(cr) \in 0 .. SlotCount - 1 /\ slots[SlotOf(cr)] \in Halves
  BY DEF SlotOf
<1>2. CASE PopStart
  BY <1>2 DEF PopStart
<1>3. CASE PopNothing
  BY <1>3 DEF PopNothing
<1>4. CASE PopAdmit
  BY <1>4 DEF PopAdmit, Readable
<1>5. CASE PopCopyLo \/ PopCopyHi
  <2>1. cbuf' \in Halves
    BY <1>1, <1>5, HalfWritten DEF PopCopyLo, PopCopyHi, Halves
  <2> QED BY <1>5, <2>1 DEF PopCopyLo, PopCopyHi
<1>6. CASE PopCommit
  <2>1. Contents(cbuf) \in Batches \cup {Blank, Torn}
    BY DEF Contents, Halves
  <2>2. Append(delivered, Contents(cbuf)) \in Seq(Batches \cup {Blank, Torn})
    BY <2>1
  <2> QED BY <1>6, <2>2 DEF PopCommit
<1> QED BY <1>2, <1>3, <1>4, <1>5, <1>6 DEF Pop

LEMMA OrdinaryKeeps ==
  ASSUME RestartInv, Ordinary
  PROVE  RestartInv'
<1>1. /\ UNCHANGED <<clr, restarts, resetting>> /\ Next
      /\ overlap' = (overlap \/ (resetting /\ cpc' # "idle"))
      /\ resetting \in BOOLEAN /\ overlap \in BOOLEAN /\ overlap' \in BOOLEAN
  BY DEF Ordinary, RestartInv, RestartTypeOK, RTypeOK
<1>2. RestartTypeOK /\ CallsStayInRange /\ ResetPhases /\ GenerationHolds
  BY DEF RestartInv
<1>3. CASE Push
  <2>1. /\ RestartTypeOK' /\ CallsStayInRange'
        /\ ppc \in ProducerPlaces /\ ppc' \in ProducerPlaces
    BY <1>1, <1>2, <1>3, PushKeepsRange
  <2>2. ppc \notin ResetPlaces /\ ppc' \notin ResetPlaces
    BY <2>1 DEF ProducerPlaces, ResetPlaces
  <2>3. ~overlap' => ~overlap /\ ~resetting /\ ~resetting'
    BY <1>1, <1>2, <2>2 DEF GenerationHolds
  <2>4. ~overlap' => Standing!QueueInv'
    BY <1>1, <1>2, <2>3, OrdinaryIsStanding, StandingStep DEF GenerationHolds
  <2>5. ResetPhases'
    BY <2>2 DEF ResetPhases, ResetPlaces
  <2> QED BY <2>1, <2>3, <2>4, <2>5 DEF RestartInv, GenerationHolds
<1>4. CASE Pop
  <2>1. /\ RestartTypeOK' /\ CallsStayInRange'
        /\ ppc' = ppc /\ write_seq' = write_seq /\ accepted' = accepted
        /\ cpc = "idle" => cpc' = "check"
    BY <1>1, <1>2, <1>4, PopKeepsRange
  <2>2. ~overlap' => ~overlap /\ ~resetting /\ ~resetting'
    BY <1>1, <1>2, <2>1 DEF GenerationHolds
  <2>3. ~overlap' => Standing!QueueInv'
    BY <1>1, <1>2, <2>2, OrdinaryIsStanding, StandingStep DEF GenerationHolds
  <2>4. ResetPhases'
    BY <1>1, <1>2, <2>1, <2>2 DEF ResetPhases
  <2> QED BY <2>1, <2>2, <2>3, <2>4 DEF RestartInv, GenerationHolds
<1> QED BY <1>1, <1>3, <1>4 DEF Next

LEMMA RestartStep == RestartInv /\ [RNext]_allVars => RestartInv'
<1> SUFFICES ASSUME RestartInv, [RNext]_allVars PROVE RestartInv'
  OBVIOUS
<1> USE SlotCountAssumption, MaxSeqAssumption
<1>1. /\ RestartTypeOK /\ CallsStayInRange /\ ResetPhases
      /\ ~overlap /\ resetting => cpc = "idle" /\ ppc \in ResetPlaces /\ DeliveredInOrder
      /\ ~overlap /\ ~resetting => StandingParts
  BY StandingIs DEF RestartInv, GenerationHolds
<1> SUFFICES /\ RestartTypeOK' /\ CallsStayInRange' /\ ResetPhases'
             /\ ~overlap' /\ resetting' => cpc' = "idle" /\ ppc' \in ResetPlaces /\ DeliveredInOrder'
             /\ ~overlap' /\ ~resetting' => StandingParts'
  BY StandingNext DEF RestartInv, GenerationHolds
<1> USE DEF RestartTypeOK, RTypeOK, CallsStayInRange, ResetPhases, sharedVars, prodVars, consVars
<1>2. CASE Ordinary
  BY <1>2, OrdinaryKeeps, StandingNext DEF RestartInv, GenerationHolds
<1>3. CASE ProducerCrash
  <2>1. UNCHANGED <<sharedVars, pw, pbatch, consVars, accepted, delivered, clr, resetting, overlap>>
        /\ ppc' = "down"
    BY <1>3 DEF ProducerCrash
  <2>2. Place' = "idle" /\ DeliveredInOrder' = DeliveredInOrder
    BY <2>1 DEF Place, ResetPlaces, DeliveredInOrder
  <2>3. ~overlap /\ ~resetting => StandingParts'
    BY <1>1, <2>1, <2>2 DEF StandingParts, WithinCapacity, Histories, RingHoldsUndelivered, ProducerPlaces, DeliveredInOrder
  <2>4. RestartTypeOK'
    BY <1>1, <1>3 DEF ProducerCrash, ResetPlaces
  <2> QED BY <1>1, <2>1, <2>2, <2>3, <2>4 DEF ResetPlaces, DeliveredInOrder
<1>4. CASE ProducerReopen
  <2>1. UNCHANGED <<sharedVars, consVars, accepted, delivered, restarts, resetting, overlap>>
        /\ ppc = "down" /\ ppc' = "reset_read" /\ pw' = 0 /\ pbatch' = Blank /\ clr' = 0
    BY <1>4 DEF ProducerReopen
  <2>2. Place' = "idle" /\ DeliveredInOrder' = DeliveredInOrder
    BY <2>1 DEF Place, ResetPlaces, DeliveredInOrder
  <2>3. ~overlap /\ ~resetting => StandingParts'
    BY <1>1, <2>1, <2>2 DEF StandingParts, WithinCapacity, Histories, RingHoldsUndelivered, ProducerPlaces, DeliveredInOrder
  <2> QED BY <1>1, <2>1, <2>2, <2>3 DEF ResetPlaces, DeliveredInOrder
<1>5. CASE ResetReadSeq
  <2>1. /\ UNCHANGED <<write_seq, slots, pw, pbatch, consVars, accepted, delivered, clr, restarts>>
        /\ ppc = "reset_read" /\ ppc' = "reset_write" /\ read_seq' = 0 /\ resetting' = TRUE
        /\ overlap' = (overlap \/ cpc # "idle")
    BY <1>5 DEF ResetReadSeq, PopInProgress
  <2>2. ~overlap => DeliveredInOrder
    BY <1>1 DEF StandingParts
  <2> QED BY <1>1, <2>1, <2>2 DEF ResetPlaces, DeliveredInOrder
<1>6. CASE ResetWriteSeq
  <2>1. /\ UNCHANGED <<read_seq, slots, pw, pbatch, consVars, clr, restarts, resetting>>
        /\ ppc = "reset_write" /\ ppc' = "reset_clear" /\ write_seq' = 0
        /\ accepted' = <<>> /\ delivered' = <<>>
        /\ overlap' = (overlap \/ cpc # "idle")
    BY <1>6 DEF ResetWriteSeq, PopInProgress
  <2>2. DeliveredInOrder'
    BY <2>1 DEF DeliveredInOrder
  <2> QED BY <1>1, <2>1, <2>2 DEF ResetPlaces
<1>7. CASE ResetClearSlot
  <2>1. /\ UNCHANGED <<write_seq, read_seq, pw, pbatch, consVars, accepted, delivered, restarts>>
        /\ ppc = "reset_clear" /\ slots' = [slots EXCEPT ![clr] = Whole(Blank)] /\ clr' = clr + 1
        /\ resetting' = (clr' < SlotCount)
        /\ ppc' = IF resetting' THEN "reset_clear" ELSE "idle"
        /\ overlap' = (overlap \/ cpc # "idle")
    BY <1>7 DEF ResetClearSlot, PopInProgress
  <2>2. slots' \in [0 .. SlotCount - 1 -> Halves]
    BY <1>1, <2>1 DEF Whole, Halves
  <2>3. ~overlap' => /\ cpc' = "idle" /\ write_seq' = 0 /\ read_seq' = 0
                     /\ accepted' = <<>> /\ delivered' = <<>>
    BY <1>1, <2>1
  <2>4. RestartTypeOK' /\ CallsStayInRange' /\ ResetPhases'
    <3>1. resetting' \in BOOLEAN /\ overlap' \in BOOLEAN /\ clr' \in 0 .. SlotCount /\ clr' # 0
          /\ (resetting' <=> clr' < SlotCount)
      BY <1>1, <2>1
    <3>2. ppc' = "idle" \/ (ppc' = "reset_clear" /\ resetting')
      BY <2>1
    <3>3. RestartTypeOK'
      BY <1>1, <2>1, <2>2, <3>1, <3>2 DEF ResetPlaces, ProducerPlaces
    <3>4. CallsStayInRange'
      BY <1>1, <2>1, <3>2
    <3>5. ResetPhases'
      BY <2>3, <3>1, <3>2
    <3> QED BY <3>3, <3>4, <3>5
  <2>5. accepted' = <<>> /\ delivered' = <<>> => DeliveredInOrder'
    BY DEF DeliveredInOrder
  <2>6. resetting' => ppc' \in ResetPlaces
    BY <2>1 DEF ResetPlaces
  <2>7. ~resetting' => Place' = "idle"
    BY <2>1 DEF Place
  <2>8. ~overlap' /\ ~resetting' => StandingParts'
    BY <2>3, <2>4, <2>5, <2>7
       DEF StandingParts, WithinCapacity, Histories, RingHoldsUndelivered, ProducerPlaces
  <2> QED BY <2>3, <2>4, <2>5, <2>6, <2>8
<1>8. CASE ConsumerCrash
  <2>1. /\ UNCHANGED <<sharedVars, prodVars, accepted, delivered, clr, resetting, overlap>>
        /\ cpc' = "idle" /\ cr' = 0 /\ cbuf' = Whole(Blank) /\ restarts' \in 0 .. MaxRestarts
    BY <1>1, <1>8, RestartAssumption DEF ConsumerCrash
  <2>2. Place' = Place /\ DeliveredInOrder' = DeliveredInOrder
    BY <2>1 DEF Place, DeliveredInOrder
  <2>3. RestartTypeOK' /\ CallsStayInRange' /\ ResetPhases'
    BY <1>1, <2>1 DEF ConsumerPlaces, Whole, Halves
  <2>4. ~overlap /\ ~resetting => StandingParts'
    BY <1>1, <2>1, <2>2, <2>3 DEF StandingParts, WithinCapacity, Histories, RingHoldsUndelivered, DeliveredInOrder
  <2> QED BY <1>1, <2>1, <2>2, <2>3, <2>4
<1>9. CASE UNCHANGED allVars
  BY <1>1, <1>9 DEF allVars, vars, restartVars, StandingParts, WithinCapacity, Histories,
     RingHoldsUndelivered, DeliveredInOrder, Place
<1> QED BY <1>2, <1>3, <1>4, <1>5, <1>6, <1>7, <1>8, <1>9 DEF RNext, Reset

(* A generation of batches keeps what the queue promises. *)
LEMMA GenerationsKept == RestartInv => GenerationsStayApart /\ UndeliveredStaysInRing
<1> SUFFICES ASSUME RestartInv PROVE GenerationsStayApart /\ UndeliveredStaysInRing
  OBVIOUS
<1>1. /\ ~overlap /\ resetting => ppc \in ResetPlaces /\ DeliveredInOrder
      /\ ~overlap /\ ~resetting => StandingParts
      /\ cpc \in ConsumerPlaces
  BY StandingIs DEF RestartInv, GenerationHolds, RestartTypeOK, RTypeOK
<1>2. CASE overlap
  BY <1>2 DEF GenerationsStayApart, UndeliveredStaysInRing
<1>3. CASE ~overlap /\ resetting
  BY <1>1, <1>3 DEF GenerationsStayApart, UndeliveredStaysInRing, NoSlotRace, ResetPlaces
<1>4. CASE ~overlap /\ ~resetting
  <2>1. StandingParts
    BY <1>1, <1>4
  <2>2. NoSlotRace
    <3> SUFFICES ASSUME ppc \in {"fill_lo", "fill_hi", "commit"}, cpc \in {"copy_lo", "copy_hi"}
                 PROVE  SlotOf(pw) # SlotOf(cr)
      BY DEF NoSlotRace
    <3>1. Place = ppc
      BY DEF Place, ResetPlaces
    <3>2. /\ pw = write_seq /\ cr = read_seq /\ read_seq < write_seq
          /\ write_seq - read_seq < SlotCount /\ write_seq \in Nat /\ read_seq \in Nat
      BY <2>1, <3>1 DEF StandingParts
    <3> QED BY <3>2, SlotsDistinct
  <2>3. UndeliveredStaysInRing
    <3> SUFFICES ASSUME NEW i \in Len(delivered) + 1 .. Len(accepted)
                 PROVE  slots[SlotOf(i - 1)] = Whole(accepted[i])
      BY DEF UndeliveredStaysInRing
    <3>1. /\ Len(accepted) = write_seq /\ Len(delivered) = read_seq
          /\ write_seq \in Nat /\ read_seq \in Nat
      BY <2>1 DEF StandingParts, Histories
    <3>2. i - 1 \in read_seq .. write_seq - 1 /\ (i - 1) + 1 = i
      BY <3>1
    <3> QED BY <2>1, <3>2 DEF StandingParts, RingHoldsUndelivered
  <2> QED BY <2>1, <2>2, <2>3 DEF GenerationsStayApart, StandingParts
<1> QED BY <1>2, <1>3, <1>4

(* Batches of two generations stay apart and undelivered ones in the ring,  *)
(* for every ring and however often its ends restart.                      *)
THEOREM RestartsKeepGenerations == RSpec => [](GenerationsStayApart /\ UndeliveredStaysInRing)
BY GenerationsKept, RestartInitially, RestartStep, PTL DEF RSpec

-----------------------------------------------------------------------------
(* The points of the torque learner (TorquePoints): the samples of the     *)
(* motion are at least a period apart, so what the history remembers is    *)
(* older than any point that the learner pairs.                            *)

LEMMA PointsConstants ==
  /\ TickGap \in Nat \ {0} /\ MotionPeriod \in Nat \ {0} /\ Lag \in Nat \ {0} /\ Engaged \in Nat \ {0}
  /\ HistoryLength \in Nat /\ HistoryLength > 1
  /\ AgeCap \in Nat /\ AgeCap = Engaged + Lag + MotionPeriod
BY PointsAssumption DEF AgeCap

(* The window has a point in every stretch of a period that begins in it. *)
LEMMA WindowHasPoint ==
  ASSUME NEW young \in Nat, young < Engaged + Lag
  PROVE  \E back \in WindowAges : young < back /\ back <= young + MotionPeriod /\ back \in Nat
<1> DEFINE x == Engaged + Lag - young - 1
           q == x \div MotionPeriod
           r == x % MotionPeriod
<1>1. x \in Nat /\ x <= Engaged + Lag - 1 /\ MotionPeriod \in Nat /\ MotionPeriod > 0
  BY PointsConstants
<1> HIDE DEF x
<1>2. x = MotionPeriod * q + r /\ r \in 0 .. MotionPeriod - 1 /\ q \in Int
  BY <1>1
<1> HIDE DEF q, r
<1>3. q >= 0
  <2>1. SUFFICES ASSUME q <= -1 PROVE FALSE
    BY <1>2
  <2>2. MotionPeriod * q <= MotionPeriod * (-1)
    BY <1>1, <1>2, <2>1
  <2> QED BY <1>1, <1>2, <2>2
<1>4. q <= x
  <2>1. MotionPeriod * q >= q
    BY <1>1, <1>2, <1>3
  <2> QED BY <1>1, <1>2, <2>1
<1>5. MotionPeriod * q = q * MotionPeriod /\ q * MotionPeriod \in Int
  BY <1>1, <1>2
<1> DEFINE back == Engaged + Lag - q * MotionPeriod
<1>6. back = young + 1 + r
  BY <1>1, <1>2, <1>5, PointsConstants DEF x
<1>7. q \in 0 .. Engaged + Lag /\ q * MotionPeriod < Engaged + Lag
  BY <1>1, <1>2, <1>3, <1>4, <1>5, <1>6, PointsConstants
<1>8. back \in WindowAges
  BY <1>7 DEF WindowAges
<1> QED BY <1>1, <1>2, <1>6, <1>8

(* What interp_raw() reads between two samples, and of the oldest.         *)
LEMMA ReadBetween ==
  ASSUME NEW samples \in Seq(Samples), Ordered(samples), NEW back \in Nat,
         NEW i \in 1 .. Len(samples), samples[i].age >= back,
         i < Len(samples) => samples[i + 1].age < back
  PROVE  /\ Interpolated(samples, back, "on") =>
              samples[i].on \/ (i < Len(samples) /\ samples[i + 1].on)
         /\ samples[i].override => Interpolated(samples, back, "override")
<1>6. i = Len(samples) \/ i < Len(samples)
  OBVIOUS
<1> DEFINE older == {k \in DOMAIN samples : samples[k].age >= back}
           last == CHOOSE k \in older : \A j \in older : j <= k
<1>1. DOMAIN samples = 1 .. Len(samples) /\ Len(samples) \in Nat
      /\ \A k \in 1 .. Len(samples) : samples[k].age \in 0 .. AgeCap
  <2>1. DOMAIN samples = 1 .. Len(samples) /\ Len(samples) \in Nat
    OBVIOUS
  <2>2. \A k \in 1 .. Len(samples) : samples[k] \in Samples
    OBVIOUS
  <2> QED BY <2>1, <2>2 DEF Samples
<1>2. i \in older /\ \A j \in older : j <= i
  <2> SUFFICES ASSUME NEW j \in older, j > i PROVE FALSE
    BY <1>1
  <2>1. j \in 1 .. Len(samples) /\ samples[j].age >= back /\ i + 1 \in 1 .. Len(samples)
        /\ samples[i + 1].age < back
    BY <1>1
  <2>2. j = i + 1 \/ i + 1 < j
    BY <2>1
  <2>3. CASE i + 1 < j
    <3>1. Far(samples[i + 1].age, samples[j].age + MotionPeriod)
      BY <2>1, <2>3 DEF Ordered
    <3>2. PICK younger \in Nat, oldest \in Nat :
            /\ younger = samples[i + 1].age /\ oldest = samples[j].age /\ oldest <= AgeCap
            /\ younger < back /\ back <= oldest
      BY <1>1, <2>1, PointsConstants
    <3> QED BY <3>1, <3>2, PointsConstants DEF Far
  <2> QED BY <1>1, <2>1, <2>2, <2>3
<1>3. last = i
  <2>1. last \in older /\ \A j \in older : j <= last
    BY <1>2
  <2> HIDE DEF last
  <2> QED BY <1>1, <1>2, <2>1
<1>4. older # {}
  BY <1>2
<1>5. /\ Interpolated(samples, back, "on") <=>
           IF older = {} THEN samples[1].on
           ELSE IF last = Len(samples) \/ samples[last].age = back THEN samples[last].on
           ELSE samples[last].on \/ samples[last + 1].on
      /\ Interpolated(samples, back, "override") <=>
           IF older = {} THEN samples[1].override
           ELSE IF last = Len(samples) \/ samples[last].age = back THEN samples[last].override
           ELSE samples[last].override \/ samples[last + 1].override
  BY DEF Interpolated
<1> HIDE DEF last, older
<1>7. CASE i = Len(samples)
  BY <1>3, <1>4, <1>5, <1>7
<1>8. CASE i < Len(samples)
  BY <1>1, <1>3, <1>4, <1>5, <1>8
<1> QED BY <1>6, <1>7, <1>8

LEMMA ReadBefore ==
  ASSUME NEW samples, NEW back, \A i \in DOMAIN samples : ~(samples[i].age >= back)
  PROVE  Interpolated(samples, back, "on") <=> samples[1].on
BY DEF Interpolated

(* A point is taken from a history without a break younger than the window. *)
LEMMA WindowSeesBreak ==
  ASSUME NEW samples \in Seq(Samples), Ordered(samples), Len(samples) > 0,
         NEW i \in 1 .. Len(samples) - 1, samples[i].age < Engaged, Breaks(samples, i)
  PROVE  ~TakesPoint(samples)
<1>1. /\ Len(samples) \in Nat /\ DOMAIN samples = 1 .. Len(samples)
      /\ \A k \in 1 .. Len(samples) : samples[k] \in Samples
  OBVIOUS
<1>2. \A k \in 1 .. Len(samples) :
        samples[k].age \in 0 .. AgeCap /\ samples[k].on \in BOOLEAN /\ samples[k].override \in BOOLEAN
  BY <1>1 DEF Samples
<1> SUFFICES ASSUME TakesPoint(samples) PROVE FALSE
  OBVIOUS
<1>3. \A back \in WindowAges :
        Interpolated(samples, back, "on") /\ ~Interpolated(samples, back, "override")
  BY DEF TakesPoint
<1>4. i \in 1 .. Len(samples) /\ i + 1 \in 1 .. Len(samples) /\ i < i + 1
  BY <1>1
<1>a. PICK s \in Nat : s = samples[i].age
  BY <1>2, <1>4
<1>b. PICK y \in Nat : y = samples[i + 1].age
  BY <1>2, <1>4
<1>c. s < Engaged /\ s >= y + MotionPeriod
  <2>1. s = AgeCap \/ s >= y + MotionPeriod
    BY <1>4, <1>a, <1>b DEF Ordered, Far
  <2> QED BY <1>a, <2>1, PointsConstants
<1>5. PICK near \in WindowAges : y < near /\ near <= y + MotionPeriod /\ near \in Nat
  <2>1. y < Engaged + Lag
    BY <1>c, PointsConstants
  <2> QED BY <2>1, WindowHasPoint
<1>6. PICK far \in WindowAges : s < far /\ far <= s + MotionPeriod /\ far \in Nat
  <2>1. s < Engaged + Lag
    BY <1>c, PointsConstants
  <2> QED BY <2>1, WindowHasPoint
<1>7. CASE samples[i].override
  <2>1. samples[i].age >= near /\ samples[i + 1].age < near /\ i \in 1 .. Len(samples)
    BY <1>4, <1>5, <1>a, <1>b, <1>c, PointsConstants
  <2>2. Interpolated(samples, near, "override")
    BY <1>5, <1>7, <2>1, ReadBetween
  <2> QED BY <1>3, <1>5, <2>2
<1>8. CASE ~samples[i].on /\ i = 1
  <2>1. \A k \in DOMAIN samples : ~(samples[k].age >= far)
    <3> SUFFICES ASSUME NEW k \in 1 .. Len(samples) PROVE ~(samples[k].age >= far)
      BY <1>1
    <3>1. k = 1 \/ 1 < k
      OBVIOUS
    <3>2. CASE k = 1
      BY <1>2, <1>4, <1>6, <1>8, <1>a, <3>2
    <3>3. CASE 1 < k
      <4>1. samples[1].age = AgeCap \/ samples[1].age >= samples[k].age + MotionPeriod
        BY <1>1, <3>3 DEF Ordered, Far
      <4>2. samples[1].age < Engaged /\ samples[1].age < far /\ samples[1].age \in Nat /\ samples[k].age \in Nat
        BY <1>2, <1>6, <1>8, <1>a, <1>c
      <4> QED BY <1>6, <4>1, <4>2, PointsConstants
    <3> QED BY <3>1, <3>2, <3>3
  <2>3. ~Interpolated(samples, far, "on")
    BY <1>8, <2>1, ReadBefore
  <2> QED BY <1>3, <1>6, <2>3
<1>9. CASE ~samples[i].on /\ i > 1 /\ ~samples[i - 1].on
  <2>1. i - 1 \in 1 .. Len(samples) /\ (i - 1) + 1 = i /\ i - 1 < Len(samples)
    BY <1>1, <1>9
  <2>2. samples[i - 1].age >= far
    <3>1. samples[i - 1].age = AgeCap \/ samples[i - 1].age >= s + MotionPeriod
      BY <1>4, <1>a, <2>1 DEF Ordered, Far
    <3>2. PICK before \in Nat : before = samples[i - 1].age
      BY <1>2, <2>1
    <3>3. before >= far
      <4>1. before = AgeCap \/ before >= s + MotionPeriod
        BY <3>1, <3>2
      <4> QED BY <1>6, <1>c, <4>1, PointsConstants
    <3> QED BY <3>2, <3>3
  <2>3. samples[(i - 1) + 1].age < far
    BY <1>6, <1>a, <2>1
  <2>4. Interpolated(samples, far, "on") =>
          samples[i - 1].on \/ samples[(i - 1) + 1].on
    BY <1>6, <2>1, <2>2, <2>3, ReadBetween
  <2>5. ~Interpolated(samples, far, "on")
    BY <1>9, <2>1, <2>4
  <2> QED BY <1>3, <1>6, <2>5
<1> QED BY <1>7, <1>8, <1>9, <1>2 DEF Breaks

LEMMA GrownAge ==
  ASSUME NEW most \in Nat, NEW age \in 0 .. most, NEW gap \in Nat
  PROVE  /\ Grown(age, gap, most) \in 0 .. most
         /\ Grown(age, gap, most) <= age + gap
         /\ Grown(age, gap, most) = age + gap \/ Grown(age, gap, most) = most
BY DEF Grown, NoTime

Aged(past, gap) ==
  [i \in DOMAIN past |-> [past[i] EXCEPT !.age = Grown(@, gap, AgeCap)]]

LEMMA AgedSamples ==
  ASSUME NEW past \in Seq(Samples), NEW gap \in Nat
  PROVE  /\ Aged(past, gap) \in Seq(Samples) /\ Len(Aged(past, gap)) = Len(past)
         /\ \A i \in 1 .. Len(past) :
              /\ past[i].age \in 0 .. AgeCap
              /\ Aged(past, gap)[i].age \in 0 .. AgeCap
              /\ Aged(past, gap)[i].age = past[i].age + gap \/ Aged(past, gap)[i].age = AgeCap
              /\ Aged(past, gap)[i].age <= past[i].age + gap
              /\ Aged(past, gap)[i].on <=> past[i].on
              /\ Aged(past, gap)[i].override <=> past[i].override
<1>1. DOMAIN past = 1 .. Len(past) /\ Len(past) \in Nat /\ \A i \in 1 .. Len(past) : past[i] \in Samples
  OBVIOUS
<1>2. ASSUME NEW i \in 1 .. Len(past)
      PROVE  /\ past[i].age \in 0 .. AgeCap
             /\ Aged(past, gap)[i] \in Samples
             /\ Aged(past, gap)[i].age \in 0 .. AgeCap
             /\ Aged(past, gap)[i].age = past[i].age + gap \/ Aged(past, gap)[i].age = AgeCap
             /\ Aged(past, gap)[i].age <= past[i].age + gap
             /\ Aged(past, gap)[i].on <=> past[i].on
             /\ Aged(past, gap)[i].override <=> past[i].override
  <2>1. past[i] \in Samples
    BY <1>1
  <2>2. past[i].age \in 0 .. AgeCap
    BY <2>1 DEF Samples
  <2>3. PICK older \in 0 .. AgeCap :
          /\ older = Grown(past[i].age, gap, AgeCap)
          /\ older = past[i].age + gap \/ older = AgeCap
          /\ older <= past[i].age + gap
    BY <2>2, GrownAge, PointsConstants
  <2>4. Aged(past, gap)[i] = [past[i] EXCEPT !.age = older]
    BY <1>1, <2>3 DEF Aged
  <2> QED BY <2>1, <2>2, <2>3, <2>4 DEF Samples
<1>3. Aged(past, gap) \in Seq(Samples) /\ Len(Aged(past, gap)) = Len(past)
  <2>1. Aged(past, gap) \in [1 .. Len(past) -> Samples]
    BY <1>1, <1>2 DEF Aged
  <2> QED BY <1>1, <2>1, SeqDef
<1> QED BY <1>2, <1>3

LEMMA AgingKeeps ==
  ASSUME NEW past \in Seq(Samples), NEW gap \in Nat, NEW motion \in 0 .. MotionPeriod,
         NEW still \in 0 .. AgeCap, Spaced(past, motion), Remembers(past, still)
  PROVE  /\ Spaced(Aged(past, gap), Grown(motion, gap, MotionPeriod))
         /\ Remembers(Aged(past, gap), Grown(still, gap, AgeCap))
<1> DEFINE aged == Aged(past, gap)
<1>1. /\ aged \in Seq(Samples) /\ Len(aged) = Len(past) /\ Len(past) \in Nat
      /\ \A i \in 1 .. Len(past) :
           /\ past[i].age \in 0 .. AgeCap
           /\ aged[i].age \in 0 .. AgeCap
           /\ aged[i].age = past[i].age + gap \/ aged[i].age = AgeCap
           /\ aged[i].age <= past[i].age + gap
           /\ aged[i].on <=> past[i].on
           /\ aged[i].override <=> past[i].override
  <2>1. Len(past) \in Nat
    OBVIOUS
  <2>2. aged \in Seq(Samples) /\ Len(aged) = Len(past)
    BY AgedSamples
  <2> QED BY <2>1, <2>2, AgedSamples
<1> HIDE DEF aged
<1>2. Ordered(aged)
  <2>a. Len(aged) = Len(past)
    BY <1>1
  <2> SUFFICES ASSUME NEW i \in 1 .. Len(past), NEW j \in 1 .. Len(past), i < j
               PROVE  Far(aged[i].age, aged[j].age + MotionPeriod)
    BY <2>a DEF Ordered
  <2>1. Far(past[i].age, past[j].age + MotionPeriod)
    BY DEF Spaced, Ordered
  <2>2. PICK a \in 0 .. AgeCap : a = past[i].age
    BY <1>1
  <2>3. PICK b \in 0 .. AgeCap : b = past[j].age
    BY <1>1
  <2>4. PICK c \in 0 .. AgeCap : c = aged[i].age
    BY <1>1
  <2>5. PICK d \in 0 .. AgeCap : d = aged[j].age
    BY <1>1
  <2>6. a = AgeCap \/ a >= b + MotionPeriod
    BY <2>1, <2>2, <2>3 DEF Far
  <2>7. (c = a + gap \/ c = AgeCap) /\ d <= b + gap
    BY <1>1, <2>2, <2>3, <2>4, <2>5
  <2>8. c = AgeCap \/ c >= d + MotionPeriod
    BY <2>6, <2>7, PointsConstants
  <2> QED BY <2>4, <2>5, <2>8 DEF Far
<1>3. ASSUME NEW i \in 1 .. Len(past)
      PROVE  Far(aged[i].age, (Len(past) - i) * MotionPeriod + Grown(motion, gap, MotionPeriod))
  <2>1. Far(past[i].age, (Len(past) - i) * MotionPeriod + motion)
    BY DEF Spaced
  <2>2. PICK apart \in Nat : apart = (Len(past) - i) * MotionPeriod
    <3>1. Len(past) - i \in Nat
      BY <1>1
    <3> QED BY <3>1, PointsConstants
  <2>3. PICK later \in Nat : later = Grown(motion, gap, MotionPeriod) /\ later <= motion + gap
    BY PointsConstants DEF Grown, NoTime
  <2>4. PICK a \in 0 .. AgeCap : a = past[i].age
    BY <1>1
  <2>5. PICK c \in 0 .. AgeCap : c = aged[i].age
    BY <1>1
  <2>6. a = AgeCap \/ a >= apart + motion
    BY <2>1, <2>2, <2>4 DEF Far
  <2>7. c = a + gap \/ c = AgeCap
    BY <1>1, <2>4, <2>5
  <2>8. c = AgeCap \/ c >= apart + later
    BY <2>3, <2>6, <2>7, PointsConstants
  <2> QED BY <2>2, <2>3, <2>5, <2>8 DEF Far
<1>4. Remembers(aged, Grown(still, gap, AgeCap))
  <2> SUFFICES ASSUME aged # <<>>, Grown(still, gap, AgeCap) < Engaged
               PROVE  \/ Grown(still, gap, AgeCap) >= aged[1].age
                      \/ \E i \in 1 .. Len(aged) : aged[i].age = Grown(still, gap, AgeCap) /\ Breaks(aged, i)
    BY DEF Remembers
  <2>1. Grown(still, gap, AgeCap) = still + gap /\ still < Engaged
    BY PointsConstants DEF Grown, NoTime
  <2>2. past # <<>> /\ 1 \in 1 .. Len(past)
    BY <1>1
  <2>3. CASE still >= past[1].age
    <3>1. PICK a \in 0 .. AgeCap : a = past[1].age
      BY <1>1, <2>2
    <3>2. PICK c \in 0 .. AgeCap : c = aged[1].age
      BY <1>1, <2>2
    <3>3. c <= a + gap /\ still >= a
      BY <1>1, <2>2, <2>3, <3>1, <3>2
    <3>4. still + gap >= c
      BY <3>3
    <3> QED BY <2>1, <3>2, <3>4
  <2>4. ASSUME NEW i \in 1 .. Len(past), past[i].age = still, Breaks(past, i)
        PROVE  aged[i].age = still + gap /\ Breaks(aged, i)
    <3>1. aged[i].age = still + gap
      <4>1. PICK c \in 0 .. AgeCap : c = aged[i].age
        BY <1>1
      <4>2. c = still + gap \/ c = AgeCap
        BY <1>1, <2>4, <4>1
      <4>3. c = still + gap
        <5>1. c <= still + gap
          BY <1>1, <2>4, <4>1
        <5> QED BY <2>1, <4>2, <5>1, PointsConstants
      <4> QED BY <4>1, <4>3
    <3>2. i = 1 \/ i - 1 \in 1 .. Len(past)
      BY <1>1
    <3> QED BY <1>1, <2>4, <3>1, <3>2 DEF Breaks
  <2> QED BY <1>1, <2>1, <2>2, <2>3, <2>4 DEF Remembers
<1> QED BY <1>1, <1>2, <1>3, <1>4 DEF Spaced, aged

(* What KeptSample() holds: the samples but one too many, and the new one. *)
LEMMA Kept ==
  ASSUME NEW past \in Seq(Samples), NEW sample \in Samples, Len(past) <= HistoryLength
  PROVE  \E d \in {0, 1} :
           /\ KeptSample(past, sample) \in Seq(Samples)
           /\ d = 1 <=> Len(past) = HistoryLength
           /\ d <= Len(past)
           /\ Len(KeptSample(past, sample)) = Len(past) - d + 1
           /\ KeptSample(past, sample)[Len(past) - d + 1] = sample
           /\ \A i \in 1 .. Len(past) - d : KeptSample(past, sample)[i] = past[i + d]
<1>1. CASE Len(past) = HistoryLength
  <2>1. past # <<>>
    BY <1>1, PointsConstants
  <2>2. /\ Tail(past) \in Seq(Samples) /\ Len(Tail(past)) = Len(past) - 1 /\ Len(past) \in Nat
        /\ Len(past) >= 1
        /\ \A i \in 1 .. Len(past) - 1 : Tail(past)[i] = past[i + 1]
    BY <2>1, HeadTailProperties
  <2>3. KeptSample(past, sample) = Append(Tail(past), sample)
    BY <1>1 DEF KeptSample
  <2>4. /\ Append(Tail(past), sample) \in Seq(Samples)
        /\ Len(Append(Tail(past), sample)) = Len(Tail(past)) + 1
        /\ \A i \in 1 .. Len(Tail(past)) : Append(Tail(past), sample)[i] = Tail(past)[i]
        /\ Append(Tail(past), sample)[Len(Tail(past)) + 1] = sample
    BY <2>2, AppendProperties
  <2> QED BY <1>1, <2>2, <2>3, <2>4
<1>2. CASE Len(past) # HistoryLength
  <2>1. KeptSample(past, sample) = Append(past, sample)
    BY <1>2 DEF KeptSample
  <2>2. /\ Append(past, sample) \in Seq(Samples) /\ Len(past) \in Nat
        /\ Len(Append(past, sample)) = Len(past) + 1
        /\ \A i \in 1 .. Len(past) : Append(past, sample)[i] = past[i]
        /\ Append(past, sample)[Len(past) + 1] = sample
    BY AppendProperties
  <2> QED BY <1>2, <2>1, <2>2
<1> QED BY <1>1, <1>2

LEMMA KeepingKeeps ==
  ASSUME NEW past \in Seq(Samples), Spaced(past, MotionPeriod),
         NEW still \in 0 .. AgeCap, Remembers(past, still),
         NEW sample \in Samples, sample.age = 0, NEW idle \in BOOLEAN,
         past # <<>> => (idle <=> ~past[Len(past)].on)
  PROVE  /\ KeptSample(past, sample) \in Seq(Samples) /\ KeptSample(past, sample) # <<>>
         /\ Spaced(KeptSample(past, sample), 0)
         /\ KeptSample(past, sample)[Len(KeptSample(past, sample))] = sample
         /\ Remembers(KeptSample(past, sample), still)
         /\ sample.override \/ (~sample.on /\ idle) => Remembers(KeptSample(past, sample), 0)
<1> DEFINE kept == KeptSample(past, sample)
           last == Len(past)
<1>1. PICK d \in {0, 1} :
        /\ kept \in Seq(Samples)
        /\ d = 1 <=> last = HistoryLength
        /\ d <= last /\ Len(kept) = last - d + 1 /\ kept[last - d + 1] = sample
        /\ \A i \in 1 .. last - d : kept[i] = past[i + d]
  <2>1. Len(past) <= HistoryLength
    BY DEF Spaced
  <2> QED BY <2>1, Kept
<1>2. last \in Nat /\ last <= HistoryLength
  BY DEF Spaced
<1>3. /\ \A i \in 1 .. last : past[i] \in Samples
      /\ \A i \in 1 .. last : past[i].age \in 0 .. AgeCap
  <2>1. \A i \in 1 .. last : past[i] \in Samples
    OBVIOUS
  <2> QED BY <2>1 DEF Samples
<1> HIDE DEF kept, last
<1>4. /\ \A i, j \in 1 .. last : i < j => Far(past[i].age, past[j].age + MotionPeriod)
      /\ \A i \in 1 .. last : Far(past[i].age, (last - i) * MotionPeriod + MotionPeriod)
  BY DEF Spaced, Ordered, last
<1>5. DEFINE size == last - d + 1
<1>6. size \in Nat /\ size >= 1 /\ size <= HistoryLength /\ Len(kept) = size /\ kept # <<>>
  <2>1. size \in Nat /\ size >= 1 /\ size <= HistoryLength
    BY <1>1, <1>2, PointsConstants
  <2>2. Len(kept) = size
    BY <1>1
  <2> QED BY <2>1, <2>2, <1>1
<1>7. kept[size] = sample
  BY <1>1
<1>8. ASSUME NEW i \in 1 .. size, i < size
      PROVE  kept[i] = past[i + d] /\ i + d \in 1 .. last
  <2>1. i \in 1 .. last - d /\ i + d \in 1 .. last
    BY <1>1, <1>2, <1>8
  <2> QED BY <1>1, <2>1
<1> HIDE DEF size
<1>9. ASSUME NEW i \in 1 .. size
      PROVE  Far(kept[i].age, (size - i) * MotionPeriod)
  <2>1. CASE i = size
    BY <1>7, <2>1, PointsConstants DEF Far
  <2>2. CASE i < size
    <3>1. Far(past[i + d].age, (last - (i + d)) * MotionPeriod + MotionPeriod)
      BY <1>4, <1>8, <2>2
    <3>2. size - i = (last - (i + d)) + 1
      BY <1>1, <1>2 DEF size
    <3>3. PICK n \in Int : n = last - (i + d)
      BY <1>1, <1>2
    <3>4. (n + 1) * MotionPeriod = n * MotionPeriod + MotionPeriod
      BY PointsConstants
    <3> QED BY <1>8, <2>2, <3>1, <3>2, <3>3, <3>4
  <2> QED BY <1>6, <2>1, <2>2
<1>10. Ordered(kept)
  <2> SUFFICES ASSUME NEW i \in 1 .. size, NEW j \in 1 .. size, i < j
               PROVE  Far(kept[i].age, kept[j].age + MotionPeriod)
    BY <1>6 DEF Ordered
  <2>1. i < size /\ (j = size \/ j < size)
    BY <1>6
  <2>2. CASE j = size
    <3>1. PICK a \in 0 .. AgeCap : a = kept[i].age
      BY <1>3, <1>8, <2>1
    <3>2. PICK n \in Nat : n = size - i /\ n >= 1
      BY <1>6, <2>1
    <3>3. a = AgeCap \/ a >= n * MotionPeriod
      BY <1>9, <3>1, <3>2 DEF Far
    <3>4. n * MotionPeriod >= MotionPeriod
      <4>1. n * MotionPeriod >= 1 * MotionPeriod
        BY <3>2, PointsConstants
      <4> QED BY <4>1, PointsConstants
    <3>5. PICK p \in Nat : p = n * MotionPeriod
      BY PointsConstants
    <3>6. a = AgeCap \/ a >= 0 + MotionPeriod
      BY <3>3, <3>4, <3>5, PointsConstants
    <3> QED BY <1>7, <2>2, <3>1, <3>6 DEF Far
  <2>3. CASE j < size
    <3>1. i + d < j + d
      BY <1>1
    <3> QED BY <1>4, <1>8, <2>1, <2>3, <3>1
  <2> QED BY <2>1, <2>2, <2>3
<1>11. Spaced(kept, 0)
  <2>1. \A i \in 1 .. Len(kept) : Far(kept[i].age, (Len(kept) - i) * MotionPeriod + 0)
    <3> SUFFICES ASSUME NEW i \in 1 .. size
                 PROVE  Far(kept[i].age, (size - i) * MotionPeriod + 0)
      BY <1>6
    <3>1. (size - i) * MotionPeriod + 0 = (size - i) * MotionPeriod
      BY <1>6, PointsConstants
    <3> QED BY <1>9, <3>1
  <2> QED BY <1>6, <1>10, <2>1 DEF Spaced
<1>12. Remembers(kept, still)
  <2> SUFFICES ASSUME still < Engaged
               PROVE  still >= kept[1].age \/ \E i \in 1 .. size : kept[i].age = still /\ Breaks(kept, i)
    BY <1>6 DEF Remembers
  <2>1. CASE size = 1
    BY <1>7, <2>1
  <2>2. CASE size > 1
    <3>1. kept[1] = past[1 + d] /\ 1 \in 1 .. last /\ 1 + d \in 1 .. last
      <4>1. 1 \in 1 .. size /\ 1 < size
        BY <1>6, <2>2
      <4> QED BY <1>1, <1>2, <1>8, <4>1
    <3>2. PICK oldest \in 0 .. AgeCap : oldest = past[1].age
      BY <1>3, <3>1
    <3>3. PICK first \in 0 .. AgeCap : first = kept[1].age
      BY <1>3, <3>1
    <3>4. first <= oldest
      <4>1. CASE d = 0
        BY <3>1, <3>2, <3>3, <4>1
      <4>2. CASE d = 1
        <5>1. Far(past[1].age, past[1 + d].age + MotionPeriod)
          BY <1>4, <3>1, <4>2
        <5>2. oldest = AgeCap \/ oldest >= first + MotionPeriod
          BY <3>1, <3>2, <3>3, <5>1 DEF Far
        <5> QED BY <5>2, PointsConstants
      <4> QED BY <4>1, <4>2
    <3>5. still >= oldest \/ \E i \in 1 .. last : past[i].age = still /\ Breaks(past, i)
      <4>1. past # <<>>
        BY <3>1 DEF last
      <4> QED BY <3>2, <4>1 DEF Remembers, last
    <3>6. CASE still >= oldest
      BY <3>3, <3>4, <3>6
    <3>7. ASSUME NEW i \in 1 .. last, past[i].age = still, Breaks(past, i)
          PROVE  still >= kept[1].age \/ \E k \in 1 .. size : kept[k].age = still /\ Breaks(kept, k)
      <4>1. i - d = 0 \/ i - d \in 1 .. last - d
        BY <1>1, <1>2
      <4>2. CASE i - d = 0
        <5>1. i = 1
          BY <1>1, <4>2
        <5> QED BY <3>2, <3>3, <3>4, <3>7, <5>1
      <4>3. CASE i - d \in 1 .. last - d
        <5>1. PICK k \in 1 .. size : k = i - d /\ k < size /\ k + d = i
          BY <1>1, <1>2, <1>6, <4>3 DEF size
        <5>2. kept[k] = past[i]
          BY <1>8, <5>1
        <5>3. Breaks(kept, k)
          <6>1. CASE past[i].override
            BY <5>2, <6>1 DEF Breaks
          <6>2. CASE ~past[i].on /\ k = 1
            BY <5>2, <6>2 DEF Breaks
          <6>3. CASE ~past[i].on /\ k # 1
            <7>1. k - 1 \in 1 .. size /\ k - 1 < size /\ (k - 1) + d = i - 1 /\ i # 1
              BY <1>1, <1>6, <5>1, <6>3
            <7>2. kept[k - 1] = past[i - 1]
              BY <1>8, <7>1
            <7> QED BY <3>7, <5>2, <6>3, <7>1, <7>2 DEF Breaks
          <6> QED BY <3>7, <6>1, <6>2, <6>3 DEF Breaks
        <5> QED BY <3>7, <5>2, <5>3
      <4> QED BY <4>1, <4>2, <4>3
    <3> QED BY <3>5, <3>6, <3>7
  <2> QED BY <1>6, <2>1, <2>2
<1>13. ASSUME sample.override \/ (~sample.on /\ idle)
       PROVE  Remembers(kept, 0)
  <2>1. Breaks(kept, size)
    <3>1. CASE sample.override
      BY <1>7, <3>1 DEF Breaks
    <3>2. CASE ~sample.on /\ idle /\ size = 1
      BY <1>7, <3>2 DEF Breaks
    <3>3. CASE ~sample.on /\ idle /\ size # 1
      <4>1. size - 1 \in 1 .. size /\ size - 1 < size /\ (size - 1) + d = last
        BY <1>1, <1>2, <1>6, <3>3 DEF size
      <4>2. kept[size - 1] = past[last] /\ last \in 1 .. last
        BY <1>8, <4>1
      <4>3. ~past[last].on
        BY <3>3, <4>2 DEF last
      <4> QED BY <1>7, <3>3, <4>2, <4>3 DEF Breaks
    <3> QED BY <1>13, <3>1, <3>2, <3>3
  <2>2. size \in 1 .. Len(kept) /\ kept[size].age = 0
    BY <1>6, <1>7
  <2> QED BY <2>1, <2>2 DEF Remembers
<1>14. kept[Len(kept)] = sample
  BY <1>6, <1>7
<1>15. kept \in Seq(Samples) /\ kept # <<>>
  BY <1>1, <1>6
<1> QED BY <1>11, <1>12, <1>13, <1>14, <1>15 DEF kept

LEMMA EmptyIsSpaced ==
  ASSUME NEW motion, NEW still
  PROVE  Spaced(<<>>, motion) /\ Remembers(<<>>, still) /\ <<>> \in Seq(Samples)
<1>1. Len(<<>>) = 0 /\ <<>> \in Seq(Samples)
  OBVIOUS
<1>2. 1 .. Len(<<>>) = {}
  BY <1>1
<1> QED BY <1>1, <1>2, PointsConstants DEF Spaced, Ordered, Remembers

LEMMA PointsInitially == LearnerInit => PointsInv
<1> SUFFICES ASSUME LearnerInit PROVE PointsInv
  OBVIOUS
<1>1. /\ learner.kf = NoTime /\ learner.motion = NoTime /\ learner.raw = <<>>
      /\ learner_last.predicted = 0 /\ ~learner_last.taken
      /\ learner_last.run = 0 /\ learner_last.idle \in BOOLEAN
  BY DEF LearnerInit
<1>2. PointsTypeOK
  BY <1>1, EmptyIsSpaced, PointsConstants DEF PointsTypeOK, NoTime
<1>3. SamplesAreSpaced /\ Remembers(learner.raw, learner_last.run)
  BY <1>1, EmptyIsSpaced DEF SamplesAreSpaced
<1>4. PredictionIsShort /\ PointsComeFromSteering
  BY <1>1, PointsConstants DEF PredictionIsShort, PointsComeFromSteering
<1> QED BY <1>1, <1>2, <1>3, <1>4 DEF PointsInv

(* Never over more than the last gap: the filter's time is that of a tick. *)
LEMMA PredictedShort ==
  ASSUME NEW kf \in {NoTime, 0}, NEW gap \in 1 .. TickGap,
         NEW fresh \in BOOLEAN, NEW filtering \in BOOLEAN
  PROVE  Predicted(Grown(kf, gap, AgeCap), fresh, filtering) <= TickGap
<1>1. Grown(kf, gap, AgeCap) = NoTime \/ (Grown(kf, gap, AgeCap) \in Nat /\ Grown(kf, gap, AgeCap) <= gap)
  BY PointsConstants DEF Grown, NoTime
<1>2. \/ Predicted(Grown(kf, gap, AgeCap), fresh, filtering) = 0
      \/ /\ Predicted(Grown(kf, gap, AgeCap), fresh, filtering) = Grown(kf, gap, AgeCap)
         /\ Grown(kf, gap, AgeCap) # NoTime
  BY DEF Predicted
<1> QED BY <1>1, <1>2, PointsConstants

(* A point is taken of a history that is remembered only when the break it *)
(* remembers is as old as the engage buffer.                               *)
LEMMA TakenWhenSteady ==
  ASSUME NEW kept \in Seq(Samples), Spaced(kept, 0), NEW since \in 1 .. AgeCap,
         Remembers(kept, since), kept[Len(kept)].age = 0, TakesPoint(kept)
  PROVE  since >= Engaged
<1>1. Len(kept) = HistoryLength /\ kept # <<>> /\ 1 \in 1 .. Len(kept) /\ Len(kept) \in Nat
  BY PointsConstants DEF TakesPoint
<1>2. \A i \in 1 .. Len(kept) : kept[i].age \in 0 .. AgeCap
  <2>1. \A i \in 1 .. Len(kept) : kept[i] \in Samples
    OBVIOUS
  <2> QED BY <2>1 DEF Samples
<1> SUFFICES ASSUME since < Engaged PROVE FALSE
  BY PointsConstants
<1>3. since >= kept[1].age \/ \E i \in 1 .. Len(kept) : kept[i].age = since /\ Breaks(kept, i)
  BY <1>1 DEF Remembers
<1>4. CASE since >= kept[1].age
  <2>1. PICK oldest \in 0 .. AgeCap : oldest = kept[1].age
    BY <1>1, <1>2
  <2>2. Far(kept[1].age, (HistoryLength - 1) * MotionPeriod + 0)
    BY <1>1 DEF Spaced
  <2>3. PICK whole \in Int : whole = (HistoryLength - 1) * MotionPeriod /\ whole >= Engaged
    BY PointsAssumption
  <2>4. oldest = AgeCap \/ oldest >= whole
    BY <2>1, <2>2, <2>3 DEF Far
  <2>5. since >= oldest
    BY <1>4, <2>1
  <2> QED BY <2>3, <2>4, <2>5, PointsConstants
<1>5. ASSUME NEW i \in 1 .. Len(kept), kept[i].age = since, Breaks(kept, i)
      PROVE  FALSE
  <2>1. i # Len(kept)
    BY <1>5
  <2>2. i \in 1 .. Len(kept) - 1 /\ Len(kept) > 0
    BY <1>1, <2>1
  <2>3. Ordered(kept)
    BY DEF Spaced
  <2>4. kept[i].age < Engaged
    BY <1>5
  <2> QED BY <1>5, <2>2, <2>3, <2>4, WindowSeesBreak
<1> QED BY <1>3, <1>4, <1>5

LEMMA SpacedSinceTick ==
  ASSUME NEW past \in Seq(Samples), Spaced(past, MotionPeriod)
  PROVE  Spaced(past, 0)
<1>1. /\ Len(past) \in Nat /\ \A i \in 1 .. Len(past) : past[i] \in Samples
  OBVIOUS
<1>2. ASSUME NEW i \in 1 .. Len(past)
      PROVE  Far(past[i].age, (Len(past) - i) * MotionPeriod + 0)
  <2>1. PICK age \in 0 .. AgeCap : age = past[i].age
    BY <1>1 DEF Samples
  <2>2. PICK n \in Int : n = (Len(past) - i) * MotionPeriod
    BY <1>1, PointsConstants
  <2>3. age = AgeCap \/ age >= n + MotionPeriod
    BY <2>1, <2>2 DEF Spaced, Far
  <2>4. age = AgeCap \/ age >= n + 0
    BY <2>3, PointsConstants
  <2> QED BY <2>1, <2>2, <2>4 DEF Far
<1> QED BY <1>2 DEF Spaced

LEMMA PointsStep == PointsInv /\ [PointsNext]_pointsVars => PointsInv'
<1> SUFFICES ASSUME PointsInv, [PointsNext]_pointsVars PROVE PointsInv'
  OBVIOUS
<1>1. CASE UNCHANGED pointsVars
  BY <1>1 DEF pointsVars, PointsInv, PointsTypeOK, SamplesAreSpaced, PredictionIsShort, PointsComeFromSteering
<1>2. ASSUME NEW gap \in 1 .. TickGap, NEW fresh \in BOOLEAN, NEW filtering \in BOOLEAN,
             NEW on \in BOOLEAN, NEW override \in BOOLEAN, NEW fit \in BOOLEAN, NEW nan \in BOOLEAN,
             LearnerTick(gap, fresh, filtering, on, override, fit, nan)
      PROVE  PointsInv'
  <2> DEFINE aged == Aged(learner.raw, gap)
             motion == Grown(learner.motion, gap, MotionPeriod)
             due == MotionDue(motion)
             sample == [age |-> 0, on |-> on, override |-> override]
             kept == IF due /\ fresh THEN KeptSample(aged, sample) ELSE aged
             since == Grown(learner_last.run, gap, AgeCap)
             broken == due /\ fresh /\ (override \/ (~on /\ learner_last.idle))
  <2>1. /\ learner'.kf = 0 /\ learner'.motion = IF due THEN 0 ELSE motion
        /\ learner'.raw = IF due /\ nan THEN <<>> ELSE kept
    BY <1>2 DEF LearnerTick, TimedAt, Aged
  <2>2. /\ learner_last'.predicted = Predicted(Grown(learner.kf, gap, AgeCap), fresh, filtering)
        /\ learner_last'.taken <=> due /\ fresh /\ fit /\ TakesPoint(kept)
        /\ learner_last'.steady = since
        /\ learner_last'.run = IF broken THEN 0 ELSE since
        /\ learner_last'.idle = IF due /\ fresh THEN ~on ELSE learner_last.idle
    BY <1>2 DEF LearnerTick, Aged
  <2>3. /\ learner.kf \in {NoTime, 0} /\ learner.motion \in NoTime .. MotionPeriod
        /\ learner.raw \in Seq(Samples) /\ Len(learner.raw) \in Nat
        /\ learner_last.run \in 0 .. AgeCap /\ learner_last.idle \in BOOLEAN
        /\ Spaced(learner.raw, learner.motion) /\ Remembers(learner.raw, learner_last.run)
        /\ learner.raw # <<>> => learner.motion # NoTime
        /\ learner.raw # <<>> => (learner_last.idle <=> ~learner.raw[Len(learner.raw)].on)
    BY DEF PointsInv, PointsTypeOK, SamplesAreSpaced
  <2>4. gap \in Nat /\ gap >= 1
    BY PointsConstants
  <2>5. since \in 1 .. AgeCap /\ since \in 0 .. AgeCap
    BY <2>3, <2>4, PointsConstants DEF Grown, NoTime
  <2>6. aged \in Seq(Samples) /\ Len(aged) = Len(learner.raw)
    BY <2>3, <2>4, AgedSamples
  <2>7. aged # <<>> =>
          /\ learner.raw # <<>> /\ learner.motion \in 0 .. MotionPeriod
          /\ learner_last.idle <=> ~aged[Len(aged)].on
    <3> SUFFICES ASSUME aged # <<>>
                 PROVE  /\ learner.raw # <<>> /\ learner.motion \in 0 .. MotionPeriod
                        /\ learner_last.idle <=> ~aged[Len(aged)].on
      OBVIOUS
    <3>1. Len(aged) # 0
      BY <2>6
    <3>2. learner.raw # <<>> /\ Len(learner.raw) \in 1 .. Len(learner.raw)
      BY <2>3, <2>6, <3>1
    <3>3. learner.motion \in 0 .. MotionPeriod
      BY <2>3, <3>2, PointsConstants DEF NoTime
    <3>4. aged[Len(learner.raw)].on <=> learner.raw[Len(learner.raw)].on
      BY <2>3, <2>4, <3>2, AgedSamples
    <3> QED BY <2>3, <2>6, <3>2, <3>3, <3>4
  <2>8. aged = <<>> \/ (aged # <<>> /\ Spaced(aged, motion) /\ Remembers(aged, since))
    <3>1. CASE aged # <<>>
      <4>1. learner.motion \in 0 .. MotionPeriod
        BY <2>7, <3>1
      <4> QED BY <2>3, <2>4, <3>1, <4>1, AgingKeeps
    <3> QED BY <3>1
  <2>9. Remembers(aged, since)
    BY <2>8, EmptyIsSpaced
  <2>10. motion = NoTime \/ motion \in 0 .. MotionPeriod
    BY <2>3, <2>4, PointsConstants DEF Grown, NoTime
  <2> HIDE DEF aged, motion, since
  <2>11. due => Spaced(aged, MotionPeriod)
    <3> SUFFICES ASSUME due PROVE Spaced(aged, MotionPeriod)
      OBVIOUS
    <3>1. CASE aged = <<>>
      BY <3>1, EmptyIsSpaced
    <3>2. CASE aged # <<>>
      <4>1. learner.motion \in 0 .. MotionPeriod
        BY <2>7, <3>2
      <4>2. motion \in 0 .. MotionPeriod
        BY <2>4, <4>1, PointsConstants DEF Grown, NoTime, motion
      <4>3. motion = MotionPeriod
        BY <4>2, PointsConstants DEF MotionDue, NoTime
      <4> QED BY <2>8, <3>2, <4>3
    <3> QED BY <3>1, <3>2
  <2>12. ~due => motion \in 0 .. MotionPeriod /\ Spaced(aged, motion)
    BY <2>8, <2>10, EmptyIsSpaced DEF MotionDue
  <2>13. sample \in Samples /\ sample.age = 0 /\ (sample.on <=> on) /\ (sample.override <=> override)
    BY PointsConstants DEF Samples
  <2> HIDE DEF sample
  <2>14. learner_last'.predicted <= TickGap
    BY <2>2, <2>3, PredictedShort
  <2>15. CASE due /\ fresh
    <3> DEFINE new == KeptSample(aged, sample)
    <3>1. /\ new \in Seq(Samples) /\ new # <<>> /\ Spaced(new, 0) /\ new[Len(new)] = sample
          /\ Remembers(new, since)
          /\ sample.override \/ (~sample.on /\ learner_last.idle) => Remembers(new, 0)
      BY <2>3, <2>5, <2>6, <2>7, <2>9, <2>11, <2>13, <2>15, KeepingKeeps
    <3>2. kept = new
      BY <2>15
    <3> HIDE DEF new, kept, due
    <3>3. learner_last'.run \in 0 .. AgeCap /\ Remembers(new, learner_last'.run)
      <4>1. CASE broken
        <5>1. sample.override \/ (~sample.on /\ learner_last.idle)
          BY <2>13, <4>1
        <5>2. learner_last'.run = 0
          BY <2>2, <4>1
        <5> QED BY <3>1, <5>1, <5>2, PointsConstants
      <4>2. CASE ~broken
        BY <2>2, <2>5, <3>1, <4>2
      <4> QED BY <4>1, <4>2
    <3>4. learner_last'.taken => learner_last'.steady >= Engaged
      <4> SUFFICES ASSUME learner_last'.taken PROVE since >= Engaged
        BY <2>2
      <4>1. TakesPoint(new)
        BY <2>2, <3>2
      <4>2. new[Len(new)].age = 0
        BY <2>13, <3>1
      <4> QED BY <2>5, <3>1, <4>1, <4>2, TakenWhenSteady
    <3>5. /\ learner_last'.idle \in BOOLEAN /\ (learner_last'.idle <=> ~on)
      BY <2>2, <2>15
    <3>6. learner'.motion = 0
      BY <2>1, <2>15
    <3>7. CASE nan
      <4>1. learner'.raw = <<>>
        BY <2>1, <2>15, <3>7
      <4>2. PointsTypeOK'
        <5>1. learner'.raw \in Seq(Samples)
          BY <4>1
        <5> QED BY <2>1, <3>3, <3>5, <3>6, <5>1, PointsConstants DEF PointsTypeOK, NoTime
      <4>3. SamplesAreSpaced' /\ Remembers(learner'.raw, learner_last'.run)
        BY <4>1, EmptyIsSpaced DEF SamplesAreSpaced
      <4> QED BY <2>1, <2>14, <3>4, <4>2, <4>3 DEF PointsInv, PredictionIsShort, PointsComeFromSteering
    <3>8. CASE ~nan
      <4>1. learner'.raw = new
        BY <2>1, <3>2, <3>8
      <4>2. PointsTypeOK'
        BY <2>1, <3>1, <3>3, <3>5, <3>6, <4>1, PointsConstants DEF PointsTypeOK, NoTime
      <4>3. SamplesAreSpaced'
        <5>1. 0 # NoTime
          BY DEF NoTime
        <5> QED BY <2>13, <3>1, <3>5, <3>6, <4>1, <5>1 DEF SamplesAreSpaced
      <4>4. Remembers(learner'.raw, learner_last'.run)
        BY <3>3, <4>1
      <4> QED BY <2>1, <2>14, <3>4, <4>2, <4>3, <4>4 DEF PointsInv, PredictionIsShort, PointsComeFromSteering
    <3> QED BY <3>7, <3>8
  <2>16. CASE ~(due /\ fresh)
    <3>1. /\ kept = aged /\ learner_last'.run = since /\ learner_last'.idle = learner_last.idle
          /\ ~learner_last'.taken
      BY <2>2, <2>16
    <3>2. learner'.motion \in 0 .. MotionPeriod /\ Spaced(aged, learner'.motion)
      <4>1. CASE due
        BY <2>1, <2>6, <2>11, <4>1, SpacedSinceTick, PointsConstants
      <4>2. CASE ~due
        BY <2>1, <2>12, <4>2
      <4> QED BY <4>1, <4>2
    <3>3. learner'.raw = <<>> \/ learner'.raw = aged
      BY <2>1, <3>1
    <3>4. /\ learner'.raw \in Seq(Samples) /\ Spaced(learner'.raw, learner'.motion)
          /\ Remembers(learner'.raw, learner_last'.run)
      BY <2>6, <2>9, <3>1, <3>2, <3>3, EmptyIsSpaced
    <3>5. learner'.raw # <<>> => (learner_last'.idle <=> ~learner'.raw[Len(learner'.raw)].on)
      BY <2>7, <3>1, <3>3
    <3>6. PointsTypeOK'
      BY <2>1, <2>3, <2>5, <3>1, <3>2, <3>4, PointsConstants DEF PointsTypeOK, NoTime
    <3>7. SamplesAreSpaced'
      <4>1. learner'.motion # NoTime
        BY <3>2 DEF NoTime
      <4> QED BY <3>4, <3>5, <4>1 DEF SamplesAreSpaced
    <3> QED BY <2>1, <2>14, <3>1, <3>4, <3>6, <3>7 DEF PointsInv, PredictionIsShort, PointsComeFromSteering
  <2> QED BY <2>15, <2>16
<1> QED BY <1>1, <1>2 DEF PointsNext

(* The filter is predicted over one gap at most, and every torque point is  *)
(* from a stretch of steering, for every lag and length of the history.    *)
THEOREM PointsAreOfSteering == PointsSpec => [](PredictionIsShort /\ PointsComeFromSteering)
<1>1. PointsInv => PredictionIsShort /\ PointsComeFromSteering
  BY DEF PointsInv
<1> QED BY <1>1, PointsInitially, PointsStep, PTL DEF PointsSpec

-----------------------------------------------------------------------------
(* The camera frame ring and the encoder queue (FramePipeline).  Every copy*)
(* that a reader accepts is of one frame (CopiesHold), because the writer  *)
(* cannot have closed the slot in between with another number; a record pairs*)
(* the picture with the state of the frame that the model saw (PairsAreKept).*)

LEMMA PipeConstants ==
  /\ RingSlots \in Nat /\ RingSlots > 0 /\ Attempts \in Nat /\ Attempts > 0
  /\ Buffers \in Nat /\ Buffers > 0 /\ MaxFrames \in Nat /\ MaxRuns \in Nat /\ MaxRuns > 0
BY PipelineAssumption

LEMMA EvenSteps ==
  ASSUME NEW n \in Nat
  PROVE  /\ Even(n) => ~Even(n + 1)
         /\ ~Even(n) => Even(n + 1) /\ ~Even(n + 2)
BY DEF Even

LEMMA PlaceInRing == ASSUME NEW id \in Nat PROVE PlaceOf(id) \in 0 .. RingSlots - 1
BY PipeConstants DEF PlaceOf

(* The fields of what the invariant types. *)
LEMMA PipeFields ==
  ASSUME PipeTypeOK
  PROVE  /\ cam.id \in 0 .. MaxFrames /\ cap \in Nat /\ run \in 1 .. MaxRuns
         /\ cam.pc \in {"read", "lo", "hi", "id", "close", "publish"}
         /\ \A i \in 0 .. RingSlots - 1 :
              /\ ring[i] \in Slots
              /\ ring[i].seq \in Nat /\ ring[i].id \in 0 .. MaxFrames
              /\ ring[i].lo \in Nat /\ ring[i].hi \in Nat
         /\ road.n \in Nat /\ road.frame \in Frames /\ rec.n \in Nat /\ rec.frame \in Frames
         /\ \A p \in Readers :
              /\ reader[p] \in Copies /\ seen[p] \in Nat
              /\ reader[p].frame \in Frames /\ reader[p].buf \in Pictures /\ reader[p].before \in Nat
              /\ reader[p].attempt \in 0 .. Attempts + 1
         /\ PlaceOf(cam.id) \in 0 .. RingSlots - 1
         /\ \A f \in Frames :
              /\ f.id \in 0 .. MaxFrames /\ f.cap \in Nat /\ f.run \in 0 .. MaxRuns
              /\ PlaceOf(f.id) \in 0 .. RingSlots - 1
<1>1. /\ cam.id \in 0 .. MaxFrames /\ cap \in Nat /\ run \in 1 .. MaxRuns
      /\ cam.pc \in {"read", "lo", "hi", "id", "close", "publish"}
      /\ road.n \in Nat /\ road.frame \in Frames /\ rec.n \in Nat /\ rec.frame \in Frames
  BY DEF PipeTypeOK
<1>2. ASSUME NEW i \in 0 .. RingSlots - 1
      PROVE  /\ ring[i] \in Slots
             /\ ring[i].seq \in Nat /\ ring[i].id \in 0 .. MaxFrames
             /\ ring[i].lo \in Nat /\ ring[i].hi \in Nat
  <2>1. ring[i] \in Slots
    BY DEF PipeTypeOK
  <2> QED BY <2>1 DEF Slots
<1>3. ASSUME NEW p \in Readers
      PROVE  /\ reader[p] \in Copies /\ seen[p] \in Nat
             /\ reader[p].frame \in Frames /\ reader[p].buf \in Pictures /\ reader[p].before \in Nat
             /\ reader[p].attempt \in 0 .. Attempts + 1
  <2>1. reader[p] \in Copies /\ seen[p] \in Nat
    BY DEF PipeTypeOK
  <2> QED BY <2>1 DEF Copies
<1>4. ASSUME NEW f \in Frames
      PROVE  /\ f.id \in 0 .. MaxFrames /\ f.cap \in Nat /\ f.run \in 0 .. MaxRuns
             /\ PlaceOf(f.id) \in 0 .. RingSlots - 1
  <2>1. f.id \in 0 .. MaxFrames /\ f.cap \in Nat /\ f.run \in 0 .. MaxRuns
    BY DEF Frames
  <2> QED BY <2>1, PlaceInRing, PipeConstants
<1>5. PlaceOf(cam.id) \in 0 .. RingSlots - 1
  BY <1>1, PlaceInRing, PipeConstants
<1> QED BY <1>1, <1>2, <1>3, <1>4, <1>5

LEMMA PipeInitially == PipeInit => PipeInv
<1> SUFFICES ASSUME PipeInit PROVE PipeInv
  OBVIOUS
<1> USE PipeConstants
<1>1. NoFrame \in Frames /\ NoPicture \in Pictures
  BY DEF NoFrame, NoPicture, Frames, Pictures
<1>2. PipeTypeOK
  <2>1. ring \in [0 .. RingSlots - 1 -> Slots]
    BY DEF PipeInit, Slots, NeverWritten
  <2>2. /\ cam \in [pc : {"read", "lo", "hi", "id", "close", "publish"}, id : 0 .. MaxFrames]
        /\ cap \in Nat /\ run \in 1 .. MaxRuns
        /\ road \in [n : Nat, frame : Frames] /\ rec \in [n : Nat, frame : Frames]
        /\ seen \in [Readers -> Nat]
    BY <1>1 DEF PipeInit
  <2>3. reader \in [Readers -> Copies]
    BY <1>1 DEF PipeInit, Copies
  <2>4. /\ modelled \subseteq Frames \X Pictures /\ written \in Seq(Frames \X Pictures)
        /\ pending \in Seq(Frames) /\ raw \in Seq(Pictures) /\ out \in Seq(Pictures)
        /\ Len(raw) = 0
    BY DEF PipeInit
  <2>5. /\ free \in 0 .. Buffers /\ done \in Nat /\ lost \in Nat /\ streaming \in BOOLEAN
        /\ free = Buffers /\ done = 0 /\ lost = 0
    BY DEF PipeInit
  <2> QED BY <2>1, <2>2, <2>3, <2>4, <2>5 DEF PipeTypeOK
<1>3. RingIsWritten
  BY DEF PipeInit, RingIsWritten
<1>4. FramesStand
  <2>1. NoFrame.run = 0 /\ run = 1
    BY DEF PipeInit, NoFrame
  <2>2. Stands(NoFrame)
    BY <2>1 DEF Stands
  <2>3. road.frame = NoFrame /\ rec.frame = NoFrame /\ \A p \in Readers : reader[p].frame = NoFrame
    BY DEF PipeInit
  <2> QED BY <2>2, <2>3 DEF FramesStand
<1>5. CopiesHold /\ CopiedPictureIsWhole
  <2>1. \A p \in Readers : reader[p].pc = "idle"
    BY DEF PipeInit
  <2> QED BY <2>1 DEF CopiesHold, CopyHolds, CopiedPictureIsWhole
<1>6. FlowsInOrder
  <2>1. /\ road.frame = NoFrame /\ rec.frame = NoFrame /\ road.n = 0 /\ rec.n = 0 /\ cap = 0
        /\ cam.pc = "read" /\ seen["modeld"] = 0 /\ seen["recordd"] = 0
        /\ reader["modeld"].frame = NoFrame /\ reader["recordd"].frame = NoFrame
        /\ reader["modeld"].pc = "idle"
    BY DEF PipeInit, Readers
  <2>2. NoFrame.cap = 0
    BY DEF NoFrame
  <2> QED BY <2>1, <2>2 DEF FlowsInOrder
<1>7. SelectedIsModelled
  <2>1. rec.frame.run = 0 /\ run = 1 /\ reader["recordd"].pc = "idle"
    BY DEF PipeInit, NoFrame, Readers
  <2> QED BY <2>1 DEF SelectedIsModelled
<1>8. WaitInOrder /\ PairsAreKept /\ RecordedAsModelled /\ RecordedInOrder
  <2>1. pending = <<>> /\ written = <<>> /\ out = <<>> /\ raw = <<>> /\ lost = 0
    BY DEF PipeInit
  <2>2. 1 .. Len(pending) = {} /\ 1 .. Len(written) = {} /\ 1 .. Len(out) = {} /\ 1 .. Len(raw) = {}
    BY <2>1
  <2> QED BY <2>1, <2>2 DEF WaitInOrder, PairsAreKept, RecordedAsModelled, RecordedInOrder
<1> QED BY <1>2, <1>3, <1>4, <1>5, <1>6, <1>7, <1>8 DEF PipeInv

(* What a step that leaves the encoder and what recordd holds alone keeps. *)
LEMMA EncoderStays ==
  ASSUME PipeInv, UNCHANGED <<run, rec, modelled, encoder>>,
         reader'["recordd"].frame = reader["recordd"].frame,
         reader'["recordd"].pc = "idle" <=> reader["recordd"].pc = "idle"
  PROVE  /\ SelectedIsModelled' /\ WaitInOrder' /\ PairsAreKept'
         /\ RecordedAsModelled' /\ RecordedInOrder'
<1>1. /\ free' = free /\ raw' = raw /\ done' = done /\ pending' = pending /\ out' = out
      /\ streaming' = streaming /\ lost' = lost /\ written' = written
  BY DEF encoder
<1>2. SelectedIsModelled'
  BY <1>1 DEF PipeInv, SelectedIsModelled, WasModelled
<1>3. WaitInOrder'
  BY <1>1 DEF PipeInv, WaitInOrder, Latest
<1>4. PairsAreKept' /\ RecordedAsModelled' /\ RecordedInOrder'
  BY <1>1 DEF PipeInv, PairsAreKept, RecordedAsModelled, RecordedInOrder
<1> QED BY <1>2, <1>3, <1>4

(* A slot is written: what was read of it is void, what stands elsewhere   *)
(* stays.                                                                  *)
LEMMA WriteKeeps ==
  ASSUME PipeInv, NEW slot \in Slots, ring' = [ring EXCEPT ![PlaceOf(cam.id)] = slot],
         UNCHANGED <<run, road, rec, reader>>, cam'.id = cam.id,
         slot.seq > ring[PlaceOf(cam.id)].seq
           \/ (slot.seq = ring[PlaceOf(cam.id)].seq /\ ~Even(slot.seq)),
         Even(slot.seq) => slot.lo = slot.hi /\ slot.id = cam.id
  PROVE  /\ CopiesHold' /\ FramesStand' /\ CopiedPictureIsWhole'
         /\ ring' \in [0 .. RingSlots - 1 -> Slots]
         /\ \A i \in 0 .. RingSlots - 1 : Even(ring'[i].seq) => ring'[i].lo = ring'[i].hi
<1> DEFINE s == PlaceOf(cam.id)
<1>1. PipeTypeOK
  BY DEF PipeInv
<1>2. /\ s \in 0 .. RingSlots - 1 /\ ring[s].seq \in Nat /\ slot.seq \in Nat
      /\ ring' \in [0 .. RingSlots - 1 -> Slots] /\ ring'[s] = slot
      /\ \A i \in 0 .. RingSlots - 1 : i # s => ring'[i] = ring[i]
  <2>1. s \in 0 .. RingSlots - 1 /\ ring[s].seq \in Nat
    BY <1>1, PipeFields
  <2>2. ring \in [0 .. RingSlots - 1 -> Slots]
    BY <1>1 DEF PipeTypeOK
  <2>3. slot.seq \in Nat
    BY DEF Slots
  <2> QED BY <2>1, <2>2, <2>3
<1> HIDE DEF s
<1>3. \A i \in 0 .. RingSlots - 1 : Even(ring'[i].seq) => ring'[i].lo = ring'[i].hi
  BY <1>2 DEF PipeInv, RingIsWritten, s
<1>4. ASSUME NEW f \in Frames, Stands(f)
      PROVE  Stands(f)'
  <2>1. /\ PlaceOf(f.id) \in 0 .. RingSlots - 1 /\ f.id \in Nat /\ cam.id \in Nat
    BY <1>1, PipeFields, PipeConstants
  <2>2. CASE PlaceOf(f.id) = s
    BY <1>2, <1>4, <2>1, <2>2 DEF Stands, s
  <2>3. CASE PlaceOf(f.id) # s
    BY <1>2, <1>4, <2>1, <2>3 DEF Stands
  <2> QED BY <2>2, <2>3
<1>5. FramesStand'
  <2>1. road.frame \in Frames /\ rec.frame \in Frames /\ \A p \in Readers : reader[p].frame \in Frames
    BY <1>1, PipeFields
  <2>2. Stands(road.frame) /\ Stands(rec.frame) /\ \A p \in Readers : Stands(reader[p].frame)
    BY DEF PipeInv, FramesStand
  <2> QED BY <1>4, <2>1, <2>2 DEF FramesStand, Stands
<1>6. CopiesHold'
  <2> SUFFICES ASSUME NEW p \in Readers
               PROVE  LET r == reader[p]
                          w == ring'[PlaceOf(r.frame.id)] IN
                      /\ r.pc \in {"id", "lo", "hi", "check"} => Even(r.before) /\ r.before <= w.seq
                      /\ r.pc \in {"hi", "check"} /\ w.seq = r.before => r.buf.lo = w.lo
                      /\ r.pc = "check" /\ w.seq = r.before => r.buf.hi = w.hi
                      /\ r.pc \in {"load", "id", "lo", "hi", "check"} => r.attempt \in 1 .. Attempts
    BY DEF CopiesHold, CopyHolds
  <2>1. LET r == reader[p]
            w == ring[PlaceOf(r.frame.id)] IN
        /\ r.pc \in {"id", "lo", "hi", "check"} => Even(r.before) /\ r.before <= w.seq
        /\ r.pc \in {"hi", "check"} /\ w.seq = r.before => r.buf.lo = w.lo
        /\ r.pc = "check" /\ w.seq = r.before => r.buf.hi = w.hi
        /\ r.pc \in {"load", "id", "lo", "hi", "check"} => r.attempt \in 1 .. Attempts
    BY DEF PipeInv, CopiesHold, CopyHolds
  <2>2. PlaceOf(reader[p].frame.id) \in 0 .. RingSlots - 1 /\ reader[p].before \in Nat
    BY <1>1, PipeFields
  <2>3. CASE PlaceOf(reader[p].frame.id) = s
    <3>1. reader[p].pc \in {"id", "lo", "hi", "check"} =>
            reader[p].before <= slot.seq /\ reader[p].before # slot.seq
      BY <1>2, <2>1, <2>2, <2>3 DEF s
    <3> QED BY <1>2, <2>1, <2>3, <3>1
  <2>4. CASE PlaceOf(reader[p].frame.id) # s
    BY <1>2, <2>1, <2>2, <2>4
  <2> QED BY <2>3, <2>4
<1>7. CopiedPictureIsWhole'
  BY DEF PipeInv, CopiedPictureIsWhole
<1> QED BY <1>2, <1>3, <1>5, <1>6, <1>7

(* Each write of camerad is one field of its slot. *)
LEMMA WriteStep == PipeInv /\ (WriteOpen \/ WriteLo \/ WriteHi \/ WriteId \/ WriteClose) => PipeInv'
<1> SUFFICES ASSUME PipeInv, WriteOpen \/ WriteLo \/ WriteHi \/ WriteId \/ WriteClose PROVE PipeInv'
  OBVIOUS
<1> DEFINE s == PlaceOf(cam.id)
           old == ring[s]
<1>1. PipeTypeOK /\ RingIsWritten /\ FlowsInOrder
  BY DEF PipeInv
<1>2. /\ UNCHANGED <<run, road, rec, reader, seen, modelled, encoder>>
      /\ UNCHANGED <<free, raw, done, pending, out, streaming, lost, written>>
  BY DEF WriteOpen, WriteLo, WriteHi, WriteId, WriteClose, encoder
<1>3. /\ s \in 0 .. RingSlots - 1 /\ old \in Slots /\ old.seq \in Nat /\ cap \in Nat
      /\ cam.id \in 0 .. MaxFrames /\ ring \in [0 .. RingSlots - 1 -> Slots]
      /\ cam \in [pc : {"read", "lo", "hi", "id", "close", "publish"}, id : 0 .. MaxFrames]
  BY <1>1, PipeFields DEF PipeTypeOK
<1> HIDE DEF s, old
<1>4. ASSUME NEW slot \in Slots, NEW pc \in {"lo", "hi", "id", "close", "publish"},
             NEW picture \in Nat,
             ring' = [ring EXCEPT ![s] = slot], cam' = [cam EXCEPT !.pc = pc], cap' = picture,
             slot.seq > old.seq \/ (slot.seq = old.seq /\ ~Even(slot.seq)),
             Even(slot.seq) => slot.lo = slot.hi /\ slot.id = cam.id,
             pc # "publish" => ~Even(slot.seq),
             pc \in {"hi", "id", "close", "publish"} => slot.lo = picture,
             pc \in {"id", "close", "publish"} => slot.hi = picture,
             pc \in {"close", "publish"} => slot.id = cam.id,
             cam.id < MaxFrames, road.frame.cap < picture
      PROVE  PipeInv'
  <2>1. cam'.pc = pc /\ cam'.id = cam.id
    BY <1>3, <1>4
  <2>2. /\ CopiesHold' /\ FramesStand' /\ CopiedPictureIsWhole'
        /\ ring' \in [0 .. RingSlots - 1 -> Slots]
        /\ \A i \in 0 .. RingSlots - 1 : Even(ring'[i].seq) => ring'[i].lo = ring'[i].hi
    BY <1>2, <1>4, <2>1, WriteKeeps DEF s, old
  <2>3. RingIsWritten'
    <3>1. ring'[PlaceOf(cam'.id)] = slot
      BY <1>3, <1>4, <2>1 DEF s
    <3> QED BY <1>4, <2>1, <2>2, <3>1 DEF RingIsWritten
  <2>4. PipeTypeOK'
    <3>1. cam' \in [pc : {"read", "lo", "hi", "id", "close", "publish"}, id : 0 .. MaxFrames]
      BY <1>3, <1>4
    <3>2. cap' \in Nat
      BY <1>4
    <3> QED BY <1>1, <1>2, <2>2, <3>1, <3>2 DEF PipeTypeOK
  <2>5. FlowsInOrder'
    <3>1. road.frame.cap \in Nat /\ road.frame.cap < cap'
      BY <1>1, <1>4, PipeFields
    <3>2. road.frame.cap <= cap'
      BY <1>4, <3>1
    <3> QED BY <1>1, <1>2, <3>1, <3>2 DEF FlowsInOrder
  <2>6. SelectedIsModelled' /\ WaitInOrder' /\ PairsAreKept' /\ RecordedAsModelled' /\ RecordedInOrder'
    BY <1>2, EncoderStays
  <2> QED BY <2>2, <2>3, <2>4, <2>5, <2>6 DEF PipeInv
<1>5. /\ cam.pc \in {"lo", "hi", "id", "close"} => ~Even(old.seq) /\ cam.id < MaxFrames
      /\ cam.pc \in {"hi", "id", "close"} => old.lo = cap
      /\ cam.pc \in {"id", "close"} => old.hi = cap
      /\ cam.pc = "close" => old.id = cam.id
      /\ road.frame.cap <= cap /\ road.frame.cap \in Nat
      /\ cam.pc \in {"lo", "hi", "id", "close"} => road.frame.cap < cap
  BY <1>1, PipeFields DEF RingIsWritten, FlowsInOrder, s, old
<1>6. CASE WriteOpen
  <2>1. PICK seq \in Nat : seq = IF Even(old.seq) THEN old.seq + 1 ELSE old.seq + 2
    BY <1>3
  <2>2. seq > old.seq /\ ~Even(seq)
    <3>1. PICK q \in Nat : q = old.seq
      BY <1>3
    <3>2. seq = IF Even(q) THEN q + 1 ELSE q + 2
      BY <2>1, <3>1
    <3>3. seq > q /\ ~Even(seq)
      BY <3>2, EvenSteps
    <3> QED BY <3>1, <3>3
  <2>3. PICK slot \in Slots : slot = [old EXCEPT !.seq = seq]
    BY <1>3 DEF Slots
  <2>4. slot.seq = seq
    BY <1>3, <2>3 DEF Slots
  <2>5. /\ ring' = [ring EXCEPT ![s] = slot] /\ cam' = [cam EXCEPT !.pc = "lo"] /\ cap' = cap + 1
        /\ cam.id < MaxFrames
    BY <1>3, <1>6, <2>1, <2>3 DEF WriteOpen, CamGoes, s, old
  <2>6. cap + 1 \in Nat /\ road.frame.cap < cap + 1
    BY <1>3, <1>5
  <2> QED BY <1>4, <2>2, <2>4, <2>5, <2>6
<1>7. CASE WriteLo
  <2>1. PICK slot \in Slots : slot = [old EXCEPT !.lo = cap]
    BY <1>3 DEF Slots
  <2>2. slot.seq = old.seq /\ slot.lo = cap
    BY <1>3, <2>1 DEF Slots
  <2>3. ring' = [ring EXCEPT ![s] = slot] /\ cam' = [cam EXCEPT !.pc = "hi"] /\ cap' = cap /\ cam.pc = "lo"
    BY <1>3, <1>7, <2>1 DEF WriteLo, CamGoes, s, old
  <2> QED BY <1>3, <1>4, <1>5, <2>2, <2>3
<1>8. CASE WriteHi
  <2>1. PICK slot \in Slots : slot = [old EXCEPT !.hi = cap]
    BY <1>3 DEF Slots
  <2>2. slot.seq = old.seq /\ slot.lo = old.lo /\ slot.hi = cap
    BY <1>3, <2>1 DEF Slots
  <2>3. ring' = [ring EXCEPT ![s] = slot] /\ cam' = [cam EXCEPT !.pc = "id"] /\ cap' = cap /\ cam.pc = "hi"
    BY <1>3, <1>8, <2>1 DEF WriteHi, CamGoes, s, old
  <2> QED BY <1>3, <1>4, <1>5, <2>2, <2>3
<1>9. CASE WriteId
  <2>1. PICK slot \in Slots : slot = [old EXCEPT !.id = cam.id]
    BY <1>3 DEF Slots
  <2>2. slot.seq = old.seq /\ slot.lo = old.lo /\ slot.hi = old.hi /\ slot.id = cam.id
    BY <1>3, <2>1 DEF Slots
  <2>3. ring' = [ring EXCEPT ![s] = slot] /\ cam' = [cam EXCEPT !.pc = "close"] /\ cap' = cap /\ cam.pc = "id"
    BY <1>3, <1>9, <2>1 DEF WriteId, CamGoes, s, old
  <2> QED BY <1>3, <1>4, <1>5, <2>2, <2>3
<1>10. CASE WriteClose
  <2>a. PICK seq \in Nat : seq = old.seq + 1
    BY <1>3
  <2>1. PICK slot \in Slots : slot = [old EXCEPT !.seq = seq]
    BY <1>3 DEF Slots
  <2>2. slot.seq = old.seq + 1 /\ slot.lo = old.lo /\ slot.hi = old.hi /\ slot.id = old.id
    BY <1>3, <2>a, <2>1 DEF Slots
  <2>3. ring' = [ring EXCEPT ![s] = slot] /\ cam' = [cam EXCEPT !.pc = "publish"] /\ cap' = cap /\ cam.pc = "close"
    BY <1>3, <1>10, <2>a, <2>1 DEF WriteClose, CamGoes, s, old
  <2>4. slot.seq > old.seq
    BY <1>3, <2>2
  <2> QED BY <1>3, <1>4, <1>5, <2>2, <2>3, <2>4
<1> QED BY <1>6, <1>7, <1>8, <1>9, <1>10

LEMMA PublishStep == PipeInv /\ PublishFrame => PipeInv'
<1> SUFFICES ASSUME PipeInv, PublishFrame PROVE PipeInv'
  OBVIOUS
<1>1. PipeTypeOK /\ RingIsWritten /\ FlowsInOrder /\ FramesStand
  BY DEF PipeInv
<1>2. /\ UNCHANGED <<ring, cap, run, rec, reader, seen, modelled, encoder>>
      /\ UNCHANGED <<free, raw, done, pending, out, streaming, lost, written>>
      /\ cam.pc = "publish"
      /\ road' = [n |-> road.n + 1, frame |-> [id |-> cam.id, cap |-> cap, run |-> run]]
      /\ cam' = [pc |-> "read", id |-> cam.id + 1]
  BY DEF PublishFrame, encoder
<1>3. cam.id \in 0 .. MaxFrames /\ cam.id < MaxFrames /\ cap \in Nat /\ run \in 1 .. MaxRuns /\ road.n \in Nat
  BY <1>1, <1>2, PipeFields DEF RingIsWritten
<1>b. /\ [id |-> cam.id, cap |-> cap, run |-> run] \in Frames
      /\ [id |-> cam.id, cap |-> cap, run |-> run].id = cam.id
      /\ [id |-> cam.id, cap |-> cap, run |-> run].cap = cap
      /\ [id |-> cam.id, cap |-> cap, run |-> run].run = run
  BY <1>3, PipeConstants DEF Frames
<1>4. PICK f \in Frames : f = [id |-> cam.id, cap |-> cap, run |-> run]
  BY <1>b
<1>a. f.id = cam.id /\ f.cap = cap /\ f.run = run
  BY <1>b, <1>4, Zenon
<1>5. cam'.pc = "read" /\ cam'.id = cam.id + 1 /\ road'.n = road.n + 1 /\ road'.frame = f
  BY <1>2, <1>4
<1>6. PipeTypeOK'
  <2>1. cam' \in [pc : {"read", "lo", "hi", "id", "close", "publish"}, id : 0 .. MaxFrames]
    BY <1>2, <1>3, PipeConstants
  <2>2. road' \in [n : Nat, frame : Frames]
    BY <1>2, <1>3, <1>4
  <2> QED BY <1>1, <1>2, <2>1, <2>2 DEF PipeTypeOK
<1>7. RingIsWritten'
  BY <1>1, <1>2, <1>5 DEF RingIsWritten
<1>8. ASSUME NEW g \in Frames, Stands(g)
      PROVE  Stands(g)'
  <2>1. g.id \in 0 .. MaxFrames
    BY <1>1, PipeFields
  <2> QED BY <1>2, <1>3, <1>5, <1>8, <2>1, PipeConstants DEF Stands
<1>9. Stands(f)'
  <2>1. ring[PlaceOf(cam.id)].lo = cap /\ ring[PlaceOf(cam.id)].hi = cap
    BY <1>1, <1>2 DEF RingIsWritten
  <2>2. f.run <= run' /\ f.id < cam'.id
    BY <1>2, <1>3, <1>5, <1>a, PipeConstants
  <2>3. ring'[PlaceOf(f.id)].lo = f.cap /\ ring'[PlaceOf(f.id)].hi = f.cap
    BY <1>2, <1>a, <2>1
  <2> QED BY <2>2, <2>3 DEF Stands
<1>10. FramesStand'
  <2>1. rec.frame \in Frames /\ \A p \in Readers : reader[p].frame \in Frames
    BY <1>1, PipeFields
  <2>2. Stands(rec.frame) /\ \A p \in Readers : Stands(reader[p].frame)
    BY <1>1 DEF FramesStand
  <2> QED BY <1>2, <1>5, <1>8, <1>9, <2>1, <2>2 DEF FramesStand, Stands
<1>11. FlowsInOrder'
  <2>1. /\ road.frame.cap \in Nat /\ reader["modeld"].frame.cap \in Nat
        /\ seen["modeld"] \in Nat /\ road.frame.cap < cap /\ "modeld" \in Readers
    BY <1>1, <1>2, PipeFields DEF FlowsInOrder, Readers
  <2>2. /\ seen["modeld"] <= road.n + 1 /\ reader["modeld"].frame.cap < cap
        /\ reader["modeld"].frame.cap <= cap /\ cap <= cap
    BY <1>1, <1>3, <2>1 DEF FlowsInOrder
  <2> QED BY <1>1, <1>2, <1>a, <1>5, <2>2 DEF FlowsInOrder
<1>12. CopiesHold' /\ CopiedPictureIsWhole'
  BY <1>2 DEF PipeInv, CopiesHold, CopyHolds, CopiedPictureIsWhole
<1>13. SelectedIsModelled' /\ WaitInOrder' /\ PairsAreKept' /\ RecordedAsModelled' /\ RecordedInOrder'
  BY <1>2, EncoderStays
<1> QED BY <1>6, <1>7, <1>10, <1>11, <1>12, <1>13 DEF PipeInv

(* A new camerad begins a run of its own: nothing that is in use is of it. *)
LEMMA CameraRestartStep == PipeInv /\ CameraRestart => PipeInv'
<1> SUFFICES ASSUME PipeInv, CameraRestart PROVE PipeInv'
  OBVIOUS
<1>1. PipeTypeOK /\ RingIsWritten /\ FlowsInOrder /\ FramesStand
  BY DEF PipeInv
<1>2. /\ UNCHANGED <<ring, cap, road, rec, reader, seen, modelled, encoder>>
      /\ UNCHANGED <<free, raw, done, pending, out, streaming, lost, written>>
      /\ cam' = [pc |-> "read", id |-> 0] /\ run' = run + 1 /\ run < MaxRuns
      /\ \A p \in Readers : reader[p].pc = "idle"
  BY DEF CameraRestart, encoder
<1>3. run \in 1 .. MaxRuns /\ "recordd" \in Readers /\ "modeld" \in Readers
  BY <1>1, PipeFields DEF Readers
<1>4. PipeTypeOK'
  <2>1. /\ cam' \in [pc : {"read", "lo", "hi", "id", "close", "publish"}, id : 0 .. MaxFrames]
        /\ run' \in 1 .. MaxRuns
    BY <1>2, <1>3, PipeConstants
  <2> QED BY <1>1, <1>2, <2>1 DEF PipeTypeOK
<1>5. RingIsWritten'
  BY <1>1, <1>2 DEF RingIsWritten
<1>6. ASSUME NEW f \in Frames, Stands(f)
      PROVE  Stands(f)' /\ f.run # run'
  <2>1. f.run \in 0 .. MaxRuns
    BY <1>1, PipeFields
  <2> QED BY <1>2, <1>3, <1>6, <2>1, PipeConstants DEF Stands
<1>7. FramesStand' /\ rec.frame.run # run'
  <2>1. road.frame \in Frames /\ rec.frame \in Frames /\ \A p \in Readers : reader[p].frame \in Frames
    BY <1>1, PipeFields
  <2>2. Stands(road.frame) /\ Stands(rec.frame) /\ \A p \in Readers : Stands(reader[p].frame)
    BY <1>1 DEF FramesStand
  <2> QED BY <1>2, <1>6, <2>1, <2>2 DEF FramesStand, Stands
<1>8. CopiesHold' /\ CopiedPictureIsWhole'
  BY <1>2 DEF PipeInv, CopiesHold, CopyHolds, CopiedPictureIsWhole
<1>9. FlowsInOrder'
  BY <1>1, <1>2 DEF FlowsInOrder
<1>10. SelectedIsModelled'
  BY <1>2, <1>3, <1>7 DEF SelectedIsModelled
<1>11. WaitInOrder' /\ PairsAreKept' /\ RecordedAsModelled' /\ RecordedInOrder'
  BY <1>2 DEF PipeInv, WaitInOrder, Latest, PairsAreKept, RecordedAsModelled, RecordedInOrder
<1> QED BY <1>4, <1>5, <1>7, <1>8, <1>9, <1>10, <1>11 DEF PipeInv

WholeCopy(r) ==
  r.pc = "copied" =>
    /\ r.buf.lo = r.buf.hi
    /\ r.frame.run = run => r.buf = PictureOf(r.frame.cap)

LEMMA CopyMoves ==
  ASSUME PipeInv, NEW p \in Readers, NEW r \in Copies, reader' = [reader EXCEPT ![p] = r],
         r.frame = reader[p].frame, r.pc # "idle", reader[p].pc # "idle",
         UNCHANGED <<ring, camera, road, rec, seen, modelled, encoder>>,
         CopyHolds(r), WholeCopy(r)
  PROVE  PipeInv'
<1>1. PipeTypeOK
  BY DEF PipeInv
<1>2. /\ UNCHANGED <<ring, cam, cap, run, road, rec, seen, modelled>>
      /\ UNCHANGED <<free, raw, done, pending, out, streaming, lost, written>>
  BY DEF encoder, camera
<1>3. /\ reader \in [Readers -> Copies] /\ reader' \in [Readers -> Copies] /\ reader'[p] = r
      /\ \A q \in Readers : q # p => reader'[q] = reader[q]
  BY <1>1 DEF PipeTypeOK
<1>4. /\ \A q \in Readers : reader'[q].frame = reader[q].frame
      /\ \A q \in Readers : reader'[q].pc = "idle" <=> reader[q].pc = "idle"
  BY <1>3
<1>5. PipeTypeOK'
  BY <1>1, <1>2, <1>3 DEF PipeTypeOK
<1>6. RingIsWritten'
  BY <1>2 DEF PipeInv, RingIsWritten
<1>7. FramesStand'
  BY <1>2, <1>4 DEF PipeInv, FramesStand, Stands
<1>8. CopiesHold'
  <2> SUFFICES ASSUME NEW q \in Readers PROVE CopyHolds(reader[q])'
    BY DEF CopiesHold
  <2>1. CASE q = p
    BY <1>2, <1>3, <2>1 DEF CopyHolds
  <2>2. CASE q # p
    BY <1>2, <1>3, <2>2 DEF CopyHolds, CopiesHold, PipeInv
  <2> QED BY <2>1, <2>2
<1>9. CopiedPictureIsWhole'
  <2> SUFFICES ASSUME NEW q \in Readers
               PROVE  reader'[q].pc = "copied" =>
                        /\ reader'[q].buf.lo = reader'[q].buf.hi
                        /\ reader'[q].frame.run = run => reader'[q].buf = PictureOf(reader'[q].frame.cap)
    BY <1>2 DEF CopiedPictureIsWhole
  <2>1. CASE q = p
    BY <1>3, <2>1 DEF WholeCopy
  <2>2. CASE q # p
    BY <1>3, <2>2 DEF CopiedPictureIsWhole, PipeInv
  <2> QED BY <2>1, <2>2
<1>10. "modeld" \in Readers /\ "recordd" \in Readers
  BY DEF Readers
<1>11. FlowsInOrder'
  BY <1>2, <1>4, <1>10 DEF FlowsInOrder, PipeInv
<1>12. SelectedIsModelled' /\ WaitInOrder' /\ PairsAreKept' /\ RecordedAsModelled' /\ RecordedInOrder'
  BY <1>2, <1>4, <1>10, EncoderStays
<1> QED BY <1>5, <1>6, <1>7, <1>8, <1>9, <1>11, <1>12 DEF PipeInv

LEMMA TryAgainStep ==
  ASSUME PipeInv, NEW p \in Readers, TryAgain(p), reader[p].pc \in {"load", "id", "check"},
         UNCHANGED <<ring, camera, road, rec, seen, modelled, encoder>>
  PROVE  PipeInv'
<1>1. PipeTypeOK
  BY DEF PipeInv
<1>2. reader[p] \in Copies
  BY <1>1, PipeFields
<1>3. reader[p].attempt \in 1 .. Attempts
  BY DEF PipeInv, CopiesHold, CopyHolds
<1>4. PICK attempt \in 0 .. Attempts + 1 : attempt = reader[p].attempt + 1
  BY <1>3, PipeConstants
<1>5. PICK pc \in {"load", "failed"} :
        pc = IF reader[p].attempt < Attempts THEN "load" ELSE "failed"
  OBVIOUS
<1>6. pc = "load" => attempt \in 1 .. Attempts
  BY <1>3, <1>4, <1>5, PipeConstants
<1>7. PICK r \in Copies : r = [reader[p] EXCEPT !.pc = pc, !.attempt = attempt]
  BY <1>2 DEF Copies
<1>8. r.pc = pc /\ r.attempt = attempt /\ r.frame = reader[p].frame
  BY <1>2, <1>7 DEF Copies
<1>9. reader' = [reader EXCEPT ![p] = r]
  BY <1>4, <1>5, <1>7 DEF TryAgain, Goes
<1>10. CopyHolds(r) /\ WholeCopy(r)
  BY <1>6, <1>8 DEF CopyHolds, WholeCopy
<1> QED BY <1>8, <1>9, <1>10, CopyMoves

LEMMA CopyStep ==
  ASSUME PipeInv, NEW p \in Readers, Copy(p)
  PROVE  PipeInv'
<1> DEFINE old == reader[p]
           place == PlaceOf(old.frame.id)
<1>1. PipeTypeOK /\ RingIsWritten
  BY DEF PipeInv
<1>2. /\ old \in Copies /\ old.frame \in Frames /\ old.buf \in Pictures /\ old.before \in Nat
      /\ place \in 0 .. RingSlots - 1
      /\ ring[place].seq \in Nat /\ ring[place].lo \in Nat /\ ring[place].hi \in Nat
  BY <1>1, PipeFields
<1>3. CopyHolds(old) /\ Stands(old.frame)
  BY DEF PipeInv, CopiesHold, FramesStand
<1>4. UNCHANGED <<ring, camera, road, rec, seen, modelled, encoder>>
  BY DEF Copy, CopyLoad, CopyCheckId, CopyLo, CopyHi, CopyCheck
<1> HIDE DEF old, place
<1>5. ASSUME NEW r \in Copies, reader' = [reader EXCEPT ![p] = r], r.frame = old.frame,
             r.pc # "idle", old.pc # "idle", CopyHolds(r), WholeCopy(r)
      PROVE  PipeInv'
  BY <1>4, <1>5, CopyMoves DEF old
<1>6. CASE CopyLoad(p)
  <2>1. CASE ring[place].seq = 0 \/ ~Even(ring[place].seq)
    BY <1>4, <1>6, <2>1, TryAgainStep DEF CopyLoad, old, place
  <2>2. CASE ~(ring[place].seq = 0 \/ ~Even(ring[place].seq))
    <3>1. PICK q \in Nat : q = ring[place].seq
      BY <1>2
    <3>2. PICK r \in Copies : r = [old EXCEPT !.pc = "id", !.before = q]
      BY <1>2 DEF Copies
    <3>3. r.pc = "id" /\ r.before = q /\ r.frame = old.frame /\ r.attempt = old.attempt
      BY <1>2, <3>2 DEF Copies
    <3>4. old.pc = "load" /\ reader' = [reader EXCEPT ![p] = r]
      BY <1>6, <2>2, <3>1, <3>2 DEF CopyLoad, Goes, old, place
    <3>5. CopyHolds(r) /\ WholeCopy(r)
      BY <1>2, <1>3, <2>2, <3>1, <3>3, <3>4 DEF CopyHolds, WholeCopy, place
    <3> QED BY <1>5, <3>3, <3>4, <3>5
  <2> QED BY <2>1, <2>2
<1>7. CASE CopyCheckId(p)
  <2>1. old.pc = "id"
    BY <1>7 DEF CopyCheckId, old
  <2>2. CASE ring[place].id > old.frame.id
    <3>1. PICK r \in Copies : r = [old EXCEPT !.pc = "failed"]
      BY <1>2 DEF Copies
    <3>2. r.pc = "failed" /\ r.frame = old.frame
      BY <1>2, <3>1 DEF Copies
    <3>3. reader' = [reader EXCEPT ![p] = r]
      BY <1>7, <2>2, <3>1 DEF CopyCheckId, Goes, old, place
    <3>4. CopyHolds(r) /\ WholeCopy(r)
      BY <3>2 DEF CopyHolds, WholeCopy
    <3> QED BY <1>5, <2>1, <3>2, <3>3, <3>4
  <2>3. CASE ~(ring[place].id > old.frame.id) /\ ring[place].id < old.frame.id
    BY <1>4, <1>7, <2>1, <2>3, TryAgainStep DEF CopyCheckId, old, place
  <2>4. CASE ~(ring[place].id > old.frame.id) /\ ~(ring[place].id < old.frame.id)
    <3>1. PICK r \in Copies : r = [old EXCEPT !.pc = "lo"]
      BY <1>2 DEF Copies
    <3>2. r.pc = "lo" /\ r.frame = old.frame /\ r.before = old.before /\ r.attempt = old.attempt
      BY <1>2, <3>1 DEF Copies
    <3>3. reader' = [reader EXCEPT ![p] = r]
      BY <1>7, <2>4, <3>1 DEF CopyCheckId, Goes, old, place
    <3>4. CopyHolds(r) /\ WholeCopy(r)
      BY <1>3, <2>1, <3>2 DEF CopyHolds, WholeCopy
    <3> QED BY <1>5, <2>1, <3>2, <3>3, <3>4
  <2> QED BY <2>2, <2>3, <2>4
<1>8. CASE CopyLo(p)
  <2>1. PICK lo \in Nat : lo = ring[place].lo
    BY <1>2
  <2>2. PICK buf \in Pictures : buf = [old.buf EXCEPT !.lo = lo]
    BY <1>2 DEF Pictures
  <2>3. PICK r \in Copies : r = [old EXCEPT !.pc = "hi", !.buf = buf]
    BY <1>2 DEF Copies
  <2>4. /\ r.pc = "hi" /\ r.frame = old.frame /\ r.before = old.before /\ r.attempt = old.attempt
        /\ r.buf.lo = lo
    BY <1>2, <2>2, <2>3 DEF Copies, Pictures
  <2>5. old.pc = "lo" /\ reader' = [reader EXCEPT ![p] = r]
    BY <1>8, <2>1, <2>2, <2>3 DEF CopyLo, Goes, old, place
  <2>6. CopyHolds(r) /\ WholeCopy(r)
    BY <1>3, <2>1, <2>4, <2>5 DEF CopyHolds, WholeCopy, place
  <2> QED BY <1>5, <2>4, <2>5, <2>6
<1>9. CASE CopyHi(p)
  <2>1. PICK hi \in Nat : hi = ring[place].hi
    BY <1>2
  <2>2. PICK buf \in Pictures : buf = [old.buf EXCEPT !.hi = hi]
    BY <1>2 DEF Pictures
  <2>3. PICK r \in Copies : r = [old EXCEPT !.pc = "check", !.buf = buf]
    BY <1>2 DEF Copies
  <2>4. /\ r.pc = "check" /\ r.frame = old.frame /\ r.before = old.before /\ r.attempt = old.attempt
        /\ r.buf.hi = hi /\ r.buf.lo = old.buf.lo
    BY <1>2, <2>2, <2>3 DEF Copies, Pictures
  <2>5. old.pc = "hi" /\ reader' = [reader EXCEPT ![p] = r]
    BY <1>9, <2>1, <2>2, <2>3 DEF CopyHi, Goes, old, place
  <2>6. CopyHolds(r) /\ WholeCopy(r)
    BY <1>3, <2>1, <2>4, <2>5 DEF CopyHolds, WholeCopy, place
  <2> QED BY <1>5, <2>4, <2>5, <2>6
<1>10. CASE CopyCheck(p)
  <2>1. old.pc = "check"
    BY <1>10 DEF CopyCheck, old
  <2>2. CASE ~Unchanged(p)
    BY <1>4, <1>10, <2>1, <2>2, TryAgainStep DEF CopyCheck, old
  <2>3. CASE Unchanged(p)
    <3>1. PICK r \in Copies : r = [old EXCEPT !.pc = "copied"]
      BY <1>2 DEF Copies
    <3>2. r.pc = "copied" /\ r.frame = old.frame /\ r.buf = old.buf
      BY <1>2, <3>1 DEF Copies
    <3>3. reader' = [reader EXCEPT ![p] = r]
      BY <1>10, <2>3, <3>1 DEF CopyCheck, Goes, old
    <3>4. ring[place].seq = old.before /\ ring[place].id = old.frame.id /\ Even(ring[place].seq)
      BY <1>3, <2>1, <2>3 DEF Unchanged, CopyHolds, old, place
    <3>5. ring[place].lo = ring[place].hi /\ old.buf.lo = ring[place].lo /\ old.buf.hi = ring[place].hi
      BY <1>1, <1>2, <1>3, <2>1, <3>4 DEF CopyHolds, RingIsWritten, place
    <3>6. old.frame.run = run => old.buf = PictureOf(old.frame.cap)
      <4> SUFFICES ASSUME old.frame.run = run PROVE old.buf = PictureOf(old.frame.cap)
        OBVIOUS
      <4>1. old.buf.lo = old.frame.cap /\ old.buf.hi = old.frame.cap
        BY <1>3, <3>4, <3>5 DEF Stands, place
      <4> QED BY <1>2, <4>1 DEF Pictures, PictureOf
    <3>7. CopyHolds(r)
      BY <3>2 DEF CopyHolds
    <3>8. WholeCopy(r)
      BY <3>2, <3>5, <3>6 DEF WholeCopy
    <3> QED BY <1>5, <2>1, <3>2, <3>3, <3>7, <3>8
  <2> QED BY <2>2, <2>3
<1> QED BY <1>6, <1>7, <1>8, <1>9, <1>10 DEF Copy

(* A reader goes on, to a frame that stands. *)
LEMMA ReaderMoves ==
  ASSUME PipeInv, NEW p \in Readers, NEW r \in Copies, reader' = [reader EXCEPT ![p] = r],
         UNCHANGED <<ring, cam, cap, run, road>>,
         rec'.frame = rec.frame \/ \E q \in Readers : rec'.frame = reader[q].frame,
         Stands(r.frame), CopyHolds(r), WholeCopy(r)
  PROVE  /\ RingIsWritten' /\ FramesStand' /\ CopiesHold' /\ CopiedPictureIsWhole'
         /\ reader' \in [Readers -> Copies] /\ reader'[p] = r
         /\ \A q \in Readers : q # p => reader'[q] = reader[q]
<1>1. PipeTypeOK
  BY DEF PipeInv
<1>2. /\ reader \in [Readers -> Copies] /\ reader' \in [Readers -> Copies] /\ reader'[p] = r
      /\ \A q \in Readers : q # p => reader'[q] = reader[q]
  BY <1>1 DEF PipeTypeOK
<1>3. RingIsWritten'
  BY DEF PipeInv, RingIsWritten
<1>4. \A f : Stands(f) => f.run <= run' /\ (f.run = run' =>
          /\ f.id < cam'.id
          /\ ring'[PlaceOf(f.id)].id = f.id /\ Even(ring'[PlaceOf(f.id)].seq) =>
               ring'[PlaceOf(f.id)].lo = f.cap /\ ring'[PlaceOf(f.id)].hi = f.cap)
  BY DEF Stands
<1>5. Stands(road.frame) /\ Stands(rec.frame) /\ \A q \in Readers : Stands(reader[q].frame)
  BY DEF PipeInv, FramesStand
<1>6. Stands(rec'.frame) /\ \A q \in Readers : Stands(reader'[q].frame)
  BY <1>2, <1>5
<1>7. FramesStand'
  BY <1>4, <1>5, <1>6 DEF FramesStand, Stands
<1>8. CopiesHold'
  <2> SUFFICES ASSUME NEW q \in Readers PROVE CopyHolds(reader[q])'
    BY DEF CopiesHold
  <2>1. CASE q = p
    BY <1>2, <2>1 DEF CopyHolds
  <2>2. CASE q # p
    BY <1>2, <2>2 DEF CopyHolds, CopiesHold, PipeInv
  <2> QED BY <2>1, <2>2
<1>9. CopiedPictureIsWhole'
  <2> SUFFICES ASSUME NEW q \in Readers
               PROVE  reader'[q].pc = "copied" =>
                        /\ reader'[q].buf.lo = reader'[q].buf.hi
                        /\ reader'[q].frame.run = run => reader'[q].buf = PictureOf(reader'[q].frame.cap)
    BY DEF CopiedPictureIsWhole
  <2>1. CASE q = p
    BY <1>2, <2>1 DEF WholeCopy
  <2>2. CASE q # p
    BY <1>2, <2>2 DEF CopiedPictureIsWhole, PipeInv
  <2> QED BY <2>1, <2>2
<1> QED BY <1>2, <1>3, <1>7, <1>8, <1>9

LEMMA CopyingIs ==
  ASSUME NEW f \in Frames
  PROVE  /\ Copying(f) \in Copies /\ Copying(f).pc = "load" /\ Copying(f).frame = f
         /\ CopyHolds(Copying(f)) /\ WholeCopy(Copying(f))
<1>1. Copying(f) \in Copies
  BY PipeConstants DEF Copying, Copies, NoPicture, Pictures
<1>2. Copying(f).pc = "load" /\ Copying(f).frame = f /\ Copying(f).attempt = 1
  BY DEF Copying
<1> QED BY <1>1, <1>2, PipeConstants DEF CopyHolds, WholeCopy

LEMMA IdleIs ==
  ASSUME PipeTypeOK, NEW p \in Readers
  PROVE  /\ Idle(p) \in Copies /\ Idle(p).pc = "idle" /\ Idle(p).frame = reader[p].frame
         /\ CopyHolds(Idle(p)) /\ WholeCopy(Idle(p))
<1>1. reader[p] \in Copies
  BY PipeFields
<1>2. NoPicture \in Pictures
  BY DEF NoPicture, Pictures
<1>3. Idle(p) \in Copies /\ Idle(p).pc = "idle" /\ Idle(p).frame = reader[p].frame
  BY <1>1, <1>2 DEF Idle, Copies
<1> QED BY <1>3 DEF CopyHolds, WholeCopy

LEMMA ModelTakeStep == PipeInv /\ ModelTake => PipeInv'
<1> SUFFICES ASSUME PipeInv, ModelTake PROVE PipeInv'
  OBVIOUS
<1>1. PipeTypeOK /\ FlowsInOrder /\ Stands(road.frame)
  BY DEF PipeInv, FramesStand
<1>2. /\ "modeld" \in Readers /\ "recordd" \in Readers /\ road.frame \in Frames /\ seen \in [Readers -> Nat]
      /\ road.n \in Nat
  BY <1>1, PipeFields DEF Readers, PipeTypeOK
<1>3. /\ UNCHANGED <<ring, cam, cap, run, road, rec, modelled, encoder>>
      /\ UNCHANGED <<free, raw, done, pending, out, streaming, lost, written>>
      /\ seen' = [seen EXCEPT !["modeld"] = road.n] /\ road.n # seen["modeld"]
  BY DEF ModelTake, encoder, camera
<1>4. PICK r \in Copies : r = Copying(road.frame) /\ r.frame = road.frame /\ r.pc = "load"
                          /\ CopyHolds(r) /\ WholeCopy(r)
  BY <1>2, CopyingIs
<1>5. reader' = [reader EXCEPT !["modeld"] = r]
  BY <1>4 DEF ModelTake, Goes
<1>6. /\ RingIsWritten' /\ FramesStand' /\ CopiesHold' /\ CopiedPictureIsWhole'
      /\ reader' \in [Readers -> Copies] /\ reader'["modeld"] = r
      /\ reader'["recordd"] = reader["recordd"]
  BY <1>1, <1>2, <1>3, <1>4, <1>5, ReaderMoves
<1>7. seen' \in [Readers -> Nat] /\ seen'["modeld"] = road.n /\ seen'["recordd"] = seen["recordd"]
  BY <1>2, <1>3
<1>8. PipeTypeOK'
  BY <1>1, <1>3, <1>6, <1>7 DEF PipeTypeOK
<1>9. FlowsInOrder'
  <2>1. /\ rec.frame.cap \in Nat /\ road.frame.cap \in Nat /\ reader["modeld"].frame.cap \in Nat
    BY <1>1, <1>2, PipeFields
  <2>2. rec.frame.cap < road.frame.cap /\ rec.frame.cap <= road.frame.cap /\ road.frame.cap <= road.frame.cap
    BY <1>1, <1>3, <2>1 DEF FlowsInOrder
  <2>3. road.n <= road.n
    BY <1>2
  <2> QED BY <1>1, <1>3, <1>4, <1>6, <1>7, <2>2, <2>3 DEF FlowsInOrder
<1>10. SelectedIsModelled' /\ WaitInOrder' /\ PairsAreKept' /\ RecordedAsModelled' /\ RecordedInOrder'
  BY <1>3, <1>6, EncoderStays
<1> QED BY <1>6, <1>8, <1>9, <1>10 DEF PipeInv

LEMMA SkipStep == PipeInv /\ (ModelSkip \/ RecordSkip) => PipeInv'
<1> SUFFICES ASSUME PipeInv, NEW p \in Readers, reader[p].pc = "failed", Goes(p, Idle(p)),
                    UNCHANGED <<ring, camera, road, rec, seen, modelled, encoder>>
             PROVE  PipeInv'
  BY DEF ModelSkip, RecordSkip, Readers
<1>1. PipeTypeOK /\ FlowsInOrder /\ Stands(reader[p].frame)
  BY DEF PipeInv, FramesStand
<1>2. /\ UNCHANGED <<ring, cam, cap, run, road, rec, seen, modelled>>
      /\ UNCHANGED <<free, raw, done, pending, out, streaming, lost, written>>
  BY DEF encoder, camera
<1>3. PICK r \in Copies : r = Idle(p) /\ r.frame = reader[p].frame /\ r.pc = "idle"
                          /\ CopyHolds(r) /\ WholeCopy(r)
  BY <1>1, IdleIs
<1>4. reader' = [reader EXCEPT ![p] = r]
  BY <1>3 DEF Goes
<1>5. /\ RingIsWritten' /\ FramesStand' /\ CopiesHold' /\ CopiedPictureIsWhole'
      /\ reader' \in [Readers -> Copies] /\ reader'[p] = r
      /\ \A q \in Readers : q # p => reader'[q] = reader[q]
  BY <1>1, <1>2, <1>3, <1>4, ReaderMoves
<1>6. /\ \A q \in Readers : reader'[q].frame = reader[q].frame
      /\ \A q \in Readers : reader'[q].pc # "idle" => reader[q].pc # "idle"
      /\ "modeld" \in Readers /\ "recordd" \in Readers
  BY <1>3, <1>5 DEF Readers
<1>7. PipeTypeOK'
  BY <1>1, <1>2, <1>5 DEF PipeTypeOK
<1>8. FlowsInOrder'
  BY <1>1, <1>2, <1>6 DEF FlowsInOrder
<1>9. SelectedIsModelled'
  BY <1>2, <1>6 DEF PipeInv, SelectedIsModelled, WasModelled
<1>10. WaitInOrder'
  BY <1>2, <1>6 DEF PipeInv, WaitInOrder, Latest
<1>11. PairsAreKept' /\ RecordedAsModelled' /\ RecordedInOrder'
  BY <1>2 DEF PipeInv, PairsAreKept, RecordedAsModelled, RecordedInOrder
<1> QED BY <1>5, <1>7, <1>8, <1>9, <1>10, <1>11 DEF PipeInv

LEMMA ModelRunStep == PipeInv /\ ModelRun => PipeInv'
<1> SUFFICES ASSUME PipeInv, ModelRun PROVE PipeInv'
  OBVIOUS
<1>1. PipeTypeOK /\ FlowsInOrder /\ FramesStand /\ CopiedPictureIsWhole
  BY DEF PipeInv
<1>2. "modeld" \in Readers /\ "recordd" \in Readers /\ rec.n \in Nat /\ seen["recordd"] \in Nat
  BY <1>1, PipeFields DEF Readers
<1>3. PICK f \in Frames : f = reader["modeld"].frame
  BY <1>1, <1>2, PipeFields
<1>4. PICK buf \in Pictures : buf = reader["modeld"].buf
  BY <1>1, <1>2, PipeFields
<1>5. /\ UNCHANGED <<ring, cam, cap, run, road, seen, encoder>>
      /\ UNCHANGED <<free, raw, done, pending, out, streaming, lost, written>>
      /\ rec' = [n |-> rec.n + 1, frame |-> f] /\ modelled' = modelled \cup {<<f, buf>>}
      /\ reader["modeld"].pc = "copied" /\ reader' = [reader EXCEPT !["modeld"] = Idle("modeld")]
  BY <1>3, <1>4 DEF ModelRun, Goes, encoder, camera
<1>6. PICK r \in Copies : r = Idle("modeld") /\ r.frame = f /\ r.pc = "idle"
                          /\ CopyHolds(r) /\ WholeCopy(r)
  BY <1>1, <1>2, <1>3, IdleIs
<1>7. rec'.n = rec.n + 1 /\ rec'.frame = f /\ rec' \in [n : Nat, frame : Frames]
  BY <1>2, <1>5
<1>8. /\ RingIsWritten' /\ FramesStand' /\ CopiesHold' /\ CopiedPictureIsWhole'
      /\ reader' \in [Readers -> Copies] /\ reader'["modeld"] = r
      /\ reader'["recordd"] = reader["recordd"]
  <2>1. Stands(r.frame)
    BY <1>1, <1>2, <1>3, <1>6 DEF FramesStand
  <2> QED BY <1>2, <1>3, <1>5, <1>6, <1>7, <2>1, ReaderMoves
<1>9. PipeTypeOK'
  <2>1. modelled' \subseteq Frames \X Pictures
    BY <1>1, <1>5 DEF PipeTypeOK
  <2> QED BY <1>1, <1>5, <1>7, <1>8, <2>1 DEF PipeTypeOK
<1>10. /\ rec.frame.cap \in Nat /\ f.cap \in Nat /\ reader["recordd"].frame.cap \in Nat
       /\ rec.frame.cap < f.cap /\ reader["recordd"].frame.cap <= rec.frame.cap
       /\ seen["recordd"] <= rec.n
  <2>1. rec.frame.cap \in Nat /\ f.cap \in Nat /\ reader["recordd"].frame.cap \in Nat
    BY <1>1, <1>2, PipeFields
  <2> QED BY <1>1, <1>3, <1>5, <2>1 DEF FlowsInOrder
<1>11. FlowsInOrder'
  <2>1. /\ reader["recordd"].frame.cap < f.cap /\ reader["recordd"].frame.cap <= f.cap
        /\ f.cap <= f.cap /\ seen["recordd"] <= rec.n + 1
    BY <1>2, <1>10
  <2> QED BY <1>1, <1>3, <1>5, <1>6, <1>7, <1>8, <2>1 DEF FlowsInOrder
<1>12. SelectedIsModelled'
  <2>1. f.run = run => <<f, PictureOf(f.cap)>> \in modelled'
    BY <1>1, <1>2, <1>3, <1>4, <1>5 DEF CopiedPictureIsWhole
  <2>2. reader["recordd"].pc # "idle" => WasModelled(reader["recordd"].frame) /\ free > 0
    BY DEF PipeInv, SelectedIsModelled
  <2> QED BY <1>5, <1>7, <1>8, <2>1, <2>2 DEF SelectedIsModelled, WasModelled
<1>13. WaitInOrder' /\ RecordedInOrder'
  BY <1>5, <1>8 DEF PipeInv, WaitInOrder, Latest, RecordedInOrder
<1>14. PairsAreKept' /\ RecordedAsModelled'
  <2>1. modelled \subseteq modelled'
    BY <1>5
  <2> QED BY <1>5, <2>1 DEF PipeInv, PairsAreKept, RecordedAsModelled
<1> QED BY <1>8, <1>9, <1>11, <1>12, <1>13, <1>14 DEF PipeInv

(* What the encoder hands back goes to the writer with the oldest frames.  *)
LEMMA DrainMoves ==
  ASSUME PipeInv, Drain
  PROVE  /\ written' \in Seq(Frames \X Pictures) /\ pending' \in Seq(Frames) /\ out' = <<>>
         /\ Len(written') = Len(written) + Len(out) /\ Len(pending') = Len(pending) - Len(out)
         /\ Len(written) \in Nat /\ Len(pending) \in Nat /\ Len(out) \in Nat /\ Len(out) <= Len(pending)
         /\ \A i \in 1 .. Len(written) : written'[i] = written[i]
         /\ \A i \in 1 .. Len(out) :
              written'[Len(written) + i] = <<pending[i], out[i]>>
         /\ \A i \in 1 .. Len(pending) - Len(out) : pending'[i] = pending[Len(out) + i]
<1>1. PipeTypeOK /\ PairsAreKept
  BY DEF PipeInv
<1>2. /\ written \in Seq(Frames \X Pictures) /\ pending \in Seq(Frames) /\ out \in Seq(Pictures)
      /\ raw \in Seq(Pictures) /\ lost \in Nat
  BY <1>1 DEF PipeTypeOK
<1>3. /\ Len(written) \in Nat /\ Len(pending) \in Nat /\ Len(out) \in Nat /\ Len(raw) \in Nat
      /\ \A i \in 1 .. Len(pending) : pending[i] \in Frames
      /\ \A i \in 1 .. Len(out) : out[i] \in Pictures
  BY <1>2
<1>4. Len(pending) = Len(out) + Len(raw) + lost
  BY <1>1 DEF PairsAreKept
<1>5. Len(out) <= Len(pending)
  BY <1>2, <1>3, <1>4
<1>6. /\ Drained \in Seq(Frames \X Pictures) /\ Len(Drained) = Len(out)
      /\ \A i \in 1 .. Len(out) : Drained[i] = <<pending[i], out[i]>>
  <2>1. Drained \in [1 .. Len(out) -> Frames \X Pictures]
    BY <1>3, <1>5 DEF Drained
  <2>2. Drained \in Seq(Frames \X Pictures)
    BY <1>3, <2>1, SeqDef
  <2>3. DOMAIN Drained = 1 .. Len(out)
    BY DEF Drained
  <2>4. Len(Drained) \in Nat /\ DOMAIN Drained = 1 .. Len(Drained)
    BY <2>2, LenProperties
  <2>5. Len(Drained) = Len(out)
    <3>1. PICK m \in Nat : m = Len(Drained)
      BY <2>4
    <3>2. PICK n \in Nat : n = Len(out)
      BY <1>3
    <3>3. 1 .. m = 1 .. n
      BY <2>3, <2>4, <3>1, <3>2
    <3> QED BY <3>1, <3>2, <3>3
  <2>6. \A i \in 1 .. Len(out) : Drained[i] = <<pending[i], out[i]>>
    BY DEF Drained
  <2> QED BY <2>2, <2>5, <2>6
<1>7. /\ written' = written \o Drained /\ out' = <<>>
      /\ pending' = SubSeq(pending, Len(out) + 1, Len(pending))
  BY DEF Drain
<1>8. /\ written' \in Seq(Frames \X Pictures) /\ Len(written') = Len(written) + Len(out)
      /\ \A i \in 1 .. Len(written) + Len(out) :
           written'[i] = IF i <= Len(written) THEN written[i] ELSE Drained[i - Len(written)]
  <2>1. /\ written \o Drained \in Seq(Frames \X Pictures)
        /\ Len(written \o Drained) = Len(written) + Len(Drained)
        /\ \A i \in 1 .. Len(written) + Len(Drained) :
             (written \o Drained)[i] = IF i <= Len(written) THEN written[i] ELSE Drained[i - Len(written)]
    BY <1>2, <1>6, ConcatProperties
  <2>2. Len(Drained) = Len(out) /\ written' = written \o Drained
    BY <1>6, <1>7
  <2> QED BY <2>1, <2>2, Zenon
<1>9. /\ pending' \in Seq(Frames) /\ Len(pending') = Len(pending) - Len(out)
      /\ \A i \in 1 .. Len(pending) - Len(out) : pending'[i] = pending[Len(out) + i]
  <2>1. \A i \in Len(out) + 1 .. Len(pending) : pending[i] \in Frames
    BY <1>3
  <2>2. Len(out) + 1 \in Int /\ Len(pending) \in Int
    BY <1>3
  <2>3. /\ SubSeq(pending, Len(out) + 1, Len(pending)) \in Seq(Frames)
        /\ Len(SubSeq(pending, Len(out) + 1, Len(pending))) =
             IF Len(out) + 1 <= Len(pending) THEN Len(pending) - (Len(out) + 1) + 1 ELSE 0
        /\ \A i \in 1 .. Len(pending) - (Len(out) + 1) + 1 :
             SubSeq(pending, Len(out) + 1, Len(pending))[i] = pending[Len(out) + 1 + i - 1]
    BY <2>1, <2>2, SubSeqProperties
  <2>4. Len(pending') = Len(pending) - Len(out)
    BY <1>3, <1>5, <1>7, <2>3
  <2>5. ASSUME NEW i \in 1 .. Len(pending) - Len(out)
        PROVE  pending'[i] = pending[Len(out) + i]
    <3>1. i \in 1 .. Len(pending) - (Len(out) + 1) + 1 /\ Len(out) + 1 + i - 1 = Len(out) + i
      BY <1>3
    <3> QED BY <1>7, <2>3, <3>1
  <2> QED BY <1>7, <2>3, <2>4, <2>5
<1>10. ASSUME NEW i \in 1 .. Len(written)
       PROVE  written'[i] = written[i]
  BY <1>3, <1>8
<1>11. ASSUME NEW i \in 1 .. Len(out)
       PROVE  written'[Len(written) + i] = <<pending[i], out[i]>>
  <2>1. /\ Len(written) + i \in 1 .. Len(written) + Len(out) /\ ~(Len(written) + i <= Len(written))
        /\ Len(written) + i - Len(written) = i
    BY <1>3
  <2> QED BY <1>6, <1>8, <2>1
<1> QED BY <1>3, <1>5, <1>7, <1>8, <1>9, <1>10, <1>11

LEMMA DrainKeeps ==
  ASSUME PipeInv, Drain, UNCHANGED <<raw, lost, modelled>>
  PROVE  /\ PairsAreKept' /\ RecordedAsModelled' /\ RecordedInOrder'
         /\ \A i, j \in 1 .. Len(pending') : i < j => pending'[i].cap < pending'[j].cap
         /\ \A i \in 1 .. Len(written'), j \in 1 .. Len(pending') : written'[i][1].cap < pending'[j].cap
         /\ \A i \in 1 .. Len(written') :
              \/ \E k \in 1 .. Len(written) : written'[i][1].cap = written[k][1].cap
              \/ \E k \in 1 .. Len(pending) : written'[i][1].cap = pending[k].cap
         /\ \A i \in 1 .. Len(pending') : \E k \in 1 .. Len(pending) : pending'[i].cap = pending[k].cap
<1>1. /\ out' = <<>> /\ Len(out') = 0
      /\ Len(written') = Len(written) + Len(out) /\ Len(pending') = Len(pending) - Len(out)
      /\ Len(written) \in Nat /\ Len(pending) \in Nat /\ Len(out) \in Nat /\ Len(out) <= Len(pending)
      /\ \A i \in 1 .. Len(written) : written'[i] = written[i]
      /\ \A i \in 1 .. Len(out) : written'[Len(written) + i] = <<pending[i], out[i]>>
      /\ \A i \in 1 .. Len(pending) - Len(out) : pending'[i] = pending[Len(out) + i]
  BY DrainMoves
<1>2. PairsAreKept /\ WaitInOrder /\ RecordedInOrder /\ RecordedAsModelled /\ PipeTypeOK
  BY DEF PipeInv
<1>3. Len(raw) \in Nat /\ lost \in Nat
  BY <1>2 DEF PipeTypeOK
<1>4. ASSUME NEW i \in 1 .. Len(written')
      PROVE  \/ i \in 1 .. Len(written) /\ written'[i] = written[i]
             \/ \E k \in 1 .. Len(out) : i = Len(written) + k /\ written'[i] = <<pending[k], out[k]>>
  <2>1. CASE i <= Len(written)
    BY <1>1, <2>1
  <2>2. CASE i > Len(written)
    <3>1. PICK k \in 1 .. Len(out) : i = Len(written) + k
      <4>1. i - Len(written) \in 1 .. Len(out) /\ i = Len(written) + (i - Len(written))
        BY <1>1, <2>2
      <4> QED BY <4>1
    <3> QED BY <1>1, <3>1
  <2> QED BY <1>1, <2>1, <2>2
<1>5. ASSUME NEW i \in 1 .. Len(pending')
      PROVE  Len(out) + i \in 1 .. Len(pending) /\ pending'[i] = pending[Len(out) + i]
  BY <1>1
<1>6. \A k \in 1 .. Len(out) : k \in 1 .. Len(pending)
  BY <1>1
<1>7. /\ \A i, j \in 1 .. Len(pending) : i < j => pending[i].cap < pending[j].cap
      /\ \A i \in 1 .. Len(written), j \in 1 .. Len(pending) : written[i][1].cap < pending[j].cap
      /\ \A i, j \in 1 .. Len(written) : i < j => written[i][1].cap < written[j][1].cap
  BY <1>2 DEF WaitInOrder, RecordedInOrder
<1>8. PairsAreKept'
  <2>1. Len(pending') = Len(out') + Len(raw') + lost'
    BY <1>1, <1>2, <1>3 DEF PairsAreKept
  <2>2. ASSUME lost' = 0, NEW i \in 1 .. Len(raw')
        PROVE  <<pending'[Len(out') + i], raw'[i]>> \in modelled'
    <3>1. i \in 1 .. Len(raw) /\ Len(out') + i = i /\ i \in 1 .. Len(pending')
      BY <1>1, <1>3, <2>1, <2>2
    <3>2. <<pending[Len(out) + i], raw[i]>> \in modelled
      BY <1>2, <2>2, <3>1 DEF PairsAreKept
    <3> QED BY <1>5, <3>1, <3>2
  <2>3. 1 .. Len(out') = {}
    BY <1>1
  <2> QED BY <2>1, <2>2, <2>3 DEF PairsAreKept
<1>9. RecordedAsModelled'
  <2> SUFFICES ASSUME lost = 0, NEW i \in 1 .. Len(written')
               PROVE  written'[i] \in modelled
    BY DEF RecordedAsModelled
  <2>1. CASE i \in 1 .. Len(written) /\ written'[i] = written[i]
    BY <1>2, <2>1 DEF RecordedAsModelled
  <2>2. ASSUME NEW k \in 1 .. Len(out), written'[i] = <<pending[k], out[k]>>
        PROVE  written'[i] \in modelled
    BY <1>2, <2>2 DEF PairsAreKept
  <2> QED BY <1>4, <2>1, <2>2
<1>10. RecordedInOrder'
  <2> SUFFICES ASSUME NEW i \in 1 .. Len(written'), NEW j \in 1 .. Len(written'), i < j
               PROVE  written'[i][1].cap < written'[j][1].cap
    BY DEF RecordedInOrder
  <2>1. CASE j \in 1 .. Len(written) /\ written'[j] = written[j]
    <3>1. i \in 1 .. Len(written) /\ written'[i] = written[i]
      BY <1>1, <2>1
    <3> QED BY <1>7, <2>1, <3>1
  <2>2. ASSUME NEW l \in 1 .. Len(out), j = Len(written) + l, written'[j] = <<pending[l], out[l]>>
        PROVE  written'[i][1].cap < written'[j][1].cap
    <3>1. CASE i \in 1 .. Len(written) /\ written'[i] = written[i]
      BY <1>6, <1>7, <2>2, <3>1
    <3>2. ASSUME NEW k \in 1 .. Len(out), i = Len(written) + k, written'[i] = <<pending[k], out[k]>>
          PROVE  written'[i][1].cap < written'[j][1].cap
      <4>1. k < l
        BY <1>1, <2>2, <3>2
      <4> QED BY <1>6, <1>7, <2>2, <3>2, <4>1
    <3> QED BY <1>4, <3>1, <3>2
  <2> QED BY <1>4, <2>1, <2>2
<1>11. ASSUME NEW i \in 1 .. Len(pending'), NEW j \in 1 .. Len(pending'), i < j
       PROVE  pending'[i].cap < pending'[j].cap
  <2>1. Len(out) + i < Len(out) + j
    BY <1>1, <1>11
  <2> QED BY <1>5, <1>7, <2>1
<1>12. ASSUME NEW i \in 1 .. Len(written'), NEW j \in 1 .. Len(pending')
       PROVE  written'[i][1].cap < pending'[j].cap
  <2>1. CASE i \in 1 .. Len(written) /\ written'[i] = written[i]
    BY <1>5, <1>7, <2>1
  <2>2. ASSUME NEW k \in 1 .. Len(out), written'[i] = <<pending[k], out[k]>>
        PROVE  written'[i][1].cap < pending'[j].cap
    <3>1. k < Len(out) + j
      BY <1>1
    <3> QED BY <1>5, <1>6, <1>7, <2>2, <3>1
  <2> QED BY <1>4, <2>1, <2>2
<1>13. ASSUME NEW i \in 1 .. Len(written')
       PROVE  \/ \E k \in 1 .. Len(written) : written'[i][1].cap = written[k][1].cap
              \/ \E k \in 1 .. Len(pending) : written'[i][1].cap = pending[k].cap
  <2>1. CASE i \in 1 .. Len(written) /\ written'[i] = written[i]
    BY <2>1
  <2>2. ASSUME NEW k \in 1 .. Len(out), written'[i] = <<pending[k], out[k]>>
        PROVE  written'[i][1].cap = pending[k].cap /\ k \in 1 .. Len(pending)
    BY <1>6, <2>2
  <2> QED BY <1>4, <2>1, <2>2
<1>14. \A i \in 1 .. Len(pending') : \E k \in 1 .. Len(pending) : pending'[i].cap = pending[k].cap
  BY <1>5
<1> QED BY <1>8, <1>9, <1>10, <1>11, <1>12, <1>13, <1>14

LEMMA DrainTypes ==
  ASSUME PipeInv, Drain
  PROVE  /\ free' \in 0 .. Buffers /\ done' = 0 /\ free' = free + done
         /\ free' + Len(raw) + done' + lost = Buffers
<1>1. /\ free \in 0 .. Buffers /\ done \in Nat /\ lost \in Nat /\ raw \in Seq(Pictures)
      /\ free + Len(raw) + done + lost = Buffers
  BY DEF PipeInv, PipeTypeOK
<1>2. Len(raw) \in Nat
  BY <1>1
<1>3. free' = free + done /\ done' = 0
  BY DEF Drain
<1> QED BY <1>1, <1>2, <1>3, PipeConstants

(* All recorded frames and all that wait were captured before the one that *)
(* recordd took last.                                                      *)
LEMMA DrainedEarlier ==
  ASSUME PipeInv, Drain, UNCHANGED <<raw, lost, modelled>>
  PROVE  /\ \A i \in 1 .. Len(written') : Latest(written'[i][1].cap)
         /\ \A i \in 1 .. Len(pending') : Latest(pending'[i].cap)
<1>1. /\ \A i \in 1 .. Len(written) : Latest(written[i][1].cap)
      /\ \A i \in 1 .. Len(pending) : Latest(pending[i].cap)
  BY DEF PipeInv, WaitInOrder
<1>2. ASSUME NEW i \in 1 .. Len(written')
      PROVE  Latest(written'[i][1].cap)
  <2>1. \/ \E k \in 1 .. Len(written) : written'[i][1].cap = written[k][1].cap
        \/ \E k \in 1 .. Len(pending) : written'[i][1].cap = pending[k].cap
    BY DrainKeeps
  <2> QED BY <1>1, <2>1
<1>3. ASSUME NEW i \in 1 .. Len(pending')
      PROVE  Latest(pending'[i].cap)
  <2>1. \E k \in 1 .. Len(pending) : pending'[i].cap = pending[k].cap
    BY DrainKeeps
  <2> QED BY <1>1, <2>1
<1> QED BY <1>2, <1>3

LEMMA RecordDrainStep == PipeInv /\ RecordDrain => PipeInv'
<1> SUFFICES ASSUME PipeInv, RecordDrain PROVE PipeInv'
  OBVIOUS
<1>1. /\ UNCHANGED <<ring, cam, cap, run, road, rec, reader, seen, modelled, raw, streaming, lost>>
      /\ Drain /\ reader["recordd"].pc = "idle"
  BY DEF RecordDrain, camera
<1>2. /\ PairsAreKept' /\ RecordedAsModelled' /\ RecordedInOrder'
      /\ \A i, j \in 1 .. Len(pending') : i < j => pending'[i].cap < pending'[j].cap
      /\ \A i \in 1 .. Len(written'), j \in 1 .. Len(pending') : written'[i][1].cap < pending'[j].cap
      /\ \A i \in 1 .. Len(written') : Latest(written'[i][1].cap)
      /\ \A i \in 1 .. Len(pending') : Latest(pending'[i].cap)
  BY <1>1, DrainKeeps, DrainedEarlier
<1>3. WaitInOrder'
  BY <1>1, <1>2 DEF WaitInOrder, Latest
<1>4. PipeTypeOK'
  <2>1. written' \in Seq(Frames \X Pictures) /\ pending' \in Seq(Frames) /\ out' = <<>>
    BY <1>1, DrainMoves
  <2>2. out' \in Seq(Pictures)
    BY <2>1
  <2>3. free' \in 0 .. Buffers /\ done' \in Nat /\ free' + Len(raw') + done' + lost' = Buffers
    BY <1>1, DrainTypes
  <2> QED BY <1>1, <2>1, <2>2, <2>3 DEF PipeInv, PipeTypeOK
<1>5. SelectedIsModelled'
  BY <1>1 DEF PipeInv, SelectedIsModelled, WasModelled
<1>6. RingIsWritten' /\ FramesStand' /\ CopiesHold' /\ FlowsInOrder' /\ CopiedPictureIsWhole'
  BY <1>1 DEF PipeInv, RingIsWritten, FramesStand, Stands, CopiesHold, CopyHolds, FlowsInOrder,
     CopiedPictureIsWhole
<1> QED BY <1>2, <1>3, <1>4, <1>5, <1>6 DEF PipeInv

LEMMA RecordTakeStep == PipeInv /\ RecordTake => PipeInv'
<1> SUFFICES ASSUME PipeInv, RecordTake PROVE PipeInv'
  OBVIOUS
<1>1. PipeTypeOK /\ FlowsInOrder /\ FramesStand /\ SelectedIsModelled
  BY DEF PipeInv
<1>2. /\ "modeld" \in Readers /\ "recordd" \in Readers /\ rec.frame \in Frames
      /\ seen \in [Readers -> Nat] /\ rec.n \in Nat
  BY <1>1, PipeFields DEF Readers, PipeTypeOK
<1>3. /\ UNCHANGED <<ring, cam, cap, run, road, rec, modelled>>
      /\ seen' = [seen EXCEPT !["recordd"] = rec.n] /\ rec.n # seen["recordd"]
      /\ reader["recordd"].pc = "idle"
  BY DEF RecordTake, camera
<1>4. seen' \in [Readers -> Nat] /\ seen'["recordd"] = rec.n /\ seen'["modeld"] = seen["modeld"]
  BY <1>2, <1>3
<1>5. reader["recordd"].frame.cap < rec.frame.cap
  BY <1>1, <1>3 DEF FlowsInOrder
<1>6. /\ reader["recordd"].frame.cap \in Nat /\ rec.frame.cap \in Nat
      /\ reader["recordd"].frame.cap <= rec.frame.cap /\ rec.frame.cap <= rec.frame.cap
      /\ rec.n <= rec.n
  <2>1. reader["recordd"].frame.cap \in Nat /\ rec.frame.cap \in Nat
    BY <1>1, <1>2, PipeFields
  <2> QED BY <1>2, <1>5, <2>1
<1>7. CASE UNCHANGED <<reader, encoder>>
  <2>1. UNCHANGED <<free, raw, done, pending, out, streaming, lost, written, reader>>
    BY <1>7 DEF encoder
  <2>2. PipeTypeOK'
    BY <1>1, <1>3, <1>4, <2>1 DEF PipeTypeOK
  <2>3. FlowsInOrder'
    BY <1>1, <1>3, <1>4, <1>6, <2>1 DEF FlowsInOrder
  <2>4. RingIsWritten' /\ FramesStand' /\ CopiesHold' /\ CopiedPictureIsWhole'
    BY <1>3, <2>1 DEF PipeInv, RingIsWritten, FramesStand, Stands, CopiesHold, CopyHolds,
       CopiedPictureIsWhole
  <2>5. SelectedIsModelled' /\ WaitInOrder' /\ PairsAreKept' /\ RecordedAsModelled' /\ RecordedInOrder'
    BY <1>3, <1>7, <2>1, EncoderStays
  <2> QED BY <2>2, <2>3, <2>4, <2>5 DEF PipeInv
<1>8. ASSUME rec.frame.run = run, Drain, UNCHANGED <<raw, streaming, lost>>,
             reader' = IF free' = 0 THEN reader
                       ELSE [reader EXCEPT !["recordd"] = Copying(rec.frame)]
      PROVE  PipeInv'
  <2>1. /\ PairsAreKept' /\ RecordedAsModelled' /\ RecordedInOrder'
        /\ \A i, j \in 1 .. Len(pending') : i < j => pending'[i].cap < pending'[j].cap
        /\ \A i \in 1 .. Len(written'), j \in 1 .. Len(pending') : written'[i][1].cap < pending'[j].cap
        /\ \A i \in 1 .. Len(written') : Latest(written'[i][1].cap)
        /\ \A i \in 1 .. Len(pending') : Latest(pending'[i].cap)
    BY <1>3, <1>8, DrainKeeps, DrainedEarlier
  <2>2. /\ written' \in Seq(Frames \X Pictures) /\ pending' \in Seq(Frames) /\ out' = <<>>
        /\ out' \in Seq(Pictures)
        /\ free' \in 0 .. Buffers /\ done' \in Nat /\ free' + Len(raw') + done' + lost' = Buffers
    <3>1. written' \in Seq(Frames \X Pictures) /\ pending' \in Seq(Frames) /\ out' = <<>>
      BY <1>8, DrainMoves
    <3>2. out' \in Seq(Pictures)
      BY <3>1
    <3> QED BY <1>8, <3>1, <3>2, DrainTypes
  <2>3. CASE free' = 0
    <3>1. reader' = reader
      BY <1>8, <2>3
    <3>2. PipeTypeOK'
      BY <1>1, <1>3, <1>4, <1>8, <2>2, <3>1 DEF PipeTypeOK
    <3>3. FlowsInOrder'
      BY <1>1, <1>3, <1>4, <1>6, <3>1 DEF FlowsInOrder
    <3>4. RingIsWritten' /\ FramesStand' /\ CopiesHold' /\ CopiedPictureIsWhole'
      BY <1>3, <3>1 DEF PipeInv, RingIsWritten, FramesStand, Stands, CopiesHold, CopyHolds,
         CopiedPictureIsWhole
    <3>5. WaitInOrder'
      BY <2>1, <3>1 DEF WaitInOrder, Latest
    <3>6. SelectedIsModelled'
      BY <1>1, <1>3, <3>1 DEF SelectedIsModelled, WasModelled
    <3> QED BY <2>1, <3>2, <3>3, <3>4, <3>5, <3>6 DEF PipeInv
  <2>4. CASE free' # 0
    <3>1. PICK r \in Copies : r = Copying(rec.frame) /\ r.frame = rec.frame /\ r.pc = "load"
                              /\ CopyHolds(r) /\ WholeCopy(r)
      BY <1>2, CopyingIs
    <3>2. reader' = [reader EXCEPT !["recordd"] = r]
      BY <1>8, <2>4, <3>1
    <3>3. /\ RingIsWritten' /\ FramesStand' /\ CopiesHold' /\ CopiedPictureIsWhole'
          /\ reader' \in [Readers -> Copies] /\ reader'["recordd"] = r
          /\ reader'["modeld"] = reader["modeld"]
      <4>1. Stands(r.frame)
        BY <1>1, <3>1 DEF FramesStand
      <4> QED BY <1>2, <1>3, <3>1, <3>2, <4>1, ReaderMoves
    <3>4. PipeTypeOK'
      BY <1>1, <1>3, <1>4, <1>8, <2>2, <3>3 DEF PipeTypeOK
    <3>5. FlowsInOrder'
      BY <1>1, <1>3, <1>4, <1>6, <3>1, <3>3 DEF FlowsInOrder
    <3>6. SelectedIsModelled'
      <4>1. free' > 0
        BY <2>2, <2>4
      <4> QED BY <1>1, <1>3, <1>8, <3>1, <3>3, <4>1 DEF SelectedIsModelled, WasModelled
    <3>7. WaitInOrder'
      <4>1. ASSUME NEW c \in Nat, Latest(c)
            PROVE  c <= rec.frame.cap /\ c < rec.frame.cap
        BY <1>5, <1>6, <4>1 DEF Latest
      <4>2. ASSUME NEW i \in 1 .. Len(written')
            PROVE  written'[i][1].cap <= rec.frame.cap /\ written'[i][1].cap < rec.frame.cap
        <5>1. written'[i] \in Frames \X Pictures
          BY <2>2
        <5>2. written'[i][1] \in Frames
          BY <5>1
        <5>3. written'[i][1].cap \in Nat
          BY <5>2 DEF Frames
        <5> QED BY <2>1, <4>1, <5>3
      <4>3. ASSUME NEW i \in 1 .. Len(pending')
            PROVE  pending'[i].cap <= rec.frame.cap /\ pending'[i].cap < rec.frame.cap
        <5>1. pending'[i] \in Frames
          BY <2>2
        <5>2. pending'[i].cap \in Nat
          BY <5>1 DEF Frames
        <5> QED BY <2>1, <4>1, <5>2
      <4>4. reader'["recordd"].frame.cap = rec.frame.cap
        BY <3>1, <3>3
      <4> QED BY <2>1, <4>2, <4>3, <4>4 DEF WaitInOrder, Latest
    <3> QED BY <2>1, <3>3, <3>4, <3>5, <3>6, <3>7 DEF PipeInv
  <2> QED BY <2>3, <2>4
<1> QED BY <1>7, <1>8 DEF RecordTake

LEMMA BuffersAddUp ==
  ASSUME NEW here \in 0 .. Buffers, here > 0, NEW queued \in Nat, NEW coded \in Nat, NEW gone \in Nat,
         here + queued + coded + gone = Buffers
  PROVE  here - 1 \in 0 .. Buffers /\ (here - 1) + (queued + 1) + coded + gone = Buffers
BY PipeConstants

(* What submit_frame() leaves in the encoder, the stream started or not.   *)
LEMMA SubmitMoves ==
  ASSUME PipeInv, NEW f \in Frames, NEW buf \in Pictures, <<f, buf>> \in modelled, free > 0,
         \A i \in 1 .. Len(pending) : pending[i].cap < f.cap,
         \A i \in 1 .. Len(written) : written[i][1].cap < f.cap,
         pending' = Append(pending, f), free' = free - 1,
         \/ raw' = Append(raw, buf) /\ lost' = lost
         \/ raw' = <<>> /\ lost' = lost + Len(Append(raw, buf)),
         UNCHANGED <<done, out, written, modelled>>
  PROVE  /\ pending' \in Seq(Frames) /\ raw' \in Seq(Pictures) /\ free' \in 0 .. Buffers /\ lost' \in Nat
         /\ free' + Len(raw') + done' + lost' = Buffers
         /\ PairsAreKept' /\ RecordedAsModelled'
         /\ \A i, j \in 1 .. Len(pending') : i < j => pending'[i].cap < pending'[j].cap
         /\ \A i \in 1 .. Len(written), j \in 1 .. Len(pending') : written[i][1].cap < pending'[j].cap
         /\ \A i \in 1 .. Len(pending') : pending'[i].cap <= f.cap
<1>1. PipeTypeOK /\ PairsAreKept /\ WaitInOrder /\ RecordedAsModelled
  BY DEF PipeInv
<1>2. /\ pending \in Seq(Frames) /\ raw \in Seq(Pictures) /\ out \in Seq(Pictures)
      /\ free \in 0 .. Buffers /\ done \in Nat /\ lost \in Nat
      /\ free + Len(raw) + done + lost = Buffers
  BY <1>1 DEF PipeTypeOK
<1>3. Len(pending) \in Nat /\ Len(raw) \in Nat /\ Len(out) \in Nat
  BY <1>2
<1>4. /\ pending' \in Seq(Frames) /\ Len(pending') = Len(pending) + 1
      /\ \A i \in 1 .. Len(pending) : pending'[i] = pending[i]
      /\ pending'[Len(pending) + 1] = f
  BY <1>2, AppendProperties
<1>5. /\ Append(raw, buf) \in Seq(Pictures) /\ Len(Append(raw, buf)) = Len(raw) + 1
      /\ \A i \in 1 .. Len(raw) : Append(raw, buf)[i] = raw[i]
      /\ Append(raw, buf)[Len(raw) + 1] = buf
  BY <1>2, AppendProperties
<1>6. \A i \in 1 .. Len(pending') : i \in 1 .. Len(pending) \/ i = Len(pending) + 1
  BY <1>3, <1>4
<1>7. f.cap \in Nat /\ \A i \in 1 .. Len(pending) : pending[i].cap \in Nat
  <2>1. \A i \in 1 .. Len(pending) : pending[i] \in Frames
    BY <1>2
  <2> QED BY <2>1 DEF Frames
<1>8. \A i \in 1 .. Len(pending') : pending'[i].cap <= f.cap
  BY <1>4, <1>6, <1>7
<1>9. ASSUME NEW i \in 1 .. Len(pending'), NEW j \in 1 .. Len(pending'), i < j
      PROVE  pending'[i].cap < pending'[j].cap
  <2>1. i \in 1 .. Len(pending)
    BY <1>3, <1>4, <1>9
  <2>2. CASE j \in 1 .. Len(pending)
    BY <1>1, <1>4, <1>9, <2>1, <2>2 DEF WaitInOrder
  <2>3. CASE j = Len(pending) + 1
    BY <1>4, <2>1, <2>3
  <2> QED BY <1>6, <2>2, <2>3
<1>10. ASSUME NEW i \in 1 .. Len(written), NEW j \in 1 .. Len(pending')
       PROVE  written[i][1].cap < pending'[j].cap
  <2>1. CASE j \in 1 .. Len(pending)
    BY <1>1, <1>4, <2>1 DEF WaitInOrder
  <2>2. CASE j = Len(pending) + 1
    BY <1>4, <2>2
  <2> QED BY <1>6, <2>1, <2>2
<1>11. CASE raw' = Append(raw, buf) /\ lost' = lost
  <2>1. raw' \in Seq(Pictures) /\ Len(raw') = Len(raw) + 1 /\ lost' \in Nat
    BY <1>2, <1>5, <1>11
  <2>2. free' \in 0 .. Buffers /\ free' + Len(raw') + done' + lost' = Buffers
    <3>1. free' = free - 1 /\ free > 0 /\ done' = done /\ lost' = lost
      BY <1>11
    <3>2. free - 1 \in 0 .. Buffers /\ (free - 1) + (Len(raw) + 1) + done + lost = Buffers
      BY <1>2, <1>3, BuffersAddUp
    <3> QED BY <2>1, <3>1, <3>2, Zenon
  <2>3. Len(pending') = Len(out') + Len(raw') + lost'
    BY <1>1, <1>2, <1>3, <1>4, <1>11, <2>1 DEF PairsAreKept
  <2>4. lost = 0 => Len(pending) = Len(out) + Len(raw)
    BY <1>1, <1>3 DEF PairsAreKept
  <2>5. ASSUME lost' = 0, NEW i \in 1 .. Len(out')
        PROVE  <<pending'[i], out'[i]>> \in modelled'
    <3>1. i \in 1 .. Len(pending) /\ i \in 1 .. Len(out)
      BY <1>3, <1>11, <2>4, <2>5
    <3>2. <<pending[i], out[i]>> \in modelled
      BY <1>1, <1>11, <2>5, <3>1 DEF PairsAreKept
    <3> QED BY <1>4, <3>1, <3>2
  <2>6. ASSUME lost' = 0, NEW i \in 1 .. Len(raw')
        PROVE  <<pending'[Len(out') + i], raw'[i]>> \in modelled'
    <3>1. CASE i \in 1 .. Len(raw)
      <4>1. Len(out) + i \in 1 .. Len(pending)
        BY <1>3, <1>11, <2>4, <2>6, <3>1
      <4>2. <<pending[Len(out) + i], raw[i]>> \in modelled
        BY <1>1, <1>11, <2>6, <3>1 DEF PairsAreKept
      <4> QED BY <1>4, <1>5, <1>11, <3>1, <4>1, <4>2
    <3>2. CASE i = Len(raw) + 1
      <4>1. Len(out) + i = Len(pending) + 1
        BY <1>3, <1>11, <2>4, <2>6, <3>2
      <4>2. raw'[i] = buf /\ pending'[Len(out') + i] = f
        BY <1>4, <1>5, <1>11, <3>2, <4>1
      <4> QED BY <4>2
    <3>3. i \in 1 .. Len(raw) \/ i = Len(raw) + 1
      <4>1. i \in 1 .. Len(raw) + 1
        BY <2>1
      <4> QED BY <1>3, <4>1
    <3> QED BY <3>1, <3>2, <3>3
  <2>7. PairsAreKept'
    BY <2>3, <2>5, <2>6 DEF PairsAreKept
  <2>8. RecordedAsModelled'
    BY <1>1, <1>11 DEF RecordedAsModelled
  <2> QED BY <1>4, <1>8, <1>9, <1>10, <2>1, <2>2, <2>7, <2>8
<1>12. CASE raw' = <<>> /\ lost' = lost + Len(Append(raw, buf))
  <2>1. raw' \in Seq(Pictures) /\ Len(raw') = 0 /\ lost' = lost + Len(raw) + 1 /\ lost' \in Nat /\ lost' # 0
    BY <1>2, <1>3, <1>5, <1>12
  <2>2. free' \in 0 .. Buffers /\ free' + Len(raw') + done' + lost' = Buffers
    <3>1. free' = free - 1 /\ free > 0 /\ done' = done
      OBVIOUS
    <3> QED BY <1>2, <1>3, <2>1, <3>1, PipeConstants, SMTT(30)
  <2>3. Len(pending') = Len(out') + Len(raw') + lost'
    BY <1>1, <1>2, <1>3, <1>4, <2>1 DEF PairsAreKept
  <2>4. PairsAreKept' /\ RecordedAsModelled'
    BY <2>1, <2>3 DEF PairsAreKept, RecordedAsModelled
  <2> QED BY <1>4, <1>8, <1>9, <1>10, <2>1, <2>2, <2>4
<1> QED BY <1>11, <1>12

LEMMA RecordSubmitStep == PipeInv /\ RecordSubmit => PipeInv'
<1> SUFFICES ASSUME PipeInv, RecordSubmit PROVE PipeInv'
  OBVIOUS
<1>1. /\ PipeTypeOK /\ FlowsInOrder /\ FramesStand /\ SelectedIsModelled /\ CopiedPictureIsWhole
      /\ WaitInOrder
  BY DEF PipeInv
<1>2. "modeld" \in Readers /\ "recordd" \in Readers
  BY DEF Readers
<1>3. /\ UNCHANGED <<ring, cam, cap, run, road, rec, seen, modelled, done, out, written>>
      /\ reader["recordd"].pc = "copied" /\ reader' = [reader EXCEPT !["recordd"] = Idle("recordd")]
  BY DEF RecordSubmit, Submit, Goes, camera
<1>4. PICK f \in Frames : f = reader["recordd"].frame
  BY <1>1, <1>2, PipeFields
<1>5. PICK buf \in Pictures : buf = reader["recordd"].buf
  BY <1>1, <1>2, PipeFields
<1>6. <<f, buf>> \in modelled /\ free > 0
  <2>1. f.run = run /\ <<f, PictureOf(f.cap)>> \in modelled /\ free > 0
    BY <1>1, <1>3, <1>4 DEF SelectedIsModelled, WasModelled
  <2>2. buf = PictureOf(f.cap)
    BY <1>1, <1>2, <1>3, <1>4, <1>5, <2>1 DEF CopiedPictureIsWhole
  <2> QED BY <2>1, <2>2
<1>7. PICK r \in Copies : r = Idle("recordd") /\ r.frame = f /\ r.pc = "idle"
                          /\ CopyHolds(r) /\ WholeCopy(r)
  BY <1>1, <1>2, <1>4, IdleIs
<1>8. /\ RingIsWritten' /\ FramesStand' /\ CopiesHold' /\ CopiedPictureIsWhole'
      /\ reader' \in [Readers -> Copies] /\ reader'["recordd"] = r
      /\ reader'["modeld"] = reader["modeld"]
  <2>1. Stands(r.frame)
    BY <1>1, <1>2, <1>4, <1>7 DEF FramesStand
  <2> QED BY <1>2, <1>3, <1>7, <2>1, ReaderMoves
<1>9. /\ \A i \in 1 .. Len(pending) : pending[i].cap < f.cap
      /\ \A i \in 1 .. Len(written) : written[i][1].cap < f.cap
      /\ \A i \in 1 .. Len(pending) : pending[i].cap <= f.cap
      /\ \A i \in 1 .. Len(written) : written[i][1].cap <= f.cap
  BY <1>1, <1>3, <1>4 DEF WaitInOrder, Latest
<1>10. FlowsInOrder' /\ RecordedInOrder' /\ SelectedIsModelled'
  <2>1. FlowsInOrder'
    BY <1>1, <1>3, <1>4, <1>7, <1>8 DEF FlowsInOrder
  <2>2. RecordedInOrder'
    BY <1>3 DEF PipeInv, RecordedInOrder
  <2>3. SelectedIsModelled'
    BY <1>1, <1>3, <1>7, <1>8 DEF SelectedIsModelled, WasModelled
  <2> QED BY <2>1, <2>2, <2>3
<1>11. PICK queued \in BOOLEAN, start \in {"ok", "raw refused", "encoded refused"} :
         Submit(queued, start)
  BY DEF RecordSubmit
<1>12. CASE queued
  <2>1. /\ pending' = Append(pending, f) /\ free' = free - 1 /\ streaming' \in BOOLEAN
        /\ \/ raw' = Append(raw, buf) /\ lost' = lost
           \/ raw' = <<>> /\ lost' = lost + Len(Append(raw, buf))
    <3>1. pending' = Append(pending, f) /\ free' = free - 1 /\ StartStreaming(start, Append(raw, buf))
      BY <1>4, <1>5, <1>11, <1>12 DEF Submit
    <3> QED BY <3>1 DEF StartStreaming
  <2>2. /\ pending' \in Seq(Frames) /\ raw' \in Seq(Pictures) /\ free' \in 0 .. Buffers /\ lost' \in Nat
        /\ free' + Len(raw') + done' + lost' = Buffers
        /\ PairsAreKept' /\ RecordedAsModelled'
        /\ \A i, j \in 1 .. Len(pending') : i < j => pending'[i].cap < pending'[j].cap
        /\ \A i \in 1 .. Len(written), j \in 1 .. Len(pending') : written[i][1].cap < pending'[j].cap
        /\ \A i \in 1 .. Len(pending') : pending'[i].cap <= f.cap
    BY <1>3, <1>6, <1>9, <2>1, SubmitMoves
  <2>3. PipeTypeOK'
    BY <1>1, <1>3, <1>8, <2>1, <2>2 DEF PipeTypeOK
  <2>4. WaitInOrder'
    BY <1>3, <1>7, <1>8, <1>9, <2>2 DEF WaitInOrder, Latest
  <2> QED BY <1>8, <1>10, <2>2, <2>3, <2>4 DEF PipeInv
<1>13. CASE ~queued
  <2>1. UNCHANGED <<raw, pending, free, streaming, lost>>
    BY <1>11, <1>13 DEF Submit
  <2>2. PipeTypeOK'
    BY <1>1, <1>3, <1>8, <2>1 DEF PipeTypeOK
  <2>3. WaitInOrder'
    BY <1>1, <1>3, <1>7, <1>8, <1>9, <2>1 DEF WaitInOrder, Latest
  <2>4. PairsAreKept' /\ RecordedAsModelled'
    BY <1>3, <2>1 DEF PipeInv, PairsAreKept, RecordedAsModelled
  <2> QED BY <1>8, <1>10, <2>2, <2>3, <2>4 DEF PipeInv
<1> QED BY <1>12, <1>13

LEMMA EncodeStep == PipeInv /\ Encode => PipeInv'
<1> SUFFICES ASSUME PipeInv, Encode PROVE PipeInv'
  OBVIOUS
<1>1. PipeTypeOK /\ PairsAreKept
  BY DEF PipeInv
<1>2. /\ UNCHANGED <<ring, cam, cap, run, road, rec, reader, seen, modelled, free, pending,
                     streaming, lost, written>>
      /\ raw # <<>> /\ raw' = Tail(raw) /\ out' = Append(out, Head(raw)) /\ done' = done + 1
  BY DEF Encode, camera
<1>3. /\ pending \in Seq(Frames) /\ raw \in Seq(Pictures) /\ out \in Seq(Pictures)
      /\ free \in 0 .. Buffers /\ done \in Nat /\ lost \in Nat
      /\ free + Len(raw) + done + lost = Buffers
  BY <1>1 DEF PipeTypeOK
<1>4. Len(pending) \in Nat /\ Len(raw) \in Nat /\ Len(out) \in Nat /\ Len(raw) >= 1
  BY <1>2, <1>3
<1>5. /\ Head(raw) \in Pictures /\ Tail(raw) \in Seq(Pictures) /\ Len(Tail(raw)) = Len(raw) - 1
      /\ \A i \in 1 .. Len(raw) - 1 : Tail(raw)[i] = raw[i + 1]
  BY <1>2, <1>3, HeadTailProperties
<1>6. Head(raw) = raw[1]
  BY <1>2, <1>3
<1>7. /\ out' \in Seq(Pictures) /\ Len(out') = Len(out) + 1
      /\ \A i \in 1 .. Len(out) : out'[i] = out[i]
      /\ out'[Len(out) + 1] = raw[1]
  BY <1>2, <1>3, <1>5, <1>6, AppendProperties
<1>8. PipeTypeOK'
  <2>1. raw' \in Seq(Pictures) /\ done' \in Nat /\ free' + Len(raw') + done' + lost' = Buffers
    BY <1>2, <1>3, <1>4, <1>5
  <2> QED BY <1>1, <1>2, <1>7, <2>1 DEF PipeTypeOK
<1>9. PairsAreKept'
  <2>1. Len(pending') = Len(out') + Len(raw') + lost'
    <3>1. Len(pending) = Len(out) + Len(raw) + lost
      BY <1>1 DEF PairsAreKept
    <3>2. Len(pending') = Len(pending) /\ Len(out') = Len(out) + 1 /\ Len(raw') = Len(raw) - 1 /\ lost' = lost
      BY <1>2, <1>5, <1>7
    <3> QED BY <1>3, <1>4, <3>1, <3>2
  <2>2. ASSUME lost' = 0, NEW i \in 1 .. Len(out')
        PROVE  <<pending'[i], out'[i]>> \in modelled'
    <3>1. CASE i \in 1 .. Len(out)
      BY <1>1, <1>2, <1>7, <2>2, <3>1 DEF PairsAreKept
    <3>2. CASE i = Len(out) + 1
      <4>1. 1 \in 1 .. Len(raw)
        BY <1>4
      <4>2. <<pending[Len(out) + 1], raw[1]>> \in modelled
        BY <1>1, <1>2, <2>2, <4>1 DEF PairsAreKept
      <4> QED BY <1>2, <1>7, <3>2, <4>2
    <3> QED BY <1>4, <1>7, <3>1, <3>2
  <2>3. ASSUME lost' = 0, NEW i \in 1 .. Len(raw')
        PROVE  <<pending'[Len(out') + i], raw'[i]>> \in modelled'
    <3>1. i \in 1 .. Len(raw) - 1 /\ i + 1 \in 1 .. Len(raw) /\ Len(out') + i = Len(out) + (i + 1)
      BY <1>2, <1>4, <1>5, <1>7
    <3>2. <<pending[Len(out) + (i + 1)], raw[i + 1]>> \in modelled
      BY <1>1, <1>2, <2>3, <3>1 DEF PairsAreKept
    <3> QED BY <1>2, <1>5, <3>1, <3>2
  <2> QED BY <2>1, <2>2, <2>3 DEF PairsAreKept
<1>10. RingIsWritten' /\ FramesStand' /\ CopiesHold' /\ FlowsInOrder' /\ CopiedPictureIsWhole'
  BY <1>2 DEF PipeInv, RingIsWritten, FramesStand, Stands, CopiesHold, CopyHolds, FlowsInOrder,
     CopiedPictureIsWhole
<1>11. SelectedIsModelled' /\ WaitInOrder' /\ RecordedAsModelled' /\ RecordedInOrder'
  BY <1>2 DEF PipeInv, SelectedIsModelled, WasModelled, WaitInOrder, Latest, RecordedAsModelled,
     RecordedInOrder
<1> QED BY <1>8, <1>9, <1>10, <1>11 DEF PipeInv

LEMMA PipeStep == PipeInv /\ [PipeNext]_pipeVars => PipeInv'
<1> SUFFICES ASSUME PipeInv, [PipeNext]_pipeVars PROVE PipeInv'
  OBVIOUS
<1>1. CASE UNCHANGED pipeVars
  <2>1. UNCHANGED <<ring, cam, cap, run, road, rec, reader, seen, modelled, free, raw, done,
                    pending, out, streaming, lost, written>>
    BY <1>1 DEF pipeVars, camera, encoder
  <2>2. PipeTypeOK' /\ RingIsWritten' /\ FlowsInOrder' /\ CopiedPictureIsWhole'
    BY <2>1 DEF PipeInv, PipeTypeOK, RingIsWritten, FlowsInOrder, CopiedPictureIsWhole
  <2>3. FramesStand' /\ CopiesHold'
    BY <2>1 DEF PipeInv, FramesStand, Stands, CopiesHold, CopyHolds
  <2>4. SelectedIsModelled' /\ WaitInOrder' /\ PairsAreKept' /\ RecordedAsModelled' /\ RecordedInOrder'
    BY <2>1 DEF PipeInv, SelectedIsModelled, WasModelled, WaitInOrder, Latest, PairsAreKept,
       RecordedAsModelled, RecordedInOrder
  <2> QED BY <2>2, <2>3, <2>4 DEF PipeInv
<1>2. CASE Write
  BY <1>2, WriteStep, PublishStep DEF Write
<1>3. CASE CameraRestart
  BY <1>3, CameraRestartStep
<1>4. CASE Model
  BY <1>4, CopyStep, ModelTakeStep, SkipStep, ModelRunStep DEF Model, Readers
<1>5. CASE Record
  BY <1>5, CopyStep, RecordTakeStep, SkipStep, RecordSubmitStep, RecordDrainStep DEF Record, Readers
<1>6. CASE Encode
  BY <1>6, EncodeStep
<1> QED BY <1>1, <1>2, <1>3, <1>4, <1>5, <1>6 DEF PipeNext

(* For every ring and encoder, however often camerad restarts: a copied     *)
(* picture is whole, what is recorded is what the model saw, in order.     *)
THEOREM PicturesAreKept ==
  PipeSpec => [](CopiedPictureIsWhole /\ RecordedAsModelled /\ RecordedInOrder)
<1>1. PipeInv => CopiedPictureIsWhole /\ RecordedAsModelled /\ RecordedInOrder
  BY DEF PipeInv
<1> QED BY <1>1, PipeInitially, PipeStep, PTL DEF PipeSpec

-----------------------------------------------------------------------------
(* The path of the plan (LanePlan): a lane is read at the time at which the*)
(* plan passes the point, and a point is passed at its own time.           *)

(* Every set of natural numbers has a least member.                        *)
LEMMA LeastMember ==
  ASSUME NEW T \in SUBSET Nat, T # {}
  PROVE  \E m \in T : \A k \in T : m <= k
<1> DEFINE Smaller == {p \in Nat \X Nat : p[1] < p[2]}
<1>1. IsWellFoundedOn(Smaller, Nat)
  BY NatLessThanWellFounded DEF OpToRel
<1>2. \A a, b \in Nat : a < b => <<a, b>> \in Smaller
  OBVIOUS
<1> HIDE DEF Smaller
<1>3. \E m \in T : \A k \in T : ~(<<k, m>> \in Smaller)
  BY <1>1, WFMin
<1>4. \A a, b \in Nat : ~(a < b) => b <= a
  OBVIOUS
<1>5. \A a \in T : a \in Nat
  OBVIOUS
<1> QED BY <1>2, <1>3, <1>4, <1>5

LEMMA GridGrows ==
  ASSUME NEW i \in Nat, NEW j \in Nat
  PROVE  /\ Grid(i) \in Nat
         /\ i <= j => Grid(i) <= Grid(j)
         /\ i < j => Grid(i) < Grid(j)
<1>1. \A a, b \in Nat : a * b \in Nat
  OBVIOUS
<1>2. ASSUME i < j PROVE Grid(i) < Grid(j)
  <2>1. PICK d \in Nat : j = i + d /\ d > 0
    BY <1>2, j = i + (j - i), j - i \in Nat, j - i > 0
  <2>2. j * j = i * i + 2 * (i * d) + d * d
    BY <2>1
  <2>3. i * d \in Nat /\ d * d \in Nat /\ d * d > 0 /\ i * i \in Nat
    BY <2>1, <1>1
  <2> QED BY <2>2, <2>3 DEF Grid
<1>3. i * i \in Nat
  BY <1>1
<1> QED BY <1>2, <1>3 DEF Grid

LEMMA Scaled ==
  ASSUME NEW a \in Int, NEW b \in Int, NEW c \in Nat
  PROVE  /\ a * c \in Int /\ (a >= 0 => a * c >= 0)
         /\ a <= b => a * c <= b * c
         /\ a < b /\ c > 0 => a * c < b * c
<1>1. a * c \in Int /\ b * c \in Int /\ (b - a) * c = b * c - a * c
  OBVIOUS
<1>2. a >= 0 => a * c >= 0
  OBVIOUS
<1>3. b - a >= 0 => (b - a) * c >= 0
  OBVIOUS
<1>4. b - a > 0 /\ c > 0 => (b - a) * c > 0
  OBVIOUS
<1> QED BY <1>1, <1>2, <1>3, <1>4

LEMMA Divided ==
  ASSUME NEW a \in Nat, NEW s \in Nat \ {0}
  PROVE  a \div s \in Nat /\ s * (a \div s) <= a /\ a < s * (a \div s) + s
<1> DEFINE q == a \div s
           r == a % s
<1>1. a = s * q + r /\ q \in Int /\ r \in 0 .. s - 1
  OBVIOUS
<1> HIDE DEF q, r
<1>2. s * q \in Int
  BY <1>1
<1>3. q >= 0
  <2>1. ASSUME q <= -1 PROVE FALSE
    <3>1. s * (-1 - q) >= 0
      BY <2>1, <1>1
    <3>2. s * (-1 - q) = - s - s * q
      BY <1>1
    <3> QED BY <3>1, <3>2, <1>1, <1>2
  <2> QED BY <2>1, <1>1
<1>4. q \in Nat /\ s * q <= a /\ a < s * q + s
  BY <1>1, <1>2, <1>3
<1> QED BY <1>4 DEF q

LEMMA DividedGrows ==
  ASSUME NEW a \in Nat, NEW b \in Nat, NEW s \in Nat \ {0}
  PROVE  /\ a <= b => a \div s <= b \div s
         /\ \A c \in Nat : a < s * c => a \div s < c
         /\ \A c \in Nat : a <= s * c => a \div s <= c
         /\ \A c \in Nat : a = s * c => a \div s = c
<1>1. PICK q \in Nat, p \in Nat : /\ q = a \div s /\ p = b \div s
                                 /\ s * q <= a /\ a < s * q + s
                                 /\ s * p <= b /\ b < s * p + s
  BY Divided
<1>2. ASSUME NEW c \in Nat, NEW d \in Nat, c < d PROVE s * c + s <= s * d
  <2>1. s * (d - c - 1) >= 0
    BY <1>2
  <2>2. s * (d - c - 1) = s * d - s * c - s
    OBVIOUS
  <2> QED BY <2>1, <2>2
<1>3. ASSUME a <= b PROVE q <= p
  <2>1. CASE p < q
    BY <2>1, <1>1, <1>2, <1>3, s * p + s <= s * q, s * p \in Nat, s * q \in Nat
  <2> QED BY <2>1
<1>4. ASSUME NEW c \in Nat PROVE /\ a < s * c => q < c
                                 /\ a <= s * c => q <= c
                                 /\ a = s * c => q = c
  <2>1. s * c \in Nat /\ s * q \in Nat
    OBVIOUS
  <2>2. c < q => s * c + s <= s * q
    BY <1>2
  <2>3. c = q => s * c = s * q
    OBVIOUS
  <2>4. q < c => s * q + s <= s * c
    BY <1>2
  <2> QED BY <1>1, <2>1, <2>2, <2>3, <2>4
<1> QED BY <1>1, <1>3, <1>4

LEMMA LaneConstants ==
  /\ LastPoint \in Nat /\ LastPoint > 0 /\ Scale \in Nat /\ Scale > 0
  /\ ProbTop \in Nat /\ ProbTop > 0 /\ ProbStep \in Nat /\ ProbStep > 0
  /\ Distances \subseteq Int /\ Points \subseteq Nat
BY LanePlanAssumption DEF Points

LEMMA ShareBounds ==
  ASSUME NEW c \in Int, NEW d \in Int, NEW span \in Int
  PROVE  /\ Share(c, span) \in 0 .. Scale
         /\ c <= d => Share(c, span) <= Share(d, span)
         /\ span > 0 /\ c < span => Share(c, span) < Scale
<1> USE LaneConstants
<1>1. CASE ~(span > 0)
  BY <1>1 DEF Share
<1>2. CASE span > 0
  <2>1. PICK u \in Nat, v \in Nat :
          /\ u = Clamp(c, 0, span) /\ v = Clamp(d, 0, span) /\ u <= span
          /\ c <= d => u <= v
          /\ c < span => u < span
    BY <1>2 DEF Clamp
  <2>2. span \in Nat \ {0}
    BY <1>2
  <2>3. PICK x \in Nat, y \in Nat : x = u * Scale /\ y = v * Scale
    OBVIOUS
  <2>4. x <= span * Scale /\ (u <= v => x <= y) /\ (u < span => x < span * Scale)
    BY <2>1, <2>2, <2>3, Scaled
  <2>5. Share(c, span) = x \div span /\ Share(d, span) = y \div span
    BY <1>2, <2>1, <2>3 DEF Share
  <2>6. x \div span \in Nat
    BY <2>2, Divided
  <2>7. x \div span <= Scale /\ (u <= v => x \div span <= y \div span) /\ (u < span => x \div span < Scale)
    BY <2>2, <2>4, DividedGrows
  <2> QED BY <2>1, <2>5, <2>6, <2>7
<1> QED BY <1>1, <1>2

LEMMA PlanOf ==
  ASSUME plan \in Plans
  PROVE  \A i \in Points : plan[i] \in Int
<1>1. plan \in [Points -> Distances]
  BY DEF Plans
<1> QED BY <1>1, LaneConstants

LEMMA TimeBounds ==
  ASSUME plan \in Plans, NEW t \in Points, t < LastPoint, NEW x \in Int, NEW y \in Int
  PROVE  /\ TimeBetween(t, x) \in Int
         /\ Grid(t) * Scale <= TimeBetween(t, x) /\ TimeBetween(t, x) <= Grid(t + 1) * Scale
         /\ x <= y => TimeBetween(t, x) <= TimeBetween(t, y)
         /\ plan[t] < plan[t + 1] /\ x < plan[t + 1] => TimeBetween(t, x) < Grid(t + 1) * Scale
<1> USE LaneConstants
<1>1. t \in Nat /\ t + 1 \in Points /\ plan[t] \in Int /\ plan[t + 1] \in Int
  <2>1. t \in Nat /\ t + 1 \in Points
    BY DEF Points
  <2> QED BY <2>1, PlanOf
<1>2. PICK g \in Nat, h \in Nat : g = Grid(t) /\ h = Grid(t + 1) /\ g < h
  BY <1>1, GridGrows
<1>3. PICK c \in Int, d \in Int, span \in Int :
        c = x - plan[t] /\ d = y - plan[t] /\ span = plan[t + 1] - plan[t]
  BY <1>1
<1>4. PICK k \in Nat : k = h - g /\ k > 0
  BY <1>2
<1>5. PICK p \in 0 .. Scale, q \in 0 .. Scale :
        /\ p = Share(c, span) /\ q = Share(d, span)
        /\ c <= d => p <= q
        /\ span > 0 /\ c < span => p < Scale
  BY ShareBounds
<1>6. TimeBetween(t, x) = g * Scale + k * p /\ TimeBetween(t, y) = g * Scale + k * q
  BY <1>2, <1>3, <1>4, <1>5 DEF TimeBetween
<1>7. /\ k * p \in Nat /\ k * q \in Nat /\ g * Scale \in Nat /\ h * Scale \in Nat
      /\ k * Scale \in Nat /\ h * Scale = g * Scale + k * Scale
  <2>1. \A a, b \in Nat : a * b \in Nat
    OBVIOUS
  <2>2. h * Scale = g * Scale + k * Scale
    BY <1>4
  <2> QED BY <2>1, <2>2
<1>8. k * p <= k * Scale /\ (p <= q => k * p <= k * q) /\ (p < Scale => k * p < k * Scale)
  <2>1. \A a, b, n \in Nat : a <= b => n * a <= n * b
    <3>1. \A a, b, n \in Nat : a <= b => a * n <= b * n
      BY Scaled
    <3> QED BY <3>1
  <2>2. \A a, b, n \in Nat : a < b /\ n > 0 => n * a < n * b
    <3>1. \A a, b, n \in Nat : a < b /\ n > 0 => a * n < b * n
      BY Scaled
    <3> QED BY <3>1
  <2> QED BY <2>1, <2>2, <1>4
<1> QED BY <1>1, <1>2, <1>3, <1>5, <1>6, <1>7, <1>8

(* The marks of the grid in time. *)
LEMMA MarksGrow ==
  ASSUME NEW i \in Nat, NEW j \in Nat
  PROVE  /\ Grid(i) * Scale \in Nat
         /\ i <= j => Grid(i) * Scale <= Grid(j) * Scale
         /\ i < j => Grid(i) * Scale < Grid(j) * Scale
<1> USE LaneConstants
<1>1. ASSUME NEW a \in Nat, NEW b \in Nat
      PROVE  /\ a * Scale \in Nat
             /\ a <= b => a * Scale <= b * Scale
             /\ a < b => a * Scale < b * Scale
  <2>1. a \in Int /\ b \in Int /\ a >= 0 /\ Scale > 0
    OBVIOUS
  <2>2. a * Scale \in Int /\ a * Scale >= 0
    BY <2>1, Scaled
  <2>3. (a <= b => a * Scale <= b * Scale) /\ (a < b => a * Scale < b * Scale)
    BY <2>1, Scaled
  <2> QED BY <2>2, <2>3
<1> QED BY <1>1, GridGrows, Zenon

LEMMA PlanEmptied ==
  lane_t = NoTimes /\ xidx = 1 /\ tidx = 0 /\ plan \in Plans =>
    /\ lane_t \in [Points -> Times \cup {NaN}] /\ xidx \in 1 .. LastPoint + 1 /\ tidx \in Points
    /\ LaneTimesRise /\ FillingLoop /\ PassesAtItsTime
<1> SUFFICES ASSUME lane_t = NoTimes, xidx = 1, tidx = 0, plan \in Plans
             PROVE  /\ lane_t \in [Points -> Times \cup {NaN}] /\ xidx \in 1 .. LastPoint + 1 /\ tidx \in Points
                    /\ LaneTimesRise /\ FillingLoop /\ PassesAtItsTime
  OBVIOUS
<1> USE LaneConstants
<1>1. 0 \in Points /\ 1 \in Points /\ \A i \in Points : i \in Nat /\ (i = 0 <=> i < 1)
  BY DEF Points
<1>2. 0 \in Times
  BY MarksGrow DEF Times
<1>3. Grid(0) = 0 /\ Grid(1) = 1
  BY DEF Grid
<1>4. \A i \in Points : lane_t[i] = IF i = 0 THEN 0 ELSE NaN
  BY DEF NoTimes
<1>5. lane_t \in [Points -> Times \cup {NaN}]
  BY <1>2 DEF NoTimes
<1>6. LaneTimesRise
  BY <1>1, <1>4 DEF LaneTimesRise, NaN
<1>7. \A i \in Points : plan[i] \in Int
  BY PlanOf
<1>8. lane_t[0] <= TimeBetween(0, 0)
  <2>1. TimeBetween(0, 0) \in Int /\ Grid(0) * Scale <= TimeBetween(0, 0) /\ Grid(0) * Scale \in Nat
    <3>1. 0 \in Points /\ 0 < LastPoint /\ 0 \in Int
      BY <1>1
    <3> QED BY <3>1, TimeBounds, MarksGrow
  <2> QED BY <2>1, <1>1, <1>4
<1>9. FillingLoop
  BY <1>1, <1>3, <1>4, <1>7, <1>8 DEF FillingLoop, NaN
<1>10. PassesAtItsTime
  <2> SUFFICES ASSUME Rises, NEW k \in Points, NEW i \in Points
               PROVE  /\ k \in Timed => /\ plan[i] < Grid(k) => lane_t[k] >= Grid(i) * Scale
                                        /\ plan[i] >= Grid(k) => lane_t[k] <= Grid(i) * Scale
                                        /\ plan[i] > Grid(k) => lane_t[k] < Grid(i) * Scale
                      /\ ~(xidx > LastPoint)
    BY DEF PassesAtItsTime
  <2>1. 0 <= plan[i] /\ plan[0] = 0
    BY <1>1, <1>7 DEF Rises
  <2>2. k \in Timed => k = 0 /\ lane_t[k] = 0
    BY <1>4 DEF Timed, NaN
  <2>3. Grid(i) * Scale \in Nat /\ (i > 0 => Grid(i) * Scale > 0)
    <3>1. Grid(0) * Scale = 0
      BY <1>3
    <3> QED BY <3>1, <1>1, MarksGrow
  <2>4. plan[i] > 0 => i > 0
    BY <2>1, <1>1, <1>7
  <2> QED BY <2>1, <2>2, <2>3, <2>4, <1>1, <1>3, <1>7
<1> QED BY <1>1, <1>5, <1>6, <1>9, <1>10

LEMMA LanePlanInitially == LanePlanInit => FillInv
<1> SUFFICES ASSUME LanePlanInit PROVE FillInv
  OBVIOUS
<1>1. plan \in Plans
  BY LanePlanAssumption, LaneConstants DEF LanePlanInit, Plans, Points
<1>2. likely \in [left : 0 .. ProbTop, right : 0 .. ProbTop]
  BY LaneConstants DEF LanePlanInit
<1> QED BY <1>1, <1>2, PlanEmptied DEF LanePlanInit, FillInv, LanePlanTypeOK

(* What the next time is: not before the last one, and, while the plan does *)
(* not run backwards, when it is at the point of the lane.                  *)
LEMMA NextTime ==
  ASSUME FillInv, xidx <= LastPoint, NEW t \in tidx .. LastPoint, StopsAt(t, Grid(xidx)),
         NEW time, time = IF t = LastPoint THEN Grid(LastPoint) * Scale ELSE TimeBetween(t, Grid(xidx))
  PROVE  /\ time \in Times /\ lane_t[xidx - 1] <= time
         /\ t < LastPoint => time = TimeBetween(t, Grid(xidx))
         /\ plan[0] = 0 => plan[t] < Grid(xidx)
         /\ Rises => \A i \in Points :
              /\ plan[i] < Grid(xidx) => time >= Grid(i) * Scale
              /\ plan[i] >= Grid(xidx) => time <= Grid(i) * Scale
              /\ plan[i] > Grid(xidx) => time < Grid(i) * Scale
              /\ t = LastPoint => plan[i] < Grid(xidx)
<1> USE LaneConstants
<1>1. /\ xidx \in Nat /\ xidx > 0 /\ xidx \in Points /\ xidx - 1 \in Nat /\ xidx - 1 \in Points
      /\ tidx \in Nat /\ tidx < LastPoint /\ tidx \in Points
      /\ t \in Nat /\ t >= tidx /\ t <= LastPoint /\ t \in Points
  BY DEF FillInv, LanePlanTypeOK, FillingLoop, Points
<1>2. plan \in Plans /\ \A i \in Points : plan[i] \in Int
  BY PlanOf DEF FillInv, LanePlanTypeOK
<1>3. PICK x \in Nat, w \in Nat : x = Grid(xidx) /\ w = Grid(xidx - 1) /\ w < x
  BY <1>1, GridGrows
<1>4. plan[0] = 0 => plan[t] < x
  <2>1. CASE t = tidx
    BY <1>3, <2>1, <1>1 DEF FillInv, FillingLoop
  <2>2. CASE t # tidx
    BY <1>1, <1>3, <2>2 DEF StopsAt
  <2> QED BY <2>1, <2>2
<1>5. t < LastPoint => t + 1 \in Points /\ plan[t + 1] >= x
  BY <1>1, <1>3 DEF StopsAt, Points
<1>6. PICK g \in Nat, last \in Nat : g = Grid(t) * Scale /\ last = Grid(LastPoint) * Scale /\ g <= last
  BY <1>1, MarksGrow
<1>7. t < LastPoint => /\ time = TimeBetween(t, x) /\ time \in Int /\ g <= time
                       /\ time <= Grid(t + 1) * Scale
                       /\ plan[t] < plan[t + 1] /\ x < plan[t + 1] => time < Grid(t + 1) * Scale
  <2>1. SUFFICES ASSUME t < LastPoint
                 PROVE  /\ time = TimeBetween(t, x) /\ time \in Int /\ g <= time
                        /\ time <= Grid(t + 1) * Scale
                        /\ plan[t] < plan[t + 1] /\ x < plan[t + 1] => time < Grid(t + 1) * Scale
    OBVIOUS
  <2>2. time = TimeBetween(t, x) /\ x \in Int
    BY <2>1, <1>1, <1>3
  <2>3. /\ TimeBetween(t, x) \in Int
        /\ Grid(t) * Scale <= TimeBetween(t, x) /\ TimeBetween(t, x) <= Grid(t + 1) * Scale
        /\ plan[t] < plan[t + 1] /\ x < plan[t + 1] => TimeBetween(t, x) < Grid(t + 1) * Scale
    BY <2>1, <2>2, <1>1, <1>2, TimeBounds
  <2> QED BY <2>2, <2>3, <1>6, Zenon
<1>8. t = LastPoint => time = g /\ time = last
  BY <1>6
<1>9. time \in Nat /\ g <= time /\ time <= last
  <2>1. t < LastPoint => Grid(t + 1) * Scale \in Nat /\ Grid(t + 1) * Scale <= last
    BY <1>1, <1>6, MarksGrow
  <2> QED BY <1>1, <1>6, <1>7, <1>8, <2>1
<1>10. time \in Times
  BY <1>6, <1>9 DEF Times
<1>11. lane_t[xidx - 1] <= time
  <2>1. PICK before \in Int : before = lane_t[xidx - 1]
    <3>1. lane_t[xidx - 1] \in Times \cup {NaN}
      BY <1>1 DEF FillInv, LanePlanTypeOK
    <3>2. Times \subseteq Int /\ NaN \in Int
      BY DEF Times, NaN
    <3> QED BY <3>1, <3>2
  <2>2. before <= TimeBetween(tidx, w) /\ TimeBetween(tidx, w) \in Int
    BY <1>1, <1>2, <1>3, <2>1, TimeBounds DEF FillInv, FillingLoop
  <2>3. CASE t = tidx
    <3>1. TimeBetween(tidx, w) <= TimeBetween(tidx, x) /\ TimeBetween(tidx, x) \in Int
      <4>1. w \in Int /\ x \in Int /\ w <= x
        BY <1>3
      <4> QED BY <4>1, <1>1, <1>2, TimeBounds
    <3> QED BY <2>1, <2>2, <2>3, <3>1, <1>1, <1>7
  <2>4. CASE t # tidx
    <3>1. TimeBetween(tidx, w) <= Grid(tidx + 1) * Scale
      BY <1>1, <1>2, <1>3, TimeBounds
    <3>2. Grid(tidx + 1) * Scale \in Nat /\ Grid(tidx + 1) * Scale <= g
      BY <1>1, <1>6, <2>4, MarksGrow
    <3> QED BY <2>1, <2>2, <3>1, <3>2, <1>9
  <2> QED BY <2>3, <2>4
<1>12. ASSUME Rises, NEW i \in Points
       PROVE  /\ plan[i] < x => time >= Grid(i) * Scale
              /\ plan[i] >= x => time <= Grid(i) * Scale
              /\ plan[i] > x => time < Grid(i) * Scale
              /\ t = LastPoint => plan[i] < x
  <2>1. i \in Nat /\ i <= LastPoint /\ plan[i] \in Int /\ plan[t] \in Int
    BY <1>1, <1>2 DEF Points
  <2>0. plan[t] < x
    BY <1>4, <1>12 DEF Rises
  <2>2. i <= t => plan[i] < x
    BY <1>1, <2>0, <2>1, <1>12 DEF Rises
  <2>3. i > t => t < LastPoint /\ plan[t + 1] <= plan[i] /\ plan[i] >= x /\ plan[t + 1] \in Int
    BY <1>1, <1>2, <1>5, <2>1, <1>12 DEF Rises
  <2>4. i <= t => Grid(i) * Scale <= g /\ Grid(i) * Scale \in Nat
    BY <1>1, <1>6, <2>1, MarksGrow
  <2>5. i > t => /\ Grid(t + 1) * Scale <= Grid(i) * Scale /\ Grid(t + 1) * Scale \in Nat /\ Grid(i) * Scale \in Nat
                 /\ i # t + 1 => Grid(t + 1) * Scale < Grid(i) * Scale
    BY <1>1, <2>1, MarksGrow
  <2>6. i > t /\ plan[i] > x => time < Grid(i) * Scale
    <3>1. CASE i = t + 1
      BY <3>1, <2>0, <2>1, <2>3, <2>5, <1>2, <1>7
    <3>2. CASE i > t /\ i # t + 1
      BY <3>2, <2>3, <2>5, <1>7, <1>9
    <3> QED BY <3>1, <3>2, <2>1, <1>1
  <2>7. i > t => time <= Grid(i) * Scale
    BY <2>3, <2>5, <1>7, <1>9
  <2> QED BY <2>1, <2>2, <2>3, <2>4, <2>6, <2>7, <1>1, <1>9
<1> QED BY <1>1, <1>3, <1>4, <1>7, <1>10, <1>11, <1>12

LEMMA FillStep ==
  ASSUME FillInv, FillTime, UNCHANGED likely
  PROVE  FillInv'
<1> USE LaneConstants
<1>1. xidx <= LastPoint /\ plan' = plan
  BY DEF FillTime
<1>2. PICK t \in tidx .. LastPoint :
        /\ StopsAt(t, Grid(xidx)) /\ tidx' = t
        /\ lane_t' = [lane_t EXCEPT ![xidx] = IF t = LastPoint THEN Grid(LastPoint) * Scale
                                              ELSE TimeBetween(t, Grid(xidx))]
        /\ xidx' = IF t = LastPoint THEN LastPoint + 1 ELSE xidx + 1
  BY Zenon DEF FillTime
<1>3. PICK time : time = IF t = LastPoint THEN Grid(LastPoint) * Scale ELSE TimeBetween(t, Grid(xidx))
  OBVIOUS
<1>4. /\ time \in Times /\ lane_t[xidx - 1] <= time
      /\ t < LastPoint => time = TimeBetween(t, Grid(xidx))
      /\ plan[0] = 0 => plan[t] < Grid(xidx)
      /\ Rises => \A i \in Points :
           /\ plan[i] < Grid(xidx) => time >= Grid(i) * Scale
           /\ plan[i] >= Grid(xidx) => time <= Grid(i) * Scale
           /\ plan[i] > Grid(xidx) => time < Grid(i) * Scale
           /\ t = LastPoint => plan[i] < Grid(xidx)
  BY <1>1, <1>2, <1>3, NextTime
<1>5. /\ lane_t \in [Points -> Times \cup {NaN}] /\ plan \in Plans
      /\ likely \in [left : 0 .. ProbTop, right : 0 .. ProbTop]
      /\ xidx \in Nat /\ xidx > 0 /\ xidx \in Points /\ xidx - 1 \in Points
      /\ t \in Nat /\ t <= LastPoint /\ t \in Points
      /\ \A i \in Points : i \in Nat /\ i <= LastPoint
      /\ 0 \in Points
  BY <1>1 DEF FillInv, LanePlanTypeOK, Points
<1>6. lane_t' \in [Points -> Times \cup {NaN}] /\ \A i \in Points : lane_t'[i] = IF i = xidx THEN time ELSE lane_t[i]
  BY <1>2, <1>3, <1>4, <1>5
<1>7. time \in Nat /\ time # NaN
  BY <1>4 DEF Times, NaN
<1>8. /\ \A i \in Points : lane_t[i] # NaN <=> i < xidx
      /\ \A i \in Points : lane_t'[i] # NaN <=> i <= xidx
  <2>1. \A i \in Points : lane_t[i] # NaN <=> i < xidx
    BY <1>1 DEF FillInv, FillingLoop
  <2> QED BY <2>1, <1>5, <1>6, <1>7
<1>9. LanePlanTypeOK'
  <2>1. xidx' \in 1 .. LastPoint + 1
    BY <1>1, <1>2, <1>5
  <2> QED BY <2>1, <1>1, <1>2, <1>5, <1>6 DEF LanePlanTypeOK, Plans
<1>10. LaneTimesRise'
  <2>1. lane_t'[0] = 0
    BY <1>5, <1>6 DEF FillInv, LaneTimesRise
  <2>2. ASSUME NEW i \in Points, NEW j \in Points, i <= j, lane_t'[j] # NaN
        PROVE  lane_t'[i] # NaN /\ lane_t'[i] <= lane_t'[j]
    <3>1. j <= xidx /\ i <= xidx /\ lane_t'[i] # NaN
      BY <2>2, <1>5, <1>8
    <3>2. CASE j # xidx
      BY <3>1, <3>2, <2>2, <1>5, <1>6, <1>8 DEF FillInv, LaneTimesRise
    <3>3. CASE j = xidx /\ i = xidx
      BY <3>3, <3>1, <1>5, <1>6, <1>7
    <3>4. CASE j = xidx /\ i # xidx
      <4>1. i <= xidx - 1 /\ lane_t[xidx - 1] # NaN
        BY <3>1, <3>4, <1>5, <1>8
      <4>2. lane_t[i] <= lane_t[xidx - 1]
        BY <4>1, <1>5 DEF FillInv, LaneTimesRise
      <4>3. lane_t[i] \in Nat /\ lane_t[xidx - 1] \in Nat
        <5>1. lane_t[i] # NaN /\ lane_t[i] \in Times \cup {NaN} /\ lane_t[xidx - 1] \in Times \cup {NaN}
          BY <3>1, <3>4, <1>5, <1>8
        <5> QED BY <5>1, <4>1 DEF Times
      <4> QED BY <4>2, <4>3, <3>1, <3>4, <1>4, <1>5, <1>6, <1>7
    <3> QED BY <3>2, <3>3, <3>4
  <2> QED BY <2>1, <2>2 DEF LaneTimesRise
<1>11. FillingLoop'
  <2> SUFFICES ASSUME xidx' <= LastPoint
               PROVE  /\ tidx' < LastPoint /\ (plan'[0] = 0 => plan'[tidx'] < Grid(xidx'))
                      /\ \A i \in Points : lane_t'[i] # NaN <=> i < xidx'
                      /\ lane_t'[xidx' - 1] <= TimeBetween(tidx, Grid(xidx - 1))'
    BY DEF FillingLoop, Grid
  <2>1. t < LastPoint /\ xidx' = xidx + 1 /\ xidx' - 1 = xidx
    BY <1>2, <1>5
  <2>2. \A i \in Points : lane_t'[i] # NaN <=> i < xidx'
    BY <2>1, <1>5, <1>8
  <2>3. plan'[0] = 0 => plan'[tidx'] < Grid(xidx')
    <3>1. Grid(xidx) \in Nat /\ Grid(xidx') \in Nat /\ Grid(xidx) < Grid(xidx')
      BY <2>1, <1>5, GridGrows
    <3>2. plan[t] \in Int /\ (plan[0] = 0 => plan[t] < Grid(xidx))
      BY <2>1, <1>4, <1>5, PlanOf
    <3> QED BY <3>1, <3>2, <1>1, <1>2
  <2>4. lane_t'[xidx' - 1] = TimeBetween(t, Grid(xidx))
    BY <2>1, <1>4, <1>5, <1>6
  <2>5. TimeBetween(tidx, Grid(xidx - 1))' = TimeBetween(t, Grid(xidx))
    BY <2>1, <1>1, <1>2 DEF TimeBetween, Grid, Share, Clamp
  <2>6. lane_t'[xidx' - 1] \in Nat
    BY <2>1, <2>4, <1>4, <1>7
  <2> QED BY <2>1, <2>2, <2>3, <2>4, <2>5, <2>6, <1>2
<1>12. PassesAtItsTime'
  <2> SUFFICES ASSUME Rises, NEW k \in Points, NEW i \in Points
               PROVE  /\ lane_t'[k] # NaN => /\ plan[i] < Grid(k) => lane_t'[k] >= Grid(i) * Scale
                                             /\ plan[i] >= Grid(k) => lane_t'[k] <= Grid(i) * Scale
                                             /\ plan[i] > Grid(k) => lane_t'[k] < Grid(i) * Scale
                      /\ lane_t'[k] = NaN /\ xidx' > LastPoint => plan[i] < Grid(k)
    BY <1>1 DEF PassesAtItsTime, Rises, Timed, Grid
  <2>1. lane_t[k] # NaN => /\ plan[i] < Grid(k) => lane_t[k] >= Grid(i) * Scale
                           /\ plan[i] >= Grid(k) => lane_t[k] <= Grid(i) * Scale
                           /\ plan[i] > Grid(k) => lane_t[k] < Grid(i) * Scale
    BY DEF FillInv, PassesAtItsTime, Timed
  <2>2. ASSUME lane_t'[k] = NaN, xidx' > LastPoint
        PROVE  plan[i] < Grid(k)
    <3>1. k > xidx /\ k \in Nat /\ k <= LastPoint
      BY <2>2, <1>5, <1>8
    <3>2. t = LastPoint
      BY <3>1, <2>2, <1>2, <1>5
    <3>3. plan[i] < Grid(xidx) /\ plan[i] \in Int
      BY <3>2, <1>4, <1>5, PlanOf
    <3>4. Grid(xidx) \in Nat /\ Grid(k) \in Nat /\ Grid(xidx) < Grid(k)
      BY <3>1, <1>5, GridGrows
    <3> QED BY <3>3, <3>4
  <2>3. CASE k = xidx
    <3>1. lane_t'[k] = time
      BY <2>3, <1>6
    <3>2. /\ plan[i] < Grid(xidx) => time >= Grid(i) * Scale
          /\ plan[i] >= Grid(xidx) => time <= Grid(i) * Scale
          /\ plan[i] > Grid(xidx) => time < Grid(i) * Scale
      BY <1>4, Zenon
    <3> QED BY <3>1, <3>2, <2>2, <2>3, Zenon
  <2>4. CASE k # xidx
    <3>1. lane_t'[k] = lane_t[k]
      BY <2>4, <1>6
    <3> QED BY <3>1, <2>1, <2>2, Zenon
  <2> QED BY <2>3, <2>4
<1> QED BY <1>9, <1>10, <1>11, <1>12 DEF FillInv

LEMMA LikelyTyped ==
  ASSUME NEW a \in 0 .. ProbTop, NEW b \in 0 .. ProbTop
  PROVE  Clamp(a, b - ProbStep, b + ProbStep) \in 0 .. ProbTop
BY LaneConstants DEF Clamp

LEMMA FillInvStep == FillInv /\ [LanePlanNext]_lanePlanVars => FillInv'
<1> SUFFICES ASSUME FillInv, [LanePlanNext]_lanePlanVars PROVE FillInv'
  OBVIOUS
<1>1. CASE NewModelFrame /\ UNCHANGED likely
  <2>1. (lane_t = NoTimes /\ xidx = 1 /\ tidx = 0 /\ plan \in Plans)'
    BY <1>1 DEF NewModelFrame, NoTimes, Points, Plans
  <2>2. /\ (lane_t \in [Points -> Times \cup {NaN}])' /\ (xidx \in 1 .. LastPoint + 1)' /\ (tidx \in Points)'
        /\ LaneTimesRise' /\ FillingLoop' /\ PassesAtItsTime'
    BY <2>1, PlanEmptied, PTL
  <2> QED BY <2>1, <2>2, <1>1 DEF FillInv, LanePlanTypeOK
<1>2. CASE FillTime /\ UNCHANGED likely
  BY <1>2, FillStep
<1>3. ASSUME UNCHANGED fillVars, (likely \in [left : 0 .. ProbTop, right : 0 .. ProbTop])'
      PROVE  FillInv'
  BY <1>3 DEF fillVars, FillInv, LanePlanTypeOK, LaneTimesRise, FillingLoop, PassesAtItsTime,
              Rises, Timed, TimeBetween, Share, Clamp, Grid, Points, Plans
<1>4. CASE AnyPlanPath
  <2>1. PICK left \in 0 .. ProbTop, right \in 0 .. ProbTop : PlanPath(left, right)
    BY <1>4 DEF AnyPlanPath
  <2>2. likely.left \in 0 .. ProbTop /\ likely.right \in 0 .. ProbTop
    BY DEF FillInv, LanePlanTypeOK
  <2>3. likely' \in [left : 0 .. ProbTop, right : 0 .. ProbTop]
    BY <2>1, <2>2, LikelyTyped DEF PlanPath, Likely
  <2> QED BY <2>1, <2>3, <1>3 DEF PlanPath
<1>5. CASE UNCHANGED lanePlanVars
  BY <1>5, <1>3 DEF lanePlanVars, FillInv, LanePlanTypeOK
<1> QED BY <1>1, <1>2, <1>4, <1>5 DEF LanePlanNext, ModelFrame

(* What the path reads at a time: the end of the lane, or between the two    *)
(* points around the time.                                                  *)
LEMMA ReadsBetween ==
  ASSUME FillInv, NEW time \in Nat, NEW read, read = ReadAt(time, MiddleOfLane)
  PROVE  \/ time = 0 /\ read = 0
         \/ \E n \in Timed :
              n + 1 \notin Timed /\ read = Scale * n /\ \A i \in Timed : lane_t[i] < time
         \/ \E k \in Timed :
              /\ k > 0 /\ k - 1 \in Timed /\ lane_t[k - 1] < time /\ time <= lane_t[k]
              /\ read \in Scale * (k - 1) .. Scale * k
              /\ time = lane_t[k] => read = Scale * k
<1> USE LaneConstants
<1>1. /\ 0 \in Points /\ lane_t[0] = 0 /\ \A i \in Points : i \in Nat /\ i <= LastPoint
      /\ \A i \in Timed : i \in Points /\ lane_t[i] \in Nat
  <2>1. 0 \in Points /\ lane_t[0] = 0 /\ \A i \in Points : i \in Nat /\ i <= LastPoint
    BY DEF FillInv, LaneTimesRise, Points
  <2>2. \A i \in Timed : i \in Points /\ lane_t[i] \in Times
    BY DEF FillInv, LanePlanTypeOK, Timed
  <2> QED BY <2>1, <2>2 DEF Times
<1>2. 0 \in Timed /\ \A i, j \in Points : i <= j /\ j \in Timed => i \in Timed
  BY <1>1 DEF FillInv, LaneTimesRise, Timed, NaN
<1>3. \A i \in Points : MiddleOfLane[i] = Scale * i
  BY DEF MiddleOfLane
<1>4. CASE time <= lane_t[0]
  BY <1>1, <1>3, <1>4 DEF ReadAt
<1>5. CASE ~(time <= lane_t[0]) /\ \A i \in Timed : lane_t[i] < time
  <2>1. \E n \in Timed : n + 1 \notin Timed
    <3>1. LastPoint + 1 \in Nat \ Timed
      BY <1>1
    <3>2. PICK m \in Nat \ Timed : \A k \in Nat \ Timed : m <= k
      BY <3>1, LeastMember
    <3>3. m \in Nat /\ m # 0 /\ m \notin Timed
      BY <1>2
    <3>4. m - 1 \in Nat /\ m - 1 \in Timed /\ (m - 1) + 1 = m
      BY <3>2, <3>3
    <3> QED BY <3>3, <3>4
  <2>2. PICK n \in Timed : n = CHOOSE i \in Timed : i + 1 \notin Timed
    BY <2>1
  <2>3. n + 1 \notin Timed
    BY <2>1, <2>2
  <2>4. read = MiddleOfLane[n]
    BY <1>5, <2>2 DEF ReadAt
  <2> QED BY <2>3, <2>4, <1>1, <1>3, <1>5
<1>6. CASE ~(time <= lane_t[0]) /\ \E i \in Timed : ~(lane_t[i] < time)
  <2> DEFINE IsFirst(k) == lane_t[k] >= time /\ \A j \in Timed : j < k => lane_t[j] < time
  <2>1. \E k \in Timed : IsFirst(k)
    <3>1. PICK i \in {j \in Timed : lane_t[j] >= time} : TRUE
      BY <1>1, <1>6
    <3>2. {j \in Timed : lane_t[j] >= time} \in SUBSET Nat
      BY <1>1
    <3>3. PICK m \in {j \in Timed : lane_t[j] >= time} : \A k \in {j \in Timed : lane_t[j] >= time} : m <= k
      BY <3>1, <3>2, LeastMember
    <3>4. m \in Timed /\ lane_t[m] >= time
      BY <3>3
    <3>5. \A j \in Timed : j < m => lane_t[j] < time
      <4> SUFFICES ASSUME NEW j \in Timed, j < m, lane_t[j] >= time PROVE FALSE
        BY <1>1
      <4>1. m <= j
        BY <3>3
      <4>2. m \in Nat /\ j \in Nat
        BY <3>4, <1>1
      <4> QED BY <4>1, <4>2
    <3> QED BY <3>4, <3>5
  <2>2. PICK k \in Timed : k = CHOOSE j \in Timed : IsFirst(j)
    BY <2>1
  <2>3. IsFirst(k)
    BY <2>1, <2>2
  <2>4. k \in Nat /\ k \in Points /\ k > 0 /\ k - 1 \in Points
    BY <1>1, <1>6, <2>3 DEF Points
  <2>5. k - 1 \in Timed
    BY <1>2, <2>4
  <2>6. PICK before \in Nat, after \in Nat :
          /\ before = lane_t[k - 1] /\ after = lane_t[k] /\ before < time /\ time <= after
    BY <1>1, <2>3, <2>4, <2>5
  <2>7. PICK span \in Nat \ {0}, covered \in Nat :
          span = after - before /\ covered = time - before /\ covered <= span /\ (time = after <=> covered = span)
    BY <2>6
  <2>8. MiddleOfLane[k] - MiddleOfLane[k - 1] = Scale /\ MiddleOfLane[k - 1] = Scale * (k - 1)
        /\ MiddleOfLane[k] = Scale * k
    BY <1>3, <2>4
  <2>9. PICK share \in Nat : share = (covered * Scale) \div span /\ share <= Scale /\ (covered = span => share = Scale)
    <3>1. covered * Scale \in Nat /\ covered * Scale <= span * Scale
      BY <2>7, Scaled
    <3>2. (covered * Scale) \div span \in Nat /\ (covered * Scale) \div span <= Scale
      BY <3>1, <2>7, Divided, DividedGrows
    <3>3. covered = span => (covered * Scale) \div span = Scale
      BY <3>1, <2>7, DividedGrows
    <3> QED BY <3>2, <3>3
  <2>10. read = Scale * (k - 1) + share
    <3>1. read = MiddleOfLane[k - 1]
                   + ((time - lane_t[k - 1]) * (MiddleOfLane[k] - MiddleOfLane[k - 1])) \div (lane_t[k] - lane_t[k - 1])
      BY <1>6, <2>2 DEF ReadAt
    <3> QED BY <3>1, <2>6, <2>7, <2>8, <2>9
  <2>11. Scale * k = Scale * (k - 1) + Scale /\ Scale * (k - 1) \in Nat
    BY <2>4
  <2>12. read \in Scale * (k - 1) .. Scale * k /\ (time = lane_t[k] => read = Scale * k)
    BY <2>6, <2>7, <2>9, <2>10, <2>11
  <2> QED BY <2>4, <2>5, <2>6, <2>12
<1> QED BY <1>4, <1>5, <1>6

LEMMA ReadAhead == FillInv => LaneIsReadAhead
<1> SUFFICES ASSUME FillInv, xidx > LastPoint, Rises, NEW i \in Points, NEW j \in Points,
                    j < LastPoint, Grid(j) <= plan[i], plan[i] < Grid(j + 1)
             PROVE  LaneAt(i) \in MiddleOfLane[j] .. MiddleOfLane[j + 1]
  BY DEF LaneIsReadAhead
<1> USE LaneConstants
<1>1. /\ i \in Nat /\ j \in Nat /\ j + 1 \in Points /\ plan[i] \in Int /\ plan[0] = 0 /\ 0 \in Points
      /\ \A k \in Points : k \in Nat
  BY PlanOf DEF Points, FillInv, LanePlanTypeOK, Rises
<1>2. MiddleOfLane[j] = Scale * j /\ MiddleOfLane[j + 1] = Scale * (j + 1)
  BY <1>1 DEF MiddleOfLane
<1>3. Scale * (j + 1) = Scale * j + Scale /\ Scale * j \in Nat
  BY <1>1
<1>4. PICK time \in Nat : time = Grid(i) * Scale
  BY <1>1, MarksGrow
<1>5. PICK read : read = ReadAt(time, MiddleOfLane) /\ read = LaneAt(i)
  BY <1>4 DEF LaneAt
<1>6. /\ \A k \in Timed : k \in Points /\ lane_t[k] \in Nat
      /\ \A k, l \in Points : k <= l /\ l \in Timed => k \in Timed /\ lane_t[k] <= lane_t[l]
  <2>1. \A k \in Timed : k \in Points /\ lane_t[k] \in Times
    BY DEF FillInv, LanePlanTypeOK, Timed
  <2> QED BY <2>1 DEF FillInv, LaneTimesRise, Timed, Times
<1>7. \A k \in Points : /\ k \in Timed => /\ plan[i] < Grid(k) => lane_t[k] >= time
                                          /\ plan[i] >= Grid(k) => lane_t[k] <= time
                                          /\ plan[i] > Grid(k) => lane_t[k] < time
                        /\ k \notin Timed => plan[i] < Grid(k)
  BY <1>4, Zenon DEF FillInv, PassesAtItsTime
<1>8. Grid(j) \in Nat /\ Grid(j + 1) \in Nat
  BY <1>1, GridGrows
<1>9. j \in Timed /\ lane_t[j] <= time /\ (j + 1 \in Timed => lane_t[j + 1] >= time)
  BY <1>1, <1>7, <1>8
<1>10. CASE time = 0 /\ read = 0
  <2>1. i = 0
    <3>1. i > 0 => Grid(0) * Scale < Grid(i) * Scale /\ Grid(0) * Scale \in Nat
      BY <1>1, MarksGrow
    <3> QED BY <3>1, <1>1, <1>4, <1>10
  <2>2. Grid(j) <= 0
    BY <2>1, <1>1
  <2>3. j = 0
    <3>1. j > 0 => Grid(0) < Grid(j) /\ Grid(0) \in Nat
      BY <1>1, GridGrows
    <3> QED BY <3>1, <2>2, <1>1, <1>8
  <2> QED BY <2>3, <1>2, <1>3, <1>5, <1>10
<1>11. ASSUME NEW n \in Timed, n + 1 \notin Timed, read = Scale * n, \A k \in Timed : lane_t[k] < time
       PROVE  read \in Scale * j .. Scale * j + Scale
  <2>1. j + 1 \notin Timed
    <3> SUFFICES ASSUME j + 1 \in Timed PROVE FALSE
      OBVIOUS
    <3> QED BY <1>6, <1>9, <1>11
  <2>2. n \in Nat /\ n \in Points
    BY <1>1, <1>6
  <2>3. ~(n > j)
    <3>1. n > j => j + 1 <= n
      BY <1>1, <2>2
    <3> QED BY <3>1, <2>1, <2>2, <1>1, <1>6
  <2>4. ~(n < j)
    <3>1. n < j => n + 1 <= j /\ n + 1 \in Points
      BY <1>1, <2>2 DEF Points
    <3> QED BY <3>1, <1>1, <1>6, <1>9, <1>11
  <2>5. n = j
    BY <2>2, <2>3, <2>4, <1>1
  <2> QED BY <2>5, <1>3, <1>11
<1>12. ASSUME NEW k \in Timed, k > 0, k - 1 \in Timed, lane_t[k - 1] < time, time <= lane_t[k],
              read \in Scale * (k - 1) .. Scale * k, time = lane_t[k] => read = Scale * k
       PROVE  read \in Scale * j .. Scale * j + Scale
  <2>1. k \in Nat /\ k \in Points /\ k - 1 \in Points /\ lane_t[k] \in Nat /\ lane_t[k - 1] \in Nat /\ lane_t[j] \in Nat
    BY <1>1, <1>6, <1>9, <1>12
  <2>2. ~(k > j + 1)
    <3> SUFFICES ASSUME k > j + 1 PROVE FALSE
      OBVIOUS
    <3>1. j + 1 <= k - 1
      BY <2>1, <1>1
    <3>2. j + 1 \in Timed /\ lane_t[j + 1] <= lane_t[k - 1] /\ lane_t[j + 1] \in Nat
      BY <3>1, <2>1, <1>1, <1>6, <1>12
    <3> QED BY <3>2, <2>1, <1>9, <1>12
  <2>3. ~(k < j)
    <3> SUFFICES ASSUME k < j PROVE FALSE
      OBVIOUS
    <3>1. Grid(k) < Grid(j) /\ Grid(k) \in Nat
      BY <2>1, <1>1, GridGrows
    <3>2. plan[i] > Grid(k)
      BY <3>1, <1>1, <1>8
    <3>3. lane_t[k] < time
      BY <3>2, <2>1, <1>7, <1>12
    <3> QED BY <3>3, <2>1, <1>12
  <2>4. CASE k = j + 1
    <3>1. k - 1 = j
      BY <2>4, <1>1
    <3> QED BY <3>1, <2>4, <1>3, <1>12
  <2>5. CASE k = j
    <3>1. time = lane_t[k]
      BY <2>1, <2>5, <1>9, <1>12
    <3> QED BY <3>1, <2>5, <1>3, <1>12
  <2> QED BY <2>1, <2>2, <2>3, <2>4, <2>5, <1>1
<1>13. read \in Scale * j .. Scale * j + Scale
  BY <1>3, <1>5, <1>10, <1>11, <1>12, <1>2, ReadsBetween
<1> QED BY <1>2, <1>3, <1>5, <1>13

(* The weight of the lanes is a share of the whole. *)
LEMMA WeightIsShare ==
  ASSUME NEW l \in 0 .. ProbTop, NEW r \in 0 .. ProbTop
  PROVE  /\ ProbTop * (l + r) - l * r \in Nat
         /\ ProbTop * (l + r) - l * r <= ProbTop * ProbTop
<1> USE LaneConstants
<1>1. \A a, b \in Nat : a * b \in Nat
  OBVIOUS
<1>2. PICK a \in Nat, b \in Nat : a = ProbTop - l /\ b = ProbTop - r
  OBVIOUS
<1>3. ProbTop * (l + r) - l * r = l * b + ProbTop * r
  BY <1>2
<1>4. ProbTop * ProbTop = (ProbTop * (l + r) - l * r) + a * b
  BY <1>2
<1>5. l * b \in Nat /\ ProbTop * r \in Nat /\ a * b \in Nat
  BY <1>1
<1> QED BY <1>3, <1>4, <1>5

LEMMA BlendBetween ==
  ASSUME NEW weight \in Nat, weight <= ProbTop * ProbTop, NEW lane \in Nat
  PROVE  Blended(weight, lane, 0) \in 0 .. lane
<1> USE LaneConstants
<1>1. PICK whole \in Nat \ {0} : whole = ProbTop * ProbTop
  OBVIOUS
<1>2. weight * lane \in Nat /\ weight * lane <= whole * lane
  BY <1>1, Scaled
<1>3. (whole - weight) * 0 = 0
  BY <1>1
<1>4. Blended(weight, lane, 0) = (weight * lane) \div whole
  BY <1>1, <1>2, <1>3 DEF Blended
<1>5. (weight * lane) \div whole \in Nat /\ (weight * lane) \div whole <= lane
  BY <1>2, Divided, DividedGrows
<1> QED BY <1>4, <1>5

LEMMA Between == FillInv => PathIsBetween
<1> SUFFICES ASSUME FillInv, xidx > LastPoint, NEW i \in Points
             PROVE  LaneAt(i) \in 0 .. LastPoint * Scale /\ PathAt(i) \in 0 .. LaneAt(i)
  BY DEF PathIsBetween
<1> USE LaneConstants
<1>1. i \in Nat
  BY DEF Points
<1>2. PICK time \in Nat : time = Grid(i) * Scale
  BY <1>1, MarksGrow
<1>3. PICK read : read = ReadAt(time, MiddleOfLane) /\ read = LaneAt(i)
  BY <1>2 DEF LaneAt
<1>4. \A n \in Timed : n \in Nat /\ Scale * n \in Nat /\ Scale * n <= LastPoint * Scale
  <2> SUFFICES ASSUME NEW n \in Timed
               PROVE  n \in Nat /\ Scale * n \in Nat /\ Scale * n <= LastPoint * Scale
    OBVIOUS
  <2>1. n \in Nat /\ n <= LastPoint
    BY DEF Timed, Points
  <2>2. n * Scale <= LastPoint * Scale /\ n * Scale \in Int /\ n * Scale >= 0
    BY <2>1, Scaled
  <2>3. Scale * n = n * Scale
    BY <2>1
  <2> QED BY <2>1, <2>2, <2>3
<1>5. LastPoint * Scale \in Nat
  OBVIOUS
<1>6. read \in 0 .. LastPoint * Scale
  <2>1. ASSUME NEW k \in Timed, k > 0, k - 1 \in Timed, read \in Scale * (k - 1) .. Scale * k
        PROVE  read \in 0 .. LastPoint * Scale
    <3>1. Scale * (k - 1) \in Nat /\ Scale * k \in Nat /\ Scale * k <= LastPoint * Scale
      BY <2>1, <1>4
    <3> QED BY <3>1, <2>1, <1>5
  <2>2. ASSUME NEW n \in Timed, read = Scale * n PROVE read \in 0 .. LastPoint * Scale
    BY <2>2, <1>4, <1>5
  <2>3. 0 \in 0 .. LastPoint * Scale
    BY <1>5
  <2>4. \/ read = 0
        \/ \E n \in Timed : read = Scale * n
        \/ \E k \in Timed : k > 0 /\ k - 1 \in Timed /\ read \in Scale * (k - 1) .. Scale * k
    BY <1>3, ReadsBetween, Zenon
  <2> QED BY <2>1, <2>2, <2>3, <2>4, Zenon
<1>7. PathAt(i) \in 0 .. read
  <2>1. likely.left \in 0 .. ProbTop /\ likely.right \in 0 .. ProbTop
    BY DEF FillInv, LanePlanTypeOK
  <2>2. LaneWeight(likely) \in Nat /\ LaneWeight(likely) <= ProbTop * ProbTop
    BY <2>1, WeightIsShare DEF LaneWeight
  <2>3. read \in Nat
    BY <1>5, <1>6
  <2> QED BY <2>2, <2>3, <1>3, BlendBetween DEF PathAt
<1> QED BY <1>3, <1>6, <1>7

LEMMA LanePlanStarts == LanePlanInit => LanePlanInv
BY LanePlanInitially, ReadAhead, Between DEF LanePlanInv

LEMMA LanePlanStep == LanePlanInv /\ [LanePlanNext]_lanePlanVars => LanePlanInv'
<1>1. LanePlanInv /\ [LanePlanNext]_lanePlanVars => FillInv'
  BY FillInvStep DEF LanePlanInv
<1>2. FillInv' => LaneIsReadAhead' /\ PathIsBetween'
  BY ReadAhead, Between, PTL
<1> QED BY <1>1, <1>2 DEF LanePlanInv

(* The times of a lane rise, the lane is read where the plan will be and the *)
(* path runs between the two, for every grid, plan and weight of the lanes. *)
THEOREM LaneIsReadRight == LanePlanSpec => []LanePlanInv
BY LanePlanStarts, LanePlanStep, PTL DEF LanePlanSpec

-----------------------------------------------------------------------------
(* The composed module: one component moves, the others keep their state.  *)

LEMMA OnlyOneMoves ==
  ASSUME [DrivingNext]_drivingVars
  PROVE  /\ [RNext]_allVars /\ [PipeNext]_pipeVars /\ [VehicleNext]_vehicleVars
         /\ [MessagesNext]_messageVars /\ [IndicatorNext]_indicatorVars /\ [HoldsNext]_holdVars
         /\ [PointsNext]_pointsVars /\ [LoopNext]_loopVars /\ [LanePlanNext]_lanePlanVars
<1>1. CASE RestartMoves
  BY <1>1 DEF RestartMoves
<1>2. CASE FramesMove
  BY <1>2 DEF FramesMove
<1>3. CASE PacketsMove
  BY <1>3 DEF PacketsMove
<1>4. CASE VehicleMoves
  BY <1>4 DEF VehicleMoves
<1>5. CASE MessagesMove
  BY <1>5 DEF MessagesMove
<1>6. CASE IndicatorMoves
  BY <1>6 DEF IndicatorMoves
<1>7. CASE GatesMove
  BY <1>7 DEF GatesMove
<1>8. CASE PointsMove
  BY <1>8 DEF PointsMove
<1>9. CASE LoopMoves
  BY <1>9 DEF LoopMoves
<1>10. CASE PathMoves
  BY <1>10 DEF PathMoves
<1>11. CASE UNCHANGED drivingVars
  BY <1>11 DEF drivingVars
<1> QED
  BY <1>1, <1>2, <1>3, <1>4, <1>5, <1>6, <1>7, <1>8, <1>9, <1>10, <1>11
  DEF DrivingNext

LEMMA DrivingInitially == DrivingInit => ComponentsInv
BY RestartInitially, PipeInitially, VehicleInitially, MessagesInitially, IndicatorInitially,
   HoldsInitially, PointsInitially, LoopInitially, LanePlanStarts
   DEF DrivingInit, ComponentsInv

LEMMA DrivingStep == ComponentsInv /\ [DrivingNext]_drivingVars => ComponentsInv'
BY OnlyOneMoves, RestartStep, PipeStep, VehicleStep, MessagesStep, IndicatorStep, HoldsStep,
   PointsStep, LoopStep, LanePlanStep
   DEF ComponentsInv

(* The inductive invariants of all components hold in the composition.     *)
THEOREM DrivingInvariant == DrivingSpec => []ComponentsInv /\ []DrivingInv
<1>1. ComponentsInv => DrivingInv
  BY DEF ComponentsInv, DrivingInv
<1> QED BY <1>1, DrivingInitially, DrivingStep, PTL DEF DrivingSpec

(* Whatever restarts in between, batches of two generations stay apart and *)
(* what is undelivered stays in the ring.                                  *)
THEOREM DrivingKeepsBatches == DrivingSpec => []RestartsKeepBatches
<1>1. ComponentsInv => RestartsKeepBatches
  BY GenerationsKept DEF ComponentsInv, RestartsKeepBatches
<1> QED BY <1>1, DrivingInvariant, PTL

(* A copied picture is whole, a recorded one is the one the model saw, and *)
(* pictures are recorded in order.                                         *)
THEOREM DrivingRecordsAsSeen == DrivingSpec => []RecordedAsSeen
<1>1. ComponentsInv => RecordedAsSeen
  BY DEF ComponentsInv, PipeInv, RecordedAsSeen
<1> QED BY <1>1, DrivingInvariant, PTL

(* What the messages tell of the car is what it does.                      *)
THEOREM DrivingKnowsVehicle == DrivingSpec => []VehicleIsKnown
<1>1. ComponentsInv => VehicleIsKnown
  BY KnownWhileYoung DEF ComponentsInv, VehicleInv, IndicatorInv, VehicleIsKnown
<1> QED BY <1>1, DrivingInvariant, PTL

(* The loop never runs in a burst, and torque points come from steering,   *)
(* predicted over one gap at most.                                         *)
THEOREM DrivingKeepsTime == DrivingSpec => []TimeIsKept
<1>1. ComponentsInv => TimeIsKept
  BY DEF ComponentsInv, LoopInv, PointsInv, TimeIsKept
<1> QED BY <1>1, DrivingInvariant, PTL

(* In the composed module, too, both gates rest on what is recent.         *)
THEOREM DrivingGatesAreRecent == DrivingSpec => GatesAreRecent
<1>1. DrivingInit => HoldsInit
  BY DEF DrivingInit
<1>2. [DrivingNext]_drivingVars => [HoldsNext]_holdVars
  BY OnlyOneMoves
<1>3. DrivingSpec => HoldsSpec
  BY <1>1, <1>2, PTL DEF DrivingSpec, HoldsSpec
<1> QED BY <1>3, HoldsGatesAreRecent
=============================================================================
