--------------------------- MODULE ControlProofs ---------------------------
(***************************************************************************)
(* Proofs about what a control tick decides, for every value of the        *)
(* constants: one section for each component of Control, which ends with   *)
(* the component's inductive invariant, then the composed module.          *)
(***************************************************************************)
EXTENDS Control, WellFoundedInduction, TLAPS

-----------------------------------------------------------------------------
(* The engage state machine.  active_block_reason() returns the first      *)
(* reason in its order (FirstReason), so a hard fault is found before      *)
(* anything Panda or the path may say (HardFoundFirst).  The invariant     *)
(* adds to the checked properties what steering knows of the debounced     *)
(* path.                                                                   *)

(* The natural numbers have a well-founded order. *)
LEMMA NatOrder == \E R : IsWellFoundedOn(R, Nat) /\ \A x, y \in Nat : <<x, y>> \in R <=> x < y
<1> DEFINE R == OpToRel(<, Nat)
<1>1. \A x, y \in Nat : <<x, y>> \in R <=> x < y
  BY DEF OpToRel
<1>2. IsWellFoundedOn(R, Nat)
  BY NatLessThanWellFounded
<1> HIDE DEF R
<1> QED BY <1>1, <1>2, Zenon

(* A set of numbers that is not empty has a least member. *)
LEMMA LeastExists ==
  ASSUME NEW T, T \subseteq Nat, T # {}
  PROVE  \E m \in T : \A n \in T : m <= n
<1>1. PICK R : IsWellFoundedOn(R, Nat) /\ \A x, y \in Nat : <<x, y>> \in R <=> x < y
  BY NatOrder
<1>2. IsWellFoundedOn(R, Nat) /\ T \subseteq Nat /\ T # {}
  BY <1>1
<1>3. \E x \in T : \A y \in T : ~ (<<y, x>> \in R)
  BY <1>2, WFMin, Zenon
<1>4. \A x, y \in T : ~ (<<y, x>> \in R) => x <= y
  BY <1>1
<1> QED BY <1>3, <1>4

(* The table of reasons: every reason has a number, and what comes before  *)
(* Panda is a hard fault or leaves nothing to judge.                       *)
LEMMA RankIsNat == \A r \in BlockReasons : Rank[r] \in Nat
BY DEF BlockReasons, Rank

LEMMA ReasonsBeforePanda ==
  /\ \A r \in BlockReasons : Rank[r] <= 13 => r \in {"not_engaged"} \cup Hard \cup Unjudgeable
  /\ \A r \in Hard : r \in BlockReasons /\ Rank[r] <= 13
BY DEF BlockReasons, Rank, Hard, Unjudgeable

LEMMA KindsAreReasons ==
  /\ Hard \subseteq BlockReasons /\ Computed \subseteq BlockReasons
  /\ Transient \cap Hard = {} /\ Transient \cap Availability = {}
  /\ "not_engaged" \notin Hard \cup Transient \cup Availability
  /\ "not_engaged" \in BlockReasons /\ "none" \notin BlockReasons
  /\ Transient \subseteq BlockReasons /\ Availability \subseteq BlockReasons
  /\ Rank["not_engaged"] = 1 /\ \A r \in BlockReasons : Rank[r] = 1 => r = "not_engaged"
BY DEF BlockReasons, Rank, Hard, Computed, Transient, Availability

(* active_block_reason() returns one of the standing reasons, and none of  *)
(* them comes before it.                                                   *)
LEMMA FirstReason ==
  ASSUME NEW S \in SUBSET BlockReasons
  PROVE  /\ S = {} => FirstOf(S) = "none"
         /\ S # {} => FirstOf(S) \in S /\ \A s \in S : Rank[FirstOf(S)] <= Rank[s]
<1>1. CASE S = {}
  BY <1>1 DEF FirstOf
<1>2. CASE S # {}
  <2> DEFINE T == {Rank[s] : s \in S}
  <2>1. T \subseteq Nat /\ T # {}
    BY <1>2, RankIsNat
  <2>2. \E m \in T : \A n \in T : m <= n
    <3> HIDE DEF T
    <3> QED BY <2>1, LeastExists
  <2>3. \E r \in S : \A s \in S : Rank[r] <= Rank[s]
    BY <2>2
  <2> QED BY <1>2, <2>3, Zenon DEF FirstOf
<1> QED BY <1>1, <1>2

-----------------------------------------------------------------------------
(* Preservation of LatchInv *)

LEMMA LatchInitially == LatchInit => LatchInv
<1> SUFFICES ASSUME LatchInit PROVE LatchInv
  OBVIOUS
<1>1. pending_age \in 0 .. EngageGrace /\ release_age \in 0 .. ReleaseTime
  BY LatchAssumption DEF LatchInit
<1>2. path_age \in 0 .. NotUsable
  BY LatchAssumption DEF LatchInit, NotUsable
<1>3. block \in BlockReasons \cup {"none"}
  BY KindsAreReasons DEF LatchInit
<1>4. unbroken_age \in 0 .. PathDebounce
  BY LatchAssumption DEF LatchInit
<1>5. LatchTypeOK
  BY <1>1, <1>2, <1>3, <1>4 DEF LatchInit, LatchTypeOK, Buttons, Events
<1> QED BY <1>5 DEF LatchInit, LatchInv, SteersOnlyEngaged, HardFaultEnds, DriverKnows

(* An age moves to the next one, up to its cap. *)
LEMMA OlderStays ==
  ASSUME NEW cap \in Nat, NEW age \in 0 .. cap
  PROVE  Older(age, cap) \in 0 .. cap /\ (age = cap => Older(age, cap) = cap)
BY DEF Older

LEMMA ElapseKeeps == LatchInv /\ Elapse => LatchInv'
<1> SUFFICES ASSUME LatchInv, Elapse PROVE LatchInv'
  OBVIOUS
<1> USE LatchAssumption DEF LatchInv, LatchTypeOK, Elapse
<1>1. /\ pending_age' \in 0 .. EngageGrace /\ release_age' \in 0 .. ReleaseTime
      /\ unbroken_age' \in 0 .. PathDebounce
  BY OlderStays
<1>2. path_age' \in 0 .. NotUsable
  BY DEF NotUsable, Older
<1>3. path_age = PathDebounce => path_age' = PathDebounce
  BY DEF NotUsable, Older
<1>4. path_age' # NotUsable => path_age' <= unbroken_age'
  BY DEF NotUsable, Older
<1> QED BY <1>1, <1>2, <1>3, <1>4 DEF SteersOnlyEngaged, HardFaultEnds, DriverKnows

(* The debounce of one tick: a path that was interrupted counts as good    *)
(* again only at the end of the debounce time.                             *)
LEMMA DebounceKeeps ==
  ASSUME LatchTypeOK, path_debounced /\ path_seen_invalid => path_age = PathDebounce,
         path_age # NotUsable => path_age <= unbroken_age,
         NEW usable \in BOOLEAN, DebouncePath(usable),
         unbroken_age' = IF usable THEN unbroken_age ELSE 0
  PROVE  /\ path_debounced' \in BOOLEAN /\ path_seen_invalid' \in BOOLEAN
         /\ path_age' \in 0 .. NotUsable
         /\ path_debounced' /\ path_seen_invalid' => path_age' = PathDebounce
         /\ path_age' # NotUsable => path_age' <= unbroken_age'
<1> USE LatchAssumption DEF LatchTypeOK, NotUsable
<1>1. path_debounced' \in BOOLEAN /\ path_seen_invalid' \in BOOLEAN
  BY Zenon DEF DebouncePath, Debounced
<1>2. path_age' \in 0 .. NotUsable
  BY DEF DebouncePath
<1>3. ASSUME path_debounced', path_seen_invalid' PROVE path_age' = PathDebounce
  <2>1. usable /\ path_seen_invalid
    BY <1>3, Zenon DEF DebouncePath, Debounced
  <2>2. CASE path_debounced
    BY <2>1, <2>2 DEF DebouncePath
  <2>3. CASE ~path_debounced
    <3>1. path_age' >= PathDebounce /\ path_age' # NotUsable
      BY <1>3, <2>1, <2>3, Zenon DEF DebouncePath, Debounced
    <3> QED BY <1>2, <3>1
  <2> QED BY <2>2, <2>3
<1>4. path_age' # NotUsable => path_age' <= unbroken_age'
  BY DEF DebouncePath
<1> QED BY <1>1, <1>2, <1>3, <1>4

(* A hard fault that can be judged is the reason found, unless control is  *)
(* not engaged at all.                                                     *)
LEMMA HardFoundFirst ==
  ASSUME NEW faults \in SUBSET Faults, NEW logical \in BOOLEAN, NEW ready, NEW allowed, NEW slow,
         faults \cap Hard # {}, faults \cap Unjudgeable = {}
  PROVE  LET reason == FirstOf(Standing(logical, faults, ready, allowed, slow))
         IN  /\ logical => reason \in Hard
             /\ ~logical => reason = "not_engaged"
<1> DEFINE S == Standing(logical, faults, ready, allowed, slow)
<1>1. S \in SUBSET BlockReasons
  BY LatchAssumption, KindsAreReasons DEF Standing, Transient, Availability
<1>2. PICK h \in faults : h \in Hard
  OBVIOUS
<1>3. h \in S
  BY DEF Standing
<1>4. FirstOf(S) \in S /\ \A s \in S : Rank[FirstOf(S)] <= Rank[s]
  BY <1>1, <1>3, FirstReason
<1>5. FirstOf(S) \in BlockReasons /\ Rank[FirstOf(S)] \in Nat /\ Rank[h] \in Nat /\ Rank[h] <= 13
  BY <1>1, <1>2, <1>4, RankIsNat, ReasonsBeforePanda
<1>6. FirstOf(S) \in {"not_engaged"} \cup Hard \cup Unjudgeable
  BY <1>3, <1>4, <1>5, ReasonsBeforePanda
<1>7. CASE logical
  <2>1. "not_engaged" \notin S
    BY <1>7, LatchAssumption DEF Standing, Computed
  <2>2. S \cap Unjudgeable = {}
    BY <1>7 DEF Standing, Unjudgeable
  <2> QED BY <1>4, <1>6, <1>7, <2>1, <2>2
<1>8. CASE ~logical
  <2>1. "not_engaged" \in S
    BY <1>8 DEF Standing
  <2>2. Rank[FirstOf(S)] <= 1 /\ Rank[FirstOf(S)] \in Nat
    BY <1>4, <1>5, <2>1, KindsAreReasons
  <2>3. Rank[FirstOf(S)] # 0
    BY <1>5 DEF BlockReasons, Rank
  <2>4. Rank[FirstOf(S)] = 1
    BY <2>2, <2>3
  <2> QED BY <1>5, <1>8, <2>4, KindsAreReasons
<1> QED BY <1>7, <1>8

(* One tick: the reason found decides everything else. *)
LEMMA TickKeeps ==
  ASSUME LatchInv, NEW button \in Buttons, NEW faults \in SUBSET Faults,
         NEW ready \in BOOLEAN, NEW allowed \in BOOLEAN, NEW usable \in BOOLEAN, NEW slow \in BOOLEAN,
         Tick(button, faults, ready, allowed, usable, slow)
  PROVE  LatchInv'
<1> DEFINE S == Standing(Latched(button), faults, ready, allowed, slow)
           reason == FirstOf(S)
<1>1. /\ path_debounced' \in BOOLEAN /\ path_seen_invalid' \in BOOLEAN
      /\ path_age' \in 0 .. NotUsable
      /\ path_debounced' /\ path_seen_invalid' => path_age' = PathDebounce
      /\ path_age' # NotUsable => path_age' <= unbroken_age'
      /\ unbroken_age' = IF usable THEN unbroken_age ELSE 0
  BY DebounceKeeps DEF LatchInv, Tick
<1>2. Latched(button) \in BOOLEAN
  BY Zenon DEF LatchInv, LatchTypeOK, Latched, Cancelled, SetReleased
<1>3. S \in SUBSET BlockReasons
  BY LatchAssumption, KindsAreReasons DEF Standing, Transient, Availability
<1>4. /\ reason \in BlockReasons \cup {"none"}
      /\ reason = "none" => S = {}
  BY <1>3, FirstReason, KindsAreReasons
<1>5. reason = "none" => Latched(button) /\ path_debounced'
  BY <1>4 DEF Standing
<1>6. Decide(button, reason) /\ Send(faults) /\ last_button' = button
      /\ hard_seen' = (faults \cap Hard # {} /\ faults \cap Unjudgeable = {})
  BY DEF Tick
<1>7. faults \cap Hard # {} /\ faults \cap Unjudgeable = {}
        => reason \in Hard \/ (~Latched(button) /\ reason = "not_engaged")
  BY <1>2, HardFoundFirst
<1>8. "none" \notin Hard \cup Reject \cup Transient \cup Availability
  BY KindsAreReasons DEF Reject
<1> HIDE DEF S, reason
<1>9. /\ engaged' = (Latched(button) /\ ~Broken(button, reason) /\ ~Refused(button, reason)
                     /\ ~Late(button, reason))
      /\ pending' = (Waiting(button, reason) /\ ~Late(button, reason) /\ reason \in Transient)
      /\ pending_age' = IF pending' THEN Waited(button) ELSE EngageGrace
      /\ active' = (reason = "none") /\ block' = reason
      /\ steer_hold' = (Latched(button) /\ reason \in Availability \cup {"lateral_plan_invalid"})
      /\ release_age' = IF Cancelled(button) \/ Broken(button, reason)
                           \/ Refused(button, reason) \/ Late(button, reason)
                        THEN 0 ELSE release_age
      /\ Tell(Refused(button, reason) \/ Late(button, reason))
  BY <1>6, Zenon DEF Decide
<1>10. LatchTypeOK'
  <2>1. /\ engaged' \in BOOLEAN /\ pending' \in BOOLEAN /\ active' \in BOOLEAN
        /\ steer_hold' \in BOOLEAN /\ sending' \in BOOLEAN /\ hard_seen' \in BOOLEAN
    BY <1>2, <1>6, <1>9, Zenon DEF Send
  <2>2. pending_age' \in 0 .. EngageGrace /\ release_age' \in 0 .. ReleaseTime
    BY <1>9, LatchAssumption DEF LatchInv, LatchTypeOK, Waited
  <2>3. told' \in Events
    BY <1>9 DEF LatchInv, LatchTypeOK, Tell, Events
  <2>4. unbroken_age' \in 0 .. PathDebounce
    BY <1>1, LatchAssumption DEF LatchInv, LatchTypeOK
  <2> QED BY <1>1, <1>4, <1>6, <1>9, <2>1, <2>2, <2>3, <2>4 DEF LatchTypeOK
<1>11. Waiting(button, reason) => Latched(button)
  BY DEF Waiting, Asked, Latched, LatchInv, SteersOnlyEngaged
<1>12. SteersOnlyEngaged'
  <2>1. ASSUME active' PROVE engaged' /\ ~pending' /\ block' = "none"
    <3>1. reason = "none" /\ Latched(button)
      BY <1>5, <1>9, <2>1
    <3>2. ~Broken(button, reason) /\ ~Refused(button, reason) /\ ~Late(button, reason)
      BY <1>8, <3>1 DEF Broken, Refused, Late
    <3> QED BY <1>8, <1>9, <3>1, <3>2
  <2>2. ASSUME pending' PROVE engaged' /\ block' \in Transient
    <3>1. Waiting(button, reason) /\ ~Late(button, reason) /\ reason \in Transient
      BY <1>9, <2>2
    <3>2. ~Broken(button, reason) /\ ~Refused(button, reason)
      BY <3>1, KindsAreReasons DEF Broken, Refused, Reject
    <3> QED BY <1>9, <1>11, <3>1, <3>2
  <2> QED BY <2>1, <2>2 DEF SteersOnlyEngaged
<1>13. HardFaultEnds'
  <2>1. ASSUME hard_seen' PROVE ~engaged' /\ ~active' /\ ~pending'
    <3>1. reason \in Hard \/ (~Latched(button) /\ reason = "not_engaged")
      BY <1>6, <1>7, <2>1
    <3>2. reason \notin Transient /\ reason # "none"
      BY <1>8, <3>1, KindsAreReasons
    <3>3. Latched(button) => Broken(button, reason)
      BY <3>1 DEF Broken
    <3> QED BY <1>9, <3>2, <3>3
  <2> QED BY <2>1 DEF HardFaultEnds
<1>14. DriverKnows'
  <2>1. CASE Refused(button, reason) \/ Late(button, reason)
    BY <1>9, <2>1 DEF DriverKnows, Tell
  <2>2. CASE ~(Refused(button, reason) \/ Late(button, reason))
    <3>1. told' = IF engaged' = engaged THEN told ELSE IF engaged' THEN "engage" ELSE "disengage"
      BY <1>9, <2>2 DEF Tell
    <3>2. engaged \in BOOLEAN /\ engaged' \in BOOLEAN /\ (engaged <=> told = "engage")
      BY <1>10 DEF LatchInv, LatchTypeOK, DriverKnows
    <3> QED BY <3>1, <3>2 DEF DriverKnows
  <2> QED BY <2>1, <2>2
<1>15. active' => path_debounced'
  BY <1>5, <1>9
<1> QED BY <1>1, <1>10, <1>12, <1>13, <1>14, <1>15 DEF LatchInv

LEMMA LatchStep == LatchInv /\ [LatchNext]_latchVars => LatchInv'
<1> SUFFICES ASSUME LatchInv, [LatchNext]_latchVars PROVE LatchInv'
  OBVIOUS
<1>1. CASE Elapse
  BY <1>1, ElapseKeeps
<1>2. CASE AnyTick
  BY <1>2, TickKeeps DEF AnyTick
<1>3. CASE UNCHANGED latchVars
  BY <1>3 DEF LatchInv, LatchTypeOK, SteersOnlyEngaged, HardFaultEnds, DriverKnows,
     latchVars, latch, debounce, result
<1> QED BY <1>1, <1>2, <1>3 DEF LatchNext

-----------------------------------------------------------------------------
(* Theorems *)

(* The invariant of the engage state machine holds in every state. *)
THEOREM LatchInvariant == LatchSpec => []LatchInv
  BY LatchInitially, LatchStep, PTL DEF LatchSpec

(* A hard fault ends engagement in the tick that reads it, whatever Panda, *)
(* the path or the planner report.                                         *)
THEOREM LatchHardFaultEnds == LatchSpec => []HardFaultEnds
<1>1. LatchInv => HardFaultEnds
  BY DEF LatchInv
<1> QED BY <1>1, LatchInvariant, PTL

(* Steering needs engagement, no block reason and, once the path has been  *)
(* interrupted, a whole debounce time of usable path.                      *)
THEOREM LatchSteersWithCause == LatchSpec => [](SteersOnlyEngaged /\ SteersOnSteadyPath)
<1>1. LatchInv => SteersOnlyEngaged /\ SteersOnSteadyPath
  BY LatchAssumption DEF LatchInv, LatchTypeOK, NotUsable, SteersOnSteadyPath
<1> QED BY <1>1, LatchInvariant, PTL

(* The last event announced always agrees with the engagement.             *)
THEOREM LatchDriverKnows == LatchSpec => []DriverKnows
<1>1. LatchInv => DriverKnows
  BY DEF LatchInv
<1> QED BY <1>1, LatchInvariant, PTL

(* Engagement and a wait for Panda begin only when SET is released.        *)
THEOREM LatchEngagesOnlyOnSet == LatchSpec => EngagesOnlyOnSet
<1>1. LatchInv /\ [LatchNext]_latchVars
        => [/\ ~engaged /\ engaged' => last_button = "set" /\ last_button' = "none"
            /\ ~pending /\ pending' => ~engaged /\ engaged']_latchVars
  <2> SUFFICES ASSUME LatchInv, LatchNext
               PROVE  /\ ~engaged /\ engaged' => last_button = "set" /\ last_button' = "none"
                      /\ ~pending /\ pending' => ~engaged /\ engaged'
    OBVIOUS
  <2>1. CASE Elapse
    BY <2>1 DEF Elapse
  <2>2. CASE AnyTick
    <3>1. PICK button, reason : Decide(button, reason) /\ last_button' = button
      BY <2>2, Zenon DEF AnyTick, Tick
    <3>2. ~engaged /\ engaged' => last_button = "set" /\ last_button' = "none"
      BY <3>1 DEF Decide, Latched, SetReleased
    <3>3. ~pending /\ pending' => Waiting(button, reason) /\ ~pending
      BY <3>1 DEF Decide
    <3>4. ~pending /\ pending' => ~engaged
      BY <3>3 DEF Waiting, Asked
    <3>5. pending' => engaged'
      BY LatchStep DEF LatchInv, SteersOnlyEngaged
    <3> QED BY <3>2, <3>4, <3>5
  <2> QED BY <2>1, <2>2 DEF LatchNext
<1> QED BY <1>1, LatchInvariant, PTL DEF LatchSpec, EngagesOnlyOnSet

-----------------------------------------------------------------------------
(* The departure alert                                                     *)

(* The departure alert: each stage of update() keeps the order of the timers. *)

LEMMA StopCapIsEnough ==
  /\ StopCap \in Nat /\ StoodFor.lead \in Nat /\ StoodFor.green \in Nat
  /\ StoodFor.lead = MinimumStop + LeadArm + LeadConfirm
  /\ StoodFor.green = SignalStop + GreenConfirm
  /\ StopCap >= StoodFor.lead /\ StopCap >= StoodFor.green
<1>1. StoodFor.lead = MinimumStop + LeadArm + LeadConfirm /\ StoodFor.green = SignalStop + GreenConfirm
  BY DEF StoodFor
<1>2. {MinimumStop, LeadArm, LeadConfirm, SignalStop, GreenConfirm} \subseteq Nat
  BY DepartureAssumption
<1> QED BY <1>1, <1>2 DEF StopCap

(* A detector whose timers are of their types and in their order. *)
Ordered(d) == d \in Detectors /\ TimersFollow(d)

LEMMA LeadResetFields ==
  ASSUME NEW d \in Detectors
  PROVE  LET n == LeadReset(d) IN
         /\ n \in Detectors
         /\ n.seen = NotRunning /\ n.leaving = NotRunning
         /\ n.consumed = d.consumed /\ n.stopped = d.stopped
         /\ n.opening = d.opening /\ n.green_armed = d.green_armed
<1>1. NotRunning \in Ages
  BY StopCapIsEnough DEF Ages, NotRunning
<1> QED BY <1>1 DEF LeadReset, Detectors

LEMMA CycleResetFields ==
  ASSUME NEW d \in Detectors, NEW c \in BOOLEAN, NEW s \in Ages
  PROVE  LET n == CycleReset(d, c, s) IN
         /\ n \in Detectors
         /\ n.consumed = c /\ n.stopped = s
         /\ n.seen = NotRunning /\ n.leaving = NotRunning
         /\ n.opening = NotRunning /\ n.green_armed = FALSE
<1>1. NotRunning \in Ages
  BY StopCapIsEnough DEF Ages, NotRunning
<1> DEFINE l == LeadReset(d)
           g == [l EXCEPT !.opening = NotRunning, !.green_armed = FALSE]
<1>2. /\ l \in Detectors /\ l.seen = NotRunning /\ l.leaving = NotRunning
  BY LeadResetFields
<1> HIDE DEF l
<1>3. /\ g \in Detectors /\ g.seen = NotRunning /\ g.leaving = NotRunning
      /\ g.opening = NotRunning /\ g.green_armed = FALSE
  BY <1>1, <1>2 DEF Detectors
<1>4. CycleReset(d, c, s) = [g EXCEPT !.consumed = c, !.stopped = s]
  BY DEF CycleReset, GreenReset, l
<1> HIDE DEF g
<1> QED BY <1>3, <1>4 DEF Detectors

LEMMA MovedKeeps ==
  ASSUME NEW d, Ordered(d), NEW motion \in {"reset", "creep", "stand"}
  PROVE  /\ Ordered(Moved(d, motion))
         /\ Moved(d, motion).consumed = (d.consumed /\ motion # "reset")
         /\ Moved(d, motion).stopped = IF motion = "stand" THEN Since(d.stopped) ELSE NotRunning
<1> USE StopCapIsEnough, DepartureAssumption
    DEF TimersFollow, Follows, Ages, NotRunning
<1>1. CASE motion = "stand"
  BY <1>1 DEF Moved, Since, Ordered, Detectors
<1>2. CASE motion # "stand"
  <2>0. d \in Detectors /\ d.consumed \in BOOLEAN /\ NotRunning \in Ages
    BY DEF Ordered, Detectors
  <2> DEFINE c == IF motion = "reset" THEN FALSE ELSE d.consumed
  <2>1. Moved(d, motion) = CycleReset(d, c, NotRunning)
    BY <1>2 DEF Moved
  <2>2. c \in BOOLEAN /\ c = (d.consumed /\ motion # "reset")
    BY <2>0
  <2> HIDE DEF c
  <2> DEFINE n == CycleReset(d, c, NotRunning)
  <2>3. /\ n \in Detectors /\ n.consumed = c /\ n.stopped = NotRunning
        /\ n.seen = NotRunning /\ n.leaving = NotRunning
        /\ n.opening = NotRunning /\ n.green_armed = FALSE
    BY <2>0, <2>2, CycleResetFields
  <2> HIDE DEF n
  <2>4. Ordered(n)
    BY <2>3 DEF Ordered
  <2> QED BY <1>2, <2>1, <2>2, <2>3, <2>4 DEF n
<1> QED BY <1>1, <1>2

LEMMA LeadWatchedKeeps ==
  ASSUME NEW d, Ordered(d), NEW updated \in BOOLEAN, NEW lead \in {"absent", "present", "leaving"}
  PROVE  /\ Ordered(LeadWatched(d, updated, lead))
         /\ LeadWatched(d, updated, lead).consumed = d.consumed
         /\ LeadWatched(d, updated, lead).stopped = d.stopped
<1> USE StopCapIsEnough, DepartureAssumption
    DEF TimersFollow, Follows, Ages, NotRunning
<1>1. CASE lead = "absent"
  BY <1>1, LeadResetFields DEF Ordered, LeadWatched
<1>2. CASE lead # "absent" /\ ~(updated /\ d.stopped >= MinimumStop)
  BY <1>2 DEF LeadWatched
<1>3. CASE lead # "absent" /\ updated /\ d.stopped >= MinimumStop
  <2> DEFINE seen == Since(d.seen)
             leaving == IF seen >= LeadArm /\ lead = "leaving" THEN Since(d.leaving) ELSE NotRunning
             armed == seen >= LeadArm
             n == [d EXCEPT !.seen = seen, !.lead_armed = armed, !.leaving = leaving]
  <2>1. LeadWatched(d, updated, lead) = n
    BY <1>3 DEF LeadWatched
  <2>0. /\ d.seen \in Ages /\ d.leaving \in Ages /\ d.stopped \in Ages
        /\ Follows(d.seen, d.stopped, MinimumStop) /\ Follows(d.leaving, d.seen, LeadArm)
        /\ d.green_armed => d.stopped >= SignalStop
        /\ Follows(d.opening, d.stopped, SignalStop)
    BY DEF Ordered, Detectors
  <2>2. /\ seen \in Ages /\ seen # NotRunning /\ leaving \in Ages /\ armed \in BOOLEAN
        /\ Follows(seen, d.stopped, MinimumStop) /\ Follows(leaving, seen, LeadArm)
        /\ d.green_armed => d.stopped >= SignalStop
        /\ Follows(d.opening, d.stopped, SignalStop)
    BY <1>3, <2>0 DEF Since
  <2> HIDE DEF seen, leaving, armed
  <2>3. /\ n \in Detectors /\ n.seen = seen /\ n.leaving = leaving /\ n.stopped = d.stopped
        /\ n.consumed = d.consumed /\ n.opening = d.opening /\ n.green_armed = d.green_armed
    BY <2>2 DEF Ordered, Detectors
  <2> HIDE DEF n
  <2> QED BY <2>1, <2>2, <2>3 DEF Ordered
<1> QED BY <1>1, <1>2, <1>3

LEMMA PlanWatchedKeeps ==
  ASSUME NEW d, Ordered(d), NEW updated \in BOOLEAN, NEW plan
  PROVE  /\ Ordered(PlanWatched(d, updated, plan))
         /\ PlanWatched(d, updated, plan).consumed = d.consumed
         /\ PlanWatched(d, updated, plan).stopped = d.stopped
<1> USE StopCapIsEnough, DepartureAssumption
    DEF TimersFollow, Follows, Ages, NotRunning
<1>1. CASE ~updated
  BY <1>1 DEF PlanWatched
<1>2. CASE updated
  <2> DEFINE armed == d.green_armed \/ (plan = "stopped" /\ d.stopped >= SignalStop)
             opening == IF armed /\ plan = "open" THEN Since(d.opening) ELSE NotRunning
             n == [d EXCEPT !.green_armed = armed, !.opening = opening]
  <2>1. PlanWatched(d, updated, plan) = n
    BY <1>2 DEF PlanWatched
  <2>2. /\ armed \in BOOLEAN /\ opening \in Ages
        /\ armed => d.stopped >= SignalStop
        /\ Follows(opening, d.stopped, SignalStop)
        /\ Follows(d.seen, d.stopped, MinimumStop) /\ Follows(d.leaving, d.seen, LeadArm)
    BY DEF Ordered, Detectors, Since
  <2> HIDE DEF armed, opening
  <2>3. /\ n \in Detectors /\ n.seen = d.seen /\ n.leaving = d.leaving /\ n.stopped = d.stopped
        /\ n.consumed = d.consumed /\ n.opening = opening /\ n.green_armed = armed
    BY <2>2 DEF Ordered, Detectors
  <2> HIDE DEF n
  <2> QED BY <2>1, <2>2, <2>3 DEF Ordered
<1> QED BY <1>1, <1>2

LEMMA TriggeredKeeps ==
  ASSUME NEW d, Ordered(d), NEW type \in {"lead", "green"}
  PROVE  /\ Ordered(Triggered(d, type))
         /\ Triggered(d, type).consumed = TRUE /\ Triggered(d, type).stopped = d.stopped
<1> DEFINE r == CycleReset(d, TRUE, d.stopped)
           n == [r EXCEPT !.type = type, !.shown = AlertDisplay]
<1>1. d \in Detectors /\ d.stopped \in Ages
  BY DEF Ordered, Detectors
<1>2. /\ r \in Detectors /\ r.consumed = TRUE /\ r.stopped = d.stopped
      /\ r.seen = NotRunning /\ r.leaving = NotRunning /\ r.opening = NotRunning /\ r.green_armed = FALSE
  BY <1>1, CycleResetFields
<1> HIDE DEF r
<1>3. Triggered(d, type) = n
  BY DEF Triggered, r
<1>4. /\ n \in Detectors /\ n.consumed = TRUE /\ n.stopped = d.stopped
      /\ n.seen = NotRunning /\ n.leaving = NotRunning /\ n.opening = NotRunning /\ n.green_armed = FALSE
  <2>1. AlertDisplay \in 0 .. AlertDisplay /\ type \in {"none", "lead", "green"}
    BY DepartureAssumption
  <2> QED BY <1>2, <2>1 DEF Detectors
<1> HIDE DEF n
<1>5. Ordered(n)
  BY <1>4 DEF Ordered, TimersFollow, Follows, NotRunning
<1> QED BY <1>3, <1>4, <1>5

(* The stages of one tick, in the order of update(). *)
LEMMA DepartureTickKeeps ==
  ASSUME DepartureInv, NEW motion \in {"reset", "creep", "stand"}, NEW updated \in BOOLEAN,
         NEW valid \in BOOLEAN, NEW lead \in {"absent", "present", "leaving"}, NEW plan,
         DepartureTick(motion, updated, valid, lead, plan)
  PROVE  DepartureInv'
<1> DEFINE timed == Timed(dep)
           moved == Moved(timed, motion)
           watching == moved.stopped # NotRunning /\ ~moved.consumed
           led == LeadWatched(moved, updated, lead)
           watched == PlanWatched(led, updated /\ valid, plan)
           alert == IF ~watching THEN "none"
                    ELSE IF Departed(watched, updated, lead) THEN "lead"
                    ELSE IF Opened(watched, updated /\ valid) THEN "green"
                    ELSE "none"
<1>1. /\ dep' = IF alert # "none" THEN Triggered(watched, alert)
                ELSE IF watching THEN watched ELSE moved
      /\ dep_fired' = alert
      /\ dep_history' =
           [stood |-> IF motion = "stand" THEN Since(dep_history.stood) ELSE NotRunning,
            alerts |-> (IF motion = "reset" THEN 0 ELSE dep_history.alerts)
                       + (IF alert = "none" THEN 0 ELSE 1)]
  BY DEF DepartureTick
<1>2. /\ Ordered(timed) /\ timed.consumed = dep.consumed /\ timed.stopped = dep.stopped
      /\ dep.consumed \in BOOLEAN /\ dep.stopped \in Ages
  BY DEF DepartureInv, DepartureTypeOK, Ordered, Timed, Detectors, TimersFollow
<1> HIDE DEF timed
<1>3. /\ Ordered(moved)
      /\ moved.consumed = (dep.consumed /\ motion # "reset")
      /\ moved.stopped = IF motion = "stand" THEN Since(dep.stopped) ELSE NotRunning
  BY <1>2, MovedKeeps
<1> HIDE DEF moved
<1>4. Ordered(led) /\ led.consumed = moved.consumed /\ led.stopped = moved.stopped
  BY <1>3, LeadWatchedKeeps
<1> HIDE DEF led
<1>5. Ordered(watched) /\ watched.consumed = moved.consumed /\ watched.stopped = moved.stopped
  BY <1>4, PlanWatchedKeeps
<1> HIDE DEF watched
<1>6. alert \in {"none", "lead", "green"}
  OBVIOUS
<1>7. /\ alert = "lead" => watched.leaving # NotRunning /\ watched.leaving >= LeadConfirm
      /\ alert = "green" => watched.opening # NotRunning /\ watched.opening >= GreenConfirm
      /\ alert # "none" => watching
  BY DEF Departed, Opened
<1> HIDE DEF alert
<1>8. Ordered(dep') /\ dep'.stopped = moved.stopped
  <2>1. CASE alert # "none"
    BY <1>1, <1>5, <1>6, <2>1, TriggeredKeeps
  <2>2. CASE alert = "none"
    BY <1>1, <1>3, <1>5, <2>2
  <2> QED BY <2>1, <2>2
<1>9. /\ dep_history'.stood = IF motion = "stand" THEN Since(dep_history.stood) ELSE NotRunning
      /\ dep_history'.alerts = (IF motion = "reset" THEN 0 ELSE dep_history.alerts)
                                + (IF alert = "none" THEN 0 ELSE 1)
      /\ dep_history' \in [stood : Ages, alerts : Nat]
      /\ dep_history.stood \in Ages /\ dep_history.alerts \in Nat
      /\ dep_history.alerts <= 1
      /\ Follows(dep.stopped, dep_history.stood, 0)
  BY <1>1, StopCapIsEnough DEF DepartureInv, DepartureTypeOK, StopAlertedOnce, Since, Ages, NotRunning
<1>10. Follows(dep'.stopped, dep_history'.stood, 0)
  BY <1>2, <1>3, <1>8, <1>9, StopCapIsEnough DEF Follows, Since, Ages, NotRunning
<1>11. /\ dep_history'.alerts <= 1
       /\ ~dep'.consumed => dep_history'.alerts = 0
  <2>1. ~dep.consumed => dep_history.alerts = 0
    BY DEF DepartureInv
  <2>2. CASE alert # "none"
    <3>1. moved.consumed = FALSE
      BY <1>2, <1>3, <1>7, <2>2
    <3>2. motion = "reset" \/ dep.consumed = FALSE
      BY <1>2, <1>3, <3>1
    <3>3. dep'.consumed = TRUE
      BY <1>1, <1>5, <1>6, <2>2, TriggeredKeeps
    <3> QED BY <1>9, <2>1, <2>2, <3>2, <3>3
  <2>3. CASE alert = "none"
    <3>1. dep'.consumed = (dep.consumed /\ motion # "reset")
      BY <1>1, <1>3, <1>5, <2>3
    <3>2. motion = "reset" \/ dep.consumed = dep'.consumed
      BY <1>2, <3>1
    <3> QED BY <1>9, <2>1, <2>3, <3>2
  <2> QED BY <2>2, <2>3
<1>12. alert # "none" => dep_history'.stood >= StoodFor[alert]
  <2>1. ASSUME alert = "lead" PROVE dep_history'.stood >= StoodFor.lead
    BY <1>3, <1>5, <1>7, <1>8, <1>9, <1>10, <2>1, StopCapIsEnough, DepartureAssumption
       DEF Ordered, TimersFollow, Follows, Detectors, Ages, NotRunning
  <2>2. ASSUME alert = "green" PROVE dep_history'.stood >= StoodFor.green
    BY <1>3, <1>5, <1>7, <1>8, <1>9, <1>10, <2>2, StopCapIsEnough, DepartureAssumption
       DEF Ordered, TimersFollow, Follows, Detectors, Ages, NotRunning
  <2> QED BY <1>6, <2>1, <2>2
<1> QED BY <1>1, <1>6, <1>8, <1>9, <1>10, <1>11, <1>12
     DEF DepartureInv, DepartureTypeOK, StopAlertedOnce, Ordered

LEMMA DepartureElapseKeeps == DepartureInv /\ DepartureElapse => DepartureInv'
<1> SUFFICES ASSUME DepartureInv, DepartureElapse PROVE DepartureInv'
  OBVIOUS
<1>1. \A age \in Ages : /\ Later(age) \in Ages /\ Later(age) >= age
                        /\ Later(age) = NotRunning <=> age = NotRunning
  BY StopCapIsEnough DEF Later, Ages, NotRunning
<1>2. \A a, b \in Ages, w \in Nat : Follows(a, b, w) => Follows(Later(a), Later(b), w)
  BY StopCapIsEnough DEF Follows, Later, Ages, NotRunning
<1>3. /\ dep \in Detectors /\ dep_history \in [stood : Ages, alerts : Nat]
  BY DEF DepartureInv, DepartureTypeOK
<1>4. /\ dep'.consumed = dep.consumed /\ dep'.green_armed = dep.green_armed
      /\ dep'.stopped = Later(dep.stopped) /\ dep'.seen = Later(dep.seen)
      /\ dep'.leaving = Later(dep.leaving) /\ dep'.opening = Later(dep.opening)
      /\ dep' \in Detectors
  <2> DEFINE shown == IF dep.shown = 0 THEN 0 ELSE dep.shown - 1
  <2>1. shown \in 0 .. AlertDisplay
    BY <1>3, DepartureAssumption DEF Detectors
  <2>2. dep' = [dep EXCEPT !.stopped = Later(dep.stopped), !.seen = Later(dep.seen),
                           !.leaving = Later(dep.leaving), !.opening = Later(dep.opening),
                           !.shown = shown]
    BY DEF DepartureElapse
  <2> HIDE DEF shown
  <2> QED BY <1>1, <1>3, <2>1, <2>2 DEF Detectors
<1>5. /\ dep_history'.stood = Later(dep_history.stood) /\ dep_history'.alerts = dep_history.alerts
      /\ dep_history' \in [stood : Ages, alerts : Nat]
  BY <1>1, <1>3 DEF DepartureElapse
<1>6. /\ dep.stopped \in Ages /\ dep.seen \in Ages /\ dep.leaving \in Ages /\ dep.opening \in Ages
      /\ dep_history.stood \in Ages
  BY <1>3 DEF Detectors
<1>7. TimersFollow(dep') /\ Follows(dep'.stopped, dep_history'.stood, 0)
  <2>1. /\ Follows(dep'.stopped, dep_history'.stood, 0)
        /\ Follows(dep'.seen, dep'.stopped, MinimumStop)
        /\ Follows(dep'.leaving, dep'.seen, LeadArm)
        /\ Follows(dep'.opening, dep'.stopped, SignalStop)
    BY <1>2, <1>4, <1>5, <1>6, DepartureAssumption DEF DepartureInv, TimersFollow
  <2>2. dep'.green_armed => dep'.stopped >= SignalStop
    BY <1>1, <1>4, <1>6, DepartureAssumption DEF DepartureInv, TimersFollow, Ages, NotRunning
  <2> QED BY <2>1, <2>2 DEF TimersFollow
<1>8. dep_fired' = dep_fired /\ dep_fired \in {"none", "lead", "green"}
  BY DEF DepartureElapse, DepartureInv, DepartureTypeOK
<1>9. dep_fired # "none" => dep_history'.stood >= StoodFor[dep_fired]
  BY <1>1, <1>5, <1>6, <1>8, StopCapIsEnough DEF DepartureInv, StopAlertedOnce, Ages, NotRunning
<1> QED BY <1>4, <1>5, <1>7, <1>8, <1>9 DEF DepartureInv, DepartureTypeOK, StopAlertedOnce

LEMMA DepartureInitially == DepartureInit => DepartureInv
BY StopCapIsEnough, DepartureAssumption
   DEF DepartureInit, DepartureInv, DepartureTypeOK, Detectors, Ages, NotRunning, TimersFollow,
       Follows, StopAlertedOnce

LEMMA DepartureStep == DepartureInv /\ [DepartureNext]_departureVars => DepartureInv'
<1> SUFFICES ASSUME DepartureInv, [DepartureNext]_departureVars PROVE DepartureInv'
  OBVIOUS
<1>1. CASE AnyDepartureTick
  <2>1. PICK in \in Inputs : DepartureTick(in.motion, in.updated, in.valid, in.lead, in.plan)
    BY <1>1 DEF AnyDepartureTick
  <2>2. /\ in.motion \in {"reset", "creep", "stand"} /\ in.updated \in BOOLEAN
        /\ in.valid \in BOOLEAN /\ in.lead \in {"absent", "present", "leaving"}
    BY DEF Inputs
  <2> QED BY <2>1, <2>2, DepartureTickKeeps
<1>2. CASE DepartureElapse
  BY <1>2, DepartureElapseKeeps
<1>3. CASE UNCHANGED departureVars
  BY <1>3 DEF departureVars, DepartureInv, DepartureTypeOK, StopAlertedOnce, TimersFollow, Follows
<1> QED BY <1>1, <1>2, <1>3 DEF DepartureNext

(* DepartureInv holds in every state. *)
THEOREM DepartureInvariant == DepartureSpec => []DepartureInv
BY DepartureInitially, DepartureStep, PTL DEF DepartureSpec

-----------------------------------------------------------------------------
(* The lane change                                                         *)

LaneType == [state : Off .. Finishing, side : {-1, 0, 1}, blinked : BOOLEAN,
             prob : 0 .. FadeSteps, timer : 0 .. ChangeTimeout + 2]

(* What a frame does to the lane change, apart from its timer: a change     *)
(* begins with a side and keeps it, and ends where it is cut off.           *)
Rules(in, s, d) ==
  /\ s >= Changing => /\ lane.state >= PreChange /\ lane.timer <= ChangeTimeout /\ d = lane.side
                      /\ lane.state >= Changing \/ d # 0
  /\ ~EdgeBlocks(in) /\ CutOff(in) => s = Off
  /\ lane.state = Off /\ (lane.blinked = TRUE \/ EdgeBlocks(in)) => s = Off

LEMMA NowFields ==
  ASSUME lane \in LaneType, NEW s \in Off .. Finishing, NEW d \in {-1, 0, 1},
         NEW p \in 0 .. FadeSteps, NEW n, n = Now(s, d, p)
  PROVE  n \in LaneType /\ n.state = s /\ n.side = d /\ n.prob = p /\ n.timer = lane.timer
BY DEF LaneType, Now

LEMMA TimedFields ==
  ASSUME NEW n \in LaneType, NEW t \in 0 .. ChangeTimeout + 2, NEW b \in BOOLEAN,
         NEW m, m = [n EXCEPT !.timer = t, !.blinked = b]
  PROVE  m \in LaneType /\ m.state = n.state /\ m.side = n.side /\ m.timer = t /\ m.blinked = b
BY DEF LaneType

LEMMA SteppedFields ==
  ASSUME LaneTypeOK, NEW in \in LaneInputs, NEW fade \in 1 .. 2
  PROVE  \E s \in Off .. Finishing, d \in {-1, 0, 1}, p \in 0 .. FadeSteps :
           Stepped(in, fade) = Now(s, d, p) /\ Rules(in, s, d)
<1>1. /\ lane \in LaneType
      /\ lane.state \in {0, 1, 2, 3} /\ lane.side \in {-1, 0, 1} /\ lane.prob \in 0 .. FadeSteps
      /\ lane.timer \in Nat
  BY LaneAssumption DEF LaneTypeOK, LaneType, Off, Finishing
<1> USE LaneAssumption DEF Off, PreChange, Changing, Finishing
<1>2. CASE EdgeBlocks(in) \/ CutOff(in)
  <2>1. Stepped(in, fade) = Now(0, 0, lane.prob)
    BY <1>2 DEF Stepped
  <2>2. Rules(in, 0, 0)
    BY DEF Rules
  <2> QED BY <1>1, <2>1, <2>2
<1>3. CASE ~EdgeBlocks(in) /\ ~CutOff(in)
  <2>1. Stepped(in, fade) = Advanced(in, fade) /\ lane.timer <= ChangeTimeout
    BY <1>1, <1>3 DEF Stepped, CutOff
  <2>2. CASE lane.state = 0
    <3>1. CASE OneBlinker(in) /\ ~lane.blinked /\ ~in.slow
      <4>1. Advanced(in, fade) = Now(1, SideNow(in), FadeSteps)
        BY <2>2, <3>1 DEF Advanced
      <4>2. SideNow(in) \in {-1, 0, 1}
        BY <1>1 DEF SideNow
      <4>3. Rules(in, 1, SideNow(in))
        BY <1>3, <3>1 DEF Rules
      <4> QED BY <2>1, <4>1, <4>2, <4>3
    <3>2. CASE ~(OneBlinker(in) /\ ~lane.blinked /\ ~in.slow)
      <4>1. Advanced(in, fade) = Now(0, lane.side, lane.prob)
        BY <2>2, <3>2 DEF Advanced
      <4>2. Rules(in, 0, lane.side)
        BY DEF Rules
      <4> QED BY <1>1, <2>1, <4>1, <4>2
    <3> QED BY <3>1, <3>2
  <2>3. CASE lane.state = 1
    <3>1. \/ Advanced(in, fade) = Now(0, lane.side, lane.prob)
          \/ Advanced(in, fade) = Now(1, lane.side, lane.prob)
          \/ Advanced(in, fade) = Now(2, lane.side, lane.prob) /\ lane.side # 0
      BY <2>3 DEF Advanced, TorqueApplied
    <3>2. /\ Rules(in, 0, lane.side) /\ Rules(in, 1, lane.side)
          /\ lane.side # 0 => Rules(in, 2, lane.side)
      BY <1>3, <2>1, <2>3 DEF Rules
    <3> QED BY <1>1, <2>1, <3>1, <3>2
  <2>4. CASE lane.state = 2
    <3>1. PICK s, p : /\ s = 2 \/ s = 3
                      /\ p = Less(lane.prob, fade)
                      /\ Advanced(in, fade) = Now(s, lane.side, p)
      BY <2>4 DEF Advanced
    <3>2. p \in 0 .. FadeSteps
      BY <1>1, <3>1 DEF Less
    <3>3. Rules(in, s, lane.side)
      BY <1>3, <2>1, <2>4, <3>1 DEF Rules
    <3> QED BY <1>1, <2>1, <3>1, <3>2, <3>3
  <2>5. CASE lane.state = 3
    <3>1. \/ Advanced(in, fade) = Now(3, lane.side, lane.prob + 2) /\ lane.prob + 2 < FadeSteps
          \/ Advanced(in, fade) = Now(1, lane.side, FadeSteps)
          \/ Advanced(in, fade) = Now(0, 0, FadeSteps)
      BY <2>5 DEF Advanced
    <3>2. Rules(in, 3, lane.side) /\ Rules(in, 1, lane.side) /\ Rules(in, 0, 0)
      BY <1>3, <2>1, <2>5 DEF Rules
    <3>3. FadeSteps \in 0 .. FadeSteps /\ (lane.prob + 2 < FadeSteps => lane.prob + 2 \in 0 .. FadeSteps)
      BY <1>1
    <3> QED BY <1>1, <2>1, <3>1, <3>2, <3>3
  <2> QED BY <1>1, <2>2, <2>3, <2>4, <2>5
<1> QED BY <1>2, <1>3

LEMMA LaneInitially == LaneInit => LaneInv
<1> SUFFICES ASSUME LaneInit PROVE LaneInv
  OBVIOUS
<1>1. /\ lane = [state |-> 0, side |-> 0, blinked |-> FALSE, prob |-> FadeSteps, timer |-> 0]
      /\ route = [buffer |-> FALSE, mix |-> MixSteps] /\ failures = 0
  BY DEF LaneInit, Off
<1>2. FadeSteps \in 0 .. FadeSteps /\ 0 \in 0 .. ChangeTimeout + 2 /\ MixSteps \in 0 .. MixSteps
  BY LaneAssumption
<1>3. lane \in LaneType /\ lane.state = 0 /\ lane.timer = 0
  BY <1>1, <1>2 DEF LaneType, Off, Finishing
<1>4. route \in [buffer : BOOLEAN, mix : 0 .. MixSteps]
  BY <1>1, <1>2
<1>5. LaneTypeOK
  <2>1. solution \in BOOLEAN /\ cancelled \in BOOLEAN
    BY Zenon DEF LaneInit
  <2>2. failures \in 0 .. 2
    BY <1>1
  <2> QED BY <1>3, <1>4, <2>1, <2>2 DEF LaneTypeOK, LaneType
<1>6. DesireEndsInTime /\ ~cancelled
  BY <1>3, LaneAssumption DEF DesireEndsInTime, LaneInit, Changing
<1> QED BY <1>5, <1>6 DEF LaneInv

LEMMA PlanKeeps ==
  ASSUME LaneInv, NEW in \in LaneInputs, NEW fade \in 1 .. 2, NEW laneless \in BOOLEAN,
         NEW bad \in BOOLEAN, NEW probability,
         Plan(in, fade, laneless, probability, bad)
  PROVE  /\ LaneInv'
         /\ Desire # "none" => Desire' \in {Desire, "none"}
<1> USE LaneAssumption DEF Off, PreChange, Changing, Finishing
<1>1. /\ LaneTypeOK /\ lane \in LaneType
      /\ lane.state \in 0 .. 3 /\ lane.timer \in Nat
      /\ lane.state >= 2 => lane.side # 0
      /\ cancelled => lane.state = 0 /\ lane.blinked = TRUE
  BY DEF LaneInv, LaneTypeOK, LaneType, DesireEndsInTime, Desire, Change
<1>2. PICK s \in 0 .. 3, d \in {-1, 0, 1}, p \in 0 .. FadeSteps :
        Stepped(in, fade) = Now(s, d, p) /\ Rules(in, s, d)
  BY <1>1, SteppedFields
<1>3. PICK t : t = Timer(s)
  OBVIOUS
<1>4. t \in 0 .. ChangeTimeout + 1 /\ (s < 2 => t = 0) /\ (s >= 2 => t >= 1)
  BY <1>1, <1>2, <1>3 DEF Timer, Rules
<1>5. PICK b \in BOOLEAN : b = Blinked(in)
  BY DEF Blinked
<1>6. PICK n : n = Now(s, d, p)
  OBVIOUS
<1>7. n \in LaneType /\ n.state = s /\ n.side = d
  BY <1>1, <1>6, NowFields
<1>8. lane' = [n EXCEPT !.timer = t, !.blinked = b]
  BY <1>2, <1>3, <1>5, <1>6, <1>7 DEF Plan, LaneChanged
<1>9. /\ lane' \in LaneType /\ lane'.state = s /\ lane'.side = d
      /\ lane'.timer = t /\ lane'.blinked = b
  <2>1. t \in 0 .. ChangeTimeout + 2
    BY <1>4
  <2>2. PICK m : m = [n EXCEPT !.timer = t, !.blinked = b]
    OBVIOUS
  <2>3. m \in LaneType /\ m.state = n.state /\ m.side = n.side /\ m.timer = t /\ m.blinked = b
    BY <1>5, <1>7, <2>1, <2>2 DEF LaneType
  <2>4. lane' = m
    BY <1>8, <2>2
  <2> QED BY <1>7, <2>3, <2>4
<1>10. /\ s >= 2 => d # 0
       /\ s >= 2 /\ lane.state >= 2 => d = lane.side
  BY <1>1, <1>2 DEF Rules
<1>11. DesireEndsInTime' /\ (Desire # "none" => Desire' \in {Desire, "none"})
  BY <1>1, <1>4, <1>9, <1>10 DEF DesireEndsInTime, Desire, Change
<1>12. cancelled' = ((\/ ~EdgeBlocks(in) /\ CutOff(in) /\ lane.state >= 2
                      \/ cancelled) /\ OneBlinker(in) /\ ~EdgeBlocks(in))
  BY DEF Plan
<1>13. cancelled' \in BOOLEAN
  BY <1>12, Zenon
<1>14. cancelled' => s = 0 /\ b = TRUE
  <2>1. CASE ~EdgeBlocks(in) /\ CutOff(in) /\ lane.state >= 2
    BY <1>2, <1>5, <1>12, <2>1 DEF Rules, Blinked
  <2>2. CASE cancelled
    BY <1>1, <1>2, <1>5, <1>12, <2>2 DEF Rules, Blinked
  <2> QED BY <1>12, <2>1, <2>2
<1>15. route' \in [buffer : BOOLEAN, mix : 0 .. MixSteps]
  <2>1. route.mix \in 0 .. MixSteps
    BY <1>1 DEF LaneTypeOK
  <2>2. PICK m : m = Mix(UsesModelPath(laneless, probability, lane'.state))
    OBVIOUS
  <2>3. m \in 0 .. MixSteps
    BY <2>1, <2>2 DEF Mix, Less
  <2>4. PICK f \in BOOLEAN : f = Buffer(laneless, probability, lane'.state)
    BY DEF Buffer
  <2>5. route' = [buffer |-> f, mix |-> m]
    BY <2>2, <2>4 DEF Plan
  <2> QED BY <2>3, <2>5
<1>16. failures' \in 0 .. 2 /\ solution' \in BOOLEAN
  BY <1>1 DEF Plan, FailureCount, LaneTypeOK
<1>17. LaneTypeOK'
  BY <1>9, <1>13, <1>15, <1>16 DEF LaneTypeOK, LaneType
<1> QED BY <1>9, <1>11, <1>14, <1>17 DEF LaneInv

LEMMA LaneStep ==
  ASSUME LaneInv, [LaneNext]_laneVars
  PROVE  /\ LaneInv'
         /\ Desire # "none" => Desire' \in {Desire, "none"}
<1>1. CASE AnyPlan
  <2>1. PICK in \in LaneInputs, fade \in 1 .. 2 :
          \E laneless, bad \in BOOLEAN, probability \in {"low", "between", "high"} :
            Plan(in, fade, laneless, probability, bad)
    BY <1>1, Zenon DEF AnyPlan
  <2>2. PICK laneless \in BOOLEAN, bad \in BOOLEAN, probability \in {"low", "between", "high"} :
          Plan(in, fade, laneless, probability, bad)
    BY <2>1, Zenon
  <2> QED BY <2>2, PlanKeeps
<1>2. CASE NoPlan \/ UNCHANGED laneVars
  <2>1. UNCHANGED <<lane, route, failures, solution, cancelled>>
    BY <1>2 DEF NoPlan, laneVars
  <2> QED BY <2>1 DEF LaneInv, LaneTypeOK, DesireEndsInTime, Desire
<1> QED BY <1>1, <1>2 DEF LaneNext

(* The inductive invariant of the lane change holds in every state. *)
THEOREM LaneInvariant == LaneSpec => []LaneInv
<1>1. LaneInv /\ [LaneNext]_laneVars => LaneInv'
  BY LaneStep
<1> QED BY LaneInitially, <1>1, PTL DEF LaneSpec

(* One change does not turn into the opposite one. *)
THEOREM LaneNoSwerve == LaneSpec => NoSwerve
<1>1. LaneInv /\ [LaneNext]_laneVars => [Desire # "none" => Desire' \in {Desire, "none"}]_laneVars
  BY LaneStep
<1> QED BY LaneInvariant, <1>1, PTL DEF LaneSpec, NoSwerve

-----------------------------------------------------------------------------
(* The steering command                                                    *)

(* Products of natural numbers. *)
LEMMA ProductGrows ==
  ASSUME NEW a \in Nat, NEW b \in Nat, NEW c \in Nat, a <= b
  PROVE  a * c \in Nat /\ b * c \in Nat /\ a * c <= b * c
<1>1. b * c = a * c + (b - a) * c
  OBVIOUS
<1>2. (b - a) * c >= 0
  OBVIOUS
<1> QED BY <1>1, <1>2

LEMMA FactorCancels ==
  ASSUME NEW f \in Nat \ {0}, NEW u \in Nat, NEW v \in Nat, f * u <= f * v
  PROVE  u <= v
<1>1. SUFFICES ASSUME v + 1 <= u PROVE FALSE
  OBVIOUS
<1>2. (v + 1) * f <= u * f
  BY <1>1, ProductGrows
<1> QED BY <1>2

LEMMA Constants ==
  /\ SteerMax \in Nat \ {0} /\ DeltaUp \in Nat \ {0} /\ DeltaDown \in Nat \ {0}
  /\ DriverTorque \in Nat \ {0} /\ FadeTop \in Nat \ {0} /\ FadeBack \in Nat \ {0}
  /\ CounterValues \in Nat \ {0}
  /\ DriverAllowance \in Nat /\ DriverMultiplier \in Nat /\ MaxFaultFrames \in Nat
  /\ RampMargin \in Nat /\ CutFrames \in Nat
  /\ RampFrames \in Nat \ {0} /\ RampFrames <= MaxFaultFrames + 1
  /\ Most(1, CutFrames) \in Nat \ {0}
BY SteeringAssumption DEF RampFrames, Most

(* lround() of a faded, ramped torque: the line of the ramp and half a unit. *)
LEMMA ScaledUnderRamp ==
  ASSUME NEW asked \in SteerTorques, NEW fade \in 0 .. FadeTop, NEW ramp \in 0 .. RampFrames,
         NEW scaled, scaled = Scaled(asked, fade * ramp, FadeTop * RampFrames)
  PROVE  scaled \in Int /\ 2 * RampFrames * Magnitude(scaled) <= 2 * SteerMax * ramp + RampFrames
<1> USE Constants
<1>1. PICK m \in 0 .. SteerMax : m = Magnitude(asked)
  BY DEF Magnitude, Most, SteerTorques
<1>2. PICK num \in Nat : num = fade * ramp
  OBVIOUS
<1>3. PICK den \in Nat \ {0} : den = FadeTop * RampFrames
  OBVIOUS
<1>4. PICK x \in Nat : x = 2 * m * num + den
  BY <1>1, <1>2, <1>3
<1>5. PICK q : q = x \div (2 * den)
  OBVIOUS
<1>6. q \in Nat /\ (2 * den) * q <= x
  BY <1>4, <1>5, <1>3
<1>7. PICK sr \in Nat : sr = SteerMax * ramp
  OBVIOUS
<1>8. m * num <= sr * FadeTop
  <2>1. m * num <= SteerMax * num
    BY <1>1, <1>2, ProductGrows
  <2>2. num <= FadeTop * ramp
    BY <1>2, ProductGrows
  <2>3. num * SteerMax <= (FadeTop * ramp) * SteerMax
    BY <1>2, <2>2, ProductGrows
  <2>4. (FadeTop * ramp) * SteerMax = sr * FadeTop
    BY <1>7
  <2> QED BY <1>1, <1>2, <1>7, <2>1, <2>3, <2>4
<1>9. PICK u \in Nat, v \in Nat : u = 2 * RampFrames * q /\ v = 2 * sr + RampFrames
  BY <1>6, <1>7
<1>10. FadeTop * u <= FadeTop * v
  <2>1. FadeTop * u = (2 * den) * q
    BY <1>3, <1>6, <1>9
  <2>2. FadeTop * v = 2 * (sr * FadeTop) + den
    BY <1>3, <1>7, <1>9
  <2>3. x <= 2 * (sr * FadeTop) + den
    <3>1. PICK y \in Nat, z \in Nat : y = m * num /\ z = sr * FadeTop
      BY <1>1, <1>2, <1>7
    <3>2. x = 2 * y + den
      BY <1>1, <1>2, <1>4, <3>1
    <3> QED BY <1>3, <1>4, <1>8, <3>1, <3>2
  <2> QED BY <1>3, <1>4, <1>6, <1>7, <1>9, <2>1, <2>2, <2>3
<1>11. u <= v
  BY <1>9, <1>10, FactorCancels
<1>12. scaled = IF asked < 0 THEN -q ELSE q
  BY <1>1, <1>2, <1>3, <1>4, <1>5 DEF Scaled
<1>13. scaled \in Int /\ Magnitude(scaled) = q
  BY <1>6, <1>12 DEF Magnitude, Most, SteerTorques
<1> QED BY <1>7, <1>9, <1>11, <1>13

(* The limits on a step: no torque beyond the wanted one but where the last *)
(* one is not down yet.                                                     *)
LEMMA LimitedFollows ==
  ASSUME NEW desired \in Int, NEW last \in SteerTorques, NEW driver \in Int,
         NEW torque, torque = Limited(desired, last, driver)
  PROVE  /\ torque \in SteerTorques
         /\ \/ Magnitude(torque) <= Magnitude(desired)
            \/ Magnitude(torque) <= Magnitude(last) - DeltaDown
<1> USE Constants DEF SteerTorques
<1>1. PICK a, b : /\ a = (DriverAllowance + driver) * DriverMultiplier
                  /\ b = (-DriverAllowance + driver) * DriverMultiplier
  OBVIOUS
<1>2. a \in Int /\ b \in Int
  BY <1>1
<1>3. PICK lo, hi : /\ lo = Least(Most(-SteerMax, -SteerMax + b), 0)
                    /\ hi = Most(Least(SteerMax, SteerMax + a), 0)
  OBVIOUS
<1>4. lo \in -SteerMax .. 0 /\ hi \in 0 .. SteerMax
  BY <1>2, <1>3 DEF Least, Most
<1>5. PICK allowed : allowed = Between(desired, lo, hi)
  OBVIOUS
<1>6. allowed \in SteerTorques /\ Magnitude(allowed) <= Magnitude(desired)
  BY <1>4, <1>5 DEF Between, Least, Most, Magnitude
<1>7. torque = IF last > 0 THEN Between(allowed, Most(last - DeltaDown, -DeltaUp), last + DeltaUp)
               ELSE Between(allowed, last - DeltaUp, Least(last + DeltaDown, DeltaUp))
  BY <1>1, <1>3, <1>5 DEF Limited
<1> HIDE DEF SteerTorques
<1>8. /\ torque \in SteerTorques
      /\ \/ Magnitude(torque) <= Magnitude(allowed)
         \/ Magnitude(torque) <= Magnitude(last) - DeltaDown
  BY <1>6, <1>7 DEF Between, Least, Most, Magnitude, SteerTorques
<1> QED BY <1>6, <1>8 DEF Magnitude, Most, SteerTorques

LEMMA NaturalMagnitude == \A x \in Int : Magnitude(x) \in Nat /\ (x = 0 <=> Magnitude(x) = 0)
BY DEF Magnitude, Most

LEMMA LeastIs == \A a, b \in Int : a <= b => Least(a, b) = a
BY DEF Least

LEMMA SteeringInitially == SteeringInit => SteeringInv
<1> SUFFICES ASSUME SteeringInit PROVE SteeringInv
  OBVIOUS
<1> USE Constants
<1>1. /\ avoid \in BOOLEAN /\ last_torque = 0 /\ angle_limit = 0 /\ fault_frames = 0
      /\ cut_frames = 0 /\ fade_timer = FadeTop /\ lkas_counter = 0 /\ asked_above = 0
  BY DEF SteeringInit
<1>2. cut_steer \in BOOLEAN /\ lkas_valid \in BOOLEAN
  BY Zenon DEF SteeringInit
<1>3. lkas_frame = NothingSent /\ lkas_frame.count = -1
  BY DEF SteeringInit, NothingSent
<1>4. NothingSent \in [torque : SteerTorques, request : BOOLEAN, toi : BOOLEAN,
                       count : -1 .. CounterValues - 1]
  BY DEF NothingSent, SteerTorques
<1>5. SteeringTypeOK
  BY <1>1, <1>2, <1>3, <1>4 DEF SteeringTypeOK, SteerTorques, LongAsked
<1>6. CounterIsNext /\ RampCounts
  BY <1>1, <1>3 DEF CounterIsNext, RampCounts, Least
<1>7. TorqueUnderRamp
  <2>1. Magnitude(0) = 0
    BY NaturalMagnitude
  <2>2. 2 * SteerMax * (RampFrames - fault_frames) \in Nat
    BY <1>1
  <2>3. 2 * RampFrames * 0 = 0
    OBVIOUS
  <2> QED BY <1>1, <2>1, <2>2, <2>3 DEF TorqueUnderRamp
<1> QED BY <1>5, <1>6, <1>7 DEF SteeringInv

(* The cut and the frames that lead to it. *)
LEMMA CutKept ==
  ASSUME SteeringTypeOK, NEW steers \in BOOLEAN, NEW reset \in BOOLEAN, NEW above \in BOOLEAN,
         NEW errors \in Nat, steers => ~reset,
         CutSteer(steers, reset, above, errors), fault_frames' = FaultFrames(steers, above)
  PROVE  /\ cut_steer' \in BOOLEAN /\ angle_limit' \in 0 .. MaxFaultFrames
         /\ cut_frames' \in 0 .. Most(1, CutFrames) /\ fault_frames' \in 0 .. RampFrames
         /\ RampCounts => RampCounts'
         /\ RampCounts /\ avoid /\ cut_steer' /\ ~cut_steer /\ steers => fault_frames' = RampFrames
<1> USE Constants
<1>1. PICK limit \in 0 .. MaxFaultFrames : limit = Kept(reset, angle_limit)
  BY DEF Kept, SteeringTypeOK
<1> DEFINE counted == IF avoid /\ steers /\ above THEN limit + 1 ELSE 0
           over == IF avoid THEN counted > MaxFaultFrames ELSE errors > MaxFaultFrames
<1>2. counted = IF avoid /\ steers /\ above THEN limit + 1 ELSE 0
  OBVIOUS
<1>3. PICK kept \in 0 .. Most(1, CutFrames) : kept = Kept(reset, cut_frames)
  BY DEF Kept, SteeringTypeOK
<1>4. avoid => (over <=> counted > MaxFaultFrames)
  OBVIOUS
<1> DEFINE spent == kept >= Most(1, CutFrames)
<1>6. /\ cut_steer' = (over \/ (cut_steer /\ ~reset /\ ~spent))
      /\ angle_limit' = IF cut_steer' THEN 0 ELSE counted
      /\ cut_frames' = IF ~cut_steer' THEN (IF spent THEN 0 ELSE kept)
                       ELSE Least(kept + 1, Most(1, CutFrames))
  BY <1>1, <1>3 DEF CutSteer
<1> HIDE DEF counted, over, spent
<1>7. cut_steer' \in BOOLEAN
  BY <1>6, Zenon
<1>8. angle_limit' \in 0 .. MaxFaultFrames
  BY <1>1, <1>2, <1>4, <1>6, <1>7
<1>9. cut_frames' \in 0 .. Most(1, CutFrames)
  BY <1>3, <1>6 DEF Least
<1>10. fault_frames' \in 0 .. RampFrames
  BY DEF FaultFrames, Least, SteeringTypeOK
<1>11. ASSUME RampCounts PROVE RampCounts'
  <2>1. CASE cut_steer' \/ ~(avoid /\ steers /\ above)
    BY <1>2, <1>6, <1>10, <2>1 DEF RampCounts, Least
  <2>2. CASE ~cut_steer' /\ avoid /\ steers /\ above
    <3>1. limit = angle_limit /\ angle_limit' = angle_limit + 1
      BY <1>1, <1>2, <1>6, <2>2 DEF Kept
    <3> QED BY <1>11, <2>2, <3>1 DEF RampCounts, FaultFrames, Least, SteeringTypeOK
  <2> QED BY <2>1, <2>2
<1>12. ASSUME RampCounts, avoid, cut_steer', ~cut_steer, steers PROVE fault_frames' = RampFrames
  <2>1. above /\ limit = angle_limit /\ angle_limit = MaxFaultFrames
    BY <1>1, <1>2, <1>4, <1>6, <1>12 DEF Kept
  <2> QED BY <1>12, <2>1 DEF RampCounts, FaultFrames, Least, SteeringTypeOK
<1> QED BY <1>7, <1>8, <1>9, <1>10, <1>11, <1>12

(* The torque stays under the line of the ramp. *)
LEMMA TorqueKept ==
  ASSUME NEW asked \in SteerTorques, NEW last \in SteerTorques, NEW driver \in Int,
         NEW fade \in 0 .. FadeTop, NEW ramp \in 0 .. RampFrames, NEW before \in 0 .. RampFrames,
         before <= ramp + 1,
         NEW desired, desired = Scaled(asked, fade * ramp, FadeTop * RampFrames),
         NEW torque, torque = Limited(desired, last, driver)
  PROVE  /\ torque \in SteerTorques
         /\ RampIsLong /\ 2 * RampFrames * Magnitude(last) <= 2 * SteerMax * before + RampFrames
              => 2 * RampFrames * Magnitude(torque) <= 2 * SteerMax * ramp + RampFrames
<1> USE Constants
<1>1. desired \in Int /\ 2 * RampFrames * Magnitude(desired) <= 2 * SteerMax * ramp + RampFrames
  BY ScaledUnderRamp
<1>2. /\ torque \in SteerTorques
      /\ \/ Magnitude(torque) <= Magnitude(desired)
         \/ Magnitude(torque) <= Magnitude(last) - DeltaDown
  BY <1>1, LimitedFollows
<1>3. PICK m, n, k : m = Magnitude(torque) /\ n = Magnitude(desired) /\ k = Magnitude(last)
  OBVIOUS
<1>4. m \in Nat /\ n \in Nat /\ k \in Nat
  BY <1>1, <1>2, <1>3, NaturalMagnitude DEF SteerTorques
<1>5. ASSUME RampIsLong, 2 * RampFrames * k <= 2 * SteerMax * before + RampFrames
      PROVE  2 * RampFrames * m <= 2 * SteerMax * ramp + RampFrames
  <2>1. CASE m <= n
    <3>1. RampFrames * m <= RampFrames * n
      BY <1>4, <2>1, ProductGrows
    <3>2. PICK x, y, line : x = RampFrames * m /\ y = RampFrames * n
                            /\ line = 2 * SteerMax * ramp + RampFrames
      OBVIOUS
    <3>3. x \in Nat /\ y \in Nat /\ line \in Nat /\ 2 * RampFrames * m = 2 * x /\ 2 * RampFrames * n = 2 * y
      BY <1>4, <3>2
    <3>4. 2 * y <= line
      BY <1>1, <1>3, <3>2, <3>3
    <3> QED BY <3>1, <3>2, <3>3, <3>4
  <2>2. CASE m <= k - DeltaDown
    <3>1. RampFrames * m <= RampFrames * (k - DeltaDown)
      <4>1. PICK j \in Nat : j = k - DeltaDown
        BY <1>4, <2>2
      <4> QED BY <1>4, <2>2, <4>1, ProductGrows
    <3>2. PICK x, y, z : x = RampFrames * m /\ y = RampFrames * k /\ z = DeltaDown * RampFrames
      OBVIOUS
    <3>3. /\ x \in Nat /\ y \in Nat /\ z \in Nat
          /\ x <= y - z /\ 2 * RampFrames * m = 2 * x /\ 2 * RampFrames * k = 2 * y
      BY <1>4, <3>1, <3>2
    <3>4. SteerMax <= z
      BY <1>5, <3>2 DEF RampIsLong
    <3>5. SteerMax * before <= SteerMax * (ramp + 1)
      BY ProductGrows
    <3>6. PICK c, e : c = SteerMax * before /\ e = SteerMax * ramp
      OBVIOUS
    <3>7. /\ c \in Nat /\ e \in Nat /\ c <= e + SteerMax
          /\ 2 * SteerMax * before = 2 * c /\ 2 * SteerMax * ramp = 2 * e
      BY <3>5, <3>6
    <3>8. 2 * y <= 2 * c + RampFrames
      BY <1>5, <3>3, <3>7
    <3>9. 2 * x <= 2 * e + RampFrames
      BY <3>3, <3>4, <3>7, <3>8
    <3> QED BY <3>3, <3>7, <3>9
  <2> QED BY <1>2, <1>3, <2>1, <2>2
<1> QED BY <1>2, <1>3, <1>5

(* The ramp of a tick that steers is what its counted frames leave. *)
LEMMA DesiredIs ==
  ASSUME NEW asked, NEW above \in BOOLEAN, NEW frames \in 0 .. RampFrames, ~above => frames = 0
  PROVE  Desired(asked, above, frames) = Scaled(asked, fade_timer * (RampFrames - frames), FadeTop * RampFrames)
<1>1. (IF above THEN RampFrames - Least(frames, RampFrames) ELSE RampFrames) = RampFrames - frames
  <2>1. Least(frames, RampFrames) = frames
    BY LeastIs, Constants
  <2>2. CASE above
    BY <2>1, <2>2
  <2>3. CASE ~above
    BY <2>3, Constants
  <2> QED BY <2>2, <2>3
<1> QED BY <1>1 DEF Desired

(* The torque of a tick. *)
LEMMA TorqueOfTick ==
  ASSUME SteeringTypeOK, NEW state \in States, NEW asked \in SteerTorques, NEW above \in BOOLEAN,
         NEW driver \in Int, NEW steers, steers = (state = "active"),
         fault_frames' = FaultFrames(steers, above),
         last_torque' = IF steers THEN Limited(Desired(asked, above, fault_frames'), last_torque, driver)
                        ELSE 0
  PROVE  /\ last_torque' \in SteerTorques
         /\ RampIsLong /\ TorqueUnderRamp => TorqueUnderRamp'
<1>0. fault_frames \in 0 .. RampFrames /\ fade_timer \in 0 .. FadeTop /\ last_torque \in SteerTorques
  BY DEF SteeringTypeOK
<1>1. CASE state # "active"
  <2>1. last_torque' = 0 /\ fault_frames' = 0
    BY <1>1 DEF FaultFrames
  <2>2. Magnitude(0) = 0 /\ 2 * RampFrames * 0 = 0 /\ 2 * SteerMax * (RampFrames - 0) + RampFrames >= 0
    BY NaturalMagnitude, Constants
  <2> QED BY <2>1, <2>2, Constants DEF TorqueUnderRamp, SteerTorques
<1>2. CASE state = "active"
  <2>1. PICK f, t : f = fault_frames' /\ t = last_torque'
    OBVIOUS
  <2>2. f \in 0 .. RampFrames /\ f <= fault_frames + 1 /\ (~above => f = 0)
    BY <1>0, <2>1, Constants DEF FaultFrames, Least
  <2>3. PICK ramp : ramp = RampFrames - f
    OBVIOUS
  <2>4. PICK before : before = RampFrames - fault_frames
    OBVIOUS
  <2>5. ramp \in 0 .. RampFrames /\ before \in 0 .. RampFrames /\ before <= ramp + 1
    BY <1>0, <2>2, <2>3, <2>4, Constants
  <2>6. PICK desired : desired = Scaled(asked, fade_timer * ramp, FadeTop * RampFrames)
    OBVIOUS
  <2>7. desired = Desired(asked, above, f)
    BY <2>2, <2>3, <2>6, DesiredIs
  <2>8. t = Limited(desired, last_torque, driver)
    BY <1>2, <2>1, <2>7
  <2>9. /\ t \in SteerTorques
        /\ RampIsLong /\ 2 * RampFrames * Magnitude(last_torque) <= 2 * SteerMax * before + RampFrames
             => 2 * RampFrames * Magnitude(t) <= 2 * SteerMax * ramp + RampFrames
    BY <1>0, <2>5, <2>6, <2>8, TorqueKept
  <2> QED BY <2>1, <2>3, <2>4, <2>9 DEF TorqueUnderRamp
<1> QED BY <1>1, <1>2

(* The frame and its counter. *)
LEMMA CounterKept ==
  ASSUME SteeringTypeOK, CounterIsNext, NEW state \in States, NEW seed \in 0 .. CounterValues - 1,
         NEW count, count = CountedFrom(seed),
         cut_steer' \in BOOLEAN, last_torque' \in SteerTorques,
         lkas_frame' = Sent(state, last_torque', count),
         lkas_valid' = Counting(state),
         lkas_counter' = IF state = "silent" THEN 0 ELSE (count + 1) % CounterValues
  PROVE  /\ lkas_valid' \in BOOLEAN /\ lkas_counter' \in 0 .. CounterValues - 1
         /\ lkas_frame' \in [torque : SteerTorques, request : BOOLEAN, toi : BOOLEAN,
                             count : -1 .. CounterValues - 1]
         /\ CounterIsNext'
         /\ lkas_frame.count >= 0 /\ lkas_frame'.count >= 0
              => lkas_frame'.count = (lkas_frame.count + 1) % CounterValues
         /\ lkas_frame'.torque = last_torque' \/ lkas_frame'.torque = 0
<1>1. lkas_valid' \in BOOLEAN
  BY Zenon DEF Counting
<1>2. count \in 0 .. CounterValues - 1 /\ (count + 1) % CounterValues \in 0 .. CounterValues - 1
  <2>1. \A n \in Nat : n % CounterValues \in 0 .. CounterValues - 1
    BY Constants
  <2>2. lkas_counter \in 0 .. CounterValues - 1
    BY DEF SteeringTypeOK
  <2>3. count \in 0 .. CounterValues - 1
    BY <2>1, <2>2, Constants DEF CountedFrom
  <2> QED BY <2>1, <2>3, Constants
<1>3. CASE state = "silent"
  <2>1. lkas_frame' = NothingSent /\ lkas_counter' = 0
    BY <1>3 DEF Sent
  <2>2. lkas_frame'.count = -1 /\ lkas_frame'.torque = 0
    BY <2>1 DEF NothingSent
  <2>3. NothingSent \in [torque : SteerTorques, request : BOOLEAN, toi : BOOLEAN,
                         count : -1 .. CounterValues - 1]
    BY Constants DEF NothingSent, SteerTorques
  <2> QED BY <1>1, <2>1, <2>2, <2>3, Constants DEF CounterIsNext
<1>4. CASE state # "silent"
  <2> DEFINE asks == state \in {"active", "hold"} /\ ~cut_steer'
  <2>0. asks \in BOOLEAN
    BY Zenon
  <2>1. lkas_frame' = [torque |-> last_torque', count |-> count, toi |-> cut_steer', request |-> asks]
    BY <1>4 DEF Sent
  <2> HIDE DEF asks
  <2>2. /\ lkas_frame' \in [torque : SteerTorques, request : BOOLEAN, toi : BOOLEAN,
                            count : -1 .. CounterValues - 1]
        /\ lkas_frame'.count = count /\ lkas_frame'.torque = last_torque'
    <3>1. count \in -1 .. CounterValues - 1
      BY <1>2, Constants
    <3> QED BY <2>0, <2>1, <3>1
  <2>3. lkas_valid' = TRUE /\ lkas_counter' = (count + 1) % CounterValues
    BY <1>4 DEF Counting
  <2>4. CounterIsNext'
    BY <2>2, <2>3 DEF CounterIsNext
  <2>5. lkas_frame.count >= 0 => count = (lkas_frame.count + 1) % CounterValues
    BY DEF CounterIsNext, CountedFrom
  <2> QED BY <1>1, <1>2, <2>2, <2>3, <2>4, <2>5
<1> QED BY <1>3, <1>4

LEMMA SteerTickKeeps ==
  ASSUME SteeringInv, NEW state \in States, NEW reset \in BOOLEAN, NEW above \in BOOLEAN,
         NEW asked \in SteerTorques, NEW driver \in Int, NEW errors \in Nat,
         NEW seed \in 0 .. CounterValues - 1, state = "active" => reset = FALSE,
         SteerTick(state, reset, above, asked, driver, errors, seed)
  PROVE  /\ SteeringInv'
         /\ RampIsLong /\ avoid /\ cut_steer' /\ ~cut_steer => lkas_frame'.torque = 0
         /\ lkas_frame.count >= 0 /\ lkas_frame'.count >= 0
              => lkas_frame'.count = (lkas_frame.count + 1) % CounterValues
<1> DEFINE steers == state = "active"
<1>1. PICK count : count = CountedFrom(seed)
  OBVIOUS
<1>2. /\ CutSteer(steers, reset, above, errors)
      /\ fault_frames' = FaultFrames(steers, above)
      /\ last_torque' = IF steers THEN Limited(Desired(asked, above, fault_frames'), last_torque, driver)
                        ELSE 0
      /\ lkas_frame' = Sent(state, last_torque', count)
      /\ lkas_valid' = Counting(state)
      /\ lkas_counter' = IF state = "silent" THEN 0 ELSE (count + 1) % CounterValues
      /\ fade_timer' = Faded(reset, driver)
      /\ asked_above' = IF lkas_frame'.request /\ above THEN Least(asked_above + 1, LongAsked) ELSE 0
      /\ avoid' = avoid
  BY <1>1 DEF SteerTick
<1>3. SteeringTypeOK /\ CounterIsNext /\ RampCounts /\ (RampIsLong => TorqueUnderRamp)
  BY DEF SteeringInv
<1>4. /\ cut_steer' \in BOOLEAN /\ angle_limit' \in 0 .. MaxFaultFrames
      /\ cut_frames' \in 0 .. Most(1, CutFrames) /\ fault_frames' \in 0 .. RampFrames
      /\ RampCounts'
      /\ avoid /\ cut_steer' /\ ~cut_steer /\ steers => fault_frames' = RampFrames
  BY <1>2, <1>3, CutKept
<1>5. /\ last_torque' \in SteerTorques
      /\ RampIsLong => TorqueUnderRamp'
  BY <1>2, <1>3, TorqueOfTick
<1>6. /\ lkas_valid' \in BOOLEAN /\ lkas_counter' \in 0 .. CounterValues - 1
      /\ lkas_frame' \in [torque : SteerTorques, request : BOOLEAN, toi : BOOLEAN,
                          count : -1 .. CounterValues - 1]
      /\ CounterIsNext'
      /\ lkas_frame.count >= 0 /\ lkas_frame'.count >= 0
           => lkas_frame'.count = (lkas_frame.count + 1) % CounterValues
      /\ lkas_frame'.torque = last_torque' \/ lkas_frame'.torque = 0
  BY <1>1, <1>2, <1>3, <1>4, <1>5, CounterKept
<1>7. fade_timer' \in 0 .. FadeTop
  <2>1. fade_timer \in 0 .. FadeTop /\ FadeTop \in Nat /\ FadeBack \in Nat
    BY <1>3, Constants DEF SteeringTypeOK
  <2> QED BY <1>2, <2>1 DEF Faded, Most, Least
<1>8. asked_above' \in 0 .. LongAsked
  <2>1. asked_above \in 0 .. LongAsked /\ LongAsked \in Nat
    BY <1>3, Constants DEF SteeringTypeOK, LongAsked
  <2>2. Least(asked_above + 1, LongAsked) \in 0 .. LongAsked
    BY <2>1 DEF Least
  <2> QED BY <1>2, <2>1, <2>2
<1>9. SteeringTypeOK'
  BY <1>2, <1>3, <1>4, <1>5, <1>6, <1>7, <1>8 DEF SteeringTypeOK
<1>10. ASSUME RampIsLong, avoid, cut_steer', ~cut_steer PROVE lkas_frame'.torque = 0
  <2>1. CASE state # "active"
    BY <1>2, <1>6, <2>1
  <2>2. CASE state = "active"
    <3>1. fault_frames' = RampFrames
      BY <1>4, <1>10, <2>2
    <3>2. PICK m : m = Magnitude(last_torque')
      OBVIOUS
    <3>3. m \in Nat /\ (m = 0 => last_torque' = 0)
      BY <1>5, <3>2, NaturalMagnitude DEF SteerTorques
    <3>4. 2 * RampFrames * m <= RampFrames
      <4>1. 2 * RampFrames * m <= 2 * SteerMax * (RampFrames - RampFrames) + RampFrames
        BY <1>5, <1>10, <3>1, <3>2 DEF TorqueUnderRamp
      <4> QED BY <3>3, <4>1, Constants
    <3>5. m = 0
      <4>1. CASE m >= 1
        <5>1. 1 * RampFrames <= m * RampFrames
          BY <3>3, <4>1, ProductGrows, Constants
        <5>2. PICK x : x = m * RampFrames
          OBVIOUS
        <5>3. x \in Nat /\ 2 * RampFrames * m = 2 * x
          BY <3>3, <5>2, Constants
        <5> QED BY <3>4, <5>1, <5>2, <5>3, Constants
      <4> QED BY <3>3, <4>1
    <3> QED BY <1>6, <3>3, <3>5
  <2> QED BY <2>1, <2>2
<1> QED BY <1>3, <1>4, <1>5, <1>6, <1>9, <1>10 DEF SteeringInv

LEMMA SteeringStep ==
  ASSUME SteeringInv, [AnySteerTick]_steeringVars
  PROVE  /\ SteeringInv'
         /\ UNCHANGED steeringVars \/
            (/\ RampIsLong /\ avoid /\ cut_steer' /\ ~cut_steer => lkas_frame'.torque = 0
             /\ lkas_frame.count >= 0 /\ lkas_frame'.count >= 0
                  => lkas_frame'.count = (lkas_frame.count + 1) % CounterValues)
<1>1. CASE AnySteerTick
  <2>1. PICK state \in States, above \in BOOLEAN, driver \in {-DriverTorque, 0, DriverTorque},
             seed \in 0 .. CounterValues - 1, errors \in {0, MaxFaultFrames + 1} :
          \E reset \in (IF state = "active" THEN {FALSE} ELSE BOOLEAN),
             asked \in (IF state = "active" THEN SteerTorques ELSE {0}) :
            /\ lkas_valid => seed = 0
            /\ avoid => errors = 0
            /\ SteerTick(state, reset, above, asked, driver, errors, seed)
    BY <1>1, Zenon DEF AnySteerTick
  <2>2. PICK reset \in (IF state = "active" THEN {FALSE} ELSE BOOLEAN),
             asked \in (IF state = "active" THEN SteerTorques ELSE {0}) :
          SteerTick(state, reset, above, asked, driver, errors, seed)
    BY <2>1, Zenon
  <2>3. driver \in Int /\ errors \in Nat /\ asked \in SteerTorques
    BY Constants DEF SteerTorques
  <2>4. reset \in BOOLEAN /\ (state = "active" => reset = FALSE)
    BY Zenon
  <2> QED BY <2>2, <2>3, <2>4, SteerTickKeeps
<1>2. CASE UNCHANGED steeringVars
  BY <1>2 DEF steeringVars, cutVars, SteeringInv, SteeringTypeOK, CounterIsNext, RampCounts, TorqueUnderRamp
<1> QED BY <1>1, <1>2

(* The inductive invariant of the steering command holds in every state. *)
THEOREM SteeringInvariant == SteeringSpec => []SteeringInv
<1>1. SteeringInv /\ [AnySteerTick]_steeringVars => SteeringInv'
  BY SteeringStep
<1> QED BY SteeringInitially, <1>1, PTL DEF SteeringSpec

(* A cut that the angle forces begins without torque, when a ramp is long   *)
(* enough for the limits; the counter never jumps.                          *)
THEOREM SteeringIsSteady == SteeringSpec => CutBeginsAtZero /\ CounterKeepsStep
<1>1. SteeringInv /\ [AnySteerTick]_steeringVars
        => /\ [RampIsLong /\ avoid /\ cut_steer' /\ ~cut_steer => lkas_frame'.torque = 0]_steeringVars
           /\ [lkas_frame.count >= 0 /\ lkas_frame'.count >= 0
                 => lkas_frame'.count = (lkas_frame.count + 1) % CounterValues]_steeringVars
  BY SteeringStep
<1> QED BY SteeringInvariant, <1>1, PTL DEF SteeringSpec, CutBeginsAtZero, CounterKeepsStep

-----------------------------------------------------------------------------
(* The cruise                                                              *)

LEMMA CruiseConstants ==
  /\ CruiseTop \in Nat \ {0} /\ LeadHold \in Nat \ {0} /\ CommandInterval \in Nat \ {0}
  /\ PulseFrames \in Nat \ {0} /\ AccelRelease \in Nat \ {0} /\ CruiseTeardown \in Nat \ {0}
  /\ DriverSettle \in Nat \ {0} /\ MismatchHold \in Nat \ {0} /\ Backoff \in Nat \ {0}
  /\ MismatchSteps \in Nat /\ LeadRestore \in Nat /\ LeadCap \in Nat
  /\ SlowInterval \in Nat /\ SlowInterval >= CommandInterval
  /\ Never = -1
  /\ CommandCap \in Nat /\ CommandCap >= SlowInterval
  /\ HistoryCap \in Nat /\ HistoryCap >= SlowInterval
  /\ Patience \in Nat /\ Patience <= CommandInterval /\ Patience <= DriverSettle
BY CruiseAssumption DEF Never, CommandCap, HistoryCap, LeadCap, LongestOf, Patience

CruiseInputs ==
  [enabled : BOOLEAN, cruise_on : BOOLEAN, main : BOOLEAN, driver : BOOLEAN, accelerator : BOOLEAN,
   permitted : BOOLEAN, steady : BOOLEAN, lead : BOOLEAN, set_speed : 0 .. CruiseTop,
   cluster : 0 .. CruiseTop, wanted : 1 .. CruiseTop]

Ready(c, in) == in.enabled /\ in.cruise_on /\ ~MainPressed(c, in)

(* What holds between the stages of update(). *)
Staged(c, in, driver) ==
  /\ c \in Controllers /\ c.main = acc.main
  /\ DriverIsAwaited(c, driver)
  /\ acc_age.set < SlowInterval => \/ c.session /\ c.was_set /\ c.command <= acc_age.set
                                   \/ ~c.session /\ ~Ready(c, in)
  /\ c.button = acc.button \/ c.button = "none"

LEMMA PedalSeen ==
  ASSUME CruiseInv, NEW in \in CruiseInputs, NEW c, c = Before(acc, in)
  PROVE  Staged(c, in, acc_age.driver)
<1> USE CruiseConstants
<1>1. /\ c \in Controllers
      /\ c.main = acc.main /\ c.session = acc.session /\ c.maximum = acc.maximum
      /\ c.commanded = acc.commanded /\ c.command = acc.command /\ c.adjusting = acc.adjusting
      /\ c.was_set = acc.was_set /\ c.button = acc.button
  BY DEF CruiseInv, CruiseTypeOK, Controllers, Before
<1> QED BY <1>1 DEF CruiseInv, Staged, DriverIsAwaited, SetIsRemembered

LEMMA Cleared ==
  ASSUME NEW c \in Controllers, NEW n, n = WithoutSession(c)
  PROVE  n \in Controllers /\ n.main = c.main /\ n.button = c.button /\ n.session = FALSE
<1>1. /\ 0 \in 0 .. CruiseTop /\ Never \in Never .. LeadCap /\ Never \in Never .. MismatchHold
      /\ 0 \in 0 .. Backoff /\ 0 \in 0 .. DriverSettle
  BY CruiseConstants
<1>2. PICK f \in BOOLEAN : f = FALSE
  OBVIOUS
<1>3. PICK z : z = 0
  OBVIOUS
<1>4. n = [c EXCEPT !.session = f, !.maximum = z, !.commanded = z, !.lead = Never, !.reanchor = f,
            !.mismatch = Never, !.backoff = z, !.adjusting = z, !.was_set = f]
  BY <1>2, <1>3 DEF WithoutSession
<1>5. n.main = c.main /\ n.button = c.button /\ n.session = f
  BY <1>4 DEF Controllers
<1>6. n \in Controllers
  BY <1>1, <1>3, <1>4 DEF Controllers
<1> QED BY <1>2, <1>5, <1>6

LEMMA SessionTornDown ==
  ASSUME NEW in \in CruiseInputs, NEW c, NEW driver \in Nat, Staged(c, in, driver), NEW n, n = TornDown(c, in)
  PROVE  Staged(n, in, driver)
<1> USE CruiseConstants
<1> DEFINE off == IF in.cruise_on THEN Never ELSE IF c.off = Never THEN 0 ELSE c.off
           over == ~in.enabled \/ MainPressed(c, in) \/ off >= CruiseTeardown
           left == [c EXCEPT !.off = off]
<1>1. n = IF over THEN WithoutSession(left) ELSE left
  BY DEF TornDown
<1>2. off \in Never .. CruiseTeardown /\ (in.cruise_on => off = Never)
  BY DEF Staged, Controllers
<1>3. over => ~Ready(c, in)
  BY <1>2 DEF Ready
<1> HIDE DEF off, over
<1>4. /\ left \in Controllers
      /\ left.main = c.main /\ left.session = c.session /\ left.maximum = c.maximum
      /\ left.commanded = c.commanded /\ left.command = c.command /\ left.adjusting = c.adjusting
      /\ left.was_set = c.was_set /\ left.button = c.button
  BY <1>2 DEF Staged, Controllers
<1> HIDE DEF left
<1>5. CASE over
  <2>1. /\ n \in Controllers /\ n.main = left.main /\ n.button = left.button
        /\ n.session = FALSE
    BY <1>1, <1>4, <1>5, Cleared
  <2> QED BY <1>3, <1>4, <1>5, <2>1 DEF Staged, DriverIsAwaited, Ready, MainPressed
<1>6. CASE ~over
  <2>1. n = left
    BY <1>1, <1>6
  <2> QED BY <1>4, <2>1 DEF Staged, DriverIsAwaited, Ready, MainPressed
<1> QED BY <1>5, <1>6

(* The records that the stages write keep their type. *)
LEMMA AdjustingTyped ==
  ASSUME NEW c \in Controllers, NEW n, n = [c EXCEPT !.adjusting = DriverSettle, !.reanchor = TRUE]
  PROVE  /\ n \in Controllers
         /\ n.main = c.main /\ n.session = c.session /\ n.maximum = c.maximum
         /\ n.commanded = c.commanded /\ n.command = c.command /\ n.adjusting = DriverSettle
         /\ n.was_set = c.was_set /\ n.button = c.button
<1>1. PICK t \in BOOLEAN : t = TRUE
  OBVIOUS
<1>2. PICK s \in 0 .. DriverSettle : s = DriverSettle
  BY CruiseConstants
<1>3. n = [c EXCEPT !.adjusting = s, !.reanchor = t]
  BY <1>1, <1>2
<1>4. /\ n.main = c.main /\ n.session = c.session /\ n.maximum = c.maximum
      /\ n.commanded = c.commanded /\ n.command = c.command /\ n.adjusting = s
      /\ n.was_set = c.was_set /\ n.button = c.button
  BY <1>3 DEF Controllers
<1>5. n \in Controllers
  BY <1>1, <1>2, <1>3 DEF Controllers
<1> QED BY <1>2, <1>4, <1>5

LEMMA BegunTyped ==
  ASSUME NEW c \in Controllers, NEW in \in CruiseInputs, NEW n, n = Begun(c, in),
         Ready(c, in) /\ ~c.session /\ in.set_speed > 0
  PROVE  /\ n \in Controllers
         /\ n.main = c.main /\ n.session = TRUE
         /\ n.maximum = in.set_speed /\ n.commanded = in.set_speed
         /\ n.command = 0 /\ n.button = "none" /\ in.set_speed \in 1 .. CruiseTop
<1>0. PICK v \in 1 .. CruiseTop : v = in.set_speed
  BY CruiseConstants DEF CruiseInputs
<1>1. PICK t \in BOOLEAN, f \in BOOLEAN : t = TRUE /\ f = FALSE
  OBVIOUS
<1>2. PICK z \in Never .. CommandCap : z = 0
  BY CruiseConstants
<1>3. PICK k \in 0 .. PulseFrames : k = 0
  BY CruiseConstants
<1>4. PICK b \in 0 .. Backoff : b = 0
  BY CruiseConstants
<1>5. PICK m \in Never .. MismatchHold : m = Never
  BY CruiseConstants
<1>6. PICK o \in {"none", "set", "resume"} : o = "none"
  OBVIOUS
<1>7. PICK w \in 0 .. CruiseTop : w = v
  BY CruiseConstants
<1>8. n = [c EXCEPT !.session = t, !.maximum = w, !.commanded = w,
                    !.command = z, !.was_set = f, !.button = o, !.frames = k,
                    !.reanchor = f, !.mismatch = m, !.backoff = b]
  BY <1>0, <1>1, <1>2, <1>3, <1>4, <1>5, <1>6, <1>7 DEF Begun, Ready
<1>9. /\ n.main = c.main /\ n.session = t /\ n.maximum = w /\ n.commanded = w
      /\ n.command = z /\ n.button = o
  BY <1>8 DEF Controllers
<1>10. n \in Controllers
  BY <1>8 DEF Controllers
<1> QED BY <1>0, <1>1, <1>2, <1>6, <1>7, <1>9, <1>10

LEMMA PulseTyped ==
  ASSUME NEW c \in Controllers, NEW b \in {"none", "set", "resume"}, NEW was \in BOOLEAN,
         NEW v \in 0 .. CruiseTop, NEW z \in Never .. CommandCap, NEW k \in 0 .. PulseFrames,
         NEW m \in Never .. MismatchHold,
         NEW n, n = [c EXCEPT !.button = b, !.was_set = was, !.commanded = v,
                              !.command = z, !.frames = k, !.mismatch = m]
  PROVE  n \in Controllers
BY DEF Controllers

LEMMA ReanchoredTyped ==
  ASSUME NEW c \in Controllers, NEW f \in BOOLEAN, NEW v \in 0 .. CruiseTop, NEW m \in Never .. MismatchHold,
         NEW z, z \in Never .. CommandCap, z \in 0 .. Backoff,
         NEW n, n = [c EXCEPT !.commanded = v, !.maximum = v, !.reanchor = f,
                      !.mismatch = m, !.backoff = z, !.command = z]
  PROVE  n \in Controllers
BY DEF Controllers

LEMMA DriverTracked ==
  ASSUME NEW in \in CruiseInputs, NEW c, NEW driver \in Nat, Staged(c, in, driver), NEW n, n = Tracked(c, in),
         NEW later, later = IF in.driver THEN 0 ELSE driver
  PROVE  Staged(n, in, later) /\ later \in Nat
<1> USE CruiseConstants
<1>1. CASE in.driver /\ c.session
  <2>1. c \in Controllers /\ n = [c EXCEPT !.adjusting = DriverSettle, !.reanchor = TRUE]
    BY <1>1 DEF Tracked, Staged
  <2>2. /\ n \in Controllers
        /\ n.main = c.main /\ n.session = c.session /\ n.maximum = c.maximum
        /\ n.commanded = c.commanded /\ n.command = c.command /\ n.adjusting = DriverSettle
        /\ n.was_set = c.was_set /\ n.button = c.button
    BY <2>1, AdjustingTyped
  <2>3. later = 0
    BY <1>1
  <2> QED BY <2>2, <2>3 DEF Staged, DriverIsAwaited, Ready, MainPressed
<1>2. CASE ~in.driver \/ ~c.session
  <2>1. n = c
    BY <1>2 DEF Tracked
  <2> QED BY <1>2, <2>1 DEF Staged, DriverIsAwaited
<1> QED BY <1>1, <1>2

LEMMA SessionBegun ==
  ASSUME NEW in \in CruiseInputs, NEW c, NEW driver \in Nat, Staged(c, in, driver), NEW n, n = Begun(c, in)
  PROVE  Staged(n, in, driver)
<1> USE CruiseConstants
<1>1. CASE Ready(c, in) /\ ~c.session /\ in.set_speed > 0
  <2>1. c \in Controllers
    BY DEF Staged
  <2>3. /\ n \in Controllers
        /\ n.main = c.main /\ n.session = TRUE
        /\ n.maximum = in.set_speed /\ n.commanded = in.set_speed
        /\ n.command = 0 /\ n.button = "none" /\ in.set_speed \in 1 .. CruiseTop
    BY <1>1, <2>1, BegunTyped
  <2> QED BY <1>1, <2>1, <2>3 DEF Staged, DriverIsAwaited
<1>2. CASE ~(Ready(c, in) /\ ~c.session /\ in.set_speed > 0)
  <2>1. n = c
    BY <1>2 DEF Begun, Ready
  <2> QED BY <2>1
<1> QED BY <1>1, <1>2

LEMMA SpeedReanchored ==
  ASSUME NEW in \in CruiseInputs, NEW c, NEW driver \in Nat, Staged(c, in, driver), NEW n, n = Reanchored(c, in),
         acc_age.set \in Nat
  PROVE  Staged(n, in, driver)
<1> USE CruiseConstants
<1> DEFINE ready == /\ c.session /\ in.cruise_on /\ c.reanchor /\ c.adjusting = 0 /\ ~in.driver
                    /\ in.cluster > 0 /\ in.steady
<1>1. CASE ready
  <2>1. PICK v \in 1 .. CruiseTop : v = in.cluster
    BY <1>1 DEF CruiseInputs
  <2>2. PICK f \in BOOLEAN, z \in {0} : f = FALSE
    OBVIOUS
  <2>3. n = [c EXCEPT !.commanded = v, !.maximum = v, !.reanchor = f,
                      !.mismatch = Never, !.backoff = z, !.command = z]
    BY <1>1, <2>1, <2>2 DEF Reanchored
  <2>4. /\ v \in 0 .. CruiseTop /\ z \in Never .. CommandCap
        /\ Never \in Never .. MismatchHold /\ z \in 0 .. Backoff
    BY <2>2
  <2>5. c \in Controllers
    BY DEF Staged
  <2>6. /\ n.main = c.main /\ n.session = c.session /\ n.maximum = v /\ n.commanded = v
        /\ n.command = z /\ n.button = c.button /\ n.was_set = c.was_set
    BY <2>3, <2>5 DEF Controllers
  <2>7. n \in Controllers
    BY <2>2, <2>3, <2>4, <2>5, ReanchoredTyped
  <2> QED BY <1>1, <2>1, <2>2, <2>6, <2>7 DEF Staged, DriverIsAwaited
<1>2. CASE ~ready
  <2>1. n = c
    BY <1>2 DEF Reanchored
  <2> QED BY <2>1
<1> QED BY <1>1, <1>2

LEMMA MismatchResolved ==
  ASSUME NEW in \in CruiseInputs, NEW c, NEW driver \in Nat, Staged(c, in, driver), NEW n, n = Resolved(c, in)
  PROVE  Staged(n, in, driver)
<1> USE CruiseConstants
<1>0. c \in Controllers
  BY DEF Staged
<1> DEFINE judged == /\ c.session /\ in.cruise_on /\ in.cluster > 0
                     /\ c.adjusting = 0 /\ c.frames = 0 /\ c.command >= MismatchHold
           apart == in.cluster - c.commanded \notin -MismatchSteps .. MismatchSteps
           since == IF c.mismatch = Never THEN 0 ELSE c.mismatch
           speed == IF in.cluster > c.maximum THEN c.maximum ELSE in.cluster
           wait == IF in.cluster > c.commanded THEN Backoff ELSE c.backoff
<1>1. \/ n = c
      \/ n = [c EXCEPT !.mismatch = Never]
      \/ n = [c EXCEPT !.mismatch = since] /\ since < MismatchHold
      \/ judged /\ n = [c EXCEPT !.backoff = wait, !.commanded = speed, !.mismatch = Never]
  BY DEF Resolved
<1>2. since \in 0 .. MismatchHold /\ wait \in 0 .. Backoff
  BY <1>0 DEF Controllers
<1>3. judged => speed \in 1 .. c.maximum /\ speed \in 0 .. CruiseTop /\ c.session
  BY <1>0 DEF Staged, DriverIsAwaited, Controllers, CruiseInputs
<1> HIDE DEF judged, apart, since, speed, wait
<1>4. CASE \E m \in Never .. MismatchHold : n = c \/ n = [c EXCEPT !.mismatch = m]
  <2>1. PICK m \in Never .. MismatchHold : n = c \/ n = [c EXCEPT !.mismatch = m]
    BY <1>4
  <2>2. /\ n \in Controllers
        /\ n.main = c.main /\ n.session = c.session /\ n.maximum = c.maximum
        /\ n.commanded = c.commanded /\ n.command = c.command /\ n.adjusting = c.adjusting
        /\ n.was_set = c.was_set /\ n.button = c.button
    BY <1>0, <2>1 DEF Controllers
  <2> QED BY <2>2 DEF Staged, DriverIsAwaited, Ready, MainPressed
<1>5. CASE judged /\ n = [c EXCEPT !.backoff = wait, !.commanded = speed, !.mismatch = Never]
  <2>0. Never \in Never .. MismatchHold
    OBVIOUS
  <2>1. /\ n \in Controllers
        /\ n.main = c.main /\ n.session = c.session /\ n.maximum = c.maximum
        /\ n.commanded = speed /\ n.command = c.command /\ n.adjusting = c.adjusting
        /\ n.was_set = c.was_set /\ n.button = c.button
    BY <1>0, <1>2, <1>3, <1>5, <2>0 DEF Controllers
  <2> QED BY <1>3, <1>5, <2>1 DEF Staged, DriverIsAwaited, Ready, MainPressed
<1>6. Never \in Never .. MismatchHold /\ since \in Never .. MismatchHold
  BY <1>2
<1> QED BY <1>1, <1>4, <1>5, <1>6

LEMMA LeadSeen ==
  ASSUME NEW in \in CruiseInputs, NEW c, NEW driver \in Nat, Staged(c, in, driver), NEW n, n = Watched(c, in)
  PROVE  Staged(n, in, driver)
<1> USE CruiseConstants
<1>1. n = c \/ n = [c EXCEPT !.lead = 0]
  BY DEF Watched
<1>2. /\ n \in Controllers
      /\ n.main = c.main /\ n.session = c.session /\ n.maximum = c.maximum
      /\ n.commanded = c.commanded /\ n.command = c.command /\ n.adjusting = c.adjusting
      /\ n.was_set = c.was_set /\ n.button = c.button
  BY <1>1 DEF Staged, Controllers
<1> QED BY <1>2 DEF Staged, DriverIsAwaited, Ready, MainPressed

LEMMA TargetInRange ==
  ASSUME NEW in \in CruiseInputs, NEW c, NEW driver, Staged(c, in, driver), c.session
  PROVE  TargetSpeed(c, in) \in 1 .. c.maximum
<1>1. /\ in.wanted \in 1 .. CruiseTop /\ c.maximum \in 0 .. CruiseTop /\ c.maximum >= 1
      /\ c.commanded \in 1 .. c.maximum
  BY CruiseConstants DEF Staged, DriverIsAwaited, Controllers, CruiseInputs
<1> QED BY <1>1, CruiseConstants DEF TargetSpeed

(* A pulse begins only when the last command, and with it the driver's own  *)
(* press, is old enough; and it stays in the range of the session.          *)
LEMMA PulsePaced ==
  ASSUME NEW in \in CruiseInputs, NEW c, NEW driver \in Nat, Staged(c, in, driver),
         NEW set \in 0 .. HistoryCap, set = acc_age.set,
         ~in.driver /\ acc.button # "none" => driver >= Patience,
         NEW target, c.session => target \in 1 .. c.maximum,
         NEW n, n = Paced(c, in, target),
         NEW later, later = IF n.commanded < c.commanded THEN 0
                            ELSE IF n.session THEN set ELSE HistoryCap
  PROVE  /\ n \in Controllers /\ later \in 0 .. HistoryCap
         /\ DriverIsAwaited(n, driver) /\ SetIsRemembered(n, later)
         /\ n.button # "none" => n.session /\ driver >= Patience
         /\ acc.button = "none" /\ n.button # "none" => set >= SlowInterval
<1> USE CruiseConstants
<1>0. /\ c \in Controllers /\ DriverIsAwaited(c, driver)
      /\ set < SlowInterval /\ c.session => c.was_set /\ c.command <= set
      /\ c.button = acc.button \/ c.button = "none"
  BY DEF Staged
<1>1. ASSUME NEW k \in 0 .. PulseFrames, NEW b \in {"none", "set", "resume"},
             n = [c EXCEPT !.button = b, !.frames = k],
             b # "none" => c.session /\ driver >= Patience /\ b = acc.button
      PROVE  /\ n \in Controllers /\ later \in 0 .. HistoryCap
             /\ DriverIsAwaited(n, driver) /\ SetIsRemembered(n, later)
             /\ n.button # "none" => n.session /\ driver >= Patience
             /\ acc.button = "none" /\ n.button # "none" => set >= SlowInterval
  <2>1. /\ n \in Controllers
        /\ n.session = c.session /\ n.maximum = c.maximum
        /\ n.commanded = c.commanded /\ n.command = c.command /\ n.adjusting = c.adjusting
        /\ n.was_set = c.was_set /\ n.button = b
    BY <1>0, <1>1 DEF Controllers
  <2>2. c.commanded \in 0 .. CruiseTop
    BY <1>0 DEF Controllers
  <2>3. later = IF n.session THEN set ELSE HistoryCap
    BY <2>1, <2>2
  <2>4. DriverIsAwaited(n, driver)
    BY <1>0, <2>1 DEF DriverIsAwaited
  <2>5. SetIsRemembered(n, later)
    BY <1>0, <2>1, <2>3 DEF SetIsRemembered
  <2> QED BY <1>1, <2>1, <2>3, <2>4, <2>5
<1>2. CASE ~CommandAllowed(c, in)
  <2>1. n = [c EXCEPT !.button = "none", !.frames = 0]
    BY <1>2 DEF Paced
  <2>2. 0 \in 0 .. PulseFrames /\ "none" \in {"none", "set", "resume"}
    OBVIOUS
  <2> QED BY <1>1, <2>1, <2>2
<1>3. CASE CommandAllowed(c, in) /\ c.frames > 0
  <2>1. n = [c EXCEPT !.frames = c.frames - 1]
    BY <1>3 DEF Paced
  <2>2. c.frames - 1 \in 0 .. PulseFrames /\ c.button \in {"none", "set", "resume"}
    BY <1>0, <1>3 DEF Controllers
  <2>3. n = [c EXCEPT !.button = c.button, !.frames = c.frames - 1]
    BY <1>0, <2>1 DEF Controllers
  <2>4. c.session /\ ~in.driver
    BY <1>3 DEF CommandAllowed
  <2> QED BY <1>0, <1>1, <2>2, <2>3, <2>4
<1>4. CASE CommandAllowed(c, in) /\ ~(c.frames > 0)
  <2>0. c.session
    BY <1>4 DEF CommandAllowed
  <2>1. CASE ButtonFor(c, target) = "none"
    <3>1. n = [c EXCEPT !.button = "none"]
      BY <1>4, <2>1 DEF Paced
    <3>2. c.frames \in 0 .. PulseFrames /\ "none" \in {"none", "set", "resume"}
      BY <1>0 DEF Controllers
    <3>3. n = [c EXCEPT !.button = "none", !.frames = c.frames]
      BY <1>0, <3>1 DEF Controllers
    <3> QED BY <1>1, <3>2, <3>3
  <2>2. CASE ButtonFor(c, target) # "none"
    <3>1. PICK b \in {"set", "resume"} : b = ButtonFor(c, target)
      BY <2>2 DEF ButtonFor
    <3>2. /\ IntervalReady(c)
          /\ b = "set" => target < c.commanded
          /\ b = "resume" => target > c.commanded
      BY <2>2, <3>1 DEF ButtonFor
    <3>3. /\ c.maximum \in 0 .. CruiseTop /\ c.commanded \in 1 .. c.maximum /\ c.command \in Nat
          /\ c.command >= CommandInterval /\ (c.was_set => c.command >= SlowInterval)
      BY <1>0, <2>0, <3>2 DEF IntervalReady, DriverIsAwaited, Controllers
    <3>4. driver >= Patience
      <4>1. c.adjusting = 0
        BY <1>4 DEF CommandAllowed
      <4> QED BY <1>0, <2>0, <3>3, <4>1 DEF DriverIsAwaited
    <3>5. set >= SlowInterval
      BY <1>0, <2>0, <3>3
    <3>6. PICK v : v = c.commanded + IF b = "set" THEN -1 ELSE 1
      OBVIOUS
    <3>7. /\ v \in 1 .. c.maximum /\ v \in 0 .. CruiseTop
          /\ v < c.commanded <=> b = "set"
      BY <2>0, <3>2, <3>3, <3>6
    <3>8. PICK was \in BOOLEAN : was = (b = "set")
      OBVIOUS
    <3>9. PICK z \in Never .. CommandCap : z = 0
      OBVIOUS
    <3>10. PICK k \in 0 .. PulseFrames : k = PulseFrames - 1
      OBVIOUS
    <3>11. PICK m \in Never .. MismatchHold : m = Never
      OBVIOUS
    <3>12. n = [c EXCEPT !.button = b, !.was_set = was, !.commanded = v,
                         !.command = z, !.frames = k, !.mismatch = m]
      BY <1>4, <2>2, <3>1, <3>6, <3>8, <3>9, <3>10, <3>11 DEF Paced
    <3>13. n \in Controllers
      <4>1. b \in {"none", "set", "resume"} /\ v \in 0 .. CruiseTop
        BY <3>7
      <4> QED BY <1>0, <3>12, <4>1, PulseTyped
    <3>14. /\ n.session = c.session /\ n.maximum = c.maximum /\ n.commanded = v
           /\ n.command = z /\ n.was_set = was /\ n.button = b
      BY <1>0, <3>12 DEF Controllers
    <3>15. DriverIsAwaited(n, driver)
      BY <1>0, <2>0, <3>4, <3>7, <3>9, <3>14 DEF DriverIsAwaited
    <3>16. later = IF b = "set" THEN 0 ELSE set
      BY <2>0, <3>7, <3>14
    <3>17. SetIsRemembered(n, later)
      <4>1. CASE b = "set"
        <5>1. was = TRUE /\ later = 0 /\ n.command = 0
          BY <3>8, <3>9, <3>14, <3>16, <4>1
        <5>2. n.was_set = TRUE /\ n.session
          BY <2>0, <3>14, <5>1
        <5> QED BY <5>1, <5>2 DEF SetIsRemembered
      <4>2. CASE b # "set"
        BY <3>5, <3>16, <4>2 DEF SetIsRemembered
      <4> QED BY <4>1, <4>2
    <3> QED BY <2>0, <3>4, <3>5, <3>13, <3>14, <3>15, <3>16, <3>17
  <2> QED BY <2>1, <2>2
<1> QED BY <1>2, <1>3, <1>4

LEMMA UpdateKeeps ==
  ASSUME CruiseInv, NEW in \in CruiseInputs, Update(in)
  PROVE  /\ CruiseInv'
         /\ acc.button = "none" /\ acc'.button # "none" => acc_age.set >= SlowInterval
<1> USE CruiseConstants
<1>0. PICK driver \in 0 .. HistoryCap, set \in 0 .. HistoryCap : driver = acc_age.driver /\ set = acc_age.set
  BY DEF CruiseInv, CruiseTypeOK
<1>1. PICK c1 : c1 = Before(acc, in)
  OBVIOUS
<1>2. PICK c2 : c2 = TornDown(c1, in)
  OBVIOUS
<1>3. PICK c3 : c3 = Tracked(c2, in)
  OBVIOUS
<1>4. PICK c4 : c4 = Begun(c3, in)
  OBVIOUS
<1>5. PICK c5 : c5 = Reanchored(c4, in)
  OBVIOUS
<1>6. PICK c6 : c6 = Resolved(c5, in)
  OBVIOUS
<1>7. PICK c : c = Watched(c6, in)
  OBVIOUS
<1>8. PICK later : later = IF in.driver THEN 0 ELSE driver
  OBVIOUS
<1>9. Staged(c2, in, driver)
  <2>1. Staged(c1, in, driver)
    BY <1>0, <1>1, PedalSeen
  <2> QED BY <1>2, <2>1, SessionTornDown
<1>10. Staged(c3, in, later) /\ later \in Nat
  BY <1>3, <1>8, <1>9, DriverTracked
<1>11. Staged(c, in, later)
  <2>1. Staged(c4, in, later)
    BY <1>4, <1>10, SessionBegun
  <2>2. Staged(c5, in, later)
    <3>1. acc_age.set \in Nat
      BY <1>0
    <3> QED BY <1>5, <1>10, <2>1, <3>1, SpeedReanchored
  <2>3. Staged(c6, in, later)
    BY <1>6, <1>10, <2>2, MismatchResolved
  <2> QED BY <1>7, <1>10, <2>3, LeadSeen
<1>12. PICK target : target = TargetSpeed(c, in)
  OBVIOUS
<1>13. c.session => target \in 1 .. c.maximum
  BY <1>11, <1>12, TargetInRange
<1>14. PICK n : n = Paced(c, in, target)
  OBVIOUS
<1>15. PICK since : since = IF n.commanded < c.commanded THEN 0 ELSE IF n.session THEN set ELSE HistoryCap
  OBVIOUS
<1>16. ~in.driver /\ acc.button # "none" => later >= Patience
  BY <1>0, <1>8 DEF CruiseInv, LeavesDriverAlone
<1>17. /\ n \in Controllers /\ since \in 0 .. HistoryCap
       /\ DriverIsAwaited(n, later) /\ SetIsRemembered(n, since)
       /\ n.button # "none" => n.session /\ later >= Patience
       /\ acc.button = "none" /\ n.button # "none" => set >= SlowInterval
  BY <1>0, <1>10, <1>11, <1>13, <1>14, <1>15, <1>16, PulsePaced
<1>18. PICK main \in BOOLEAN : main = in.main
  BY DEF CruiseInputs
<1>19. acc' = [n EXCEPT !.main = main] /\ acc_age' = [driver |-> later, set |-> since]
  <2>1. c = Steered(acc, in)
    BY <1>1, <1>2, <1>3, <1>4, <1>5, <1>6, <1>7 DEF Steered
  <2> QED BY <1>0, <1>8, <1>12, <1>14, <1>15, <1>18, <2>1 DEF Update
<1>20. /\ acc' \in Controllers
       /\ acc'.session = n.session /\ acc'.maximum = n.maximum /\ acc'.commanded = n.commanded
       /\ acc'.command = n.command /\ acc'.adjusting = n.adjusting /\ acc'.was_set = n.was_set
       /\ acc'.button = n.button
  BY <1>17, <1>19 DEF Controllers
<1>21. later \in 0 .. HistoryCap /\ acc_age'.driver = later /\ acc_age'.set = since
  BY <1>0, <1>8, <1>19
<1>22. CruiseTypeOK'
  BY <1>17, <1>19, <1>20, <1>21 DEF CruiseTypeOK
<1>23. DriverIsAwaited(acc', later) /\ SetIsRemembered(acc', since)
  BY <1>17, <1>20 DEF DriverIsAwaited, SetIsRemembered
<1>24. LeavesDriverAlone' /\ (acc'.button # "none" => acc'.session)
  BY <1>17, <1>20, <1>21 DEF LeavesDriverAlone, DriverIsAwaited
<1> QED BY <1>0, <1>17, <1>20, <1>21, <1>22, <1>23, <1>24 DEF CruiseInv

LEMMA CruiseElapseKeeps ==
  ASSUME CruiseInv, CruiseElapse
  PROVE  CruiseInv' /\ acc'.button = acc.button
<1> USE CruiseConstants
<1>0. /\ acc \in Controllers /\ acc_age \in [driver : 0 .. HistoryCap, set : 0 .. HistoryCap]
      /\ DriverIsAwaited(acc, acc_age.driver) /\ SetIsRemembered(acc, acc_age.set)
      /\ acc.button # "none" => acc.session /\ acc_age.driver >= Patience
  BY DEF CruiseInv, CruiseTypeOK, LeavesDriverAlone
<1>1. PICK lead \in Never .. LeadCap : lead = Aged(acc.lead, LeadCap)
  BY <1>0 DEF Controllers, Aged
<1>2. PICK command \in Never .. CommandCap : command = Aged(acc.command, CommandCap)
  BY <1>0 DEF Controllers, Aged
<1>3. PICK accelerator \in 0 .. AccelRelease : accelerator = Aged(acc.accelerator, AccelRelease)
  BY <1>0 DEF Controllers, Aged
<1>4. PICK off \in Never .. CruiseTeardown : off = Aged(acc.off, CruiseTeardown)
  BY <1>0 DEF Controllers, Aged
<1>5. PICK adjusting \in 0 .. DriverSettle : adjusting = Remaining(acc.adjusting)
  BY <1>0 DEF Controllers, Remaining
<1>6. PICK mismatch \in Never .. MismatchHold : mismatch = Aged(acc.mismatch, MismatchHold)
  BY <1>0 DEF Controllers, Aged
<1>7. PICK backoff \in 0 .. Backoff : backoff = Remaining(acc.backoff)
  BY <1>0 DEF Controllers, Remaining
<1>8. PICK driver \in 0 .. HistoryCap, set \in 0 .. HistoryCap :
        driver = Aged(acc_age.driver, HistoryCap) /\ set = Aged(acc_age.set, HistoryCap)
  BY <1>0 DEF Aged
<1>9. /\ acc' = [acc EXCEPT !.lead = lead, !.command = command, !.accelerator = accelerator,
                            !.off = off, !.adjusting = adjusting, !.mismatch = mismatch,
                            !.backoff = backoff]
      /\ acc_age' = [driver |-> driver, set |-> set]
  BY <1>0, <1>1, <1>2, <1>3, <1>4, <1>5, <1>6, <1>7, <1>8 DEF CruiseElapse, Controllers
<1>10. acc' \in Controllers
  BY <1>0, <1>9 DEF Controllers
<1>11. /\ acc'.session = acc.session /\ acc'.maximum = acc.maximum /\ acc'.commanded = acc.commanded
       /\ acc'.command = command /\ acc'.adjusting = adjusting /\ acc'.was_set = acc.was_set
       /\ acc'.button = acc.button
  BY <1>0, <1>9 DEF Controllers
<1>12. /\ CruiseTypeOK' /\ acc_age'.driver = driver /\ acc_age'.set = set
  BY <1>8, <1>9, <1>10 DEF CruiseTypeOK
<1>13. DriverIsAwaited(acc', driver)
  <2>1. acc.session =>
          /\ acc.command \in Nat /\ command \in Nat
          /\ driver >= Patience \/ driver >= command \/ driver + adjusting >= DriverSettle
    BY <1>0, <1>2, <1>5, <1>8 DEF DriverIsAwaited, Aged, Remaining, Controllers
  <2> QED BY <1>0, <1>11, <2>1 DEF DriverIsAwaited
<1>14. SetIsRemembered(acc', set)
  <2>1. set < SlowInterval => acc_age.set < SlowInterval /\ set = acc_age.set + 1
    BY <1>0, <1>8 DEF Aged
  <2>2. acc.command <= acc_age.set => command <= acc_age.set + 1
    BY <1>0, <1>2 DEF Aged, Controllers
  <2> QED BY <1>0, <1>11, <2>1, <2>2 DEF SetIsRemembered
<1>15. driver >= Patience \/ ~(acc_age.driver >= Patience)
  BY <1>0, <1>8 DEF Aged
<1>16. LeavesDriverAlone'
  BY <1>0, <1>11, <1>12, <1>15 DEF LeavesDriverAlone, DriverIsAwaited
<1> QED BY <1>0, <1>11, <1>12, <1>13, <1>14, <1>16 DEF CruiseInv

LEMMA DrivingTyped == Driving \in CruiseInputs
<1>1. PICK t \in BOOLEAN : t = TRUE
  OBVIOUS
<1>2. PICK f \in BOOLEAN : f = FALSE
  OBVIOUS
<1>3. PICK z \in 0 .. CruiseTop : z = 0
  BY CruiseConstants
<1>4. PICK w \in 1 .. CruiseTop : w = 1
  BY CruiseConstants
<1>5. PICK d : d = [enabled |-> t, cruise_on |-> t, main |-> f, driver |-> f, accelerator |-> f,
                    permitted |-> t, steady |-> f, lead |-> f, set_speed |-> z, cluster |-> z,
                    wanted |-> w]
  OBVIOUS
<1>6. d \in CruiseInputs
  BY <1>5 DEF CruiseInputs
<1>7. d = Driving
  BY <1>1, <1>2, <1>3, <1>4, <1>5 DEF Driving
<1> QED BY <1>6, <1>7

(* The inputs of the two ticks; the sets are parameters, so that a Boolean   *)
(* field is a field like the others.                                        *)
InputsOver(B, S, W) ==
  [enabled : B, cruise_on : B, main : B, driver : B, accelerator : B, permitted : B, steady : B,
   lead : B, set_speed : S, cluster : S, wanted : W]

SwitchInput(d, enabled, cruise_on, main, driver, accelerator, near, set_speed) ==
  [d EXCEPT !.enabled = enabled, !.cruise_on = cruise_on, !.main = main,
            !.driver = driver, !.accelerator = accelerator, !.lead = near, !.set_speed = set_speed]

DriveInput(d, accelerator, permitted, near, steady, cluster, wanted) ==
  [d EXCEPT !.accelerator = accelerator, !.lead = near, !.permitted = permitted,
            !.steady = steady, !.cluster = cluster, !.wanted = wanted]

LEMMA SwitchInputTyped ==
  ASSUME NEW B, NEW S, NEW W, NEW d \in InputsOver(B, S, W),
         NEW enabled \in B, NEW cruise_on \in B, NEW main \in B,
         NEW driver \in B, NEW accelerator \in B, NEW near \in B, NEW set_speed \in S
  PROVE  SwitchInput(d, enabled, cruise_on, main, driver, accelerator, near, set_speed)
           \in InputsOver(B, S, W)
BY DEF InputsOver, SwitchInput

LEMMA DriveInputTyped ==
  ASSUME NEW B, NEW S, NEW W, NEW d \in InputsOver(B, S, W),
         NEW accelerator \in B, NEW permitted \in B, NEW near \in B,
         NEW steady \in B, NEW cluster \in S, NEW wanted \in W
  PROVE  DriveInput(d, accelerator, permitted, near, steady, cluster, wanted) \in InputsOver(B, S, W)
BY DEF InputsOver, DriveInput

LEMMA TickIsUpdate ==
  ASSUME SwitchTick \/ DriveTick
  PROVE  \E in \in CruiseInputs : Update(in)
<1>0. CruiseInputs = InputsOver(BOOLEAN, 0 .. CruiseTop, 1 .. CruiseTop)
  BY Zenon DEF CruiseInputs, InputsOver
<1>1. CASE SwitchTick
  <2>1. PICK enabled, cruise_on, main, driver, accelerator, near \in BOOLEAN,
             set_speed \in IF acc.session THEN {0} ELSE 0 .. CruiseTop :
          Update(SwitchInput(Driving, enabled, cruise_on, main, driver, accelerator, near, set_speed))
    BY <1>1, Zenon DEF SwitchTick, SwitchInput
  <2>2. set_speed \in 0 .. CruiseTop
    BY CruiseConstants
  <2>3. SwitchInput(Driving, enabled, cruise_on, main, driver, accelerator, near, set_speed) \in CruiseInputs
    BY <1>0, <2>2, DrivingTyped, SwitchInputTyped, Zenon
  <2> QED BY <2>1, <2>3, Zenon
<1>2. CASE DriveTick
  <2>1. PICK accelerator, permitted, near, steady \in BOOLEAN,
             cluster \in 0 .. CruiseTop, wanted \in 1 .. CruiseTop :
          Update(DriveInput(Driving, accelerator, permitted, near, steady, cluster, wanted))
    BY <1>2, Zenon DEF DriveTick, DriveInput
  <2>2. DriveInput(Driving, accelerator, permitted, near, steady, cluster, wanted) \in CruiseInputs
    BY <1>0, DrivingTyped, DriveInputTyped, Zenon
  <2> QED BY <2>1, <2>2, Zenon
<1> QED BY <1>1, <1>2

LEMMA CruiseInitially == CruiseInit => CruiseInv
<1> USE CruiseConstants
<1> SUFFICES ASSUME CruiseInit PROVE CruiseInv
  OBVIOUS
<1>1. PICK f \in BOOLEAN : f = FALSE
  OBVIOUS
<1>2. PICK z : z = 0
  OBVIOUS
<1>3. PICK o \in {"none", "set", "resume"} : o = "none"
  OBVIOUS
<1>4. acc = [main |-> f, command |-> Never, accelerator |-> AccelRelease, off |-> Never,
            button |-> o, frames |-> z, session |-> f, maximum |-> z, commanded |-> z,
            lead |-> Never, reanchor |-> f, mismatch |-> Never, backoff |-> z,
            adjusting |-> z, was_set |-> f]
  BY <1>1, <1>2, <1>3 DEF CruiseInit
<1>5. /\ Never \in Never .. CommandCap /\ AccelRelease \in 0 .. AccelRelease
      /\ Never \in Never .. CruiseTeardown /\ z \in 0 .. PulseFrames /\ z \in 0 .. CruiseTop
      /\ Never \in Never .. LeadCap /\ Never \in Never .. MismatchHold
      /\ z \in 0 .. Backoff /\ z \in 0 .. DriverSettle
  BY <1>2
<1>6. acc \in Controllers
  BY <1>4, <1>5 DEF Controllers
<1>7. acc.session = FALSE /\ acc.button = "none"
  BY DEF CruiseInit
<1>8. CruiseTypeOK /\ acc_age.set = HistoryCap
  BY <1>6 DEF CruiseInit, CruiseTypeOK
<1> QED BY <1>7, <1>8 DEF CruiseInv, DriverIsAwaited, SetIsRemembered, LeavesDriverAlone

LEMMA CruiseStep ==
  ASSUME CruiseInv, [CruiseNext]_cruiseVars
  PROVE  /\ CruiseInv'
         /\ acc.button = "none" /\ acc'.button # "none" => acc_age.set >= SlowInterval
<1>1. CASE SwitchTick \/ DriveTick
  <2>1. PICK in \in CruiseInputs : Update(in)
    BY <1>1, TickIsUpdate
  <2> QED BY <2>1, UpdateKeeps
<1>2. CASE CruiseElapse
  BY <1>2, CruiseElapseKeeps
<1>3. CASE UNCHANGED cruiseVars
  BY <1>3 DEF cruiseVars, CruiseInv, CruiseTypeOK, LeavesDriverAlone
<1> QED BY <1>1, <1>2, <1>3 DEF CruiseNext

(* The controller never presses a button against the driver, nor beyond its *)
(* own ceiling: the inductive invariant holds.                              *)
THEOREM CruiseInvariant == CruiseSpec => []CruiseInv
<1>1. CruiseInv /\ [CruiseNext]_cruiseVars => CruiseInv'
  BY CruiseStep
<1> QED BY CruiseInitially, <1>1, PTL DEF CruiseSpec

(* No button is begun before the car could answer a SET- of the controller. *)
THEOREM CruiseIsPatient == CruiseSpec => SlowdownIsAwaited
<1>1. CruiseInv /\ [CruiseNext]_cruiseVars =>
        [acc.button = "none" /\ acc'.button # "none" => acc_age.set >= SlowInterval]_cruiseVars
  BY CruiseStep
<1> QED BY CruiseInvariant, <1>1, PTL DEF CruiseSpec, SlowdownIsAwaited

-----------------------------------------------------------------------------
(* The torque law                                                          *)

LEMMA Remainder ==
  ASSUME NEW n \in Nat \ {0}, NEW x \in Nat, NEW q \in Nat, NEW r \in 0 .. n - 1, x = n * q + r
  PROVE  x % n = r
<1> DEFINE m == x % n
           p == x \div n
<1>1. x = n * p + m /\ p \in Nat /\ m \in 0 .. n - 1
  OBVIOUS
<1> HIDE DEF m, p
<1>2. n * p \in Nat /\ n * q \in Nat /\ n * p + m = n * q + r
  BY <1>1
<1>3. CASE p >= q + 1
  <2>1. n * p >= n * (q + 1) /\ n * (q + 1) = n * q + n
    BY <1>1, <1>3
  <2> QED BY <1>1, <1>2, <2>1
<1>4. CASE p + 1 <= q
  <2>1. n * q >= n * (p + 1) /\ n * (p + 1) = n * p + n
    BY <1>1, <1>4
  <2> QED BY <1>1, <1>2, <2>1
<1>5. CASE p = q
  BY <1>1, <1>2, <1>5 DEF m
<1> QED BY <1>1, <1>3, <1>4, <1>5

Slots == 0 .. RingLength - 1

(* Where the ring is read and written. *)
LEMMA RingIndex ==
  ASSUME NEW head \in Slots, NEW back \in Slots
  PROVE  /\ (head + 1) % RingLength = IF head + 1 = RingLength THEN 0 ELSE head + 1
         /\ (head - back + 2 * RingLength) % RingLength
              = IF back <= head THEN head - back ELSE head - back + RingLength
<1> USE LawAssumption DEF Slots
<1>1. CASE head + 1 = RingLength
  <2>1. head + 1 = RingLength * 1 + 0
    BY <1>1
  <2>2. (head + 1) % RingLength = 0
    BY <2>1, Remainder
  <2> QED BY <1>1, <2>2
<1>2. CASE head + 1 # RingLength
  <2>1. head + 1 = RingLength * 0 + (head + 1) /\ head + 1 \in 0 .. RingLength - 1
    BY <1>2
  <2>2. (head + 1) % RingLength = head + 1
    BY <2>1, Remainder
  <2> QED BY <1>2, <2>2
<1>3. CASE back <= head
  <2> DEFINE x == head - back + 2 * RingLength
  <2>1. x = RingLength * 2 + (head - back) /\ head - back \in 0 .. RingLength - 1 /\ x \in Nat
    BY <1>3
  <2> HIDE DEF x
  <2>2. x % RingLength = head - back
    BY <2>1, Remainder
  <2> QED BY <1>1, <1>2, <1>3, <2>2 DEF x
<1>4. CASE back > head
  <2> DEFINE x == head - back + 2 * RingLength
  <2>1. /\ x = RingLength * 1 + (head - back + RingLength)
        /\ head - back + RingLength \in 0 .. RingLength - 1 /\ x \in Nat
    BY <1>4
  <2> HIDE DEF x
  <2>2. x % RingLength = head - back + RingLength
    BY <2>1, Remainder
  <2> QED BY <1>1, <1>2, <1>4, <2>2 DEF x
<1> QED BY <1>1, <1>2, <1>3, <1>4

(* The ring moves on: the newest request is read at 0, the others are read  *)
(* one further back than they were.                                         *)
LEMMA RingMoved ==
  ASSUME requests \in [Slots -> Int], request_head \in Slots, NEW x \in Int, NEW back \in Slots,
         request_head' = (request_head + 1) % RingLength,
         requests' = [requests EXCEPT ![request_head'] = x]
  PROVE  /\ request_head' \in Slots /\ requests' \in [Slots -> Int]
         /\ back = 0 => At(requests', request_head', back) = x
         /\ back # 0 => /\ back - 1 \in Slots
                       /\ At(requests', request_head', back) = At(requests, request_head, back - 1)
<1>1. request_head' = IF request_head + 1 = RingLength THEN 0 ELSE request_head + 1
  BY RingIndex
<1>2. request_head' \in Slots /\ requests' \in [Slots -> Int]
  BY <1>1, LawAssumption DEF Slots
<1>3. At(requests', request_head', back) = requests'[IF back <= request_head' THEN request_head' - back ELSE request_head' - back + RingLength]
  BY <1>2, RingIndex DEF At
<1>4. CASE back = 0
  <2>1. (IF back <= request_head' THEN request_head' - back ELSE request_head' - back + RingLength) = request_head'
    BY <1>2, <1>4, LawAssumption DEF Slots
  <2> QED BY <1>2, <1>3, <1>4, <2>1
<1>5. CASE back # 0
  <2>1. PICK before : before = back - 1
    OBVIOUS
  <2>2. before \in Slots
    BY <1>5, <2>1, LawAssumption DEF Slots
  <2>3. At(requests, request_head, before) = requests[IF before <= request_head THEN request_head - before
                                      ELSE request_head - before + RingLength]
    BY <2>2, RingIndex DEF At
  <2>4. PICK i : i = IF back <= request_head' THEN request_head' - back ELSE request_head' - back + RingLength
    OBVIOUS
  <2>5. /\ i \in Slots /\ i # request_head'
        /\ i = IF before <= request_head THEN request_head - before ELSE request_head - before + RingLength
    BY <1>1, <1>5, <2>1, <2>4, LawAssumption DEF Slots
  <2>6. requests'[i] = requests[i]
    BY <1>2, <2>5
  <2> QED BY <1>2, <1>3, <1>5, <2>1, <2>2, <2>3, <2>4, <2>5, <2>6
<1> QED BY <1>2, <1>4, <1>5

(* pid_update(): whatever the gains, the integrator stays within the range  *)
(* of the output and the feedforward together.                              *)
LEMMA IntegratorBound ==
  ASSUME integral \in -(OutTop + FeedTop) .. OutTop + FeedTop,
         NEW error \in Int, NEW feed \in -FeedTop .. FeedTop, NEW ki \in Nat,
         NEW frozen \in BOOLEAN, NEW speed
  PROVE  Integrated(error, feed, ki, frozen, speed) \in -(OutTop + FeedTop) .. OutTop + FeedTop
<1> DEFINE p == error * ki
           g == error * Gain(speed)
           next == integral + p
           control == g + next + feed
<1>1. /\ p \in Int /\ (error >= 0 => p >= 0) /\ (error <= 0 => p <= 0)
  OBVIOUS
<1>2. /\ g \in Int /\ (error >= 0 => g >= 0) /\ (error <= 0 => g <= 0)
  BY DEF Gain
<1>3. \/ Integrated(error, feed, ki, frozen, speed) = integral
      \/ /\ Integrated(error, feed, ki, frozen, speed) = next
         /\ \/ error >= 0 /\ (control <= OutTop \/ next < 0)
            \/ error <= 0 /\ (control >= -OutTop \/ next > 0)
  BY DEF Integrated
<1> HIDE DEF p, g
<1> QED BY <1>1, <1>2, <1>3, LawAssumption

LEMMA LawInitially == LawInit => LawInv
<1> SUFFICES ASSUME LawInit PROVE LawInv
  OBVIOUS
<1> USE LawAssumption
<1>1. 0 \in Slots /\ 0 \in LatAccels /\ 0 \in Curvatures /\ RingLength - 1 \in Nat
  BY DEF Slots, LatAccels, Curvatures
<1>2. /\ requests = [i \in Slots |-> 0] /\ past = [i \in Slots |-> 0]
      /\ requests \in [Slots -> LatAccels] /\ past \in [Slots -> LatAccels]
  BY <1>1 DEF LawInit, Slots
<1>3. LawTypeOK
  BY <1>1, <1>2 DEF LawInit, LawTypeOK, Slots
<1>4. RingHoldsPast
  <2>1. \A back \in Slots : (request_head - back + 2 * RingLength) % RingLength \in Slots
    BY RingIndex DEF LawInit, Slots
  <2> QED BY <1>2, <2>1 DEF RingHoldsPast, At, Slots
<1>5. SetpointIsDelayed
  BY <1>1, <1>2 DEF LawInit, SetpointIsDelayed
<1> QED BY <1>3, <1>4, <1>5 DEF LawInit, LawInv, IntegralIsBounded, SlipIsCurrent

(* What a tick does to each part of the state. *)
LEMMA CurvatureKept ==
  ASSUME LawTypeOK, NEW speed \in Speeds, NEW wanted \in Int, NEW roll \in Int
  PROVE  Clipped(speed, wanted, roll) \in Curvatures
BY LawAssumption DEF Clipped, Clamp, Curvatures, LawTypeOK, Rate, AccelBound

LEMMA RequestKept ==
  ASSUME NEW c \in Curvatures, NEW speed \in Speeds
  PROVE  Square[speed] \in 0 .. 2 /\ c * Square[speed] \in LatAccels
<1>1. Square[speed] = 0 \/ Square[speed] = 1 \/ Square[speed] = 2
  BY DEF Square, Speeds
<1>2. c \in Int /\ c \in -Curve .. Curve /\ Curve \in Nat
  BY LawAssumption DEF Curvatures
<1> QED BY <1>1, <1>2 DEF LatAccels

LEMMA RingKept ==
  ASSUME LawTypeOK, RingHoldsPast, NEW x \in LatAccels,
         request_head' = (request_head + 1) % RingLength,
         requests' = [requests EXCEPT ![request_head'] = x],
         past' = [back \in 0 .. RingLength - 1 |-> IF back = 0 THEN x ELSE past[back - 1]]
  PROVE  /\ request_head' \in Slots
         /\ requests' \in [Slots -> LatAccels] /\ past' \in [Slots -> LatAccels]
         /\ RingHoldsPast'
<1>1. /\ requests \in [Slots -> LatAccels] /\ past \in [Slots -> LatAccels]
      /\ request_head \in Slots
  BY DEF LawTypeOK, Slots
<1>2. LatAccels \subseteq Int /\ x \in Int /\ requests \in [Slots -> Int]
  <2>1. LatAccels \subseteq Int
    BY LawAssumption DEF LatAccels
  <2> QED BY <1>1, <2>1
<1>3. \A back \in Slots :
        /\ request_head' \in Slots
        /\ back = 0 => At(requests', request_head', back) = x
        /\ back # 0 => back - 1 \in Slots /\ At(requests', request_head', back)
                                               = At(requests, request_head, back - 1)
  <2> TAKE back \in Slots
  <2>1. request_head \in Slots /\ x \in Int /\ requests \in [Slots -> Int]
    BY <1>1, <1>2
  <2> QED BY <2>1, RingMoved
<1>4. request_head' \in Slots
  <2>1. 0 \in Slots
    BY LawAssumption DEF Slots
  <2> QED BY <1>3, <2>1
<1>5. requests' \in [Slots -> LatAccels]
  BY <1>1, <1>4
<1>6. \A back \in Slots : /\ past'[back] = IF back = 0 THEN x ELSE past[back - 1]
                          /\ past'[back] \in LatAccels
  BY <1>1, <1>3 DEF Slots
<1>7. past' \in [Slots -> LatAccels]
  BY <1>6 DEF Slots
<1>8. \A back \in Slots : At(requests', request_head', back) = past'[back]
  BY <1>3, <1>6 DEF RingHoldsPast, Slots
<1> QED BY <1>4, <1>5, <1>7, <1>8 DEF RingHoldsPast, Slots

(* update_vehicle_model(): the factor is always that of its key, and after  *)
(* a call in which it may be steered, of the parameters of the call.        *)
LEMMA SlipKept ==
  ASSUME LawTypeOK, slip.of = slip.last, NEW speed, NEW model \in Models \cup {NoModel}
  PROVE  LET s == SlipFor(speed, model) IN
         /\ s \in [of : Models \cup {NoModel}, last : Models \cup {NoModel}]
         /\ s.of = s.last
         /\ speed \in Steerable => s.of = model
<1> DEFINE All == Models \cup {NoModel}
<1>1. slip \in [of : All, last : All] /\ model \in All
  BY DEF LawTypeOK
<1> HIDE DEF All
<1>2. CASE speed \notin Steerable \/ SameKey(model)
  BY <1>1, <1>2 DEF SlipFor, SameKey, All
<1>3. CASE ~(speed \notin Steerable \/ SameKey(model))
  BY <1>1, <1>3 DEF SlipFor, All
<1> QED BY <1>2, <1>3

LEMMA LawTickKeeps ==
  ASSUME LawInv, NEW steers \in BOOLEAN, NEW speed \in Speeds, NEW plan \in Curvatures,
         NEW measured \in Curvatures, NEW roll \in Int, NEW delay \in Delays,
         NEW model \in Models \cup {NoModel}, NEW feed \in -FeedTop .. FeedTop, NEW ki \in Nat,
         NEW pressed \in BOOLEAN,
         LawTick(steers, speed, plan, measured, roll, delay, model, feed, ki, pressed)
  PROVE  LawInv'
<1> USE LawAssumption
<1> DEFINE actual == ActualCurvature(speed, measured)
           wanted == IF steers THEN plan ELSE actual
           on == steers /\ speed \in Steerable
           expected == At(requests', request_head', delay - 1)
           error == expected - actual * Square[speed]
           frozen == pressed \/ speed = "slow"
           request == curvature' * Square[speed]
           named == IF speed \in Steerable THEN model ELSE NoModel
<1>1. /\ curvature' = Clipped(speed, wanted, roll)
      /\ request_head' = (request_head + 1) % RingLength
      /\ requests' = [requests EXCEPT ![request_head'] = request]
      /\ slip' = SlipFor(speed, model)
      /\ integral' = IF on THEN Integrated(error, feed, ki, frozen, speed) ELSE 0
      /\ law' = [expected |-> expected, delay |-> delay, model |-> named]
      /\ past' = [back \in 0 .. RingLength - 1 |-> IF back = 0 THEN request ELSE past[back - 1]]
  BY DEF LawTick, Requested
<1>2. actual \in Curvatures /\ wanted \in Int /\ 0 \in Curvatures
  BY DEF ActualCurvature, Curvatures
<1>3. LawTypeOK /\ RingHoldsPast /\ slip.of = slip.last
  BY DEF LawInv
<1> HIDE DEF wanted
<1>4. curvature' \in Curvatures
  BY <1>1, <1>2, <1>3, CurvatureKept
<1>5. request \in LatAccels
  BY <1>4, RequestKept
<1> HIDE DEF request
<1>6. /\ request_head' \in Slots
      /\ requests' \in [Slots -> LatAccels] /\ past' \in [Slots -> LatAccels]
      /\ RingHoldsPast'
  BY <1>1, <1>3, <1>5, RingKept
<1>7. delay - 1 \in Slots /\ expected = past'[delay - 1] /\ expected \in LatAccels
  <2>1. delay - 1 \in Slots
    BY DEF Slots
  <2>2. expected = past'[delay - 1]
    BY <1>6, <2>1 DEF RingHoldsPast, Slots
  <2> QED BY <1>6, <2>1, <2>2
<1> HIDE DEF expected
<1>8. error \in Int
  <2>1. PICK product : product = actual * Square[speed]
    OBVIOUS
  <2>2. product \in LatAccels
    BY <1>2, <2>1, RequestKept
  <2>3. expected \in Int /\ product \in Int
    BY <1>7, <2>2 DEF LatAccels
  <2> QED BY <2>1, <2>3
<1> HIDE DEF error, actual
<1>9. integral' \in -(OutTop + FeedTop) .. OutTop + FeedTop /\ integral' \in Int
  <2>1. CASE on
    <3>1. frozen \in BOOLEAN /\ integral \in -(OutTop + FeedTop) .. OutTop + FeedTop
      BY DEF LawInv, IntegralIsBounded
    <3>2. Integrated(error, feed, ki, frozen, speed) \in -(OutTop + FeedTop) .. OutTop + FeedTop
      BY <1>8, <3>1, IntegratorBound
    <3> QED BY <1>1, <2>1, <3>2
  <2>2. CASE ~on
    BY <1>1, <2>2
  <2> QED BY <2>1, <2>2
<1>10. /\ slip' \in [of : Models \cup {NoModel}, last : Models \cup {NoModel}]
       /\ slip'.of = slip'.last
       /\ speed \in Steerable => slip'.of = model
  BY <1>1, <1>3, SlipKept
<1>11. /\ law'.expected = expected /\ law'.delay = delay /\ law'.model = named
       /\ law' \in [expected : LatAccels, delay : Delays \cup {1}, model : Models \cup {NoModel}]
  BY <1>1, <1>7
<1>12. LawTypeOK'
  BY <1>4, <1>6, <1>9, <1>10, <1>11 DEF LawTypeOK, Slots
<1>13. SetpointIsDelayed' /\ IntegralIsBounded' /\ SlipIsCurrent'
  BY <1>7, <1>9, <1>10, <1>11 DEF SetpointIsDelayed, IntegralIsBounded, SlipIsCurrent
<1> QED BY <1>6, <1>10, <1>12, <1>13 DEF LawInv

LEMMA LawStep == LawInv /\ [AnyLawTick]_lawVars => LawInv'
<1> SUFFICES ASSUME LawInv, [AnyLawTick]_lawVars PROVE LawInv'
  OBVIOUS
<1>1. CASE AnyLawTick
  <2>1. PICK steers \in BOOLEAN, speed \in Speeds, delay \in Delays :
          \E plan \in (IF steers THEN Curvatures ELSE {0}),
             measured \in (IF speed \in Steerable THEN Curvatures ELSE {0}),
             model \in (IF speed \in Steerable THEN Models ELSE {NoModel}),
             pressed \in (IF steers /\ speed = "fast" THEN BOOLEAN ELSE {TRUE}) :
            \E roll \in (IF model.learned THEN {0, 1} ELSE {0}),
               feed \in (IF pressed THEN {0} ELSE {-FeedTop, FeedTop}),
               ki \in (IF pressed THEN {0} ELSE Kis) :
              /\ steers => speed # "unknown"
              /\ LawTick(steers, speed, plan, measured, roll, delay, model, feed, ki, pressed)
    BY <1>1, Zenon DEF AnyLawTick
  <2>2. PICK plan \in (IF steers THEN Curvatures ELSE {0}),
             measured \in (IF speed \in Steerable THEN Curvatures ELSE {0}),
             model \in (IF speed \in Steerable THEN Models ELSE {NoModel}),
             pressed \in (IF steers /\ speed = "fast" THEN BOOLEAN ELSE {TRUE}) :
            \E roll \in (IF model.learned THEN {0, 1} ELSE {0}),
               feed \in (IF pressed THEN {0} ELSE {-FeedTop, FeedTop}),
               ki \in (IF pressed THEN {0} ELSE Kis) :
              /\ steers => speed # "unknown"
              /\ LawTick(steers, speed, plan, measured, roll, delay, model, feed, ki, pressed)
    BY <2>1, Zenon
  <2>3. PICK roll \in (IF model.learned THEN {0, 1} ELSE {0}),
             feed \in (IF pressed THEN {0} ELSE {-FeedTop, FeedTop}),
             ki \in (IF pressed THEN {0} ELSE Kis) :
            LawTick(steers, speed, plan, measured, roll, delay, model, feed, ki, pressed)
    BY <2>2, Zenon
  <2>4. plan \in Curvatures /\ measured \in Curvatures /\ model \in Models \cup {NoModel}
    BY LawAssumption DEF Curvatures
  <2>5. pressed \in BOOLEAN /\ roll \in Int
    <3>1. BOOLEAN \subseteq BOOLEAN /\ {TRUE} \subseteq BOOLEAN
      OBVIOUS
    <3>2. (IF steers /\ speed = "fast" THEN BOOLEAN ELSE {TRUE}) \subseteq BOOLEAN
      BY <3>1, Zenon
    <3>3. roll = 0 \/ roll = 1
      BY Zenon
    <3>4. roll \in Int
      BY <3>3
    <3>5. pressed \in BOOLEAN
      BY <3>2, Zenon
    <3> QED BY <3>4, <3>5
  <2>6. feed \in -FeedTop .. FeedTop /\ ki \in Nat
    BY LawAssumption
  <2> QED BY <2>3, <2>4, <2>5, <2>6, LawTickKeeps
<1>2. CASE UNCHANGED lawVars
  BY <1>2 DEF lawVars, LawInv, LawTypeOK, SetpointIsDelayed, IntegralIsBounded, SlipIsCurrent,
              RingHoldsPast, At
<1> QED BY <1>1, <1>2

(* LawInv holds in every state. *)
THEOREM LawInvariant == LawSpec => []LawInv
BY LawInitially, LawStep, PTL DEF LawSpec

-----------------------------------------------------------------------------
(* The composed module: one component moves, the others keep their state.  *)

LEMMA AtMostOneMoves ==
  ASSUME [ControlNext]_controlVars
  PROVE  /\ [LatchNext]_latchVars /\ [DepartureNext]_departureVars /\ [LaneNext]_laneVars
         /\ [AnySteerTick]_steeringVars /\ [CruiseNext]_cruiseVars /\ [AnyLawTick]_lawVars
<1>1. CASE LatchMoves
  BY <1>1 DEF LatchMoves
<1>2. CASE DepartureMoves
  BY <1>2 DEF DepartureMoves
<1>3. CASE LaneMoves
  BY <1>3 DEF LaneMoves
<1>4. CASE SteeringMoves
  BY <1>4 DEF SteeringMoves
<1>5. CASE FrameMoves
  BY <1>5 DEF FrameMoves
<1>6. CASE CruiseMoves
  BY <1>6 DEF CruiseMoves
<1>7. CASE LawMoves
  BY <1>7 DEF LawMoves
<1>8. CASE UNCHANGED controlVars
  BY <1>8 DEF controlVars
<1> QED BY <1>1, <1>2, <1>3, <1>4, <1>5, <1>6, <1>7, <1>8 DEF ControlNext

LEMMA ControlInitially == ControlInit => ControlInv
BY LatchInitially, DepartureInitially, LaneInitially, SteeringInitially, CruiseInitially, LawInitially
   DEF ControlInit, ControlInv

LEMMA ControlStep == ControlInv /\ [ControlNext]_controlVars => ControlInv'
<1> SUFFICES ASSUME ControlInv, [ControlNext]_controlVars PROVE ControlInv'
  OBVIOUS
<1>1. LatchInv' /\ DepartureInv' /\ LawInv'
  BY AtMostOneMoves, LatchStep, DepartureStep, LawStep DEF ControlInv
<1>2. LaneInv' /\ SteeringInv' /\ CruiseInv'
  BY AtMostOneMoves, LaneStep, SteeringStep, CruiseStep DEF ControlInv
<1> QED BY <1>1, <1>2 DEF ControlInv

(* The inductive invariants of all components hold in the composition.     *)
THEOREM ControlInvariant == ControlSpec => []ControlInv
BY ControlInitially, ControlStep, PTL DEF ControlSpec

(* A fault of the vehicle ends engagement in the tick that reads it, and   *)
(* the driver was last told what holds.                                    *)
THEOREM ControlEngagement == ControlSpec => []HardFaultEnds /\ []DriverKnows
<1>1. ControlInv => HardFaultEnds /\ DriverKnows
  BY DEF ControlInv, LatchInv
<1> QED BY <1>1, ControlInvariant, PTL

(* A stop is alerted at most once, after standing for as long as the       *)
(* trigger needs.                                                          *)
THEOREM ControlStopAlertedOnce == ControlSpec => []StopAlertedOnce
<1>1. ControlInv => StopAlertedOnce
  BY DEF ControlInv, DepartureInv
<1> QED BY <1>1, ControlInvariant, PTL

(* Engagement, and a wait for Panda, begin only when SET is released.      *)
THEOREM ControlEngagesOnlyOnSet == ControlSpec => EngagesOnlyOnSet
<1>1. ControlInit => LatchInit
  BY DEF ControlInit
<1>2. [ControlNext]_controlVars => [LatchNext]_latchVars
  BY AtMostOneMoves
<1>3. ControlSpec => LatchSpec
  BY <1>1, <1>2, PTL DEF ControlSpec, LatchSpec
<1> QED BY <1>3, LatchEngagesOnlyOnSet

(* A lane change ends in time, one cut off is not resumed by its blinker,  *)
(* and none goes over into one to the other side.                          *)
THEOREM ControlLaneChangesEnd == ControlSpec => LaneChangesEnd
<1>1. ControlInv => DesireEndsInTime /\ CutOffStaysOff
  BY DEF ControlInv, LaneInv, CutOffStaysOff
<1>2. ControlInit => LaneInit
  BY DEF ControlInit
<1>3. [ControlNext]_controlVars => [LaneNext]_laneVars
  BY AtMostOneMoves
<1>4. ControlSpec => LaneSpec
  BY <1>2, <1>3, PTL DEF ControlSpec, LaneSpec
<1> QED BY <1>1, <1>4, ControlInvariant, LaneNoSwerve, PTL DEF LaneChangesEnd

(* A cut of the request begins with no torque, when the ramp is long enough *)
(* for the torque's rate, and the counter of the frames never jumps.       *)
THEOREM ControlSteersSteadily == ControlSpec => CutBeginsAtZero /\ CounterKeepsStep
<1>1. ControlInit => SteeringInit
  BY DEF ControlInit
<1>2. [ControlNext]_controlVars => [AnySteerTick]_steeringVars
  BY AtMostOneMoves
<1>3. ControlSpec => SteeringSpec
  BY <1>1, <1>2, PTL DEF ControlSpec, SteeringSpec
<1> QED BY <1>3, SteeringIsSteady

(* The controller presses no button against the driver or beyond its       *)
(* ceiling, and none before the car could answer its last SET-.            *)
THEOREM ControlCruiseIsPolite == ControlSpec => CruiseIsPolite
<1>1. ControlInv => LeavesDriverAlone
  BY DEF ControlInv, CruiseInv
<1>2. ControlInit => CruiseInit
  BY DEF ControlInit
<1>3. [ControlNext]_controlVars => [CruiseNext]_cruiseVars
  BY AtMostOneMoves
<1>4. ControlSpec => CruiseSpec
  BY <1>2, <1>3, PTL DEF ControlSpec, CruiseSpec
<1> QED BY <1>1, <1>4, ControlInvariant, CruiseIsPatient, PTL DEF CruiseIsPolite
=============================================================================
