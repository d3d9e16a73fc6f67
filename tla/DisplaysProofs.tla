--------------------------- MODULE DisplaysProofs --------------------------
(***************************************************************************)
(* Proofs about Displays and the modules it composes, for every size,      *)
(* period and bound: the state topics, the alerts, the overlay, the        *)
(* parameter page and the trends of the learners.                          *)
(*                                                                         *)
(* None of the properties is inductive as it stands.  Each component has   *)
(* an invariant that is (ChannelInv, AlertInv, HudInv, EditorInv,          *)
(* TrendInv); the composition moves one of them at a time and keeps all.   *)
(***************************************************************************)
EXTENDS Displays, SequenceTheorems, FiniteSetTheorems, WellFoundedInduction, TLAPS

-----------------------------------------------------------------------------
(***************************************************************************)
(* The state topics.  seq only grows, so that an unmoved seq means an      *)
(* untouched payload; ChannelInv adds what an open publication has written *)
(* and what a copy made before the check is worth.                         *)
(***************************************************************************)

(* Even and odd sequence numbers alternate. *)
LEMMA Parity == \A n \in Nat : Even(n + 1) <=> ~Even(n)
  BY DEF Even

(* Two steps keep the parity. *)
LEMMA ParityTwo == \A n \in Nat : Even(n + 2) <=> Even(n)
  BY DEF Even

(* Rounding seq up and adding one exceeds it. *)
LEMMA StrictlyMore == \A m, n \in Nat : m <= n => n + 1 \in Nat /\ m < n + 1
  OBVIOUS

(* The region a publisher just created satisfies the invariant. *)
LEMMA InitInv == Init => ChannelInv
<1> SUFFICES ASSUME Init PROVE ChannelInv
  OBVIOUS
<1>1. TypeOK
  BY AttemptsAssumption DEF Init, TypeOK, Whole, Halves
<1> QED BY <1>1 DEF Init, ChannelInv, RegionConsistent, CopyConsistent, StateIsWhole

(* publish() keeps the invariant. *)
LEMMA PublishSteps ==
  ASSUME ChannelInv, Publish
  PROVE  ChannelInv'
<1> USE DEF ChannelInv, TypeOK, Halves
<1>1. CASE PublishOpen
  <2>1. /\ base' \in Nat /\ seq \in Nat /\ seq <= base' /\ seq' = base' + 1
        /\ ppc' = "copy_lo"
    BY <1>1 DEF PublishOpen
  <2>2. UNCHANGED <<payload, readVars, kept>>
    BY <1>1 DEF PublishOpen
  <2>3. seq' \in Nat /\ seq < seq'
    BY <2>1, StrictlyMore
  <2>7. Even(base') /\ ~Even(seq')
    BY <1>1, <2>1, Parity DEF PublishOpen
  <2>4. TypeOK'
    BY <2>1, <2>2, <2>3 DEF readVars, kept
  <2>5. RegionConsistent'
    BY <2>1, <2>2, <2>7 DEF RegionConsistent
  <2>6. CopyConsistent'
    BY <2>2, <2>3 DEF CopyConsistent, readVars
  <2> QED BY <2>2, <2>3, <2>4, <2>5, <2>6 DEF StateIsWhole, kept
<1>2. CASE PublishCopyLo
  <2>1. /\ payload' = [lo |-> base + 2, hi |-> payload.hi] /\ ppc = "copy_lo" /\ ppc' = "copy_hi"
        /\ UNCHANGED <<seq, base, readVars, kept>>
    BY <1>2 DEF PublishCopyLo
  <2>2. ~Even(seq)
    BY <2>1, Parity DEF RegionConsistent
  <2>3. TypeOK'
    BY <2>1 DEF readVars, kept
  <2>4. RegionConsistent'
    BY <2>1, <2>2 DEF RegionConsistent
  <2>5. CopyConsistent'
    BY <2>1 DEF CopyConsistent, readVars
  <2> QED BY <2>1, <2>3, <2>4, <2>5 DEF StateIsWhole, kept
<1>3. CASE PublishCopyHi
  <2>1. /\ payload' = [lo |-> payload.lo, hi |-> base + 2] /\ ppc = "copy_hi" /\ ppc' = "close"
        /\ UNCHANGED <<seq, base, readVars, kept>>
    BY <1>3 DEF PublishCopyHi
  <2>2. ~Even(seq)
    BY <2>1, Parity DEF RegionConsistent
  <2>3. TypeOK'
    BY <2>1 DEF readVars, kept
  <2>4. RegionConsistent'
    BY <2>1, <2>2 DEF RegionConsistent, Whole
  <2>5. CopyConsistent'
    BY <2>1 DEF CopyConsistent, readVars
  <2> QED BY <2>1, <2>3, <2>4, <2>5 DEF StateIsWhole, kept
<1>4. CASE PublishClose
  <2>1. /\ seq' = base + 2 /\ ppc = "close" /\ ppc' = "idle"
        /\ UNCHANGED <<payload, base, readVars, kept>>
    BY <1>4 DEF PublishClose
  <2>2. seq' \in Nat /\ seq < seq' /\ payload = Whole(seq')
    BY <2>1 DEF RegionConsistent
  <2>3. TypeOK'
    BY <2>1, <2>2 DEF readVars, kept
  <2>4. RegionConsistent'
    BY <2>1, <2>2 DEF RegionConsistent
  <2>5. CopyConsistent'
    BY <2>1, <2>2 DEF CopyConsistent, readVars
  <2> QED BY <2>1, <2>2, <2>3, <2>4, <2>5 DEF StateIsWhole, kept
<1> QED BY <1>1, <1>2, <1>3, <1>4 DEF Publish

(* A publisher that dies leaves seq odd, which is all its successor and    *)
(* the readers need.                                                       *)
LEMMA RestartStep ==
  ASSUME ChannelInv, PublisherRestart
  PROVE  ChannelInv'
<1>1. /\ ppc # "idle" /\ ppc' = "idle" /\ base' = 0
      /\ UNCHANGED <<seq, payload, readVars, kept>>
  BY DEF PublisherRestart
<1>2. ~Even(seq)
  BY <1>1, Parity DEF ChannelInv, TypeOK, RegionConsistent
<1>3. TypeOK'
  BY <1>1 DEF ChannelInv, TypeOK, Halves, readVars, kept
<1>4. RegionConsistent'
  BY <1>1, <1>2 DEF RegionConsistent
<1>5. CopyConsistent'
  BY <1>1 DEF ChannelInv, CopyConsistent, readVars
<1> QED BY <1>1, <1>3, <1>4, <1>5 DEF ChannelInv, StateIsWhole, kept

(* read() keeps the invariant: it only matters what it copies and keeps. *)
LEMMA ReadSteps ==
  ASSUME ChannelInv, Read
  PROVE  ChannelInv'
<1> USE DEF ChannelInv, TypeOK, Halves
<1>1. CASE ReadCall
  BY <1>1, AttemptsAssumption
  DEF ReadCall, pubVars, kept, RegionConsistent, CopyConsistent, StateIsWhole
<1>2. CASE ReadUnavailable
  BY <1>2 DEF ReadUnavailable, pubVars, kept, RegionConsistent, CopyConsistent, StateIsWhole
<1>3. CASE ReadLoad
  BY <1>3 DEF ReadLoad, pubVars, kept, RegionConsistent, CopyConsistent, StateIsWhole
<1>4. CASE ReadCopyLo
  <2>1. seq = before => payload.lo = before
    BY <1>4 DEF ReadCopyLo, RegionConsistent, CopyConsistent, Whole
  <2> QED BY <1>4, <2>1
          DEF ReadCopyLo, pubVars, kept, RegionConsistent, CopyConsistent, StateIsWhole
<1>5. CASE ReadCopyHi
  <2>1. seq = before => payload.hi = before
    BY <1>5 DEF ReadCopyHi, RegionConsistent, CopyConsistent, Whole
  <2> QED BY <1>5, <2>1
          DEF ReadCopyHi, pubVars, kept, RegionConsistent, CopyConsistent, StateIsWhole, Whole
<1>6. CASE ReadDone
  <2>1. buf = Whole(seq)
    BY <1>6 DEF ReadDone, Undisturbed, CopyConsistent
  <2>2. /\ state' = Whole(last_seq') /\ last_seq' = seq /\ rpc' = "idle"
        /\ UNCHANGED <<seq, payload, ppc, base, attempt, before, buf>>
    BY <1>6, <2>1 DEF ReadDone, pubVars, StateIsWhole
  <2>3. state' \in Halves
    BY <2>2 DEF Whole
  <2> QED BY <2>2, <2>3 DEF RegionConsistent, CopyConsistent, StateIsWhole
<1>7. CASE ReadAgain
  BY <1>7, AttemptsAssumption
  DEF ReadAgain, pubVars, kept, RegionConsistent, CopyConsistent, StateIsWhole
<1>8. CASE ReadGiveUp
  BY <1>8 DEF ReadGiveUp, pubVars, kept, RegionConsistent, CopyConsistent, StateIsWhole
<1> QED BY <1>1, <1>2, <1>3, <1>4, <1>5, <1>6, <1>7, <1>8 DEF Read

(* The invariant is inductive. *)
LEMMA StepInv == ChannelInv /\ [Next]_vars => ChannelInv'
<1> SUFFICES ASSUME ChannelInv, [Next]_vars PROVE ChannelInv'
  OBVIOUS
<1>1. CASE UNCHANGED vars
  BY <1>1 DEF vars, pubVars, readVars, kept, ChannelInv, TypeOK, RegionConsistent,
              CopyConsistent, StateIsWhole
<1> QED BY <1>1, PublishSteps, RestartStep, ReadSteps DEF Next

(* A step takes the kept state to a later one, or leaves it. *)
LEMMA StateStep ==
  ASSUME ChannelInv, [Next]_vars
  PROVE  [state'.lo >= state.lo /\ state'.hi >= state.hi]_vars
<1> SUFFICES ASSUME Next PROVE state'.lo >= state.lo /\ state'.hi >= state.hi
  BY DEF vars
<1>1. state.lo \in Nat /\ state.hi \in Nat
  BY DEF ChannelInv, TypeOK, Halves
<1>2. CASE ReadDone
  <2>1. buf = Whole(seq) /\ state = Whole(last_seq) /\ last_seq <= seq
        /\ seq \in Nat /\ last_seq \in Nat
    BY <1>2 DEF ReadDone, Undisturbed, ChannelInv, CopyConsistent, StateIsWhole, TypeOK
  <2> QED BY <1>2, <2>1 DEF ReadDone, Whole
<1>3. CASE ~ReadDone
  <2>1. state' = state
    BY <1>3 DEF Next, Publish, PublishOpen, PublishCopyLo, PublishCopyHi, PublishClose,
                PublisherRestart, Read, ReadCall, ReadUnavailable, ReadLoad, ReadCopyLo,
                ReadCopyHi, ReadAgain, ReadGiveUp, kept
  <2> QED BY <1>1, <2>1
<1> QED BY <1>2, <1>3

(* The region, the copies and the kept state stay consistent. *)
THEOREM ChannelInvariant == Spec => []ChannelInv
  BY InitInv, StepInv, PTL DEF Spec

(* A process that polls a latest channel only ever keeps whole snapshots,  *)
(* for any number of attempts and wherever publishers die.                 *)
THEOREM ChannelStateIsWhole == Spec => []StateIsWhole
<1>1. ChannelInv => StateIsWhole
  BY DEF ChannelInv
<1> QED BY <1>1, ChannelInvariant, PTL

(* Its snapshots never go back in time. *)
THEOREM ChannelNeverBackwards == Spec => NeverBackwards
  BY StateStep, ChannelInvariant, PTL DEF Spec, NeverBackwards

-----------------------------------------------------------------------------
(***************************************************************************)
(* Alerts.  A counter is ahead of the last one rung only by events that    *)
(* are owed; a poll that rings therefore pays for an event.                *)
(***************************************************************************)

LEMMA AlertConstants == MaxEvents \in Nat /\ MaxRestarts \in Nat
  BY AlertAssumption

LEMMA AlertsInitially == AlertInit => AlertInv
  BY AlertConstants
  DEF AlertInit, AlertInv, AlertTypeOK, NoGhostAlerts, AheadIsOwed, NoEvents, Unheard,
      NotPublished, Kinds

(* A tick counts and owes the same events. *)
LEMMA TickKeepsAlerts ==
  ASSUME AlertInv, NEW rejected \in BOOLEAN, NEW steers \in BOOLEAN, NEW departs \in BOOLEAN,
         NEW shown \in BOOLEAN, ControlTicks(rejected, steers, departs, shown)
  PROVE  AlertInv'
<1> DEFINE new == EngageKind(rejected, steers) \cup (IF departs THEN {"signal_changed"} ELSE {})
<1>1. new \subseteq Kinds /\ IsFiniteSet(new)
  <2>1. EngageKind(rejected, steers) \in {{"unable"}, {"engage"}, {"disengage"}, {}}
    BY DEF EngageKind
  <2>2. new \subseteq Kinds
    BY <2>1 DEF Kinds
  <2>3. /\ IsFiniteSet({"unable"}) /\ IsFiniteSet({"engage"})
        /\ IsFiniteSet({"disengage"}) /\ IsFiniteSet({"signal_changed"})
    BY FS_Singleton
  <2>4. IsFiniteSet(Kinds)
    <3>1. IsFiniteSet(({"unable"} \cup {"engage"}) \cup ({"disengage"} \cup {"signal_changed"}))
      BY <2>3, FS_Union
    <3>2. Kinds = ({"unable"} \cup {"engage"}) \cup ({"disengage"} \cup {"signal_changed"})
      BY DEF Kinds
    <3> QED BY <3>1, <3>2
  <2> QED BY <2>2, <2>4, FS_Subset
<1>2. /\ EventCount + Cardinality(new) <= MaxEvents
      /\ events' = [k \in Kinds |-> IF k \in new THEN events[k] + 1 ELSE events[k]]
      /\ owed' = [k \in Kinds |-> IF k \in new THEN owed[k] + 1 ELSE owed[k]]
      /\ unrung' = IF controls.polled THEN unrung \cup new ELSE unrung
      /\ controls' = [engaged |-> steers, known |-> TRUE, shown |-> shown, fresh |-> TRUE,
                      polled |-> controls.polled]
      /\ UNCHANGED <<heard, available, sounded, restarts>>
  BY DEF ControlTicks
<1>3. Cardinality(new) \in Nat /\ (new # {} => Cardinality(new) >= 1)
  <2>1. Cardinality(new) \in Nat
    BY <1>1, FS_CardinalityType
  <2>2. new # {} => Cardinality(new) # 0
    BY <1>1, FS_EmptySet
  <2> HIDE DEF new
  <2> QED BY <2>1, <2>2
<1> HIDE DEF new
<1>4. AlertTypeOK /\ AheadIsOwed /\ NoGhostAlerts
  BY DEF AlertInv
<1>5. \A k \in Kinds : events[k] \in Nat /\ owed[k] \in Int
  BY <1>4, AlertConstants DEF AlertTypeOK
<1>6. ASSUME NEW k \in Kinds, k \in new PROVE events[k] + 1 <= MaxEvents
  <2>1. events["unable"] \in Nat /\ events["engage"] \in Nat /\ events["disengage"] \in Nat
        /\ events["signal_changed"] \in Nat
    BY <1>5 DEF Kinds
  <2>2. events[k] <= EventCount
    BY <2>1 DEF EventCount, Kinds
  <2>3. EventCount \in Nat
    BY <2>1 DEF EventCount
  <2>4. Cardinality(new) >= 1
    BY <1>3, <1>6
  <2> QED BY <1>2, <1>3, <1>5, <2>2, <2>3, <2>4, AlertConstants
<1>7. events' \in [Kinds -> 0 .. MaxEvents] /\ owed' \in [Kinds -> Int]
  <2>1. \A k \in Kinds : events'[k] \in 0 .. MaxEvents
    BY <1>2, <1>4, <1>5, <1>6, AlertConstants DEF AlertTypeOK
  <2> QED BY <1>2, <1>5, <2>1
<1>8. controls' \in [engaged : BOOLEAN, known : BOOLEAN, shown : BOOLEAN, fresh : BOOLEAN,
                     polled : BOOLEAN]
  BY <1>2, <1>4 DEF AlertTypeOK
<1>9. unrung' \subseteq Kinds
  BY <1>1, <1>2, <1>4, Zenon DEF AlertTypeOK
<1>10. AlertTypeOK'
  BY <1>2, <1>4, <1>7, <1>8, <1>9 DEF AlertTypeOK
<1>11. NoGhostAlerts'
  BY <1>2, <1>4, <1>5 DEF NoGhostAlerts
<1>12. AheadIsOwed'
  <2> SUFFICES ASSUME heard.initialized, NEW k \in Kinds
               PROVE  events'[k] - heard.last[k] <= owed'[k]
    BY <1>2 DEF AheadIsOwed
  <2>1. heard.last[k] \in Nat /\ events[k] - heard.last[k] <= owed[k]
    BY <1>4, AlertConstants DEF AheadIsOwed, AlertTypeOK
  <2>2. events'[k] = (IF k \in new THEN events[k] + 1 ELSE events[k])
        /\ owed'[k] = (IF k \in new THEN owed[k] + 1 ELSE owed[k])
    BY <1>2
  <2> QED BY <1>5, <2>1, <2>2
<1> QED BY <1>10, <1>11, <1>12 DEF AlertInv

(* What is decided is a new event, and not of a counter that was set back. *)
LEMMA DecisionIsNew ==
  ASSUME AlertTypeOK, NEW alert, alert = Decision, alert # "none"
  PROVE  /\ ~Baseline /\ alert \in Kinds /\ IsNew(alert)
         /\ events[alert] > heard.last[alert]
<1>1. ~Baseline /\ alert \in Kinds /\ IsNew(alert)
  BY DEF Decision, Kinds
<1>2. events[alert] \in Nat /\ heard.last[alert] \in Nat
  BY <1>1, AlertConstants DEF AlertTypeOK
<1> QED BY <1>1, <1>2 DEF Baseline, CounterReset, IsNew

LEMMA PollKeepsAlerts ==
  ASSUME AlertInv, NEW panda_unavailable \in BOOLEAN, PollAlerts(panda_unavailable)
  PROVE  AlertInv'
<1> DEFINE alert == IF controls.fresh THEN Decision ELSE "none"
           unavailable == Unavailable(panda_unavailable)
<1>1. /\ heard' = IF controls.fresh THEN Heard(alert) ELSE heard
      /\ controls' = [controls EXCEPT !.polled = @ \/ controls.fresh]
      /\ owed' = IF alert = "none" THEN owed ELSE [owed EXCEPT ![alert] = @ - 1]
      /\ unrung' = unrung \ {alert}
      /\ available' = IF unavailable THEN "no" ELSE "yes"
      /\ sounded' = AvailabilityAlert(unavailable, alert)
      /\ UNCHANGED <<events, restarts>>
  BY DEF PollAlerts
<1>2. AlertTypeOK /\ AheadIsOwed /\ NoGhostAlerts
  BY DEF AlertInv
<1>3. alert \in Kinds \cup {"none"}
  BY DEF Decision, Kinds
<1>4. alert # "none" => /\ controls.fresh /\ ~Baseline /\ alert \in Kinds
                        /\ events[alert] > heard.last[alert]
  <2>1. alert # "none" => alert = Decision /\ controls.fresh
    OBVIOUS
  <2> HIDE DEF alert
  <2> QED BY <1>2, <2>1, DecisionIsNew
<1> HIDE DEF alert, unavailable
<1>5. \A k \in Kinds : /\ events[k] \in 0 .. MaxEvents /\ events[k] \in Int /\ owed[k] \in Int
                       /\ heard.last[k] \in Int
  BY <1>2, AlertConstants DEF AlertTypeOK
<1>6. heard = [initialized |-> heard.initialized, last |-> heard.last]
      /\ heard.initialized \in BOOLEAN /\ heard.last \in [Kinds -> 0 .. MaxEvents]
      /\ events \in [Kinds -> 0 .. MaxEvents] /\ owed \in [Kinds -> Int]
  BY <1>2 DEF AlertTypeOK
<1>7. CASE alert = "none"
  <2>1. heard' = heard \/ heard' = [initialized |-> TRUE, last |-> events]
    BY <1>1, <1>7 DEF Heard
  <2>2. heard' \in [initialized : BOOLEAN, last : [Kinds -> 0 .. MaxEvents]]
    <3>1. CASE heard' = heard
      BY <1>2, <3>1 DEF AlertTypeOK
    <3>2. CASE heard' = [initialized |-> TRUE, last |-> events]
      BY <1>6, <3>2
    <3> QED BY <2>1, <3>1, <3>2
  <2>3. owed' = owed
    BY <1>1, <1>7
  <2>4. controls' \in [engaged : BOOLEAN, known : BOOLEAN, shown : BOOLEAN, fresh : BOOLEAN,
                       polled : BOOLEAN]
    BY <1>1, <1>2 DEF AlertTypeOK
  <2>5. sounded' \in Kinds \cup {"none", "unavailable"} /\ available' \in {"unknown", "yes", "no"}
    BY <1>1, <1>3 DEF AvailabilityAlert
  <2>6. AlertTypeOK'
    BY <1>1, <1>2, <2>2, <2>3, <2>4, <2>5 DEF AlertTypeOK
  <2>7. AheadIsOwed'
    <3> SUFFICES ASSUME heard'.initialized, NEW k \in Kinds
                 PROVE  events[k] - heard'.last[k] <= owed[k]
      BY <1>1, <2>3 DEF AheadIsOwed
    <3>1. owed[k] >= 0
      BY <1>2 DEF NoGhostAlerts
    <3>2. CASE heard' = heard
      BY <1>2, <3>2 DEF AheadIsOwed
    <3>3. CASE heard' = [initialized |-> TRUE, last |-> events]
      BY <1>5, <3>1, <3>3
    <3> QED BY <2>1, <3>2, <3>3
  <2> QED BY <1>2, <2>3, <2>6, <2>7 DEF AlertInv, NoGhostAlerts
<1>8. CASE alert # "none"
  <2>1. heard.initialized /\ controls.fresh /\ alert \in Kinds /\ events[alert] > heard.last[alert]
    BY <1>4, <1>8 DEF Baseline
  <2>2. heard' = [heard EXCEPT !.last[alert] = events[alert]]
    BY <1>1, <1>4, <1>8 DEF Heard
  <2>3. heard' = [initialized |-> TRUE, last |-> [heard.last EXCEPT ![alert] = events[alert]]]
    BY <1>6, <2>1, <2>2
  <2>4. owed' = [owed EXCEPT ![alert] = owed[alert] - 1]
    BY <1>1, <1>8
  <2>5. heard' \in [initialized : BOOLEAN, last : [Kinds -> 0 .. MaxEvents]]
    BY <1>6, <2>1, <2>3
  <2>6. controls' \in [engaged : BOOLEAN, known : BOOLEAN, shown : BOOLEAN, fresh : BOOLEAN,
                       polled : BOOLEAN]
    BY <1>1, <1>2 DEF AlertTypeOK
  <2>7. sounded' \in Kinds \cup {"none", "unavailable"} /\ available' \in {"unknown", "yes", "no"}
    BY <1>1, <1>3 DEF AvailabilityAlert
  <2>8. owed' \in [Kinds -> Int]
    BY <1>6, <2>1, <2>4
  <2>9. AlertTypeOK'
    BY <1>1, <1>2, <2>5, <2>6, <2>7, <2>8 DEF AlertTypeOK
  <2>10. \A k \in Kinds : events[k] - heard.last[k] <= owed[k] /\ owed[k] >= 0
    BY <1>2, <2>1 DEF AheadIsOwed, NoGhostAlerts
  <2>11. \A k \in Kinds : owed'[k] = (IF k = alert THEN owed[k] - 1 ELSE owed[k])
                          /\ heard'.last[k] = (IF k = alert THEN events[k] ELSE heard.last[k])
    BY <1>6, <2>3, <2>4
  <2>12. owed[alert] >= 1
    BY <1>5, <2>1, <2>10
  <2>13. NoGhostAlerts'
    BY <1>5, <2>10, <2>11, <2>12 DEF NoGhostAlerts
  <2>14. AheadIsOwed'
    <3> SUFFICES ASSUME NEW k \in Kinds
                 PROVE  events[k] - heard'.last[k] <= owed'[k]
      BY <1>1 DEF AheadIsOwed
    <3> QED BY <1>5, <2>10, <2>11, <2>12
  <2> QED BY <2>9, <2>13, <2>14 DEF AlertInv
<1> QED BY <1>7, <1>8

LEMMA AlertsStep == AlertInv /\ [AlertNext]_alertVars => AlertInv'
<1> SUFFICES ASSUME AlertInv, [AlertNext]_alertVars PROVE AlertInv'
  OBVIOUS
<1>1. CASE AnyControlTick
  BY <1>1, TickKeepsAlerts DEF AnyControlTick
<1>2. CASE AnyPoll
  BY <1>2, PollKeepsAlerts DEF AnyPoll
<1>3. CASE ControlGrowsStale
  <2>1. controls' \in [engaged : BOOLEAN, known : BOOLEAN, shown : BOOLEAN, fresh : BOOLEAN,
                       polled : BOOLEAN]
    BY <1>3 DEF ControlGrowsStale, AlertInv, AlertTypeOK
  <2> QED BY <1>3, <2>1 DEF ControlGrowsStale, AlertInv, AlertTypeOK, NoGhostAlerts, AheadIsOwed
<1>4. CASE ControlRestarts
  <2>1. \A k \in Kinds : heard.last[k] \in Nat /\ owed[k] \in Int /\ owed[k] >= 0
    BY AlertConstants DEF AlertInv, AlertTypeOK, NoGhostAlerts
  <2>2. /\ events' = [k \in Kinds |-> 0] /\ unrung' = {}
        /\ controls' \in [engaged : BOOLEAN, known : BOOLEAN, shown : BOOLEAN, fresh : BOOLEAN,
                          polled : BOOLEAN]
        /\ restarts' \in 0 .. MaxRestarts
        /\ UNCHANGED <<heard, available, sounded, owed>>
    BY <1>4, AlertConstants DEF ControlRestarts, AlertInv, AlertTypeOK, NoEvents, NotPublished
  <2>3. AlertTypeOK'
    BY <2>2, AlertConstants DEF AlertInv, AlertTypeOK
  <2>4. AheadIsOwed'
    BY <2>1, <2>2 DEF AheadIsOwed
  <2> QED BY <2>2, <2>3, <2>4 DEF AlertInv, NoGhostAlerts
<1>5. CASE OverlayRestarts
  <2>1. /\ heard' = [initialized |-> FALSE, last |-> [k \in Kinds |-> 0]]
        /\ available' = "unknown" /\ sounded' = "none" /\ owed' = [k \in Kinds |-> 0] /\ unrung' = {}
        /\ controls' \in [engaged : BOOLEAN, known : BOOLEAN, shown : BOOLEAN, fresh : BOOLEAN,
                          polled : BOOLEAN]
        /\ restarts' \in 0 .. MaxRestarts
        /\ UNCHANGED events
    <3>1. /\ heard' = [initialized |-> FALSE, last |-> [k \in Kinds |-> 0]]
          /\ available' = "unknown" /\ sounded' = "none" /\ owed' = [k \in Kinds |-> 0]
          /\ unrung' = {} /\ UNCHANGED events /\ controls' = [controls EXCEPT !.polled = FALSE]
          /\ restarts < MaxRestarts /\ restarts' = restarts + 1
      BY <1>5 DEF OverlayRestarts, NoEvents, Unheard
    <3>2. controls \in [engaged : BOOLEAN, known : BOOLEAN, shown : BOOLEAN, fresh : BOOLEAN,
                        polled : BOOLEAN] /\ restarts \in 0 .. MaxRestarts
      BY DEF AlertInv, AlertTypeOK
    <3>3. restarts' \in 0 .. MaxRestarts
      BY <3>1, <3>2, AlertConstants
    <3> QED BY <3>1, <3>2, <3>3
  <2>2. AlertTypeOK'
    BY <2>1, AlertConstants DEF AlertInv, AlertTypeOK
  <2> QED BY <2>1, <2>2 DEF AlertInv, NoGhostAlerts, AheadIsOwed
<1>6. CASE UNCHANGED alertVars
  BY <1>6 DEF alertVars, AlertInv, AlertTypeOK, NoGhostAlerts, AheadIsOwed
<1> QED BY <1>1, <1>2, <1>3, <1>4, <1>5, <1>6 DEF AlertNext

-----------------------------------------------------------------------------
(***************************************************************************)
(* The overlay.  An overlay that was drawn from a fresh snapshot is as old *)
(* as the time since, until the sample asks for a redraw and a frame       *)
(* brings it; news have asked for theirs and wait for the interval.        *)
(***************************************************************************)

LEMMA HudConstants ==
  /\ StateFresh \in Nat /\ MaxGap \in Nat /\ ReadyFrames \in Nat
  /\ Interval \in Nat /\ Interval >= 1 /\ Sample \in Nat /\ Sample >= 1
  /\ StepTime \in Nat \ {0} /\ Steps \in Nat \ {0} /\ Interval <= Sample
  /\ Never \in Nat /\ Never = StateFresh + Sample + 2 * MaxGap + 1
<1>1. /\ StateFresh \in Nat /\ MaxGap \in Nat /\ ReadyFrames \in Nat
      /\ Interval \in Nat \ {0} /\ Sample \in Nat \ {0}
      /\ StepTime \in Nat \ {0} /\ Steps \in Nat \ {0} /\ Interval <= Sample
  BY HudAssumption
<1> QED BY <1>1 DEF Never

LEMMA RangesHave ==
  /\ 0 \in 0 .. Never /\ Never \in 0 .. Never /\ 0 \in 0 .. Interval /\ Interval \in 0 .. Interval
  /\ 0 \in 0 .. Sample /\ 0 \in 0 .. MaxGap
  BY HudConstants

LEMMA HudInitially == HudInit => HudInv
<1> SUFFICES ASSUME HudInit PROVE HudInv
  OBVIOUS
<1>1. HudTypeOK
  <2>1. /\ topic = [age |-> Never, on |-> FALSE, new |-> FALSE]
        /\ latest = [age |-> Never, on |-> FALSE] /\ drawn = [age |-> Never, on |-> FALSE]
        /\ hud.on = FALSE /\ blinking.on = FALSE /\ pending_redraw = TRUE /\ dark = FALSE
        /\ since = [draw |-> Interval, sample |-> 0, frame |-> 0] /\ waiting = 0
    BY DEF HudInit, Nothing
  <2> QED BY <2>1, RangesHave DEF HudTypeOK
<1>2. waiting = 0 /\ drawn.on = FALSE
  BY DEF HudInit, Nothing
<1> QED BY <1>1, <1>2 DEF HudInv, NewsIsAsked, DrawnAgesWithTime

(* The fields of since and drawn as numbers of their ranges. *)
LEMMA HudNumbers ==
  ASSUME HudTypeOK
  PROVE  /\ since.draw \in Nat /\ since.draw <= Interval
         /\ since.sample \in Nat /\ since.sample <= Sample
         /\ since.frame \in Nat /\ since.frame <= MaxGap
         /\ drawn.age \in Nat /\ waiting \in Nat
<1>1. /\ since.draw \in 0 .. Interval /\ since.sample \in 0 .. Sample /\ since.frame \in 0 .. MaxGap
      /\ drawn.age \in 0 .. Never /\ waiting \in 0 .. Never
  BY DEF HudTypeOK
<1> QED BY <1>1, HudConstants

LEMMA OlderBounds ==
  ASSUME NEW limit \in Nat, NEW n \in 0 .. limit
  PROVE  /\ Older(n, limit) \in 0 .. limit /\ Older(n, limit) <= n + 1
         /\ n <= Older(n, limit)
         /\ n < limit => Older(n, limit) = n + 1
         /\ n = limit => Older(n, limit) = limit
  BY DEF Older

(* A tick makes what is drawn and what waits older by one, and since too. *)
LEMMA TickKeepsHud == HudInv /\ ClockTicks => HudInv'
<1> SUFFICES ASSUME HudInv, ClockTicks PROVE HudInv'
  OBVIOUS
<1>0. HudTypeOK /\ NewsIsAsked /\ DrawnAgesWithTime
  BY DEF HudInv
<1>1. /\ topic' = [topic EXCEPT !.age = Older(topic.age, Never)]
      /\ latest' = [latest EXCEPT !.age = Older(latest.age, Never)]
      /\ drawn' = [drawn EXCEPT !.age = Older(drawn.age, Never)]
      /\ blinking' = [blinking EXCEPT !.time = (blinking.time + 1) % (StepTime * Steps)]
      /\ since' = [draw |-> Older(since.draw, Interval), sample |-> Older(since.sample, Sample),
                   frame |-> Older(since.frame, MaxGap)]
      /\ waiting' = IF waiting = 0 THEN 0 ELSE Older(waiting, Never)
      /\ dark' = (dark \/ since.frame = MaxGap)
      /\ UNCHANGED <<hud, pending_redraw, startup>>
  BY DEF ClockTicks
<1>2. /\ topic.age \in 0 .. Never /\ latest.age \in 0 .. Never /\ drawn.age \in 0 .. Never
      /\ since.draw \in 0 .. Interval /\ since.sample \in 0 .. Sample /\ since.frame \in 0 .. MaxGap
      /\ waiting \in 0 .. Never
  BY <1>0 DEF HudTypeOK
<1>3. /\ Older(topic.age, Never) \in 0 .. Never /\ Older(latest.age, Never) \in 0 .. Never
      /\ Older(drawn.age, Never) \in 0 .. Never /\ Older(drawn.age, Never) <= drawn.age + 1
      /\ Older(waiting, Never) \in 0 .. Never /\ Older(waiting, Never) <= waiting + 1
  BY <1>2, OlderBounds, HudConstants
<1>4. /\ Older(since.draw, Interval) \in 0 .. Interval
      /\ since.draw < Interval => Older(since.draw, Interval) = since.draw + 1
      /\ since.draw = Interval => Older(since.draw, Interval) = Interval
      /\ Older(since.sample, Sample) \in 0 .. Sample
      /\ since.sample < Sample => Older(since.sample, Sample) = since.sample + 1
      /\ since.sample = Sample => Older(since.sample, Sample) = Sample
      /\ Older(since.frame, MaxGap) \in 0 .. MaxGap
      /\ since.frame < MaxGap => Older(since.frame, MaxGap) = since.frame + 1
  BY <1>2, OlderBounds, HudConstants
<1>5. /\ since'.draw = Older(since.draw, Interval) /\ since'.sample = Older(since.sample, Sample)
      /\ since'.frame = Older(since.frame, MaxGap)
  BY <1>1
<1>6. HudTypeOK'
  <2>1. /\ topic' \in [age : 0 .. Never, on : BOOLEAN, new : BOOLEAN]
        /\ latest' \in [age : 0 .. Never, on : BOOLEAN]
        /\ drawn' \in [age : 0 .. Never, on : BOOLEAN]
    BY <1>0, <1>1, <1>3 DEF HudTypeOK
  <2>2. since' \in [draw : 0 .. Interval, sample : 0 .. Sample, frame : 0 .. MaxGap]
    BY <1>1, <1>4
  <2>3. hud'.on \in BOOLEAN /\ pending_redraw' \in BOOLEAN /\ dark' \in BOOLEAN
    BY <1>0, <1>1 DEF HudTypeOK
  <2>4. blinking'.on \in BOOLEAN
    BY <1>0, <1>1 DEF HudTypeOK
  <2>5. waiting' \in 0 .. Never
    BY <1>1, <1>3, HudConstants
  <2> QED BY <2>1, <2>2, <2>3, <2>4, <2>5 DEF HudTypeOK
<1>7. ~dark' => ~dark /\ since'.frame = since.frame + 1
  <2>1. ~dark' => ~dark /\ since.frame # MaxGap
    BY <1>1, Zenon
  <2>2. since.frame # MaxGap => since'.frame = since.frame + 1
    BY <1>2, <1>4, <1>5, HudConstants
  <2> QED BY <2>1, <2>2
<1>8. NewsIsAsked'
  <2> SUFFICES ASSUME waiting' > 0
               PROVE  /\ pending_redraw' \/ topic'.new
                      /\ ~dark' => waiting' <= IF since'.draw = Interval THEN Interval + since'.frame
                                               ELSE since'.draw + 1
    BY DEF NewsIsAsked
  <2>1. waiting > 0 /\ waiting' <= waiting + 1
    BY <1>1, <1>2, <1>3, HudConstants
  <2>2. topic'.new = topic.new
    BY <1>0, <1>1 DEF HudTypeOK
  <2>3. pending_redraw' \/ topic'.new
    BY <1>0, <1>1, <2>1, <2>2 DEF NewsIsAsked
  <2>4. ASSUME ~dark'
        PROVE  waiting' <= IF since'.draw = Interval THEN Interval + since'.frame
                           ELSE since'.draw + 1
    <3>1. waiting <= IF since.draw = Interval THEN Interval + since.frame ELSE since.draw + 1
      BY <1>0, <1>7, <2>1, <2>4 DEF NewsIsAsked
    <3>2. waiting' \in Nat
      BY <1>6, HudConstants DEF HudTypeOK
    <3>3. CASE since.draw = Interval
      BY <1>2, <1>4, <1>5, <1>7, <2>1, <2>4, <3>1, <3>2, <3>3, HudConstants
    <3>4. CASE since.draw < Interval
      BY <1>2, <1>4, <1>5, <1>7, <2>1, <2>4, <3>1, <3>2, <3>4, HudConstants
    <3> QED BY <1>2, <3>3, <3>4, HudConstants
  <2> QED BY <2>3, <2>4
<1>9. DrawnAgesWithTime'
  <2> SUFFICES ASSUME drawn'.on, ~dark'
               PROVE  /\ since'.draw < Interval => drawn'.age <= StateFresh + since'.draw
                      /\ IF pending_redraw' THEN drawn'.age <= StateFresh + Sample + MaxGap + since'.frame
                         ELSE drawn'.age <= StateFresh + since'.sample
                                            + (IF since'.sample = Sample THEN since'.frame ELSE 0)
    BY DEF DrawnAgesWithTime, SampleIsDue
  <2>1. drawn.on /\ drawn'.age = Older(drawn.age, Never) /\ drawn'.age <= drawn.age + 1
    BY <1>0, <1>1, <1>3 DEF HudTypeOK
  <2>2. /\ since.draw < Interval => drawn.age <= StateFresh + since.draw
        /\ IF pending_redraw THEN drawn.age <= StateFresh + Sample + MaxGap + since.frame
           ELSE drawn.age <= StateFresh + since.sample
                             + (IF since.sample = Sample THEN since.frame ELSE 0)
    BY <1>0, <1>7, <2>1 DEF DrawnAgesWithTime, SampleIsDue
  <2>3. drawn'.age \in Nat /\ pending_redraw' = pending_redraw
    BY <1>1, <1>3, <2>1, HudConstants
  <2>4. since'.draw < Interval => drawn'.age <= StateFresh + since'.draw
    BY <1>2, <1>4, <1>5, <2>1, <2>2, <2>3, HudConstants
  <2>5. CASE pending_redraw
    BY <1>2, <1>7, <2>1, <2>2, <2>3, <2>4, <2>5, HudConstants
  <2>6. CASE ~pending_redraw /\ since.sample = Sample
    BY <1>2, <1>4, <1>5, <1>7, <2>1, <2>2, <2>3, <2>4, <2>6, HudConstants
  <2>7. CASE ~pending_redraw /\ since.sample # Sample
    <3>1. since'.sample = since.sample + 1 /\ since'.frame \in Nat
      BY <1>2, <1>4, <1>5, <1>7, <2>7, HudConstants
    <3>2. drawn'.age <= StateFresh + since'.sample
      BY <1>2, <2>1, <2>2, <2>3, <2>7, <3>1, HudConstants
    <3> QED BY <1>2, <2>3, <2>4, <2>7, <3>1, <3>2, HudConstants
  <2> QED BY <2>5, <2>6, <2>7
<1> QED BY <1>6, <1>8, <1>9 DEF HudInv

(* A call of on_frame(): either the overlay is drawn again, or what asked  *)
(* for that still asks.                                                    *)
LEMMA FrameKeepsHud ==
  ASSUME HudInv, NEW displayed \in BOOLEAN, NEW updated \in BOOLEAN, NEW opens \in BOOLEAN,
         OnFrame(displayed, updated, opens)
  PROVE  HudInv'
<1> DEFINE shown == IsShown(Polled)
           redraws == displayed /\ RedrawAsked /\ OverlayDue
<1>0. HudTypeOK /\ NewsIsAsked /\ DrawnAgesWithTime
  BY DEF HudInv
<1>1. /\ latest' = Polled
      /\ topic' = [topic EXCEPT !.new = FALSE]
      /\ blinking' = Blinking(shown)
      /\ hud' = [on |-> shown, step |-> Step(Blinking(shown))]
      /\ drawn' = IF redraws THEN [age |-> Polled.age, on |-> shown] ELSE drawn
      /\ pending_redraw' = Pending(redraws)
      /\ since' = [draw |-> IF redraws THEN 0 ELSE since.draw,
                   sample |-> IF SampleIsDue THEN 0 ELSE since.sample,
                   frame |-> IF displayed THEN 0 ELSE since.frame]
      /\ waiting' = CASE redraws -> 0
                      [] ~redraws /\ waiting = 0 /\ hud'.step # hud.step /\ shown -> 1
                      [] OTHER -> waiting
      /\ dark' = (dark /\ ~redraws)
  BY DEF OnFrame
<1>2. /\ since.draw \in Nat /\ since.draw <= Interval
      /\ since.sample \in Nat /\ since.sample <= Sample
      /\ since.frame \in Nat /\ since.frame <= MaxGap
      /\ drawn.age \in Nat /\ waiting \in Nat
  BY <1>0, HudNumbers
<1>3. Polled \in [age : 0 .. Never, on : BOOLEAN] /\ shown \in BOOLEAN
      /\ (shown => Polled.age <= StateFresh)
  BY <1>0 DEF Polled, IsShown, HudTypeOK
<1>4. RedrawAsked \in BOOLEAN /\ (pending_redraw \/ topic.new => RedrawAsked)
      /\ (hud'.step # hud.step /\ shown => RedrawAsked)
  BY <1>1 DEF RedrawAsked
<1>5. /\ since'.draw = IF redraws THEN 0 ELSE since.draw
      /\ since'.sample = IF SampleIsDue THEN 0 ELSE since.sample
      /\ since'.frame = IF displayed THEN 0 ELSE since.frame
  BY <1>1
<1>6. Blinking(shown).on \in BOOLEAN
  BY <1>0, <1>3 DEF Blinking, HudTypeOK
<1>7. redraws \in BOOLEAN /\ (redraws <=> displayed /\ RedrawAsked /\ since.draw = Interval)
  BY DEF OverlayDue
<1>8. pending_redraw' \in BOOLEAN /\ (pending_redraw' <=> (RedrawAsked /\ ~redraws) \/ SampleIsDue)
  BY <1>1 DEF Pending
<1> HIDE DEF shown, redraws
<1>9. waiting' \in {0, 1, waiting}
  BY <1>1, <1>7
<1>10. HudTypeOK'
  <2>1. topic' \in [age : 0 .. Never, on : BOOLEAN, new : BOOLEAN]
    BY <1>0, <1>1 DEF HudTypeOK
  <2>2. latest' \in [age : 0 .. Never, on : BOOLEAN]
    BY <1>1, <1>3
  <2>3. drawn' \in [age : 0 .. Never, on : BOOLEAN]
    BY <1>0, <1>1, <1>3 DEF HudTypeOK
  <2>4. since' \in [draw : 0 .. Interval, sample : 0 .. Sample, frame : 0 .. MaxGap]
    BY <1>1, <1>2, HudConstants
  <2>5. waiting' \in 0 .. Never
    BY <1>0, <1>9, HudConstants DEF HudTypeOK
  <2>6. hud'.on \in BOOLEAN /\ blinking'.on \in BOOLEAN
    BY <1>1, <1>3, <1>6
  <2>7. dark' \in BOOLEAN
    BY <1>1
  <2> QED BY <1>8, <2>1, <2>2, <2>3, <2>4, <2>5, <2>6, <2>7 DEF HudTypeOK
<1>11. CASE redraws
  <2>1. waiting' = 0 /\ since'.draw = 0 /\ drawn' = [age |-> Polled.age, on |-> shown]
    BY <1>1, <1>5, <1>11
  <2>2. drawn'.on => drawn'.age <= StateFresh
    BY <1>3, <2>1
  <2>3. /\ drawn'.age \in Nat /\ since'.sample \in Nat /\ since'.frame \in Nat
    BY <1>10, HudConstants DEF HudTypeOK
  <2>4. NewsIsAsked'
    BY <2>1 DEF NewsIsAsked
  <2>5. DrawnAgesWithTime'
    <3> SUFFICES ASSUME drawn'.on
                 PROVE  /\ drawn'.age <= StateFresh + since'.draw
                        /\ drawn'.age <= StateFresh + Sample + MaxGap + since'.frame
                        /\ drawn'.age <= StateFresh + since'.sample
                        /\ drawn'.age <= StateFresh + since'.sample + since'.frame
      BY <2>3, HudConstants DEF DrawnAgesWithTime
    <3> QED BY <2>1, <2>2, <2>3, HudConstants
  <2> QED BY <1>10, <2>4, <2>5 DEF HudInv
<1>12. CASE ~redraws
  <2>1. /\ drawn' = drawn /\ since'.draw = since.draw /\ (dark' <=> dark)
        /\ (pending_redraw' <=> RedrawAsked \/ SampleIsDue)
    BY <1>0, <1>1, <1>5, <1>8, <1>12 DEF HudTypeOK
  <2>2. displayed /\ RedrawAsked => since.draw < Interval
    BY <1>2, <1>7, <1>12, HudConstants
  <2>3. NewsIsAsked'
    <3> SUFFICES ASSUME waiting' > 0
                 PROVE  /\ pending_redraw'
                        /\ ~dark' => waiting' <= IF since'.draw = Interval THEN Interval + since'.frame
                                                 ELSE since'.draw + 1
      BY DEF NewsIsAsked
    <3>1. CASE waiting > 0
      <4>1. RedrawAsked /\ waiting' = waiting
        BY <1>0, <1>1, <1>2, <1>4, <1>12, <3>1 DEF NewsIsAsked
      <4>2. ~dark => waiting <= IF since.draw = Interval THEN Interval + since.frame ELSE since.draw + 1
        BY <1>0, <3>1 DEF NewsIsAsked
      <4>3. since.draw = Interval => since'.frame = since.frame
        BY <1>5, <2>2, <4>1, <1>2, HudConstants
      <4> QED BY <2>1, <4>1, <4>2, <4>3
    <3>2. CASE waiting = 0
      <4>1. waiting' = 1 /\ RedrawAsked
        BY <1>1, <1>2, <1>4, <1>12, <3>2
      <4>2. since'.frame \in Nat
        BY <1>10, HudConstants DEF HudTypeOK
      <4> QED BY <1>2, <2>1, <4>1, <4>2, HudConstants
    <3> QED BY <1>2, <3>1, <3>2
  <2>4. DrawnAgesWithTime'
    <3> SUFFICES ASSUME drawn.on, ~dark
                 PROVE  /\ since.draw < Interval => drawn.age <= StateFresh + since.draw
                        /\ IF pending_redraw' THEN drawn.age <= StateFresh + Sample + MaxGap + since'.frame
                           ELSE drawn.age <= StateFresh + since'.sample
                                             + (IF since'.sample = Sample THEN since'.frame ELSE 0)
      BY <2>1 DEF DrawnAgesWithTime, SampleIsDue
    <3>1. /\ since.draw < Interval => drawn.age <= StateFresh + since.draw
          /\ IF pending_redraw THEN drawn.age <= StateFresh + Sample + MaxGap + since.frame
             ELSE drawn.age <= StateFresh + since.sample
                               + (IF since.sample = Sample THEN since.frame ELSE 0)
      BY <1>0 DEF DrawnAgesWithTime, SampleIsDue
    <3>2. CASE pending_redraw /\ displayed
      <4>1. since.draw < Interval /\ pending_redraw' /\ since'.frame = 0
        BY <1>4, <1>5, <2>1, <2>2, <3>2
      <4> QED BY <1>2, <3>1, <4>1, HudConstants
    <3>3. CASE pending_redraw /\ ~displayed
      <4>1. pending_redraw' /\ since'.frame = since.frame
        BY <1>4, <1>5, <2>1, <3>3
      <4> QED BY <3>1, <3>3, <4>1
    <3>4. CASE ~pending_redraw /\ pending_redraw'
      <4>1. drawn.age <= StateFresh + Sample + MaxGap
        BY <1>2, <3>1, <3>4, HudConstants
      <4>2. since'.frame \in Nat
        BY <1>10, HudConstants DEF HudTypeOK
      <4> QED BY <1>2, <3>1, <3>4, <4>1, <4>2, HudConstants
    <3>5. CASE ~pending_redraw /\ ~pending_redraw'
      <4>1. since.sample # Sample /\ since'.sample = since.sample
        BY <1>5, <2>1, <3>5 DEF SampleIsDue
      <4> QED BY <3>1, <3>5, <4>1
    <3> QED BY <3>2, <3>3, <3>4, <3>5
  <2> QED BY <1>10, <2>3, <2>4 DEF HudInv
<1> QED BY <1>11, <1>12

LEMMA HudStep == HudInv /\ [HudNext]_hudVars => HudInv'
<1> SUFFICES ASSUME HudInv, [HudNext]_hudVars PROVE HudInv'
  OBVIOUS
<1>0. HudTypeOK /\ NewsIsAsked /\ DrawnAgesWithTime
  BY DEF HudInv
<1>1. CASE PublishState
  <2>1. PICK on \in BOOLEAN :
          /\ topic' = [age |-> 0, on |-> on, new |-> TRUE]
          /\ waiting' = IF waiting = 0 THEN 1 ELSE waiting
          /\ UNCHANGED <<latest, hud, blinking, pending_redraw, since, startup, drawn, dark>>
    BY <1>1 DEF PublishState
  <2>2. HudTypeOK'
    BY <1>0, <2>1, HudConstants DEF HudTypeOK
  <2>3. NewsIsAsked'
    <3>1. topic'.new /\ since' = since /\ dark' = dark
      BY <2>1
    <3>2. CASE waiting = 0
      <4>1. waiting' = 1
        BY <2>1, <3>2
      <4>2. 1 <= IF since.draw = Interval THEN Interval + since.frame ELSE since.draw + 1
        BY <1>0, HudNumbers, HudConstants
      <4> QED BY <3>1, <4>1, <4>2 DEF NewsIsAsked
    <3>3. CASE waiting # 0
      <4>1. waiting' = waiting
        BY <2>1, <3>3
      <4> QED BY <1>0, <3>1, <4>1 DEF NewsIsAsked
    <3> QED BY <3>2, <3>3
  <2>4. DrawnAgesWithTime'
    BY <1>0, <2>1 DEF DrawnAgesWithTime, SampleIsDue
  <2> QED BY <2>2, <2>3, <2>4 DEF HudInv
<1>2. CASE ClockTicks
  BY <1>2, TickKeepsHud
<1>3. CASE FrameIsDisplayed
  <2>1. TRUE \in BOOLEAN
    OBVIOUS
  <2> QED BY <1>3, <2>1, FrameKeepsHud DEF FrameIsDisplayed
<1>4. CASE FrameIsNotDisplayed
  <2>1. FALSE \in BOOLEAN
    OBVIOUS
  <2> QED BY <1>4, <2>1, FrameKeepsHud DEF FrameIsNotDisplayed
<1>5. CASE HudRestarts
  <2>1. /\ latest' = [age |-> Never, on |-> FALSE] /\ topic' = [topic EXCEPT !.new = topic.age < Never]
        /\ hud' = [on |-> FALSE, step |-> 0] /\ blinking' = [on |-> FALSE, time |-> 0]
        /\ pending_redraw' = TRUE
        /\ since' = [draw |-> Interval, sample |-> 0, frame |-> 0]
        /\ drawn' = [age |-> Never, on |-> FALSE] /\ waiting' = 0 /\ dark' = FALSE
    BY <1>5 DEF HudRestarts, Nothing
  <2>2. topic' \in [age : 0 .. Never, on : BOOLEAN, new : BOOLEAN]
    <3>1. (topic.age < Never) \in BOOLEAN
      OBVIOUS
    <3> QED BY <1>0, <2>1, <3>1 DEF HudTypeOK
  <2>3. HudTypeOK'
    <3>1. /\ latest' \in [age : 0 .. Never, on : BOOLEAN]
          /\ drawn' \in [age : 0 .. Never, on : BOOLEAN]
          /\ since' \in [draw : 0 .. Interval, sample : 0 .. Sample, frame : 0 .. MaxGap]
      BY <2>1, RangesHave
    <3>2. hud'.on \in BOOLEAN /\ blinking'.on \in BOOLEAN /\ pending_redraw' \in BOOLEAN
          /\ dark' \in BOOLEAN /\ waiting' \in 0 .. Never
      BY <2>1, RangesHave
    <3> QED BY <2>2, <3>1, <3>2 DEF HudTypeOK
  <2>4. waiting' = 0 /\ drawn'.on = FALSE
    BY <2>1
  <2> QED BY <2>3, <2>4 DEF HudInv, NewsIsAsked, DrawnAgesWithTime
<1>6. CASE UNCHANGED hudVars
  BY <1>6 DEF hudVars, HudInv, HudTypeOK, NewsIsAsked, DrawnAgesWithTime, SampleIsDue
<1> QED BY <1>1, <1>2, <1>3, <1>4, <1>5, <1>6 DEF HudNext

(* What the driver sees is never old, and news come soon. *)
LEMMA HudIsRightThen == HudInv => HudIsRight
<1> SUFFICES ASSUME HudInv PROVE HudIsRight
  OBVIOUS
<1>1. HudTypeOK /\ NewsIsAsked /\ DrawnAgesWithTime
  BY DEF HudInv
<1>2. /\ since.draw \in Nat /\ since.draw <= Interval
      /\ since.sample \in Nat /\ since.sample <= Sample
      /\ since.frame \in Nat /\ since.frame <= MaxGap
      /\ drawn.age \in Nat /\ waiting \in Nat
  BY <1>1, HudNumbers
<1>3. NothingOldIsShown
  <2> SUFFICES ASSUME drawn.on, ~dark PROVE drawn.age <= StateFresh + Sample + 2 * MaxGap
    BY DEF NothingOldIsShown
  <2>1. IF pending_redraw THEN drawn.age <= StateFresh + Sample + MaxGap + since.frame
        ELSE drawn.age <= StateFresh + since.sample
                          + (IF since.sample = Sample THEN since.frame ELSE 0)
    BY <1>1 DEF DrawnAgesWithTime, SampleIsDue
  <2> QED BY <1>2, <2>1, HudConstants
<1>4. NewsIsDrawn
  <2> SUFFICES ASSUME waiting > 0, ~dark PROVE waiting <= Interval + MaxGap
    BY DEF NewsIsDrawn
  <2>1. waiting <= IF since.draw = Interval THEN Interval + since.frame ELSE since.draw + 1
    BY <1>1 DEF NewsIsAsked
  <2> QED BY <1>2, <2>1, HudConstants
<1> QED BY <1>3, <1>4 DEF HudIsRight

-----------------------------------------------------------------------------
(***************************************************************************)
(* The trends of the learners.  The region is the seqlock again; a row     *)
(* that joins a history is newer than all of it, since the sequence number *)
(* it was read at has moved since the last one.                            *)
(***************************************************************************)

LEMMA TrendConstants ==
  /\ MaxSeqNumber \in Nat /\ TrendWindow \in Nat /\ MaxPolls \in Nat
  /\ Tries \in Nat /\ Tries >= 1 /\ HistoryRows \in Nat /\ HistoryRows >= 1
<1>1. /\ MaxSeqNumber \in Nat /\ TrendWindow \in Nat /\ MaxPolls \in Nat
      /\ Tries \in Nat \ {0} /\ HistoryRows \in Nat \ {0}
  BY TrendAssumption
<1> QED BY <1>1

(* Every set of naturals that is not empty has a least member. *)
LEMMA LeastMember ==
  ASSUME NEW T \in SUBSET Nat, T # {}
  PROVE  \E m \in T : \A k \in T : m <= k
<1> DEFINE Smaller == {p \in Nat \X Nat : p[1] < p[2]}
<1>1. IsWellFoundedOn(Smaller, Nat)
  BY NatLessThanWellFounded DEF OpToRel
<1>2. \A a, b \in Nat : a < b => <<a, b>> \in Smaller
  OBVIOUS
<1> HIDE DEF Smaller
<1>3. \E m \in T : \A k \in T : ~(<<k, m>> \in Smaller)
  BY <1>1, WFMin
<1>4. \A a, b \in Nat : ~(a < b) => b <= a
  OBVIOUS
<1>5. \A a \in T : a \in Nat
  OBVIOUS
<1> QED BY <1>2, <1>3, <1>4, <1>5

LEMMA MinIsMember ==
  ASSUME NEW T \in SUBSET Nat, T # {}
  PROVE  Min(T) \in T
  BY LeastMember DEF Min

(* Recorded rows stay recorded when time goes on ... *)
LEMMA RecordedLater ==
  ASSUME NEW t \in Nat, NEW u \in Nat, t <= u, NEW rows, Recorded(rows, t)
  PROVE  Recorded(rows, u)
<1>1. rows \in Rows /\ InOrder(rows)
      /\ \A i \in 1 .. Len(rows) : rows[i].time = rows[i].value /\ rows[i].time \in 1 .. t
  BY DEF Recorded
<1>2. 1 .. t \subseteq 1 .. u
  OBVIOUS
<1> QED BY <1>1, <1>2 DEF Recorded

LEMMA RecordedNone == ASSUME NEW t PROVE Recorded(<<>>, t)
  BY DEF Recorded, Rows, InOrder

(* ... also without the first ones ... *)
LEMMA RecordedSuffix ==
  ASSUME NEW t \in Nat, NEW rows, Recorded(rows, t), NEW m \in 1 .. Len(rows)
  PROVE  /\ Recorded(SubSeq(rows, m, Len(rows)), t)
         /\ SubSeq(rows, m, Len(rows)) # <<>>
         /\ Last(SubSeq(rows, m, Len(rows))) = Last(rows)
<1> DEFINE rest == SubSeq(rows, m, Len(rows))
<1>1. /\ rows \in Seq([time : Nat, value : Nat]) /\ Len(rows) \in Nat
      /\ \A i \in 1 .. Len(rows) - 1 : rows[i].time < rows[i + 1].time
      /\ \A i \in 1 .. Len(rows) : rows[i].time = rows[i].value /\ rows[i].time \in 1 .. t
  BY DEF Recorded, Rows, InOrder
<1>2. /\ rest \in Seq([time : Nat, value : Nat]) /\ Len(rest) = Len(rows) - m + 1
      /\ \A i \in 1 .. Len(rest) : rest[i] = rows[m + i - 1]
  <2> DEFINE R == [time : Nat, value : Nat]
  <2>1. /\ m \in Int /\ Len(rows) \in Int /\ m <= Len(rows)
        /\ \A i \in m .. Len(rows) : rows[i] \in R
    <3>1. /\ \A i \in m .. Len(rows) : i \in 1 .. Len(rows)
          /\ m \in Int /\ Len(rows) \in Int /\ m <= Len(rows)
      BY <1>1
    <3>2. rows \in Seq(R)
      BY <1>1
    <3> HIDE DEF R
    <3>3. \A i \in 1 .. Len(rows) : rows[i] \in R
      BY <3>2
    <3> QED BY <3>1, <3>3
  <2>2. /\ rest \in Seq(R)
        /\ Len(rest) = IF m <= Len(rows) THEN Len(rows) - m + 1 ELSE 0
        /\ \A i \in 1 .. Len(rows) - m + 1 : rest[i] = rows[m + i - 1]
    <3> HIDE DEF R
    <3> QED BY <2>1, SubSeqProperties
  <2> HIDE DEF rest
  <2> QED BY <2>1, <2>2
<1> HIDE DEF rest
<1>3. ASSUME NEW i \in 1 .. Len(rest) - 1 PROVE rest[i].time < rest[i + 1].time
  <2>1. m + i - 1 \in 1 .. Len(rows) - 1 /\ i \in 1 .. Len(rest) /\ i + 1 \in 1 .. Len(rest)
        /\ m + (i + 1) - 1 = (m + i - 1) + 1
    BY <1>1, <1>2
  <2>2. rows[m + i - 1].time < rows[(m + i - 1) + 1].time
    BY <1>1, <2>1
  <2> QED BY <1>2, <2>1, <2>2
<1>4. ASSUME NEW i \in 1 .. Len(rest)
      PROVE  rest[i].time = rest[i].value /\ rest[i].time \in 1 .. t
  <2>1. m + i - 1 \in 1 .. Len(rows)
    BY <1>1, <1>2
  <2>2. rest[i] = rows[m + i - 1]
    BY <1>2
  <2>3. rows[m + i - 1].time = rows[m + i - 1].value /\ rows[m + i - 1].time \in 1 .. t
    BY <1>1, <2>1
  <2> QED BY <2>2, <2>3
<1>5. Recorded(rest, t)
  BY <1>2, <1>3, <1>4 DEF Recorded, Rows, InOrder
<1>6. Len(rest) >= 1 /\ rest[Len(rest)] = rows[Len(rows)]
  <2>0. Len(rest) = Len(rows) - m + 1 /\ Len(rows) \in Nat /\ m \in 1 .. Len(rows)
    BY <1>1, <1>2
  <2> HIDE DEF rest
  <2>1. Len(rest) \in 1 .. Len(rest) /\ m + Len(rest) - 1 = Len(rows)
    BY <2>0
  <2>2. rest[Len(rest)] = rows[m + Len(rest) - 1]
    BY <1>2, <2>1
  <2> QED BY <2>1, <2>2
<1>7. rest # <<>>
  BY <1>6
<1> QED BY <1>5, <1>6, <1>7 DEF rest, Last

(* ... and with a newer one. *)
LEMMA RecordedAppend ==
  ASSUME NEW t \in Nat, NEW u \in Nat, t <= u, NEW rows, Recorded(rows, t),
         NEW time \in 1 .. u, rows # <<>> => Last(rows).time < time
  PROVE  Recorded(Append(rows, Row(time, time)), u)
<1> DEFINE row == Row(time, time)
           all == Append(rows, row)
<1>1. /\ rows \in Seq([time : Nat, value : Nat]) /\ Len(rows) \in Nat
      /\ \A i \in 1 .. Len(rows) - 1 : rows[i].time < rows[i + 1].time
      /\ \A i \in 1 .. Len(rows) : rows[i].time = rows[i].value /\ rows[i].time \in 1 .. u
  <2>1. Recorded(rows, u)
    BY RecordedLater
  <2> QED BY <2>1 DEF Recorded, Rows, InOrder
<1>2. row \in [time : Nat, value : Nat] /\ row.time = time /\ row.value = time
  BY DEF Row
<1> HIDE DEF row
<1>3. /\ all \in Seq([time : Nat, value : Nat]) /\ Len(all) = Len(rows) + 1
      /\ all[Len(rows) + 1] = row
      /\ \A i \in 1 .. Len(rows) : all[i] = rows[i]
  BY <1>1, <1>2
<1> HIDE DEF all
<1>4. ASSUME NEW i \in 1 .. Len(all) - 1 PROVE all[i].time < all[i + 1].time
  <2>1. CASE i = Len(rows)
    <3>1. rows # <<>> /\ all[i] = rows[Len(rows)] /\ all[i + 1] = row
      BY <1>1, <1>3, <2>1
    <3>2. rows[Len(rows)].time < time
      BY <3>1 DEF Last
    <3> QED BY <1>2, <3>1, <3>2
  <2>2. CASE i # Len(rows)
    <3>1. i \in 1 .. Len(rows) - 1 /\ i \in 1 .. Len(rows) /\ i + 1 \in 1 .. Len(rows)
      BY <1>1, <1>3, <2>2
    <3> QED BY <1>1, <1>3, <3>1
  <2> QED BY <2>1, <2>2
<1>5. ASSUME NEW i \in 1 .. Len(all) PROVE all[i].time = all[i].value /\ all[i].time \in 1 .. u
  <2>1. CASE i \in 1 .. Len(rows)
    <3>1. all[i] = rows[i]
      BY <1>3, <2>1
    <3>2. rows[i].time = rows[i].value /\ rows[i].time \in 1 .. u
      BY <1>1, <2>1
    <3> QED BY <3>1, <3>2
  <2>2. CASE i = Len(rows) + 1
    BY <1>2, <1>3, <2>2
  <2> QED BY <1>1, <1>3, <2>1, <2>2
<1>6. Recorded(all, u)
  BY <1>3, <1>4, <1>5 DEF Recorded, Rows, InOrder
<1> QED BY <1>6 DEF all, row

(* The last of recorded rows is a recorded row. *)
LEMMA LastIsRecorded ==
  ASSUME NEW t \in Nat, NEW rows, Recorded(rows, t), rows # <<>>
  PROVE  Last(rows).time \in 1 .. t /\ Last(rows).time = Last(rows).value /\ Len(rows) \in Nat
         /\ Len(rows) >= 1
<1>1. Len(rows) \in Nat /\ Len(rows) >= 1 /\ Len(rows) \in 1 .. Len(rows)
  BY DEF Recorded, Rows
<1> QED BY <1>1 DEF Recorded, Last

LEMMA RowIsRecorded ==
  ASSUME NEW t, NEW all, Recorded(all, t), NEW i \in 1 .. Len(all)
  PROVE  all[i] = Row(all[i].time, all[i].time) /\ all[i].time \in 1 .. t
<1> DEFINE row == all[i]
           R == [time : Nat, value : Nat]
<1>0. all \in Seq(R) /\ \A k \in 1 .. Len(all) : all[k].time = all[k].value /\ all[k].time \in 1 .. t
  BY DEF Recorded, Rows
<1>1. row \in [time : Nat, value : Nat] /\ row.time = row.value /\ row.time \in 1 .. t
  <2>1. all[i] \in R
    <3> HIDE DEF R
    <3> QED BY <1>0
  <2> QED BY <1>0, <2>1
<1> HIDE DEF row
<1>2. row = Row(row.time, row.time)
  BY <1>1 DEF Row
<1> QED BY <1>1, <1>2 DEF row

(* The history takes a newer row, and its newest row is that one. *)
LEMMA HistoryGoesOn ==
  ASSUME NEW t \in Nat, NEW u \in Nat, t < u, NEW rows, Recorded(rows, t)
  PROVE  /\ Recorded(Appended(rows, Row(u, u)), u)
         /\ Appended(rows, Row(u, u)) # <<>>
         /\ Last(Appended(rows, Row(u, u))).time = u
<1> DEFINE all == Append(rows, Row(u, u))
<1>1. rows # <<>> => Last(rows).time < u /\ Last(rows).time \in Nat
  BY LastIsRecorded
<1>2. Recorded(all, u)
  BY <1>1, RecordedAppend
<1>3. Len(all) \in Nat /\ Len(all) >= 1 /\ Last(all) = Row(u, u) /\ all \in Seq([time : Nat, value : Nat])
      /\ all # <<>>
  <2>1. rows \in Seq([time : Nat, value : Nat]) /\ Row(u, u) \in [time : Nat, value : Nat]
    BY DEF Recorded, Rows, Row
  <2> QED BY <2>1 DEF Last
<1>4. Row(u, u).time = u
  BY DEF Row
<1>5. Appended(rows, Row(u, u)) = IF Len(all) > HistoryRows THEN Tail(all) ELSE all
  <2>1. ~(rows # <<>> /\ u < Last(rows).time)
    BY <1>1
  <2> QED BY <1>4, <2>1 DEF Appended
<1> HIDE DEF all
<1>6. CASE Len(all) > HistoryRows
  <2>1. 2 \in 1 .. Len(all)
    BY <1>3, <1>6, TrendConstants
  <2>2. Tail(all) = SubSeq(all, 2, Len(all))
    BY <1>3, TailIsSubSeq, Zenon
  <2> QED BY <1>2, <1>3, <1>4, <1>5, <1>6, <2>1, <2>2, RecordedSuffix
<1>7. CASE ~(Len(all) > HistoryRows)
  BY <1>2, <1>3, <1>4, <1>5, <1>7
<1> QED BY <1>6, <1>7

(* Rows are only taken off the front of a trend. *)
LEMMA WindowOfRows ==
  ASSUME NEW t \in Nat, NEW rows, Recorded(rows, t), rows # <<>>, NEW time,
         time = Last(rows).time
  PROVE  Recorded(InWindow(rows, time), t)
<1> DEFINE inside == {i \in DOMAIN rows : rows[i].time + TrendWindow >= time}
<1>1. Len(rows) \in Nat /\ Len(rows) >= 1 /\ DOMAIN rows = 1 .. Len(rows) /\ time \in Nat
      /\ rows[Len(rows)].time = time
  BY LastIsRecorded DEF Recorded, Rows, Last
<1>2. Len(rows) \in inside
  BY <1>1, TrendConstants
<1>3. inside \subseteq Nat /\ inside \subseteq 1 .. Len(rows)
  BY <1>1
<1>4. InWindow(rows, time) = SubSeq(rows, Min(inside), Len(rows))
  BY DEF InWindow
<1> HIDE DEF inside
<1>5. Min(inside) \in 1 .. Len(rows)
  BY <1>2, <1>3, MinIsMember
<1> QED BY <1>4, <1>5, RecordedSuffix

LEMMA TrendGoesOn ==
  ASSUME NEW t \in Nat, NEW rows, Recorded(rows, t), NEW time \in 1 .. t
  PROVE  Recorded(Followed(rows, Row(time, time)), t)
<1> DEFINE row == Row(time, time)
           going == IF rows # <<>> /\ row.time < Last(rows).time THEN <<>> ELSE rows
<1>1. row.time = time
  BY DEF Row
<1>2. Recorded(going, t)
  BY RecordedNone
<1>3. Followed(rows, row) = IF going # <<>> /\ row.time <= Last(going).time THEN going
                            ELSE InWindow(Append(going, row), row.time)
  BY DEF Followed
<1> HIDE DEF going
<1>4. CASE going # <<>> /\ time <= Last(going).time
  BY <1>1, <1>2, <1>3, <1>4
<1>5. CASE ~(going # <<>> /\ time <= Last(going).time)
  <2>1. going # <<>> => Last(going).time \in Nat
    BY <1>2, LastIsRecorded
  <2>2. going # <<>> => Last(going).time < time
    BY <1>5, <2>1
  <2>3. Recorded(Append(going, row), t)
    BY <1>2, <2>2, RecordedAppend
  <2>4. Append(going, row) # <<>> /\ Last(Append(going, row)) = row
    <3> DEFINE R == [time : Nat, value : Nat]
    <3>1. going \in Seq(R) /\ Len(going) \in Nat /\ row \in R
      BY <1>2 DEF Recorded, Rows, Row
    <3> HIDE DEF row, R
    <3>2. Append(going, row) # <<>> /\ Len(Append(going, row)) = Len(going) + 1
          /\ Append(going, row)[Len(going) + 1] = row
      BY <3>1, AppendProperties
    <3> QED BY <3>2, Zenon DEF Last
  <2> DEFINE all == Append(going, row)
  <2>5. Recorded(all, t) /\ all # <<>> /\ row.time = Last(all).time
    BY <2>3, <2>4
  <2> HIDE DEF all
  <2>6. Recorded(InWindow(all, row.time), t)
    BY <2>5, WindowOfRows
  <2> QED BY <1>1, <1>3, <1>5, <2>6 DEF all
<1> QED BY <1>4, <1>5

-----------------------------------------------------------------------------

LEMMA TrendInitially == TrendInit => TrendInv
<1> SUFFICES ASSUME TrendInit PROVE TrendInv
  OBVIOUS
<1>1. /\ region = [seq |-> 0, low |-> 0, high |-> 0] /\ publisher = [pc |-> "idle", base |-> 0]
      /\ reader = [pc |-> "idle", who |-> 0, left |-> 0, before |-> 0, low |-> 0, high |-> 0]
      /\ monitor = [last |-> 0, history |-> <<>>] /\ asked = {} /\ polls = 0
      /\ tab = [open |-> FALSE, trend |-> <<>>]
  BY DEF TrendInit, Idle, Monitor
<1>2. TrendTypeOK
  BY <1>1, TrendConstants DEF TrendTypeOK
<1>3. RegionIsConsistent /\ CopyIsConsistent /\ ReaderIsAwaited
  BY <1>1 DEF RegionIsConsistent, CopyIsConsistent, ReaderIsAwaited
<1>4. RowsAreRecorded
  BY <1>1, RecordedNone DEF RowsAreRecorded
<1> QED BY <1>2, <1>3, <1>4 DEF TrendInv

LEMMA Rounding ==
  \A n \in Nat : /\ n % 2 = 0 => (n + 1) % 2 # 0 /\ (n + 2) % 2 = 0
                 /\ (n + (n % 2)) % 2 = 0 /\ n <= n + (n % 2) /\ n + (n % 2) \in Nat
  OBVIOUS

(* What a step that leaves the reader and the page alone has to keep. *)
LEMMA OnlyRegionMoves ==
  ASSUME TrendInv, UNCHANGED <<reader, monitor, asked, polls, tab>>,
         region' \in [seq : Nat, low : Nat, high : Nat],
         publisher' \in [pc : {"idle", "low", "high", "close"}, base : Nat],
         RegionIsConsistent',
         region'.seq = region.seq \/ region'.seq > region.seq,
         region'.seq = region.seq => region.seq % 2 # 0 \/ region' = region
  PROVE  TrendInv'
<1>1. TrendTypeOK /\ RegionIsConsistent /\ CopyIsConsistent /\ RowsAreRecorded /\ ReaderIsAwaited
  BY DEF TrendInv
<1>2. TrendTypeOK'
  BY <1>1 DEF TrendTypeOK
<1>3. /\ reader.before \in Nat /\ region.seq \in Nat /\ region'.seq \in Nat /\ monitor.last \in Nat
      /\ region.seq <= region'.seq
  BY <1>1 DEF TrendTypeOK
<1>4. CopyIsConsistent'
  BY <1>1, <1>3 DEF CopyIsConsistent, Intact
<1>5. RowsAreRecorded'
  BY <1>1, <1>3 DEF RowsAreRecorded
<1>6. ReaderIsAwaited'
  BY <1>1 DEF ReaderIsAwaited
<1> QED BY <1>2, <1>4, <1>5, <1>6 DEF TrendInv

LEMMA PublicationKeepsTrend == TrendInv /\ (PublishRow \/ PublisherDies) => TrendInv'
<1> SUFFICES ASSUME TrendInv, PublishRow \/ PublisherDies PROVE TrendInv'
  OBVIOUS
<1>1. RegionIsConsistent /\ region \in [seq : Nat, low : Nat, high : Nat]
      /\ publisher \in [pc : {"idle", "low", "high", "close"}, base : Nat]
  BY DEF TrendInv, TrendTypeOK
<1>2. UNCHANGED <<reader, monitor, asked, polls, tab>>
  BY DEF PublishRow, PublisherDies
<1>3. PICK q \in Nat, l \in Nat, h \in Nat : region = [seq |-> q, low |-> l, high |-> h]
  BY <1>1
<1>4. PICK pc \in {"idle", "low", "high", "close"}, b \in Nat : publisher = [pc |-> pc, base |-> b]
  BY <1>1
<1>5. /\ pc # "idle" => b % 2 = 0 /\ q = b + 1
      /\ pc = "close" => l = b + 2 /\ h = b + 2
      /\ pc = "high" => l = b + 2
      /\ q % 2 = 0 => l = q /\ h = q
  BY <1>1, <1>3, <1>4 DEF RegionIsConsistent
<1>6. CASE PublishRow /\ pc = "idle"
  <2> DEFINE even == q + (q % 2)
  <2>1. publisher' = [pc |-> "low", base |-> even] /\ region' = [seq |-> even + 1, low |-> l, high |-> h]
    BY <1>3, <1>4, <1>6 DEF PublishRow
  <2>2. even \in Nat /\ even % 2 = 0 /\ q <= even
    BY Rounding
  <2> HIDE DEF even
  <2>3. (even + 1) % 2 # 0
    BY <2>2, Rounding
  <2>4. RegionIsConsistent'
    BY <2>1, <2>2, <2>3 DEF RegionIsConsistent
  <2>5. region'.seq > region.seq
    BY <1>3, <2>1, <2>2
  <2>6. region' \in [seq : Nat, low : Nat, high : Nat]
        /\ publisher' \in [pc : {"idle", "low", "high", "close"}, base : Nat]
    BY <2>1, <2>2
  <2>7. region'.seq # region.seq
    BY <1>3, <2>1, <2>2
  <2> QED BY <1>2, <2>4, <2>5, <2>6, <2>7, OnlyRegionMoves
<1>7. CASE PublishRow /\ pc = "low"
  <2>1. publisher' = [pc |-> "high", base |-> b] /\ region' = [seq |-> q, low |-> b + 2, high |-> h]
    BY <1>3, <1>4, <1>7 DEF PublishRow
  <2>2. b % 2 = 0 /\ q = b + 1 /\ q % 2 # 0
    BY <1>5, <1>7, Rounding
  <2>3. RegionIsConsistent'
    BY <2>1, <2>2 DEF RegionIsConsistent
  <2>4. region' \in [seq : Nat, low : Nat, high : Nat]
        /\ publisher' \in [pc : {"idle", "low", "high", "close"}, base : Nat]
    BY <2>1
  <2>5. region'.seq = region.seq /\ region.seq % 2 # 0
    BY <1>3, <2>1, <2>2
  <2> QED BY <1>2, <2>3, <2>4, <2>5, OnlyRegionMoves
<1>8. CASE PublishRow /\ pc = "high"
  <2>1. publisher' = [pc |-> "close", base |-> b] /\ region' = [seq |-> q, low |-> l, high |-> b + 2]
    BY <1>3, <1>4, <1>8 DEF PublishRow
  <2>2. b % 2 = 0 /\ q = b + 1 /\ q % 2 # 0 /\ l = b + 2
    BY <1>5, <1>8, Rounding
  <2>3. RegionIsConsistent'
    BY <2>1, <2>2 DEF RegionIsConsistent
  <2>4. region' \in [seq : Nat, low : Nat, high : Nat]
        /\ publisher' \in [pc : {"idle", "low", "high", "close"}, base : Nat]
    BY <2>1
  <2>5. region'.seq = region.seq /\ region.seq % 2 # 0
    BY <1>3, <2>1, <2>2
  <2> QED BY <1>2, <2>3, <2>4, <2>5, OnlyRegionMoves
<1>9. CASE PublishRow /\ pc = "close"
  <2>1. publisher' = [pc |-> "idle", base |-> b] /\ region' = [seq |-> b + 2, low |-> l, high |-> h]
    BY <1>3, <1>4, <1>9 DEF PublishRow
  <2>2. q = b + 1 /\ l = b + 2 /\ h = b + 2
    BY <1>5, <1>9
  <2>3. RegionIsConsistent'
    BY <2>1, <2>2 DEF RegionIsConsistent
  <2>4. region' \in [seq : Nat, low : Nat, high : Nat]
        /\ publisher' \in [pc : {"idle", "low", "high", "close"}, base : Nat]
    BY <2>1
  <2>5. region'.seq > region.seq /\ region'.seq # region.seq
    BY <1>3, <2>1, <2>2
  <2> QED BY <1>2, <2>3, <2>4, <2>5, OnlyRegionMoves
<1>10. CASE PublisherDies
  <2>1. publisher' = [pc |-> "idle", base |-> b] /\ region' = region
    BY <1>4, <1>10 DEF PublisherDies
  <2>2. RegionIsConsistent'
    BY <1>1, <2>1 DEF RegionIsConsistent
  <2>3. publisher' \in [pc : {"idle", "low", "high", "close"}, base : Nat]
    BY <2>1
  <2>4. region'.seq = region.seq
    BY <2>1
  <2> QED BY <1>1, <1>2, <2>1, <2>2, <2>3, <2>4, OnlyRegionMoves
<1> QED BY <1>4, <1>6, <1>7, <1>8, <1>9, <1>10

(* An answer replaces its request. *)
LEMMA AnswerIsRecorded ==
  ASSUME NEW t \in Nat, \A s \in asked : IsRequest(s, t), NEW r \in asked, NEW rows, Recorded(rows, t)
  PROVE  \A s \in Answer(r, rows) : IsRequest(s, t)
<1>1. IsRequest(r, t)
  OBVIOUS
<1>2. [r EXCEPT !.stage = "answered", !.rows = rows]
        = [id |-> r.id, kind |-> r.kind, stage |-> "answered", rows |-> rows]
  <2>1. PICK i, k, g, w : r = [id |-> i, kind |-> k, stage |-> g, rows |-> w]
    BY <1>1 DEF IsRequest
  <2>2. r.id = i /\ r.kind = k
    BY <2>1
  <2>3. [r EXCEPT !.stage = "answered", !.rows = rows]
          = [id |-> i, kind |-> k, stage |-> "answered", rows |-> rows]
    <3>1. [r EXCEPT !.stage = "answered"] = [id |-> i, kind |-> k, stage |-> "answered", rows |-> w]
      BY <2>1
    <3>2. [[id |-> i, kind |-> k, stage |-> "answered", rows |-> w] EXCEPT !.rows = rows]
            = [id |-> i, kind |-> k, stage |-> "answered", rows |-> rows]
      OBVIOUS
    <3> QED BY <3>1, <3>2, Zenon
  <2> QED BY <2>2, <2>3, Zenon
<1>3. IsRequest([id |-> r.id, kind |-> r.kind, stage |-> "answered", rows |-> rows], t)
  BY <1>1 DEF IsRequest
<1> QED BY <1>2, <1>3 DEF Answer

LEMMA ReleaseAnswers ==
  ASSUME TrendInv, NEW t \in Nat, monitor.last <= t, NEW rows, Recorded(rows, t), Release(rows),
         reader.pc # "idle"
  PROVE  reader' = Idle /\ \A s \in asked' : IsRequest(s, t)
<1>1. \A s \in asked : IsRequest(s, t)
  BY RecordedLater DEF TrendInv, TrendTypeOK, RowsAreRecorded, IsRequest
<1>2. CASE reader.who = Monitor
  BY <1>1, <1>2 DEF Release
<1>3. CASE reader.who # Monitor
  <2> DEFINE r == CHOOSE r \in asked : r.id = reader.who
  <2>1. \E s \in asked : s.id = reader.who
    BY <1>3 DEF TrendInv, ReaderIsAwaited
  <2>2. r \in asked
    BY <2>1
  <2>3. reader' = Idle /\ asked' = Answer(r, rows)
    BY <1>3 DEF Release
  <2> HIDE DEF r
  <2> QED BY <1>1, <2>2, <2>3, AnswerIsRecorded
<1> QED BY <1>2, <1>3

LEMMA IdleIsAReader ==
  /\ Idle \in [pc : {"idle", "header", "low", "high", "check"}, who : 0 .. MaxPolls,
               left : 0 .. Tries, before : Nat, low : Nat, high : Nat]
  /\ Idle.pc = "idle"
  BY TrendConstants DEF Idle, Monitor

(* A read that ends without a row leaves everything else. *)
LEMMA ReleaseNothing ==
  ASSUME TrendInv, Release(Missing), reader.pc # "idle",
         UNCHANGED <<region, publisher, monitor, polls, tab>>
  PROVE  TrendInv'
<1>1. TrendTypeOK /\ RegionIsConsistent /\ CopyIsConsistent /\ RowsAreRecorded /\ ReaderIsAwaited
  BY DEF TrendInv
<1>2. monitor.last \in Nat /\ monitor.last <= monitor.last
  BY <1>1 DEF TrendTypeOK
<1>3. reader' = Idle /\ \A s \in asked' : IsRequest(s, monitor.last)
  BY <1>2, RecordedNone, ReleaseAnswers DEF Missing
<1>4. TrendTypeOK'
  BY <1>1, <1>3, IdleIsAReader DEF TrendTypeOK
<1>5. CopyIsConsistent' /\ ReaderIsAwaited'
  BY <1>3, IdleIsAReader DEF CopyIsConsistent, ReaderIsAwaited
<1>6. RowsAreRecorded'
  BY <1>1, <1>3 DEF RowsAreRecorded
<1>7. RegionIsConsistent'
  BY <1>1 DEF RegionIsConsistent
<1> QED BY <1>4, <1>5, <1>6, <1>7 DEF TrendInv

LEMMA ReadingKeepsTrend ==
  TrendInv /\ (BeginSample \/ ReadHeader \/ CopyPayload) => TrendInv'
<1> SUFFICES ASSUME TrendInv, BeginSample \/ ReadHeader \/ CopyPayload PROVE TrendInv'
  OBVIOUS
<1>1. TrendTypeOK /\ RegionIsConsistent /\ CopyIsConsistent /\ RowsAreRecorded /\ ReaderIsAwaited
  BY DEF TrendInv
<1>2. PICK pc \in {"idle", "header", "low", "high", "check"}, who \in 0 .. MaxPolls, left \in 0 .. Tries,
           before0 \in Nat, low \in Nat, high \in Nat :
        reader = [pc |-> pc, who |-> who, left |-> left, before |-> before0, low |-> low, high |-> high]
  BY <1>1 DEF TrendTypeOK
<1>3. region.seq \in Nat /\ region.low \in Nat /\ region.high \in Nat /\ monitor.last \in Nat
      /\ (region.seq % 2 = 0 => region.low = region.seq /\ region.high = region.seq)
      /\ monitor.last <= region.seq
  BY <1>1 DEF TrendTypeOK, RegionIsConsistent, RowsAreRecorded
<1>4. UNCHANGED <<region, publisher, monitor, polls, tab>>
  BY DEF BeginSample, ReadHeader, CopyPayload
<1>5. ASSUME reader' \in [pc : {"idle", "header", "low", "high", "check"}, who : 0 .. MaxPolls,
                          left : 0 .. Tries, before : Nat, low : Nat, high : Nat],
             CopyIsConsistent', ReaderIsAwaited', UNCHANGED asked
      PROVE  TrendInv'
  <2>1. TrendTypeOK'
    BY <1>1, <1>4, <1>5 DEF TrendTypeOK
  <2>2. RowsAreRecorded' /\ RegionIsConsistent'
    BY <1>1, <1>4, <1>5 DEF RowsAreRecorded, RegionIsConsistent
  <2> QED BY <1>5, <2>1, <2>2 DEF TrendInv
<1>6. CASE BeginSample
  <2>1. PICK new \in {Monitor} \cup {r.id : r \in Of("row", "sent")} :
          /\ reader = Idle /\ reader' = [Idle EXCEPT !.pc = "header", !.who = new, !.left = Tries]
          /\ UNCHANGED asked
    BY <1>6 DEF BeginSample
  <2>2. new # Monitor => \E r \in asked : r.id = new /\ r.stage = "sent"
    BY <2>1 DEF Of
  <2>3. new \in 0 .. MaxPolls
    <3>1. CASE new = Monitor
      BY <3>1, TrendConstants DEF Monitor
    <3>2. CASE new # Monitor
      <4>1. PICK r \in asked : r.id = new
        BY <2>2, <3>2
      <4>2. r.id \in 1 .. MaxPolls
        BY <1>1 DEF RowsAreRecorded, IsRequest
      <4> QED BY <4>1, <4>2
    <3> QED BY <3>1, <3>2
  <2>4. reader' = [pc |-> "header", who |-> new, left |-> Tries, before |-> 0, low |-> 0, high |-> 0]
    BY <2>1 DEF Idle
  <2>5. reader' \in [pc : {"idle", "header", "low", "high", "check"}, who : 0 .. MaxPolls,
                     left : 0 .. Tries, before : Nat, low : Nat, high : Nat]
    BY <2>3, <2>4, TrendConstants
  <2>6. CopyIsConsistent'
    BY <2>4 DEF CopyIsConsistent
  <2>7. ReaderIsAwaited'
    BY <2>1, <2>2, <2>4 DEF ReaderIsAwaited
  <2> QED BY <1>5, <2>1, <2>5, <2>6, <2>7
<1>7. CASE ReadHeader
  <2>1. CASE IsStable
    <3>1. reader' = [pc |-> "low", who |-> who, left |-> left, before |-> region.seq, low |-> low,
                     high |-> high] /\ UNCHANGED asked /\ pc = "header"
      BY <1>2, <1>7, <2>1 DEF ReadHeader
    <3>2. region.seq # 0 /\ region.seq % 2 = 0
      BY <2>1 DEF IsStable
    <3>3. reader' \in [pc : {"idle", "header", "low", "high", "check"}, who : 0 .. MaxPolls,
                       left : 0 .. Tries, before : Nat, low : Nat, high : Nat]
      BY <1>3, <3>1
    <3>4. CopyIsConsistent'
      BY <1>3, <1>4, <3>1, <3>2 DEF CopyIsConsistent
    <3>5. ReaderIsAwaited'
      BY <1>1, <1>2, <3>1 DEF ReaderIsAwaited
    <3> QED BY <1>5, <3>1, <3>3, <3>4, <3>5
  <2>2. CASE ~IsStable
    <3>1. Release(Missing) /\ reader.pc # "idle"
      BY <1>7, <2>2 DEF ReadHeader
    <3> QED BY <1>4, <3>1, ReleaseNothing
  <2> QED BY <2>1, <2>2
<1>8. CASE CopyPayload
  <2>1. UNCHANGED asked /\ pc \in {"low", "high"}
    BY <1>2, <1>8 DEF CopyPayload
  <2>2. before0 > 0 /\ before0 % 2 = 0 /\ monitor.last <= before0 /\ before0 <= region.seq
        /\ (pc = "high" /\ region.seq = before0 => low = before0)
    BY <1>1, <1>2, <2>1 DEF CopyIsConsistent, Intact
  <2>3. CASE pc = "low"
    <3>1. reader' = [pc |-> "high", who |-> who, left |-> left, before |-> before0,
                     low |-> region.low, high |-> high]
      BY <1>2, <1>8, <2>3 DEF CopyPayload
    <3>2. reader' \in [pc : {"idle", "header", "low", "high", "check"}, who : 0 .. MaxPolls,
                       left : 0 .. Tries, before : Nat, low : Nat, high : Nat]
      BY <1>3, <3>1
    <3>3. CopyIsConsistent'
      BY <1>3, <1>4, <2>2, <3>1 DEF CopyIsConsistent, Intact
    <3>4. ReaderIsAwaited'
      BY <1>1, <1>2, <2>1, <2>3, <3>1 DEF ReaderIsAwaited
    <3> QED BY <1>5, <2>1, <3>2, <3>3, <3>4
  <2>4. CASE pc = "high"
    <3>1. reader' = [pc |-> "check", who |-> who, left |-> left, before |-> before0,
                     low |-> low, high |-> region.high]
      BY <1>2, <1>8, <2>4 DEF CopyPayload
    <3>2. reader' \in [pc : {"idle", "header", "low", "high", "check"}, who : 0 .. MaxPolls,
                       left : 0 .. Tries, before : Nat, low : Nat, high : Nat]
      BY <1>3, <3>1
    <3>3. CopyIsConsistent'
      BY <1>3, <1>4, <2>2, <2>4, <3>1 DEF CopyIsConsistent, Intact
    <3>4. ReaderIsAwaited'
      BY <1>1, <1>2, <2>1, <2>4, <3>1 DEF ReaderIsAwaited
    <3> QED BY <1>5, <2>1, <3>2, <3>3, <3>4
  <2> QED BY <2>1, <2>3, <2>4
<1> QED BY <1>6, <1>7, <1>8

(* The check after the copy: a row that is kept is the newest of all. *)
LEMMA CheckKeepsTrend == TrendInv /\ CheckAgain => TrendInv'
<1> SUFFICES ASSUME TrendInv, CheckAgain PROVE TrendInv'
  OBVIOUS
<1>1. TrendTypeOK /\ RegionIsConsistent /\ CopyIsConsistent /\ RowsAreRecorded /\ ReaderIsAwaited
  BY DEF TrendInv
<1>2. PICK who \in 0 .. MaxPolls, left \in 0 .. Tries, before0 \in Nat, low \in Nat, high \in Nat :
        reader = [pc |-> "check", who |-> who, left |-> left, before |-> before0, low |-> low,
                  high |-> high]
  BY <1>1 DEF TrendTypeOK, CheckAgain
<1>3. monitor.last \in Nat /\ monitor.last <= before0 /\ before0 > 0 /\ before0 <= region.seq
      /\ (Intact => low = before0 /\ high = before0)
  BY <1>1, <1>2 DEF CopyIsConsistent, TrendTypeOK
<1>4. UNCHANGED <<region, publisher, polls, tab>>
  BY DEF CheckAgain
<1>5. CASE Intact
  <2> DEFINE row == Row(before0, before0)
  <2>1. Release(<<row>>) /\ monitor' = Sampled(before0, row)
    BY <1>2, <1>3, <1>5 DEF CheckAgain
  <2>2. Recorded(<<row>>, before0)
    <3>1. Append(<<>>, row) = <<row>>
      OBVIOUS
    <3> DEFINE none == <<>>
    <3>2. before0 \in 1 .. before0 /\ before0 <= before0 /\ Recorded(none, before0) /\ none = <<>>
      BY <1>3, RecordedNone
    <3>3. Recorded(Append(none, row), before0)
      <4> HIDE DEF none
      <4> QED BY <3>2, RecordedAppend
    <3> HIDE DEF row
    <3> QED BY <3>1, <3>3
  <2>3. reader' = Idle /\ \A s \in asked' : IsRequest(s, before0)
    <3>1. reader.pc # "idle"
      BY <1>2
    <3> HIDE DEF row
    <3> QED BY <1>3, <2>1, <2>2, <3>1, ReleaseAnswers
  <2>3a. PICK last \in Nat : \E history : monitor = [last |-> last, history |-> history]
    BY <1>1, <1>3 DEF RowsAreRecorded
  <2>4. PICK history : monitor = [last |-> last, history |-> history]
    BY <2>3a
  <2>5. last <= before0 /\ Recorded(history, last) /\ Recorded(tab.trend, last)
        /\ IF history = <<>> THEN last = 0 ELSE Last(history).time = last
    BY <1>1, <1>3, <2>4 DEF RowsAreRecorded
  <2>6. /\ monitor'.last = before0
        /\ monitor' = [last |-> monitor'.last, history |-> monitor'.history]
        /\ Recorded(monitor'.history, before0) /\ Recorded(tab.trend, before0)
        /\ monitor'.history # <<>> /\ Last(monitor'.history).time = before0
    <3>1. CASE before0 = last
      <4>1. monitor' = [last |-> last, history |-> history]
        BY <2>1, <2>4, <3>1 DEF Sampled
      <4>2. history # <<>>
        BY <1>3, <2>5, <3>1
      <4> QED BY <2>5, <3>1, <4>1, <4>2
    <3>2. CASE before0 # last
      <4>1. monitor' = [last |-> before0, history |-> Appended(history, row)]
        BY <2>1, <2>4, <3>2 DEF Sampled
      <4>2. last < before0
        BY <2>5, <3>2
      <4>3. Recorded(Appended(history, row), before0) /\ Appended(history, row) # <<>>
            /\ Last(Appended(history, row)).time = before0
        BY <2>5, <4>2, HistoryGoesOn
      <4>4. Recorded(tab.trend, before0)
        BY <2>5, <4>2, RecordedLater
      <4> HIDE DEF row
      <4> QED BY <4>1, <4>3, <4>4
    <3> QED BY <3>1, <3>2
  <2>7. TrendTypeOK'
    BY <1>1, <1>4, <2>3, <2>6, IdleIsAReader DEF TrendTypeOK
  <2>8. CopyIsConsistent' /\ ReaderIsAwaited'
    BY <2>3, IdleIsAReader DEF CopyIsConsistent, ReaderIsAwaited
  <2>9. RowsAreRecorded'
    <3>1. tab' = [open |-> tab'.open, trend |-> tab'.trend] /\ tab'.trend = tab.trend
      BY <1>1, <1>4 DEF RowsAreRecorded
    <3>2. monitor'.last <= region'.seq
      BY <1>3, <1>4, <2>6
    <3> QED BY <2>3, <2>6, <3>1, <3>2 DEF RowsAreRecorded
  <2>10. RegionIsConsistent'
    BY <1>1, <1>4 DEF RegionIsConsistent
  <2> QED BY <2>7, <2>8, <2>9, <2>10 DEF TrendInv
<1>6. CASE ~Intact /\ left > 1
  <2>1. reader' = [pc |-> "header", who |-> who, left |-> left - 1, before |-> before0, low |-> low,
                   high |-> high] /\ UNCHANGED <<monitor, asked>>
    <3>1. reader.left > 1 /\ ~(reader.left = 1 /\ Release(Missing))
      BY <1>2, <1>6
    <3>2. reader' = [reader EXCEPT !.pc = "header", !.left = reader.left - 1]
          /\ UNCHANGED <<monitor, asked>>
      BY <1>6, <3>1, Zenon DEF CheckAgain
    <3> QED BY <1>2, <3>2
  <2>2. left - 1 \in 0 .. Tries
    BY <1>6, TrendConstants
  <2>3. TrendTypeOK'
    BY <1>1, <1>4, <2>1, <2>2 DEF TrendTypeOK
  <2>4. CopyIsConsistent'
    BY <2>1 DEF CopyIsConsistent
  <2>5. ReaderIsAwaited'
    BY <1>1, <1>2, <2>1 DEF ReaderIsAwaited
  <2>6. RowsAreRecorded' /\ RegionIsConsistent'
    BY <1>1, <1>4, <2>1 DEF RowsAreRecorded, RegionIsConsistent
  <2> QED BY <2>3, <2>4, <2>5, <2>6 DEF TrendInv
<1>7. CASE ~Intact /\ ~(left > 1)
  <2>1. Release(Missing) /\ UNCHANGED monitor
    BY <1>2, <1>7 DEF CheckAgain
  <2>2. reader.pc # "idle"
    BY <1>2
  <2> QED BY <1>4, <2>1, <2>2, ReleaseNothing
<1> QED BY <1>5, <1>6, <1>7

(* A request that is asked, and those that are left. *)
LEMMA AsksRecorded ==
  ASSUME NEW t \in Nat, NEW rest, \A s \in rest : IsRequest(s, t), NEW kind, Asks(rest, kind),
         polls \in 0 .. MaxPolls
  PROVE  /\ \A s \in asked' : IsRequest(s, t)
         /\ polls' \in 0 .. MaxPolls /\ rest \subseteq asked'
<1>1. CASE polls = MaxPolls
  BY <1>1 DEF Asks
<1>2. CASE polls # MaxPolls
  <2>1. polls' = polls + 1 /\ polls + 1 \in 1 .. MaxPolls
        /\ asked' = rest \cup {[id |-> polls + 1, kind |-> kind, stage |-> "sent", rows |-> <<>>]}
    BY <1>2, TrendConstants DEF Asks
  <2>2. IsRequest([id |-> polls + 1, kind |-> kind, stage |-> "sent", rows |-> <<>>], t)
    BY <2>1, RecordedNone DEF IsRequest
  <2>3. polls' \in 0 .. MaxPolls
    BY <2>1, TrendConstants
  <2> QED BY <2>1, <2>2, <2>3
<1> QED BY <1>1, <1>2

(* What a step of the page has to keep: whom the reader works for stays,   *)
(* and the trend and the requests are recorded rows.                       *)
LEMMA OnlyPageMoves ==
  ASSUME TrendInv, UNCHANGED <<region, publisher, reader, monitor>>,
         polls' \in 0 .. MaxPolls, \A s \in asked' : IsRequest(s, monitor.last),
         NEW open \in BOOLEAN, NEW trend, tab' = [open |-> open, trend |-> trend],
         Recorded(trend, monitor.last),
         \A s \in asked : s.stage = "sent" => s \in asked' \/ reader.pc = "idle"
  PROVE  TrendInv'
<1>1. TrendTypeOK /\ RegionIsConsistent /\ CopyIsConsistent /\ RowsAreRecorded /\ ReaderIsAwaited
  BY DEF TrendInv
<1>2. TrendTypeOK'
  BY <1>1 DEF TrendTypeOK
<1>3. RegionIsConsistent' /\ CopyIsConsistent'
  BY <1>1 DEF RegionIsConsistent, CopyIsConsistent, Intact
<1>4. ReaderIsAwaited'
  BY <1>1 DEF ReaderIsAwaited
<1>5. RowsAreRecorded'
  BY <1>1 DEF RowsAreRecorded
<1> QED BY <1>2, <1>3, <1>4, <1>5 DEF TrendInv

LEMMA PageKeepsTrend ==
  TrendInv /\ (CopyHistory \/ OpenTab \/ CloseTab \/ TrendComes \/ PollLearners \/ RowComes)
    => TrendInv'
<1> SUFFICES ASSUME TrendInv, CopyHistory \/ OpenTab \/ CloseTab \/ TrendComes \/ PollLearners \/ RowComes
             PROVE  TrendInv'
  OBVIOUS
<1>1. /\ monitor.last \in Nat /\ polls \in 0 .. MaxPolls
      /\ Recorded(monitor.history, monitor.last) /\ Recorded(tab.trend, monitor.last)
      /\ \A s \in asked : IsRequest(s, monitor.last)
  BY DEF TrendInv, TrendTypeOK, RowsAreRecorded
<1>1a. PICK open \in BOOLEAN : \E trend : tab = [open |-> open, trend |-> trend]
  BY DEF TrendInv, TrendTypeOK, RowsAreRecorded
<1>2. PICK trend : tab = [open |-> open, trend |-> trend]
  BY <1>1a
<1>3. UNCHANGED <<region, publisher, reader, monitor>>
  BY DEF CopyHistory, OpenTab, CloseTab, TrendComes, PollLearners, RowComes
<1>4. Recorded(trend, monitor.last)
  BY <1>1, <1>2
<1>5. CASE CopyHistory
  <2>1. PICK r \in Of("trend", "sent") : reader = Idle /\ asked' = Answer(r, monitor.history)
                                         /\ UNCHANGED <<polls, tab>>
    BY <1>5 DEF CopyHistory
  <2>2. r \in asked
    BY DEF Of
  <2>3. \A s \in asked' : IsRequest(s, monitor.last)
    BY <1>1, <2>1, <2>2, AnswerIsRecorded
  <2>4. reader.pc = "idle"
    BY <2>1 DEF Idle
  <2> QED BY <1>1, <1>2, <1>3, <1>4, <2>1, <2>3, <2>4, OnlyPageMoves
<1>6. CASE OpenTab
  <2>1. tab' = [open |-> TRUE, trend |-> trend] /\ Asks(asked, "trend")
    BY <1>2, <1>6 DEF OpenTab
  <2>2. (\A s \in asked' : IsRequest(s, monitor.last)) /\ polls' \in 0 .. MaxPolls /\ asked \subseteq asked'
    BY <1>1, <2>1, AsksRecorded
  <2>3. \A s \in asked : s.stage = "sent" => s \in asked' \/ reader.pc = "idle"
    BY <2>2
  <2> QED BY <1>3, <1>4, <2>1, <2>2, <2>3, OnlyPageMoves
<1>7. CASE CloseTab
  <2>1. tab' = [open |-> FALSE, trend |-> trend] /\ UNCHANGED <<asked, polls>>
    BY <1>2, <1>7 DEF CloseTab
  <2> QED BY <1>1, <1>3, <1>4, <2>1, OnlyPageMoves
<1>8. CASE TrendComes
  <2>1. PICK r \in Of("trend", "answered"), lost \in BOOLEAN :
          /\ tab' = IF lost THEN tab ELSE [tab EXCEPT !.trend = r.rows]
          /\ Asks(asked \ {r}, "row")
    BY <1>8 DEF TrendComes
  <2>2. r \in asked /\ r.stage = "answered" /\ Recorded(r.rows, monitor.last)
    BY <1>1 DEF Of, IsRequest
  <2> DEFINE rest == asked \ {r}
             rows == IF lost THEN trend ELSE r.rows
  <2>3. tab' = [open |-> open, trend |-> rows] /\ Recorded(rows, monitor.last)
    BY <1>2, <1>4, <2>1, <2>2
  <2>4. (\A s \in rest : IsRequest(s, monitor.last)) /\ Asks(rest, "row")
    BY <1>1, <2>1
  <2>5. \A s \in asked : s.stage = "sent" => s \in rest
    BY <2>2
  <2> HIDE DEF rest, rows
  <2>6. (\A s \in asked' : IsRequest(s, monitor.last)) /\ polls' \in 0 .. MaxPolls /\ rest \subseteq asked'
    BY <1>1, <2>4, AsksRecorded
  <2>7. \A s \in asked : s.stage = "sent" => s \in asked' \/ reader.pc = "idle"
    BY <2>5, <2>6
  <2> QED BY <1>3, <2>3, <2>6, <2>7, OnlyPageMoves
<1>9. CASE PollLearners
  <2>1. tab' = [open |-> open, trend |-> trend] /\ Asks(asked, "row")
    BY <1>2, <1>9 DEF PollLearners
  <2>2. (\A s \in asked' : IsRequest(s, monitor.last)) /\ polls' \in 0 .. MaxPolls /\ asked \subseteq asked'
    BY <1>1, <2>1, AsksRecorded
  <2>3. \A s \in asked : s.stage = "sent" => s \in asked' \/ reader.pc = "idle"
    BY <2>2
  <2> QED BY <1>3, <1>4, <2>1, <2>2, <2>3, OnlyPageMoves
<1>10. CASE RowComes
  <2>1. PICK r \in Of("row", "answered"), lost \in BOOLEAN :
          /\ tab' = IF lost \/ r.rows = Missing THEN tab
                    ELSE [tab EXCEPT !.trend = Followed(tab.trend, r.rows[1])]
          /\ asked' = asked \ {r} /\ UNCHANGED polls
    BY <1>10 DEF RowComes
  <2>2. r \in asked /\ r.stage = "answered" /\ Recorded(r.rows, monitor.last)
    BY <1>1 DEF Of, IsRequest
  <2>3. \A s \in asked' : IsRequest(s, monitor.last)
    BY <1>1, <2>1
  <2>4. \A s \in asked : s.stage = "sent" => s \in asked' \/ reader.pc = "idle"
    BY <2>1, <2>2
  <2>5. CASE lost \/ r.rows = Missing
    <3>1. tab' = [open |-> open, trend |-> trend]
      BY <1>2, <2>1, <2>5
    <3> QED BY <1>1, <1>3, <1>4, <2>1, <2>3, <2>4, <3>1, OnlyPageMoves
  <2>6. CASE ~(lost \/ r.rows = Missing)
    <3> DEFINE row == r.rows[1]
               rows == Followed(trend, row)
    <3>0. 1 \in 1 .. Len(r.rows)
      <4>1. r.rows # <<>>
        BY <2>6 DEF Missing
      <4>2. Len(r.rows) \in Nat /\ Len(r.rows) >= 1
        BY <1>1, <2>2, <4>1, LastIsRecorded
      <4> QED BY <4>2
    <3>1. row = Row(row.time, row.time) /\ row.time \in 1 .. monitor.last
      BY <2>2, <3>0, RowIsRecorded
    <3>3. Recorded(rows, monitor.last)
      <4> HIDE DEF row
      <4> QED BY <1>1, <1>4, <3>1, TrendGoesOn
    <3>4. tab' = [open |-> open, trend |-> rows]
      BY <1>2, <2>1, <2>6
    <3> HIDE DEF rows
    <3> QED BY <1>1, <1>3, <2>1, <2>3, <2>4, <3>3, <3>4, OnlyPageMoves
  <2> QED BY <2>5, <2>6
<1> QED BY <1>5, <1>6, <1>7, <1>8, <1>9, <1>10

LEMMA TrendStep == TrendInv /\ [TrendNext]_trendVars => TrendInv'
<1> SUFFICES ASSUME TrendInv, [TrendNext]_trendVars PROVE TrendInv'
  OBVIOUS
<1>1. CASE UNCHANGED trendVars
  BY <1>1 DEF trendVars, TrendInv, TrendTypeOK, RegionIsConsistent, CopyIsConsistent, Intact,
              RowsAreRecorded, ReaderIsAwaited
<1> QED BY <1>1, PublicationKeepsTrend, ReadingKeepsTrend, CheckKeepsTrend, PageKeepsTrend
        DEF TrendNext

(* The rows of the history and of the page are whole, in order and         *)
(* sampled.                                                                *)
LEMMA TrendIsRightThen == TrendInv => TrendIsRight
<1> SUFFICES ASSUME TrendInv PROVE TrendIsRight
  OBVIOUS
<1>1. /\ monitor.last \in Nat /\ Recorded(monitor.history, monitor.last)
      /\ Recorded(tab.trend, monitor.last)
      /\ IF monitor.history = <<>> THEN monitor.last = 0 ELSE Last(monitor.history).time = monitor.last
  BY DEF TrendInv, TrendTypeOK, RowsAreRecorded
<1>2. NoRowIsTorn
  <2>1. ASSUME NEW rows, Recorded(rows, monitor.last), NEW row \in RowsOf(rows)
        PROVE  row.time = row.value
    <3>1. DOMAIN rows = 1 .. Len(rows)
      BY <2>1 DEF Recorded, Rows
    <3>2. PICK i \in 1 .. Len(rows) : row = rows[i]
      BY <3>1 DEF RowsOf
    <3> QED BY <2>1, <3>2 DEF Recorded
  <2> QED BY <1>1, <2>1 DEF NoRowIsTorn
<1>3. TrendsGoForward
  BY <1>1 DEF TrendsGoForward, Recorded
<1>4. PageFollowsHistory
  <2> SUFFICES ASSUME tab.trend # <<>>
               PROVE  Last(tab.trend).time <= Last(monitor.history).time
    BY DEF PageFollowsHistory
  <2>1. Last(tab.trend).time \in 1 .. monitor.last
    BY <1>1, LastIsRecorded
  <2> QED BY <1>1, <2>1
<1> QED BY <1>2, <1>3, <1>4 DEF TrendIsRight

-----------------------------------------------------------------------------
(***************************************************************************)
(* The parameter editor.  The lock makes every write one of the whole      *)
(* document; a card of a page that is not in doubt waits for one request,  *)
(* which leaves it with what the file holds.                               *)
(***************************************************************************)

LEMMA EditorConstants ==
  /\ "all" \notin Keys /\ MaxValue \in Nat /\ 0 \in Values /\ Default \in Values
  /\ Numbers \cap Toggles = {} /\ Sliders \cap (Numbers \cup Toggles) = {}
<1>1. "all" \notin Keys /\ MaxValue \in Nat /\ Numbers \cap Toggles = {}
      /\ Sliders \cap (Numbers \cup Toggles) = {}
  BY EditorAssumption
<1>2. 0 \in 0 .. MaxValue
  BY <1>1
<1> QED BY <1>1, <1>2 DEF Values, Default

(* What becomes of a request: its stage, what it read, and its card. *)
LEMMA RefusedRequest ==
  ASSUME NEW r, RequestTypeOK(r)
  PROVE  /\ RequestTypeOK(Refused(r)) /\ Refused(r).stage = "refused" /\ Refused(r).params = r.params /\ Refused(r).seen = r.seen
         /\ Refused(r).key = r.key /\ Refused(r).value = r.value /\ Refused(r).back = r.back
         /\ Refused(r).card = r.card /\ Refused(r).stale = r.stale
<1>1. PICK i, k, v, b, c, g0, p0, n0, a :
        r = [id |-> i, key |-> k, value |-> v, back |-> b, card |-> c, stage |-> g0, params |-> p0,
             seen |-> n0, stale |-> a]
  BY DEF RequestTypeOK
<1> DEFINE s == Refused(r)
<1>2. s = [id |-> i, key |-> k, value |-> v, back |-> b, card |-> c, stage |-> "refused",
           params |-> p0, seen |-> n0, stale |-> a]
  BY <1>1 DEF Refused
<1> HIDE DEF s
<1>3. /\ RequestTypeOK(s) /\ s.stage = "refused" /\ s.params = r.params /\ s.seen = r.seen
      /\ s.key = r.key /\ s.value = r.value /\ s.back = r.back /\ s.card = r.card
      /\ s.stale = r.stale
  BY <1>1, <1>2 DEF RequestTypeOK
<1> QED BY <1>3 DEF s

LEMMA WorkingRequest ==
  ASSUME NEW r, RequestTypeOK(r)
  PROVE  /\ RequestTypeOK(Working(r)) /\ Working(r).stage = "working" /\ Working(r).params = file /\ Working(r).seen = r.seen
         /\ Working(r).key = r.key /\ Working(r).value = r.value /\ Working(r).back = r.back
         /\ Working(r).card = r.card /\ Working(r).stale = r.stale
<1>1. PICK i, k, v, b, c, g0, p0, n0, a :
        r = [id |-> i, key |-> k, value |-> v, back |-> b, card |-> c, stage |-> g0, params |-> p0,
             seen |-> n0, stale |-> a]
  BY DEF RequestTypeOK
<1> DEFINE s == Working(r)
<1>2. s = [id |-> i, key |-> k, value |-> v, back |-> b, card |-> c, stage |-> "working",
           params |-> file, seen |-> n0, stale |-> a]
  <2>1. [r EXCEPT !.stage = "working"]
          = [id |-> i, key |-> k, value |-> v, back |-> b, card |-> c, stage |-> "working", params |-> p0,
             seen |-> n0, stale |-> a]
    BY <1>1
  <2>2. [[id |-> i, key |-> k, value |-> v, back |-> b, card |-> c, stage |-> "working", params |-> p0,
          seen |-> n0, stale |-> a] EXCEPT !.params = file]
          = [id |-> i, key |-> k, value |-> v, back |-> b, card |-> c, stage |-> "working", params |-> file,
             seen |-> n0, stale |-> a]
    OBVIOUS
  <2> QED BY <2>1, <2>2, Zenon DEF Working
<1> HIDE DEF s
<1>3. /\ RequestTypeOK(s) /\ s.stage = "working" /\ s.params = file /\ s.seen = r.seen
      /\ s.key = r.key /\ s.value = r.value /\ s.back = r.back /\ s.card = r.card
      /\ s.stale = r.stale
  BY <1>1, <1>2 DEF RequestTypeOK
<1> QED BY <1>3 DEF s

LEMMA AnsweredRequest ==
  ASSUME NEW r, RequestTypeOK(r), NEW p, NEW n
  PROVE  /\ RequestTypeOK(Answered(r, p, n)) /\ Answered(r, p, n).stage = "answered" /\ Answered(r, p, n).params = p /\ Answered(r, p, n).seen = n
         /\ Answered(r, p, n).key = r.key /\ Answered(r, p, n).value = r.value /\ Answered(r, p, n).back = r.back
         /\ Answered(r, p, n).card = r.card /\ Answered(r, p, n).stale = r.stale
<1>1. PICK i, k, v, b, c, g0, p0, n0, a :
        r = [id |-> i, key |-> k, value |-> v, back |-> b, card |-> c, stage |-> g0, params |-> p0,
             seen |-> n0, stale |-> a]
  BY DEF RequestTypeOK
<1> DEFINE s == Answered(r, p, n)
<1>2. s = [id |-> i, key |-> k, value |-> v, back |-> b, card |-> c, stage |-> "answered",
           params |-> p, seen |-> n, stale |-> a]
  <2>1. [r EXCEPT !.stage = "answered"]
          = [id |-> i, key |-> k, value |-> v, back |-> b, card |-> c, stage |-> "answered", params |-> p0,
             seen |-> n0, stale |-> a]
    BY <1>1
  <2>2. [[id |-> i, key |-> k, value |-> v, back |-> b, card |-> c, stage |-> "answered", params |-> p0,
          seen |-> n0, stale |-> a] EXCEPT !.params = p]
          = [id |-> i, key |-> k, value |-> v, back |-> b, card |-> c, stage |-> "answered", params |-> p,
             seen |-> n0, stale |-> a]
    OBVIOUS
  <2>3. [[id |-> i, key |-> k, value |-> v, back |-> b, card |-> c, stage |-> "answered", params |-> p,
          seen |-> n0, stale |-> a] EXCEPT !.seen = n]
          = [id |-> i, key |-> k, value |-> v, back |-> b, card |-> c, stage |-> "answered", params |-> p,
             seen |-> n, stale |-> a]
    OBVIOUS
  <2> QED BY <2>1, <2>2, <2>3, Zenon DEF Answered
<1> HIDE DEF s
<1>3. /\ RequestTypeOK(s) /\ s.stage = "answered" /\ s.params = p /\ s.seen = n
      /\ s.key = r.key /\ s.value = r.value /\ s.back = r.back /\ s.card = r.card
      /\ s.stale = r.stale
  BY <1>1, <1>2 DEF RequestTypeOK
<1> QED BY <1>3 DEF s

LEMMA WithoutCard ==
  ASSUME NEW r, RequestTypeOK(r), NEW s, s = IF r.card = "here" THEN [r EXCEPT !.card = "gone"] ELSE r
  PROVE  /\ RequestTypeOK(s) /\ s.stage = r.stage /\ s.params = r.params /\ s.seen = r.seen
         /\ s.key = r.key /\ s.value = r.value /\ s.back = r.back /\ s.card = "gone"
         /\ s.stale = r.stale
<1>1. PICK i, k, v, b, c, g0, p0, n0, a :
        r = [id |-> i, key |-> k, value |-> v, back |-> b, card |-> c, stage |-> g0, params |-> p0,
             seen |-> n0, stale |-> a]
  BY DEF RequestTypeOK
<1>2. CASE r.card = "here"
  <2>1. s = [r EXCEPT !.card = "gone"]
    BY <1>2
  <2>2. s = [id |-> i, key |-> k, value |-> v, back |-> b, card |-> "gone", stage |-> g0,
             params |-> p0, seen |-> n0, stale |-> a]
    BY <1>1, <2>1
  <2> QED BY <1>1, <2>2 DEF RequestTypeOK
<1>3. CASE r.card # "here"
  BY <1>3 DEF RequestTypeOK
<1> QED BY <1>2, <1>3

LEMMA EditorInitially == EditorInit => EditorInv
<1> SUFFICES ASSUME EditorInit PROVE EditorInv
  OBVIOUS
<1>1. /\ file = [k \in Keys |-> Default] /\ requests = {} /\ doubt = FALSE
      /\ page = [params |-> file, seen |-> 0, open |-> TRUE]
      /\ cards = [k \in Keys |-> [value |-> Default, status |-> ""]]
      /\ written = [count |-> 0, value |-> file]
  BY DEF EditorInit, AllDefault, Drawn, Card
<1>2. EditorTypeOK
  <2>1. /\ DOMAIN file = Keys /\ file \in [Keys -> Values] /\ DOMAIN cards = Keys
        /\ cards \in [Keys -> [value : Values \cup {Blank}, status : {"", "busy", "saved", "failed"}]]
    BY <1>1, EditorConstants
  <2>2. IsDocument(file)
    BY <2>1 DEF IsDocument
  <2>3. page.params = file /\ page.seen = 0 /\ page.open = TRUE
        /\ page = [params |-> page.params, seen |-> page.seen, open |-> page.open]
    BY <1>1
  <2>4. written \in [count : Nat, value : [Keys -> Values]]
    BY <1>1, <2>1
  <2> QED BY <1>1, <2>1, <2>2, <2>3, <2>4 DEF EditorTypeOK
<1>3. NoChangeIsUndone
  BY <1>1 DEF NoChangeIsUndone
<1>4. LockIsKept
  BY <1>1 DEF LockIsKept
<1>5. SnapshotsAreSeen
  <2>1. page.params = file /\ page.seen = 0 /\ written.count = 0
    BY <1>1
  <2>2. 0 \in 0 .. 0
    OBVIOUS
  <2> QED BY <1>1, <2>1, <2>2 DEF SnapshotsAreSeen, IsSeen
<1>6. CardsAreTrue
  <2>1. page.open = TRUE /\ DOMAIN cards = DOMAIN file /\ \A k \in DOMAIN cards : cards[k].value = file[k]
    BY <1>1
  <2> QED BY <1>1, <2>1 DEF CardsAreTrue
<1> QED BY <1>2, <1>3, <1>4, <1>5, <1>6 DEF EditorInv

(* A request that goes on, without a step of the file or the page. *)
LEMMA OnlyRequestMoves ==
  ASSUME EditorInv, NEW r \in requests, NEW s, requests' = (requests \ {r}) \cup {s},
         UNCHANGED <<file, page, cards, written, doubt>>,
         RequestTypeOK(s), s.key = r.key, s.back = r.back, s.card = r.card, s.stale = r.stale,
         r.stage # "answered",
         Holds(s) => /\ s.key \in DOMAIN file /\ s.params = file
                     /\ \A x \in requests \ {r} : ~Holds(x),
         s.stage = "answered" => s.key = "all" /\ s.params = file /\ s.seen = written.count
  PROVE  EditorInv'
<1>1. EditorTypeOK /\ NoChangeIsUndone /\ LockIsKept /\ SnapshotsAreSeen /\ CardsAreTrue
  BY DEF EditorInv
<1>2. EditorTypeOK'
  BY <1>1 DEF EditorTypeOK, IsDocument
<1>3. NoChangeIsUndone'
  BY <1>1 DEF NoChangeIsUndone
<1>4. LockIsKept'
  <2> SUFFICES ASSUME NEW x \in requests', Holds(x)
               PROVE  /\ x.key \in DOMAIN file /\ x.params = file
                      /\ \A y \in requests' : Holds(y) => x = y
    BY DEF LockIsKept, Holds
  <2>1. CASE x = s
    BY <2>1
  <2>2. CASE x # s
    <3>1. x \in requests \ {r} /\ ~Holds(s)
      BY <2>2
    <3> QED BY <1>1, <3>1 DEF LockIsKept
  <2> QED BY <2>1, <2>2
<1>5. SnapshotsAreSeen'
  <2>1. IsSeen(page.params, page.seen)'
    BY <1>1 DEF SnapshotsAreSeen, IsSeen, Old
  <2>2. ASSUME NEW x \in requests', x.stage = "answered"
        PROVE  /\ IsDocument(x.params) /\ IsSeen(x.params, x.seen)'
               /\ x.key # "all" => x.key \in DOMAIN x.params
    <3>1. CASE x = s
      <4>1. written.count \in Nat /\ IsDocument(file)
        BY <1>1 DEF EditorTypeOK
      <4> QED BY <2>2, <3>1, <4>1 DEF IsSeen, Old
    <3>2. CASE x # s
      <4>1. x \in requests
        BY <3>2
      <4> QED BY <1>1, <2>2, <4>1 DEF SnapshotsAreSeen, IsSeen, Old
    <3> QED BY <3>1, <3>2
  <2> QED BY <2>1, <2>2 DEF SnapshotsAreSeen
<1>6. CardsAreTrue'
  <2>1. ASSUME ~page.open PROVE cards = <<>> /\ \A x \in requests' : x.card = "gone"
    BY <1>1, <2>1 DEF CardsAreTrue
  <2>2. ASSUME page.open, ~doubt, NEW x \in requests', x.key # "all" PROVE WaitsFor(x)'
    <3>1. \A y \in requests : y.key # "all" => WaitsFor(y)
      BY <1>1, <2>2 DEF CardsAreTrue
    <3>2. CASE x = s
      <4>1. WaitsFor(r)
        BY <2>2, <3>1, <3>2
      <4>2. s.stage # "answered"
        BY <2>2, <3>2
      <4> QED BY <3>2, <4>1, <4>2 DEF WaitsFor
    <3>3. CASE x # s
      <4>1. x \in requests /\ WaitsFor(x) /\ x # r
        BY <2>2, <3>1, <3>3
      <4>2. s.key # x.key
        BY <4>1 DEF WaitsFor
      <4> QED BY <4>1, <4>2 DEF WaitsFor
    <3> QED BY <3>2, <3>3
  <2>3. ASSUME page.open, ~doubt, NEW k \in DOMAIN cards, \A x \in requests' : x.key # k
        PROVE  cards[k].value = file[k]
    <3>1. \A x \in requests : x.key # k
      BY <2>3
    <3> QED BY <1>1, <2>3, <3>1 DEF CardsAreTrue
  <2>4. page.open /\ ~doubt => DOMAIN cards \subseteq DOMAIN file
    BY <1>1 DEF CardsAreTrue
  <2> QED BY <2>1, <2>2, <2>3, <2>4 DEF CardsAreTrue
<1> QED BY <1>2, <1>3, <1>4, <1>5, <1>6 DEF EditorInv

LEMMA ReadsKeepEditor == EditorInv /\ (ReadDocument \/ ReadAll) => EditorInv'
<1> SUFFICES ASSUME EditorInv, ReadDocument \/ ReadAll PROVE EditorInv'
  OBVIOUS
<1>0. \A r \in requests : RequestTypeOK(r)
  BY DEF EditorInv, EditorTypeOK
<1>1. CASE ReadDocument
  <2>1. PICK r \in requests :
          /\ r.stage = "sent" /\ r.key # "all" /\ LockIsFree
          /\ Replace(r, IF r.key \in DOMAIN file THEN Working(r)
                        ELSE Refused(r))
          /\ UNCHANGED <<file, sent, faults, page, cards, written, doubt>>
    BY <1>1 DEF ReadDocument
  <2>2. RequestTypeOK(r)
    BY <1>0
  <2>3. CASE r.key \in DOMAIN file
    <3> DEFINE s == Working(r)
    <3>1. requests' = (requests \ {r}) \cup {s}
      BY <2>1, <2>3 DEF Replace
    <3>2. s = Working(r)
      OBVIOUS
    <3> HIDE DEF s
    <3>3. /\ RequestTypeOK(s) /\ s.stage = "working" /\ s.params = file
          /\ s.key = r.key /\ s.back = r.back /\ s.card = r.card /\ s.stale = r.stale
      BY <2>2, <3>2, WorkingRequest
    <3>4. \A x \in requests \ {r} : ~Holds(x)
      BY <2>1 DEF LockIsFree
    <3> QED BY <2>1, <2>3, <3>1, <3>3, <3>4, OnlyRequestMoves
  <2>4. CASE r.key \notin DOMAIN file
    <3> DEFINE s == Refused(r)
    <3>1. requests' = (requests \ {r}) \cup {s}
      BY <2>1, <2>4 DEF Replace
    <3>2. s = Refused(r)
      OBVIOUS
    <3> HIDE DEF s
    <3>3. /\ RequestTypeOK(s) /\ s.stage = "refused"
          /\ s.key = r.key /\ s.back = r.back /\ s.card = r.card /\ s.stale = r.stale
      BY <2>2, <3>2, RefusedRequest
    <3>4. ~Holds(s)
      BY <3>3 DEF Holds
    <3> QED BY <2>1, <3>1, <3>3, <3>4, OnlyRequestMoves
  <2> QED BY <2>3, <2>4
<1>2. CASE ReadAll
  <2>1. PICK r \in requests :
          /\ r.stage = "sent" /\ r.key = "all" /\ LockIsFree
          /\ Replace(r, Answered(r, file, written.count))
          /\ UNCHANGED <<file, sent, faults, page, cards, written, doubt>>
    BY <1>2 DEF ReadAll
  <2> DEFINE s == Answered(r, file, written.count)
  <2>2. requests' = (requests \ {r}) \cup {s} /\ RequestTypeOK(r)
    BY <1>0, <2>1 DEF Replace
  <2>3. s = Answered(r, file, written.count)
    OBVIOUS
  <2> HIDE DEF s
  <2>4. /\ RequestTypeOK(s) /\ s.stage = "answered" /\ s.params = file /\ s.seen = written.count
        /\ s.key = r.key /\ s.back = r.back /\ s.card = r.card /\ s.stale = r.stale
    BY <2>2, <2>3, AnsweredRequest
  <2>5. ~Holds(s)
    BY <2>4 DEF Holds
  <2> QED BY <2>1, <2>2, <2>4, <2>5, OnlyRequestMoves
<1> QED BY <1>1, <1>2

(* A write puts its one change into the file as it was read, which is the  *)
(* file as it is.                                                          *)
LEMMA WriteKeepsEditor == EditorInv /\ WriteDocument => EditorInv'
<1> SUFFICES ASSUME EditorInv, WriteDocument PROVE EditorInv'
  OBVIOUS
<1>0. EditorTypeOK /\ NoChangeIsUndone /\ LockIsKept /\ SnapshotsAreSeen /\ CardsAreTrue
  BY DEF EditorInv
<1>1. PICK r \in requests :
        /\ Holds(r)
        /\ \/ LET document == [r.params EXCEPT ![r.key] = r.value]
              IN  /\ file' = document
                  /\ Replace(r, Answered(r, document, written.count + 1))
                  /\ written' = [count |-> written.count + 1,
                                 value |-> [written.value EXCEPT ![r.key] = r.value]]
                  /\ UNCHANGED <<faults, doubt>>
           \/ /\ faults < MaxFaults /\ faults' = faults + 1
              /\ Replace(r, Refused(r))
              /\ UNCHANGED <<file, written, doubt>>
        /\ UNCHANGED <<sent, page, cards>>
  BY DEF WriteDocument
<1>2. RequestTypeOK(r) /\ r.stage = "working" /\ r.params = file /\ r.key \in DOMAIN file
  BY <1>0, <1>1 DEF EditorTypeOK, LockIsKept, Holds
<1>3. \A x \in requests \ {r} : ~Holds(x)
  BY <1>0, <1>1 DEF LockIsKept
<1>4. CASE Replace(r, Refused(r)) /\ UNCHANGED <<file, written, doubt>>
  <2> DEFINE s == Refused(r)
  <2>1. requests' = (requests \ {r}) \cup {s} /\ s = Refused(r)
    BY <1>4 DEF Replace
  <2> HIDE DEF s
  <2>2. /\ RequestTypeOK(s) /\ s.stage = "refused"
        /\ s.key = r.key /\ s.back = r.back /\ s.card = r.card /\ s.stale = r.stale
    BY <1>2, <2>1, RefusedRequest
  <2>3. ~Holds(s)
    BY <2>2 DEF Holds
  <2> QED BY <1>1, <1>2, <1>4, <2>1, <2>2, <2>3, OnlyRequestMoves
<1>5. ASSUME NEW document, document = [r.params EXCEPT ![r.key] = r.value],
             file' = document,
             Replace(r, Answered(r, document, written.count + 1)),
             written' = [count |-> written.count + 1,
                         value |-> [written.value EXCEPT ![r.key] = r.value]],
             UNCHANGED doubt
      PROVE  EditorInv'
  <2>1. PICK s : /\ s = Answered(r, document, written.count + 1)
                 /\ requests' = (requests \ {r}) \cup {s}
    BY <1>5 DEF Replace
  <2>2. /\ RequestTypeOK(s) /\ s.stage = "answered" /\ s.params = document /\ s.seen = written.count + 1
        /\ s.key = r.key /\ s.back = r.back /\ s.card = r.card /\ s.stale = r.stale
    BY <1>2, <2>1, AnsweredRequest
  <2>3. /\ DOMAIN file \subseteq Keys /\ file \in [DOMAIN file -> Values] /\ r.value \in Values
        /\ r.key \in DOMAIN file /\ document = [file EXCEPT ![r.key] = r.value]
    BY <1>0, <1>2, <1>5 DEF EditorTypeOK, IsDocument, RequestTypeOK
  <2>4. /\ DOMAIN document = DOMAIN file /\ document \in [DOMAIN file -> Values]
        /\ \A k \in DOMAIN file : document[k] = IF k = r.key THEN r.value ELSE file[k]
    BY <2>3
  <2>5. IsDocument(document)
    BY <2>3, <2>4 DEF IsDocument
  <2>6. written.count \in Nat /\ written.value \in [Keys -> Values]
    BY <1>0 DEF EditorTypeOK
  <2>7. /\ written'.count = written.count + 1 /\ written'.count \in Nat
        /\ written'.value \in [Keys -> Values]
        /\ \A k \in Keys : written'.value[k] = IF k = r.key THEN r.value ELSE written.value[k]
        /\ written' \in [count : Nat, value : [Keys -> Values]]
    BY <1>5, <2>3, <2>6
  <2>8. EditorTypeOK'
    BY <1>0, <1>1, <1>5, <2>1, <2>2, <2>5, <2>7 DEF EditorTypeOK, IsDocument
  <2>9. NoChangeIsUndone'
    BY <1>0, <1>5, <2>3, <2>4, <2>7 DEF NoChangeIsUndone
  <2>10. LockIsKept'
    BY <1>3, <2>1, <2>2 DEF LockIsKept, Holds
  <2>11. SnapshotsAreSeen'
    <3>1. \A p, n : IsSeen(p, n) => IsSeen(p, n)'
      BY <2>6, <2>7 DEF IsSeen, Old
    <3>2. IsSeen(s.params, s.seen)' /\ IsDocument(s.params) /\ s.key \in DOMAIN s.params
      <4>1. s.seen = written'.count /\ s.seen \in 0 .. written'.count /\ s.params = file'
        BY <1>5, <2>2, <2>6, <2>7
      <4> QED BY <2>2, <2>3, <2>4, <2>5, <4>1 DEF IsSeen, Old
    <3>3. IsSeen(page.params, page.seen)'
      BY <1>0, <1>1, <2>6, <2>7 DEF SnapshotsAreSeen, IsSeen, Old
    <3>4. ASSUME NEW x \in requests', x.stage = "answered"
          PROVE  /\ IsDocument(x.params) /\ IsSeen(x.params, x.seen)'
                 /\ x.key # "all" => x.key \in DOMAIN x.params
      <4>1. CASE x = s
        BY <3>2, <4>1 DEF IsSeen, Old
      <4>2. CASE x # s
        <5>1. x \in requests
          BY <2>1, <4>2
        <5> QED BY <1>0, <3>1, <3>4, <5>1 DEF SnapshotsAreSeen
      <4> QED BY <4>1, <4>2
    <3> QED BY <3>3, <3>4 DEF SnapshotsAreSeen
  <2>12. CardsAreTrue'
    <3>1. ASSUME ~page.open PROVE cards = <<>> /\ \A x \in requests' : x.card = "gone"
      BY <1>0, <2>1, <2>2, <3>1 DEF CardsAreTrue
    <3>2. r.key # "all"
      BY <2>3, EditorConstants
    <3>3. ASSUME page.open, ~doubt, NEW x \in requests', x.key # "all" PROVE WaitsFor(x)'
      <4>1. \A y \in requests : y.key # "all" => WaitsFor(y)
        BY <1>0, <3>3 DEF CardsAreTrue
      <4>2. CASE x = s
        <5>1. WaitsFor(r)
          BY <3>2, <4>1
        <5>2. s.params[s.key] = file'[s.key]
          BY <1>5, <2>2
        <5> QED BY <1>1, <2>1, <2>2, <4>2, <5>1, <5>2 DEF WaitsFor
      <4>3. CASE x # s
        <5>1. x \in requests /\ WaitsFor(x) /\ x # r
          BY <2>1, <3>3, <4>1, <4>3
        <5>2. s.key # x.key /\ r.key # x.key
          BY <2>2, <5>1 DEF WaitsFor
        <5>3. x.key \in DOMAIN file => file'[x.key] = file[x.key]
          BY <1>5, <2>4, <5>2
        <5>4. x.key \in DOMAIN file
          BY <1>0, <3>3, <5>1 DEF CardsAreTrue, WaitsFor
        <5> QED BY <1>1, <2>1, <5>1, <5>2, <5>3, <5>4 DEF WaitsFor
      <4> QED BY <4>2, <4>3
    <3>4. ASSUME page.open, ~doubt, NEW k \in DOMAIN cards, \A x \in requests' : x.key # k
          PROVE  cards[k].value = file'[k]
      <4>1. \A x \in requests : x.key # k
        BY <2>1, <2>2, <3>4
      <4>2. cards[k].value = file[k] /\ k \in DOMAIN file /\ k # r.key
        BY <1>0, <3>4, <4>1 DEF CardsAreTrue
      <4> QED BY <1>5, <2>4, <4>2
    <3>5. page.open /\ ~doubt => DOMAIN cards \subseteq DOMAIN file'
      BY <1>0, <1>5, <2>4 DEF CardsAreTrue
    <3> QED BY <1>1, <1>5, <3>1, <3>3, <3>4, <3>5 DEF CardsAreTrue
  <2> QED BY <2>8, <2>9, <2>10, <2>11, <2>12 DEF EditorInv
<1> QED BY <1>1, <1>4, <1>5

(* Another page, or a new schema: whatever the cards show is in doubt. *)
LEMMA OtherKeepsEditor == EditorInv /\ OtherUpdate => EditorInv'
<1> SUFFICES ASSUME EditorInv, OtherUpdate PROVE EditorInv'
  OBVIOUS
<1>0. EditorTypeOK /\ NoChangeIsUndone /\ LockIsKept /\ SnapshotsAreSeen /\ CardsAreTrue
  BY DEF EditorInv
<1>1. PICK key \in DOMAIN file, value \in Values :
        /\ LockIsFree /\ file' = [file EXCEPT ![key] = value]
        /\ written' = [count |-> written.count + 1, value |-> [written.value EXCEPT ![key] = value]]
        /\ doubt' = TRUE /\ UNCHANGED <<requests, page, cards>>
  BY DEF OtherUpdate
<1>2. /\ DOMAIN file \subseteq Keys /\ file \in [DOMAIN file -> Values]
      /\ written.count \in Nat /\ written.value \in [Keys -> Values]
  BY <1>0 DEF EditorTypeOK, IsDocument
<1>3. /\ DOMAIN file' = DOMAIN file /\ file' \in [DOMAIN file -> Values]
      /\ \A k \in DOMAIN file : file'[k] = IF k = key THEN value ELSE file[k]
  BY <1>1, <1>2
<1>4. /\ written'.count = written.count + 1
      /\ \A k \in Keys : written'.value[k] = IF k = key THEN value ELSE written.value[k]
      /\ written' \in [count : Nat, value : [Keys -> Values]]
  BY <1>1, <1>2
<1>5. EditorTypeOK'
  BY <1>0, <1>1, <1>2, <1>3, <1>4 DEF EditorTypeOK, IsDocument
<1>6. NoChangeIsUndone'
  BY <1>0, <1>2, <1>3, <1>4 DEF NoChangeIsUndone
<1>7. LockIsKept'
  BY <1>1 DEF LockIsKept, LockIsFree, Holds
<1>8. SnapshotsAreSeen'
  <2>1. \A p, n : IsSeen(p, n) => IsSeen(p, n)'
    BY <1>2, <1>4 DEF IsSeen, Old
  <2>2. IsSeen(page.params, page.seen)'
    BY <1>0, <1>1, <1>2, <1>4 DEF SnapshotsAreSeen, IsSeen, Old
  <2> QED BY <1>0, <1>1, <2>1, <2>2 DEF SnapshotsAreSeen, IsDocument
<1>9. CardsAreTrue'
  BY <1>0, <1>1 DEF CardsAreTrue
<1> QED BY <1>5, <1>6, <1>7, <1>8, <1>9 DEF EditorInv

LEMMA RestartKeepsEditor == EditorInv /\ RestartServer => EditorInv'
<1> SUFFICES ASSUME EditorInv, RestartServer PROVE EditorInv'
  OBVIOUS
<1>0. EditorTypeOK /\ NoChangeIsUndone /\ LockIsKept /\ SnapshotsAreSeen /\ CardsAreTrue
  BY DEF EditorInv
<1> DEFINE Left(r) == IF r.stage = "answered" THEN r ELSE Refused(r)
<1>1. PICK schema \in SUBSET Keys \ {{}} :
        /\ file' = Synced(file, schema)
        /\ requests' = {Left(r) : r \in requests}
        /\ written' = IF schema = DOMAIN file THEN written
                      ELSE [count |-> written.count + 1,
                            value |-> [k \in Keys |-> IF k \in DOMAIN file' \ DOMAIN file THEN Default
                                                      ELSE written.value[k]]]
        /\ doubt' = (doubt \/ schema # DOMAIN file)
        /\ UNCHANGED <<page, cards>>
  BY DEF RestartServer
<1>2. /\ DOMAIN file \subseteq Keys /\ file \in [DOMAIN file -> Values]
      /\ written.count \in Nat /\ written.value \in [Keys -> Values] /\ schema \subseteq Keys
      /\ written \in [count : Nat, value : [Keys -> Values]]
  BY <1>0 DEF EditorTypeOK, IsDocument
<1>3. ASSUME NEW r \in requests
      PROVE  /\ RequestTypeOK(Left(r)) /\ Left(r).key = r.key /\ Left(r).back = r.back
             /\ Left(r).card = r.card /\ Left(r).stale = r.stale
             /\ Left(r).params = r.params /\ Left(r).seen = r.seen
             /\ Left(r).stage = IF r.stage = "answered" THEN "answered" ELSE "refused"
  <2>1. RequestTypeOK(r)
    BY <1>0 DEF EditorTypeOK
  <2>2. CASE r.stage = "answered"
    BY <2>1, <2>2
  <2>3. CASE r.stage # "answered"
    BY <2>1, <2>3, RefusedRequest
  <2> QED BY <2>2, <2>3
<1> HIDE DEF Left
<1>4. \A x \in requests' : \E r \in requests : x = Left(r)
  BY <1>1
<1>5. /\ DOMAIN file' = schema /\ file' \in [schema -> Values]
      /\ \A k \in schema : file'[k] = IF k \in DOMAIN file THEN file[k] ELSE Default
  BY <1>1, <1>2, EditorConstants DEF Synced
<1>6. schema = DOMAIN file => file' = file
  BY <1>2, <1>5
<1>7. /\ written' \in [count : Nat, value : [Keys -> Values]]
      /\ IF schema = DOMAIN file THEN written' = written
         ELSE /\ written'.count = written.count + 1
              /\ \A k \in Keys : written'.value[k] = IF k \in DOMAIN file' \ DOMAIN file THEN Default
                                                     ELSE written.value[k]
  <2>1. CASE schema = DOMAIN file
    BY <1>1, <1>2, <2>1
  <2>2. CASE schema # DOMAIN file
    BY <1>1, <1>2, <2>2, EditorConstants
  <2> QED BY <2>1, <2>2
<1>8. EditorTypeOK'
  <2>1. \A x \in requests' : RequestTypeOK(x)
    BY <1>3, <1>4
  <2>2. IsDocument(file')
    BY <1>2, <1>5 DEF IsDocument
  <2>3. doubt' \in BOOLEAN
    BY <1>0, <1>1, Zenon DEF EditorTypeOK
  <2> QED BY <1>0, <1>1, <1>7, <2>1, <2>2, <2>3 DEF EditorTypeOK, IsDocument
<1>9. NoChangeIsUndone'
  <2> SUFFICES ASSUME NEW k \in schema PROVE file'[k] = written'.value[k]
    BY <1>5 DEF NoChangeIsUndone
  <2>1. CASE schema = DOMAIN file
    BY <1>0, <1>6, <1>7, <2>1 DEF NoChangeIsUndone
  <2>2. CASE schema # DOMAIN file
    BY <1>0, <1>2, <1>5, <1>7, <2>2 DEF NoChangeIsUndone
  <2> QED BY <2>1, <2>2
<1>10. LockIsKept'
  <2>1. \A x \in requests' : x.stage # "working"
    BY <1>3, <1>4
  <2> QED BY <2>1 DEF LockIsKept, Holds
<1>11. SnapshotsAreSeen'
  <2>1. ASSUME NEW p, NEW n, IsSeen(p, n) PROVE IsSeen(p, n)'
    BY <1>2, <1>6, <1>7, <2>1 DEF IsSeen, Old
  <2>2. IsSeen(page.params, page.seen)'
    BY <1>0, <1>1, <1>2, <1>6, <1>7 DEF SnapshotsAreSeen, IsSeen, Old
  <2>3. ASSUME NEW x \in requests', x.stage = "answered"
        PROVE  /\ IsDocument(x.params) /\ IsSeen(x.params, x.seen)'
               /\ x.key # "all" => x.key \in DOMAIN x.params
    <3>1. PICK r \in requests : x = Left(r)
      BY <1>4
    <3>2. r.stage = "answered" /\ x.params = r.params /\ x.seen = r.seen /\ x.key = r.key
      BY <1>3, <2>3, <3>1
    <3> QED BY <1>0, <2>1, <3>2 DEF SnapshotsAreSeen
  <2> QED BY <2>2, <2>3 DEF SnapshotsAreSeen
<1>12. CardsAreTrue'
  <2>1. ASSUME ~page.open PROVE cards = <<>> /\ \A x \in requests' : x.card = "gone"
    BY <1>0, <1>3, <1>4, <2>1 DEF CardsAreTrue
  <2>2. ~doubt' => ~doubt /\ schema = DOMAIN file
    BY <1>1, Zenon
  <2>3. ASSUME page.open, ~doubt', NEW x \in requests', x.key # "all" PROVE WaitsFor(x)'
    <3>1. PICK r \in requests : x = Left(r)
      BY <1>4
    <3>2. file' = file /\ WaitsFor(r)
      BY <1>0, <1>3, <1>6, <2>2, <2>3, <3>1 DEF CardsAreTrue
    <3>3. \A y \in requests' : y.key = x.key => y = x
      <4> SUFFICES ASSUME NEW y \in requests', y.key = x.key PROVE y = x
        OBVIOUS
      <4>1. PICK s \in requests : y = Left(s)
        BY <1>4
      <4>2. s.key = r.key
        BY <1>3, <3>1, <4>1
      <4>3. s = r
        BY <3>2, <4>2 DEF WaitsFor
      <4> QED BY <3>1, <4>1, <4>3
    <3>4. /\ x.key = r.key /\ x.back = r.back /\ x.card = r.card /\ x.stale = r.stale
          /\ x.params = r.params /\ x.stage = IF r.stage = "answered" THEN "answered" ELSE "refused"
      BY <1>3, <3>1
    <3>5. x.stage = "answered" <=> r.stage = "answered"
      BY <3>4
    <3> QED BY <1>1, <3>2, <3>3, <3>4, <3>5 DEF WaitsFor
  <2>4. ASSUME page.open, ~doubt', NEW k \in DOMAIN cards, \A x \in requests' : x.key # k
        PROVE  cards[k].value = file'[k]
    <3>1. \A r \in requests : r.key # k
      <4> SUFFICES ASSUME NEW r \in requests PROVE r.key # k
        OBVIOUS
      <4>1. Left(r) \in requests'
        BY <1>1
      <4> QED BY <1>3, <2>4, <4>1
    <3> QED BY <1>0, <1>6, <2>2, <2>4, <3>1 DEF CardsAreTrue
  <2>5. page.open /\ ~doubt' => DOMAIN cards \subseteq DOMAIN file'
    BY <1>0, <1>6, <2>2 DEF CardsAreTrue
  <2> QED BY <1>1, <2>1, <2>3, <2>4, <2>5 DEF CardsAreTrue
<1> QED BY <1>8, <1>9, <1>10, <1>11, <1>12 DEF EditorInv

(* The function without arguments, of a page that is on another tab. *)
LEMMA NoCards == \A S : DOMAIN <<>> = {} /\ <<>> \in [DOMAIN <<>> -> S]
<1>1. DOMAIN <<>> = {}
  OBVIOUS
<1> QED BY <1>1

(* A new request joins: of a card that changed, or for the snapshot. *)
LEMMA SendingKeepsEditor == EditorInv /\ (ChangeCard \/ Load) => EditorInv'
<1> SUFFICES ASSUME EditorInv, ChangeCard \/ Load PROVE EditorInv'
  OBVIOUS
<1>0. EditorTypeOK /\ NoChangeIsUndone /\ LockIsKept /\ SnapshotsAreSeen /\ CardsAreTrue
  BY DEF EditorInv
<1>1. UNCHANGED <<file, page, written, doubt>>
  BY DEF ChangeCard, Load
<1>2. ASSUME NEW s, requests' = requests \cup {s}, RequestTypeOK(s), s.stage = "sent",
             DOMAIN cards' = DOMAIN cards,
             cards' \in [DOMAIN cards -> [value : Values \cup {Blank},
                                          status : {"", "busy", "saved", "failed"}]],
             CardsAreTrue'
      PROVE  EditorInv'
  <2>1. EditorTypeOK'
    BY <1>0, <1>1, <1>2 DEF EditorTypeOK, IsDocument
  <2>2. NoChangeIsUndone'
    BY <1>0, <1>1 DEF NoChangeIsUndone
  <2>3. LockIsKept'
    <3>1. ~Holds(s)
      BY <1>2 DEF Holds
    <3> QED BY <1>0, <1>1, <1>2, <3>1 DEF LockIsKept, Holds
  <2>4. SnapshotsAreSeen'
    BY <1>0, <1>1, <1>2 DEF SnapshotsAreSeen, IsSeen, Old, IsDocument
  <2> QED BY <1>2, <2>1, <2>2, <2>3, <2>4 DEF EditorInv
<1>3. CASE Load
  <2>1. PICK s : s = Request("all", 0, 0, "gone") /\ requests' = requests \cup {s} /\ UNCHANGED cards
    BY <1>3 DEF Load, Send
  <2>2. s = [id |-> sent, key |-> "all", value |-> 0, back |-> 0, card |-> "gone", stage |-> "sent",
             params |-> <<>>, seen |-> 0, stale |-> Old(page.seen)]
    BY <2>1 DEF Request
  <2>3. RequestTypeOK(s) /\ s.stage = "sent" /\ s.key = "all" /\ s.card = "gone"
    BY <2>2, EditorConstants DEF RequestTypeOK
  <2>4. CardsAreTrue'
    <3>1. ASSUME ~page.open PROVE cards = <<>> /\ \A x \in requests' : x.card = "gone"
      BY <1>0, <2>1, <2>3, <3>1 DEF CardsAreTrue
    <3>2. ASSUME page.open, ~doubt, NEW x \in requests', x.key # "all" PROVE WaitsFor(x)'
      <4>1. x \in requests /\ WaitsFor(x)
        BY <1>0, <2>1, <2>3, <3>2 DEF CardsAreTrue
      <4>2. \A y \in requests' : y.key = x.key => y = x
        BY <2>1, <2>3, <3>2, <4>1 DEF WaitsFor
      <4> QED BY <1>1, <2>1, <4>1, <4>2 DEF WaitsFor
    <3>3. ASSUME page.open, ~doubt, NEW k \in DOMAIN cards, \A x \in requests' : x.key # k
          PROVE  cards[k].value = file[k]
      <4>1. \A x \in requests : x.key # k
        BY <2>1, <3>3
      <4> QED BY <1>0, <3>3, <4>1 DEF CardsAreTrue
    <3>4. page.open /\ ~doubt => DOMAIN cards \subseteq DOMAIN file
      BY <1>0 DEF CardsAreTrue
    <3> QED BY <1>1, <2>1, <3>1, <3>2, <3>3, <3>4 DEF CardsAreTrue
  <2>5. DOMAIN cards' = DOMAIN cards
        /\ cards' \in [DOMAIN cards -> [value : Values \cup {Blank},
                                        status : {"", "busy", "saved", "failed"}]]
    BY <1>0, <2>1 DEF EditorTypeOK
  <2> QED BY <1>2, <2>1, <2>3, <2>4, <2>5
<1>4. CASE ChangeCard
  <2>1. PICK k \in DOMAIN cards, value \in Values :
          /\ cards[k].status # "busy"
          /\ cards' = [cards EXCEPT ![k] =
               [value |-> IF k \in Toggles THEN cards[k].value ELSE value, status |-> "busy"]]
          /\ Send(Request(k, value, CASE k \in Toggles -> cards[k].value
                                      [] k \in Sliders -> InSnapshot(k)
                                      [] OTHER -> Blank, "here"))
    BY <1>4 DEF ChangeCard
  <2>2. /\ DOMAIN cards \subseteq Keys /\ k \in Keys /\ k # "all"
        /\ cards \in [DOMAIN cards -> [value : Values \cup {Blank},
                                       status : {"", "busy", "saved", "failed"}]]
        /\ cards[k].value \in Values \cup {Blank}
        /\ DOMAIN page.params \subseteq Keys /\ page.params \in [DOMAIN page.params -> Values]
    <3>1. /\ DOMAIN cards \subseteq Keys /\ IsDocument(page.params)
          /\ cards \in [DOMAIN cards -> [value : Values \cup {Blank},
                                         status : {"", "busy", "saved", "failed"}]]
      BY <1>0 DEF EditorTypeOK
    <3>2. cards[k] \in [value : Values \cup {Blank}, status : {"", "busy", "saved", "failed"}]
      BY <3>1
    <3> QED BY <3>1, <3>2, EditorConstants DEF IsDocument
  <2> DEFINE back == CASE k \in Toggles -> cards[k].value
                       [] k \in Sliders -> InSnapshot(k)
                       [] OTHER -> Blank
  <2>3. /\ k \in Toggles => back = cards[k].value
        /\ k \in Sliders /\ k \notin Toggles => back = InSnapshot(k)
        /\ k \notin Toggles /\ k \notin Sliders => back = Blank
    BY EditorConstants
  <2>4. PICK s : s = Request(k, value, back, "here") /\ requests' = requests \cup {s}
    BY <2>1 DEF Send
  <2> HIDE DEF back
  <2>5. back \in Values \cup {Blank}
    <3>1. InSnapshot(k) \in Values \cup {Blank}
      BY <2>2 DEF InSnapshot
    <3> QED BY <2>2, <2>3, <3>1
  <2>6. s = [id |-> sent, key |-> k, value |-> value, back |-> back, card |-> "here", stage |-> "sent",
             params |-> <<>>, seen |-> 0, stale |-> Old(page.seen)]
    BY <2>4 DEF Request
  <2>7. RequestTypeOK(s) /\ s.stage = "sent" /\ s.key = k /\ s.card = "here" /\ s.back = back
        /\ (s.stale <=> Old(page.seen))
    BY <2>2, <2>5, <2>6 DEF RequestTypeOK
  <2>8. /\ DOMAIN cards' = DOMAIN cards
        /\ cards' \in [DOMAIN cards -> [value : Values \cup {Blank},
                                        status : {"", "busy", "saved", "failed"}]]
        /\ cards'[k].status = "busy"
        /\ \A j \in DOMAIN cards : j # k => cards'[j] = cards[j]
    <3> DEFINE card == [value |-> IF k \in Toggles THEN cards[k].value ELSE value, status |-> "busy"]
    <3>1. card \in [value : Values \cup {Blank}, status : {"", "busy", "saved", "failed"}]
          /\ card.status = "busy"
      BY <2>2
    <3>2. cards' = [cards EXCEPT ![k] = card]
      BY <2>1
    <3> HIDE DEF card
    <3> QED BY <2>2, <3>1, <3>2
  <2>9. CardsAreTrue'
    <3>1. page.open
      <4> SUFFICES ASSUME ~page.open PROVE FALSE
        BY <1>0 DEF EditorTypeOK
      <4>1. cards = <<>>
        BY <1>0 DEF CardsAreTrue
      <4> QED BY <4>1, NoCards
    <3>2. ASSUME ~doubt PROVE \A x \in requests : x.key # k
      <4> SUFFICES ASSUME NEW x \in requests, x.key = k PROVE FALSE
        OBVIOUS
      <4>1. WaitsFor(x)
        BY <1>0, <2>2, <3>1, <3>2 DEF CardsAreTrue
      <4> QED BY <2>1, <4>1 DEF WaitsFor
    <3>3. ASSUME ~doubt, NEW x \in requests', x.key # "all" PROVE WaitsFor(x)'
      <4>1. CASE x = s
        <5>1. \A y \in requests' : y.key = x.key => y = x
          BY <2>4, <2>7, <3>2, <3>3, <4>1
        <5>2. k \in DOMAIN file /\ cards[k].value = file[k]
          BY <1>0, <3>1, <3>2, <3>3 DEF CardsAreTrue
        <5>3. k \in Toggles => back = file[k]
          BY <2>3, <5>2
        <5>4. k \in Sliders /\ ~s.stale => back = file[k]
          <6> SUFFICES ASSUME k \in Sliders, ~s.stale PROVE back = file[k]
            OBVIOUS
          <6>1. page.params = file
            BY <1>0, <2>7 DEF SnapshotsAreSeen, IsSeen
          <6>2. k \notin Toggles
            BY EditorConstants
          <6> QED BY <2>3, <5>2, <6>1, <6>2 DEF InSnapshot
        <5> QED BY <1>1, <2>7, <2>8, <4>1, <5>1, <5>3, <5>4 DEF WaitsFor
      <4>2. CASE x # s
        <5>1. x \in requests /\ WaitsFor(x) /\ x.key # k
          BY <1>0, <2>4, <3>1, <3>2, <3>3, <4>2 DEF CardsAreTrue
        <5>2. \A y \in requests' : y.key = x.key => y = x
          BY <2>4, <2>7, <5>1 DEF WaitsFor
        <5>3. x.key \in DOMAIN cards' /\ cards'[x.key] = cards[x.key]
          BY <2>8, <5>1 DEF WaitsFor
        <5> QED BY <1>1, <5>1, <5>2, <5>3 DEF WaitsFor
      <4> QED BY <4>1, <4>2
    <3>4. ASSUME ~doubt, NEW j \in DOMAIN cards, \A x \in requests' : x.key # j
          PROVE  cards'[j].value = file[j]
      <4>1. j # k /\ \A x \in requests : x.key # j
        BY <2>4, <2>7, <3>4
      <4> QED BY <1>0, <2>8, <3>1, <3>4, <4>1 DEF CardsAreTrue
    <3>5. ~doubt => DOMAIN cards' \subseteq DOMAIN file
      BY <1>0, <2>8, <3>1 DEF CardsAreTrue
    <3> QED BY <1>1, <2>8, <3>1, <3>3, <3>4, <3>5 DEF CardsAreTrue
  <2> QED BY <1>2, <2>4, <2>7, <2>8, <2>9
<1> QED BY <1>3, <1>4

(* A request whose answer, or refusal, reaches the page: its card takes    *)
(* the value v.                                                            *)
LEMMA AnswersKeepCards ==
  ASSUME EditorInv, NEW r \in requests, r.key # "all", NEW v \in Values \cup {Blank},
         NEW status \in {"saved", "failed"},
         requests' = requests \ {r}, UNCHANGED <<file, written>>, page'.open = page.open,
         doubt' = FALSE => doubt = FALSE,
         cards' = IF r.card = "here" THEN [cards EXCEPT ![r.key] = [value |-> v, status |-> status]]
                  ELSE cards,
         ~doubt' /\ page.open /\ r.key \in DOMAIN cards => v = file[r.key]
  PROVE  /\ NoChangeIsUndone' /\ LockIsKept' /\ CardsAreTrue'
         /\ DOMAIN cards' \subseteq Keys
         /\ cards' \in [DOMAIN cards' -> [value : Values \cup {Blank},
                                          status : {"", "busy", "saved", "failed"}]]
<1>0. EditorTypeOK /\ NoChangeIsUndone /\ LockIsKept /\ SnapshotsAreSeen /\ CardsAreTrue
  BY DEF EditorInv
<1>1. NoChangeIsUndone'
  BY <1>0 DEF NoChangeIsUndone
<1>2. LockIsKept'
  BY <1>0 DEF LockIsKept, Holds
<1>3. /\ DOMAIN cards' = DOMAIN cards
      /\ cards' \in [DOMAIN cards -> [value : Values \cup {Blank}, status : {"", "busy", "saved", "failed"}]]
      /\ \A j \in DOMAIN cards : j # r.key => cards'[j] = cards[j]
      /\ r.card = "here" /\ r.key \in DOMAIN cards => cards'[r.key].value = v
  <2> DEFINE card == [value |-> v, status |-> status]
  <2>1. card \in [value : Values \cup {Blank}, status : {"", "busy", "saved", "failed"}] /\ card.value = v
    OBVIOUS
  <2>2. cards' = IF r.card = "here" THEN [cards EXCEPT ![r.key] = card] ELSE cards
    OBVIOUS
  <2>3. cards \in [DOMAIN cards -> [value : Values \cup {Blank}, status : {"", "busy", "saved", "failed"}]]
    BY <1>0 DEF EditorTypeOK
  <2> HIDE DEF card
  <2>4. CASE r.card = "here"
    BY <2>1, <2>2, <2>3, <2>4
  <2>5. CASE r.card # "here"
    BY <2>2, <2>3, <2>5
  <2> QED BY <2>4, <2>5
<1>4. DOMAIN cards \subseteq Keys
  BY <1>0 DEF EditorTypeOK
<1>5. CardsAreTrue'
  <2>1. ASSUME ~page.open PROVE cards' = <<>> /\ \A x \in requests' : x.card = "gone"
    <3>1. cards = <<>> /\ \A x \in requests : x.card = "gone"
      BY <1>0, <2>1 DEF CardsAreTrue
    <3>2. cards' = cards
      BY <3>1
    <3> QED BY <3>1, <3>2
  <2>2. ASSUME page.open, ~doubt'
        PROVE  /\ ~doubt /\ WaitsFor(r) /\ v = file[r.key] /\ cards'[r.key].value = v
               /\ DOMAIN cards \subseteq DOMAIN file
    <3>1. ~doubt
      <4>1. doubt' = FALSE
        BY <2>2
      <4> QED BY <4>1
    <3>2. WaitsFor(r) /\ DOMAIN cards \subseteq DOMAIN file
      BY <1>0, <2>2, <3>1 DEF CardsAreTrue
    <3> QED BY <1>3, <2>2, <3>1, <3>2 DEF WaitsFor
  <2>3. ASSUME page.open, ~doubt', NEW x \in requests', x.key # "all" PROVE WaitsFor(x)'
    <3>1. x \in requests /\ WaitsFor(x) /\ x # r
      BY <1>0, <2>2, <2>3 DEF CardsAreTrue
    <3>2. x.key # r.key
      BY <3>1 DEF WaitsFor
    <3>3. cards'[x.key] = cards[x.key] /\ x.key \in DOMAIN cards'
      BY <1>3, <3>1, <3>2 DEF WaitsFor
    <3> QED BY <3>1, <3>3 DEF WaitsFor
  <2>4. ASSUME page.open, ~doubt', NEW j \in DOMAIN cards', \A x \in requests' : x.key # j
        PROVE  cards'[j].value = file'[j]
    <3>1. CASE j = r.key
      BY <2>2, <2>4, <3>1
    <3>2. CASE j # r.key
      <4>1. \A x \in requests : x.key # j
        BY <2>4, <3>2
      <4> QED BY <1>0, <1>3, <2>2, <2>4, <3>2, <4>1 DEF CardsAreTrue
    <3> QED BY <3>1, <3>2
  <2>5. page.open /\ ~doubt' => DOMAIN cards' \subseteq DOMAIN file'
    BY <1>3, <2>2
  <2> QED BY <2>1, <2>3, <2>4, <2>5 DEF CardsAreTrue
<1> QED BY <1>1, <1>2, <1>3, <1>4, <1>5

LEMMA CountsAreNumbers == \A m \in Nat : \A n \in 0 .. m : n \in Nat
  OBVIOUS

(* What an answer that leaves the page and its card keeps of the rest. *)
LEMMA AnswersKeepEditor ==
  ASSUME EditorInv, requests' \subseteq requests, UNCHANGED <<file, written>>, doubt' \in BOOLEAN,
         page' = [params |-> page'.params, seen |-> page'.seen, open |-> page'.open],
         page'.open \in BOOLEAN, IsDocument(page'.params), IsSeen(page'.params, page'.seen),
         NoChangeIsUndone' /\ LockIsKept' /\ CardsAreTrue',
         DOMAIN cards' \subseteq Keys,
         cards' \in [DOMAIN cards' -> [value : Values \cup {Blank},
                                       status : {"", "busy", "saved", "failed"}]]
  PROVE  EditorInv'
<1>0. EditorTypeOK /\ SnapshotsAreSeen
  BY DEF EditorInv
<1>1. page'.seen \in Nat
  <2>1. written.count \in Nat
    BY <1>0 DEF EditorTypeOK
  <2>2. page'.seen \in 0 .. written.count
    BY DEF IsSeen
  <2> QED BY <2>1, <2>2, CountsAreNumbers, Zenon
<1>2. EditorTypeOK'
  BY <1>0, <1>1 DEF EditorTypeOK, IsDocument
<1>3. SnapshotsAreSeen'
  <2>1. IsSeen(page.params, page.seen)'
    BY DEF IsSeen, Old
  <2>2. ASSUME NEW x \in requests', x.stage = "answered"
        PROVE  /\ IsDocument(x.params) /\ IsSeen(x.params, x.seen)'
               /\ x.key # "all" => x.key \in DOMAIN x.params
    BY <1>0, <2>2 DEF SnapshotsAreSeen, IsSeen, Old
  <2> QED BY <2>1, <2>2 DEF SnapshotsAreSeen
<1> QED BY <1>2, <1>3 DEF EditorInv

(* The page of an answer. *)
LEMMA PageTakes ==
  ASSUME EditorTypeOK, NEW p, NEW n, page' = [page EXCEPT !.params = p, !.seen = n]
  PROVE  /\ page'.params = p /\ page'.seen = n /\ page'.open = page.open
         /\ page' = [params |-> p, seen |-> n, open |-> page.open]
<1>1. PICK p0, n0, o : page = [params |-> p0, seen |-> n0, open |-> o]
  BY DEF EditorTypeOK
<1>2. page' = [params |-> p, seen |-> n, open |-> o]
  BY <1>1
<1> QED BY <1>1, <1>2

LEMMA AppliedKeepsEditor == EditorInv /\ Applied => EditorInv'
<1> SUFFICES ASSUME EditorInv, Applied PROVE EditorInv'
  OBVIOUS
<1>0. EditorTypeOK /\ NoChangeIsUndone /\ LockIsKept /\ SnapshotsAreSeen /\ CardsAreTrue
  BY DEF EditorInv
<1>1. PICK r \in requests :
        /\ r.stage = "answered" /\ r.key # "all"
        /\ requests' = requests \ {r}
        /\ page' = [page EXCEPT !.params = r.params, !.seen = r.seen]
        /\ cards' = IF r.card = "here"
                    THEN [cards EXCEPT ![r.key] = [value |-> r.params[r.key], status |-> "saved"]]
                    ELSE cards
        /\ UNCHANGED <<file, sent, faults, written, doubt>>
  BY DEF Applied
<1>2. IsDocument(r.params) /\ IsSeen(r.params, r.seen) /\ r.key \in DOMAIN r.params
  BY <1>0, <1>1 DEF SnapshotsAreSeen
<1>3. r.params[r.key] \in Values
  BY <1>2 DEF IsDocument
<1>4. page'.params = r.params /\ page'.seen = r.seen /\ page'.open = page.open
      /\ page' = [params |-> page'.params, seen |-> page'.seen, open |-> page'.open]
  BY <1>0, <1>1, PageTakes
<1>5. page.open \in BOOLEAN /\ doubt \in BOOLEAN
  BY <1>0 DEF EditorTypeOK
<1>6. ~doubt' /\ page.open /\ r.key \in DOMAIN cards => r.params[r.key] = file[r.key]
  BY <1>0, <1>1 DEF CardsAreTrue, WaitsFor
<1>7. PICK v \in Values \cup {Blank} : v = r.params[r.key]
  BY <1>3
<1>8. /\ NoChangeIsUndone' /\ LockIsKept' /\ CardsAreTrue'
      /\ DOMAIN cards' \subseteq Keys
      /\ cards' \in [DOMAIN cards' -> [value : Values \cup {Blank},
                                       status : {"", "busy", "saved", "failed"}]]
  <2>1. cards' = IF r.card = "here" THEN [cards EXCEPT ![r.key] = [value |-> v, status |-> "saved"]]
                 ELSE cards
    BY <1>1, <1>7
  <2>2. ~doubt' /\ page.open /\ r.key \in DOMAIN cards => v = file[r.key]
    BY <1>6, <1>7
  <2>3. "saved" \in {"saved", "failed"} /\ (doubt' = FALSE => doubt = FALSE)
    BY <1>1
  <2>4. r.key # "all" /\ requests' = requests \ {r} /\ UNCHANGED <<file, written>>
    BY <1>1
  <2> QED BY <1>4, <2>1, <2>2, <2>3, <2>4, AnswersKeepCards
<1>9. requests' \subseteq requests /\ UNCHANGED <<file, written>> /\ doubt' \in BOOLEAN
  BY <1>1, <1>5
<1>10. page'.open \in BOOLEAN /\ IsDocument(page'.params) /\ IsSeen(page'.params, page'.seen)
  BY <1>2, <1>4, <1>5
<1> QED BY <1>4, <1>8, <1>9, <1>10, AnswersKeepEditor

LEMMA NotAppliedKeepsEditor == EditorInv /\ NotApplied => EditorInv'
<1> SUFFICES ASSUME EditorInv, NotApplied PROVE EditorInv'
  OBVIOUS
<1>0. EditorTypeOK /\ NoChangeIsUndone /\ LockIsKept /\ SnapshotsAreSeen /\ CardsAreTrue
  BY DEF EditorInv
<1>1. PICK r \in requests :
        /\ r.key # "all"
        /\ \/ r.stage = "refused" /\ UNCHANGED faults /\ doubt' = (doubt \/ WentBackToOld(r))
           \/ r.stage = "answered" /\ faults < MaxFaults /\ faults' = faults + 1 /\ doubt' = TRUE
        /\ requests' = requests \ {r}
        /\ cards' = IF r.card = "here"
                    THEN [cards EXCEPT ![r.key] = [value |-> WentBack(r), status |-> "failed"]]
                    ELSE cards
        /\ UNCHANGED <<file, sent, page, written>>
  BY DEF NotApplied
<1>2. /\ RequestTypeOK(r) /\ IsDocument(page.params) /\ page.open \in BOOLEAN /\ doubt \in BOOLEAN
      /\ page = [params |-> page.params, seen |-> page.seen, open |-> page.open]
      /\ IsSeen(page.params, page.seen)
  BY <1>0 DEF EditorTypeOK, SnapshotsAreSeen
<1>3. WentBack(r) \in Values \cup {Blank}
  BY <1>2 DEF WentBack, InSnapshot, IsDocument, RequestTypeOK
<1>4. doubt' \in BOOLEAN /\ (doubt' = FALSE => doubt = FALSE)
  BY <1>1, <1>2
<1>5. ASSUME ~doubt', page.open, r.key \in DOMAIN cards PROVE WentBack(r) = file[r.key]
  <2>1. r.stage = "refused" /\ ~doubt /\ ~WentBackToOld(r)
    BY <1>1, <1>5
  <2>2. WaitsFor(r) /\ r.key \in DOMAIN file
    BY <1>0, <1>1, <1>5, <2>1 DEF CardsAreTrue
  <2>3. CASE r.key \in Numbers
    <3>1. page.params = file
      BY <1>2, <2>1, <2>3 DEF WentBackToOld, IsSeen
    <3> QED BY <2>2, <2>3, <3>1 DEF WentBack, InSnapshot
  <2>4. CASE r.key \notin Numbers
    <3>1. r.key \in Toggles \/ (r.key \in Sliders /\ ~r.stale)
      BY <1>1, <1>2, <2>1, <2>4 DEF WentBackToOld, RequestTypeOK, Keys
    <3>2. r.back = file[r.key]
      BY <2>1, <2>2, <3>1 DEF WaitsFor
    <3> QED BY <2>4, <3>2 DEF WentBack
  <2> QED BY <2>3, <2>4
<1>7. PICK v \in Values \cup {Blank} : v = WentBack(r)
  BY <1>3
<1>8. /\ NoChangeIsUndone' /\ LockIsKept' /\ CardsAreTrue'
      /\ DOMAIN cards' \subseteq Keys
      /\ cards' \in [DOMAIN cards' -> [value : Values \cup {Blank},
                                       status : {"", "busy", "saved", "failed"}]]
  <2>1. cards' = IF r.card = "here" THEN [cards EXCEPT ![r.key] = [value |-> v, status |-> "failed"]]
                 ELSE cards
    BY <1>1, <1>7
  <2>2. ~doubt' /\ page.open /\ r.key \in DOMAIN cards => v = file[r.key]
    BY <1>5, <1>7
  <2>3. "failed" \in {"saved", "failed"}
    OBVIOUS
  <2>4. r.key # "all" /\ requests' = requests \ {r} /\ UNCHANGED <<file, written>>
        /\ page'.open = page.open
    BY <1>1
  <2> QED BY <1>4, <2>1, <2>2, <2>3, <2>4, AnswersKeepCards
<1>9. /\ requests' \subseteq requests /\ UNCHANGED <<file, written>>
      /\ page' = [params |-> page'.params, seen |-> page'.seen, open |-> page'.open]
      /\ page'.open \in BOOLEAN /\ IsDocument(page'.params) /\ IsSeen(page'.params, page'.seen)
  BY <1>1, <1>2
<1> QED BY <1>4, <1>8, <1>9, AnswersKeepEditor

(* Requests that lose their card keep the lock and what they have read. *)
LEMMA DetachedRequests ==
  ASSUME EditorInv, NEW rs \in SUBSET requests
  PROVE  /\ \A x \in Detached(rs) : /\ RequestTypeOK(x) /\ x.card = "gone"
                                    /\ \E r \in rs : /\ x.stage = r.stage /\ x.params = r.params
                                                     /\ x.seen = r.seen /\ x.key = r.key
         /\ \A x, y \in Detached(rs) : Holds(x) /\ Holds(y) => x = y
<1>0. EditorTypeOK /\ LockIsKept
  BY DEF EditorInv
<1>1. ASSUME NEW x \in Detached(rs)
      PROVE  \E r \in rs : x = IF r.card = "here" THEN [r EXCEPT !.card = "gone"] ELSE r
  BY <1>1 DEF Detached
<1>2. ASSUME NEW r \in rs, NEW x, x = IF r.card = "here" THEN [r EXCEPT !.card = "gone"] ELSE r
      PROVE  /\ RequestTypeOK(x) /\ x.card = "gone" /\ x.stage = r.stage /\ x.params = r.params
             /\ x.seen = r.seen /\ x.key = r.key
  <2>1. RequestTypeOK(r)
    BY <1>0 DEF EditorTypeOK
  <2> QED BY <1>2, <2>1, WithoutCard
<1>3. ASSUME NEW x \in Detached(rs), NEW y \in Detached(rs), Holds(x), Holds(y) PROVE x = y
  <2>1. PICK r \in rs : x = IF r.card = "here" THEN [r EXCEPT !.card = "gone"] ELSE r
    BY <1>1
  <2>2. PICK s \in rs : y = IF s.card = "here" THEN [s EXCEPT !.card = "gone"] ELSE s
    BY <1>1
  <2>3. Holds(r) /\ Holds(s)
    BY <1>2, <1>3, <2>1, <2>2 DEF Holds
  <2>4. r = s
    BY <1>0, <2>3 DEF LockIsKept
  <2> QED BY <2>1, <2>2, <2>4
<1>4. ASSUME NEW x \in Detached(rs)
      PROVE  /\ RequestTypeOK(x) /\ x.card = "gone"
             /\ \E r \in rs : /\ x.stage = r.stage /\ x.params = r.params
                              /\ x.seen = r.seen /\ x.key = r.key
  <2>1. PICK r \in rs : x = IF r.card = "here" THEN [r EXCEPT !.card = "gone"] ELSE r
    BY <1>1
  <2> QED BY <1>2, <2>1
<1> QED BY <1>3, <1>4

(* Cards that are drawn again, from a document. *)
LEMMA DrawnCards ==
  ASSUME NEW p, IsDocument(p)
  PROVE  /\ DOMAIN Drawn(p) = DOMAIN p
         /\ Drawn(p) \in [DOMAIN p -> [value : Values \cup {Blank},
                                       status : {"", "busy", "saved", "failed"}]]
         /\ \A k \in DOMAIN p : Drawn(p)[k].value = p[k]
<1>1. ASSUME NEW k \in DOMAIN p
      PROVE  /\ Card(p[k]) \in [value : Values \cup {Blank}, status : {"", "busy", "saved", "failed"}]
             /\ Card(p[k]).value = p[k]
  <2>1. p[k] \in Values
    BY DEF IsDocument
  <2> QED BY <2>1 DEF Card
<1>2. Drawn(p) = [k \in DOMAIN p |-> Card(p[k])]
  BY DEF Drawn
<1> QED BY <1>1, <1>2

(* The open tab is drawn again: every request loses its card, and without  *)
(* doubt none of a card is under way and the document is the file.         *)
LEMMA DrawingKeepsEditor ==
  ASSUME EditorInv, NEW rs \in SUBSET requests, requests' = Detached(rs),
         UNCHANGED <<file, written>>, doubt' \in BOOLEAN,
         page' = [params |-> page'.params, seen |-> page'.seen, open |-> page'.open],
         page'.open \in BOOLEAN, IsDocument(page'.params), IsSeen(page'.params, page'.seen),
         cards' = IF page'.open THEN Drawn(page'.params) ELSE <<>>,
         ~doubt' /\ page'.open => page'.params = file /\ rs = {}
  PROVE  EditorInv'
<1>0. EditorTypeOK /\ NoChangeIsUndone /\ LockIsKept /\ SnapshotsAreSeen /\ CardsAreTrue
  BY DEF EditorInv
<1>1. /\ \A x \in requests' : /\ RequestTypeOK(x) /\ x.card = "gone"
                              /\ \E r \in rs : /\ x.stage = r.stage /\ x.params = r.params
                                               /\ x.seen = r.seen /\ x.key = r.key
      /\ \A x, y \in requests' : Holds(x) /\ Holds(y) => x = y
  BY DetachedRequests
<1>2. /\ DOMAIN cards' \subseteq Keys
      /\ cards' \in [DOMAIN cards' -> [value : Values \cup {Blank},
                                       status : {"", "busy", "saved", "failed"}]]
      /\ page'.open => /\ DOMAIN cards' = DOMAIN page'.params
                       /\ \A k \in DOMAIN cards' : cards'[k].value = page'.params[k]
  <2>1. CASE page'.open
    <3>1. DOMAIN page'.params \subseteq Keys
      BY DEF IsDocument
    <3>2. PICK p : p = page'.params
      OBVIOUS
    <3>3. IsDocument(p) /\ cards' = Drawn(p) /\ DOMAIN p \subseteq Keys
      BY <2>1, <3>1, <3>2
    <3>4. /\ DOMAIN cards' = DOMAIN p
          /\ cards' \in [DOMAIN p -> [value : Values \cup {Blank},
                                      status : {"", "busy", "saved", "failed"}]]
          /\ \A k \in DOMAIN p : cards'[k].value = p[k]
      BY <3>3, DrawnCards
    <3> QED BY <3>2, <3>3, <3>4
  <2>2. CASE ~page'.open
    BY <2>2, NoCards
  <2> QED BY <2>1, <2>2
<1>3. EditorTypeOK'
  <2>1. written.count \in Nat /\ page'.seen \in 0 .. written.count
    BY <1>0 DEF EditorTypeOK, IsSeen
  <2>2. page'.seen \in Nat
    BY <2>1
  <2> QED BY <1>0, <1>1, <1>2, <2>2 DEF EditorTypeOK, IsDocument
<1>4. NoChangeIsUndone'
  BY <1>0 DEF NoChangeIsUndone
<1>5. LockIsKept'
  BY <1>0, <1>1 DEF LockIsKept, Holds
<1>6. SnapshotsAreSeen'
  <2>1. IsSeen(page.params, page.seen)'
    BY DEF IsSeen, Old
  <2>2. ASSUME NEW x \in requests', x.stage = "answered"
        PROVE  /\ IsDocument(x.params) /\ IsSeen(x.params, x.seen)'
               /\ x.key # "all" => x.key \in DOMAIN x.params
    <3>1. PICK r \in rs : /\ x.stage = r.stage /\ x.params = r.params
                          /\ x.seen = r.seen /\ x.key = r.key
      BY <1>1, <2>2
    <3> QED BY <1>0, <2>2, <3>1 DEF SnapshotsAreSeen, IsSeen, Old
  <2> QED BY <2>1, <2>2 DEF SnapshotsAreSeen
<1>7. CardsAreTrue'
  <2>1. ~page'.open => cards' = <<>> /\ \A x \in requests' : x.card = "gone"
    BY <1>1
  <2>2. ASSUME page'.open, ~doubt'
        PROVE  /\ requests' = {} /\ DOMAIN cards' \subseteq DOMAIN file'
               /\ \A k \in DOMAIN cards' : cards'[k].value = file'[k]
    <3>1. page'.params = file /\ rs = {}
      BY <2>2
    <3>2. requests' = {}
      BY <1>1, <3>1
    <3> QED BY <1>2, <2>2, <3>1, <3>2
  <2> QED BY <2>1, <2>2 DEF CardsAreTrue
<1> QED BY <1>3, <1>4, <1>5, <1>6, <1>7 DEF EditorInv

LEMMA LoadedKeepsEditor == EditorInv /\ Loaded => EditorInv'
<1> SUFFICES ASSUME EditorInv, Loaded PROVE EditorInv'
  OBVIOUS
<1>0. EditorTypeOK /\ NoChangeIsUndone /\ LockIsKept /\ SnapshotsAreSeen /\ CardsAreTrue
  BY DEF EditorInv
<1>1. PICK r \in requests :
        /\ r.stage = "answered" /\ r.key = "all"
        /\ page' = [page EXCEPT !.params = r.params, !.seen = r.seen]
        /\ cards' = IF page.open THEN Drawn(r.params) ELSE cards
        /\ requests' = IF page.open THEN Detached(requests \ {r}) ELSE requests \ {r}
        /\ doubt' = IF requests = {r} /\ page.open THEN Old(r.seen)
                    ELSE doubt \/ Old(r.seen) \/ requests # {r}
        /\ UNCHANGED <<file, sent, faults, written>>
  BY DEF Loaded
<1>2. IsDocument(r.params) /\ IsSeen(r.params, r.seen)
  BY <1>0, <1>1 DEF SnapshotsAreSeen
<1>3. page'.params = r.params /\ page'.seen = r.seen /\ page'.open = page.open
      /\ page' = [params |-> page'.params, seen |-> page'.seen, open |-> page'.open]
  BY <1>0, <1>1, PageTakes
<1>4. page.open \in BOOLEAN /\ doubt \in BOOLEAN
  BY <1>0 DEF EditorTypeOK
<1>5. doubt' \in BOOLEAN
  <2>1. CASE requests = {r} /\ page.open
    BY <1>1, <2>1 DEF Old
  <2>2. CASE ~(requests = {r} /\ page.open)
    BY <1>1, <2>2
  <2> QED BY <2>1, <2>2
<1>6. /\ page'.open \in BOOLEAN /\ IsDocument(page'.params) /\ IsSeen(page'.params, page'.seen)
      /\ UNCHANGED <<file, written>>
  BY <1>1, <1>2, <1>3, <1>4
<1>7. CASE page.open
  <2>1. PICK rs \in SUBSET requests : rs = requests \ {r}
    OBVIOUS
  <2>2. requests' = Detached(rs) /\ cards' = IF page'.open THEN Drawn(page'.params) ELSE <<>>
    BY <1>1, <1>3, <1>7, <2>1
  <2>3. ~doubt' /\ page'.open => page'.params = file /\ rs = {}
    <3> SUFFICES ASSUME ~doubt' PROVE page'.params = file /\ rs = {}
      OBVIOUS
    <3>1. requests = {r} /\ ~Old(r.seen)
      BY <1>1
    <3> QED BY <1>2, <1>3, <2>1, <3>1 DEF IsSeen
  <2> QED BY <1>3, <1>5, <1>6, <2>2, <2>3, DrawingKeepsEditor
<1>8. CASE ~page.open
  <2>1. requests' = requests \ {r} /\ cards' = cards /\ cards = <<>>
        /\ \A x \in requests : x.card = "gone"
    BY <1>0, <1>1, <1>8 DEF CardsAreTrue
  <2>2. NoChangeIsUndone' /\ LockIsKept'
    BY <1>0, <1>6, <2>1 DEF NoChangeIsUndone, LockIsKept, Holds
  <2>3. CardsAreTrue'
    BY <1>3, <1>8, <2>1 DEF CardsAreTrue
  <2>4. /\ DOMAIN cards' \subseteq Keys
        /\ cards' \in [DOMAIN cards' -> [value : Values \cup {Blank},
                                         status : {"", "busy", "saved", "failed"}]]
    BY <2>1, NoCards
  <2>5. requests' \subseteq requests
    BY <2>1
  <2> QED BY <1>3, <1>5, <1>6, <2>2, <2>3, <2>4, <2>5, AnswersKeepEditor
<1> QED BY <1>7, <1>8

LEMMA ChangeTabKeepsEditor == EditorInv /\ ChangeTab => EditorInv'
<1> SUFFICES ASSUME EditorInv, ChangeTab PROVE EditorInv'
  OBVIOUS
<1>0. EditorTypeOK /\ SnapshotsAreSeen
  BY DEF EditorInv
<1>1. /\ page' = [page EXCEPT !.open = ~page.open]
      /\ cards' = IF page.open THEN <<>> ELSE Drawn(page.params)
      /\ requests' = Detached(requests)
      /\ doubt' = (doubt \/ (~page.open /\ (Old(page.seen) \/ requests # {})))
      /\ UNCHANGED <<file, sent, faults, written>>
  BY DEF ChangeTab
<1>2. /\ IsDocument(page.params) /\ IsSeen(page.params, page.seen) /\ page.open \in BOOLEAN
      /\ doubt \in BOOLEAN /\ page = [params |-> page.params, seen |-> page.seen, open |-> page.open]
  BY <1>0 DEF EditorTypeOK, SnapshotsAreSeen
<1>3. PICK p, n, o : page = [params |-> p, seen |-> n, open |-> o]
  BY <1>2
<1>4. page' = [params |-> p, seen |-> n, open |-> ~o]
  BY <1>1, <1>3
<1>5. /\ page'.params = page.params /\ page'.seen = page.seen /\ page'.open = ~page.open
      /\ page' = [params |-> page'.params, seen |-> page'.seen, open |-> page'.open]
  BY <1>3, <1>4
<1>6. /\ cards' = IF page'.open THEN Drawn(page'.params) ELSE <<>>
      /\ page'.open \in BOOLEAN /\ IsDocument(page'.params) /\ IsSeen(page'.params, page'.seen)
      /\ UNCHANGED <<file, written>> /\ doubt' \in BOOLEAN
  BY <1>1, <1>2, <1>5
<1>7. ~doubt' /\ page'.open => page'.params = file /\ requests = {}
  BY <1>1, <1>2, <1>5 DEF IsSeen
<1> QED BY <1>1, <1>5, <1>6, <1>7, DrawingKeepsEditor

LEMMA LoadFailsKeepsEditor == EditorInv /\ LoadFails => EditorInv'
<1> SUFFICES ASSUME EditorInv, LoadFails PROVE EditorInv'
  OBVIOUS
<1>0. EditorTypeOK /\ NoChangeIsUndone /\ LockIsKept /\ SnapshotsAreSeen /\ CardsAreTrue
  BY DEF EditorInv
<1>1. PICK r \in requests :
        /\ r.stage = "refused" /\ r.key = "all"
        /\ requests' = requests \ {r}
        /\ UNCHANGED <<file, sent, faults, page, cards, written, doubt>>
  BY DEF LoadFails
<1>2. NoChangeIsUndone' /\ LockIsKept'
  BY <1>0, <1>1 DEF NoChangeIsUndone, LockIsKept, Holds
<1>3. DOMAIN cards \subseteq Keys
  BY <1>0 DEF EditorTypeOK
<1>4. CardsAreTrue'
  <2>1. ASSUME ~page.open PROVE cards = <<>> /\ \A x \in requests' : x.card = "gone"
    BY <1>0, <1>1, <2>1 DEF CardsAreTrue
  <2>2. ASSUME page.open, ~doubt, NEW x \in requests', x.key # "all" PROVE WaitsFor(x)'
    <3>1. x \in requests /\ WaitsFor(x)
      BY <1>0, <1>1, <2>2 DEF CardsAreTrue
    <3> QED BY <1>1, <3>1 DEF WaitsFor
  <2>3. ASSUME page.open, ~doubt, NEW k \in DOMAIN cards, \A x \in requests' : x.key # k
        PROVE  cards[k].value = file[k]
    <3>1. \A x \in requests : x.key # k
      BY <1>1, <1>3, <2>3, EditorConstants
    <3> QED BY <1>0, <2>3, <3>1 DEF CardsAreTrue
  <2>4. page.open /\ ~doubt => DOMAIN cards \subseteq DOMAIN file
    BY <1>0 DEF CardsAreTrue
  <2> QED BY <1>1, <2>1, <2>2, <2>3, <2>4 DEF CardsAreTrue
<1>5. /\ requests' \subseteq requests /\ UNCHANGED <<file, written>> /\ doubt' \in BOOLEAN
      /\ page' = [params |-> page'.params, seen |-> page'.seen, open |-> page'.open]
      /\ page'.open \in BOOLEAN /\ IsDocument(page'.params) /\ IsSeen(page'.params, page'.seen)
      /\ DOMAIN cards' \subseteq Keys
      /\ cards' \in [DOMAIN cards' -> [value : Values \cup {Blank},
                                       status : {"", "busy", "saved", "failed"}]]
  BY <1>0, <1>1 DEF EditorTypeOK, SnapshotsAreSeen
<1> QED BY <1>2, <1>4, <1>5, AnswersKeepEditor

LEMMA EditorStep == EditorInv /\ [EditorNext]_editorVars => EditorInv'
<1>1. EditorInv /\ UNCHANGED editorVars => EditorInv'
  <2> SUFFICES ASSUME EditorInv, UNCHANGED editorVars PROVE EditorInv'
    OBVIOUS
  <2>1. EditorTypeOK'
    BY DEF editorVars, EditorInv, EditorTypeOK
  <2>2. NoChangeIsUndone' /\ LockIsKept'
    BY DEF editorVars, EditorInv, NoChangeIsUndone, LockIsKept
  <2>3. SnapshotsAreSeen'
    BY DEF editorVars, EditorInv, SnapshotsAreSeen, IsSeen, Old
  <2>4. \A r \in requests : WaitsFor(r)' <=> WaitsFor(r)
    BY DEF editorVars, WaitsFor
  <2>5. CardsAreTrue'
    BY <2>4 DEF editorVars, EditorInv, CardsAreTrue
  <2> QED BY <2>1, <2>2, <2>3, <2>5 DEF EditorInv
<1> QED BY <1>1, ReadsKeepEditor, WriteKeepsEditor, OtherKeepsEditor, RestartKeepsEditor,
           SendingKeepsEditor, AppliedKeepsEditor, NotAppliedKeepsEditor, LoadedKeepsEditor,
           LoadFailsKeepsEditor, ChangeTabKeepsEditor DEF EditorNext

LEMMA EditorIsRightThen == EditorInv => EditorIsRight
<1> SUFFICES ASSUME EditorInv PROVE EditorIsRight
  OBVIOUS
<1>0. EditorTypeOK /\ NoChangeIsUndone /\ CardsAreTrue
  BY DEF EditorInv
<1>1. PageShowsFile
  <2> SUFFICES ASSUME requests = {}, ~doubt, NEW k \in DOMAIN cards
               PROVE  k \in DOMAIN file /\ cards[k].value = file[k]
    BY DEF PageShowsFile
  <2>1. CASE page.open
    BY <1>0, <2>1 DEF CardsAreTrue
  <2>2. CASE ~page.open
    <3>1. cards = <<>>
      BY <1>0, <2>2 DEF CardsAreTrue
    <3> QED BY <3>1, NoCards
  <2> QED BY <2>1, <2>2
<1> QED BY <1>0, <1>1 DEF EditorIsRight

-----------------------------------------------------------------------------
(* The composed module: one component moves, the others keep their state.  *)

ComponentsInv == ChannelInv /\ AlertInv /\ HudInv /\ EditorInv /\ TrendInv

LEMMA AtMostOneDisplayMoves ==
  ASSUME [DisplaysNext]_displaysVars
  PROVE  /\ [Next]_vars /\ [AlertNext]_alertVars /\ [HudNext]_hudVars
         /\ [EditorNext]_editorVars /\ [TrendNext]_trendVars
<1>1. CASE ChannelMoves
  BY <1>1 DEF ChannelMoves
<1>2. CASE AlertsMove
  BY <1>2 DEF AlertsMove
<1>3. CASE HudMoves
  BY <1>3 DEF HudMoves
<1>4. CASE EditorMoves
  BY <1>4 DEF EditorMoves
<1>5. CASE TrendMoves
  BY <1>5 DEF TrendMoves
<1>6. CASE UNCHANGED displaysVars
  BY <1>6 DEF displaysVars
<1> QED BY <1>1, <1>2, <1>3, <1>4, <1>5, <1>6 DEF DisplaysNext

LEMMA ComponentsHold == DisplaysSpec => []ComponentsInv
<1>1. DisplaysInit => ComponentsInv
  BY InitInv, AlertsInitially, HudInitially, EditorInitially, TrendInitially
  DEF DisplaysInit, ComponentsInv
<1>2. ComponentsInv /\ [DisplaysNext]_displaysVars => ComponentsInv'
  BY AtMostOneDisplayMoves, StepInv, AlertsStep, HudStep, EditorStep, TrendStep
  DEF ComponentsInv
<1> QED BY <1>1, <1>2, PTL DEF DisplaysSpec

(* The inductive invariants of all components hold in the composition.     *)
THEOREM DisplaysInvariant == DisplaysSpec => []DisplaysInv
<1>1. ComponentsInv => DisplaysInv
  BY DEF ComponentsInv, DisplaysInv
<1> QED BY <1>1, ComponentsHold, PTL

(* What the driver is shown and told is true: snapshots are whole, no      *)
(* event rings twice, the overlay is neither older than its sample allows  *)
(* nor late with what is new, the parameter page loses no change and shows *)
(* the file, and the trends of the learners are whole and in order.        *)
THEOREM DisplaysShowTruth == DisplaysSpec => []ShownIsTrue
<1>1. ChannelInv => StateIsWhole
  BY DEF ChannelInv
<1>2. AlertInv => NoGhostAlerts
  BY DEF AlertInv
<1>3. ComponentsInv => ShownIsTrue
  BY <1>1, <1>2, HudIsRightThen, EditorIsRightThen, TrendIsRightThen DEF ComponentsInv, ShownIsTrue
<1> QED BY <1>3, ComponentsHold, PTL

(* No process's copy of a topic goes back in time, in the composition too. *)
THEOREM DisplaysNeverBackwards == DisplaysSpec => NeverBackwards
<1>1. ComponentsInv /\ [DisplaysNext]_displaysVars
        => [state'.lo >= state.lo /\ state'.hi >= state.hi]_vars
  BY AtMostOneDisplayMoves, StateStep DEF ComponentsInv
<1> QED BY <1>1, ComponentsHold, PTL DEF DisplaysSpec, NeverBackwards
=============================================================================
