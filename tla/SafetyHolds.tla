---------------------------- MODULE SafetyHolds ----------------------------
(***************************************************************************)
(* The two input holds of controlsd (control_holds.cc): PandaHealthGate    *)
(* and PathHoldGate, between the processes that publish (pandad, modeld)   *)
(* and the 100 Hz loop that decides on what it last read.                  *)
(*                                                                         *)
(* Time is an action of its own, Elapse, and every timestamp is kept as    *)
(* its age, up to the first value that no comparison can tell from a       *)
(* larger one.  Publications, ticks and time interleave freely, so a slow  *)
(* publisher, a late tick and a silent process are all behaviours.  A      *)
(* snapshot never published has timestamp 0, which is stale like an old    *)
(* one, so it starts with the largest age.                                 *)
(*                                                                         *)
(* Snapshots reach the gates through LatestChannel, whole and in order.    *)
(***************************************************************************)
EXTENDS Naturals

CONSTANTS
  StateTimeout,  \* kPandaStateTimeoutNs
  HealthHold,    \* kPandaHealthHoldNs
  ModelTimeout,  \* driving_params.model_timeout_ms
  PathHold       \* kPathInvalidHoldNs

ASSUME HoldsAssumption ==
  /\ StateTimeout \in Nat /\ HealthHold \in Nat
  /\ ModelTimeout \in Nat /\ PathHold \in Nat

VARIABLES
  panda,            \* K230PandaState: age, transport, safety, allowed
  model,            \* K230ModelState: age of the captured frame, valid, reach
  have_last_ready, last_controls_allowed, ready_age,   \* PandaHealthGate
  last_usable, usable_age,                             \* PathHoldGate
  ready, controls_allowed, path_usable, path_held,     \* what the last tick decided
  consent_age, plan_age  \* history: age of Panda's consent since a tick saw it,
                         \* unless withdrawn; age of the newest good plan seen

snapshots == <<panda, model>>
gates == <<have_last_ready, last_controls_allowed, ready_age, last_usable, usable_age>>
verdict == <<ready, controls_allowed, path_usable, path_held>>
history == <<consent_age, plan_age>>
holdVars == <<snapshots, gates, verdict, history>>

(* The largest age of a plan that a comparison accepts. *)
PlanCap == IF ModelTimeout >= PathHold THEN ModelTimeout ELSE PathHold

Older(age, limit) == IF age <= limit THEN age + 1 ELSE age

HoldsInit ==
  /\ panda = [age |-> StateTimeout + 1, transport |-> FALSE, safety |-> FALSE, allowed |-> FALSE]
  /\ model = [age |-> ModelTimeout + 1, valid |-> FALSE, reach |-> FALSE]
  /\ have_last_ready = FALSE /\ last_controls_allowed = FALSE /\ ready_age = HealthHold + 1
  /\ last_usable = FALSE /\ usable_age = PlanCap + 1
  /\ ready = FALSE /\ controls_allowed = FALSE
  /\ path_usable = FALSE /\ path_held = FALSE
  /\ consent_age = HealthHold + 1 /\ plan_age = PlanCap + 1

-----------------------------------------------------------------------------
(* pandad and modeld *)

(* publish_health(): the transport flags are pandad's own, the others come *)
(* from Panda and are all zero when get_health() fails.                    *)
PublishHealth(transport, safety, allowed) ==
  /\ panda' = [age |-> 0, transport |-> transport, safety |-> safety, allowed |-> allowed]
  /\ UNCHANGED <<model, gates, verdict, history>>

(* publish_disconnected(): nothing but the time and tx_enabled is set. *)
PublishDisconnected ==
  /\ panda' = [age |-> 0, transport |-> FALSE, safety |-> FALSE, allowed |-> FALSE]
  /\ UNCHANGED <<model, gates, verdict, history>>

(* A newer frame's output: its age is that of the capture. *)
PublishModel(age, valid, reach) ==
  /\ age <= model.age
  /\ model' = [age |-> age, valid |-> valid, reach |-> reach]
  /\ UNCHANGED <<panda, gates, verdict, history>>

ElapseHolds ==
  /\ panda' = [panda EXCEPT !.age = Older(panda.age, StateTimeout)]
  /\ model' = [model EXCEPT !.age = Older(model.age, ModelTimeout)]
  /\ ready_age' = Older(ready_age, HealthHold)
  /\ usable_age' = Older(usable_age, PlanCap)
  /\ consent_age' = Older(consent_age, HealthHold)
  /\ plan_age' = Older(plan_age, PlanCap)
  /\ UNCHANGED <<have_last_ready, last_controls_allowed, last_usable, verdict>>

-----------------------------------------------------------------------------
(* PandaHealthGate::update() *)

TransportReady == panda.age <= StateTimeout /\ panda.transport
ReadyRaw == TransportReady /\ panda.safety
PandaHeld == ~ReadyRaw /\ have_last_ready /\ ready_age <= HealthHold

PandaGate ==
  /\ have_last_ready' = (have_last_ready \/ ReadyRaw)
  /\ last_controls_allowed' = IF ReadyRaw THEN panda.allowed ELSE last_controls_allowed
  /\ ready_age' = IF ReadyRaw THEN 0 ELSE ready_age
  /\ ready' = (ReadyRaw \/ PandaHeld)
  /\ controls_allowed' = \/ ReadyRaw /\ panda.allowed
                         \/ PandaHeld /\ last_controls_allowed
  /\ consent_age' = IF ~ReadyRaw THEN consent_age
                    ELSE IF panda.allowed THEN 0 ELSE HealthHold + 1

(* path_from_model_state() and PathHoldGate::update() *)

ModelFresh == model.age <= ModelTimeout
RawUsable == model.valid /\ ModelFresh /\ model.reach
RawPathInvalid == model.valid /\ ModelFresh /\ ~model.reach
PathHeld == RawPathInvalid /\ last_usable /\ usable_age <= PathHold

PathGateRenewing ==
  /\ last_usable' = (last_usable \/ RawUsable)
  /\ usable_age' = IF RawUsable \/ PathHeld THEN model.age ELSE usable_age
  /\ path_usable' = (RawUsable \/ PathHeld)
  /\ path_held' = PathHeld
  /\ plan_age' = IF RawUsable THEN model.age ELSE plan_age

PathGate ==
  /\ last_usable' = (last_usable \/ RawUsable)
  /\ usable_age' = IF RawUsable THEN model.age ELSE usable_age
  /\ path_usable' = (RawUsable \/ PathHeld)
  /\ path_held' = PathHeld
  /\ plan_age' = IF RawUsable THEN model.age ELSE plan_age

GateTick == PandaGate /\ PathGate /\ UNCHANGED snapshots

-----------------------------------------------------------------------------

Publish ==
  \/ \E transport, safety, allowed \in BOOLEAN : PublishHealth(transport, safety, allowed)
  \/ PublishDisconnected
  \/ \E age \in 0 .. ModelTimeout + 1, valid, reach \in BOOLEAN : PublishModel(age, valid, reach)

HoldsNext == Publish \/ ElapseHolds \/ GateTick

HoldsSpec == HoldsInit /\ [][HoldsNext]_holdVars

-----------------------------------------------------------------------------
(* Properties *)

(* The type invariant of the snapshots and of the gates. *)
HoldsTypeOK ==
  /\ panda \in [age : 0 .. StateTimeout + 1, transport : BOOLEAN, safety : BOOLEAN,
                allowed : BOOLEAN]
  /\ model \in [age : 0 .. ModelTimeout + 1, valid : BOOLEAN, reach : BOOLEAN]
  /\ have_last_ready \in BOOLEAN /\ last_controls_allowed \in BOOLEAN
  /\ ready_age \in 0 .. HealthHold + 1
  /\ last_usable \in BOOLEAN /\ usable_age \in 0 .. PlanCap + 1
  /\ ready \in BOOLEAN /\ controls_allowed \in BOOLEAN
  /\ path_usable \in BOOLEAN /\ path_held \in BOOLEAN
  /\ consent_age \in 0 .. HealthHold + 1 /\ plan_age \in 0 .. PlanCap + 1

(* A tick lets control through only if some tick at most 100 ms before saw *)
(* a Panda that was ready and allowed control, and no ready Panda has said *)
(* otherwise since, whatever was published, lost or late in between: a     *)
(* hold neither outlives nor renews the consent it stands for.             *)
ConsentIsRecent ==
  [][GateTick /\ controls_allowed' => consent_age' <= HealthHold]_holdVars

(* A tick accepts a path only from a model that is valid and fresh, and    *)
(* the plan behind it is within the model timeout, within 150 ms when it   *)
(* stands in for a malformed one.                                          *)
PathIsRecent ==
  [][GateTick /\ path_usable' =>
       /\ model.valid /\ model.age <= ModelTimeout
       /\ plan_age' <= IF model.reach THEN ModelTimeout ELSE PathHold]_holdVars

(* Both: neither gate lets anything through that is too old.               *)
GatesAreRecent == ConsentIsRecent /\ PathIsRecent

(* The claim of source-layout.md and control_holds.h: a fresh, transport-  *)
(* ready controls_allowed = 0 is never held.  The code holds it when the   *)
(* same snapshot reports a lost heartbeat or another safety mode, or when  *)
(* get_health() failed and left both at zero.                              *)
OffIsNeverHeld ==
  [][GateTick /\ TransportReady /\ ~panda.allowed => ~controls_allowed']_holdVars

(* The inductive invariant: what the gates remember is what the history    *)
(* says.                                                                   *)
HoldsInv ==
  /\ HoldsTypeOK
  /\ last_controls_allowed => consent_age = ready_age
  /\ last_usable => plan_age = usable_age
=============================================================================
