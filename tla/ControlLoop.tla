----------------------------- MODULE ControlLoop ----------------------------
(***************************************************************************)
(* The 100 Hz loop of controlsd (k230_controlsd.cc, main()) in time: when  *)
(* a tick begins, which batches of the car it takes and what becomes of    *)
(* the schedule when a tick runs late.                                     *)
(*                                                                         *)
(* Time passes between any two steps and may not pass at all, so a tick    *)
(* can take any time up to MaxTick and a sleep may end late.  Times are    *)
(* kept relative: `lead` is how far next_tick lies ahead, the others are   *)
(* ages.  What a tick computes from its inputs is in the other modules; it *)
(* sends a batch or not.  pandad stamps a batch as it puts it in.          *)
(***************************************************************************)
EXTENDS Integers, Sequences

CONSTANTS
  Period,      \* 10 ms
  MaxRxAge,    \* kMaxCanRxAgeNs
  RxSlots,     \* batches the can queue holds
  MaxTick      \* bound: how long a tick may take

ASSUME LoopAssumption ==
  /\ {Period, RxSlots} \subseteq Nat \ {0} /\ {MaxRxAge, MaxTick} \subseteq Nat

VARIABLES
  step,      \* place in the loop
  lead,      \* next_tick - now, at least -Period: from there on all is the same
  can_now,   \* age of can_now_ns, taken when the tick begins
  rx,        \* the ages of the batches in the queue
  discarded, \* ages of the batches this tick took for stale
  gaps       \* history: times between the last three sends, each up to Period

loopVars == <<step, lead, can_now, rx, discarded, gaps>>

Oldest == MaxRxAge + MaxTick + 1
AtMost(limit, n) == IF n < limit THEN n ELSE limit

LoopInit ==
  /\ step = "asleep" /\ lead = 0 /\ can_now = 0
  /\ rx = <<>> /\ discarded = {}
  /\ gaps = <<Period, Period, Period>>

-----------------------------------------------------------------------------

(* A tick begins; next_tick is the end of its period, can_now_ns is taken, *)
(* and the parameter files are looked at, which may take time.             *)
BeginTick ==
  /\ step = "asleep" /\ lead <= 0
  /\ step' = "drain" /\ lead' = lead + Period
  /\ can_now' = 0 /\ discarded' = {}
  /\ UNCHANGED <<rx, gaps>>

(* k230_can_batch_is_fresh(): neither older than the limit at can_now_ns   *)
(* nor later than it.                                                      *)
IsFresh(age) == age >= can_now /\ age - can_now <= MaxRxAge

DrainOne ==
  /\ step = "drain" /\ rx # <<>>
  /\ rx' = Tail(rx)
  /\ discarded' = IF IsFresh(Head(rx)) THEN discarded ELSE discarded \cup {Head(rx)}
  /\ UNCHANGED <<step, lead, can_now, gaps>>

(* The queue is empty: models and states are read, all is decided on and   *)
(* the batch pushed to sendcan, if there is one.                           *)
SendTick ==
  /\ step = "drain" /\ rx = <<>>
  /\ step' = "finish"
  /\ gaps' \in {gaps, <<0, gaps[1], gaps[2]>>}
  /\ UNCHANGED <<lead, can_now, rx, discarded>>

(* Sleep until next_tick, or, when it has passed, go on from now. *)
Schedule == IF lead > 0 THEN lead ELSE 0

FinishTick ==
  /\ step = "finish"
  /\ step' = "asleep" /\ lead' = Schedule
  /\ UNCHANGED <<can_now, rx, discarded, gaps>>

(* pandad puts a batch; into a full queue it does not get. *)
PutRx ==
  /\ Len(rx) < RxSlots
  /\ rx' = Append(rx, 0)
  /\ UNCHANGED <<step, lead, can_now, discarded, gaps>>

Pass ==
  /\ step = "asleep" \/ can_now < MaxTick
  /\ lead' = IF lead > -Period THEN lead - 1 ELSE lead
  /\ can_now' = AtMost(MaxTick, can_now + 1)
  /\ rx' = [i \in DOMAIN rx |-> AtMost(Oldest, rx[i] + 1)]
  /\ gaps' = [gaps EXCEPT ![1] = AtMost(Period, @ + 1)]
  /\ UNCHANGED <<step, discarded>>

LoopNext == BeginTick \/ DrainOne \/ SendTick \/ FinishTick \/ PutRx \/ Pass
LoopSpec == LoopInit /\ [][LoopNext]_loopVars

-----------------------------------------------------------------------------
(* Properties *)

(* However late ticks run, batches do not go out in a bunch: of three sent *)
(* in a row the last comes no sooner than a period after the first.        *)
NoBurst == gaps[2] + gaps[3] >= Period

(* The inductive invariant: what the schedule knows of the last sends.     *)
LoopTypeOK ==
  /\ step \in {"asleep", "drain", "finish"}
  /\ lead \in -Period .. Period
  /\ gaps \in [1 .. 3 -> 0 .. Period]

SendsArePaced ==
  /\ step = "asleep" => /\ lead + gaps[1] >= 0
                        /\ gaps[1] = Period \/ lead + gaps[1] + gaps[2] >= Period
  /\ step = "drain" => /\ gaps[1] = Period \/ lead + gaps[1] >= Period
                       /\ gaps[1] + gaps[2] >= Period
  /\ step = "finish" => Period \in {gaps[1], gaps[2]} \/ lead + gaps[1] + gaps[2] >= Period

LoopInv == LoopTypeOK /\ SendsArePaced /\ NoBurst

(* What the comment beside the other freshness checks asks for             *)
(* (k230_controlsd.cc): data published while the tick reads its inputs is  *)
(* no reason to call it stale.                                             *)
OnlyStaleIsDiscarded == \A age \in discarded : age > MaxRxAge
=============================================================================
