---------------------------- MODULE OverlayState ----------------------------
(***************************************************************************)
(* How the driver hears of a transition.  controlsd counts the events of   *)
(* each kind in its snapshots (EngageEvents in k230_controlsd.cc, the      *)
(* event_id_ of departure_alert.cc); overlayd, which polls the newest      *)
(* snapshot once a frame, compares the counters with the last it rang      *)
(* (OverlayAlertEvents in overlay_state.cc), adds an alert of its own when *)
(* control becomes unavailable (process_alert_events in k230_overlayd.cc)  *)
(* and hands one alert per frame to the buzzer (OutputDevices).            *)
(*                                                                         *)
(* Either process may be restarted by the manager: the counters of a new   *)
(* controlsd start again at zero, a new overlayd knows of no event.        *)
(***************************************************************************)
EXTENDS Integers, FiniteSetsExt

CONSTANTS
  MaxEvents,    \* events of a life of controlsd
  MaxRestarts   \* restarts of the two processes: both bounds of the model

ASSUME AlertAssumption == {MaxEvents, MaxRestarts} \subseteq Nat

Kinds == {"unable", "engage", "disengage", "signal_changed"}

VARIABLES
  events,     \* the counters of controlsd: kind -> id
  controls,   \* the other fields of its newest snapshot that matter, and whether it is running
  heard,      \* OverlayAlertEvents: initialized_ and last_*
  available,  \* alert_state_initialized_ and previous_unavailable_: "unknown", "yes" or "no"
  sounded,    \* the alert handed to piezo_buzzer_play() in the last frame, or "none"
  restarts,
  owed,       \* history: kind -> events less alerts since overlayd started
  unrung      \* history: kinds with an event that followed a poll of this controlsd's life

alertVars == <<events, controls, heard, available, sounded, restarts, owed, unrung>>

NoEvents == [k \in Kinds |-> 0]
Unheard == [initialized |-> FALSE, last |-> NoEvents]
NotPublished == [engaged |-> FALSE, known |-> FALSE, shown |-> FALSE, fresh |-> FALSE, polled |-> FALSE]

AlertTypeOK ==
  /\ events \in [Kinds -> 0 .. MaxEvents]
  /\ controls \in [engaged : BOOLEAN, known : BOOLEAN, shown : BOOLEAN, fresh : BOOLEAN,
                   polled : BOOLEAN]
  /\ heard \in [initialized : BOOLEAN, last : [Kinds -> 0 .. MaxEvents]]
  /\ available \in {"unknown", "yes", "no"}
  /\ sounded \in Kinds \cup {"none", "unavailable"}
  /\ restarts \in 0 .. MaxRestarts
  /\ owed \in [Kinds -> Int]
  /\ unrung \subseteq Kinds

AlertInit ==
  /\ events = NoEvents /\ controls = NotPublished
  /\ heard = Unheard /\ available = "unknown" /\ sounded = "none" /\ restarts = 0
  /\ owed = NoEvents /\ unrung = {}

-----------------------------------------------------------------------------
(* controlsd *)

(* EngageEvents.update(): a rejection hides a transition of the same tick. *)
EngageKind(rejected, steers) ==
  CASE rejected -> {"unable"}
    [] ~rejected /\ controls.known /\ steers # controls.engaged ->
         {IF steers THEN "engage" ELSE "disengage"}
    [] OTHER -> {}

EventCount == events["unable"] + events["engage"] + events["disengage"] + events["signal_changed"]

(* A tick and its snapshot: an engage event, a departure shown or over.    *)
ControlTicks(rejected, steers, departs, shown) ==
  LET new == EngageKind(rejected, steers) \cup (IF departs THEN {"signal_changed"} ELSE {})
  IN /\ departs => shown
     /\ EventCount + Cardinality(new) <= MaxEvents
     /\ events' = [k \in Kinds |-> IF k \in new THEN events[k] + 1 ELSE events[k]]
     /\ owed' = [k \in Kinds |-> IF k \in new THEN owed[k] + 1 ELSE owed[k]]
     /\ unrung' = IF controls.polled THEN unrung \cup new ELSE unrung
     /\ controls' = [engaged |-> steers, known |-> TRUE, shown |-> shown, fresh |-> TRUE,
                     polled |-> controls.polled]
     /\ UNCHANGED <<heard, available, sounded, restarts>>

(* The snapshot grows older than kStateFreshNs: controlsd is late or gone. *)
ControlGrowsStale ==
  /\ controls.fresh /\ controls' = [controls EXCEPT !.fresh = FALSE]
  /\ UNCHANGED <<events, heard, available, sounded, restarts, owed, unrung>>

(* The old snapshot stays in its topic until the new process publishes.    *)
ControlRestarts ==
  /\ restarts < MaxRestarts /\ restarts' = restarts + 1
  /\ ~controls.fresh
  /\ events' = NoEvents /\ controls' = NotPublished /\ unrung' = {}
  /\ UNCHANGED <<heard, available, sounded, owed>>

-----------------------------------------------------------------------------
(* overlayd *)

(* baseline(): the first snapshot, and one with a counter set back, are    *)
(* taken as they are.                                                      *)
CounterReset(k) == heard.last[k] # 0 /\ events[k] < heard.last[k]

BaselineOnReset == heard.initialized /\ \E k \in Kinds : CounterReset(k)

Baseline == ~heard.initialized \/ \E k \in Kinds : CounterReset(k)

(* update(): one event, by its priority; a departure only while it is shown. *)
IsNew(k) == events[k] # 0 /\ events[k] # heard.last[k]

Decision ==
  CASE Baseline -> "none"
    [] ~Baseline /\ IsNew("unable") -> "unable"
    [] ~Baseline /\ ~IsNew("unable") /\ IsNew("engage") -> "engage"
    [] ~Baseline /\ ~(IsNew("unable") \/ IsNew("engage")) /\ IsNew("disengage") -> "disengage"
    [] ~Baseline /\ ~(IsNew("unable") \/ IsNew("engage") \/ IsNew("disengage"))
         /\ IsNew("signal_changed") /\ controls.shown -> "signal_changed"
    [] OTHER -> "none"

HeardAll(alert) ==
  IF Baseline \/ alert # "none" THEN [initialized |-> TRUE, last |-> events] ELSE heard

Heard(alert) ==
  IF Baseline THEN [initialized |-> TRUE, last |-> events]
  ELSE IF alert = "none" THEN heard
  ELSE [heard EXCEPT !.last[alert] = events[alert]]

(* play_availability_alert(): on the edge, unless another alert was played. *)
Unavailable(panda_unavailable) == ~controls.fresh \/ panda_unavailable
AvailabilityAlert(unavailable, alert) ==
  IF unavailable /\ available = "yes" /\ alert = "none" THEN "unavailable" ELSE alert

(* A frame of the display: update_aux_state() and process_alert_events().  *)
PollAlerts(panda_unavailable) ==
  LET alert == IF controls.fresh THEN Decision ELSE "none"
      unavailable == Unavailable(panda_unavailable)
  IN /\ heard' = IF controls.fresh THEN Heard(alert) ELSE heard
     /\ controls' = [controls EXCEPT !.polled = @ \/ controls.fresh]
     /\ owed' = IF alert = "none" THEN owed ELSE [owed EXCEPT ![alert] = @ - 1]
     /\ unrung' = unrung \ {alert}
     /\ available' = IF unavailable THEN "no" ELSE "yes"
     /\ sounded' = AvailabilityAlert(unavailable, alert)
     /\ UNCHANGED <<events, restarts>>

OverlayRestarts ==
  /\ restarts < MaxRestarts /\ restarts' = restarts + 1
  /\ heard' = Unheard /\ available' = "unknown" /\ sounded' = "none"
  /\ owed' = NoEvents /\ unrung' = {}
  /\ controls' = [controls EXCEPT !.polled = FALSE]
  /\ UNCHANGED events

AnyControlTick ==
  \E rejected, steers, departs, shown \in BOOLEAN : ControlTicks(rejected, steers, departs, shown)
AnyPoll == \E panda_unavailable \in BOOLEAN : PollAlerts(panda_unavailable)

AlertNext ==
  AnyControlTick \/ ControlGrowsStale \/ ControlRestarts \/ AnyPoll \/ OverlayRestarts

(* The display keeps calling on_frame(). *)
AlertFairSpec == AlertInit /\ [][AlertNext]_alertVars /\ WF_alertVars(AnyPoll)

-----------------------------------------------------------------------------

(* overlayd never rings twice for one event, nor for one that was over     *)
(* when it started, whichever of the two processes is restarted.           *)
NoGhostAlerts == \A k \in Kinds : owed[k] >= 0

(* A counter that is ahead of the last one rung is ahead by events that    *)
(* are still owed, whatever counter a new controlsd reached in between.    *)
AheadIsOwed ==
  heard.initialized => \A k \in Kinds : events[k] - heard.last[k] <= owed[k]

AlertInv == AlertTypeOK /\ NoGhostAlerts /\ AheadIsOwed

(* An engage event of a controlsd that overlayd has read before is rung:   *)
(* sooner or later its alert is handed to the buzzer, unless a process is  *)
(* restarted or controlsd falls silent.                                    *)
EventsAreRung ==
  \A k \in Kinds \ {"signal_changed"} : k \in unrung ~> k \notin unrung \/ ~controls.fresh

-----------------------------------------------------------------------------
(***************************************************************************)
(* What overlayd draws (k230_overlayd.cc: on_frame(); overlay_state.cc:    *)
(* hud_apply_*()).  The preview loop calls on_frame() all the time; it     *)
(* polls the state topics, works out the state of the HUD and says when    *)
(* the overlay has to be drawn again.  The overlay is drawn only when a    *)
(* preview frame is displayed, and not more often than every Interval, so  *)
(* a redraw may have to wait, and a topic that falls silent asks for none. *)
(*                                                                         *)
(* One topic, with one thing it can show: a blinker of controlState or,    *)
(* without the steps of its animation, the picture of modelState.          *)
(***************************************************************************)

CONSTANTS
  StateFresh,      \* kStateFreshNs, in ticks of the model
  Interval,        \* kOverlayIntervalNs
  Sample,          \* the second between two samples of the load
  StepTime, Steps, \* kTurnSignalStepNs, kTurnSignalSteps
  MaxGap,          \* ticks between two displayed frames of a preview that runs
  ReadyFrames      \* kDisplayReadyPreviewFrames

ASSUME HudAssumption ==
  /\ {StateFresh, MaxGap, ReadyFrames} \subseteq Nat
  /\ {Interval, Sample, StepTime, Steps} \subseteq Nat \ {0}
  /\ Interval <= Sample

VARIABLES
  topic,     \* the newest snapshot: its age, what it shows, and whether it was polled
  latest,    \* latest_*_state_: its age and what it shows
  hud,       \* hud_: what is shown, and the step of the animation
  blinking,  \* previous_*_blinker_, and the time since turn_signal_start_ns_
  pending_redraw,
  since,     \* ticks since the last redraw, sample and displayed frame
  startup,   \* startup_preview_frames_, and ready_file_written_
  drawn,     \* the overlay on the screen: what it shows, from a snapshot of which age
  waiting,   \* history: 0, or 1 and the ticks since the overlay should be another
  dark       \* history: no frame was displayed for longer than MaxGap, since the last redraw

hudVars == <<topic, latest, hud, blinking, pending_redraw, since, startup, drawn, waiting, dark>>

Never == StateFresh + Sample + 2 * MaxGap + 1  \* an age beyond all limits, and of no snapshot
Older(n, limit) == IF n < limit THEN n + 1 ELSE limit
Nothing == [age |-> Never, on |-> FALSE]

HudInit ==
  /\ topic = [age |-> Never, on |-> FALSE, new |-> FALSE]
  /\ latest = Nothing
  /\ hud = [on |-> FALSE, step |-> 0]
  /\ blinking = [on |-> FALSE, time |-> 0]
  /\ pending_redraw = TRUE
  /\ since = [draw |-> Interval, sample |-> 0, frame |-> 0]
  /\ startup = [frames |-> 0, ready |-> FALSE]
  /\ drawn = Nothing /\ waiting = 0 /\ dark = FALSE

(* The process behind the topic. *)
PublishState ==
  \E on \in BOOLEAN :
    /\ topic' = [age |-> 0, on |-> on, new |-> TRUE]
    /\ waiting' = IF waiting = 0 THEN 1 ELSE waiting
    /\ UNCHANGED <<latest, hud, blinking, pending_redraw, since, startup, drawn, dark>>

(* A preview that stands still displays no frame for longer than MaxGap. *)
ClockTicks ==
  /\ topic' = [topic EXCEPT !.age = Older(@, Never)]
  /\ latest' = [latest EXCEPT !.age = Older(@, Never)]
  /\ drawn' = [drawn EXCEPT !.age = Older(@, Never)]
  /\ blinking' = [blinking EXCEPT !.time = (@ + 1) % (StepTime * Steps)]
  /\ since' = [draw |-> Older(since.draw, Interval), sample |-> Older(since.sample, Sample),
               frame |-> Older(since.frame, MaxGap)]
  /\ waiting' = IF waiting = 0 THEN 0 ELSE Older(waiting, Never)
  /\ dark' = (dark \/ since.frame = MaxGap)
  /\ UNCHANGED <<hud, pending_redraw, startup>>

-----------------------------------------------------------------------------
(* on_frame() *)

(* poll(): a snapshot that is not new changes nothing. *)
Polled == IF topic.new THEN [age |-> topic.age, on |-> topic.on] ELSE latest

(* refresh_hud_state(): freshness() and hud_apply_*(). *)
IsShown(snapshot) == snapshot.on /\ snapshot.age <= StateFresh

(* update_turn_signal(): the steps count from the frame that saw it turn. *)
Blinking(on) == IF on # blinking.on THEN [on |-> on, time |-> 0] ELSE blinking
Step(b) == IF b.on THEN (b.time \div StepTime) % Steps ELSE 0

RedrawAsked == pending_redraw \/ topic.new \/ (Step(Blinking(IsShown(Polled))) # hud.step /\ IsShown(Polled))
OverlayDue == since.draw = Interval

(* A second is over: sample the load, and ask for a redraw in any case. *)
SampleIsDue == since.sample = Sample

PendingIfAsked(redraws) == RedrawAsked /\ ~redraws

Pending(redraws) == (RedrawAsked /\ ~redraws) \/ SampleIsDue

(* publish_display_ready(), which may fail and is tried again.             *)
StartedUp(updated, opens) ==
  IF ~updated \/ startup.ready THEN startup
  ELSE [frames |-> Older(startup.frames, ReadyFrames),
        ready |-> opens /\ startup.frames + 1 >= ReadyFrames]

OnFrame(displayed, updated, opens) ==
  LET shown == IsShown(Polled)
      redraws == displayed /\ RedrawAsked /\ OverlayDue
  IN /\ latest' = Polled
     /\ topic' = [topic EXCEPT !.new = FALSE]
     /\ blinking' = Blinking(shown)
     /\ hud' = [on |-> shown, step |-> Step(Blinking(shown))]
     /\ startup' = IF displayed THEN StartedUp(updated, opens) ELSE startup
     /\ drawn' = IF redraws THEN [age |-> Polled.age, on |-> shown] ELSE drawn
     /\ pending_redraw' = Pending(redraws)
     /\ since' = [draw |-> IF redraws THEN 0 ELSE since.draw,
                  sample |-> IF SampleIsDue THEN 0 ELSE since.sample,
                  frame |-> IF displayed THEN 0 ELSE since.frame]
     /\ waiting' = CASE redraws -> 0
                     [] ~redraws /\ waiting = 0 /\ hud'.step # hud.step /\ shown -> 1
                     [] OTHER -> waiting
     /\ dark' = (dark /\ ~redraws)

(* A displayed frame, of a preview that has or has not a new picture, and  *)
(* a call without one.                                                     *)
FrameIsDisplayed == \E updated, opens \in BOOLEAN : OnFrame(TRUE, updated, opens)
FrameIsNotDisplayed == OnFrame(FALSE, FALSE, FALSE)

(* cleanup(), or a crash, and a new overlayd: the screen is cleared.       *)
HudRestarts ==
  /\ latest' = Nothing /\ topic' = [topic EXCEPT !.new = topic.age < Never]
  /\ hud' = [on |-> FALSE, step |-> 0] /\ blinking' = [on |-> FALSE, time |-> 0]
  /\ pending_redraw' = TRUE
  /\ since' = [draw |-> Interval, sample |-> 0, frame |-> 0]
  /\ startup' = [frames |-> 0, ready |-> FALSE]
  /\ drawn' = Nothing /\ waiting' = 0 /\ dark' = FALSE

HudNext ==
  PublishState \/ ClockTicks \/ FrameIsDisplayed \/ FrameIsNotDisplayed \/ HudRestarts

HudSpec == HudInit /\ [][HudNext]_hudVars

-----------------------------------------------------------------------------
(* Properties *)

(* While the preview runs, the overlay shows nothing that is older than    *)
(* its limit and the second after which it is drawn again in any case,     *)
(* also when its topic falls silent: no blinker, engagement or path stays  *)
(* on the screen for longer.                                               *)
NothingOldIsShown == drawn.on /\ ~dark => drawn.age <= StateFresh + Sample + 2 * MaxGap

(* A new snapshot, or a new step of the animation, is on the screen one    *)
(* interval and one frame later, however snapshots, calls without a frame  *)
(* and redraws that are not due yet fall.                                  *)
NewsIsDrawn == waiting > 0 /\ ~dark => waiting <= Interval + MaxGap

HudIsRight == NothingOldIsShown /\ NewsIsDrawn

HudTypeOK ==
  /\ topic \in [age : 0 .. Never, on : BOOLEAN, new : BOOLEAN]
  /\ latest \in [age : 0 .. Never, on : BOOLEAN]
  /\ hud.on \in BOOLEAN /\ blinking.on \in BOOLEAN
  /\ pending_redraw \in BOOLEAN /\ dark \in BOOLEAN
  /\ since \in [draw : 0 .. Interval, sample : 0 .. Sample, frame : 0 .. MaxGap]
  /\ drawn \in [age : 0 .. Never, on : BOOLEAN]
  /\ waiting \in 0 .. Never

(* News that wait have asked for a redraw, and wait for the interval to    *)
(* pass and then for one frame.                                            *)
NewsIsAsked ==
  waiting > 0 =>
    /\ pending_redraw \/ topic.new
    /\ ~dark => waiting <= IF since.draw = Interval THEN Interval + since.frame ELSE since.draw + 1

(* What was drawn is as old as the time since: until the interval has      *)
(* passed, then until the sample asks for a redraw, then until a frame.    *)
DrawnAgesWithTime ==
  drawn.on /\ ~dark =>
    /\ since.draw < Interval => drawn.age <= StateFresh + since.draw
    /\ IF pending_redraw THEN drawn.age <= StateFresh + Sample + MaxGap + since.frame
       ELSE drawn.age <= StateFresh + since.sample + (IF SampleIsDue THEN since.frame ELSE 0)

HudInv == HudTypeOK /\ NewsIsAsked /\ DrawnAgesWithTime
=============================================================================
