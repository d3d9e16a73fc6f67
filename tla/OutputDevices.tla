--------------------------- MODULE OutputDevices ---------------------------
(***************************************************************************)
(* The two devices that a user-space process drives call by call, each of  *)
(* which may fail: the buzzer of overlayd and the backlight of the panel.  *)
(* They share nothing; each has a specification of its own.                *)
(***************************************************************************)
EXTENDS Integers

-----------------------------------------------------------------------------
(***************************************************************************)
(* The buzzer of overlayd (piezo_buzzer.c).  piezo_buzzer_play() leaves    *)
(* one asked, the newest, for a thread that plays it: it exports a PWM     *)
(* channel, routes the pin to it, and starts, retunes and pauses it note   *)
(* by note through sysfs files and a devmem command, each of which may     *)
(* fail.  The PWM and the route outlive the process.                       *)
(*                                                                         *)
(* One step per call that changes the hardware; a melody alternates notes  *)
(* and rests and ends with a note.  The period and duty writes, which only *)
(* set the pitch, are one step with the write before them.                 *)
(***************************************************************************)

CONSTANT
  Notes   \* the notes of a melody

ASSUME BuzzerAssumption == Notes \in Nat \ {0}

VARIABLES
  asked,   \* pending_alert, or "none"
  buzzer_stop,
  player,    \* what piezo_thread does next
  pwm,       \* the fields of its PiezoPwm, and the entry of the melody
  hardware,  \* the channel exported and enabled, the pin routed to it
  playing,   \* the alert being played, or "none"
  uncleaned  \* history: a call of pwm_stop() failed, or the process died while playing

buzzerVars == <<asked, buzzer_stop, player, pwm, hardware, playing, uncleaned>>

Alerts == {"engage", "unable"}   \* two that differ are enough
Silent == [exported |-> FALSE, enabled |-> FALSE, routed |-> FALSE]
NoPwm == [requested |-> FALSE, exported |-> FALSE, enabled |-> FALSE, routed |-> FALSE,
          original |-> FALSE, entry |-> 1]
Entries == 1 .. 2 * Notes - 1
IsRest(entry) == entry % 2 = 0

BuzzerTypeOK ==
  /\ {asked, playing} \subseteq Alerts \cup {"none"}
  /\ buzzer_stop \in BOOLEAN /\ uncleaned \in BOOLEAN
  /\ player \in {"wait", "entry", "export", "find", "configure", "route", "start", "sleep",
                 "retune", "disable", "unroute", "unexport", "returned"}
  /\ hardware \in [{"exported", "enabled", "routed"} -> BOOLEAN]
  /\ pwm \in [requested : BOOLEAN, exported : BOOLEAN, enabled : BOOLEAN, routed : BOOLEAN,
              original : BOOLEAN, entry : Entries \cup {2 * Notes}]

(* piezo_buzzer_create(): calloc and a new thread; the hardware is as it was left. *)
NewBuzzer ==
  /\ asked' = "none" /\ buzzer_stop' = FALSE /\ player' = "wait"
  /\ pwm' = NoPwm /\ playing' = "none"

BuzzerInit ==
  /\ asked = "none" /\ buzzer_stop = FALSE /\ player = "wait"
  /\ pwm = NoPwm /\ playing = "none"
  /\ hardware = Silent /\ uncleaned = FALSE

-----------------------------------------------------------------------------
(* The caller *)

(* piezo_buzzer_play() *)
Play(alert) ==
  /\ ~buzzer_stop /\ asked' = alert
  /\ UNCHANGED <<buzzer_stop, player, pwm, hardware, playing, uncleaned>>

(* piezo_buzzer_destroy() sets stop and joins. *)
StopBuzzer ==
  /\ ~buzzer_stop /\ buzzer_stop' = TRUE
  /\ UNCHANGED <<asked, player, pwm, hardware, playing, uncleaned>>

(* SIGKILL, or a crash of the process *)
BuzzerDies ==
  /\ NewBuzzer
  /\ uncleaned' = (uncleaned \/ playing # "none")
  /\ UNCHANGED hardware

-----------------------------------------------------------------------------
(* piezo_thread() *)

TakeRequest ==
  /\ player = "wait" /\ (buzzer_stop \/ asked # "none")
  /\ IF buzzer_stop
     THEN player' = "returned" /\ UNCHANGED <<asked, playing, pwm>>
     ELSE /\ asked' = "none" /\ playing' = asked
          /\ player' = "entry" /\ pwm' = NoPwm
  /\ UNCHANGED <<buzzer_stop, hardware, uncleaned>>

At(from, to) == player = from /\ player' = to
Local == UNCHANGED <<asked, buzzer_stop, playing>>

(* The next entry of the melody: a rest that has to silence the channel, a *)
(* first note, or a note after a rest; the end stops the channel.          *)
NextEntry ==
  /\ player = "entry"
  /\ player' = IF pwm.entry \notin Entries THEN "disable"
               ELSE IF IsRest(pwm.entry) THEN IF pwm.enabled THEN "retune" ELSE "sleep"
               ELSE IF pwm.exported THEN "retune" ELSE "export"
  /\ Local /\ UNCHANGED <<pwm, hardware, uncleaned>>

Slept ==
  /\ At("sleep", "entry") /\ pwm' = [pwm EXCEPT !.entry = @ + 1]
  /\ Local /\ UNCHANGED <<hardware, uncleaned>>

(* pwm_start() refuses a channel that is exported already. *)
Export ==
  /\ \/ At("export", "find") /\ ~hardware.exported
        /\ hardware' = [hardware EXCEPT !.exported = TRUE] /\ pwm' = [pwm EXCEPT !.requested = TRUE]
     \/ At("export", "disable") /\ UNCHANGED <<hardware, pwm>>   \* exported, or the write failed
  /\ Local /\ UNCHANGED uncleaned

(* The directory of the channel appears, or not within 200 ms. *)
FindChannel ==
  /\ \/ At("find", "configure") /\ pwm' = [pwm EXCEPT !.exported = TRUE]
     \/ At("find", "disable") /\ UNCHANGED pwm
  /\ Local /\ UNCHANGED <<hardware, uncleaned>>

(* enable = 0, the period and the duty cycle *)
Configure ==
  /\ \/ At("configure", "route") /\ hardware' = [hardware EXCEPT !.enabled = FALSE]
     \/ At("configure", "disable") /\ UNCHANGED hardware
  /\ Local /\ UNCHANGED <<pwm, uncleaned>>

(* iomux_select(): when the read back of a devmem write fails the route has *)
(* changed, and nothing remembers to restore it.                           *)
Route ==
  /\ \/ At("route", "start")
        /\ hardware' = [hardware EXCEPT !.routed = TRUE]
        /\ pwm' = [pwm EXCEPT !.routed = TRUE, !.original = hardware.routed]
     \/ At("route", "disable") /\ UNCHANGED pwm
        /\ hardware' \in {hardware, [hardware EXCEPT !.routed = TRUE]}
  /\ Local /\ UNCHANGED uncleaned

StartToneUncleaned ==
  /\ \/ At("start", "sleep")
        /\ hardware' = [hardware EXCEPT !.enabled = TRUE] /\ pwm' = [pwm EXCEPT !.enabled = TRUE]
     \/ At("start", "wait") /\ playing' = "none" /\ UNCHANGED <<hardware, pwm>>
  /\ UNCHANGED <<asked, buzzer_stop, uncleaned>> /\ (player' # "wait" => UNCHANGED playing)

StartTone ==
  /\ \/ At("start", "sleep")
        /\ hardware' = [hardware EXCEPT !.enabled = TRUE] /\ pwm' = [pwm EXCEPT !.enabled = TRUE]
     \/ At("start", "disable") /\ UNCHANGED <<hardware, pwm>>
  /\ Local /\ UNCHANGED uncleaned

(* pwm_set_enabled(0) for a rest; pwm_set_frequency() and                  *)
(* pwm_set_enabled(1) for a note.                                          *)
Retune ==
  /\ \/ At("retune", "sleep")
        /\ hardware' = [hardware EXCEPT !.enabled = ~IsRest(pwm.entry)]
        /\ pwm' = [pwm EXCEPT !.enabled = ~IsRest(pwm.entry)]
     \/ At("retune", "disable") /\ UNCHANGED <<hardware, pwm>>
  /\ Local /\ UNCHANGED uncleaned

(* pwm_stop(): its three writes, each skipped when it has nothing to undo; *)
(* a failure is ignored.                                                   *)
Undo(from, to, needed, field, value) ==
  /\ At(from, to)
  /\ \/ hardware' = [hardware EXCEPT ![field] = value] /\ needed /\ UNCHANGED uncleaned
     \/ needed /\ uncleaned' = TRUE /\ UNCHANGED hardware
     \/ ~needed /\ UNCHANGED <<hardware, uncleaned>>

Disable == Undo("disable", "unroute", pwm.exported, "enabled", FALSE) /\ Local /\ UNCHANGED pwm
Unroute == Undo("unroute", "unexport", pwm.routed, "routed", pwm.original) /\ Local /\ UNCHANGED pwm
Unexport ==
  /\ Undo("unexport", "wait", pwm.requested, "exported", FALSE)
  /\ pwm' = NoPwm /\ playing' = "none"
  /\ UNCHANGED <<asked, buzzer_stop>>

PlayerStep ==
  \/ TakeRequest \/ NextEntry \/ Slept \/ Export \/ FindChannel \/ Configure \/ Route
  \/ StartTone \/ Retune \/ Disable \/ Unroute \/ Unexport

AnyPlay == \E alert \in Alerts : Play(alert)

BuzzerNext == AnyPlay \/ StopBuzzer \/ BuzzerDies \/ PlayerStep

BuzzerSpec == BuzzerInit /\ [][BuzzerNext]_buzzerVars

-----------------------------------------------------------------------------

(* While the thread waits no tone sounds and the channel is given back,    *)
(* whichever write of the melody failed: only a failure of the undoing     *)
(* itself, or a death in mid-melody, can leave the buzzer on.              *)
QuietWhenIdle ==
  player \in {"wait", "returned"} /\ ~uncleaned => ~hardware.exported /\ ~hardware.enabled

(* The inductive invariant: what the hardware does the thread has noted in  *)
(* its PiezoPwm, a channel is silenced before it is given back, and a sleep *)
(* follows an entry of the melody.                                          *)
BuzzerInv ==
  /\ BuzzerTypeOK
  /\ playing = "none" <=> player \in {"wait", "returned"}
  /\ pwm.enabled \/ player \in {"configure", "route", "start", "retune"} => pwm.exported
  /\ player \in {"export", "find", "configure", "route", "start", "sleep", "retune"}
       => pwm.entry \in Entries
  /\ ~uncleaned =>
       /\ hardware.exported => pwm.requested /\ player \notin {"wait", "returned"}
       /\ hardware.enabled => pwm.exported
                              /\ player \notin {"unroute", "unexport", "wait", "returned"}

-----------------------------------------------------------------------------
(***************************************************************************)
(* DisplayBacklight (display_control.py): one pin lights the panel.  Off   *)
(* and full brightness drive it as a GPIO line, what is between as a PWM   *)
(* channel, and apply() moves the pin from one to the other by calls that  *)
(* may each fail and raise; what was done before the failure stays done.   *)
(*                                                                         *)
(* One step per call; the lock keeps the applies apart.  A process of its  *)
(* own may have left the channel exported and running before.              *)
(***************************************************************************)

CONSTANT Brightness   \* the brightnesses between off and full

ASSUME BrightnessAssumption ==
  Brightness # {} /\ Brightness \cap {"off", "full", "none"} = {}

VARIABLES
  bl_mode,   \* _mode
  bl_line,   \* _gpio_fd: the value the line drives, or "closed"
  bl_mux,    \* the function of the pin: "gpio" or "pwm"
  channel,   \* the PWM channel: exported, enabled, duty (a brightness, or "none")
  apply,     \* apply(): what it does next and for which brightness
  bl_failed  \* history: an earlier apply() raised

backlightVars == <<bl_mode, bl_line, bl_mux, channel, apply, bl_failed>>

Targets == {"off", "full"} \cup Brightness

BacklightTypeOK ==
  /\ bl_mode \in {"unknown", "gpio", "pwm"} /\ bl_mux \in {"gpio", "pwm"}
  /\ bl_line \in {"closed", "off", "full"}
  /\ channel \in [exported : BOOLEAN, enabled : BOOLEAN, duty : Brightness \cup {"none"}]
  /\ apply \in [at : {"idle", "disable", "close", "mux", "line", "write", "export", "configure",
                     "enable", "duty"},
               target : Targets \cup {"none"}, result : {"none", "done", "raised"}]

Idle(target, result) == [at |-> "idle", target |-> target, result |-> result]

BacklightInit ==
  /\ bl_mode = "unknown" /\ bl_line = "closed" /\ bl_mux \in {"gpio", "pwm"}
  /\ channel \in {[exported |-> FALSE, enabled |-> FALSE, duty |-> "none"],
                  [exported |-> TRUE, enabled |-> TRUE, duty |-> CHOOSE b \in Brightness : TRUE]}
  /\ apply = Idle("none", "none") /\ bl_failed = FALSE

(* apply() and the first test of _set_gpio() or _set_pwm()                 *)
Apply(target) ==
  /\ apply.at = "idle"
  /\ apply' = [at |-> CASE target \in {"off", "full"} -> "disable"
                        [] target \in Brightness /\ bl_mode = "pwm" /\ channel.exported -> "duty"
                        [] OTHER -> "close",
               target |-> target, result |-> "none"]
  /\ UNCHANGED <<bl_mode, bl_line, bl_mux, channel, bl_failed>>

Continue(from, to) == apply.at = from /\ apply' = [apply EXCEPT !.at = to]
Finish(from) == apply.at = from /\ apply' = Idle(apply.target, "done")
Driven == apply.target \in {"off", "full"}

(* A call raises. *)
Raise ==
  /\ apply.at \in {"disable", "mux", "line", "write", "export", "configure", "enable", "duty"}
  /\ apply' = Idle(apply.target, "raised") /\ bl_failed' = TRUE
  /\ \/ UNCHANGED channel
     \/ apply.at = "configure" /\ channel' = [channel EXCEPT !.enabled = FALSE]
     \/ apply.at = "configure" /\ channel' = [channel EXCEPT !.enabled = FALSE, !.duty = "none"]
  /\ UNCHANGED <<bl_mode, bl_line, bl_mux>>

(* _disable_pwm(), then a line still held is written, otherwise requested. *)
DisablePwm ==
  /\ Continue("disable", IF bl_mode = "gpio" /\ bl_line # "closed" THEN "write" ELSE "close")
  /\ channel' = [channel EXCEPT !.enabled = FALSE]
  /\ UNCHANGED <<bl_mode, bl_line, bl_mux, bl_failed>>

CloseLine ==
  /\ Continue("close", "mux") /\ bl_line' = "closed"
  /\ UNCHANGED <<bl_mode, bl_mux, channel, bl_failed>>

SetMux ==
  /\ Continue("mux", IF Driven THEN "line" ELSE IF channel.exported THEN "configure" ELSE "export")
  /\ bl_mux' = IF Driven THEN "gpio" ELSE "pwm"
  /\ UNCHANGED <<bl_mode, bl_line, channel, bl_failed>>

DriveLine ==
  /\ Finish("line") \/ Finish("write")
  /\ bl_line' = apply.target /\ bl_mode' = "gpio"
  /\ UNCHANGED <<bl_mux, channel, bl_failed>>

(* _export_pwm(): the channel may appear after the calls that wait for it raised. *)
ExportPwm ==
  /\ \/ Continue("export", "configure") /\ UNCHANGED bl_failed
     \/ apply.at = "export" /\ apply' = Idle(apply.target, "raised") /\ bl_failed' = TRUE
  /\ channel' = [channel EXCEPT !.exported = TRUE]
  /\ UNCHANGED <<bl_mode, bl_line, bl_mux>>

(* Disabled, then the duty cycle, the period and the polarity.             *)
ConfigurePwm ==
  /\ Continue("configure", "enable")
  /\ channel' = [channel EXCEPT !.enabled = FALSE, !.duty = apply.target]
  /\ UNCHANGED <<bl_mode, bl_line, bl_mux, bl_failed>>

EnablePwm ==
  /\ Finish("enable")
  /\ channel' = [channel EXCEPT !.enabled = TRUE] /\ bl_mode' = "pwm"
  /\ UNCHANGED <<bl_line, bl_mux, bl_failed>>

(* The channel is in use already: only its duty cycle changes.             *)
WriteDuty ==
  /\ Finish("duty")
  /\ channel' = [channel EXCEPT !.duty = apply.target]
  /\ UNCHANGED <<bl_mode, bl_line, bl_mux, bl_failed>>

AnyApply == \E target \in Targets : Apply(target)

ApplyStep ==
  \/ Raise \/ DisablePwm \/ CloseLine \/ SetMux \/ DriveLine
  \/ ExportPwm \/ ConfigurePwm \/ EnablePwm \/ WriteDuty

BacklightNext == AnyApply \/ ApplyStep

BacklightSpec == BacklightInit /\ [][BacklightNext]_backlightVars

-----------------------------------------------------------------------------

(* What the panel shows. *)
Shown ==
  CASE bl_mux = "gpio" -> IF bl_line = "closed" THEN "floating" ELSE bl_line
    [] bl_mux = "pwm" -> IF channel.exported /\ channel.enabled THEN channel.duty ELSE "dark"

Applied == apply.result = "done"

(* When apply() returns, the panel shows the brightness it was given, as   *)
(* long as no apply() has raised before; and a GPIO level is shown, with   *)
(* the channel quiet behind it, whatever has raised before.                *)
AppliedIsShownUntilAFailure ==
  Applied => \/ Shown = apply.target /\ (Driven => ~channel.enabled)
             \/ bl_failed /\ ~Driven

(* The inductive invariant: a line is held only where the pin is a line's,  *)
(* a level is driven with the channel disabled, and a controller that took  *)
(* the channel for its own left it running, as long as no call has raised.  *)
BacklightInv ==
  /\ BacklightTypeOK /\ AppliedIsShownUntilAFailure
  /\ bl_line # "closed" => bl_mux = "gpio" /\ apply.at \notin {"mux", "line"}
  /\ bl_mode = "pwm" => channel.exported
  /\ apply.result = "done" => apply.at = "idle"
  /\ apply.at \in {"disable", "line", "write"} => Driven
  /\ apply.at \in {"export", "configure", "enable", "duty"} => apply.target \in Brightness
  /\ apply.at # "idle" => apply.target # "none"
  /\ apply.at \in {"close", "mux", "line", "write"} /\ Driven => ~channel.enabled
  /\ apply.at \in {"line", "write"} => bl_mux = "gpio"
  /\ apply.at \in {"export", "configure", "enable"} => bl_mux = "pwm"
  /\ apply.at \in {"configure", "enable"} => channel.exported
  /\ apply.at = "enable" => channel.duty = apply.target
  /\ apply.at = "duty" => bl_mode = "pwm"
  /\ apply.at \in {"idle", "disable", "duty"} /\ bl_mode = "pwm" /\ ~bl_failed
       => bl_mux = "pwm" /\ channel.enabled
=============================================================================
