-------------------------- MODULE VehicleMessages ---------------------------
(***************************************************************************)
(* What controlsd knows of the car beside its cruise control               *)
(* (vehicle_can.cc): every CAN message tells the part of the car that its  *)
(* ECU watches, some of it is derived from several messages, and all of it *)
(* is as old as the message it came with.  The controller may steer only   *)
(* while vehicle_state_fresh() and seed_frames_ready() hold.               *)
(*                                                                         *)
(* A condition is a Boolean fact of the car, such as an open door; the car *)
(* is the set of those that are true, and so is what was told of it.       *)
(***************************************************************************)
EXTENDS Naturals

CONSTANTS
  Changing,     \* the conditions that change in a behaviour
  Lossy,        \* the messages that may stay away; the others always come
  Timeout,      \* vehicle_state_timeout_ms
  FaultFrames   \* kMdpsToiUnavailableFaultFrames

(* decode_...(): the conditions in each message. *)
Tells ==
  [lkas11 |-> {}, clu11 |-> {"mph"}, sas11 |-> {"steering"},
   esp12 |-> {"turning", "yaw_invalid"}, whl_spd11 |-> {"moving"},
   mdps12 |-> {"driver_torque", "toi_unavailable", "toi_fault", "fail_state", "sensor_error"},
   scc11 |-> {"cruise_main", "radar_lead"},
   tcs13 |-> {"brake_light", "brake_error", "park_brake", "driver_override"},
   tcs15 |-> {"esp_disabled", "brake_hold"}, e_ems11 |-> {"gas_pressed"},
   elect_gear |-> {"not_in_drive"},
   cgw1 |-> {"driver_door", "passenger_door", "seatbelt_unlatched", "hazard"},
   cgw2 |-> {"rear_left_door", "rear_right_door"},
   lca11 |-> {"left_blindspot", "right_blindspot"}, tpms11 |-> {"tpms_warning"}]

Messages == DOMAIN Tells
Conditions == UNION {Tells[m] : m \in Messages}
Doors == Tells.cgw2 \cup {"driver_door", "passenger_door"}

Seeds == {"lkas11", "clu11", "mdps12"}   \* the frames controlsd builds on

(* Of the messages that tell something that changes, those that always      *)
(* come are ones controlsd waits for before it steers.                      *)
ASSUME MessagesAssumption ==
  /\ Changing \subseteq Conditions /\ Lossy \subseteq Messages
  /\ \A c \in Changing : \E m \in Lossy \cup Seeds : c \in Tells[m]
  /\ Timeout \in Nat \ {0} /\ FaultFrames \in Nat

VARIABLES
  body,      \* the car: the conditions that are true
  told,      \* VehicleCanState: those it was told of
  door_open, \* VehicleCanState: derived from two messages
  error_count, mdps_hard_fault, \* VehicleCanState: derived from MDPS12
  seeds,     \* the messages of which there is a frame to build on
  silence,   \* age of the last message, up to one past Timeout
  missed,    \* history: for how long a condition is told wrong since its message
  unavailable \* history: MDPS12 sent since the last with the motor available

messageVars == <<body, told, door_open, error_count, mdps_hard_fault, seeds, silence,
                 missed, unavailable>>

MessagesInit ==
  /\ body \in SUBSET Changing
  /\ told = {} /\ door_open = FALSE /\ error_count = 0 /\ mdps_hard_fault = FALSE
  /\ seeds = {}
  /\ silence = [m \in Lossy |-> Timeout + 1]
  /\ missed = [c \in Changing |-> Timeout + 1]
  /\ unavailable = 0

-----------------------------------------------------------------------------
(* The buses *)

(* expected_openpilot_bus(): powertrain 0, steering 1, camera 2 *)
Buses(m) ==
  CASE m = "lkas11" -> {2}
    [] m = "mdps12" -> {1}
    [] m = "sas11" -> {0, 1}
    [] OTHER -> {0}

(* The shortest frame a message is read from. *)
MinLength(m) ==
  CASE m \in {"clu11", "tcs15"} -> 4
    [] m = "sas11" -> 5
    [] m = "tpms11" -> 6
    [] OTHER -> 8

(* apply_can_batch() *)
WellFormed(frame) == ~frame.flags /\ frame.data_len <= 8 /\ frame.src <= 7

Accepted(frame) ==
  /\ WellFormed(frame)
  /\ frame.src \in Buses(frame.message)
  /\ frame.data_len >= MinLength(frame.message)

Count(n) == IF n > FaultFrames THEN n ELSE n + 1   \* no comparison tells more

(* update_vehicle_can_state() *)
Update(m, tells) ==
  /\ told' = (told \ Tells[m]) \cup tells
  /\ door_open' = IF m \in {"cgw1", "cgw2"} THEN told' \cap Doors # {} ELSE door_open
  /\ error_count' =
       IF m # "mdps12" THEN error_count
       ELSE IF "toi_unavailable" \in tells THEN Count(error_count) ELSE 0
  /\ mdps_hard_fault' =
       IF m # "mdps12" THEN mdps_hard_fault
       ELSE tells \cap {"toi_fault", "fail_state", "sensor_error"} # {}
  /\ seeds' = seeds \cup ({m} \cap Seeds)
  /\ silence' = [l \in Lossy |-> IF l = m THEN 0 ELSE silence[l]]

SteeringFault == error_count > FaultFrames

(* Its ECU sends a message, and controlsd reads it. *)
HearMessage ==
  \E m \in Messages :
    /\ m \in Lossy \/ Tells[m] \cap Changing # {} \/ m \in Seeds \ seeds
    /\ Update(m, body \cap Tells[m])
    /\ missed' = [c \in Changing |-> IF c \in Tells[m] THEN 0 ELSE missed[c]]
    /\ unavailable' = IF m # "mdps12" THEN unavailable
                      ELSE IF "toi_unavailable" \in body THEN Count(unavailable) ELSE 0
    /\ UNCHANGED body

(* A frame with the address of a message that is not it: what Panda echoes *)
(* (bit 7 of src), what another bus carries, or a frame that is cut short; *)
(* it tells the opposite of what the car is.                               *)
Strangers(m) ==
  LET own == [message |-> m, flags |-> FALSE, src |-> CHOOSE bus \in Buses(m) : TRUE,
              data_len |-> 8]
  IN  {[own EXCEPT !.flags = TRUE], [own EXCEPT !.data_len = MinLength(m) - 1]}
        \cup {[own EXCEPT !.src = bus] : bus \in ({0, 1, 2} \ Buses(m)) \cup {128}}

HearStranger ==
  \E m \in Lossy : \E frame \in Strangers(m) : LET tells == (Tells[m] \cap Changing) \ body IN
    /\ IF Accepted(frame) THEN Update(m, tells)
       ELSE UNCHANGED <<told, door_open, error_count, mdps_hard_fault, seeds, silence>>
    /\ UNCHANGED <<body, missed, unavailable>>

-----------------------------------------------------------------------------
(* The car *)

Change ==
  /\ \E c \in Changing : body' = (body \ {c}) \cup ({c} \ body)
  /\ UNCHANGED <<told, door_open, error_count, mdps_hard_fault, seeds, silence, missed, unavailable>>

TimePasses ==
  /\ \A c \in Changing : c \notin UNION {Tells[m] : m \in Lossy} => missed[c] = 0
  /\ silence' = [m \in Lossy |-> IF silence[m] <= Timeout THEN silence[m] + 1 ELSE silence[m]]
  /\ missed' = [c \in Changing |->
       IF (c \in told) = (c \in body) \/ missed[c] > Timeout THEN missed[c] ELSE missed[c] + 1]
  /\ UNCHANGED <<body, told, door_open, error_count, mdps_hard_fault, seeds, unavailable>>

MessagesNext == HearMessage \/ HearStranger \/ Change \/ TimePasses

MessagesSpec == MessagesInit /\ [][MessagesNext]_messageVars

-----------------------------------------------------------------------------
(* What the controller asks *)

Fresh(m) == m \in Lossy => silence[m] <= Timeout

(* vehicle_state_fresh() *)
VehicleStateFresh ==
  \A m \in {"lkas11", "clu11", "sas11", "mdps12", "tcs13", "tcs15", "e_ems11", "elect_gear",
            "cgw1", "cgw2", "whl_spd11"} : Fresh(m)

(* seed_frames_ready() *)
SeedFramesReady == Seeds \subseteq seeds

(* vehicle_speed_kph(): the wheel speed, or NaN. *)
SpeedIsKnown == Fresh("whl_spd11")

(* tpms_state_fresh(), the time limit of the display apart *)
TpmsStateFresh == Fresh("tpms11")

-----------------------------------------------------------------------------
(* Properties *)

(* Whatever is lost, late or sent by somebody else: while the controller   *)
(* may steer, no condition it stops for is told otherwise than the car had *)
(* it within the timeout; a door that is open is not closed again by the   *)
(* message about the other doors, a default never passes for what was     *)
(* told, and a wheel speed is the wheels'.  The motor is held to be        *)
(* unavailable only when it was so in more frames in a row than allowed.   *)
CarIsKnown ==
  /\ VehicleStateFresh /\ SeedFramesReady =>
       \A c \in Changing \ UNION {Tells[m] : m \in {"esp12", "scc11", "lca11", "tpms11"}} :
         (c \in told) # (c \in body) => missed[c] <= Timeout
  /\ SpeedIsKnown /\ "moving" \in Changing /\ ("moving" \in told) # ("moving" \in body) =>
       missed["moving"] <= Timeout
  /\ door_open <=> told \cap Doors # {}
  /\ SteeringFault => unavailable > FaultFrames

(* The inductive invariant: what is told wrong is told wrong for no longer *)
(* than its message is silent, and what always comes was told a moment     *)
(* ago; what is derived from several messages is what they last told.      *)
MessagesTypeOK ==
  /\ silence \in [Lossy -> 0 .. Timeout + 1] /\ missed \in [Changing -> 0 .. Timeout + 1]
  /\ error_count \in Nat

WrongIsYoung ==
  \A c \in Changing :
    /\ \A m \in Lossy : c \in Tells[m] => missed[c] <= silence[m]
    /\ c \notin UNION {Tells[m] : m \in Lossy} =>
         \A m \in seeds : c \in Tells[m] => missed[c] <= 1

DerivedAsTold ==
  /\ door_open <=> told \cap Doors # {}
  /\ unavailable = error_count

MessagesInv == MessagesTypeOK /\ WrongIsYoung /\ DerivedAsTold

-----------------------------------------------------------------------------
(***************************************************************************)
(* The indicators as controlsd knows them (vehicle_can.cc, CGW1): CGW1     *)
(* tells the lamps, which blink, at a pace of its own; a hold makes them   *)
(* one signal again.  One of the two sides, and the relay of the car that  *)
(* makes its lamp blink while the lever is on.                             *)
(***************************************************************************)

CONSTANTS
  BlinkerHold,  \* kBlinkerHoldSeconds
  FlashTime,    \* for which an indicator lamp stays lit, and then dark
  CgwPeriod     \* longest time between two CGW1

ASSUME IndicatorAssumption ==
  /\ {FlashTime, CgwPeriod} \subseteq Nat \ {0}
  /\ BlinkerHold \in Nat /\ BlinkerHold > FlashTime + CgwPeriod
  /\ FlashTime > CgwPeriod

VARIABLES
  indicator, \* VehicleCanState: how long the hold still lasts, and left_blinker
  lamp       \* the car: lever and lamp; ages of its phase, of the last CGW1 and of
             \* the lever's last off; and whether CGW1 told a lit lamp since it is on

indicatorVars == <<indicator, lamp>>

IndicatorInit ==
  /\ indicator = [hold |-> 0, blinker |-> FALSE]
  /\ lamp = [lever |-> FALSE, lit |-> FALSE, phase |-> 0, heard |-> 0, told |-> FALSE,
             off |-> BlinkerHold + CgwPeriod]

-----------------------------------------------------------------------------

(* The lamp in CGW1. *)
LampTold(v, lit) ==
  LET hold == IF lit THEN BlinkerHold ELSE v.hold
  IN  [v EXCEPT !.hold = hold, !.blinker = hold > 0]

HearCgw ==
  /\ indicator' = LampTold(indicator, lamp.lit)
  /\ lamp' = [lamp EXCEPT !.heard = 0, !.told = @ \/ (lamp.lever /\ lamp.lit)]

-----------------------------------------------------------------------------
(* The indicator: with the lever on, the lamp blinks. *)

MoveLever ==
  /\ lamp' = [lamp EXCEPT !.lever = ~@, !.lit = ~lamp.lever, !.phase = 0, !.told = FALSE, !.off = 0]
  /\ UNCHANGED indicator

Flash ==
  /\ lamp.lever /\ lamp.phase = FlashTime
  /\ lamp' = [lamp EXCEPT !.lit = ~@, !.phase = 0]
  /\ UNCHANGED indicator

Sooner(time) == IF time = 0 THEN 0 ELSE time - 1

IndicatorElapse ==
  /\ lamp.heard < CgwPeriod
  /\ lamp.lever => lamp.phase < FlashTime
  /\ lamp' = [lamp EXCEPT !.heard = @ + 1, !.phase = IF lamp.lever THEN @ + 1 ELSE 0,
                          !.off = IF lamp.lever \/ @ = BlinkerHold + CgwPeriod THEN @ ELSE @ + 1]
  /\ indicator' = [indicator EXCEPT !.hold = Sooner(@)]

IndicatorNext == HearCgw \/ MoveLever \/ Flash \/ IndicatorElapse
IndicatorSpec == IndicatorInit /\ [][IndicatorNext]_indicatorVars

-----------------------------------------------------------------------------

(* From the first lit lamp it is told of, controlsd sees the indicator on  *)
(* without a gap as long as the lever is, and off soon after.              *)
BlinkerIsSteady ==
  /\ lamp.told => indicator.blinker
  /\ ~lamp.lever /\ lamp.off = BlinkerHold + CgwPeriod => ~indicator.blinker

(* The inductive invariant: the hold bridges the dark phases of the lamp,  *)
(* and nothing renews it once the lever is off.                            *)
IndicatorTypeOK ==
  /\ indicator \in [hold : 0 .. BlinkerHold, blinker : BOOLEAN]
  /\ lamp \in [lever : BOOLEAN, lit : BOOLEAN, phase : 0 .. FlashTime, heard : 0 .. CgwPeriod,
               told : BOOLEAN, off : 0 .. BlinkerHold + CgwPeriod]

HoldBridges ==
  /\ lamp.told => lamp.lever
  /\ lamp.told /\ lamp.lit /\ lamp.heard < lamp.phase => indicator.hold + lamp.heard >= BlinkerHold
  /\ lamp.told /\ ~lamp.lit => indicator.hold + lamp.phase + CgwPeriod >= BlinkerHold
  /\ ~lamp.lever => /\ ~lamp.lit
                    /\ indicator.hold = 0 \/ indicator.hold + lamp.off <= BlinkerHold
                    /\ indicator.blinker => lamp.off < BlinkerHold + lamp.heard

IndicatorInv == IndicatorTypeOK /\ HoldBridges /\ BlinkerIsSteady
=============================================================================
