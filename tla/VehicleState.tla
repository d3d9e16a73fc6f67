---------------------------- MODULE VehicleState ----------------------------
(***************************************************************************)
(* VehicleCanState (vehicle_can.cc): what controlsd knows of the car, one  *)
(* CAN message at a time.  The K7 does not report its cruise control, so   *)
(* its state is estimated from the buttons in CLU11 and the brake in TCS13 *)
(* (update_fixed_cruise_estimate); SCC12, once heard, replaces it.  What   *)
(* the other messages tell is in VehicleMessages.                          *)
(*                                                                         *)
(* `car` is the car as its driver moves it: a message holds what it is at  *)
(* the time, and `news` are the messages that would tell something new.    *)
(* Speeds are in display steps, 1 being the slowest that can be set.       *)
(***************************************************************************)
EXTENDS Naturals

CONSTANT TopSpeed   \* bound on the set speed and its estimate

ASSUME VehicleAssumption == TopSpeed \in Nat \ {0}

VARIABLES
  car,      \* the car: its cruise control, the brake and the buttons
  news,     \* the messages that would tell a change
  misheard, \* history: button and brake moved while the other was not told yet
  vehicle   \* VehicleCanState

vehicleVars == <<car, news, misheard, vehicle>>

Buttons == {"set", "resume", "cancel"}
Sources == {"own", "other", "echo"}   \* the bus of a message, another, sent by ourselves
Slower(speed) == IF speed > 1 THEN speed - 1 ELSE 1

VehicleInit ==
  /\ car = [on |-> FALSE, set |-> 0, speed |-> 1, brake |-> FALSE, button |-> "none",
            main |-> FALSE]
  /\ news = {} /\ misheard = FALSE
  /\ vehicle = [button |-> "none", main |-> FALSE, brake |-> FALSE, active |-> FALSE, set |-> 0,
                scc |-> FALSE, cruise |-> FALSE]

-----------------------------------------------------------------------------
(* The driver and the car.  A position is held until a message told it, a  *)
(* press is too short to repeat, and the two switches are used in turn.    *)

(* The car after a press; braking, it takes only CANCEL. *)
Pressed(c, button) ==
  IF button = "cancel" THEN [c EXCEPT !.on = FALSE]
  ELSE IF c.brake THEN c
  ELSE [c EXCEPT !.on = TRUE,
                 !.set = IF button = "set" THEN IF c.on THEN Slower(c.set) ELSE c.speed
                         ELSE IF c.set = 0 THEN c.speed
                         ELSE IF c.on THEN c.set + 1 ELSE c.set]

PressButton ==
  /\ "clu" \notin news /\ car.button = "none" /\ ~car.main
  /\ \E button \in Buttons, speed \in 1 .. TopSpeed :
       /\ button = "resume" => car.set < TopSpeed /\ vehicle.set < TopSpeed
       /\ car' = Pressed([car EXCEPT !.speed = speed, !.button = button], button)
  /\ news' = news \cup {"clu", "scc"}
  /\ misheard' = (misheard \/ "tcs" \in news)
  /\ UNCHANGED vehicle

PressMain ==
  /\ "clu" \notin news /\ car.button = "none" /\ ~car.main
  /\ car' = [car EXCEPT !.main = TRUE, !.on = FALSE]
  /\ news' = news \cup {"clu", "scc"}
  /\ UNCHANGED <<misheard, vehicle>>

Release ==
  /\ "clu" \notin news /\ (car.button # "none" \/ car.main)
  /\ car' = [car EXCEPT !.button = "none", !.main = FALSE]
  /\ news' = news \cup {"clu"}
  /\ UNCHANGED <<misheard, vehicle>>

Brake ==
  /\ "tcs" \notin news
  /\ car' = [car EXCEPT !.brake = ~@, !.on = @ /\ car.brake]
  /\ news' = news \cup {"tcs", "scc"}
  /\ misheard' = (misheard \/ "clu" \in news)
  /\ UNCHANGED vehicle

-----------------------------------------------------------------------------
(* update_vehicle_can_state() *)

HeldButton(v, button) == button # "none"

(* A button counts when it goes down. *)
WentDown(v, button) == button # "none" /\ v.button = "none"

(* update_fixed_cruise_estimate() of a CLU11 *)
Estimated(v, button, main, speed) ==
  LET released == IF main /\ ~v.main THEN [v EXCEPT !.active = FALSE] ELSE v
      pressed == IF WentDown(v, button) THEN button ELSE "none"
      counted ==
        CASE pressed = "cancel" -> [released EXCEPT !.active = FALSE]
          [] pressed = "set" /\ ~v.brake ->
               [released EXCEPT !.active = TRUE,
                                !.set = IF released.active /\ v.set # 0 THEN Slower(v.set)
                                        ELSE speed]
          [] pressed = "resume" /\ ~v.brake ->
               [released EXCEPT !.active = TRUE,
                                !.set = IF v.set = 0 THEN speed
                                        ELSE IF released.active THEN v.set + 1 ELSE v.set]
          [] OTHER -> released
      kept == [counted EXCEPT !.button = button, !.main = main]
  IN  [kept EXCEPT !.cruise = IF v.scc THEN v.cruise ELSE kept.active]

(* TCS13 *)
BrakeTold(v, brake) ==
  [v EXCEPT !.brake = brake, !.active = @ /\ ~brake, !.cruise = @ /\ (v.scc \/ ~brake)]

(* SCC12 *)
SccTold(v, on) == [v EXCEPT !.scc = TRUE, !.cruise = on]

(* apply_can_batch() leaves out what Panda sends back, and                 *)
(* expected_openpilot_bus() what another bus carries under this address.   *)
Taken(source) == source = "own"

HearClu ==
  \/ /\ vehicle' = Estimated(vehicle, car.button, car.main, car.speed)
     /\ news' = news \ {"clu"}
     /\ UNCHANGED <<car, misheard>>
  \/ \E source \in Sources \ {"own"}, button \in Buttons :
       /\ vehicle' = IF Taken(source) THEN Estimated(vehicle, button, FALSE, car.speed) ELSE vehicle
       /\ UNCHANGED <<car, news, misheard>>

HearTcs ==
  /\ vehicle' = BrakeTold(vehicle, car.brake)
  /\ news' = news \ {"tcs"}
  /\ UNCHANGED <<car, misheard>>

HearScc ==
  /\ vehicle' = SccTold(vehicle, car.on)
  /\ news' = news \ {"scc"}
  /\ UNCHANGED <<car, misheard>>

-----------------------------------------------------------------------------

VehicleNext ==
  \/ PressButton \/ PressMain \/ Release \/ Brake
  \/ HearClu \/ HearTcs \/ HearScc

VehicleSpec == VehicleInit /\ [][VehicleNext]_vehicleVars

-----------------------------------------------------------------------------
(* Properties *)

(* Once the messages have told everything, the estimate is the cruise      *)
(* control of the car: it counts every press of the driver once and no     *)
(* frame of anybody else's.  Only a button and the brake that move within  *)
(* one period of their messages can be told in the wrong order.  A brake   *)
(* that was told always ends it, and what SCC12 tells is not overruled.    *)
CruiseIsKnown ==
  /\ {"clu", "tcs"} \cap news = {} /\ ~misheard =>
       vehicle.active = car.on /\ vehicle.set = car.set
  /\ vehicle.brake => ~vehicle.active
  /\ vehicle.scc /\ "scc" \notin news => vehicle.cruise = car.on

(* The inductive invariant: what controlsd knows and what the messages     *)
(* under way will tell make up what the car does.                          *)
Cars == [on : BOOLEAN, set : Nat, speed : 1 .. TopSpeed, brake : BOOLEAN,
         button : Buttons \cup {"none"}, main : BOOLEAN]
VehicleStates == [button : Buttons \cup {"none"}, main : BOOLEAN, brake : BOOLEAN,
                  active : BOOLEAN, set : Nat, scc : BOOLEAN, cruise : BOOLEAN]
VehicleTypeOK == car \in Cars /\ vehicle \in VehicleStates

(* What is left of a cruise control that was on. *)
StaysOn == vehicle.active /\ ~car.brake /\ ~(car.main /\ ~vehicle.main)

MessagesWillTell ==
  LET told == Estimated(vehicle, car.button, car.main, car.speed) IN
  /\ "clu" \notin news => vehicle.button = car.button /\ (vehicle.main <=> car.main)
  /\ "tcs" \notin news => (vehicle.brake <=> car.brake)
  /\ ~misheard /\ ("clu" \in news => "tcs" \in news) =>
       /\ vehicle.set = car.set /\ (car.on <=> StaysOn)
       /\ ~WentDown(vehicle, car.button)
  /\ ~misheard /\ "clu" \in news /\ "tcs" \notin news =>
       told.set = car.set /\ (told.active <=> car.on)

CruiseHolds == car.on => car.set > 0 /\ ~car.brake

VehicleInv == VehicleTypeOK /\ MessagesWillTell /\ CruiseHolds /\ CruiseIsKnown
=============================================================================
