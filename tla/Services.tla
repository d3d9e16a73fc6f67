------------------------------ MODULE Services ------------------------------
(***************************************************************************)
(* The queues, files, children and devices around the control loop, each   *)
(* with its threads and processes in every order: the CAN queue between    *)
(* pandad and controlsd, the parameter files between the editor and        *)
(* controlsd, the learners' files, the buzzer, the backlight and the       *)
(* manager.                                                                *)
(*                                                                         *)
(* No two of these modules share a variable, so a behaviour of all of them *)
(* is one of each: the run chooses at its start which one moves.           *)
(***************************************************************************)
EXTENDS CanQueue, RuntimeParams, LearnerStore, OutputDevices,
  Manager

VARIABLE focus   \* the component that moves in this behaviour

servicesVars == <<focus, vars, paramVars, storeVars, buzzerVars,
  backlightVars, managerVars>>

ServicesInit ==
  /\ focus \in {"can_queue", "runtime_params", "learner_store", "buzzer",
                "backlight", "manager"}
  /\ Init /\ ParamInit /\ StoreInit /\ BuzzerInit /\ BacklightInit
  /\ ManagerInit
  /\ focus # "backlight" => bl_mux = "gpio" /\ ~channel.exported

QueueMoves ==
  /\ focus = "can_queue" /\ Next
  /\ UNCHANGED <<focus, paramVars, storeVars, buzzerVars, backlightVars,
                 managerVars>>
ParamsMove ==
  /\ focus = "runtime_params" /\ ParamNext
  /\ UNCHANGED <<focus, vars, storeVars, buzzerVars, backlightVars,
                 managerVars>>
StoreMoves ==
  /\ focus = "learner_store" /\ StoreNext
  /\ UNCHANGED <<focus, vars, paramVars, buzzerVars, backlightVars,
                 managerVars>>
BuzzerMoves ==
  /\ focus = "buzzer" /\ BuzzerNext
  /\ UNCHANGED <<focus, vars, paramVars, storeVars, backlightVars,
                 managerVars>>
BacklightMoves ==
  /\ focus = "backlight" /\ BacklightNext
  /\ UNCHANGED <<focus, vars, paramVars, storeVars, buzzerVars,
                 managerVars>>
ManagerMoves ==
  /\ focus = "manager" /\ ManagerNext
  /\ UNCHANGED <<focus, vars, paramVars, storeVars, buzzerVars,
                 backlightVars>>

ServicesNext ==
  \/ QueueMoves
  \/ ParamsMove
  \/ StoreMoves
  \/ BuzzerMoves
  \/ BacklightMoves
  \/ ManagerMoves

(* The fairness of each module, for the behaviours in which it moves. *)
ServicesFairness ==
  /\ WF_vars(focus = "can_queue" /\ (PushReject \/ PushAdmit \/ PushFillLo \/ PushFillHi \/ PushCommit))
  /\ WF_vars(focus = "can_queue" /\ Pop)
  /\ WF_paramVars(focus = "runtime_params" /\ Notify)
  /\ WF_paramVars(focus = "runtime_params" /\ Startup)
  /\ WF_paramVars(focus = "runtime_params" /\ ReadSome)
  /\ WF_paramVars(focus = "runtime_params" /\ ControlTick)
  /\ WF_paramVars(focus = "runtime_params" /\ WorkerRuns)
  /\ WF_storeVars(focus = "learner_store" /\ StoreThread)
  /\ WF_storeVars(focus = "learner_store" /\ Joined)
  /\ WF_managerVars(focus = "manager" /\ RunStep)
  /\ WF_managerVars(focus = "manager" /\ TimePasses)

ServicesSpec == ServicesInit /\ [][ServicesNext]_servicesVars /\ ServicesFairness

-----------------------------------------------------------------------------

(* The inductive invariants of these modules.                               *)
ServicesInv ==
  QueueInv /\ PlannerInv /\ StoreInv /\ BuzzerInv /\ BacklightInv /\ ManagerInv

(* Neither the buzzer nor the backlight is left in a state nobody asked     *)
(* for: QuietWhenIdle of piezo_buzzer.c and AppliedIsShownUntilAFailure of  *)
(* display_control.py.                                                      *)
DevicesAreAsAsked == QuietWhenIdle /\ AppliedIsShownUntilAFailure

(* What stops takes its work with it: the learner files are written before   *)
(* stop() of their store returns (LearnerStore), and no child outlives       *)
(* the manager (Manager).                                                   *)
NothingIsLeftBehind == StopFinishesWrites /\ NoChildOutlivesManager

(* Every saved parameter file ends up in use (SavesTakeEffect of             *)
(* RuntimeParams), when it is the parameters that move.                      *)
SavesAreTaken == focus = "runtime_params" => SavesTakeEffect
=============================================================================
