------------------------------ MODULE Devices -------------------------------
(***************************************************************************)
(* What keeps state across a broken link or a restart on the way from the  *)
(* sensors to the model: the USB bridge to the Panda, the online calibration *)
(* and its file, and the histories the model is fed with.                  *)
(*                                                                         *)
(* No two of these modules share a variable, so a behaviour of all of them *)
(* is one of each: the run chooses at its start which one moves.           *)
(***************************************************************************)
EXTENDS PandaBridge, Calibration, ModelHistory

VARIABLE focus   \* the component that moves in this behaviour

devicesVars == <<focus, bridgeVars, calibrationVars, historyVars>>

DevicesInit ==
  /\ focus \in {"bridge", "calibration", "history"}
  /\ BridgeInit /\ CalibrationInit /\ ModelInit

BridgeMoves ==
  /\ focus = "bridge" /\ BridgeNext
  /\ UNCHANGED <<focus, calibrationVars, historyVars>>
CalibrationMoves ==
  /\ focus = "calibration" /\ CalibrationNext
  /\ UNCHANGED <<focus, bridgeVars, historyVars>>
HistoryMoves ==
  /\ focus = "history" /\ ModelNext
  /\ UNCHANGED <<focus, bridgeVars, calibrationVars>>

DevicesNext ==
  \/ BridgeMoves
  \/ CalibrationMoves
  \/ HistoryMoves

(* The loop of pandad goes on, when it is the bridge that moves. *)
DevicesFairness ==
  /\ WF_bridgeVars(focus = "bridge" /\ Turn)

DevicesSpec == DevicesInit /\ [][DevicesNext]_devicesVars /\ DevicesFairness

-----------------------------------------------------------------------------

(* The inductive invariants of these modules, each of the one that moves.    *)
DevicesInv ==
  /\ focus = "bridge" => BridgeInv
  /\ focus = "calibration" => CalibrationInv
  /\ focus = "history" => ModelInv

(* The calibration in use is a valid one, and a stored one is taken up       *)
(* (Calibration).                                                           *)
CalibrationIsKept == CalibratedInputIsValid /\ StoredIsTakenUp

(* The histories hold what the runs of the model saw, and one request of the *)
(* planner is one pulse (ModelHistory).                                     *)
ModelIsFedRight == []HistoriesAgree /\ OnePulseAsk
=============================================================================
