------------------------------ MODULE Storage -------------------------------
(***************************************************************************)
(* What is written to the SD card and read back: the switch of recording,  *)
(* its encoder, the recorder with its worker and mover, the files of a     *)
(* session, and the torque learner's cache.                                *)
(*                                                                         *)
(* No two of these modules share a variable, so a behaviour of all of them *)
(* is one of each: the run chooses at its start which one moves.           *)
(***************************************************************************)
EXTENDS Recording, RecordSwitch, RecordLog, TorqueCache

VARIABLE focus   \* the component that moves in this behaviour

storageVars == <<focus, recVars, switchVars, logVars, cacheVars>>

StorageInit ==
  /\ focus \in {"recording", "switch", "record_log", "torque_cache"}
  /\ RecInit /\ SwitchInit /\ LogInit /\ CacheInit
  /\ focus # "torque_cache" => torque = Fresh(CHOOSE f \in Factors : TRUE)

RecordingMoves ==
  /\ focus = "recording" /\ RecNext
  /\ UNCHANGED <<focus, switchVars, logVars, cacheVars>>
SwitchMoves ==
  /\ focus = "switch" /\ SwitchNext
  /\ UNCHANGED <<focus, recVars, logVars, cacheVars>>
LogMoves ==
  /\ focus = "record_log" /\ LogNext
  /\ UNCHANGED <<focus, recVars, switchVars, cacheVars>>
CacheMoves ==
  /\ focus = "torque_cache" /\ CacheNext
  /\ UNCHANGED <<focus, recVars, switchVars, logVars>>

StorageNext ==
  \/ RecordingMoves
  \/ SwitchMoves
  \/ LogMoves
  \/ CacheMoves

(* The recorder's two threads run, and the main thread waits for them. *)
StorageFairness ==
  /\ WF_recVars(focus = "recording" /\ Work)
  /\ WF_recVars(focus = "recording" /\ Move)
  /\ WF_recVars(focus = "recording" /\ WorkerJoined)
  /\ WF_recVars(focus = "recording" /\ MoverJoined)

StorageSpec == StorageInit /\ [][StorageNext]_storageVars /\ StorageFairness

-----------------------------------------------------------------------------

(* The inductive invariant: no two of the modules share a variable, so it  *)
(* is that of recordings (Recording), of the switch (RecordSwitch) and of   *)
(* the factor that is stored (TorqueCache).                                *)
StorageInv == RecInv /\ SwitchInv /\ CacheInv

(* Files once closed survive, a route holds one session, and close() saves   *)
(* what was recorded (Recording); a session has its own pictures, from a key *)
(* picture to its end (RecordSwitch).                                      *)
RecordingsAreSaved ==
  ClosedFilesSurvive /\ RoutesHoldTheirSession /\ StopSavesClosed /\ SwitchIsRight

(* What is read back: a damaged file costs its own contents only (RecordLog), *)
(* no file of other parameters makes the factor that steers insane, and a   *)
(* restart has the points of the last file (TorqueCache).                   *)
FilesAreReadBack ==
  [](DamageStaysInItsFile /\ FactorIsSane) /\ RestartKeepsPoints
=============================================================================
