---------------------------- MODULE Calibration ----------------------------
(***************************************************************************)
(* The camera calibration modeld keeps: OnlineCalibrator averages blocks   *)
(* of orientations seen from the model's pose (calibration_online.cc), and *)
(* CalibrationService decides which orientation the model's input and the  *)
(* overlay use, and keeps it in calibration.json across restarts           *)
(* (calibration_service.cc).                                               *)
(*                                                                         *)
(* An orientation is one angle on a grid: within -Limit .. Limit it is     *)
(* valid, and the sanity clip lets it one further, as kSanityMargin does.  *)
(* Averages are rounded down, so they stay between their terms.            *)
(***************************************************************************)
EXTENDS Integers, FiniteSetsExt

CONSTANTS
  Limit,                       \* the bounds of is_calibration_valid()
  MaxSpread,                   \* kMaxAllowedSpread
  BlockSize,                   \* kBlockSize
  InputsNeeded, InputsWanted,  \* kInputsNeeded, kInputsWanted
  SmoothCycles,                \* kSmoothCycles
  PersistInterval, PersistDelta,   \* kPersistInterval, kPersistDeltaRad
  MaxMove                      \* the most a pose adds to the orientation in use

ASSUME CalibrationAssumption ==
  /\ {Limit, BlockSize, InputsNeeded, SmoothCycles} \subseteq Nat \ {0}
  /\ {MaxSpread, PersistInterval, PersistDelta, MaxMove} \subseteq Nat
  /\ InputsWanted \in Nat /\ InputsWanted > InputsNeeded

Angles == -(Limit + 1) .. (Limit + 1)
Blocks == 0 .. InputsWanted - 1

(* The mode of a start: calibration_auto and manual_calibration. *)
Modes == {"auto", "manual", "stored"}
NoFile == [rpy |-> 0, spread |-> 0, blocks |-> 0]   \* valid_blocks of a file is never 0

VARIABLES
  mode,
  block_rpys, sample_idx, block_idx,   \* block_rpys_, sample_idx_, block_idx_
  old_rpy, old_weight,                 \* old_rpy_, old_rpy_weight_ in 1/SmoothCycles
  snapshot,                            \* snapshot_: rpy, spread, valid_blocks, status
  online_rpy,                          \* online_rpy_, which the model's input uses
  persisted, persist_age,              \* persisted_rpy_ with has_persisted_, age of last_persist_
  calibration_file                     \* calibration.json

calibrator == <<block_rpys, sample_idx, block_idx, old_rpy, old_weight, snapshot>>
calibrationVars == <<mode, calibrator, online_rpy, persisted, persist_age, calibration_file>>

Nothing == Limit + 2      \* ~has_persisted_

-----------------------------------------------------------------------------
(* OnlineCalibrator *)

IsValid(rpy) == rpy \in -Limit .. Limit

(* smooth_rpy() *)
Smoothed(old, weight, rpy) ==
  (weight * old + (SmoothCycles - weight) * rpy) \div SmoothCycles

SanityClip(rpy) == Min({Max({rpy, -(Limit + 1)}), Limit + 1})

StatusOf(rpy, valid_blocks) ==
  IF valid_blocks < InputsNeeded THEN "uncalibrated"
  ELSE IF IsValid(rpy) THEN "calibrated" ELSE "invalid"

(* A reset that trusts the orientation it starts over from. *)
ResetSnapshotAnyway(rpy, spread, valid_blocks) ==
  [rpy |-> rpy, spread |-> spread, valid_blocks |-> valid_blocks,
   status |-> IF valid_blocks >= InputsNeeded THEN "calibrated" ELSE "uncalibrated"]

(* snapshot_ after reset_to_rpy(), which has no "invalid". *)
ResetSnapshot(rpy, spread, valid_blocks) ==
  [rpy |-> rpy, spread |-> spread, valid_blocks |-> valid_blocks,
   status |-> IF StatusOf(rpy, valid_blocks) = "calibrated" THEN "calibrated"
              ELSE "uncalibrated"]

(* The sums of the blocks that are done, as the loop of update_status()     *)
(* adds them up.                                                           *)
SumsOf(blocks, done) ==
  LET sum[n \in 0 .. InputsWanted] ==
        IF n = 0 THEN 0 ELSE sum[n - 1] + (IF n - 1 \in done THEN blocks[n - 1] ELSE 0)
  IN  sum

(* The snapshot update_status() takes of blocks, before a reset: the mean  *)
(* of those that are done, which the one being filled is not.              *)
Averaged(blocks, valid_blocks, filling) ==
  LET done == 0 .. valid_blocks - 1 \ {filling}
      rpys == {blocks[b] : b \in done}
      mean == SumsOf(blocks, done)[valid_blocks] \div Cardinality(done)
  IN  IF done = {}
      THEN [rpy |-> snapshot.rpy, spread |-> 0, valid_blocks |-> valid_blocks,
            status |-> StatusOf(snapshot.rpy, valid_blocks)]
      ELSE [rpy |-> mean, spread |-> Max(rpys) - Min(rpys), valid_blocks |-> valid_blocks,
            status |-> StatusOf(mean, valid_blocks)]

(* The blocks of a calibrated camera disagree: it was moved. *)
Drifted(taken) == taken.status = "calibrated" /\ taken.spread > MaxSpread

(* update_status(): the blocks after a sample; a moved camera starts over  *)
(* from the block before the one being filled.                             *)
UpdateStatus(blocks, valid_blocks, samples, filling, weight) ==
  LET taken == Averaged(blocks, valid_blocks, filling)
      last == blocks[(filling + InputsWanted - 1) % InputsWanted]
  IN  IF Drifted(taken)
      THEN /\ block_rpys' = [b \in Blocks |-> last]
           /\ sample_idx' = 0 /\ block_idx' = 0
           /\ old_rpy' = taken.rpy /\ old_weight' = SmoothCycles
           /\ snapshot' = ResetSnapshot(last, 0, InputsNeeded)
      ELSE /\ block_rpys' = blocks /\ sample_idx' = samples /\ block_idx' = filling
           /\ old_rpy' = old_rpy /\ old_weight' = weight
           /\ snapshot' = taken

(* A sample that is used: it goes into the block being filled. *)
Accept(move, weight) ==
  LET new == SanityClip(Smoothed(old_rpy, weight, snapshot.rpy) + move)
      blocks == [block_rpys EXCEPT ![block_idx] =
                   (sample_idx * @ + (BlockSize - sample_idx) * new) \div BlockSize]
      samples == (sample_idx + 1) % BlockSize
  IN  IF samples # 0
      THEN UpdateStatus(blocks, snapshot.valid_blocks, samples, block_idx, weight)
      ELSE UpdateStatus(blocks,
                        Min({InputsWanted, Max({block_idx + 1, snapshot.valid_blocks})}),
                        0, (block_idx + 1) % InputsWanted, weight)

(* A sample that is not used costs the smoothing its cycle all the same. *)
Reject(weight) ==
  /\ old_weight' = weight
  /\ UNCHANGED <<block_rpys, sample_idx, block_idx, old_rpy, snapshot>>

(* The pose is of a car that drives fast and straight, and sure of itself  *)
(* once there is a calibration to lose.                                    *)
Usable(straight, certain) ==
  straight /\ (certain \/ snapshot.valid_blocks < InputsNeeded)

(* OnlineCalibrator::update() *)
Observe(straight, certain, move) ==
  LET weight == Max({0, old_weight - 1})
  IN  IF Usable(straight, certain) THEN Accept(move, weight) ELSE Reject(weight)

-----------------------------------------------------------------------------
(* CalibrationService *)

(* The wait and the difference a stored orientation is replaced after. *)
Outdated ==
  persisted # Nothing =>
    /\ persist_age >= PersistInterval
    /\ Max({persisted - online_rpy', online_rpy' - persisted}) >= PersistDelta

(* maybe_persist(): a block is complete and the camera calibrated. *)
PersistDue(straight, certain) ==
  /\ Usable(straight, certain) /\ sample_idx = BlockSize - 1
  /\ snapshot'.status = "calibrated" /\ Outdated

Save(rpy, taken) ==
  /\ calibration_file' = [rpy |-> rpy, spread |-> taken.spread, blocks |-> taken.valid_blocks]
  /\ persisted' = rpy /\ persist_age' = 0

(* update() of a frame with a pose.  save_stored_calibration() may fail    *)
(* (a full disk, a missing directory) and leaves the file as it was.       *)
Pose(straight, certain, move) ==
  /\ mode = "auto"
  /\ Observe(straight, certain, move)
  /\ online_rpy' = Smoothed(old_rpy', old_weight', snapshot'.rpy)
  /\ \/ PersistDue(straight, certain) /\ Save(online_rpy', snapshot')
     \/ UNCHANGED <<persisted, persist_age, calibration_file>>
  /\ UNCHANGED mode

PersistTick ==
  /\ mode = "auto" /\ persist_age < PersistInterval
  /\ persist_age' = persist_age + 1
  /\ UNCHANGED <<mode, calibrator, online_rpy, persisted, calibration_file>>

Cleared(rpy, spread, valid_blocks) ==
  /\ block_rpys' = [b \in Blocks |-> rpy]
  /\ sample_idx' = 0 /\ block_idx' = 0 /\ old_rpy' = 0 /\ old_weight' = 0
  /\ snapshot' = ResetSnapshot(rpy, spread, Min({valid_blocks, InputsWanted}))

(* The constructor, restoring rpy with its blocks when it is valid.        *)
Restored(rpy, spread, blocks) ==
  IF IsValid(rpy) THEN Cleared(rpy, spread, Max({InputsNeeded, blocks})) ELSE Cleared(0, 0, 0)

(* modeld starts (again): what the last one had in memory is gone.         *)
(* A manual orientation is stored unless the file holds it already.        *)
StartModeld(next_mode, manual) ==
  LET loaded == calibration_file # NoFile
      kept == persisted' = (IF loaded THEN calibration_file.rpy ELSE Nothing)
  IN  /\ mode' = next_mode
      /\ IF next_mode = "manual"
         THEN /\ Restored(manual, 0, 5)
              /\ online_rpy' = 0
              /\ \/ /\ IsValid(manual) /\ (loaded => calibration_file.rpy # manual)
                    /\ Save(manual, snapshot')
                 \/ kept /\ persist_age' = 0 /\ UNCHANGED calibration_file
         ELSE /\ IF loaded
                 THEN Restored(calibration_file.rpy, calibration_file.spread,
                               calibration_file.blocks)
                 ELSE Cleared(0, 0, 0)
              /\ persisted' = IF loaded /\ IsValid(calibration_file.rpy)
                              THEN calibration_file.rpy ELSE Nothing
              /\ persist_age' = 0
              /\ online_rpy' = IF next_mode = "auto" THEN snapshot'.rpy ELSE 0
              /\ UNCHANGED calibration_file

CalibrationInit ==
  /\ mode = "auto" /\ calibration_file = NoFile
  /\ block_rpys = [b \in Blocks |-> 0] /\ sample_idx = 0 /\ block_idx = 0
  /\ old_rpy = 0 /\ old_weight = 0
  /\ snapshot = ResetSnapshot(0, 0, 0)
  /\ online_rpy = 0 /\ persisted = Nothing /\ persist_age = 0

CalibrationNext ==
  \/ \E straight \in BOOLEAN, certain \in BOOLEAN, move \in -MaxMove .. MaxMove : Pose(straight, certain, move)
  \/ PersistTick
  \/ \E manual \in Angles : StartModeld("manual", manual)
  \/ \E next_mode \in Modes \ {"manual"} : StartModeld(next_mode, 0)

CalibrationSpec == CalibrationInit /\ [][CalibrationNext]_calibrationVars

-----------------------------------------------------------------------------
(* Properties *)

(* Every variable keeps its type. *)
CalibrationTypeOK ==
  /\ mode \in Modes
  /\ block_rpys \in [Blocks -> Angles]
  /\ sample_idx \in 0 .. BlockSize - 1 /\ block_idx \in Blocks
  /\ old_rpy \in Angles /\ old_weight \in 0 .. SmoothCycles
  /\ snapshot \in [rpy : Angles, spread : 0 .. 2 * Limit + 2, valid_blocks : 0 .. InputsWanted,
                   status : {"uncalibrated", "calibrated", "invalid"}]
  /\ online_rpy \in Angles
  /\ persisted \in Angles \cup {Nothing} /\ persist_age \in 0 .. PersistInterval
  /\ calibration_file \in [rpy : Angles, spread : 0 .. 2 * Limit + 2, blocks : 0 .. InputsWanted]

(* While the camera counts as calibrated, the orientation the model's      *)
(* input is turned by is one a mounted camera can have, also in the middle *)
(* of the move from an orientation given up to the one that replaces it.   *)
CalibratedInputIsValid ==
  mode = "auto" /\ snapshot.status = "calibrated" =>
    IsValid(online_rpy) /\ snapshot.spread <= MaxSpread

(* Whatever calibration.json holds, a restart takes it up as a calibrated  *)
(* camera: a calibration once reached is not lost to a restart, and none   *)
(* is stored that the next start would have to refuse.                     *)
StoredIsTakenUp ==
  calibration_file # NoFile =>
    /\ IsValid(calibration_file.rpy) /\ calibration_file.spread <= MaxSpread
    /\ calibration_file.blocks >= InputsNeeded

(* What keeps these: an orientation that is moved away from was valid, and *)
(* a calibrated snapshot is of enough blocks that agree.                   *)
CalibratedIsSound ==
  /\ old_weight > 0 => IsValid(old_rpy)
  /\ snapshot.status = "calibrated" =>
       /\ IsValid(snapshot.rpy) /\ snapshot.spread <= MaxSpread
       /\ snapshot.valid_blocks >= InputsNeeded

CalibrationInv ==
  /\ CalibrationTypeOK
  /\ CalibratedIsSound
  /\ CalibratedInputIsValid
  /\ StoredIsTakenUp

=============================================================================
