--------------------------- MODULE ServicesProofs --------------------------
(***************************************************************************)
(* Proofs about the services around the control loop, for every value of   *)
(* the constants: one section for each component of Services but the CAN   *)
(* queue, whose proofs are in CanQueueProofs, then the composed module.    *)
(***************************************************************************)
EXTENDS Services, CanQueueProofs

-----------------------------------------------------------------------------
(* The parameters of the planner                                           *)

LEMMA PlannerStarts ==
  ASSUME NEW params \in Nat, PlannerReset(params), generation' = params
  PROVE  PlannerInv'
BY DEF PlannerReset, PlannerInv, PlansWithItsParams, Nothing

LEMMA ParamInitially == ParamInit => PlannerInv
BY DEF ParamInit, PlannerInit, PlannerInv, PlansWithItsParams, Nothing

LEMMA WorkerKeeps ==
  ASSUME PlannerInv, WorkerStep, UNCHANGED generation
  PROVE  PlannerInv'
<1>1. CASE WorkerReturns
  BY <1>1 DEF WorkerReturns, PlannerInv, PlansWithItsParams
<1>2. CASE WorkerTakes
  BY <1>2 DEF WorkerTakes, PlannerInv, PlansWithItsParams
<1>3. CASE WorkerApplies
  BY <1>3 DEF WorkerApplies, PlannerInv, PlansWithItsParams
<1>4. CASE WorkerPublishes
  BY <1>4 DEF WorkerPublishes, PlannerInv, PlansWithItsParams
<1> QED BY <1>1, <1>2, <1>3, <1>4 DEF WorkerStep

LEMMA PlannerUntouched ==
  ASSUME PlannerInv, UNCHANGED <<generation, plannerVars>>
  PROVE  PlannerInv'
BY DEF plannerVars, PlannerInv, PlansWithItsParams

LEMMA ParamStep == PlannerInv /\ [ParamNext]_paramVars => PlannerInv'
<1> SUFFICES ASSUME PlannerInv, [ParamNext]_paramVars PROVE PlannerInv'
  OBVIOUS
<1>1. CASE Die
  BY <1>1, PlannerStarts DEF Die
<1>2. CASE \E f \in Files : Save(f) \/ \E valid \in BOOLEAN : Edit(f, valid)
  BY <1>2, PlannerUntouched DEF Save, Edit
<1>3. CASE Notify
  BY <1>1, <1>3, PlannerUntouched DEF Notify, SignalHandled
<1>4. CASE Start \/ InstallHandler \/ FirstStamp
  BY <1>4, PlannerUntouched DEF Start, InstallHandler, FirstStamp
<1>5. CASE Loaded
  BY <1>5, PlannerStarts DEF Loaded
<1>6. CASE ReadSome
  BY <1>1, <1>6, PlannerUntouched DEF ReadSome, ReadFile
<1>7. CASE PollFiles
  BY <1>7, PlannerUntouched DEF PollFiles
<1>8. CASE ApplyParams
  <2>1. /\ generation' = generation + 1 /\ pending_params' = generation' /\ params_pending' = TRUE
        /\ UNCHANGED <<request, pending, latest, planner, worker, taken, stopping>>
    BY <1>8 DEF ApplyParams, UpdateParams
  <2> QED BY <2>1 DEF PlannerInv, PlansWithItsParams
<1>9. CASE Returned
  BY <1>1, <1>9 DEF Returned
<1>10. CASE NewFrame
  BY <1>10 DEF NewFrame, Submit, watchVars, PlannerInv, PlansWithItsParams
<1>11. CASE WorkerRuns
  BY <1>11, WorkerKeeps DEF WorkerRuns, watchVars
<1>12. CASE Crash
  BY <1>1, <1>12 DEF Crash
<1>13. CASE Leave
  BY <1>13 DEF Leave, StopPlanner, PlannerInv, PlansWithItsParams
<1>14. CASE UNCHANGED paramVars
  BY <1>14, PlannerUntouched DEF paramVars, watchVars
<1> QED
  BY <1>2, <1>3, <1>4, <1>5, <1>6, <1>7, <1>8, <1>9, <1>10, <1>11, <1>12, <1>13, <1>14
     DEF ParamNext, Startup, ControlTick

(* No plan in use is from parameters older than its request's.             *)
THEOREM ParamsAreThePlans == ParamSpec => []PlansWithItsParams
<1>1. PlannerInv => PlansWithItsParams
  BY DEF PlannerInv
<1> QED BY <1>1, ParamInitially, ParamStep, PTL DEF ParamSpec

-----------------------------------------------------------------------------
(* The learners' files                                                     *)

LEMMA JobConstants ==
  /\ Absent \in 0 .. Broken /\ Absent \in JobSet /\ Broken \in 0 .. Broken
  /\ NoJob \in JobSet /\ Removal = Absent /\ NoJob # Absent
  /\ JobSet \ {NoJob} \subseteq 0 .. Broken /\ Broken \notin JobSet
  /\ PathSet \subseteq Nat /\ NoJobs \in [PathSet -> JobSet]
  /\ \A p \in PathSet : NoJobs[p] = NoJob
BY StoreAssumption DEF Absent, Broken, NoJob, JobSet, Removal, PathSet, NoJobs

(* The thread works on one path at a time.                                 *)
LEMMA OneIsNext ==
  ASSUME NEW p \in PathSet, NEW q \in PathSet, IsNext(p), IsNext(q)
  PROVE  p = q
<1>1. CASE p < q
  <2>1. p \in 1 .. q - 1
    BY <1>1 DEF PathSet
  <2> QED BY <2>1 DEF IsNext
<1>2. CASE q < p
  <2>1. q \in 1 .. p - 1
    BY <1>2 DEF PathSet
  <2> QED BY <2>1 DEF IsNext
<1> QED BY <1>1, <1>2, JobConstants

LEMMA StoreInitially == StoreInit => StoreInv
<1> SUFFICES ASSUME StoreInit PROVE StoreInv
  OBVIOUS
<1> USE JobConstants
<1>1. StoreTypeOK
  <2>1. 0 \in 0 .. MaxContent /\ 0 \in Nat
    BY StoreAssumption
  <2>2. /\ file \in [PathSet -> 0 .. Broken] /\ temp \in [PathSet -> 0 .. Broken]
        /\ submitted \in [PathSet -> 0 .. MaxContent]
    BY <2>1 DEF StoreInit
  <2>3. life \in [is : {"off", "running", "stopping", "stopped"}, count : Nat]
    BY <2>1 DEF StoreInit
  <2> QED BY <2>2, <2>3 DEF StoreInit, StoreTypeOK
<1>2. /\ newest = NoJobs /\ jobs = NoJobs /\ taken_jobs = NoJobs
      /\ writer = "wait" /\ last_stop = FALSE /\ life.is = "off"
  BY DEF StoreInit
<1> QED BY <1>1, <1>2 DEF StoreInv, NewestIsKept

LEMMA StoreStep == StoreInv /\ [StoreNext]_storeVars => StoreInv'
<1> SUFFICES ASSUME StoreInv, [StoreNext]_storeVars PROVE StoreInv'
  OBVIOUS
<1> USE JobConstants
<1> USE DEF StoreInv, StoreTypeOK, NewestIsKept
<1>1. CASE StartLearners
  <2>1. /\ life' \in [is : {"off", "running", "stopping", "stopped"}, count : Nat]
        /\ life'.is = "running"
    BY <1>1 DEF StartLearners
  <2>2. jobs' \in [PathSet -> JobSet] /\ newest' = jobs'
    BY <1>1 DEF StartLearners
  <2>3. /\ taken_jobs' = NoJobs /\ writer' = "wait" /\ last_stop' = FALSE /\ spoiled' = {}
        /\ UNCHANGED <<file, temp, submitted>>
    BY <1>1 DEF StartLearners
  <2> QED BY <2>1, <2>2, <2>3
<1>2. CASE StopStore \/ Joined
  BY <1>2 DEF StopStore, Joined, IsNext
<1>3. CASE TakeJobs
  BY <1>3 DEF TakeJobs, Alive, Stopping
<1>4. CASE AllDone
  BY <1>4 DEF AllDone, Alive
<1>5. ASSUME NEW p \in PathSet, RemoveFile(p)
      PROVE  StoreInv'
  BY <1>5 DEF RemoveFile, Done, IsNext, Alive
<1>6. ASSUME NEW p \in PathSet, OpenTemp(p)
      PROVE  StoreInv'
  BY <1>6 DEF OpenTemp
<1>7. ASSUME NEW p \in PathSet, WriteTemp(p)
      PROVE  StoreInv'
  BY <1>7, OneIsNext DEF WriteTemp, IsNext
<1>8. ASSUME NEW p \in PathSet, Rename(p)
      PROVE  StoreInv'
  <2>1. /\ file' = [file EXCEPT ![p] = temp[p]] /\ temp' = [temp EXCEPT ![p] = Absent]
        /\ taken_jobs' = [taken_jobs EXCEPT ![p] = NoJob] /\ writer = "written" /\ writer' = "work"
        /\ UNCHANGED <<life, submitted, jobs, last_stop, newest, spoiled>>
        /\ temp[p] = taken_jobs[p] /\ taken_jobs[p] # NoJob
    BY <1>8 DEF Rename, Done, IsNext
  <2>2. StoreTypeOK'
    BY <2>1
  <2>3. NewestIsKept'
    BY <2>1
  <2> QED BY <2>1, <2>2, <2>3
<1>9. ASSUME NEW p \in PathSet, GiveUp(p)
      PROVE  StoreInv'
  BY <1>9 DEF GiveUp, Done
<1>10. CASE ControlsdKilled
  <2>1. life' \in [is : {"off", "running", "stopping", "stopped"}, count : Nat] /\ life'.is = "off"
    BY <1>10 DEF ControlsdKilled
  <2>2. /\ newest' = NoJobs /\ jobs' = NoJobs /\ taken_jobs' = NoJobs
        /\ writer' = "wait" /\ last_stop' = FALSE /\ spoiled' = {}
        /\ UNCHANGED <<file, temp, submitted>>
    BY <1>10 DEF ControlsdKilled
  <2>3. StoreTypeOK'
    <3>1. file' \in [PathSet -> 0 .. Broken] /\ temp' \in [PathSet -> 0 .. Broken] /\ submitted' \in [PathSet -> 0 .. MaxContent]
      BY <2>2
    <3> QED BY <2>1, <2>2, <3>1
  <2>4. NewestIsKept'
    BY <2>2
  <2> QED BY <2>1, <2>2, <2>3, <2>4
<1>11. ASSUME NEW p \in PathSet, PowerLoss(p)
       PROVE  StoreInv'
  <2>1. life' \in [is : {"off", "running", "stopping", "stopped"}, count : Nat] /\ life'.is = "off"
    BY <1>11 DEF PowerLoss
  <2>2. /\ newest' = NoJobs /\ jobs' = NoJobs /\ taken_jobs' = NoJobs
        /\ writer' = "wait" /\ last_stop' = FALSE /\ spoiled' = {}
        /\ file' \in [PathSet -> 0 .. Broken] /\ UNCHANGED <<temp, submitted>>
    BY <1>11 DEF PowerLoss
  <2> QED BY <2>1, <2>2
<1>12. ASSUME NEW p \in PathSet, Persist(p)
       PROVE  StoreInv'
  <2>0. submitted[p] \in 0 .. MaxContent /\ submitted[p] < MaxContent /\ MaxContent \in Nat
    BY <1>12, StoreAssumption DEF Persist
  <2>1. PICK job \in 0 .. MaxContent : job = submitted[p] + 1
    BY <2>0
  <2>2. /\ submitted' = [submitted EXCEPT ![p] = job] /\ jobs' = [jobs EXCEPT ![p] = job]
        /\ newest' = [newest EXCEPT ![p] = job] /\ life.is = "running" /\ submitted[p] < MaxContent
        /\ UNCHANGED <<life, file, temp, taken_jobs, writer, last_stop, spoiled>>
    BY <1>12, <2>1 DEF Persist, Submitted
  <2>3. job # NoJob /\ job \in JobSet
    BY <2>0, <2>1, StoreAssumption DEF NoJob, JobSet
  <2>4. StoreTypeOK'
    BY <2>2, <2>3
  <2>5. NewestIsKept'
    BY <2>2, <2>3
  <2> QED BY <2>2, <2>4, <2>5 DEF IsNext
<1>13. CASE UNCHANGED storeVars
  BY <1>13 DEF storeVars, IsNext
<1> QED
  BY <1>1, <1>2, <1>3, <1>4, <1>5, <1>6, <1>7, <1>8, <1>9, <1>10, <1>11, <1>12, <1>13
     DEF StoreNext, StoreThread, Writes

LEMMA DoneIsWritten == StoreInv => StopFinishesWrites
BY JobConstants DEF StoreInv, StoreTypeOK, NewestIsKept, StopFinishesWrites

(* A stop in order leaves the newest job of every path done.               *)
THEOREM StoreFinishes == StoreSpec => []StopFinishesWrites
BY DoneIsWritten, StoreInitially, StoreStep, PTL DEF StoreSpec

(* A file is cut short only where the power fails.                         *)
THEOREM StoreKeepsFilesWhole == StoreSpec => LearnedFilesAreWhole
<1>1. StoreInv /\ [StoreNext]_storeVars =>
        [\A p \in PathSet : file[p] # Broken /\ file'[p] = Broken
                             => \E q \in PathSet : PowerLoss(q)]_storeVars
  <2> SUFFICES ASSUME StoreInv, StoreNext, ~\E q \in PathSet : PowerLoss(q),
                      NEW p \in PathSet, file[p] # Broken
               PROVE  file'[p] # Broken
    OBVIOUS
  <2> USE JobConstants DEF StoreInv, StoreTypeOK
  <2>1. CASE \E r \in PathSet : RemoveFile(r)
    BY <2>1 DEF RemoveFile
  <2>2. CASE \E r \in PathSet : Rename(r)
    <3>1. PICK r \in PathSet : Rename(r)
      BY <2>2
    <3>2. /\ file' = [file EXCEPT ![r] = temp[r]] /\ temp[r] = taken_jobs[r]
      BY <3>1 DEF Rename
    <3>3. taken_jobs[r] # Broken
      OBVIOUS
    <3> QED BY <3>2, <3>3
  <2>3. CASE UNCHANGED file
    BY <2>3
  <2> QED
    BY <2>1, <2>2, <2>3
       DEF StoreNext, StartLearners, StopStore, Joined, StoreThread, TakeJobs, AllDone, Writes,
           OpenTemp, WriteTemp, GiveUp, ControlsdKilled, Persist
<1> QED BY <1>1, StoreInitially, StoreStep, PTL DEF StoreSpec, LearnedFilesAreWhole

-----------------------------------------------------------------------------
(* The buzzer                                                              *)

(* What the buzzer's steps say of its fields.                               *)
HardwareType == [{"exported", "enabled", "routed"} -> BOOLEAN]

PwmType == [requested : BOOLEAN, exported : BOOLEAN, enabled : BOOLEAN, routed : BOOLEAN,
            original : BOOLEAN, entry : Entries \cup {2 * Notes}]

LEMMA NoPwmTyped == NoPwm \in PwmType
BY BuzzerAssumption DEF NoPwm, PwmType, Entries

LEMMA BuzzerInitially == BuzzerInit => BuzzerInv
<1> SUFFICES ASSUME BuzzerInit PROVE BuzzerInv
  OBVIOUS
<1>1. hardware \in HardwareType /\ ~hardware.exported /\ ~hardware.enabled
  <2>1. PICK f \in BOOLEAN : f = FALSE
    OBVIOUS
  <2>2. hardware = [exported |-> f, enabled |-> f, routed |-> f]
    BY <2>1 DEF BuzzerInit, Silent
  <2>3. hardware.exported = f /\ hardware.enabled = f
    BY <2>2
  <2>4. hardware \in HardwareType
    BY <2>2 DEF HardwareType
  <2> QED BY <2>1, <2>3, <2>4
<1>2. pwm \in PwmType /\ pwm.enabled = FALSE
  BY NoPwmTyped DEF BuzzerInit, NoPwm
<1>3. /\ {asked, playing} \subseteq Alerts \cup {"none"} /\ playing = "none" /\ player = "wait"
      /\ buzzer_stop \in BOOLEAN /\ uncleaned \in BOOLEAN
  BY DEF BuzzerInit
<1> QED BY <1>1, <1>2, <1>3 DEF BuzzerInv, BuzzerTypeOK, HardwareType, PwmType

LEMMA BuzzerStep == BuzzerInv /\ [BuzzerNext]_buzzerVars => BuzzerInv'
<1> SUFFICES ASSUME BuzzerInv, [BuzzerNext]_buzzerVars PROVE BuzzerInv'
  OBVIOUS
<1> USE DEF BuzzerInv, BuzzerTypeOK, Alerts
<1>1. CASE AnyPlay
  BY <1>1 DEF AnyPlay, Play
<1>2. CASE StopBuzzer
  BY <1>2 DEF StopBuzzer
<1>3. CASE BuzzerDies
  BY <1>3, NoPwmTyped DEF BuzzerDies, NewBuzzer, PwmType, NoPwm
<1>4. CASE TakeRequest
  BY <1>4, NoPwmTyped DEF TakeRequest, PwmType, NoPwm
<1>5. CASE NextEntry
  <2>1. /\ UNCHANGED <<asked, buzzer_stop, playing, pwm, hardware, uncleaned>>
        /\ player = "entry" /\ player' \in {"disable", "retune", "sleep", "export"}
        /\ player' = "retune" => pwm.enabled \/ pwm.exported
        /\ player' # "disable" => pwm.entry \in Entries
    BY <1>5 DEF NextEntry, Local
  <2>2. BuzzerTypeOK'
    BY <2>1
  <2>3. (playing = "none" <=> player \in {"wait", "returned"})'
    BY <2>1
  <2>4. (pwm.enabled \/ player \in {"configure", "route", "start", "retune"} => pwm.exported)'
    BY <2>1
  <2>5. (player \in {"export", "find", "configure", "route", "start", "sleep", "retune"}
           => pwm.entry \in Entries)'
    BY <2>1
  <2>6. (~uncleaned =>
       /\ hardware.exported => pwm.requested /\ player \notin {"wait", "returned"}
       /\ hardware.enabled => pwm.exported
                              /\ player \notin {"unroute", "unexport", "wait", "returned"})'
    BY <2>1
  <2> QED BY <2>2, <2>3, <2>4, <2>5, <2>6
<1>6. CASE Slept
  <2>1. pwm.entry + 1 \in Entries \cup {2 * Notes}
    BY <1>6, BuzzerAssumption DEF Slept, At, Entries
  <2>2. PICK e \in Entries \cup {2 * Notes} : e = pwm.entry + 1
    BY <2>1
  <2>3. pwm' = [pwm EXCEPT !.entry = e]
    BY <1>6, <2>2 DEF Slept
  <2>4. /\ pwm' \in PwmType /\ pwm'.enabled = pwm.enabled /\ pwm'.exported = pwm.exported
        /\ pwm'.requested = pwm.requested
    BY <2>3 DEF PwmType
  <2> QED BY <1>6, <2>4 DEF Slept, At, Local, PwmType
<1>7. CASE Export
  BY <1>7 DEF Export, At, Local
<1>8. CASE FindChannel
  BY <1>8 DEF FindChannel, At, Local
<1>9. CASE Configure
  BY <1>9 DEF Configure, At, Local
<1>10. CASE Route
  BY <1>10 DEF Route, At, Local
<1>11. CASE StartTone
  BY <1>11 DEF StartTone, At, Local
<1>12. CASE Retune
  BY <1>12 DEF Retune, At, Local
<1>13. CASE Disable
  BY <1>13 DEF Disable, Undo, At, Local
<1>14. CASE Unroute
  BY <1>14 DEF Unroute, Undo, At, Local
<1>15. CASE Unexport
  BY <1>15, NoPwmTyped DEF Unexport, Undo, At, Local, PwmType, NoPwm
<1>16. CASE UNCHANGED buzzerVars
  BY <1>16 DEF buzzerVars
<1> QED
  BY <1>1, <1>2, <1>3, <1>4, <1>5, <1>6, <1>7, <1>8, <1>9, <1>10, <1>11, <1>12, <1>13, <1>14,
     <1>15, <1>16 DEF BuzzerNext, PlayerStep

(* While the thread waits the channel is silent and given back.            *)
THEOREM BuzzerIsQuiet == BuzzerSpec => []QuietWhenIdle
<1>1. BuzzerInv => QuietWhenIdle
  BY DEF BuzzerInv, QuietWhenIdle
<1> QED BY <1>1, BuzzerInitially, BuzzerStep, PTL DEF BuzzerSpec

-----------------------------------------------------------------------------
(* The backlight                                                           *)

LEMMA BacklightInitially == BacklightInit => BacklightInv
<1> SUFFICES ASSUME BacklightInit PROVE BacklightInv
  OBVIOUS
<1>1. PICK b \in Brightness : b = CHOOSE c \in Brightness : TRUE
  BY BrightnessAssumption
<1>2. channel \in [exported : BOOLEAN, enabled : BOOLEAN, duty : Brightness \cup {"none"}]
  <2>1. PICK f \in BOOLEAN, t \in BOOLEAN : f = FALSE /\ t = TRUE
    OBVIOUS
  <2>2. channel \in {[exported |-> f, enabled |-> f, duty |-> "none"],
                     [exported |-> t, enabled |-> t, duty |-> b]}
    BY <1>1, <2>1 DEF BacklightInit
  <2> QED BY <2>2
<1>3. apply = [at |-> "idle", target |-> "none", result |-> "none"]
  BY DEF BacklightInit, Idle
<1>4. bl_mode = "unknown" /\ bl_line = "closed" /\ bl_mux \in {"gpio", "pwm"}
  BY DEF BacklightInit
<1> QED BY <1>2, <1>3, <1>4 DEF BacklightInv, BacklightTypeOK, AppliedIsShownUntilAFailure, Applied

LEMMA BacklightStep == BacklightInv /\ [BacklightNext]_backlightVars => BacklightInv'
<1> SUFFICES ASSUME BacklightInv, [BacklightNext]_backlightVars PROVE BacklightInv'
  OBVIOUS
<1> USE BrightnessAssumption DEF BacklightInv, BacklightTypeOK, Targets, AppliedIsShownUntilAFailure,
        Applied, Driven, Shown
<1>1. CASE AnyApply
  BY <1>1 DEF AnyApply, Apply
<1>2. CASE Raise
  BY <1>2 DEF Raise, Idle
<1>3. CASE DisablePwm
  BY <1>3 DEF DisablePwm, Continue
<1>4. CASE CloseLine
  BY <1>4 DEF CloseLine, Continue
<1>5. CASE SetMux
  BY <1>5 DEF SetMux, Continue
<1>6. CASE DriveLine
  BY <1>6 DEF DriveLine, Finish, Idle
<1>7. CASE ExportPwm
  <2>1. /\ channel' \in [exported : BOOLEAN, enabled : BOOLEAN, duty : Brightness \cup {"none"}]
        /\ channel'.exported /\ channel'.enabled = channel.enabled
    <3>1. PICK t \in BOOLEAN : t = TRUE
      OBVIOUS
    <3>2. channel' = [channel EXCEPT !.exported = t]
      BY <1>7, <3>1 DEF ExportPwm
    <3>3. /\ channel' \in [exported : BOOLEAN, enabled : BOOLEAN, duty : Brightness \cup {"none"}]
          /\ channel'.exported = t /\ channel'.enabled = channel.enabled
      BY <3>2
    <3> QED BY <3>1, <3>3
  <2>2. \/ apply' = [apply EXCEPT !.at = "configure"] /\ bl_failed' = bl_failed
        \/ apply' = [at |-> "idle", target |-> apply.target, result |-> "raised"] /\ bl_failed' = TRUE
    BY <1>7 DEF ExportPwm, Continue, Idle
  <2>3. UNCHANGED <<bl_mode, bl_line, bl_mux>> /\ apply.at = "export"
    BY <1>7 DEF ExportPwm, Continue
  <2> QED BY <2>1, <2>2, <2>3
<1>8. CASE ConfigurePwm
  BY <1>8 DEF ConfigurePwm, Continue
<1>9. CASE EnablePwm
  BY <1>9 DEF EnablePwm, Finish, Idle
<1>10. CASE WriteDuty
  BY <1>10 DEF WriteDuty, Finish, Idle
<1>11. CASE UNCHANGED backlightVars
  BY <1>11 DEF backlightVars
<1> QED
  BY <1>1, <1>2, <1>3, <1>4, <1>5, <1>6, <1>7, <1>8, <1>9, <1>10, <1>11
     DEF BacklightNext, ApplyStep

(* A brightness that was applied is shown, until a call has raised; a level *)
(* is shown whatever has raised.                                            *)
THEOREM BacklightShows == BacklightSpec => []AppliedIsShownUntilAFailure
<1>1. BacklightInv => AppliedIsShownUntilAFailure
  BY DEF BacklightInv
<1> QED BY <1>1, BacklightInitially, BacklightStep, PTL DEF BacklightSpec

-----------------------------------------------------------------------------
(* The manager                                                             *)

LEMMA ManagerInitially == ManagerInit => ManagerInv
<1> SUFFICES ASSUME ManagerInit PROVE ManagerInv
  OBVIOUS
<1>1. /\ at = [step |-> "start", proc |-> 1] /\ 1 \in 1 .. ProcCount + 1
      /\ child = [p \in Procs |-> "none"]
  BY ManagerAssumption DEF ManagerInit
<1>2. handle \in [Procs -> BOOLEAN] /\ due \in [Procs -> BOOLEAN] /\ shutdown \in BOOLEAN
  BY DEF ManagerInit
<1>3. exits = 0 /\ published = {}
  BY DEF ManagerInit
<1>4. ManagerTypeOK
  BY <1>1, <1>2, <1>3 DEF ManagerTypeOK
<1> QED BY <1>1, <1>4 DEF ManagerInv, NoChildOutlivesManager

LEMMA ForkKeeps ==
  ASSUME ManagerInv, NEW step, NEW assign, <<step, assign>> \in {<<"start", "assign">>, <<"restart", "reassign">>},
         Fork(step, assign)
  PROVE  ManagerInv'
BY ManagerAssumption
   DEF ManagerInv, ManagerTypeOK, NoChildOutlivesManager, Fork, Here, Rest, Procs

LEMMA AssignKeeps ==
  ASSUME ManagerInv, NEW step, NEW assign, <<step, assign>> \in {<<"start", "assign">>, <<"restart", "reassign">>},
         Assign(assign, step)
  PROVE  ManagerInv'
BY ManagerAssumption
   DEF ManagerInv, ManagerTypeOK, NoChildOutlivesManager, Assign, Following, Rest, Procs

LEMMA ManagerStep == ManagerInv /\ [ManagerNext]_managerVars => ManagerInv'
<1> SUFFICES ASSUME ManagerInv, [ManagerNext]_managerVars PROVE ManagerInv'
  OBVIOUS
<1> USE ManagerAssumption DEF Procs
<1> USE DEF ManagerInv, ManagerTypeOK, NoChildOutlivesManager
<1>1. CASE StartFork
  BY <1>1, ForkKeeps DEF StartFork
<1>2. CASE StartAssign
  BY <1>2, AssignKeeps DEF StartAssign
<1>3. CASE RestartFork
  BY <1>3, ForkKeeps DEF RestartFork
<1>4. CASE RestartAssign
  BY <1>4, AssignKeeps DEF RestartAssign
<1>5. CASE Started \/ Polled \/ Restarted \/ StartRaises
  <2>1. PICK step \in {"loop", "restart", "raised"} :
          at' = [step |-> step, proc |-> 1] /\ at.step \in {"start", "poll", "restart"}
    BY <1>5 DEF Started, Polled, Restarted, StartRaises, Here, Past, Step
  <2>2. UNCHANGED <<child, handle, due, shutdown, published, exits>>
    BY <1>5 DEF Started, Polled, Restarted, StartRaises, Rest
  <2> QED BY <2>1, <2>2
<1>6. CASE Loop
  <2>1. PICK step \in {"terminate", "poll"} :
          at' = [step |-> step, proc |-> 1] /\ at.step = "loop"
    BY <1>6 DEF Loop, Go, Step
  <2>2. UNCHANGED <<child, handle, due, shutdown, exits>> /\ published' \subseteq 1 .. ProcCount
    BY <1>6 DEF Loop
  <2> QED BY <2>1, <2>2
<1>7. CASE PollChild
  BY <1>7 DEF PollChild, Here, Following, Reap, Rest
<1>8. CASE RestartSkip
  BY <1>8 DEF RestartSkip, Here, Following, Rest
<1>9. CASE Terminate
  BY <1>9 DEF Terminate, Go, Step, Told, Running, Rest
<1>10. CASE Wait
  BY <1>10 DEF Wait, Go, Step, Rest
<1>11. CASE Kill
  BY <1>11 DEF Kill, Go, Step, Killed, Running
<1>12. CASE TimePasses
  BY <1>12 DEF TimePasses, RestartDue, Rest
<1>13. CASE AnyChildExits
  BY <1>13 DEF AnyChildExits, ChildExits
<1>14. CASE Signal
  BY <1>14 DEF Signal, Told, Running
<1>15. CASE UNCHANGED managerVars
  BY <1>15 DEF managerVars
<1> QED
  BY <1>1, <1>2, <1>3, <1>4, <1>5, <1>6, <1>7, <1>8, <1>9, <1>10, <1>11, <1>12, <1>13, <1>14,
     <1>15 DEF ManagerNext, RunStep

(* No child lives when run() returns, wherever the signal fell.            *)
THEOREM ManagerLeavesNoChild == ManagerFairSpec => []NoChildOutlivesManager
<1>1. ManagerInv => NoChildOutlivesManager
  BY DEF ManagerInv
<1> QED BY <1>1, ManagerInitially, ManagerStep, PTL DEF ManagerFairSpec

-----------------------------------------------------------------------------
(* The composed module: one component moves, the others keep their state.  *)

LEMMA AtMostOneServiceMoves ==
  ASSUME [ServicesNext]_servicesVars
  PROVE  /\ [Next]_vars /\ [ParamNext]_paramVars /\ [StoreNext]_storeVars
         /\ [BuzzerNext]_buzzerVars /\ [BacklightNext]_backlightVars /\ [ManagerNext]_managerVars
<1>1. CASE QueueMoves
  BY <1>1 DEF QueueMoves
<1>2. CASE ParamsMove
  BY <1>2 DEF ParamsMove
<1>3. CASE StoreMoves
  BY <1>3 DEF StoreMoves
<1>4. CASE BuzzerMoves
  BY <1>4 DEF BuzzerMoves
<1>5. CASE BacklightMoves
  BY <1>5 DEF BacklightMoves
<1>6. CASE ManagerMoves
  BY <1>6 DEF ManagerMoves
<1>7. CASE UNCHANGED servicesVars
  BY <1>7 DEF servicesVars
<1> QED BY <1>1, <1>2, <1>3, <1>4, <1>5, <1>6, <1>7 DEF ServicesNext

LEMMA ServicesInitially == ServicesInit => ServicesInv
BY InitInv, ParamInitially, StoreInitially, BuzzerInitially, BacklightInitially, ManagerInitially
   DEF ServicesInit, ServicesInv

LEMMA ServicesStep == ServicesInv /\ [ServicesNext]_servicesVars => ServicesInv'
BY AtMostOneServiceMoves, StepInv, ParamStep, StoreStep, BuzzerStep, BacklightStep, ManagerStep
   DEF ServicesInv

(* The inductive invariants of all components hold in the composition.     *)
THEOREM ServicesInvariant == ServicesSpec => []ServicesInv
BY ServicesInitially, ServicesStep, PTL DEF ServicesSpec

(* A plan is never from parameters older than its request's.               *)
THEOREM ServicesPlanWithParams == ServicesSpec => []PlansWithItsParams
<1>1. ServicesInv => PlansWithItsParams
  BY DEF ServicesInv, PlannerInv
<1> QED BY <1>1, ServicesInvariant, PTL

(* The store's files are written and the manager's children gone when they *)
(* have stopped.                                                           *)
THEOREM ServicesLeaveNothing == ServicesSpec => []NothingIsLeftBehind
<1>1. ServicesInv => StopFinishesWrites
  BY DoneIsWritten DEF ServicesInv
<1>2. ServicesInv => NoChildOutlivesManager
  BY DEF ServicesInv, ManagerInv
<1> QED BY <1>1, <1>2, ServicesInvariant, PTL DEF NothingIsLeftBehind

(* An idle buzzer is quiet and the backlight shows what was applied.       *)
THEOREM ServicesDevices == ServicesSpec => []DevicesAreAsAsked
<1>1. ServicesInv => DevicesAreAsAsked
  BY DEF ServicesInv, BuzzerInv, QuietWhenIdle, BacklightInv, DevicesAreAsAsked
<1> QED BY <1>1, ServicesInvariant, PTL

(* The ring is a bounded FIFO also in the composition, and its slots are    *)
(* never read and written at once.                                         *)
THEOREM ServicesQueue == ServicesSpec => ImplementsFifo /\ []NoSlotRace
<1>1. ServicesInit => Init
  BY DEF ServicesInit
<1>2. [ServicesNext]_servicesVars => [Next]_vars
  BY AtMostOneServiceMoves
<1>3. ServicesSpec => Spec
  BY <1>1, <1>2, PTL DEF ServicesSpec, Spec
<1> QED BY <1>3, QueueImplementsFifo, QueueIsRaceFree

(* A learner's file is cut short only where the power fails.               *)
THEOREM ServicesFilesAreWhole == ServicesSpec => LearnedFilesAreWhole
<1>1. ServicesInit => StoreInit
  BY DEF ServicesInit
<1>2. [ServicesNext]_servicesVars => [StoreNext]_storeVars
  BY AtMostOneServiceMoves
<1>3. ServicesSpec => StoreSpec
  BY <1>1, <1>2, PTL DEF ServicesSpec, StoreSpec
<1> QED BY <1>3, StoreKeepsFilesWhole
=============================================================================
