---------------------------- MODULE LearnerStore ----------------------------
(***************************************************************************)
(* What controlsd has learned, kept across its lives: the control loop     *)
(* hands contents and removals of the learner files to LearnerStore        *)
(* (k230_controlsd.cc), whose thread writes them as a temporary file and   *)
(* renames it; at start the files are read back, and a file the learners   *)
(* reject is removed through the same queue (lateral_learners.cc).         *)
(*                                                                         *)
(* Each path keeps one job, the newest.  The thread takes them all in one  *)
(* critical section and works on them unlocked, one system call per step,  *)
(* while newer jobs arrive, until controlsd is stopped, killed, or the     *)
(* power fails and takes what was not on the medium yet.                   *)
(***************************************************************************)
EXTENDS Naturals

CONSTANTS
  PathCount,  \* live_parameters.json and live_torque_parameters.bin
  MaxContent, \* submissions of a path, MaxLives starts: bounds of the model
  MaxLives

ASSUME StoreAssumption == {PathCount, MaxContent, MaxLives} \subseteq Nat

PathSet == 1 .. PathCount   \* in the order of the map

\* The contents of a file besides the number of a submission.
Absent == 0
Broken == MaxContent + 1   \* cut short

\* A job: a content to write, or the file's removal.
NoJob == MaxContent + 2
Removal == Absent

VARIABLES
  life,      \* "off", "running", "stopping" or "stopped"; and the lives so far
  file,      \* path -> content at the path
  temp,      \* path -> content at path.tmp
  submitted, \* path -> number of the newest content submitted, ever
  jobs,      \* path -> job in pending_, or NoJob
  taken_jobs,\* path -> job the thread took and has not finished, or NoJob
  writer,    \* what the thread does: "wait", "work", "opened", "written", "returned"
  last_stop, \* what the thread read of stop_ when it took the jobs
  newest,    \* history: path -> the newest job of this life, or NoJob
  spoiled    \* history: paths with a write that failed in this life, or lost power

storeVars == <<life, file, temp, submitted, jobs, taken_jobs, writer, last_stop, newest, spoiled>>

NoJobs == [p \in PathSet |-> NoJob]

StoreInit ==
  /\ life = [is |-> "off", count |-> 0]
  /\ file = [p \in PathSet |-> Absent] /\ temp = [p \in PathSet |-> Absent]
  /\ submitted = [p \in PathSet |-> 0]
  /\ jobs = NoJobs /\ taken_jobs = NoJobs
  /\ writer = "wait" /\ last_stop = FALSE
  /\ newest = NoJobs /\ spoiled = {}

-----------------------------------------------------------------------------
(* The control loop *)

(* submit(): the newest job of a path replaces the one still pending. *)
Submitted(p, job) ==
  /\ jobs' = [jobs EXCEPT ![p] = job]
  /\ newest' = [newest EXCEPT ![p] = job]

(* main() reads the files; a file the learners cannot restore is removed,  *)
(* one of other tuning is kept.                                            *)
StartLearners ==
  /\ life.is = "off" /\ life.count < MaxLives
  /\ life' = [is |-> "running", count |-> life.count + 1]
  /\ jobs' = [p \in PathSet |-> IF file[p] = Broken THEN Removal ELSE NoJob]
  /\ newest' = jobs'
  /\ taken_jobs' = NoJobs /\ writer' = "wait" /\ last_stop' = FALSE /\ spoiled' = {}
  /\ UNCHANGED <<file, temp, submitted>>

(* vehicle_persist_due() and torque_persist_due() *)
Persist(p) ==
  /\ life.is = "running" /\ submitted[p] < MaxContent
  /\ submitted' = [submitted EXCEPT ![p] = @ + 1]
  /\ Submitted(p, submitted'[p])
  /\ UNCHANGED <<life, file, temp, taken_jobs, writer, last_stop, spoiled>>

(* The destructor sets stop_ and joins. *)
StopStore ==
  /\ life.is = "running" /\ life' = [life EXCEPT !.is = "stopping"]
  /\ UNCHANGED <<file, temp, submitted, jobs, taken_jobs, writer, last_stop, newest, spoiled>>

Joined ==
  /\ life.is = "stopping" /\ writer = "returned"
  /\ life' = [life EXCEPT !.is = "stopped"]
  /\ UNCHANGED <<file, temp, submitted, jobs, taken_jobs, writer, last_stop, newest, spoiled>>

-----------------------------------------------------------------------------
(* run() *)

Alive == life.is \in {"running", "stopping"}
Stopping == life.is = "stopping"

TakeJobsUnlessStopped ==
  /\ Alive /\ writer = "wait"
  /\ Stopping \/ jobs # NoJobs
  /\ taken_jobs' = (IF Stopping THEN NoJobs ELSE jobs) /\ jobs' = NoJobs
  /\ last_stop' = Stopping
  /\ writer' = "work"
  /\ UNCHANGED <<life, file, temp, submitted, newest, spoiled>>

TakeJobs ==
  /\ Alive /\ writer = "wait"
  /\ Stopping \/ jobs # NoJobs
  /\ taken_jobs' = jobs /\ jobs' = NoJobs
  /\ last_stop' = Stopping
  /\ writer' = "work"
  /\ UNCHANGED <<life, file, temp, submitted, newest, spoiled>>

(* The job the loop over the taken ones is at. *)
IsNext(p) ==
  /\ taken_jobs[p] # NoJob
  /\ \A q \in 1 .. p - 1 : taken_jobs[q] = NoJob

Done(p) == taken_jobs' = [taken_jobs EXCEPT ![p] = NoJob]

RemoveFile(p) ==
  /\ Alive /\ writer = "work" /\ IsNext(p) /\ taken_jobs[p] = Removal
  /\ file' = [file EXCEPT ![p] = Absent]
  /\ Done(p)
  /\ UNCHANGED <<life, temp, submitted, jobs, writer, last_stop, newest, spoiled>>

OpenInPlace(p) ==
  /\ Alive /\ writer = "work" /\ IsNext(p) /\ taken_jobs[p] # Removal
  /\ file' = [file EXCEPT ![p] = Broken] /\ temp' = [temp EXCEPT ![p] = Broken]
  /\ writer' = "opened"
  /\ UNCHANGED <<life, submitted, jobs, taken_jobs, last_stop, newest, spoiled>>

(* The temporary file opened with trunc; a failure shows when it is closed. *)
OpenTemp(p) ==
  /\ Alive /\ writer = "work" /\ IsNext(p) /\ taken_jobs[p] # Removal
  /\ temp' = [temp EXCEPT ![p] = Broken]
  /\ writer' = "opened"
  /\ UNCHANGED <<life, file, submitted, jobs, taken_jobs, last_stop, newest, spoiled>>

WriteTemp(p) ==
  /\ Alive /\ writer = "opened" /\ IsNext(p)
  /\ temp' = [temp EXCEPT ![p] = taken_jobs[p]]
  /\ writer' = "written"
  /\ UNCHANGED <<life, file, submitted, jobs, taken_jobs, last_stop, newest, spoiled>>

Rename(p) ==
  /\ Alive /\ writer = "written" /\ IsNext(p)
  /\ file' = [file EXCEPT ![p] = temp[p]] /\ temp' = [temp EXCEPT ![p] = Absent]
  /\ Done(p) /\ writer' = "work"
  /\ UNCHANGED <<life, submitted, jobs, last_stop, newest, spoiled>>

(* The stream or the rename failed. *)
GiveUp(p) ==
  /\ Alive /\ writer \in {"opened", "written"} /\ IsNext(p)
  /\ temp' = [temp EXCEPT ![p] = Absent]
  /\ Done(p) /\ writer' = "work"
  /\ spoiled' = spoiled \cup {p}
  /\ UNCHANGED <<life, file, submitted, jobs, last_stop, newest>>

AllDone ==
  /\ Alive /\ writer = "work" /\ taken_jobs = NoJobs
  /\ writer' = IF last_stop THEN "returned" ELSE "wait"
  /\ UNCHANGED <<life, file, temp, submitted, jobs, taken_jobs, last_stop, newest, spoiled>>

-----------------------------------------------------------------------------

(* controlsd is killed, or left and is started again. *)
ControlsdKilled ==
  /\ life.is # "off"
  /\ life' = [life EXCEPT !.is = "off"]
  /\ jobs' = NoJobs /\ newest' = NoJobs
  /\ taken_jobs' = NoJobs /\ writer' = "wait" /\ last_stop' = FALSE /\ spoiled' = {}
  /\ UNCHANGED <<file, temp, submitted>>

(* The store does not sync: a file may come back cut short. *)
PowerLoss(p) ==
  /\ life.is # "off" /\ file[p] \notin {Absent, Broken}
  /\ file' = [file EXCEPT ![p] = Broken]
  /\ life' = [life EXCEPT !.is = "off"]
  /\ jobs' = NoJobs /\ newest' = NoJobs
  /\ taken_jobs' = NoJobs /\ writer' = "wait" /\ last_stop' = FALSE /\ spoiled' = {}
  /\ UNCHANGED <<temp, submitted>>

Writes(p) == RemoveFile(p) \/ OpenTemp(p) \/ WriteTemp(p) \/ Rename(p) \/ GiveUp(p)
StoreThread == TakeJobs \/ AllDone \/ (\E p \in PathSet : Writes(p))

StoreNext ==
  \/ StartLearners \/ StopStore \/ Joined \/ StoreThread \/ ControlsdKilled
  \/ \E p \in PathSet : Persist(p) \/ PowerLoss(p)

StoreSpec == StoreInit /\ [][StoreNext]_storeVars

(* The thread runs, and main() returns once it has. *)
StoreFairSpec == StoreSpec /\ WF_storeVars(StoreThread) /\ WF_storeVars(Joined)

-----------------------------------------------------------------------------
(* Properties *)

(* Short of a power loss, what a start reads back is whole: no kill, stop  *)
(* or failed write at any point of the writing leaves a cut file behind.   *)
LearnedFilesAreWhole ==
  [][\A p \in PathSet : file[p] # Broken /\ file'[p] = Broken => \E q \in PathSet : PowerLoss(q)]_storeVars

(* A stop in order leaves the newest job of every path done, whatever jobs *)
(* were merged and however far the thread was, unless a write failed       *)
(* (k230_controlsd.cc: the rest is written when the store stops).          *)
StopFinishesWrites ==
  life.is = "stopped" =>
    \A p \in PathSet \ spoiled : newest[p] # NoJob => file[p] = newest[p]

(* The inductive invariant: the newest job of a path waits, is taken, or is *)
(* done; and after a stop was read no job waits any more.                   *)
JobSet == (0 .. MaxContent) \cup {NoJob}

StoreTypeOK ==
  /\ life \in [is : {"off", "running", "stopping", "stopped"}, count : Nat]
  /\ {file, temp} \subseteq [PathSet -> 0 .. Broken]
  /\ {jobs, taken_jobs, newest} \subseteq [PathSet -> JobSet]
  /\ submitted \in [PathSet -> 0 .. MaxContent] /\ spoiled \subseteq PathSet
  /\ writer \in {"wait", "work", "opened", "written", "returned"}
  /\ last_stop \in BOOLEAN

NewestIsKept ==
  \A p \in PathSet \ spoiled :
    newest[p] = IF jobs[p] # NoJob THEN jobs[p]
                ELSE IF taken_jobs[p] # NoJob THEN taken_jobs[p]
                ELSE IF newest[p] # NoJob THEN file[p] ELSE NoJob

StoreInv ==
  /\ StoreTypeOK /\ NewestIsKept
  /\ writer \in {"wait", "returned"} => taken_jobs = NoJobs
  /\ writer = "written" => \A p \in PathSet : IsNext(p) => temp[p] = taken_jobs[p]
  /\ writer = "returned" => last_stop
  /\ last_stop => jobs = NoJobs /\ ~(life.is = "running")
  /\ life.is = "stopped" => writer = "returned"
=============================================================================
