--------------------------- MODULE RuntimeParams ----------------------------
(***************************************************************************)
(* How parameters reach the control loop and its planner.                  *)
(*                                                                         *)
(* LateralPlannerWorker (k230_controlsd.cc): the control loop hands each   *)
(* new model frame, and each new set of parameters, to a thread that plans *)
(* outside the lock and leaves its result for the loop to read.  Requests  *)
(* and parameters not yet taken are overwritten by newer ones.             *)
(*                                                                         *)
(* A request is the number of its frame; parameters are the number of      *)
(* their generation.  Each step of the worker is one critical section, or  *)
(* the work between two of them.                                           *)
(***************************************************************************)
EXTENDS Naturals, FiniteSetsExt

CONSTANT MaxFrame   \* frames submitted, a bound of the model

ASSUME PlannerAssumption == MaxFrame \in Nat

VARIABLES
  request,         \* request_: frame, and (history) the generation it was submitted under
  pending,         \* pending_
  pending_params,  \* pending_steering_, pending_driving_
  params_pending,  \* params_pending_
  latest,          \* latest_: the frame planned, its generation, and that of its request
  planner,         \* the parameters of planner_
  worker,          \* "wait", "apply", "plan", "publish" or "returned"
  taken,           \* what run() took: request, parameters, and which of the two
  stopping         \* stop_

plannerVars == <<request, pending, pending_params, params_pending, latest,
                 planner, worker, taken, stopping>>

Nothing == [frame |-> 0, under |-> 0]

PlannerInit(params) ==
  /\ request = Nothing /\ pending = FALSE
  /\ pending_params = params /\ params_pending = FALSE
  /\ latest = [frame |-> 0, params |-> params, under |-> 0]
  /\ planner = params
  /\ worker = "wait"
  /\ taken = [request |-> Nothing, params |-> params, has_request |-> FALSE]
  /\ stopping = FALSE

(* A worker constructed anew, or the nothing a dead controlsd leaves. *)
PlannerReset(params) ==
  /\ request' = Nothing /\ pending' = FALSE
  /\ pending_params' = params /\ params_pending' = FALSE
  /\ latest' = [frame |-> 0, params |-> params, under |-> 0]
  /\ planner' = params
  /\ worker' = "wait"
  /\ taken' = [request |-> Nothing, params |-> params, has_request |-> FALSE]
  /\ stopping' = FALSE

-----------------------------------------------------------------------------
(* The control loop *)

(* submit(): the request is newer than any before. *)
Submit ==
  /\ request.frame < MaxFrame /\ ~stopping
  /\ request' = [frame |-> request.frame + 1, under |-> pending_params]
  /\ pending' = TRUE
  /\ UNCHANGED <<pending_params, params_pending, latest, planner, worker, taken, stopping>>

UpdateParams(params) ==
  /\ pending_params' = params /\ params_pending' = TRUE
  /\ UNCHANGED <<request, pending, latest, planner, worker, taken, stopping>>

(* The destructor; join() waits for worker = "returned". *)
StopPlanner ==
  /\ ~stopping /\ stopping' = TRUE
  /\ UNCHANGED <<request, pending, pending_params, params_pending, latest, planner, worker, taken>>

-----------------------------------------------------------------------------
(* run() *)

WorkerReturns ==
  /\ worker = "wait" /\ stopping
  /\ worker' = "returned"
  /\ UNCHANGED <<request, pending, pending_params, params_pending, latest, planner, taken, stopping>>

WorkerTakesRequestFirst ==
  /\ worker = "wait" /\ ~stopping /\ (pending \/ params_pending)
  /\ taken' = [request |-> request, params |-> IF pending THEN planner ELSE pending_params,
               has_request |-> pending]
  /\ params_pending' = (params_pending /\ pending) /\ pending' = FALSE
  /\ worker' = "apply"
  /\ UNCHANGED <<request, pending_params, latest, planner, stopping>>

WorkerTakes ==
  /\ worker = "wait" /\ ~stopping /\ (pending \/ params_pending)
  /\ taken' = [request |-> request, params |-> IF params_pending THEN pending_params ELSE planner,
               has_request |-> pending]
  /\ params_pending' = FALSE /\ pending' = FALSE
  /\ worker' = "apply"
  /\ UNCHANGED <<request, pending_params, latest, planner, stopping>>

WorkerApplies ==
  /\ worker = "apply"
  /\ planner' = taken.params
  /\ worker' = IF taken.has_request THEN "publish" ELSE "wait"
  /\ UNCHANGED <<request, pending, pending_params, params_pending, latest, taken, stopping>>

WorkerPublishes ==
  /\ worker = "publish"
  /\ latest' = [frame |-> taken.request.frame, params |-> planner, under |-> taken.request.under]
  /\ worker' = "wait"
  /\ UNCHANGED <<request, pending, pending_params, params_pending, planner, taken, stopping>>

WorkerStep == WorkerReturns \/ WorkerTakes \/ WorkerApplies \/ WorkerPublishes

-----------------------------------------------------------------------------
(***************************************************************************)
(* The way of a parameter from the editor to the road: ParamStore.update() *)
(* replaces a file and signals controlsd (k230_param_server.py); controlsd *)
(* loads the files at start, watches their stamps and rereads them all     *)
(* when one changed or SIGHUP came (RuntimeParams, k230_controlsd.cc); a   *)
(* load that succeeds goes on to the planner's thread, as above.           *)
(*                                                                         *)
(* Saves, edits by hand, the signal and crashes fall between any two file  *)
(* accesses of controlsd.  A file is the number of its version, which also *)
(* stands for its stamp, and whether its loader accepts it; the parameters *)
(* in use are the number of the load that produced them.                   *)
(***************************************************************************)

CONSTANTS
  Files,       \* the parameter files controlsd reads
  MaxVersion,  \* saves and edits: a bound of the model, as is
  MaxCrashes   \* the number of crashes of controlsd

ASSUME ParamsAssumption ==
  /\ IsFiniteSet(Files) /\ Files # {}
  /\ MaxVersion \in Nat /\ MaxCrashes \in Nat

VARIABLES
  disk,       \* file -> version and whether it is valid
  signalling, \* a save whose notifier() has not run yet
  controlsd,  \* "down", "starting", "loading", "stamping", "running", "polling", "leaving"
  crashes,    \* crashes of controlsd so far
  reload,     \* g_reload_params
  stamps,     \* steering_stamp_, driving_stamp_, adaptive_cruise_stamp_
  candidate,  \* file -> the version read so far by the load under way
  config,     \* file -> the version in use
  generation  \* generation_, which numbers the parameters in use

watchVars == <<disk, signalling, controlsd, crashes, reload, stamps, candidate, config, generation>>
paramVars == <<watchVars, plannerVars>>

None == MaxVersion + 1   \* no version read yet

Stamp == [f \in Files |-> disk[f].version]
Unread == [f \in Files |-> None]
LastChange == Max({disk[f].version : f \in Files})

ParamInit ==
  /\ disk = [f \in Files |-> [version |-> 0, valid |-> TRUE]]
  /\ signalling = FALSE
  /\ controlsd = "down" /\ crashes = 0 /\ reload = FALSE
  /\ stamps = [f \in Files |-> 0]
  /\ candidate = Unread
  /\ config = [f \in Files |-> 0] /\ generation = 0
  /\ PlannerInit(0)

-----------------------------------------------------------------------------
(* k230_param_server.py *)

(* update(): under the lock, and atomic on disk. *)
Save(f) ==
  /\ ~signalling /\ disk[f].valid /\ LastChange < MaxVersion
  /\ disk' = [disk EXCEPT ![f] = [version |-> LastChange + 1, valid |-> TRUE]]
  /\ signalling' = TRUE
  /\ UNCHANGED <<controlsd, crashes, reload, stamps, candidate, config, generation, plannerVars>>

(* A controlsd that is killed or fails, or one that has no handler for the *)
(* signal yet, loses everything but the files.                             *)
Die ==
  /\ controlsd' = "down" /\ reload' = FALSE /\ candidate' = Unread
  /\ generation' = 0 /\ stamps' = [f \in Files |-> 0] /\ config' = [f \in Files |-> 0]
  /\ UNCHANGED disk
  /\ PlannerReset(0)

SignalRunning ==
  /\ reload' = (reload \/ controlsd \in {"running", "polling"})
  /\ UNCHANGED <<disk, controlsd, crashes, stamps, candidate, config, generation, plannerVars>>

SignalHandled ==
  /\ reload' = (reload \/ controlsd # "down")
  /\ UNCHANGED <<disk, controlsd, crashes, stamps, candidate, config, generation, plannerVars>>

(* notify_controlsd(), after the lock. *)
Notify ==
  /\ signalling /\ signalling' = FALSE
  /\ IF controlsd = "starting" THEN Die /\ UNCHANGED crashes ELSE SignalHandled

(* Someone else replaces a file, valid or not, without a signal; not while *)
(* controlsd starts, when only a signal would make it look again.          *)
Edit(f, valid) ==
  /\ LastChange < MaxVersion
  /\ controlsd \in {"down", "running", "polling"}
  /\ disk' = [disk EXCEPT ![f] = [version |-> LastChange + 1, valid |-> valid]]
  /\ UNCHANGED <<signalling, controlsd, crashes, reload, stamps, candidate, config, generation,
                 plannerVars>>

-----------------------------------------------------------------------------
(* main() up to the loop *)

Start ==
  /\ controlsd = "down"
  /\ controlsd' = "starting"
  /\ UNCHANGED <<disk, signalling, crashes, reload, stamps, candidate, config, generation, plannerVars>>

InstallHandler ==
  /\ controlsd = "starting" /\ controlsd' = "loading"
  /\ UNCHANGED <<disk, signalling, crashes, reload, stamps, candidate, config, generation,
                 plannerVars>>

(* load_runtime_params(): one file; all of them are in use or none is. *)
ReadFile(f) ==
  /\ controlsd \in {"loading", "polling"}
  /\ candidate[f] = None
  /\ IF disk[f].valid
     THEN /\ candidate' = [candidate EXCEPT ![f] = disk[f].version]
          /\ UNCHANGED <<disk, signalling, controlsd, crashes, reload, stamps, config, generation,
                         plannerVars>>
     ELSE IF controlsd = "loading" THEN Die /\ UNCHANGED <<signalling, crashes>>
     ELSE /\ controlsd' = "running" /\ candidate' = Unread   \* "reload rejected"
          /\ UNCHANGED <<disk, signalling, crashes, reload, stamps, config, generation, plannerVars>>

AllRead == \A f \in Files : candidate[f] # None

Loaded ==
  /\ controlsd = "loading" /\ AllRead
  /\ config' = candidate /\ candidate' = Unread /\ generation' = 1
  /\ controlsd' = "stamping"
  /\ PlannerReset(1)
  /\ UNCHANGED <<disk, signalling, crashes, reload, stamps>>

(* The constructor of RuntimeParams, after the learners were restored. *)
FirstStamp ==
  /\ controlsd = "stamping" /\ controlsd' = "running"
  /\ stamps' = Stamp
  /\ UNCHANGED <<disk, signalling, crashes, reload, candidate, config, generation, plannerVars>>

-----------------------------------------------------------------------------
(* The control loop *)

LooksStale == reload \/ stamps # Stamp

(* poll(), up to the load. *)
PollFiles ==
  /\ controlsd = "running" /\ LooksStale
  /\ controlsd' = "polling" /\ reload' = FALSE
  /\ stamps' = Stamp
  /\ UNCHANGED <<disk, signalling, crashes, candidate, config, generation, plannerVars>>

(* The rest of poll() and what the loop does when it returns true. *)
ApplyParams ==
  /\ controlsd = "polling" /\ AllRead
  /\ config' = candidate /\ candidate' = Unread /\ generation' = generation + 1
  /\ controlsd' = "running"
  /\ UpdateParams(generation')
  /\ UNCHANGED <<disk, signalling, crashes, reload, stamps>>

NewFrame == controlsd = "running" /\ Submit /\ UNCHANGED watchVars
WorkerRuns == controlsd \in {"stamping", "running", "polling", "leaving"} /\ WorkerStep /\ UNCHANGED watchVars
Crash ==
  /\ controlsd # "down" /\ crashes < MaxCrashes /\ crashes' = crashes + 1
  /\ Die /\ UNCHANGED signalling

(* SIGTERM ends the loop; main() returns when the planner's thread has. *)
Leave ==
  /\ controlsd = "running" /\ crashes < MaxCrashes /\ crashes' = crashes + 1
  /\ controlsd' = "leaving" /\ StopPlanner
  /\ UNCHANGED <<disk, signalling, reload, stamps, candidate, config, generation>>
Returned ==
  /\ controlsd = "leaving" /\ worker = "returned"
  /\ Die /\ UNCHANGED <<signalling, crashes>>

ReadSome == \E f \in Files : ReadFile(f)
Startup == Start \/ InstallHandler \/ Loaded \/ FirstStamp
ControlTick == PollFiles \/ ApplyParams \/ Returned

ParamNext ==
  \/ \E f \in Files : Save(f)
  \/ \E f \in Files, valid \in BOOLEAN : Edit(f, valid)
  \/ Notify \/ Startup \/ ReadSome \/ ControlTick \/ NewFrame \/ WorkerRuns \/ Crash \/ Leave

ParamSpec == ParamInit /\ [][ParamNext]_paramVars

(* The editor's thread, the manager and the threads of controlsd keep      *)
(* running; saves, edits, frames and crashes may or may not come.          *)
ParamFairSpec ==
  /\ ParamSpec
  /\ WF_paramVars(Notify) /\ WF_paramVars(Startup) /\ WF_paramVars(ReadSome)
  /\ WF_paramVars(ControlTick) /\ WF_paramVars(WorkerRuns)

-----------------------------------------------------------------------------
(* Properties *)

(* The plan in use is never from parameters older than those the loop had  *)
(* given the planner when it submitted the frame, and frames are planned   *)
(* in order, whatever requests and parameters replaced each other.         *)
PlansWithItsParams == latest.under <= latest.params /\ latest.under <= planner

(* The inductive invariant: the planner's parameters are on their way from  *)
(* the newest handed over, and none of the steps takes older ones than the  *)
(* request it plans was submitted under.                                    *)
PlannerInv ==
  /\ {pending_params, generation, planner, request.under, latest.under, latest.params,
      taken.params, taken.request.under} \subseteq Nat
  /\ PlansWithItsParams
  /\ pending_params = generation
  /\ planner <= generation /\ request.under <= generation
  /\ ~params_pending => generation = IF worker = "apply" THEN taken.params ELSE planner
  /\ worker = "apply" =>
       /\ planner <= taken.params /\ taken.params <= generation
       /\ taken.has_request => taken.request.under <= taken.params
  /\ worker = "publish" => taken.request.under <= planner

(* What was saved ends up in use, in the loop and in the planner: if all   *)
(* files are valid, controlsd runs and nothing changes any more, however   *)
(* saves, signals, crashes and loads were mixed before, also when the      *)
(* save met a controlsd that was just starting.                            *)
SavesTakeEffect ==
  []<>(\/ \E f \in Files : ~disk[f].valid
       \/ /\ controlsd = "running"
          /\ \A f \in Files : config[f] = disk[f].version
          /\ planner = generation /\ latest.frame = request.frame)
=============================================================================
