------------------------------ MODULE Manager ------------------------------
(***************************************************************************)
(* k230_manager.py: starts the processes in order, starts again those that *)
(* exit, and on SIGINT or SIGTERM stops them all, by SIGKILL when three    *)
(* seconds were not enough.                                                *)
(*                                                                         *)
(* The signal handler runs between any two steps of run(), also between    *)
(* the fork of a child and the assignment of its Popen object, when        *)
(* neither run() nor the handler knows of the child.                       *)
(***************************************************************************)
EXTENDS Naturals

CONSTANTS
  ProcCount,   \* processes, in the order of self.procs
  MaxExits     \* exits of processes: a bound of the model

ASSUME ManagerAssumption == ProcCount \in Nat \ {0} /\ MaxExits \in Nat

Procs == 1 .. ProcCount

VARIABLES
  child,       \* process -> "none", "alive", "stopping" (told to stop) or "exited"
  handle,      \* process -> state.proc is not None
  due,         \* process -> next_restart_monotonic has passed
  at,          \* what run() does next, and for which process
  shutdown,
  published,   \* the processes the newest managerState calls running
  exits

managerVars == <<child, handle, due, at, shutdown, published, exits>>

ManagerTypeOK ==
  /\ child \in [Procs -> {"none", "alive", "stopping", "exited"}]
  /\ handle \in [Procs -> BOOLEAN] /\ due \in [Procs -> BOOLEAN]
  /\ at \in [step : {"start", "assign", "loop", "poll", "restart", "reassign", "terminate",
                    "wait", "kill", "returned", "raised"},
            proc : 1 .. ProcCount + 1]
  /\ shutdown \in BOOLEAN /\ exits \in Nat /\ published \subseteq Procs

ManagerInit ==
  /\ child = [p \in Procs |-> "none"] /\ handle = [p \in Procs |-> FALSE]
  /\ due = [p \in Procs |-> TRUE]
  /\ at = [step |-> "start", proc |-> 1]
  /\ shutdown = FALSE /\ published = {} /\ exits = 0

Running(p) == handle[p] /\ child[p] \in {"alive", "stopping"}

-----------------------------------------------------------------------------
(* Around the manager *)

(* A process ends by itself, or because it was told to. *)
ChildExits(p) ==
  /\ child[p] \in {"alive", "stopping"}
  /\ child[p] = "alive" => exits < MaxExits
  /\ exits' = IF child[p] = "alive" THEN exits + 1 ELSE exits
  /\ child' = [child EXCEPT ![p] = "exited"]
  /\ UNCHANGED <<handle, due, at, shutdown, published>>

Told == [p \in Procs |-> IF Running(p) THEN "stopping" ELSE child[p]]

(* handle_signal() *)
Signal ==
  /\ ~shutdown /\ at.step \notin {"returned", "raised"}
  /\ shutdown' = TRUE /\ child' = Told
  /\ UNCHANGED <<handle, due, at, published, exits>>

-----------------------------------------------------------------------------
(* run() *)

Go(from, to) == at.step = from /\ at' = to
Step(step) == [step |-> step, proc |-> 1]
Following(step) == [step |-> step, proc |-> at.proc + 1]
Here(step) == at.step = step /\ at.proc \in Procs
Past(step) == at.step = step /\ at.proc \notin Procs
Rest == UNCHANGED <<shutdown, published, exits>>

(* start_proc(): Popen returns the child that it assigns in a step of its own. *)
Fork(step, assign) ==
  /\ Here(step) /\ at' = [at EXCEPT !.step = assign]
  /\ child' = [child EXCEPT ![at.proc] = "alive"]
  /\ UNCHANGED <<handle, due>> /\ Rest

Assign(assign, step) ==
  /\ at.step = assign /\ at' = Following(step)
  /\ handle' = [handle EXCEPT ![at.proc] = TRUE]
  /\ UNCHANGED <<child, due>> /\ Rest

(* Not found, or no resources: main() returns with the children running.   *)
StartRaises ==
  /\ \/ Here("start")
     \/ Here("restart") /\ ~handle[at.proc] /\ due[at.proc] /\ ~shutdown
  /\ at' = Step("raised")
  /\ UNCHANGED <<child, handle, due>> /\ Rest

(* The start does not look at shutdown; wait_for_display_ready() delays    *)
(* camerad for up to DISPLAY_READY_TIMEOUT_MS and starts it in any case.   *)
StartFork == Fork("start", "assign")
StartAssign == Assign("assign", "start")
Started ==
  /\ Past("start") /\ at' = Step("loop")
  /\ UNCHANGED <<child, handle, due>> /\ Rest

Loop ==
  /\ Go("loop", IF shutdown THEN Step("terminate") ELSE Step("poll"))
  /\ \/ UNCHANGED published
     \/ ~shutdown /\ published' = {p \in Procs : Running(p)}   \* once a second
  /\ UNCHANGED <<child, handle, due, shutdown, exits>>

(* poll() of each process *)
Reap(p) == handle[p] /\ child[p] = "exited"

PollChildPostponing ==
  /\ Here("poll") /\ at' = Following("poll")
  /\ handle' = [handle EXCEPT ![at.proc] = @ /\ ~Reap(at.proc)]
  /\ due' = [due EXCEPT ![at.proc] = @ /\ handle'[at.proc]]
  /\ UNCHANGED child /\ Rest

PollChild ==
  /\ Here("poll") /\ at' = Following("poll")
  /\ handle' = [handle EXCEPT ![at.proc] = @ /\ ~Reap(at.proc)]
  /\ due' = [due EXCEPT ![at.proc] = @ /\ ~Reap(at.proc)]
  /\ UNCHANGED child /\ Rest

Polled ==
  /\ Past("poll") /\ at' = Step("restart")
  /\ UNCHANGED <<child, handle, due>> /\ Rest

RestartDue(p) ==
  /\ ~due[p] /\ due' = [due EXCEPT ![p] = TRUE]
  /\ UNCHANGED <<child, handle, at>> /\ Rest

RestartFork ==
  /\ Here("restart") /\ ~handle[at.proc] /\ due[at.proc] /\ ~shutdown
  /\ Fork("restart", "reassign")
RestartAssign == Assign("reassign", "restart")

RestartSkip ==
  /\ Here("restart") /\ (handle[at.proc] \/ ~due[at.proc] \/ shutdown)
  /\ at' = Following("restart")
  /\ UNCHANGED <<child, handle, due>> /\ Rest

Restarted ==
  /\ Past("restart") /\ at' = Step("loop")
  /\ UNCHANGED <<child, handle, due>> /\ Rest

(* SIGTERM to all once more, then up to three seconds *)
Terminate ==
  /\ Go("terminate", Step("wait")) /\ child' = Told
  /\ UNCHANGED <<handle, due>> /\ Rest

Wait ==
  /\ Go("wait", Step("kill"))
  /\ UNCHANGED <<child, handle, due>> /\ Rest

Killed == [p \in Procs |-> IF Running(p) THEN "exited" ELSE child[p]]

Kill ==
  /\ Go("kill", Step("returned")) /\ child' = Killed
  /\ published' \in SUBSET {p \in Procs : Running(p)}   \* those not reaped yet
  /\ UNCHANGED <<handle, due, shutdown, exits>>

RunStep ==
  \/ StartFork \/ StartAssign \/ Started \/ Loop \/ PollChild \/ Polled
  \/ Restarted \/ RestartFork \/ RestartAssign \/ RestartSkip \/ Terminate \/ Wait \/ Kill

TimePasses == \E p \in Procs : RestartDue(p)
AnyChildExits == \E p \in Procs : ChildExits(p)

ManagerNext == RunStep \/ StartRaises \/ TimePasses \/ AnyChildExits \/ Signal

(* run() goes on and its clock advances. *)
ManagerFairSpec ==
  /\ ManagerInit /\ [][ManagerNext]_managerVars
  /\ WF_managerVars(RunStep) /\ WF_managerVars(TimePasses)

-----------------------------------------------------------------------------

(* No process outlives a manager that returns from run(), wherever in the  *)
(* start or in the loop the signal came.                                   *)
NoChildOutlivesManager ==
  at.step = "returned" => \A p \in Procs : child[p] \in {"none", "exited"}

(* The inductive invariant: run() knows of every child that lives, but for  *)
(* the one between its fork and the assignment of its Popen object.         *)
ManagerInv ==
  /\ ManagerTypeOK /\ NoChildOutlivesManager
  /\ at.step \in {"assign", "reassign"} => at.proc \in Procs
  /\ \A p \in Procs :
       child[p] \in {"alive", "stopping"} =>
         handle[p] \/ (at.step \in {"assign", "reassign"} /\ at.proc = p)

(* A process that exits is started again, until the manager is told to     *)
(* stop or fails.                                                          *)
DeadIsRestarted ==
  \A p \in Procs : child[p] = "exited" ~> child[p] # "exited" \/ shutdown \/ at.step = "raised"
=============================================================================
