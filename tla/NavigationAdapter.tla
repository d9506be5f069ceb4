-------------------------- MODULE NavigationAdapter --------------------------
(***************************************************************************)
(* The navigation adapter: ScoutNavigationAdapter (scout_adapter.py).  It  *)
(* receives the coordinator's commands, starts and stops the navigation    *)
(* process, and drives move_base through the waypoints of an execution.    *)
(*                                                                         *)
(* Threads: "command" (the ROS callback of the command topic), "worker"    *)
(* (_run, one per execution), the preparation thread (_run_prepare), the   *)
(* "watchdog" timer, "shutdown" (the ROS shutdown callback) and the        *)
(* operator's reset service.  They share `lock`, held only for what is one *)
(* action here, and `terminal_lock`, held through a whole terminal         *)
(* operation (_finish, _unload, _close_once).                              *)
(*                                                                         *)
(* The control interlock is the module ControlSafety; here its operations  *)
(* succeed or fail as that module allows: arm() ends enabled or not, a     *)
(* disarm or stop that fails latches.  Validations, localization and the   *)
(* services may fail whenever they are asked.  A task stands for its map.  *)
(***************************************************************************)
EXTENDS Naturals, FiniteSets

CONSTANTS
    Executions,     \* execution records, compared by identity
    Tasks,          \* prepared tasks, each with a map of its own
    Waypoints,      \* the number of waypoints of a trajectory
    Profiles,       \* the configurations: see Profile
    None

\* safety: auto_arm_on_schedule; managed: navigation_management = "managed";
\* direct: no safety gate; stop: a control_stop_service is configured.
Profile == [safety: BOOLEAN, managed: BOOLEAN, direct: BOOLEAN, stop: BOOLEAN]

Callers == {"command", "worker", "watchdog", "shutdown"}
EndStates == {"completed", "stopped", "failed", "unloaded", "emergency_stopped"}

\* A terminal operation: _finish for a state, or _close_once.
Call == [op: {"finish", "close"}, state: EndStates, fault: BOOLEAN, force: BOOLEAN,
         expected: Executions \union {None}, errors: BOOLEAN,
         step: {"enter", "cancel", "disable", "report"}]

ASSUME AdapterConstants ==
    /\ Waypoints \in Nat \ {0}
    /\ Profiles \subseteq Profile
    /\ \A p \in Profiles : (p.direct \/ p.stop) => p.safety
    /\ None \notin Executions \union Tasks \union Callers /\ None \notin Call

VARIABLES
    profile,        \* the configuration, fixed at start
    execution,      \* self.execution: the current execution, or None
    prepared,       \* self.prepared: the task prepared for, or None
    client,         \* self.client is set
    navigation,     \* self.navigation_process: "none", "running" or "exited"
    flags,          \* stop_event, stopping, closing, closed, close_permanent, control_armed
    monitor,        \* monitor_timer is running
    latched,        \* the interlock's emergency stop is latched
    enabled,        \* the robot's controller accepts motion
    goal,           \* the execution whose move_base goal is active, or None
    worker,         \* the step of the thread _run, its execution and waypoint
    preparer,       \* the step of the thread _run_prepare, and its task
    command,        \* the step of the command being handled
    watchdog,       \* the step of the watchdog, what it read, and whether the process was replaced
    call,           \* the terminal operation each caller is in, or None
    terminal,       \* the caller that holds terminal_lock, or None
    wanted          \* the coordinator: the task it asked to prepare, and whether that is ready

system == <<execution, prepared, client, navigation, flags, monitor>>
robot == <<latched, enabled, goal>>
threads == <<worker, preparer, command, watchdog, call, terminal>>
vars == <<profile, system, robot, threads, wanted>>

Flags == [stop: BOOLEAN, stopping: BOOLEAN, closing: BOOLEAN, closed: BOOLEAN,
          permanent: BOOLEAN, armed: BOOLEAN]

WorkerSteps == {"ended", "waiting", "arming", "armed", "next", "driving", "finishing"}
PreparerSteps == {"ended", "connecting", "reporting", "failed", "stopping"}
CommandSteps == {"idle", "cancel", "ending", "latching", "confirming",
                 "unloading", "cancelAll", "unload", "forget"}
WatchdogSteps == {"idle", "control", "failing", "cleaning"}

TypeOK ==
    /\ profile \in Profiles
    /\ execution \in Executions \union {None}
    /\ prepared \in Tasks \union {None}
    /\ client \in BOOLEAN /\ monitor \in BOOLEAN
    /\ navigation \in {"none", "running", "exited"}
    /\ flags \in Flags
    /\ latched \in BOOLEAN /\ enabled \in BOOLEAN
    /\ goal \in Executions \union {None}
    /\ worker \in [step: WorkerSteps, execution: Executions \union {None}, index: 0..Waypoints - 1]
    /\ preparer \in [step: PreparerSteps, task: Tasks \union {None}]
    /\ command \in CommandSteps
    /\ watchdog \in [step: WatchdogSteps, seen: Executions \union {None}, replaced: BOOLEAN]
    /\ call \in [Callers -> Call \union {None}]
    /\ terminal \in Callers \union {None}
    /\ wanted \in [task: Tasks \union {None}, ready: BOOLEAN]

NoWorker == [step |-> "ended", execution |-> None, index |-> 0]
NothingWanted == [task |-> None, ready |-> FALSE]
NoPreparer == [step |-> "ended", task |-> None]

Init ==
    /\ profile \in Profiles
    /\ execution = None
    /\ prepared = None /\ client = FALSE /\ navigation = "none"
    /\ flags = [stop |-> FALSE, stopping |-> FALSE, closing |-> FALSE, closed |-> FALSE,
                permanent |-> FALSE, armed |-> FALSE]
    /\ monitor = TRUE
    /\ latched \in (IF profile.safety THEN BOOLEAN ELSE {FALSE})
    /\ enabled = FALSE /\ goal = None
    /\ worker = NoWorker
    /\ preparer = NoPreparer
    /\ command = "idle"
    /\ watchdog = [step |-> "idle", seen |-> None, replaced |-> FALSE]
    /\ call = [t \in Callers |-> None]
    /\ terminal = None
    /\ wanted = NothingWanted

-----------------------------------------------------------------------------
\* In attach mode there is no process of the adapter's own to exit.
ProcessExited == profile.managed /\ navigation # "running"
WorkerAlive == worker.step # "ended"
PreparerAlive == preparer.step # "ended"
Resumable == flags.closed /\ ~flags.permanent
TerminalFree(t) == terminal \in {None, t}

\* The failures a move_base action state may be reported as.
MoveBaseFailure ==
    [aborted |-> {"NAVIGATION_PLAN_FAILED", "NAVIGATION_ACTION_FAILED"},
     rejected |-> {"NAVIGATION_GOAL_REJECTED"},
     preempted |-> {"NAVIGATION_GOAL_PREEMPTED"},
     lost |-> {"NAVIGATION_ACTION_LOST"}]
ActionFailures == UNION {MoveBaseFailure[s] : s \in DOMAIN MoveBaseFailure}
RecoverableNavigationFailures ==
    {"NAVIGATION_ACTION_FAILED", "NAVIGATION_GOAL_PREEMPTED", "NAVIGATION_GOAL_REJECTED",
     "NAVIGATION_PLAN_FAILED", "NAVIGATION_WAYPOINT_TIMEOUT"}

\* Which terminal results engage the persistent safety stop.
RequiresFaultStop(state, code) ==
    \/ state = "emergency_stopped"
    \/ state = "failed" /\ code \notin RecoverableNavigationFailures

Finish(state, code, expected, force) ==
    [op |-> "finish", state |-> state, fault |-> RequiresFaultStop(state, code),
     force |-> force, expected |-> expected, errors |-> FALSE, step |-> "enter"]
Close == [op |-> "close", state |-> "unloaded", fault |-> FALSE, force |-> TRUE,
          expected |-> None, errors |-> FALSE, step |-> "enter"]
Calls(t, operation) == call[t] = None /\ call' = [call EXCEPT ![t] = operation]


-----------------------------------------------------------------------------
(* Preparation.  The coordinator schedules a task only when the latest     *)
(* PREPARE was for it and has been answered "ready".                       *)
PrepareAllowed ==
    /\ flags.closing => Resumable
    /\ execution = None /\ ~flags.stopping /\ ~WorkerAlive
    /\ ~latched /\ ~PreparerAlive

AlreadyPrepared(t) == prepared = t /\ ~ProcessExited /\ client

\* A PREPARE that is refused, that finds a preparation under way, or the task
\* prepared already.
PrepareAnswered(t) ==
    /\ command = "idle" /\ (PrepareAllowed => AlreadyPrepared(t))
    /\ wanted' = [task |-> t, ready |-> PrepareAllowed]
    /\ UNCHANGED <<profile, system, robot, threads>>

\* The watchdog, if it is about to clean up after a process, will find another one.
ReplacesProcess == watchdog' = [watchdog EXCEPT !.replaced = (watchdog.step = "cleaning")]

\* _start_navigation: the process that an attached adapter has not.
StartsNavigation == navigation' = IF profile.managed THEN "running" ELSE "none"

\* _prepare: the old navigation is stopped, a closed adapter resumes, and the
\* new navigation is started, which may fail.
Prepare(t) ==
    /\ command = "idle" /\ PrepareAllowed /\ ~AlreadyPrepared(t)
    /\ flags' = [flags EXCEPT !.stop = FALSE, !.closing = FALSE, !.closed = FALSE]
    /\ monitor' = (monitor \/ flags.closed)
    /\ client' = (client /\ navigation = "none")
    /\ ReplacesProcess
    /\ \/ /\ StartsNavigation
          /\ prepared' = t
          /\ preparer' = [step |-> "connecting", task |-> t]
       \/ /\ profile.managed
          /\ navigation' = "none"
          /\ UNCHANGED <<prepared, preparer>>
    /\ goal' = IF profile.managed THEN None ELSE goal
    /\ wanted' = [task |-> t, ready |-> FALSE]
    /\ UNCHANGED <<profile, execution, latched, enabled, worker, command, call, terminal>>

\* _run_prepare finds the action server and, under the lock, that its
\* preparation is still wanted.
PrepareConnects ==
    /\ preparer.step = "connecting" /\ ~ProcessExited
    /\ IF flags.stop \/ flags.stopping \/ prepared # preparer.task
       THEN preparer' = NoPreparer /\ UNCHANGED client
       ELSE preparer' = [preparer EXCEPT !.step = "reporting"] /\ client' = TRUE
    /\ UNCHANGED <<profile, execution, prepared, navigation, flags, monitor, robot,
                   worker, command, watchdog, call, terminal, wanted>>

PreparerMoves(from, to) ==
    /\ preparer.step = from
    /\ preparer' = IF to = "ended" THEN NoPreparer ELSE [preparer EXCEPT !.step = to]
    /\ UNCHANGED <<profile, system, robot, worker, command, watchdog, call, terminal>>

\* The coordinator takes feedback only of the preparation it asked for last.
Answers(ready) ==
    wanted' = IF wanted.task = preparer.task THEN [wanted EXCEPT !.ready = ready] ELSE wanted

PrepareReports == PreparerMoves("reporting", "ended") /\ Answers(TRUE)
PrepareGivesUp == flags.stop /\ PreparerMoves("connecting", "ended") /\ UNCHANGED wanted
\* The process exits, localization fails or the startup times out.
PrepareFails == ~flags.stop /\ PreparerMoves("connecting", "failed") /\ Answers(FALSE)

PrepareForgets ==
    /\ preparer.step = "failed"
    /\ preparer' = [preparer EXCEPT !.step = "stopping"]
    /\ prepared' = None /\ client' = FALSE
    /\ UNCHANGED <<profile, execution, navigation, flags, monitor, robot,
                   worker, command, watchdog, call, terminal, wanted>>

\* _stop_navigation: no goal survives its move_base.
StopsNavigation ==
    /\ navigation' = "none"
    /\ goal' = IF profile.managed THEN None ELSE goal

PrepareStopsNavigation ==
    /\ preparer.step = "stopping"
    /\ preparer' = NoPreparer
    /\ StopsNavigation
    /\ ReplacesProcess
    /\ UNCHANGED <<profile, execution, prepared, client, flags, monitor, latched, enabled,
                   worker, command, call, terminal, wanted>>

-----------------------------------------------------------------------------
\* Executions some thread, or move_base, still refers to.
Referenced ==
    {execution, goal, worker.execution, watchdog.seen}
        \union {call[t].expected : t \in {u \in Callers : call[u] # None}}

(* Execution.  A SCHEDULE while an execution, a terminal operation or the  *)
(* worker thread is still there is dropped without an answer.              *)
\* Mutant: a second SCHEDULE replaces the execution.
ScheduleAllowedAgain(t) ==
    /\ ~flags.closing /\ ~flags.stopping /\ ~latched
    /\ prepared = t /\ client /\ ~ProcessExited

ScheduleAllowed(t) ==
    /\ ~flags.closing /\ execution = None /\ ~flags.stopping /\ ~WorkerAlive
    /\ ~latched
    /\ prepared = t /\ client /\ ~ProcessExited

Schedule(e, t) ==
    /\ command = "idle" /\ e \notin Referenced
    /\ wanted = [task |-> t, ready |-> TRUE]
    /\ ScheduleAllowed(t)
    /\ execution' = e
    /\ flags' = [flags EXCEPT !.stop = FALSE]
    /\ worker' = [step |-> "waiting", execution |-> e, index |-> 0]
    /\ UNCHANGED <<profile, wanted, prepared, client, navigation, monitor, robot,
                   preparer, command, watchdog, call, terminal>>

Mine == execution = worker.execution
WorkerTo(step) ==
    worker' = IF step = "ended" THEN NoWorker ELSE [worker EXCEPT !.step = step]

\* The exception handler of _run: only the current execution is finished, and
\* only when nobody is finishing it already.
Raises(code) ==
    IF Mine /\ ~flags.stopping
    THEN /\ WorkerTo("finishing")
         /\ Calls("worker", Finish("failed", code, worker.execution, FALSE))
    ELSE WorkerTo("ended") /\ UNCHANGED call

\* Each wait of _run ends when the stop event is set.
WorkerStops ==
    /\ worker.step \in {"waiting", "armed", "next", "driving"}
    /\ flags.stop \/ (worker.step \in {"armed", "next"} /\ ~Mine)
    /\ WorkerTo("ended")
    /\ UNCHANGED <<profile, system, robot, preparer, command, watchdog, call, terminal, wanted>>

\* The scheduled start has come, and the pose is known.
StartTimeComes ==
    /\ worker.step = "waiting" /\ ~flags.stop /\ client /\ ~ProcessExited
    /\ WorkerTo(IF profile.safety THEN "arming" ELSE "next")
    /\ UNCHANGED <<profile, system, robot, preparer, command, watchdog, call, terminal, wanted>>

\* control_safety.arm(): its last check is that nothing was stopped or latched.
ArmSucceeds ==
    /\ worker.step = "arming" /\ ~latched /\ ~flags.stop
    /\ enabled' = TRUE
    /\ WorkerTo("armed")
    /\ UNCHANGED <<profile, system, latched, goal, preparer, command, watchdog, call, terminal, wanted>>

\* It fails, having disarmed again, or latched when that failed too.
ArmFails ==
    /\ worker.step = "arming"
    /\ Raises("CONTROL_SERVICE_REJECTED")
    /\ \/ UNCHANGED <<latched, enabled, flags>>
       \/ /\ latched' = TRUE /\ enabled' \in BOOLEAN
          /\ flags' = [flags EXCEPT !.stop = TRUE]
    /\ UNCHANGED <<profile, execution, prepared, client, navigation, monitor, goal,
                   preparer, command, watchdog, terminal, wanted>>

Armed ==
    /\ worker.step = "armed" /\ ~flags.stop /\ Mine
    /\ flags' = [flags EXCEPT !.armed = TRUE]
    /\ WorkerTo("next")
    /\ UNCHANGED <<profile, execution, prepared, client, navigation, monitor, robot,
                   preparer, command, watchdog, call, terminal, wanted>>

\* assert_running lets a robot that is armed and not latched go on.
MayRun == flags.armed => ~latched

\* Mutant: the checks are made before the lock is taken, and are old when the goal is sent.
MaySendUnlocked == MayRun

\* The goal is sent under the lock, with the stop event and the execution checked.
MaySend == ~flags.stop /\ Mine /\ MayRun

SendGoal ==
    /\ worker.step = "next" /\ MaySend
    /\ goal' = IF ProcessExited THEN None ELSE worker.execution
    /\ WorkerTo("driving")
    /\ UNCHANGED <<profile, wanted, system, latched, enabled, preparer, command, watchdog, call, terminal>>

WaypointTimesOut ==
    /\ worker.step = "driving" /\ ~flags.stop
    /\ goal' = None
    /\ Raises("NAVIGATION_WAYPOINT_TIMEOUT")
    /\ UNCHANGED <<profile, system, latched, enabled, preparer, command, watchdog, terminal, wanted>>

\* What can fail, and how; only an action result ends the goal.
RunFails(code) ==
    /\ \/ code = "NAVIGATION_NOT_READY" /\ worker.step = "waiting" /\ (~client \/ ProcessExited)
       \/ code = "NAVIGATION_PROCESS_EXITED" /\ worker.step = "driving" /\ ProcessExited
       \/ code = "LOCALIZATION_UNAVAILABLE" /\ worker.step \in {"waiting", "driving"}
       \/ /\ code = "CONTROL_STATE_UNAVAILABLE" /\ flags.armed
          /\ worker.step \in {"next", "driving"}
       \/ code \in ActionFailures /\ worker.step = "driving"
    /\ ~flags.stop
    /\ goal' = IF code \in ActionFailures THEN None ELSE goal
    /\ Raises(code)
    /\ UNCHANGED <<profile, system, latched, enabled, preparer, command, watchdog, terminal, wanted>>

FailureCodes ==
    {"NAVIGATION_NOT_READY", "NAVIGATION_PROCESS_EXITED", "LOCALIZATION_UNAVAILABLE",
     "CONTROL_STATE_UNAVAILABLE"} \union ActionFailures

\* Mutant: off by one at the last waypoint.
MoreWaypointsInclusive == worker.index < Waypoints

MoreWaypoints == worker.index + 1 < Waypoints

WaypointReached ==
    /\ worker.step = "driving" /\ ~flags.stop /\ ~ProcessExited /\ MayRun
    /\ goal' = None
    /\ IF MoreWaypoints
       THEN worker' = [worker EXCEPT !.step = "next", !.index = @ + 1] /\ UNCHANGED call
       ELSE /\ WorkerTo("finishing")
            /\ Calls("worker", Finish("completed", "", worker.execution, FALSE))
    /\ UNCHANGED <<profile, system, latched, enabled, preparer, command, watchdog, terminal, wanted>>

WorkerEnds ==
    /\ worker.step = "finishing" /\ call["worker"] = None
    /\ WorkerTo("ended")
    /\ UNCHANGED <<profile, system, robot, preparer, command, watchdog, call, terminal, wanted>>

-----------------------------------------------------------------------------
(* Terminal operations: _finish and _close_once, step by step.             *)
StepTo(t, step) == call' = [call EXCEPT ![t].step = step]
Returns(t) == call' = [call EXCEPT ![t] = None]
InStep(t, step) == call[t] # None /\ call[t].step = step

\* Mutant: the stop event, which the caller has set, is taken for an end under way.
NothingToFinishOnceStopped(c) ==
    \/ flags.closing \/ flags.stop
    \/ c.expected # None /\ execution # c.expected
    \/ execution = None /\ c.state # "failed" /\ ~c.force

\* What _finish finds under the lock: nothing left for it to end.
NothingToFinish(c) ==
    \/ flags.closing
    \/ c.expected # None /\ execution # c.expected
    \/ execution = None /\ c.state # "failed" /\ ~c.force

FinishEnters(t) ==
    /\ InStep(t, "enter") /\ call[t].op = "finish" /\ TerminalFree(t)
    /\ IF NothingToFinish(call[t])
       THEN Returns(t) /\ UNCHANGED <<flags, terminal>>
       ELSE /\ flags' = [flags EXCEPT !.stop = TRUE, !.stopping = TRUE]
            /\ terminal' = t
            /\ call' = [call EXCEPT ![t] = [@ EXCEPT
                           !.step = IF profile.safety THEN "cancel" ELSE "report",
                           !.expected = None, !.force = FALSE]]
    /\ UNCHANGED <<profile, execution, prepared, client, navigation, monitor, robot,
                   worker, preparer, command, watchdog, wanted>>

CloseEnters(t) ==
    /\ InStep(t, "enter") /\ call[t].op = "close" /\ TerminalFree(t)
    /\ IF flags.closed
       THEN Returns(t) /\ UNCHANGED terminal
       ELSE terminal' = t /\ StepTo(t, "cancel")
    /\ UNCHANGED <<profile, system, robot, worker, preparer, command, watchdog, wanted>>

\* cancel_all_goals, which may fail or not be confirmed.
CancelGoals(t) ==
    /\ InStep(t, "cancel")
    /\ \/ /\ goal' = IF client THEN None ELSE goal
          /\ call' = [call EXCEPT ![t].step = "disable"]
       \/ /\ client /\ profile.safety
          /\ call' = [call EXCEPT ![t].step = "disable", ![t].errors = TRUE]
          /\ UNCHANGED goal
    /\ UNCHANGED <<profile, system, latched, enabled, worker, preparer, command, watchdog,
                   terminal, wanted>>

\* A fault stop uses the stop service; any other end disarms.
FaultStop(c) == profile.stop /\ (c.fault \/ (profile.direct /\ c.errors))

Disabled(t, failed) ==
    call' = [call EXCEPT ![t] = [call[t] EXCEPT !.step = "report", !.errors = @ \/ failed,
                                                !.fault = FALSE]]

\* control_safety.stop
StopsControl(t) ==
    /\ FaultStop(call[t])
    /\ latched' = TRUE /\ enabled' \in {FALSE, enabled}
    /\ Disabled(t, enabled')

\* Mutant: the service's answer is taken for the control state.
DisarmsUnconfirmed(t) ==
    /\ ~FaultStop(call[t]) /\ worker.step # "arming"
    /\ enabled' \in {FALSE, enabled}
    /\ latched' = (latched \/ call[t].errors)
    /\ Disabled(t, FALSE)

\* disarm, confirmed, once no arming holds the transition; an error left over
\* is then stopped or latched.
Disarms(t) ==
    /\ ~FaultStop(call[t]) /\ worker.step # "arming"
    /\ enabled' = FALSE
    /\ latched' = (latched \/ call[t].errors)
    /\ Disabled(t, FALSE)

\* Mutant: a failed disarm is reported and nothing more.
DisarmFailsUnlatched(t) ==
    /\ ~FaultStop(call[t])
    /\ enabled' \in {FALSE, enabled}
    /\ UNCHANGED latched
    /\ Disabled(t, TRUE)

\* disarm, refused, timed out or not confirmed.
DisarmFails(t) ==
    /\ ~FaultStop(call[t])
    /\ latched' = TRUE /\ enabled' \in {FALSE, enabled}
    /\ Disabled(t, TRUE)

Disable(t) ==
    /\ InStep(t, "disable")
    /\ IF profile.safety
       THEN /\ StopsControl(t) \/ Disarms(t) \/ DisarmFails(t)
            /\ flags' = [flags EXCEPT !.stop = TRUE, !.armed = FALSE]
       ELSE UNCHANGED <<latched, enabled, flags>> /\ Disabled(t, FALSE)
    /\ UNCHANGED <<profile, execution, prepared, client, navigation, monitor, goal,
                   worker, preparer, command, watchdog, terminal, wanted>>

\* What the operation reports in the end.
Outcome(c) ==
    IF c.errors \/ (c.state = "completed" /\ latched) THEN "failed" ELSE c.state

\* The feedback, the end of the execution and the end of the operation.
FinishReports(t) ==
    /\ InStep(t, "report") /\ call[t].op = "finish"
    /\ execution' = None
    /\ flags' = [flags EXCEPT !.stopping = FALSE]
    /\ terminal' = IF t = "command" /\ command = "unloading" THEN "command" ELSE None
    /\ Returns(t)
    /\ UNCHANGED <<profile, prepared, client, navigation, monitor, robot,
                   worker, preparer, command, watchdog, wanted>>

\* Mutant: closing waits for the interlock and leaves the navigation running.
CloseReportsKeepsNavigation(t) ==
    /\ InStep(t, "report") /\ call[t].op = "close"
    /\ execution' = None /\ prepared' = None /\ client' = FALSE
    /\ latched' = (latched \/ (profile.safety /\ call[t].errors))
    /\ flags' = [flags EXCEPT !.stopping = FALSE, !.armed = FALSE, !.closed = TRUE]
    /\ terminal' = None /\ Returns(t)
    /\ UNCHANGED <<profile, navigation, goal, monitor, enabled, worker, preparer,
                   command, watchdog, wanted>>

\* The navigation is stopped and everything forgotten; errors latch.
CloseReports(t) ==
    /\ InStep(t, "report") /\ call[t].op = "close"
    /\ StopsNavigation
    /\ execution' = None /\ prepared' = None /\ client' = FALSE
    /\ latched' = (latched \/ (profile.safety /\ call[t].errors))
    /\ flags' = [flags EXCEPT !.stopping = FALSE, !.armed = FALSE, !.closed = TRUE]
    /\ ReplacesProcess
    /\ terminal' = None /\ Returns(t)
    /\ UNCHANGED <<profile, monitor, enabled, worker, preparer, command, wanted>>

-----------------------------------------------------------------------------
(* The other commands, one at a time in the command topic's thread.        *)
Halts == [flags EXCEPT !.stop = TRUE, !.stopping = profile.safety \/ @]

\* STOP and CANCEL, of whatever execution they name.
Stop ==
    /\ command = "idle"
    /\ flags' = Halts
    /\ IF profile.safety
       THEN command' = "ending" /\ Calls("command", Finish("stopped", "", None, TRUE))
       ELSE command' = "cancel" /\ UNCHANGED call
    /\ UNCHANGED <<profile, execution, prepared, client, navigation, monitor, robot,
                   worker, preparer, watchdog, terminal, wanted>>

\* Without the interlock: the goals, then the zero velocity and the end.
StopCancels ==
    /\ command = "cancel"
    /\ goal' = IF client THEN None ELSE goal
    /\ command' = "ending"
    /\ Calls("command", Finish("stopped", "", None, FALSE))
    /\ UNCHANGED <<profile, system, latched, enabled, worker, preparer, watchdog, terminal, wanted>>

\* EMERGENCY_STOP, refused without the interlock: the event, the flag, the latch.
EmergencyStop ==
    /\ command = "idle" /\ profile.safety
    /\ flags' = Halts
    /\ command' = "latching"
    /\ wanted' = NothingWanted
    /\ UNCHANGED <<profile, execution, prepared, client, navigation, monitor, robot,
                   worker, preparer, watchdog, call, terminal>>

\* The latch holds in memory even when it cannot be saved.
EmergencyLatches ==
    /\ command = "latching"
    /\ latched' = TRUE
    /\ flags' = [flags EXCEPT !.stop = TRUE]
    /\ \E state \in {"emergency_stopped", "failed"} :
          Calls("command", Finish(state, "EMERGENCY_STOP_PERSISTENCE_FAILED", None, TRUE))
    /\ command' = "confirming"
    /\ UNCHANGED <<profile, execution, prepared, client, navigation, monitor, enabled, goal,
                   worker, preparer, watchdog, terminal, wanted>>

\* UNLOAD holds the terminal lock from here to its end.
Unload ==
    /\ command = "idle" /\ TerminalFree("command") /\ ~flags.closing
    /\ terminal' = "command"
    /\ flags' = Halts
    /\ IF profile.safety
       THEN command' = "unloading" /\ Calls("command", Finish("unloaded", "", None, TRUE))
       ELSE command' = "cancelAll" /\ UNCHANGED call
    /\ wanted' = NothingWanted
    /\ UNCHANGED <<profile, execution, prepared, client, navigation, monitor, robot,
                   worker, preparer, watchdog>>

UnloadCancels ==
    /\ command = "cancelAll"
    /\ goal' = IF client THEN None ELSE goal
    /\ command' = "unload"
    /\ UNCHANGED <<profile, system, latched, enabled, worker, preparer, watchdog, call, terminal, wanted>>

UnloadStopsNavigation ==
    /\ command = "unload" \/ (command = "unloading" /\ call["command"] = None)
    /\ StopsNavigation
    /\ ReplacesProcess
    /\ command' = "forget"
    /\ UNCHANGED <<profile, execution, prepared, client, flags, monitor, latched, enabled,
                   worker, preparer, call, terminal, wanted>>

\* Mutant: the client of the navigation just stopped is kept.
UnloadForgetsNotClient ==
    /\ command = "forget"
    /\ execution' = IF profile.safety THEN execution ELSE None
    /\ prepared' = None
    /\ terminal' = None /\ command' = "idle"
    /\ UNCHANGED <<profile, client, navigation, flags, monitor, robot,
                   worker, preparer, watchdog, call, wanted>>

UnloadForgets ==
    /\ command = "forget"
    /\ execution' = IF profile.safety THEN execution ELSE None
    /\ prepared' = None /\ client' = FALSE
    /\ terminal' = None /\ command' = "idle"
    /\ UNCHANGED <<profile, navigation, flags, monitor, robot,
                   worker, preparer, watchdog, call, wanted>>

\* A STOP or an internal unload ends; an emergency stop also forgets what was prepared.
CommandEnds ==
    /\ command \in {"ending", "confirming"} /\ call["command"] = None
    /\ IF command = "confirming"
       THEN prepared' = None /\ client' = FALSE
       ELSE UNCHANGED <<prepared, client>>
    /\ command' = "idle"
    /\ UNCHANGED <<profile, execution, navigation, flags, monitor, robot,
                   worker, preparer, watchdog, call, terminal, wanted>>

\* The coordinator's shutdown-unload, or ROS's shutdown, begins to close.
Closes(t, permanent) ==
    /\ Calls(t, Close)
    /\ flags' = [flags EXCEPT !.permanent = @ \/ permanent, !.closing = TRUE, !.stop = TRUE]
    /\ monitor' = FALSE
    /\ wanted' = NothingWanted
    /\ UNCHANGED <<profile, execution, prepared, client, navigation, robot,
                   worker, preparer, watchdog, terminal>>

ShutdownUnload ==
    /\ command = "idle" /\ command' = "ending"
    /\ \E permanent \in BOOLEAN : Closes("command", permanent)

Shutdown == ~flags.permanent /\ Closes("shutdown", TRUE) /\ UNCHANGED command

-----------------------------------------------------------------------------
(* The watchdog timer.                                                     *)
WatchdogTo(step, seen, replaced) ==
    watchdog' = [step |-> step, seen |-> seen, replaced |-> replaced]

ControlDue == flags.armed /\ ~flags.stop

WatchdogLooks ==
    /\ watchdog.step = "idle" /\ monitor /\ ~flags.closing /\ ControlDue
    /\ WatchdogTo("control", execution, FALSE)
    /\ UNCHANGED <<profile, system, robot, worker, preparer, command, call, terminal, wanted>>

\* assert_running fails, for the execution read under the lock a moment ago.
ControlLost ==
    /\ watchdog.step = "control"
    /\ IF watchdog.seen = None
       THEN WatchdogTo("idle", None, FALSE) /\ UNCHANGED call
       ELSE /\ WatchdogTo("failing", None, FALSE)
            /\ Calls("watchdog",
                     Finish("failed", "CONTROL_STATE_UNAVAILABLE", watchdog.seen, FALSE))
    /\ UNCHANGED <<profile, system, robot, worker, preparer, command, terminal, wanted>>

WatchdogReturns ==
    /\ \/ watchdog.step = "failing" /\ call["watchdog"] = None
       \/ watchdog.step = "control" /\ ~latched
    /\ WatchdogTo("idle", None, FALSE)
    /\ UNCHANGED <<profile, system, robot, worker, preparer, command, call, terminal, wanted>>

\* The second half of a tick, after the control state was found in order.
WatchdogGoesOn ==
    \/ watchdog.step = "idle" /\ monitor /\ ~flags.closing /\ ~ControlDue
    \/ watchdog.step = "control" /\ ~latched

\* The process has exited: the execution, or the preparation, has failed.
ExitFound ==
    /\ WatchdogGoesOn /\ navigation = "exited" /\ profile.safety
    /\ WatchdogTo("cleaning", None, FALSE)
    /\ IF execution # None \/ prepared # None
       THEN Calls("watchdog", Finish("failed", "NAVIGATION_PROCESS_EXITED", execution, TRUE))
       ELSE UNCHANGED call
    /\ UNCHANGED <<profile, system, robot, worker, preparer, command, terminal, wanted>>

\* Unless it was replaced meanwhile, what belonged to it is forgotten.
ExitCleans ==
    /\ watchdog.step = "cleaning" /\ call["watchdog"] = None
    /\ WatchdogTo("idle", None, FALSE)
    /\ IF watchdog.replaced
       THEN UNCHANGED <<navigation, prepared, client, goal>>
       ELSE StopsNavigation /\ prepared' = None /\ client' = FALSE
    /\ UNCHANGED <<profile, execution, flags, monitor, latched, enabled,
                   worker, preparer, command, call, terminal, wanted>>

\* Without the interlock, everything at once under the lock.
ExitForgets ==
    /\ WatchdogGoesOn /\ navigation = "exited" /\ ~profile.safety
    /\ navigation' = "none"
    /\ execution' = None /\ prepared' = None /\ client' = FALSE
    /\ flags' = [flags EXCEPT !.stop = TRUE]
    /\ WatchdogTo("idle", None, FALSE)
    /\ UNCHANGED <<profile, monitor, robot, worker, preparer, command, call, terminal, wanted>>

-----------------------------------------------------------------------------
(* The operator and the robot.                                             *)
\* _reset_emergency_stop, with the robot seen to be disabled.
ResetEmergencyStop ==
    /\ profile.safety /\ latched /\ ~enabled
    /\ flags.closing => Resumable
    /\ execution = None /\ ~flags.stopping /\ ~WorkerAlive /\ ~PreparerAlive
    /\ latched' = FALSE
    /\ UNCHANGED <<profile, system, enabled, goal, threads, wanted>>

ProcessDies ==
    /\ navigation = "running"
    /\ navigation' = "exited" /\ goal' = None
    /\ UNCHANGED <<profile, execution, prepared, client, flags, monitor, latched, enabled,
                   threads, wanted>>

DisablesItself ==
    /\ enabled /\ enabled' = FALSE
    /\ UNCHANGED <<profile, system, latched, goal, threads, wanted>>

PrepareThread ==
    \/ PrepareConnects \/ PrepareReports \/ PrepareGivesUp \/ PrepareFails
    \/ PrepareForgets \/ PrepareStopsNavigation
WorkerThread ==
    \/ WorkerStops \/ StartTimeComes \/ ArmSucceeds \/ ArmFails \/ Armed
    \/ SendGoal \/ WaypointTimesOut \/ WaypointReached \/ WorkerEnds
    \/ \E code \in FailureCodes : RunFails(code)
Terminal(t) ==
    \/ FinishEnters(t) \/ CloseEnters(t) \/ CancelGoals(t) \/ Disable(t)
    \/ FinishReports(t) \/ CloseReports(t)
CommandThread ==
    \/ StopCancels \/ EmergencyLatches \/ UnloadCancels
    \/ UnloadStopsNavigation \/ UnloadForgets \/ CommandEnds
Commands ==
    \/ \E t \in Tasks : Prepare(t) \/ PrepareAnswered(t)
    \/ \E e \in Executions, t \in Tasks : Schedule(e, t)
    \/ Stop \/ EmergencyStop \/ Unload \/ ShutdownUnload
WatchdogThread ==
    \/ WatchdogLooks \/ ControlLost \/ WatchdogReturns
    \/ ExitFound \/ ExitCleans \/ ExitForgets
Environment == Shutdown \/ ResetEmergencyStop \/ ProcessDies \/ DisablesItself

Next ==
    \/ PrepareThread \/ WorkerThread \/ CommandThread \/ Commands
    \/ WatchdogThread \/ Environment
    \/ \E t \in Callers : Terminal(t)

Spec == Init /\ [][Next]_vars

-----------------------------------------------------------------------------
(* Properties.                                                             *)

\* A robot that accepts motion has somebody to disable it: it is latched, or an
\* execution or a terminal operation is there.  (_run arms, then drives;
\* _finish_control disarms and latches when that fails.)
EnabledIsOwned == enabled => latched \/ execution # None \/ terminal # None

\* With a navigation of the adapter's own, a client is kept only while there is
\* a process it belongs to, or by an UNLOAD under way: preparation, unload,
\* watchdog and close each stop the process and forget the client in steps, and
\* only the unload holds the lock in between.
ClientHasNavigation ==
    client /\ profile.managed => navigation # "none" \/ terminal = "command"

\* Whatever threads were under way when it began to close, a closed adapter has
\* no execution, no navigation process and, unless latched, a disabled robot.
ClosedIsQuiet ==
    flags.closed => execution = None /\ navigation = "none" /\ (enabled => latched)

\* The end a thread reports to the coordinator with success or a stop, in one step.
Reports(t) == InStep(t, "report") /\ call[t].op = "finish" /\ call'[t] = None
ReportsConfirmed(t) == Reports(t) /\ Outcome(call[t]) # "failed"

\* "stopped", "completed", "unloaded" or "emergency_stopped" is reported only
\* with the robot disabled or latched (_finish_control).
ReportedIsDisabled ==
    [][\A t \in Callers : ReportsConfirmed(t) => (enabled => latched)]_vars

\* ... and with no goal of the reported execution left in move_base: none was
\* sent after the goals were cancelled (_run, _finish_control).
ReportedIsCancelled ==
    [][\A t \in Callers : ReportsConfirmed(t) => goal = None \/ goal # execution]_vars

\* An emergency stop is confirmed only while its latch holds: "EMERGENCY_STOP
\* latches until the operator resets it".  _finish clears `stopping` for another
\* operation, and the reset service then runs between the latch and the report.
EmergencyConfirmedLatched ==
    [][\A t \in Callers :
         ReportsConfirmed(t) /\ call[t].state = "emergency_stopped" => latched]_vars

\* The adapter keeps its promise to the coordinator: executions one at a time,
\* no goal for one that was stopped, replaced or ended.
Lifecycle == INSTANCE ExecutionLifecycle
    WITH current <- execution, halted <- (execution # None /\ flags.stop), moving <- goal
KeepsLifecycle == Lifecycle!Spec

\* The threads run, every wait has a timeout, and whoever waits for
\* terminal_lock is served in the end.
Fairness ==
    /\ WF_vars(WorkerThread) /\ WF_vars(CommandThread)
    /\ \A t \in Callers : SF_vars(Terminal(t))

FairSpec == Spec /\ Fairness

\* Every execution taken ends: no failure, stop, lost process or lock leaves it
\* current for ever, and the next one refused.
ExecutionEnds == \A e \in Executions : execution = e ~> execution # e
=============================================================================
