--------------------------- MODULE GroundAirTask ---------------------------
(***************************************************************************)
(* The task adapter of the Ground-Air AGV (GroundAirTaskAdapter): it       *)
(* starts the native task stack on PREPARE, submits a mission to it on     *)
(* SCHEDULE, starts the mission at its UTC time, follows the mission's and *)
(* the vehicle's status, and keeps the emergency latch on disk.            *)
(*                                                                         *)
(* Threads: the command callback (one command at a time), the prepare      *)
(* worker, one execution worker per accepted schedule, the status          *)
(* callbacks and the watchdog.  What runs under self.lock is one step.     *)
(* The vehicle and its mission node are external.  A service of the node   *)
(* may never answer, and a ServiceProxy waits without a timeout: the start *)
(* call of a worker, made without the lock, is a step of its own.  The     *)
(* calls of _schedule and of the watchdog hold the lock while there is no  *)
(* execution: one that hangs there only keeps the next ones away.          *)
(***************************************************************************)
EXTENDS Naturals

CONSTANTS
    Scheduled,      \* bound: the executions scheduled, numbered in their order
    None

Missions == 1..Scheduled
MissionConstants == Scheduled \in Nat /\ None \notin Missions

VARIABLES
    commander,      \* the command callback: the command and how far it is
    preparer,       \* the prepare worker
    prepared,       \* a task is prepared
    execution,      \* self.execution: its mission ID, or None
    worker,         \* the execution worker of each mission
    stopEvent,      \* stop_event
    timing,         \* waypoint_started_at is set
    process,        \* task_process: "none", "running" or "exited"
    native,         \* the mission node: the mission it holds and its state
    scheduled,      \* how many executions were scheduled so far
    lockFile,       \* emergency_lock_file says active
    latched,        \* the vehicle's emergency stop
    transit,        \* a vehicle status message not delivered yet, or None
    status,         \* the emergency stop in the last one delivered, or None
    restoring       \* _restoring_lock

task == <<prepared, execution, timing, stopEvent>>
emergency == <<lockFile, latched, transit, status, restoring>>
vars == <<commander, preparer, task, worker, process, native, scheduled, emergency>>

TypeOK ==
    /\ commander \in {"idle", "posing", "cancelling", "cancelled", "unloading",
                      "latching", "latched", "persisted"}
    /\ preparer \in {"idle", "loading", "starting", "waiting", "speeding"}
    /\ prepared \in BOOLEAN /\ stopEvent \in BOOLEAN /\ timing \in BOOLEAN
    /\ execution \in Missions \union {None}
    /\ worker \in [Missions -> {"idle", "waiting", "posing", "checked", "calling", "started"}]
    /\ process \in {"none", "running", "exited"}
    /\ native \in [id: Missions \union {None}, state: {"ready", "running", "over"}]
    /\ scheduled \in 0..Scheduled
    /\ lockFile \in BOOLEAN /\ latched \in BOOLEAN /\ restoring \in BOOLEAN
    /\ transit \in BOOLEAN \union {None} /\ status \in BOOLEAN \union {None}

\* A start of the adapter, with the latch file that an earlier life left.
Init ==
    /\ commander = "idle" /\ preparer = "idle"
    /\ prepared = FALSE /\ execution = None
    /\ timing = FALSE /\ stopEvent = FALSE
    /\ worker = [m \in Missions |-> "idle"] /\ scheduled = 0
    /\ process = "none" /\ native = [id |-> None, state |-> "over"]
    /\ lockFile \in BOOLEAN /\ latched \in BOOLEAN
    /\ transit = None /\ status = None /\ restoring = lockFile

-----------------------------------------------------------------------------
(* The native mission node and the vehicle: a mission completes or fails.  *)
Cancelled == native' = [native EXCEPT !.state = "over"]

MissionOver ==
    /\ native.state = "running"
    /\ Cancelled
    /\ UNCHANGED <<commander, preparer, task, worker, process, scheduled, emergency>>

TaskStackExits ==
    /\ process = "running" /\ process' = "exited"
    /\ Cancelled
    /\ UNCHANGED <<commander, preparer, task, worker, scheduled, emergency>>

VehiclePublishes ==
    /\ transit' = latched
    /\ UNCHANGED <<commander, preparer, task, worker, process, native, scheduled,
                   lockFile, latched, status, restoring>>

OperatorResets ==
    /\ latched /\ latched' = FALSE
    /\ UNCHANGED <<commander, preparer, task, worker, process, native, scheduled,
                   lockFile, transit, status, restoring>>

-----------------------------------------------------------------------------
(* Status callbacks.                                                       *)
VehicleStatus ==
    /\ transit # None /\ transit' = None
    /\ status' = transit
    /\ lockFile' = (lockFile /\ (restoring \/ transit))
    /\ UNCHANGED <<commander, preparer, task, worker, process, native, scheduled,
                   latched, restoring>>

\* A new index restarts the clock of the waypoint, also that of a mission that
\* only waits for its start; then the end, if it has ended.
MissionStatus ==
    /\ execution # None /\ native.id = execution
    /\ IF native.state = "over"
       THEN execution' = None /\ timing' = FALSE
       ELSE timing' \in {timing, TRUE} /\ UNCHANGED execution
    /\ UNCHANGED <<commander, preparer, prepared, stopEvent, worker, process, native,
                   scheduled, emergency>>

-----------------------------------------------------------------------------
(* PREPARE and its worker.                                                 *)
Prepare ==
    /\ commander = "idle" /\ execution = None /\ preparer = "idle"
    /\ stopEvent' = FALSE /\ preparer' = "loading"
    /\ UNCHANGED <<commander, prepared, execution, timing, worker, process,
                   native, scheduled, emergency>>

PreparerTo(from, to) ==
    /\ preparer = from /\ preparer' = to
    /\ UNCHANGED <<commander, worker, native, scheduled, emergency>>

TaskLoaded == ~lockFile /\ PreparerTo("loading", "starting") /\ UNCHANGED <<task, process>>

StartTaskStack ==
    /\ PreparerTo("starting", "waiting")
    /\ process' = "running" /\ UNCHANGED task

ServicesReady ==
    /\ process = "running" /\ PreparerTo("waiting", "speeding")
    /\ UNCHANGED <<task, process>>

Ready ==
    /\ PreparerTo("speeding", "idle")
    /\ prepared' = TRUE /\ UNCHANGED <<execution, timing, stopEvent, process>>

PrepareFails ==
    /\ preparer # "idle" /\ PreparerTo(preparer, "idle")
    /\ prepared' = FALSE /\ UNCHANGED <<execution, timing, stopEvent, process>>

-----------------------------------------------------------------------------
(* SCHEDULE and the execution worker.                                      *)
Schedule ==
    /\ commander = "idle" /\ commander' = "posing"
    /\ stopEvent' = FALSE
    /\ UNCHANGED <<preparer, prepared, execution, timing, worker, process,
                   native, scheduled, emergency>>

VehicleReady == status = FALSE /\ ~lockFile

MaySubmit == commander = "posing" /\ execution = None /\ prepared /\ VehicleReady
             /\ process = "running"

\* The mission node holds the new mission, in place of any other.
Submits(m) ==
    /\ MaySubmit /\ m = scheduled + 1
    /\ scheduled' = m
    /\ native' = [id |-> m, state |-> "ready"]

Submit(m) ==
    /\ Submits(m)
    /\ execution' = m
    /\ timing' = FALSE /\ stopEvent' = FALSE
    /\ worker' = [worker EXCEPT ![m] = "waiting"]
    /\ commander' = "idle"
    /\ UNCHANGED <<preparer, prepared, process, emergency>>

\* No fresh pose in time, a check failed, or the time is past: this last after
\* the mission was submitted, which then stays with the mission node.
ScheduleFails ==
    /\ commander = "posing" /\ commander' = "idle"
    /\ UNCHANGED <<native, scheduled>> \/ \E m \in Missions : Submits(m)
    /\ UNCHANGED <<preparer, task, worker, process, emergency>>

WorkerTo(m, from, to) ==
    /\ worker[m] = from /\ worker' = [worker EXCEPT ![m] = to]
    /\ UNCHANGED <<commander, preparer, prepared, stopEvent, process, scheduled,
                   emergency>>

\* It finds the stop event at its next look.
WorkerStops(m) ==
    /\ stopEvent /\ WorkerTo(m, "waiting", "idle")
    /\ UNCHANGED <<execution, timing, native>>

TimeComes(m) == WorkerTo(m, "waiting", "posing") /\ UNCHANGED <<execution, timing, native>>

StillMine(m) == execution = m /\ ~stopEvent

PoseFresh(m) ==
    /\ WorkerTo(m, "posing", IF StillMine(m) THEN "checked" ELSE "idle")
    /\ UNCHANGED <<execution, timing, native>>

\* Too late, not localized, not ready, or refused, also by the end of the mission
\* node: the execution fails unless it has been ended or replaced meanwhile.
WorkerFails(m) ==
    /\ worker[m] \in {"posing", "checked", "calling"} /\ WorkerTo(m, worker[m], "idle")
    /\ execution' = IF StillMine(m) THEN None ELSE execution
    /\ UNCHANGED <<timing, native>>

CallStart(m) ==
    /\ VehicleReady /\ process = "running"
    /\ WorkerTo(m, "checked", "calling")
    /\ UNCHANGED <<execution, timing, native>>

\* The service starts the mission that the node holds, whichever it is.
Starts == native.state = "ready" /\ native' = [native EXCEPT !.state = "running"]

StartMission(m) ==
    /\ process = "running" /\ Starts
    /\ WorkerTo(m, "calling", "started")
    /\ UNCHANGED <<execution, timing>>

\* The node starts the mission, and its answer does not come, or comes late.
StartUnanswered ==
    /\ process = "running" /\ Starts
    /\ \E m \in Missions : worker[m] = "calling"
    /\ UNCHANGED <<commander, preparer, task, worker, process, scheduled, emergency>>

StartAnswered(m) ==
    /\ process = "running" /\ native.state = "running"
    /\ WorkerTo(m, "calling", "started")
    /\ UNCHANGED <<execution, timing, native>>

\* Mutant: only a status message starts the waypoint's clock.
StartedUntimed(m) ==
    /\ WorkerTo(m, "started", "idle")
    /\ UNCHANGED <<execution, timing, native>>

Started(m) ==
    /\ WorkerTo(m, "started", "idle")
    /\ timing' = TRUE
    /\ UNCHANGED <<execution, native>>

-----------------------------------------------------------------------------
(* STOP, UNLOAD, EMERGENCY_STOP.                                           *)
Command(step) ==
    /\ commander = "idle" /\ commander' = step
    /\ UNCHANGED <<preparer, task, worker, process, native, scheduled, emergency>>

\* The cancel service is called while the task process runs; when it fails,
\* only the failure is reported.
StopCancels ==
    /\ commander = "cancelling"
    /\ \/ process = "running" /\ Cancelled /\ commander' = "cancelled"
       \/ process # "running" /\ UNCHANGED native /\ commander' = "cancelled"
       \/ UNCHANGED native /\ commander' = "idle"
    /\ UNCHANGED <<preparer, task, worker, process, scheduled, emergency>>

StopEnds ==
    /\ commander = "cancelled" /\ commander' = "idle"
    /\ execution' = None /\ stopEvent' = TRUE /\ timing' = FALSE
    /\ UNCHANGED <<prepared, preparer, worker, process, native, scheduled, emergency>>

ForgetsTask ==
    /\ execution' = None /\ prepared' = FALSE /\ stopEvent' = TRUE
    /\ process' = "none" /\ Cancelled
    /\ UNCHANGED <<timing, preparer, worker, scheduled>>

Unload ==
    /\ commander = "unloading" /\ commander' = "idle"
    /\ \/ ForgetsTask
       \/ execution # None              \* the mission cannot be cancelled
          /\ UNCHANGED <<preparer, task, worker, process, native, scheduled>>
    /\ UNCHANGED emergency

LatchConfirmed == latched' = TRUE /\ UNCHANGED <<lockFile, transit, status, restoring>>

EmergencyLatches ==
    /\ commander = "latching"
    /\ \/ LatchConfirmed /\ commander' = "latched"
       \/ commander' = "idle" /\ UNCHANGED emergency
    /\ UNCHANGED <<preparer, task, worker, process, native, scheduled>>

EmergencyPersists ==
    /\ commander = "latched" /\ commander' = "persisted"
    /\ lockFile' = TRUE
    /\ UNCHANGED <<preparer, task, worker, process, native, scheduled,
                   latched, transit, status, restoring>>

EmergencyEnds ==
    /\ commander = "persisted" /\ commander' = "idle"
    /\ ForgetsTask
    /\ UNCHANGED emergency

\* At the start, an emergency stop on disk is engaged again, or it fails.
RestoreLatch ==
    /\ restoring /\ restoring' = FALSE
    /\ latched' \in {TRUE, latched}
    /\ UNCHANGED <<commander, preparer, task, worker, process, native, scheduled,
                   lockFile, transit, status>>

-----------------------------------------------------------------------------
(* The watchdog.                                                           *)
ProcessLost ==
    /\ process = "exited" /\ process' = "none"
    /\ prepared' = FALSE /\ execution' = None
    /\ UNCHANGED <<commander, preparer, timing, stopEvent, worker, native,
                   scheduled, emergency>>

WaypointTimeout ==
    /\ process # "exited" /\ execution # None /\ timing
    /\ execution' = None /\ stopEvent' = TRUE
    /\ Cancelled \/ UNCHANGED native
    /\ UNCHANGED <<commander, preparer, prepared, timing, worker, process,
                   scheduled, emergency>>

-----------------------------------------------------------------------------
External == MissionOver \/ StartUnanswered \/ TaskStackExits \/ VehiclePublishes \/ OperatorResets
Callbacks == VehicleStatus \/ MissionStatus \/ RestoreLatch
PrepareWorker == TaskLoaded \/ StartTaskStack \/ ServicesReady \/ Ready \/ PrepareFails
Worker(m) == WorkerStops(m) \/ TimeComes(m) \/ PoseFresh(m) \/ WorkerFails(m)
             \/ CallStart(m) \/ StartMission(m) \/ StartAnswered(m) \/ Started(m)
Watchdog == ProcessLost \/ WaypointTimeout
\* Commands are delivered from the start of the subscriber, before the latch is
\* restored.
Commands ==
    \/ Prepare \/ Schedule \/ ScheduleFails \/ \E m \in Missions : Submit(m)
    \/ \E step \in {"cancelling", "unloading", "latching"} : Command(step)
    \/ StopCancels \/ StopEnds \/ Unload \/ EmergencyLatches \/ EmergencyPersists
    \/ EmergencyEnds

Next ==
    \/ External \/ Callbacks \/ PrepareWorker \/ Watchdog \/ Commands
    \/ \E m \in Missions : Worker(m)

Spec == Init /\ [][Next]_vars

\* Timed waits end and timers fire, the waypoint's too: a mission has finitely
\* many goals, and its index restarts the clock as often.  Nothing is asked of a
\* mission node that runs: neither that it answers a start nor that its status
\* arrives.
Waits(m) == worker[m] = "calling" /\ process = "running"

Fairness == WF_vars(Watchdog) /\ \A m \in Missions : WF_vars(~Waits(m) /\ Worker(m))

FairSpec == Spec /\ Fairness

-----------------------------------------------------------------------------
\* An accepted execution ends, unless from some time on the mission node never
\* answers its start: its worker gives up or starts the clock that the watchdog
\* reads, whatever stop, timeout or other schedule has touched the event and the
\* clock, which the executions share, meanwhile.
MissionEnds == \A m \in Missions : execution = m ~> execution # m \/ []Waits(m)

\* What README.md says of the latch: only the operator on site releases it, so
\* the file on disk outlives the vehicle's own emergency stop.
OperatorReleasesLock == [][lockFile /\ ~lockFile' => ~latched]_vars
=============================================================================
