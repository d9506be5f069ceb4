----------------------------- MODULE UavFlight -----------------------------
(***************************************************************************)
(* The flight of the UAV: the task adapter (Adapter, FlightWorkflow), whose *)
(* loop thread handles the commands and ticks the workflow, and whose      *)
(* prepare thread loads a mission; the stage manager (Manager), which owns *)
(* the processes of localization and of the native controller and watches  *)
(* the adapter's lease; the controller and the flight controller unit are  *)
(* external.                                                               *)
(*                                                                         *)
(* A request to the manager holds its lock from the check to the answer;   *)
(* its watchdog takes no lock.  Each check of the telemetry may also fail  *)
(* because the telemetry is stale, so every one of them has a refusal.     *)
(***************************************************************************)
EXTENDS Naturals

CONSTANTS
    Tasks,          \* tasks, which are the owners of controllers too
    None

FlightConstants == None \notin Tasks

VARIABLES
    owner,          \* Adapter.owner, or None
    loading,        \* the prepare thread, or None
    prepared,       \* the task prepared, or None
    workflow,       \* the flight under way or ended: task and phase
    unloading,      \* the loop thread waits for the manager
    landing,        \* Adapter.emergency
    holding,        \* Adapter.stop_pending
    call,           \* the request to the manager, or None
    controller,     \* the native controller: owner and alive, or None
    unrecorded,     \* a native controller runs whose start was reported as failed
    stage,          \* the stage process
    lease,          \* the lease has been heard lately
    leaseFault,     \* Manager.lease_fault
    fault,          \* flight_fault.json exists
    latch,          \* emergency_stop.json exists
    command,        \* the parameter /ctrl_cmd/state
    flight          \* the aircraft

adapter == <<owner, loading, prepared, workflow, unloading, landing, holding>>
manager == <<controller, unrecorded, stage, lease, leaseFault>>
locks == <<fault, latch>>
vars == <<adapter, call, manager, locks, command, flight>>

Over == {"completed", "stopped", "failed"}
Phases == Over \union {"scheduled", "taking_off", "running", "emergency_stopped"}

TypeOK ==
    /\ owner \in Tasks \union {None} /\ prepared \in Tasks \union {None}
    /\ loading \in [task: Tasks, step: {"checking", "stopping", "starting", "waiting", "cancelling"},
                    current: BOOLEAN] \union {None}
    /\ workflow \in [task: Tasks, phase: Phases] \union {None}
    /\ unloading \in BOOLEAN /\ landing \in BOOLEAN /\ holding \in BOOLEAN
    /\ call \in [action: {"start", "stop"}, owner: Tasks,
                 step: {"asked", "spawning", "recorded", "leased", "stopping",
                        "done", "refused"}] \union {None}
    /\ controller \in [owner: Tasks, alive: BOOLEAN] \union {None} /\ unrecorded \in BOOLEAN
    /\ stage \in {"idle", "mapping", "localization"}
    /\ lease \in BOOLEAN /\ leaseFault \in BOOLEAN /\ fault \in BOOLEAN /\ latch \in BOOLEAN
    /\ command \in 0..3
    /\ flight \in {"ground", "rising", "hovering", "guiding"}

Init ==
    /\ owner = None /\ loading = None /\ prepared = None /\ workflow = None
    /\ unloading = FALSE /\ landing = FALSE /\ holding = FALSE /\ call = None
    /\ controller = None /\ unrecorded = FALSE /\ stage = "idle" /\ lease = FALSE /\ leaseFault = FALSE
    /\ fault \in BOOLEAN /\ latch \in BOOLEAN
    /\ command = 0 /\ flight = "ground"

Ground == flight = "ground"
Runs == controller # None /\ controller.alive
\* A controller obeys the command and reports its status, recorded or not.
Flies == Runs \/ unrecorded
Busy == workflow # None /\ workflow.phase \notin Over
Listening == ~unloading

\* cancel_generation += 1
Cancelled == IF loading = None THEN None ELSE [loading EXCEPT !.current = FALSE]

-----------------------------------------------------------------------------
(* The commands, in the loop thread.                                       *)
Prepare(t) ==
    /\ Listening /\ loading = None /\ ~landing /\ ~Busy /\ prepared # t
    /\ loading' = [task |-> t, step |-> "checking", current |-> TRUE]
    /\ UNCHANGED <<owner, prepared, workflow, unloading, landing, holding,
                   call, manager, locks, command, flight>>

Schedule(t) ==
    /\ Listening /\ ~latch /\ ~fault /\ ~Busy /\ prepared = t /\ Ground
    /\ workflow' = [task |-> t, phase |-> "scheduled"]
    /\ UNCHANGED <<owner, loading, prepared, unloading, landing, holding,
                   call, manager, locks, command, flight>>

Stop ==
    /\ Listening
    /\ loading' = Cancelled /\ command' = 0 /\ holding' = TRUE
    /\ workflow' = IF workflow = None THEN None ELSE [workflow EXCEPT !.phase = "stopped"]
    /\ UNCHANGED <<owner, prepared, unloading, landing, call, manager, locks, flight>>

Forgets == owner' = None /\ prepared' = None /\ workflow' = None

UnloadAllowed == loading = None /\ Ground

\* Refused unless the aircraft is known to be on the ground.
Unload ==
    /\ Listening /\ loading' = Cancelled
    /\ \/ UNCHANGED <<owner, prepared, workflow, call, unloading>>
       \/ /\ UnloadAllowed /\ owner = None
          /\ Forgets /\ UNCHANGED <<call, unloading>>
       \/ /\ UnloadAllowed /\ owner # None /\ call = None
          /\ call' = [action |-> "stop", owner |-> owner, step |-> "asked"]
          /\ unloading' = TRUE /\ UNCHANGED <<owner, prepared, workflow>>
    /\ UNCHANGED <<landing, holding, manager, locks, command, flight>>

\* The answer, or none: the service call failed.
UnloadAnswered ==
    /\ unloading /\ call # None /\ call.step \in {"done", "refused"}
    /\ unloading' = FALSE /\ call' = None
    /\ \/ call.step = "done" /\ Forgets
       \/ UNCHANGED <<owner, prepared, workflow>>
    /\ UNCHANGED <<loading, landing, holding, manager, locks, command, flight>>

\* The latch is written first.  On the ground the stop is confirmed at once; in the
\* air the landing is requested, unless the telemetry is stale or says disarmed, or
\* the flight controller refuses it: the command is answered as failed then.
EmergencyStop ==
    /\ Listening
    /\ loading' = Cancelled /\ latch' = TRUE
    /\ \/ UNCHANGED <<landing, command>>
       \/ ~Ground /\ landing' = TRUE /\ command' = IF owner = None THEN command ELSE 3
    /\ UNCHANGED <<owner, prepared, workflow, unloading, holding, call, manager, fault,
                   flight>>

-----------------------------------------------------------------------------
(* The tick of the loop thread: a landing, else a hold, else the workflow. *)
PublishLease ==
    /\ Listening /\ controller # None /\ owner = controller.owner
    /\ lease' = TRUE
    /\ UNCHANGED <<adapter, call, controller, unrecorded, stage, leaseFault, locks, command,
                   flight>>

LandingEnds ==
    /\ Listening /\ landing /\ landing' = FALSE
    /\ workflow' = IF Ground /\ workflow # None
                   THEN [workflow EXCEPT !.phase = "emergency_stopped"] ELSE workflow
    /\ UNCHANGED <<owner, loading, prepared, unloading, holding, call, manager, locks,
                   command, flight>>

HoldEnds ==
    /\ Listening /\ ~landing /\ holding /\ holding' = FALSE
    /\ UNCHANGED <<owner, loading, prepared, workflow, unloading, landing,
                   call, manager, locks, command, flight>>

Ticks(from, to) ==
    /\ Listening /\ ~landing /\ ~holding /\ workflow # None /\ workflow.phase = from
    /\ workflow' = [workflow EXCEPT !.phase = to]
    /\ UNCHANGED <<owner, loading, prepared, unloading, landing, holding,
                   call, manager, latch, flight>>

TakesOff == Ticks("scheduled", "taking_off") /\ Flies /\ Ground
            /\ command' = 1 /\ UNCHANGED fault
StartsMission == Ticks("taking_off", "running") /\ Flies /\ flight = "hovering"
                 /\ command' = 2 /\ UNCHANGED fault
Completes == Ticks("running", "completed") /\ Flies /\ flight = "hovering"
             /\ UNCHANGED <<command, fault>>

\* Localization or the status is lost, an answer is wrong or late; a flight
\* that has failed keeps the fault on disk.
Fails ==
    /\ \E phase \in {"scheduled", "taking_off", "running"} : Ticks(phase, "failed")
    /\ command' = 0 /\ fault' = TRUE

RemainsFailed == Ticks("failed", "failed") /\ fault' = TRUE /\ UNCHANGED command

Tick == PublishLease \/ LandingEnds \/ HoldEnds \/ TakesOff \/ StartsMission
        \/ Completes \/ Fails \/ RemainsFailed

-----------------------------------------------------------------------------
(* The prepare thread.                                                     *)
LoadingIn(step) == loading # None /\ loading.step = step
Asks(action, by, step) ==
    /\ call = None /\ call' = [action |-> action, owner |-> by, step |-> "asked"]
    /\ loading' = [loading EXCEPT !.step = step]

PrepareStops ==
    /\ LoadingIn("checking") /\ ~latch /\ ~fault /\ Ground
    /\ owner \notin {None, loading.task}
    /\ Asks("stop", owner, "stopping")
    /\ UNCHANGED <<owner, prepared, workflow, unloading, landing, holding,
                   manager, locks, command, flight>>

\* Mutant: a refusal goes unnoticed.
StopAnsweredAnyhow == LoadingIn("stopping") /\ call # None /\ call.step \in {"done", "refused"}

StopAnswered == LoadingIn("stopping") /\ call # None /\ call.step = "done"

\* The mission file is written for the new owner, and the controller asked for.
PrepareStarts ==
    /\ \/ LoadingIn("checking") /\ ~latch /\ ~fault /\ Ground
          /\ owner \in {None, loading.task} /\ call = None
       \/ StopAnswered
    /\ owner' = loading.task
    /\ IF loading.current
       THEN /\ call' = [action |-> "start", owner |-> loading.task, step |-> "asked"]
            /\ loading' = [loading EXCEPT !.step = "starting"]
       ELSE call' = None /\ loading' = None
    /\ UNCHANGED <<prepared, workflow, unloading, landing, holding, manager, locks, command,
                   flight>>

StartAnswered ==
    /\ LoadingIn("starting") /\ call # None /\ call.step = "done"
    /\ call' = None /\ loading' = [loading EXCEPT !.step = "waiting"]
    /\ UNCHANGED <<owner, prepared, workflow, unloading, landing, holding,
                   manager, locks, command, flight>>

\* The controller reports the mission loaded; a cancelled one is left to it.
Loaded ==
    /\ LoadingIn("waiting") /\ Flies /\ Ground
    /\ prepared' = IF loading.current THEN loading.task ELSE prepared
    /\ loading' = None
    /\ UNCHANGED <<owner, workflow, unloading, landing, holding, call, manager, locks,
                   command, flight>>

CancelledWhileWaiting ==
    /\ LoadingIn("waiting") /\ ~loading.current /\ owner # None
    /\ Asks("stop", owner, "cancelling")
    /\ UNCHANGED <<owner, prepared, workflow, unloading, landing, holding,
                   manager, locks, command, flight>>

\* Refused, no answer, no acknowledgement in time, or the end of a cancellation.
PrepareEnds ==
    /\ loading # None /\ loading' = None
    /\ IF loading.step \in {"stopping", "starting", "cancelling"}
       THEN call # None /\ call.step \in {"done", "refused"} /\ call' = None
       ELSE UNCHANGED call
    /\ UNCHANGED <<owner, prepared, workflow, unloading, landing, holding,
                   manager, locks, command, flight>>

PrepareThread == PrepareStops \/ PrepareStarts \/ StartAnswered \/ Loaded
                 \/ CancelledWhileWaiting \/ PrepareEnds

-----------------------------------------------------------------------------
(* The stage manager.                                                      *)
Asked(action) == call # None /\ call.action = action /\ call.step = "asked"
Answers(step) == call' = [call EXCEPT !.step = step]
Unlocked == call # None => call.step \in {"asked", "done", "refused"}

Refuse ==
    /\ call # None /\ call.step \in {"asked", "stopping"} /\ Answers("refused")
    /\ UNCHANGED <<adapter, manager, locks, command, flight>>

StartController ==
    /\ Asked("start") /\ ~fault /\ ~latch /\ Ground /\ stage = "localization"
    /\ \/ controller = None /\ command' = 0 /\ Answers("spawning")
       \/ Runs /\ controller.owner = call.owner /\ UNCHANGED command /\ Answers("done")
    /\ UNCHANGED <<adapter, manager, locks, flight>>

\* The process has exited, or runs and could not be written down.
SpawnFails ==
    /\ call # None /\ call.step = "spawning" /\ Answers("refused")
    /\ unrecorded' \in {unrecorded, TRUE}
    /\ UNCHANGED <<adapter, controller, stage, lease, leaseFault, locks, command, flight>>

\* The controller is recorded, then its lease begins, then a fault of the last one
\* is forgotten; the watchdog, which takes no lock, may run in between.
Spawned ==
    /\ call # None /\ call.step = "spawning" /\ Answers("recorded")
    /\ controller' = [owner |-> call.owner, alive |-> TRUE]
    /\ UNCHANGED <<adapter, unrecorded, stage, lease, leaseFault, locks, command, flight>>

LeaseBegins ==
    /\ call # None /\ call.step = "recorded" /\ Answers("leased")
    /\ lease' = TRUE
    /\ UNCHANGED <<adapter, controller, unrecorded, stage, leaseFault, locks, command,
                   flight>>

LeaseFaultCleared ==
    /\ call # None /\ call.step = "leased" /\ Answers("done")
    /\ leaseFault' = FALSE
    /\ UNCHANGED <<adapter, controller, unrecorded, stage, lease, locks, command, flight>>

StopController ==
    /\ Asked("stop")
    /\ \/ controller = None /\ Answers("done") /\ UNCHANGED command
       \/ /\ controller # None /\ controller.owner = call.owner /\ Ground
          /\ command' = 0 /\ Answers("stopping")
    /\ UNCHANGED <<adapter, manager, locks, flight>>

\* Only then the process is forgotten.
ControllerStopped ==
    /\ call # None /\ call.step = "stopping" /\ ~controller.alive
    /\ controller' = None /\ Answers("done")
    /\ UNCHANGED <<adapter, unrecorded, stage, lease, leaseFault, locks, command, flight>>

Watchdog ==
    /\ controller # None /\ ~leaseFault /\ (~lease \/ ~controller.alive)
    /\ leaseFault' = TRUE /\ fault' = TRUE /\ command' = 0
    /\ UNCHANGED <<adapter, call, controller, unrecorded, stage, lease, latch, flight>>

\* Requests of the stage clients: mapping and localization sessions.
ChangeStage ==
    /\ Unlocked /\ controller = None /\ Ground
    /\ \/ stage = "idle" /\ stage' \in {"mapping", "localization"}
       \/ stage # "idle" /\ stage' = "idle"
    /\ UNCHANGED <<adapter, call, controller, unrecorded, lease, leaseFault, locks, command,
                   flight>>

Reset ==
    /\ Unlocked /\ controller = None /\ Ground
    /\ fault' = FALSE /\ latch' = FALSE /\ leaseFault' = FALSE
    /\ UNCHANGED <<adapter, call, controller, unrecorded, stage, lease, command, flight>>

Manager == Refuse \/ StartController \/ SpawnFails \/ Spawned \/ LeaseBegins
           \/ LeaseFaultCleared \/ StopController \/ ControllerStopped \/ Watchdog \/ ChangeStage \/ Reset

-----------------------------------------------------------------------------
(* The native controller, the aircraft, and time.                          *)
ControllerExits ==
    /\ \/ Runs /\ controller' = [controller EXCEPT !.alive = FALSE] /\ UNCHANGED unrecorded
       \/ unrecorded /\ unrecorded' = FALSE /\ UNCHANGED controller
    /\ UNCHANGED <<adapter, call, stage, lease, leaseFault, locks, command, flight>>

LeaseExpires ==
    /\ controller # None /\ lease /\ lease' = FALSE
    /\ UNCHANGED <<adapter, call, controller, unrecorded, stage, leaseFault, locks, command,
                   flight>>

Flight ==
    /\ \/ Flies /\ command = 1 /\ Ground /\ flight' = "rising"
       \/ Flies /\ command = 2 /\ flight = "hovering" /\ flight' = "guiding"
       \/ flight \in {"rising", "guiding"} /\ flight' = "hovering"
       \/ ~Ground /\ flight' = "ground"      \* commanded, or by the pilot
    /\ UNCHANGED <<adapter, call, manager, locks, command>>

External == ControllerExits \/ LeaseExpires \/ Flight

-----------------------------------------------------------------------------
Commands == (\E t \in Tasks : Prepare(t) \/ Schedule(t))
            \/ Stop \/ Unload \/ UnloadAnswered \/ EmergencyStop

Next == Commands \/ Tick \/ PrepareThread \/ Manager \/ External

Spec == Init /\ [][Next]_vars

-----------------------------------------------------------------------------
\* The controller that runs belongs to the task whose lease the adapter
\* publishes and whose name it gives to stop it, whatever preparation was
\* cancelled, replaced or late: a controller of nobody could only be landed by
\* the pilot, and would block every later task.
ControllerIsOwned == controller # None => owner = controller.owner

\* What README.md:7 says of the UAV: after the lease has timed out, or the
\* localization was lost, the fault locks the flight and nothing resumes it.
NoResumeUnderFault == [][command' # command /\ command' \in {1, 2} => ~fault]_vars
=============================================================================
