# CCS_EDGE in TLA+

CCS_EDGE is the software that runs beside a robot (Scout, Go2, Wheeltec,
Ground-Air AGV, UAV) and connects its ROS graph to a ground station: it receives
trajectories and commands over UDP, prepares the robot's navigation, executes
and stops tasks, streams maps, relocalizes the robot and reports its health.
This directory holds TLA+ models of it, TLC configurations that check them on
small instances, and theorems about them that TLAPS proves for every instance.
Source paths are relative to the repository.

## 1. The system

### Components

| component | code | state | operations | modelled |
|---|---|---|---|---|
| task coordinator | `src/EPGeneral_task_control/.../node.py`, `storage.py`, `mission_store.py`, `protocol.py` | the transfer, preparation, execution, pending answers and the ACK cache; on disk the trajectory XML, mission records, `active_execution.json` | nine datagram types, adapter feedback, a 0.1 s watchdog, start, close | `TaskCoordinator` |
| control safety interlock | `.../control_safety.py` | emergency-stop latch and its marker file, last localization and control states, one RPC at a time | arm, disarm, stop, latch, reset | `ControlSafety` |
| navigation adapter | `.../scout_adapter.py` | the prepared task, the navigation process, the execution and its run thread | PREPARE, SCHEDULE, CANCEL, STOP, UNLOAD, EMERGENCY_STOP, health watchdog, reset, close | `NavigationAdapter`, `ExecutionLifecycle` |
| map stream | `src/EPGeneral_map_stream/.../node.py`, `preview.py`, `artifacts.py` | the mapping session, the fragment window, artifact generation | start, stop, save, ACK/NACK, timers | `MappingSession`, `MapPreview` |
| relocalization | `src/EPGeneral_relocalization/.../node.py`, `ros_bridge.py` | the current map session, its threads and generations, the state file | negotiate, download, start, pose, regions, shutdown | `Relocalization` |
| Ground-Air stage manager | `src/devices/ground_air_agv/.../system_stage_core.py`, `system_stage_runtime.py`, `ground_air_stage_manager_node.py` | the stage, its owner and its process group | stage requests, monitor, shutdown | `GroundAirStages` |
| Ground-Air task adapter | `src/devices/ground_air_agv/.../task_adapter.py` | one execution, the emergency latch on disk | the coordinator's commands, the native task layer's status | `GroundAirTask` |
| UAV integration | `src/devices/uav/...` | a stage manager with leases, a task adapter | prepare, schedule, land, unload, watchdog | `UavFlight` (execution mode) |
| Wheeltec control authority | `.../wheeltec_control.py` | who drives: manual controller or navigation | enable, stop, reset | `WheeltecAuthority` |
| MQTT health, UDP telemetry | `src/epgeneral_mqtav`, `src/EPGeneral_udp_telemetry` | snapshots, sequence numbers, sampling windows | timers, connect callbacks | no: section 10 |
| video, profiles, scripts, configuration loaders | `src/EPGeneral_video_srt`, `src/devices/*/profiles`, `src/scripts` | none of its own | start a GStreamer pipeline, validate YAML | no: section 10 |

### Interactions

The ground station talks UDP to the coordinator: at-most-once datagrams, repeated
until acknowledged, with a request ID that makes a repeat recognisable. The
coordinator and an adapter talk over two ROS topics (`TaskExecutionCommand`,
`TaskExecutionFeedback`): commands are queued per subscriber and not kept for one
that is not connected. They also share a file: the adapter's safety interlock
writes the emergency-stop marker and the coordinator looks at it in each handler
that would bring new work to the robot. Inside the adapter, callbacks, a run
thread, a preparation thread and a watchdog share state under a lock they give
up while they wait for the robot.

### What is hard

Interleavings of the UDP thread, ROS callbacks and timers (the coordinator takes
one lock, the adapter and the relocalization node do not always); a restart of
the coordinator while the robot moves; two disk stores written one after the
other; late, repeated and unanswered messages; emergency stops at any moment;
service calls that time out and succeed later. `PROJECT.json` lists each place
under `hazards`, with the property that covers it or the reason why none does.

For each component, what makes it correct:

- coordinator: a restart finds exactly what the adapter may be running; the two
  stores agree; a trajectory is never rolled back nor changed under the robot;
  each `execute_task` is decided once; a handler that finds the robot latched starts
  nothing new; a stop is confirmed.
- control safety: control is never enabled and forgotten while latched; a reset
  waits for late calls; a confirmation is newer than the request.
- navigation adapter: at most one execution drives; what was stopped sends no
  goal; no preparation survives its task.
- map stream: one session at a time; an artifact belongs to the session that
  asked; a window is bounded and acknowledged fragments are not lost.
- relocalization: a result belongs to the current generation; no write of an
  abandoned worker is visible.
- stage manager: a transition ends in one stage, or in none with its processes
  gone.
- UAV: the controller in the air has an owner that can land it.
- Wheeltec: the driver obeys only an authority somebody holds.

## 2. How the project is laid out

| module | models | proofs | section |
|---|---|---|---|
| `TaskCoordinator` (`MCTaskCoordinator`) | the coordinator with its stores | `TaskCoordinatorProofs` | 3 |
| `ControlSafety` | the control interlock | `ControlSafetyProofs` | 4 |
| `NavigationAdapter` (`MCNavigationAdapter`) | the adapter's threads | `NavigationAdapterProofs` | 5 |
| `ExecutionLifecycle` | what an adapter promises the coordinator | the refinement, in `NavigationAdapterProofs` | 5 |
| `MappingSession`, `MapPreview` | the map stream | `MappingSessionProofs`, `MapPreviewProofs` | 6 |
| `Relocalization` | the relocalization coordinator | in `EdgeServicesProofs` | 7 |
| `GroundAirStages`, `GroundAirTask` | the Ground-Air AGV | `GroundAirStagesProofs` | 8 |
| `UavFlight`, `WheeltecAuthority` | the UAV and the Wheeltec vehicle | `UavFlightProofs`, in `EdgeServicesProofs` | 9 |
| `EdgeServices` (`MCEdgeServices`) | the sum of the services of sections 6 to 9 | `EdgeServicesProofs` | below |
| `MCServicesEnd` | the sum for the liveness run | | below |

Every module has one action per handler or per step of a handler at which another
thread can interfere, and takes its identities as CONSTANTS. Runs stay small: two
of everything that may be confused with its successor, since a violation of any of
these properties needs two actors and no more than two identities.

The services of sections 6 to 9 run on different vehicles or share, in these modules,
no state with each other: what one hears of another (a mapping stack that fails, a
task that becomes active, a map installed, a driver that times out) is an input that
comes at any time. So they are composed as a *sum*: in each behaviour of
`EdgeServices` one service is `awake`, and the others sleep in one of their initial states
and do not change. The reachable states are those of each service by itself, added up. A
property of one service is trivially kept while it sleeps in an initial state; it is
checked in the behaviours in which it is awake, and `TypeOK` says nothing of the others. `EdgeServices` declares the constants its
services are given (`Pair` for the sessions, maps, owners and tasks, `One` for the threads
of which one is enough, the backends, the bounds of the preview) and assumes of them only what
each service assumes (`ServicesConstants`); `MCEdgeServices` adds the symmetry of `Pair`,
whose members no module tells apart.

`EdgeServicesProofs` proves the properties of the run about the sum, for every value of its
constants. A service that is awake takes the steps of its specification and one that sleeps
none, so `Spec` implies the specification of each service (`MappingRuns`, `PreviewRuns`,
`RelocRuns`, `StagesRuns`, `FlightRuns`, `AuthRuns`); what is proved of a service by itself,
in its own module, is cited for its instance. Nothing in that argument uses that only one
service is awake: each instance is implemented on its own.

`MCServicesEnd` is the same sum for liveness: since one service is awake in a behaviour,
weak fairness of the disjunction `First`, `Second`, ... is weak fairness of the disjunct of
that service, and together they are the formula `Fairness` of each module. Symmetry would be
unsound there, so every set has one member.

What may come next: the coordinator and an adapter in one model (their product exceeds
what a run can explore; the scheduling timeout without CANCEL, `node.py:769`, is its first
question), the static and mapping modes of the UAV, and a proof that the adapter's view of
the interlock (latched, enabled) is what `ControlSafety` implements.

## 3. TaskCoordinator

### State and code

`transfer`, `execution`, `preparation`, `cleanup`, `emergency`, `pendingExecute`
and `ackCache` are the attributes of `RosTaskControlNode`; `xml`, `mission`,
`latest` and `active` are the files of `TrajectoryStore` and `MissionStore`;
`status` is what was last published on the status topic; `ros` is the list of
commands the last step published; `marker` is the adapter's marker file; `up`
says whether `start()` has returned. `handling` is the datagram whose handler holds
the lock, has looked at the marker and found none, and has not acted yet.

One action is one handler under the node's lock: `Negotiate`, `ReadTask`,
`Prepare`, `Chunk`, `Commit`, `ExecuteRefused`/`Execute`, `Terminate`,
`EmergencyStop`, `Delete` for the datagrams, `FeedbackCallback` for adapter
feedback in the order the code tries its four meanings, `Watchdog(due)` for a
timer tick with the set of timers that are due, `Start` and `Close`. `ExpireAnswer`
is the end of a cached answer. Three handlers are two steps: `_prepare`, `_commit` and
`_execute` look at the marker once, at their beginning (`LookAtMarker`), and begin a
transfer, store the trajectory or publish SCHEDULE later (`Prepare`, `Commit`,
`ExecuteRefused`/`Execute`, through `Handles`). The marker belongs to the adapter's process, so
it may appear, and the coordinator die or close, between the two. The crash actions stop the process between two
handlers (`Crash`) and between two writes of one handler (`CrashInCommit`,
`CrashInRelease`, `CrashInCleanup`); a crash before the first write is `Crash` and
after the last write of the others nothing more than the finished handler
followed by `Crash`.

The environment: the ground station sends any datagram of `Commands` at any time,
so loss, repetition and reordering are all there. The adapter may answer any
command still outstanding, any number of times, with any state it can send
(`Echoes`), or never. The marker may appear and disappear between any two steps:
also between a handler's look and its work, and between the two looks a commit takes at
it (the second is `BeginPreparation`'s).

### Abstractions

- A (task, subtask, device) triple is one element of `Tasks`. The mission store is
  keyed by task and device and the trajectory store by task and subtask, so two
  subtasks of one task on one device share a mission record; that is not modelled.
- A trajectory is its revision and CRC; a chunk is good or bad (its bytes do not
  match the announced sizes or CRC).
- Time is a choice of which timers are due. The checks of UTC time in `_execute`
  and the missing-subscriber check may refuse any request (`ExecuteRefused`).
- The ACK of a request that asks for missing chunks and repeats that only resend
  a cached answer change no state. Heartbeats, logging and status datagrams are
  left out.
- `ExpireAnswer` does not expire the answer of an undecided `execute_task`: it is
  cached for 60 s and decided within 2 s in every shipped profile.
- An `OSError` is modelled where the code catches it (`_commit`); one raised by
  `save_execution` in the middle of a handler is not.
- `close()` takes no lock in the code and is atomic here: what a handler writes
  after it is what the crash actions write.
- CANCEL or STOP of a recovered execution may be lost, since the publisher is
  created in the same `start()` and does not latch; nothing in the model relies on
  its arrival.

### Runs

| run | result | question |
|---|---|---|
| `coordinator` | holds | the safety of every handler, restart and crash point |
| `scheduling_decided` | holds | is every `execute_task` decided though the adapter is silent |
| `active_trajectory` | violated | is the executing trajectory protected |
| `emergency_other_task` | violated | can each emergency stop be confirmed |

`coordinator`: two tasks (t2 is only deleted and never delivered: a task the coordinator
does not store), two revisions of t1, the older one also with another CRC, one
execution, two request IDs (that of `execute_task`, and one that all other commands
share), one chunk. Each hazard needs one task with an older and a newer revision and one
foreign identity, so nothing is gained by more of them; the request ID shared by
different commands is what makes the cache matter. The price is that a "failed" which
answers a preparation also matches a pending emergency stop; that they can be told
apart when their IDs differ is left to the theorems, which know no bound on `Requests`
(with a third ID for the operator's commands, `rStop`, TLC finds no error in 1 536 000
states either, but takes twice as long). `VIEW Relevant` leaves out
`ros`, `status` and every cached answer but those to `execute_task`. No guard reads
these, and no property reads their old value (`LatchBlocksNewWork` reads the new
`ros`, which a step sets from the rest of the state), so states that agree on the
view have the same behaviour and the reduction loses nothing. It checks:

- `ActiveRecordTracksExecution`: what the adapter was asked to do is on disk, and a
  running coordinator without an execution leaves no live record. A restart finds
  and revokes the right thing.
- `PendingExecuteIffScheduling`: an answer is owed exactly while the adapter has not
  confirmed.
- `StoresAgree`: a mission record or a preparation has a trajectory of its revision
  or a newer one. A mission may be *older* than its trajectory: after a crash or an
  error between the two writes of a commit `negotiate_task` reports the old revision
  and the next start prepares nothing, until the ground station commits again.
- `LatchBlocksNewWork`: a marker that exists when a handler begins keeps new work from the
  plan. It is not true that nothing is begun while the marker exists: a handler that
  looked before finishes what it does (a transfer begun, a trajectory stored, a SCHEDULE
  published), once; and the watchdog, which never looks (`node.py:756`-`762`), repeats a PREPARE
  asked for before. The property says that this is all: no second handler passes, and
  no other step prepares.
- `NoRollback`, `TerminalFailureStays`, `ExecuteAnswerIsFinal`: action properties,
  explained where they are defined.

`scheduling_decided`: the commands transfer, execute and stop in emergency one revision of one
task. `ExecuteEventuallyDecided`: an `execute_task` that was submitted is answered with an
ACK, although the adapter may say nothing. Two things drop it without one, and the property
names them: the end of the process, and the confirmation of an emergency stop
(`node.py:576`-`579` clears `pending_execute`; its cached answer stays pending). Fairness: the watchdog
with the execution timer due (`OverdueTick`), strongly, since handlers take the lock
in between and release it again and again; and a handler that holds the lock goes on
(`HandlerGoesOn`). The code justifies it: a ROS timer calls `watchdog` every 0.1 s, and
`last_feedback_at` stays where it is while the adapter is silent. It assumes that
the adapter does not keep sending states that scheduling ignores (`running` before
`scheduled`), which move `last_feedback_at` without a decision. Feedback, commands
and restarts are not fair. The profile here has `preparation_retry_on_failure`
off. There is no view: a liveness check needs every state.

`active_trajectory`: `_prepare` refuses a transfer of the executing subtask
("active execution protects this trajectory"), `_commit` does not. Revision 2 is
announced while revision 1 is ready, revision 1 is executed, revision 2 is
committed: the XML file whose path the adapter was given is replaced, and a new
preparation is begun, during the execution.

`emergency_other_task`: `_emergency_stop` sends the executing task's identity, and
`_handle_emergency_feedback` compares the answer with the task the command named. If
an operator's emergency stop names another task than the one that is executing, the
robot stops, but its confirmation is ignored: no ACK, no cleanup, the command is
republished with every retry period, and the execution ends only by its own
feedback or timeout.

Behaviour the model has that no document speaks of, and that no property states: a
delete whose `unloaded` answer comes after the task was delivered again deletes the
new trajectory (`node.py:542`); a second delete or emergency stop replaces the first one
and leaves its ACK pending; after a transfer timeout the published status is `ready`
whenever a trajectory is stored, though nothing is prepared (`node.py:754`).

### Proofs

`TaskCoordinatorProofs` proves, for every value of the constants that satisfies
`ConstantsOK` and `NoneIsNoRecord` (None is not one of the records it replaces):

- `StoresInvariant`: `StoresInv`, which is `TypeOK`, `StoresAgree` and
  `TransferNotOlder`, is inductive. `TransferNotOlder` is the strengthening: the
  transfer in progress is not older than the stored trajectory and equal to it if of
  the same revision. Without it the check made in `task_prepare` says nothing about
  the write in `task_commit`, many steps later. `TypeCorrect`, `StoresAlwaysAgree`
  and, as an action property, `NeverRollsBack` follow.
- `ExecutionInvariant`: the execution, its pending answer and its record on disk,
  together. `RestartFindsExecution` and `PendingWhileScheduling` follow.

- `LatchedTakesNoWork`: only a handler that had found no marker when it began brings new
  work, and none passes its look while the marker exists. Every step is gone through
  three times: what is work is done by a handler that gives the lock back with it (`StepNoNewWork`),
  `handling` is only taken where there is no marker (`StepLooks`), and with a marker a PREPARE is only
  repeated (`StepPrepares`).
- `FailedForGood`: a preparation that failed for good stays so. It needs to know
  that a coordinator that is down prepares nothing (`DownIsEmpty`), or the start could
  find one to go on with.
- `AnswersAreFinal`: the answer to an `execute_task`, once given, does not change while it
  is cached. Its invariant (`AnswersInvariant`) says what the cache knows: a cached answer
  belongs to a command that was asked (`CachedIsAsked`), the answer still owed is cached as
  pending (`OwedIsCached`), and what else is pending is no `execute_task` (`OthersPending`).

Each action has its lemmas (types, stores, execution, answers); the theorems only
combine them. Only the liveness property, which is out of the prover's reach, is
model-checked alone.

`AnswersAreFinal` has a hypothesis about the ground station, `ExecuteRequestsApart`: the
request ID of an `execute_task` is used by no other command. While the answer is cached
the code refuses such a request itself (`node.py:292`); when it has expired, an
`emergency_stop` under the same ID would be cached in its place, and TLC finds that
behaviour in an instance whose IDs overlap. Who chooses the IDs, the ground station, is
outside the repository.

## 4. ControlSafety

### State and code

`NavigationControlSafety` keeps `latched`, `heartbeat` (`heartbeat_enabled`),
`control` (the last control state) and two locks, `transition_lock` (`transition`: who
holds it) and `rpc_lock` (`rpc`: the call that holds it). `marker` is its state file,
`stopEvent` the adapter's `stop_event`. `pc` says where each of three threads is:
the run thread in `arm()`, the thread of a terminal operation (they exclude each
other through the adapter's `terminal_lock`) in `disarm()` or `stop()`, an operator in
`clear_latch()`. A label is a point where another thread can interfere.

A service call is `BeginCall` (`_rpc` up to `worker.start()`), then the worker's `Serve`
and `Return`, and the caller's `CallSucceeds`/`CallFails`. `CallBusy` is an `rpc_lock` that
is not free in time. `CallTimesOut` abandons the call; the latch and exception that
follow are a step of their own (`LatchLate`), because the worker may return in
between. An abandoned `enable` goes through `ReturnLate`, `Compensate` and
`CompensationEnds` before `rpc_lock` is free. Where a failed call leads is
`OnFailure`: the `except` and `finally` clauses of `arm`, `_disarm_locked` and `stop`.

The robot is external: it is `enabled` or not, runs the services (one that raises may
or may not have had its effect), disables itself at will, and reports each change and,
now and then, its state. `reports` is the subscriber's queue; a message in it may be older
than the robot's last change. `driving` is an armed execution nobody has begun to
end, `emergency` an emergency stop that has latched and still has to disarm (the rest
of `_emergency_stop`), `orphan` a robot enabled for a process that died, `misled` one that was
enabled when a disarm or a reset believed a message that said it was not.

### Abstractions

- Localization health and waiting times: a check that involves them may fail at any
  time. Freshness is a flag that may drop at any time. The revision and time a wait
  compares with are `since`: a control message has come since the transition began to
  wait. Diagnostics, which can only renew the state a message brought, are further
  reports (`Repeats`).
- `done.set()` and the release of `rpc_lock` are one step: between them another caller
  would only wait a little, or disarm although the state is already known.
- `clear_latch` holds its locks throughout and is two steps, with any robot step in
  between. The reset service it may call has no timeout: a call that never returns
  holds the adapter's lock for ever (a hazard listed for the adapter's module).
- `MaxReports` bounds the messages under way; the code's queue holds ten.
- A call under way when the process dies takes effect at that moment or never.
- The adapter's `stopping` flag is left out, so more happens than the code allows: an
  emergency stop may latch during a reset. In the code that takes a second terminal
  operation, which clears the flag at the right moment; then the reset lifts the
  latch the operator has just set (a hazard listed for the adapter's module).

### Runs

| run | result | question |
|---|---|---|
| `control_safety` | holds | every interleaving with failures, timeouts, late answers, restarts |
| `late_answers` | holds | does a latched stop always end with a disabled robot |
| `heartbeat_while_armed` | violated | does the heartbeat run only while armed |

`control_safety`: costmaps are cleared and a stop service exists (a profile without
them has fewer steps), services refuse or raise, up to three messages under way. With one
message the last message heard is the robot's last word; with two it may have been
overtaken by a change, and with three by a change and its undoing, an arming in between.
A shorter queue hides what follows; the theorems hold for any.

- `NoForgottenEnable`: when all is at rest, a robot that accepts motion is being driven
  or latched. The code has two exceptions, and the property names them: the process
  died (`orphan`), or a disarm that trusts any fresh "disabled" (`control_safety.py:354`), or a
  reset (177), took a message sent before the enabling for the last word (`misled`).
- `LatchSilencesHeartbeat`: `arm()` sets the heartbeat without looking at the latch.
- `SavedStopStaysLatched`: a reset that fails half way leaves memory latched.
- `ResetOnlyWhenDisabled`: a reset lifts the latch only when the newest message received
  says disabled, and then the robot is, or its message that it is not is still in the
  queue. It may be: `clear_latch` asks that the last message is fresh and says disabled, and
  nothing holds it back while more are queued.

`late_answers`: no service refuses or raises, but any may answer after its caller has
given up, and the process may die. Fairness: the threads of the adapter and an
operator's reset run on; messages arrive; a service answers (strong fairness of the
worker: it may have to wait for a message again and again); and while a stop is
latched the execution, or the emergency stop itself, goes on to `disarm()`
(`EndDriving`, strong because resets take the adapter's lock in between). With services
that refuse for ever nothing could be promised; a robot that an old message passed over
(`misled`) stays on, and is excepted as a robot whose process died is. The compensation of a late enable is
what makes it hold: without it the robot stays enabled.

`heartbeat_while_armed`: the robot disables itself during an execution and the
coordinator shuts down. The adapter's close calls `disarm(allow_confirmed_disabled=True)`, which
returns at once; `heartbeat_enabled` stays set, and a driver that expects the heartbeat
to end with the control gets it for as long as the process lives.

### Proofs

`ControlSafetyProofs`, for every value of the constants that satisfies
`SafetyConstants`:

- `TypeCorrect`, including that a thread is only at the labels of its operations.
- `SavedStop` (inductive by itself) and `SilentHeartbeat` (inductive with the types).
- `ResetSafe` and, from it, `ResetDisabled`. `ResetOnlyWhenDisabled` follows from three
  invariants: `ReportsTell` (the newest report, under way or, if none is, received and fresh,
  is the robot's state), `LateInv` (a caller that timed out is still inside its operation, so
  when all threads are idle none is late) and `ResetInv` (during a reset no thread and no
  call can reach the robot). Nothing is assumed of the queue.

- `EnableCared` and, from it, `NothingForgotten`: `NoForgottenEnable`, for any number of
  messages under way. It says something of the interlock at rest, so its invariant must
  say who is responsible for an enabled robot at every other moment: `Cared` names the execution, the
  arming that has called the service, or the terminal operation, for a robot that is neither
  latched nor excepted (`Open`). That one does its duty
  rests on the locks (`Holding`: who is past the lock holds it), on the calls (`Awaited`: a
  call that is not abandoned has a caller at the label that waits for it; `Abandoned`: who
  abandons an enable latches, or is just about to; `Disabling`: no enable runs next to a
  disable, and a disable that succeeded left a disabled robot).

The liveness property is model-checked only.

## 5. NavigationAdapter

### State and code

The threads of `ScoutNavigationAdapter` are the command callback (`command`: the step of the
command being handled), `_run` (`worker`), `_run_prepare` (`preparer`), the timer that watches
health and the navigation process (`watchdog`), and the ROS shutdown. They share `lock`,
which the code holds only for what is one action here, and `terminal_lock` (`terminal`), held
through a whole terminal operation. `call[t]` is the terminal operation thread `t` is
in: `_finish` with the state it wants to report, or `_close_once`; its steps are `enter`
(waiting for the lock), `cancel` (the goals), `disable` (stop or disarm), `report`.
`flags` are `stop_event`, `stopping`, `closing`, `closed`, `close_permanent` and `control_armed`.

`Prepare`, `Schedule`, `Stop`, `EmergencyStop`, `Unload` and `ShutdownUnload` are the commands up to
the first point where they give up the lock, the actions of `CommandThread` what follows.
`RunFails` is the exception handler of `_run`, with every code an exception of its body can
carry, `RequiresFaultStop` the table that decides whether a result engages the safety stop.

### Abstractions

- The control interlock is `ControlSafety`; here `arm`, `disarm` and `stop` end as that module
  allows: `arm` ends enabled, or failed and disabled or latched; a disarm or stop that
  fails latches. Its reset needs a robot seen to be disabled (`ResetOnlyWhenDisabled`).
- Poses, localization, TF, action servers and services fail whenever they are asked. A
  task stands for its map and trajectory; a trajectory is its number of waypoints.
- The coordinator is reduced to `wanted`: it takes `ready` only of the preparation it
  asked for last. `Schedule` comes only for a task it believes ready, with an execution no
  thread refers to any more (`Executions` is a bound on how many are alive at a time).

### Runs

`navigation`: two executions, two tasks, one waypoint, in the three deployed configurations
(`Scout`: no interlock, own navigation; `Go2`: interlock, navigation of others; `Wheeltec`:
interlock with a stop service and no gate). A second waypoint adds the index and no
new interleaving. It checks:

- `EnabledIsOwned`: a robot that accepts motion is latched, or an execution or a terminal
  operation is there to disable it.
- `ClientHasNavigation`: no action client outlives its navigation process, or somebody is
  about to drop it.
- `ClosedIsQuiet`: after a close nothing is left, whatever was under way.
- `ReportedIsDisabled`, `ReportedIsCancelled`: an end other than a failure is reported with a
  disabled or latched robot, and with no goal of that execution in `move_base`.
- `KeepsLifecycle`: the adapter implements `ExecutionLifecycle`, whose state is the current
  execution, whether it is halted, and the execution the robot was last set in motion for.
  The mapping is `current <- execution`, `halted <- execution # None /\ flags.stop`,
  `moving <- goal`.

`services_end` checks `ExecutionEnds` for the Scout configuration: every execution ends. Fairness
is weak for the worker and the command thread, which the operating system schedules and whose waits have
timeouts; it is strong for a terminal operation, because `terminal_lock` may be taken by
others in between and is released again and again. Nothing is assumed of the robot, of
`move_base` or of the ground station.

### Proofs

`NavigationAdapterProofs` assumes `AdapterConstants` only. `Good` is `TypeOK` and `Working` (a
thread `_run` that has not ended has an execution) and is inductive; from it each step
is shown to map to a step of the lifecycle or to none (`StepMaps`): the stop event is only cleared
where there is no execution, and the goal is only sent by the thread of the current
execution with the event not set. `Refinement` is `Spec => KeepsLifecycle`.

The safety properties need more; none of them is inductive. For `EnabledIsOwned`,
`ClosedIsQuiet` and `ReportedIsDisabled` what is missing is how `terminal_lock`, the flags and
the robot hang together: a terminal operation past its entry holds the lock (`Exclusive`)
and as long as it does, the stop event stays set (`Stopped`, `Closing`), since PREPARE and
SCHEDULE, which clear it, are refused; therefore no arming can succeed between the disarm and
the report (`Reporting`), and one that succeeds belongs to the current execution (`Current`).
Most steps are *calm* (they clear no flag, enable no robot that is not latched, keep the
execution and the lock), and one lemma covers them (`CalmKeeps`).

`ClientIsServed` proves `ClientHasNavigation`. Its invariant `Serving` says what the threads that
share the navigation process and its client rely on: a process is only stopped by a thread that
holds no client, or by an unload about to drop it (`Dropping`); while a preparation runs
nothing is scheduled (`Asking`); a command that ends something has set the stop event for
as long as it runs (`Halting`) and ends whatever execution it finds (`Expecting`); and which
commands there are depends on the configuration (`Gated`, `Attached`).

`EndsCancelled` proves `ReportedIsCancelled`. Its invariant `Cancelling` follows the goal of the
execution that ends: a call that is to report no failure is made by the thread `_run` after its
last waypoint or by a command (`Enders`), and past its `cancel` step no goal is left
(`Cancelled`). The goals can only be cancelled through the client, so a goal without one is left
only by an adapter that closes (`Lost`), a command has ended the execution before it drops
the client (`Ended`), and a thread that still sends goals has one or no process to send them
to (`Driving`).

The assumption `AdapterConstants` says that None is no execution, task or call. Liveness is
model-checked only.

### Behaviour the model has

- `EmergencyConfirmedLatched` (not checked by a run): an emergency stop is confirmed although a
  reset has just lifted its latch. `_finish` of another operation clears `stopping`, the reset
  service runs between the latch and the report.
- A SCHEDULE that comes while the thread of the last execution is still alive is dropped
  without feedback. `_emergency_stop` never stops the navigation process. In the Scout
  configuration a pose timeout reports `failed` with the goal still active.

## 6. MappingSession and MapPreview

### State and code

`MappingSession` is `RosMapStreamNode` without the preview. Sessions are objects: `session` is
`self.session`, `state` and `subscribed` belong to each object, because threads of an old session
go on with it. `control` is the UDP thread (one datagram at a time), `watch` the watchdog
timer, `generator[o]` the thread `_generate_artifact` and its two variants, `closer` the shutdown.
`stack` is the session whose start left the mapping stack running and `pcd` whose map the file
each session reads has last been given: the accumulator's backends save one file for all
sessions, and a save may succeed without writing. The stack's commands each may fail; a start
refuses while a stack is known to run. Whether a stop that succeeds leaves the stack running
(`stray`) depends on the script: the accumulator's kill it or fail, the stage services wait for the
processes, and the scout's (`scripts/scout_mapping_stack.sh:200`-`212`) sends TERM at its timeout,
removes the PID file and exits 0. Such a stack ends when it likes (`StrayEnds`).

`MapPreview` is `_preview_loop`, its windows, the fragment cache and the HTTP server's entries.
It sees of the session what the preview reads: which one is current, whether it maps, and
whether a window was collected under its token of the moment. Three threads end sessions, and
none excludes another: the watchdog (`_fail_session`), the control thread
(`_restart_active_session`, which asks nobody whether the session is still the current one)
and each session's generation thread; `ender` says how far each is with each session. All its sessions have one ID, and so one directory, as after a restart of the ground
station: frames of one reuse the file names of another. `served` are the registered entries,
`readers` the downloads under way, `files` the fragment files on disk.

### Abstractions

- A message that repeats a request ID, or names another session, changes nothing.
- Point clouds, grids, archives and datagram formats are data. A window is the session
  it was collected for and whether its token is still the current one: tokens are only
  compared, and a renewal takes that away from every window at once.
- Bounds in `MapPreview`: `LastFrame` limits how many fragments a session numbers and `MaxDownloads`
  how many are read at a time; `MaxUnacked` is 1, so that the second fragment already supersedes
  the first.
- `MCEdgeServices` adds two bounds as a CONSTRAINT, because the full product is twice as large
  and takes TLC twice as long. A second fragment is explored while one session is referenced and
  at most one thread is ending it; two sessions, and all the threads that end them, are explored
  with one fragment each. After an interrupted generation, `close()` is explored with one session
  object. The theorems about these services know neither bound.

### Properties (runs `edge_services`, `services_end`)

- `PublishedIsOwn`: the archive of a session holds a map its own stack wrote since it
  started (`require_fresh_file` is what makes it hold), unless the watchdog has failed the session
  in the middle of its generation (`interrupted`).
- `PublishedAfterStop`: nothing is archived while the session's stack may still write, on
  every backend but the scout's `finalize`, where the code cannot know: there the archive
  may be made of files a forgotten mapper still writes.
- `GenerationOwnsSession`: the generating session stays the current one.
- `ServedIsCounted`: what can be downloaded is counted against the window of unacknowledged
  fragments. `NoOrphanFile`: every fragment file has somebody who will delete it.
  `EndsWithdrawn`: a session that failed or was saved has withdrawn every fragment when it is
  taken away, or another thread at work on it still will. A session taken away while its
  state says `mapping` is excepted: see below.
- `TransientStatesEnd`: no session stays preparing, starting, generating or failing. Weak
  fairness of the four threads: each command of theirs has a timeout.

### Proofs

`MappingSessionProofs` proves the first three for any number of session objects and any
backends. They are lost in different ways once the watchdog fails a session in the middle
of its generation, so the invariant has two halves. `Structure` and `Stopped` always hold:
the control thread works on the current session or on one that has been dropped, and
finds it in the state it left it in (`ControlOwns`, `ControlFinds`, `WatchFinds`); unless the
backend is `finalize`, an archive is begun only with the session's stack stopped. As long as nothing is
`interrupted`, also `Single` (at most one generation thread runs, the current session's),
`Own` and `SavedOwn` (the stack, and the file it saves to, belong to that session).

`MapPreviewProofs` proves `ServedIsCounted`, `NoOrphanFile` and `EndsWithdrawn` for any
sessions and any bounds: whoever withdraws a fragment deletes its file or leaves that to the
download that holds it open (`UnserveKeeps`), a thread at work has a window (`Windowed`),
and a session that does not map has no fragments, or one of its ending threads has still
to withdraw them (`Withdrawn`): each step that takes `mapping` away makes its thread such a one,
and no fragment is counted for such a session. `EdgeServicesProofs` cites both modules for the sum.

### Behaviour the models have

- `GenerationUninterrupted` (not checked by a run): `_fail_session` compares the session again
  but not its state: the watchdog finds the clouds missing, a stop begins the
  generation, and the session is failed while its artifacts are generated.
- The scout's stop reports success with its mapper alive: the PID file is gone, so the next
  start is not refused and two mappers run.
- A start that outlives the ready timeout leaves the mapping stack running with no session;
  the next start is refused by the stack until something aborts it. `_fail_session`
  aborts nothing: the stack of the failed session runs on.
- A restart whose abort fails leaves the session `mapping` and unsubscribed. A restart
  during mapping cleans the fragments and then lets the watchdog flush the old window under
  the renewed token. A generation that fails while the watchdog is ending the session sets it
  back to `mapping`. In both cases fragments are produced after the cleanup and stay.

## 7. Relocalization

### State and code

A handler of the UDP thread is one step: the thread is alone and takes no lock against the
workers but the one of negotiate. The workers (`fetcher`: downloads, `starter`: stack starts,
`monitor`: pose monitors, `region`: the trusted-region operation) run between handlers, and each of
their answers is two steps: the check of the generation and the assignments that follow.
An exception that nobody catches ends its thread, or the handler before its thread was begun:
the thread's record is `Dead` and the state stays. The download thread catches five types
(`node.py:326`), not a broken ZIP or HTTP response, nor a directory that cannot be made (309). The
disk may fail at each write of the state file, of which some are caught (`Fails`) and some not
(`OfferMap`, `InitialPose`). `StackReady` waits for `rostopic`, which has no timeout
(`ros_bridge.py:161`).
Generations are only compared with the current one, so a thread keeps whether its own still
is (`current`). `active` is the state file, which survives the process; `power` is the process;
`fixed` is a history variable, the maps localized since the process started.

### Abstractions and bounds

Maps and sessions are model values; checksums, geometry and the binary codec are pure. `Fetchers`,
`Starters` and `Monitors` bound how many threads of a kind are alive. The sum for safety
has the UAV's configuration (transform cache, continuous monitors, persisted result), two
maps, one session, one starter and one monitor: two maps are what a stale result may be
mistaken for. A sum with downloads as well does not fit a run; liveness covers them
(`Loader`) with one map. A kill of the process is possible at any step.

### Properties

- `LocalizedSinceBoot`: while the process runs, the state file, which the task adapter and the next
  negotiation read, says `localized` only for a map localized since the process started: neither a
  persisted transform nor one written at a shutdown is believed.
- `RegionsOfSession`: a region file is written only for the session negotiated at that moment.
- `OperationsEnd`: the states that say a download, a start or a relocalization is under way are
  left, whatever fails, but for two things it names: a thread that died of an exception
  outside those its code catches, and a start that from some time on waits for its
  topics. Weak fairness of each thread; of a start only outside that wait (`RunningStart`), since
  every other wait has a timeout.

### Proofs

`EdgeServicesProofs` proves `LocalizedSinceBoot` and `RegionsOfSession` for any maps, sessions,
threads and backends. A result that the shutdown will write, and not only what the file
says, has been found by a monitor of this life of the process (`UnsavedIsFixed`), and the
shutdown outdates every download of regions (`RegionsOutdated`), so that none of them finds
the session of the next life.

### Behaviour the model has

A download or a pose whose thread died leaves `downloading`, `verifying` or `relocalizing` for good: no
command of the session leaves these states but a new negotiation. `StackUsesItsMap` and `LateResultDiscarded` (neither checked by a run, both refuted by TLC): a
download that ends late sets `map_dir` after a new negotiation, so a start launches its stack
on another map's directory; a result that passed the check of its monitor's generation is
applied after a new monitor began.

## 8. GroundAirStages and GroundAirTask

### GroundAirStages

`StageController`, `RosProcessBackend` and the node. Every handler holds `_lock`, a transition for up to
a minute; `request` is the transition that holds it: `stopping` the old group, `starting` and
`waiting` for the new one, `undoing` it when it does not come up. Meanwhile processes exit and
the task's status changes (`task`, `told`). `children` are the groups started and not known to
be gone. Callers are sessions or `Operator`, any caller without a session name.

- `OneStageRuns`: at most one group is known and alive, also after an undone start or a group that
  refuses to stop; an active stage is the one its group was started for.
- `SessionKeepsStage`: a stage that belongs to a session ends by a request of that session, by
  the exit of its process or at the shutdown.

`GroundAirStagesProofs` proves both for any number of maps and sessions. The strengthening
says what holds at each step of a transition: a group is only started when every earlier one
is gone (`Cleared`), the stage called active is that of the group kept (`Backed`), an
unowned stage is base (`Unowned`), and a request that may take a stage from its session
was accepted for that session (`Entitled`).

`BaseMeansStopped` (not checked by a run) fails: when the group that refuses to stop had just been
started, the published stage stays base.

### GroundAirTask

`GroundAirTaskAdapter`: the command callback (`commander`), the prepare worker, one worker per
accepted mission, the status callbacks, the watchdog and the latch file. The native mission
node is external (`native`: the mission it holds and its state; `transit`: a vehicle status not
delivered yet). Its services are called through a `ServiceProxy` whose timeout bounds the wait
for the service only (`task_adapter.py:468`-`483`): a worker's start call (405) is a step of its own
(`calling`), which may be answered, fail, start the mission without an answer
(`StartUnanswered`), or last for ever (`Waits`). `Scheduled` bounds how many executions are
scheduled, one after the other; they share the stop event and the waypoint's clock, and the
worker of one may be on its way while the next runs.

`mission_ends`: `MissionEnds`, an accepted execution ends, unless from some time on the node
never answers its start: then `waypoint_started_at` stays 0, the watchdog never fires, and nothing
but a command or a status ends it. Otherwise the worker gives up or starts the clock the watchdog
reads, whatever stops, unloads, resets, emergency stops and the other execution have done to
the event and the clock meanwhile. Fairness: the watchdog timer fires and the worker's steps
happen, except that call; nothing is asked of the vehicle. Two executions: what is shared is
disturbed by any other one in the same way.

Behaviour the model has: `OperatorReleasesLock` (not checked by a run) fails: the adapter removes the
latch file when the vehicle's own emergency stop ends
(`task_adapter.py:145`–`152`), while the integration's `README.md:27` leaves the release to the
operator on site. A status that comes before the start sets the waypoint clock; the
start Trigger of an old worker can start a newer mission, as the node holds only one; a
preparation can report `ready` after an emergency stop.

## 9. UavFlight and WheeltecAuthority

### UavFlight

The task adapter's loop (commands and `tick`), its prepare thread (`loading`), the stage
manager's requests (`call`: one at a time, from the check to the answer under its lock) and
its watchdog, which takes none. `controller` is the native controller and its owner, `command`
the parameter `/ctrl_cmd/state`, `fault` and `latch` the two files. Each check of telemetry may fail
because the telemetry is stale. A start is made of the assignments of `uav_stage_node.py:115`:
the controller is recorded, then its lease begins, then the last fault is forgotten, and the
watchdog may run in between; a spawn that fails after `Popen` leaves a process that nothing
records (`unrecorded`). An emergency stop in the air writes its latch first and is answered as
failed, without a landing, when the telemetry is stale or the flight controller refuses.

- `ControllerIsOwned` (run `edge_services`): the controller that runs belongs to the task whose
  lease the adapter publishes and whose name it gives to stop it. A controller of nobody
  could be landed only by the pilot. Proved in `UavFlightProofs` for any tasks: the request under
  way is the one its sender waits for (`Sender`, `Unloads`, `Stopping`, `Starting`), and a
  confirmed stop leaves no controller (`Gone`), so the owner is only replaced when there is none. The
  theorems assume that None is no task and no record (`Distinct`).
- `NoResumeUnderFault` (run `uav_resume`, violated): `README.md:7` of the integration forbids an
  automatic resume after the lease has expired; `tick` never reads the fault file.

Behaviour the model has: an emergency stop on the ground is confirmed without cancelling a
scheduled takeoff; an UNLOAD blocks the loop that publishes the lease; a SCHEDULE of task A is
accepted while B is loading; PREPARE stays BUSY after `emergency_stopped` until an UNLOAD; a
failed workflow writes the fault file again after a reset; the watchdog may latch a fault while a
normal stop has just ended the controller, and the end of a start forgets in memory a fault that
it latched in between, and keeps it on disk; an unrecorded controller obeys the commands meant
for a later one, and no stop reaches it.

### WheeltecAuthority

`~enable`, `~stop` and `~reset` exclude one another and call the safety gate and the driver one
after the other; `transition` is the call the service makes next. A call takes effect and
is answered, fails, or takes effect and its answer is lost. The driver is the one of the R550+
profile's patch (`driver_patch/turn_on_wheeltec_robot_control_authority.patch`): it latches a stop when
the heartbeat of an autonomous task expires or another node commands it (`DriverChanges`),
refuses to be enabled then, and a release to manual clears the stop (`ReleaseDriver`). Of the V6
driver, which re-acquires by itself, only what the coordinator says of it is modelled: it
returns an idle authority. The state is published by
three threads that compute the value first and publish it later (`publishing`).

- `HeldAuthorityIsOwned`: between services an enabled driver has a task that wants it. Proved in
  `EdgeServicesProofs`: at every call the wish covers the driver (`Owned`), because it is recorded
  before the driver is enabled (`Claimed`) and dropped after it was given back (`Given`).
  The exception is a driver that could not be stopped (`unstopped`).
- `ReleaseShown` (run `services_end`): an authority given back for good is in the end shown so, although
  a late thread publishes an older value. Fairness of the publishing timer and threads.

## 10. What the runs show, and what they do not

| run | result | distinct states (about) |
|---|---|---|
| `coordinator` | holds | 748 000 |
| `scheduling_decided` | holds (liveness) | 288 000 |
| `control_safety` | holds | 495 000 |
| `late_answers` | holds (liveness) | 151 000 |
| `navigation` | holds | 700 000 |
| `edge_services` | holds | 1 551 000, the sum of six services |
| `services_end` | holds (liveness) | 65 000 |
| `mission_ends` | holds (liveness) | 900 000 |
| `uav_resume` | violated | |

with the three other violated runs of sections 3 and 4. Every safety property a passing run checks is also
proved, for every value of the constants that satisfies the assumption of its module: all
invariants, all action properties and the refinement. One has a hypothesis of its own:
`ExecuteAnswerIsFinal` that `execute_task` shares its request IDs with no other command
(section 3).

Only model-checked are the liveness properties `ExecuteEventuallyDecided`,
`LatchedIsEventuallyDisabled`, `MissionEnds` and the four of `services_end` (`ExecutionEnds`,
`TransientStatesEnd`, `OperationsEnd`, `ReleaseShown`): they rest on fairness and ENABLED, which the
prover does not handle.

Some modules define a property that no run checks; the text above names each. It says what
a document or a comment promises, and small instances refute it. They are kept beside the
model as observations.

### Not modelled

- The coordinator and an adapter in one model, and the adapter over the detailed
  interlock: the products exceed the size of a run. The interfaces are the same on both sides:
  `ExecutionLifecycle` and the feedback states, and the results `ControlSafety` allows.
- Coordinator configuration: YAML validation at startup.
- MQTT health: two counters and a client whose delivery and reconnection are paho's. UDP
  telemetry: numerical smoothing and one-way datagrams. Video: a pipeline of GStreamer's.
- Go2 and Wheeltec integration, device profiles and scripts: sequential checks, file copies and
  process launching. Go2's adapter is the navigation adapter.
- Of the map stream and relocalization: the caches of answers, datagram formats, point-cloud and
  image processing. Of the Ground-Air adapter: `close()` at shutdown. Of the UAV: `mapping_save`,
  the static and mapping modes, the adapter's restart and the supervisor.
