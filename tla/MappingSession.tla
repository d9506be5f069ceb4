-------------------------- MODULE MappingSession --------------------------
(***************************************************************************)
(* Mapping sessions of the map stream: RosMapStreamNode (node.py) without  *)
(* its preview, which is the module MapPreview.                            *)
(*                                                                         *)
(* Threads: the control thread (one datagram after the other), the         *)
(* watchdog timer, one generation thread per stopped session, and close()  *)
(* of the ROS shutdown.  They share self.session and the state of session  *)
(* objects under `lock`, which none holds while a command of the mapping   *)
(* stack runs.  A message that names another session than the current one  *)
(* is rejected, and one that repeats a request ID gets the answer it had:  *)
(* neither changes anything.                                               *)
(*                                                                         *)
(* The mapping stack is external: start fails while one is known to run,   *)
(* abort and stop end whichever it is, saving writes its map, and each of  *)
(* them may fail.  The scripts of the accumulator kill the stack, or fail, *)
(* and the stage services wait for the processes; the scout's script gives *)
(* up after its timeout, forgets the PID and reports success.              *)
(***************************************************************************)
EXTENDS FiniteSets

CONSTANTS
    Objects,        \* MappingSession objects, compared by identity
    Backends,       \* the integration backends considered
    None

\* "accumulator" saves one file for all sessions; "service" (ground_air_service,
\* ducted_uav) saves into the session; "finalize" (scout, managed) stops to save.
MappingConstants ==
    /\ Backends \subseteq {"accumulator", "service", "finalize"}
    /\ None \notin Objects

VARIABLES
    backend,        \* the configured backend
    session,        \* self.session, or None
    state,          \* the state of each session object
    subscribed,     \* whether each object holds its topic subscriptions
    pcd,            \* whose map the file each session reads has been given since its start
    stack,          \* the session whose stack the PID file or the service names, or None
    stray,          \* the sessions whose stack still runs after it was reported stopped
    control,        \* the step of the control thread, the session it works on, what comes next
    watch,          \* the step of the watchdog and the session it found failing
    generator,      \* the step of each session's generation thread
    closer,         \* the step of close(), the session it read, whether it stops the stack
    interrupted     \* a session was failed while its artifacts were generated

vars == <<backend, session, state, subscribed, pcd, stack, stray,
          control, watch, generator, closer, interrupted>>

States == {"none", "preparing", "ready", "starting", "mapping", "generating", "serving", "error"}
ControlSteps == {"idle", "probing", "starting", "launching", "launched", "failing", "dropping",
                 "stopping", "discarding", "aborting", "resetting", "renewing"}
GeneratorSteps == {"ended", "saving", "checking", "stopping", "collecting", "settling",
                   "archiving", "publishing", "resuming", "aborting", "dropping"}
Maybe == Objects \union {None}

TypeOK ==
    /\ backend \in Backends
    /\ session \in Maybe /\ stack \in Maybe /\ stray \subseteq Objects
    /\ state \in [Objects -> States]
    /\ subscribed \in [Objects -> BOOLEAN]
    /\ pcd \in [Objects -> Maybe]
    /\ control \in [step: ControlSteps, object: Maybe, next: {"none", "prepare"}]
    /\ watch \in [step: {"idle", "failing", "cleaning", "dropping"}, object: Maybe]
    /\ generator \in [Objects -> GeneratorSteps]
    /\ closer \in [step: {"none", "closing", "aborting", "dropping", "closed"},
                   object: Maybe, stops: BOOLEAN]
    /\ interrupted \in BOOLEAN
    /\ session # None => state[session] \notin {"none", "serving"}

Idle == [step |-> "idle", object |-> None, next |-> "none"]
NotWatching == [step |-> "idle", object |-> None]

Init ==
    /\ backend \in Backends
    /\ session = None /\ stack = None /\ stray = {}
    /\ state = [o \in Objects |-> "none"]
    /\ subscribed = [o \in Objects |-> FALSE]
    /\ pcd = [o \in Objects |-> None]
    /\ control = Idle /\ watch = NotWatching
    /\ generator = [o \in Objects |-> "ended"]
    /\ closer = [step |-> "none", object |-> None, stops |-> FALSE]
    /\ interrupted = FALSE

-----------------------------------------------------------------------------
Running == closer.step = "none"
ControlTo(step) == control' = [control EXCEPT !.step = step]
ControlEnds == control' = Idle

\* An object no thread, subscription or mapping stack refers to any more.
Unused(o) ==
    /\ o \notin {session, stack, control.object, watch.object, closer.object}
    /\ generator[o] = "ended" /\ ~subscribed[o] /\ o \notin stray
    /\ \A p \in Objects : pcd[p] # o

\* if self.session is session: self.session = None
Drop(o) == session' = IF session = o THEN None ELSE session
Enter(o, s) == state' = [state EXCEPT ![o] = s]
Unregister(o) == subscribed' = [subscribed EXCEPT ![o] = FALSE]

\* Mutant: every stop command answers before the processes are gone.
StackStopsLater ==
    /\ stack' = None
    /\ stray' \in {stray, stray \union ({stack} \ {None})}

\* A command that stops the stack and succeeds: only the scout's may leave it
\* running, forgotten.
StackStops ==
    /\ stack' = None
    /\ stray' \in IF backend = "finalize" THEN {stray, stray \union ({stack} \ {None})}
                                         ELSE {stray}

\* It succeeds, or fails wherever it was.
StackMayStop == StackStops \/ (stack' \in {None, stack} /\ UNCHANGED stray)

(* The control thread: prepare_mapping, and its answer after the probes.   *)
Renewed == control.step = "renewing"

Prepare(o) ==
    /\ Renewed \/ (control.step = "idle" /\ session = None)
    /\ Running \/ Renewed
    /\ Unused(o)
    /\ session' = o
    /\ Enter(o, "preparing")
    /\ pcd' = [pcd EXCEPT ![o] = None]
    /\ control' = [step |-> "probing", object |-> o, next |-> "none"]
    /\ UNCHANGED <<backend, subscribed, stack, stray, watch, generator, closer, interrupted>>

\* SessionPaths refuses the new session.
RenewFails ==
    /\ Renewed /\ ControlEnds
    /\ UNCHANGED <<backend, session, state, subscribed, pcd, stack, stray, watch, generator,
                   closer, interrupted>>

ReadinessPasses ==
    /\ control.step = "probing" /\ ControlEnds
    /\ IF session = control.object THEN Enter(session, "ready") ELSE UNCHANGED state
    /\ UNCHANGED <<backend, session, subscribed, pcd, stack, stray, watch, generator, closer,
                   interrupted>>

ReadinessFails ==
    /\ control.step = "probing" /\ ControlEnds
    /\ Drop(control.object)
    /\ UNCHANGED <<backend, state, subscribed, pcd, stack, stray, watch, generator, closer,
                   interrupted>>

-----------------------------------------------------------------------------
(* start_mapping: the session is looked at under one lock and changed      *)
(* under the next.                                                         *)
Start ==
    /\ control.step = "idle" /\ Running
    /\ session # None /\ state[session] = "ready"
    /\ control' = [step |-> "starting", object |-> session, next |-> "none"]
    /\ UNCHANGED <<backend, session, state, subscribed, pcd, stack, stray, watch, generator,
                   closer, interrupted>>

\* The baseline of the map file is taken.
StartBegins ==
    /\ control.step = "starting"
    /\ Enter(control.object, "starting")
    /\ pcd' = [pcd EXCEPT ![control.object] = None]
    /\ ControlTo("launching")
    /\ UNCHANGED <<backend, session, subscribed, stack, stray, watch, generator, closer,
                   interrupted>>

\* start_fast_lio, its outputs, the subscriptions.
Launches ==
    /\ control.step = "launching" /\ stack = None
    /\ stack' = control.object
    /\ subscribed' = [subscribed EXCEPT ![control.object] = TRUE]
    /\ ControlTo("launched")
    /\ UNCHANGED <<backend, session, state, pcd, stray, watch, generator, closer,
                   interrupted>>

\* Anything of it fails; the stack may have come up before.
LaunchFails ==
    /\ control.step = "launching"
    /\ stack' \in IF stack = None THEN {None, control.object} ELSE {stack}
    /\ Unregister(control.object)
    /\ ControlTo("failing")
    /\ UNCHANGED <<backend, session, state, pcd, stray, watch, generator, closer,
                   interrupted>>

AbortAfterStartFailure ==
    /\ control.step = "failing"
    /\ StackMayStop
    /\ ControlTo("dropping")
    /\ UNCHANGED <<backend, session, state, subscribed, pcd, watch, generator, closer,
                   interrupted>>

StartRejected ==
    /\ control.step = "dropping"
    /\ Drop(control.object)
    /\ ControlEnds
    /\ UNCHANGED <<backend, state, subscribed, pcd, stack, stray, watch, generator, closer,
                   interrupted>>

Started ==
    /\ control.step = "launched"
    /\ Enter(control.object, "mapping")
    /\ ControlEnds
    /\ UNCHANGED <<backend, session, subscribed, pcd, stack, stray, watch, generator, closer,
                   interrupted>>

-----------------------------------------------------------------------------
(* stop_mapping, and abort_mapping or a prepare_mapping with restart_active. *)
FirstStep == IF backend = "finalize" THEN "stopping" ELSE "saving"

Stop ==
    /\ control.step = "idle" /\ Running
    /\ session # None /\ state[session] = "mapping"
    /\ Enter(session, "generating")
    /\ control' = [step |-> "stopping", object |-> session, next |-> "none"]
    /\ UNCHANGED <<backend, session, subscribed, pcd, stack, stray, watch, generator, closer,
                   interrupted>>

StopGenerates ==
    /\ control.step = "stopping"
    /\ Unregister(control.object)
    /\ generator' = [generator EXCEPT ![control.object] = FirstStep]
    /\ ControlEnds
    /\ UNCHANGED <<backend, session, state, pcd, stack, stray, watch, closer, interrupted>>

\* Mutant: a session is restarted whatever it is doing.
MayRestartAlways(s) == s # "preparing"

MayRestart(s) == s \in {"ready", "starting", "mapping", "error"}

Restart(next) ==
    /\ control.step = "idle" /\ Running
    /\ session # None /\ MayRestart(state[session])
    /\ control' = [step |-> "discarding", object |-> session, next |-> next]
    /\ UNCHANGED <<backend, session, state, subscribed, pcd, stack, stray, watch, generator,
                   closer, interrupted>>

Discard ==
    /\ control.step = "discarding"
    /\ Unregister(control.object)
    /\ ControlTo(IF state[control.object] \in {"starting", "mapping"} THEN "aborting" ELSE "resetting")
    /\ UNCHANGED <<backend, session, state, pcd, stack, stray, watch, generator, closer,
                   interrupted>>

\* A failing abort or removal of the session's files is answered COMMAND_FAILED:
\* the session stays as it is, unsubscribed.
AbortStack ==
    /\ control.step = "aborting"
    /\ \/ StackStops /\ ControlTo("resetting")
       \/ StackMayStop /\ ControlEnds
    /\ UNCHANGED <<backend, session, state, subscribed, pcd, watch, generator, closer,
                   interrupted>>

ResetPaths ==
    /\ control.step = "resetting"
    /\ \/ /\ Drop(control.object)
          /\ IF control.next = "prepare" THEN control' = [Idle EXCEPT !.step = "renewing"] ELSE ControlEnds
       \/ ControlEnds /\ UNCHANGED session
    /\ UNCHANGED <<backend, state, subscribed, pcd, stack, stray, watch, generator, closer,
                   interrupted>>

-----------------------------------------------------------------------------
(* The watchdog, until close() has shut its timer down.                    *)
Ticks == closer.step # "closed" /\ watch.step = "idle" /\ session # None

ReadyExpires ==
    /\ Ticks /\ state[session] = "ready"
    /\ session' = None
    /\ UNCHANGED <<backend, state, subscribed, pcd, stack, stray, control, watch, generator,
                   closer, interrupted>>

\* The clouds or the poses have timed out; the session is failed after the lock.
InputLost ==
    /\ Ticks /\ state[session] = "mapping"
    /\ watch' = [step |-> "failing", object |-> session]
    /\ UNCHANGED <<backend, session, state, subscribed, pcd, stack, stray, control, generator,
                   closer, interrupted>>

FailBegins ==
    /\ watch.step = "failing"
    /\ IF session = watch.object
       THEN /\ interrupted' = (interrupted \/ state[session] = "generating")
            /\ Enter(session, "error")
            /\ watch' = [watch EXCEPT !.step = "cleaning"]
       ELSE UNCHANGED <<state, interrupted>> /\ watch' = NotWatching
    /\ UNCHANGED <<backend, session, subscribed, pcd, stack, stray, control, generator,
                   closer>>

FailUnregisters ==
    /\ watch.step = "cleaning"
    /\ Unregister(watch.object)
    /\ watch' = [watch EXCEPT !.step = "dropping"]
    /\ UNCHANGED <<backend, session, state, pcd, stack, stray, control, generator, closer,
                   interrupted>>

FailDrops ==
    /\ watch.step = "dropping"
    /\ Drop(watch.object)
    /\ watch' = NotWatching
    /\ UNCHANGED <<backend, state, subscribed, pcd, stack, stray, control, generator, closer,
                   interrupted>>

-----------------------------------------------------------------------------
(* The generation threads.                                                 *)
GeneratorTo(o, step) == generator' = [generator EXCEPT ![o] = step]

\* The files a save for o writes: one for all sessions, or the session's own.
Written(o) == IF backend = "accumulator" THEN Objects ELSE {o}
Writes(o) == pcd' = [p \in Objects |-> IF p \in Written(o) THEN stack ELSE pcd[p]]

\* The save command succeeds, even without writing, or fails: the ground-air
\* backend then resumes mapping, the accumulator's aborts.
Save(o) ==
    /\ generator[o] = "saving"
    /\ \/ GeneratorTo(o, "checking") /\ (IF stack = None THEN UNCHANGED pcd ELSE Writes(o))
       \/ GeneratorTo(o, "checking") /\ UNCHANGED pcd
       \/ GeneratorTo(o, IF backend = "service" THEN "resuming" ELSE "aborting") /\ UNCHANGED pcd
    /\ UNCHANGED <<backend, session, state, subscribed, stack, stray, control, watch, closer,
                   interrupted>>

\* require_fresh_file: the map was written since the session's start.
\* Mutant: the file has to exist, whoever wrote it.
FreshEnough(o) == o \in Objects

Fresh(o) == pcd[o] # None

CheckFresh(o) ==
    /\ generator[o] = "checking"
    /\ GeneratorTo(o, CASE backend = "finalize" -> IF Fresh(o) THEN "collecting" ELSE "dropping"
                        [] OTHER -> IF Fresh(o) THEN "stopping" ELSE "aborting")
    /\ UNCHANGED <<backend, session, state, subscribed, pcd, stack, stray, control, watch,
                   closer, interrupted>>

\* Stopping a scout's mapper makes it write its map.
StopStack(o) ==
    /\ generator[o] = "stopping"
    /\ \/ /\ StackStops
          /\ GeneratorTo(o, IF backend = "finalize" THEN "checking" ELSE "collecting")
          /\ \/ backend = "finalize" /\ stack # None /\ Writes(o)
             \/ UNCHANGED pcd
       \/ StackMayStop /\ GeneratorTo(o, "aborting") /\ UNCHANGED pcd
    /\ UNCHANGED <<backend, session, state, subscribed, control, watch, closer, interrupted>>

\* Each of the next three may fail, and with it the generation.
Proceeds(o, from, to) ==
    /\ generator[o] = from
    /\ \E step \in {to, "dropping"} : GeneratorTo(o, step)
    /\ UNCHANGED <<backend, session, state, subscribed, pcd, stack, stray, control, watch,
                   closer, interrupted>>

\* The grid's and the octree's files, fresh or not at all; then all files stable
\* and valid; then the archive.
CollectOccupancy(o) == Proceeds(o, "collecting", "settling")
WaitForStableArtifacts(o) == Proceeds(o, "settling", "archiving")
BuildArchive(o) == Proceeds(o, "archiving", "publishing")

\* Mutant: the archive is announced and the session kept for later downloads.
PublishKeepsSession(o) ==
    /\ generator[o] = "publishing"
    /\ GeneratorTo(o, "ended")
    /\ IF session = o THEN Enter(o, "serving") ELSE UNCHANGED state
    /\ UNCHANGED <<backend, session, subscribed, pcd, stack, stray, control, watch, closer,
                   interrupted>>

Publish(o) ==
    /\ generator[o] = "publishing"
    /\ GeneratorTo(o, "ended")
    /\ Drop(o)
    /\ IF session = o THEN Enter(o, "serving") ELSE UNCHANGED state
    /\ UNCHANGED <<backend, subscribed, pcd, stack, stray, control, watch, closer,
                   interrupted>>

\* Mutant: the subscriptions come back, and not the state.
ResumeKeepsState(o) ==
    /\ generator[o] = "resuming"
    /\ \/ GeneratorTo(o, "ended") /\ subscribed' = [subscribed EXCEPT ![o] = TRUE]
       \/ GeneratorTo(o, "aborting") /\ UNCHANGED subscribed
    /\ UNCHANGED <<backend, session, state, pcd, stack, stray, control, watch, closer,
                   interrupted>>

\* The save failed: the subscriptions come back, then the state; or neither.
Resume(o) ==
    /\ generator[o] = "resuming"
    /\ \/ /\ GeneratorTo(o, "ended")
          /\ subscribed' = [subscribed EXCEPT ![o] = TRUE]
          /\ IF session = o THEN Enter(o, "mapping") ELSE UNCHANGED state
       \/ GeneratorTo(o, "aborting") /\ UNCHANGED <<state, subscribed>>
    /\ UNCHANGED <<backend, session, pcd, stack, stray, control, watch, closer, interrupted>>

AbortGeneration(o) ==
    /\ generator[o] = "aborting"
    /\ StackMayStop
    /\ GeneratorTo(o, "dropping")
    /\ UNCHANGED <<backend, session, state, subscribed, pcd, control, watch, closer,
                   interrupted>>

GenerationFails(o) ==
    /\ generator[o] = "dropping"
    /\ GeneratorTo(o, "ended")
    /\ Drop(o)
    /\ UNCHANGED <<backend, state, subscribed, pcd, stack, stray, control, watch, closer,
                   interrupted>>

\* A forgotten mapper ends after all, and may write its map as it does.
StrayEnds(o) ==
    /\ o \in stray
    /\ stray' = stray \ {o}
    /\ pcd' \in {pcd, [pcd EXCEPT ![o] = o]}
    /\ UNCHANGED <<backend, session, state, subscribed, stack, control, watch, generator,
                   closer, interrupted>>

-----------------------------------------------------------------------------
(* close(): the other threads may be in the middle of something.           *)
CloserTo(step) == closer' = [closer EXCEPT !.step = step]

Close ==
    /\ Running
    /\ closer' = [step |-> "closing", object |-> session,
                  stops |-> session # None /\ state[session] \in {"starting", "mapping"}]
    /\ UNCHANGED <<backend, session, state, subscribed, pcd, stack, stray, control, watch,
                   generator, interrupted>>

CloseCleans ==
    /\ closer.step = "closing"
    /\ IF closer.object = None THEN UNCHANGED subscribed ELSE Unregister(closer.object)
    /\ CloserTo(IF closer.stops THEN "aborting" ELSE "dropping")
    /\ UNCHANGED <<backend, session, state, pcd, stack, stray, control, watch, generator,
                   interrupted>>

CloseAborts ==
    /\ closer.step = "aborting"
    /\ StackMayStop
    /\ CloserTo("dropping")
    /\ UNCHANGED <<backend, session, state, subscribed, pcd, control, watch, generator,
                   interrupted>>

CloseEnds ==
    /\ closer.step = "dropping"
    /\ session' = None
    /\ CloserTo("closed")
    /\ UNCHANGED <<backend, state, subscribed, pcd, stack, stray, control, watch, generator,
                   interrupted>>

-----------------------------------------------------------------------------
ControlContinues ==
    \/ RenewFails \/ ReadinessPasses \/ ReadinessFails
    \/ StartBegins \/ Launches \/ LaunchFails \/ AbortAfterStartFailure \/ StartRejected \/ Started
    \/ StopGenerates \/ Discard \/ AbortStack \/ ResetPaths
Commands ==
    \/ \E o \in Objects : Prepare(o)
    \/ Start \/ Stop
    \/ \E next \in {"none", "prepare"} : Restart(next)
Watchdog == ReadyExpires \/ InputLost
WatchdogContinues == FailBegins \/ FailUnregisters \/ FailDrops
Generation(o) ==
    \/ Save(o) \/ CheckFresh(o) \/ StopStack(o)
    \/ CollectOccupancy(o) \/ WaitForStableArtifacts(o) \/ BuildArchive(o) \/ Publish(o)
    \/ Resume(o) \/ AbortGeneration(o) \/ GenerationFails(o)
Closing == CloseCleans \/ CloseAborts \/ CloseEnds

Next ==
    \/ ControlContinues \/ Commands \/ Watchdog \/ WatchdogContinues
    \/ Close \/ Closing
    \/ \E o \in Objects : Generation(o) \/ StrayEnds(o)

Spec == Init /\ [][Next]_vars

-----------------------------------------------------------------------------
(* Properties.                                                             *)

\* The archive published for a session holds a map its own mapping stack wrote
\* since it started, although the saved file, the stack and its commands are
\* shared by all sessions and a save may succeed without writing; unless the
\* watchdog interrupted a generation (see GenerationUninterrupted).
PublishedIsOwn ==
    ~interrupted => \A o \in Objects : generator[o] = "publishing" => pcd[o] = o

\* A session's files are archived only after its mapping stack has stopped: no
\* process writes them any more (_generate_artifact and its ground-air variant).
\* Not so for a scout, whose stop script reports success when it has given up: the
\* archive is then made of files a forgotten mapper may still write.
PublishedAfterStop ==
    backend # "finalize" =>
        \A o \in Objects :
            generator[o] \in {"collecting", "settling", "archiving", "publishing"} =>
                stack # o /\ o \notin stray

\* While a session's artifacts are generated it stays the current session, so
\* that no other one is prepared: whatever abort, restart, failed save or timer
\* comes, as long as the watchdog interrupts none and the node is not closed.
GenerationOwnsSession ==
    Running /\ ~interrupted => \A o \in Objects : generator[o] # "ended" => session = o

\* "Artifact generation and serving cannot be interrupted" (README): it goes on
\* until they are published, or mapping resumes, or the generation has failed.
\* _fail_session looks at the session again and not at its state.
GenerationUninterrupted ==
    [][\A o \in Objects : state[o] = "generating" => state'[o] # "error"]_vars

\* The threads go on: each of their commands and waits has a timeout.
Fairness ==
    /\ WF_vars(ControlContinues) /\ WF_vars(WatchdogContinues) /\ WF_vars(Closing)
    /\ \A o \in Objects : WF_vars(Generation(o))

FairSpec == Spec /\ Fairness

\* No session stays preparing, starting, generating or failing: it comes to wait
\* for a command, to mapping, or to its end.
TransientStatesEnd ==
    \A o \in Objects :
        session = o /\ state[o] \in {"preparing", "starting", "generating", "error"}
            ~> session # o \/ state[o] \in {"ready", "mapping"}
=============================================================================
