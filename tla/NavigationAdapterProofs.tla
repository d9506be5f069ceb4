----------------------- MODULE NavigationAdapterProofs -----------------------
(***************************************************************************)
(* The navigation adapter implements ExecutionLifecycle and keeps its      *)
(* robot safe, for every set of executions, tasks and configurations and   *)
(* every number of waypoints: a robot that accepts motion has an execution *)
(* or a latch, an end is only reported with the robot disabled or latched, *)
(* a closed adapter is quiet, no goal outlives the end that is reported.   *)
(*                                                                         *)
(* The argument: every handler keeps the types, so that each update of the *)
(* flags is known, and the thread _run always has an execution of its own  *)
(* (Working).  Then each step maps to one of the lifecycle or to none: the *)
(* stop event is only cleared when there is no execution, and a goal is    *)
(* only sent for the current execution, with the event not set.            *)
(*                                                                         *)
(* A terminal operation past its entry holds terminal_lock (Exclusive),    *)
(* and as long as it does the stop event stays set (Stopped, Closing), for *)
(* PREPARE and SCHEDULE, which clear it, are refused.  So no arming can    *)
(* succeed between the disarm and the report (Reporting), and one that     *)
(* succeeds belongs to the current execution (Current).                    *)
(*                                                                         *)
(* A command that ends something keeps the stop event set too (Halting),   *)
(* and nothing is scheduled while a preparation runs (Asking).  So the     *)
(* client is only dropped where there is no execution, or when an adapter  *)
(* that closes lets no _finish begin (Ended, Lost); whoever is to report a *)
(* success has cancelled the goals with the client (Cancelled), and _run,  *)
(* the only one to send any, is stopped or past its last (Enders).         *)
(***************************************************************************)
EXTENDS NavigationAdapter, TLAPS

WorkerType == [step: WorkerSteps, execution: Executions \union {None}, index: 0..Waypoints - 1]
PreparerType == [step: PreparerSteps, task: Tasks \union {None}]
WatchdogType == [step: WatchdogSteps, seen: Executions \union {None}, replaced: BOOLEAN]
CallsType == [Callers -> Call \union {None}]
WantedType == [task: Tasks \union {None}, ready: BOOLEAN]

\* The thread _run has an execution.
Working == worker.step # "ended" => worker.execution \in Executions

-----------------------------------------------------------------------------
(* What the helpers of the handlers return.                                *)
LEMMA ReplacesType == ASSUME TypeOK, ReplacesProcess PROVE watchdog' \in WatchdogType
<1>1. (watchdog.step = "cleaning") \in BOOLEAN
  OBVIOUS
<1>2. watchdog \in WatchdogType
  BY DEF TypeOK, WatchdogType
<1> QED
  BY <1>1, <1>2 DEF ReplacesProcess, WatchdogType

\* What a client is owed stays a task or nothing.
LEMMA AnswersType == ASSUME TypeOK, NEW ready \in BOOLEAN, Answers(ready)
                     PROVE  wanted' \in WantedType
BY DEF TypeOK, Answers, WantedType

\* A thread _run that moves on keeps its execution, or ends without one.
LEMMA WorkerToType ==
    ASSUME TypeOK, Working, NEW step \in WorkerSteps, WorkerTo(step),
           worker.step # "ended"
    PROVE  worker' \in WorkerType /\ Working'
<1>1. worker \in WorkerType
  BY DEF TypeOK, WorkerType
<1>2. CASE step = "ended"
  BY <1>2, AdapterConstants DEF WorkerTo, NoWorker, WorkerType, Working, WorkerSteps
<1>3. CASE step # "ended"
  BY <1>1, <1>3 DEF WorkerTo, WorkerType, Working
<1> QED
  BY <1>2, <1>3

\* _finish is a terminal operation whatever it is asked to report.
LEMMA FinishType ==
    ASSUME NEW state \in EndStates, NEW code, NEW expected \in Executions \union {None},
           NEW force \in BOOLEAN
    PROVE  Finish(state, code, expected, force) \in Call
<1>1. RequiresFaultStop(state, code) \in BOOLEAN
  BY DEF RequiresFaultStop
<1> QED
  BY <1>1 DEF Finish, Call

\* _close is a terminal operation.
LEMMA CloseType == Close \in Call
BY DEF Close, Call, EndStates

\* A thread that calls a terminal operation has one under way.
LEMMA CallsOperation == ASSUME TypeOK, NEW t \in Callers, NEW c \in Call, Calls(t, c)
                        PROVE  call' \in CallsType
BY DEF TypeOK, Calls, CallsType

\* An exception of _run ends in _finish, or ends the thread.
LEMMA RaisesType ==
    ASSUME TypeOK, Working, NEW code, Raises(code), worker.step # "ended"
    PROVE  worker' \in WorkerType /\ Working' /\ call' \in CallsType
<1>1. CASE Mine /\ ~flags.stopping
  <2>1. WorkerTo("finishing") /\ Calls("worker", Finish("failed", code, worker.execution, FALSE))
    BY <1>1 DEF Raises
  <2>2. Finish("failed", code, worker.execution, FALSE) \in Call
    BY FinishType DEF Working, EndStates
  <2> QED
    BY <2>1, <2>2, WorkerToType, CallsOperation DEF WorkerSteps, Callers
<1>2. CASE ~(Mine /\ ~flags.stopping)
  BY <1>2, WorkerToType DEF Raises, WorkerSteps, TypeOK, CallsType
<1> QED
  BY <1>1, <1>2

\* Stopping the navigation process leaves no process and no new goal.
LEMMA StopsNavigationType == ASSUME TypeOK, StopsNavigation
                             PROVE  navigation' = "none" /\ goal' \in {None, goal}
BY DEF StopsNavigation

\* A thread at a step of a terminal operation is in one.
LEMMA InStepType == ASSUME TypeOK, NEW t \in Callers, NEW step, InStep(t, step)
                    PROVE  call[t] \in Call
BY DEF TypeOK, InStep

\* A thread that returns from a terminal operation is in none.
LEMMA ReturnsType == ASSUME TypeOK, NEW t \in Callers, Returns(t) PROVE call' \in CallsType
BY DEF TypeOK, Returns, CallsType

\* A disarm leads to the report and records whether it failed.
LEMMA DisabledType ==
    ASSUME TypeOK, NEW t \in Callers, call[t] \in Call, NEW failed \in BOOLEAN,
           Disabled(t, failed)
    PROVE  call' \in CallsType
<1> DEFINE c == [call[t] EXCEPT !.step = "report", !.errors = @ \/ failed, !.fault = FALSE]
<1>1. (call[t].errors \/ failed) \in BOOLEAN
  OBVIOUS
<1>2. c \in Call
  BY <1>1 DEF Call
<1>3. call' = [call EXCEPT ![t] = c]
  BY DEF Disabled
<1> HIDE DEF c
<1> QED
  BY <1>2, <1>3 DEF TypeOK, CallsType

-----------------------------------------------------------------------------
(* Each kind of step keeps the types.                                      *)
Good == TypeOK /\ Working

\* The preparation thread keeps the types.
LEMMA PrepareThreadTypes == ASSUME Good, PrepareThread PROVE Good'
<1> USE DEF Good
<1>1. preparer' \in PreparerType
  <2>1. \/ preparer' = NoPreparer
        \/ \E step \in PreparerSteps : preparer' = [preparer EXCEPT !.step = step]
    BY DEF PrepareThread, PrepareConnects, PrepareReports, PrepareGivesUp, PrepareFails,
           PrepareForgets, PrepareStopsNavigation, PreparerMoves, PreparerSteps
  <2> QED
    BY <2>1 DEF NoPreparer, PreparerType, PreparerSteps, TypeOK
<1>2. wanted' \in WantedType
  BY AnswersType DEF PrepareThread, PrepareConnects, PrepareReports, PrepareGivesUp, PrepareFails,
         PrepareForgets, PrepareStopsNavigation, WantedType, TypeOK
<1>3. watchdog' \in WatchdogType
  BY ReplacesType DEF PrepareThread, PrepareConnects, PrepareReports, PrepareGivesUp, PrepareFails,
         PrepareForgets, PrepareStopsNavigation, PreparerMoves, WatchdogType, TypeOK
<1>4. /\ client' \in BOOLEAN /\ prepared' \in Tasks \union {None}
      /\ navigation' \in {"none", "running", "exited"} /\ goal' \in Executions \union {None}
  BY DEF PrepareThread, PrepareConnects, PrepareReports, PrepareGivesUp, PrepareFails,
         PrepareForgets, PrepareStopsNavigation, PreparerMoves, StopsNavigation, system, robot, TypeOK
<1>5. UNCHANGED <<profile, execution, flags, monitor, latched, enabled, worker, command, call, terminal>>
  BY DEF PrepareThread, PrepareConnects, PrepareReports, PrepareGivesUp, PrepareFails,
         PrepareForgets, PrepareStopsNavigation, PreparerMoves, system, robot
<1> QED
  BY <1>1, <1>2, <1>3, <1>4, <1>5 DEF TypeOK, Working, PreparerType, WantedType, WatchdogType

\* The thread _run keeps the types and its execution.
LEMMA WorkerThreadTypes == ASSUME Good, WorkerThread PROVE Good'
<1> USE DEF Good
<1>1. worker.step # "ended"
  BY DEF WorkerThread, WorkerStops, StartTimeComes, ArmSucceeds, ArmFails, Armed, SendGoal,
         WaypointTimesOut, WaypointReached, WorkerEnds, RunFails
<1>2. worker' \in WorkerType /\ Working' /\ call' \in CallsType
  <2>1. CASE WorkerStops \/ StartTimeComes \/ ArmSucceeds \/ Armed \/ SendGoal \/ WorkerEnds
    <3>1. \E step \in WorkerSteps : WorkerTo(step)
      BY <2>1 DEF WorkerStops, StartTimeComes, ArmSucceeds, Armed, SendGoal, WorkerEnds, WorkerSteps
    <3>2. UNCHANGED call
      BY <2>1 DEF WorkerStops, StartTimeComes, ArmSucceeds, Armed, SendGoal, WorkerEnds
    <3> QED
      BY <1>1, <3>1, <3>2, WorkerToType DEF TypeOK, CallsType
  <2>2. CASE ArmFails \/ WaypointTimesOut \/ \E code \in FailureCodes : RunFails(code)
    <3>1. \E code : Raises(code)
      BY <2>2 DEF ArmFails, WaypointTimesOut, RunFails
    <3> QED
      BY <1>1, <3>1, RaisesType
  <2>3. CASE WaypointReached
    <3>1. CASE MoreWaypoints
      <4>1. worker' = [worker EXCEPT !.step = "next", !.index = @ + 1] /\ UNCHANGED call
        BY <2>3, <3>1 DEF WaypointReached
      <4>2. worker \in WorkerType /\ worker.index + 1 \in 0..Waypoints - 1
        BY <3>1, AdapterConstants DEF MoreWaypoints, TypeOK, WorkerType
      <4>3. worker' \in WorkerType /\ worker'.execution = worker.execution
        BY <4>1, <4>2 DEF WorkerType, WorkerSteps
      <4> QED
        BY <1>1, <4>1, <4>3 DEF Working, TypeOK, CallsType
    <3>2. CASE ~MoreWaypoints
      <4>1. /\ WorkerTo("finishing")
            /\ Calls("worker", Finish("completed", "", worker.execution, FALSE))
        BY <2>3, <3>2 DEF WaypointReached
      <4>2. Finish("completed", "", worker.execution, FALSE) \in Call
        BY <1>1, FinishType DEF Working, EndStates
      <4> QED
        BY <1>1, <4>1, <4>2, WorkerToType, CallsOperation DEF WorkerSteps, Callers
    <3> QED
      BY <3>1, <3>2
  <2> QED
    BY <2>1, <2>2, <2>3 DEF WorkerThread
<1>3. flags' \in Flags
  <2>1. flags' \in {flags, [flags EXCEPT !.stop = TRUE], [flags EXCEPT !.armed = TRUE]}
    BY DEF WorkerThread, WorkerStops, StartTimeComes, ArmSucceeds, ArmFails, Armed, SendGoal,
           WaypointTimesOut, WaypointReached, WorkerEnds, RunFails, system
  <2> QED
    BY <2>1 DEF TypeOK, Flags
<1>4. goal' \in Executions \union {None}
  BY <1>1 DEF WorkerThread, WorkerStops, StartTimeComes, ArmSucceeds, ArmFails, Armed, SendGoal,
         WaypointTimesOut, WaypointReached, WorkerEnds, RunFails, robot, TypeOK, Working
<1>5. latched' \in BOOLEAN /\ enabled' \in BOOLEAN
  BY DEF WorkerThread, WorkerStops, StartTimeComes, ArmSucceeds, ArmFails, Armed, SendGoal,
         WaypointTimesOut, WaypointReached, WorkerEnds, RunFails, robot, TypeOK
<1>6. UNCHANGED <<profile, execution, prepared, client, navigation, monitor, preparer, command,
                  watchdog, terminal, wanted>>
  BY DEF WorkerThread, WorkerStops, StartTimeComes, ArmSucceeds, ArmFails, Armed, SendGoal,
         WaypointTimesOut, WaypointReached, WorkerEnds, RunFails, system
<1> QED
  BY <1>2, <1>3, <1>4, <1>5, <1>6 DEF TypeOK, WorkerType, CallsType

\* Every step of _finish and _close keeps the types.
LEMMA TerminalTypes == ASSUME Good, NEW t \in Callers, Terminal(t) PROVE Good'
<1> USE DEF Good
<1>1. call' \in CallsType
  <2>1. call[t] \in Call
    BY InStepType DEF Terminal, FinishEnters, CloseEnters, CancelGoals, Disable, FinishReports,
                      CloseReports
  <2>2. CASE FinishEnters(t)
    <3>1. CASE NothingToFinish(call[t])
      BY <2>2, <3>1, ReturnsType DEF FinishEnters
    <3>2. CASE ~NothingToFinish(call[t])
      <4> DEFINE c == [call[t] EXCEPT !.step = IF profile.safety THEN "cancel" ELSE "report",
                                      !.expected = None, !.force = FALSE]
      <4>1. c \in Call
        BY <2>1 DEF Call
      <4>2. call' = [call EXCEPT ![t] = c]
        BY <2>2, <3>2 DEF FinishEnters
      <4> HIDE DEF c
      <4> QED
        BY <4>1, <4>2 DEF TypeOK, CallsType
    <3> QED
      BY <3>1, <3>2
  <2>3. CASE CloseEnters(t)
    <3>1. StepTo(t, "cancel") => call' \in CallsType
      BY <2>1 DEF StepTo, TypeOK, CallsType, Call
    <3> QED
      BY <2>3, <3>1, ReturnsType DEF CloseEnters
  <2>4. CASE CancelGoals(t)
    <3>1. [call EXCEPT ![t].step = "disable"] \in CallsType
      BY <2>1 DEF TypeOK, CallsType, Call
    <3>2. [call EXCEPT ![t].step = "disable", ![t].errors = TRUE] \in CallsType
      BY <2>1 DEF TypeOK, CallsType, Call
    <3> QED
      BY <2>4, <3>1, <3>2 DEF CancelGoals
  <2>5. CASE Disable(t)
    <3>1. \E failed \in BOOLEAN : Disabled(t, failed)
      BY <2>5 DEF Disable, StopsControl, Disarms, DisarmFails, TypeOK
    <3> QED
      BY <2>1, <3>1, DisabledType
  <2>6. CASE FinishReports(t) \/ CloseReports(t)
    BY <2>6, ReturnsType DEF FinishReports, CloseReports
  <2> QED
    BY <2>2, <2>3, <2>4, <2>5, <2>6 DEF Terminal
<1>2. flags' \in Flags
  BY DEF Terminal, FinishEnters, CloseEnters, CancelGoals, Disable, FinishReports, CloseReports,
         system, TypeOK, Flags
<1>3. /\ execution' \in Executions \union {None} /\ prepared' \in Tasks \union {None}
      /\ navigation' \in {"none", "running", "exited"} /\ goal' \in Executions \union {None}
      /\ terminal' \in Callers \union {None}
  <2>1. /\ execution' \in {None, execution} /\ prepared' \in {None, prepared}
        /\ navigation' \in {"none", navigation} /\ goal' \in {None, goal}
        /\ terminal' \in {None, terminal, t, "command"}
    BY DEF Terminal, FinishEnters, CloseEnters, CancelGoals, Disable, FinishReports, CloseReports,
           StopsNavigation, system, robot
  <2> QED
    BY <2>1 DEF TypeOK, Callers
<1>4. client' \in BOOLEAN /\ latched' \in BOOLEAN /\ enabled' \in BOOLEAN
  BY DEF Terminal, FinishEnters, CloseEnters, CancelGoals, Disable, FinishReports, CloseReports,
         StopsControl, Disarms, DisarmFails, system, robot, TypeOK
<1>5. watchdog' \in WatchdogType
  BY ReplacesType
     DEF Terminal, FinishEnters, CloseEnters, CancelGoals, Disable, FinishReports, CloseReports,
         TypeOK, WatchdogType
<1>6. UNCHANGED <<profile, monitor, worker, preparer, command, wanted>>
  BY DEF Terminal, FinishEnters, CloseEnters, CancelGoals, Disable, FinishReports, CloseReports,
         system
<1> QED
  BY <1>1, <1>2, <1>3, <1>4, <1>5, <1>6 DEF TypeOK, Working, CallsType, WatchdogType

\* STOP, EMERGENCY_STOP and UNLOAD keep the types after they returned from a
\* terminal operation.
LEMMA CommandThreadTypes == ASSUME Good, CommandThread PROVE Good'
<1> USE DEF Good
<1>1. call' \in CallsType
  <2>1. CASE EmergencyLatches
    <3>1. PICK state \in {"emergency_stopped", "failed"} :
              Calls("command", Finish(state, "EMERGENCY_STOP_PERSISTENCE_FAILED", None, TRUE))
      BY <2>1 DEF EmergencyLatches
    <3>2. Finish(state, "EMERGENCY_STOP_PERSISTENCE_FAILED", None, TRUE) \in Call
      BY FinishType DEF EndStates
    <3> QED
      BY <3>1, <3>2, CallsOperation DEF Callers
  <2>2. CASE StopCancels
    <3>1. Finish("stopped", "", None, FALSE) \in Call
      BY FinishType DEF EndStates
    <3> QED
      BY <2>2, <3>1, CallsOperation DEF StopCancels, Callers
  <2>3. CASE UnloadCancels \/ UnloadStopsNavigation \/ UnloadForgets \/ CommandEnds
    BY <2>3 DEF UnloadCancels, UnloadStopsNavigation, UnloadForgets, CommandEnds, TypeOK, CallsType
  <2> QED
    BY <2>1, <2>2, <2>3 DEF CommandThread
<1>2. flags' \in Flags
  BY DEF CommandThread, StopCancels, EmergencyLatches, UnloadCancels, UnloadStopsNavigation,
         UnloadForgets, CommandEnds, system, TypeOK, Flags
<1>3. /\ execution' \in {None, execution} /\ prepared' \in {None, prepared}
      /\ navigation' \in {"none", navigation} /\ goal' \in {None, goal}
      /\ terminal' \in {None, terminal}
      /\ command' \in {"ending", "confirming", "unload", "forget", "idle"}
  BY DEF CommandThread, StopCancels, EmergencyLatches, UnloadCancels, UnloadStopsNavigation,
         UnloadForgets, CommandEnds, StopsNavigation, system, robot
<1>4. client' \in BOOLEAN /\ latched' \in BOOLEAN
  BY DEF CommandThread, StopCancels, EmergencyLatches, UnloadCancels, UnloadStopsNavigation,
         UnloadForgets, CommandEnds, system, robot, TypeOK
<1>5. watchdog' \in WatchdogType
  BY ReplacesType DEF CommandThread, StopCancels, EmergencyLatches, UnloadCancels,
         UnloadStopsNavigation, UnloadForgets, CommandEnds, TypeOK, WatchdogType
<1>6. UNCHANGED <<profile, monitor, enabled, worker, preparer, wanted>>
  BY DEF CommandThread, StopCancels, EmergencyLatches, UnloadCancels, UnloadStopsNavigation,
         UnloadForgets, CommandEnds, system, robot
<1> QED
  BY <1>1, <1>2, <1>3, <1>4, <1>5, <1>6
     DEF TypeOK, Working, CallsType, WatchdogType, CommandSteps

\* A halt sets the stop event.
LEMMA HaltsType == ASSUME TypeOK PROVE Halts \in Flags /\ Halts.stop = TRUE
<1>1. (profile.safety \/ flags.stopping) \in BOOLEAN
  OBVIOUS
<1>2. Halts = [flags EXCEPT !.stop = TRUE, !.stopping = profile.safety \/ flags.stopping]
  BY DEF Halts
<1> QED
  BY <1>1, <1>2 DEF TypeOK, Flags

\* A thread that closes the adapter sets the stop event and forgets the client.
LEMMA ClosesType ==
    ASSUME TypeOK, NEW t \in Callers, NEW permanent \in BOOLEAN, Closes(t, permanent)
    PROVE  /\ call' \in CallsType /\ flags' \in Flags /\ flags'.stop = TRUE /\ monitor' = FALSE
           /\ wanted' = NothingWanted
           /\ UNCHANGED <<profile, execution, prepared, client, navigation, robot,
                          worker, preparer, watchdog, terminal>>
<1>1. call' \in CallsType
  BY CloseType, CallsOperation DEF Closes
<1>2. (flags.permanent \/ permanent) \in BOOLEAN
  OBVIOUS
<1>3. flags' = [flags EXCEPT !.permanent = flags.permanent \/ permanent,
                             !.closing = TRUE, !.stop = TRUE]
  BY DEF Closes
<1>4. flags' \in Flags /\ flags'.stop = TRUE
  BY <1>2, <1>3 DEF TypeOK, Flags
<1> QED
  BY <1>1, <1>4 DEF Closes

\* Every command keeps the types.
LEMMA CommandsTypes == ASSUME Good, Commands PROVE Good'
<1> USE DEF Good
<1>1. ASSUME NEW t \in Tasks, Prepare(t) PROVE Good'
  <2>1. preparer' \in PreparerType
    BY <1>1 DEF Prepare, PreparerType, PreparerSteps, TypeOK
  <2>2. watchdog' \in WatchdogType
    BY <1>1, ReplacesType DEF Prepare
  <2>3. flags' \in Flags
    BY <1>1 DEF Prepare, TypeOK, Flags
  <2>4. monitor' \in BOOLEAN /\ client' \in BOOLEAN
    BY <1>1 DEF Prepare, TypeOK
  <2>5. /\ navigation' \in {"none", "running", "exited"} /\ goal' \in {None, goal}
        /\ prepared' \in {t, prepared}
    BY <1>1 DEF Prepare, StartsNavigation
  <2>6. wanted' \in WantedType
    BY <1>1 DEF Prepare, WantedType
  <2>7. UNCHANGED <<profile, execution, latched, enabled, worker, command, call, terminal>>
    BY <1>1 DEF Prepare
  <2> QED
    BY <2>1, <2>2, <2>3, <2>4, <2>5, <2>6, <2>7
       DEF TypeOK, Working, PreparerType, WatchdogType, WantedType
<1>2. ASSUME NEW t \in Tasks, PrepareAnswered(t) PROVE Good'
  <2>1. PrepareAllowed \in BOOLEAN
    BY DEF PrepareAllowed
  <2>2. wanted' \in WantedType
    BY <1>2, <2>1 DEF PrepareAnswered, WantedType
  <2> QED
    BY <1>2, <2>2 DEF PrepareAnswered, TypeOK, Working, WantedType, system, robot, threads
<1>3. ASSUME NEW e \in Executions, NEW t \in Tasks, Schedule(e, t) PROVE Good'
  <2>1. worker' \in WorkerType /\ Working'
    BY <1>3, AdapterConstants DEF Schedule, WorkerType, WorkerSteps, Working
  <2>2. flags' \in Flags
    BY <1>3 DEF Schedule, TypeOK, Flags
  <2> QED
    BY <1>3, <2>1, <2>2 DEF Schedule, TypeOK, WorkerType, robot
<1>4. CASE Stop
  <2>1. Finish("stopped", "", None, TRUE) \in Call
    BY FinishType DEF EndStates
  <2>2. call' \in CallsType
    BY <1>4, <2>1, CallsOperation DEF Stop, Callers, TypeOK, CallsType
  <2>3. command' \in CommandSteps
    BY <1>4 DEF Stop, CommandSteps
  <2>4. flags' \in Flags
    BY <1>4, HaltsType DEF Stop
  <2>5. UNCHANGED <<profile, execution, prepared, client, navigation, monitor, latched, enabled,
                    goal, worker, preparer, watchdog, terminal, wanted>>
    BY <1>4 DEF Stop, robot
  <2> QED
    BY <2>2, <2>3, <2>4, <2>5 DEF TypeOK, Working, CallsType
<1>5. CASE EmergencyStop
  <2>1. flags' \in Flags
    BY <1>5, HaltsType DEF EmergencyStop
  <2>2. wanted' \in WantedType /\ command' \in CommandSteps
    BY <1>5 DEF EmergencyStop, NothingWanted, WantedType, CommandSteps
  <2> QED
    BY <1>5, <2>1, <2>2 DEF EmergencyStop, TypeOK, Working, WantedType, robot
<1>6. CASE Unload
  <2>1. Finish("unloaded", "", None, TRUE) \in Call
    BY FinishType DEF EndStates
  <2>2. call' \in CallsType
    BY <1>6, <2>1, CallsOperation DEF Unload, Callers, TypeOK, CallsType
  <2>3. command' \in CommandSteps /\ terminal' \in Callers /\ wanted' \in WantedType
    BY <1>6 DEF Unload, CommandSteps, Callers, NothingWanted, WantedType
  <2>4. flags' \in Flags
    BY <1>6, HaltsType DEF Unload
  <2>5. UNCHANGED <<profile, execution, prepared, client, navigation, monitor, latched, enabled,
                    goal, worker, preparer, watchdog>>
    BY <1>6 DEF Unload, robot
  <2> QED
    BY <2>2, <2>3, <2>4, <2>5 DEF TypeOK, Working, CallsType, WantedType
<1>7. CASE ShutdownUnload
  <2>1. PICK permanent \in BOOLEAN : Closes("command", permanent)
    BY <1>7 DEF ShutdownUnload
  <2>2. command' \in CommandSteps
    BY <1>7 DEF ShutdownUnload, CommandSteps
  <2>3. /\ call' \in CallsType /\ flags' \in Flags /\ monitor' = FALSE
        /\ wanted' = NothingWanted
        /\ UNCHANGED <<profile, execution, prepared, client, navigation, robot,
                       worker, preparer, watchdog, terminal>>
    BY <2>1, ClosesType DEF Callers
  <2>5. UNCHANGED <<latched, enabled, goal>> /\ monitor' \in BOOLEAN
    BY <2>3 DEF robot
  <2>4. wanted' \in WantedType
    BY <2>3 DEF NothingWanted, WantedType
  <2> QED
    BY <2>2, <2>3, <2>4, <2>5 DEF TypeOK, Working, CallsType, WantedType
<1> QED
  BY <1>1, <1>2, <1>3, <1>4, <1>5, <1>6, <1>7 DEF Commands

\* The health and process watchdogs keep the types.
LEMMA WatchdogThreadTypes == ASSUME Good, WatchdogThread PROVE Good'
<1> USE DEF Good
<1>1. watchdog' \in WatchdogType
  <2>1. \E step \in WatchdogSteps, seen \in {execution, None} : WatchdogTo(step, seen, FALSE)
    BY DEF WatchdogThread, WatchdogLooks, ControlLost, WatchdogReturns, ExitFound, ExitCleans,
           ExitForgets, WatchdogSteps
  <2>2. execution \in Executions \union {None}
    BY DEF TypeOK
  <2>3. PICK step \in WatchdogSteps, seen \in {execution, None} : WatchdogTo(step, seen, FALSE)
    BY <2>1
  <2>4. watchdog' = [step |-> step, seen |-> seen, replaced |-> FALSE]
    BY <2>3 DEF WatchdogTo
  <2> QED
    BY <2>2, <2>3, <2>4 DEF WatchdogType
<1>2. call' \in CallsType
  <2>1. CASE ControlLost
    <3>1. Finish("failed", "CONTROL_STATE_UNAVAILABLE", watchdog.seen, FALSE) \in Call
      BY FinishType DEF EndStates, TypeOK
    <3> QED
      BY <2>1, <3>1, CallsOperation DEF ControlLost, Callers, TypeOK, CallsType
  <2>2. CASE ExitFound
    <3>1. Finish("failed", "NAVIGATION_PROCESS_EXITED", execution, TRUE) \in Call
      BY FinishType DEF EndStates, TypeOK
    <3> QED
      BY <2>2, <3>1, CallsOperation DEF ExitFound, Callers, TypeOK, CallsType
  <2>3. CASE WatchdogLooks \/ WatchdogReturns \/ ExitCleans \/ ExitForgets
    BY <2>3 DEF WatchdogLooks, WatchdogReturns, ExitCleans, ExitForgets, TypeOK, CallsType
  <2> QED
    BY <2>1, <2>2, <2>3 DEF WatchdogThread
<1>3. flags' \in Flags
  BY DEF WatchdogThread, WatchdogLooks, ControlLost, WatchdogReturns, ExitFound, ExitCleans,
         ExitForgets, system, TypeOK, Flags
<1>4. /\ execution' \in {None, execution} /\ prepared' \in {None, prepared}
      /\ navigation' \in {"none", navigation} /\ goal' \in {None, goal}
  BY DEF WatchdogThread, WatchdogLooks, ControlLost, WatchdogReturns, ExitFound, ExitCleans,
         ExitForgets, StopsNavigation, system, robot
<1>5. client' \in BOOLEAN
  BY DEF WatchdogThread, WatchdogLooks, ControlLost, WatchdogReturns, ExitFound, ExitCleans,
         ExitForgets, system, TypeOK
<1>6. UNCHANGED <<profile, monitor, latched, enabled, worker, preparer, command, terminal, wanted>>
  BY DEF WatchdogThread, WatchdogLooks, ControlLost, WatchdogReturns, ExitFound, ExitCleans,
         ExitForgets, system, robot
<1> QED
  BY <1>1, <1>2, <1>3, <1>4, <1>5, <1>6 DEF TypeOK, Working, CallsType, WatchdogType

\* The shutdown, the operator's reset, the process and the robot keep the types.
LEMMA EnvironmentTypes == ASSUME Good, Environment PROVE Good'
<1> USE DEF Good
<1>1. CASE Shutdown
  <2>1. /\ call' \in CallsType /\ flags' \in Flags /\ monitor' = FALSE
        /\ wanted' = NothingWanted
        /\ UNCHANGED <<profile, execution, prepared, client, navigation, robot,
                       worker, preparer, watchdog, terminal>>
    BY <1>1, ClosesType DEF Shutdown, Callers
  <2>2. wanted' \in WantedType /\ UNCHANGED command
    BY <1>1, <2>1 DEF Shutdown, NothingWanted, WantedType
  <2>3. UNCHANGED <<latched, enabled, goal>> /\ monitor' \in BOOLEAN
    BY <2>1 DEF robot
  <2> QED
    BY <2>1, <2>2, <2>3 DEF TypeOK, Working, CallsType, WantedType
<1>2. CASE ResetEmergencyStop \/ DisablesItself
  <2>1. latched' \in BOOLEAN /\ enabled' \in BOOLEAN
    BY <1>2 DEF ResetEmergencyStop, DisablesItself, TypeOK
  <2> QED
    BY <1>2, <2>1 DEF ResetEmergencyStop, DisablesItself, TypeOK, Working, system, threads
<1>3. CASE ProcessDies
  BY <1>3 DEF ProcessDies, TypeOK, Working, threads
<1> QED
  BY <1>1, <1>2, <1>3 DEF Environment

\* At every step of every thread the variables keep their types and a thread
\* _run that has not ended has an execution.
THEOREM AdapterInvariant == Spec => []Good
<1>1. Init => Good
  <2> SUFFICES ASSUME Init PROVE Good
    OBVIOUS
  <2>1. worker \in WorkerType /\ Working
    BY AdapterConstants DEF Init, NoWorker, WorkerType, WorkerSteps, Working
  <2>2. flags \in Flags
    BY DEF Init, Flags
  <2>3. preparer \in PreparerType /\ watchdog \in WatchdogType /\ wanted \in WantedType
    BY DEF Init, NoPreparer, PreparerType, PreparerSteps, WatchdogType, WatchdogSteps,
           NothingWanted, WantedType
  <2>4. call \in CallsType
    BY DEF Init, CallsType
  <2>5. {client, monitor, latched, enabled} \subseteq BOOLEAN
    BY DEF Init
  <2>6. /\ profile \in Profiles /\ execution = None /\ prepared = None /\ navigation = "none"
        /\ goal = None /\ command = "idle" /\ terminal = None
    BY DEF Init
  <2> QED
    BY <2>1, <2>2, <2>3, <2>4, <2>5, <2>6
       DEF Good, TypeOK, WorkerType, PreparerType, WatchdogType, WantedType, CallsType, CommandSteps
<1>2. Good /\ [Next]_vars => Good'
  <2>1. Good /\ UNCHANGED vars => Good'
    BY DEF Good, TypeOK, Working, vars, system, robot, threads
  <2> QED
    BY <2>1, PrepareThreadTypes, WorkerThreadTypes, TerminalTypes, CommandThreadTypes,
       CommandsTypes, WatchdogThreadTypes, EnvironmentTypes DEF Next
<1> QED
  BY <1>1, <1>2, PTL DEF Spec

\* Every variable keeps its type, whatever threads meet in whatever order.
THEOREM TypeCorrect == Spec => []TypeOK
<1>1. Good => TypeOK
  BY DEF Good
<1> QED
  BY <1>1, AdapterInvariant, PTL

-----------------------------------------------------------------------------
(* The refinement.                                                         *)

\* A step that starts nothing: it ends the execution, stops the motion, or
\* leaves both and lets a stopped execution stopped.
Quiet == \/ execution' = None /\ goal' \in {None, goal}
         \/ UNCHANGED <<execution, flags>> /\ goal' \in {None, goal}
         \/ UNCHANGED <<execution, goal>> /\ (flags.stop => flags'.stop)

\* A step that starts nothing and sends nothing is a step of the lifecycle or
\* none.
LEMMA QuietMaps == ASSUME Good, Good', Quiet
                   PROVE  [Lifecycle!Next]_(Lifecycle!lifecycle)
<1> DEFINE stopped == execution # None /\ flags.stop
<1> USE DEF Lifecycle!Next, Lifecycle!lifecycle
<1>1. flags.stop \in BOOLEAN /\ flags'.stop \in BOOLEAN
  BY DEF Good, TypeOK, Flags
<1>2. CASE execution' = None /\ goal' \in {None, goal}
  <2>1. stopped' = FALSE
    BY <1>2
  <2>2. CASE execution # None
    BY <1>2, <2>1, <2>2 DEF Lifecycle!End
  <2>3. CASE execution = None
    BY <1>2, <2>1, <2>3 DEF Lifecycle!Rest
  <2> QED
    BY <2>2, <2>3
<1>3. CASE UNCHANGED <<execution, flags>> /\ goal' \in {None, goal}
  BY <1>3 DEF Lifecycle!Rest
<1>4. CASE UNCHANGED <<execution, goal>> /\ (flags.stop => flags'.stop)
  <2>1. CASE execution # None /\ flags'.stop
    BY <1>4, <2>1 DEF Lifecycle!Halt
  <2>2. CASE ~(execution # None /\ flags'.stop)
    BY <1>4, <2>2
  <2> QED
    BY <2>1, <2>2
<1> QED
  BY <1>2, <1>3, <1>4 DEF Quiet

\* Each step of the adapter maps to a step of the lifecycle or to none.
LEMMA StepMaps == ASSUME Good, Good', [Next]_vars
                  PROVE  [Lifecycle!Next]_(Lifecycle!lifecycle)
<1> USE DEF Quiet
<1>1. CASE PrepareThread
  <2>1. Quiet
    BY <1>1 DEF PrepareThread, PrepareConnects, PrepareReports, PrepareGivesUp, PrepareFails,
                PrepareForgets, PrepareStopsNavigation, PreparerMoves, StopsNavigation, system, robot
  <2> QED
    BY <2>1, QuietMaps
<1>2. CASE SendGoal
  <2>1. /\ execution # None /\ execution = worker.execution /\ ~flags.stop
        /\ UNCHANGED <<execution, flags>>
    BY <1>2, AdapterConstants DEF SendGoal, MaySend, Mine, Good, Working, system
  <2>2. goal' = None \/ goal' = execution
    BY <1>2, <2>1 DEF SendGoal
  <2>3. Lifecycle!Move \/ Lifecycle!Rest
    BY <2>1, <2>2 DEF Lifecycle!Move, Lifecycle!Rest
  <2> QED
    BY <2>3 DEF Lifecycle!Next
<1>3. CASE WorkerThread /\ ~SendGoal
  <2>1. Quiet
    BY <1>3 DEF WorkerThread, WorkerStops, StartTimeComes, ArmSucceeds, ArmFails, Armed,
                WaypointTimesOut, WaypointReached, WorkerEnds, RunFails, system, robot,
                Good, TypeOK, Flags
  <2> QED
    BY <2>1, QuietMaps
<1>4. CASE CommandThread
  <2>1. Quiet
    BY <1>4 DEF CommandThread, StopCancels, EmergencyLatches, UnloadCancels,
                UnloadStopsNavigation, UnloadForgets, CommandEnds, StopsNavigation, system, robot,
                Good, TypeOK, Flags
  <2> QED
    BY <2>1, QuietMaps
<1>5. ASSUME NEW e \in Executions, NEW t \in Tasks, Schedule(e, t)
      PROVE  Lifecycle!Take(e)
  <2>1. execution = None /\ execution' = e /\ UNCHANGED goal
    BY <1>5 DEF Schedule, ScheduleAllowed, robot
  <2>2. ~flags'.stop
    BY <1>5 DEF Schedule, Good, TypeOK, Flags
  <2> QED
    BY <2>1, <2>2 DEF Lifecycle!Take
<1>6. ASSUME NEW t \in Tasks, Prepare(t) \/ PrepareAnswered(t) PROVE Quiet
  BY <1>6 DEF Prepare, PrepareAllowed, PrepareAnswered, system, robot
<1>7. CASE Stop \/ EmergencyStop \/ Unload
  <2>1. Quiet
    BY <1>7, HaltsType DEF Stop, EmergencyStop, Unload, robot, Good
  <2> QED
    BY <2>1, QuietMaps
<1>8. CASE ShutdownUnload \/ Shutdown
  <2>1. Quiet
    BY <1>8, ClosesType DEF ShutdownUnload, Shutdown, robot, Good, Callers
  <2> QED
    BY <2>1, QuietMaps
<1>9. CASE WatchdogThread
  <2>1. Quiet
    BY <1>9 DEF WatchdogThread, WatchdogLooks, ControlLost, WatchdogReturns, ExitFound,
                ExitCleans, ExitForgets, StopsNavigation, system, robot
  <2> QED
    BY <2>1, QuietMaps
<1>10. CASE ResetEmergencyStop \/ ProcessDies \/ DisablesItself
  <2>1. Quiet
    BY <1>10 DEF ResetEmergencyStop, ProcessDies, DisablesItself, system
  <2> QED
    BY <2>1, QuietMaps
<1>11. ASSUME NEW t \in Callers, Terminal(t) PROVE Quiet
  BY <1>11 DEF Terminal, FinishEnters, CloseEnters, CancelGoals, Disable, FinishReports,
               CloseReports, StopsNavigation, system, robot, Good, TypeOK, Flags
<1>12. CASE UNCHANGED vars
  <2>1. Quiet
    BY <1>12 DEF vars, system, robot
  <2> QED
    BY <2>1, QuietMaps
<1> QED
  BY <1>1, <1>2, <1>3, <1>4, <1>5, <1>6, <1>7, <1>8, <1>9, <1>10, <1>11, <1>12, QuietMaps
     DEF Next, Commands, Environment, Lifecycle!Next

\* The adapter keeps its promise to the coordinator: executions one at a time,
\* and no goal for one that was stopped, replaced or ended.
THEOREM Refinement == Spec => KeepsLifecycle
<1>1. Init => Lifecycle!Init
  BY DEF Init, Lifecycle!Init
<1>2. Good /\ Good' /\ [Next]_vars => [Lifecycle!Next]_(Lifecycle!lifecycle)
  BY StepMaps
<1> QED
  BY <1>1, <1>2, AdapterInvariant, PTL DEF Spec, KeepsLifecycle, Lifecycle!Spec

-----------------------------------------------------------------------------
(* The safety of the robot.                                                *)
\* Past its entry a terminal operation holds terminal_lock.
Held(t) == call[t] # None /\ call[t].step # "enter"

\* Without an interlock the adapter enables nothing.
Ungated == ~profile.safety => ~enabled /\ worker.step # "arming"
\* One at a time is past its entry, and the stop event stays set while it is.
Exclusive == \A t \in Callers : Held(t) => terminal = t
Stopped == \A t \in Callers :
    Held(t) => flags.stop /\ (call[t].op = "finish" => flags.stopping)
\* A close has closed the door to PREPARE and SCHEDULE before it waits for the lock.
Closing == \A t \in Callers :
    call[t] # None /\ call[t].op = "close" =>
        /\ flags.closing /\ flags.stop
        /\ IF t = "command" THEN command = "ending" ELSE flags.permanent
Closed == flags.closed => flags.closing /\ flags.stop
\* Who reports an end has disabled the robot or found it latched.
Reporting == \A t \in Callers : InStep(t, "report") => (enabled => latched)
\* A thread _run that was not stopped belongs to the current execution.
Current == profile.safety /\ worker.step # "ended" /\ ~flags.stop => execution = worker.execution
Owned == enabled => latched \/ execution # None

\* An UNLOAD keeps the lock between its _finish and its end.
Unloads == {"unloading", "cancelAll", "unload", "forget"}
Unloading ==
    /\ command \in Unloads => terminal = "command"
    /\ command \notin {"unloading", "ending", "confirming"} => call["command"] = None

IInv == /\ Ungated /\ Exclusive /\ Stopped /\ Closing /\ Closed /\ Unloading
        /\ Reporting /\ Current /\ Owned /\ ClosedIsQuiet

-----------------------------------------------------------------------------
(* Most steps are calm: they clear no flag, leave a robot that is latched  *)
(* or disabled so, keep the execution and the lock, and only begin or end  *)
(* a call of _finish.                                                      *)
CallsCalm == \A t \in Callers :
    \/ call'[t] = call[t]
    \/ call'[t] # None => call'[t].step = "enter" /\ call'[t].op = "finish"
FlagsCalm ==
    /\ flags.stop => flags'.stop
    /\ flags.stopping => flags'.stopping
    /\ UNCHANGED <<flags.closing, flags.permanent, flags.closed>>
RobotCalm == enabled' => /\ enabled \/ profile.safety
                         /\ latched' \/ (enabled /\ ~latched)
WorkerCalm ==
    /\ worker'.step # "ended" => worker.step # "ended" /\ worker'.execution = worker.execution
    /\ worker'.step = "arming" => profile.safety
CommandCalm ==
    /\ command = "ending" /\ call["command"] # None => command' = "ending"
    /\ command' \in Unloads => terminal' = "command"
    /\ command' \notin {"unloading", "ending", "confirming"} => call'["command"] = None
LockCalm == terminal' = terminal \/ (terminal \in {None, "command"} /\ terminal' = "command")
NavigationCalm == navigation' = navigation \/ (navigation' = "none") \/ navigation = "running"

\* A calm step keeps the invariant.
LEMMA CalmKeeps ==
    ASSUME IInv, Good, CallsCalm, FlagsCalm, RobotCalm, WorkerCalm, CommandCalm, NavigationCalm,
           LockCalm, UNCHANGED <<profile, execution>>
    PROVE  IInv'
<1> USE DEF IInv
<1>1. Ungated'
  BY DEF Ungated, RobotCalm, WorkerCalm
<1>2. \A t \in Callers : Held(t)' => Held(t) /\ call'[t] = call[t]
  BY DEF CallsCalm, Held
<1>3. Exclusive'
  BY <1>2, AdapterConstants DEF Exclusive, LockCalm
<1>4. Stopped'
  BY <1>2 DEF Stopped, FlagsCalm
<1>5. Closing'
  <2> SUFFICES ASSUME NEW t \in Callers, call'[t] # None, call'[t].op = "close"
               PROVE  /\ flags'.closing /\ flags'.stop
                      /\ IF t = "command" THEN command' = "ending" ELSE flags'.permanent
    BY DEF Closing
  <2>1. call'[t] = call[t]
    BY DEF CallsCalm
  <2> QED
    BY <2>1 DEF Closing, FlagsCalm, CommandCalm
<1>6. Closed'
  BY DEF Closed, FlagsCalm
<1>7. Reporting'
  <2> SUFFICES ASSUME NEW t \in Callers, InStep(t, "report")', enabled' PROVE latched'
    BY DEF Reporting
  <2>1. call'[t] = call[t]
    BY DEF CallsCalm, InStep
  <2> QED
    BY <2>1 DEF Reporting, InStep, RobotCalm
<1>8. Current'
  BY DEF Current, FlagsCalm, WorkerCalm
<1>9. Owned'
  BY DEF Owned, RobotCalm
<1>10. ClosedIsQuiet'
  BY DEF ClosedIsQuiet, FlagsCalm, RobotCalm, NavigationCalm
<1>11. Unloading'
  BY DEF Unloading, CommandCalm
<1> QED
  BY <1>1, <1>3, <1>4, <1>5, <1>6, <1>7, <1>8, <1>9, <1>10, <1>11

\* A call of _finish begins.
LEMMA FinishCalm ==
    ASSUME Good, NEW u \in Callers, NEW state, NEW code, NEW expected, NEW force,
           Calls(u, Finish(state, code, expected, force))
    PROVE  CallsCalm /\ \A t \in Callers \ {u} : call'[t] = call[t]
<1>1. /\ Finish(state, code, expected, force).step = "enter"
      /\ Finish(state, code, expected, force).op = "finish"
  BY DEF Finish
<1>2. \A t \in Callers : call'[t] = IF t = u THEN Finish(state, code, expected, force) ELSE call[t]
  BY DEF Calls, Good, TypeOK
<1> QED
  BY <1>1, <1>2 DEF CallsCalm

\* A call ends.
LEMMA ReturnCalm == ASSUME Good, NEW u \in Callers, Returns(u)
                    PROVE  CallsCalm /\ call'[u] = None
                           /\ \A t \in Callers \ {u} : call'[t] = call[t]
BY DEF Returns, Good, TypeOK, CallsCalm

\* _run goes on, stops or raises.
LEMMA WorkerToCalm ==
    ASSUME Good, NEW step \in WorkerSteps, WorkerTo(step), worker.step # "ended",
           step = "arming" => profile.safety
    PROVE  WorkerCalm /\ (step # "ended" => worker'.step = step)
<1>1. CASE step = "ended"
  BY <1>1 DEF WorkerTo, NoWorker, WorkerCalm
<1>2. CASE step # "ended"
  <2>1. worker' = [worker EXCEPT !.step = step]
    BY <1>2 DEF WorkerTo
  <2>2. worker'.step = step /\ worker'.execution = worker.execution
    BY <2>1 DEF Good, TypeOK
  <2> QED
    BY <1>2, <2>2 DEF WorkerCalm
<1> QED
  BY <1>1, <1>2

\* An exception of _run is calm: at most it calls _finish.
LEMMA RaisesCalm == ASSUME Good, NEW code, Raises(code), worker.step # "ended"
                    PROVE  CallsCalm /\ WorkerCalm /\ call'["command"] = call["command"]
<1>1. CASE Mine /\ ~flags.stopping
  <2>1. WorkerTo("finishing") /\ Calls("worker", Finish("failed", code, worker.execution, FALSE))
    BY <1>1 DEF Raises
  <2> QED
    BY <2>1, FinishCalm, WorkerToCalm DEF WorkerSteps, Callers
<1>2. CASE ~(Mine /\ ~flags.stopping)
  <2>1. WorkerTo("ended") /\ UNCHANGED call
    BY <1>2 DEF Raises
  <2> QED
    BY <2>1, WorkerToCalm DEF WorkerSteps, CallsCalm
<1> QED
  BY <1>1, <1>2

-----------------------------------------------------------------------------
\* The preparation thread touches neither the robot's control nor an execution.
LEMMA PrepareThreadSafe == ASSUME IInv, Good, PrepareThread PROVE IInv'
<1>1. /\ UNCHANGED <<profile, execution, terminal, call, flags, latched, enabled, worker, command>>
      /\ navigation' \in {"none", navigation}
  BY DEF PrepareThread, PrepareConnects, PrepareReports, PrepareGivesUp, PrepareFails,
         PrepareForgets, PrepareStopsNavigation, PreparerMoves, StopsNavigation, system, robot
<1>2. WorkerCalm
  BY <1>1 DEF IInv, Ungated, WorkerCalm
<1>3. CommandCalm
  BY <1>1 DEF IInv, Unloading, CommandCalm
<1> QED
  BY <1>1, <1>2, <1>3, CalmKeeps DEF CallsCalm, FlagsCalm, RobotCalm, NavigationCalm, LockCalm

\* The thread _run only arms while its execution is current and not stopped.
LEMMA WorkerThreadSafe == ASSUME IInv, Good, WorkerThread PROVE IInv'
<1>1. worker.step # "ended"
  BY DEF WorkerThread, WorkerStops, StartTimeComes, ArmSucceeds, ArmFails, Armed, SendGoal,
         WaypointTimesOut, WaypointReached, WorkerEnds, RunFails
<1>2. UNCHANGED <<profile, execution, navigation, terminal, command>>
  BY DEF WorkerThread, WorkerStops, StartTimeComes, ArmSucceeds, ArmFails, Armed, SendGoal,
         WaypointTimesOut, WaypointReached, WorkerEnds, RunFails, system
<1>3. FlagsCalm
  <2>1. flags' \in {flags, [flags EXCEPT !.stop = TRUE], [flags EXCEPT !.armed = TRUE]}
    BY DEF WorkerThread, WorkerStops, StartTimeComes, ArmSucceeds, ArmFails, Armed, SendGoal,
           WaypointTimesOut, WaypointReached, WorkerEnds, RunFails, system
  <2> QED
    BY <2>1 DEF FlagsCalm, Good, TypeOK, Flags
<1>4. CallsCalm /\ WorkerCalm /\ call'["command"] = call["command"]
  <2>1. CASE WorkerStops \/ StartTimeComes \/ ArmSucceeds \/ Armed \/ SendGoal \/ WorkerEnds
    <3>1. \E step \in WorkerSteps : WorkerTo(step) /\ (step = "arming" => profile.safety)
      BY <2>1 DEF WorkerStops, StartTimeComes, ArmSucceeds, Armed, SendGoal, WorkerEnds, WorkerSteps
    <3>2. UNCHANGED call
      BY <2>1 DEF WorkerStops, StartTimeComes, ArmSucceeds, Armed, SendGoal, WorkerEnds
    <3> QED
      BY <1>1, <3>1, <3>2, WorkerToCalm DEF CallsCalm
  <2>2. CASE ArmFails \/ WaypointTimesOut \/ \E code \in FailureCodes : RunFails(code)
    <3>1. \E code : Raises(code)
      BY <2>2 DEF ArmFails, WaypointTimesOut, RunFails
    <3> QED
      BY <1>1, <3>1, RaisesCalm
  <2>3. CASE WaypointReached
    <3>1. CASE MoreWaypoints
      <4>1. worker' = [worker EXCEPT !.step = "next", !.index = @ + 1] /\ UNCHANGED call
        BY <2>3, <3>1 DEF WaypointReached
      <4>2. worker'.step = "next" /\ worker'.execution = worker.execution
        BY <4>1 DEF Good, TypeOK
      <4> QED
        BY <1>1, <4>1, <4>2 DEF CallsCalm, WorkerCalm
    <3>2. CASE ~MoreWaypoints
      <4>1. /\ WorkerTo("finishing")
            /\ Calls("worker", Finish("completed", "", worker.execution, FALSE))
        BY <2>3, <3>2 DEF WaypointReached
      <4> QED
        BY <1>1, <4>1, FinishCalm, WorkerToCalm DEF WorkerSteps, Callers
    <3> QED
      BY <3>1, <3>2
  <2> QED
    BY <2>1, <2>2, <2>3 DEF WorkerThread
<1>5. CASE ArmSucceeds
  <2>1. /\ ~latched /\ ~flags.stop /\ enabled' = TRUE /\ worker.step = "arming"
        /\ UNCHANGED <<flags, call, latched>>
    BY <1>5 DEF ArmSucceeds, system
  <2>2. profile.safety /\ execution = worker.execution /\ execution # None
    BY <2>1, AdapterConstants DEF IInv, Ungated, Current, Good, Working
  <2>3. \A t \in Callers : ~Held(t)
    BY <2>1 DEF IInv, Stopped
  <2>4. ~flags.closed
    BY <2>1 DEF IInv, Closed
  <2>5. Exclusive' /\ Stopped' /\ Closing' /\ Closed' /\ ClosedIsQuiet' /\ Unloading'
    BY <1>2, <2>1, <2>3, <2>4
       DEF IInv, Held, Exclusive, Stopped, Closing, Closed, ClosedIsQuiet, Unloading
  <2>6. Reporting'
    BY <2>1, <2>3 DEF Held, Reporting, InStep
  <2>7. Ungated' /\ Current' /\ Owned'
    BY <1>2, <1>4, <2>1, <2>2 DEF Ungated, Current, Owned, WorkerCalm
  <2> QED
    BY <2>5, <2>6, <2>7 DEF IInv
<1>6. CASE ~ArmSucceeds
  <2>1. RobotCalm
    <3>1. \/ UNCHANGED <<latched, enabled>>
          \/ latched' = TRUE /\ worker.step = "arming"
      BY <1>6 DEF WorkerThread, WorkerStops, StartTimeComes, ArmFails, Armed, SendGoal,
                  WaypointTimesOut, WaypointReached, WorkerEnds, RunFails, robot
    <3> QED
      BY <3>1 DEF RobotCalm, IInv, Ungated
  <2>2. CommandCalm
    BY <1>2, <1>4 DEF IInv, Unloading, CommandCalm
  <2> QED
    BY <1>2, <1>3, <1>4, <2>1, <2>2, CalmKeeps DEF NavigationCalm, LockCalm
<1> QED
  BY <1>5, <1>6

\* STOP, EMERGENCY_STOP and UNLOAD end what they began under the lock.
LEMMA CommandThreadSafe == ASSUME IInv, Good, CommandThread PROVE IInv'
<1>1. UNCHANGED <<profile, worker>> /\ navigation' \in {"none", navigation}
  BY DEF CommandThread, StopCancels, EmergencyLatches, UnloadCancels, UnloadStopsNavigation,
         UnloadForgets, CommandEnds, StopsNavigation, system
<1>2. WorkerCalm
  BY <1>1 DEF IInv, Ungated, WorkerCalm
<1>3. command # "forget" => CommandCalm
  BY DEF CommandThread, StopCancels, EmergencyLatches, UnloadCancels, UnloadStopsNavigation,
         UnloadForgets, CommandEnds, CommandCalm, IInv, Unloading, Unloads
<1>4. flags' \in {flags, [flags EXCEPT !.stop = TRUE]}
  BY DEF CommandThread, StopCancels, EmergencyLatches, UnloadCancels, UnloadStopsNavigation,
         UnloadForgets, CommandEnds, system
<1>5. FlagsCalm
  BY <1>4 DEF FlagsCalm, Good, TypeOK, Flags
<1>6. RobotCalm
  <2>1. enabled' = enabled /\ (latched' = latched \/ latched' = TRUE)
    BY DEF CommandThread, StopCancels, EmergencyLatches, UnloadCancels, UnloadStopsNavigation,
           UnloadForgets, CommandEnds, robot
  <2> QED
    BY <2>1 DEF RobotCalm
<1>7. CASE EmergencyLatches \/ StopCancels
  <2>1. CallsCalm
    BY <1>7, FinishCalm DEF EmergencyLatches, StopCancels, Callers
  <2>2. UNCHANGED <<execution, terminal>>
    BY <1>7 DEF EmergencyLatches, StopCancels, system
  <2>3. CommandCalm
    BY <1>3, <1>7 DEF EmergencyLatches, StopCancels
  <2> QED
    BY <1>1, <1>2, <1>5, <1>6, <2>1, <2>2, <2>3, CalmKeeps DEF NavigationCalm, LockCalm
<1>8. CASE UnloadCancels \/ UnloadStopsNavigation \/ CommandEnds
  <2>1. UNCHANGED <<execution, terminal, call>>
    BY <1>8 DEF UnloadCancels, UnloadStopsNavigation, CommandEnds, system
  <2>2. CommandCalm
    BY <1>3, <1>8 DEF UnloadCancels, UnloadStopsNavigation, CommandEnds
  <2> QED
    BY <1>1, <1>2, <1>5, <1>6, <2>1, <2>2, CalmKeeps DEF NavigationCalm, LockCalm, CallsCalm
<1>9. CASE UnloadForgets
  <2>1. /\ command = "forget" /\ terminal' = None /\ command' = "idle"
        /\ execution' = IF profile.safety THEN execution ELSE None
        /\ UNCHANGED <<profile, navigation, flags, enabled, latched, worker, call>>
    BY <1>9 DEF UnloadForgets, robot
  <2>2. terminal = "command" /\ call["command"] = None
    BY <2>1 DEF IInv, Unloading, Unloads
  <2>3. \A t \in Callers : ~Held(t)
    BY <2>2 DEF IInv, Exclusive, Held
  <2>4. Exclusive' /\ Stopped' /\ Unloading'
    BY <2>1, <2>2, <2>3 DEF Exclusive, Stopped, Held, Unloading, Unloads
  <2>5. Closing'
    <3> SUFFICES ASSUME NEW t \in Callers, call[t] # None, call[t].op = "close"
                 PROVE  /\ flags.closing /\ flags.stop
                        /\ IF t = "command" THEN command' = "ending" ELSE flags.permanent
      BY <2>1 DEF Closing
    <3> QED
      BY <2>2 DEF IInv, Closing
  <2>6. Reporting'
    BY <2>1 DEF IInv, Reporting, InStep
  <2>7. Ungated' /\ Closed' /\ Current' /\ Owned' /\ ClosedIsQuiet'
    BY <2>1 DEF IInv, Ungated, Closed, Current, Owned, ClosedIsQuiet
  <2> QED
    BY <2>4, <2>5, <2>6, <2>7 DEF IInv
<1> QED
  BY <1>7, <1>8, <1>9 DEF CommandThread

\* An adapter begins to close: the stop event is set for good.
LEMMA ClosesSafe ==
    ASSUME IInv, Good, NEW t \in Callers, NEW permanent \in BOOLEAN, Closes(t, permanent),
           IF t = "command" THEN command' = "ending" ELSE command' = command /\ permanent
    PROVE  IInv'
<1>1. /\ flags'.closing /\ flags'.stop /\ (flags.permanent \/ permanent => flags'.permanent)
      /\ flags'.stopping = flags.stopping /\ flags'.closed = flags.closed
  <2>1. flags' = [flags EXCEPT !.permanent = flags.permanent \/ permanent,
                               !.closing = TRUE, !.stop = TRUE]
    BY DEF Closes
  <2> QED
    BY <2>1 DEF Good, TypeOK, Flags
<1>2. /\ call[t] = None /\ call'[t] = Close
      /\ \A u \in Callers \ {t} : call'[u] = call[u]
  BY DEF Closes, Calls, Good, TypeOK
<1>3. UNCHANGED <<profile, execution, navigation, latched, enabled, worker, terminal>>
  BY DEF Closes, robot
<1>4. \A u \in Callers : Held(u)' => u # t /\ Held(u) /\ call'[u] = call[u]
  BY <1>2 DEF Held, Close
<1>5. Exclusive' /\ Stopped'
  BY <1>1, <1>3, <1>4 DEF IInv, Exclusive, Stopped
<1>6. Closing'
  <2> SUFFICES ASSUME NEW u \in Callers, call'[u] # None, call'[u].op = "close"
               PROVE  IF u = "command" THEN command' = "ending" ELSE flags'.permanent
    BY <1>1 DEF Closing
  <2>1. CASE u = t
    BY <1>1, <2>1
  <2>2. CASE u # t
    BY <1>1, <1>2, <2>2 DEF IInv, Closing
  <2> QED
    BY <2>1, <2>2
<1>7. Reporting'
  <2> SUFFICES ASSUME NEW u \in Callers, InStep(u, "report")' PROVE (enabled => latched)'
    BY DEF Reporting
  <2>1. call'[u] = call[u]
    BY <1>2 DEF InStep, Close
  <2> QED
    BY <1>3, <2>1 DEF IInv, Reporting, InStep
<1>8. Unloading'
  BY <1>2, <1>3 DEF IInv, Unloading, Unloads, Callers
<1>9. Ungated' /\ Closed' /\ Current' /\ Owned' /\ ClosedIsQuiet'
  BY <1>1, <1>3 DEF IInv, Ungated, Closed, Current, Owned, ClosedIsQuiet
<1> QED
  BY <1>5, <1>6, <1>7, <1>8, <1>9 DEF IInv

\* A command that clears the stop event finds no terminal operation under way.
LEMMA CommandsSafe == ASSUME IInv, Good, Commands PROVE IInv'
<1>1. ASSUME NEW t \in Tasks, Prepare(t) PROVE IInv'
  <2>1. /\ command = "idle" /\ execution = None /\ ~flags.stopping /\ worker.step = "ended"
        /\ ~latched /\ (flags.closing => flags.closed /\ ~flags.permanent)
        /\ UNCHANGED <<profile, execution, latched, enabled, worker, command, call, terminal>>
    BY <1>1 DEF Prepare, PrepareAllowed, WorkerAlive, Resumable
  <2>2. ~flags'.closed
    BY <1>1 DEF Prepare, Good, TypeOK, Flags
  <2>3. \A u \in Callers : call[u] # None => call[u].op # "close"
    BY <2>1 DEF IInv, Closing
  <2>4. \A u \in Callers : ~Held(u)
    BY <2>1, <2>3, InStepType DEF IInv, Stopped, Held, Good, TypeOK, Call
  <2>5. Exclusive' /\ Stopped'
    BY <2>1, <2>4 DEF Exclusive, Stopped, Held
  <2>6. Closing' /\ Closed' /\ ClosedIsQuiet'
    BY <2>1, <2>2, <2>3 DEF Closing, Closed, ClosedIsQuiet
  <2>7. Reporting'
    BY <2>1 DEF IInv, Reporting, InStep
  <2>8. Ungated' /\ Current' /\ Owned' /\ Unloading'
    BY <2>1 DEF IInv, Ungated, Current, Owned, Unloading, Unloads
  <2> QED
    BY <2>5, <2>6, <2>7, <2>8 DEF IInv
<1>2. ASSUME NEW t \in Tasks, PrepareAnswered(t) PROVE IInv'
  <2>1. UNCHANGED <<profile, system, robot, threads>>
    BY <1>2 DEF PrepareAnswered
  <2>2. WorkerCalm /\ CommandCalm
    BY <2>1 DEF threads, WorkerCalm, CommandCalm, IInv, Ungated, Unloading
  <2> QED
    BY <2>1, <2>2, CalmKeeps
       DEF system, robot, threads, CallsCalm, FlagsCalm, RobotCalm, NavigationCalm, LockCalm
<1>3. ASSUME NEW e \in Executions, NEW t \in Tasks, Schedule(e, t) PROVE IInv'
  <2>1. /\ command = "idle" /\ execution = None /\ ~flags.stopping /\ ~flags.closing /\ ~latched
        /\ execution' = e /\ flags' = [flags EXCEPT !.stop = FALSE]
        /\ worker' = [step |-> "waiting", execution |-> e, index |-> 0]
        /\ UNCHANGED <<profile, latched, enabled, command, call, terminal, navigation>>
    BY <1>3 DEF Schedule, ScheduleAllowed, robot
  <2>2. ~flags.closed /\ ~flags'.closed
    BY <2>1 DEF IInv, Closed, Good, TypeOK, Flags
  <2>3. \A u \in Callers : call[u] # None => call[u].op # "close"
    BY <2>1 DEF IInv, Closing
  <2>4. \A u \in Callers : ~Held(u)
    BY <2>1, <2>3 DEF IInv, Stopped, Held, Good, TypeOK, Call
  <2>5. Exclusive' /\ Stopped'
    BY <2>1, <2>4 DEF Exclusive, Stopped, Held
  <2>6. Closing' /\ Closed' /\ ClosedIsQuiet'
    BY <2>1, <2>2, <2>3 DEF Closing, Closed, ClosedIsQuiet
  <2>7. Reporting'
    BY <2>1 DEF IInv, Reporting, InStep
  <2>8. Ungated' /\ Current' /\ Owned' /\ Unloading'
    BY <2>1 DEF IInv, Ungated, Current, Owned, Unloading, Unloads
  <2> QED
    BY <2>5, <2>6, <2>7, <2>8 DEF IInv
<1>4. CASE Stop \/ EmergencyStop \/ Unload
  <2>1. FlagsCalm
    <3>1. flags' = Halts
      BY <1>4 DEF Stop, EmergencyStop, Unload
    <3>2. flags' = [flags EXCEPT !.stop = TRUE, !.stopping = profile.safety \/ flags.stopping]
      BY <3>1 DEF Halts
    <3> QED
      BY <3>2 DEF FlagsCalm, Good, TypeOK, Flags
  <2>2. CallsCalm
    <3>1. \/ UNCHANGED call
          \/ \E state : Calls("command", Finish(state, "", None, TRUE))
      BY <1>4 DEF Stop, EmergencyStop, Unload
    <3> QED
      BY <3>1, FinishCalm DEF CallsCalm, Callers
  <2>3. UNCHANGED <<profile, execution, navigation, worker, latched, enabled>> /\ command = "idle"
    BY <1>4 DEF Stop, EmergencyStop, Unload, robot
  <2>4. RobotCalm /\ WorkerCalm /\ NavigationCalm
    BY <2>3 DEF RobotCalm, WorkerCalm, NavigationCalm, IInv, Ungated
  <2>5. CommandCalm /\ LockCalm
    BY <1>4, <2>3 DEF Stop, EmergencyStop, Unload, TerminalFree, CommandCalm, LockCalm, Unloads,
                      IInv, Unloading
  <2> QED
    BY <2>1, <2>2, <2>3, <2>4, <2>5, CalmKeeps
<1>5. CASE ShutdownUnload
  <2>1. PICK permanent \in BOOLEAN : Closes("command", permanent)
    BY <1>5 DEF ShutdownUnload
  <2>2. command' = "ending"
    BY <1>5 DEF ShutdownUnload
  <2> QED
    BY <2>1, <2>2, ClosesSafe DEF Callers, Unloads
<1> QED
  BY <1>1, <1>2, <1>3, <1>4, <1>5 DEF Commands

\* The watchdogs stop and report through _finish alone.
LEMMA WatchdogThreadSafe == ASSUME IInv, Good, WatchdogThread PROVE IInv'
<1>1. /\ UNCHANGED <<profile, latched, enabled, worker, command, terminal>>
      /\ navigation' \in {"none", navigation}
  BY DEF WatchdogThread, WatchdogLooks, ControlLost, WatchdogReturns, ExitFound, ExitCleans,
         ExitForgets, StopsNavigation, system, robot
<1>2. CallsCalm /\ call'["command"] = call["command"]
  <2>1. \/ UNCHANGED call
        \/ \E code, expected, force : Calls("watchdog", Finish("failed", code, expected, force))
    BY DEF WatchdogThread, WatchdogLooks, ControlLost, WatchdogReturns, ExitFound, ExitCleans,
           ExitForgets
  <2> QED
    BY <2>1, FinishCalm DEF CallsCalm, Callers
<1>3. RobotCalm /\ WorkerCalm /\ CommandCalm /\ NavigationCalm /\ LockCalm
  BY <1>1, <1>2 DEF RobotCalm, WorkerCalm, CommandCalm, NavigationCalm, LockCalm,
                    IInv, Ungated, Unloading
<1>4. CASE ~ExitForgets
  <2>1. UNCHANGED <<execution, flags>>
    BY <1>4 DEF WatchdogThread, WatchdogLooks, ControlLost, WatchdogReturns, ExitFound,
                ExitCleans, system
  <2> QED
    BY <1>1, <1>2, <1>3, <2>1, CalmKeeps DEF FlagsCalm
<1>5. CASE ExitForgets
  <2>1. ~profile.safety /\ UNCHANGED call /\ execution' = None
        /\ flags' = [flags EXCEPT !.stop = TRUE]
    BY <1>5 DEF ExitForgets
  <2>2. FlagsCalm
    BY <2>1 DEF FlagsCalm, Good, TypeOK, Flags
  <2>3. ~enabled /\ ~enabled'
    BY <1>1, <2>1 DEF IInv, Ungated
  <2>4. Exclusive' /\ Stopped' /\ Closing' /\ Closed' /\ Unloading'
    BY <1>1, <2>1, <2>2
       DEF IInv, FlagsCalm, Held, Exclusive, Stopped, Closing, Closed, Unloading, Unloads
  <2>5. Ungated' /\ Reporting' /\ Current' /\ Owned'
    BY <1>1, <2>1, <2>3 DEF IInv, Ungated, Reporting, Current, Owned
  <2>6. ClosedIsQuiet'
    BY <1>1, <2>1, <2>2, <2>3 DEF IInv, ClosedIsQuiet, FlagsCalm
  <2> QED
    BY <2>4, <2>5, <2>6 DEF IInv
<1> QED
  BY <1>4, <1>5

\* A shutdown, a reset of a disabled robot, a lost process and a robot that
\* disables itself leave no robot enabled by itself.
LEMMA EnvironmentSafe == ASSUME IInv, Good, Environment PROVE IInv'
<1>1. CASE Shutdown
  <2>1. Closes("shutdown", TRUE) /\ UNCHANGED command
    BY <1>1 DEF Shutdown
  <2> QED
    BY <2>1, ClosesSafe DEF Callers, IInv, Unloading
<1>2. CASE ResetEmergencyStop \/ ProcessDies \/ DisablesItself
  <2>1. UNCHANGED <<profile, execution, flags, worker, command, call, terminal>>
    BY <1>2 DEF ResetEmergencyStop, ProcessDies, DisablesItself, system, threads
  <2>2. RobotCalm
    BY <1>2 DEF ResetEmergencyStop, ProcessDies, DisablesItself, RobotCalm
  <2>3. NavigationCalm
    BY <1>2 DEF ResetEmergencyStop, ProcessDies, DisablesItself, NavigationCalm, system
  <2>4. WorkerCalm /\ CommandCalm
    BY <2>1 DEF WorkerCalm, CommandCalm, IInv, Ungated, Unloading
  <2> QED
    BY <2>1, <2>2, <2>3, <2>4, CalmKeeps DEF CallsCalm, FlagsCalm, LockCalm
<1> QED
  BY <1>1, <1>2 DEF Environment

-----------------------------------------------------------------------------
(* A step of a terminal operation: its holder is the only one.             *)
LEMMA HeldAlone == ASSUME IInv, NEW t \in Callers, terminal \in {None, t}
                   PROVE  \A u \in Callers \ {t} : ~Held(u)
BY AdapterConstants DEF IInv, Exclusive

\* A terminal operation that gets the lock stops what runs.
LEMMA EntersSafe ==
    ASSUME IInv, Good, NEW t \in Callers, FinishEnters(t) \/ CloseEnters(t)
    PROVE  IInv'
<1>1. /\ terminal \in {None, t} /\ call[t] \in Call /\ call[t] # None /\ call[t].step = "enter"
      /\ UNCHANGED <<profile, execution, navigation, latched, enabled, worker, command>>
  BY InStepType DEF FinishEnters, CloseEnters, InStep, TerminalFree, Good, system, robot
<1>2. WorkerCalm /\ RobotCalm /\ NavigationCalm
  BY <1>1 DEF WorkerCalm, RobotCalm, NavigationCalm, IInv, Ungated
<1>3. CASE Returns(t) /\ UNCHANGED <<flags, terminal>>
  <2>1. CallsCalm /\ (call'["command"] = call["command"] \/ call'["command"] = None)
    BY <1>3, ReturnCalm DEF Callers
  <2>2. CommandCalm /\ FlagsCalm /\ LockCalm
    BY <1>1, <1>3, <2>1 DEF CommandCalm, FlagsCalm, LockCalm, IInv, Unloading
  <2> QED
    BY <1>1, <1>2, <2>1, <2>2, CalmKeeps
<1>4. ASSUME terminal' = t, NEW c, call' = [call EXCEPT ![t] = c], c.op = call[t].op,
             c.step \in {"cancel", "report"}, c.step = "report" => ~profile.safety,
             c.op = "finish" => flags'.stop /\ flags'.stopping,
             c.op = "close" => UNCHANGED flags /\ ~flags.closed,
             FlagsCalm
      PROVE  IInv'
  <2>1. call'[t] = c /\ \A u \in Callers \ {t} : call'[u] = call[u]
    BY <1>4 DEF Good, TypeOK
  <2>2. \A u \in Callers \ {t} : ~Held(u)'
    BY <1>1, <2>1, HeldAlone DEF Held
  <2>3. Exclusive'
    BY <1>4, <2>2 DEF Exclusive
  <2>4. c.op \in {"finish", "close"}
    BY <1>1, <1>4 DEF Call
  <2>5. c.op = "close" => flags.stop
    BY <1>1, <1>4 DEF IInv, Closing
  <2>6. Stopped'
    BY <1>4, <2>1, <2>2, <2>4, <2>5 DEF Stopped
  <2>7. Closing'
    <3> SUFFICES ASSUME NEW u \in Callers, call'[u] # None, call'[u].op = "close"
                 PROVE  /\ flags'.closing /\ flags'.stop
                        /\ IF u = "command" THEN command' = "ending" ELSE flags'.permanent
      BY DEF Closing
    <3>1. call[u] # None /\ call[u].op = "close"
      BY <1>1, <1>4, <2>1
    <3> QED
      BY <1>1, <1>4, <3>1 DEF IInv, Closing, FlagsCalm
  <2>8. Reporting'
    <3> SUFFICES ASSUME NEW u \in Callers, InStep(u, "report")' PROVE (enabled => latched)'
      BY DEF Reporting
    <3>1. CASE u = t
      BY <1>1, <1>4, <2>1, <3>1 DEF InStep, IInv, Ungated
    <3>2. CASE u # t
      BY <2>2, <3>2 DEF InStep, Held
    <3> QED
      BY <3>1, <3>2
  <2>9. Unloading'
    <3>1. t = "command" => command \in {"unloading", "ending", "confirming"}
      BY <1>1 DEF IInv, Unloading
    <3>2. command \in Unloads => t = "command"
      BY <1>1, AdapterConstants DEF IInv, Unloading, Callers
    <3> QED
      BY <1>1, <1>4, <2>1, <3>1, <3>2 DEF IInv, Unloading, Callers
  <2>10. Ungated' /\ Current' /\ Owned'
    BY <1>1, <1>4 DEF IInv, Ungated, Current, Owned, FlagsCalm
  <2>11. Closed' /\ ClosedIsQuiet'
    BY <1>1, <1>4 DEF IInv, Closed, ClosedIsQuiet, FlagsCalm
  <2> QED
    BY <2>3, <2>6, <2>7, <2>8, <2>9, <2>10, <2>11 DEF IInv
<1>5. CASE FinishEnters(t) /\ ~NothingToFinish(call[t])
  <2> DEFINE c == [call[t] EXCEPT !.step = IF profile.safety THEN "cancel" ELSE "report",
                                  !.expected = None, !.force = FALSE]
  <2>1. /\ terminal' = t /\ call' = [call EXCEPT ![t] = c]
        /\ flags' = [flags EXCEPT !.stop = TRUE, !.stopping = TRUE]
    BY <1>5 DEF FinishEnters
  <2>2. /\ c.op = call[t].op /\ c.op = "finish" /\ c.step \in {"cancel", "report"}
        /\ (c.step = "report" => ~profile.safety)
    BY <1>1, <1>5 DEF Call, FinishEnters
  <2>3. flags'.stop /\ flags'.stopping /\ FlagsCalm
    BY <2>1 DEF FlagsCalm, Good, TypeOK, Flags
  <2> HIDE DEF c
  <2> QED
    BY <1>4, <2>1, <2>2, <2>3
<1>6. CASE CloseEnters(t) /\ ~flags.closed
  <2> DEFINE c == [call[t] EXCEPT !.step = "cancel"]
  <2>1. terminal' = t /\ call' = [call EXCEPT ![t] = c] /\ UNCHANGED flags
    BY <1>6 DEF CloseEnters, StepTo, system
  <2>2. c.op = call[t].op /\ c.op = "close" /\ c.step = "cancel" /\ FlagsCalm
    BY <1>1, <1>6, <2>1 DEF Call, CloseEnters, FlagsCalm
  <2> HIDE DEF c
  <2> QED
    BY <1>4, <1>6, <2>1, <2>2
<1> QED
  BY <1>3, <1>5, <1>6 DEF FinishEnters, CloseEnters, system

\* The holder goes on with its operation.
LEMMA HolderSteps ==
    ASSUME IInv, Good, NEW t \in Callers, Held(t), NEW c, call' = [call EXCEPT ![t] = c],
           c.op = call[t].op, c.step \in {"disable", "report"},
           c.step = "report" => (enabled' => latched'),
           FlagsCalm, RobotCalm,
           UNCHANGED <<profile, execution, navigation, worker, command, terminal>>
    PROVE  IInv'
<1>1. call'[t] = c /\ \A u \in Callers \ {t} : call'[u] = call[u]
  BY DEF Good, TypeOK
<1>2. terminal = t /\ call[t] # None /\ call[t] \in Call
  BY DEF IInv, Exclusive, Held, Good, TypeOK
<1>3. \A u \in Callers \ {t} : ~Held(u)'
  BY <1>1, <1>2, HeldAlone DEF Held
<1>4. Exclusive' /\ Stopped'
  BY <1>1, <1>2, <1>3 DEF Exclusive, Stopped, FlagsCalm, IInv
<1>5. Closing'
  <2> SUFFICES ASSUME NEW u \in Callers, call'[u] # None, call'[u].op = "close"
               PROVE  /\ flags'.closing /\ flags'.stop
                      /\ IF u = "command" THEN command' = "ending" ELSE flags'.permanent
    BY DEF Closing
  <2>1. call[u] # None /\ call[u].op = "close"
    BY <1>1, <1>2
  <2> QED
    BY <2>1 DEF IInv, Closing, FlagsCalm
<1>6. Reporting'
  <2> SUFFICES ASSUME NEW u \in Callers, InStep(u, "report")' PROVE (enabled => latched)'
    BY DEF Reporting
  <2>1. u = t
    BY <1>3 DEF InStep, Held
  <2> QED
    BY <1>1, <2>1 DEF InStep
<1>7. Unloading'
  <2>1. t = "command" => command \in {"unloading", "ending", "confirming"}
    BY <1>2 DEF IInv, Unloading
  <2> QED
    BY <1>1, <2>1 DEF IInv, Unloading, Callers
<1>8. WorkerCalm
  BY DEF WorkerCalm, IInv, Ungated
<1>9. Ungated' /\ Current' /\ Owned' /\ Closed' /\ ClosedIsQuiet'
  BY <1>8 DEF IInv, Ungated, Current, Owned, Closed, ClosedIsQuiet, FlagsCalm, RobotCalm
<1> QED
  BY <1>4, <1>5, <1>6, <1>7, <1>9 DEF IInv

\* Cancelling the goals keeps the lock and the stop event.
LEMMA CancelSafe == ASSUME IInv, Good, NEW t \in Callers, CancelGoals(t) PROVE IInv'
<1>1. /\ Held(t) /\ call[t] \in Call
      /\ UNCHANGED <<profile, execution, navigation, worker, command, terminal, flags,
                     latched, enabled>>
  BY InStepType DEF CancelGoals, InStep, Held, Good, system
<1>2. FlagsCalm /\ RobotCalm
  BY <1>1 DEF FlagsCalm, RobotCalm
<1>3. \E c : /\ call' = [call EXCEPT ![t] = c] /\ c.op = call[t].op /\ c.step = "disable"
  <2>1. CASE call' = [call EXCEPT ![t].step = "disable"]
    <3> DEFINE c == [call[t] EXCEPT !.step = "disable"]
    <3>1. call' = [call EXCEPT ![t] = c]
      BY <2>1
    <3>2. c.op = call[t].op /\ c.step = "disable"
      BY <1>1 DEF Call
    <3> QED
      BY <3>1, <3>2
  <2>2. CASE call' = [call EXCEPT ![t].step = "disable", ![t].errors = TRUE]
    <3> DEFINE c == [call[t] EXCEPT !.step = "disable", !.errors = TRUE]
    <3>1. call' = [call EXCEPT ![t] = c]
      BY <2>2 DEF Good, TypeOK
    <3>2. c.op = call[t].op /\ c.step = "disable"
      BY <1>1 DEF Call
    <3> QED
      BY <3>1, <3>2
  <2> QED
    BY <2>1, <2>2 DEF CancelGoals
<1> QED
  BY <1>1, <1>2, <1>3, HolderSteps

\* After the disarm the robot is disabled or latched.
LEMMA DisableSafe == ASSUME IInv, Good, NEW t \in Callers, Disable(t) PROVE IInv'
<1>1. /\ Held(t) /\ call[t] \in Call
      /\ UNCHANGED <<profile, execution, navigation, worker, command, terminal>>
  BY InStepType DEF Disable, InStep, Held, Good
<1>2. /\ enabled' => enabled /\ latched'
      /\ \E failed : Disabled(t, failed)
  <2>1. CASE profile.safety
    BY <2>1 DEF Disable, StopsControl, Disarms, DisarmFails, Good, TypeOK
  <2>2. CASE ~profile.safety
    BY <2>2 DEF Disable, IInv, Ungated
  <2> QED
    BY <2>1, <2>2
<1>3. FlagsCalm
  BY DEF Disable, FlagsCalm, Good, TypeOK, Flags
<1>4. RobotCalm
  BY <1>2 DEF RobotCalm
<1>5. PICK failed : Disabled(t, failed)
  BY <1>2
<1> DEFINE c == [call[t] EXCEPT !.step = "report", !.errors = @ \/ failed, !.fault = FALSE]
<1>6. call' = [call EXCEPT ![t] = c]
  BY <1>5 DEF Disabled
<1>7. c.op = call[t].op /\ c.step = "report"
  BY <1>1 DEF Call
<1> HIDE DEF c
<1> QED
  BY <1>1, <1>2, <1>3, <1>4, <1>6, <1>7, HolderSteps

\* The report of an end finds the robot disabled or latched.
LEMMA ReportsSafe == ASSUME IInv, Good, NEW t \in Callers, FinishReports(t) \/ CloseReports(t)
                     PROVE  IInv'
<1>1. /\ Held(t) /\ terminal = t /\ call[t] # None /\ (enabled => latched)
      /\ execution' = None /\ enabled' = enabled /\ (latched => latched')
      /\ UNCHANGED <<profile, worker, command>>
  <2>1. InStep(t, "report")
    BY DEF FinishReports, CloseReports
  <2>2. Held(t) /\ terminal = t /\ call[t] # None /\ (enabled => latched)
    BY <2>1 DEF InStep, Held, IInv, Exclusive, Reporting
  <2>3. /\ execution' = None /\ enabled' = enabled /\ (latched => latched')
        /\ UNCHANGED <<profile, worker, command>>
    <3>1. CASE FinishReports(t)
      BY <3>1 DEF FinishReports, robot
    <3>2. CASE CloseReports(t)
      BY <3>2 DEF CloseReports
    <3> QED
      BY <3>1, <3>2
  <2> QED
    BY <2>2, <2>3
<1>2. call'[t] = None /\ \A u \in Callers \ {t} : call'[u] = call[u] /\ ~Held(u)
  BY <1>1, ReturnCalm, HeldAlone DEF FinishReports, CloseReports
<1>3. \A u \in Callers : ~Held(u)'
  BY <1>2 DEF Held
<1>4. Exclusive' /\ Stopped' /\ Reporting'
  BY <1>1, <1>3 DEF Exclusive, Stopped, Reporting, InStep, Held
<1>5. /\ flags'.stop = flags.stop /\ flags'.closing = flags.closing
      /\ flags'.permanent = flags.permanent
  BY DEF FinishReports, CloseReports, Good, TypeOK, Flags
<1>6. Closing'
  BY <1>1, <1>2, <1>5 DEF IInv, Closing
<1>7. Unloading'
  <2>1. command \in Unloads => t = "command" /\ command = "unloading"
    BY <1>1 DEF IInv, Unloading, Unloads
  <2>2. command \in Unloads => FinishReports(t)
    BY <1>1, <2>1 DEF CloseReports, IInv, Closing, Unloads
  <2>3. command \in Unloads => terminal' = "command"
    BY <2>1, <2>2 DEF FinishReports
  <2> QED
    BY <1>1, <1>2, <2>3 DEF IInv, Unloading, Callers
<1>8. flags.stop
  BY <1>1 DEF IInv, Stopped
<1>9. Ungated' /\ Current' /\ Owned'
  BY <1>1, <1>5, <1>8 DEF IInv, Ungated, Current, Owned
<1>10. Closed'
  <2>1. CASE FinishReports(t)
    <3>1. flags'.closed = flags.closed
      BY <2>1 DEF FinishReports, Good, TypeOK, Flags
    <3> QED
      BY <1>5, <3>1 DEF IInv, Closed
  <2>2. CASE CloseReports(t)
    <3>1. flags.closing /\ flags.stop
      BY <1>1, <2>2 DEF CloseReports, IInv, Closing
    <3> QED
      BY <1>5, <3>1 DEF Closed
  <2> QED
    BY <2>1, <2>2
<1>11. ClosedIsQuiet'
  <2>1. CASE FinishReports(t)
    <3>1. flags'.closed = flags.closed /\ UNCHANGED navigation
      BY <2>1 DEF FinishReports, Good, TypeOK, Flags
    <3> QED
      BY <1>1, <3>1 DEF IInv, ClosedIsQuiet
  <2>2. CASE CloseReports(t)
    BY <1>1, <2>2 DEF CloseReports, StopsNavigation, ClosedIsQuiet
  <2> QED
    BY <2>1, <2>2
<1> QED
  BY <1>4, <1>6, <1>7, <1>9, <1>10, <1>11 DEF IInv

-----------------------------------------------------------------------------
\* The locks, the flags, the execution and the robot agree at every step of every
\* thread.
THEOREM SafetyInvariant == Spec => []IInv
<1>1. Init => IInv
  <2> SUFFICES ASSUME Init PROVE IInv
    OBVIOUS
  <2>1. \A t \in Callers : call[t] = None
    BY DEF Init
  <2>2. ~enabled /\ worker.step = "ended" /\ ~flags.closed /\ command = "idle"
    BY DEF Init, NoWorker
  <2> QED
    BY <2>1, <2>2 DEF IInv, Held, Ungated, Exclusive, Stopped, Closing, Closed, Unloading, Unloads,
                      Reporting, InStep, Current, Owned, ClosedIsQuiet, Callers
<1>2. IInv /\ Good /\ [Next]_vars => IInv'
  <2> SUFFICES ASSUME IInv, Good, [Next]_vars PROVE IInv'
    OBVIOUS
  <2>1. ASSUME NEW t \in Callers, Terminal(t) PROVE IInv'
    BY <2>1, EntersSafe, CancelSafe, DisableSafe, ReportsSafe DEF Terminal
  <2>2. CASE UNCHANGED vars
    <3>1. WorkerCalm /\ CommandCalm
      BY <2>2 DEF vars, threads, WorkerCalm, CommandCalm, IInv, Ungated, Unloading
    <3> QED
      BY <2>2, <3>1, CalmKeeps
         DEF vars, system, robot, threads, CallsCalm, FlagsCalm, RobotCalm, NavigationCalm, LockCalm
  <2> QED
    BY <2>1, <2>2, PrepareThreadSafe, WorkerThreadSafe, CommandThreadSafe, CommandsSafe,
       WatchdogThreadSafe, EnvironmentSafe DEF Next
<1> QED
  BY <1>1, <1>2, AdapterInvariant, PTL DEF Spec

\* A robot that accepts motion has somebody to disable it: an execution, or the
\* latch; no end, close, unload or lost process leaves it enabled by itself.
THEOREM RobotIsOwned == Spec => []EnabledIsOwned
<1>1. IInv => EnabledIsOwned
  BY DEF IInv, Owned, EnabledIsOwned
<1> QED
  BY <1>1, SafetyInvariant, PTL

\* Whatever threads were under way when it began to close, a closed adapter has
\* no execution, no navigation process and, unless latched, a disabled robot.
THEOREM QuietOnceClosed == Spec => []ClosedIsQuiet
<1>1. IInv => ClosedIsQuiet
  BY DEF IInv
<1> QED
  BY <1>1, SafetyInvariant, PTL

\* An end other than a failure is reported only with the robot disabled or
\* latched: no thread enables it between the disarm and the report.
THEOREM EndsDisabled == Spec => ReportedIsDisabled
<1> DEFINE Kept == \A t \in Callers : ReportsConfirmed(t) => (enabled => latched)
<1>1. IInv /\ [Next]_vars => [Kept]_vars
  BY DEF IInv, Reporting, ReportsConfirmed, Reports
<1> QED
  BY <1>1, SafetyInvariant, PTL DEF Spec, ReportedIsDisabled

-----------------------------------------------------------------------------
(* What the threads rely on when they share the process and its client.    *)
\* A command that ends something has set the stop event for as long as it runs.
Halting == command # "idle" => flags.stop
\* Which commands exist in which configuration.
Gated == /\ command \in {"cancel", "cancelAll", "unload"} => ~profile.safety
         /\ command \in {"unloading", "latching", "confirming"} => profile.safety
\* While a preparation runs nothing is scheduled: its "ready" is yet to come.
Asking == PreparerAlive => execution = None /\ ~wanted.ready
\* An attached adapter has no process, and none to clean up after.
Attached == navigation # "none" \/ watchdog.step = "cleaning" => profile.managed
\* A process is only stopped by a thread that holds no client, or by an unload
\* that is about to drop it.
Dropping ==
    /\ client /\ profile.managed /\ navigation = "none" => command = "forget"
    /\ preparer.step = "stopping" => ~client
\* A command ends whatever execution it finds.
Expecting ==
    call["command"] # None /\ call["command"].op = "finish" => call["command"].expected = None

Serving == Halting /\ Gated /\ Asking /\ Attached /\ Dropping /\ Expecting

\* A preparation that ends has stopped its process or dropped its client.
LEMMA PrepareThreadServes == ASSUME Serving, Good, PrepareThread PROVE Serving'
<1>1. UNCHANGED <<profile, execution, flags, command, call>>
  BY DEF PrepareThread, PrepareConnects, PrepareReports, PrepareGivesUp, PrepareFails,
         PrepareForgets, PrepareStopsNavigation, PreparerMoves, system, robot
<1>2. Halting' /\ Gated' /\ Expecting'
  BY <1>1 DEF Serving, Halting, Gated, Expecting
<1>3. /\ preparer'.step # "ended" => UNCHANGED wanted \/ ~wanted'.ready
      /\ preparer.step # "ended"
  BY DEF PrepareThread, PrepareConnects, PrepareReports, PrepareGivesUp, PrepareFails,
         PrepareForgets, PrepareStopsNavigation, PreparerMoves, Answers, NoPreparer, Good, TypeOK
<1>4. Asking'
  BY <1>1, <1>3 DEF Serving, Asking, PreparerAlive
<1>5. Attached'
  BY <1>1 DEF PrepareThread, PrepareConnects, PrepareReports, PrepareGivesUp, PrepareFails,
         PrepareForgets, PrepareStopsNavigation, PreparerMoves, StopsNavigation, ReplacesProcess,
         system, Serving, Attached, Good, TypeOK
<1>6. Dropping'
  <2>1. CASE PrepareConnects
    <3>1. preparer'.step \in {"ended", "reporting"}
      BY <2>1 DEF PrepareConnects, NoPreparer, Good, TypeOK
    <3>2. profile.managed => navigation' = "running"
      BY <2>1 DEF PrepareConnects, ProcessExited
    <3> QED
      BY <1>1, <3>1, <3>2 DEF Dropping
  <2>2. CASE PrepareForgets
    BY <2>2 DEF PrepareForgets, Dropping
  <2>3. CASE PrepareStopsNavigation
    BY <2>3 DEF PrepareStopsNavigation, NoPreparer, Serving, Dropping
  <2>4. CASE PrepareReports \/ PrepareGivesUp \/ PrepareFails
    <3>1. UNCHANGED <<client, navigation>>
      BY <2>4 DEF PrepareReports, PrepareGivesUp, PrepareFails, PreparerMoves, system
    <3>2. preparer' = NoPreparer \/ preparer' = [preparer EXCEPT !.step = "failed"]
      BY <2>4 DEF PrepareReports, PrepareGivesUp, PrepareFails, PreparerMoves
    <3>3. preparer'.step # "stopping"
      BY <3>2 DEF NoPreparer, Good, TypeOK
    <3> QED
      BY <1>1, <3>1, <3>3 DEF Serving, Dropping
  <2> QED
    BY <2>1, <2>2, <2>3, <2>4 DEF PrepareThread
<1> QED
  BY <1>2, <1>4, <1>5, <1>6 DEF Serving

\* Steps that neither touch the process nor its client nor the command.
LEMMA UninvolvedServes ==
    ASSUME Serving, Good, UNCHANGED <<profile, preparer, wanted, client, command>>,
           flags.stop => flags'.stop, execution' \in {None, execution},
           navigation' = navigation \/ (navigation = "running" /\ navigation' = "exited"),
           watchdog'.step = "cleaning" => watchdog.step = "cleaning" \/ navigation # "none",
           call'["command"] \in {None, call["command"]} \/ call'["command"].expected = None
    PROVE  Serving'
<1>1. Halting' /\ Gated' /\ Asking' /\ Expecting'
  BY DEF Serving, Halting, Gated, Asking, PreparerAlive, Expecting
<1>2. Attached' /\ Dropping'
  BY DEF Serving, Attached, Dropping
<1> QED
  BY <1>1, <1>2 DEF Serving

\* The thread _run.
LEMMA WorkerThreadServes == ASSUME Serving, Good, WorkerThread PROVE Serving'
<1>1. UNCHANGED <<profile, execution, prepared, client, navigation, preparer, command,
                  watchdog, wanted>>
  BY DEF WorkerThread, WorkerStops, StartTimeComes, ArmSucceeds, ArmFails, Armed, SendGoal,
         WaypointTimesOut, WaypointReached, WorkerEnds, RunFails, system
<1>2. flags.stop => flags'.stop
  <2>1. flags' \in {flags, [flags EXCEPT !.stop = TRUE], [flags EXCEPT !.armed = TRUE]}
    BY DEF WorkerThread, WorkerStops, StartTimeComes, ArmSucceeds, ArmFails, Armed, SendGoal,
           WaypointTimesOut, WaypointReached, WorkerEnds, RunFails, system
  <2> QED
    BY <2>1 DEF Good, TypeOK, Flags
<1>3. call'["command"] = call["command"]
  <2>1. \/ UNCHANGED call
        \/ \E c : Calls("worker", c)
    BY DEF WorkerThread, WorkerStops, StartTimeComes, ArmSucceeds, ArmFails, Armed, SendGoal,
           WaypointTimesOut, WaypointReached, WorkerEnds, RunFails, Raises
  <2> QED
    BY <2>1 DEF Calls, Good, TypeOK, Callers
<1>4. /\ UNCHANGED <<profile, preparer, wanted, client, command>>
      /\ execution' \in {None, execution} /\ navigation' = navigation /\ watchdog' = watchdog
  BY <1>1
<1> QED
  BY <1>2, <1>3, <1>4, UninvolvedServes

\* The commands in their later steps.
LEMMA CommandThreadServes == ASSUME Serving, Good, CommandThread PROVE Serving'
<1>1. /\ UNCHANGED <<profile, preparer, wanted>> /\ execution' \in {None, execution}
      /\ flags' \in {flags, [flags EXCEPT !.stop = TRUE]} /\ command # "idle"
  BY DEF CommandThread, StopCancels, EmergencyLatches, UnloadCancels, UnloadStopsNavigation,
         UnloadForgets, CommandEnds, system
<1>2. flags.stop => flags'.stop
  BY <1>1 DEF Good, TypeOK, Flags
<1>3. Halting' /\ Asking'
  BY <1>1, <1>2 DEF Serving, Halting, Asking, PreparerAlive
<1>4. Attached'
  BY <1>1 DEF CommandThread, StopCancels, EmergencyLatches, UnloadCancels, UnloadStopsNavigation,
         UnloadForgets, CommandEnds, StopsNavigation, ReplacesProcess, system, Serving, Attached,
         Good, TypeOK
<1>5. Dropping'
  BY <1>1 DEF CommandThread, StopCancels, EmergencyLatches, UnloadCancels, UnloadStopsNavigation,
         UnloadForgets, CommandEnds, StopsNavigation, system, Serving, Dropping, Good, TypeOK
<1>6. Gated'
  BY <1>1 DEF CommandThread, StopCancels, EmergencyLatches, UnloadCancels, UnloadStopsNavigation,
         UnloadForgets, CommandEnds, Serving, Gated
<1>7. Expecting'
  <2>1. \/ UNCHANGED call
        \/ \E state, code, force : Calls("command", Finish(state, code, None, force))
    BY DEF CommandThread, StopCancels, EmergencyLatches, UnloadCancels, UnloadStopsNavigation,
           UnloadForgets, CommandEnds
  <2>2. ASSUME NEW state, NEW code, NEW force, Calls("command", Finish(state, code, None, force))
        PROVE  Expecting'
    <3>1. call'["command"] = Finish(state, code, None, force)
      BY <2>2 DEF Calls, Good, TypeOK, Callers
    <3> QED
      BY <3>1 DEF Expecting, Finish
  <2>3. CASE UNCHANGED call
    BY <2>3 DEF Serving, Expecting
  <2> QED
    BY <2>1, <2>2, <2>3
<1> QED
  BY <1>3, <1>4, <1>5, <1>6, <1>7 DEF Serving

\* An adapter begins to close.
LEMMA ClosesServes ==
    ASSUME Serving, Good, NEW t \in Callers, NEW permanent \in BOOLEAN, Closes(t, permanent),
           IF t = "command" THEN command = "idle" /\ command' = "ending" ELSE command' = command
    PROVE  Serving'
<1>1. /\ flags'.stop = TRUE /\ wanted' = NothingWanted
      /\ UNCHANGED <<profile, execution, client, navigation, preparer, watchdog>>
  BY ClosesType DEF Good
<1>2. call'["command"] \in {call["command"], Close}
  BY DEF Closes, Calls, Good, TypeOK, Callers
<1>3. Halting' /\ Gated'
  BY <1>1 DEF Serving, Halting, Gated
<1>4. Asking' /\ Attached'
  BY <1>1 DEF Serving, Asking, Attached, PreparerAlive, NothingWanted
<1>5. Dropping'
  BY <1>1 DEF Serving, Dropping
<1>6. Expecting'
  BY <1>2 DEF Serving, Expecting, Close
<1> QED
  BY <1>3, <1>4, <1>5, <1>6 DEF Serving

\* The commands: PREPARE stops the process it replaces and drops its client.
LEMMA CommandsServe == ASSUME Serving, Good, Commands PROVE Serving'
<1>1. ASSUME NEW t \in Tasks, Prepare(t) PROVE Serving'
  <2>1. /\ command = "idle" /\ execution = None /\ preparer.step = "ended"
        /\ UNCHANGED <<profile, execution, command, call>> /\ wanted'.ready = FALSE
        /\ client' = (client /\ navigation = "none")
    BY <1>1 DEF Prepare, PrepareAllowed, PreparerAlive
  <2>2. Halting' /\ Gated' /\ Asking' /\ Expecting'
    BY <2>1 DEF Serving, Halting, Gated, Asking, PreparerAlive, Expecting
  <2>3. Attached'
    BY <1>1, <2>1 DEF Prepare, StartsNavigation, ReplacesProcess, Serving, Attached, Good, TypeOK
  <2>4. preparer'.step # "stopping"
    BY <1>1, <2>1 DEF Prepare
  <2>5. Dropping'
    BY <2>1, <2>4 DEF Serving, Dropping
  <2> QED
    BY <2>2, <2>3, <2>5 DEF Serving
<1>2. ASSUME NEW t \in Tasks, PrepareAnswered(t) PROVE Serving'
  <2>1. /\ UNCHANGED <<profile, system, robot, threads>>
        /\ PreparerAlive => wanted'.ready = FALSE
    BY <1>2 DEF PrepareAnswered, PrepareAllowed
  <2>2. Halting' /\ Gated' /\ Expecting' /\ Attached' /\ Dropping'
    BY <2>1 DEF system, threads, Serving, Halting, Gated, Expecting, Attached, Dropping
  <2>3. Asking'
    BY <2>1 DEF system, threads, Serving, Asking, PreparerAlive
  <2> QED
    BY <2>2, <2>3 DEF Serving
<1>3. ASSUME NEW e \in Executions, NEW t \in Tasks, Schedule(e, t) PROVE Serving'
  <2>1. /\ command = "idle" /\ wanted.ready
        /\ UNCHANGED <<profile, wanted, client, navigation, preparer, command, watchdog, call>>
    BY <1>3 DEF Schedule
  <2> QED
    BY <2>1 DEF Serving, Halting, Gated, Asking, PreparerAlive, Expecting, Attached, Dropping
<1>4. CASE Stop \/ EmergencyStop \/ Unload
  <2>1. /\ flags' = Halts /\ (wanted' = wanted \/ wanted' = NothingWanted) /\ command = "idle"
        /\ UNCHANGED <<profile, execution, client, navigation, preparer, watchdog>>
    BY <1>4 DEF Stop, EmergencyStop, Unload
  <2>2. Halting'
    BY <2>1, HaltsType DEF Halting, Good
  <2>3. Gated'
    BY <1>4 DEF Stop, EmergencyStop, Unload, Gated
  <2>4. Asking' /\ Attached'
    BY <2>1 DEF Serving, Asking, Attached, PreparerAlive, NothingWanted
  <2>5. Dropping'
    BY <2>1 DEF Serving, Dropping
  <2>6. Expecting'
    <3>1. UNCHANGED call \/ \E state : Calls("command", Finish(state, "", None, TRUE))
      BY <1>4 DEF Stop, EmergencyStop, Unload
    <3>2. ASSUME NEW state, Calls("command", Finish(state, "", None, TRUE)) PROVE Expecting'
      <4>1. call'["command"] = Finish(state, "", None, TRUE)
        BY <3>2 DEF Calls, Good, TypeOK, Callers
      <4>2. Finish(state, "", None, TRUE).expected = None
        BY DEF Finish
      <4> QED
        BY <4>1, <4>2 DEF Expecting
    <3>3. UNCHANGED call => Expecting'
      BY DEF Serving, Expecting
    <3> QED
      BY <3>1, <3>2, <3>3
  <2> QED
    BY <2>2, <2>3, <2>4, <2>5, <2>6 DEF Serving
<1>5. CASE ShutdownUnload
  <2>1. PICK permanent \in BOOLEAN : Closes("command", permanent)
    BY <1>5 DEF ShutdownUnload
  <2>2. command = "idle" /\ command' = "ending"
    BY <1>5 DEF ShutdownUnload
  <2> QED
    BY <2>1, <2>2, ClosesServes DEF Callers
<1> QED
  BY <1>1, <1>2, <1>3, <1>4, <1>5 DEF Commands

\* The watchdog stops the process it found dead, and drops its client with it.
LEMMA WatchdogThreadServes == ASSUME Serving, Good, WatchdogThread PROVE Serving'
<1>1. /\ UNCHANGED <<profile, preparer, wanted, command>> /\ execution' \in {None, execution}
      /\ flags' \in {flags, [flags EXCEPT !.stop = TRUE]}
  BY DEF WatchdogThread, WatchdogLooks, ControlLost, WatchdogReturns, ExitFound, ExitCleans,
         ExitForgets, system
<1>2. flags.stop => flags'.stop
  BY <1>1 DEF Good, TypeOK, Flags
<1>3. call'["command"] = call["command"]
  <2>1. UNCHANGED call \/ \E c : Calls("watchdog", c)
    BY DEF WatchdogThread, WatchdogLooks, ControlLost, WatchdogReturns, ExitFound, ExitCleans,
           ExitForgets
  <2> QED
    BY <2>1 DEF Calls, Good, TypeOK, Callers
<1>4. CASE ExitCleans \/ ExitForgets
  <2>1. /\ watchdog'.step = "idle"
        /\ UNCHANGED <<client, navigation>> \/ (navigation' = "none" /\ client' = FALSE)
    BY <1>4 DEF ExitCleans, ExitForgets, WatchdogTo, StopsNavigation
  <2> QED
    BY <1>1, <1>2, <1>3, <2>1 DEF Serving, Halting, Gated, Asking, PreparerAlive, Expecting,
                                  Attached, Dropping
<1>5. CASE WatchdogLooks \/ ControlLost \/ WatchdogReturns \/ ExitFound
  <2>1. UNCHANGED <<client, navigation>>
    BY <1>5 DEF WatchdogLooks, ControlLost, WatchdogReturns, ExitFound, system
  <2>2. watchdog'.step = "cleaning" => navigation # "none"
    <3>1. CASE ExitFound
      <4>1. navigation = "exited"
        BY <3>1 DEF ExitFound
      <4> QED
        BY <4>1
    <3>2. CASE WatchdogLooks
      BY <3>2 DEF WatchdogLooks, WatchdogTo
    <3>3. CASE ControlLost
      <4>1. WatchdogTo("idle", None, FALSE) \/ WatchdogTo("failing", None, FALSE)
        BY <3>3 DEF ControlLost
      <4> QED
        BY <4>1 DEF WatchdogTo
    <3>4. CASE WatchdogReturns
      BY <3>4 DEF WatchdogReturns, WatchdogTo
    <3> QED
      BY <1>5, <3>1, <3>2, <3>3, <3>4
  <2>3. /\ UNCHANGED <<profile, preparer, wanted, client, command>>
        /\ navigation' = navigation /\ execution' \in {None, execution}
        /\ call'["command"] \in {None, call["command"]}
    BY <1>1, <1>3, <2>1
  <2> QED
    BY <1>2, <2>2, <2>3, UninvolvedServes
<1> QED
  BY <1>4, <1>5 DEF WatchdogThread

\* A terminal operation keeps what it is for until it returns, and forgets no error.
GoesOn(t, c) ==
    /\ call' = [call EXCEPT ![t] = c]
    /\ c = None => call[t].step \in {"enter", "report"}
    /\ c # None =>
         /\ call[t] # None /\ c.op = call[t].op /\ c.state = call[t].state
         /\ c.expected \in {None, call[t].expected} /\ (call[t].errors => c.errors)

LEMMA TerminalGoesOn == ASSUME Good, NEW t \in Callers, Terminal(t) PROVE \E c : GoesOn(t, c)
<1>1. call[t] \in Call /\ call[t] # None
  BY InStepType DEF Good, Terminal, FinishEnters, CloseEnters, CancelGoals, Disable, FinishReports,
                    CloseReports, InStep
<1>2. CASE Returns(t) /\ call[t].step \in {"enter", "report"}
  BY <1>2 DEF Returns, GoesOn
<1>3. CASE FinishEnters(t) /\ ~NothingToFinish(call[t])
  <2> DEFINE c == [call[t] EXCEPT !.step = IF profile.safety THEN "cancel" ELSE "report",
                                  !.expected = None, !.force = FALSE]
  <2>1. call' = [call EXCEPT ![t] = c]
    BY <1>3 DEF FinishEnters
  <2>2. /\ c.op = call[t].op /\ c.state = call[t].state /\ c.expected = None
        /\ c.errors = call[t].errors /\ c # None
    BY <1>1, AdapterConstants DEF Call
  <2> HIDE DEF c
  <2> QED
    BY <1>1, <2>1, <2>2 DEF GoesOn
<1>4. CASE CloseEnters(t) /\ ~flags.closed
  <2> DEFINE c == [call[t] EXCEPT !.step = "cancel"]
  <2>1. call' = [call EXCEPT ![t] = c]
    BY <1>4 DEF CloseEnters, StepTo
  <2>2. /\ c.op = call[t].op /\ c.state = call[t].state /\ c.expected = call[t].expected
        /\ c.errors = call[t].errors /\ c # None
    BY <1>1, AdapterConstants DEF Call
  <2> HIDE DEF c
  <2> QED
    BY <1>1, <2>1, <2>2 DEF GoesOn
<1>5. CASE CancelGoals(t)
  <2> DEFINE c(e) == [call[t] EXCEPT !.step = "disable", !.errors = e]
  <2>1. call' = [call EXCEPT ![t] = c(call[t].errors)] \/ call' = [call EXCEPT ![t] = c(TRUE)]
    BY <1>1, <1>5 DEF CancelGoals, Call, Good, TypeOK
  <2>2. \A e \in BOOLEAN : /\ c(e).op = call[t].op /\ c(e).state = call[t].state
                           /\ c(e).expected = call[t].expected /\ c(e).errors = e
                           /\ c(e) # None
    BY <1>1, AdapterConstants DEF Call
  <2>3. call[t].errors \in BOOLEAN
    BY <1>1 DEF Call
  <2> HIDE DEF c
  <2> QED
    BY <1>1, <2>1, <2>2, <2>3 DEF GoesOn
<1>6. CASE Disable(t)
  <2>1. PICK failed \in BOOLEAN : Disabled(t, failed)
    BY <1>6 DEF Disable, StopsControl, Disarms, DisarmFails, Good, TypeOK
  <2> DEFINE c == [call[t] EXCEPT !.step = "report", !.errors = @ \/ failed, !.fault = FALSE]
  <2>2. call' = [call EXCEPT ![t] = c]
    BY <2>1 DEF Disabled
  <2>3. /\ c.op = call[t].op /\ c.state = call[t].state /\ c.expected = call[t].expected
        /\ c.errors = (call[t].errors \/ failed) /\ c # None
    BY <1>1, AdapterConstants DEF Call
  <2> HIDE DEF c
  <2> QED
    BY <1>1, <2>2, <2>3 DEF GoesOn
<1> QED
  BY <1>2, <1>3, <1>4, <1>5, <1>6
     DEF Terminal, FinishEnters, CloseEnters, FinishReports, CloseReports, InStep

\* A terminal operation: a close stops the process and drops its client at once.
LEMMA TerminalServes == ASSUME Serving, Good, NEW t \in Callers, Terminal(t) PROVE Serving'
<1>1. /\ UNCHANGED <<profile, preparer, wanted, command>> /\ execution' \in {None, execution}
      /\ UNCHANGED <<client, navigation>> \/ (navigation' = "none" /\ client' = FALSE)
  BY DEF Terminal, FinishEnters, CloseEnters, CancelGoals, Disable, FinishReports, CloseReports,
         StopsNavigation, system
<1>2. flags.stop => flags'.stop
  BY DEF Terminal, FinishEnters, CloseEnters, CancelGoals, Disable, FinishReports, CloseReports,
         system, Good, TypeOK, Flags
<1>3. watchdog'.step = watchdog.step
  BY DEF Terminal, FinishEnters, CloseEnters, CancelGoals, Disable, FinishReports, CloseReports,
         ReplacesProcess, Good, TypeOK
<1>4. Halting' /\ Gated' /\ Asking' /\ Attached' /\ Dropping'
  BY <1>1, <1>2, <1>3 DEF Serving, Halting, Gated, Asking, PreparerAlive, Attached, Dropping
<1>5. Expecting'
  <2>1. PICK c : GoesOn(t, c)
    BY TerminalGoesOn
  <2>2. call'[t] = c /\ \A u \in Callers \ {t} : call'[u] = call[u]
    BY <2>1 DEF GoesOn, Good, TypeOK
  <2> QED
    BY <2>1, <2>2 DEF GoesOn, Serving, Expecting, Callers
<1> QED
  BY <1>4, <1>5 DEF Serving

\* A shutdown, a reset, a lost process, a robot that disables itself.
LEMMA EnvironmentServes == ASSUME Serving, Good, Environment PROVE Serving'
<1>1. CASE Shutdown
  BY <1>1, ClosesServes DEF Shutdown, Callers
<1>2. CASE ResetEmergencyStop \/ ProcessDies \/ DisablesItself
  <2>1. /\ UNCHANGED <<profile, preparer, wanted, client, command, flags, execution, watchdog,
                       call>>
        /\ navigation' = navigation \/ (navigation = "running" /\ navigation' = "exited")
    BY <1>2 DEF ResetEmergencyStop, ProcessDies, DisablesItself, system, threads
  <2>2. /\ UNCHANGED <<profile, preparer, wanted, client, command>>
        /\ flags.stop => flags'.stop
        /\ execution' \in {None, execution} /\ watchdog' = watchdog /\ call' = call
    BY <2>1
  <2> QED
    BY <2>1, <2>2, UninvolvedServes
<1> QED
  BY <1>1, <1>2 DEF Environment

\* Stop event, process and client agree at every step of every thread.
THEOREM ServingInvariant == Spec => []Serving
<1>1. Init => Serving
  BY DEF Init, Serving, Halting, Gated, Asking, PreparerAlive, Attached, Dropping, Expecting,
         NoPreparer, Callers
<1>2. Serving /\ Good /\ [Next]_vars => Serving'
  <2> SUFFICES ASSUME Serving, Good, [Next]_vars PROVE Serving'
    OBVIOUS
  <2>1. CASE UNCHANGED vars
    BY <2>1 DEF vars, system, threads, Serving, Halting, Gated, Asking, PreparerAlive, Attached,
                Dropping, Expecting
  <2> QED
    BY <2>1, PrepareThreadServes, WorkerThreadServes, CommandThreadServes, CommandsServe,
       WatchdogThreadServes, TerminalServes, EnvironmentServes DEF Next
<1> QED
  BY <1>1, <1>2, AdapterInvariant, PTL DEF Spec

-----------------------------------------------------------------------------
(* No goal outlives the end that is reported.                              *)
\* move_base has no goal of the current execution.
NoGoalLeft == goal = None \/ goal # execution
\* No _finish is under way and none can begin.
Settled == flags.closing /\ \A t \in Callers : Held(t) => call[t].op = "close"

\* A goal without the client to cancel it is left only by an adapter that closes.
Lost == ~client => NoGoalLeft \/ Settled
\* Before a command drops the client it has ended the execution.
Ended ==
    /\ command \in {"confirming", "unloading", "forget"} /\ profile.safety
    /\ call["command"] = None
    => execution = None \/ Settled
\* A thread _run that still sends goals has a client, or no process to send them to.
Driving ==
    worker.step \in {"arming", "armed", "next", "driving"} /\ Mine /\ ~flags.stop
    => client \/ ProcessExited
\* A call of _finish that is to report no failure: the thread _run after its last
\* waypoint, or a command, which without the interlock has cancelled the goals.
Successful(t) ==
    call[t] # None /\ call[t].op = "finish" /\ call[t].state # "failed" /\ ~call[t].errors
Ender(t) ==
    \/ t = "worker" /\ worker.step = "finishing" /\ goal = None
    \/ t = "command" /\ (profile.safety \/ NoGoalLeft \/ flags.closing)
Enders == \A t \in Callers : Successful(t) => Ender(t)
Cancelled == \A t \in Callers :
    Successful(t) /\ call[t].step \in {"disable", "report"} => NoGoalLeft

Cancelling == Lost /\ Ended /\ Driving /\ Enders /\ Cancelled
AllGood == Good /\ IInv /\ Serving /\ Cancelling

\* Without a current execution there is no goal of it.
LEMMA NoExecutionNoGoal == ASSUME execution = None PROVE NoGoalLeft
BY DEF NoGoalLeft

\* The threads that begin or end calls without cancelling anything.
LEMMA SettledKeeps ==
    ASSUME flags.closing => flags'.closing,
           \A t \in Callers : call'[t] \in {None, call[t]} \/ call'[t].step = "enter"
    PROVE  Settled => Settled'
BY DEF Settled, Held

LEMMA CancellingKeeps ==
    ASSUME AllGood, UNCHANGED profile, goal' \in {None, goal}, execution' \in {None, execution},
           flags.closing => flags'.closing,
           \A t \in Callers : \/ call'[t] \in {None, call[t]}
                              \/ call'[t].step = "enter" /\ (Successful(t) => Ender(t))',
           worker.step = "finishing" /\ call'["worker"] # None => worker'.step = "finishing",
           client' = client \/ NoGoalLeft' \/ Settled'
    PROVE  Lost' /\ Enders' /\ Cancelled'
<1>1. NoGoalLeft => NoGoalLeft'
  BY DEF NoGoalLeft
<1>2. Settled => Settled'
  BY SettledKeeps
<1>3. Lost'
  BY <1>1, <1>2 DEF AllGood, Cancelling, Lost
<1>4. Enders'
  <2> SUFFICES ASSUME NEW t \in Callers, Successful(t)' PROVE Ender(t)'
    BY DEF Enders
  <2>1. CASE call'[t] = call[t] /\ call[t] # None
    <3>1. Ender(t)
      BY <2>1 DEF AllGood, Cancelling, Enders, Successful
    <3> QED
      BY <1>1, <2>1, <3>1 DEF Ender
  <2>2. CASE call'[t].step = "enter" /\ (Successful(t) => Ender(t))'
    BY <2>2
  <2> QED
    BY <2>1, <2>2 DEF Successful
<1>5. Cancelled'
  <2> SUFFICES ASSUME NEW t \in Callers, Successful(t)', call'[t].step \in {"disable", "report"}
               PROVE  NoGoalLeft'
    BY DEF Cancelled
  <2>1. call'[t] = call[t]
    BY DEF Successful
  <2>2. Successful(t) /\ call[t].step \in {"disable", "report"}
    BY <2>1 DEF Successful
  <2> QED
    BY <1>1, <2>2 DEF AllGood, Cancelling, Cancelled
<1> QED
  BY <1>3, <1>4, <1>5

\* A command that does not go on to drop the client.
LEMMA EndedKeeps ==
    ASSUME AllGood, UNCHANGED profile, execution' \in {None, execution}, Settled => Settled',
           command' = command \/ command' \notin {"confirming", "unloading", "forget"},
           call'["command"] # None \/ call["command"] = None
    PROVE  Ended'
BY DEF AllGood, Cancelling, Ended

\* A thread _run that another thread leaves alone.
LEMMA DrivingKeeps ==
    ASSUME AllGood, UNCHANGED <<profile, worker>>,
           \/ flags'.stop
           \/ /\ execution' \in {None, execution} /\ (flags.stop => flags'.stop)
              /\ (execution' # None /\ (client \/ ProcessExited) => client' \/ ProcessExited')
    PROVE  Driving'
<1> SUFFICES ASSUME worker'.step \in {"arming", "armed", "next", "driving"}, Mine', ~flags'.stop
             PROVE  client' \/ ProcessExited'
  BY DEF Driving
<1>1. worker.execution \in Executions
  BY DEF AllGood, Good, Working
<1>2. execution' # None /\ Mine
  BY <1>1, AdapterConstants DEF Mine
<1> QED
  BY <1>2 DEF AllGood, Cancelling, Driving

\* A call of _finish is one.
LEMMA FinishIsCall ==
    ASSUME AllGood, NEW t \in Callers, NEW state \in EndStates, NEW code,
           NEW expected \in Executions \union {None}, NEW force \in BOOLEAN,
           Calls(t, Finish(state, code, expected, force))
    PROVE  call'[t] # None
BY FinishType, AdapterConstants DEF Calls, AllGood, Good, TypeOK

\* A step that changes nothing of this.
LEMMA CancellingUnchanged == ASSUME AllGood, UNCHANGED <<profile, system, robot, threads>>
                             PROVE  Cancelling'
<1>1. Lost' /\ Ended' /\ Driving'
  BY DEF system, robot, threads, AllGood, Cancelling, Lost, Ended, Driving, Mine, ProcessExited,
         NoGoalLeft, Settled, Held
<1>2. Enders' /\ Cancelled'
  BY DEF system, robot, threads, AllGood, Cancelling, Enders, Ender, Cancelled, Successful,
         NoGoalLeft
<1> QED
  BY <1>1, <1>2 DEF Cancelling

\* The preparation thread runs without an execution.
LEMMA PrepareThreadCancels == ASSUME AllGood, PrepareThread PROVE Cancelling'
<1>1. /\ UNCHANGED <<profile, execution, flags, command, call, worker>> /\ goal' \in {None, goal}
      /\ preparer.step # "ended"
  BY DEF PrepareThread, PrepareConnects, PrepareReports, PrepareGivesUp, PrepareFails,
         PrepareForgets, PrepareStopsNavigation, PreparerMoves, StopsNavigation, system, robot
<1>2. execution = None
  BY <1>1 DEF AllGood, Serving, Asking, PreparerAlive
<1>3. NoGoalLeft'
  BY <1>1, <1>2 DEF NoGoalLeft
<1>4. Lost' /\ Enders' /\ Cancelled'
  BY <1>1, <1>3, CancellingKeeps
<1>5. Settled => Settled'
  BY <1>1 DEF Settled, Held
<1>6. Ended' /\ Driving'
  BY <1>1, <1>2, <1>5, EndedKeeps, DrivingKeeps
<1> QED
  BY <1>4, <1>6 DEF Cancelling

\* The goal of _run is sent while nobody ends its execution.
LEMMA SendGoalCancels == ASSUME AllGood, SendGoal PROVE Cancelling'
<1>1. /\ worker.step = "next" /\ ~flags.stop /\ Mine
      /\ goal' = IF ProcessExited THEN None ELSE worker.execution
      /\ UNCHANGED <<profile, execution, flags, command, call, client, navigation>>
  BY DEF SendGoal, MaySend, system
<1>2. /\ command = "idle" /\ call["command"] = None
      /\ \A t \in Callers : ~Held(t)
  BY <1>1 DEF AllGood, Serving, Halting, IInv, Unloading, Stopped
<1>3. \A t \in Callers : ~Successful(t)
  BY <1>1, <1>2 DEF AllGood, Cancelling, Enders, Ender, Successful
<1>4. Enders' /\ Cancelled' /\ Ended'
  BY <1>1, <1>2, <1>3 DEF Enders, Cancelled, Successful, Ended
<1>5. Lost' /\ Driving'
  <2>1. client \/ ProcessExited
    BY <1>1 DEF AllGood, Cancelling, Driving
  <2>2. ~client => NoGoalLeft'
    BY <1>1, <2>1 DEF NoGoalLeft
  <2> QED
    BY <1>1, <2>1, <2>2 DEF Lost, Driving, ProcessExited
<1> QED
  BY <1>4, <1>5 DEF Cancelling

\* _run reports a completion only after its last goal.
LEMMA WorkerThreadCancels == ASSUME AllGood, WorkerThread, ~SendGoal PROVE Cancelling'
<1>1. /\ UNCHANGED <<profile, execution, client, navigation, command>> /\ goal' \in {None, goal}
      /\ worker.step # "ended"
  BY DEF WorkerThread, WorkerStops, StartTimeComes, ArmSucceeds, ArmFails, Armed,
         WaypointTimesOut, WaypointReached, WorkerEnds, RunFails, system, robot
<1>2. (flags.stop => flags'.stop) /\ (flags.closing => flags'.closing)
  <2>1. flags' \in {flags, [flags EXCEPT !.stop = TRUE], [flags EXCEPT !.armed = TRUE]}
    BY DEF WorkerThread, WorkerStops, StartTimeComes, ArmSucceeds, ArmFails, Armed,
           WaypointTimesOut, WaypointReached, WorkerEnds, RunFails, system
  <2> QED
    BY <2>1 DEF AllGood, Good, TypeOK, Flags
<1>3. /\ \A t \in Callers \ {"worker"} : call'[t] = call[t]
      /\ \/ call'["worker"] \in {None, call["worker"]}
         \/ call'["worker"].step = "enter" /\ (Successful("worker") => Ender("worker"))'
  <2>1. CASE WorkerStops \/ StartTimeComes \/ ArmSucceeds \/ Armed \/ WorkerEnds
    BY <2>1 DEF WorkerStops, StartTimeComes, ArmSucceeds, Armed, WorkerEnds
  <2>2. CASE ArmFails \/ WaypointTimesOut \/ \E code \in FailureCodes : RunFails(code)
    <3>1. PICK code : Raises(code)
      BY <2>2 DEF ArmFails, WaypointTimesOut, RunFails
    <3>2. \/ UNCHANGED call
          \/ Calls("worker", Finish("failed", code, worker.execution, FALSE))
      BY <3>1 DEF Raises
    <3>3. /\ Finish("failed", code, worker.execution, FALSE).step = "enter"
          /\ Finish("failed", code, worker.execution, FALSE).state = "failed"
      BY DEF Finish
    <3> QED
      BY <3>2, <3>3 DEF Calls, Successful, Callers, AllGood, Good, TypeOK
  <2>3. CASE WaypointReached
    <3>1. CASE MoreWaypoints
      BY <2>3, <3>1 DEF WaypointReached
    <3>2. CASE ~MoreWaypoints
      <4>1. /\ WorkerTo("finishing") /\ goal' = None
            /\ Calls("worker", Finish("completed", "", worker.execution, FALSE))
        BY <2>3, <3>2 DEF WaypointReached
      <4>2. Finish("completed", "", worker.execution, FALSE).step = "enter"
        BY DEF Finish
      <4>3. worker'.step = "finishing"
        BY <4>1 DEF WorkerTo, AllGood, Good, TypeOK
      <4>4. Ender("worker")'
        BY <4>1, <4>3 DEF Ender
      <4> QED
        BY <4>1, <4>2, <4>4 DEF Calls, Callers, AllGood, Good, TypeOK
    <3> QED
      BY <3>1, <3>2
  <2> QED
    BY <2>1, <2>2, <2>3 DEF WorkerThread
<1>4. worker.step = "finishing" => call'["worker"] = None
  BY DEF WorkerThread, WorkerStops, StartTimeComes, ArmSucceeds, ArmFails, Armed,
         WaypointTimesOut, WaypointReached, WorkerEnds, RunFails, ActionFailures, FailureCodes
<1>5. /\ worker'.execution = worker.execution \/ worker'.step = "ended"
      /\ worker'.step \in {"arming", "armed", "next", "driving"} =>
            client \/ worker.step \in {"arming", "armed", "next", "driving"}
  <2>1. CASE WorkerStops \/ StartTimeComes \/ ArmSucceeds \/ Armed \/ WorkerEnds
    <3>1. PICK step \in WorkerSteps :
            /\ WorkerTo(step)
            /\ step \in {"arming", "armed", "next", "driving"} =>
                  client \/ worker.step \in {"arming", "armed", "next", "driving"}
      BY <2>1 DEF WorkerStops, StartTimeComes, ArmSucceeds, Armed, WorkerEnds, WorkerSteps
    <3>2. worker' = NoWorker \/ worker' = [worker EXCEPT !.step = step]
      BY <3>1 DEF WorkerTo
    <3> QED
      BY <3>1, <3>2 DEF NoWorker, AllGood, Good, TypeOK
  <2>2. CASE ArmFails \/ WaypointTimesOut \/ \E code \in FailureCodes : RunFails(code)
    <3>1. WorkerTo("finishing") \/ WorkerTo("ended")
      BY <2>2 DEF ArmFails, WaypointTimesOut, RunFails, Raises
    <3>2. worker' = NoWorker \/ worker' = [worker EXCEPT !.step = "finishing"]
      BY <3>1 DEF WorkerTo
    <3> QED
      BY <3>2 DEF NoWorker, AllGood, Good, TypeOK
  <2>3. CASE WaypointReached
    <3>1. \/ worker' = [worker EXCEPT !.step = "next", !.index = @ + 1]
          \/ WorkerTo("finishing")
      BY <2>3 DEF WaypointReached
    <3>2. worker.step = "driving"
      BY <2>3 DEF WaypointReached
    <3> QED
      BY <3>1, <3>2 DEF WorkerTo, NoWorker, AllGood, Good, TypeOK
  <2> QED
    BY <2>1, <2>2, <2>3 DEF WorkerThread
<1>6. \A t \in Callers : \/ call'[t] \in {None, call[t]}
                         \/ call'[t].step = "enter" /\ (Successful(t) => Ender(t))'
  BY <1>3
<1>7. Lost' /\ Enders' /\ Cancelled'
  BY <1>1, <1>2, <1>4, <1>6, CancellingKeeps
<1>8. Settled => Settled'
  BY <1>2, <1>6, SettledKeeps
<1>9. Ended'
  BY <1>1, <1>3, <1>8, EndedKeeps DEF Callers
<1>10. Driving'
  BY <1>1, <1>2, <1>5 DEF Driving, Mine, ProcessExited, AllGood, Cancelling
<1> QED
  BY <1>7, <1>9, <1>10 DEF Cancelling

\* A command cancels the goals, or ends the execution, before it drops the client.
LEMMA CommandThreadCancels == ASSUME AllGood, CommandThread PROVE Cancelling'
<1>1. /\ UNCHANGED <<profile, worker>> /\ execution' \in {None, execution} /\ goal' \in {None, goal}
      /\ flags' \in {flags, [flags EXCEPT !.stop = TRUE]} /\ command # "idle"
  BY DEF CommandThread, StopCancels, EmergencyLatches, UnloadCancels, UnloadStopsNavigation,
         UnloadForgets, CommandEnds, StopsNavigation, system, robot
<1>2. flags'.stop /\ (flags.closing => flags'.closing)
  BY <1>1 DEF AllGood, Serving, Halting, Good, TypeOK, Flags
<1>3. Driving'
  BY <1>1, <1>2, DrivingKeeps
<1>4. \A t \in Callers : \/ call'[t] \in {None, call[t]}
                         \/ call'[t].step = "enter" /\ (Successful(t) => Ender(t))'
  <2>1. ASSUME NEW state, NEW code, NEW force, Calls("command", Finish(state, code, None, force))
        PROVE  /\ call'["command"].step = "enter"
               /\ \A t \in Callers \ {"command"} : call'[t] = call[t]
    <3>1. Finish(state, code, None, force).step = "enter"
      BY DEF Finish
    <3> QED
      BY <2>1, <3>1 DEF Calls, Callers, AllGood, Good, TypeOK
  <2>2. CASE StopCancels
    <3>1. NoGoalLeft' \/ flags'.closing
      BY <1>2, <2>2 DEF StopCancels, AllGood, Cancelling, Lost, NoGoalLeft, Settled, system
    <3>2. Calls("command", Finish("stopped", "", None, FALSE))
      BY <2>2 DEF StopCancels
    <3> QED
      BY <2>1, <3>1, <3>2 DEF Ender
  <2>3. CASE EmergencyLatches
    <3>1. profile'.safety
      BY <1>1, <2>3 DEF EmergencyLatches, AllGood, Serving, Gated
    <3>2. \E state :
             Calls("command", Finish(state, "EMERGENCY_STOP_PERSISTENCE_FAILED", None, TRUE))
      BY <2>3 DEF EmergencyLatches
    <3> QED
      BY <2>1, <3>1, <3>2 DEF Ender
  <2>4. CASE UnloadCancels \/ UnloadStopsNavigation \/ UnloadForgets \/ CommandEnds
    BY <2>4 DEF UnloadCancels, UnloadStopsNavigation, UnloadForgets, CommandEnds
  <2> QED
    BY <2>2, <2>3, <2>4 DEF CommandThread
<1>5. Settled => Settled'
  BY <1>2, <1>4, SettledKeeps
<1>6. client' = client \/ NoGoalLeft' \/ Settled'
  <2>1. CASE UnloadForgets \/ (CommandEnds /\ command = "confirming")
    <3>1. call["command"] = None /\ command \in {"confirming", "forget"}
      BY <2>1 DEF UnloadForgets, CommandEnds, AllGood, IInv, Unloading
    <3>2. command = "confirming" => profile.safety
      BY DEF AllGood, Serving, Gated
    <3>3. execution' = None \/ Settled
      BY <1>1, <2>1, <3>1, <3>2 DEF UnloadForgets, AllGood, Cancelling, Ended
    <3> QED
      BY <1>5, <3>3 DEF NoGoalLeft
  <2>2. CASE ~(UnloadForgets \/ (CommandEnds /\ command = "confirming"))
    BY <2>2 DEF CommandThread, StopCancels, EmergencyLatches, UnloadCancels, UnloadStopsNavigation,
                CommandEnds, system
  <2> QED
    BY <2>1, <2>2
<1>7. Lost' /\ Enders' /\ Cancelled'
  BY <1>1, <1>2, <1>4, <1>6, CancellingKeeps
<1>8. Ended'
  <2>1. CASE UnloadStopsNavigation
    <3>1. /\ command = "unload" \/ (command = "unloading" /\ call["command"] = None)
          /\ UNCHANGED <<profile, execution, call>>
      BY <2>1 DEF UnloadStopsNavigation
    <3>2. command = "unload" => ~profile.safety
      BY DEF AllGood, Serving, Gated
    <3> QED
      BY <1>5, <3>1, <3>2 DEF AllGood, Cancelling, Ended
  <2>2. CASE EmergencyLatches
    <3>1. PICK state \in {"emergency_stopped", "failed"} :
            Calls("command", Finish(state, "EMERGENCY_STOP_PERSISTENCE_FAILED", None, TRUE))
      BY <2>2 DEF EmergencyLatches
    <3>2. call'["command"] # None
      BY <3>1, FinishIsCall DEF EndStates, Callers
    <3> QED
      BY <3>2 DEF Ended
  <2>3. CASE StopCancels \/ UnloadCancels \/ UnloadForgets \/ CommandEnds
    <3>1. command' \notin {"confirming", "unloading", "forget"}
      BY <2>3 DEF StopCancels, UnloadCancels, UnloadForgets, CommandEnds
    <3> QED
      BY <3>1 DEF Ended
  <2> QED
    BY <2>1, <2>2, <2>3 DEF CommandThread
<1> QED
  BY <1>3, <1>7, <1>8 DEF Cancelling

\* An adapter that begins to close.
LEMMA ClosesCancels ==
    ASSUME AllGood, NEW t \in Callers, NEW permanent \in BOOLEAN, Closes(t, permanent),
           IF t = "command" THEN command = "idle" /\ command' = "ending" ELSE command' = command
    PROVE  Cancelling'
<1>1. /\ flags'.stop = TRUE /\ UNCHANGED <<profile, execution, client, goal, worker>>
      /\ flags'.closing = TRUE
  BY ClosesType DEF AllGood, Good, Closes, robot, TypeOK, Flags
<1>2. /\ call'[t] = Close /\ call[t] = None
      /\ \A u \in Callers \ {t} : call'[u] = call[u]
  BY DEF Closes, Calls, AllGood, Good, TypeOK
<1>3. Close.step = "enter" /\ Close.op = "close"
  BY DEF Close
<1>4. \A u \in Callers : \/ call'[u] \in {None, call[u]}
                         \/ call'[u].step = "enter" /\ (Successful(u) => Ender(u))'
  BY <1>2, <1>3 DEF Successful
<1>5. worker.step = "finishing" /\ call'["worker"] # None => worker'.step = "finishing"
  BY <1>1
<1>6. Lost' /\ Enders' /\ Cancelled'
  BY <1>1, <1>4, <1>5, CancellingKeeps
<1>7. Settled => Settled'
  BY <1>1, <1>4, SettledKeeps
<1>8. Ended'
  <2>1. CASE t = "command"
    BY <2>1 DEF Ended
  <2>2. CASE t # "command"
    BY <1>1, <1>2, <1>7, <2>2, EndedKeeps DEF Callers
  <2> QED
    BY <2>1, <2>2
<1>9. Driving'
  BY <1>1, DrivingKeeps
<1> QED
  BY <1>6, <1>8, <1>9 DEF Cancelling

\* PREPARE and SCHEDULE find no execution, no _finish and no thread _run.
LEMMA CommandsCancel == ASSUME AllGood, Commands PROVE Cancelling'
<1>1. ASSUME NEW t \in Tasks, Prepare(t) PROVE Cancelling'
  <2>1. /\ command = "idle" /\ execution = None /\ worker.step = "ended" /\ goal' \in {None, goal}
        /\ UNCHANGED <<profile, execution, worker, command, call>>
    BY <1>1 DEF Prepare, PrepareAllowed, WorkerAlive
  <2>2. call["command"] = None
    BY <2>1 DEF AllGood, IInv, Unloading
  <2>3. NoGoalLeft'
    BY <2>1 DEF NoGoalLeft
  <2>4. \A u \in Callers : ~Successful(u)
    BY <2>1, <2>2 DEF AllGood, Cancelling, Enders, Ender, Successful
  <2>5. Lost' /\ Ended' /\ Driving' /\ Cancelled'
    BY <2>1, <2>3 DEF Lost, Ended, Driving, Cancelled
  <2>6. Enders'
    BY <2>1, <2>4 DEF Enders, Successful
  <2> QED
    BY <2>5, <2>6 DEF Cancelling
<1>2. ASSUME NEW t \in Tasks, PrepareAnswered(t) PROVE Cancelling'
  <2>1. UNCHANGED <<profile, system, robot, threads>>
    BY <1>2 DEF PrepareAnswered
  <2> QED
    BY <2>1, CancellingUnchanged
<1>3. ASSUME NEW e \in Executions, NEW t \in Tasks, Schedule(e, t) PROVE Cancelling'
  <2>1. /\ command = "idle" /\ execution' = e /\ worker.step = "ended" /\ e # goal
        /\ worker'.step = "waiting" /\ UNCHANGED <<profile, command, call, goal>>
    BY <1>3 DEF Schedule, ScheduleAllowed, WorkerAlive, Referenced, robot
  <2>2. call["command"] = None
    BY <2>1 DEF AllGood, IInv, Unloading
  <2>3. NoGoalLeft'
    BY <2>1 DEF NoGoalLeft
  <2>4. \A u \in Callers : ~Successful(u)
    BY <2>1, <2>2 DEF AllGood, Cancelling, Enders, Ender, Successful
  <2>5. Lost' /\ Ended' /\ Driving' /\ Cancelled'
    BY <2>1, <2>3 DEF Lost, Ended, Driving, Cancelled
  <2>6. Enders'
    BY <2>1, <2>4 DEF Enders, Successful
  <2> QED
    BY <2>5, <2>6 DEF Cancelling
<1>4. CASE Stop \/ EmergencyStop \/ Unload
  <2>1. /\ flags' = Halts /\ command = "idle"
        /\ UNCHANGED <<profile, execution, client, goal, worker>>
    BY <1>4 DEF Stop, EmergencyStop, Unload, robot
  <2>2. flags'.stop /\ (flags.closing => flags'.closing)
    <3>1. flags' = [flags EXCEPT !.stop = TRUE, !.stopping = profile.safety \/ flags.stopping]
      BY <2>1 DEF Halts
    <3> QED
      BY <3>1 DEF AllGood, Good, TypeOK, Flags
  <2>3. \/ UNCHANGED call /\ command' \in {"cancel", "latching", "cancelAll"}
        \/ /\ \E state \in EndStates : Calls("command", Finish(state, "", None, TRUE))
           /\ profile.safety
    BY <1>4 DEF Stop, EmergencyStop, Unload, EndStates
  <2>4. ASSUME NEW state \in EndStates, Calls("command", Finish(state, "", None, TRUE))
        PROVE  /\ call'["command"] # None /\ call'["command"].step = "enter"
               /\ \A t \in Callers \ {"command"} : call'[t] = call[t]
    <3>1. Finish(state, "", None, TRUE).step = "enter"
      BY DEF Finish
    <3>2. call'["command"] # None
      BY <2>4, FinishIsCall DEF Callers
    <3> QED
      BY <2>4, <3>1, <3>2 DEF Calls, Callers, AllGood, Good, TypeOK
  <2>5. \A t \in Callers : \/ call'[t] \in {None, call[t]}
                           \/ call'[t].step = "enter" /\ (Successful(t) => Ender(t))'
    BY <2>1, <2>3, <2>4 DEF Ender
  <2>6. worker.step = "finishing" /\ call'["worker"] # None => worker'.step = "finishing"
    BY <2>1
  <2>7. Lost' /\ Enders' /\ Cancelled'
    BY <2>1, <2>2, <2>5, <2>6, CancellingKeeps
  <2>8. Ended'
    BY <2>3, <2>4 DEF Ended
  <2>9. Driving'
    BY <2>1, <2>2, DrivingKeeps
  <2> QED
    BY <2>7, <2>8, <2>9 DEF Cancelling
<1>5. CASE ShutdownUnload
  <2>1. PICK permanent \in BOOLEAN : Closes("command", permanent)
    BY <1>5 DEF ShutdownUnload
  <2>2. command = "idle" /\ command' = "ending"
    BY <1>5 DEF ShutdownUnload
  <2> QED
    BY <2>1, <2>2, ClosesCancels DEF Callers
<1> QED
  BY <1>1, <1>2, <1>3, <1>4, <1>5 DEF Commands

\* The watchdog drops the client of a process that has taken its goals with it.
LEMMA WatchdogThreadCancels == ASSUME AllGood, WatchdogThread PROVE Cancelling'
<1>1. /\ UNCHANGED <<profile, command, worker>> /\ execution' \in {None, execution}
      /\ goal' \in {None, goal} /\ flags' \in {flags, [flags EXCEPT !.stop = TRUE]}
  BY DEF WatchdogThread, WatchdogLooks, ControlLost, WatchdogReturns, ExitFound, ExitCleans,
         ExitForgets, StopsNavigation, system, robot
<1>2. (flags.stop => flags'.stop) /\ (flags.closing => flags'.closing)
  BY <1>1 DEF AllGood, Good, TypeOK, Flags
<1>3. \A t \in Callers : \/ call'[t] = call[t]
                         \/ t = "watchdog" /\ call'[t].step = "enter" /\ call'[t].state = "failed"
  <2>1. \/ UNCHANGED call
        \/ \E code, expected, force : Calls("watchdog", Finish("failed", code, expected, force))
    BY DEF WatchdogThread, WatchdogLooks, ControlLost, WatchdogReturns, ExitFound, ExitCleans,
           ExitForgets
  <2>2. \A code, expected, force : /\ Finish("failed", code, expected, force).step = "enter"
                                  /\ Finish("failed", code, expected, force).state = "failed"
    BY DEF Finish
  <2> QED
    BY <2>1, <2>2 DEF Calls, AllGood, Good, TypeOK
<1>4. \A t \in Callers : \/ call'[t] \in {None, call[t]}
                         \/ call'[t].step = "enter" /\ (Successful(t) => Ender(t))'
  BY <1>3 DEF Successful
<1>5. Settled => Settled'
  BY <1>2, <1>4, SettledKeeps
<1>6. Ended'
  BY <1>1, <1>3, <1>5, EndedKeeps DEF Callers
<1>7. \/ UNCHANGED <<client, navigation>>
      \/ execution' = None /\ flags'.stop
      \/ goal' = None /\ navigation' = "none" /\ profile.managed
  <2>1. CASE ExitForgets
    <3>1. execution' = None /\ flags' = [flags EXCEPT !.stop = TRUE]
      BY <2>1 DEF ExitForgets
    <3> QED
      BY <3>1 DEF AllGood, Good, TypeOK, Flags
  <2>2. CASE ExitCleans
    BY <2>2 DEF ExitCleans, StopsNavigation, AllGood, Serving, Attached
  <2>3. CASE WatchdogLooks \/ ControlLost \/ WatchdogReturns \/ ExitFound
    BY <2>3 DEF WatchdogLooks, ControlLost, WatchdogReturns, ExitFound, system
  <2> QED
    BY <2>1, <2>2, <2>3 DEF WatchdogThread
<1>8. Driving'
  BY <1>1, <1>2, <1>7, DrivingKeeps DEF ProcessExited
<1>9. client' = client \/ NoGoalLeft'
  BY <1>7 DEF NoGoalLeft
<1>10. worker.step = "finishing" /\ call'["worker"] # None => worker'.step = "finishing"
  BY <1>1
<1>11. Lost' /\ Enders' /\ Cancelled'
  BY <1>1, <1>2, <1>4, <1>9, <1>10, CancellingKeeps
<1> QED
  BY <1>6, <1>8, <1>11 DEF Cancelling

\* A shutdown, a reset, a lost process, a robot that disables itself.
LEMMA EnvironmentCancels == ASSUME AllGood, Environment PROVE Cancelling'
<1>1. CASE Shutdown
  BY <1>1, ClosesCancels DEF Shutdown, Callers
<1>2. CASE ResetEmergencyStop \/ ProcessDies \/ DisablesItself
  <2>1. /\ UNCHANGED <<profile, execution, client, flags, worker, command, call>>
        /\ goal' \in {None, goal} /\ (navigation' = navigation \/ navigation' = "exited")
    BY <1>2 DEF ResetEmergencyStop, ProcessDies, DisablesItself, system, threads
  <2>2. /\ \A t \in Callers : call'[t] \in {None, call[t]}
        /\ worker.step = "finishing" /\ call'["worker"] # None => worker'.step = "finishing"
    BY <2>1
  <2>3. Lost' /\ Enders' /\ Cancelled'
    BY <2>1, <2>2, CancellingKeeps
  <2>4. Settled => Settled'
    BY <2>1, <2>2, SettledKeeps
  <2>5. Ended'
    BY <2>1, <2>4, EndedKeeps
  <2>6. Driving'
    BY <2>1, DrivingKeeps DEF ProcessExited
  <2> QED
    BY <2>3, <2>5, <2>6 DEF Cancelling
<1> QED
  BY <1>1, <1>2 DEF Environment

\* A terminal operation gets past its entry only where its goals can be cancelled,
\* or have been.
LEMMA EntersCancel ==
    ASSUME AllGood, NEW t \in Callers, FinishEnters(t) \/ CloseEnters(t)
    PROVE  Cancelling'
<1>1. /\ terminal \in {None, t} /\ call[t] \in Call /\ call[t] # None /\ call[t].step = "enter"
      /\ UNCHANGED <<profile, execution, client, navigation, goal, worker, command>>
  BY InStepType DEF FinishEnters, CloseEnters, InStep, TerminalFree, AllGood, Good, system, robot
<1>2. (flags.stop => flags'.stop) /\ flags'.closing = flags.closing
  BY DEF FinishEnters, CloseEnters, system, AllGood, Good, TypeOK, Flags
<1>3. Driving'
  BY <1>1, <1>2, DrivingKeeps DEF ProcessExited
<1>4. CASE Returns(t) /\ (FinishEnters(t) => NothingToFinish(call[t]))
  <2>1. call'[t] = None /\ \A u \in Callers \ {t} : call'[u] = call[u]
    BY <1>4, ReturnCalm DEF AllGood
  <2>2. \A u \in Callers : call'[u] \in {None, call[u]}
    BY <2>1
  <2>3. worker.step = "finishing" /\ call'["worker"] # None => worker'.step = "finishing"
    BY <1>1
  <2>4. Lost' /\ Enders' /\ Cancelled'
    BY <1>1, <1>2, <2>2, <2>3, CancellingKeeps
  <2>5. Settled => Settled'
    BY <1>2, <2>2, SettledKeeps
  <2>6. Ended'
    <3>1. CASE t # "command"
      BY <1>1, <2>1, <2>5, <3>1, EndedKeeps DEF Callers
    <3>2. CASE t = "command" /\ FinishEnters(t)
      <4>1. NothingToFinish(call[t])
        BY <1>4, <3>2
      <4>2. flags.closing \/ execution = None
        BY <1>1, <2>1, <3>2, <4>1 DEF NothingToFinish, FinishEnters, AllGood, Serving, Expecting
      <4>3. \A u \in Callers : ~Held(u)'
        <5>1. \A u \in Callers \ {t} : ~Held(u)
          BY <1>1, HeldAlone DEF AllGood
        <5> QED
          BY <2>1, <5>1 DEF Held
      <4> QED
        BY <1>1, <1>2, <4>2, <4>3 DEF Ended, Settled
    <3>3. CASE t = "command" /\ CloseEnters(t)
      <4>1. command = "ending"
        BY <1>1, <3>3 DEF CloseEnters, AllGood, IInv, Closing
      <4> QED
        BY <1>1, <4>1 DEF Ended
    <3> QED
      BY <3>1, <3>2, <3>3
  <2> QED
    BY <1>3, <2>4, <2>6 DEF Cancelling
<1>5. CASE FinishEnters(t) /\ ~NothingToFinish(call[t])
  <2> DEFINE c == [call[t] EXCEPT !.step = IF profile.safety THEN "cancel" ELSE "report",
                                  !.expected = None, !.force = FALSE]
  <2>1. call' = [call EXCEPT ![t] = c]
    BY <1>5 DEF FinishEnters
  <2>2. /\ c.op = call[t].op /\ c.state = call[t].state /\ c.errors = call[t].errors
        /\ c.step \in {"cancel", "report"} /\ (c.step = "report" => ~profile.safety)
        /\ c \in Call
    BY <1>1, <1>5 DEF Call, FinishEnters
  <2> HIDE DEF c
  <2>3. call'[t] = c /\ c # None /\ \A u \in Callers \ {t} : call'[u] = call[u]
    BY <2>1, <2>2, AdapterConstants DEF AllGood, Good, TypeOK
  <2>4. ~flags.closing
    BY <1>5 DEF NothingToFinish
  <2>5. Successful(t)' => Successful(t)
    BY <1>1, <2>2, <2>3 DEF Successful
  <2>6. Enders'
    <3> SUFFICES ASSUME NEW u \in Callers, Successful(u)' PROVE Ender(u)'
      BY DEF Enders
    <3>1. Successful(u)
      BY <2>3, <2>5 DEF Successful
    <3>2. Ender(u)
      BY <3>1 DEF AllGood, Cancelling, Enders
    <3> QED
      BY <1>1, <1>2, <3>2 DEF Ender, NoGoalLeft
  <2>7. Cancelled'
    <3> SUFFICES ASSUME NEW u \in Callers, Successful(u)', call'[u].step \in {"disable", "report"}
                 PROVE  NoGoalLeft
      BY <1>1 DEF Cancelled, NoGoalLeft
    <3>1. CASE u = t
      <4>1. ~profile.safety
        BY <2>2, <2>3, <3>1
      <4>2. Ender(u)
        BY <2>5, <3>1 DEF AllGood, Cancelling, Enders
      <4> QED
        BY <2>4, <4>1, <4>2 DEF Ender, NoGoalLeft
    <3>2. CASE u # t
      <4>1. call'[u] = call[u]
        BY <2>3, <3>2
      <4> QED
        BY <4>1 DEF Successful, AllGood, Cancelling, Cancelled
    <3> QED
      BY <3>1, <3>2
  <2>8. Lost'
    BY <1>1, <2>4 DEF AllGood, Cancelling, Lost, Settled, NoGoalLeft
  <2>9. Ended'
    BY <1>1, <2>3, <2>4 DEF AllGood, Cancelling, Ended, Settled, Callers
  <2> QED
    BY <1>3, <2>6, <2>7, <2>8, <2>9 DEF Cancelling
<1>6. CASE CloseEnters(t) /\ ~flags.closed
  <2> DEFINE c == [call[t] EXCEPT !.step = "cancel"]
  <2>1. call' = [call EXCEPT ![t] = c]
    BY <1>6 DEF CloseEnters, StepTo
  <2>2. c.op = "close" /\ c \in Call
    BY <1>1, <1>6 DEF Call, CloseEnters
  <2> HIDE DEF c
  <2>3. call'[t] = c /\ c # None /\ \A u \in Callers \ {t} : call'[u] = call[u]
    BY <2>1, <2>2, AdapterConstants DEF AllGood, Good, TypeOK
  <2>4. Settled => Settled'
    BY <1>2, <2>2, <2>3 DEF Settled, Held
  <2>5. Enders' /\ Cancelled'
    <3>1. ~Successful(t)'
      BY <2>2, <2>3 DEF Successful
    <3> QED
      BY <1>1, <1>2, <2>3, <3>1
         DEF AllGood, Cancelling, Enders, Ender, Cancelled, Successful, NoGoalLeft
  <2>6. Lost' /\ Ended'
    BY <1>1, <2>3, <2>4 DEF AllGood, Cancelling, Lost, Ended, NoGoalLeft, Callers
  <2> QED
    BY <1>3, <2>5, <2>6 DEF Cancelling
<1> QED
  BY <1>4, <1>5, <1>6 DEF FinishEnters, CloseEnters

\* Past the entry: the goals are cancelled or the operation fails, and nobody
\* sends another before the report.
LEMMA HoldsCancel ==
    ASSUME AllGood, NEW t \in Callers, CancelGoals(t) \/ Disable(t)
    PROVE  Cancelling'
<1>1. /\ Held(t) /\ call[t] \in Call
      /\ UNCHANGED <<profile, execution, client, navigation, worker, command>>
      /\ goal' \in {None, goal}
  BY InStepType DEF CancelGoals, Disable, InStep, Held, AllGood, Good, system
<1>2. (flags.stop => flags'.stop) /\ flags'.closing = flags.closing
  BY DEF CancelGoals, Disable, system, AllGood, Good, TypeOK, Flags
<1>3. NoGoalLeft => NoGoalLeft'
  BY <1>1 DEF NoGoalLeft
<1>4. PICK c : GoesOn(t, c)
  BY TerminalGoesOn DEF AllGood, Terminal
<1>5. call'[t] = c /\ \A u \in Callers \ {t} : call'[u] = call[u]
  BY <1>4 DEF GoesOn, AllGood, Good, TypeOK
<1>6. Successful(t)' => Successful(t)
  BY <1>1, <1>4, <1>5 DEF GoesOn, Successful, Call
<1>7. Enders'
  <2> SUFFICES ASSUME NEW u \in Callers, Successful(u)' PROVE Ender(u)'
    BY DEF Enders
  <2>1. Successful(u)
    BY <1>5, <1>6 DEF Successful
  <2>2. Ender(u)
    BY <2>1 DEF AllGood, Cancelling, Enders
  <2> QED
    BY <1>1, <1>2, <1>3, <2>2 DEF Ender
<1>8. Settled => Settled'
  <2> SUFFICES ASSUME Settled, NEW u \in Callers, Held(u)' PROVE call'[u].op = "close"
    BY <1>2 DEF Settled
  <2>1. CASE u = t
    <3>1. call[t].op = "close"
      BY <1>1 DEF Settled
    <3> QED
      BY <1>4, <1>5, <2>1, <3>1 DEF GoesOn, Held
  <2>2. CASE u # t
    BY <1>5, <2>2 DEF Settled, Held
  <2> QED
    BY <2>1, <2>2
<1>9. Lost'
  BY <1>1, <1>3, <1>8 DEF AllGood, Cancelling, Lost
<1>10. Ended'
  <2>1. call'[t] # None
    BY <1>4, <1>5 DEF GoesOn, CancelGoals, Disable, InStep
  <2>2. call'["command"] # None \/ call["command"] = None
    BY <1>5, <2>1 DEF Callers
  <2> QED
    BY <1>1, <1>8, <2>2, EndedKeeps
<1>11. Driving'
  BY <1>1, <1>2, DrivingKeeps DEF ProcessExited
<1>12. Cancelled'
  <2> SUFFICES ASSUME NEW u \in Callers, Successful(u)', call'[u].step \in {"disable", "report"}
               PROVE  NoGoalLeft'
    BY DEF Cancelled
  <2>1. CASE u # t
    <3>1. call'[u] = call[u]
      BY <1>5, <2>1
    <3> QED
      BY <1>3, <3>1 DEF Successful, AllGood, Cancelling, Cancelled
  <2>2. CASE u = t /\ Disable(t)
    <3>1. Successful(t) /\ call[t].step = "disable"
      BY <1>6, <2>2 DEF Disable, InStep
    <3> QED
      BY <1>3, <3>1 DEF AllGood, Cancelling, Cancelled
  <2>3. CASE u = t /\ CancelGoals(t)
    <3>1. goal' = IF client THEN None ELSE goal
      <4>1. CASE call' = [call EXCEPT ![t].step = "disable", ![t].errors = TRUE]
        <5>1. call'[t].errors
          BY <1>1, <4>1 DEF AllGood, Good, TypeOK, Call
        <5> QED
          BY <2>3, <5>1 DEF Successful
      <4>2. CASE goal' = IF client THEN None ELSE goal
        BY <4>2
      <4> QED
        BY <2>3, <4>1, <4>2 DEF CancelGoals
    <3>2. Successful(t)
      BY <1>6, <2>3
    <3>3. ~Settled
      BY <1>1, <3>2 DEF Settled, Successful
    <3> QED
      BY <1>3, <3>1, <3>3 DEF AllGood, Cancelling, Lost, NoGoalLeft
  <2> QED
    BY <2>1, <2>2, <2>3
<1> QED
  BY <1>7, <1>9, <1>10, <1>11, <1>12 DEF Cancelling

\* The report ends the execution.
LEMMA ReportsCancel ==
    ASSUME AllGood, NEW t \in Callers, FinishReports(t) \/ CloseReports(t)
    PROVE  Cancelling'
<1>1. /\ execution' = None /\ UNCHANGED <<profile, worker, command>> /\ goal' \in {None, goal}
      /\ InStep(t, "report")
  BY DEF FinishReports, CloseReports, StopsNavigation, robot
<1>2. flags'.stop = flags.stop /\ flags'.closing = flags.closing
  BY DEF FinishReports, CloseReports, AllGood, Good, TypeOK, Flags
<1>3. call'[t] = None /\ \A u \in Callers \ {t} : call'[u] = call[u]
  BY ReturnCalm DEF FinishReports, CloseReports, AllGood
<1>4. NoGoalLeft'
  BY <1>1 DEF NoGoalLeft
<1>5. /\ \A u \in Callers : call'[u] \in {None, call[u]}
      /\ worker.step = "finishing" /\ call'["worker"] # None => worker'.step = "finishing"
  BY <1>1, <1>3
<1>6. Lost' /\ Enders' /\ Cancelled'
  BY <1>1, <1>2, <1>4, <1>5, CancellingKeeps
<1>7. Ended'
  BY <1>1 DEF Ended
<1>8. Driving'
  BY <1>1, <1>2, DrivingKeeps
<1> QED
  BY <1>6, <1>7, <1>8 DEF Cancelling

\* Goals, client and calls agree at every step of every thread.
THEOREM CancellingInvariant == Spec => []Cancelling
<1>1. Init => Cancelling
  <2> SUFFICES ASSUME Init PROVE Cancelling
    OBVIOUS
  <2>1. (\A t \in Callers : call[t] = None) /\ worker.step = "ended" /\ goal = None
    BY DEF Init, NoWorker
  <2> QED
    BY <2>1 DEF Cancelling, Lost, Ended, Driving, Enders, Successful, Cancelled, NoGoalLeft, Init
<1>2. AllGood /\ [Next]_vars => Cancelling'
  <2> SUFFICES ASSUME AllGood, [Next]_vars PROVE Cancelling'
    OBVIOUS
  <2>1. ASSUME NEW t \in Callers, Terminal(t) PROVE Cancelling'
    BY <2>1, EntersCancel, HoldsCancel, ReportsCancel DEF Terminal
  <2>2. CASE UNCHANGED vars
    BY <2>2, CancellingUnchanged DEF vars
  <2> QED
    BY <2>1, <2>2, PrepareThreadCancels, SendGoalCancels, WorkerThreadCancels,
       CommandThreadCancels, CommandsCancel, WatchdogThreadCancels, EnvironmentCancels DEF Next
<1> QED
  BY <1>1, <1>2, AdapterInvariant, SafetyInvariant, ServingInvariant, PTL DEF Spec, AllGood

\* With a navigation of the adapter's own, a client is kept only while there is a
\* process it belongs to, or by an UNLOAD that holds the lock and is about to drop it.
THEOREM ClientIsServed == Spec => []ClientHasNavigation
<1>1. Serving /\ IInv => ClientHasNavigation
  BY DEF Serving, Dropping, IInv, Unloading, Unloads, ClientHasNavigation
<1> QED
  BY <1>1, ServingInvariant, SafetyInvariant, PTL

\* An end other than a failure is reported with no goal of the execution left in
\* move_base: none was sent after the goals were cancelled.
THEOREM EndsCancelled == Spec => ReportedIsCancelled
<1> DEFINE Kept == \A t \in Callers : ReportsConfirmed(t) => goal = None \/ goal # execution
<1>1. Cancelling /\ [Next]_vars => [Kept]_vars
  <2> SUFFICES ASSUME Cancelling, NEW t \in Callers, ReportsConfirmed(t)
               PROVE  goal = None \/ goal # execution
    OBVIOUS
  <2>1. Successful(t) /\ call[t].step = "report"
    BY DEF ReportsConfirmed, Reports, Outcome, InStep, Successful
  <2> QED
    BY <2>1 DEF Cancelling, Cancelled, NoGoalLeft
<1> QED
  BY <1>1, CancellingInvariant, PTL DEF Spec, ReportedIsCancelled
=============================================================================
