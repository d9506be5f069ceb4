--------------------------- MODULE UavFlightProofs ---------------------------
(***************************************************************************)
(* The controller that runs always has its owner in the adapter, for any   *)
(* set of tasks.                                                           *)
(*                                                                         *)
(* The argument: there is one request to the manager at a time and it is   *)
(* the one its sender waits for (Sender, Stopping, Starting, Unloads), and *)
(* only a start is half way through the steps of one (Spawning); a         *)
(* confirmed stop means that no controller is left (Gone), so the owner is *)
(* only replaced or forgotten when there is none.                          *)
(***************************************************************************)
EXTENDS UavFlight, TLAPS

Sender == call # None =>
    unloading \/ (loading # None /\ loading.step \in {"stopping", "starting", "cancelling"})
Unloads == unloading => loading = None /\ (call # None => call.action = "stop")
Stopping == call # None /\ loading # None /\ loading.step \in {"stopping", "cancelling"} =>
                call.action = "stop"
Starting == call # None /\ loading # None /\ loading.step = "starting" =>
                call.action = "start" /\ call.owner = loading.task /\ owner = loading.task
Spawning == call # None /\ call.step \in {"spawning", "recorded", "leased"} =>
                call.action = "start"
Gone == call # None /\ call.action = "stop" /\ call.step = "done" => controller = None

IInv == ControllerIsOwned /\ Sender /\ Unloads /\ Stopping /\ Starting /\ Spawning /\ Gone

Load == [task: Tasks, step: {"checking", "stopping", "starting", "waiting", "cancelling"},
         current: BOOLEAN]
Request == [action: {"start", "stop"}, owner: Tasks,
            step: {"asked", "spawning", "recorded", "leased", "stopping", "done", "refused"}]

\* The manager's steps with the request it holds its lock for.
Serving == Refuse \/ StartController \/ SpawnFails \/ Spawned \/ LeaseBegins
           \/ LeaseFaultCleared \/ StopController \/ ControllerStopped

\* None is no task, and no record either.
Distinct == FlightConstants /\ None \notin Load /\ None \notin Request

\* A cancelled preparation is one that is still there, or none.
LEMMA CancelledType == ASSUME TypeOK
                       PROVE  /\ Cancelled \in Load \union {None}
                              /\ loading = None => Cancelled = None
                              /\ loading # None => Cancelled \in Load
                                                   /\ Cancelled.step = loading.step
                                                   /\ Cancelled.task = loading.task
<1>1. CASE loading = None
  BY <1>1 DEF Cancelled
<1>2. CASE loading # None
  <2>1. loading \in Load
    BY <1>2 DEF TypeOK, Load
  <2>2. Cancelled = [loading EXCEPT !.current = FALSE]
    BY <1>2 DEF Cancelled
  <2> QED
    BY <1>2, <2>1, <2>2 DEF Load
<1> QED
  BY <1>1, <1>2

\* Each kind of action keeps the types of the variables it changes.
LEMMA CommandTypes == ASSUME TypeOK, Commands PROVE TypeOK'
<1>1. ASSUME NEW t \in Tasks, Prepare(t) PROVE TypeOK'
  BY <1>1 DEF Prepare, TypeOK, adapter, manager, locks
<1>2. ASSUME NEW t \in Tasks, Schedule(t) PROVE TypeOK'
  BY <1>2 DEF Schedule, TypeOK, Phases, manager, locks
<1>3. CASE Stop
  <2>1. loading' \in Load \union {None}
    BY <1>3, CancelledType DEF Stop
  <2>2. workflow' \in [task: Tasks, phase: Phases] \union {None}
    BY <1>3 DEF Stop, TypeOK, Phases, Over
  <2> QED
    BY <1>3, <2>1, <2>2 DEF Stop, TypeOK, Load, manager, locks
<1>4. CASE Unload
  <2>1. loading' \in Load \union {None}
    BY <1>4, CancelledType DEF Unload
  <2>2. /\ owner' \in Tasks \union {None} /\ prepared' \in Tasks \union {None}
        /\ workflow' \in [task: Tasks, phase: Phases] \union {None}
    BY <1>4 DEF Unload, Forgets, TypeOK
  <2>3. call' \in Request \union {None} /\ unloading' \in BOOLEAN
    <3>1. owner # None => [action |-> "stop", owner |-> owner, step |-> "asked"] \in Request
      BY DEF TypeOK, Request
    <3> QED
      BY <1>4, <3>1 DEF Unload, TypeOK, Request
  <2> QED
    BY <1>4, <2>1, <2>2, <2>3 DEF Unload, TypeOK, Load, Request, manager, locks
<1>5. CASE UnloadAnswered
  <2>1. /\ owner' \in Tasks \union {None} /\ prepared' \in Tasks \union {None}
        /\ workflow' \in [task: Tasks, phase: Phases] \union {None}
    BY <1>5 DEF UnloadAnswered, Forgets, TypeOK
  <2>2. unloading' \in BOOLEAN /\ call' = None
    BY <1>5 DEF UnloadAnswered
  <2> QED
    BY <1>5, <2>1, <2>2 DEF UnloadAnswered, TypeOK, manager, locks
<1>6. CASE EmergencyStop
  <2>1. loading' \in Load \union {None}
    BY <1>6, CancelledType DEF EmergencyStop
  <2>2. command' \in 0..3
    BY <1>6 DEF EmergencyStop, TypeOK
  <2>3. landing' \in BOOLEAN /\ latch' \in BOOLEAN
    BY <1>6 DEF EmergencyStop, TypeOK
  <2> QED
    BY <1>6, <2>1, <2>2, <2>3 DEF EmergencyStop, TypeOK, Load, manager
<1> QED
  BY <1>1, <1>2, <1>3, <1>4, <1>5, <1>6 DEF Commands

\* The adapter's timer keeps the types.
LEMMA TickTypes == ASSUME TypeOK, Tick PROVE TypeOK'
<1>1. workflow' \in [task: Tasks, phase: Phases] \union {None}
  <2>1. CASE PublishLease \/ HoldEnds
    BY <2>1 DEF PublishLease, HoldEnds, TypeOK, adapter
  <2>2. CASE LandingEnds
    BY <2>2 DEF LandingEnds, TypeOK, Phases
  <2>3. CASE \E from, to \in Phases : Ticks(from, to)
    BY <2>3 DEF Ticks, TypeOK
  <2> QED
    BY <2>1, <2>2, <2>3 DEF Tick, TakesOff, StartsMission, Completes, Fails, RemainsFailed,
                           Phases, Over
<1>2. /\ UNCHANGED <<owner, loading, prepared, unloading, call, controller, unrecorded, stage,
                     leaseFault, latch, flight>>
      /\ landing' \in BOOLEAN /\ holding' \in BOOLEAN /\ lease' \in BOOLEAN
      /\ fault' \in BOOLEAN
  <2>1. CASE PublishLease
    BY <2>1 DEF PublishLease, TypeOK, adapter, locks
  <2>2. CASE LandingEnds \/ HoldEnds
    BY <2>2 DEF LandingEnds, HoldEnds, TypeOK, manager, locks
  <2>3. CASE TakesOff \/ StartsMission \/ Completes
    BY <2>3 DEF TakesOff, StartsMission, Completes, Ticks, TypeOK, manager
  <2>4. CASE Fails \/ RemainsFailed
    BY <2>4 DEF Fails, RemainsFailed, Ticks, TypeOK, manager
  <2> QED
    BY <2>1, <2>2, <2>3, <2>4 DEF Tick
<1>3. command' \in 0..3
  <2>1. command' \in {0, 1, 2, command}
    BY DEF Tick, PublishLease, LandingEnds, HoldEnds, TakesOff, StartsMission, Completes,
           Fails, RemainsFailed
  <2> QED
    BY <2>1 DEF TypeOK
<1> QED
  BY <1>1, <1>2, <1>3 DEF TypeOK

\* The prepare thread keeps the types.
LEMMA PrepareTypes == ASSUME TypeOK, PrepareThread PROVE TypeOK'
<1>1. loading \in Load
  BY DEF PrepareThread, PrepareStops, PrepareStarts, StopAnswered, StartAnswered, Loaded,
         CancelledWhileWaiting, PrepareEnds, LoadingIn, TypeOK, Load
<1>2. loading' \in Load \union {None}
  BY <1>1 DEF PrepareThread, PrepareStops, PrepareStarts, StartAnswered, Loaded,
              CancelledWhileWaiting, PrepareEnds, Asks, Load
<1>3. call' \in Request \union {None}
  <2>1. CASE PrepareStops \/ CancelledWhileWaiting
    BY <2>1, <1>1 DEF PrepareStops, CancelledWhileWaiting, Asks, TypeOK, Request
  <2>2. CASE PrepareStarts
    BY <2>2, <1>1 DEF PrepareStarts, Load, Request
  <2>3. CASE StartAnswered \/ Loaded \/ PrepareEnds
    BY <2>3 DEF StartAnswered, Loaded, PrepareEnds, TypeOK, Request
  <2> QED
    BY <2>1, <2>2, <2>3 DEF PrepareThread
<1>4. owner' \in Tasks \union {None} /\ prepared' \in Tasks \union {None}
  BY <1>1 DEF PrepareThread, PrepareStops, PrepareStarts, StartAnswered, Loaded,
              CancelledWhileWaiting, PrepareEnds, Load, TypeOK
<1>5. UNCHANGED <<workflow, unloading, landing, holding, manager, locks, command, flight>>
  BY DEF PrepareThread, PrepareStops, PrepareStarts, StartAnswered, Loaded,
         CancelledWhileWaiting, PrepareEnds
<1> QED
  BY <1>2, <1>3, <1>4, <1>5 DEF TypeOK, Load, Request, manager, locks

\* The stage manager keeps the types.
LEMMA ManagerTypes == ASSUME TypeOK, Manager PROVE TypeOK'
<1>1. Serving => call \in Request
  BY DEF Serving, Refuse, StartController, SpawnFails, Spawned, LeaseBegins, LeaseFaultCleared,
         StopController, ControllerStopped, Asked, TypeOK, Request
<1>2. call' \in Request \union {None}
  <2>1. CASE Serving
    <3>1. \E step \in {"spawning", "recorded", "leased", "stopping", "done", "refused"} :
             Answers(step)
      BY <2>1 DEF Serving, Refuse, StartController, SpawnFails, Spawned, LeaseBegins,
                  LeaseFaultCleared, StopController, ControllerStopped
    <3> QED
      BY <1>1, <2>1, <3>1 DEF Answers, Request
  <2>2. CASE Watchdog \/ ChangeStage \/ Reset
    BY <2>2 DEF Watchdog, ChangeStage, Reset, TypeOK, Request
  <2> QED
    BY <2>1, <2>2 DEF Manager, Serving
<1>3. controller' \in [owner: Tasks, alive: BOOLEAN] \union {None}
  <2>1. CASE Spawned
    <3>1. [owner |-> call.owner, alive |-> TRUE] \in [owner: Tasks, alive: BOOLEAN]
      BY <1>1, <2>1 DEF Serving, Request
    <3> QED
      BY <2>1, <3>1 DEF Spawned
  <2>2. CASE ~Spawned
    <3>1. controller' \in {controller, None}
      BY <2>2 DEF Manager, Refuse, StartController, SpawnFails, LeaseBegins, LeaseFaultCleared,
                  StopController, ControllerStopped, Watchdog, ChangeStage, Reset, manager
    <3> QED
      BY <3>1 DEF TypeOK
  <2> QED
    BY <2>1, <2>2
<1>4. stage' \in {"idle", "mapping", "localization"} /\ command' \in 0..3
  <2>1. command' \in {0, command} /\ stage' \in {"idle", "mapping", "localization", stage}
    BY DEF Manager, Refuse, StartController, SpawnFails, Spawned, LeaseBegins,
           LeaseFaultCleared, StopController, ControllerStopped, Watchdog, ChangeStage, Reset,
           manager
  <2> QED
    BY <2>1 DEF TypeOK
<1>5. unrecorded' \in BOOLEAN /\ lease' \in BOOLEAN /\ leaseFault' \in BOOLEAN
  BY DEF Manager, Refuse, StartController, SpawnFails, Spawned, LeaseBegins,
         LeaseFaultCleared, StopController, ControllerStopped, Watchdog, ChangeStage, Reset,
         manager, TypeOK
<1>6. fault' \in BOOLEAN /\ latch' \in BOOLEAN /\ UNCHANGED <<adapter, flight>>
  BY DEF Manager, Refuse, StartController, SpawnFails, Spawned, LeaseBegins,
         LeaseFaultCleared, StopController, ControllerStopped, Watchdog, ChangeStage, Reset,
         locks, TypeOK
<1> QED
  BY <1>2, <1>3, <1>4, <1>5, <1>6 DEF TypeOK, Request, adapter

\* The processes and the aircraft keep the types.
LEMMA ExternalTypes == ASSUME TypeOK, External PROVE TypeOK'
<1>1. CASE ControllerExits
  <2>1. /\ controller' \in [owner: Tasks, alive: BOOLEAN] \union {None}
        /\ unrecorded' \in BOOLEAN
    BY <1>1 DEF ControllerExits, Runs, TypeOK
  <2> QED
    BY <1>1, <2>1 DEF ControllerExits, TypeOK, adapter, locks
<1>2. CASE LeaseExpires
  <2>1. lease' \in BOOLEAN /\ UNCHANGED <<controller, unrecorded, stage, leaseFault>>
    BY <1>2 DEF LeaseExpires
  <2> QED
    BY <1>2, <2>1 DEF LeaseExpires, TypeOK, adapter, locks
<1>3. CASE Flight
  BY <1>3 DEF Flight, TypeOK, adapter, manager, locks
<1> QED
  BY <1>1, <1>2, <1>3 DEF External

\* Every variable of the adapter, the manager and the aircraft keeps its type.
THEOREM TypeCorrect == ASSUME Distinct PROVE Spec => []TypeOK
<1>1. Init => TypeOK
  <2> SUFFICES ASSUME Init PROVE TypeOK
    OBVIOUS
  <2>1. command \in 0..3
    BY DEF Init
  <2>2. {unloading, landing, holding, unrecorded, lease, leaseFault, fault, latch} \subseteq BOOLEAN
    BY DEF Init
  <2> QED
    BY <2>1, <2>2 DEF Init, TypeOK
<1>2. TypeOK /\ [Next]_vars => TypeOK'
  <2>1. TypeOK /\ UNCHANGED vars => TypeOK'
    BY DEF TypeOK, vars, adapter, manager, locks
  <2> QED
    BY <2>1, CommandTypes, TickTypes, PrepareTypes, ManagerTypes, ExternalTypes DEF Next
<1> QED
  BY <1>1, <1>2, PTL DEF Spec

-----------------------------------------------------------------------------
\* A command keeps the owner of a controller, or has had it stopped.
LEMMA CommandStep == ASSUME IInv, TypeOK, Commands, Distinct PROVE IInv'
<1> USE DEF IInv, ControllerIsOwned, Sender, Unloads, Stopping, Starting, Spawning, Gone
<1>1. ASSUME NEW t \in Tasks, Prepare(t) \/ Schedule(t) PROVE IInv'
  BY <1>1 DEF Prepare, Schedule, Listening, manager
<1>2. CASE Stop \/ EmergencyStop
  <2>1. /\ loading' = Cancelled
        /\ UNCHANGED <<owner, unloading, call, controller>>
    BY <1>2 DEF Stop, EmergencyStop, manager
  <2> QED
    BY <2>1, CancelledType DEF Distinct
<1>3. CASE Unload
  <2>1. UNCHANGED controller /\ loading' = Cancelled
    BY <1>3 DEF Unload, manager
  <2>2. CASE UNCHANGED <<owner, prepared, workflow, call, unloading>>
    BY <2>1, <2>2, CancelledType DEF Distinct
  <2>3. CASE UnloadAllowed /\ owner = None /\ Forgets /\ UNCHANGED <<call, unloading>>
    <3>1. controller = None
      BY <2>3 DEF TypeOK, Distinct, FlightConstants
    <3> QED
      BY <2>1, <2>3, <3>1, CancelledType DEF UnloadAllowed, Forgets
  <2>4. CASE /\ UnloadAllowed /\ UNCHANGED owner /\ unloading'
             /\ call' = [action |-> "stop", owner |-> owner, step |-> "asked"]
    <3>1. call'.action = "stop" /\ call'.step = "asked"
      BY <2>4
    <3> QED
      BY <2>1, <2>4, <3>1, CancelledType DEF UnloadAllowed
  <2> QED
    BY <1>3, <2>2, <2>3, <2>4 DEF Unload
<1>4. CASE UnloadAnswered
  BY <1>4 DEF UnloadAnswered, Forgets, manager
<1> QED
  BY <1>1, <1>2, <1>3, <1>4 DEF Commands

\* The prepare thread replaces the owner only after a confirmed stop.
LEMMA PrepareStep == ASSUME IInv, TypeOK, PrepareThread, Distinct PROVE IInv'
<1> USE DEF IInv, ControllerIsOwned, Sender, Unloads, Stopping, Starting, Spawning, Gone
<1>1. loading \in Load /\ loading # None /\ ~unloading
  BY DEF PrepareThread, PrepareStops, PrepareStarts, StopAnswered, StartAnswered, Loaded,
         CancelledWhileWaiting, PrepareEnds, LoadingIn, TypeOK, Load
<1>2. CASE PrepareStops \/ CancelledWhileWaiting
  <2>1. /\ loading'.step \in {"stopping", "cancelling"}
        /\ call'.action = "stop" /\ call'.step = "asked" /\ loading' \in Load
    BY <1>1, <1>2 DEF PrepareStops, CancelledWhileWaiting, Asks, Load
  <2> QED
    BY <1>1, <1>2, <2>1 DEF PrepareStops, CancelledWhileWaiting, manager, Distinct
<1>3. CASE PrepareStarts
  <2>1. controller = None \/ owner = loading.task
    BY <1>1, <1>3 DEF PrepareStarts, LoadingIn, StopAnswered, TypeOK, Distinct, FlightConstants
  <2>2. UNCHANGED <<unloading, controller>> /\ owner' = loading.task
    BY <1>3 DEF PrepareStarts, manager
  <2>3. CASE loading.current
    <3>1. /\ loading'.step = "starting" /\ loading'.task = loading.task
          /\ call'.action = "start" /\ call'.owner = loading.task /\ loading' \in Load
      BY <1>1, <1>3, <2>3 DEF PrepareStarts, Load
    <3> QED
      BY <1>1, <2>1, <2>2, <3>1 DEF Distinct
  <2>4. CASE ~loading.current
    BY <1>1, <1>3, <2>1, <2>2, <2>4 DEF PrepareStarts
  <2> QED
    BY <2>3, <2>4
<1>4. CASE StartAnswered
  BY <1>1, <1>4 DEF StartAnswered, manager
<1>5. CASE Loaded
  <2>1. call = None
    BY <1>1, <1>5 DEF Loaded, LoadingIn
  <2> QED
    BY <1>1, <1>5, <2>1 DEF Loaded, manager
<1>6. CASE PrepareEnds
  <2>1. call' = None
    BY <1>1, <1>6 DEF PrepareEnds
  <2> QED
    BY <1>1, <1>6, <2>1 DEF PrepareEnds, manager
<1> QED
  BY <1>2, <1>3, <1>4, <1>5, <1>6 DEF PrepareThread

\* The manager starts a controller only for the owner who asked.
LEMMA ManagerStep == ASSUME IInv, TypeOK, Manager, Distinct PROVE IInv'
<1> USE DEF IInv, ControllerIsOwned, Sender, Unloads, Stopping, Starting, Spawning, Gone
<1>1. CASE Serving
  <2>1. call # None /\ call \in Request
    BY <1>1 DEF Serving, Refuse, StartController, SpawnFails, Spawned, LeaseBegins,
                LeaseFaultCleared, StopController, ControllerStopped, Asked, TypeOK, Request
  <2>2. UNCHANGED <<owner, loading, unloading>>
    BY <1>1 DEF Serving, Refuse, StartController, SpawnFails, Spawned, LeaseBegins,
                LeaseFaultCleared, StopController, ControllerStopped, adapter
  <2>3. \A step : Answers(step) =>
            call'.action = call.action /\ call'.owner = call.owner /\ call'.step = step
    BY <2>1 DEF Answers, Request
  <2>4. call'.action = call.action /\ call'.owner = call.owner
    BY <1>1, <2>3 DEF Serving, Refuse, StartController, SpawnFails, Spawned, LeaseBegins,
                      LeaseFaultCleared, StopController, ControllerStopped
  <2>5. Sender' /\ Unloads' /\ Stopping' /\ Starting'
    BY <2>1, <2>2, <2>4
  <2>6. Spawning'
    <3>1. CASE StartController \/ Spawned \/ LeaseBegins
      <4>1. call.action = "start"
        BY <2>1, <3>1 DEF StartController, Spawned, LeaseBegins, Asked
      <4> QED
        BY <2>4, <4>1
    <3>2. CASE Refuse \/ SpawnFails \/ LeaseFaultCleared \/ StopController \/ ControllerStopped
      <4>1. call'.step \in {"refused", "done", "stopping"}
        BY <2>3, <3>2 DEF Refuse, SpawnFails, LeaseFaultCleared, StopController,
                          ControllerStopped
      <4> QED
        BY <4>1
    <3> QED
      BY <1>1, <3>1, <3>2 DEF Serving
  <2>7. ControllerIsOwned' /\ Gone'
    <3>1. CASE Refuse \/ SpawnFails
      <4>1. call'.step = "refused" /\ UNCHANGED controller
        BY <2>3, <3>1 DEF Refuse, SpawnFails, manager
      <4> QED
        BY <2>2, <4>1
    <3>2. CASE StartController
      BY <2>2, <2>3, <2>4, <3>2 DEF StartController, Asked, manager
    <3>3. CASE Spawned
      <4>1. call.action = "start"
        BY <3>3 DEF Spawned
      <4>2. owner = call.owner
        BY <2>1, <4>1 DEF TypeOK
      <4>3. controller'.owner = owner'
        BY <2>2, <3>3, <4>2 DEF Spawned
      <4> QED
        BY <2>4, <4>1, <4>3
    <3>4. CASE LeaseBegins \/ LeaseFaultCleared
      BY <2>2, <2>4, <3>4 DEF LeaseBegins, LeaseFaultCleared
    <3>5. CASE StopController
      BY <2>2, <2>3, <3>5 DEF StopController, manager
    <3>6. CASE ControllerStopped
      BY <2>2, <3>6 DEF ControllerStopped
    <3> QED
      BY <1>1, <3>1, <3>2, <3>3, <3>4, <3>5, <3>6 DEF Serving
  <2> QED
    BY <2>5, <2>6, <2>7
<1>2. CASE Watchdog \/ ChangeStage \/ Reset
  BY <1>2 DEF Watchdog, ChangeStage, Reset, adapter
<1> QED
  BY <1>1, <1>2 DEF Manager, Serving

\* A controller that exits and a lease that expires change no owner.
LEMMA ExternalStep == ASSUME IInv, TypeOK, External PROVE IInv'
<1> USE DEF IInv, ControllerIsOwned, Sender, Unloads, Stopping, Starting, Spawning, Gone
<1>1. CASE ControllerExits
  <2>1. controller' # None => controller # None /\ controller'.owner = controller.owner
    BY <1>1 DEF ControllerExits, Runs, TypeOK
  <2> QED
    BY <1>1, <2>1 DEF ControllerExits, adapter
<1>2. CASE LeaseExpires \/ Flight
  BY <1>2 DEF LeaseExpires, Flight, adapter, manager
<1> QED
  BY <1>1, <1>2 DEF External

\* A tick of the adapter and a stutter change none of them.
LEMMA TickStep == ASSUME IInv, Tick \/ UNCHANGED vars PROVE IInv'
BY DEF IInv, ControllerIsOwned, Sender, Unloads, Stopping, Starting, Spawning, Gone, vars,
       Tick, PublishLease, LandingEnds, HoldEnds, TakesOff, StartsMission, Completes, Fails,
       RemainsFailed, Ticks, adapter, manager

\* The request to the manager, its sender and the controller agree at every step.
THEOREM FlightInvariant == ASSUME Distinct PROVE Spec => []IInv
<1>1. Init => IInv
  BY DEF Init, IInv, ControllerIsOwned, Sender, Unloads, Stopping, Starting, Spawning, Gone
<1>2. IInv /\ TypeOK /\ [Next]_vars => IInv'
  BY TickStep, CommandStep, PrepareStep, ManagerStep, ExternalStep DEF Next
<1> QED
  BY <1>1, <1>2, TypeCorrect, PTL DEF Spec

\* The controller that runs belongs to the task whose lease the adapter
\* publishes, whatever preparation was cancelled, replaced or late.
THEOREM ControllerOwned == ASSUME Distinct PROVE Spec => []ControllerIsOwned
<1>1. IInv => ControllerIsOwned
  BY DEF IInv
<1> QED
  BY <1>1, FlightInvariant, PTL
=============================================================================
