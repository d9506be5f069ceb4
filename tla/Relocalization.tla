--------------------------- MODULE Relocalization ---------------------------
(***************************************************************************)
(* The relocalization coordinator (RelocalizationNode, RosBridge and       *)
(* StackManager of EPGeneral_relocalization): the map session with the     *)
(* ground station, the map download, the localization stack, the initial   *)
(* pose and the threads that watch for its result, the trusted regions,    *)
(* and the state file that survives a restart.                             *)
(*                                                                         *)
(* A handler of the UDP thread is one step: the thread is alone, and holds *)
(* no lock against the workers but the one of negotiate.  The workers run  *)
(* between handlers, and each of their answers is two steps: the check of  *)
(* the generation, and the assignments that follow it.                     *)
(* operation_generation and _monitor_generation are only compared for      *)
(* equality with the current one, so a thread keeps whether its own still  *)
(* is the current one.  A command the navigation lock refuses, or one of   *)
(* an earlier request ID, changes nothing and is left out.                 *)
(*                                                                         *)
(* An exception that nobody catches ends its thread, or the handler before *)
(* the thread of its operation is begun: the record of that thread is then *)
(* Dead, and the state stays as it was.  The disk may fail at each write   *)
(* of the state file.  A process that gets SIGKILL is taken to be gone     *)
(* within the three seconds StackManager.stop waits.                       *)
(***************************************************************************)
EXTENDS Naturals, FiniteSets

CONSTANTS
    Maps,           \* map IDs
    MapSessions,    \* session IDs of the ground station
    Backends,       \* the device profiles explored
    Fetchers,       \* bound: map downloads at a time
    Starters,       \* bound: stack starts at a time
    Monitors,       \* bound: pose monitors at a time
    None

RelocalizationConstants ==
    /\ Backends \subseteq {"scout_mini", "ground_air_agv", "go2_edu", "wheeltec_r550p", "ducted_uav"}
    /\ None \notin Maps

VARIABLES
    backend,        \* of the device
    power,          \* the process: "on", "stopping" or "off"
    identity,       \* the session negotiated, or None
    state,          \* self.state
    mapDir,         \* whose directory self.map_dir is, or None
    active,         \* active_map_state_file: [map, status], or None
    installed,      \* the maps whose directory is complete
    stack,          \* the stages started: "none", "running", or one has exited
    fetcher,        \* the download threads
    starter,        \* the stack threads
    monitor,        \* the monitor threads
    healthy,        \* a fresh "true" on the localization health topic
    unsaved,        \* the map of a result not in the file: _latest_tf, _tf_dirty
    region,         \* region_operation and its thread
    fixed           \* history: the maps localized since the process started

session == <<identity, state, mapDir, active>>
threads == <<fetcher, starter, monitor>>
fix == <<healthy, unsaved, fixed>>
vars == <<backend, power, session, installed, stack, threads, fix, region>>

Identities == [map: Maps, session: MapSessions]
Idle == [step |-> "idle"]
Dead == [step |-> "dead"]
NoWork == {Idle, Dead}

Continuous == backend \in {"ground_air_agv", "go2_edu", "wheeltec_r550p", "ducted_uav"}
HealthRequired == backend \in {"go2_edu", "wheeltec_r550p", "ducted_uav"}
FreshRequired == backend = "wheeltec_r550p"

States == {"standby", "map_required", "downloading", "verifying", "map_ready",
           "starting", "awaiting_pose", "relocalizing", "localized", "error"}

StarterWork == [step: {"begin", "launching", "waiting", "failing", "succeeding"},
                map: Maps, current: BOOLEAN]
MonitorWork == [step: {"watching", "calling", "accepted"}, map: Maps, found: BOOLEAN,
                cached: BOOLEAN, watched: BOOLEAN, current: BOOLEAN]

TypeOK ==
    /\ backend \in Backends /\ power \in {"on", "stopping", "off"}
    /\ identity \in Identities \union {None}
    /\ state \in States
    /\ mapDir \in Maps \union {None}
    /\ active \in [map: Maps, status: States] \union {None}
    /\ installed \subseteq Maps
    /\ stack \in {"none", "running", "exited"}
    /\ fetcher \in [Fetchers -> [step: {"fetching", "verifying", "displaced"}, map: Maps]
                               \union NoWork]
    /\ starter \in [Starters -> StarterWork \union {Idle}]
    /\ monitor \in [Monitors -> MonitorWork \union NoWork]
    /\ healthy \in BOOLEAN
    /\ unsaved \in Maps \union {None}
    /\ region \in [step: {"fetching", "saved"}, of: Identities, current: BOOLEAN] \union {None}
    /\ fixed \subseteq Maps

\* What lives in the process only.
Volatile ==
    /\ identity' = None /\ state' = "standby" /\ mapDir' = None
    /\ stack' = "none"
    /\ fetcher' = [f \in Fetchers |-> Idle]
    /\ starter' = [s \in Starters |-> Idle]
    /\ monitor' = [m \in Monitors |-> Idle]
    /\ healthy' = FALSE /\ unsaved' = None
    /\ region' = None /\ fixed' = {}

Init ==
    /\ backend \in Backends
    /\ power = "off"
    /\ identity = None /\ state = "standby" /\ mapDir = None
    /\ active \in [map: Maps, status: {"standby", "localized"}] \union {None}
    /\ installed \in SUBSET Maps
    /\ stack = "none"
    /\ fetcher = [f \in Fetchers |-> Idle]
    /\ starter = [s \in Starters |-> Idle]
    /\ monitor = [m \in Monitors |-> Idle]
    /\ healthy = FALSE /\ unsaved = None
    /\ region = None /\ fixed = {}

\* _write_active_state: the file is replaced, or the disk fails.
Record(map, status) == active' = [map |-> map, status |-> status]
Enters(s, map) == state' = s /\ Record(map, s)
EntersUnrecorded(s) == state' = s /\ UNCHANGED active
\* An error is the state even when it cannot be written.
Fails(map) == Enters("error", map) \/ EntersUnrecorded("error")

StackStops == stack' = "none"
Running == stack = "running"

-----------------------------------------------------------------------------
(* The generations.                                                        *)
Outdated(work) == [t \in DOMAIN work |->
    IF work[t] \in NoWork THEN work[t] ELSE [work[t] EXCEPT !.current = FALSE]]
Unwatched == [m \in Monitors |->
    IF monitor[m] \in NoWork THEN monitor[m] ELSE [monitor[m] EXCEPT !.watched = FALSE]]

OutdateRegions == region' = IF region = None THEN None
                            ELSE [region EXCEPT !.current = FALSE]

NextOperation ==
    /\ starter' = Outdated(starter)
    /\ monitor' = Outdated(Unwatched)
    /\ OutdateRegions

-----------------------------------------------------------------------------
(* Commands of the ground station.                                         *)
\* What negotiate answers for a complete map: a persisted result, where the
\* backend accepts one, or only the map.
Persisted(map) ==
    /\ backend # "ducted_uav"
    /\ active # None /\ active.map = map /\ active.status = "localized"
    /\ FreshRequired => healthy /\ Running

NegotiatedAs(map) ==
    IF map \notin installed THEN "map_required"
    ELSE IF Persisted(map) THEN "localized" ELSE "map_ready"

Negotiate(map, s) ==
    /\ power = "on"
    /\ identity' = [map |-> map, session |-> s] /\ mapDir' = map
    /\ IF identity \notin {None, identity'}
       THEN /\ NextOperation
            /\ IF identity.map # map THEN StackStops ELSE UNCHANGED stack
       ELSE UNCHANGED <<starter, monitor, region, stack>>
    /\ state' = NegotiatedAs(map)
    /\ IF NegotiatedAs(map) = "localized" THEN UNCHANGED active
       ELSE Record(map, NegotiatedAs(map))
    /\ UNCHANGED <<backend, power, installed, fetcher, fix>>

Free(work) == {t \in DOMAIN work : work[t] \in NoWork}

\* The state is assigned before the file is written: a disk that fails leaves
\* it without a thread.
OfferMap ==
    /\ power = "on" /\ identity # None /\ state \in {"map_required", "error"}
    /\ \E f \in Free(fetcher) :
           \/ /\ Enters("downloading", identity.map)
              /\ fetcher' = [fetcher EXCEPT ![f] = [step |-> "fetching", map |-> identity.map]]
           \/ /\ EntersUnrecorded("downloading")
              /\ fetcher' = [fetcher EXCEPT ![f] = Dead]
    /\ UNCHANGED <<backend, power, identity, mapDir, installed, stack, starter, monitor, fix, region>>

Restarts(replace) == backend = "go2_edu" /\ (replace \/ state = "localized")

ReuseStack(replace) ==
    /\ power = "on" /\ identity # None /\ state \in {"awaiting_pose", "localized"}
    /\ Running /\ ~Restarts(replace)
    /\ Enters("awaiting_pose", identity.map)
    /\ monitor' = IF state = "localized" THEN Unwatched ELSE monitor
    /\ UNCHANGED <<backend, power, identity, mapDir, installed, stack, fetcher, starter, fix, region>>

StartAllowed(replace) ==
    /\ power = "on" /\ identity # None /\ mapDir # None
    /\ state \in {"map_ready", "localized", "error"}
    /\ ~(state = "localized" /\ Running /\ ~Restarts(replace))

\* The directory is validated, but not against the map ID of the command.
StartRefused ==
    /\ StartAllowed(FALSE) /\ mapDir \notin installed
    /\ Enters("map_required", identity.map)
    /\ UNCHANGED <<backend, power, identity, mapDir, installed, stack, threads, fix, region>>

StartStack(replace) ==
    /\ StartAllowed(replace) /\ mapDir \in installed
    /\ Enters("starting", identity.map)
    /\ OutdateRegions
    /\ monitor' = Outdated(IF replace \/ state = "localized" THEN Unwatched ELSE monitor)
    /\ \E s \in Free(starter) :
           starter' = [Outdated(starter) EXCEPT ![s] =
               [step |-> "begin", map |-> identity.map, current |-> TRUE]]
    /\ UNCHANGED <<backend, power, identity, mapDir, installed, stack, fetcher, fix>>

PoseStates == {"awaiting_pose", "error"}
              \union (IF backend = "go2_edu" THEN {} ELSE {"localized"})

\* publish_and_monitor: the earlier monitors are over, and so is the last
\* report of the algorithm's health.
InitialPose ==
    /\ power = "on" /\ identity # None /\ state \in PoseStates
    /\ \E m \in Free(monitor) :
           \/ /\ Enters("relocalizing", identity.map)
              /\ monitor' = [Unwatched EXCEPT ![m] =
                     [step |-> "watching", map |-> identity.map, found |-> FALSE,
                      cached |-> FALSE, watched |-> TRUE, current |-> TRUE]]
              /\ healthy' = FALSE
           \/ /\ EntersUnrecorded("relocalizing")
              /\ monitor' = [monitor EXCEPT ![m] = Dead]
              /\ UNCHANGED healthy
           \/ /\ Enters("relocalizing", identity.map)   \* a covariance that is no number
              /\ monitor' = [Unwatched EXCEPT ![m] = Dead]
              /\ healthy' = FALSE
    /\ UNCHANGED <<backend, power, identity, mapDir, installed, stack, fetcher, starter,
                   unsaved, fixed, region>>

-----------------------------------------------------------------------------
(* _download_worker and install_archive.                                   *)
FetcherTo(f, step) == fetcher' = [fetcher EXCEPT ![f].step = step]
Ends(work, t) == [work EXCEPT ![t] = Idle]

Fetched(f) ==
    /\ fetcher[f].step = "fetching"
    /\ Enters("verifying", fetcher[f].map)
    /\ FetcherTo(f, "verifying")
    /\ UNCHANGED <<backend, power, identity, mapDir, installed, stack, starter, monitor, fix, region>>

\* The exceptions the thread handles, anywhere on its way.  install_archive puts
\* the directory it moved aside back if it can, and what follows the
\* installation may fail too.
FetchFails(f) ==
    /\ fetcher[f].step \in {"fetching", "verifying", "displaced"}
    /\ Fails(fetcher[f].map)
    /\ fetcher' = Ends(fetcher, f)
    /\ \/ UNCHANGED <<installed, mapDir>>
       \/ /\ fetcher[f].step = "displaced"
          /\ installed' = installed \union {fetcher[f].map}
          /\ mapDir' \in {mapDir, fetcher[f].map}
    /\ UNCHANGED <<backend, power, identity, stack, starter, monitor, fix, region>>

\* Any other exception: a broken ZIP or HTTP response, a manifest of the wrong
\* shape, a directory of the maps that cannot be made.
FetchDies(f) ==
    /\ fetcher[f].step \in {"fetching", "verifying"}
    /\ fetcher' = [fetcher EXCEPT ![f] = Dead]
    /\ UNCHANGED <<backend, power, session, installed, stack, starter, monitor, fix, region>>

\* A complete directory first moves aside; it is not put back after a crash.
Displace(f) ==
    /\ fetcher[f].step = "verifying"
    /\ installed' = installed \ {fetcher[f].map}
    /\ FetcherTo(f, "displaced")
    /\ UNCHANGED <<backend, power, session, stack, starter, monitor, fix, region>>

Install(f) ==
    /\ fetcher[f].step = "displaced"
    /\ installed' = installed \union {fetcher[f].map}
    /\ mapDir' = fetcher[f].map
    /\ Enters("map_ready", fetcher[f].map)
    /\ fetcher' = Ends(fetcher, f)
    /\ UNCHANGED <<backend, power, identity, stack, starter, monitor, fix, region>>

-----------------------------------------------------------------------------
(* _start_worker and StackManager.                                         *)
StarterTo(s, step) == starter' = [starter EXCEPT ![s].step = step]

\* The thread reads map_dir; the stages of the last start stop.
StackBegins(s) ==
    /\ starter[s].step = "begin"
    /\ StarterTo(s, "launching")
    /\ StackStops
    /\ UNCHANGED <<backend, power, session, installed, fetcher, monitor, fix, region>>

Launch(s) ==
    /\ starter[s].step = "launching"
    /\ stack' = IF stack = "none" THEN "running" ELSE stack
    /\ \/ UNCHANGED starter                \* another stage follows
       \/ StarterTo(s, "waiting")
    /\ UNCHANGED <<backend, power, session, installed, fetcher, monitor, fix, region>>

\* Mutant: a start that fails is only logged.
StackFailsSilently(s) ==
    /\ starter[s].step \in {"launching", "waiting"}
    /\ StackStops
    /\ starter' = Ends(starter, s)
    /\ UNCHANGED <<backend, power, session, installed, fetcher, monitor, fix, region>>

\* A stage exits, a topic does not appear in time or the algorithm is owned.
StackFails(s) ==
    /\ starter[s].step \in {"launching", "waiting"}
    /\ StackStops
    /\ starter' = IF starter[s].current THEN [starter EXCEPT ![s].step = "failing"]
                                        ELSE Ends(starter, s)
    /\ UNCHANGED <<backend, power, session, installed, fetcher, monitor, fix, region>>

\* _wait_topics has returned: an outdated start leaves its stages running.  It
\* calls rostopic without a timeout, and may as well wait for ever.
StackReady(s) ==
    /\ starter[s].step = "waiting" /\ stack # "exited"
    /\ starter' = IF starter[s].current THEN [starter EXCEPT ![s].step = "succeeding"]
                                        ELSE Ends(starter, s)
    /\ UNCHANGED <<backend, power, session, installed, stack, fetcher, monitor, fix, region>>

StartAnswers(s) ==
    /\ \/ starter[s].step = "succeeding" /\ Enters("awaiting_pose", starter[s].map)
       \/ starter[s].step \in {"succeeding", "failing"} /\ Fails(starter[s].map)
    /\ starter' = Ends(starter, s)
    /\ UNCHANGED <<backend, power, identity, mapDir, installed, stack, fetcher, monitor, fix, region>>

-----------------------------------------------------------------------------
(* The monitor threads and _tf_result.                                     *)
\* A stable transform (or a first one), while the algorithm is healthy.
Found == healthy \/ ~HealthRequired
\* Time is over before the first transform; after it only the health, a stale
\* chain or, on the UAV, a stale transform ends the reports, so that one without
\* a health topic (cached) repeats its last transform for ever.
Lost(work) == ~work.cached

MonitorSees(m, found) ==
    /\ monitor[m].step = "watching" /\ monitor[m].watched
    /\ IF found THEN Found ELSE Lost(monitor[m])
    /\ monitor' = [monitor EXCEPT ![m].step = "calling", ![m].found = found]
    /\ UNCHANGED <<backend, power, session, installed, stack, fetcher, starter, fix, region>>

\* Where a monitor goes after its callback: the continuous one watches on.
AfterCallback(m) ==
    IF Continuous /\ monitor[m].found
    THEN [monitor EXCEPT ![m].step = "watching", ![m].cached = ~HealthRequired, ![m].found = FALSE]
    ELSE Ends(monitor, m)

\* The generation of the operation is checked; that of the monitor has been.
ResultAccepted(m) ==
    /\ monitor[m].step = "calling"
    /\ monitor' = IF monitor[m].current THEN [monitor EXCEPT ![m].step = "accepted"]
                                        ELSE AfterCallback(m)
    /\ UNCHANGED <<backend, power, session, installed, stack, fetcher, starter, fix, region>>

MonitorCancelled(m) ==
    /\ monitor[m].step = "watching" /\ ~monitor[m].watched
    /\ monitor' = Ends(monitor, m)
    /\ UNCHANGED <<backend, power, session, installed, stack, fetcher, starter, fix, region>>

\* The first result is written at once, a later one of a continuous monitor
\* when the interval has passed.
WritesResult(written) == written \/ (Continuous /\ state = "localized")

Localized(m, written) ==
    /\ monitor[m].step = "accepted" /\ monitor[m].found /\ WritesResult(written)
    /\ state' = "localized"
    /\ IF written THEN unsaved' = None /\ Record(monitor[m].map, "localized")
                  ELSE unsaved' = monitor[m].map /\ UNCHANGED active
    /\ fixed' = fixed \union {monitor[m].map}
    /\ monitor' = AfterCallback(m)
    /\ UNCHANGED <<backend, power, identity, mapDir, installed, stack, fetcher, starter, healthy, region>>

\* No result, or one that could not be written.
NotLocalized(m) ==
    /\ monitor[m].step = "accepted"
    /\ Fails(monitor[m].map)
    /\ IF monitor[m].found
       THEN unsaved' = monitor[m].map /\ fixed' = fixed \union {monitor[m].map}
       ELSE UNCHANGED <<unsaved, fixed>>
    /\ monitor' = AfterCallback(m)
    /\ UNCHANGED <<backend, power, identity, mapDir, installed, stack, fetcher, starter, healthy, region>>

-----------------------------------------------------------------------------
(* Trusted regions (TrustedRegionsReceiver).                               *)
OfferRegions ==
    /\ power = "on" /\ identity # None /\ state = "localized" /\ region = None
    /\ region' = [step |-> "fetching", of |-> identity, current |-> TRUE]
    /\ UNCHANGED <<backend, power, session, installed, stack, threads, fix>>

\* Mutant: the operation's number is not compared.
RegionsCurrentUnnumbered == state = "localized" /\ identity = region.of

\* Under the lock, after the download.
RegionsCurrent ==
    /\ region.current
    /\ state = "localized" /\ identity = region.of

\* stop() has made the operation no longer the current one: its thread ends
\* like one whose download or whose application by the localizer failed.
SaveRegions ==
    /\ region # None /\ region.step = "fetching" /\ RegionsCurrent
    /\ region' = [region EXCEPT !.step = "saved"]
    /\ UNCHANGED <<backend, power, session, installed, stack, threads, fix>>

RegionsEnd ==
    /\ region # None /\ region' = None
    /\ UNCHANGED <<backend, power, session, installed, stack, threads, fix>>

-----------------------------------------------------------------------------
(* The process and the stack it starts.                                    *)
\* A result that is not in the file yet is written at the shutdown, on the UAV
\* only while it still holds.
PersistsAtStop ==
    /\ unsaved # None
    /\ backend = "ducted_uav" => state = "localized"

Stop ==
    /\ power = "on" /\ power' = "stopping"
    /\ monitor' = Unwatched
    /\ OutdateRegions
    /\ IF PersistsAtStop THEN Record(unsaved, "localized") /\ unsaved' = None
       ELSE UNCHANGED <<active, unsaved>>
    /\ StackStops
    /\ UNCHANGED <<backend, identity, state, mapDir, installed, fetcher, starter,
                   healthy, fixed>>

\* The end of the shutdown, or a crash.
Exit ==
    /\ power # "off" /\ power' = "off"
    /\ Volatile
    /\ UNCHANGED <<backend, active, installed>>

\* Mutant: what is on disk is believed.
InvalidatedNever == active

\* A persisted transform is no proof that localization survived.
Invalidated == IF active # None /\ active.status = "localized"
               THEN [active EXCEPT !.status = "standby"] ELSE active

Boot ==
    /\ power = "off" /\ power' = "on"
    /\ active' = Invalidated
    /\ UNCHANGED <<backend, identity, state, mapDir, installed, stack, threads, fix, region>>

StackDies ==
    /\ power = "on" /\ Running /\ stack' = "exited"
    /\ UNCHANGED <<backend, power, session, installed, threads, fix, region>>

HealthChanges ==
    /\ power = "on" /\ HealthRequired /\ healthy' = ~healthy
    /\ UNCHANGED <<backend, power, session, installed, stack, threads, unsaved, fixed, region>>

-----------------------------------------------------------------------------
Command ==
    \/ \E map \in Maps, s \in MapSessions : Negotiate(map, s)
    \/ OfferMap \/ StartRefused \/ InitialPose \/ OfferRegions
    \/ \E replace \in BOOLEAN : ReuseStack(replace) \/ StartStack(replace)

FetcherStep(f) == power # "off" /\ (Fetched(f) \/ FetchFails(f) \/ FetchDies(f)
                                    \/ Displace(f) \/ Install(f))
StarterStep(s) == power # "off" /\ (StackBegins(s) \/ Launch(s) \/ StackFails(s)
                                    \/ StackReady(s) \/ StartAnswers(s))
MonitorStep(m) ==
    /\ power # "off"
    /\ \/ \E found \in BOOLEAN : MonitorSees(m, found)
       \/ ResultAccepted(m) \/ MonitorCancelled(m) \/ NotLocalized(m)
       \/ \E written \in BOOLEAN : Localized(m, written)

Next ==
    \/ Command
    \/ \E f \in Fetchers : FetcherStep(f)
    \/ \E s \in Starters : StarterStep(s)
    \/ \E m \in Monitors : MonitorStep(m)
    \/ power # "off" /\ (SaveRegions \/ RegionsEnd)
    \/ Stop \/ Exit \/ Boot \/ StackDies \/ HealthChanges

Spec == Init /\ [][Next]_vars

\* The threads run, and every wait of theirs has a timeout but one: nothing is
\* assumed of a start that waits for its topics.
RunningStart(s) == starter[s].step # "waiting" /\ StarterStep(s)

Fairness ==
    /\ \A f \in Fetchers : WF_vars(FetcherStep(f))
    /\ \A s \in Starters : WF_vars(RunningStart(s))
    /\ \A m \in Monitors : WF_vars(MonitorStep(m))

FairSpec == Spec /\ Fairness

-----------------------------------------------------------------------------
\* A transform of an earlier life of the process is never taken for a
\* localization: while it runs, the state file (which the task adapter and the
\* next negotiation read) says "localized" only for a map that was localized
\* since it started, whatever was on disk, crashed or was written at a shutdown.
LocalizedSinceBoot ==
    power # "off" /\ active # None /\ active.status = "localized" => active.map \in fixed

SavesRegions == region # None /\ region.step = "fetching"
                /\ region' # None /\ region'.step = "saved"

\* A region file is written only for the map of the session negotiated at that
\* moment, and not any more once the shutdown has begun.
RegionsOfSession ==
    [][SavesRegions => power = "on" /\ identity = region.of]_vars

\* An operation whose thread is alive and not in rostopic ends: the state that
\* says a download, a verification, a start or a relocalization is under way is
\* left.  What may leave it for ever is an exception outside the ones its code
\* catches, or a start that from some time on waits for its topics.
UnderWay(s) == state = s /\ power = "on"

DownloadsEnd ==
    \A s \in {"downloading", "verifying"} :
        UnderWay(s) ~> ~UnderWay(s) \/ \E f \in Fetchers : fetcher[f] = Dead
StartsEnd ==
    UnderWay("starting") ~>
        ~UnderWay("starting") \/ []\E s \in Starters : starter[s].step = "waiting"
PosesEnd ==
    UnderWay("relocalizing") ~>
        ~UnderWay("relocalizing") \/ \E m \in Monitors : monitor[m] = Dead

OperationsEnd == DownloadsEnd /\ StartsEnd /\ PosesEnd

\* What README.md says of the map directory: the start that counts launches the
\* stages of a map on the directory of that map.
BeginsToLaunch(s) == starter[s].step = "begin" /\ starter'[s].step = "launching"

StackUsesItsMap ==
    [][\A s \in Starters :
           BeginsToLaunch(s) /\ starter[s].current => mapDir = starter[s].map]_vars

\* What README.md says of the monitors: the result of a thread whose monitor
\* generation is over is discarded.
LateResultDiscarded ==
    [][\A m \in Monitors :
           monitor[m].step = "accepted" /\ monitor'[m].step # "accepted" /\ power = "on" =>
               monitor[m].watched \/ UNCHANGED state]_vars
=============================================================================
