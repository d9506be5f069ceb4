--------------------------- MODULE MCServicesEnd ---------------------------
(***************************************************************************)
(* The liveness of the services beside the task coordinator, in one run:   *)
(* the navigation adapter, the mapping session, relocalization and the     *)
(* authority over a Wheeltec vehicle.  As in MCEdgeServices, each          *)
(* behaviour is one of one service, and the others sleep.  Every set has   *)
(* one member: what must end is what was begun, and no symmetry would be   *)
(* sound.  Relocalization is explored with two kinds of threads at a time: *)
(* Loader downloads and starts stacks, Locator starts them and locates.    *)
(***************************************************************************)
EXTENDS Naturals, TLC

CONSTANTS
    Only,           \* the execution, task, session, map or thread
    None

Scout == [safety |-> FALSE, managed |-> TRUE, direct |-> FALSE, stop |-> FALSE]

VARIABLES
    awake,          \* the service that works

    navProfile, navExecution, navPrepared, navClient, navNavigation,
    navFlags, navMonitor, navLatched, navEnabled, navGoal, navWorker,
    navPreparer, navCommand, navWatchdog, navCall, navTerminal, navWanted,

    mappingBackend, mappingSession, mappingState, mappingSubscribed,
    mappingPcd, mappingStack, mappingStray, mappingControl, mappingWatch,
    mappingGenerator, mappingCloser, mappingInterrupted,

    relocBackend, relocPower, relocIdentity, relocState, relocMapDir,
    relocActive, relocInstalled, relocStack, relocFetcher, relocStarter,
    relocMonitor, relocHealthy, relocUnsaved, relocRegion, relocFixed,

    wheeltecGated, wheeltecAuto, wheeltecDesired, wheeltecHeard,
    wheeltecFresh, wheeltecLocalized, wheeltecTransition, wheeltecPublishing,
    wheeltecPublished, wheeltecDriver, wheeltecArmed, wheeltecUnstopped

Navigation == INSTANCE NavigationAdapter
    WITH Executions <- Only, Tasks <- Only, Waypoints <- 1,
         Profiles <- {Scout}, profile <- navProfile,
         execution <- navExecution, prepared <- navPrepared,
         client <- navClient, navigation <- navNavigation, flags <- navFlags,
         monitor <- navMonitor, latched <- navLatched, enabled <- navEnabled,
         goal <- navGoal, worker <- navWorker, preparer <- navPreparer,
         command <- navCommand, watchdog <- navWatchdog, call <- navCall,
         terminal <- navTerminal, wanted <- navWanted

Mapping == INSTANCE MappingSession
    WITH Objects <- Only, Backends <- {"accumulator", "service", "finalize"},
         backend <- mappingBackend, session <- mappingSession,
         state <- mappingState, subscribed <- mappingSubscribed,
         pcd <- mappingPcd, stack <- mappingStack, stray <- mappingStray,
         control <- mappingControl, watch <- mappingWatch, generator <- mappingGenerator,
         closer <- mappingCloser, interrupted <- mappingInterrupted

Loader == INSTANCE Relocalization
    WITH Maps <- Only, MapSessions <- Only, Backends <- {"go2_edu"},
         Fetchers <- Only, Starters <- Only, Monitors <- {},
         backend <- relocBackend, power <- relocPower,
         identity <- relocIdentity, state <- relocState,
         mapDir <- relocMapDir, active <- relocActive,
         installed <- relocInstalled, stack <- relocStack,
         fetcher <- relocFetcher, starter <- relocStarter,
         monitor <- relocMonitor, healthy <- relocHealthy,
         unsaved <- relocUnsaved, region <- relocRegion, fixed <- relocFixed

Locator == INSTANCE Relocalization
    WITH Maps <- Only, MapSessions <- Only, Backends <- {"go2_edu"},
         Fetchers <- {}, Starters <- Only, Monitors <- Only,
         backend <- relocBackend, power <- relocPower,
         identity <- relocIdentity, state <- relocState,
         mapDir <- relocMapDir, active <- relocActive,
         installed <- relocInstalled, stack <- relocStack,
         fetcher <- relocFetcher, starter <- relocStarter,
         monitor <- relocMonitor, healthy <- relocHealthy,
         unsaved <- relocUnsaved, region <- relocRegion, fixed <- relocFixed

Authority == INSTANCE WheeltecAuthority
    WITH gated <- wheeltecGated, auto <- wheeltecAuto,
         desired <- wheeltecDesired, heard <- wheeltecHeard,
         fresh <- wheeltecFresh, localized <- wheeltecLocalized,
         transition <- wheeltecTransition, publishing <- wheeltecPublishing,
         published <- wheeltecPublished, driver <- wheeltecDriver,
         armed <- wheeltecArmed, unstopped <- wheeltecUnstopped

-----------------------------------------------------------------------------
NavigationVars ==
    <<navProfile, navExecution, navPrepared, navClient, navNavigation,
      navFlags, navMonitor, navLatched, navEnabled, navGoal, navWorker,
      navPreparer, navCommand, navWatchdog, navCall, navTerminal, navWanted>>
MappingVars ==
    <<mappingBackend, mappingSession, mappingState, mappingSubscribed,
      mappingPcd, mappingStack, mappingStray, mappingControl, mappingWatch,
      mappingGenerator, mappingCloser, mappingInterrupted>>
LoaderVars ==
    <<relocBackend, relocPower, relocIdentity, relocState, relocMapDir,
      relocActive, relocInstalled, relocStack, relocFetcher, relocStarter,
      relocMonitor, relocHealthy, relocUnsaved, relocRegion, relocFixed>>
AuthorityVars ==
    <<wheeltecGated, wheeltecAuto, wheeltecDesired, wheeltecHeard,
      wheeltecFresh, wheeltecLocalized, wheeltecTransition,
      wheeltecPublishing, wheeltecPublished, wheeltecDriver, wheeltecArmed,
      wheeltecUnstopped>>

\* A service that sleeps is in one definite initial state.  The authority is as the
\* R550P profile configures it: no gate, and a driver that acquires it itself.
NavigationSleeps == Navigation!Init /\ ~navLatched
MappingSleeps == Mapping!Init /\ mappingBackend = "accumulator"
LoaderSleeps == Loader!Init /\ relocActive = None /\ relocInstalled = {}

Init ==
    /\ awake \in {"navigation", "mapping", "loader", "locator", "authority"}
    /\ IF awake = "navigation" THEN Navigation!Init ELSE NavigationSleeps
    /\ IF awake = "mapping" THEN Mapping!Init ELSE MappingSleeps
    /\ CASE awake = "loader" -> Loader!Init [] awake = "locator" -> Locator!Init
         [] OTHER -> LoaderSleeps
    /\ Authority!Init /\ ~wheeltecGated /\ wheeltecAuto

\* The services that sleep do not change.
OthersRest ==
    /\ UNCHANGED awake
    /\ awake = "navigation" \/ UNCHANGED NavigationVars
    /\ awake = "mapping" \/ UNCHANGED MappingVars
    /\ awake \in {"loader", "locator"} \/ UNCHANGED LoaderVars
    /\ awake = "authority" \/ UNCHANGED AuthorityVars

Next ==
    /\ \/ awake = "navigation" /\ Navigation!Next
       \/ awake = "mapping" /\ Mapping!Next
       \/ awake = "loader" /\ Loader!Next
       \/ awake = "locator" /\ Locator!Next
       \/ awake = "authority" /\ Authority!Next
    /\ OthersRest

vars == <<awake, NavigationVars, MappingVars, LoaderVars, AuthorityVars>>

\* One service is awake in a behaviour: fairness of the disjunction below is
\* then fairness of that service's action.  Together the four and Terminal are
\* the Fairness of each module.
First ==
    /\ \/ awake = "navigation" /\ Navigation!WorkerThread
       \/ awake = "mapping" /\ Mapping!ControlContinues
       \/ awake = "loader" /\ \E t \in Only : Loader!FetcherStep(t)
       \/ awake = "locator" /\ \E t \in Only : Locator!MonitorStep(t)
       \/ awake = "authority" /\ Authority!TimerFires
    /\ OthersRest
Second ==
    /\ \/ awake = "navigation" /\ Navigation!CommandThread
       \/ awake = "mapping" /\ Mapping!WatchdogContinues
       \/ awake = "loader" /\ \E t \in Only : Loader!RunningStart(t)
       \/ awake = "locator" /\ \E t \in Only : Locator!RunningStart(t)
       \/ awake = "authority" /\ Authority!Announce("timer")
    /\ OthersRest
Third ==
    /\ \/ awake = "mapping" /\ Mapping!Closing
       \/ awake = "authority" /\ Authority!Announce("driver")
    /\ OthersRest
Fourth ==
    /\ \/ awake = "mapping" /\ \E o \in Only : Mapping!Generation(o)
       \/ awake = "authority" /\ Authority!Announce("service")
    /\ OthersRest
Terminal(t) == awake = "navigation" /\ Navigation!Terminal(t) /\ OthersRest

FairSpec ==
    /\ Init /\ [][Next]_vars
    /\ WF_vars(First) /\ WF_vars(Second) /\ WF_vars(Third) /\ WF_vars(Fourth)
    /\ \A t \in Navigation!Callers : SF_vars(Terminal(t))

ASSUME SmallInstances ==
    /\ Navigation!AdapterConstants /\ Mapping!MappingConstants
    /\ Loader!RelocalizationConstants

-----------------------------------------------------------------------------
\* Every execution the navigation adapter takes ends.
ExecutionEnds == Navigation!ExecutionEnds

\* No mapping session stays in a state that says something is under way.
TransientStatesEnd == Mapping!TransientStatesEnd

\* A download, start or relocalization whose thread lives and does not wait for
\* rostopic ends.
OperationsEnd == Loader!DownloadsEnd /\ Loader!StartsEnd /\ Locator!PosesEnd

\* An authority given back for good is shown as given back for good.
ReleaseShown == Authority!ReleaseShown
=============================================================================
