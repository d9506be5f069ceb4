---------------------------- MODULE EdgeServices ----------------------------
(***************************************************************************)
(* The services beside the task coordinator: the mapping session and its   *)
(* preview, relocalization, the stages of the ground-air vehicle, the      *)
(* flight of the UAV and the authority over a Wheeltec vehicle.  In these  *)
(* modules the services share no state, so their state spaces are added up *)
(* instead of multiplied: in each behaviour one service works, and the     *)
(* others sleep in an initial state.                                       *)
(*                                                                         *)
(* The services whose theorems have a module of their own are instances of *)
(* that module, which is the service's and what is proved about it, so     *)
(* that the theorems can be cited for the services here.                   *)
(***************************************************************************)
CONSTANTS
    Pair,               \* the sessions, maps, owners or tasks of each service
    One,                \* the ground station's sessions, stack starts and pose monitors
    Fetchers,           \* the map downloads
    MappingBackends, RelocBackends,
    MaxUnacked, LastFrame, MaxDownloads,    \* see MapPreview
    Operator,           \* whoever changes stages without a task
    None

VARIABLES
    awake,          \* the service that works

    mappingBackend, mappingSession, mappingState, mappingSubscribed,
    mappingPcd, mappingStack, mappingStray, mappingControl, mappingWatch,
    mappingGenerator, mappingCloser, mappingInterrupted,

    previewLive, previewPhase, previewListening, previewScans,
    previewQueue, previewWorker, previewFrame, previewCache, previewEnder,
    previewDirectory, previewFiles, previewServed, previewReaders,

    relocBackend, relocPower, relocIdentity, relocState, relocMapDir,
    relocActive, relocInstalled, relocStack, relocFetcher, relocStarter,
    relocMonitor, relocHealthy, relocUnsaved, relocRegion, relocFixed,

    stagesStage, stagesStageMap, stagesOwner, stagesChildren, stagesRequest,
    stagesPublished, stagesTask, stagesTold, stagesDown,

    uavOwner, uavLoading, uavPrepared, uavWorkflow, uavUnloading, uavLanding,
    uavHolding, uavCall, uavController, uavUnrecorded, uavStage, uavLease,
    uavLeaseFault, uavFault, uavLatch, uavCommand, uavFlight,

    wheeltecGated, wheeltecAuto, wheeltecDesired, wheeltecHeard,
    wheeltecFresh, wheeltecLocalized, wheeltecTransition, wheeltecPublishing,
    wheeltecPublished, wheeltecDriver, wheeltecArmed, wheeltecUnstopped

Mapping == INSTANCE MappingSessionProofs
    WITH Objects <- Pair, Backends <- MappingBackends,
         backend <- mappingBackend, session <- mappingSession,
         state <- mappingState, subscribed <- mappingSubscribed,
         pcd <- mappingPcd, stack <- mappingStack, stray <- mappingStray,
         control <- mappingControl, watch <- mappingWatch, generator <- mappingGenerator,
         closer <- mappingCloser, interrupted <- mappingInterrupted

Preview == INSTANCE MapPreviewProofs
    WITH Sessions <- Pair, MaxUnacked <- MaxUnacked, LastFrame <- LastFrame,
         MaxDownloads <- MaxDownloads, live <- previewLive,
         phase <- previewPhase, listening <- previewListening,
         scans <- previewScans, queue <- previewQueue,
         worker <- previewWorker, frame <- previewFrame,
         cache <- previewCache, ender <- previewEnder,
         directory <- previewDirectory, files <- previewFiles,
         served <- previewServed, readers <- previewReaders

Reloc == INSTANCE Relocalization
    WITH Maps <- Pair, MapSessions <- One, Starters <- One, Monitors <- One,
         Fetchers <- Fetchers, Backends <- RelocBackends, backend <- relocBackend,
         power <- relocPower, identity <- relocIdentity, state <- relocState,
         mapDir <- relocMapDir, active <- relocActive,
         installed <- relocInstalled, stack <- relocStack,
         fetcher <- relocFetcher, starter <- relocStarter,
         monitor <- relocMonitor, healthy <- relocHealthy,
         unsaved <- relocUnsaved, region <- relocRegion, fixed <- relocFixed

Stages == INSTANCE GroundAirStagesProofs
    WITH StageMaps <- Pair, Owners <- Pair, stage <- stagesStage,
         stageMap <- stagesStageMap, owner <- stagesOwner,
         children <- stagesChildren, request <- stagesRequest,
         published <- stagesPublished, task <- stagesTask,
         told <- stagesTold, down <- stagesDown

Flight == INSTANCE UavFlightProofs
    WITH Tasks <- Pair, owner <- uavOwner, loading <- uavLoading,
         prepared <- uavPrepared, workflow <- uavWorkflow,
         unloading <- uavUnloading, landing <- uavLanding,
         holding <- uavHolding, call <- uavCall, controller <- uavController,
         unrecorded <- uavUnrecorded, stage <- uavStage, lease <- uavLease, leaseFault <- uavLeaseFault,
         fault <- uavFault, latch <- uavLatch, command <- uavCommand,
         flight <- uavFlight

Auth == INSTANCE WheeltecAuthority
    WITH gated <- wheeltecGated, auto <- wheeltecAuto,
         desired <- wheeltecDesired, heard <- wheeltecHeard,
         fresh <- wheeltecFresh, localized <- wheeltecLocalized,
         transition <- wheeltecTransition, publishing <- wheeltecPublishing,
         published <- wheeltecPublished, driver <- wheeltecDriver,
         armed <- wheeltecArmed, unstopped <- wheeltecUnstopped

-----------------------------------------------------------------------------
MappingVars ==
    <<mappingBackend, mappingSession, mappingState, mappingSubscribed,
      mappingPcd, mappingStack, mappingStray, mappingControl, mappingWatch,
      mappingGenerator, mappingCloser, mappingInterrupted>>
PreviewVars ==
    <<previewLive, previewPhase, previewListening, previewScans,
      previewQueue, previewWorker, previewFrame, previewCache, previewEnder,
      previewDirectory, previewFiles, previewServed, previewReaders>>
RelocalizerVars ==
    <<relocBackend, relocPower, relocIdentity, relocState, relocMapDir,
      relocActive, relocInstalled, relocStack, relocFetcher, relocStarter,
      relocMonitor, relocHealthy, relocUnsaved, relocRegion, relocFixed>>
StagesVars ==
    <<stagesStage, stagesStageMap, stagesOwner, stagesChildren,
      stagesRequest, stagesPublished, stagesTask, stagesTold, stagesDown>>
FlightVars ==
    <<uavOwner, uavLoading, uavPrepared, uavWorkflow, uavUnloading,
      uavLanding, uavHolding, uavCall, uavController, uavUnrecorded, uavStage, uavLease,
      uavLeaseFault, uavFault, uavLatch, uavCommand, uavFlight>>
AuthorityVars ==
    <<wheeltecGated, wheeltecAuto, wheeltecDesired, wheeltecHeard,
      wheeltecFresh, wheeltecLocalized, wheeltecTransition,
      wheeltecPublishing, wheeltecPublished, wheeltecDriver, wheeltecArmed,
      wheeltecUnstopped>>

\* A service that sleeps is in one of its initial states, the same in each
\* behaviour in which another one works.
MappingSleeps == Mapping!Init /\ mappingBackend = CHOOSE b \in MappingBackends : TRUE
PreviewSleeps == Preview!Init
RelocalizerSleeps == Reloc!Init /\ relocActive = None /\ relocInstalled = {}
StagesSleeps == Stages!Init /\ ~stagesTask
FlightSleeps == Flight!Init /\ ~uavFault /\ ~uavLatch
AuthoritySleeps == Auth!Init /\ ~wheeltecGated /\ ~wheeltecAuto

Init ==
    /\ awake \in {"mapping", "preview", "relocalizer",
                 "stages", "flight", "authority"}
    /\ IF awake = "mapping" THEN Mapping!Init ELSE MappingSleeps
    /\ IF awake = "preview" THEN Preview!Init ELSE PreviewSleeps
    /\ IF awake = "relocalizer" THEN Reloc!Init ELSE RelocalizerSleeps
    /\ IF awake = "stages" THEN Stages!Init ELSE StagesSleeps
    /\ IF awake = "flight" THEN Flight!Init ELSE FlightSleeps
    /\ IF awake = "authority" THEN Auth!Init ELSE AuthoritySleeps

\* The services that sleep do not change.
OthersRest ==
    /\ UNCHANGED awake
    /\ awake = "mapping" \/ UNCHANGED MappingVars
    /\ awake = "preview" \/ UNCHANGED PreviewVars
    /\ awake = "relocalizer" \/ UNCHANGED RelocalizerVars
    /\ awake = "stages" \/ UNCHANGED StagesVars
    /\ awake = "flight" \/ UNCHANGED FlightVars
    /\ awake = "authority" \/ UNCHANGED AuthorityVars

Next ==
    /\ \/ awake = "mapping" /\ Mapping!Next
       \/ awake = "preview" /\ Preview!Next
       \/ awake = "relocalizer" /\ Reloc!Next
       \/ awake = "stages" /\ Stages!Next
       \/ awake = "flight" /\ Flight!Next
       \/ awake = "authority" /\ Auth!Next
    /\ OthersRest

vars == <<awake, MappingVars, PreviewVars, RelocalizerVars, StagesVars,
          FlightVars, AuthorityVars>>

Spec == Init /\ [][Next]_vars

ASSUME ServicesConstants ==
    /\ Mapping!MappingConstants /\ Preview!PreviewConstants
    /\ Reloc!RelocalizationConstants /\ Stages!StageConstants
    /\ Flight!Distinct

-----------------------------------------------------------------------------
\* The service that works keeps the types of its state.
TypeOK ==
    /\ awake = "mapping" => Mapping!TypeOK
    /\ awake = "preview" => Preview!TypeOK
    /\ awake = "relocalizer" => Reloc!TypeOK
    /\ awake = "stages" => Stages!TypeOK
    /\ awake = "flight" => Flight!TypeOK
    /\ awake = "authority" => Auth!TypeOK

\* The archive published for a session is of its own map.
PublishedIsOwn == Mapping!PublishedIsOwn

\* A session's files are archived after its mapping stack has stopped.
PublishedAfterStop == Mapping!PublishedAfterStop

\* A session stays the current one while its artifacts are generated.
GenerationOwnsSession == Mapping!GenerationOwnsSession

\* A preview fragment that can be downloaded is counted as unacknowledged.
ServedIsCounted == Preview!ServedIsCounted

\* No preview file is left behind.
NoOrphanFile == Preview!NoOrphanFile

\* A session that fails or is served withdraws all its fragments.
EndsWithdrawn == Preview!EndsWithdrawn

\* The file says "localized" only of a map localized since the process started.
LocalizedSinceBoot == Reloc!LocalizedSinceBoot

\* Regions are saved only for the session negotiated at that moment.
RegionsOfSession == Reloc!RegionsOfSession

\* At most one stage's process group exists, and it is the active stage's.
OneStageRuns == Stages!OneStageRuns

\* A stage is not taken from the session it belongs to.
SessionKeepsStage == Stages!SessionKeepsStage

\* The UAV's controller belongs to the task the adapter holds a lease for.
ControllerIsOwned == Flight!ControllerIsOwned

\* A Wheeltec vehicle is autonomous only for a task that wants it.
HeldAuthorityIsOwned == Auth!HeldAuthorityIsOwned
=============================================================================
