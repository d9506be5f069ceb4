\* Two of everything that may be confused with its successor.
CONSTANTS
    Pair = {a1, a2}
    One = {one}
    Fetchers = {}
    MappingBackends = {"accumulator", "service", "finalize"}
    RelocBackends = {"ducted_uav"}
    MaxUnacked = 1
    LastFrame = 1
    MaxDownloads = 1
    Operator = Operator
    None = None
SPECIFICATION Spec
INVARIANTS
    TypeOK
    PublishedIsOwn
    PublishedAfterStop
    GenerationOwnsSession
    ServedIsCounted
    NoOrphanFile
    LocalizedSinceBoot
    OneStageRuns
    ControllerIsOwned
    HeldAuthorityIsOwned
PROPERTIES
    EndsWithdrawn
    RegionsOfSession
    SessionKeepsStage
CONSTRAINT Bounds
SYMMETRY Interchangeable
\* Closed nodes and refused transitions: a service may come to rest.
CHECK_DEADLOCK FALSE
