\* Liveness: no symmetry, so one of everything.
CONSTANTS
    Only = {only}
    None = None
SPECIFICATION FairSpec
PROPERTIES
    ExecutionEnds
    TransientStatesEnd
    OperationsEnd
    ReleaseShown
\* Closed and idle nodes: a service may come to rest.
CHECK_DEADLOCK FALSE
