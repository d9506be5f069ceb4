\* Two executions and two tasks, so that a late thread of one meets the other.
CONSTANTS
    Executions = {e1, e2}
    Tasks = {t1, t2}
    Waypoints = 1
    Profiles <- Deployed
    None = None
SPECIFICATION Spec
INVARIANTS
    TypeOK
    EnabledIsOwned
    ClientHasNavigation
    ClosedIsQuiet
PROPERTIES
    ReportedIsDisabled
    ReportedIsCancelled
    KeepsLifecycle
SYMMETRY Interchangeable
\* A permanently closed adapter does nothing more.
CHECK_DEADLOCK FALSE
