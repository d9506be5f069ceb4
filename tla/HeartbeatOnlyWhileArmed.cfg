CONSTANTS
    ClearsCostmaps = TRUE
    HasStopService = TRUE
    Failures = {"refused", "error"}
    MaxReports = 1
    None = None
SPECIFICATION Spec
INVARIANTS HeartbeatOnlyWhileArmed
