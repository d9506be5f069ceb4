CONSTANTS
    ClearsCostmaps = TRUE
    HasStopService = TRUE
    Failures = {"refused", "error"}
    MaxReports = 3
    None = None
SPECIFICATION Spec
INVARIANTS TypeOK NoForgottenEnable LatchSilencesHeartbeat SavedStopStaysLatched
PROPERTIES ResetOnlyWhenDisabled
