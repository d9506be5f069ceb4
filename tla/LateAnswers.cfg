CONSTANTS
    ClearsCostmaps = TRUE
    HasStopService = TRUE
    Failures = {}
    MaxReports = 3
    None = None
SPECIFICATION FairSpec
PROPERTIES LatchedIsEventuallyDisabled
