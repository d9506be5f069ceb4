\* Two executions, the second scheduled at any time the first has ended: its
\* worker may still be on its way.
CONSTANTS
    Scheduled = 2
    None = None
SPECIFICATION FairSpec
PROPERTY MissionEnds
\* Every mission may have been scheduled.
CHECK_DEADLOCK FALSE
