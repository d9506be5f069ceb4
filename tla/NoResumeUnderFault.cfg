CONSTANTS
    Tasks = {t1, t2}
    None = None
SPECIFICATION Spec
PROPERTY NoResumeUnderFault
CHECK_DEADLOCK FALSE
