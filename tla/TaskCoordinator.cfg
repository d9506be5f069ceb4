\* Instance of TaskCoordinator: see README.md, "Runs".  Every command but execute_task
\* has the same request ID.
CONSTANTS
    t1 = t1
    t2 = t2
    e1 = e1
    crc1 = crc1
    crc2 = crc2
    rTransfer = rTransfer
    rExecute = rExecute
    rStop = rTransfer
    None = None
    Tasks = {t1, t2}
    Revisions = {1, 2}
    Crcs = {crc1, crc2}
    Executions = {e1}
    Requests = {rTransfer, rExecute}
    Chunks = {1}
    Commands <- MCCommands
    RetryOnFailure = TRUE
SPECIFICATION Spec
VIEW Relevant
INVARIANTS
    TypeOK
    ActiveRecordTracksExecution
    PendingExecuteIffScheduling
    StoresAgree
PROPERTIES
    NoRollback
    TerminalFailureStays
    
    ExecuteAnswerIsFinal
