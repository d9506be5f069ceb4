\* Instance of TaskCoordinator: see README.md, "Runs".
CONSTANTS
    t1 = t1
    t2 = t2
    e1 = e1
    crc1 = crc1
    crc2 = crc2
    rTransfer = rTransfer
    rExecute = rExecute
    rStop = rStop
    None = None
    Tasks = {t1}
    Revisions = {1}
    Crcs = {crc1}
    Executions = {e1}
    Requests = {rTransfer, rExecute}
    Chunks = {1}
    Commands <- MCDecidedCommands
    RetryOnFailure = FALSE
SPECIFICATION FairSpec
PROPERTIES
    ExecuteEventuallyDecided
