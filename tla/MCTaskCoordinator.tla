------------------------- MODULE MCTaskCoordinator -------------------------
(***************************************************************************)
(* Small instances of TaskCoordinator.  Task t1 is delivered and executed; *)
(* t2 is only named by commands, as a task the coordinator does not store. *)
(***************************************************************************)
EXTENDS TaskCoordinator

CONSTANTS t1, t2, e1, crc1, crc2, rTransfer, rExecute, rStop

C(type, request, task, exec, rev, crc) ==
    [type |-> type, request |-> request, task |-> task, exec |-> exec,
     rev |-> rev, crc |-> crc]

\* Two revisions of t1, the older one also with other content; one execution.
\* The request ID rStop is reused by every command of the operator.
MCCommands ==
    {C(type, rTransfer, t1, None, rev, crc1) :
        type \in {"task_prepare", "task_commit"}, rev \in Revisions}
    \union {C("task_prepare", rTransfer, t1, None, 1, crc2)}
    \union {C("execute_task", rExecute, t1, e1, 1, crc1)}
    \union {C("terminate_task", rStop, t1, e1, 1, crc1)}
    \union {C(type, rStop, t1, None, 1, crc1) :
               type \in {"negotiate_task", "read_task", "emergency_stop"}}
    \union {C("delete_task", rStop, t, None, 1, crc1) : t \in Tasks}

\* One revision of t1, executed and terminated.
MCExecutionCommands ==
    {C(type, rTransfer, t1, None, 1, crc1) : type \in {"task_prepare", "task_commit"}}
    \union {C("execute_task", rExecute, t1, e1, 1, crc1)}
    \union {C("terminate_task", rTransfer, t1, e1, 1, crc1)}

\* Revision 2 is offered while revision 1 may be executed; nothing is deleted.
MCRevisionCommands ==
    {C(type, rTransfer, t1, None, rev, crc1) :
        type \in {"task_prepare", "task_commit"}, rev \in Revisions}
    \union {C("execute_task", rExecute, t1, e1, 1, crc1)}

\* An execution of t1 and an emergency stop that names t1 or t2.
MCEmergencyCommands ==
    MCExecutionCommands
    \union {C("emergency_stop", rTransfer, t, None, 1, crc1) : t \in Tasks}

\* An execution of t1 and an emergency stop of it.
MCDecidedCommands ==
    {c \in MCEmergencyCommands : c.task = t1 /\ c.type # "terminate_task"}

\* The part of the state that decides what can happen next: the handlers read
\* no answer but an execute_task's, and neither status nor ros.
Answered ==
    [r \in Requests |->
        IF ackCache[r] # None /\ ackCache[r].command.type = "execute_task"
          THEN ackCache[r].answer ELSE ackCache[r] # None]

Relevant == <<up, handling, transfer, execution, pendingExecute, preparation, cleanup,
              emergency, Answered, disk, marker>>
=============================================================================
