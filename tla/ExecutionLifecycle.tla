------------------------ MODULE ExecutionLifecycle ------------------------
(***************************************************************************)
(* What a navigation adapter promises the task coordinator about the       *)
(* executions it is given: they are taken one at a time, the robot is only *)
(* ever set in motion for the one taken last, and neither once that has    *)
(* been halted nor after it has ended.  How long a motion goes on is not   *)
(* promised: it may stop at any moment and outlive its execution.          *)
(***************************************************************************)
CONSTANTS
    Executions,     \* the executions the coordinator may schedule
    None            \* no execution

VARIABLES
    current,        \* the execution taken and not ended, or None
    halted,         \* it may not move the robot any more
    moving          \* the execution the robot was last set in motion for, or None

lifecycle == <<current, halted, moving>>

Init == current = None /\ halted = FALSE /\ moving = None

Take(e) == current = None /\ current' = e /\ halted' = FALSE /\ UNCHANGED moving
Move == current # None /\ ~halted /\ moving' = current /\ UNCHANGED <<current, halted>>
Rest == moving' = None /\ UNCHANGED <<current, halted>>
Halt == current # None /\ halted' = TRUE /\ UNCHANGED <<current, moving>>
End == current # None /\ current' = None /\ halted' = FALSE /\ moving' \in {None, moving}

Next == (\E e \in Executions : Take(e)) \/ Move \/ Rest \/ Halt \/ End

Spec == Init /\ [][Next]_lifecycle
=============================================================================
