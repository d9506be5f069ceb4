------------------------ MODULE MCNavigationAdapter ------------------------
(* The three configurations the repository deploys: Scout Mini without the *)
(* interlock, Go2 attached to a navigation it does not own, Wheeltec R550P *)
(* whose controller has a stop service and no safety gate.                 *)
EXTENDS NavigationAdapter, TLC

Scout == [safety |-> FALSE, managed |-> TRUE, direct |-> FALSE, stop |-> FALSE]
Go2 == [safety |-> TRUE, managed |-> FALSE, direct |-> FALSE, stop |-> FALSE]
Wheeltec == [safety |-> TRUE, managed |-> TRUE, direct |-> TRUE, stop |-> TRUE]
Deployed == {Scout, Go2, Wheeltec}

Interchangeable == Permutations(Executions) \union Permutations(Tasks)
=============================================================================
