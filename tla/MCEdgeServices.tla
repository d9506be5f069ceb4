--------------------------- MODULE MCEdgeServices ---------------------------
(***************************************************************************)
(* The services of EdgeServices, two of everything that may be confused    *)
(* with its successor, for TLC.  Two bounds leave combinations out that    *)
(* multiply the states of the preview and of the mapping session; the      *)
(* theorems of EdgeServicesProofs know neither.                            *)
(***************************************************************************)
EXTENDS EdgeServices, Naturals, FiniteSets, TLC

Interchangeable == Permutations(Pair)

Enders(s) == {t \in Preview!Threads : previewEnder[s][t] # "idle"}

\* A second fragment is explored of the only session anything belongs to, while
\* at most one thread ends it.  With one fragment, two sessions and all the
\* threads that end them are.
OneSessionOfManyFragments ==
    LastFrame < previewFrame =>
        \A s \in Pair : /\ Preview!Referenced(s) => s = previewLive
                        /\ Cardinality(Enders(s)) <= 1

\* After an interrupted generation, close() is explored with one session object.
CloseAfterInterruption ==
    mappingInterrupted /\ mappingCloser.step # "none" =>
        Cardinality({o \in Pair : ~Mapping!Unused(o)}) <= 1

Bounds == OneSessionOfManyFragments /\ CloseAfterInterruption
=============================================================================
