------------------------ MODULE GroundAirStagesProofs ------------------------
(***************************************************************************)
(* The stages of the ground-air vehicle exclude each other and belong to   *)
(* their session, for any number of maps and sessions.                     *)
(*                                                                         *)
(* The argument: a group is only started once every earlier one is gone    *)
(* (Cleared), the stage named active is the one of the group kept          *)
(* (Backed), and a request that may take a stage away from its session     *)
(* was accepted for that session (Entitled), which the locked transition   *)
(* keeps true until it ends.                                               *)
(***************************************************************************)
EXTENDS GroundAirStages, TLAPS, FiniteSetTheorems

InStep(step) == request # None /\ request.step = step

\* No group, or the one group.
AtMostOne == children = {} \/ \E c \in Child : children = {c}

Backed == stage # "base" => \E c \in children : c.stage = stage /\ c.map = stageMap
Unowned == stage = "base" => owner = Operator

\* What holds at each step of a transition.
Cleared == InStep("starting") => children = {} /\ stage = "base"
Starting == InStep("waiting") =>
    stage = "base" /\ \E c \in children : c.stage = request.stage /\ c.map = request.map
Undoing == InStep("undoing") => stage = "base"
Wanted == request # None /\ request.step # "stopping" => request.stage # "base"
Entitled == InStep("stopping") /\ owner # Operator =>
    request.by = owner /\ request.map = stageMap

IInv == /\ TypeOK /\ AtMostOne /\ Backed /\ Unowned
        /\ Cleared /\ Starting /\ Undoing /\ Wanted /\ Entitled

\* Every variable of the stage manager keeps its type, whatever request, exit
\* or shutdown comes.
THEOREM TypeCorrect == ASSUME StageConstants PROVE Spec => []TypeOK
<1>1. Init => TypeOK
  BY DEF Init, TypeOK, Stages, Callers
<1>2. TypeOK /\ [Next]_vars => TypeOK'
  <2> SUFFICES ASSUME TypeOK, [Next]_vars PROVE TypeOK'
    OBVIOUS
  <2> USE DEF TypeOK, Stages, Callers, Child
  <2>1. ASSUME NEW s \in Stages, NEW map \in StageMaps, NEW by \in Callers,
               Accept(s, map, by) \/ Answered(s, map, by)
        PROVE  TypeOK'
    BY <2>1 DEF Accept, Answered, active
  <2>2. CASE StopRaises
    BY <2>2 DEF StopRaises, Answers, active
  <2>3. CASE StopsChildren
    BY <2>3 DEF StopsChildren, Stopped, To, Answers, Unlocked
  <2>4. CASE StartsPrimary
    <3>1. request \in [stage: Stages, map: StageMaps, by: Callers,
                       step: {"stopping", "starting", "waiting", "undoing"}]
      BY <2>4 DEF StartsPrimary, Unlocked
    <3> DEFINE new == [stage |-> request.stage, map |-> request.map, alive |-> TRUE]
    <3>2. children' \subseteq Child
      <4>1. new \in Child
        BY <3>1
      <4>2. children' = children \union {new}
        BY <2>4 DEF StartsPrimary
      <4> QED
        BY <4>1, <4>2
    <3> QED
      BY <2>4, <3>1, <3>2 DEF StartsPrimary, To, active
  <2>5. CASE StartFails
    BY <2>5 DEF StartFails, To, active, Unlocked
  <2>6. CASE StartUndone
    BY <2>6 DEF StartUndone, Stopped, Answers
  <2>7. CASE StageActive
    BY <2>7 DEF StageActive, Answers, Unlocked
  <2>8. CASE ChildExits
    <3>1. PICK c \in children :
              c.alive /\ children' = (children \ {c}) \union {[c EXCEPT !.alive = FALSE]}
      BY <2>8 DEF ChildExits
    <3>2. [c EXCEPT !.alive = FALSE] \in Child
      OBVIOUS
    <3>3. children' \subseteq Child
      BY <3>1, <3>2
    <3> QED
      BY <2>8, <3>3 DEF ChildExits, active
  <2>9. CASE MonitorChildren
    BY <2>9 DEF MonitorChildren, Stopped
  <2>10. CASE Shutdown
    BY <2>10 DEF Shutdown, Stopped, active
  <2>11. CASE TaskChanges \/ TaskStatusArrives
    BY <2>11 DEF TaskChanges, TaskStatusArrives, active
  <2>12. CASE UNCHANGED vars
    BY <2>12 DEF vars, active
  <2> QED
    BY <2>1, <2>2, <2>3, <2>4, <2>5, <2>6, <2>7, <2>8, <2>9, <2>10, <2>11, <2>12 DEF Next
<1> QED
  BY <1>1, <1>2, PTL DEF Spec

\* The strengthening is inductive.
LEMMA Step == ASSUME IInv, TypeOK', [Next]_vars, StageConstants PROVE IInv'
<1> USE DEF IInv, InStep
<1>1. ASSUME NEW s \in Stages, NEW map \in StageMaps, NEW by \in Callers,
             Answered(s, map, by)
      PROVE  IInv'
  BY <1>1 DEF Answered, active, AtMostOne, Backed, Unowned, Cleared, Starting, Undoing, Wanted, Entitled
<1>2. ASSUME NEW s \in Stages, NEW map \in StageMaps, NEW by \in Callers,
             Accept(s, map, by)
      PROVE  IInv'
  <2>1. request' = [stage |-> s, map |-> map, by |-> by, step |-> "stopping"]
        /\ UNCHANGED <<stage, stageMap, owner, children>> /\ MayChange(s, map, by)
    BY <1>2 DEF Accept, active
  <2>2. AtMostOne' /\ Backed' /\ Unowned' /\ Cleared' /\ Starting' /\ Undoing' /\ Wanted'
    BY <2>1 DEF AtMostOne, Backed, Unowned, Cleared, Starting, Undoing, Wanted
  <2>3. Entitled'
    BY <2>1 DEF Entitled, Unowned, MayChange
  <2> QED
    BY <2>2, <2>3
<1>3. CASE StopRaises
  BY <1>3 DEF StopRaises, Answers, active, AtMostOne, Backed, Unowned, Cleared, Starting, Undoing, Wanted, Entitled
<1>4. CASE StopsChildren
  <2>1. children' = {} /\ stage' = "base" /\ owner' = Operator
    BY <1>4 DEF StopsChildren, Stopped
  <2>2. request' # None => request'.step = "starting" /\ request'.stage # "base"
    BY <1>4 DEF StopsChildren, To, Answers, Unlocked, TypeOK
  <2> QED
    BY <2>1, <2>2 DEF AtMostOne, Backed, Unowned, Cleared, Starting, Undoing, Wanted, Entitled
<1>5. CASE StartsPrimary
  <2> DEFINE new == [stage |-> request.stage, map |-> request.map, alive |-> TRUE]
  <2>1. request \in [stage: Stages, map: StageMaps, by: Callers,
                     step: {"stopping", "starting", "waiting", "undoing"}]
    BY <1>5 DEF StartsPrimary, Unlocked, TypeOK
  <2>2. stage = "base" /\ children' = {new} /\ UNCHANGED <<stage, stageMap, owner>>
    BY <1>5 DEF StartsPrimary, Unlocked, Cleared, active
  <2>3. request' = [request EXCEPT !.step = "waiting"]
    BY <1>5 DEF StartsPrimary, To
  <2>4. request'.step = "waiting" /\ request'.stage = request.stage /\ request'.map = request.map
    BY <2>1, <2>3
  <2>5. new \in Child
    BY <2>1 DEF Child
  <2>6. AtMostOne'
    BY <2>2, <2>5 DEF AtMostOne
  <2>7. Starting'
    BY <2>2, <2>4 DEF Starting
  <2>8. request.stage # "base"
    BY <1>5 DEF StartsPrimary, Unlocked, Wanted
  <2>9. Backed' /\ Unowned' /\ Cleared' /\ Undoing' /\ Wanted' /\ Entitled'
    BY <2>2, <2>4, <2>8 DEF Backed, Unowned, Cleared, Undoing, Wanted, Entitled
  <2> QED
    BY <2>6, <2>7, <2>9
<1>6. CASE StartFails
  <2>1. stage = "base" /\ UNCHANGED <<stage, stageMap, owner, children>>
    BY <1>6 DEF StartFails, Unlocked, Cleared, Starting, active
  <2>2. request'.step = "undoing" /\ request'.stage # "base"
    BY <1>6 DEF StartFails, To, Unlocked, TypeOK, Wanted
  <2> QED
    BY <2>1, <2>2 DEF AtMostOne, Backed, Unowned, Cleared, Starting, Undoing, Wanted, Entitled
<1>7. CASE StartUndone
  BY <1>7 DEF StartUndone, Stopped, Answers, AtMostOne, Backed, Unowned, Cleared, Starting, Undoing, Wanted, Entitled
<1>8. CASE StageActive
  <2>1. request # None /\ request' = None /\ children' = children
        /\ stage' = request.stage /\ stageMap' = request.map /\ owner' = request.by
    BY <1>8 DEF StageActive, Answers, Unlocked
  <2>2. \E c \in children' : c.stage = stage' /\ c.map = stageMap'
    BY <1>8, <2>1 DEF StageActive, Starting
  <2>3. request.stage # "base"
    BY <1>8, <2>1 DEF StageActive, Wanted
  <2> QED
    BY <2>1, <2>2, <2>3 DEF AtMostOne, Backed, Unowned, Cleared, Starting, Undoing, Wanted, Entitled
<1>9. CASE ChildExits
  <2>1. PICK c \in children :
            c.alive /\ children' = (children \ {c}) \union {[c EXCEPT !.alive = FALSE]}
    BY <1>9 DEF ChildExits
  <2> DEFINE dead == [c EXCEPT !.alive = FALSE]
  <2>2. children = {c} /\ c \in Child
    BY DEF AtMostOne
  <2>3. children' = {dead}
    BY <2>1, <2>2
  <2>4. dead \in Child /\ dead.stage = c.stage /\ dead.map = c.map
    BY <2>2 DEF Child
  <2>5. UNCHANGED <<stage, stageMap, owner, request>>
    BY <1>9 DEF ChildExits, active
  <2>6. AtMostOne'
    BY <2>3, <2>4 DEF AtMostOne
  <2>7. Backed' /\ Starting'
    BY <2>2, <2>3, <2>4, <2>5 DEF Backed, Starting
  <2>8. Unowned' /\ Cleared' /\ Undoing' /\ Wanted' /\ Entitled'
    BY <2>2, <2>5 DEF Unowned, Cleared, Undoing, Wanted, Entitled
  <2> QED
    BY <2>6, <2>7, <2>8
<1>10. CASE MonitorChildren
  BY <1>10 DEF MonitorChildren, Stopped, Unlocked, AtMostOne, Backed, Unowned, Cleared, Starting, Undoing, Wanted, Entitled
<1>11. CASE Shutdown
  BY <1>11 DEF Shutdown, Stopped, Unlocked, active, AtMostOne, Backed, Unowned, Cleared, Starting, Undoing, Wanted, Entitled
<1>12. CASE TaskChanges \/ TaskStatusArrives \/ UNCHANGED vars
  BY <1>12 DEF TaskChanges, TaskStatusArrives, vars, active, AtMostOne, Backed, Unowned,
               Cleared, Starting, Undoing, Wanted, Entitled
<1> QED
  BY <1>1, <1>2, <1>3, <1>4, <1>5, <1>6, <1>7, <1>8, <1>9, <1>10, <1>11, <1>12 DEF Next

\* The groups, the stage, its owner and the request under way agree at every
\* step of a transition.
THEOREM StagesInvariant == ASSUME StageConstants PROVE Spec => []IInv
<1>1. Init => IInv
  BY DEF Init, IInv, TypeOK, AtMostOne, Backed, Unowned, Cleared, Starting, Undoing, Wanted,
         Entitled, InStep, Stages, Callers
<1>2. IInv /\ TypeOK' /\ [Next]_vars => IInv'
  BY Step
<1> QED
  BY <1>1, <1>2, TypeCorrect, PTL DEF Spec

\* One process group at most is known, also after a start was undone or a group
\* refused to stop, and an active stage is the one its group was started for.
THEOREM StagesExclude == ASSUME StageConstants PROVE Spec => []OneStageRuns
<1>1. IInv => OneStageRuns
  <2> SUFFICES ASSUME IInv PROVE OneStageRuns
    OBVIOUS
  <2>1. Cardinality(children) <= 1
    <3>1. CASE children = {}
      BY <3>1, FS_EmptySet
    <3>2. ASSUME NEW c \in Child, children = {c} PROVE Cardinality(children) <= 1
      BY <3>2, FS_Singleton
    <3> QED
      BY <3>1, <3>2 DEF IInv, AtMostOne
  <2> QED
    BY <2>1 DEF IInv, Backed, OneStageRuns
<1> QED
  BY <1>1, StagesInvariant, PTL

\* A stage that belongs to a CCS session ends by a request of that session, by
\* the exit of its process, or at the shutdown.
THEOREM StageBelongs == ASSUME StageConstants PROVE Spec => SessionKeepsStage
<1> DEFINE Kept == owner # Operator /\ ~UNCHANGED active =>
               \/ request # None /\ request.by = owner /\ request.map = stageMap
               \/ \E c \in children : ~c.alive
               \/ down'
<1>1. IInv /\ [Next]_vars => Kept
  <2> SUFFICES ASSUME IInv, [Next]_vars, owner # Operator, ~UNCHANGED active
               PROVE  \/ request # None /\ request.by = owner /\ request.map = stageMap
                      \/ \E c \in children : ~c.alive
                      \/ down'
    OBVIOUS
  <2>1. stage # "base"
    BY DEF IInv, Unowned
  <2>2. CASE StopsChildren
    BY <2>2 DEF StopsChildren, IInv, Entitled, InStep, Unlocked
  <2>3. CASE StartUndone \/ StageActive
    BY <2>1, <2>3 DEF StartUndone, StageActive, IInv, Undoing, Starting, InStep, Unlocked
  <2>4. CASE MonitorChildren \/ Shutdown
    BY <2>4 DEF MonitorChildren, Shutdown
  <2>5. UNCHANGED active \/ StopsChildren \/ StartUndone \/ StageActive
        \/ MonitorChildren \/ Shutdown
    BY DEF Next, Accept, Answered, StopRaises, StartsPrimary, StartFails, ChildExits,
           TaskChanges, TaskStatusArrives, vars
  <2> QED
    BY <2>2, <2>3, <2>4, <2>5
<1>2. IInv /\ [Next]_vars => [Kept]_vars
  BY <1>1
<1> QED
  BY <1>2, StagesInvariant, PTL DEF Spec, SessionKeepsStage
=============================================================================
