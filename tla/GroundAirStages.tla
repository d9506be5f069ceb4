-------------------------- MODULE GroundAirStages --------------------------
(***************************************************************************)
(* The stage manager of the Ground-Air AGV (StageController,               *)
(* RosProcessBackend and StageManagerNode): it owns the one process group  *)
(* of the mapping or the relocalization stage, on behalf of the CCS        *)
(* session that asked for it.                                              *)
(*                                                                         *)
(* Every handler holds _lock while it runs, a transition for up to a       *)
(* minute: `request' is the transition that holds it.  Processes exit and  *)
(* the task changes meanwhile; messages wait.                              *)
(***************************************************************************)
EXTENDS Naturals, FiniteSets

CONSTANTS
    StageMaps,      \* map IDs
    Owners,         \* callers with a CCS session name
    Operator,       \* any other caller
    None

StageConstants == Operator \notin Owners /\ None \notin StageMaps

VARIABLES
    stage,          \* active_stage
    stageMap,       \* active_map_id, or None
    owner,          \* active_owner (Operator: "")
    children,       \* the process groups started: stage, map, alive
    request,        \* the transition under way, or None
    published,      \* the last value of /ground_air/system/stage
    task,           \* whether a task blocks stage changes
    told,           \* the same, as last heard (_task_state)
    down            \* shutdown() has run

active == <<stage, stageMap, owner>>
vars == <<active, children, request, published, task, told, down>>

Stages == {"base", "mapping", "relocalization"}
Callers == Owners \union {Operator}
Child == [stage: Stages, map: StageMaps, alive: BOOLEAN]

TypeOK ==
    /\ stage \in Stages /\ published \in Stages
    /\ stageMap \in StageMaps \union {None} /\ owner \in Callers
    /\ children \subseteq Child
    /\ request \in [stage: Stages, map: StageMaps, by: Callers,
                    step: {"stopping", "starting", "waiting", "undoing"}] \union {None}
    /\ task \in BOOLEAN /\ told \in BOOLEAN /\ down \in BOOLEAN

Init ==
    /\ stage = "base" /\ stageMap = None /\ owner = Operator
    /\ children = {} /\ request = None /\ published = "base"
    /\ task \in BOOLEAN /\ told = FALSE /\ down = FALSE

-----------------------------------------------------------------------------
Unlocked == request = None
To(step) == request' = [request EXCEPT !.step = step]
Answers == request' = None

\* Mutant: the map identifies the session.
MayChangeByMap(s, map, by) ==
    (stage # "base" /\ (by # Operator \/ owner # Operator)) =>
        map = stageMap /\ s \in {"base", stage}

\* The caller holds the session of the active stage; without a session on
\* either side, anyone may change it.
MayChange(s, map, by) ==
    (stage # "base" /\ (by # Operator \/ owner # Operator)) =>
        map = stageMap /\ by = owner /\ s \in {"base", stage}

AlreadyActive(s, map) == s = stage /\ (s = "base" \/ map = stageMap)

\* Refused, or already there: only the stage is published again.
Answered(s, map, by) ==
    /\ Unlocked /\ ~down
    /\ \/ told \/ ~MayChange(s, map, by) \/ AlreadyActive(s, map)
       \/ s # "base"                        \* unmanaged nodes are active
    /\ published' = stage
    /\ UNCHANGED <<active, children, request, task, told, down>>

\* Mutant: the new stage starts before the old one has stopped.
AcceptUnstopped(s, map, by) ==
    /\ Unlocked /\ ~down
    /\ ~told /\ MayChange(s, map, by) /\ ~AlreadyActive(s, map)
    /\ request' = [stage |-> s, map |-> map, by |-> by, step |-> "starting"]
    /\ UNCHANGED <<active, children, published, task, told, down>>

Accept(s, map, by) ==
    /\ Unlocked /\ ~down
    /\ ~told /\ MayChange(s, map, by) /\ ~AlreadyActive(s, map)
    /\ request' = [stage |-> s, map |-> map, by |-> by, step |-> "stopping"]
    /\ UNCHANGED <<active, children, published, task, told, down>>

\* _stop_children
Stopped ==
    /\ children' = {}
    /\ stage' = "base" /\ stageMap' = None /\ owner' = Operator

SomeoneAlive == \E c \in children : c.alive

\* A group that does not stop: the exception leaves everything as it is.
StopRaises ==
    /\ ~Unlocked /\ request.step \in {"stopping", "undoing"} /\ SomeoneAlive
    /\ Answers
    /\ UNCHANGED <<active, children, published, task, told, down>>

StopsChildren ==
    /\ ~Unlocked /\ request.step = "stopping"
    /\ Stopped
    /\ IF request.stage = "base" THEN published' = "base" /\ Answers
       ELSE To("starting") /\ UNCHANGED published
    /\ UNCHANGED <<task, told, down>>

StartsPrimary ==
    /\ ~Unlocked /\ request.step = "starting"
    /\ children' = children \union {[stage |-> request.stage, map |-> request.map, alive |-> TRUE]}
    /\ To("waiting")
    /\ UNCHANGED <<active, published, task, told, down>>

\* roslaunch cannot be started, its nodes or transforms do not appear in time,
\* or it exits.
StartFails ==
    /\ ~Unlocked /\ request.step \in {"starting", "waiting"}
    /\ To("undoing")
    /\ UNCHANGED <<active, children, published, task, told, down>>

StartUndone ==
    /\ ~Unlocked /\ request.step = "undoing"
    /\ Stopped
    /\ published' = "base" /\ Answers
    /\ UNCHANGED <<task, told, down>>

StageActive ==
    /\ ~Unlocked /\ request.step = "waiting" /\ SomeoneAlive
    /\ stage' = request.stage /\ stageMap' = request.map /\ owner' = request.by
    /\ published' = stage' /\ Answers
    /\ UNCHANGED <<children, task, told, down>>

-----------------------------------------------------------------------------
ChildExits ==
    /\ \E c \in children :
           c.alive /\ children' = (children \ {c}) \union {[c EXCEPT !.alive = FALSE]}
    /\ UNCHANGED <<active, request, published, task, told, down>>

\* _monitor_children
MonitorChildren ==
    /\ Unlocked /\ \E c \in children : ~c.alive
    /\ Stopped
    /\ published' = "base"
    /\ UNCHANGED <<request, task, told, down>>

Shutdown ==
    /\ Unlocked /\ ~down /\ down' = TRUE
    /\ \/ Stopped /\ published' = "base"
       \/ SomeoneAlive /\ UNCHANGED <<active, children, published>>
    /\ UNCHANGED <<request, task, told>>

TaskChanges ==
    /\ task' = ~task
    /\ UNCHANGED <<active, children, request, published, told, down>>

TaskStatusArrives ==
    /\ Unlocked /\ told' = task
    /\ UNCHANGED <<active, children, request, published, task, down>>

-----------------------------------------------------------------------------
Next ==
    \/ \E s \in Stages, map \in StageMaps, by \in Callers :
           Accept(s, map, by) \/ Answered(s, map, by)
    \/ StopRaises \/ StopsChildren \/ StartsPrimary \/ StartFails
    \/ StartUndone \/ StageActive
    \/ ChildExits \/ MonitorChildren \/ Shutdown
    \/ TaskChanges \/ TaskStatusArrives

Spec == Init /\ [][Next]_vars

-----------------------------------------------------------------------------
\* Mapping and relocalization exclude each other: one process group at most is
\* known and alive, also after a start was undone or a group refused to stop,
\* and an active stage is the one its group was started for.
OneStageRuns ==
    /\ Cardinality(children) <= 1
    /\ stage # "base" /\ Unlocked =>
           \E c \in children : c.stage = stage /\ c.map = stageMap

\* A stage that belongs to a CCS session is not taken from it: it ends by a
\* request of that session, by the exit of its process, or at the shutdown.
SessionKeepsStage ==
    [][owner # Operator /\ ~UNCHANGED active =>
           \/ request # None /\ request.by = owner /\ request.map = stageMap
           \/ \E c \in children : ~c.alive
           \/ down']_vars

\* What test_control.py:188 says: a stop that failed is not reported as base.
\* (It is, when the group that did not stop had just been started.)
BaseMeansStopped == Unlocked /\ published = "base" => ~SomeoneAlive
=============================================================================
