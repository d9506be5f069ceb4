--------------------------- MODULE TaskCoordinator ---------------------------
(***************************************************************************)
(* The edge task coordinator, RosTaskControlNode of EPGeneral_task_control *)
(* (node.py), with its two on-disk stores: the trajectory XML and          *)
(* active_execution.json of TrajectoryStore (storage.py) and the mission   *)
(* records of MissionStore (mission_store.py).                             *)
(*                                                                         *)
(* One action stands for one handler run under the node's lock: a ground   *)
(* station datagram, an adapter feedback message, a watchdog tick, start() *)
(* or close().  The ground station is any order, loss or repetition of the *)
(* datagrams in Commands; the adapter may answer any outstanding ROS       *)
(* command, at any time and any number of times.  Crash actions stop the   *)
(* process between handlers and between two disk writes of one handler.    *)
(* The marker of a latched robot belongs to the adapter's process: the     *)
(* handlers that look at it do so in a step of their own, and it may       *)
(* appear, or the process die, before the handler goes on.                 *)
(*                                                                         *)
(* Abstracted: a (task, subtask, device) identity is one element of Tasks; *)
(* a trajectory is its revision and CRC; clocks are a nondeterministic     *)
(* choice of which timer is due; datagrams that fail validation and        *)
(* repeated datagrams that only resend a cached answer change no state.    *)
(***************************************************************************)
EXTENDS Naturals, Sequences

CONSTANTS
    Tasks,          \* task/subtask identities of this device
    Revisions,      \* trajectory revisions
    Crcs,           \* CRC32 values of trajectory contents
    Executions,     \* execution IDs chosen by the ground station
    Requests,       \* request IDs chosen by the ground station
    Chunks,         \* chunk indexes of a transfer
    Commands,       \* the datagrams the ground station may send
    RetryOnFailure, \* timeouts.preparation_retry_on_failure
    None            \* Python's None

CommandTypes == {"negotiate_task", "read_task", "task_prepare", "task_commit",
                 "execute_task", "terminate_task", "emergency_stop", "delete_task"}

\* A decoded datagram; exec is None unless the command names an execution.
Command == [type: CommandTypes, request: Requests, task: Tasks,
            exec: Executions \union {None}, rev: Revisions, crc: Crcs]

\* The request IDs the coordinator makes up itself.
OwnRequests == {"recovery", "watchdog-stop", "shutdown", "shutdown-unload"}

RosActions == {"PREPARE", "SCHEDULE", "CANCEL", "STOP", "UNLOAD", "EMERGENCY_STOP"}

\* TaskExecutionCommand, without the fields the adapter only passes on.
RosCommand == [action: RosActions, request: Requests \union OwnRequests,
               task: Tasks, exec: Executions \union {None}, rev: Revisions]

FeedbackStates == {"preparing", "ready", "failed", "unloaded", "emergency_stopped",
                   "scheduled", "running", "completed", "stopped"}

\* TaskExecutionFeedback: the identity of the command it answers, and a state.
Feedback == [request: Requests \union OwnRequests, task: Tasks,
             exec: Executions \union {None}, rev: Revisions, state: FeedbackStates]

LiveStates == {"scheduling", "scheduled", "running"}
TerminalStates == {"completed", "stopped", "failed"}
Answers == {"pending", "accepted", "rejected"}
Timers == {"unload", "emergency", "transfer", "prepare", "execution"}

Trajectory == [rev: Revisions, crc: Crcs]
Transfer == [task: Tasks, rev: Revisions, crc: Crcs,
             chunks: [Chunks -> {"absent", "good", "bad"}]]
Execution == [task: Tasks, rev: Revisions, exec: Executions, request: Requests,
              requests: SUBSET Requests, state: LiveStates]
ActiveRecord == [task: Tasks, rev: Revisions, exec: Executions, request: Requests,
                 state: LiveStates \union TerminalStates]
Preparation == [task: Tasks, rev: Revisions, request: Requests \union {"recovery"},
                state: {"received", "preparing", "ready", "failed"}, retryable: BOOLEAN]
Cleanup == [command: Command, rev: Revisions, kind: {"delete", "emergency"}]
Emergency == [command: Command, task: Tasks, rev: Revisions,
              exec: Executions \union {None}]
MissionRecord == [rev: Revisions, state: {"received", "ready", "failed"}]
CachedAnswer == [command: Command, answer: Answers]
Statuses == {"no_task", "receiving", "received", "ready", "failed", "scheduling",
             "emergency_stop"} \union LiveStates \union TerminalStates

ASSUME ConstantsOK ==
    /\ Revisions \subseteq Nat
    /\ Commands \subseteq Command
    /\ \A c \in Commands : c.type = "execute_task" => c.exec # None
    /\ RetryOnFailure \in BOOLEAN

\* None is none of the records it stands in for.
ASSUME NoneIsNoRecord ==
    /\ None \notin Transfer /\ None \notin Execution /\ None \notin Preparation
    /\ None \notin Cleanup /\ None \notin Emergency /\ None \notin Command
    /\ None \notin CachedAnswer /\ None \notin Trajectory
    /\ None \notin MissionRecord /\ None \notin ActiveRecord /\ None \notin Tasks

VARIABLES
    up,             \* the process is running (start() has returned)
    handling,       \* the datagram whose handler has found no marker and not
                    \* acted yet; it holds the lock
    transfer,       \* the trajectory transfer being received
    execution,      \* the execution handed to the adapter
    pendingExecute, \* the execute_task whose answer waits for the adapter
    preparation,    \* the navigation preparation of a stored trajectory
    cleanup,        \* pending_cleanup: an UNLOAD not confirmed yet
    emergency,      \* pending_emergency: an EMERGENCY_STOP not confirmed yet
    ackCache,       \* ack_cache: request ID -> answer given or pending
    status,         \* the state last published on the status topic
    ros,            \* the ROS commands published by the last step, in order
    xml,            \* disk: trajectory.xml of each task
    mission,        \* disk: the newest mission record of each task
    latest,         \* disk: the task whose mission record was written last
    active,         \* disk: active_execution.json
    marker          \* disk: the adapter's persistent emergency-stop marker

volatile == <<transfer, execution, pendingExecute, preparation, cleanup,
              emergency, ackCache, status>>
disk == <<xml, mission, latest, active>>
vars == <<up, handling, volatile, ros, disk, marker>>

-----------------------------------------------------------------------------

TypeOK ==
    /\ up \in BOOLEAN /\ marker \in BOOLEAN
    /\ handling \in Commands \union {None}
    /\ transfer \in Transfer \union {None}
    /\ execution \in Execution \union {None}
    /\ pendingExecute \in Commands \union {None}
    /\ preparation \in Preparation \union {None}
    /\ cleanup \in Cleanup \union {None}
    /\ emergency \in Emergency \union {None}
    /\ ackCache \in [Requests -> CachedAnswer \union {None}]
    /\ status \in Statuses
    /\ ros \in Seq(RosCommand)
    /\ xml \in [Tasks -> Trajectory \union {None}]
    /\ mission \in [Tasks -> MissionRecord \union {None}]
    /\ latest \in Tasks \union {None}
    /\ active \in ActiveRecord \union {None}

Init ==
    /\ up = FALSE /\ marker = FALSE /\ handling = None
    /\ transfer = None /\ execution = None /\ pendingExecute = None
    /\ preparation = None /\ cleanup = None /\ emergency = None
    /\ ackCache = [r \in Requests |-> None]
    /\ status = "no_task" /\ ros = <<>>
    /\ xml = [t \in Tasks |-> None] /\ mission = [t \in Tasks |-> None]
    /\ latest = None /\ active = None

-----------------------------------------------------------------------------
(* Helpers of the handlers.                                                *)

\* _publish_command: identity of a record, under a request ID.
Ros(action, request, task, exec, rev) ==
    [action |-> action, request |-> request, task |-> task, exec |-> exec, rev |-> rev]

\* _ack and _cache: the answer to c is stored under its request ID.
Answer(c, answer) ==
    ackCache' = [ackCache EXCEPT ![c.request] = [command |-> c, answer |-> answer]]

\* A handler that only answers: nothing but the ACK cache changes.
AnswerOnly(c, answer) ==
    /\ Answer(c, answer)
    /\ ros' = <<>>
    /\ UNCHANGED <<up, transfer, execution, pendingExecute, preparation, cleanup,
                   emergency, status, disk, marker>>

\* _stored_record: the preparation's record, else the stored trajectory's.
IsStored(t) ==
    \/ preparation # None /\ preparation.task = t
    \/ xml[t] # None

StoredRev(t) ==
    IF preparation # None /\ preparation.task = t THEN preparation.rev ELSE xml[t].rev

\* Mutant of Persisted: the whole in-memory record is written.
PersistedWhole(e) == e

\* Execution.persisted
Persisted(e) ==
    [task |-> e.task, rev |-> e.rev, exec |-> e.exec, request |-> e.request,
     state |-> e.state]

\* The status _release_execution publishes.
ReleasedStatus ==
    IF preparation # None /\ preparation.state = "ready" THEN "ready" ELSE "received"

\* _begin_preparation(trajectory, request) on top of the mission records m; it
\* looks at the marker again.
BeginPreparation(t, rev, request, m, saved) ==
    LET fresh == m[t] = None
        record == IF fresh THEN [rev |-> rev, state |-> "received"] ELSE m[t]
    IN  /\ preparation' = [task |-> t, rev |-> rev, request |-> request,
                           state |-> IF marker THEN "failed" ELSE "received",
                           retryable |-> ~marker]
        /\ mission' = [m EXCEPT ![t] = IF marker
                                         THEN [record EXCEPT !.state = "failed"]
                                         ELSE record]
        /\ latest' = IF saved \/ fresh \/ marker THEN t ELSE latest
        /\ status' = IF marker THEN "failed" ELSE "received"
        /\ ros' = IF marker THEN <<>>
                            ELSE <<Ros("PREPARE", request, t, None, rev)>>
        /\ UNCHANGED marker

\* _begin_cleanup: forget the preparation, whichever task it is for, and UNLOAD.
BeginCleanup(c, kind) ==
    /\ preparation' = None
    /\ cleanup' = [command |-> c, rev |-> StoredRev(c.task), kind |-> kind]
    /\ ros' = <<Ros("UNLOAD", c.request, c.task, None, StoredRev(c.task))>>
    /\ UNCHANGED <<xml, mission, latest>>

\* MissionStore.latest once the record of t is gone: the next newest one.
LatestWithout(t) ==
    LET rest == {u \in Tasks \ {t} : mission[u] # None}
    IN  IF latest # t THEN {latest} ELSE IF rest = {} THEN {None} ELSE rest

\* Mutant of DeleteTask: the mission record is left behind.
DeleteTaskKeepsRecord(t) ==
    /\ xml' = [xml EXCEPT ![t] = None]
    /\ UNCHANGED <<mission, latest>>

\* The disk part of _complete_cleanup.
DeleteTask(t) ==
    /\ mission' = [mission EXCEPT ![t] = None]
    /\ xml' = [xml EXCEPT ![t] = None]
    /\ latest' \in LatestWithout(t)

\* _complete_cleanup: clears both slots, whichever task they are for.
CompleteCleanup(t) ==
    /\ cleanup' = None
    /\ preparation' = None
    /\ DeleteTask(t)
    /\ ros' = <<>>

\* MissionStore.update_state
UpdateState(t, state) ==
    /\ mission' = [mission EXCEPT ![t] = IF @ = None THEN None
                                                     ELSE [@ EXCEPT !.state = state]]
    /\ latest' = IF mission[t] = None THEN latest ELSE t

-----------------------------------------------------------------------------
(* Ground station datagrams (handle_datagram).                             *)

\* Mutant of Receives: no request ID is recognised as a repeat.
ReceivesRepeats(c, type) == up /\ c.type = type

\* _repeat finds no unexpired answer for the request ID: the handler runs.
Receives(c, type) ==
    /\ up
    /\ c.type = type
    /\ ackCache[c.request] = None

\* _reject_if_emergency_stopped, the refusal; a transfer is discarded with it.
RejectLatched(c, discardTransfer) ==
    /\ transfer' = IF discardTransfer THEN None ELSE transfer
    /\ status' = "failed"
    /\ Answer(c, "rejected")
    /\ ros' = <<>>
    /\ UNCHANGED <<up, execution, pendingExecute, preparation, cleanup, emergency,
                   disk, marker>>

\* Mutant of Latched: a marker that appeared during a transfer is missed.
LatchedBeforeTransfer == marker /\ transfer = None

\* _reject_if_emergency_stopped, the look.
Latched == marker

\* The handlers that look at the marker before anything else: one that finds it
\* refuses, another goes on without looking again.
LookAtMarker(c) ==
    /\ c.type \in {"task_prepare", "task_commit", "execute_task"}
    /\ Receives(c, c.type)
    /\ \/ /\ Latched
          /\ RejectLatched(c, c.type # "execute_task")
          /\ UNCHANGED handling
       \/ /\ ~Latched
          /\ handling' = c
          /\ ros' = <<>>
          /\ UNCHANGED <<up, volatile, disk, marker>>

\* The rest of such a handler.
Handles(c, type) ==
    /\ Receives(c, type)
    /\ handling = c

Negotiate(c) ==
    /\ Receives(c, "negotiate_task")
    /\ AnswerOnly(c, "accepted")

ReadTask(c) ==
    /\ Receives(c, "read_task")
    /\ AnswerOnly(c, IF mission[c.task] = None THEN "rejected" ELSE "accepted")

\* Mutant of PrepareRefused: the stored revision is not looked at.
PrepareRefusedAnyRevision(c) ==
    \/ execution # None /\ execution.task = c.task
    \/ transfer # None /\ transfer.task # c.task

\* The BUSY and REVISION_MISMATCH answers of _prepare.
PrepareRefused(c) ==
    \/ execution # None /\ execution.task = c.task
    \/ transfer # None /\ transfer.task # c.task
    \/ /\ xml[c.task] # None
       /\ \/ c.rev < xml[c.task].rev
          \/ c.rev = xml[c.task].rev /\ c.crc # xml[c.task].crc

Prepare(c) ==
    /\ Handles(c, "task_prepare")
    /\ \/ PrepareRefused(c) /\ AnswerOnly(c, "rejected")
       \/ /\ ~PrepareRefused(c)
          /\ transfer' = [task |-> c.task, rev |-> c.rev, crc |-> c.crc,
                          chunks |-> [i \in Chunks |-> "absent"]]
          /\ status' = "receiving"
          /\ Answer(c, "accepted")
          /\ ros' = <<>>
          /\ UNCHANGED <<up, execution, pendingExecute, preparation, cleanup,
                         emergency, disk, marker>>

\* _chunk: the first copy of a chunk is kept, whole or damaged.
Chunk(i, quality) ==
    /\ up
    /\ transfer # None
    /\ transfer.chunks[i] = "absent"
    /\ transfer' = [transfer EXCEPT !.chunks[i] = quality]
    /\ ros' = <<>>
    /\ UNCHANGED <<up, execution, pendingExecute, preparation, cleanup, emergency,
                   ackCache, status, disk, marker>>

\* _commit without a transfer: the trajectory may be stored already.
CommitStored(c) ==
    /\ Handles(c, "task_commit") /\ transfer = None
    /\ IF xml[c.task] # [rev |-> c.rev, crc |-> c.crc]
         THEN AnswerOnly(c, "rejected")
         ELSE IF preparation # None /\ preparation.rev = c.rev
                                    /\ preparation.task = c.task
           THEN AnswerOnly(c, "accepted")
           ELSE /\ Answer(c, "accepted")
                /\ BeginPreparation(c.task, c.rev, c.request, mission, FALSE)
                /\ UNCHANGED <<up, transfer, execution, pendingExecute, cleanup,
                               emergency, xml, active>>

CommitMatches(c) ==
    /\ transfer # None
    /\ transfer.task = c.task /\ transfer.rev = c.rev /\ transfer.crc = c.crc

CommitComplete(c) ==
    /\ Handles(c, "task_commit")
    /\ CommitMatches(c)
    /\ \A i \in Chunks : transfer.chunks[i] # "absent"

\* The metadata does not match, or the joined size is wrong: the transfer stays.
CommitRefused(c) ==
    /\ \/ /\ Handles(c, "task_commit")
          /\ transfer # None /\ ~CommitMatches(c)
       \/ CommitComplete(c) /\ \E i \in Chunks : transfer.chunks[i] = "bad"
    /\ AnswerOnly(c, "rejected")

\* Chunks are missing: they are asked for, and nothing is cached or kept.
CommitMissing(c) ==
    /\ Handles(c, "task_commit")
    /\ CommitMatches(c)
    /\ \E i \in Chunks : transfer.chunks[i] = "absent"
    /\ ros' = <<>>
    /\ UNCHANGED <<up, volatile, disk, marker>>

\* MissionStore.save of the trajectory c commits.
Received(c) == [mission EXCEPT ![c.task] = [rev |-> c.rev, state |-> "received"]]

\* decode_trajectory or a store write fails; written says how far it had come:
\* the mission record is only written after the XML, its manifest after both.
CommitFails(c, written) ==
    /\ CommitComplete(c)
    /\ written # "nothing" => \A i \in Chunks : transfer.chunks[i] = "good"
    /\ xml' = IF written = "nothing" THEN xml
              ELSE [xml EXCEPT ![c.task] = [rev |-> c.rev, crc |-> c.crc]]
    /\ mission' = IF written = "record" THEN Received(c) ELSE mission
    /\ latest' = IF written = "record" THEN c.task ELSE latest
    /\ transfer' = None
    /\ status' = IF xml[c.task] # None THEN "ready" ELSE "no_task"
    /\ Answer(c, "rejected")
    /\ ros' = <<>>
    /\ UNCHANGED <<up, execution, pendingExecute, preparation, cleanup, emergency,
                   active, marker>>

CommitSucceeds(c) ==
    /\ CommitComplete(c)
    /\ \A i \in Chunks : transfer.chunks[i] = "good"
    /\ xml' = [xml EXCEPT ![c.task] = [rev |-> c.rev, crc |-> c.crc]]
    /\ transfer' = None
    /\ Answer(c, "accepted")
    /\ BeginPreparation(c.task, c.rev, c.request, Received(c), TRUE)
    /\ UNCHANGED <<up, execution, pendingExecute, cleanup, emergency, active>>

Commit(c) ==
    \/ CommitStored(c)
    \/ CommitRefused(c)
    \/ CommitMissing(c)
    \/ \E written \in {"nothing", "xml", "record"} : CommitFails(c, written)
    \/ CommitSucceeds(c)

\* The guards of _execute that a state can fail; its clock checks and a missing
\* ROS subscriber may refuse any request.
ExecuteAllowed(c) ==
    /\ execution = None
    /\ xml[c.task] # None /\ xml[c.task].rev = c.rev
    /\ preparation # None /\ preparation.state = "ready"
    /\ preparation.rev = c.rev /\ preparation.task = c.task

ExecuteRefused(c) ==
    /\ Handles(c, "execute_task")
    /\ AnswerOnly(c, "rejected")

Execute(c) ==
    /\ Handles(c, "execute_task")
    /\ ExecuteAllowed(c)
    /\ execution' = [task |-> c.task, rev |-> c.rev, exec |-> c.exec,
                     request |-> c.request, requests |-> {c.request},
                     state |-> "scheduling"]
    /\ pendingExecute' = c
    /\ status' = "scheduling"
    /\ active' = Persisted(execution')
    /\ Answer(c, "pending")
    /\ ros' = <<Ros("SCHEDULE", c.request, c.task, c.exec, c.rev)>>
    /\ UNCHANGED <<up, transfer, preparation, cleanup, emergency, xml, mission,
                   latest, marker>>

\* _terminate with _cancel or _stop: the answer is given before the adapter acts.
Terminate(c) ==
    /\ Receives(c, "terminate_task")
    /\ IF execution = None \/ execution.task # c.task \/ execution.exec # c.exec
         THEN AnswerOnly(c, "rejected")
         ELSE /\ execution' = [execution EXCEPT !.requests = @ \union {c.request}]
              /\ Answer(c, "accepted")
              /\ ros' = <<Ros(IF execution.state = "running" THEN "STOP" ELSE "CANCEL",
                              c.request, execution.task, execution.exec, execution.rev)>>
              /\ UNCHANGED <<up, transfer, pendingExecute, preparation, cleanup,
                             emergency, status, disk, marker>>

\* The record _emergency_stop sends: what is executing, else what is stored,
\* else the command itself.
EmergencyRecord(c) ==
    CASE execution # None ->
           [command |-> c, task |-> execution.task, rev |-> execution.rev,
            exec |-> execution.exec]
      [] execution = None /\ IsStored(c.task) ->
           [command |-> c, task |-> c.task, rev |-> StoredRev(c.task), exec |-> None]
      [] OTHER ->
           [command |-> c, task |-> c.task, rev |-> c.rev, exec |-> c.exec]

EmergencyStop(c) ==
    /\ Receives(c, "emergency_stop")
    /\ emergency' = EmergencyRecord(c)
    /\ Answer(c, "pending")
    /\ ros' = <<Ros("EMERGENCY_STOP", c.request, emergency'.task, emergency'.exec,
                    emergency'.rev)>>
    /\ UNCHANGED <<up, transfer, execution, pendingExecute, preparation, cleanup,
                   status, disk, marker>>

Delete(c) ==
    /\ Receives(c, "delete_task")
    /\ IF execution # None
         THEN AnswerOnly(c, "rejected")
         ELSE /\ IF IsStored(c.task)
                   THEN /\ BeginCleanup(c, "delete")
                        /\ Answer(c, "pending")
                        /\ UNCHANGED status
                   ELSE /\ CompleteCleanup(c.task)
                        /\ status' = "no_task"
                        /\ Answer(c, "accepted")
              /\ UNCHANGED <<up, transfer, execution, pendingExecute, emergency,
                             active, marker>>

\* The cached answer outlives ack_cache_seconds: the next repeat is handled anew.
\* That is 60 s in every shipped profile and an execute_task is decided within
\* adapter_feedback_seconds (2 s), so a pending one is still cached.
ExpireAnswer(r) ==
    /\ up
    /\ ackCache[r] # None
    /\ pendingExecute # None => pendingExecute.request # r
    /\ ackCache' = [ackCache EXCEPT ![r] = None]
    /\ ros' = <<>>
    /\ UNCHANGED <<up, transfer, execution, pendingExecute, preparation, cleanup,
                   emergency, status, disk, marker>>

-----------------------------------------------------------------------------
(* Adapter feedback (feedback_callback).                                   *)

MatchesEmergency(m) ==
    /\ emergency # None
    /\ m.request = emergency.command.request /\ m.task = emergency.command.task
    /\ m.rev = emergency.rev
    /\ m.state \in {"emergency_stopped", "failed"}

MatchesCleanup(m) ==
    /\ cleanup # None
    /\ m.state = "unloaded"
    /\ m.request = cleanup.command.request /\ m.task = cleanup.command.task
    /\ m.rev = cleanup.rev

MatchesPreparation(m) ==
    /\ preparation # None
    /\ m.request = preparation.request /\ m.exec = None
    /\ m.task = preparation.task /\ m.rev = preparation.rev
    /\ m.state \in {"preparing", "ready", "failed"}

MatchesExecution(m) ==
    /\ execution # None
    /\ m.request \in execution.requests
    /\ m.task = execution.task /\ m.exec = execution.exec /\ m.rev = execution.rev

EmergencyFailed(m) ==
    /\ up /\ MatchesEmergency(m) /\ m.state = "failed"
    /\ emergency' = None
    /\ status' = "failed"
    /\ Answer(emergency.command, "rejected")
    /\ ros' = <<>>
    /\ UNCHANGED <<up, transfer, execution, pendingExecute, preparation, cleanup,
                   disk, marker>>

EmergencyConfirmed(m) ==
    /\ up /\ MatchesEmergency(m) /\ m.state = "emergency_stopped"
    /\ emergency' = None
    /\ execution' = None
    /\ pendingExecute' = IF execution = None THEN pendingExecute ELSE None
    /\ active' = IF execution = None THEN active ELSE None
    /\ status' = "emergency_stop"
    /\ Answer(emergency.command, "accepted")
    /\ LET c == emergency.command
       IN  IF IsStored(c.task)
             THEN BeginCleanup(c, "emergency")
             ELSE CompleteCleanup(c.task)
    /\ UNCHANGED <<up, transfer, marker>>

CleanupConfirmed(m) ==
    /\ up /\ ~MatchesEmergency(m) /\ MatchesCleanup(m)
    /\ CompleteCleanup(cleanup.command.task)
    /\ IF cleanup.kind = "delete"
         THEN status' = "no_task" /\ Answer(cleanup.command, "accepted")
         ELSE status' = "emergency_stop" /\ UNCHANGED ackCache
    /\ UNCHANGED <<up, transfer, execution, pendingExecute, emergency, active, marker>>

\* A preparation that failed for good swallows every later answer.
PreparationFeedback(m, latchedError) ==
    /\ up /\ ~MatchesEmergency(m) /\ ~MatchesCleanup(m) /\ MatchesPreparation(m)
    /\ ~(preparation.state = "failed" /\ ~preparation.retryable)
    /\ preparation' =
         [preparation EXCEPT
            !.state = m.state,
            !.retryable = IF m.state = "failed" THEN RetryOnFailure /\ ~latchedError ELSE @]
    /\ LET shown == IF m.state = "preparing" THEN "received" ELSE m.state
       IN  UpdateState(preparation.task, shown) /\ status' = shown
    /\ ros' = <<>>
    /\ UNCHANGED <<up, transfer, execution, pendingExecute, cleanup, emergency,
                   ackCache, xml, active, marker>>

ForExecution(m) ==
    /\ up
    /\ ~MatchesEmergency(m) /\ ~MatchesCleanup(m) /\ ~MatchesPreparation(m)
    /\ MatchesExecution(m)

\* Mutant of ReleaseExecution: active_execution.json is not cleared.
ReleaseExecutionKeepsRecord ==
    /\ execution' = None
    /\ pendingExecute' = None
    /\ status' = ReleasedStatus
    /\ UNCHANGED active

\* _release_execution
ReleaseExecution ==
    /\ execution' = None
    /\ pendingExecute' = None
    /\ active' = None
    /\ status' = ReleasedStatus

\* feedback "scheduled": record it, then _finish_scheduling(True).
ExecutionScheduled(m) ==
    /\ ForExecution(m)
    /\ execution.state = "scheduling" /\ m.state = "scheduled"
    /\ execution' = [execution EXCEPT !.state = "scheduled"]
    /\ active' = Persisted(execution')
    /\ status' = "scheduled"
    /\ pendingExecute' = None
    /\ IF pendingExecute = None THEN UNCHANGED ackCache
                                ELSE Answer(pendingExecute, "accepted")
    /\ ros' = <<>>
    /\ UNCHANGED <<up, transfer, preparation, cleanup, emergency, xml, mission,
                   latest, marker>>

\* Mutant of RejectExecution: the execution is rejected and not released.
RejectExecutionOnlyAnswers ==
    /\ pendingExecute # None
    /\ Answer(pendingExecute, "rejected")
    /\ pendingExecute' = None
    /\ UNCHANGED <<execution, active, status>>

\* _finish_scheduling(False)
RejectExecution ==
    /\ pendingExecute # None
    /\ Answer(pendingExecute, "rejected")
    /\ ReleaseExecution

\* While scheduling, a failure rejects the execution; other states are ignored.
SchedulingFailed(m) ==
    /\ ForExecution(m)
    /\ execution.state = "scheduling" /\ m.state = "failed"
    /\ RejectExecution
    /\ ros' = <<>>
    /\ UNCHANGED <<up, transfer, preparation, cleanup, emergency, xml, mission,
                   latest, marker>>

Successors(state) ==
    IF state = "scheduled" THEN {"scheduled", "running", "failed", "stopped"}
    ELSE IF state = "running" THEN {"running", "completed", "stopped", "failed"}
    ELSE {}

ExecutionProgress(m) ==
    /\ ForExecution(m)
    /\ m.state \in Successors(execution.state) \intersect LiveStates
    /\ execution' = [execution EXCEPT !.state = m.state]
    /\ active' = Persisted(execution')
    /\ status' = m.state
    /\ ros' = <<>>
    /\ UNCHANGED <<up, transfer, pendingExecute, preparation, cleanup, emergency,
                   ackCache, xml, mission, latest, marker>>

ExecutionEnded(m) ==
    /\ ForExecution(m)
    /\ m.state \in Successors(execution.state) \intersect TerminalStates
    /\ ReleaseExecution
    /\ ros' = <<>>
    /\ UNCHANGED <<up, transfer, preparation, cleanup, emergency, ackCache, xml,
                   mission, latest, marker>>

\* What the adapter may say: an answer to a command that is outstanding.
Echo(requests, task, exec, rev, states) ==
    [request : requests, task : {task}, exec : {exec}, rev : {rev}, state : states]

Echoes ==
    (IF emergency = None THEN {} ELSE
       Echo({emergency.command.request}, emergency.task, emergency.exec, emergency.rev,
            {"emergency_stopped", "failed"}))
    \union (IF cleanup = None THEN {} ELSE
       Echo({cleanup.command.request}, cleanup.command.task, None, cleanup.rev, {"unloaded"}))
    \union (IF preparation = None THEN {} ELSE
       Echo({preparation.request}, preparation.task, None, preparation.rev,
            {"preparing", "ready", "failed"}))
    \union (IF execution = None THEN {} ELSE
       Echo(execution.requests, execution.task, execution.exec, execution.rev,
            {"scheduled", "running", "completed", "stopped", "failed"}))

FeedbackCallback(m) ==
    \/ EmergencyFailed(m)
    \/ EmergencyConfirmed(m)
    \/ CleanupConfirmed(m)
    \/ \E latchedError \in BOOLEAN : PreparationFeedback(m, latchedError)
    \/ ExecutionScheduled(m)
    \/ SchedulingFailed(m)
    \/ ExecutionProgress(m)
    \/ ExecutionEnded(m)

-----------------------------------------------------------------------------
(* Watchdog, start, close, crashes.                                        *)

\* Mutant of Armed: a preparation that failed for good is retried as well.
ArmedAlwaysRetries ==
    {t \in Timers :
        CASE t = "unload"    -> cleanup # None
          [] t = "emergency" -> emergency # None
          [] t = "transfer"  -> transfer # None
          [] t = "prepare"   -> preparation # None /\ preparation.state # "ready"
          [] t = "execution" -> /\ execution # None
                                /\ execution.state = "scheduling" => pendingExecute # None}

\* Mutant of Armed: only an accepted execution is supervised.
ArmedOnceScheduled ==
    {t \in Timers :
        CASE t = "unload"    -> cleanup # None
          [] t = "emergency" -> emergency # None
          [] t = "transfer"  -> transfer # None
          [] t = "prepare"   -> /\ preparation # None
                                /\ preparation.state # "ready" /\ preparation.retryable
          [] t = "execution" -> execution # None /\ execution.state # "scheduling"}

\* The timers that can be due at a tick.
Armed ==
    {t \in Timers :
        CASE t = "unload"    -> cleanup # None
          [] t = "emergency" -> emergency # None
          [] t = "transfer"  -> transfer # None
          [] t = "prepare"   -> /\ preparation # None
                                /\ preparation.state # "ready" /\ preparation.retryable
          [] t = "execution" -> /\ execution # None
                                /\ execution.state = "scheduling" => pendingExecute # None}

Only(condition, command) == IF condition THEN <<command>> ELSE <<>>

\* _watchdog_locked, with the timers in due expired: resend what is not
\* confirmed, drop a stalled transfer, prepare again, give up an execution.
Watchdog(due) ==
    LET waits == execution # None /\ execution.state = "scheduling"
        stops == "execution" \in due /\ ~waits
        afterTransfer == IF "transfer" \notin due THEN status
                         ELSE IF xml[transfer.task] # None THEN "ready" ELSE "no_task"
        afterPrepare == IF "prepare" \in due THEN "received" ELSE afterTransfer
    IN  /\ up
        /\ due # {} /\ due \subseteq Armed
        /\ transfer' = IF "transfer" \in due THEN None ELSE transfer
        /\ preparation' = IF "prepare" \in due
                            THEN [preparation EXCEPT !.state = "received"]
                            ELSE preparation
        /\ IF "execution" \in due
             THEN /\ execution' = None /\ pendingExecute' = None /\ active' = None
                  /\ status' = IF preparation' # None /\ preparation'.state = "ready"
                                 THEN "ready" ELSE "received"
                  /\ IF waits THEN Answer(pendingExecute, "rejected")
                              ELSE UNCHANGED ackCache
             ELSE /\ status' = afterPrepare
                  /\ UNCHANGED <<execution, pendingExecute, active, ackCache>>
        /\ ros' = Only("unload" \in due,
                       Ros("UNLOAD", cleanup.command.request, cleanup.command.task, None,
                           cleanup.rev))
               \o Only("emergency" \in due,
                       Ros("EMERGENCY_STOP", emergency.command.request, emergency.task,
                           emergency.exec, emergency.rev))
               \o Only("prepare" \in due,
                       Ros("PREPARE", preparation.request, preparation.task, None,
                           preparation.rev))
               \o Only(stops,
                       Ros("STOP", "watchdog-stop", execution.task, execution.exec,
                           execution.rev))
        /\ UNCHANGED <<up, cleanup, emergency, xml, mission, latest, marker>>

\* The process's memory before start() has recovered anything.
ForgetVolatile ==
    /\ transfer' = None /\ execution' = None /\ pendingExecute' = None
    /\ preparation' = None /\ cleanup' = None /\ emergency' = None
    /\ ackCache' = [r \in Requests |-> None]
    /\ status' = "no_task"

\* start: _recover_execution, then _recover_preparation.
Start ==
    LET interrupted == active # None /\ active.state \in LiveStates
        recovered == Only(interrupted,
            Ros(IF active.state = "running" THEN "STOP" ELSE "CANCEL", active.request,
                active.task, active.exec, active.rev))
        stored == /\ latest # None
                  /\ xml[latest] # None /\ xml[latest].rev = mission[latest].rev
        terminal == stored /\ mission[latest].state = "failed" /\ ~RetryOnFailure
        prepares == stored /\ ~terminal
    IN  /\ ~up
        /\ up' = TRUE
        /\ transfer' = None /\ execution' = None /\ pendingExecute' = None
        /\ cleanup' = None /\ emergency' = None
        /\ ackCache' = [r \in Requests |-> None]
        /\ active' = IF interrupted THEN None ELSE active
        /\ preparation' = IF prepares
             THEN [task |-> latest, rev |-> xml[latest].rev, request |-> "recovery",
                   state |-> IF marker THEN "failed" ELSE "received",
                   retryable |-> ~marker]
             ELSE None
        /\ mission' = IF prepares /\ marker
                        THEN [mission EXCEPT ![latest].state = "failed"] ELSE mission
        /\ status' = IF terminal \/ (prepares /\ marker) THEN "failed"
                     ELSE IF prepares THEN "received" ELSE "no_task"
        /\ ros' = recovered \o Only(prepares /\ ~marker,
                      Ros("PREPARE", "recovery", latest, None, xml[latest].rev))
        /\ UNCHANGED <<xml, latest, marker>>

\* close: stop what runs and unload what is prepared; the disk stays as it is.
Close ==
    /\ up
    /\ up' = FALSE
    /\ ForgetVolatile
    /\ ros' = Only(execution # None,
                   Ros(IF execution.state = "running" THEN "STOP" ELSE "CANCEL",
                       "shutdown", execution.task, execution.exec, execution.rev))
           \o Only(preparation # None,
                   Ros("UNLOAD", "shutdown-unload", preparation.task, None,
                       preparation.rev))
    /\ UNCHANGED <<disk, marker>>

\* The process dies; everything it published before is gone with the topic.
Dies ==
    /\ up
    /\ up' = FALSE
    /\ ForgetVolatile
    /\ ros' = <<>>
    /\ UNCHANGED marker

Crash == Dies /\ UNCHANGED disk

\* It dies in a handler, after some of the handler's disk writes: the XML of a
\* commit without its mission record, a terminal execution not cleared yet, a
\* task whose mission record is deleted and whose XML is not.
CrashInCommit(c) ==
    /\ CommitComplete(c)
    /\ \A i \in Chunks : transfer.chunks[i] = "good"
    /\ Dies
    /\ xml' = [xml EXCEPT ![c.task] = [rev |-> c.rev, crc |-> c.crc]]
    /\ UNCHANGED <<mission, latest, active>>

CrashInRelease(m) ==
    /\ ForExecution(m)
    /\ m.state \in Successors(execution.state) \intersect TerminalStates
    /\ Dies
    /\ active' = [Persisted(execution) EXCEPT !.state = m.state]
    /\ UNCHANGED <<xml, mission, latest>>

CrashInCleanup(m) ==
    /\ ~MatchesEmergency(m) /\ MatchesCleanup(m)
    /\ Dies
    /\ mission' = [mission EXCEPT ![cleanup.command.task] = None]
    /\ latest' \in LatestWithout(cleanup.command.task)
    /\ UNCHANGED <<xml, active>>

\* The adapter sets the marker when it latches, and an operator resets it, at
\* any time: neither takes the coordinator's lock.
MarkerChanges ==
    /\ marker' = ~marker
    /\ ros' = <<>>
    /\ UNCHANGED <<up, handling, volatile, disk>>

-----------------------------------------------------------------------------

\* The handlers that do not look at the marker.
Datagram(c) ==
    \/ Negotiate(c)
    \/ ReadTask(c)
    \/ Terminate(c)
    \/ EmergencyStop(c)
    \/ Delete(c)

\* The rest of the handlers that do.
MarkedDatagram(c) ==
    \/ Prepare(c)
    \/ Commit(c)
    \/ ExecuteRefused(c)
    \/ Execute(c)

\* What runs under the lock in one step, between two handlers.
Unmarked ==
    \/ \E c \in Commands : Datagram(c)
    \/ \E i \in Chunks, quality \in {"good", "bad"} : Chunk(i, quality)
    \/ \E r \in Requests : ExpireAnswer(r)
    \/ \E m \in Echoes : FeedbackCallback(m)
    \/ \E due \in SUBSET Timers : Watchdog(due)
    \/ Start
    \/ \E m \in Echoes : CrashInRelease(m) \/ CrashInCleanup(m)

Next ==
    \/ handling = None /\ Unmarked /\ UNCHANGED handling
    \/ handling = None /\ \E c \in Commands : LookAtMarker(c)
    \/ handling' = None /\ \E c \in Commands : MarkedDatagram(c) \/ CrashInCommit(c)
    \/ handling' = None /\ (Close \/ Crash)
    \/ MarkerChanges

Spec == Init /\ [][Next]_vars

\* The ROS timer keeps ticking, and a tick that waits for the lock gets it when
\* handlers release it again and again: a scheduling that never hears from the
\* adapter is eventually found overdue.
OverdueTick ==
    /\ handling = None /\ UNCHANGED handling
    /\ \E due \in SUBSET Timers : "execution" \in due /\ Watchdog(due)

\* A handler that has looked at the marker goes on and gives the lock back.
HandlerGoesOn == handling' = None /\ \E c \in Commands : MarkedDatagram(c)

FairSpec == Spec /\ SF_vars(OverdueTick) /\ WF_vars(HandlerGoesOn)

-----------------------------------------------------------------------------
(* Properties.                                                             *)

\* Whatever the adapter was asked to execute is on disk in the state last
\* reported, so a restart finds it and revokes it; a running process without an
\* execution leaves no live record behind.
ActiveRecordTracksExecution ==
    /\ execution # None => active = Persisted(execution)
    /\ up /\ execution = None => active = None \/ active.state \in TerminalStates

\* An execute_task is waiting for its answer exactly while its execution waits
\* for the adapter's confirmation.
PendingExecuteIffScheduling ==
    /\ pendingExecute # None <=> execution # None /\ execution.state = "scheduling"
    /\ pendingExecute # None => pendingExecute.request = execution.request

\* At every crash point the two stores agree: a mission record and a
\* preparation always have a trajectory, of their revision or a newer one.
StoresAgree ==
    /\ preparation # None =>
         xml[preparation.task] # None /\ preparation.rev <= xml[preparation.task].rev
    /\ \A t \in Tasks : mission[t] # None =>
         xml[t] # None /\ mission[t].rev <= xml[t].rev
    /\ latest # None => mission[latest] # None

\* A stored trajectory is never replaced by an older revision, nor by other
\* content under the same revision: the check of task_prepare decides what
\* task_commit writes later.
NoRollback ==
    [][\A t \in Tasks : xml[t] # None /\ xml'[t] # None =>
          /\ xml[t].rev <= xml'[t].rev
          /\ xml[t].rev = xml'[t].rev => xml[t].crc = xml'[t].crc]_vars

TerminallyFailed(p) == p # None /\ p.state = "failed" /\ ~p.retryable

\* A preparation refused for good (latched robot, or a profile without retry)
\* is not taken up again by late feedback, by the watchdog or by a repeated
\* commit, but only by a new transfer, another trajectory, or a restart.
TerminalFailureStays ==
    [][TerminallyFailed(preparation) =>
          \/ preparation' = preparation \/ preparation' = None
          \/ transfer # None /\ transfer' = None
          \/ preparation'.task # preparation.task \/ preparation'.rev # preparation.rev]_vars

\* A step gives the robot's plan something new: it begins a transfer, stores a
\* trajectory, or has one scheduled.
TakesWork ==
    \/ transfer = None /\ transfer' # None
    \/ \E t \in Tasks : xml'[t] \notin {xml[t], None}
    \/ \E i \in DOMAIN ros' : ros'[i].action = "SCHEDULE"

\* A marker that exists when a handler begins keeps new work from the robot's
\* plan: only a handler that looked before it appeared still finishes what it
\* does, once.  The robot is not asked to prepare either, unless the watchdog
\* repeats a request made before the marker appeared.
LatchBlocksNewWork ==
    [][/\ TakesWork => handling # None /\ handling' = None
       /\ marker => handling' \in {handling, None}
       /\ marker /\ (\E i \in DOMAIN ros' : ros'[i].action = "PREPARE") =>
             preparation # None /\ preparation.retryable /\ UNCHANGED handling]_vars

\* The answer to an execute_task never changes while it is cached: a repeat of
\* the request gets the answer the ground station has already acted on.
ExecuteAnswerIsFinal ==
    [][\A r \in Requests :
          /\ ackCache[r] # None /\ ackCache[r].command.type = "execute_task"
          /\ ackCache[r].answer # "pending" /\ ackCache'[r] # None
          => ackCache'[r] = ackCache[r]]_vars

\* Every execute_task that was submitted to the adapter is eventually answered,
\* even if the adapter never says anything about it, unless the process dies or
\* closes, or the robot confirms an emergency stop: those two drop the request,
\* the latter with an answer that stays pending.
ExecuteEventuallyDecided ==
    \A c \in {x \in Commands : x.type = "execute_task"} :
        pendingExecute = c ~>
            \/ ~up \/ status = "emergency_stop"
            \/ /\ ackCache[c.request] # None /\ ackCache[c.request].command = c
               /\ ackCache[c.request].answer \in {"accepted", "rejected"}

\* node.py refuses a transfer with "active execution protects this trajectory":
\* the trajectory the robot follows is the one on disk, until it is over.
ActiveTrajectoryProtected ==
    execution # None => xml[execution.task] # None /\ xml[execution.task].rev = execution.rev

\* The robot's confirmation of a pending emergency stop is one the coordinator
\* recognises, so that the stop is acknowledged and no longer repeated.
EmergencyConfirmable ==
    emergency # None =>
        \E m \in Echoes : MatchesEmergency(m) /\ m.state = "emergency_stopped"
=============================================================================
