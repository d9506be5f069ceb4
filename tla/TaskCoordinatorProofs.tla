------------------------ MODULE TaskCoordinatorProofs ------------------------
(***************************************************************************)
(* Theorems about TaskCoordinator, for every set of tasks, revisions,      *)
(* requests and commands.                                                  *)
(*                                                                         *)
(*   StoresInv     TypeOK /\ StoresAgree /\ TransferNotOlder is inductive: *)
(*                 start() needs StoresAgree to read the newest mission    *)
(*                 record, a commit needs TransferNotOlder to keep the     *)
(*                 stores in agreement.  NoRollback follows from it.       *)
(*   ExecutionInv  inductive given TypeOK.                                 *)
(*   DownIsEmpty   inductive: start() finds no preparation in memory, and  *)
(*                 TerminalFailureStays follows.                           *)
(*   AnswersInv    inductive given TypeOK: what the cache and the pending  *)
(*                 slots know of the commands they answer.  From it        *)
(*                 ExecuteAnswerIsFinal follows.                           *)
(* LatchBlocksNewWork needs only TypeOK.                                   *)
(*                                                                         *)
(* One lemma per action says what the action does to the invariant; the    *)
(* Step lemmas put them together, and only the theorems are temporal.      *)
(***************************************************************************)
EXTENDS TaskCoordinator, TLAPS

-----------------------------------------------------------------------------
(* Steps.                                                                  *)

\* A handler of a datagram, or the look it begins with.
AnyDatagram(c) == Datagram(c) \/ MarkedDatagram(c) \/ LookAtMarker(c)

\* The steps, whatever handler is under way.
LEMMA Steps ==
    ASSUME [Next]_vars
    PROVE  \/ \E c \in Commands : AnyDatagram(c)
           \/ \E i \in Chunks, quality \in {"good", "bad"} : Chunk(i, quality)
           \/ \E r \in Requests : ExpireAnswer(r)
           \/ \E m \in Echoes : FeedbackCallback(m)
           \/ \E due \in SUBSET Timers : Watchdog(due)
           \/ Start \/ Close \/ Crash
           \/ \E c \in Commands : CrashInCommit(c)
           \/ \E m \in Echoes : CrashInRelease(m) \/ CrashInCleanup(m)
           \/ MarkerChanges \/ UNCHANGED vars
BY DEF Next, Unmarked, AnyDatagram

-----------------------------------------------------------------------------
(* Types.                                                                  *)

\* A command built from typed fields is a RosCommand.
LEMMA RosType ==
    ASSUME NEW action \in RosActions, NEW request \in Requests \union OwnRequests,
           NEW task \in Tasks, NEW exec \in Executions \union {None}, NEW rev \in Revisions
    PROVE  Ros(action, request, task, exec, rev) \in RosCommand
BY DEF Ros, RosCommand

\* Publishing one command is a legal output of a step.
LEMMA OneCommand ==
    ASSUME NEW x \in RosCommand
    PROVE  <<x>> \in Seq(RosCommand)
OBVIOUS

\* So is publishing nothing.
LEMMA NoCommand == <<>> \in Seq(RosCommand)
OBVIOUS

\* Outputs of two parts of a handler, one after the other.
LEMMA AppendType ==
    ASSUME NEW s \in Seq(RosCommand), NEW t \in Seq(RosCommand)
    PROVE  s \o t \in Seq(RosCommand)
OBVIOUS

\* The first process starts with empty memory and empty disk.
LEMMA InitType == Init => TypeOK
BY NoCommand DEF Init, TypeOK, Statuses

\* _cache keeps the cache a function from request IDs to answers.
LEMMA CommandAnswerType ==
    ASSUME TypeOK, NEW c \in Command, NEW answer \in Answers, Answer(c, answer)
    PROVE  ackCache' \in [Requests -> CachedAnswer \union {None}]
BY DEF TypeOK, Answer, CachedAnswer, Command

\* The same for a command the ground station sent.
LEMMA AnswerType ==
    ASSUME TypeOK, NEW c \in Commands, NEW answer \in Answers, Answer(c, answer)
    PROVE  ackCache' \in [Requests -> CachedAnswer \union {None}]
BY CommandAnswerType, ConstantsOK

\* A handler that only answers preserves the types.
LEMMA AnswerOnlyType ==
    ASSUME TypeOK, handling' \in Commands \union {None}, NEW c \in Commands, NEW answer \in Answers, AnswerOnly(c, answer)
    PROVE  TypeOK'
BY AnswerType, NoCommand DEF TypeOK, AnswerOnly, disk

\* So does a refusal because of the emergency-stop marker.
LEMMA RejectLatchedType ==
    ASSUME TypeOK, handling' \in Commands \union {None}, NEW c \in Commands, NEW d \in BOOLEAN, RejectLatched(c, d)
    PROVE  TypeOK'
BY AnswerType, NoCommand DEF TypeOK, RejectLatched, disk, Answers, Statuses

\* _prepare stores a transfer of the type _chunk and _commit read.
LEMMA PrepareType ==
    ASSUME TypeOK, handling' \in Commands \union {None}, NEW c \in Commands, Prepare(c)
    PROVE  TypeOK'
<1>2. CASE AnswerOnly(c, "rejected")
  BY <1>2, AnswerOnlyType DEF Answers
<1>3. CASE /\ transfer' = [task |-> c.task, rev |-> c.rev, crc |-> c.crc,
                          chunks |-> [i \in Chunks |-> "absent"]]
          /\ status' = "receiving"
          /\ Answer(c, "accepted")
          /\ ros' = <<>>
          /\ UNCHANGED <<up, execution, pendingExecute, preparation, cleanup,
                         emergency, disk, marker>>
  BY <1>3, AnswerType, NoCommand, ConstantsOK DEF TypeOK, disk, Answers, Statuses, Transfer, Command
<1> QED BY <1>2, <1>3 DEF Prepare

\* _chunk adds one chunk to a transfer.
LEMMA ChunkType ==
    ASSUME TypeOK, handling' \in Commands \union {None}, NEW i \in Chunks, NEW quality \in {"good", "bad"}, Chunk(i, quality)
    PROVE  TypeOK'
BY NoCommand DEF TypeOK, Chunk, disk, Transfer

\* _begin_preparation leaves a typed preparation, record and output.
LEMMA BeginPreparationType ==
    ASSUME TypeOK, NEW t \in Tasks, NEW rev \in Revisions,
           NEW request \in Requests, NEW m \in [Tasks -> MissionRecord \union {None}],
           NEW saved \in BOOLEAN, saved => m[t] # None,
           BeginPreparation(t, rev, request, m, saved)
    PROVE  /\ marker' \in BOOLEAN
           /\ preparation' \in Preparation \union {None}
           /\ mission' \in [Tasks -> MissionRecord \union {None}]
           /\ latest' \in Tasks \union {None}
           /\ status' \in Statuses
           /\ ros' \in Seq(RosCommand)
<1> USE DEF TypeOK
<1> DEFINE record == IF m[t] = None THEN [rev |-> rev, state |-> "received"] ELSE m[t]
<1>1. record \in MissionRecord
  BY DEF MissionRecord
<1>2. [record EXCEPT !.state = "failed"] \in MissionRecord
  BY <1>1 DEF MissionRecord
<1>3. mission' = [m EXCEPT ![t] = IF marker THEN [record EXCEPT !.state = "failed"]
                                            ELSE record]
  BY DEF BeginPreparation
<1>4. mission' \in [Tasks -> MissionRecord \union {None}]
  BY <1>1, <1>2, <1>3
<1>5. preparation' \in Preparation
  BY DEF BeginPreparation, Preparation
<1>6. Ros("PREPARE", request, t, None, rev) \in RosCommand
  BY RosType DEF RosActions
<1>7. ros' \in Seq(RosCommand)
  BY <1>6, OneCommand, NoCommand DEF BeginPreparation
<1> QED BY <1>4, <1>5, <1>7 DEF BeginPreparation, Statuses

\* _commit without a transfer preserves the types.
LEMMA CommitStoredType ==
    ASSUME TypeOK, handling' \in Commands \union {None}, NEW c \in Commands, CommitStored(c)
    PROVE  TypeOK'
<1>1. CASE AnswerOnly(c, "rejected")
  BY <1>1, AnswerOnlyType DEF Answers
<1>2. CASE AnswerOnly(c, "accepted")
  BY <1>2, AnswerOnlyType DEF Answers
<1>3. CASE /\ Answer(c, "accepted")
           /\ BeginPreparation(c.task, c.rev, c.request, mission, FALSE)
           /\ UNCHANGED <<up, transfer, execution, pendingExecute, cleanup,
                          emergency, xml, active>>
  <2>1. c.task \in Tasks /\ c.rev \in Revisions /\ c.request \in Requests
    BY ConstantsOK DEF Command
  <2>2. mission \in [Tasks -> MissionRecord \union {None}]
    BY DEF TypeOK
  <2> QED BY <1>3, <2>1, <2>2, AnswerType, BeginPreparationType DEF TypeOK, Answers
<1> QED BY <1>1, <1>2, <1>3 DEF CommitStored

\* _commit that answers without writing preserves the types.
LEMMA CommitRefusedType ==
    ASSUME TypeOK, handling' \in Commands \union {None}, NEW c \in Commands, CommitRefused(c)
    PROVE  TypeOK'
BY AnswerOnlyType DEF CommitRefused, Answers

\* MissionStore.save replaces one record.
LEMMA ReceivedType ==
    ASSUME TypeOK, NEW c \in Commands
    PROVE  /\ Received(c) \in [Tasks -> MissionRecord \union {None}]
           /\ Received(c)[c.task] # None /\ Received(c)[c.task].rev = c.rev
           /\ \A t \in Tasks \ {c.task} : Received(c)[t] = mission[t]
<1>1. c.task \in Tasks /\ c.rev \in Revisions
  BY ConstantsOK DEF Command
<1>2. [rev |-> c.rev, state |-> "received"] \in MissionRecord
  BY <1>1 DEF MissionRecord
<1> QED BY <1>1, <1>2, NoneIsNoRecord DEF TypeOK, Received

\* _commit whose decoding or writing fails preserves the types.
LEMMA CommitFailsType ==
    ASSUME TypeOK, handling' \in Commands \union {None}, NEW c \in Commands, NEW written, CommitFails(c, written)
    PROVE  TypeOK'
<1>1. [rev |-> c.rev, crc |-> c.crc] \in Trajectory /\ c.task \in Tasks
  BY ConstantsOK DEF Command, Trajectory
<1>2. ackCache' \in [Requests -> CachedAnswer \union {None}]
  BY AnswerType DEF CommitFails, Answers
<1>3. mission' \in [Tasks -> MissionRecord \union {None}]
  BY ReceivedType DEF CommitFails, TypeOK
<1> QED BY <1>1, <1>2, <1>3, NoCommand DEF TypeOK, CommitFails, Statuses

\* _commit that stores the trajectory preserves the types.
LEMMA CommitSucceedsType ==
    ASSUME TypeOK, handling' \in Commands \union {None}, NEW c \in Commands, CommitSucceeds(c)
    PROVE  TypeOK'
<1>1. c.task \in Tasks /\ c.rev \in Revisions /\ c.request \in Requests /\ c.crc \in Crcs
  BY ConstantsOK DEF Command
<1>2. [rev |-> c.rev, crc |-> c.crc] \in Trajectory
  BY <1>1 DEF Trajectory
<1>3. ackCache' \in [Requests -> CachedAnswer \union {None}]
  BY AnswerType DEF CommitSucceeds, Answers
<1>4. BeginPreparation(c.task, c.rev, c.request, Received(c), TRUE)
  BY DEF CommitSucceeds
<1>5. /\ marker' \in BOOLEAN
      /\ preparation' \in Preparation \union {None}
      /\ mission' \in [Tasks -> MissionRecord \union {None}]
      /\ latest' \in Tasks \union {None}
      /\ status' \in Statuses
      /\ ros' \in Seq(RosCommand)
  BY <1>1, <1>4, ReceivedType, BeginPreparationType
<1> QED BY <1>1, <1>2, <1>3, <1>5 DEF TypeOK, CommitSucceeds

\* _commit preserves the types.
LEMMA CommitType ==
    ASSUME TypeOK, handling' \in Commands \union {None}, NEW c \in Commands, Commit(c)
    PROVE  TypeOK'
<1>1. CASE CommitMissing(c)
  BY <1>1, NoCommand DEF CommitMissing, TypeOK, volatile, disk
<1> QED BY <1>1, CommitStoredType, CommitRefusedType, CommitFailsType, CommitSucceedsType
        DEF Commit

\* A refused _execute preserves the types.
LEMMA ExecuteRefusedType ==
    ASSUME TypeOK, handling' \in Commands \union {None}, NEW c \in Commands, ExecuteRefused(c)
    PROVE  TypeOK'
BY AnswerOnlyType DEF ExecuteRefused, Answers

\* What is saved of an execution is an active record.
LEMMA PersistedType ==
    ASSUME NEW e \in Execution
    PROVE  Persisted(e) \in ActiveRecord
BY DEF Execution, Persisted, ActiveRecord

\* _execute preserves the types.
LEMMA ExecuteType ==
    ASSUME TypeOK, handling' \in Commands \union {None}, NEW c \in Commands, Execute(c)
    PROVE  TypeOK'
<1>1. /\ c.task \in Tasks /\ c.rev \in Revisions /\ c.request \in Requests
      /\ c.exec \in Executions
  BY ConstantsOK DEF Execute, Handles, Receives, Command
<1>2. execution' \in Execution
  BY <1>1 DEF Execute, Execution, LiveStates
<1>3. active' \in ActiveRecord
  BY <1>2, PersistedType DEF Execute
<1>4. ackCache' \in [Requests -> CachedAnswer \union {None}]
  BY AnswerType DEF Execute, Answers
<1>5. ros' \in Seq(RosCommand)
  <2>1. Ros("SCHEDULE", c.request, c.task, c.exec, c.rev) \in RosCommand
    BY <1>1, RosType DEF RosActions
  <2> QED BY <2>1, OneCommand DEF Execute
<1> QED BY <1>2, <1>3, <1>4, <1>5 DEF TypeOK, Execute, Statuses

\* _terminate preserves the types.
LEMMA TerminateType ==
    ASSUME TypeOK, handling' \in Commands \union {None}, NEW c \in Commands, Terminate(c)
    PROVE  TypeOK'
<1>1. CASE AnswerOnly(c, "rejected")
  BY <1>1, AnswerOnlyType DEF Answers
<1>2. CASE /\ execution # None
           /\ execution' = [execution EXCEPT !.requests = @ \union {c.request}]
           /\ Answer(c, "accepted")
           /\ ros' = <<Ros(IF execution.state = "running" THEN "STOP" ELSE "CANCEL",
                           c.request, execution.task, execution.exec, execution.rev)>>
           /\ UNCHANGED <<up, transfer, pendingExecute, preparation, cleanup,
                          emergency, status, disk, marker>>
  <2>1. execution \in Execution /\ c.request \in Requests
    BY <1>2, ConstantsOK DEF TypeOK, Command
  <2>2. execution' \in Execution
    BY <1>2, <2>1 DEF Execution
  <2>3. ros' \in Seq(RosCommand)
    <3>1. /\ execution.task \in Tasks /\ execution.exec \in Executions
          /\ execution.rev \in Revisions
      BY <2>1 DEF Execution
    <3>2. Ros(IF execution.state = "running" THEN "STOP" ELSE "CANCEL",
              c.request, execution.task, execution.exec, execution.rev) \in RosCommand
      BY <2>1, <3>1, RosType DEF RosActions
    <3> QED BY <1>2, <3>2, OneCommand
  <2> QED BY <1>2, <2>2, <2>3, AnswerType DEF TypeOK, Answers, disk
<1> QED BY <1>1, <1>2 DEF Terminate

\* A stored task has a revision: of its preparation, or of its trajectory.
LEMMA StoredRevType ==
    ASSUME TypeOK, NEW t \in Tasks, IsStored(t)
    PROVE  StoredRev(t) \in Revisions
BY DEF TypeOK, IsStored, StoredRev, Preparation, Trajectory

\* _emergency_stop finds a typed record to stop in each of its three cases.
LEMMA EmergencyStopType ==
    ASSUME TypeOK, handling' \in Commands \union {None}, NEW c \in Commands, EmergencyStop(c)
    PROVE  TypeOK'
<1>1. /\ c.task \in Tasks /\ c.rev \in Revisions /\ c.request \in Requests
      /\ c.exec \in Executions \union {None} /\ c \in Command
  BY ConstantsOK DEF Command
<1>2. EmergencyRecord(c) \in Emergency
  <2>1. CASE execution # None
    BY <1>1, <2>1 DEF TypeOK, EmergencyRecord, Emergency, Execution
  <2>2. CASE execution = None /\ IsStored(c.task)
    BY <1>1, <2>2, StoredRevType DEF EmergencyRecord, Emergency
  <2>3. CASE execution = None /\ ~IsStored(c.task)
    BY <1>1, <2>3 DEF EmergencyRecord, Emergency
  <2> QED BY <2>1, <2>2, <2>3
<1>3. ros' \in Seq(RosCommand)
  <2>1. emergency' = EmergencyRecord(c)
    BY DEF EmergencyStop
  <2>2. /\ emergency'.task \in Tasks /\ emergency'.rev \in Revisions
        /\ emergency'.exec \in Executions \union {None}
    BY <1>2, <2>1 DEF Emergency
  <2>3. Ros("EMERGENCY_STOP", c.request, emergency'.task, emergency'.exec, emergency'.rev)
          \in RosCommand
    BY <1>1, <2>2, RosType DEF RosActions
  <2> QED BY <2>3, OneCommand DEF EmergencyStop
<1>4. ackCache' \in [Requests -> CachedAnswer \union {None}]
  BY AnswerType DEF EmergencyStop, Answers
<1> QED BY <1>2, <1>3, <1>4 DEF TypeOK, EmergencyStop, disk

\* _begin_cleanup leaves a typed cleanup and output.
LEMMA BeginCleanupType ==
    ASSUME TypeOK, NEW c \in Command, NEW kind \in {"delete", "emergency"},
           IsStored(c.task), BeginCleanup(c, kind)
    PROVE  /\ preparation' = None
           /\ cleanup' \in Cleanup
           /\ ros' \in Seq(RosCommand)
           /\ xml' = xml /\ mission' = mission /\ latest' = latest
<1>1. c.task \in Tasks /\ c.request \in Requests
  BY DEF Command
<1>2. StoredRev(c.task) \in Revisions
  BY <1>1, StoredRevType
<1>3. Ros("UNLOAD", c.request, c.task, None, StoredRev(c.task)) \in RosCommand
  BY <1>1, <1>2, RosType DEF RosActions
<1> QED BY <1>2, <1>3, OneCommand DEF BeginCleanup, Cleanup

\* The record that becomes the newest one is that of a task, if any is left.
LEMMA LatestWithoutType ==
    ASSUME TypeOK, NEW t \in Tasks, NEW l \in LatestWithout(t)
    PROVE  l \in Tasks \union {None}
BY DEF TypeOK, LatestWithout

\* _complete_cleanup keeps the disk typed.
LEMMA CompleteCleanupType ==
    ASSUME TypeOK, NEW t \in Tasks, CompleteCleanup(t)
    PROVE  /\ preparation' = None /\ cleanup' = None
           /\ ros' \in Seq(RosCommand)
           /\ xml' \in [Tasks -> Trajectory \union {None}]
           /\ mission' \in [Tasks -> MissionRecord \union {None}]
           /\ latest' \in Tasks \union {None}
BY LatestWithoutType, NoCommand DEF TypeOK, CompleteCleanup, DeleteTask

\* _delete_task preserves the types.
LEMMA DeleteType ==
    ASSUME TypeOK, handling' \in Commands \union {None}, NEW c \in Commands, Delete(c)
    PROVE  TypeOK'
<1>1. c \in Command /\ c.task \in Tasks
  BY ConstantsOK DEF Command
<1>2. CASE AnswerOnly(c, "rejected")
  BY <1>2, AnswerOnlyType DEF Answers
<1>3. CASE /\ IsStored(c.task)
           /\ BeginCleanup(c, "delete")
           /\ Answer(c, "pending")
           /\ UNCHANGED <<status, up, transfer, execution, pendingExecute, emergency,
                          active, marker>>
  BY <1>1, <1>3, BeginCleanupType, AnswerType DEF TypeOK, Answers
<1>4. CASE /\ CompleteCleanup(c.task)
           /\ status' = "no_task"
           /\ Answer(c, "accepted")
           /\ UNCHANGED <<up, transfer, execution, pendingExecute, emergency, active,
                          marker>>
  BY <1>1, <1>4, CompleteCleanupType, AnswerType DEF TypeOK, Answers, Statuses
<1> QED BY <1>2, <1>3, <1>4 DEF Delete

\* Forgetting an answer preserves the types.
LEMMA ExpireAnswerType ==
    ASSUME TypeOK, handling' \in Commands \union {None}, NEW r \in Requests, ExpireAnswer(r)
    PROVE  TypeOK'
BY NoCommand DEF TypeOK, ExpireAnswer, disk

\* Every datagram handler preserves the types.
LEMMA DatagramType ==
    ASSUME TypeOK, handling' \in Commands \union {None}, NEW c \in Commands, AnyDatagram(c)
    PROVE  TypeOK'
<1>1. CASE LookAtMarker(c)
  BY <1>1, RejectLatchedType, NoCommand DEF LookAtMarker, TypeOK, volatile, disk
<1> QED BY <1>1, AnswerOnlyType, PrepareType, CommitType, ExecuteRefusedType, ExecuteType,
           TerminateType, EmergencyStopType, DeleteType
        DEF AnyDatagram, Datagram, MarkedDatagram, Negotiate, ReadTask, Answers

\* A refused emergency stop preserves the types.
LEMMA EmergencyFailedType ==
    ASSUME TypeOK, handling' \in Commands \union {None}, NEW m, EmergencyFailed(m)
    PROVE  TypeOK'
<1>1. emergency \in Emergency
  BY DEF TypeOK, EmergencyFailed, MatchesEmergency
<1>2. emergency.command \in Command
  BY <1>1 DEF Emergency
<1>3. ackCache' \in [Requests -> CachedAnswer \union {None}]
  BY <1>2, CommandAnswerType DEF EmergencyFailed, Answers
<1> QED BY <1>3, NoCommand DEF TypeOK, EmergencyFailed, disk, Statuses

\* A confirmed emergency stop preserves the types.
LEMMA EmergencyConfirmedType ==
    ASSUME TypeOK, handling' \in Commands \union {None}, NEW m, EmergencyConfirmed(m)
    PROVE  TypeOK'
<1>1. emergency \in Emergency
  BY DEF TypeOK, EmergencyConfirmed, MatchesEmergency
<1>2. emergency.command \in Command /\ emergency.command.task \in Tasks
  BY <1>1 DEF Emergency, Command
<1>3. ackCache' \in [Requests -> CachedAnswer \union {None}]
  BY <1>2, CommandAnswerType DEF EmergencyConfirmed, Answers
<1>4. CASE /\ IsStored(emergency.command.task)
           /\ BeginCleanup(emergency.command, "emergency")
  BY <1>2, <1>3, <1>4, BeginCleanupType DEF TypeOK, EmergencyConfirmed, Statuses
<1>5. CASE CompleteCleanup(emergency.command.task)
  BY <1>2, <1>3, <1>5, CompleteCleanupType DEF TypeOK, EmergencyConfirmed, Statuses
<1> QED BY <1>4, <1>5 DEF EmergencyConfirmed

\* A confirmed unload preserves the types.
LEMMA CleanupConfirmedType ==
    ASSUME TypeOK, handling' \in Commands \union {None}, NEW m, CleanupConfirmed(m)
    PROVE  TypeOK'
<1>1. cleanup \in Cleanup
  BY DEF TypeOK, CleanupConfirmed, MatchesCleanup
<1>2. cleanup.command \in Command /\ cleanup.command.task \in Tasks
  BY <1>1 DEF Cleanup, Command
<1>3. ackCache' \in [Requests -> CachedAnswer \union {None}]
  BY <1>2, CommandAnswerType DEF TypeOK, CleanupConfirmed, Answers
<1> QED BY <1>2, <1>3, CompleteCleanupType DEF TypeOK, CleanupConfirmed, Statuses

\* Feedback on a preparation preserves the types.
LEMMA PreparationFeedbackType ==
    ASSUME TypeOK, handling' \in Commands \union {None}, NEW m, NEW latchedError \in BOOLEAN, PreparationFeedback(m, latchedError)
    PROVE  TypeOK'
<1>1. preparation \in Preparation /\ m.state \in {"preparing", "ready", "failed"}
  BY DEF TypeOK, PreparationFeedback, MatchesPreparation
<1> DEFINE shown == IF m.state = "preparing" THEN "received" ELSE m.state
<1>2. preparation' \in Preparation
  BY <1>1, ConstantsOK DEF PreparationFeedback, Preparation
<1>3. preparation.task \in Tasks
  BY <1>1 DEF Preparation
<1>4. shown \in {"received", "ready", "failed"}
  BY <1>1
<1>5. UpdateState(preparation.task, shown) /\ status' = shown
  BY DEF PreparationFeedback
<1> HIDE DEF shown
<1>6. mission' \in [Tasks -> MissionRecord \union {None}] /\ latest' \in Tasks \union {None}
  <2>1. ASSUME NEW r \in MissionRecord
        PROVE  [r EXCEPT !.state = shown] \in MissionRecord
    BY <1>4 DEF MissionRecord
  <2> QED BY <1>3, <1>5, <2>1 DEF TypeOK, UpdateState
<1> QED BY <1>2, <1>4, <1>5, <1>6, NoCommand DEF TypeOK, PreparationFeedback, Statuses

\* The first confirmation of an execution preserves the types.
LEMMA ExecutionScheduledType ==
    ASSUME TypeOK, handling' \in Commands \union {None}, NEW m, ExecutionScheduled(m)
    PROVE  TypeOK'
<1>1. execution \in Execution
  BY DEF TypeOK, ExecutionScheduled, ForExecution, MatchesExecution
<1>2. execution' \in Execution
  BY <1>1 DEF ExecutionScheduled, Execution, LiveStates
<1>3. active' \in ActiveRecord
  BY <1>2, PersistedType DEF ExecutionScheduled
<1>4. ackCache' \in [Requests -> CachedAnswer \union {None}]
  BY AnswerType DEF TypeOK, ExecutionScheduled, Answers
<1> QED BY <1>2, <1>3, <1>4, NoCommand DEF TypeOK, ExecutionScheduled, Statuses, LiveStates

\* The status after an execution is one that is published.
LEMMA ReleasedStatusType == ReleasedStatus \in Statuses
BY DEF ReleasedStatus, Statuses

\* A refusal by the adapter preserves the types.
LEMMA SchedulingFailedType ==
    ASSUME TypeOK, handling' \in Commands \union {None}, NEW m, SchedulingFailed(m)
    PROVE  TypeOK'
<1>1. ackCache' \in [Requests -> CachedAnswer \union {None}]
  BY AnswerType DEF TypeOK, SchedulingFailed, RejectExecution, Answers
<1> QED BY <1>1, ReleasedStatusType, NoCommand
        DEF TypeOK, SchedulingFailed, RejectExecution, ReleaseExecution

\* Progress of an execution preserves the types.
LEMMA ExecutionProgressType ==
    ASSUME TypeOK, handling' \in Commands \union {None}, NEW m, ExecutionProgress(m)
    PROVE  TypeOK'
<1>1. execution \in Execution
  BY DEF TypeOK, ExecutionProgress, ForExecution, MatchesExecution
<1>2. m.state \in LiveStates
  BY DEF ExecutionProgress
<1>3. execution' \in Execution
  BY <1>1, <1>2 DEF ExecutionProgress, Execution
<1>4. active' \in ActiveRecord
  BY <1>3, PersistedType DEF ExecutionProgress
<1> QED BY <1>2, <1>3, <1>4, NoCommand DEF TypeOK, ExecutionProgress, Statuses

\* The end of an execution preserves the types.
LEMMA ExecutionEndedType ==
    ASSUME TypeOK, handling' \in Commands \union {None}, NEW m, ExecutionEnded(m)
    PROVE  TypeOK'
BY ReleasedStatusType, NoCommand DEF TypeOK, ExecutionEnded, ReleaseExecution

\* Every adapter feedback preserves the types.
LEMMA FeedbackCallbackType ==
    ASSUME TypeOK, handling' \in Commands \union {None}, NEW m, FeedbackCallback(m)
    PROVE  TypeOK'
BY EmergencyFailedType, EmergencyConfirmedType, CleanupConfirmedType,
   PreparationFeedbackType, ExecutionScheduledType, SchedulingFailedType,
   ExecutionProgressType, ExecutionEndedType DEF FeedbackCallback

\* A watchdog tick preserves the types whatever set of timers is due.
LEMMA WatchdogType ==
    ASSUME TypeOK, handling' \in Commands \union {None}, NEW due \in SUBSET Timers, Watchdog(due)
    PROVE  TypeOK'
<1> DEFINE waits == execution # None /\ execution.state = "scheduling"
           stops == "execution" \in due /\ ~waits
           unload == Ros("UNLOAD", cleanup.command.request, cleanup.command.task, None,
                         cleanup.rev)
           emergencyStop == Ros("EMERGENCY_STOP", emergency.command.request,
                                emergency.task, emergency.exec, emergency.rev)
           prepare == Ros("PREPARE", preparation.request, preparation.task, None,
                          preparation.rev)
           stop == Ros("STOP", "watchdog-stop", execution.task, execution.exec,
                       execution.rev)
<1>1. due \subseteq Armed
  BY DEF Watchdog
<1>2. "unload" \in due => unload \in RosCommand
  <2> SUFFICES ASSUME "unload" \in due PROVE unload \in RosCommand
    OBVIOUS
  <2>1. cleanup \in Cleanup
    BY <1>1 DEF TypeOK, Armed
  <2>2. /\ cleanup.command.request \in Requests /\ cleanup.command.task \in Tasks
        /\ cleanup.rev \in Revisions
    BY <2>1 DEF Cleanup, Command
  <2> QED BY <2>2, RosType DEF RosActions
<1>3. "emergency" \in due => emergencyStop \in RosCommand
  <2> SUFFICES ASSUME "emergency" \in due PROVE emergencyStop \in RosCommand
    OBVIOUS
  <2>1. emergency \in Emergency
    BY <1>1 DEF TypeOK, Armed
  <2>2. /\ emergency.command.request \in Requests /\ emergency.task \in Tasks
        /\ emergency.exec \in Executions \union {None} /\ emergency.rev \in Revisions
    BY <2>1 DEF Emergency, Command
  <2> QED BY <2>2, RosType DEF RosActions
<1>4. "prepare" \in due => preparation \in Preparation /\ prepare \in RosCommand
  <2> SUFFICES ASSUME "prepare" \in due
               PROVE  preparation \in Preparation /\ prepare \in RosCommand
    OBVIOUS
  <2>1. preparation \in Preparation
    BY <1>1 DEF TypeOK, Armed
  <2>2. /\ preparation.request \in Requests \union OwnRequests
        /\ preparation.task \in Tasks /\ preparation.rev \in Revisions
    BY <2>1 DEF Preparation, OwnRequests
  <2> QED BY <2>1, <2>2, RosType DEF RosActions
<1>5. stops => stop \in RosCommand
  <2> SUFFICES ASSUME stops PROVE stop \in RosCommand
    OBVIOUS
  <2>1. execution \in Execution
    BY <1>1 DEF TypeOK, Armed
  <2>2. /\ execution.task \in Tasks /\ execution.exec \in Executions
        /\ execution.rev \in Revisions
    BY <2>1 DEF Execution
  <2> QED BY <2>2, RosType DEF RosActions, OwnRequests
<1>6. ros' = Only("unload" \in due, unload) \o Only("emergency" \in due, emergencyStop)
               \o Only("prepare" \in due, prepare) \o Only(stops, stop)
  BY DEF Watchdog
<1>7. ros' \in Seq(RosCommand)
  <2> HIDE DEF unload, emergencyStop, prepare, stop, stops
  <2>1. /\ Only("unload" \in due, unload) \in Seq(RosCommand)
        /\ Only("emergency" \in due, emergencyStop) \in Seq(RosCommand)
        /\ Only("prepare" \in due, prepare) \in Seq(RosCommand)
        /\ Only(stops, stop) \in Seq(RosCommand)
    BY <1>2, <1>3, <1>4, <1>5, OneCommand, NoCommand DEF Only
  <2> QED BY <1>6, <2>1, AppendType
<1>8. preparation' \in Preparation \union {None}
  BY <1>4 DEF TypeOK, Watchdog, Preparation
<1>9. /\ execution' \in Execution \union {None}
      /\ pendingExecute' \in Commands \union {None}
      /\ active' \in ActiveRecord \union {None}
  BY DEF TypeOK, Watchdog
<1>10. ackCache' \in [Requests -> CachedAnswer \union {None}]
  <2>1. CASE "execution" \in due /\ waits
    <3>1. pendingExecute \in Commands
      BY <1>1, <2>1 DEF TypeOK, Armed
    <3> QED BY <2>1, <3>1, AnswerType DEF Watchdog, Answers
  <2>2. CASE ~("execution" \in due /\ waits)
    BY <2>2 DEF TypeOK, Watchdog
  <2> QED BY <2>1, <2>2
<1>11. status' \in Statuses
  BY DEF TypeOK, Watchdog, Statuses
<1> QED BY <1>7, <1>8, <1>9, <1>10, <1>11 DEF TypeOK, Watchdog

\* A restart reads the newest mission record, which StoresAgree says exists.
LEMMA StartType ==
    ASSUME TypeOK, handling' \in Commands \union {None}, StoresAgree, Start
    PROVE  TypeOK'
<1> DEFINE interrupted == active # None /\ active.state \in LiveStates
           revoke == Ros(IF active.state = "running" THEN "STOP" ELSE "CANCEL",
                         active.request, active.task, active.exec, active.rev)
           stored == /\ latest # None
                     /\ xml[latest] # None /\ xml[latest].rev = mission[latest].rev
           terminal == stored /\ mission[latest].state = "failed" /\ ~RetryOnFailure
           prepares == stored /\ ~terminal
           prepare == Ros("PREPARE", "recovery", latest, None, xml[latest].rev)
<1>1. interrupted => revoke \in RosCommand
  <2> SUFFICES ASSUME interrupted PROVE revoke \in RosCommand
    OBVIOUS
  <2>1. /\ active.request \in Requests /\ active.task \in Tasks
        /\ active.exec \in Executions /\ active.rev \in Revisions
    BY DEF TypeOK, ActiveRecord
  <2> QED BY <2>1, RosType DEF RosActions
<1>2. stored => latest \in Tasks /\ xml[latest].rev \in Revisions
  BY DEF TypeOK, Trajectory
<1>3. stored => prepare \in RosCommand
  BY <1>2, RosType DEF RosActions, OwnRequests
<1>4. ros' = Only(interrupted, revoke) \o Only(prepares /\ ~marker, prepare)
  BY DEF Start
<1>5. ros' \in Seq(RosCommand)
  <2>1. prepares /\ ~marker => prepare \in RosCommand
    BY <1>3
  <2> HIDE DEF interrupted, revoke, prepares, prepare
  <2>2. /\ Only(interrupted, revoke) \in Seq(RosCommand)
        /\ Only(prepares /\ ~marker, prepare) \in Seq(RosCommand)
    BY <1>1, <2>1, OneCommand, NoCommand DEF Only
  <2> QED BY <1>4, <2>2, AppendType
<1>6. preparation' \in Preparation \union {None}
  <2>1. CASE prepares
    <3>1. preparation' = [task |-> latest, rev |-> xml[latest].rev, request |-> "recovery",
                          state |-> IF marker THEN "failed" ELSE "received",
                          retryable |-> ~marker]
      BY <2>1 DEF Start
    <3> QED BY <1>2, <2>1, <3>1 DEF TypeOK, Preparation
  <2>2. CASE ~prepares
    BY <2>2 DEF Start
  <2> QED BY <2>1, <2>2
<1>7. mission' \in [Tasks -> MissionRecord \union {None}]
  <2>1. CASE prepares /\ marker
    <3>1. mission' = [mission EXCEPT ![latest].state = "failed"]
      BY <2>1 DEF Start
    <3>2. latest \in Tasks /\ mission[latest] # None
      BY <1>2, <2>1, NoneIsNoRecord DEF StoresAgree
    <3>3. [mission[latest] EXCEPT !.state = "failed"] \in MissionRecord
      BY <3>2 DEF TypeOK, MissionRecord
    <3> QED BY <3>1, <3>2, <3>3 DEF TypeOK
  <2>2. CASE ~(prepares /\ marker)
    BY <2>2 DEF Start, TypeOK
  <2> QED BY <2>1, <2>2
<1>8. active' \in ActiveRecord \union {None}
  BY DEF TypeOK, Start
<1>9. status' \in Statuses
  BY DEF Start, Statuses
<1> QED BY <1>5, <1>6, <1>7, <1>8, <1>9 DEF TypeOK, Start

\* Empty memory is typed.
LEMMA ForgetVolatileType ==
    ASSUME ForgetVolatile
    PROVE  /\ transfer' = None /\ execution' = None /\ pendingExecute' = None
           /\ preparation' = None /\ cleanup' = None /\ emergency' = None
           /\ ackCache' \in [Requests -> CachedAnswer \union {None}]
           /\ status' \in Statuses
BY DEF ForgetVolatile, Statuses

\* close preserves the types.
LEMMA CloseType ==
    ASSUME TypeOK, handling' \in Commands \union {None}, Close
    PROVE  TypeOK'
<1> DEFINE revoke == Ros(IF execution.state = "running" THEN "STOP" ELSE "CANCEL",
                         "shutdown", execution.task, execution.exec, execution.rev)
           unload == Ros("UNLOAD", "shutdown-unload", preparation.task, None,
                         preparation.rev)
<1>1. execution # None => revoke \in RosCommand
  <2>1. execution # None => /\ execution.task \in Tasks /\ execution.exec \in Executions
                            /\ execution.rev \in Revisions
    BY DEF TypeOK, Execution
  <2> QED BY <2>1, RosType DEF RosActions, OwnRequests
<1>2. preparation # None => unload \in RosCommand
  <2>1. preparation # None => preparation.task \in Tasks /\ preparation.rev \in Revisions
    BY DEF TypeOK, Preparation
  <2> QED BY <2>1, RosType DEF RosActions, OwnRequests
<1>3. ros' = Only(execution # None, revoke) \o Only(preparation # None, unload)
  BY DEF Close
<1>4. ros' \in Seq(RosCommand)
  <2> HIDE DEF revoke, unload
  <2>1. /\ Only(execution # None, revoke) \in Seq(RosCommand)
        /\ Only(preparation # None, unload) \in Seq(RosCommand)
    BY <1>1, <1>2, OneCommand, NoCommand DEF Only
  <2> QED BY <1>3, <2>1, AppendType
<1> QED BY <1>4, ForgetVolatileType DEF TypeOK, Close, disk

\* Whatever was being written when the process dies, memory is gone and the
\* marker stays; the type of the disk is the caller's business.
LEMMA DiesType ==
    ASSUME TypeOK, handling' \in Commands \union {None}, Dies,
           xml' \in [Tasks -> Trajectory \union {None}],
           mission' \in [Tasks -> MissionRecord \union {None}],
           latest' \in Tasks \union {None},
           active' \in ActiveRecord \union {None}
    PROVE  TypeOK'
BY ForgetVolatileType, NoCommand DEF TypeOK, Dies

\* A crash between two handlers preserves the types.
LEMMA CrashType ==
    ASSUME TypeOK, handling' \in Commands \union {None}, Crash
    PROVE  TypeOK'
BY DiesType DEF TypeOK, Crash, disk

\* A crash between the two writes of a commit preserves the types.
LEMMA CrashInCommitType ==
    ASSUME TypeOK, handling' \in Commands \union {None}, NEW c \in Commands, CrashInCommit(c)
    PROVE  TypeOK'
<1>1. [rev |-> c.rev, crc |-> c.crc] \in Trajectory
  BY ConstantsOK DEF Command, Trajectory
<1> QED BY <1>1, DiesType DEF TypeOK, CrashInCommit

\* A crash before a finished execution is cleared preserves the types.
LEMMA CrashInReleaseType ==
    ASSUME TypeOK, handling' \in Commands \union {None}, NEW m, CrashInRelease(m)
    PROVE  TypeOK'
<1>1. execution \in Execution
  BY DEF TypeOK, CrashInRelease, ForExecution, MatchesExecution
<1>2. active' \in ActiveRecord
  BY <1>1, PersistedType DEF CrashInRelease, ActiveRecord
<1> QED BY <1>2, DiesType DEF TypeOK, CrashInRelease

\* A crash between the two deletions of a cleanup preserves the types.
LEMMA CrashInCleanupType ==
    ASSUME TypeOK, handling' \in Commands \union {None}, NEW m, CrashInCleanup(m)
    PROVE  TypeOK'
<1>1. cleanup.command.task \in Tasks
  BY DEF TypeOK, CrashInCleanup, MatchesCleanup, Cleanup, Command
<1>2. latest' \in Tasks \union {None}
  BY <1>1, LatestWithoutType DEF CrashInCleanup
<1> QED BY <1>2, DiesType DEF TypeOK, CrashInCleanup

\* Every step preserves the types, where the stores agree.
LEMMA StepType == TypeOK /\ StoresAgree /\ [Next]_vars => TypeOK'
<1> SUFFICES ASSUME TypeOK, StoresAgree, [Next]_vars PROVE TypeOK'
  OBVIOUS
<1>0. handling' \in Commands \union {None}
  BY DEF TypeOK, Next, LookAtMarker, MarkerChanges, vars
<1> USE <1>0
<1>1. CASE \E c \in Commands : AnyDatagram(c)
  BY <1>1, DatagramType
<1>2. CASE \E i \in Chunks, quality \in {"good", "bad"} : Chunk(i, quality)
  BY <1>2, ChunkType
<1>3. CASE \E r \in Requests : ExpireAnswer(r)
  BY <1>3, ExpireAnswerType
<1>4. CASE \E m \in Echoes : FeedbackCallback(m)
  BY <1>4, FeedbackCallbackType
<1>5. CASE \E due \in SUBSET Timers : Watchdog(due)
  BY <1>5, WatchdogType
<1>6. CASE Start
  BY <1>6, StartType
<1>7. CASE Close
  BY <1>7, CloseType
<1>8. CASE Crash
  BY <1>8, CrashType
<1>9. CASE \E c \in Commands : CrashInCommit(c)
  BY <1>9, CrashInCommitType
<1>10. CASE \E m \in Echoes : CrashInRelease(m) \/ CrashInCleanup(m)
  BY <1>10, CrashInReleaseType, CrashInCleanupType
<1>11. CASE MarkerChanges
  BY <1>11, NoCommand DEF TypeOK, MarkerChanges, volatile, disk
<1>12. CASE UNCHANGED vars
  BY <1>12 DEF TypeOK, vars, volatile, disk
<1> QED BY <1>1, <1>2, <1>3, <1>4, <1>5, <1>6, <1>7, <1>8, <1>9, <1>10, <1>11, <1>12, Steps

-----------------------------------------------------------------------------
(* The two stores.  StoresAgree is not inductive by itself: a commit writes *)
(* what the transfer says, so the check made when the transfer began must   *)
(* still hold when it ends.                                                 *)

\* The transfer being received could replace the stored trajectory.
TransferNotOlder ==
    transfer # None /\ xml[transfer.task] # None =>
        /\ xml[transfer.task].rev <= transfer.rev
        /\ xml[transfer.task].rev = transfer.rev => xml[transfer.task].crc = transfer.crc

\* The inductive invariant.
StoresInv == TypeOK /\ StoresAgree /\ TransferNotOlder

\* Empty stores agree.
LEMMA InitStores == Init => StoresAgree /\ TransferNotOlder
BY DEF Init, StoresAgree, TransferNotOlder

\* A step that touches neither store, transfer nor preparation keeps them in agreement.
LEMMA SameStores ==
    ASSUME StoresAgree, TransferNotOlder,
           UNCHANGED <<transfer, preparation, xml, mission, latest>>
    PROVE  StoresAgree' /\ TransferNotOlder'
BY DEF StoresAgree, TransferNotOlder

\* A handler that only answers is one.
LEMMA AnswerOnlyStores ==
    ASSUME StoresInv, NEW c, NEW answer, AnswerOnly(c, answer)
    PROVE  StoresAgree' /\ TransferNotOlder'
BY SameStores DEF StoresInv, AnswerOnly, disk

\* A refusal may drop the transfer, which agrees with anything.
LEMMA RejectLatchedStores ==
    ASSUME StoresInv, NEW c, NEW d \in BOOLEAN, RejectLatched(c, d)
    PROVE  StoresAgree' /\ TransferNotOlder'
BY DEF StoresInv, RejectLatched, disk, StoresAgree, TransferNotOlder

\* _prepare accepts only a transfer that could replace what is stored.
LEMMA PrepareStores ==
    ASSUME StoresInv, NEW c \in Commands, Prepare(c)
    PROVE  StoresAgree' /\ TransferNotOlder'
<1>2. CASE AnswerOnly(c, "rejected")
  BY <1>2, AnswerOnlyStores
<1>3. CASE /\ ~PrepareRefused(c)
           /\ transfer' = [task |-> c.task, rev |-> c.rev, crc |-> c.crc,
                           chunks |-> [i \in Chunks |-> "absent"]]
           /\ UNCHANGED <<preparation, disk>>
  <2>1. c.task \in Tasks /\ c.rev \in Nat
    BY ConstantsOK DEF Command
  <2>2. xml[c.task] # None => xml[c.task].rev \in Nat
    BY <2>1, ConstantsOK DEF StoresInv, TypeOK, Trajectory
  <2>3. transfer'.task = c.task /\ transfer'.rev = c.rev /\ transfer'.crc = c.crc
    BY <1>3
  <2>4. TransferNotOlder'
    BY <1>3, <2>1, <2>2, <2>3 DEF PrepareRefused, TransferNotOlder, disk
  <2> QED BY <1>3, <2>4 DEF StoresInv, StoresAgree, disk
<1> QED BY <1>2, <1>3 DEF Prepare

\* A chunk changes neither the identity nor the revision of a transfer.
LEMMA ChunkStores ==
    ASSUME StoresInv, NEW i \in Chunks, NEW quality, Chunk(i, quality)
    PROVE  StoresAgree' /\ TransferNotOlder'
<1>1. transfer \in Transfer /\ transfer # None
  BY DEF StoresInv, TypeOK, Chunk
<1>2. /\ transfer'.task = transfer.task /\ transfer'.rev = transfer.rev
      /\ transfer'.crc = transfer.crc
  BY <1>1 DEF Chunk, Transfer
<1> QED BY <1>1, <1>2 DEF StoresInv, Chunk, StoresAgree, TransferNotOlder, disk

\* A preparation begun for a trajectory that is on disk: the records m agree
\* with the trajectories as the handler leaves them.
LEMMA BeginPreparationStores ==
    ASSUME StoresInv, NEW t \in Tasks, NEW rev \in Revisions, NEW request, NEW saved,
           NEW m \in [Tasks -> MissionRecord \union {None}],
           xml' \in [Tasks -> Trajectory \union {None}],
           saved => m[t] # None,
           xml'[t] # None, rev <= xml'[t].rev,
           \A u \in Tasks : m[u] # None => xml'[u] # None /\ m[u].rev <= xml'[u].rev,
           latest # None => m[latest] # None,
           BeginPreparation(t, rev, request, m, saved)
    PROVE  StoresAgree'
<1> DEFINE record == IF m[t] = None THEN [rev |-> rev, state |-> "received"] ELSE m[t]
<1>2. record \in MissionRecord /\ record.rev <= xml'[t].rev
  BY DEF MissionRecord
<1>3. [record EXCEPT !.state = "failed"] \in MissionRecord
      /\ [record EXCEPT !.state = "failed"].rev = record.rev
  BY <1>2 DEF MissionRecord
<1> HIDE DEF record
<1>4. mission' = [m EXCEPT ![t] = IF marker THEN [record EXCEPT !.state = "failed"]
                                            ELSE record]
  BY DEF BeginPreparation, record
<1>5. mission'[t] # None /\ mission'[t].rev <= xml'[t].rev
  BY <1>2, <1>3, <1>4, NoneIsNoRecord
<1>6. \A u \in Tasks \ {t} : mission'[u] = m[u]
  BY <1>4
<1>7. latest' # None => mission'[latest'] # None
  <2>1. latest' = t \/ latest' = latest
    BY DEF BeginPreparation
  <2>2. latest \in Tasks \union {None}
    BY DEF StoresInv, TypeOK
  <2> QED BY <2>1, <2>2, <1>5, <1>6
<1>8. preparation'.task = t /\ preparation'.rev = rev
  BY DEF BeginPreparation
<1> QED BY <1>5, <1>6, <1>7, <1>8 DEF StoresAgree

\* A repeated commit prepares the trajectory that is stored.
LEMMA CommitStoredStores ==
    ASSUME StoresInv, NEW c \in Commands, CommitStored(c)
    PROVE  StoresAgree' /\ TransferNotOlder'
<1>1. CASE AnswerOnly(c, "rejected") \/ AnswerOnly(c, "accepted")
  BY <1>1, AnswerOnlyStores
<1>2. CASE /\ xml[c.task] = [rev |-> c.rev, crc |-> c.crc]
           /\ BeginPreparation(c.task, c.rev, c.request, mission, FALSE)
           /\ UNCHANGED <<transfer, xml>>
  <2>1. c.task \in Tasks /\ c.rev \in Revisions /\ c.crc \in Crcs
    BY ConstantsOK DEF Command
  <2>2. xml'[c.task] # None /\ c.rev <= xml'[c.task].rev
    BY <1>2, <2>1, ConstantsOK, NoneIsNoRecord DEF Trajectory
  <2>3. StoresAgree'
    BY <1>2, <2>1, <2>2, BeginPreparationStores DEF StoresInv, TypeOK, StoresAgree
  <2> QED BY <1>2, <2>3 DEF StoresInv, TransferNotOlder, CommitStored
<1> QED BY <1>1, <1>2 DEF CommitStored

\* What a commit writes is what TransferNotOlder compares.
LEMMA CommitKeepsOrder ==
    ASSUME StoresInv, NEW c \in Commands, CommitComplete(c),
           xml' = [xml EXCEPT ![c.task] = [rev |-> c.rev, crc |-> c.crc]]
    PROVE  /\ xml' \in [Tasks -> Trajectory \union {None}]
           /\ xml'[c.task] # None /\ xml'[c.task].rev = c.rev
           /\ \A t \in Tasks : xml[t] # None =>
                /\ xml'[t] # None /\ xml[t].rev <= xml'[t].rev
                /\ xml[t].rev = xml'[t].rev => xml[t].crc = xml'[t].crc
<1>1. c.task \in Tasks /\ c.rev \in Revisions /\ c.crc \in Crcs
  BY ConstantsOK DEF Command
<1>2. [rev |-> c.rev, crc |-> c.crc] \in Trajectory
  BY <1>1 DEF Trajectory
<1>3. xml \in [Tasks -> Trajectory \union {None}]
  BY DEF StoresInv, TypeOK
<1>4. \A t \in Tasks : xml[t] # None => xml[t].rev \in Nat
  BY <1>3, ConstantsOK DEF Trajectory
<1>5. xml'[c.task] = [rev |-> c.rev, crc |-> c.crc]
  BY <1>1, <1>3
<1>6. \A t \in Tasks \ {c.task} : xml'[t] = xml[t]
  BY <1>3
<1>7. xml[c.task] # None =>
        /\ xml[c.task].rev <= c.rev
        /\ xml[c.task].rev = c.rev => xml[c.task].crc = c.crc
  BY DEF StoresInv, TransferNotOlder, CommitComplete, CommitMatches
<1>8. xml'[c.task] # None /\ xml'[c.task].rev = c.rev /\ xml'[c.task].crc = c.crc
  BY <1>2, <1>5, NoneIsNoRecord
<1>9. ASSUME NEW t \in Tasks, xml[t] # None
      PROVE  /\ xml'[t] # None /\ xml[t].rev <= xml'[t].rev
             /\ xml[t].rev = xml'[t].rev => xml[t].crc = xml'[t].crc
  <2>1. CASE t = c.task
    BY <1>7, <1>8, <1>9, <2>1
  <2>2. CASE t # c.task
    <3>1. xml'[t] = xml[t] /\ xml[t].rev \in Nat
      BY <1>4, <1>6, <1>9, <2>2
    <3> QED BY <1>9, <3>1
  <2> QED BY <2>1, <2>2
<1>10. xml' \in [Tasks -> Trajectory \union {None}]
  BY <1>2, <1>3
<1> QED BY <1>8, <1>9, <1>10

\* A preparation of an older revision still has a trajectory.
LEMMA WrittenKeepsPreparation ==
    ASSUME StoresInv, NEW c \in Commands, CommitComplete(c),
           xml' = [xml EXCEPT ![c.task] = [rev |-> c.rev, crc |-> c.crc]],
           preparation # None
    PROVE  xml'[preparation.task] # None /\ preparation.rev <= xml'[preparation.task].rev
<1>1. preparation.task \in Tasks /\ preparation.rev \in Nat
  BY ConstantsOK DEF StoresInv, TypeOK, Preparation
<1>2. xml[preparation.task] # None /\ preparation.rev <= xml[preparation.task].rev
  BY DEF StoresInv, StoresAgree
<1>3. /\ xml'[preparation.task] # None
      /\ xml[preparation.task].rev <= xml'[preparation.task].rev
  BY <1>1, <1>2, CommitKeepsOrder
<1>4. xml[preparation.task] \in Trajectory /\ xml'[preparation.task] \in Trajectory
  BY <1>1, <1>2, <1>3, CommitKeepsOrder DEF StoresInv, TypeOK
<1>5. xml[preparation.task].rev \in Nat /\ xml'[preparation.task].rev \in Nat
  BY <1>4, ConstantsOK DEF Trajectory
<1> QED BY <1>1, <1>2, <1>3, <1>5

\* A trajectory written without its mission record still agrees with it.
LEMMA WrittenAlone ==
    ASSUME StoresInv, NEW c \in Commands, CommitComplete(c),
           xml' = [xml EXCEPT ![c.task] = [rev |-> c.rev, crc |-> c.crc]],
           mission' = mission, latest' = latest,
           preparation' = preparation \/ preparation' = None
    PROVE  StoresAgree'
<1>1. \A t \in Tasks : xml[t] # None =>
        /\ xml[t].rev \in Nat /\ xml'[t] # None /\ xml'[t].rev \in Nat
        /\ xml[t].rev <= xml'[t].rev
  BY CommitKeepsOrder, ConstantsOK DEF StoresInv, TypeOK, Trajectory
<1>2. \A t \in Tasks : mission[t] # None => mission[t].rev \in Nat
  BY ConstantsOK DEF StoresInv, TypeOK, MissionRecord
<1>3. \A t \in Tasks : mission[t] # None => xml'[t] # None /\ mission[t].rev <= xml'[t].rev
  BY <1>1, <1>2 DEF StoresInv, StoresAgree
<1> QED BY <1>3, WrittenKeepsPreparation DEF StoresInv, StoresAgree

\* A commit writes both stores, in agreement.
LEMMA WrittenBoth ==
    ASSUME StoresInv, NEW c \in Commands, CommitComplete(c),
           xml' = [xml EXCEPT ![c.task] = [rev |-> c.rev, crc |-> c.crc]]
    PROVE  /\ \A u \in Tasks : Received(c)[u] # None =>
                xml'[u] # None /\ Received(c)[u].rev <= xml'[u].rev
           /\ latest # None => Received(c)[latest] # None
<1>1. c.task \in Tasks /\ c.rev \in Nat
  BY ConstantsOK DEF Command
<1>2. /\ Received(c)[c.task] # None /\ Received(c)[c.task].rev = c.rev
      /\ \A u \in Tasks \ {c.task} : Received(c)[u] = mission[u]
  BY ReceivedType DEF StoresInv
<1>3. /\ xml'[c.task] # None /\ xml'[c.task].rev = c.rev
      /\ \A u \in Tasks \ {c.task} : xml'[u] = xml[u]
  <2>1. xml \in [Tasks -> Trajectory \union {None}]
    BY DEF StoresInv, TypeOK
  <2>2. [rev |-> c.rev, crc |-> c.crc] \in Trajectory
    BY ConstantsOK DEF Command, Trajectory
  <2>3. /\ xml'[c.task] = [rev |-> c.rev, crc |-> c.crc]
        /\ \A u \in Tasks \ {c.task} : xml'[u] = xml[u]
    BY <1>1, <2>1
  <2> QED BY <2>2, <2>3, NoneIsNoRecord
<1>4. latest \in Tasks \union {None}
  BY DEF StoresInv, TypeOK
<1>5. ASSUME NEW u \in Tasks, Received(c)[u] # None
      PROVE  xml'[u] # None /\ Received(c)[u].rev <= xml'[u].rev
  <2>1. CASE u = c.task
    BY <1>1, <1>2, <1>3, <2>1
  <2>2. CASE u # c.task
    BY <1>2, <1>3, <1>5, <2>2 DEF StoresInv, StoresAgree
  <2> QED BY <2>1, <2>2
<1>6. latest # None => Received(c)[latest] # None
  BY <1>2, <1>4 DEF StoresInv, StoresAgree
<1> QED BY <1>5, <1>6

\* A failed commit leaves the stores in agreement, however far it had come.
LEMMA CommitFailsStores ==
    ASSUME StoresInv, NEW c \in Commands, NEW written \in {"nothing", "xml", "record"},
           CommitFails(c, written)
    PROVE  StoresAgree' /\ TransferNotOlder'
<1>1. TransferNotOlder'
  BY DEF CommitFails, TransferNotOlder
<1>2. CASE written = "nothing"
  BY <1>1, <1>2 DEF CommitFails, StoresInv, StoresAgree
<1>3. CASE written = "xml"
  BY <1>1, <1>3, WrittenAlone DEF CommitFails
<1>4. CASE written = "record"
  <2>1. /\ CommitComplete(c) /\ preparation' = preparation
        /\ xml' = [xml EXCEPT ![c.task] = [rev |-> c.rev, crc |-> c.crc]]
        /\ mission' = Received(c) /\ latest' = c.task
    BY <1>4 DEF CommitFails
  <2>2. preparation # None => /\ xml'[preparation.task] # None
                              /\ preparation.rev <= xml'[preparation.task].rev
    BY <2>1, WrittenKeepsPreparation
  <2>3. Received(c)[c.task] # None
    BY ReceivedType DEF StoresInv
  <2> QED BY <1>1, <2>1, <2>2, <2>3, WrittenBoth DEF StoresAgree
<1> QED BY <1>2, <1>3, <1>4

\* A commit writes both stores and prepares what it wrote.
LEMMA CommitSucceedsStores ==
    ASSUME StoresInv, NEW c \in Commands, CommitSucceeds(c)
    PROVE  StoresAgree' /\ TransferNotOlder'
<1>1. c.task \in Tasks /\ c.rev \in Revisions /\ c.rev \in Nat
  BY ConstantsOK DEF Command
<1>2. CommitComplete(c) /\ xml' = [xml EXCEPT ![c.task] = [rev |-> c.rev, crc |-> c.crc]]
  BY DEF CommitSucceeds
<1>3. /\ xml' \in [Tasks -> Trajectory \union {None}]
      /\ xml'[c.task] # None /\ c.rev <= xml'[c.task].rev
  <2>1. /\ xml' \in [Tasks -> Trajectory \union {None}]
        /\ xml'[c.task] # None /\ xml'[c.task].rev = c.rev
    BY <1>2, CommitKeepsOrder
  <2> QED BY <1>1, <2>1
<1>4. /\ Received(c) \in [Tasks -> MissionRecord \union {None}]
      /\ Received(c)[c.task] # None
  BY ReceivedType DEF StoresInv
<1>5. BeginPreparation(c.task, c.rev, c.request, Received(c), TRUE)
  BY DEF CommitSucceeds
<1>6. StoresAgree'
  BY <1>1, <1>2, <1>3, <1>4, <1>5, WrittenBoth, BeginPreparationStores
<1>7. TransferNotOlder'
  BY DEF CommitSucceeds, TransferNotOlder
<1> QED BY <1>6, <1>7

\* Deleting a task drops the preparation with it, whichever task that is for.
LEMMA DeleteTaskStores ==
    ASSUME StoresInv, NEW t \in Tasks, DeleteTask(t)
    PROVE  /\ \A u \in Tasks : mission'[u] # None =>
                xml'[u] # None /\ mission'[u].rev <= xml'[u].rev
           /\ latest' # None => mission'[latest'] # None
           /\ \A u \in Tasks : xml'[u] = None \/ xml'[u] = xml[u]
<1>1. /\ mission' = [mission EXCEPT ![t] = None] /\ xml' = [xml EXCEPT ![t] = None]
      /\ latest' \in LatestWithout(t)
  BY DEF DeleteTask
<1>2. /\ mission'[t] = None /\ xml'[t] = None
      /\ \A u \in Tasks \ {t} : mission'[u] = mission[u] /\ xml'[u] = xml[u]
  BY <1>1 DEF StoresInv, TypeOK
<1>3. latest' # None => latest' \in Tasks \ {t} /\ mission[latest'] # None
  BY <1>1 DEF LatestWithout, StoresInv, StoresAgree, TypeOK
<1> QED BY <1>2, <1>3 DEF StoresInv, StoresAgree

\* _complete_cleanup leaves the stores in agreement.
LEMMA CompleteCleanupStores ==
    ASSUME StoresInv, NEW t \in Tasks, CompleteCleanup(t), transfer' = transfer
    PROVE  StoresAgree' /\ TransferNotOlder'
<1>1. DeleteTask(t) /\ preparation' = None
  BY DEF CompleteCleanup
<1>2. StoresAgree'
  BY <1>1, DeleteTaskStores DEF StoresAgree
<1>3. transfer # None => xml'[transfer.task] = None \/ xml'[transfer.task] = xml[transfer.task]
  BY <1>1, DeleteTaskStores DEF StoresInv, TypeOK, Transfer
<1> QED BY <1>2, <1>3 DEF StoresInv, TransferNotOlder

\* _begin_cleanup touches neither store.
LEMMA BeginCleanupStores ==
    ASSUME StoresInv, NEW c, NEW kind, BeginCleanup(c, kind), transfer' = transfer
    PROVE  StoresAgree' /\ TransferNotOlder'
BY DEF StoresInv, BeginCleanup, StoresAgree, TransferNotOlder

\* _delete_task leaves the stores in agreement.
LEMMA DeleteStores ==
    ASSUME StoresInv, NEW c \in Commands, Delete(c)
    PROVE  StoresAgree' /\ TransferNotOlder'
<1>1. c.task \in Tasks
  BY ConstantsOK DEF Command
<1> QED BY <1>1, AnswerOnlyStores, BeginCleanupStores, CompleteCleanupStores DEF Delete

\* Every datagram handler leaves the stores in agreement.
LEMMA DatagramStores ==
    ASSUME StoresInv, NEW c \in Commands, AnyDatagram(c)
    PROVE  StoresAgree' /\ TransferNotOlder'
<1>1. CASE Negotiate(c) \/ ReadTask(c) \/ ExecuteRefused(c)
  BY <1>1, AnswerOnlyStores DEF Negotiate, ReadTask, ExecuteRefused
<1>2. CASE Prepare(c)
  BY <1>2, PrepareStores
<1>3. CASE Commit(c)
  BY <1>3, CommitStoredStores, AnswerOnlyStores, CommitFailsStores, CommitSucceedsStores,
     SameStores DEF Commit, CommitRefused, CommitMissing, StoresInv, volatile, disk
<1>4. CASE Execute(c)
  BY <1>4, SameStores DEF StoresInv, Execute
<1>5. CASE Terminate(c)
  BY <1>5, SameStores, AnswerOnlyStores DEF StoresInv, Terminate, disk
<1>6. CASE EmergencyStop(c)
  BY <1>6, SameStores DEF StoresInv, EmergencyStop, disk
<1>7. CASE Delete(c)
  BY <1>7, DeleteStores
<1>8. CASE LookAtMarker(c)
  BY <1>8, RejectLatchedStores, SameStores DEF LookAtMarker, StoresInv, volatile, disk
<1> QED BY <1>1, <1>2, <1>3, <1>4, <1>5, <1>6, <1>7, <1>8
        DEF AnyDatagram, Datagram, MarkedDatagram

\* So does a confirmed emergency stop.
LEMMA EmergencyConfirmedStores ==
    ASSUME StoresInv, NEW m, EmergencyConfirmed(m)
    PROVE  StoresAgree' /\ TransferNotOlder'
<1>1. emergency.command.task \in Tasks
  BY DEF StoresInv, TypeOK, EmergencyConfirmed, MatchesEmergency, Emergency, Command
<1> QED BY <1>1, BeginCleanupStores, CompleteCleanupStores DEF EmergencyConfirmed

\* So does a confirmed unload.
LEMMA CleanupConfirmedStores ==
    ASSUME StoresInv, NEW m, CleanupConfirmed(m)
    PROVE  StoresAgree' /\ TransferNotOlder'
<1>1. cleanup.command.task \in Tasks
  BY DEF StoresInv, TypeOK, CleanupConfirmed, MatchesCleanup, Cleanup, Command
<1> QED BY <1>1, CompleteCleanupStores DEF CleanupConfirmed

\* A mission record with a new state is still a record.
LEMMA RecordIsNotNone ==
    ASSUME NEW r \in MissionRecord, NEW state \in {"received", "ready", "failed"}
    PROVE  [r EXCEPT !.state = state] # None
BY NoneIsNoRecord DEF MissionRecord

\* update_state changes no revision and makes no record.
LEMMA UpdateStateStores ==
    ASSUME StoresInv, NEW t \in Tasks, NEW state \in {"received", "ready", "failed"},
           UpdateState(t, state)
    PROVE  /\ \A u \in Tasks : mission'[u] # None =>
                mission[u] # None /\ mission'[u].rev = mission[u].rev
           /\ latest' # None => mission'[latest'] # None
<1>1. /\ mission' = [mission EXCEPT ![t] = IF @ = None THEN None
                                           ELSE [@ EXCEPT !.state = state]]
      /\ latest' = IF mission[t] = None THEN latest ELSE t
  BY DEF UpdateState
<1>2. mission \in [Tasks -> MissionRecord \union {None}]
  BY DEF StoresInv, TypeOK
<1>3. mission[t] # None => mission'[t] = [mission[t] EXCEPT !.state = state]
  BY <1>1, <1>2
<1>4. \A u \in Tasks \ {t} : mission'[u] = mission[u]
  BY <1>1, <1>2
<1>5. mission[t] = None => mission'[t] = None
  BY <1>1, <1>2
<1>6. mission[t] # None => mission'[t].rev = mission[t].rev
  BY <1>2, <1>3 DEF MissionRecord
<1> QED
  BY <1>1, <1>4, <1>5, <1>6, RecordIsNotNone DEF StoresInv, StoresAgree, TypeOK

\* Feedback on a preparation changes states, not revisions.
LEMMA PreparationFeedbackStores ==
    ASSUME StoresInv, NEW m, NEW e, PreparationFeedback(m, e)
    PROVE  StoresAgree' /\ TransferNotOlder'
<1>1. preparation \in Preparation /\ preparation # None /\ preparation.task \in Tasks
  BY DEF StoresInv, TypeOK, PreparationFeedback, MatchesPreparation, Preparation
<1>2. preparation'.task = preparation.task /\ preparation'.rev = preparation.rev
  BY <1>1 DEF PreparationFeedback, Preparation
<1>3. PICK state \in {"received", "ready", "failed"} : UpdateState(preparation.task, state)
  BY DEF PreparationFeedback, MatchesPreparation
<1>4. xml' = xml /\ transfer' = transfer
  BY DEF PreparationFeedback
<1> QED BY <1>1, <1>2, <1>3, <1>4, UpdateStateStores DEF StoresInv, StoresAgree, TransferNotOlder

\* Every adapter feedback leaves the stores in agreement.
LEMMA FeedbackCallbackStores ==
    ASSUME StoresInv, NEW m, FeedbackCallback(m)
    PROVE  StoresAgree' /\ TransferNotOlder'
<1>1. CASE EmergencyFailed(m)
  BY <1>1, SameStores DEF StoresInv, EmergencyFailed, disk
<1>2. CASE EmergencyConfirmed(m)
  BY <1>2, EmergencyConfirmedStores
<1>3. CASE CleanupConfirmed(m)
  BY <1>3, CleanupConfirmedStores
<1>4. CASE \E e \in BOOLEAN : PreparationFeedback(m, e)
  BY <1>4, PreparationFeedbackStores
<1>5. CASE ExecutionScheduled(m) \/ SchedulingFailed(m)
  BY <1>5, SameStores DEF StoresInv, ExecutionScheduled, SchedulingFailed
<1>6. CASE ExecutionProgress(m) \/ ExecutionEnded(m)
  BY <1>6, SameStores DEF StoresInv, ExecutionProgress, ExecutionEnded
<1> QED BY <1>1, <1>2, <1>3, <1>4, <1>5, <1>6 DEF FeedbackCallback

\* A watchdog tick drops transfers and repeats preparations, nothing else.
LEMMA WatchdogStores ==
    ASSUME StoresInv, NEW due \in SUBSET Timers, Watchdog(due)
    PROVE  StoresAgree' /\ TransferNotOlder'
<1>1. transfer' = transfer \/ transfer' = None
  BY DEF Watchdog
<1>2. "prepare" \in due => preparation \in Preparation
  BY DEF Watchdog, Armed, StoresInv, TypeOK
<1>3. /\ preparation' # None => preparation # None
      /\ preparation # None => /\ preparation'.task = preparation.task
                               /\ preparation'.rev = preparation.rev
  BY <1>2, NoneIsNoRecord DEF Watchdog, Preparation
<1>4. UNCHANGED <<xml, mission, latest>>
  BY DEF Watchdog
<1> QED BY <1>1, <1>3, <1>4 DEF StoresInv, StoresAgree, TransferNotOlder

\* What start() prepares is what the stores agree on.
LEMMA StartStores ==
    ASSUME StoresInv, Start
    PROVE  StoresAgree' /\ TransferNotOlder'
<1>1. TransferNotOlder' /\ UNCHANGED <<xml, latest>>
  BY DEF Start, TransferNotOlder
<1>2. preparation' # None => /\ latest \in Tasks /\ xml[latest] # None
                             /\ preparation'.task = latest
                             /\ preparation'.rev = xml[latest].rev
  BY DEF Start, StoresInv, TypeOK
<1>3. preparation' # None => preparation'.rev <= xml[latest].rev
  <2>1. preparation' # None => xml[latest] \in Trajectory
    BY <1>2 DEF StoresInv, TypeOK
  <2>2. preparation' # None => xml[latest].rev \in Nat
    BY <2>1, ConstantsOK DEF Trajectory
  <2> QED BY <1>2, <2>2
<1>4. CASE mission' = mission
  BY <1>1, <1>2, <1>3, <1>4 DEF StoresInv, StoresAgree
<1>5. CASE latest \in Tasks /\ mission' = [mission EXCEPT ![latest].state = "failed"]
  <2>1. mission[latest] \in MissionRecord
    BY <1>5, NoneIsNoRecord DEF StoresInv, StoresAgree, TypeOK
  <2>2. /\ \A u \in Tasks \ {latest} : mission'[u] = mission[u]
        /\ mission'[latest] = [mission[latest] EXCEPT !.state = "failed"]
    BY <1>5 DEF StoresInv, TypeOK
  <2>3. mission'[latest] \in MissionRecord /\ mission'[latest].rev = mission[latest].rev
    BY <2>1, <2>2 DEF MissionRecord
  <2> QED BY <1>1, <1>2, <1>3, <2>1, <2>2, <2>3, NoneIsNoRecord DEF StoresInv, StoresAgree
<1>6. mission' = mission \/ (latest \in Tasks /\ mission' = [mission EXCEPT ![latest].state = "failed"])
  BY DEF Start, StoresInv, TypeOK
<1> QED BY <1>4, <1>5, <1>6

\* A dead process has neither a preparation nor a transfer.
LEMMA DiesStores ==
    ASSUME Dies
    PROVE  preparation' = None /\ TransferNotOlder'
BY DEF Dies, ForgetVolatile, TransferNotOlder

\* The mission record goes first, so a crash leaves at most a trajectory behind.
LEMMA CrashInCleanupStores ==
    ASSUME StoresInv, NEW m, CrashInCleanup(m)
    PROVE  StoresAgree' /\ TransferNotOlder'
<1>1. cleanup.command.task \in Tasks
  BY DEF StoresInv, TypeOK, CrashInCleanup, MatchesCleanup, Cleanup, Command
<1>2. /\ mission'[cleanup.command.task] = None
      /\ \A u \in Tasks \ {cleanup.command.task} : mission'[u] = mission[u]
  BY <1>1 DEF CrashInCleanup, StoresInv, TypeOK
<1>3. latest' # None =>
        latest' \in Tasks \ {cleanup.command.task} /\ mission[latest'] # None
  BY <1>1 DEF CrashInCleanup, LatestWithout, StoresInv, StoresAgree, TypeOK
<1>4. xml' = xml /\ Dies
  BY DEF CrashInCleanup
<1> QED BY <1>2, <1>3, <1>4, DiesStores DEF StoresInv, StoresAgree

\* Every step leaves the stores in agreement.
LEMMA StepStores == StoresInv /\ [Next]_vars => StoresAgree' /\ TransferNotOlder'
<1> SUFFICES ASSUME StoresInv, [Next]_vars PROVE StoresAgree' /\ TransferNotOlder'
  OBVIOUS
<1>1. CASE \E c \in Commands : AnyDatagram(c)
  BY <1>1, DatagramStores
<1>2. CASE \E i \in Chunks, quality \in {"good", "bad"} : Chunk(i, quality)
  BY <1>2, ChunkStores
<1>3. CASE \E r \in Requests : ExpireAnswer(r)
  BY <1>3, SameStores DEF ExpireAnswer, StoresInv, disk
<1>4. CASE \E m \in Echoes : FeedbackCallback(m)
  BY <1>4, FeedbackCallbackStores
<1>5. CASE \E due \in SUBSET Timers : Watchdog(due)
  BY <1>5, WatchdogStores
<1>6. CASE Start
  BY <1>6, StartStores
<1>7. CASE Close
  BY <1>7 DEF Close, ForgetVolatile, disk, StoresInv, StoresAgree, TransferNotOlder
<1>8. CASE Crash
  BY <1>8, DiesStores DEF Crash, disk, StoresInv, StoresAgree
<1>9. CASE \E c \in Commands : CrashInCommit(c)
  BY <1>9, WrittenAlone, DiesStores DEF CrashInCommit
<1>10. CASE \E m \in Echoes : CrashInRelease(m)
  BY <1>10, DiesStores DEF CrashInRelease, StoresInv, StoresAgree
<1>11. CASE \E m \in Echoes : CrashInCleanup(m)
  BY <1>11, CrashInCleanupStores
<1>12. CASE MarkerChanges \/ UNCHANGED vars
  BY <1>12, SameStores DEF MarkerChanges, vars, volatile, disk, StoresInv
<1> QED BY <1>1, <1>2, <1>3, <1>4, <1>5, <1>6, <1>7, <1>8, <1>9, <1>10, <1>11, <1>12, Steps

\* The inductive invariant of the two stores and the transfer between them.
THEOREM StoresInvariant == Spec => []StoresInv
<1>1. Init => StoresInv
  BY InitType, InitStores DEF StoresInv
<1>2. StoresInv /\ [Next]_vars => StoresInv'
  BY StepType, StepStores DEF StoresInv
<1> QED BY <1>1, <1>2, PTL DEF Spec

\* Every reachable state has the types the handlers assume.
THEOREM TypeCorrect == Spec => []TypeOK
<1>1. StoresInv => TypeOK
  BY DEF StoresInv
<1> QED BY <1>1, StoresInvariant, PTL

\* At every crash point the trajectory and mission stores agree.
THEOREM StoresAlwaysAgree == Spec => []StoresAgree
<1>1. StoresInv => StoresAgree
  BY DEF StoresInv
<1> QED BY <1>1, StoresInvariant, PTL

-----------------------------------------------------------------------------
(* No rollback.                                                             *)

\* What NoRollback says of one task's trajectory.
NotOlder(t) ==
    xml[t] # None /\ xml'[t] # None =>
        /\ xml[t].rev <= xml'[t].rev
        /\ xml[t].rev = xml'[t].rev => xml[t].crc = xml'[t].crc

\* A trajectory that stays or disappears is no rollback.
LEMMA SameOrGone ==
    ASSUME StoresInv, NEW t \in Tasks, xml'[t] = None \/ xml'[t] = xml[t]
    PROVE  NotOlder(t)
<1>1. xml[t] # None => xml[t] \in Trajectory
  BY DEF StoresInv, TypeOK
<1>2. xml[t] # None => xml[t].rev \in Nat
  BY <1>1, ConstantsOK DEF Trajectory
<1> QED BY <1>2 DEF NotOlder

\* What a commit writes is no rollback.
LEMMA WrittenNotOlder ==
    ASSUME StoresInv, NEW c \in Commands, CommitComplete(c),
           xml' = [xml EXCEPT ![c.task] = [rev |-> c.rev, crc |-> c.crc]], NEW t \in Tasks
    PROVE  NotOlder(t)
BY CommitKeepsOrder DEF NotOlder

\* A deletion is no rollback.
LEMMA DeletedNotOlder ==
    ASSUME StoresInv, NEW u \in Tasks, CompleteCleanup(u), NEW t \in Tasks
    PROVE  NotOlder(t)
BY DeleteTaskStores, SameOrGone DEF CompleteCleanup

\* _commit, successful or not, is no rollback.
LEMMA CommitNotOlder ==
    ASSUME StoresInv, NEW c \in Commands, Commit(c), NEW t \in Tasks
    PROVE  NotOlder(t)
<1>1. CASE CommitComplete(c) /\ xml' = [xml EXCEPT ![c.task] = [rev |-> c.rev, crc |-> c.crc]]
  BY <1>1, WrittenNotOlder
<1>2. CASE xml' = xml
  BY <1>2, SameOrGone
<1> QED BY <1>1, <1>2 DEF Commit, CommitStored, CommitRefused, CommitMissing, CommitFails,
                         CommitSucceeds, AnswerOnly, disk

\* No datagram rolls a trajectory back.
LEMMA DatagramNotOlder ==
    ASSUME StoresInv, NEW c \in Commands, AnyDatagram(c), NEW t \in Tasks
    PROVE  NotOlder(t)
<1>1. CASE Commit(c)
  BY <1>1, CommitNotOlder
<1>2. CASE Delete(c)
  <2>1. c.task \in Tasks
    BY ConstantsOK DEF Command
  <2>2. CASE CompleteCleanup(c.task)
    BY <2>1, <2>2, DeletedNotOlder
  <2>3. CASE xml' = xml
    BY <2>3, SameOrGone
  <2> QED BY <1>2, <2>2, <2>3 DEF Delete, AnswerOnly, BeginCleanup, disk
<1>3. CASE xml' = xml
  BY <1>3, SameOrGone
<1> QED BY <1>1, <1>2, <1>3
        DEF AnyDatagram, Datagram, MarkedDatagram, LookAtMarker, Negotiate, ReadTask,
            Prepare, ExecuteRefused, Execute, Terminate, EmergencyStop, AnswerOnly,
            RejectLatched, disk

\* No feedback rolls a trajectory back.
LEMMA FeedbackNotOlder ==
    ASSUME StoresInv, NEW m, FeedbackCallback(m), NEW t \in Tasks
    PROVE  NotOlder(t)
<1>1. CASE EmergencyConfirmed(m)
  <2>1. emergency.command.task \in Tasks
    BY <1>1 DEF StoresInv, TypeOK, EmergencyConfirmed, MatchesEmergency, Emergency, Command
  <2>2. CASE CompleteCleanup(emergency.command.task)
    BY <2>1, <2>2, DeletedNotOlder
  <2>3. CASE xml' = xml
    BY <2>3, SameOrGone
  <2> QED BY <1>1, <2>2, <2>3 DEF EmergencyConfirmed, BeginCleanup
<1>2. CASE CleanupConfirmed(m)
  <2>1. cleanup.command.task \in Tasks
    BY <1>2 DEF StoresInv, TypeOK, CleanupConfirmed, MatchesCleanup, Cleanup, Command
  <2> QED BY <1>2, <2>1, DeletedNotOlder DEF CleanupConfirmed
<1>3. CASE xml' = xml
  BY <1>3, SameOrGone
<1> QED BY <1>1, <1>2, <1>3
        DEF FeedbackCallback, EmergencyFailed, PreparationFeedback, ExecutionScheduled,
            SchedulingFailed, ExecutionProgress, ExecutionEnded, disk

\* No step rolls a trajectory back.
LEMMA StepNotOlder ==
    ASSUME StoresInv, [Next]_vars, NEW t \in Tasks
    PROVE  NotOlder(t)
<1>1. CASE \E c \in Commands : AnyDatagram(c)
  BY <1>1, DatagramNotOlder
<1>2. CASE \E m \in Echoes : FeedbackCallback(m)
  BY <1>2, FeedbackNotOlder
<1>3. CASE \E c \in Commands : CrashInCommit(c)
  BY <1>3, WrittenNotOlder DEF CrashInCommit
<1>4. CASE xml' = xml
  BY <1>4, SameOrGone
<1>5. CASE \/ \E i \in Chunks, quality \in {"good", "bad"} : Chunk(i, quality)
           \/ \E r \in Requests : ExpireAnswer(r)
           \/ \E due \in SUBSET Timers : Watchdog(due)
           \/ Start \/ Close \/ Crash
           \/ \E m \in Echoes : CrashInRelease(m) \/ CrashInCleanup(m)
           \/ MarkerChanges \/ UNCHANGED vars
  <2>1. xml' = xml
    BY <1>5 DEF Chunk, ExpireAnswer, Watchdog, Start, Close, Crash, CrashInRelease,
                CrashInCleanup, MarkerChanges, vars, disk
  <2> QED BY <1>4, <2>1
<1> QED BY <1>1, <1>2, <1>3, <1>5, Steps

\* A stored trajectory is never replaced by an older revision or by other
\* content of the same revision, whatever is lost, repeated or interrupted
\* between task_prepare, which compares, and task_commit, which writes.
THEOREM NeverRollsBack == Spec => NoRollback
<1>1. StoresInv /\ [Next]_vars =>
        [\A t \in Tasks : xml[t] # None /\ xml'[t] # None =>
          /\ xml[t].rev <= xml'[t].rev
          /\ xml[t].rev = xml'[t].rev => xml[t].crc = xml'[t].crc]_vars
  BY StepNotOlder DEF NotOlder
<1> QED BY <1>1, StoresInvariant, PTL DEF Spec, NoRollback

-----------------------------------------------------------------------------
(* The execution and what a restart would find of it.                       *)

\* Inductive given the types.
ExecutionInv == ActiveRecordTracksExecution /\ PendingExecuteIffScheduling

\* Nothing is executing at first.
LEMMA InitExecution == Init => ExecutionInv
BY DEF Init, ExecutionInv, ActiveRecordTracksExecution, PendingExecuteIffScheduling

\* A step that leaves the execution and its file alone keeps the invariant.
LEMMA SameExecution ==
    ASSUME ExecutionInv, UNCHANGED <<up, execution, pendingExecute, active>>
    PROVE  ExecutionInv'
BY DEF ExecutionInv, ActiveRecordTracksExecution, PendingExecuteIffScheduling, Persisted

\* So does one that ends the execution and leaves no live record, or no process.
LEMMA NoExecution ==
    ASSUME execution' = None, pendingExecute' = None,
           ~up' \/ active' = None \/ active'.state \in TerminalStates
    PROVE  ExecutionInv'
BY DEF ExecutionInv, ActiveRecordTracksExecution, PendingExecuteIffScheduling

\* Every datagram handler keeps the execution and its file together.
LEMMA DatagramExecution ==
    ASSUME TypeOK, ExecutionInv, NEW c \in Commands, AnyDatagram(c)
    PROVE  ExecutionInv'
<1>1. CASE Execute(c)
  <2>1. c \in Command /\ c # None
    BY ConstantsOK, NoneIsNoRecord
  <2>2. /\ execution' = [task |-> c.task, rev |-> c.rev, exec |-> c.exec,
                         request |-> c.request, requests |-> {c.request},
                         state |-> "scheduling"]
        /\ pendingExecute' = c /\ active' = Persisted(execution')
    BY <1>1 DEF Execute
  <2>3. execution' \in Execution
    BY <1>1, <2>1, <2>2, ConstantsOK
       DEF Execute, Handles, Receives, Command, Execution, LiveStates
  <2>4. execution' # None
    BY <2>3, NoneIsNoRecord
  <2> QED BY <2>1, <2>2, <2>4
          DEF ExecutionInv, ActiveRecordTracksExecution, PendingExecuteIffScheduling, Persisted
<1>2. CASE Terminate(c)
  <2>1. CASE UNCHANGED <<up, execution, pendingExecute, active>>
    BY <2>1, SameExecution
  <2>2. CASE /\ execution # None
             /\ execution' = [execution EXCEPT !.requests = @ \union {c.request}]
             /\ UNCHANGED <<up, pendingExecute, active>>
    <3>1. execution \in Execution /\ c.request \in Requests
      BY <2>2, ConstantsOK DEF TypeOK, Command
    <3>2. execution' \in Execution
      BY <2>2, <3>1 DEF Execution
    <3>3. execution' # None
      BY <3>2, NoneIsNoRecord
    <3>4. /\ execution'.task = execution.task /\ execution'.rev = execution.rev
          /\ execution'.exec = execution.exec /\ execution'.request = execution.request
          /\ execution'.state = execution.state
      BY <2>2, <3>1 DEF Execution
    <3> QED BY <2>2, <3>3, <3>4
            DEF ExecutionInv, ActiveRecordTracksExecution, PendingExecuteIffScheduling, Persisted
  <2> QED BY <1>2, <2>1, <2>2 DEF Terminate, AnswerOnly, disk
<1>3. CASE UNCHANGED <<up, execution, pendingExecute, active>>
  BY <1>3, SameExecution
<1>4. CASE Prepare(c)
  BY <1>3, <1>4 DEF Prepare, AnswerOnly, disk
<1>5. CASE Commit(c)
  BY <1>3, <1>5 DEF Commit, CommitStored, CommitRefused, CommitMissing, CommitFails,
                    CommitSucceeds, AnswerOnly, volatile, disk
<1>6. CASE \/ Negotiate(c) \/ ReadTask(c) \/ ExecuteRefused(c) \/ EmergencyStop(c)
           \/ Delete(c) \/ LookAtMarker(c)
  BY <1>3, <1>6 DEF Negotiate, ReadTask, ExecuteRefused, EmergencyStop, Delete,
                    LookAtMarker, RejectLatched, AnswerOnly, volatile, disk
<1> QED BY <1>1, <1>2, <1>4, <1>5, <1>6 DEF AnyDatagram, Datagram, MarkedDatagram

\* Every adapter feedback keeps the execution and its file together.
LEMMA FeedbackExecution ==
    ASSUME TypeOK, ExecutionInv, NEW m, FeedbackCallback(m)
    PROVE  ExecutionInv'
<1>1. CASE EmergencyConfirmed(m)
  BY <1>1, NoExecution
     DEF EmergencyConfirmed, ExecutionInv, ActiveRecordTracksExecution,
         PendingExecuteIffScheduling
<1>2. CASE ExecutionScheduled(m) \/ ExecutionProgress(m)
  <2>1. execution \in Execution /\ execution # None
    BY <1>2 DEF TypeOK, ExecutionScheduled, ExecutionProgress, ForExecution, MatchesExecution
  <2>2. PICK state \in {"scheduled", "running"} :
           execution' = [execution EXCEPT !.state = state]
    BY <1>2 DEF ExecutionScheduled, ExecutionProgress, Successors, LiveStates
  <2>3. active' = Persisted(execution')
    BY <1>2 DEF ExecutionScheduled, ExecutionProgress
  <2>4. execution' \in Execution
    BY <2>1, <2>2 DEF Execution, LiveStates
  <2>5. execution' # None /\ execution'.state = state
    BY <2>1, <2>2, <2>4, NoneIsNoRecord DEF Execution
  <2>6. pendingExecute' = None
    BY <1>2, <2>1 DEF ExecutionScheduled, ExecutionProgress, Successors, ExecutionInv,
                      PendingExecuteIffScheduling
  <2> QED BY <2>3, <2>5, <2>6
          DEF ExecutionInv, ActiveRecordTracksExecution, PendingExecuteIffScheduling, Persisted
<1>3. CASE SchedulingFailed(m) \/ ExecutionEnded(m)
  BY <1>3, NoExecution DEF SchedulingFailed, RejectExecution, ExecutionEnded, ReleaseExecution
<1>4. CASE EmergencyFailed(m) \/ CleanupConfirmed(m)
           \/ \E e \in BOOLEAN : PreparationFeedback(m, e)
  BY <1>4, SameExecution DEF EmergencyFailed, CleanupConfirmed, PreparationFeedback, disk
<1> QED BY <1>1, <1>2, <1>3, <1>4 DEF FeedbackCallback

\* The watchdog gives up an execution as a whole.
LEMMA WatchdogExecution ==
    ASSUME ExecutionInv, NEW due \in SUBSET Timers, Watchdog(due)
    PROVE  ExecutionInv'
BY SameExecution, NoExecution DEF Watchdog

\* start() clears what it has revoked.
LEMMA StartExecution ==
    ASSUME TypeOK, Start
    PROVE  ExecutionInv'
<1>1. execution' = None /\ pendingExecute' = None
  BY DEF Start
<1>2. active' = None \/ (active' \in ActiveRecord /\ active'.state \notin LiveStates)
  BY DEF Start, TypeOK
<1>3. active' = None \/ active'.state \in TerminalStates
  BY <1>2 DEF ActiveRecord
<1> QED BY <1>1, <1>3, NoExecution

\* Every step keeps the execution and its file together.
LEMMA StepExecution == TypeOK /\ ExecutionInv /\ [Next]_vars => ExecutionInv'
<1> SUFFICES ASSUME TypeOK, ExecutionInv, [Next]_vars PROVE ExecutionInv'
  OBVIOUS
<1>1. CASE \E c \in Commands : AnyDatagram(c)
  BY <1>1, DatagramExecution
<1>2. CASE \E m \in Echoes : FeedbackCallback(m)
  BY <1>2, FeedbackExecution
<1>3. CASE \E due \in SUBSET Timers : Watchdog(due)
  BY <1>3, WatchdogExecution
<1>4. CASE Start
  BY <1>4, StartExecution
<1>5. CASE \/ Close \/ Crash
           \/ \E c \in Commands : CrashInCommit(c)
           \/ \E m \in Echoes : CrashInRelease(m) \/ CrashInCleanup(m)
  BY <1>5, NoExecution
     DEF Close, Crash, CrashInCommit, CrashInRelease, CrashInCleanup, Dies, ForgetVolatile
<1>6. CASE \/ \E i \in Chunks, quality \in {"good", "bad"} : Chunk(i, quality)
           \/ \E r \in Requests : ExpireAnswer(r)
           \/ MarkerChanges \/ UNCHANGED vars
  BY <1>6, SameExecution DEF Chunk, ExpireAnswer, MarkerChanges, vars, volatile, disk
<1> QED BY <1>1, <1>2, <1>3, <1>4, <1>5, <1>6, Steps

\* The inductive invariant of the execution and its file.
THEOREM ExecutionInvariant == Spec => []ExecutionInv
<1>1. Init => ExecutionInv
  BY InitExecution
<1>2. TypeOK /\ ExecutionInv /\ [Next]_vars => ExecutionInv'
  BY StepExecution
<1> QED BY <1>1, <1>2, TypeCorrect, PTL DEF Spec

\* A restart finds the execution the adapter was last asked for, and finds no
\* live one that was over.
THEOREM RestartFindsExecution == Spec => []ActiveRecordTracksExecution
<1>1. ExecutionInv => ActiveRecordTracksExecution
  BY DEF ExecutionInv
<1> QED BY <1>1, ExecutionInvariant, PTL

\* The answer of an execute_task is owed exactly while its execution waits for
\* the adapter.
THEOREM PendingWhileScheduling == Spec => []PendingExecuteIffScheduling
<1>1. ExecutionInv => PendingExecuteIffScheduling
  BY DEF ExecutionInv
<1> QED BY <1>1, ExecutionInvariant, PTL

-----------------------------------------------------------------------------
(* The latch blocks new work.                                               *)

\* What is not among the commands a step publishes.
NoSchedule(s) == \A i \in DOMAIN s : s[i].action # "SCHEDULE"
NoPrepare(s) == \A i \in DOMAIN s : s[i].action # "PREPARE"

\* What a step does that is not the rest of a handler past its look.
NoNewWork ==
    /\ NoSchedule(ros')
    /\ transfer = None => transfer' = None
    /\ \A t \in Tasks : xml'[t] \in {xml[t], None}

\* A sequence of other commands holds no SCHEDULE.
LEMMA OthersNoSchedule ==
    ASSUME NEW S, \A x \in S : x.action # "SCHEDULE", NEW s \in Seq(S)
    PROVE  NoSchedule(s)
BY DEF NoSchedule

\* A sequence of other commands holds no PREPARE.
LEMMA OthersNoPrepare ==
    ASSUME NEW S, \A x \in S : x.action # "PREPARE", NEW s \in Seq(S)
    PROVE  NoPrepare(s)
BY DEF NoPrepare

\* Publishing nothing publishes neither.
LEMMA NothingNoSchedule == NoSchedule(<<>>) /\ NoPrepare(<<>>)
BY DEF NoSchedule, NoPrepare

\* Nor does publishing one other command.
LEMMA OneNoSchedule ==
    ASSUME NEW action, NEW request, NEW task, NEW exec, NEW rev,
           action \notin {"SCHEDULE", "PREPARE"}
    PROVE  /\ NoSchedule(<<Ros(action, request, task, exec, rev)>>)
           /\ NoPrepare(<<Ros(action, request, task, exec, rev)>>)
BY DEF NoSchedule, NoPrepare, Ros

\* An optional command is a sequence of at most that command.
LEMMA OnlyIn ==
    ASSUME NEW S, NEW x \in S, NEW condition
    PROVE  Only(condition, x) \in Seq(S)
BY DEF Only

\* A deletion takes trajectories away and stores none.
LEMMA CleanupNoNewWork ==
    ASSUME TypeOK, NEW u, CompleteCleanup(u)
    PROVE  /\ NoSchedule(ros') /\ NoPrepare(ros')
           /\ \A t \in Tasks : xml'[t] \in {xml[t], None}
BY NothingNoSchedule DEF TypeOK, CompleteCleanup, DeleteTask

\* So does the UNLOAD that precedes it.
LEMMA BeginCleanupNoNewWork ==
    ASSUME NEW c, NEW kind, BeginCleanup(c, kind)
    PROVE  NoSchedule(ros') /\ NoPrepare(ros') /\ xml' = xml
BY OneNoSchedule DEF BeginCleanup

\* A handler that does not look at the marker brings no new work.
LEMMA DatagramNoNewWork ==
    ASSUME TypeOK, NEW c \in Commands, Datagram(c)
    PROVE  NoNewWork /\ NoPrepare(ros')
<1>1. CASE Negotiate(c) \/ ReadTask(c)
  <2>1. ros' = <<>> /\ xml' = xml /\ transfer' = transfer
    BY <1>1 DEF Negotiate, ReadTask, AnswerOnly, disk
  <2> QED BY <2>1, NothingNoSchedule DEF NoNewWork
<1>3. CASE Terminate(c)
  <2>1. xml' = xml /\ transfer' = transfer
    BY <1>3 DEF Terminate, AnswerOnly, disk
  <2>2. NoSchedule(ros') /\ NoPrepare(ros')
    <3>1. CASE ros' = <<>>
      BY <3>1, NothingNoSchedule
    <3>2. CASE ros' = <<Ros(IF execution.state = "running" THEN "STOP" ELSE "CANCEL",
                            c.request, execution.task, execution.exec, execution.rev)>>
      BY <3>2, OneNoSchedule
    <3> QED BY <1>3, <3>1, <3>2 DEF Terminate, AnswerOnly
  <2> QED BY <2>1, <2>2 DEF NoNewWork
<1>4. CASE EmergencyStop(c)
  BY <1>4, OneNoSchedule DEF EmergencyStop, NoNewWork, disk
<1>5. CASE Delete(c)
  <2>1. transfer' = transfer
    BY <1>5 DEF Delete, AnswerOnly
  <2>2. CASE AnswerOnly(c, "rejected")
    BY <2>1, <2>2, NothingNoSchedule DEF AnswerOnly, NoNewWork, disk
  <2>3. CASE BeginCleanup(c, "delete")
    BY <2>1, <2>3, BeginCleanupNoNewWork DEF NoNewWork
  <2>4. CASE CompleteCleanup(c.task)
    BY <2>1, <2>4, CleanupNoNewWork DEF NoNewWork
  <2> QED BY <1>5, <2>2, <2>3, <2>4 DEF Delete
<1> QED BY <1>1, <1>3, <1>4, <1>5 DEF Datagram

\* Neither does the look, whatever it finds.
LEMMA LookNoNewWork ==
    ASSUME TypeOK, NEW c \in Commands, LookAtMarker(c)
    PROVE  NoNewWork /\ NoPrepare(ros')
<1>1. ros' = <<>> /\ xml' = xml /\ transfer' \in {transfer, None}
  BY DEF LookAtMarker, RejectLatched, volatile, disk
<1> QED BY <1>1, NothingNoSchedule DEF NoNewWork

\* The rest of a handler that looked asks for no preparation of a robot that
\* has been latched meanwhile.
LEMMA MarkedNoPrepare ==
    ASSUME marker, NEW c \in Commands, MarkedDatagram(c)
    PROVE  NoPrepare(ros')
<1>1. CASE Execute(c)
  BY <1>1 DEF Execute, NoPrepare, Ros
<1>2. CASE ros' = <<>>
  BY <1>2, NothingNoSchedule
<1> QED BY <1>1, <1>2
        DEF MarkedDatagram, Prepare, Commit, ExecuteRefused, CommitStored, CommitRefused,
            CommitMissing, CommitFails, CommitSucceeds, BeginPreparation, AnswerOnly

\* Such a handler had looked.
LEMMA MarkedHandles ==
    ASSUME NEW c \in Commands, MarkedDatagram(c) \/ CrashInCommit(c)
    PROVE  handling # None
<1>1. handling = c
  BY DEF MarkedDatagram, Prepare, Commit, ExecuteRefused, Execute, CommitStored,
         CommitRefused, CommitMissing, CommitFails, CommitSucceeds, CommitComplete,
         CrashInCommit, Handles
<1>2. c # None
  BY ConstantsOK, NoneIsNoRecord
<1> QED BY <1>1, <1>2

\* No feedback brings new work, whether the robot is latched or not.
LEMMA FeedbackNoNewWork ==
    ASSUME TypeOK, NEW m, FeedbackCallback(m)
    PROVE  NoNewWork /\ NoPrepare(ros')
<1>1. CASE EmergencyConfirmed(m)
  <2>1. transfer' = transfer
    BY <1>1 DEF EmergencyConfirmed
  <2>2. CASE BeginCleanup(emergency.command, "emergency")
    BY <2>1, <2>2, BeginCleanupNoNewWork DEF NoNewWork
  <2>3. CASE CompleteCleanup(emergency.command.task)
    BY <2>1, <2>3, CleanupNoNewWork DEF NoNewWork
  <2> QED BY <1>1, <2>2, <2>3 DEF EmergencyConfirmed
<1>2. CASE CleanupConfirmed(m)
  BY <1>2, CleanupNoNewWork DEF CleanupConfirmed, NoNewWork
<1>3. CASE ros' = <<>> /\ xml' = xml /\ transfer' = transfer
  BY <1>3, NothingNoSchedule DEF NoNewWork
<1> QED BY <1>1, <1>2, <1>3
        DEF FeedbackCallback, EmergencyFailed, PreparationFeedback, ExecutionScheduled,
            SchedulingFailed, ExecutionProgress, ExecutionEnded, disk

\* The watchdog resends and stops; it never schedules, and prepares only again.
LEMMA WatchdogNoNewWork ==
    ASSUME NEW due \in SUBSET Timers, Watchdog(due)
    PROVE  /\ NoNewWork
           /\ NoPrepare(ros') \/ (preparation # None /\ preparation.retryable)
<1> DEFINE waits == execution # None /\ execution.state = "scheduling"
           stops == "execution" \in due /\ ~waits
           unload == Ros("UNLOAD", cleanup.command.request, cleanup.command.task, None,
                         cleanup.rev)
           emergencyStop == Ros("EMERGENCY_STOP", emergency.command.request,
                                emergency.task, emergency.exec, emergency.rev)
           prepare == Ros("PREPARE", preparation.request, preparation.task, None,
                          preparation.rev)
           stop == Ros("STOP", "watchdog-stop", execution.task, execution.exec,
                       execution.rev)
           sent == {unload, emergencyStop, prepare, stop}
<1>1. ros' = Only("unload" \in due, unload) \o Only("emergency" \in due, emergencyStop)
               \o Only("prepare" \in due, prepare) \o Only(stops, stop)
  BY DEF Watchdog
<1>2. \A x \in sent : x.action # "SCHEDULE"
  BY DEF Ros
<1>3. ros' \in Seq(sent)
  <2> DEFINE S == sent
  <2>1. unload \in S /\ emergencyStop \in S /\ prepare \in S /\ stop \in S
    OBVIOUS
  <2> HIDE DEF unload, emergencyStop, prepare, stop, stops, S
  <2>2. /\ Only("unload" \in due, unload) \in Seq(S)
        /\ Only("emergency" \in due, emergencyStop) \in Seq(S)
        /\ Only("prepare" \in due, prepare) \in Seq(S)
        /\ Only(stops, stop) \in Seq(S)
    BY <2>1, OnlyIn
  <2>3. ros' \in Seq(S)
    BY <1>1, <2>2
  <2> QED BY <2>3 DEF S
<1>4. NoSchedule(ros')
  BY <1>2, <1>3, OthersNoSchedule
<1>5. xml' = xml /\ (transfer' = transfer \/ transfer' = None)
  BY DEF Watchdog
<1>6. ASSUME "prepare" \in due PROVE preparation # None /\ preparation.retryable
  BY <1>6 DEF Watchdog, Armed
<1>7. ASSUME "prepare" \notin due PROVE NoPrepare(ros')
  <2> DEFINE S == {unload, emergencyStop, stop}
  <2>1. unload \in S /\ emergencyStop \in S /\ stop \in S
    OBVIOUS
  <2>2. \A x \in S : x.action # "PREPARE"
    BY DEF Ros
  <2>3. Only("prepare" \in due, prepare) = <<>>
    BY <1>7 DEF Only
  <2> HIDE DEF unload, emergencyStop, prepare, stop, stops, S
  <2>4. /\ Only("unload" \in due, unload) \in Seq(S)
        /\ Only("emergency" \in due, emergencyStop) \in Seq(S)
        /\ Only(stops, stop) \in Seq(S) /\ <<>> \in Seq(S)
    BY <2>1, OnlyIn
  <2>5. ros' = Only("unload" \in due, unload) \o Only("emergency" \in due, emergencyStop)
                \o <<>> \o Only(stops, stop)
    BY <1>1, <2>3
  <2>6. ros' \in Seq(S)
    BY <2>4, <2>5
  <2> QED BY <2>2, <2>6, OthersNoPrepare
<1> QED BY <1>4, <1>5, <1>6, <1>7 DEF NoNewWork

\* start() revokes and prepares; it never schedules.
LEMMA StartNoNewWork ==
    ASSUME Start
    PROVE  NoNewWork /\ (marker => NoPrepare(ros'))
<1> DEFINE interrupted == active # None /\ active.state \in LiveStates
           revoke == Ros(IF active.state = "running" THEN "STOP" ELSE "CANCEL",
                         active.request, active.task, active.exec, active.rev)
           stored == /\ latest # None
                     /\ xml[latest] # None /\ xml[latest].rev = mission[latest].rev
           terminal == stored /\ mission[latest].state = "failed" /\ ~RetryOnFailure
           prepares == stored /\ ~terminal
           prepare == Ros("PREPARE", "recovery", latest, None, xml[latest].rev)
           sent == {revoke, prepare}
<1>1. ros' = Only(interrupted, revoke) \o Only(prepares /\ ~marker, prepare)
  BY DEF Start
<1>2. \A x \in sent : x.action # "SCHEDULE"
  BY DEF Ros
<1>3. ros' \in Seq(sent)
  <2> DEFINE S == sent
  <2>1. revoke \in S /\ prepare \in S
    OBVIOUS
  <2> HIDE DEF revoke, prepare, interrupted, prepares, S
  <2>2. Only(interrupted, revoke) \in Seq(S) /\ Only(prepares /\ ~marker, prepare) \in Seq(S)
    BY <2>1, OnlyIn
  <2>3. ros' \in Seq(S)
    BY <1>1, <2>2
  <2> QED BY <2>3 DEF S
<1>4. NoSchedule(ros')
  BY <1>2, <1>3, OthersNoSchedule
<1>5. ASSUME marker PROVE NoPrepare(ros')
  <2> DEFINE S == {revoke}
  <2>1. revoke \in S
    OBVIOUS
  <2>2. \A x \in S : x.action # "PREPARE"
    BY DEF Ros
  <2>3. Only(prepares /\ ~marker, prepare) = <<>>
    BY <1>5 DEF Only
  <2> HIDE DEF revoke, prepare, interrupted, prepares, S
  <2>4. Only(interrupted, revoke) \in Seq(S) /\ <<>> \in Seq(S)
    BY <2>1, OnlyIn
  <2>5. ros' = Only(interrupted, revoke) \o <<>>
    BY <1>1, <2>3
  <2>6. ros' \in Seq(S)
    BY <2>4, <2>5
  <2> QED BY <2>2, <2>6, OthersNoPrepare
<1> QED BY <1>4, <1>5 DEF Start, NoNewWork

\* close() stops and unloads; it never schedules.
LEMMA CloseNoNewWork ==
    ASSUME Close
    PROVE  NoNewWork /\ NoPrepare(ros')
<1> DEFINE revoke == Ros(IF execution.state = "running" THEN "STOP" ELSE "CANCEL",
                         "shutdown", execution.task, execution.exec, execution.rev)
           unload == Ros("UNLOAD", "shutdown-unload", preparation.task, None,
                         preparation.rev)
           sent == {revoke, unload}
<1>1. ros' = Only(execution # None, revoke) \o Only(preparation # None, unload)
  BY DEF Close
<1>2. \A x \in sent : x.action # "SCHEDULE"
  BY DEF Ros
<1>3. ros' \in Seq(sent)
  <2> DEFINE S == sent
  <2>1. revoke \in S /\ unload \in S
    OBVIOUS
  <2> HIDE DEF revoke, unload, S
  <2>2. Only(execution # None, revoke) \in Seq(S) /\ Only(preparation # None, unload) \in Seq(S)
    BY <2>1, OnlyIn
  <2>3. ros' \in Seq(S)
    BY <1>1, <2>2
  <2> QED BY <2>3 DEF S
<1>4. NoSchedule(ros')
  BY <1>2, <1>3, OthersNoSchedule
<1>5. \A x \in sent : x.action # "PREPARE"
  BY DEF Ros
<1>6. NoPrepare(ros')
  BY <1>3, <1>5, OthersNoPrepare
<1> QED BY <1>4, <1>6 DEF Close, ForgetVolatile, NoNewWork, disk

\* The steps that write and publish no new work: all but the rest of a handler.
LEMMA OthersNoNewWork ==
    ASSUME TypeOK,
           \/ Unmarked \/ (\E c \in Commands : LookAtMarker(c))
           \/ Close \/ Crash \/ MarkerChanges
    PROVE  /\ NoNewWork
           /\ marker => NoPrepare(ros') \/ (preparation # None /\ preparation.retryable)
<1>1. CASE \E c \in Commands : Datagram(c)
  BY <1>1, DatagramNoNewWork
<1>2. CASE \E m \in Echoes : FeedbackCallback(m)
  BY <1>2, FeedbackNoNewWork
<1>3. CASE \E due \in SUBSET Timers : Watchdog(due)
  BY <1>3, WatchdogNoNewWork
<1>4. CASE Start
  BY <1>4, StartNoNewWork
<1>5. CASE Close
  BY <1>5, CloseNoNewWork
<1>6. CASE \E c \in Commands : LookAtMarker(c)
  BY <1>6, LookNoNewWork
<1>7. CASE \/ \E i \in Chunks, quality \in {"good", "bad"} : Chunk(i, quality)
           \/ \E r \in Requests : ExpireAnswer(r)
           \/ Crash \/ MarkerChanges
           \/ \E m \in Echoes : CrashInRelease(m) \/ CrashInCleanup(m)
  <2>1. /\ ros' = <<>> /\ xml' = xml
        /\ transfer' = None \/ transfer' = transfer \/ transfer # None
    BY <1>7 DEF Chunk, ExpireAnswer, Crash, MarkerChanges, CrashInRelease, CrashInCleanup,
                Dies, ForgetVolatile, volatile, disk
  <2> QED BY <2>1, NothingNoSchedule DEF NoNewWork
<1> QED BY <1>1, <1>2, <1>3, <1>4, <1>5, <1>6, <1>7 DEF Unmarked

\* New work is what a handler does after its look, with which it ends.
LEMMA StepNoNewWork ==
    ASSUME TypeOK, Next
    PROVE  NoNewWork \/ (handling # None /\ handling' = None)
<1>1. CASE \/ Unmarked \/ (\E c \in Commands : LookAtMarker(c))
           \/ Close \/ Crash \/ MarkerChanges
  BY <1>1, OthersNoNewWork
<1>2. CASE handling' = None /\ \E c \in Commands : MarkedDatagram(c) \/ CrashInCommit(c)
  BY <1>2, MarkedHandles
<1> QED BY <1>1, <1>2 DEF Next

\* A handler that finds the marker goes no further.
LEMMA StepLooks ==
    ASSUME Next, marker
    PROVE  handling' \in {handling, None}
BY DEF Next, LookAtMarker, Latched, MarkerChanges

\* While the marker exists the robot is only asked to prepare again.
LEMMA StepPrepares ==
    ASSUME TypeOK, Next, marker, ~NoPrepare(ros')
    PROVE  preparation # None /\ preparation.retryable /\ UNCHANGED handling
<1>1. CASE handling = None /\ Unmarked /\ UNCHANGED handling
  BY <1>1, OthersNoNewWork
<1>2. CASE (\E c \in Commands : LookAtMarker(c)) \/ MarkerChanges
  BY <1>2, LookNoNewWork, NothingNoSchedule DEF MarkerChanges
<1>3. CASE \E c \in Commands : MarkedDatagram(c) \/ CrashInCommit(c)
  BY <1>3, MarkedNoPrepare, NothingNoSchedule DEF CrashInCommit, Dies
<1>4. CASE Close \/ Crash
  BY <1>4, CloseNoNewWork, NothingNoSchedule DEF Crash, Dies
<1> QED BY <1>1, <1>2, <1>3, <1>4 DEF Next

\* What LatchBlocksNewWork says of a step that publishes or does something.
LEMMA StepLatched ==
    ASSUME TypeOK, Next
    PROVE  /\ TakesWork => handling # None /\ handling' = None
           /\ marker => handling' \in {handling, None}
           /\ marker /\ (\E i \in DOMAIN ros' : ros'[i].action = "PREPARE") =>
                 preparation # None /\ preparation.retryable /\ UNCHANGED handling
<1>1. TakesWork => ~NoNewWork
  BY DEF TakesWork, NoNewWork, NoSchedule
<1>2. (\E i \in DOMAIN ros' : ros'[i].action = "PREPARE") => ~NoPrepare(ros')
  BY DEF NoPrepare
<1> QED BY <1>1, <1>2, StepNoNewWork, StepLooks, StepPrepares

\* New work is begun only by a handler that found no marker when it began; one
\* that appears after its look lets it finish, once, and nothing after it until
\* the marker is gone.  A preparation is then only repeated, by the watchdog.
THEOREM LatchedTakesNoWork == Spec => LatchBlocksNewWork
<1>1. TypeOK /\ [Next]_vars =>
        [/\ TakesWork => handling # None /\ handling' = None
         /\ marker => handling' \in {handling, None}
         /\ marker /\ (\E i \in DOMAIN ros' : ros'[i].action = "PREPARE") =>
               preparation # None /\ preparation.retryable /\ UNCHANGED handling]_vars
  BY StepLatched
<1> QED BY <1>1, TypeCorrect, PTL DEF Spec, LatchBlocksNewWork

-----------------------------------------------------------------------------
(* A preparation that failed for good.                                      *)

\* A process that is down has no preparation: start() begins from nothing.
DownIsEmpty == ~up => preparation = None

\* A step that keeps the process as it is, or stops it and forgets, keeps it.
LEMMA StepDown == DownIsEmpty /\ [Next]_vars => DownIsEmpty'
<1> SUFFICES ASSUME DownIsEmpty, [Next]_vars PROVE DownIsEmpty'
  OBVIOUS
<1>1. CASE \E c \in Commands : AnyDatagram(c)
  BY <1>1 DEF DownIsEmpty, AnyDatagram, Datagram, MarkedDatagram, LookAtMarker, Handles, Negotiate, ReadTask, Prepare, Commit, ExecuteRefused,
      Execute, Terminate, EmergencyStop, Delete, RejectLatched, CommitStored,
      CommitRefused, CommitMissing, volatile, CommitFails, CommitSucceeds, CommitComplete, Receives, AnswerOnly
<1>2. CASE \E m \in Echoes : FeedbackCallback(m)
  <2>1. up' = up /\ up
    BY <1>2 DEF FeedbackCallback, EmergencyFailed, EmergencyConfirmed, CleanupConfirmed,
        PreparationFeedback, ExecutionScheduled, SchedulingFailed, ExecutionProgress,
        ExecutionEnded, ForExecution
  <2> QED BY <2>1 DEF DownIsEmpty
<1>3. CASE \E due \in SUBSET Timers : Watchdog(due)
  BY <1>3 DEF DownIsEmpty, Watchdog
<1>4. CASE Start
  BY <1>4 DEF DownIsEmpty, Start
<1>5. CASE \/ Close \/ Crash
           \/ \E c \in Commands : CrashInCommit(c)
           \/ \E m \in Echoes : CrashInRelease(m) \/ CrashInCleanup(m)
  BY <1>5 DEF DownIsEmpty, Close, Crash, CrashInCommit, CrashInRelease, CrashInCleanup,
      Dies, ForgetVolatile
<1>6. CASE \/ \E i \in Chunks, quality \in {"good", "bad"} : Chunk(i, quality)
           \/ \E r \in Requests : ExpireAnswer(r)
           \/ MarkerChanges \/ UNCHANGED vars
  BY <1>6 DEF DownIsEmpty, Chunk, ExpireAnswer, MarkerChanges, vars, volatile
<1> QED BY <1>1, <1>2, <1>3, <1>4, <1>5, <1>6, Steps

\* What a step may do to a preparation that failed for good.
LeftAlone ==
    \/ preparation' = preparation \/ preparation' = None
    \/ transfer # None /\ transfer' = None
    \/ preparation'.task # preparation.task \/ preparation'.rev # preparation.rev

\* A commit of what is stored begins only the preparation of something else.
LEMMA CommitStoredLeaves ==
    ASSUME TypeOK, preparation # None, NEW c \in Commands, CommitStored(c)
    PROVE  LeftAlone
<1>1. CASE preparation' = preparation
  BY <1>1 DEF LeftAlone
<1>2. CASE /\ preparation.rev # c.rev \/ preparation.task # c.task
           /\ BeginPreparation(c.task, c.rev, c.request, mission, FALSE)
  <2>1. preparation'.task = c.task /\ preparation'.rev = c.rev
    BY <1>2 DEF BeginPreparation
  <2> QED BY <1>2, <2>1 DEF LeftAlone
<1> QED BY <1>1, <1>2 DEF CommitStored, AnswerOnly

\* No datagram takes a failed preparation up, except after a new transfer.
LEMMA DatagramLeaves ==
    ASSUME TypeOK, preparation # None, NEW c \in Commands, AnyDatagram(c)
    PROVE  LeftAlone
<1>1. CASE Commit(c)
  <2>1. CASE CommitStored(c)
    BY <2>1, CommitStoredLeaves
  <2>2. CASE CommitSucceeds(c)
    BY <2>2 DEF CommitSucceeds, CommitComplete, CommitMatches, LeftAlone
  <2>3. CASE preparation' = preparation
    BY <2>3 DEF LeftAlone
  <2> QED BY <1>1, <2>1, <2>2, <2>3
          DEF Commit, CommitRefused, CommitMissing, CommitFails, AnswerOnly, volatile
<1>2. CASE preparation' = preparation \/ preparation' = None
  BY <1>2 DEF LeftAlone
<1> QED BY <1>1, <1>2
        DEF AnyDatagram, Datagram, MarkedDatagram, LookAtMarker, Negotiate, ReadTask, Prepare, ExecuteRefused, Execute, Terminate,
            EmergencyStop, Delete, RejectLatched, AnswerOnly, BeginCleanup, CompleteCleanup,
            volatile

\* The adapter's late answers do not.
LEMMA FeedbackLeaves ==
    ASSUME TerminallyFailed(preparation), NEW m, FeedbackCallback(m)
    PROVE  LeftAlone
BY DEF FeedbackCallback, EmergencyFailed, EmergencyConfirmed, CleanupConfirmed,
    PreparationFeedback, ExecutionScheduled, SchedulingFailed, ExecutionProgress,
    ExecutionEnded, BeginCleanup, CompleteCleanup, LeftAlone, TerminallyFailed

\* The watchdog retries only what may be retried.
LEMMA WatchdogLeaves ==
    ASSUME TerminallyFailed(preparation), NEW due \in SUBSET Timers, Watchdog(due)
    PROVE  LeftAlone
<1>1. "prepare" \notin due
  BY DEF Watchdog, Armed, TerminallyFailed, Timers
<1> QED BY <1>1 DEF Watchdog, LeftAlone

\* No step takes a failed preparation up.
LEMMA StepLeaves ==
    ASSUME TypeOK, DownIsEmpty, TerminallyFailed(preparation), Next
    PROVE  LeftAlone
<1>0. preparation # None
  BY DEF TerminallyFailed
<1>1. CASE \E c \in Commands : AnyDatagram(c)
  BY <1>0, <1>1, DatagramLeaves
<1>2. CASE \E m \in Echoes : FeedbackCallback(m)
  BY <1>2, FeedbackLeaves
<1>3. CASE \E due \in SUBSET Timers : Watchdog(due)
  BY <1>3, WatchdogLeaves
<1>4. CASE Start
  BY <1>0, <1>4 DEF Start, DownIsEmpty
<1>5. CASE preparation' = preparation \/ preparation' = None
  BY <1>5 DEF LeftAlone
<1>6. CASE \/ \E i \in Chunks, quality \in {"good", "bad"} : Chunk(i, quality)
           \/ \E r \in Requests : ExpireAnswer(r)
           \/ Close \/ Crash \/ MarkerChanges \/ UNCHANGED vars
           \/ \E c \in Commands : CrashInCommit(c)
           \/ \E m \in Echoes : CrashInRelease(m) \/ CrashInCleanup(m)
  BY <1>5, <1>6 DEF Chunk, ExpireAnswer, Close, Crash, MarkerChanges, CrashInCommit,
      CrashInRelease, CrashInCleanup, Dies, ForgetVolatile, volatile, vars
<1> QED BY <1>1, <1>2, <1>3, <1>4, <1>6, Steps

\* A process that is down has no preparation.
THEOREM DownPreparesNothing == Spec => []DownIsEmpty
<1>1. Init => DownIsEmpty
  BY DEF Init, DownIsEmpty
<1> QED BY <1>1, StepDown, PTL DEF Spec

\* Late feedback, the watchdog and repeated commits leave a preparation that
\* failed for good as it is.
THEOREM FailedForGood == Spec => TerminalFailureStays
<1>1. TypeOK /\ DownIsEmpty /\ [Next]_vars =>
        [TerminallyFailed(preparation) =>
          \/ preparation' = preparation \/ preparation' = None
          \/ transfer # None /\ transfer' = None
          \/ preparation'.task # preparation.task \/ preparation'.rev # preparation.rev]_vars
  BY StepLeaves DEF LeftAlone
<1> QED BY <1>1, TypeCorrect, DownPreparesNothing, PTL DEF Spec, TerminalFailureStays

-----------------------------------------------------------------------------
(* The answers.                                                             *)

\* The ground station does not name an execution and something else by one
\* request ID.  While the first answer is cached the coordinator refuses such a
\* reuse itself (node.py:292); this is about the time after it has expired.
ExecuteRequestsApart ==
    \A c, d \in Commands :
        c.request = d.request /\ c.type = "execute_task" => d.type = "execute_task"

\* Every cached answer is an answer to a command of that request ID.
CachedIsAsked ==
    \A r \in Requests : ackCache[r] # None =>
        ackCache[r].command \in Commands /\ ackCache[r].command.request = r

\* The answer of the execution being scheduled is cached and still owed.
OwedIsCached ==
    pendingExecute # None =>
        /\ pendingExecute.type = "execute_task"
        /\ ackCache[pendingExecute.request] # None
        /\ ackCache[pendingExecute.request].answer = "pending"

\* What waits for the adapter's confirmation is no execute_task.
OthersPending ==
    /\ emergency # None =>
         emergency.command \in Commands /\ emergency.command.type # "execute_task"
    /\ cleanup # None =>
         cleanup.command \in Commands /\ cleanup.command.type # "execute_task"

\* The inductive invariant, given the types.
AnswersInv == CachedIsAsked /\ OwedIsCached /\ OthersPending

\* A handler may answer c: nothing was answered, or c is no execute_task.
MayAnswer(c) == ackCache[c.request] = None \/ c.type # "execute_task"

\* The ways a step treats the cache: it leaves it, answers a command, decides
\* the execution being scheduled, submits one, forgets everything, or expires
\* an answer that is not owed.
Kept == ackCache' = ackCache /\ pendingExecute' \in {pendingExecute, None}
Answered ==
    /\ \E c \in Commands, answer \in Answers : MayAnswer(c) /\ Answer(c, answer)
    /\ pendingExecute' \in {pendingExecute, None}
Decided ==
    /\ pendingExecute # None
    /\ \E answer \in Answers : Answer(pendingExecute, answer)
    /\ pendingExecute' = None
Submitted ==
    \E c \in Commands :
        /\ ackCache[c.request] = None /\ c.type = "execute_task"
        /\ Answer(c, "pending") /\ pendingExecute' = c
Forgotten == ackCache' = [r \in Requests |-> None] /\ pendingExecute' = None
Expired ==
    /\ \E r \in Requests :
         /\ ackCache' = [ackCache EXCEPT ![r] = None]
         /\ pendingExecute # None => pendingExecute.request # r
    /\ pendingExecute' = pendingExecute

Treatment == Kept \/ Answered \/ Decided \/ Submitted \/ Forgotten \/ Expired

\* A command that is received has no cached answer.
LEMMA ReceivedMayAnswer ==
    ASSUME NEW c, NEW type, Receives(c, type)
    PROVE  MayAnswer(c)
BY DEF Receives, MayAnswer

\* Answering only is one of the ways.
LEMMA AnswerOnlyTreats ==
    ASSUME NEW c \in Commands, MayAnswer(c), NEW answer \in Answers, AnswerOnly(c, answer)
    PROVE  Answered
BY DEF AnswerOnly, Answered

\* So is refusing because of the latch.
LEMMA RejectLatchedTreats ==
    ASSUME NEW c \in Commands, MayAnswer(c), NEW discard, RejectLatched(c, discard)
    PROVE  Answered
BY DEF RejectLatched, Answered, Answers

\* A datagram is answered once, when it is received.
LEMMA DatagramTreats ==
    ASSUME NEW c \in Commands, AnyDatagram(c)
    PROVE  Treatment
<1>1. CASE Negotiate(c) \/ ReadTask(c)
  <2>1. MayAnswer(c)
    BY <1>1, ReceivedMayAnswer DEF Negotiate, ReadTask
  <2> QED BY <1>1, <2>1, AnswerOnlyTreats DEF Negotiate, ReadTask, Answers, Treatment
<1>2. CASE Prepare(c)
  <2>1. MayAnswer(c)
    BY <1>2, ReceivedMayAnswer DEF Prepare, Handles
  <2>3. CASE AnswerOnly(c, "rejected")
    BY <2>1, <2>3, AnswerOnlyTreats DEF Answers, Treatment
  <2>4. CASE Answer(c, "accepted") /\ pendingExecute' = pendingExecute
    BY <2>1, <2>4 DEF Answers, Answered, Treatment
  <2> QED BY <1>2, <2>3, <2>4 DEF Prepare
<1>3. CASE Commit(c)
  <2>1. MayAnswer(c)
    BY <1>3, ReceivedMayAnswer
       DEF Commit, CommitStored, CommitRefused, CommitMissing, CommitFails, CommitSucceeds,
           CommitComplete, Handles
  <2>2. CASE CommitMissing(c)
    BY <2>2 DEF CommitMissing, volatile, Kept, Treatment
  <2>3. CASE AnswerOnly(c, "rejected") \/ AnswerOnly(c, "accepted")
    BY <2>1, <2>3, AnswerOnlyTreats DEF Answers, Treatment
  <2>4. CASE /\ Answer(c, "accepted") \/ Answer(c, "rejected")
             /\ pendingExecute' = pendingExecute
    BY <2>1, <2>4 DEF Answers, Answered, Treatment
  <2>5. CASE CommitStored(c)
    BY <2>3, <2>4, <2>5 DEF CommitStored
  <2>6. CASE CommitRefused(c)
    BY <2>3, <2>6 DEF CommitRefused
  <2>7. CASE \E written \in {"nothing", "xml", "record"} : CommitFails(c, written)
    BY <2>4, <2>7 DEF CommitFails
  <2>8. CASE CommitSucceeds(c)
    BY <2>4, <2>8 DEF CommitSucceeds
  <2> QED BY <1>3, <2>2, <2>5, <2>6, <2>7, <2>8 DEF Commit
<1>4. CASE ExecuteRefused(c)
  <2>1. MayAnswer(c)
    BY <1>4, ReceivedMayAnswer DEF ExecuteRefused, Handles
  <2>3. CASE AnswerOnly(c, "rejected")
    BY <2>1, <2>3, AnswerOnlyTreats DEF Answers, Treatment
  <2> QED BY <1>4, <2>3 DEF ExecuteRefused
<1>5. CASE Execute(c)
  BY <1>5 DEF Execute, Handles, Receives, Submitted, Treatment
<1>6. CASE Terminate(c)
  <2>1. MayAnswer(c)
    BY <1>6, ReceivedMayAnswer DEF Terminate
  <2>2. CASE AnswerOnly(c, "rejected")
    BY <2>1, <2>2, AnswerOnlyTreats DEF Answers, Treatment
  <2>3. CASE Answer(c, "accepted") /\ pendingExecute' = pendingExecute
    BY <2>1, <2>3 DEF Answers, Answered, Treatment
  <2> QED BY <1>6, <2>2, <2>3 DEF Terminate
<1>7. CASE EmergencyStop(c)
  <2>1. MayAnswer(c)
    BY <1>7, ReceivedMayAnswer DEF EmergencyStop
  <2> QED BY <1>7, <2>1 DEF EmergencyStop, Answers, Answered, Treatment
<1>8. CASE Delete(c)
  <2>1. MayAnswer(c)
    BY <1>8, ReceivedMayAnswer DEF Delete
  <2>2. CASE AnswerOnly(c, "rejected")
    BY <2>1, <2>2, AnswerOnlyTreats DEF Answers, Treatment
  <2>3. CASE /\ Answer(c, "accepted") \/ Answer(c, "pending")
             /\ pendingExecute' = pendingExecute
    BY <2>1, <2>3 DEF Answers, Answered, Treatment
  <2> QED BY <1>8, <2>2, <2>3 DEF Delete
<1>9. CASE LookAtMarker(c)
  <2>1. MayAnswer(c)
    BY <1>9, ReceivedMayAnswer DEF LookAtMarker
  <2>2. CASE \E discard \in BOOLEAN : RejectLatched(c, discard)
    BY <2>1, <2>2, RejectLatchedTreats DEF Treatment
  <2>3. CASE UNCHANGED volatile
    BY <2>3 DEF volatile, Kept, Treatment
  <2> QED BY <1>9, <2>2, <2>3 DEF LookAtMarker
<1> QED BY <1>1, <1>2, <1>3, <1>4, <1>5, <1>6, <1>7, <1>8, <1>9
        DEF AnyDatagram, Datagram, MarkedDatagram

\* Feedback answers what waits for it.
LEMMA FeedbackTreats ==
    ASSUME OthersPending, NEW m, FeedbackCallback(m)
    PROVE  Treatment
<1>1. CASE EmergencyFailed(m) \/ EmergencyConfirmed(m)
  <2>1. emergency.command \in Commands /\ MayAnswer(emergency.command)
    BY <1>1 DEF EmergencyFailed, EmergencyConfirmed, MatchesEmergency, OthersPending, MayAnswer
  <2>2. /\ Answer(emergency.command, "rejected") \/ Answer(emergency.command, "accepted")
        /\ pendingExecute' \in {pendingExecute, None}
    BY <1>1 DEF EmergencyFailed, EmergencyConfirmed
  <2> QED BY <2>1, <2>2 DEF Answers, Answered, Treatment
<1>2. CASE CleanupConfirmed(m)
  <2>1. cleanup.command \in Commands /\ MayAnswer(cleanup.command)
    BY <1>2 DEF CleanupConfirmed, MatchesCleanup, OthersPending, MayAnswer
  <2>2. CASE ackCache' = ackCache
    BY <1>2, <2>2 DEF CleanupConfirmed, Kept, Treatment
  <2>3. CASE Answer(cleanup.command, "accepted")
    BY <1>2, <2>1, <2>3 DEF CleanupConfirmed, Answers, Answered, Treatment
  <2> QED BY <1>2, <2>2, <2>3 DEF CleanupConfirmed
<1>3. CASE ExecutionScheduled(m)
  <2>1. CASE pendingExecute = None
    BY <1>3, <2>1 DEF ExecutionScheduled, Kept, Treatment
  <2>2. CASE pendingExecute # None
    BY <1>3, <2>2 DEF ExecutionScheduled, Decided, Answers, Treatment
  <2> QED BY <2>1, <2>2
<1>4. CASE SchedulingFailed(m)
  BY <1>4 DEF SchedulingFailed, RejectExecution, ReleaseExecution, Decided, Answers, Treatment
<1>5. CASE ExecutionProgress(m) \/ ExecutionEnded(m)
           \/ \E e \in BOOLEAN : PreparationFeedback(m, e)
  BY <1>5 DEF ExecutionProgress, ExecutionEnded, PreparationFeedback, ReleaseExecution,
              Kept, Treatment
<1> QED BY <1>1, <1>2, <1>3, <1>4, <1>5 DEF FeedbackCallback

\* The watchdog answers only an execution that is overdue.
LEMMA WatchdogTreats ==
    ASSUME NEW due \in SUBSET Timers, Watchdog(due)
    PROVE  Treatment
<1>1. CASE "execution" \in due /\ execution # None /\ execution.state = "scheduling"
  <2>1. pendingExecute # None
    BY <1>1 DEF Watchdog, Armed
  <2>2. Answer(pendingExecute, "rejected") /\ pendingExecute' = None
    BY <1>1 DEF Watchdog
  <2> QED BY <2>1, <2>2 DEF Decided, Answers, Treatment
<1>2. CASE ~("execution" \in due /\ execution # None /\ execution.state = "scheduling")
  <2>1. ackCache' = ackCache /\ pendingExecute' \in {pendingExecute, None}
    BY <1>2 DEF Watchdog
  <2> QED BY <2>1 DEF Kept, Treatment
<1> QED BY <1>1, <1>2

\* Every step treats the cache in one of the ways.
LEMMA StepTreats == OthersPending /\ [Next]_vars => Treatment
<1> SUFFICES ASSUME OthersPending, [Next]_vars PROVE Treatment
  OBVIOUS
<1>1. CASE \E c \in Commands : AnyDatagram(c)
  BY <1>1, DatagramTreats
<1>2. CASE \E m \in Echoes : FeedbackCallback(m)
  BY <1>2, FeedbackTreats
<1>3. CASE \E due \in SUBSET Timers : Watchdog(due)
  BY <1>3, WatchdogTreats
<1>4. CASE \/ Start \/ Close \/ Crash
           \/ \E c \in Commands : CrashInCommit(c)
           \/ \E m \in Echoes : CrashInRelease(m) \/ CrashInCleanup(m)
  BY <1>4 DEF Start, Close, Crash, CrashInCommit, CrashInRelease, CrashInCleanup, Dies,
      ForgetVolatile, Forgotten, Treatment
<1>5. CASE \E r \in Requests : ExpireAnswer(r)
  BY <1>5 DEF ExpireAnswer, Expired, Treatment
<1>6. CASE \/ \E i \in Chunks, quality \in {"good", "bad"} : Chunk(i, quality)
           \/ MarkerChanges \/ UNCHANGED vars
  BY <1>6 DEF Chunk, MarkerChanges, vars, volatile, Kept, Treatment
<1> QED BY <1>1, <1>2, <1>3, <1>4, <1>5, <1>6, Steps

\* An answer to c changes the entry of c's request ID and no other.
LEMMA AnswerSets ==
    ASSUME TypeOK, NEW c \in Commands, NEW answer \in Answers, Answer(c, answer)
    PROVE  /\ c.request \in Requests
           /\ ackCache'[c.request] = [command |-> c, answer |-> answer]
           /\ [command |-> c, answer |-> answer] # None
           /\ \A r \in Requests \ {c.request} : ackCache'[r] = ackCache[r]
<1>1. c \in Command /\ c.request \in Requests
  BY ConstantsOK DEF Command
<1>2. [command |-> c, answer |-> answer] \in CachedAnswer
  BY <1>1 DEF CachedAnswer
<1> QED BY <1>1, <1>2, NoneIsNoRecord DEF Answer, TypeOK

\* Cached answers stay answers to what was asked.
LEMMA TreatedAsked ==
    ASSUME TypeOK, CachedIsAsked, Treatment
    PROVE  CachedIsAsked'
<1>1. CASE Kept
  BY <1>1 DEF Kept, CachedIsAsked
<1>2. CASE \E c \in Commands, answer \in Answers : Answer(c, answer)
  <2>1. PICK c \in Commands, answer \in Answers : Answer(c, answer)
    BY <1>2
  <2>2. /\ ackCache'[c.request] = [command |-> c, answer |-> answer]
        /\ \A r \in Requests \ {c.request} : ackCache'[r] = ackCache[r]
    BY <2>1, AnswerSets
  <2>3. ASSUME NEW r \in Requests, ackCache'[r] # None
        PROVE  ackCache'[r].command \in Commands /\ ackCache'[r].command.request = r
    <3>1. CASE r = c.request
      BY <2>2, <3>1
    <3>2. CASE r # c.request
      BY <2>2, <2>3, <3>2 DEF CachedIsAsked
    <3> QED BY <3>1, <3>2
  <2> QED BY <2>3 DEF CachedIsAsked
<1>3. CASE Answered \/ Submitted
  BY <1>2, <1>3 DEF Answered, Submitted, Answers
<1>4. CASE Decided
  <2>1. pendingExecute \in Commands
    BY <1>4 DEF Decided, TypeOK
  <2> QED BY <1>2, <1>4, <2>1 DEF Decided
<1>5. CASE Forgotten
  BY <1>5 DEF Forgotten, CachedIsAsked
<1>6. CASE Expired
  BY <1>6 DEF Expired, CachedIsAsked, TypeOK
<1> QED BY <1>1, <1>3, <1>4, <1>5, <1>6 DEF Treatment

\* The answer of the execution being scheduled stays owed until it is given.
LEMMA TreatedOwed ==
    ASSUME ExecuteRequestsApart, TypeOK, OwedIsCached, Treatment
    PROVE  OwedIsCached'
<1>1. CASE Kept
  BY <1>1 DEF Kept, OwedIsCached
<1>2. CASE Answered
  <2>1. PICK c \in Commands, answer \in Answers : MayAnswer(c) /\ Answer(c, answer)
    BY <1>2 DEF Answered
  <2>2. SUFFICES ASSUME pendingExecute' # None
                 PROVE  /\ pendingExecute'.type = "execute_task"
                        /\ ackCache'[pendingExecute'.request] # None
                        /\ ackCache'[pendingExecute'.request].answer = "pending"
    BY DEF OwedIsCached
  <2>3. pendingExecute' = pendingExecute /\ pendingExecute # None
    BY <1>2, <2>2 DEF Answered
  <2>4. pendingExecute \in Commands /\ pendingExecute.request \in Requests
    BY <2>3, ConstantsOK DEF TypeOK, Command
  <2>5. c.request # pendingExecute.request
    BY <2>1, <2>3, <2>4 DEF MayAnswer, OwedIsCached, ExecuteRequestsApart
  <2>6. ackCache'[pendingExecute.request] = ackCache[pendingExecute.request]
    BY <2>1, <2>4, <2>5, AnswerSets
  <2> QED BY <2>3, <2>6 DEF OwedIsCached
<1>3. CASE Submitted
  <2>1. PICK c \in Commands : c.type = "execute_task" /\ Answer(c, "pending")
                              /\ pendingExecute' = c
    BY <1>3 DEF Submitted
  <2>2. /\ ackCache'[c.request] = [command |-> c, answer |-> "pending"]
        /\ ackCache'[c.request] # None
    BY <2>1, AnswerSets DEF Answers
  <2> QED BY <2>1, <2>2 DEF OwedIsCached
<1>4. CASE Decided \/ Forgotten
  BY <1>4 DEF Decided, Forgotten, OwedIsCached
<1>5. CASE Expired
  <2>1. SUFFICES ASSUME pendingExecute # None
                 PROVE  ackCache'[pendingExecute.request] = ackCache[pendingExecute.request]
    BY <1>5 DEF Expired, OwedIsCached
  <2>2. pendingExecute \in Commands /\ pendingExecute.request \in Requests
    BY <2>1, ConstantsOK DEF TypeOK, Command
  <2> QED BY <1>5, <2>1, <2>2 DEF Expired, TypeOK
<1> QED BY <1>1, <1>2, <1>3, <1>4, <1>5 DEF Treatment

\* A pending cleanup comes from a delete_task or from an emergency stop.
LEMMA StepOthers == OthersPending /\ [Next]_vars => OthersPending'
<1> SUFFICES ASSUME OthersPending, [Next]_vars PROVE OthersPending'
  OBVIOUS
<1>1. CASE emergency' \in {emergency, None} /\ cleanup' \in {cleanup, None}
  BY <1>1 DEF OthersPending
<1>2. CASE \E c \in Commands : AnyDatagram(c)
  <2>1. PICK c \in Commands : AnyDatagram(c)
    BY <1>2
  <2>2. CASE EmergencyStop(c)
    <3>1. emergency'.command = c
      BY <2>2 DEF EmergencyStop, EmergencyRecord
    <3> QED BY <2>2, <3>1 DEF EmergencyStop, Receives, OthersPending
  <2>3. CASE Delete(c)
    <3>1. c.type = "delete_task" /\ emergency' = emergency
      BY <2>3 DEF Delete, Receives, AnswerOnly
    <3>2. cleanup' \in {cleanup, None} \/ cleanup'.command = c
      BY <2>3 DEF Delete, BeginCleanup, CompleteCleanup, AnswerOnly
    <3> QED BY <3>1, <3>2 DEF OthersPending
  <2>4. CASE Negotiate(c) \/ ReadTask(c) \/ Prepare(c) \/ Commit(c) \/ ExecuteRefused(c)
             \/ Execute(c) \/ Terminate(c) \/ LookAtMarker(c)
    BY <1>1, <2>4 DEF Negotiate, ReadTask, Prepare, Commit, ExecuteRefused, Execute,
        Terminate, LookAtMarker, RejectLatched, CommitStored, CommitRefused, CommitMissing,
        CommitFails, CommitSucceeds, AnswerOnly, volatile
  <2> QED BY <2>1, <2>2, <2>3, <2>4 DEF AnyDatagram, Datagram, MarkedDatagram
<1>3. CASE \E m \in Echoes : FeedbackCallback(m)
  <2>1. PICK m \in Echoes : FeedbackCallback(m)
    BY <1>3
  <2>2. CASE EmergencyConfirmed(m)
    <3>1. emergency # None /\ emergency' = None
      BY <2>2 DEF EmergencyConfirmed, MatchesEmergency
    <3>2. cleanup' = None \/ cleanup'.command = emergency.command
      BY <2>2 DEF EmergencyConfirmed, BeginCleanup, CompleteCleanup
    <3> QED BY <3>1, <3>2 DEF OthersPending
  <2> QED BY <1>1, <2>1, <2>2
          DEF FeedbackCallback, EmergencyFailed, CleanupConfirmed, CompleteCleanup,
              PreparationFeedback, ExecutionScheduled, SchedulingFailed,
              ExecutionProgress, ExecutionEnded
<1>4. CASE \/ \E due \in SUBSET Timers : Watchdog(due)
           \/ \E r \in Requests : ExpireAnswer(r)
           \/ \E i \in Chunks, quality \in {"good", "bad"} : Chunk(i, quality)
           \/ MarkerChanges \/ UNCHANGED vars
  BY <1>1, <1>4 DEF Watchdog, ExpireAnswer, Chunk, MarkerChanges, vars, volatile
<1>5. CASE \/ Start \/ Close \/ Crash
           \/ \E c \in Commands : CrashInCommit(c)
           \/ \E m \in Echoes : CrashInRelease(m) \/ CrashInCleanup(m)
  BY <1>1, <1>5 DEF Start, Close, Crash, CrashInCommit, CrashInRelease, CrashInCleanup, Dies,
      ForgetVolatile
<1> QED BY <1>2, <1>3, <1>4, <1>5, Steps

\* The inductive invariant of the cached answers.
THEOREM AnswersInvariant == ASSUME ExecuteRequestsApart PROVE Spec => []AnswersInv
<1>1. Init => AnswersInv
  BY DEF Init, AnswersInv, CachedIsAsked, OwedIsCached, OthersPending
<1>2. TypeOK /\ AnswersInv /\ [Next]_vars => AnswersInv'
  BY StepTreats, TreatedAsked, TreatedOwed, StepOthers, ExecuteRequestsApart DEF AnswersInv
<1> QED BY <1>1, <1>2, TypeCorrect, PTL DEF Spec

\* A decided answer of an execute_task.
Final(r) ==
    /\ ackCache[r] # None /\ ackCache[r].command.type = "execute_task"
    /\ ackCache[r].answer # "pending" /\ ackCache'[r] # None
    => ackCache'[r] = ackCache[r]

\* An answer is given to what was not answered yet.
LEMMA AnswerKeepsFinal ==
    ASSUME ExecuteRequestsApart, TypeOK, CachedIsAsked,
           NEW c \in Commands, NEW answer \in Answers, Answer(c, answer),
           MayAnswer(c) \/ ackCache[c.request].answer = "pending", NEW r \in Requests
    PROVE  Final(r)
<1>1. CASE r # c.request
  BY <1>1, AnswerSets DEF Final
<1>2. CASE r = c.request
  BY <1>2 DEF Final, MayAnswer, CachedIsAsked, ExecuteRequestsApart
<1> QED BY <1>1, <1>2

\* No step changes a decided answer.
LEMMA StepKeepsFinal ==
    ASSUME ExecuteRequestsApart, TypeOK, AnswersInv, [Next]_vars, NEW r \in Requests
    PROVE  Final(r)
<1>1. Treatment
  BY StepTreats DEF AnswersInv
<1>2. CASE Kept
  BY <1>2 DEF Kept, Final
<1>3. CASE Answered \/ Submitted
  BY <1>3, AnswerKeepsFinal DEF Answered, Submitted, MayAnswer, Answers, AnswersInv
<1>4. CASE Decided
  <2>1. pendingExecute \in Commands
    BY <1>4 DEF Decided, TypeOK
  <2> QED BY <1>4, <2>1, AnswerKeepsFinal DEF Decided, AnswersInv, OwedIsCached
<1>5. CASE Forgotten \/ Expired
  BY <1>5 DEF Forgotten, Expired, Final, TypeOK
<1> QED BY <1>1, <1>2, <1>3, <1>4, <1>5 DEF Treatment

\* The answer to an execute_task does not change while it is cached, provided
\* its request ID names executions only.
THEOREM AnswersAreFinal == ASSUME ExecuteRequestsApart PROVE Spec => ExecuteAnswerIsFinal
<1>1. TypeOK /\ AnswersInv /\ [Next]_vars =>
        [\A r \in Requests :
          /\ ackCache[r] # None /\ ackCache[r].command.type = "execute_task"
          /\ ackCache[r].answer # "pending" /\ ackCache'[r] # None
          => ackCache'[r] = ackCache[r]]_vars
  BY StepKeepsFinal, ExecuteRequestsApart DEF Final
<1> QED BY <1>1, TypeCorrect, AnswersInvariant, PTL DEF Spec, ExecuteAnswerIsFinal
=============================================================================
