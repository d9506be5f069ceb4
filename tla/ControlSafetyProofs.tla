-------------------------- MODULE ControlSafetyProofs --------------------------
(***************************************************************************)
(* Theorems about ControlSafety, for every configuration, every set of     *)
(* service failures and any number of control messages under way.          *)
(*                                                                         *)
(* TypeOK and SavedStopStaysLatched are inductive as they stand, and       *)
(* LatchSilencesHeartbeat is inductive together with TypeOK.               *)
(* ResetOnlyWhenDisabled needs ReportsTell: the newest message tells the   *)
(* robot's state, so a robot that accepts motion against the last message  *)
(* received has said so in one under way.                                  *)
(* NoForgottenEnable needs EnableInv: who cares for an enabled robot at    *)
(* every moment (Cared), which follows from who holds the transition lock  *)
(* (Holding), who waits for a service call and what becomes of one that    *)
(* nobody waits for (Awaited, Abandoned, Disabling), and that a reset has  *)
(* the robot to itself (ResetInv).                                         *)
(***************************************************************************)
EXTENDS ControlSafety, TLAPS

USE DEF flags, messages, calls, duties, memory, robot, Moves

-----------------------------------------------------------------------------
(* Types.                                                                  *)

\* No report under way is a sequence of reports.
LEMMA NoReport == <<>> \in Seq(BOOLEAN)
OBVIOUS

\* The adapter starts with every variable in its type.
LEMMA TypeInit == Init => TypeOK
<1> SUFFICES ASSUME Init PROVE TypeOK
  OBVIOUS
<1>1. reply \in [Threads -> Results \union {None}]
  BY DEF Init
<1>2. pc \in [Threads -> Labels] /\ pc["arm"] = "idle" /\ pc["end"] = "idle"
      /\ pc["reset"] = "idle"
  BY DEF Init, Labels, Threads
<1>3. QED
  BY <1>1, <1>2, NoReport DEF Init, TypeOK, PcType, ArmLabels, EndLabels

\* latch() only sets flags.
LEMMA LatchType ==
    ASSUME TypeOK, NEW saved \in BOOLEAN, Latch(saved)
    PROVE  latched' \in BOOLEAN /\ heartbeat' \in BOOLEAN /\ stopEvent' \in BOOLEAN
           /\ marker' \in BOOLEAN
BY DEF Latch, TypeOK

\* A change of the robot's state keeps the robot's types.
LEMMA SetEnabledType ==
    ASSUME TypeOK, NEW value \in BOOLEAN, SetEnabled(value)
    PROVE  enabled' \in BOOLEAN /\ orphan' \in BOOLEAN /\ misled' \in BOOLEAN
           /\ reports' \in Seq(BOOLEAN)
BY DEF SetEnabled, TypeOK

\* What a service makes of the robot.
LEMMA EffectType ==
    ASSUME TypeOK, NEW service, NEW result
    PROVE  Effect(service, result) \subseteq BOOLEAN
BY DEF Effect, TypeOK

\* A thread that moves to a label it can be at keeps the type of pc.
LEMMA GoToType ==
    ASSUME TypeOK, NEW t \in Threads, NEW label \in Labels, GoTo(t, label),
           t = "arm" => label \notin EndLabels,
           t = "end" => label \notin ArmLabels,
           t = "reset" => label \in {"idle", "clearLatch"}
    PROVE  PcType'
BY DEF TypeOK, PcType, GoTo, Threads

\* So does a thread whose call fails: it goes on in a handler of its own.
LEMMA FailsType ==
    ASSUME TypeOK, NEW t \in {"arm", "end"}, Fails(t)
    PROVE  PcType' /\ transition' \in Threads \union {None}
<1>1. OnFailure(pc[t]) \in {"withdraw", "latch", "stopLatch", "idle"}
      /\ (pc[t] \notin EndLabels => OnFailure(pc[t]) # "stopLatch")
  BY DEF OnFailure, EndLabels
<1>2. OnFailure(pc[t]) \in Labels /\ OnFailure(pc[t]) \notin ArmLabels
      /\ (t = "arm" => OnFailure(pc[t]) \notin EndLabels)
  BY <1>1 DEF TypeOK, PcType, Labels, ArmLabels, DisarmLabels, EndLabels
<1>3. PcType'
  BY <1>2, GoToType DEF Fails, Threads
<1>4. QED
  BY <1>3 DEF Fails, TypeOK

\* A step of a service call, by the thread that makes it.
LEMMA TypeCallSteps ==
    ASSUME TypeOK, NEW t \in {"arm", "end"}, CallSteps(t)
    PROVE  TypeOK'
<1> USE SafetyConstants
<1>1. CASE BeginCall(t)
  <2>1. rpc' \in Call
    BY <1>1 DEF BeginCall, Call, Results, ServiceAt, Services
  <2>2. WaitLabel(pc[t]) \in Labels
        /\ (t = "arm" => WaitLabel(pc[t]) \notin EndLabels)
        /\ (t = "end" => WaitLabel(pc[t]) \notin ArmLabels)
    BY <1>1 DEF BeginCall, CallLabels, WaitLabel, TypeOK, PcType, Labels, ArmLabels,
                DisarmLabels, EndLabels, Threads
  <2>3. PcType'
    BY <1>1, <2>2, GoToType DEF BeginCall, Threads
  <2>4. QED
    BY <1>1, <2>1, <2>3 DEF BeginCall, TypeOK
<1>2. CASE CallBusy(t)
  BY <1>2, FailsType DEF CallBusy, TypeOK
<1>3. CASE CallTimesOut(t)
  <2>1. rpc \in Call
    BY <1>3 DEF CallTimesOut, TypeOK
  <2>2. [rpc EXCEPT !.abandoned = TRUE] \in Call
    BY <2>1 DEF Call
  <2>3. QED
    BY <1>3, <2>2 DEF CallTimesOut, TypeOK, Threads, PcType
<1>4. CASE CallFails(t)
  <2>1. reply' \in [Threads -> Results \union {None}]
    BY <1>4 DEF CallFails, TypeOK
  <2>2. QED
    BY <1>4, <2>1, FailsType DEF CallFails, TypeOK
<1>5. CASE CallSucceeds(t)
  <2>1. AfterCall(pc[t]) \in Labels
        /\ (t = "arm" => AfterCall(pc[t]) \notin EndLabels)
        /\ (t = "end" => AfterCall(pc[t]) \notin ArmLabels)
    BY <1>5 DEF CallSucceeds, WaitLabels, AfterCall, TypeOK, PcType, Labels, ArmLabels,
                DisarmLabels, EndLabels, Threads
  <2>2. PcType'
    BY <1>5, <2>1, GoToType DEF CallSucceeds, Threads
  <2>3. reply' \in [Threads -> Results \union {None}]
    BY <1>5 DEF CallSucceeds, TypeOK
  <2>4. QED
    BY <1>5, <2>2, <2>3 DEF CallSucceeds, TypeOK
<1>6. ASSUME NEW saved \in BOOLEAN, LatchLate(t, saved)
      PROVE  TypeOK'
  <2>1. Latch(saved) /\ Fails(t)
    BY <1>6 DEF LatchLate
  <2>2. QED
    BY <1>6, <2>1, LatchType, FailsType DEF LatchLate, TypeOK
<1>7. QED
  BY <1>1, <1>2, <1>3, <1>4, <1>5, <1>6 DEF CallSteps

\* A step of arm().
LEMMA TypeArmSteps ==
    ASSUME TypeOK, ArmSteps
    PROVE  TypeOK'
<1>1. CASE ArmStarts
  <2>1. PcType'
    BY <1>1, GoToType DEF ArmStarts, Threads, Labels, ArmLabels, DisarmLabels, EndLabels
  <2>2. QED
    BY <1>1, <2>1 DEF ArmStarts, TypeOK, Threads
<1>2. CASE ArmRefused
  <2>1. PcType'
    BY <1>2, GoToType DEF ArmRefused, Threads, Labels, ArmLabels, DisarmLabels, EndLabels
  <2>2. QED
    BY <1>2, <2>1 DEF ArmRefused, TypeOK
<1>3. CASE Settled
  <2>1. PcType'
    BY <1>3, GoToType DEF Settled, Threads, Labels, ArmLabels, DisarmLabels, EndLabels
  <2>2. QED
    BY <1>3, <2>1 DEF Settled, TypeOK
<1>4. CASE Checked
  <2>1. PcType'
    BY <1>4, GoToType DEF Checked, Threads, Labels, ArmLabels, DisarmLabels, EndLabels
  <2>2. QED
    BY <1>4, <2>1 DEF Checked, TypeOK
<1>5. CASE CheckFails
  BY <1>5, FailsType DEF CheckFails, TypeOK
<1>6. CASE Beat
  <2>1. PcType'
    BY <1>6, GoToType DEF Beat, Threads, Labels, ArmLabels, DisarmLabels, EndLabels
  <2>2. QED
    BY <1>6, <2>1 DEF Beat, TypeOK
<1>7. CASE Confirmed
  <2>1. PcType'
    BY <1>7, GoToType DEF Confirmed, Threads, Labels, ArmLabels, DisarmLabels, EndLabels
  <2>2. QED
    BY <1>7, <2>1 DEF Confirmed, TypeOK, Threads
<1>8. CASE NotConfirmed
  <2>1. PcType'
    BY <1>8, GoToType DEF NotConfirmed, Threads, Labels, ArmLabels, DisarmLabels, EndLabels
  <2>2. QED
    BY <1>8, <2>1 DEF NotConfirmed, TypeOK
<1>9. CASE Drive
  <2>1. PcType'
    BY <1>9, GoToType DEF Drive, Threads, Labels, ArmLabels, DisarmLabels, EndLabels
  <2>2. driving' \in BOOLEAN /\ misled' \in BOOLEAN
    BY <1>9 DEF Drive, TypeOK
  <2>3. QED
    BY <1>9, <2>1, <2>2 DEF Drive, TypeOK
<1>10. QED
  BY <1>1, <1>2, <1>3, <1>4, <1>5, <1>6, <1>7, <1>8, <1>9 DEF ArmSteps

\* A step of _disarm_locked.
LEMMA TypeDisarmSteps ==
    ASSUME TypeOK, NEW t \in {"arm", "end"}, DisarmSteps(t)
    PROVE  TypeOK'
<1>1. CASE Withdraw(t)
  <2>1. PcType'
    BY <1>1, GoToType DEF Withdraw, Threads, Labels, ArmLabels, DisarmLabels, EndLabels
  <2>2. QED
    BY <1>1, <2>1 DEF Withdraw, TypeOK
<1>2. CASE ConfirmedOff(t)
  <2>1. PcType'
    BY <1>2, GoToType DEF ConfirmedOff, Threads, Labels, ArmLabels, DisarmLabels, EndLabels
  <2>2. QED
    BY <1>2, <2>1 DEF ConfirmedOff, TypeOK, Threads
<1>3. CASE NotConfirmedOff(t)
  <2>1. PcType'
    BY <1>3, GoToType DEF NotConfirmedOff, Threads, Labels, ArmLabels, DisarmLabels, EndLabels
  <2>2. QED
    BY <1>3, <2>1 DEF NotConfirmedOff, TypeOK
<1>4. ASSUME NEW saved \in BOOLEAN, LatchFailure(t, saved)
      PROVE  TypeOK'
  <2>1. Latch(saved)
    BY <1>4 DEF LatchFailure
  <2>2. PcType'
    BY <1>4, GoToType DEF LatchFailure, Threads, Labels, ArmLabels, DisarmLabels, EndLabels
  <2>3. QED
    BY <1>4, <2>1, <2>2, LatchType DEF LatchFailure, TypeOK
<1>5. QED
  BY <1>1, <1>2, <1>3, <1>4 DEF DisarmSteps

\* A step of disarm() before _disarm_locked, or of stop().
LEMMA TypeEndSteps ==
    ASSUME TypeOK, EndSteps
    PROVE  TypeOK'
<1>1. CASE DisarmLocks
  <2>1. PcType'
    BY <1>1, GoToType DEF DisarmLocks, Threads, Labels, ArmLabels, DisarmLabels, EndLabels
  <2>2. QED
    BY <1>1, <2>1 DEF DisarmLocks, TypeOK, Threads
<1>2. CASE AlreadyDisabled
  <2>1. PcType'
    BY <1>2, GoToType DEF AlreadyDisabled, Threads, Labels, ArmLabels, DisarmLabels, EndLabels
  <2>2. QED
    BY <1>2, <2>1 DEF AlreadyDisabled, TypeOK
<1>3. ASSUME NEW saved \in BOOLEAN, DisarmTimesOut(saved)
      PROVE  TypeOK'
  <2>1. Latch(saved)
    BY <1>3 DEF DisarmTimesOut
  <2>2. PcType'
    BY <1>3, GoToType DEF DisarmTimesOut, Threads, Labels, ArmLabels, DisarmLabels, EndLabels
  <2>3. QED
    BY <1>3, <2>1, <2>2, LatchType DEF DisarmTimesOut, TypeOK
<1>4. ASSUME NEW saved \in BOOLEAN, StopLatches(saved)
      PROVE  TypeOK'
  <2>1. Latch(saved)
    BY <1>4 DEF StopLatches
  <2>2. PcType'
    BY <1>4, GoToType DEF StopLatches, Threads, Labels, ArmLabels, DisarmLabels, EndLabels
  <2>3. QED
    BY <1>4, <2>1, <2>2, LatchType DEF StopLatches, TypeOK
<1>5. QED
  BY <1>1, <1>2, <1>3, <1>4 DEF EndSteps

\* A step of the worker of a service call.
LEMMA TypeWorkerSteps ==
    ASSUME TypeOK, WorkerSteps
    PROVE  TypeOK'
<1> USE SafetyConstants DEF TypeOK, PcType
<1>1. ASSUME NEW result \in Results, Serve(result)
      PROVE  TypeOK'
  <2>1. rpc \in Call
    BY <1>1 DEF Serve
  <2>2. [rpc EXCEPT !.state = "returned", !.result = result] \in Call
    BY <2>1 DEF Call
  <2>3. PICK value \in BOOLEAN : SetEnabled(value)
    BY <1>1, EffectType DEF Serve
  <2>4. QED
    BY <1>1, <2>2, <2>3, SetEnabledType DEF Serve
<1>2. ASSUME NEW result \in Results, Compensate(result)
      PROVE  TypeOK'
  <2>1. rpc \in Call
    BY <1>2 DEF Compensate
  <2>2. [rpc EXCEPT !.state = "confirming"] \in Call
    BY <2>1 DEF Call
  <2>3. PICK value \in BOOLEAN : SetEnabled(value)
    BY <1>2, EffectType DEF Compensate
  <2>4. QED
    BY <1>2, <2>2, <2>3, SetEnabledType DEF Compensate
<1>3. CASE Return
  <2>1. rpc.caller \in Threads /\ rpc.result \in Results
    BY <1>3 DEF Return, Call, Threads
  <2>2. QED
    BY <1>3, <2>1 DEF Return
<1>4. CASE ReturnLate
  <2>1. rpc \in Call
    BY <1>4 DEF ReturnLate
  <2>2. [rpc EXCEPT !.state = "compensate"] \in Call
    BY <2>1 DEF Call
  <2>3. QED
    BY <1>4, <2>2 DEF ReturnLate
<1>5. CASE CompensationEnds
  BY <1>5 DEF CompensationEnds
<1>6. QED
  BY <1>1, <1>2, <1>3, <1>4, <1>5 DEF WorkerSteps


\* An operation of the adapter begins, or an operator resets or stops.
LEMMA TypeAdapter ==
    ASSUME TypeOK, Adapter \/ ResetSteps
    PROVE  TypeOK'
<1>1. CASE CallArm
  <2>1. PcType'
    BY <1>1, GoToType DEF CallArm, Threads, Labels, ArmLabels, DisarmLabels, EndLabels
  <2>2. QED
    BY <1>1, <2>1 DEF CallArm, TypeOK
<1>2. ASSUME NEW label \in {"lock", "lockOrConfirmed"}, CallDisarm(label)
      PROVE  TypeOK'
  <2>1. PcType'
    BY <1>2, GoToType DEF CallDisarm, Threads, Labels, ArmLabels, DisarmLabels, EndLabels
  <2>2. QED
    BY <1>2, <2>1 DEF CallDisarm, TypeOK
<1>3. CASE CallStop
  <2>1. PcType'
    BY <1>3, GoToType DEF CallStop, Threads, Labels, ArmLabels, DisarmLabels, EndLabels
  <2>2. QED
    BY <1>3, <2>1 DEF CallStop, TypeOK
<1>4. CASE CallReset
  <2>1. PcType'
    BY <1>4, GoToType DEF CallReset, Threads, Labels, ArmLabels, DisarmLabels, EndLabels
  <2>2. QED
    BY <1>4, <2>1 DEF CallReset, TypeOK, Threads
<1>5. ASSUME NEW saved \in BOOLEAN, OperatorLatches(saved)
      PROVE  TypeOK'
  <2>1. Latch(saved)
    BY <1>5 DEF OperatorLatches
  <2>2. QED
    BY <1>5, <2>1, LatchType DEF OperatorLatches, TypeOK, PcType
<1>6. CASE Cleared
  <2>1. PcType'
    BY <1>6, GoToType DEF Cleared, ResetEnds, Threads, Labels, ArmLabels, DisarmLabels, EndLabels
  <2>2. QED
    BY <1>6, <2>1 DEF Cleared, ResetEnds, TypeOK
<1>7. CASE NotCleared
  <2>1. PcType'
    BY <1>7, GoToType DEF NotCleared, ResetEnds, Threads, Labels, ArmLabels, DisarmLabels, EndLabels
  <2>2. marker' \in BOOLEAN
    BY <1>7 DEF NotCleared, TypeOK
  <2>3. QED
    BY <1>7, <2>1, <2>2 DEF NotCleared, ResetEnds, TypeOK
<1>8. QED
  BY <1>1, <1>2, <1>3, <1>4, <1>5, <1>6, <1>7 DEF Adapter, CallEnd, ResetSteps

\* A step of the robot or of its messages.
LEMMA TypeRobotSteps ==
    ASSUME TypeOK, RobotSteps
    PROVE  TypeOK'
<1> USE DEF TypeOK, PcType
<1>1. CASE DisablesItself
  <2>1. SetEnabled(FALSE)
    BY <1>1 DEF DisablesItself
  <2>2. UNCHANGED <<latched, heartbeat, stopEvent, control, since, transition, rpc, reply,
                   late, pc, driving, emergency, marker>>
    BY <1>1 DEF DisablesItself
  <2>3. enabled' \in BOOLEAN /\ orphan' \in BOOLEAN /\ misled' \in BOOLEAN
        /\ reports' \in Seq(BOOLEAN)
    BY <2>1, SetEnabledType
  <2>4. QED
    BY <2>2, <2>3
<1>2. CASE Repeats
  <2>1. <<enabled>> \in Seq(BOOLEAN)
    OBVIOUS
  <2>2. QED
    BY <1>2, <2>1 DEF Repeats
<1>3. CASE ControlCallback
  <2>1. Head(reports) \in BOOLEAN /\ Tail(reports) \in Seq(BOOLEAN)
    BY <1>3 DEF ControlCallback
  <2>2. QED
    BY <1>3, <2>1 DEF ControlCallback
<1>4. CASE Stale
  <2>1. [control EXCEPT !.fresh = FALSE] \in [value : BOOLEAN, fresh : BOOLEAN]
    OBVIOUS
  <2>2. QED
    BY <1>4, <2>1 DEF Stale
<1>5. QED
  BY <1>1, <1>2, <1>3, <1>4 DEF RobotSteps

\* The process dies and is started again.
LEMMA TypeRestart ==
    ASSUME TypeOK, Restart
    PROVE  TypeOK'
<1>1. enabled' \in BOOLEAN
  <2>1. enabled' \in {enabled} \union Effect(rpc.service, "ok")
    BY DEF Restart
  <2>2. QED
    BY <2>1, EffectType DEF TypeOK
<1>2. reply' \in [Threads -> Results \union {None}]
  BY DEF Restart
<1>3. pc' \in [Threads -> Labels] /\ pc'["arm"] = "idle" /\ pc'["end"] = "idle"
      /\ pc'["reset"] = "idle"
  BY DEF Restart, Labels, Threads
<1>4. QED
  BY <1>1, <1>2, <1>3, NoReport DEF Restart, TypeOK, PcType, ArmLabels, EndLabels

\* The steps of the threads, together.
LEMMA TypeThreadSteps ==
    ASSUME TypeOK, NEW t \in {"arm", "end"}, ThreadSteps(t)
    PROVE  TypeOK'
BY TypeCallSteps, TypeDisarmSteps, TypeArmSteps, TypeEndSteps DEF ThreadSteps

\* No step of a thread, a worker, the robot or a restart leaves the types.
LEMMA TypeStep == TypeOK /\ [Next]_vars => TypeOK'
<1> SUFFICES ASSUME TypeOK, [Next]_vars PROVE TypeOK'
  OBVIOUS
<1>1. CASE Next
  BY <1>1, TypeThreadSteps, TypeWorkerSteps, TypeAdapter, TypeRobotSteps, TypeRestart DEF Next
<1>2. CASE UNCHANGED vars
  BY <1>2 DEF vars, TypeOK, PcType
<1>3. QED
  BY <1>1, <1>2

\* The variables have their types, whatever the threads, the services, the
\* messages and the crashes of control_safety.py do.
THEOREM TypeCorrect == Spec => []TypeOK
<1>1. QED
  BY TypeInit, TypeStep, PTL DEF Spec


-----------------------------------------------------------------------------
(* The latch, its state file and the heartbeat.                            *)

\* A step that is not a reset or a restart leaves the latch and its state
\* file alone, or latches.
LEMMA LatchedByThreads ==
    ASSUME NEW t \in {"arm", "end"}, ThreadSteps(t)
    PROVE  UNCHANGED <<latched, marker>> \/ latched'
<1>1. CASE CallSteps(t)
  BY <1>1 DEF CallSteps, BeginCall, CallBusy, CallTimesOut, CallFails, CallSucceeds,
              LatchLate, Latch
<1>2. CASE DisarmSteps(t)
  BY <1>2 DEF DisarmSteps, Withdraw, ConfirmedOff, NotConfirmedOff, LatchFailure, Latch
<1>3. CASE ArmSteps
  BY <1>3 DEF ArmSteps, ArmStarts, ArmRefused, Settled, Checked, CheckFails, Beat,
              Confirmed, NotConfirmed, Drive
<1>4. CASE EndSteps
  BY <1>4 DEF EndSteps, DisarmLocks, AlreadyDisabled, DisarmTimesOut, StopLatches, Latch
<1>5. QED
  BY <1>1, <1>2, <1>3, <1>4 DEF ThreadSteps

\* No step leaves the state file behind a latch that is lifted.
LEMMA SavedStopStep == SavedStopStaysLatched /\ [Next]_vars => SavedStopStaysLatched'
<1> SUFFICES ASSUME SavedStopStaysLatched, [Next]_vars PROVE SavedStopStaysLatched'
  OBVIOUS
<1> USE DEF SavedStopStaysLatched
<1>1. CASE \E t \in {"arm", "end"} : ThreadSteps(t)
  BY <1>1, LatchedByThreads
<1>2. CASE ResetSteps
  BY <1>2 DEF ResetSteps, Cleared, NotCleared, ResetEnds
<1>3. CASE WorkerSteps
  BY <1>3 DEF WorkerSteps, Serve, Compensate, Return, ReturnLate, CompensationEnds
<1>4. CASE Adapter
  BY <1>4 DEF Adapter, CallArm, CallEnd, CallDisarm, CallStop, CallReset,
              OperatorLatches, Latch
<1>5. CASE RobotSteps
  BY <1>5 DEF RobotSteps, DisablesItself, Repeats, ControlCallback, Stale
<1>6. CASE Restart
  BY <1>6 DEF Restart
<1>7. CASE UNCHANGED vars
  BY <1>7 DEF vars
<1>8. QED
  BY <1>1, <1>2, <1>3, <1>4, <1>5, <1>6, <1>7 DEF Next

\* A stop whose state file exists is latched in memory: through restarts,
\* resets that fail half way, and latches of every thread.
THEOREM SavedStop == Spec => []SavedStopStaysLatched
<1>1. Init => SavedStopStaysLatched
  BY DEF Init, SavedStopStaysLatched
<1>2. QED
  BY <1>1, SavedStopStep, PTL DEF Spec

\* A service call of either thread.
LEMMA HeartbeatCallSteps ==
    ASSUME TypeOK, LatchSilencesHeartbeat, NEW t \in {"arm", "end"}, CallSteps(t)
    PROVE  LatchSilencesHeartbeat'
<1> USE DEF LatchSilencesHeartbeat, TypeOK, PcType, GoTo, Threads
<1>1. CASE BeginCall(t)
  BY <1>1 DEF BeginCall, CallLabels
<1>2. CASE CallBusy(t)
  BY <1>2 DEF CallBusy, Fails, CallLabels
<1>3. CASE CallTimesOut(t)
  BY <1>3 DEF CallTimesOut
<1>4. CASE CallFails(t)
  BY <1>4 DEF CallFails, Fails, WaitLabels
<1>5. CASE CallSucceeds(t)
  BY <1>5 DEF CallSucceeds, WaitLabels
<1>6. ASSUME NEW saved \in BOOLEAN, LatchLate(t, saved)
      PROVE  LatchSilencesHeartbeat'
  BY <1>6 DEF LatchLate, Latch
<1>7. QED
  BY <1>1, <1>2, <1>3, <1>4, <1>5, <1>6 DEF CallSteps

\* arm() raises the heartbeat on its way to the confirmation, and leaves the
\* confirmation unlatched or to withdraw the heartbeat.
LEMMA HeartbeatArmSteps ==
    ASSUME TypeOK, LatchSilencesHeartbeat, ArmSteps
    PROVE  LatchSilencesHeartbeat'
<1> USE DEF LatchSilencesHeartbeat, TypeOK, PcType, GoTo, At, Threads
<1>1. CASE Beat
  BY <1>1 DEF Beat
<1>2. CASE Confirmed
  BY <1>2 DEF Confirmed, NotCancelled
<1>3. CASE NotConfirmed
  BY <1>3 DEF NotConfirmed
<1>4. CASE ArmStarts \/ ArmRefused \/ Settled \/ Checked \/ CheckFails \/ Drive
  BY <1>4 DEF ArmStarts, ArmRefused, Settled, Checked, CheckFails, Fails, Drive
<1>5. QED
  BY <1>1, <1>2, <1>3, <1>4 DEF ArmSteps

\* A step that latches silences the heartbeat, and one that sets it does not latch.
LEMMA HeartbeatStep ==
    TypeOK /\ LatchSilencesHeartbeat /\ [Next]_vars => LatchSilencesHeartbeat'
<1> SUFFICES ASSUME TypeOK, LatchSilencesHeartbeat, [Next]_vars
             PROVE  LatchSilencesHeartbeat'
  OBVIOUS
<1>1. ASSUME NEW t \in {"arm", "end"}, DisarmSteps(t)
      PROVE  LatchSilencesHeartbeat'
  BY <1>1 DEF DisarmSteps, Withdraw, ConfirmedOff, NotConfirmedOff, LatchFailure, Latch,
              LatchSilencesHeartbeat, TypeOK, PcType, GoTo, At, Threads
<1>2. CASE EndSteps
  BY <1>2 DEF EndSteps, DisarmLocks, AlreadyDisabled, DisarmTimesOut, StopLatches, Latch,
              LatchSilencesHeartbeat, TypeOK, PcType, GoTo, Threads
<1>3. CASE \E t \in {"arm", "end"} : ThreadSteps(t)
  BY <1>1, <1>2, <1>3, HeartbeatCallSteps, HeartbeatArmSteps DEF ThreadSteps
<1>4. CASE ResetSteps
  BY <1>4 DEF ResetSteps, Cleared, NotCleared, ResetEnds, LatchSilencesHeartbeat,
              TypeOK, PcType, GoTo, Threads
<1>5. CASE WorkerSteps
  BY <1>5 DEF WorkerSteps, Serve, Compensate, Return, ReturnLate, CompensationEnds,
              LatchSilencesHeartbeat
<1>6. CASE Adapter
  BY <1>6 DEF Adapter, CallArm, CallEnd, CallDisarm, CallStop, CallReset,
              OperatorLatches, Latch, LatchSilencesHeartbeat, TypeOK, PcType, GoTo, Threads
<1>7. CASE RobotSteps
  BY <1>7 DEF RobotSteps, DisablesItself, Repeats, ControlCallback, Stale,
              LatchSilencesHeartbeat
<1>8. CASE Restart
  BY <1>8 DEF Restart, LatchSilencesHeartbeat
<1>9. CASE UNCHANGED vars
  BY <1>9 DEF vars, LatchSilencesHeartbeat
<1>10. QED
  BY <1>3, <1>4, <1>5, <1>6, <1>7, <1>8, <1>9 DEF Next

\* Whatever arm() is doing when a stop is latched, the heartbeat is silent, or
\* arm() is about to withdraw it.
THEOREM SilentHeartbeat == Spec => []LatchSilencesHeartbeat
<1>1. Init => LatchSilencesHeartbeat
  BY DEF Init, LatchSilencesHeartbeat
<1>2. QED
  BY <1>1, HeartbeatStep, TypeCorrect, PTL DEF Spec


-----------------------------------------------------------------------------
(* The reset.                                                              *)

\* The newest report tells the robot's state: the last one under way or, when
\* none is, the one received, unless it is stale.
ReportsTell ==
    IF reports = <<>> THEN control.fresh => control.value = enabled
    ELSE reports[Len(reports)] = enabled

\* A caller that has timed out is still inside its operation.
LateInv == \A t \in late : pc[t] # "idle"

\* While clear_latch() holds both locks no thread and no call is under way.
ResetInv ==
    pc["reset"] = "clearLatch" =>
        /\ rpc = None /\ late = {}
        /\ pc["arm"] = "idle" /\ pc["end"] = "idle"


\* A change of the robot's state is reported after everything under way.
LEMMA ReportsSetEnabled ==
    ASSUME TypeOK, ReportsTell, NEW value \in BOOLEAN, SetEnabled(value), UNCHANGED control
    PROVE  ReportsTell'
<1>1. CASE value = enabled
  BY <1>1 DEF SetEnabled, ReportsTell
<1>2. CASE value # enabled
  <2>1. reports' = Append(reports, value) /\ reports \in Seq(BOOLEAN)
    BY <1>2 DEF SetEnabled, TypeOK
  <2>2. reports' # <<>> /\ reports'[Len(reports')] = value
    BY <2>1
  <2>3. QED
    BY <2>2 DEF SetEnabled, ReportsTell
<1>3. QED
  BY <1>1, <1>2

\* The oldest report is received: what remains still ends with the newest.
LEMMA ReportsCallback ==
    ASSUME TypeOK, ReportsTell, ControlCallback
    PROVE  ReportsTell'
<1>1. reports \in Seq(BOOLEAN) /\ reports # <<>> /\ reports[Len(reports)] = enabled
  BY DEF TypeOK, ControlCallback, ReportsTell
<1>2. CASE Tail(reports) = <<>>
  <2>1. Len(reports) = 1
    <3>1. Len(Tail(reports)) = Len(reports) - 1 /\ Len(reports) \in Nat
      BY <1>1
    <3>2. Len(<<>>) = 0
      OBVIOUS
    <3>3. Len(Tail(reports)) = 0
      BY <1>2, <3>2, Zenon
    <3>4. QED
      BY <3>1, <3>3
  <2>2. Head(reports) = enabled
    BY <1>1, <2>1
  <2>3. QED
    BY <1>2, <2>2 DEF ControlCallback, ReportsTell
<1>3. CASE Tail(reports) # <<>>
  <2>1. Tail(reports)[Len(Tail(reports))] = reports[Len(reports)]
    BY <1>1, <1>3
  <2>2. QED
    BY <1>1, <1>3, <2>1 DEF ControlCallback, ReportsTell
<1>4. QED
  BY <1>2, <1>3

\* Threads and operators neither send nor receive reports, nor change the robot.
LEMMA ThreadsKeepReports ==
    ASSUME NEW t \in {"arm", "end"}, ThreadSteps(t)
    PROVE  UNCHANGED <<control, enabled, reports>>
<1>1. CASE CallSteps(t)
  BY <1>1 DEF CallSteps, BeginCall, CallBusy, CallTimesOut, CallFails, CallSucceeds,
              LatchLate
<1>2. CASE DisarmSteps(t)
  BY <1>2 DEF DisarmSteps, Withdraw, ConfirmedOff, NotConfirmedOff, LatchFailure
<1>3. CASE ArmSteps
  BY <1>3 DEF ArmSteps, ArmStarts, ArmRefused, Settled, Checked, CheckFails, Beat,
              Confirmed, NotConfirmed, Drive
<1>4. CASE EndSteps
  BY <1>4 DEF EndSteps, DisarmLocks, AlreadyDisabled, DisarmTimesOut, StopLatches
<1>5. QED
  BY <1>1, <1>2, <1>3, <1>4 DEF ThreadSteps

\* What the adapter calls, and a reset, change neither the robot nor what is known of it.
LEMMA AdapterKeepsReports ==
    ASSUME Adapter \/ ResetSteps
    PROVE  UNCHANGED <<control, enabled, reports>>
BY DEF Adapter, CallArm, CallEnd, CallDisarm, CallStop, CallReset, OperatorLatches,
       ResetSteps, Cleared, NotCleared, ResetEnds

\* What the worker of a call does to the robot and its reports.
LEMMA ReportsWorkerSteps ==
    ASSUME TypeOK, ReportsTell, WorkerSteps
    PROVE  ReportsTell'
<1>1. CASE \E result \in Results : Serve(result) \/ Compensate(result)
  <2>1. PICK value \in BOOLEAN : SetEnabled(value)
    BY <1>1, EffectType DEF Serve, Compensate
  <2>2. UNCHANGED control
    BY <1>1 DEF Serve, Compensate
  <2>3. QED
    BY <2>1, <2>2, ReportsSetEnabled
<1>2. CASE Return \/ ReturnLate \/ CompensationEnds
  BY <1>2 DEF Return, ReturnLate, CompensationEnds, ReportsTell
<1>3. QED
  BY <1>1, <1>2 DEF WorkerSteps

\* The newest report stays the robot's state.
LEMMA ReportsStep == TypeOK /\ ReportsTell /\ [Next]_vars => ReportsTell'
<1> SUFFICES ASSUME TypeOK, ReportsTell, [Next]_vars PROVE ReportsTell'
  OBVIOUS
<1>1. CASE UNCHANGED <<control, enabled, reports>>
  BY <1>1 DEF ReportsTell
<1>2. CASE DisablesItself
  BY <1>2, ReportsSetEnabled DEF DisablesItself
<1>3. CASE Repeats
  <2>1. reports' # <<>> /\ reports'[Len(reports')] = enabled
    BY <1>3 DEF Repeats
  <2>2. QED
    BY <1>3, <2>1 DEF Repeats, ReportsTell
<1>4. CASE Stale
  BY <1>4 DEF Stale, ReportsTell, TypeOK
<1>5. CASE Restart
  BY <1>5 DEF Restart, ReportsTell
<1>6. CASE UNCHANGED vars
  BY <1>1, <1>6 DEF vars
<1>7. QED
  BY <1>1, <1>2, <1>3, <1>4, <1>5, <1>6, ThreadsKeepReports, AdapterKeepsReports,
     ReportsWorkerSteps, ReportsCallback DEF Next, RobotSteps


\* While a reset is under way no other thread is: none of its steps is enabled,
\* and no step of a thread begins or ends a reset.
LEMMA ResetExcludesThreads ==
    ASSUME TypeOK, ResetInv, NEW t \in {"arm", "end"}, ThreadSteps(t)
    PROVE  pc["reset"] # "clearLatch" /\ pc'["reset"] # "clearLatch"
<1> USE DEF TypeOK, PcType, Threads, GoTo
<1>1. CASE CallSteps(t)
  BY <1>1 DEF CallSteps, BeginCall, CallBusy, CallTimesOut, CallFails, CallSucceeds,
              LatchLate, Fails, CallLabels, WaitLabels, ResetInv
<1>2. CASE DisarmSteps(t)
  BY <1>2 DEF DisarmSteps, Withdraw, ConfirmedOff, NotConfirmedOff, LatchFailure, At,
              ResetInv
<1>3. CASE t = "arm" /\ ArmSteps
  BY <1>3 DEF ArmSteps, ArmStarts, ArmRefused, Settled, Checked, CheckFails, Fails, Beat,
              Confirmed, NotConfirmed, Drive, At, ResetInv
<1>4. CASE t = "end" /\ EndSteps
  BY <1>4 DEF EndSteps, DisarmLocks, AlreadyDisabled, DisarmTimesOut, StopLatches, At,
              ResetInv
<1>5. QED
  BY <1>1, <1>2, <1>3, <1>4 DEF ThreadSteps

\* A reset begins when every thread is idle.
LEMMA ResetBegins ==
    ASSUME TypeOK, LateInv, CallReset
    PROVE  ResetInv'
<1>1. pc'["arm"] = "idle" /\ pc'["end"] = "idle"
  BY DEF CallReset, GoTo, TypeOK, PcType, Threads
<1>2. rpc' = None
  BY DEF CallReset
<1>3. late' = {}
  BY DEF CallReset, LateInv, TypeOK
<1>4. QED
  BY <1>1, <1>2, <1>3 DEF ResetInv

\* Only the latch that follows a timeout takes a late caller on.
LEMMA LateThreadSteps ==
    ASSUME TypeOK, LateInv, NEW t \in {"arm", "end"}, ThreadSteps(t)
    PROVE  LateInv'
<1> USE DEF LateInv, TypeOK, PcType, Threads, GoTo, At
<1>1. CASE CallSteps(t)
  <2>1. CASE CallTimesOut(t)
    BY <2>1 DEF CallTimesOut, WaitLabels
  <2>2. CASE \E saved \in BOOLEAN : LatchLate(t, saved)
    BY <2>2 DEF LatchLate, Fails
  <2>3. CASE BeginCall(t) \/ CallBusy(t) \/ CallFails(t) \/ CallSucceeds(t)
    BY <2>3 DEF BeginCall, CallBusy, CallFails, CallSucceeds, Fails
  <2>4. QED
    BY <1>1, <2>1, <2>2, <2>3 DEF CallSteps
<1>2. CASE DisarmSteps(t)
  BY <1>2 DEF DisarmSteps, Withdraw, ConfirmedOff, NotConfirmedOff, LatchFailure
<1>3. CASE ArmSteps
  <2>1. "arm" \notin late /\ late' = late
    BY <1>3 DEF ArmSteps, ArmStarts, ArmRefused, Settled, Checked, CheckFails, Fails, Beat,
                Confirmed, NotConfirmed, Drive
  <2>2. \A u \in Threads \ {"arm"} : pc'[u] = pc[u]
    BY <1>3 DEF ArmSteps, ArmStarts, ArmRefused, Settled, Checked, CheckFails, Fails, Beat,
                Confirmed, NotConfirmed, Drive
  <2>3. QED
    BY <2>1, <2>2
<1>4. CASE EndSteps
  BY <1>4 DEF EndSteps, DisarmLocks, AlreadyDisabled, DisarmTimesOut, StopLatches
<1>5. QED
  BY <1>1, <1>2, <1>3, <1>4 DEF ThreadSteps

\* A caller is only late inside its own operation.
LEMMA LateStep == TypeOK /\ LateInv /\ [Next]_vars => LateInv'
<1> SUFFICES ASSUME TypeOK, LateInv, [Next]_vars PROVE LateInv'
  OBVIOUS
<1>1. CASE UNCHANGED <<pc, late>>
  BY <1>1 DEF LateInv
<1>2. CASE CallArm \/ CallEnd \/ CallReset
  <2>1. late' = late /\ late \subseteq Threads
    BY <1>2 DEF CallArm, CallEnd, CallDisarm, CallStop, CallReset, TypeOK
  <2>2. PICK t \in Threads, label \in Labels \ {"idle"} : GoTo(t, label)
    BY <1>2 DEF CallArm, CallEnd, CallDisarm, CallStop, CallReset, Threads, Labels,
                ArmLabels, EndLabels
  <2>3. \A u \in Threads : pc[u] # "idle" => pc'[u] # "idle"
    BY <2>2 DEF GoTo, TypeOK, PcType
  <2>4. QED
    BY <2>1, <2>3 DEF LateInv
<1>3. CASE ResetSteps
  BY <1>3 DEF ResetSteps, Cleared, NotCleared, ResetEnds, GoTo, At, LateInv, TypeOK,
              PcType, Threads
<1>4. CASE WorkerSteps
  BY <1>1, <1>4 DEF WorkerSteps, Serve, Compensate, Return, ReturnLate, CompensationEnds
<1>5. CASE RobotSteps
  BY <1>1, <1>5 DEF RobotSteps, DisablesItself, Repeats, ControlCallback, Stale
<1>6. CASE \E saved \in BOOLEAN : OperatorLatches(saved)
  BY <1>1, <1>6 DEF OperatorLatches
<1>7. CASE Restart
  BY <1>7 DEF Restart, LateInv
<1>8. CASE UNCHANGED vars
  BY <1>1, <1>8 DEF vars
<1>9. QED
  BY <1>2, <1>3, <1>4, <1>5, <1>6, <1>7, <1>8, LateThreadSteps DEF Next, Adapter

\* While a reset is under way nothing else gets through to the robot.
LEMMA ResetStep ==
    TypeOK /\ LateInv /\ ResetInv /\ [Next]_vars => ResetInv'
<1> SUFFICES ASSUME TypeOK, LateInv, ResetInv, [Next]_vars PROVE ResetInv'
  OBVIOUS
<1>1. CASE \E t \in {"arm", "end"} : ThreadSteps(t)
  BY <1>1, ResetExcludesThreads DEF ResetInv
<1>2. CASE ResetSteps
  BY <1>2 DEF ResetSteps, Cleared, NotCleared, ResetEnds, GoTo, ResetInv, TypeOK, PcType,
              Threads
<1>3. CASE WorkerSteps
  BY <1>3 DEF WorkerSteps, Serve, Compensate, Return, ReturnLate, CompensationEnds, ResetInv
<1>4. CASE CallArm \/ CallEnd
  BY <1>4 DEF CallArm, CallEnd, CallDisarm, CallStop, GoTo, ResetInv, TypeOK, PcType,
              Threads
<1>5. CASE CallReset
  BY <1>5, ResetBegins
<1>6. CASE \E saved \in BOOLEAN : OperatorLatches(saved)
  BY <1>6 DEF OperatorLatches, ResetInv
<1>7. CASE RobotSteps
  BY <1>7 DEF RobotSteps, DisablesItself, Repeats, ControlCallback, Stale, ResetInv
<1>8. CASE Restart
  BY <1>8 DEF Restart, ResetInv, Threads
<1>9. CASE UNCHANGED vars
  BY <1>9 DEF vars, ResetInv
<1>10. QED
  BY <1>1, <1>2, <1>3, <1>4, <1>5, <1>6, <1>7, <1>8, <1>9 DEF Next, Adapter

\* However the threads and the messages interleave, a reset has the robot to
\* itself, and the newest message, under way or received, tells its state.
THEOREM ResetSafe == Spec => [](LateInv /\ ReportsTell /\ ResetInv)
<1> DEFINE Inv == LateInv /\ ReportsTell /\ ResetInv
<1>1. Init => Inv
  BY DEF Init, LateInv, ReportsTell, ResetInv, Threads
<1>2. TypeOK /\ Inv /\ [Next]_vars => Inv'
  BY LateStep, ReportsStep, ResetStep
<1>3. QED
  BY <1>1, <1>2, TypeCorrect, PTL DEF Spec

\* The emergency stop is lifted only from a robot that does not accept motion, or
\* whose message that it does was sent before the latch was lifted and is still
\* on the way; that much holds for any number of messages in the queue.
THEOREM ResetDisabled == Spec => ResetOnlyWhenDisabled
<1>1. ReportsTell /\ [Next]_vars =>
        [latched /\ ~latched' /\ Cleared => ~enabled \/ SaysEnabled]_vars
  BY DEF ReportsTell, SaysEnabled, Cleared, ControlMatches
<1>2. QED
  BY <1>1, ResetSafe, PTL DEF Spec, ResetOnlyWhenDisabled

-----------------------------------------------------------------------------
(* An enabled robot.                                                       *)

\* The threads of executions; a reset calls no service.
Callers == {"arm", "end"}

\* Whoever is inside arm() or _disarm_locked() holds transition_lock.
Holding ==
    /\ pc["arm"] \in (ArmLabels \ {"start", "armed"}) \union DisarmLabels =>
         transition = "arm"
    /\ pc["end"] \in DisarmLabels => transition = "end"

\* A call that is not abandoned has a caller that waits for it.
Awaited ==
    rpc # None /\ ~rpc.abandoned =>
        /\ rpc.state \in {"calling", "returned"}
        /\ pc[rpc.caller] = WaitLabel(rpc.service)
        /\ rpc.caller \notin late /\ reply[rpc.caller] = None

\* A result that was handed over is read by the caller that waits for it.
Unread == \A t \in Callers : reply[t] # None => pc[t] \in WaitLabels /\ t \notin late

\* A caller that has timed out is still at the call.
Lingering == late \subseteq Callers /\ \A t \in late : pc[t] \in WaitLabels

\* Whoever abandons an enable call latches.
Abandoned ==
    rpc # None /\ rpc.service = "enable" /\ rpc.abandoned =>
        latched \/ ("arm" \in late /\ pc["arm"] = "enabling")

\* While a thread disables the robot nobody enables it, and once its call has
\* succeeded the robot is disabled.
Disabling ==
    /\ \A t \in Callers \ late :
         /\ pc[t] \in {"disabling", "confirmOff"} => rpc = None \/ rpc.service # "enable"
         /\ pc[t] = "disabling" /\ reply[t] = "ok" => ~enabled
         /\ pc[t] = "confirmOff" => ~enabled
    /\ rpc # None /\ rpc.service = "disable" /\ ~rpc.abandoned
       /\ rpc.state = "returned" /\ rpc.result = "ok" => ~enabled

\* arm() has called the service and has not finished.
Attempting == {"enabling", "beat", "confirm", "withdraw", "disable", "disabling", "latch"}

\* The robot accepts motion for this process, against no message that it was
\* given as the last word, and no stop is latched.
Open == enabled /\ ~latched /\ ~orphan /\ ~misled

\* Such a robot is driven, or a thread is there that will drive or disable it.
Cared ==
    Open => \/ driving
            \/ pc["arm"] \in Attempting
            \/ pc["arm"] = "armed" /\ ~stopEvent
            \/ pc["end"] # "idle"

\* The next execution is armed when the one before it is over.
Alternating == driving => pc["arm"] = "idle"

EnableInv ==
    /\ Holding /\ Awaited /\ Unread /\ Lingering /\ Abandoned /\ Disabling
    /\ Cared /\ Alternating


\* The labels and the service of a call match.
LEMMA Labelling ==
    /\ \A label \in CallLabels : WaitLabel(label) \in WaitLabels /\ ServiceAt(label) = label
    /\ \A service \in Services :
         /\ WaitLabel(service) = "enabling" <=> service = "enable"
         /\ WaitLabel(service) = "disabling" <=> service = "disable"
         /\ WaitLabel(service) \in WaitLabels
    /\ \A label \in WaitLabels \union CallLabels :
         /\ OnFailure(label) \in {"idle", "withdraw", "latch", "stopLatch"}
         /\ OnFailure(label) = "withdraw" <=> label \in {"enable", "enabling"}
         /\ OnFailure(label) = "latch" <=> label \in {"disable", "disabling"}
         /\ OnFailure(label) = "stopLatch" <=> label \in {"stop", "stopping"}
BY DEF CallLabels, WaitLabels, WaitLabel, ServiceAt, Services, OnFailure

\* The robot and its messages leave the threads and their calls alone.
LEMMA RobotKeepsCalls ==
    ASSUME RobotSteps
    PROVE  UNCHANGED <<rpc, reply, late, pc, latched, driving, stopEvent, transition>>
           /\ (enabled' => enabled)
<1>1. CASE DisablesItself
  BY <1>1 DEF DisablesItself, SetEnabled
<1>2. CASE Repeats
  BY <1>2 DEF Repeats
<1>3. CASE ControlCallback
  BY <1>3 DEF ControlCallback
<1>4. CASE Stale
  BY <1>4 DEF Stale
<1>5. QED
  BY <1>1, <1>2, <1>3, <1>4 DEF RobotSteps

\* An enable call is made by arm(), which latches when it gives up.
LEMMA EnableCaller ==
    ASSUME TypeOK, EnableInv, rpc # None, rpc.service = "enable"
    PROVE  latched \/ pc["arm"] = "enabling"
<1>1. rpc \in Call
  BY DEF TypeOK
<1>2. CASE rpc.abandoned
  BY <1>2 DEF EnableInv, Abandoned
<1>3. CASE ~rpc.abandoned
  <2>1. pc[rpc.caller] = "enabling"
    BY <1>1, <1>3, Labelling DEF EnableInv, Awaited, Call
  <2>2. rpc.caller = "arm"
    BY <1>1, <2>1 DEF TypeOK, PcType, ArmLabels, Call
  <2>3. QED
    BY <2>1, <2>2
<1>4. QED
  BY <1>2, <1>3

\* A call begins.
LEMMA BeginCallEnables ==
    ASSUME TypeOK, EnableInv, NEW t \in Callers, BeginCall(t)
    PROVE  EnableInv'
<1> USE DEF EnableInv, TypeOK, PcType, Threads, Callers, GoTo, At, Call
<1>1. Holding'
  BY DEF Holding, ArmLabels, DisarmLabels, BeginCall, CallLabels, ServiceAt, WaitLabel
<1>2. Awaited'
  <2>1. ServiceAt(pc[t]) = pc[t] /\ reply[t] = None
    BY Labelling DEF BeginCall, Unread, CallLabels, WaitLabels
  <2>2. rpc' = [caller |-> t, service |-> pc[t], abandoned |-> FALSE,
               state |-> "calling", result |-> "ok"]
        /\ pc'[t] = WaitLabel(pc[t]) /\ late' = late /\ reply' = reply /\ t \notin late
    BY <2>1 DEF BeginCall
  <2>3. QED
    BY <2>1, <2>2 DEF Awaited
<1>3. Unread'
  BY DEF Unread, WaitLabels, BeginCall, CallLabels, ServiceAt, WaitLabel
<1>4. Lingering'
  BY DEF Lingering, WaitLabels, BeginCall
<1>5. Abandoned'
  BY DEF Abandoned, BeginCall
<1>6. Disabling'
  <2>1. rpc = None /\ rpc'.service = pc[t] /\ rpc'.state = "calling" /\ reply[t] = None
        /\ UNCHANGED <<reply, late, robot>>
    BY Labelling DEF BeginCall, Unread, CallLabels, WaitLabels
  <2>2. \A u \in Callers : u # t => pc'[u] = pc[u]
    BY DEF BeginCall
  <2>3. pc'[t] = WaitLabel(pc[t])
    BY DEF BeginCall
  <2>4. pc[t] = "enable" => t = "arm" /\ pc'[t] = "enabling" /\ transition = "arm"
    BY <2>3 DEF Holding, ArmLabels, WaitLabel
  <2>5. pc[t] = "enable" => pc["end"] \notin {"disabling", "confirmOff"}
    BY <2>4 DEF Holding, DisarmLabels
  <2>6. pc'[t] # "confirmOff" /\ reply'[t] # "ok"
    BY <2>1, <2>3, SafetyConstants DEF WaitLabel, Results
  <2>7. \A u \in Callers \ late' : pc'[u] \in {"disabling", "confirmOff"} =>
          rpc' = None \/ rpc'.service # "enable"
    BY <2>1, <2>2, <2>4, <2>5
  <2>8. \A u \in Callers \ late' : (pc'[u] = "disabling" /\ reply'[u] = "ok" => ~enabled')
          /\ (pc'[u] = "confirmOff" => ~enabled')
    BY <2>1, <2>2, <2>6 DEF Disabling
  <2>9. QED
    BY <2>1, <2>7, <2>8 DEF Disabling
<1>7. Cared'
  BY DEF Cared, Open, Attempting, BeginCall, CallLabels, ServiceAt, WaitLabel
<1>8. Alternating'
  BY DEF Alternating, BeginCall, CallLabels, ServiceAt, WaitLabel
<1> QED
  BY <1>1, <1>2, <1>3, <1>4, <1>5, <1>6, <1>7, <1>8

\* A call is refused because another one is pending.
LEMMA CallBusyEnables ==
    ASSUME TypeOK, EnableInv, NEW t \in Callers, CallBusy(t)
    PROVE  EnableInv'
<1> USE DEF EnableInv, TypeOK, PcType, Threads, Callers, GoTo, At, Call
<1>1. Holding'
  BY DEF Holding, ArmLabels, DisarmLabels, CallBusy, CallLabels, Fails, OnFailure
<1>2. Awaited'
  BY DEF Awaited, WaitLabel, CallBusy, CallLabels, Fails, OnFailure
<1>3. Unread'
  BY DEF Unread, WaitLabels, CallBusy, CallLabels, Fails, OnFailure
<1>4. Lingering'
  BY DEF Lingering, WaitLabels, CallBusy, Fails
<1>5. Abandoned'
  BY DEF Abandoned, CallBusy, Fails
<1>6. Disabling'
  BY DEF Disabling, CallBusy, CallLabels, Fails, OnFailure
<1>7. Cared'
  BY DEF Cared, Open, Attempting, CallBusy, Fails, OnFailure, CallLabels, ArmLabels,
         EndLabels
<1>8. Alternating'
  BY DEF Alternating, CallBusy, CallLabels, Fails, OnFailure
<1> QED
  BY <1>1, <1>2, <1>3, <1>4, <1>5, <1>6, <1>7, <1>8

\* A caller gives up waiting.
LEMMA TimesOutEnables ==
    ASSUME TypeOK, EnableInv, NEW t \in Callers, CallTimesOut(t)
    PROVE  EnableInv'
<1> USE DEF EnableInv, TypeOK, PcType, Threads, Callers, GoTo, At, Call
<1>1. Awaited'
  BY DEF Awaited, WaitLabel, CallTimesOut
<1>2. Unread'
  BY DEF Unread, Awaited, CallTimesOut
<1>3. Lingering'
  BY DEF Lingering, WaitLabels, CallTimesOut
<1>4. Abandoned'
  <2>1. rpc \in Call /\ rpc'.service = rpc.service /\ late' = late \union {t}
        /\ UNCHANGED <<pc, latched>> /\ rpc.caller = t /\ ~rpc.abandoned /\ rpc # None
    BY DEF CallTimesOut
  <2>2. rpc.service = "enable" => latched \/ pc["arm"] = "enabling"
    BY <2>1, EnableCaller
  <2>3. rpc.service = "enable" => pc[t] = "enabling"
    BY <2>1, Labelling DEF Awaited
  <2>4. pc[t] = "enabling" => t = "arm"
    BY DEF ArmLabels
  <2>5. QED
    BY <2>1, <2>3, <2>4 DEF Abandoned
<1>5. Disabling'
  BY DEF Disabling, CallTimesOut
<1>6. Holding' /\ Cared' /\ Alternating'
  BY DEF Holding, Cared, Alternating, Open, CallTimesOut
<1> QED
  BY <1>1, <1>2, <1>3, <1>4, <1>5, <1>6

\* The caller that gave up latches.
LEMMA LatchLateEnables ==
    ASSUME TypeOK, EnableInv, NEW t \in Callers, NEW saved \in BOOLEAN, LatchLate(t, saved)
    PROVE  EnableInv'
<1> USE DEF EnableInv, TypeOK, PcType, Threads, Callers, GoTo, At, Call
<1>1. Holding'
  BY SafetyConstants DEF Holding, Lingering, LatchLate, Fails, OnFailure, CallLabels,
                         WaitLabels, ArmLabels, EndLabels, DisarmLabels
<1>2. Awaited'
  BY DEF Awaited, WaitLabel, LatchLate, Fails
<1>3. Unread'
  BY DEF Unread, WaitLabels, LatchLate, Fails
<1>4. Lingering'
  BY DEF Lingering, WaitLabels, LatchLate, Fails
<1>5. Abandoned'
  BY DEF Abandoned, LatchLate, Latch, Fails, OnFailure
<1>6. Disabling'
  BY DEF Disabling, LatchLate, Latch, Fails, OnFailure
<1>7. Cared'
  BY DEF Cared, Open, Attempting, LatchLate, Latch, Fails, OnFailure
<1>8. Alternating'
  BY DEF Alternating, LatchLate, Latch, Fails, OnFailure
<1> QED
  BY <1>1, <1>2, <1>3, <1>4, <1>5, <1>6, <1>7, <1>8

\* A caller reads an error.
LEMMA CallFailsEnables ==
    ASSUME TypeOK, EnableInv, NEW t \in Callers, CallFails(t)
    PROVE  EnableInv'
<1> USE DEF EnableInv, TypeOK, PcType, Threads, Callers, GoTo, At, Call
<1>1. Holding'
  BY SafetyConstants DEF Holding, CallFails, Fails, OnFailure, WaitLabels, ArmLabels,
                         EndLabels, DisarmLabels
<1>2. Awaited'
  BY SafetyConstants DEF Awaited, CallFails, Fails, Results
<1>3. Unread'
  BY DEF Unread, WaitLabels, CallFails, Fails
<1>4. Lingering'
  BY DEF Lingering, WaitLabels, CallFails, Fails
<1>5. Abandoned'
  BY DEF Abandoned, CallFails, Fails
<1>6. Disabling'
  BY DEF Disabling, CallFails, Fails, OnFailure
<1>7. Cared'
  BY DEF Cared, Open, Attempting, CallFails, Fails, OnFailure, WaitLabels, ArmLabels,
         EndLabels
<1>8. Alternating'
  BY DEF Alternating, CallFails, Fails, OnFailure
<1> QED
  BY <1>1, <1>2, <1>3, <1>4, <1>5, <1>6, <1>7, <1>8

\* A caller reads a success.
LEMMA CallSucceedsEnables ==
    ASSUME TypeOK, EnableInv, NEW t \in Callers, CallSucceeds(t)
    PROVE  EnableInv'
<1> USE DEF EnableInv, TypeOK, PcType, Threads, Callers, GoTo, At, Call
<1>1. Holding'
  BY DEF Holding, ArmLabels, DisarmLabels, CallSucceeds, AfterCall
<1>2. Awaited'
  BY SafetyConstants DEF Awaited, CallSucceeds, Results
<1>3. Unread'
  BY DEF Unread, WaitLabels, CallSucceeds
<1>4. Lingering'
  BY DEF Lingering, WaitLabels, CallSucceeds
<1>5. Abandoned'
  BY DEF Abandoned, CallSucceeds
<1>6. Disabling'
  BY DEF Disabling, CallSucceeds, AfterCall
<1>7. Cared'
  BY DEF Cared, Open, Attempting, Disabling, CallSucceeds, AfterCall, WaitLabels,
         ArmLabels, EndLabels
<1>8. Alternating'
  BY DEF Alternating, CallSucceeds, WaitLabels
<1> QED
  BY <1>1, <1>2, <1>3, <1>4, <1>5, <1>6, <1>7, <1>8

\* Disarming, in either thread.
LEMMA DisarmEnables ==
    ASSUME TypeOK, EnableInv, NEW t \in Callers, DisarmSteps(t)
    PROVE  EnableInv'
<1> USE DEF EnableInv, TypeOK, PcType, Threads, Callers, GoTo, At, Call
<1>1. Holding'
  BY DEF Holding, ArmLabels, DisarmLabels, DisarmSteps, Withdraw, ConfirmedOff,
         NotConfirmedOff, LatchFailure
<1>2. Awaited'
  BY DEF Awaited, WaitLabel, DisarmSteps, Withdraw, ConfirmedOff, NotConfirmedOff,
         LatchFailure, Latch, ControlMatches
<1>3. Unread'
  BY DEF Unread, WaitLabels, DisarmSteps, Withdraw, ConfirmedOff, NotConfirmedOff,
         LatchFailure
<1>4. Lingering'
  BY DEF Lingering, WaitLabels, DisarmSteps, Withdraw, ConfirmedOff, NotConfirmedOff,
         LatchFailure
<1>5. Abandoned'
  BY DEF Abandoned, DisarmSteps, Withdraw, ConfirmedOff, NotConfirmedOff, LatchFailure,
         Latch, ControlMatches
<1>6. Disabling'
  BY DEF Disabling, DisarmSteps, Withdraw, ConfirmedOff, NotConfirmedOff, LatchFailure,
         Latch, ControlMatches
<1>7. Cared'
  BY DEF Cared, Open, Attempting, Disabling, DisarmSteps, Withdraw, ConfirmedOff,
         NotConfirmedOff, LatchFailure, Latch, ControlMatches
<1>8. Alternating'
  BY DEF Alternating, DisarmSteps, Withdraw, ConfirmedOff, NotConfirmedOff, LatchFailure
<1> QED
  BY <1>1, <1>2, <1>3, <1>4, <1>5, <1>6, <1>7, <1>8

\* Arming.
LEMMA ArmEnables ==
    ASSUME TypeOK, EnableInv, ArmSteps
    PROVE  EnableInv'
<1> USE DEF EnableInv, TypeOK, PcType, Threads, Callers, GoTo, At, Call
<1>1. Holding'
  <2>1. CASE ArmStarts
    BY <2>1, SafetyConstants DEF Holding, ArmStarts, ArmLabels, DisarmLabels
  <2>2. CASE CheckFails
    BY <2>2, SafetyConstants DEF Holding, CheckFails, Fails, OnFailure, ArmLabels,
                                 DisarmLabels
  <2>3. CASE Confirmed
    BY <2>3, SafetyConstants DEF Holding, Confirmed, ArmLabels, DisarmLabels
  <2>4. CASE ArmRefused \/ Settled \/ Checked \/ Beat \/ NotConfirmed \/ Drive
    BY <2>4 DEF Holding, ArmRefused, Settled, Checked, Beat, NotConfirmed, Drive,
                ArmLabels, DisarmLabels
  <2>5. QED
    BY <2>1, <2>2, <2>3, <2>4 DEF ArmSteps
<1>2. Awaited'
  BY DEF Awaited, WaitLabel, ArmSteps, ArmStarts, ArmRefused, Settled, Checked,
         CheckFails, Fails, OnFailure, Beat, Confirmed, NotConfirmed, Drive,
         NotCancelled, ControlMatches
<1>3. Unread'
  BY DEF Unread, WaitLabels, ArmSteps, ArmStarts, ArmRefused, Settled, Checked,
         CheckFails, Fails, Beat, Confirmed, NotConfirmed, Drive
<1>4. Lingering'
  BY DEF Lingering, WaitLabels, ArmSteps, ArmStarts, ArmRefused, Settled, Checked,
         CheckFails, Fails, Beat, Confirmed, NotConfirmed, Drive
<1>5. Abandoned'
  BY DEF Abandoned, ArmSteps, ArmStarts, ArmRefused, Settled, Checked, CheckFails,
         Fails, Beat, Confirmed, NotConfirmed, Drive
<1>6. Disabling'
  BY DEF Disabling, ArmSteps, ArmStarts, ArmRefused, Settled, Checked, CheckFails,
         Fails, OnFailure, Beat, Confirmed, NotConfirmed, Drive, NotCancelled,
         ControlMatches
<1>7. Cared'
  BY DEF Cared, Open, Attempting, Alternating, Disabling, ArmSteps, ArmStarts,
         ArmRefused, Settled, Checked, CheckFails, Fails, OnFailure, Beat, Confirmed,
         NotConfirmed, Drive, NotCancelled, ControlMatches
<1>8. Alternating'
  BY DEF Alternating, ArmSteps, ArmStarts, ArmRefused, Settled, Checked, CheckFails,
         Fails, Beat, Confirmed, NotConfirmed, Drive
<1> QED
  BY <1>1, <1>2, <1>3, <1>4, <1>5, <1>6, <1>7, <1>8

\* The terminal operations.
LEMMA EndEnables ==
    ASSUME TypeOK, EnableInv, EndSteps
    PROVE  EnableInv'
<1> USE DEF EnableInv, TypeOK, PcType, Threads, Callers, GoTo, At, Call
<1>1. Holding'
  <2>1. CASE DisarmLocks
    BY <2>1, SafetyConstants DEF Holding, DisarmLocks
  <2>2. CASE AlreadyDisabled
    BY <2>2 DEF Holding, AlreadyDisabled, DisarmLabels
  <2>3. CASE \E saved \in BOOLEAN : DisarmTimesOut(saved) \/ StopLatches(saved)
    BY <2>3 DEF Holding, DisarmTimesOut, StopLatches, DisarmLabels
  <2>4. QED
    BY <2>1, <2>2, <2>3 DEF EndSteps
<1>2. Awaited'
  BY DEF Awaited, WaitLabel, EndSteps, DisarmLocks, AlreadyDisabled, DisarmTimesOut,
         StopLatches, Latch, ControlMatches
<1>3. Unread'
  BY DEF Unread, WaitLabels, EndSteps, DisarmLocks, AlreadyDisabled, DisarmTimesOut,
         StopLatches
<1>4. Lingering'
  BY DEF Lingering, WaitLabels, EndSteps, DisarmLocks, AlreadyDisabled, DisarmTimesOut,
         StopLatches
<1>5. Abandoned'
  BY DEF Abandoned, EndSteps, DisarmLocks, AlreadyDisabled, DisarmTimesOut, StopLatches,
         Latch, ControlMatches
<1>6. Disabling'
  BY DEF Disabling, EndSteps, DisarmLocks, AlreadyDisabled, DisarmTimesOut, StopLatches,
         Latch, ControlMatches
<1>7. Cared'
  BY DEF Cared, Open, Attempting, Holding, EndSteps, DisarmLocks, AlreadyDisabled,
         DisarmTimesOut, StopLatches, Latch, ControlMatches
<1>8. Alternating'
  BY DEF Alternating, EndSteps, DisarmLocks, AlreadyDisabled, DisarmTimesOut,
         StopLatches
<1> QED
  BY <1>1, <1>2, <1>3, <1>4, <1>5, <1>6, <1>7, <1>8

\* The service runs.
LEMMA ServeEnables ==
    ASSUME TypeOK, EnableInv, NEW result \in Results, Serve(result)
    PROVE  EnableInv'
<1> USE DEF EnableInv, TypeOK, PcType, Threads, Callers, GoTo, At, Call
<1>1. Awaited'
  BY DEF Awaited, WaitLabel, Serve, SetEnabled
<1>2. Abandoned'
  BY DEF Abandoned, Serve, SetEnabled
<1>3. Disabling'
  BY DEF Disabling, Serve, SetEnabled, Effect
<1>4. Cared'
  <2>1. PICK value \in Effect(rpc.service, result) : SetEnabled(value)
    BY DEF Serve
  <2>2. rpc # None /\ UNCHANGED <<latched, stopEvent, driving, pc>>
    BY DEF Serve
  <2>3. value => enabled \/ rpc.service = "enable"
    BY <2>1 DEF Effect
  <2>4. Open' => enabled' /\ ~latched /\ (enabled => Open)
    BY <2>1, <2>2 DEF Open, SetEnabled
  <2>5. Open' => Open \/ pc["arm"] = "enabling"
    BY <2>1, <2>2, <2>3, <2>4, EnableCaller DEF SetEnabled
  <2>6. QED
    BY <2>2, <2>5 DEF Cared, Attempting
<1>5. Holding' /\ Unread' /\ Lingering' /\ Alternating'
  BY DEF Holding, Unread, Lingering, Alternating, Serve, SetEnabled
<1> QED
  BY <1>1, <1>2, <1>3, <1>4, <1>5

\* A late enable is compensated.
LEMMA CompensateEnables ==
    ASSUME TypeOK, EnableInv, NEW result \in Results, Compensate(result)
    PROVE  EnableInv'
<1> USE DEF EnableInv, TypeOK, PcType, Threads, Callers, GoTo, At, Call
<1>1. Awaited'
  BY DEF Awaited, WaitLabel, Compensate, SetEnabled
<1>2. Abandoned'
  BY DEF Abandoned, Compensate, SetEnabled
<1>3. Disabling'
  BY DEF Disabling, Compensate, SetEnabled, Effect
<1>4. Cared'
  <2>1. PICK value \in Effect("disable", result) : SetEnabled(value)
    BY DEF Compensate
  <2>2. value => enabled
    BY <2>1 DEF Effect
  <2>3. Open' => Open
    BY <2>1, <2>2 DEF Compensate, SetEnabled, Open
  <2>4. QED
    BY <2>3 DEF Compensate, Cared
<1>5. Holding' /\ Unread' /\ Lingering' /\ Alternating'
  BY DEF Holding, Unread, Lingering, Alternating, Compensate, SetEnabled
<1> QED
  BY <1>1, <1>2, <1>3, <1>4, <1>5

\* A call ends.
LEMMA ReturnEnables ==
    ASSUME TypeOK, EnableInv, Return \/ ReturnLate \/ CompensationEnds
    PROVE  EnableInv'
<1> USE DEF EnableInv, TypeOK, PcType, Threads, Callers, GoTo, At, Call
<1>1. Awaited'
  BY DEF Awaited, WaitLabel, Return, ReturnLate, CompensationEnds
<1>2. Unread'
  <2>1. CASE Return
    <3>1. rpc \in Call /\ reply' = [reply EXCEPT ![rpc.caller] = rpc.result]
          /\ UNCHANGED <<pc, late>>
      BY <2>1 DEF Return
    <3>2. pc[rpc.caller] \in WaitLabels /\ rpc.caller \notin late
      BY <2>1, <3>1, Labelling DEF Return, Awaited
    <3>3. QED
      BY <3>1, <3>2 DEF Unread
  <2>2. CASE ReturnLate \/ CompensationEnds
    BY <2>2 DEF Unread, ReturnLate, CompensationEnds
  <2>3. QED
    BY <2>1, <2>2
<1>3. Abandoned'
  BY DEF Abandoned, Return, ReturnLate, CompensationEnds
<1>4. Disabling'
  BY DEF Disabling, WaitLabel, Awaited, Unread, Holding, ArmLabels, DisarmLabels,
         Return, ReturnLate, CompensationEnds
<1>5. Holding' /\ Lingering' /\ Cared' /\ Alternating'
  BY DEF Holding, Lingering, Cared, Alternating, Open, Return, ReturnLate,
         CompensationEnds
<1> QED
  BY <1>1, <1>2, <1>3, <1>4, <1>5

\* The adapter calls the interlock.
LEMMA AdapterEnables ==
    ASSUME TypeOK, EnableInv, Adapter
    PROVE  EnableInv'
<1> USE DEF EnableInv, TypeOK, PcType, Threads, Callers, GoTo, At, Call
<1>1. Holding'
  BY DEF Holding, ArmLabels, DisarmLabels, Adapter, CallArm, CallEnd, CallDisarm,
         CallStop, CallReset, OperatorLatches
<1>2. Awaited'
  BY DEF Awaited, WaitLabel, Adapter, CallArm, CallEnd, CallDisarm, CallStop, CallReset,
         OperatorLatches
<1>3. Unread'
  BY DEF Unread, WaitLabels, Adapter, CallArm, CallEnd, CallDisarm, CallStop, CallReset,
         OperatorLatches
<1>4. Lingering'
  BY DEF Lingering, WaitLabels, Adapter, CallArm, CallEnd, CallDisarm, CallStop,
         CallReset, OperatorLatches
<1>5. Abandoned'
  BY DEF Abandoned, Adapter, CallArm, CallEnd, CallDisarm, CallStop, CallReset,
         OperatorLatches, Latch
<1>6. Disabling'
  BY DEF Disabling, Adapter, CallArm, CallEnd, CallDisarm, CallStop, CallReset,
         OperatorLatches
<1>7. Cared'
  BY DEF Cared, Open, Attempting, Adapter, CallArm, CallEnd, CallDisarm, CallStop,
         CallReset, OperatorLatches, Latch
<1>8. Alternating'
  BY DEF Alternating, Adapter, CallArm, CallEnd, CallDisarm, CallStop, CallReset,
         OperatorLatches
<1> QED
  BY <1>1, <1>2, <1>3, <1>4, <1>5, <1>6, <1>7, <1>8

\* A reset ends.
LEMMA ResetEnables ==
    ASSUME TypeOK, ResetInv, EnableInv, ResetSteps
    PROVE  EnableInv'
<1> USE DEF EnableInv, TypeOK, PcType, Threads, Callers, GoTo, At, Call
<1>1. Holding'
  BY DEF Holding, ArmLabels, DisarmLabels, ResetSteps, Cleared, NotCleared, ResetEnds,
         ResetInv
<1>2. Awaited'
  BY DEF Awaited, WaitLabel, ResetSteps, Cleared, NotCleared, ResetEnds, ResetInv
<1>3. Unread'
  BY DEF Unread, WaitLabels, ResetSteps, Cleared, NotCleared, ResetEnds, ResetInv
<1>4. Lingering'
  BY DEF Lingering, WaitLabels, ResetSteps, Cleared, NotCleared, ResetEnds, ResetInv
<1>5. Abandoned'
  BY DEF Abandoned, ResetSteps, Cleared, NotCleared, ResetEnds, ResetInv
<1>6. Disabling'
  BY DEF Disabling, ResetSteps, Cleared, NotCleared, ResetEnds, ResetInv, ControlMatches
<1>7. Cared'
  BY DEF Cared, Open, Attempting, ResetSteps, Cleared, NotCleared, ResetEnds, ResetInv,
         ControlMatches
<1>8. Alternating'
  BY DEF Alternating, ResetSteps, Cleared, NotCleared, ResetEnds, ResetInv
<1> QED
  BY <1>1, <1>2, <1>3, <1>4, <1>5, <1>6, <1>7, <1>8

\* The robot and its messages.
LEMMA RobotEnables ==
    ASSUME TypeOK, EnableInv, RobotSteps
    PROVE  EnableInv'
<1> USE DEF EnableInv, TypeOK, PcType, Threads, Callers, GoTo, At, Call
<1>1. Disabling'
  BY RobotKeepsCalls DEF Disabling
<1>2. Cared'
  BY DEF Cared, Open, Attempting, RobotSteps, DisablesItself, SetEnabled, Repeats,
         ControlCallback, Stale
<1>3. Holding' /\ Awaited' /\ Unread' /\ Lingering' /\ Abandoned' /\ Alternating'
  <2>1. UNCHANGED <<rpc, reply, late, pc, latched, driving, stopEvent, transition>>
    BY RobotKeepsCalls
  <2>2. Holding'
    BY <2>1 DEF Holding
  <2>3. Awaited'
    BY <2>1 DEF Awaited
  <2>4. Unread'
    BY <2>1 DEF Unread
  <2>5. Lingering'
    BY <2>1 DEF Lingering
  <2>6. Abandoned'
    BY <2>1 DEF Abandoned
  <2>7. Alternating'
    BY <2>1 DEF Alternating
  <2> QED
    BY <2>2, <2>3, <2>4, <2>5, <2>6, <2>7
<1> QED
  BY <1>1, <1>2, <1>3

\* The process starts again.
LEMMA RestartEnables ==
    ASSUME TypeOK, EnableInv, Restart
    PROVE  EnableInv'
<1> USE DEF EnableInv, TypeOK, PcType, Threads, Callers, GoTo, At, Call
<1>1. Holding'
  BY DEF Holding, ArmLabels, DisarmLabels, Restart
<1>2. Awaited'
  BY DEF Awaited, WaitLabel, Restart
<1>3. Unread'
  BY DEF Unread, WaitLabels, Restart
<1>4. Lingering'
  BY DEF Lingering, WaitLabels, Restart
<1>5. Abandoned'
  BY DEF Abandoned, Restart
<1>6. Disabling'
  BY DEF Disabling, Restart
<1>7. Cared'
  BY DEF Cared, Open, Attempting, Restart
<1>8. Alternating'
  BY DEF Alternating, Restart
<1> QED
  BY <1>1, <1>2, <1>3, <1>4, <1>5, <1>6, <1>7, <1>8


\* The process may have been started on an enabled robot.
LEMMA EnableInit == Init => EnableInv
BY SafetyConstants DEF Init, EnableInv, Holding, Awaited, Unread, Lingering, Abandoned,
                       Disabling, Cared, Open, Alternating, Callers,
                       Threads, ArmLabels, DisarmLabels

\* No step forgets an enabled robot.
LEMMA EnableStep == TypeOK /\ ResetInv /\ EnableInv /\ [Next]_vars => EnableInv'
<1> SUFFICES ASSUME TypeOK, ResetInv, EnableInv, [Next]_vars PROVE EnableInv'
  OBVIOUS
<1> USE DEF Callers
<1>1. ASSUME NEW t \in Callers, CallSteps(t)
      PROVE  EnableInv'
  BY <1>1, BeginCallEnables, CallBusyEnables, TimesOutEnables, LatchLateEnables,
     CallFailsEnables, CallSucceedsEnables DEF CallSteps
<1>2. CASE \E t \in Callers : ThreadSteps(t)
  BY <1>1, <1>2, DisarmEnables, ArmEnables, EndEnables DEF ThreadSteps
<1>3. CASE WorkerSteps
  BY <1>3, ServeEnables, CompensateEnables, ReturnEnables DEF WorkerSteps
<1>4. CASE UNCHANGED vars
  BY <1>4 DEF vars, EnableInv, Holding, Awaited, Unread, Lingering, Abandoned,
              Disabling, Cared, Open, Alternating
<1>5. QED
  BY <1>2, <1>3, <1>4, ResetEnables, AdapterEnables, RobotEnables, RestartEnables
     DEF Next

\* However many messages are under way, an enabled robot is always driven, or
\* under the care of the thread that will drive or disable it, or stopped for
\* good, or it was left behind by a process that died, or by a disarm or a reset
\* that took a message sent before the enabling for the last word.
THEOREM EnableCared == Spec => []EnableInv
<1>1. QED
  BY EnableInit, EnableStep, TypeCorrect, ResetSafe, PTL DEF Spec

\* Whichever call fails, times out or is answered late, nobody forgets a robot
\* that was enabled, except on the word of a message that was overtaken.
THEOREM NothingForgotten == Spec => []NoForgottenEnable
<1>1. EnableInv => NoForgottenEnable
  BY DEF EnableInv, Cared, Open, Attempting, NoForgottenEnable, Quiet, Threads
<1>2. QED
  BY <1>1, EnableCared, PTL

=============================================================================
