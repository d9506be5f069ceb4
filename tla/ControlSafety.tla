---------------------------- MODULE ControlSafety ----------------------------
(***************************************************************************)
(* The control interlock of the navigation adapter:                        *)
(* NavigationControlSafety (control_safety.py), with the robot controller  *)
(* it enables and disables through ROS services.                           *)
(*                                                                         *)
(* Three threads of the adapter call it: "arm" runs arm() for an           *)
(* execution, "end" runs disarm() or stop() under the adapter's terminal   *)
(* lock, "reset" runs clear_latch() for an operator.  Each service call    *)
(* has a worker thread of its own, which outlives a caller that times out. *)
(* One action is the code between two points at which another thread can   *)
(* interfere: taking a lock, calling a service, waiting for a message.     *)
(*                                                                         *)
(* Abstracted: localization health may fail at any check; a control state  *)
(* is fresh until it silently becomes stale; the revision and the time of  *)
(* the last control message are remembered as "one has come since".        *)
(***************************************************************************)
EXTENDS Naturals, Sequences

CONSTANTS
    ClearsCostmaps,     \* clear_costmaps_service is configured
    HasStopService,     \* control_stop_service is configured
    Failures,           \* how a service may fail: "refused", "error"
    MaxReports,         \* bound: control messages under way
    None

Threads == {"arm", "end", "reset"}
Services == {"reset", "clear", "enable", "disable", "stop"}
Results == {"ok"} \union Failures

\* A service call in progress, which holds rpc_lock.
Call == [caller: {"arm", "end"}, service: Services, abandoned: BOOLEAN,
         state: {"calling", "returned", "compensate", "confirming"},
         result: Results]

ArmLabels == {"start", "reset", "resetting", "clear", "clearing", "settle", "check",
              "enable", "enabling", "beat", "confirm", "armed"}
DisarmLabels == {"withdraw", "disable", "disabling", "confirmOff", "latch"}
EndLabels == {"lock", "lockOrConfirmed", "stop", "stopping", "stopLatch"}
Labels == {"idle", "clearLatch"} \union ArmLabels \union DisarmLabels \union EndLabels

ASSUME SafetyConstants ==
    /\ ClearsCostmaps \in BOOLEAN /\ HasStopService \in BOOLEAN
    /\ Failures \subseteq {"refused", "error"}
    /\ MaxReports \in Nat \ {0}
    /\ None \notin Call /\ None \notin Results /\ None \notin Threads

VARIABLES
    latched,     \* the emergency stop is latched in memory
    marker,      \* disk: the emergency-stop state file exists
    heartbeat,   \* heartbeat_enabled
    stopEvent,   \* the adapter's stop_event
    control,     \* the last control state received: [value, fresh]
    since,       \* one has come since the transition under way began to wait for it
    transition,  \* the thread that holds transition_lock, or None
    rpc,         \* the call that holds rpc_lock, or None
    reply,       \* the result a caller has not read yet
    late,        \* callers that timed out and have not latched yet
    pc,          \* where each thread is
    driving,     \* an armed execution that nobody has begun to end
    emergency,   \* an operator's emergency stop that has latched and not disarmed yet
    enabled,     \* the robot accepts motion
    reports,     \* control messages under way
    orphan,      \* history: the robot is enabled for a process that died
    misled       \* history: it is enabled after a message said it was not

\* Groups of variables, for what an action leaves alone.
flags == <<latched, heartbeat, stopEvent>>
messages == <<control, since>>
calls == <<rpc, reply, late>>
duties == <<driving, emergency>>
memory == <<flags, messages, transition, calls, pc, duties>>
robot == <<enabled, reports, orphan, misled>>
vars == <<memory, marker, robot>>

PcType ==
    /\ pc \in [Threads -> Labels]
    /\ pc["arm"] \notin EndLabels /\ pc["end"] \notin ArmLabels
    /\ pc["reset"] \in {"idle", "clearLatch"}

TypeOK ==
    /\ latched \in BOOLEAN /\ marker \in BOOLEAN /\ heartbeat \in BOOLEAN
    /\ stopEvent \in BOOLEAN /\ driving \in BOOLEAN /\ emergency \in BOOLEAN
    /\ control \in [value: BOOLEAN, fresh: BOOLEAN]
    /\ since \in BOOLEAN
    /\ transition \in Threads \union {None}
    /\ rpc \in Call \union {None}
    /\ reply \in [Threads -> Results \union {None}]
    /\ late \subseteq Threads
    /\ PcType
    /\ enabled \in BOOLEAN /\ orphan \in BOOLEAN /\ misled \in BOOLEAN
    /\ reports \in Seq(BOOLEAN)

Init ==
    /\ latched = FALSE /\ marker = FALSE
    /\ heartbeat = FALSE /\ stopEvent = FALSE /\ driving = FALSE /\ emergency = FALSE
    /\ control = [value |-> FALSE, fresh |-> FALSE]
    /\ since = FALSE
    /\ transition = None /\ rpc = None /\ late = {}
    /\ reply = [t \in Threads |-> None]
    /\ pc = [t \in Threads |-> "idle"]
    /\ enabled = FALSE /\ orphan = FALSE /\ misled = FALSE /\ reports = <<>>

-----------------------------------------------------------------------------

\* Mutant of ControlMatches: any fresh control state will do.
ControlMatchesAny(expected) == control.fresh

\* _control_matches(expected)
ControlMatches(expected) == control.fresh /\ control.value = expected

\* _cancel_check
NotCancelled == ~latched /\ ~stopEvent

\* Thread t is between two steps of its own.
At(t, label) == pc[t] = label /\ t \notin late

GoTo(t, label) == pc' = [pc EXCEPT ![t] = label]

\* A step that only moves the thread.
Moves(t, from, to) ==
    /\ At(t, from) /\ GoTo(t, to)
    /\ UNCHANGED <<flags, messages, transition, calls, duties, marker, robot>>

\* Mutant of Latch: the heartbeat is left to the next disarm.
LatchKeepsHeartbeat(saved) ==
    /\ latched' = TRUE /\ stopEvent' = TRUE
    /\ marker' = (marker \/ saved)
    /\ UNCHANGED heartbeat

\* latch: remembered even if the state file cannot be written.
Latch(saved) ==
    /\ latched' = TRUE /\ heartbeat' = FALSE /\ stopEvent' = TRUE
    /\ marker' = (marker \/ saved)

\* The robot's state changes, and it says so.
SetEnabled(value) ==
    /\ enabled' = value
    /\ orphan' = (orphan /\ value)
    /\ misled' = (misled /\ value)
    /\ IF value = enabled THEN reports' = reports
       ELSE /\ Len(reports) < MaxReports
            /\ reports' = Append(reports, value)

-----------------------------------------------------------------------------
(* Service calls (_rpc).  A caller is at a call label, waits at the next    *)
(* one and fails to the one given by OnFailure.                             *)

ServiceAt(label) ==
    CASE label = "reset" -> "reset"   [] label = "clear" -> "clear"
      [] label = "enable" -> "enable" [] label = "disable" -> "disable"
      [] OTHER -> "stop"

CallLabels == {"reset", "clear", "enable", "disable", "stop"}

WaitLabel(label) ==
    CASE label = "reset" -> "resetting"   [] label = "clear" -> "clearing"
      [] label = "enable" -> "enabling" [] label = "disable" -> "disabling"
      [] OTHER -> "stopping"

WaitLabels == {"resetting", "clearing", "enabling", "disabling", "stopping"}

\* Mutant of OnFailure: enabling counts as attempted once the call has succeeded.
OnFailureOfCall(label) ==
    CASE label \in {"disable", "disabling"} -> "latch"
      [] label \in {"stop", "stopping"} -> "stopLatch"
      [] OTHER -> "idle"

\* The except and finally clauses of arm, _disarm_locked and stop.
OnFailure(label) ==
    CASE label \in {"enable", "enabling"} -> "withdraw"
      [] label \in {"disable", "disabling"} -> "latch"
      [] label \in {"stop", "stopping"} -> "stopLatch"
      [] OTHER -> "idle"

\* A call fails: the thread goes on where its handler does; an arm() that has
\* not tried to enable releases transition_lock.
Fails(t) ==
    /\ GoTo(t, OnFailure(pc[t]))
    /\ transition' = IF OnFailure(pc[t]) = "idle" THEN None ELSE transition

BeginCall(t) ==
    /\ t \notin late /\ pc[t] \in CallLabels
    /\ rpc = None
    /\ rpc' = [caller |-> t, service |-> ServiceAt(pc[t]), abandoned |-> FALSE,
               state |-> "calling", result |-> "ok"]
    /\ GoTo(t, WaitLabel(pc[t]))
    /\ UNCHANGED <<flags, messages, transition, reply, late, duties, marker, robot>>

\* "previous control service call is still pending"
CallBusy(t) ==
    /\ t \notin late /\ pc[t] \in CallLabels
    /\ rpc # None
    /\ Fails(t)
    /\ UNCHANGED <<flags, messages, calls, duties, marker, robot>>

\* The service runs; an error may hide an effect.
Effect(service, result) ==
    IF result = "refused" \/ service \in {"reset", "clear"} THEN {enabled}
    ELSE {service = "enable"} \union (IF result = "error" THEN {enabled} ELSE {})

Serve(result) ==
    /\ rpc # None /\ rpc.state = "calling"
    /\ rpc.service = "clear" => result # "refused"     \* std_srvs/Empty
    /\ \E value \in Effect(rpc.service, result) : SetEnabled(value)
    /\ rpc' = [rpc EXCEPT !.state = "returned", !.result = result]
    /\ UNCHANGED <<flags, messages, transition, reply, late, pc, duties, marker>>

\* The worker hands the result over and releases rpc_lock.
Return ==
    /\ rpc # None /\ rpc.state = "returned" /\ ~rpc.abandoned
    /\ reply' = [reply EXCEPT ![rpc.caller] = rpc.result]
    /\ rpc' = None
    /\ UNCHANGED <<flags, messages, transition, late, pc, duties, marker, robot>>

\* Mutant of ReturnLate: nobody is waiting, so the call is over.
ReturnLateForgets ==
    /\ rpc # None /\ rpc.state = "returned" /\ rpc.abandoned
    /\ rpc' = None
    /\ UNCHANGED <<flags, messages, transition, reply, late, pc, duties, marker, robot>>

\* Nobody waits for the result any more: a late enable is compensated first.
ReturnLate ==
    /\ rpc # None /\ rpc.state = "returned" /\ rpc.abandoned
    /\ rpc' = IF rpc.service = "enable" THEN [rpc EXCEPT !.state = "compensate"] ELSE None
    /\ UNCHANGED <<flags, messages, transition, reply, late, pc, duties, marker, robot>>

Compensate(result) ==
    /\ rpc # None /\ rpc.state = "compensate"
    /\ \E value \in Effect("disable", result) : SetEnabled(value)
    /\ rpc' = IF result = "ok" THEN [rpc EXCEPT !.state = "confirming"] ELSE None
    /\ UNCHANGED <<flags, messages, transition, reply, late, pc, duties, marker>>

\* The compensation is confirmed, or its wait times out and is logged.
CompensationEnds ==
    /\ rpc # None /\ rpc.state = "confirming"
    /\ rpc' = None
    /\ UNCHANGED <<flags, messages, transition, reply, late, pc, duties, marker, robot>>

\* done.wait times out before the worker has set done: the call is abandoned.
CallTimesOut(t) ==
    /\ t \notin late /\ pc[t] \in WaitLabels
    /\ rpc # None /\ rpc.caller = t /\ ~rpc.abandoned
    /\ rpc' = [rpc EXCEPT !.abandoned = TRUE]
    /\ late' = late \union {t}
    /\ UNCHANGED <<flags, messages, transition, reply, pc, duties, marker, robot>>

\* The latch("control service timeout") that follows, and the exception.
LatchLate(t, saved) ==
    /\ t \in late
    /\ late' = late \ {t}
    /\ Latch(saved)
    /\ Fails(t)
    /\ UNCHANGED <<messages, rpc, reply, duties, robot>>

\* The caller reads an error or a refusal.
CallFails(t) ==
    /\ t \notin late /\ pc[t] \in WaitLabels
    /\ reply[t] \in Failures
    /\ reply' = [reply EXCEPT ![t] = None]
    /\ Fails(t)
    /\ UNCHANGED <<flags, messages, rpc, late, duties, marker, robot>>

\* Mutant of AfterCall: a disarm waits as an arming would, and gives up when cancelled.
AfterCallArming(label) ==
    CASE label = "resetting" -> IF ClearsCostmaps THEN "clear" ELSE "check"
      [] label = "clearing"  -> "settle"
      [] label = "enabling"  -> "beat"
      [] label = "disabling" -> "confirm"
      [] OTHER               -> "stopLatch"

\* The caller reads a success and goes on.
AfterCall(label) ==
    CASE label = "resetting" -> IF ClearsCostmaps THEN "clear" ELSE "check"
      [] label = "clearing"  -> "settle"
      [] label = "enabling"  -> "beat"
      [] label = "disabling" -> "confirmOff"
      [] OTHER               -> "stopLatch"

CallSucceeds(t) ==
    /\ t \notin late /\ pc[t] \in WaitLabels
    /\ reply[t] = "ok"
    /\ reply' = [reply EXCEPT ![t] = None]
    /\ GoTo(t, AfterCall(pc[t]))
    /\ UNCHANGED <<flags, messages, transition, rpc, late, duties, marker, robot>>

-----------------------------------------------------------------------------
(* arm                                                                     *)

\* The adapter schedules an execution; its thread will call arm().
CallArm ==
    /\ \A t \in Threads : pc[t] = "idle"
    /\ ~latched /\ ~driving
    /\ stopEvent' = FALSE
    /\ GoTo("arm", "start")
    /\ UNCHANGED <<latched, heartbeat, messages, transition, calls, duties, marker, robot>>

\* transition_lock, then the checks before the navigation reset.
ArmStarts ==
    /\ At("arm", "start")
    /\ transition = None
    /\ NotCancelled /\ ControlMatches(FALSE)
    /\ transition' = "arm"
    /\ GoTo("arm", "reset")
    /\ UNCHANGED <<flags, messages, calls, duties, marker, robot>>

\* The lock is not free in time or a check fails.
ArmRefused == Moves("arm", "start", "idle")

\* The costmaps have settled and control is still disabled.
Settled == NotCancelled /\ ControlMatches(FALSE) /\ Moves("arm", "settle", "check")

\* The last check before enabling; from here on enabling has been attempted.
Checked ==
    /\ At("arm", "check")
    /\ NotCancelled
    /\ since' = FALSE
    /\ GoTo("arm", "enable")
    /\ UNCHANGED <<flags, control, transition, calls, duties, marker, robot>>

CheckFails ==
    /\ At("arm", "settle") \/ At("arm", "check")
    /\ Fails("arm")
    /\ UNCHANGED <<flags, messages, calls, duties, marker, robot>>

Beat ==
    /\ At("arm", "beat")
    /\ heartbeat' = TRUE
    /\ GoTo("arm", "confirm")
    /\ UNCHANGED <<latched, stopEvent, messages, transition, calls, duties, marker, robot>>

\* _wait_control(True, arming=True) and the final _cancel_check.
Confirmed ==
    /\ At("arm", "confirm")
    /\ NotCancelled /\ ControlMatches(TRUE) /\ since
    /\ transition' = None
    /\ GoTo("arm", "armed")
    /\ UNCHANGED <<flags, messages, calls, duties, marker, robot>>

\* Cancelled, not localized any more, or no confirmation in time.
NotConfirmed == Moves("arm", "confirm", "withdraw")

\* The adapter's run thread looks at stop_event once more before it drives.
Drive ==
    /\ At("arm", "armed")
    /\ driving' = ~stopEvent
    /\ misled' = (misled /\ stopEvent)     \* the execution takes the robot over
    /\ GoTo("arm", "idle")
    /\ UNCHANGED <<flags, messages, transition, calls, emergency, marker,
                   enabled, reports, orphan>>

-----------------------------------------------------------------------------
(* _disarm_locked, for arm() that failed and for disarm()                   *)

Withdraw(t) ==
    /\ At(t, "withdraw")
    /\ heartbeat' = FALSE
    /\ since' = FALSE
    /\ GoTo(t, "disable")
    /\ UNCHANGED <<latched, stopEvent, control, transition, calls, duties, marker, robot>>

ConfirmedOff(t) ==
    /\ At(t, "confirmOff")
    /\ ControlMatches(FALSE) /\ since
    /\ transition' = None
    /\ GoTo(t, "idle")
    /\ UNCHANGED <<flags, messages, calls, duties, marker, robot>>

NotConfirmedOff(t) == Moves(t, "confirmOff", "latch")

\* latch("control disable failed"), then transition_lock is released.
LatchFailure(t, saved) ==
    /\ At(t, "latch")
    /\ Latch(saved)
    /\ transition' = None
    /\ GoTo(t, "idle")
    /\ UNCHANGED <<messages, calls, duties, robot>>

-----------------------------------------------------------------------------
(* disarm, stop and latch as the adapter's terminal operations call them    *)

CallDisarm(label) ==
    /\ pc["end"] = "idle" /\ pc["reset"] = "idle"
    /\ stopEvent' = TRUE /\ driving' = FALSE /\ emergency' = FALSE
    /\ GoTo("end", label)
    /\ UNCHANGED <<latched, heartbeat, messages, transition, calls, marker, robot>>

DisarmLocks ==
    /\ At("end", "lock") \/ At("end", "lockOrConfirmed")
    /\ transition = None
    /\ pc["end"] = "lockOrConfirmed" => rpc # None \/ ~ControlMatches(FALSE)
    /\ transition' = "end"
    /\ GoTo("end", "withdraw")
    /\ UNCHANGED <<flags, messages, calls, duties, marker, robot>>

\* disarm(allow_confirmed_disabled=True): a fresh disabled state is enough.
AlreadyDisabled ==
    /\ At("end", "lockOrConfirmed")
    /\ transition = None /\ rpc = None /\ ControlMatches(FALSE)
    /\ misled' = enabled
    /\ GoTo("end", "idle")
    /\ UNCHANGED <<flags, messages, transition, calls, duties, marker,
                   enabled, reports, orphan>>

\* latch("control transition did not finish before disarm")
DisarmTimesOut(saved) ==
    /\ At("end", "lock") \/ At("end", "lockOrConfirmed")
    /\ transition # None
    /\ Latch(saved)
    /\ GoTo("end", "idle")
    /\ UNCHANGED <<messages, transition, calls, duties, robot>>

\* stop(), which takes no transition_lock.
CallStop ==
    /\ HasStopService
    /\ pc["end"] = "idle" /\ pc["reset"] = "idle"
    /\ stopEvent' = TRUE /\ driving' = FALSE /\ emergency' = FALSE
    /\ heartbeat' = FALSE
    /\ GoTo("end", "stop")
    /\ UNCHANGED <<latched, messages, transition, calls, marker, robot>>

StopLatches(saved) ==
    /\ At("end", "stopLatch")
    /\ Latch(saved)
    /\ GoTo("end", "idle")
    /\ UNCHANGED <<messages, transition, calls, duties, robot>>

\* The adapter's _emergency_stop latches before it waits for any lock of a
\* terminal operation.  Its "stopping" flag keeps a reset out, unless another
\* terminal operation that ends clears the flag in between.
OperatorLatches(saved) ==
    /\ Latch(saved)
    /\ emergency' = TRUE
    /\ UNCHANGED <<messages, transition, calls, pc, driving, robot>>

-----------------------------------------------------------------------------
(* clear_latch, under the adapter's lock and only without an execution.     *)

CallReset ==
    /\ \A t \in Threads : pc[t] = "idle"
    /\ ~driving
    /\ transition = None /\ rpc = None
    /\ transition' = "reset"
    /\ GoTo("reset", "clearLatch")
    /\ UNCHANGED <<flags, messages, calls, duties, marker, robot>>

ResetEnds ==
    /\ transition' = None
    /\ GoTo("reset", "idle")
    /\ UNCHANGED <<heartbeat, stopEvent, messages, calls, duties, enabled, reports, orphan>>

Cleared ==
    /\ At("reset", "clearLatch")
    /\ ControlMatches(FALSE)
    /\ marker' = FALSE /\ latched' = FALSE
    /\ misled' = enabled
    /\ ResetEnds

\* Mutant of NotCleared: the latch is lifted before the state file is removed.
NotClearedUnlatches ==
    /\ At("reset", "clearLatch")
    /\ UNCHANGED <<marker, misled>>
    /\ latched' = (latched /\ ~ControlMatches(FALSE))
    /\ ResetEnds

\* The control reset or the check fails, or the state file cannot be removed;
\* it may be gone when only the directory's sync failed.
NotCleared ==
    /\ At("reset", "clearLatch")
    /\ marker' \in {marker} \union (IF ControlMatches(FALSE) THEN {FALSE} ELSE {})
    /\ ResetEnds
    /\ UNCHANGED <<latched, misled>>

-----------------------------------------------------------------------------
(* The robot, its messages, and the death of the process.                   *)

\* A remote control or the robot's own protection takes the control away.
DisablesItself ==
    /\ enabled
    /\ SetEnabled(FALSE)
    /\ UNCHANGED <<memory, marker>>

\* The periodic or latched report of an unchanged state.
Repeats ==
    /\ reports = <<>>
    /\ reports' = <<enabled>>
    /\ UNCHANGED <<memory, marker, enabled, orphan, misled>>

\* control_callback
ControlCallback ==
    /\ reports # <<>>
    /\ control' = [value |-> Head(reports), fresh |-> TRUE]
    /\ since' = TRUE
    /\ reports' = Tail(reports)
    /\ UNCHANGED <<flags, transition, calls, pc, duties, marker, enabled, orphan, misled>>

Stale ==
    /\ control.fresh
    /\ control' = [control EXCEPT !.fresh = FALSE]
    /\ UNCHANGED <<flags, since, transition, calls, pc, duties, marker, robot>>

\* The process dies and is started again: the latch is read from the disk.  A
\* call under way may still reach the robot.
Restart ==
    /\ latched' = marker
    /\ heartbeat' = FALSE /\ stopEvent' = FALSE /\ driving' = FALSE /\ emergency' = FALSE
    /\ control' = [value |-> FALSE, fresh |-> FALSE]
    /\ since' = FALSE
    /\ transition' = None /\ rpc' = None /\ late' = {}
    /\ reply' = [t \in Threads |-> None]
    /\ pc' = [t \in Threads |-> "idle"]
    /\ enabled' \in {enabled} \union
         (IF rpc # None /\ rpc.state = "calling" THEN Effect(rpc.service, "ok") ELSE {})
    /\ orphan' = enabled' /\ misled' = FALSE
    /\ reports' = <<>>
    /\ UNCHANGED marker

-----------------------------------------------------------------------------

\* The steps of one thread.
ArmSteps ==
    \/ ArmStarts \/ ArmRefused \/ Settled \/ Checked \/ CheckFails
    \/ Beat \/ Confirmed \/ NotConfirmed \/ Drive

EndSteps ==
    \/ DisarmLocks \/ AlreadyDisabled
    \/ \E saved \in BOOLEAN : DisarmTimesOut(saved) \/ StopLatches(saved)

CallSteps(t) ==
    \/ BeginCall(t) \/ CallBusy(t) \/ CallTimesOut(t) \/ CallFails(t) \/ CallSucceeds(t)
    \/ \E saved \in BOOLEAN : LatchLate(t, saved)

DisarmSteps(t) ==
    \/ Withdraw(t) \/ ConfirmedOff(t) \/ NotConfirmedOff(t)
    \/ \E saved \in BOOLEAN : LatchFailure(t, saved)

ThreadSteps(t) ==
    \/ CallSteps(t)
    \/ DisarmSteps(t)
    \/ t = "arm" /\ ArmSteps
    \/ t = "end" /\ EndSteps

ResetSteps == Cleared \/ NotCleared

WorkerSteps ==
    \/ \E result \in Results : Serve(result) \/ Compensate(result)
    \/ Return \/ ReturnLate \/ CompensationEnds

CallEnd == \/ \E label \in {"lock", "lockOrConfirmed"} : CallDisarm(label)
           \/ CallStop

Adapter ==
    \/ CallArm \/ CallEnd \/ CallReset
    \/ \E saved \in BOOLEAN : OperatorLatches(saved)

RobotSteps == DisablesItself \/ Repeats \/ ControlCallback \/ Stale

Next ==
    \/ \E t \in {"arm", "end"} : ThreadSteps(t)
    \/ ResetSteps
    \/ WorkerSteps
    \/ Adapter
    \/ RobotSteps
    \/ Restart

Spec == Init /\ [][Next]_vars

\* No thread is in the interlock and no service call is under way.
Quiet == (\A t \in Threads : pc[t] = "idle") /\ late = {} /\ rpc = None

-----------------------------------------------------------------------------
(* What the interlock promises.                                            *)

\* The robot has said that it accepts motion, and the message is under way.
SaysEnabled == reports # <<>> /\ reports[Len(reports)]

\* Once the interlock is at rest, a robot that still accepts motion is being
\* driven by an execution, or the emergency stop is latched: whichever call
\* failed, timed out or was answered late (lines 216-226 and 306-309), nobody
\* forgets a robot that was enabled.  Only a process that died may, and a disarm
\* or a reset that took a message sent before the enabling for the last word.
NoForgottenEnable == enabled /\ Quiet => driving \/ latched \/ orphan \/ misled

\* A latched stop has silenced the heartbeat, except while the arm() it
\* interrupts is between enabling the heartbeat and withdrawing it: arm() sets
\* heartbeat_enabled (line 303) without looking at the latch.
LatchSilencesHeartbeat ==
    latched /\ heartbeat => pc["arm"] \in {"confirm", "withdraw"}

\* While the state file exists the stop is latched, also after a restart and
\* after a reset of which one step failed: clear_latch() lifts the latch last.
SavedStopStaysLatched == marker => latched

\* The latch in memory is lifted only when the robot does not accept motion, or
\* its message that it does is still on the way: clear_latch() looks at the last
\* message, and no other call, however late, enables a robot behind its back.
ResetOnlyWhenDisabled ==
    [][latched /\ ~latched' /\ Cleared => ~enabled \/ SaysEnabled]_vars

\* The test test_optional_heartbeat_runs_only_while_control_is_armed: the
\* heartbeat runs only while an execution is armed or being armed or disarmed.
HeartbeatOnlyWhileArmed ==
    heartbeat => driving \/ \E t \in {"arm", "end"} : pc[t] # "idle"

-----------------------------------------------------------------------------
(* Fairness.  A thread of the adapter and a worker keep running, and the    *)
(* robot's services answer (strongly: a service waits at most for messages  *)
(* that are being delivered).  Messages arrive.  While a stop is latched    *)
(* the execution is ended: _emergency_stop goes on to _finish, and the run  *)
(* thread's assert_running() fails.                                         *)

EndDriving == latched /\ (driving \/ emergency) /\ CallDisarm("lock")

FairSpec ==
    /\ Spec
    /\ \A t \in {"arm", "end"} : WF_vars(ThreadSteps(t))
    /\ WF_vars(ResetSteps)
    /\ SF_vars(WorkerSteps)
    /\ WF_vars(ControlCallback)
    /\ SF_vars(EndDriving)

\* When no service refuses or raises, a latched stop always ends with a robot
\* that accepts no motion, although any call may time out and be answered
\* late; the robot is left to a successor only when the process dies, and on only
\* where a message sent before it was enabled is taken for the last word.
LatchedIsEventuallyDisabled == latched ~> ~enabled \/ orphan \/ misled

=============================================================================
