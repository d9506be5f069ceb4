--------------------------- MODULE WheeltecAuthority ---------------------------
(***************************************************************************)
(* WheeltecControlAuthority: who drives a Wheeltec vehicle.  The services  *)
(* ~enable, ~stop and ~reset exclude one another (transition_lock, taken   *)
(* without waiting: a second request is refused), and each of them calls   *)
(* the safety gate and the driver one after the other.  The state is       *)
(* published by the timer, by the driver's callback and at the end of a    *)
(* service, each of which computes the value first and publishes it later. *)
(*                                                                         *)
(* The gate and the driver are external: a call takes effect and is        *)
(* answered, fails, or takes effect and its answer is lost.  The driver is *)
(* the one the patch of the R550+ profile makes, or, with                  *)
(* driver_auto_acquire, the V6 driver, of which only what the coordinator  *)
(* says of it is known.                                                    *)
(***************************************************************************)
EXTENDS Naturals

Threads == {"timer", "driver", "service"}

VARIABLES
    gated,          \* config: safety_gate_enabled
    auto,           \* config: driver_auto_acquire
    desired,        \* desired_enabled
    heard,          \* driver_enabled, as last heard
    fresh,          \* the driver's odometry is recent
    localized,      \* what _localized() finds
    transition,     \* the call the service under way makes next, or "none"
    publishing,     \* what each thread is about to publish, or "none"
    published,      \* the last value on enabled_topic
    driver,         \* the authority of the driver
    armed,          \* the safety gate passes the commands
    unstopped       \* history: the last stop of the driver failed

config == <<gated, auto>>
inputs == <<heard, fresh, localized>>
device == <<driver, armed, unstopped>>
vars == <<config, desired, inputs, transition, publishing, published, device>>

Steps == {"none", "resetGate", "claim", "enableDriver", "arm", "releaseGate",
          "releaseDriver", "stopGate", "stopDriver", "resetDriver", "regate",
          "disown", "publish"}

TypeOK ==
    /\ {gated, auto, desired, heard, fresh, localized, published, armed, unstopped} \subseteq BOOLEAN
    /\ transition \in Steps
    /\ publishing \in [Threads -> {"none", "enabled", "disabled"}]
    /\ driver \in {"manual", "enabled", "stopped"}

Init ==
    /\ gated \in BOOLEAN /\ auto \in BOOLEAN
    /\ desired = FALSE /\ heard = FALSE /\ fresh = FALSE /\ localized = FALSE
    /\ transition = "none" /\ publishing = [t \in Threads |-> "none"] /\ published = FALSE
    /\ driver = "manual" /\ armed = FALSE /\ unstopped = FALSE

-----------------------------------------------------------------------------
(* Requests: a service starts with the first call it makes.                *)

\* What an exception in _enable_callback leads to.
\* Mutant: it forgets the task's wish and stops nothing.
FallbackForgets == "disown"

Fallback == IF gated THEN "stopGate" ELSE "stopDriver"

Begins(step) ==
    /\ transition = "none" /\ transition' = step
    /\ UNCHANGED <<config, desired, inputs, publishing, published, device>>

Enable == localized /\ Begins(IF gated THEN "resetGate" ELSE "claim")
Release == Begins(IF gated THEN "releaseGate" ELSE "releaseDriver")
Stop == Begins(IF gated THEN "stopGate" ELSE "stopDriver")
Reset == Begins("resetDriver")

-----------------------------------------------------------------------------
(* The calls.  Gate(value) and Driver(value) leave the device as the call  *)
(* makes it, or as it was.                                                 *)
Gate(value) == armed' \in {armed, value} /\ UNCHANGED <<driver, unstopped>>
GateDone(value) == armed' = value /\ UNCHANGED <<driver, unstopped>>
Driver(value) == driver' \in {driver, value} /\ UNCHANGED armed
DriverDone(value) == driver' = value /\ UNCHANGED armed

Calls(from, to) ==
    /\ transition = from /\ transition' = to
    /\ UNCHANGED <<config, inputs, publishing, published>>

ResetGate ==
    /\ UNCHANGED desired
    /\ \/ Calls("resetGate", "claim") /\ GateDone(FALSE)
       \/ Calls("resetGate", Fallback) /\ Gate(FALSE)

Claim == Calls("claim", "enableDriver") /\ desired' = TRUE /\ UNCHANGED device

\* A driver that is stopped refuses.
EnableDriver ==
    /\ UNCHANGED <<desired, unstopped>>
    /\ \/ Calls("enableDriver", IF gated THEN "arm" ELSE "publish")
          /\ driver # "stopped" /\ DriverDone("enabled")
       \/ Calls("enableDriver", Fallback)
          /\ IF driver = "stopped" THEN DriverDone("stopped") ELSE Driver("enabled")

Arm ==
    /\ UNCHANGED desired
    /\ \/ Calls("arm", "publish") /\ GateDone(TRUE)
       \/ Calls("arm", Fallback) /\ Gate(TRUE)

\* A gate that cannot be stopped is a warning.
ReleaseGate == Calls("releaseGate", "releaseDriver") /\ Gate(FALSE) /\ UNCHANGED desired

\* set_autonomous(false) clears a latched stop of the driver as well.
ReleaseDriver ==
    /\ \/ Calls("releaseDriver", "disown") /\ DriverDone("manual") /\ unstopped' = FALSE
       \/ Calls("releaseDriver", Fallback) /\ Driver("manual") /\ UNCHANGED unstopped
    /\ UNCHANGED desired

\* The stops of a failed ~enable and of ~stop, which go on after a failure.
StopGate == Calls("stopGate", "stopDriver") /\ Gate(FALSE) /\ UNCHANGED desired

StopDriver ==
    /\ Calls("stopDriver", "disown") /\ UNCHANGED desired
    /\ \/ DriverDone("stopped") /\ unstopped' = FALSE
       \/ DriverDone(driver) /\ unstopped' = TRUE

ResetDriver ==
    /\ UNCHANGED desired
    /\ \/ Calls("resetDriver", IF gated THEN "regate" ELSE "disown")
          /\ DriverDone("manual") /\ unstopped' = FALSE
       \/ Calls("resetDriver", "none") /\ Driver("manual") /\ UNCHANGED unstopped

Regate == Calls("regate", "disown") /\ Gate(FALSE) /\ UNCHANGED desired

Disown == Calls("disown", "publish") /\ desired' = FALSE /\ UNCHANGED device

Service == ResetGate \/ Claim \/ EnableDriver \/ Arm \/ ReleaseGate \/ ReleaseDriver
           \/ StopGate \/ StopDriver \/ ResetDriver \/ Regate \/ Disown

-----------------------------------------------------------------------------
(* _publish_state                                                          *)

\* Mutant: what the vehicle could do, not what a task wants of it.
EnabledIfAvailable == IF auto THEN localized /\ fresh ELSE heard

Enabled == desired /\ (IF auto THEN localized /\ fresh ELSE heard)

Computes(t) ==
    /\ publishing[t] = "none"
    /\ publishing' = [publishing EXCEPT ![t] = IF Enabled THEN "enabled" ELSE "disabled"]

TimerFires ==
    /\ Computes("timer")
    /\ UNCHANGED <<config, desired, inputs, transition, published, device>>

\* _driver_enabled_callback, whose thread publishes afterwards.
DriverHeard ==
    /\ publishing["driver"] = "none" /\ heard' = (driver = "enabled")
    /\ UNCHANGED <<config, desired, fresh, localized, transition, publishing, published, device>>

DriverPublishes ==
    /\ Computes("driver")
    /\ UNCHANGED <<config, desired, inputs, transition, published, device>>

ServicePublishes ==
    /\ transition = "publish" /\ Computes("service")
    /\ UNCHANGED <<config, desired, inputs, transition, published, device>>

\* The service releases its lock once its value is out.
Announce(t) ==
    /\ publishing[t] # "none"
    /\ published' = (publishing[t] = "enabled")
    /\ publishing' = [publishing EXCEPT ![t] = "none"]
    /\ transition' = IF t = "service" THEN "none" ELSE transition
    /\ UNCHANGED <<config, desired, inputs, device>>

-----------------------------------------------------------------------------
(* Odometry, the localization's state file, and the driver on its own.     *)
OdomChanges ==
    /\ \/ fresh' = ~fresh /\ UNCHANGED localized
       \/ localized' = ~localized /\ UNCHANGED fresh
    /\ UNCHANGED <<config, desired, heard, transition, publishing, published, device>>

\* It latches a stop when the heartbeat of an autonomous task expires, and at any
\* time when another node commands it; the V6 driver returns an idle authority.
DriverChanges ==
    /\ \/ driver # "stopped" /\ driver' = "stopped"
       \/ auto /\ driver = "enabled" /\ driver' = "manual"
    /\ UNCHANGED <<config, desired, inputs, transition, publishing, published, armed, unstopped>>

-----------------------------------------------------------------------------
Next ==
    \/ Enable \/ Release \/ Stop \/ Reset \/ Service
    \/ TimerFires \/ DriverHeard \/ DriverPublishes \/ ServicePublishes
    \/ (\E t \in Threads : Announce(t)) \/ OdomChanges \/ DriverChanges

\* The timer keeps firing, and a thread that has computed a value publishes it.
Fairness == WF_vars(TimerFires) /\ \A t \in Threads : WF_vars(Announce(t))

Spec == Init /\ [][Next]_vars
FairSpec == Spec /\ Fairness

-----------------------------------------------------------------------------
\* Between two services the driver obeys the autonomy only for a task that has
\* asked for it: a service that fails half way, loses an answer, or fails in its
\* release leaves no vehicle under an authority nobody holds - unless the driver
\* itself could not be stopped.
HeldAuthorityIsOwned ==
    transition = "none" /\ driver = "enabled" /\ ~unstopped => desired

\* An authority that is given back for good is in the end, and from then on,
\* shown as given back, although a late thread may publish an older value.
ReleaseShown == <>[](~desired) => <>[](~published)
=============================================================================
