------------------------ MODULE MappingSessionProofs ------------------------
(***************************************************************************)
(* What is published of a mapping session is its own map, and, but for the *)
(* scout, whose stop script may forget its mapper, made when its stack has *)
(* stopped: for any number of session objects and any backends.            *)
(*                                                                         *)
(* The argument: the control thread works on the current session or on one *)
(* that has been dropped (ControlOwns), whose state only it changes        *)
(* (ControlFinds); so a session being started or stopped has no generation *)
(* thread (NotGenerating), and neither has any other one (Alone), as the   *)
(* one that generates is the current one (GenerationOwnsSession).  At most *)
(* one generation thread runs (OneGenerates), and the stack and the file   *)
(* it saves to belong to its session (Own, SavedOwn).  All of it but the   *)
(* first three parts is lost once the watchdog fails a session whose       *)
(* artifacts are generated, which frees the session for the next one.      *)
(***************************************************************************)
EXTENDS MappingSession, TLAPS

Generating(o) == generator[o] # "ended"

\* The current session is the one the control thread works on, or none is.
ControlOwns ==
    /\ control.step \notin {"idle", "renewing"} => control.object \in Objects
    /\ control.step # "idle" => session \in {None, control.object}
    /\ control.step = "renewing" => session = None

Launching == {"launching", "launched", "failing", "dropping"}

\* The state that the control thread left the session in is still its state.
ControlFinds ==
    /\ control.step = "probing" => state[control.object] = "preparing"
    /\ control.step = "starting" => state[control.object] = "ready"
    /\ control.step \in Launching => state[control.object] = "starting"
    /\ control.step = "stopping" =>
           \/ state[control.object] = "generating"
           \/ interrupted /\ state[control.object] = "error"

\* The watchdog found its session mapping; nobody takes it back from "error".
WatchFinds ==
    watch.step # "idle" =>
        /\ watch.object \in Objects
        /\ state[watch.object] \in {"mapping", "generating", "serving", "error"}
        /\ watch.step \in {"cleaning", "dropping"} /\ ~interrupted => state[watch.object] = "error"

Starting == {"probing", "starting", "launching", "launched", "failing", "dropping", "stopping"}
Discarding == {"discarding", "aborting", "resetting"}

\* A session the control thread works on is not generated, and a session that is
\* generated has the state that says so.
NotGenerating ==
    /\ control.step \in Starting => ~Generating(control.object)
    /\ control.step \in Discarding /\ ~interrupted => ~Generating(control.object)
    /\ \A o \in Objects : Generating(o) =>
           state[o] = "generating" \/ (interrupted /\ state[o] = "error")

Archiving == {"collecting", "settling", "archiving", "publishing"}

\* The stack of a session that is archived has stopped: a backend that stops to
\* save does so first, and another one once it has found the map fresh.
Stopped ==
    \A o \in Objects :
        /\ generator[o] \in Archiving => stack # o
        /\ backend = "finalize" /\ generator[o] = "checking" => stack # o
        /\ backend = "finalize" => generator[o] # "saving"

\* Only the scout's stop script forgets a stack that runs.
ForgottenOfScout == backend # "finalize" => stray = {}

Structure == ControlOwns /\ ControlFinds /\ WatchFinds /\ NotGenerating

\* No session is generated while the stack is started or stopped.
Alone ==
    control.step \in {"starting", "launching", "launched", "failing", "stopping"} =>
        \A o \in Objects : ~Generating(o)

OneGenerates == \A o, p \in Objects : Generating(o) /\ Generating(p) => o = p

\* The current session is generated, or about to be.
GeneratesCurrent ==
    Running => /\ \A o \in Objects : Generating(o) => session = o
               /\ control.step = "stopping" => session = control.object

\* The sessions whose stack may be running, and the saved file theirs.
Owns(o) ==
    \/ Generating(o)
    \/ control.step \in {"launched", "stopping"} /\ control.object = o
    \/ Running /\ session = o /\ state[o] = "mapping"

Own ==
    \A o \in Objects :
        /\ Owns(o) => pcd[o] \in {None, o} /\ stack \in {None, o}
        /\ control.step = "launching" /\ control.object = o => pcd[o] \in {None, o}

\* The steps of a generation that found the file fresh.
Saved(o) == generator[o] \in Archiving \/ (backend # "finalize" /\ generator[o] = "stopping")
SavedOwn == \A o \in Objects : Saved(o) => pcd[o] = o

\* One session is generated, and it is the current one.
Single == Alone /\ OneGenerates /\ GeneratesCurrent

Uninterrupted == Single /\ Own /\ SavedOwn

IInv == Structure /\ Stopped /\ ForgottenOfScout /\ (~interrupted => Uninterrupted)
-----------------------------------------------------------------------------
(* Types, and the object that a thread works on.                           *)
\* A command that stops the stack may forget the one that runs.
LEMMA StopTypes ==
    ASSUME TypeOK, StackStops \/ StackMayStop PROVE stack' \in Maybe /\ stray' \subseteq Objects
BY DEF TypeOK, StackStops, StackMayStop, Maybe

\* What the control thread does with the session it works on keeps the types.
LEMMA ControlTypes ==
    ASSUME MappingConstants, TypeOK, Structure, ControlContinues \/ Commands
    PROVE  TypeOK'
<1> USE DEF MappingConstants, Structure, ControlOwns, ControlFinds, States, ControlSteps, Maybe
<1>1. ASSUME NEW o \in Objects, Prepare(o) PROVE TypeOK'
  BY <1>1 DEF TypeOK, Prepare, Enter, Renewed
<1>2. ASSUME Start \/ \E next \in {"none", "prepare"} : Restart(next) PROVE TypeOK'
  BY <1>2 DEF TypeOK, Start, Restart
<1>3. ASSUME Stop PROVE TypeOK'
  BY <1>3 DEF TypeOK, Stop, Enter
<1>4. ASSUME RenewFails \/ ReadinessPasses PROVE TypeOK'
  BY <1>4 DEF TypeOK, RenewFails, ReadinessPasses, ControlEnds, Enter, Idle
<1>5. ASSUME ReadinessFails \/ StartRejected PROVE TypeOK'
  BY <1>5 DEF TypeOK, ReadinessFails, StartRejected, ControlEnds, Drop, Idle
<1>6. ASSUME StartBegins \/ Started PROVE TypeOK'
  BY <1>6 DEF TypeOK, StartBegins, Started, ControlTo, ControlEnds, Enter, Idle, Launching
<1>7. ASSUME Launches \/ LaunchFails \/ AbortAfterStartFailure PROVE TypeOK'
  <2>1. CASE Launches \/ LaunchFails
    BY <2>1 DEF TypeOK, Launches, LaunchFails, ControlTo, Unregister
  <2>2. CASE AbortAfterStartFailure
    BY <2>2, StopTypes DEF TypeOK, AbortAfterStartFailure, ControlTo
  <2> QED
    BY <1>7, <2>1, <2>2
<1>8. ASSUME StopGenerates PROVE TypeOK'
  BY <1>8 DEF TypeOK, StopGenerates, ControlEnds, Unregister, FirstStep, Idle, GeneratorSteps
<1>9. ASSUME Discard \/ AbortStack PROVE TypeOK'
  <2>1. CASE Discard
    BY <2>1 DEF TypeOK, Discard, ControlTo, Unregister
  <2>2. CASE AbortStack
    <3>1. stack' \in Maybe /\ stray' \subseteq Objects
      BY <2>2, StopTypes DEF AbortStack
    <3>2. control' \in [step: ControlSteps, object: Maybe, next: {"none", "prepare"}]
      BY <2>2 DEF TypeOK, AbortStack, ControlTo, ControlEnds, Idle
    <3> QED
      BY <2>2, <3>1, <3>2 DEF TypeOK, AbortStack
  <2> QED
    BY <1>9, <2>1, <2>2
<1>10. ASSUME ResetPaths PROVE TypeOK'
  BY <1>10 DEF TypeOK, ResetPaths, ControlEnds, Drop, Idle
<1> QED
  BY <1>1, <1>2, <1>3, <1>4, <1>5, <1>6, <1>7, <1>8, <1>9, <1>10 DEF ControlContinues, Commands

\* The watchdog and close() keep the types.
LEMMA OthersTypes ==
    ASSUME MappingConstants, TypeOK, Structure,
           Watchdog \/ WatchdogContinues \/ Close \/ Closing
    PROVE  TypeOK'
<1> USE DEF MappingConstants, Structure, WatchFinds, States, Maybe
<1>1. ASSUME Watchdog PROVE TypeOK'
  BY <1>1 DEF TypeOK, Watchdog, ReadyExpires, InputLost, Ticks
<1>2. ASSUME FailBegins PROVE TypeOK'
  <2>1. watch.object \in Objects
    BY <1>2 DEF FailBegins
  <2>2. CASE session = watch.object
    BY <1>2, <2>1, <2>2 DEF TypeOK, FailBegins, Enter
  <2>3. CASE session # watch.object
    BY <1>2, <2>3 DEF TypeOK, FailBegins, NotWatching
  <2> QED
    BY <2>2, <2>3
<1>3. ASSUME FailUnregisters \/ FailDrops PROVE TypeOK'
  <2>1. CASE FailUnregisters
    BY <2>1 DEF TypeOK, FailUnregisters, Unregister
  <2>2. CASE FailDrops
    BY <2>2 DEF TypeOK, FailDrops, NotWatching, Drop
  <2> QED
    BY <1>3, <2>1, <2>2
<1>4. ASSUME Close PROVE TypeOK'
  BY <1>4 DEF TypeOK, Close
<1>5. ASSUME Closing PROVE TypeOK'
  <2>1. CASE CloseCleans \/ CloseEnds
    BY <2>1 DEF TypeOK, CloseCleans, CloseEnds, CloserTo, Unregister
  <2>2. CASE CloseAborts
    BY <2>2, StopTypes DEF TypeOK, CloseAborts, CloserTo
  <2> QED
    BY <1>5, <2>1, <2>2 DEF Closing
<1> QED
  BY <1>1, <1>2, <1>3, <1>4, <1>5 DEF WatchdogContinues

\* The generation threads keep the types.
LEMMA GenerationTypes ==
    ASSUME MappingConstants, TypeOK, NEW o \in Objects, Generation(o)
    PROVE  TypeOK'
<1> USE DEF MappingConstants, States, Maybe, GeneratorSteps, GeneratorTo
<1>1. ASSUME Save(o) \/ StopStack(o) PROVE TypeOK'
  BY <1>1 DEF TypeOK, Save, StopStack, Writes, StackStops, StackMayStop
<1>2. ASSUME CheckFresh(o) PROVE TypeOK'
  BY <1>2 DEF TypeOK, CheckFresh
<1>3. ASSUME CollectOccupancy(o) \/ WaitForStableArtifacts(o) \/ BuildArchive(o) PROVE TypeOK'
  BY <1>3 DEF TypeOK, CollectOccupancy, WaitForStableArtifacts, BuildArchive, Proceeds
<1>4. ASSUME Publish(o) PROVE TypeOK'
  BY <1>4 DEF TypeOK, Publish, Drop, Enter
<1>5. ASSUME Resume(o) PROVE TypeOK'
  <2>1. generator' \in [Objects -> GeneratorSteps] /\ subscribed' \in [Objects -> BOOLEAN]
    BY <1>5 DEF TypeOK, Resume
  <2>2. CASE UNCHANGED state
    BY <1>5, <2>1, <2>2 DEF TypeOK, Resume
  <2>3. CASE session = o /\ state' = [state EXCEPT ![o] = "mapping"]
    BY <1>5, <2>1, <2>3 DEF TypeOK, Resume
  <2> QED
    BY <1>5, <2>2, <2>3 DEF Resume, Enter
<1>6. ASSUME AbortGeneration(o) \/ GenerationFails(o) PROVE TypeOK'
  BY <1>6 DEF TypeOK, AbortGeneration, GenerationFails, StackMayStop, StackStops, Drop
<1> QED
  BY <1>1, <1>2, <1>3, <1>4, <1>5, <1>6 DEF Generation

\* So does a forgotten stack that ends.
LEMMA StrayTypes == ASSUME TypeOK, NEW o \in Objects, StrayEnds(o) PROVE TypeOK'
BY DEF TypeOK, StrayEnds, Maybe
-----------------------------------------------------------------------------
(* The structure: who works on which session.                              *)
\* A generation thread touches its own session, which it may leave, and may stop
\* the stack; of the others' files it may overwrite those all sessions share.
LEMMA GenerationFrame ==
    ASSUME TypeOK, NEW o \in Objects, Generation(o)
    PROVE  /\ UNCHANGED <<backend, control, watch, closer, interrupted>>
           /\ Generating(o)
           /\ \A p \in Objects \ {o} : generator'[p] = generator[p] /\ state'[p] = state[p]
           /\ session' = session \/ (session = o /\ session' = None)
           /\ \/ state'[o] = state[o] 
              \/ ~Generating(o)' /\ state'[o] \in {"serving", "mapping"}
           /\ stack' \in {None, stack}
<1> USE DEF Generating, TypeOK, GeneratorTo, Enter, Drop, StackStops, StackMayStop
<1>1. CASE Save(o) \/ StopStack(o)
  BY <1>1 DEF Save, StopStack
<1>2. CASE CheckFresh(o)
  BY <1>2 DEF CheckFresh
<1>3. CASE CollectOccupancy(o) \/ WaitForStableArtifacts(o) \/ BuildArchive(o)
  BY <1>3 DEF CollectOccupancy, WaitForStableArtifacts, BuildArchive, Proceeds
<1>4. CASE Publish(o)
  BY <1>4 DEF Publish
<1>5. CASE Resume(o)
  BY <1>5 DEF Resume
<1>6. CASE AbortGeneration(o) \/ GenerationFails(o)
  BY <1>6 DEF AbortGeneration, GenerationFails
<1> QED
  BY <1>1, <1>2, <1>3, <1>4, <1>5, <1>6 DEF Generation

\* The watchdog takes sessions away, and fails one it found mapping.
LEMMA WatchFrame ==
    ASSUME TypeOK, Structure, Watchdog \/ WatchdogContinues
    PROVE  /\ UNCHANGED <<backend, pcd, stack, control, generator, closer>>
           /\ session' \in {None, session}
           /\ \/ UNCHANGED <<state, interrupted>>
              \/ /\ watch.step = "failing" /\ session = watch.object /\ session \in Objects
                 /\ state' = [state EXCEPT ![session] = "error"]
                 /\ interrupted' = (interrupted \/ state[session] = "generating")
<1>1. CASE Watchdog
  BY <1>1 DEF Watchdog, ReadyExpires, InputLost
<1>2. CASE WatchdogContinues
  BY <1>2 DEF WatchdogContinues, FailBegins, FailUnregisters, FailDrops, Enter, Drop, Structure,
              WatchFinds
<1> QED
  BY <1>1, <1>2

\* close() takes the session away and stops the stack.
LEMMA CloseFrame ==
    ASSUME TypeOK, Close \/ Closing
    PROVE  /\ UNCHANGED <<backend, pcd, state, control, watch, generator, interrupted>>
           /\ session' \in {None, session} /\ stack' \in {None, stack}
           /\ ~Running'
           /\ Running => session' = session
BY DEF Close, Closing, CloseCleans, CloseAborts, CloseEnds, CloserTo, StackMayStop, StackStops,
       Running, TypeOK

\* A generation thread disturbs neither the control thread nor the watchdog.
LEMMA GenerationStructure ==
    ASSUME MappingConstants, TypeOK, Structure, NEW o \in Objects, Generation(o)
    PROVE  Structure'
<1> USE GenerationFrame DEF Structure, Generating
<1>1. ControlOwns'
  BY DEF ControlOwns
<1>2. control.step \in Starting => control.object # o /\ control.object \in Objects
  BY DEF NotGenerating, ControlOwns, Starting
<1>3. ControlFinds'
  BY <1>2 DEF ControlFinds, Starting, Launching
<1>4. WatchFinds'
  BY DEF WatchFinds, NotGenerating
<1>5. NotGenerating'
  <2>1. \A p \in Objects : Generating(p)' => 
            state'[p] = "generating" \/ (interrupted' /\ state'[p] = "error")
    BY DEF NotGenerating
  <2>2. control.step \in Discarding /\ ~interrupted => control.object # o /\ control.object \in Objects
    BY DEF NotGenerating, ControlOwns, Discarding
  <2> QED
    BY <1>2, <2>1, <2>2 DEF NotGenerating
<1> QED
  BY <1>1, <1>3, <1>4, <1>5

\* The watchdog disturbs no command: the session it fails is none that starts.
LEMMA WatchStructure ==
    ASSUME MappingConstants, TypeOK, Structure, Watchdog \/ WatchdogContinues
    PROVE  Structure'
<1> USE WatchFrame DEF Structure, Generating
<1>1. ControlOwns'
  BY DEF ControlOwns
<1>2. ControlFinds'
  <2>1. CASE UNCHANGED <<state, interrupted>>
    BY <2>1 DEF ControlFinds, TypeOK
  <2>2. CASE /\ watch.step = "failing" /\ session = watch.object /\ session \in Objects
             /\ state' = [state EXCEPT ![session] = "error"]
             /\ interrupted' = (interrupted \/ state[session] = "generating")
    <3>1. state[session] \in {"mapping", "generating", "serving", "error"}
      BY <2>2 DEF WatchFinds
    <3>2. control.step # "idle" => session = control.object
      BY <2>2 DEF ControlOwns, MappingConstants
    <3>3. control.step \notin {"probing", "starting"} \union Launching
      BY <3>1, <3>2 DEF ControlFinds, Launching
    <3>4. control.step = "stopping" => state'[control.object] = "error" /\ interrupted'
      BY <2>2, <3>2 DEF ControlFinds, TypeOK
    <3> QED
      BY <3>3, <3>4 DEF ControlFinds
  <2> QED
    BY <2>1, <2>2
<1>3. WatchFinds'
  <2>1. CASE Watchdog
    BY <2>1 DEF Watchdog, ReadyExpires, InputLost, Ticks, WatchFinds, TypeOK, Maybe
  <2>2. CASE FailBegins
    BY <2>2 DEF FailBegins, WatchFinds, TypeOK, Enter, NotWatching
  <2>3. CASE FailUnregisters \/ FailDrops
    BY <2>3 DEF FailUnregisters, FailDrops, WatchFinds, NotWatching, TypeOK
  <2> QED
    BY <2>1, <2>2, <2>3 DEF WatchdogContinues
<1>4. NotGenerating'
  <2>1. \A p \in Objects : Generating(p)' => 
            state'[p] = "generating" \/ (interrupted' /\ state'[p] = "error")
    BY DEF NotGenerating, TypeOK
  <2> QED
    BY <2>1 DEF NotGenerating
<1> QED
  BY <1>1, <1>2, <1>3, <1>4

\* close() leaves the other threads to what they do.
LEMMA CloseStructure ==
    ASSUME MappingConstants, TypeOK, Structure, Close \/ Closing
    PROVE  Structure'
BY CloseFrame DEF Structure, ControlOwns, ControlFinds, WatchFinds, NotGenerating, Generating

\* A forgotten stack that ends may write its session's file, and does no more.
LEMMA StrayFrame ==
    ASSUME TypeOK, NEW o \in Objects, StrayEnds(o)
    PROVE  /\ UNCHANGED <<backend, session, state, subscribed, stack, control, watch, generator,
                          closer, interrupted>>
           /\ \A p \in Objects : pcd'[p] = pcd[p] \/ pcd'[p] = p
BY DEF StrayEnds, TypeOK

LEMMA StrayStructure ==
    ASSUME TypeOK, Structure, NEW o \in Objects, StrayEnds(o) PROVE Structure'
BY StrayFrame DEF Structure, ControlOwns, ControlFinds, WatchFinds, NotGenerating, Generating

\* A new session is nobody else's.
LEMMA PrepareStructure ==
    ASSUME MappingConstants, TypeOK, Structure, NEW o \in Objects, Prepare(o)
    PROVE  Structure'
<1> USE DEF Prepare, Unused, Enter, TypeOK
<1>1. ControlOwns' /\ ControlFinds'
  BY DEF ControlOwns, ControlFinds, Launching
<1>2. WatchFinds'
  BY DEF Structure, WatchFinds
<1>3. NotGenerating'
  BY DEF Structure, NotGenerating, Generating, Starting, Discarding
<1> QED
  BY <1>1, <1>2, <1>3 DEF Structure

\* The control thread changes the state of the session it works on, which no
\* other thread has.
LEMMA ControlStructure ==
    ASSUME MappingConstants, TypeOK, Structure, ControlContinues \/ Commands
    PROVE  Structure'
<1> USE DEF MappingConstants, Maybe, Idle
<1>1. ASSUME NEW o \in Objects, Prepare(o) PROVE Structure'
  BY <1>1, PrepareStructure
<1>2. ASSUME Start \/ Stop \/ \E next \in {"none", "prepare"} : Restart(next) PROVE Structure'
  <2>1. ~Generating(session) \/ interrupted
    BY <1>2 DEF Structure, NotGenerating, Start, Stop, Restart, MayRestart, TypeOK
  <2>2. session \in Objects
    BY <1>2 DEF Start, Stop, Restart, TypeOK
  <2>3. CASE Start
    BY <2>2, <2>3 DEF Structure, Start, ControlOwns, ControlFinds, WatchFinds, NotGenerating, Generating, 
                Launching, Starting, Discarding
  <2>4. CASE Stop
    BY <2>2, <2>4 DEF Structure, Stop, ControlOwns, ControlFinds, WatchFinds, NotGenerating, Generating, 
                Launching, Starting, Discarding, Enter, TypeOK
  <2>5. ASSUME NEW next, Restart(next) PROVE Structure'
    BY <2>1, <2>2, <2>5 DEF Structure, Restart, ControlOwns, ControlFinds, WatchFinds, NotGenerating, Generating,
                Launching, Starting, Discarding
  <2> QED
    BY <1>2, <2>3, <2>4, <2>5
<1>3. ASSUME ControlContinues PROVE Structure'
  <2> USE DEF ControlTo, ControlEnds, Enter, Drop
  <2>1. ControlOwns'
    BY <1>3 DEF Structure, ControlContinues, ControlOwns, RenewFails, ReadinessPasses, ReadinessFails,
         StartBegins, Launches, LaunchFails, AbortAfterStartFailure, StartRejected, Started,
         StopGenerates, Discard, AbortStack, ResetPaths, TypeOK
  <2>2. ControlFinds'
    BY <1>3 DEF Structure, ControlContinues, ControlOwns, ControlFinds, Launching, RenewFails, ReadinessPasses, ReadinessFails,
         StartBegins, Launches, LaunchFails, AbortAfterStartFailure, StartRejected, Started,
         StopGenerates, Discard, AbortStack, ResetPaths, TypeOK
  <2>3. WatchFinds'
    BY <1>3 DEF Structure, ControlContinues, ControlOwns, ControlFinds, WatchFinds, Launching, RenewFails, ReadinessPasses, ReadinessFails,
         StartBegins, Launches, LaunchFails, AbortAfterStartFailure, StartRejected, Started,
         StopGenerates, Discard, AbortStack, ResetPaths, TypeOK
  <2>4. NotGenerating'
    BY <1>3 DEF Structure, ControlContinues, ControlOwns, ControlFinds, NotGenerating, Generating, Launching, Starting,
         Discarding, RenewFails, ReadinessPasses, ReadinessFails,
         StartBegins, Launches, LaunchFails, AbortAfterStartFailure, StartRejected, Started,
         StopGenerates, Discard, AbortStack, ResetPaths, TypeOK
  <2> QED
    BY <2>1, <2>2, <2>3, <2>4 DEF Structure
<1> QED
  BY <1>1, <1>2, <1>3 DEF Commands
-----------------------------------------------------------------------------
(* The stack of a session that is archived has stopped.                    *)
\* A generation stops the stack before it archives.
LEMMA GenerationStops ==
    ASSUME MappingConstants, TypeOK, Stopped, NEW o \in Objects, Generation(o)
    PROVE  Stopped'
<1> SUFFICES /\ generator'[o] \in Archiving => stack' # o
             /\ backend = "finalize" /\ generator'[o] = "checking" => stack' # o
             /\ backend = "finalize" => generator'[o] # "saving"
  BY GenerationFrame DEF MappingConstants, Stopped
<1> USE DEF MappingConstants, Stopped, Archiving, GeneratorTo, TypeOK
<1>1. CASE Save(o)
  BY <1>1 DEF Save
<1>2. CASE CheckFresh(o)
  BY <1>2 DEF CheckFresh
<1>3. CASE StopStack(o)
  BY <1>3 DEF StopStack, StackStops
<1>4. CASE CollectOccupancy(o) \/ WaitForStableArtifacts(o) \/ BuildArchive(o)
  BY <1>4 DEF CollectOccupancy, WaitForStableArtifacts, BuildArchive, Proceeds
<1>5. CASE Publish(o) \/ Resume(o) \/ AbortGeneration(o) \/ GenerationFails(o)
  BY <1>5 DEF Publish, Resume, AbortGeneration, GenerationFails
<1> QED
  BY <1>1, <1>2, <1>3, <1>4, <1>5 DEF Generation

\* The control thread starts the stack of no session that is archived.
LEMMA ControlStops ==
    ASSUME MappingConstants, TypeOK, Structure, Stopped, ControlContinues \/ Commands
    PROVE  Stopped'
<1> USE DEF MappingConstants, Stopped, Archiving
<1>1. CASE Launches \/ LaunchFails
  <2>1. generator[control.object] = "ended" /\ control.object \in Objects
    BY <1>1 DEF Launches, LaunchFails, Structure, ControlOwns, NotGenerating, Generating, Starting
  <2> QED
    BY <1>1, <2>1 DEF Launches, LaunchFails
<1>2. CASE StopGenerates
  BY <1>2 DEF StopGenerates, FirstStep, TypeOK
<1>3. CASE Commands
  BY <1>3 DEF Commands, Prepare, Start, Stop, Restart
<1>4. CASE /\ ControlContinues /\ ~(Launches \/ LaunchFails \/ StopGenerates)
  BY <1>4 DEF ControlContinues, RenewFails, ReadinessPasses, ReadinessFails, StartBegins,
              AbortAfterStartFailure, StartRejected, Started, Discard, AbortStack, ResetPaths,
              StackStops, StackMayStop
<1> QED
  BY <1>1, <1>2, <1>3, <1>4

\* Only a scout's stack is forgotten while it runs.
LEMMA StaysKnown == ASSUME Next, ForgottenOfScout PROVE ForgottenOfScout'
<1> USE DEF ForgottenOfScout
<1>1. CASE ControlContinues
  BY <1>1 DEF ControlContinues, RenewFails, ReadinessPasses, ReadinessFails, StartBegins, Launches,
              LaunchFails, AbortAfterStartFailure, StartRejected, Started, StopGenerates, Discard,
              AbortStack, ResetPaths, StackStops, StackMayStop
<1>2. CASE Commands \/ Watchdog \/ WatchdogContinues
  BY <1>2 DEF Commands, Prepare, Start, Stop, Restart, Watchdog, ReadyExpires, InputLost,
              WatchdogContinues, FailBegins, FailUnregisters, FailDrops
<1>3. CASE Close \/ Closing
  BY <1>3 DEF Close, Closing, CloseCleans, CloseAborts, CloseEnds, StackStops, StackMayStop
<1>4. ASSUME NEW o \in Objects, Generation(o) PROVE ForgottenOfScout'
  BY <1>4 DEF Generation, Save, CheckFresh, StopStack, CollectOccupancy, WaitForStableArtifacts,
              BuildArchive, Proceeds, Publish, Resume, AbortGeneration, GenerationFails,
              StackStops, StackMayStop
<1>5. ASSUME NEW o \in Objects, StrayEnds(o) PROVE ForgottenOfScout'
  BY <1>5 DEF StrayEnds
<1> QED
  BY <1>1, <1>2, <1>3, <1>4, <1>5 DEF Next

\* Nobody archives a session whose stack may run.
LEMMA StaysStopped ==
    ASSUME MappingConstants, TypeOK, Structure, Stopped, Next PROVE Stopped'
<1> USE DEF MappingConstants
<1>1. CASE Watchdog \/ WatchdogContinues
  BY <1>1, WatchFrame DEF Stopped
<1>2. CASE Close \/ Closing
  BY <1>2, CloseFrame DEF Stopped
<1>3. ASSUME NEW o \in Objects, StrayEnds(o) PROVE Stopped'
  BY <1>3, StrayFrame DEF Stopped
<1> QED
  BY <1>1, <1>2, <1>3, GenerationStops, ControlStops DEF Next

-----------------------------------------------------------------------------
(* What holds unless a generation has been interrupted.                    *)
\* A generation thread ends with its session, or gives it back to mapping.
LEMMA GenerationSingle ==
    ASSUME TypeOK, Structure, Single, ~interrupted, NEW o \in Objects, Generation(o)
    PROVE  Single'
<1> USE GenerationFrame DEF Single, Generating
<1>1. control.step \notin {"starting", "launching", "launched", "failing", "stopping"}
  BY DEF Alone
<1>2. Alone' 
  BY <1>1 DEF Alone
<1>3. OneGenerates'
  BY DEF OneGenerates
<1>4. GeneratesCurrent'
  <2>1. session' = session \/ ~Generating(o)'
    <3>1. CASE Publish(o) \/ GenerationFails(o)
      BY <3>1 DEF Publish, GenerationFails, GeneratorTo, TypeOK
    <3>2. CASE ~(Publish(o) \/ GenerationFails(o))
      BY <3>2 DEF Generation, Save, CheckFresh, StopStack, CollectOccupancy,
                  WaitForStableArtifacts, BuildArchive, Proceeds, Resume, AbortGeneration
    <3> QED
      BY <3>1, <3>2
  <2> QED
    BY <1>1, <2>1 DEF GeneratesCurrent, OneGenerates, Running
<1> QED
  BY <1>2, <1>3, <1>4

\* The watchdog takes no session away that is generated.
LEMMA WatchSingle ==
    ASSUME MappingConstants, TypeOK, Structure, Single, ~interrupted',
           Watchdog \/ WatchdogContinues
    PROVE  Single'
<1> USE WatchFrame DEF Single, Generating
<1>1. ~interrupted
  OBVIOUS
<1>2. Alone' /\ OneGenerates'
  BY DEF Alone, OneGenerates
<1>3. ASSUME session' # session 
      PROVE  session \in Objects /\ state[session] \in {"ready", "error"}
  <2>1. CASE Watchdog
    BY <1>3, <2>1 DEF Watchdog, ReadyExpires, InputLost, Ticks, TypeOK, Maybe
  <2>2. CASE WatchdogContinues
    BY <1>1, <1>3, <2>2 DEF WatchdogContinues, FailBegins, FailUnregisters, FailDrops, Drop,
                      Structure, WatchFinds
  <2> QED
    BY <2>1, <2>2
<1>4. GeneratesCurrent'
  BY <1>1, <1>3 DEF GeneratesCurrent, Structure, NotGenerating, ControlFinds, Running
<1> QED
  BY <1>2, <1>4

\* The control thread stops one session after the other, and takes none away
\* that is generated.
LEMMA ControlSingle ==
    ASSUME MappingConstants, TypeOK, Structure, Single, ~interrupted, ControlContinues \/ Commands
    PROVE  Single'
<1> USE DEF Single, Generating, MappingConstants, Maybe, Idle
<1>1. CASE Commands
  <2>1. \A o \in Objects : generator'[o] = generator[o]
    BY <1>1 DEF Commands, Prepare, Start, Stop, Restart
  <2>2. OneGenerates'
    BY <2>1 DEF OneGenerates
  <2>3. Alone'
    <3>1. ASSUME Start \/ Stop, NEW o \in Objects PROVE ~Generating(o)
      BY <3>1 DEF Start, Stop, GeneratesCurrent, Structure, NotGenerating
    <3>2. CASE Start \/ Stop
      BY <2>1, <3>1, <3>2 DEF Alone
    <3>3. CASE ~(Start \/ Stop)
      BY <1>1, <3>3 DEF Commands, Prepare, Restart, Alone
    <3> QED
      BY <3>2, <3>3
  <2>4. GeneratesCurrent'
    <3>1. ASSUME NEW o \in Objects, Prepare(o), Running PROVE \A p \in Objects : ~Generating(p)
      BY <3>1 DEF Prepare, Renewed, GeneratesCurrent, Structure, ControlOwns, ControlFinds, 
                TypeOK, NotGenerating
    <3>2. ASSUME NEW o \in Objects, Prepare(o) PROVE GeneratesCurrent'
      BY <2>1, <3>1, <3>2 DEF Prepare, GeneratesCurrent, Running
    <3>3. CASE Start \/ Stop \/ \E next \in {"none", "prepare"} : Restart(next)
      BY <2>1, <3>3 DEF Start, Stop, Restart, GeneratesCurrent, Running
    <3> QED
      BY <1>1, <3>2, <3>3 DEF Commands
  <2> QED
    BY <2>2, <2>3, <2>4
<1>2. CASE StopGenerates
  <2>1. \A o \in Objects : Generating(o)' => o = control.object
    BY <1>2 DEF StopGenerates, Alone, TypeOK
  <2> QED
    BY <1>2, <2>1 DEF StopGenerates, OneGenerates, Alone, GeneratesCurrent, Running, ControlEnds
<1>3. CASE ControlContinues /\ ~StopGenerates
  <2> USE DEF ControlTo, ControlEnds
  <2>1. UNCHANGED <<generator, closer>>
    BY <1>3 DEF ControlContinues, RenewFails, ReadinessPasses, ReadinessFails, StartBegins,
                Launches, LaunchFails, AbortAfterStartFailure, StartRejected, Started, Discard,
                AbortStack, ResetPaths
  <2>2. Alone'
    BY <1>3, <2>1 DEF Alone, TypeOK, ControlContinues, RenewFails, ReadinessPasses, ReadinessFails,
                StartBegins, Launches, LaunchFails, AbortAfterStartFailure, StartRejected, Started,
                Discard, AbortStack, ResetPaths
  <2>3. control'.step # "stopping"
    BY <1>3 DEF TypeOK, ControlContinues, RenewFails, ReadinessPasses, ReadinessFails,
                StartBegins, Launches, LaunchFails, AbortAfterStartFailure, StartRejected, Started,
                Discard, AbortStack, ResetPaths
  <2>4. session' = session \/ (session = control.object /\ ~Generating(session))
    <3>1. CASE ReadinessFails \/ StartRejected \/ ResetPaths
      BY <3>1 DEF ReadinessFails, StartRejected, ResetPaths, Drop, Structure, NotGenerating,
                  Starting, Discarding
    <3>2. CASE ~(ReadinessFails \/ StartRejected \/ ResetPaths)
      BY <1>3, <3>2 DEF ControlContinues, RenewFails, ReadinessPasses, StartBegins, Launches,
                        LaunchFails, AbortAfterStartFailure, Started, Discard, AbortStack
    <3> QED
      BY <3>1, <3>2
  <2> QED
    BY <2>1, <2>2, <2>3, <2>4 DEF OneGenerates, GeneratesCurrent, Running
<1> QED
  BY <1>1, <1>2, <1>3

\* close() starts no generation.
LEMMA CloseSingle == ASSUME TypeOK, Single, Close \/ Closing PROVE Single'
BY CloseFrame DEF Single, Alone, OneGenerates, GeneratesCurrent, Generating

\* Nor does a forgotten stack.
LEMMA StraySingle ==
    ASSUME TypeOK, Single, NEW o \in Objects, StrayEnds(o) PROVE Single'
BY StrayFrame DEF Single, Alone, OneGenerates, GeneratesCurrent, Generating, Running

\* A session that is generated stays the current one, and the only one.
LEMMA StaysSingle ==
    ASSUME MappingConstants, TypeOK, Structure, Single, Next, ~interrupted, ~interrupted'
    PROVE  Single'
BY GenerationSingle, WatchSingle, ControlSingle, CloseSingle, StraySingle DEF Next
\* A save writes what the stack holds, into the session's file or into all.
LEMMA GenerationWrites ==
    ASSUME TypeOK, NEW o \in Objects, Generation(o)
    PROVE  \A p \in Objects : pcd'[p] \in {pcd[p], stack}
<1>1. CASE Save(o) \/ StopStack(o)
  BY <1>1 DEF Save, StopStack, Writes
<1>2. CASE ~(Save(o) \/ StopStack(o))
  BY <1>2 DEF Generation, CheckFresh, CollectOccupancy, WaitForStableArtifacts, BuildArchive,
              Proceeds, Publish, Resume, AbortGeneration, GenerationFails
<1> QED
  BY <1>1, <1>2

\* A generation thread reads and writes what its session owns.
LEMMA GenerationOwn ==
    ASSUME MappingConstants, TypeOK, Single, Own, ~interrupted, NEW o \in Objects, Generation(o)
    PROVE  Own'
<1> USE GenerationFrame DEF Single
<1>1. control.step \notin {"launching", "launched", "stopping"}
  BY DEF Alone
<1>2. ASSUME NEW p \in Objects, Owns(p)' PROVE p = o
  <2>1. CASE Generating(p)'
    BY <2>1 DEF OneGenerates, Generating
  <2>2. CASE Running' /\ session' = p
    BY <2>2 DEF GeneratesCurrent, Running, MappingConstants
  <2> QED
    BY <1>1, <1>2, <2>1, <2>2 DEF Owns
<1>3. Owns(o)
  BY DEF Owns
<1> QED
  BY <1>1, <1>2, <1>3, GenerationWrites DEF Own

\* The watchdog and close() give nothing to own.
LEMMA OthersOwn ==
    ASSUME MappingConstants, TypeOK, Structure, Own,
           Watchdog \/ WatchdogContinues \/ Close \/ Closing
    PROVE  Own'
<1>1. CASE Watchdog \/ WatchdogContinues
  <2>1. \A p \in Objects : Owns(p)' => Owns(p)
    BY <1>1, WatchFrame DEF MappingConstants, Owns, Generating, Running, TypeOK
  <2> QED
    BY <1>1, <2>1, WatchFrame DEF Own
<1>2. CASE Close \/ Closing
  <2>1. \A p \in Objects : Owns(p)' => Owns(p)
    BY <1>2, CloseFrame DEF Owns, Generating
  <2> QED
    BY <1>2, <2>1, CloseFrame DEF Own
<1> QED
  BY <1>1, <1>2

\* The control thread starts a stack with a fresh baseline, and no other session
\* owns anything then.
LEMMA ControlOwn ==
    ASSUME MappingConstants, TypeOK, Structure, Single, Own, ~interrupted,
           ControlContinues \/ Commands
    PROVE  Own'
<1> USE DEF MappingConstants, Maybe, Enter, ControlTo, ControlEnds, Idle
<1>1. ASSUME NEW o \in Objects, Prepare(o) PROVE Own'
  <2>1. \A p \in Objects : Owns(p)' => Owns(p)
    BY <1>1 DEF Prepare, Owns, Generating, Running, TypeOK
  <2>2. \A p \in Objects : pcd'[p] \in {None, pcd[p]}
    BY <1>1 DEF Prepare, TypeOK
  <2> QED
    BY <1>1, <2>1, <2>2 DEF Prepare, Own
<1>2. ASSUME Start \/ Stop \/ \E next \in {"none", "prepare"} : Restart(next) PROVE Own'
  <2>1. \A p \in Objects : Owns(p)' => Owns(p)
    BY <1>2 DEF Start, Stop, Restart, Owns, Generating, Running, TypeOK
  <2> QED
    BY <1>2, <2>1 DEF Start, Stop, Restart, Own
<1>3. ASSUME StartBegins PROVE Own'
  <2>1. control.object \in Objects
    BY <1>3 DEF StartBegins, Structure, ControlOwns
  <2>2. \A p \in Objects : Owns(p)' => Owns(p)
    BY <1>3, <2>1 DEF StartBegins, Owns, Generating, Running, TypeOK
  <2>3. \A p \in Objects : pcd'[p] \in {None, pcd[p]}
    BY <1>3 DEF StartBegins, TypeOK
  <2>4. pcd'[control.object] = None
    BY <1>3, <2>1 DEF StartBegins, TypeOK
  <2> QED
    BY <1>3, <2>2, <2>3, <2>4 DEF StartBegins, Own, TypeOK
<1>4. ASSUME Launches \/ LaunchFails PROVE Own'
  <2>1. /\ \A p \in Objects : ~Generating(p)
        /\ control.object \in Objects /\ session \in {None, control.object}
        /\ state[control.object] = "starting"
    BY <1>4 DEF Launches, LaunchFails, Single, Alone, Structure, ControlOwns, ControlFinds, Launching
  <2>2. \A p \in Objects : Owns(p)' => Launches /\ p = control.object
    BY <1>4, <2>1 DEF Launches, LaunchFails, Owns, Generating, TypeOK
  <2>3. Launches => pcd[control.object] \in {None, control.object}
    BY <2>1 DEF Launches, Own
  <2>4. control'.step # "launching"
    BY <1>4 DEF Launches, LaunchFails, TypeOK
  <2> QED
    BY <1>4, <2>2, <2>3, <2>4 DEF Launches, LaunchFails, Own
<1>5. ASSUME Started PROVE Own'
  <2>1. control.object \in Objects /\ session \in {None, control.object}
    BY <1>5 DEF Started, Structure, ControlOwns
  <2>2. \A p \in Objects : Owns(p)' => Owns(p)
    BY <1>5, <2>1 DEF Started, Owns, Generating, Running, TypeOK
  <2> QED
    BY <1>5, <2>2 DEF Started, Own
<1>6. ASSUME StopGenerates PROVE Own'
  <2>1. \A p \in Objects : Owns(p)' => Owns(p)
    BY <1>6 DEF StopGenerates, Owns, Generating, Running, TypeOK
  <2> QED
    BY <1>6, <2>1 DEF StopGenerates, Own
<1>7. ASSUME \/ RenewFails \/ ReadinessPasses \/ ReadinessFails \/ AbortAfterStartFailure
             \/ StartRejected \/ Discard \/ AbortStack \/ ResetPaths
      PROVE  Own'
  <2>1. /\ UNCHANGED <<pcd, generator, closer>>
        /\ stack' \in {None, stack} /\ session' \in {None, session}
    BY <1>7 DEF RenewFails, ReadinessPasses, ReadinessFails, AbortAfterStartFailure, StartRejected,
                Discard, AbortStack, ResetPaths, StackStops, StackMayStop, Drop
  <2>2. control'.step \notin {"launching", "launched", "stopping"}
    BY <1>7 DEF RenewFails, ReadinessPasses, ReadinessFails, AbortAfterStartFailure, StartRejected,
                Discard, AbortStack, ResetPaths, TypeOK
  <2>3. \A p \in Objects : state'[p] = "mapping" => state[p] = "mapping"
    BY <1>7 DEF RenewFails, ReadinessPasses, ReadinessFails, AbortAfterStartFailure, StartRejected,
                Discard, AbortStack, ResetPaths, TypeOK
  <2>4. \A p \in Objects : Owns(p)' => Owns(p)
    BY <2>1, <2>2, <2>3 DEF Owns, Generating, Running
  <2> QED
    BY <2>1, <2>2, <2>4 DEF Own
<1> QED
  BY <1>1, <1>2, <1>3, <1>4, <1>5, <1>6, <1>7 DEF ControlContinues, Commands

\* A forgotten stack writes the map of its session into its session's file.
LEMMA StrayOwn ==
    ASSUME TypeOK, Own, NEW o \in Objects, StrayEnds(o) PROVE Own'
BY StrayFrame DEF Own, Owns, Generating, Running

\* What a stack has been started for, or is saved for, is its own.
LEMMA StaysOwn ==
    ASSUME MappingConstants, TypeOK, Structure, Single, Own, Next, ~interrupted
    PROVE  Own'
BY GenerationOwn, OthersOwn, ControlOwn, StrayOwn DEF Next

\* A generation goes past the check of the file with its own map.
LEMMA GenerationSavedOwn ==
    ASSUME MappingConstants, TypeOK, Single, Own, SavedOwn, ~interrupted,
           NEW o \in Objects, Generation(o)
    PROVE  SavedOwn'
<1> USE GenerationFrame
<1>1. ASSUME NEW p \in Objects \ {o} PROVE ~Saved(p)'
  BY <1>1 DEF Saved, Archiving, Single, OneGenerates, Generating
<1>2. ASSUME Saved(o)' PROVE pcd'[o] = o
  <2> USE DEF Saved, Archiving, GeneratorTo, TypeOK
  <2>1. CASE CheckFresh(o)
    <3>1. pcd[o] \in {None, o}
      BY DEF Own, Owns
    <3> QED
      BY <1>2, <2>1, <3>1 DEF CheckFresh, Fresh
  <2>2. CASE StopStack(o)
    BY <1>2, <2>2 DEF StopStack, SavedOwn
  <2>3. CASE CollectOccupancy(o) \/ WaitForStableArtifacts(o) \/ BuildArchive(o)
    BY <1>2, <2>3 DEF CollectOccupancy, WaitForStableArtifacts, BuildArchive, Proceeds, SavedOwn
  <2>4. CASE Save(o) \/ Publish(o) \/ Resume(o) \/ AbortGeneration(o) \/ GenerationFails(o)
    BY <1>2, <2>4 DEF Save, Publish, Resume, AbortGeneration, GenerationFails
  <2> QED
    BY <2>1, <2>2, <2>3, <2>4 DEF Generation
<1> QED
  BY <1>1, <1>2 DEF SavedOwn

\* The files of a session that is archived are not given to another one.
LEMMA StaysSavedOwn ==
    ASSUME MappingConstants, TypeOK, Structure, Single, Own, SavedOwn, Next, ~interrupted
    PROVE  SavedOwn'
<1> USE DEF SavedOwn, Saved, Archiving
<1>1. CASE Watchdog \/ WatchdogContinues
  BY <1>1, WatchFrame
<1>2. CASE Close \/ Closing
  BY <1>2, CloseFrame
<1>3. ASSUME NEW o \in Objects, Prepare(o) PROVE SavedOwn'
  BY <1>3 DEF Prepare, Unused, TypeOK
<1>4. CASE StartBegins
  BY <1>4 DEF StartBegins, Single, Alone, Generating
<1>5. CASE StopGenerates
  BY <1>5 DEF StopGenerates, FirstStep, TypeOK
<1>6. CASE Start \/ Stop \/ \E next \in {"none", "prepare"} : Restart(next)
  BY <1>6 DEF Start, Stop, Restart
<1>7. CASE ControlContinues /\ ~(StartBegins \/ StopGenerates)
  BY <1>7 DEF ControlContinues, RenewFails, ReadinessPasses, ReadinessFails, Launches, LaunchFails,
              AbortAfterStartFailure, StartRejected, Started, Discard, AbortStack, ResetPaths
<1>8. ASSUME NEW o \in Objects, StrayEnds(o) PROVE SavedOwn'
  BY <1>8, StrayFrame
<1> QED
  BY <1>1, <1>2, <1>3, <1>4, <1>5, <1>6, <1>7, <1>8, GenerationSavedOwn DEF Next, Commands

-----------------------------------------------------------------------------
(* The theorems.                                                           *)
\* No step forgets an interruption.
LEMMA StaysInterrupted == ASSUME Next, interrupted PROVE interrupted'
BY DEF Next, ControlContinues, Commands, Watchdog, WatchdogContinues, Close, Closing, Generation,
       RenewFails, ReadinessPasses, ReadinessFails, StartBegins, Launches, LaunchFails,
       AbortAfterStartFailure, StartRejected, Started, StopGenerates, Discard, AbortStack,
       ResetPaths, Prepare, Start, Stop, Restart, ReadyExpires, InputLost, FailBegins,
       FailUnregisters, FailDrops, CloseCleans, CloseAborts, CloseEnds, Save, CheckFresh, StopStack,
       CollectOccupancy, WaitForStableArtifacts, BuildArchive, Proceeds, Publish, Resume,
       AbortGeneration, GenerationFails, StrayEnds

\* The threads of the map stream keep the types of their state, and agree on who
\* works on which session, whose stack runs and whose map is saved.
THEOREM MappingInvariant == ASSUME MappingConstants PROVE Spec => [](TypeOK /\ IInv)
<1>1. Init => TypeOK /\ IInv
  <2> SUFFICES ASSUME Init PROVE TypeOK /\ IInv
    OBVIOUS
  <2>1. TypeOK
    BY DEF MappingConstants, Init, TypeOK, Maybe, States, ControlSteps, GeneratorSteps, Idle,
           NotWatching
  <2>2. Structure /\ Stopped /\ ForgottenOfScout
    BY DEF MappingConstants, Init, Structure, ControlOwns, ControlFinds, WatchFinds, NotGenerating,
           Generating, Stopped, ForgottenOfScout, Idle, NotWatching, Launching, Starting,
           Discarding, Archiving
  <2>3. Single
    BY DEF Init, Single, Alone, OneGenerates, GeneratesCurrent, Generating, Idle
  <2>4. Own /\ SavedOwn
    BY DEF Init, Own, Owns, SavedOwn, Saved, Archiving, Generating, Idle
  <2> QED
    BY <2>1, <2>2, <2>3, <2>4 DEF IInv, Uninterrupted
<1>2. TypeOK /\ IInv /\ [Next]_vars => (TypeOK /\ IInv)'
  <2> SUFFICES ASSUME TypeOK, IInv, [Next]_vars PROVE (TypeOK /\ IInv)'
    OBVIOUS
  <2>1. CASE Next
    <3>1. TypeOK'
      BY <2>1, ControlTypes, OthersTypes, GenerationTypes, StrayTypes DEF IInv, Next
    <3>2. Structure'
      BY <2>1, GenerationStructure, WatchStructure, CloseStructure, ControlStructure,
         StrayStructure DEF IInv, Next
    <3>3. Stopped' /\ ForgottenOfScout'
      BY <2>1, StaysStopped, StaysKnown DEF IInv
    <3>4. ASSUME ~interrupted' PROVE Uninterrupted'
      <4>1. ~interrupted
        BY <2>1, <3>4, StaysInterrupted
      <4> QED
        BY <2>1, <3>4, <4>1, StaysSingle, StaysOwn, StaysSavedOwn DEF IInv, Uninterrupted
    <3> QED
      BY <3>1, <3>2, <3>3, <3>4 DEF IInv
  <2>2. CASE UNCHANGED vars
    BY <2>2 DEF vars, TypeOK, IInv, Structure, ControlOwns, ControlFinds, WatchFinds, NotGenerating,
                Stopped, ForgottenOfScout, Uninterrupted, Single, Alone, OneGenerates, GeneratesCurrent, Own, Owns,
                SavedOwn, Saved, Generating, Running
  <2> QED
    BY <2>1, <2>2
<1> QED
  BY <1>1, <1>2, PTL DEF Spec

\* The threads of the map stream keep the types of their state.
THEOREM MappingTypes == ASSUME MappingConstants PROVE Spec => []TypeOK
BY MappingInvariant, PTL

\* The archive published for a session holds a map of its own stack.
THEOREM OwnMapPublished == ASSUME MappingConstants PROVE Spec => []PublishedIsOwn
<1>1. IInv => PublishedIsOwn
  BY DEF IInv, Uninterrupted, SavedOwn, Saved, Archiving, PublishedIsOwn
<1> QED
  BY <1>1, MappingInvariant, PTL

\* A session's files are archived when no process writes them any more, wherever
\* the command that stops the stack waits for it: for every backend but the scout's.
THEOREM StoppedBeforeArchived == ASSUME MappingConstants PROVE Spec => []PublishedAfterStop
<1>1. IInv => PublishedAfterStop
  BY DEF IInv, Stopped, ForgottenOfScout, Archiving, PublishedAfterStop
<1> QED
  BY <1>1, MappingInvariant, PTL

\* A session that is generated stays the current one.
THEOREM GeneratedIsCurrent == ASSUME MappingConstants PROVE Spec => []GenerationOwnsSession
<1>1. IInv => GenerationOwnsSession
  BY DEF IInv, Uninterrupted, Single, GeneratesCurrent, Generating, GenerationOwnsSession
<1> QED
  BY <1>1, MappingInvariant, PTL
=============================================================================
