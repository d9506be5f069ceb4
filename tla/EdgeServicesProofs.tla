------------------------- MODULE EdgeServicesProofs -------------------------
(***************************************************************************)
(* The services beside the task coordinator keep what a run checks of each *)
(* of them, whichever of them works, for any sessions, maps, owners and    *)
(* tasks and any bounds.                                                   *)
(*                                                                         *)
(* The argument: a service that works takes a step of its specification,   *)
(* one that sleeps none, so the sum runs every service (MappingRuns and    *)
(* the other four); what is proved of the service holds in the sum.  The   *)
(* theorems about relocalization and the Wheeltec authority are proved     *)
(* here, about their instances, and those of the other services cited.     *)
(*                                                                         *)
(* Relocalization: what the state file says is localized, and what the     *)
(* shutdown would write there, has been found by a monitor of this life of *)
(* the process (UnsavedIsFixed); and the shutdown outdates every download  *)
(* of regions (RegionsOutdated).                                           *)
(*                                                                         *)
(* The Wheeltec driver is only enabled while the task's wish is recorded   *)
(* (Claimed), and the wish is only dropped once the driver has been given  *)
(* back or stopped (Given), so that the wish covers the driver at every    *)
(* call of a service, not only between two of them (Owned).                *)
(***************************************************************************)
EXTENDS EdgeServices, TLAPS

-----------------------------------------------------------------------------
(* Relocalization.                                                         *)
\* A result that is not in the file yet is one of this life of the process.
UnsavedIsFixed == relocUnsaved # None => relocUnsaved \in relocFixed

\* A download of regions is outdated by the shutdown.
RegionsOutdated == relocRegion # None /\ relocRegion.current => relocPower = "on"

\* The states of the threads.
StarterStates == [One -> Reloc!StarterWork \union {Reloc!Idle}]
MonitorStates == [One -> Reloc!MonitorWork \union Reloc!NoWork]
Download == [step: {"fetching", "verifying", "displaced"}, map: Pair]
FetcherStates == [Fetchers -> Download \union Reloc!NoWork]
RegionStates ==
    [step: {"fetching", "saved"}, of: Reloc!Identities, current: BOOLEAN] \union {None}

\* What the file says and what the shutdown will write is of this life.
RelocInv == Reloc!LocalizedSinceBoot /\ UnsavedIsFixed /\ RegionsOutdated

USE DEF StarterStates, MonitorStates, Download, FetcherStates, RegionStates

\* What outdates the threads keeps what they work on.
LEMMA RelocOutdatedTypes ==
    ASSUME Reloc!TypeOK
    PROVE  /\ Reloc!Outdated(relocStarter) \in StarterStates
           /\ Reloc!Unwatched \in MonitorStates
           /\ Reloc!Outdated(Reloc!Unwatched) \in MonitorStates
           /\ Reloc!Outdated(relocMonitor) \in MonitorStates
<1>1. Reloc!Outdated(relocStarter) \in StarterStates
  BY DEF Reloc!TypeOK, Reloc!Outdated, Reloc!StarterWork, Reloc!NoWork
<1>2. ASSUME NEW work \in MonitorStates
      PROVE  Reloc!Outdated(work) \in MonitorStates
  BY <1>2 DEF Reloc!Outdated, Reloc!MonitorWork
<1>3. Reloc!Unwatched \in MonitorStates
  BY DEF Reloc!TypeOK, Reloc!Unwatched, Reloc!MonitorWork
<1>4. Reloc!Outdated(Reloc!Unwatched) \in MonitorStates
  BY <1>2, <1>3
<1>5. Reloc!Outdated(relocMonitor) \in MonitorStates
  BY <1>2 DEF Reloc!TypeOK
<1> QED
  BY <1>1, <1>3, <1>4, <1>5

\* A thread has work, or it is told that it has none.
LEMMA RelocWorks ==
    ASSUME Reloc!TypeOK
    PROVE  /\ \A f \in Fetchers : relocFetcher[f].step \notin {"idle", "dead"} =>
                  relocFetcher[f] \in Download
           /\ \A m \in One : relocMonitor[m].step \notin {"idle", "dead"} =>
                  relocMonitor[m] \in Reloc!MonitorWork
BY DEF Reloc!TypeOK, Reloc!NoWork, Reloc!Idle, Reloc!Dead

\* Outdating a download of regions keeps its session.
LEMMA RelocOutdatedRegions ==
    ASSUME Reloc!TypeOK, Reloc!OutdateRegions
    PROVE  /\ relocRegion' \in RegionStates
           /\ relocRegion # None /\ relocRegion' # None =>
                  relocRegion'.step = relocRegion.step /\ ~relocRegion'.current
           /\ relocRegion = None => relocRegion' = None
BY DEF Reloc!TypeOK, Reloc!OutdateRegions

\* A monitor goes on watching or ends.
LEMMA RelocCallbackTypes ==
    ASSUME Reloc!TypeOK, NEW m \in One, relocMonitor[m].step \in {"calling", "accepted"}
    PROVE  Reloc!AfterCallback(m) \in MonitorStates
<1>1. relocMonitor[m] \in Reloc!MonitorWork
  BY RelocWorks
<1>2. [relocMonitor EXCEPT ![m] = Reloc!Idle] \in MonitorStates
  BY DEF Reloc!TypeOK, Reloc!NoWork
<1>3. [relocMonitor EXCEPT ![m].step = "watching", ![m].cached = ~Reloc!HealthRequired,
                    ![m].found = FALSE] \in MonitorStates
  BY <1>1 DEF Reloc!TypeOK, Reloc!MonitorWork, Reloc!HealthRequired
<1> QED
  BY <1>2, <1>3 DEF Reloc!AfterCallback, Reloc!Ends

\* The commands of the station keep the types.
LEMMA RelocCommandTypes == ASSUME Reloc!TypeOK, Reloc!Command PROVE Reloc!TypeOK'
<1> USE DEF Reloc!session, Reloc!threads, Reloc!fix, Reloc!Enters,
            Reloc!EntersUnrecorded, Reloc!Fails, Reloc!Record
<1>1. ASSUME NEW map \in Pair, NEW s \in One, Reloc!Negotiate(map, s) PROVE Reloc!TypeOK'
  <2>1. Reloc!NegotiatedAs(map) \in {"map_required", "localized", "map_ready"}
    BY DEF Reloc!NegotiatedAs
  <2>2. relocIdentity' \in Reloc!Identities /\ relocMapDir' \in Pair
    BY <1>1 DEF Reloc!Negotiate, Reloc!Identities
  <2>3. /\ relocState' \in Reloc!States
        /\ relocActive' \in [map: Pair, status: Reloc!States] \union {None}
    BY <1>1, <2>1 DEF Reloc!Negotiate, Reloc!States, Reloc!TypeOK
  <2>4. /\ relocStarter' \in StarterStates
        /\ relocMonitor' \in MonitorStates
        /\ relocRegion' \in RegionStates
        /\ relocStack' \in {"none", "running", "exited"}
    BY <1>1, RelocOutdatedTypes, RelocOutdatedRegions
       DEF Reloc!Negotiate, Reloc!NextOperation, Reloc!StackStops, Reloc!TypeOK
  <2> QED
    BY <1>1, <2>2, <2>3, <2>4 DEF Reloc!Negotiate, Reloc!TypeOK
<1>2. ASSUME Reloc!OfferMap PROVE Reloc!TypeOK'
  <2>1. relocIdentity.map \in Pair
    BY <1>2 DEF Reloc!OfferMap, Reloc!TypeOK, Reloc!Identities
  <2>2. relocFetcher' \in FetcherStates
    <3>1. PICK f \in Fetchers :
              \/ relocFetcher' = [relocFetcher EXCEPT ![f] =
                     [step |-> "fetching", map |-> relocIdentity.map]]
              \/ relocFetcher' = [relocFetcher EXCEPT ![f] = Reloc!Dead]
      BY <1>2 DEF Reloc!OfferMap, Reloc!Free, Reloc!TypeOK
    <3> QED
      BY <2>1, <3>1 DEF Reloc!TypeOK, Reloc!NoWork
  <2> QED
    BY <1>2, <2>1, <2>2 DEF Reloc!OfferMap, Reloc!TypeOK, Reloc!States
<1>3. ASSUME Reloc!StartRefused PROVE Reloc!TypeOK'
  BY <1>3 DEF Reloc!StartRefused, Reloc!StartAllowed, Reloc!TypeOK, Reloc!Identities,
              Reloc!States
<1>4. ASSUME Reloc!InitialPose PROVE Reloc!TypeOK'
  <2>1. relocIdentity.map \in Pair
    BY <1>4 DEF Reloc!InitialPose, Reloc!TypeOK, Reloc!Identities
  <2>2. relocMonitor' \in MonitorStates
    <3>1. PICK m \in One :
              \/ relocMonitor' = [Reloc!Unwatched EXCEPT ![m] =
                     [step |-> "watching", map |-> relocIdentity.map, found |-> FALSE,
                      cached |-> FALSE, watched |-> TRUE, current |-> TRUE]]
              \/ relocMonitor' = [relocMonitor EXCEPT ![m] = Reloc!Dead]
              \/ relocMonitor' = [Reloc!Unwatched EXCEPT ![m] = Reloc!Dead]
      BY <1>4 DEF Reloc!InitialPose, Reloc!Free, Reloc!TypeOK
    <3>2. Reloc!Unwatched \in MonitorStates /\ relocMonitor \in MonitorStates
      BY RelocOutdatedTypes DEF Reloc!TypeOK
    <3>3. [step |-> "watching", map |-> relocIdentity.map, found |-> FALSE,
           cached |-> FALSE, watched |-> TRUE, current |-> TRUE] \in Reloc!MonitorWork
      BY <2>1 DEF Reloc!MonitorWork
    <3>4. Reloc!Dead \in Reloc!NoWork
      BY DEF Reloc!NoWork
    <3> QED
      BY <3>1, <3>2, <3>3, <3>4
  <2>3. /\ relocState' = "relocalizing"
        /\ \/ relocActive' = [map |-> relocIdentity.map, status |-> "relocalizing"]
           \/ relocActive' = relocActive
        /\ relocHealthy' = relocHealthy \/ relocHealthy' = FALSE
        /\ UNCHANGED <<relocBackend, relocPower, relocIdentity, relocMapDir,
                       relocInstalled, relocStack, relocFetcher, relocStarter,
                       relocUnsaved, relocFixed, relocRegion>>
    BY <1>4 DEF Reloc!InitialPose
  <2>4. relocState' \in Reloc!States
    BY <2>3 DEF Reloc!States
  <2>5. relocActive' \in [map: Pair, status: Reloc!States] \union {None}
    BY <2>1, <2>3, <2>4 DEF Reloc!TypeOK
  <2>6. relocHealthy' \in BOOLEAN
    BY <2>3 DEF Reloc!TypeOK
  <2> QED
    BY <2>2, <2>3, <2>4, <2>5, <2>6 DEF Reloc!TypeOK
<1>5. ASSUME Reloc!OfferRegions PROVE Reloc!TypeOK'
  BY <1>5 DEF Reloc!OfferRegions, Reloc!TypeOK
<1>6. ASSUME NEW replace \in BOOLEAN, Reloc!ReuseStack(replace) PROVE Reloc!TypeOK'
  <2>1. relocIdentity.map \in Pair
    BY <1>6 DEF Reloc!ReuseStack, Reloc!TypeOK, Reloc!Identities
  <2> QED
    BY <1>6, <2>1, RelocOutdatedTypes DEF Reloc!ReuseStack, Reloc!TypeOK, Reloc!States
<1>7. ASSUME NEW replace \in BOOLEAN, Reloc!StartStack(replace) PROVE Reloc!TypeOK'
  <2>1. relocIdentity.map \in Pair
    BY <1>7 DEF Reloc!StartStack, Reloc!StartAllowed, Reloc!TypeOK, Reloc!Identities
  <2>2. relocStarter' \in StarterStates
    <3>1. PICK s \in One : relocStarter' = [Reloc!Outdated(relocStarter) EXCEPT ![s] =
              [step |-> "begin", map |-> relocIdentity.map, current |-> TRUE]]
      BY <1>7 DEF Reloc!StartStack, Reloc!Free, Reloc!TypeOK
    <3> QED
      BY <2>1, <3>1, RelocOutdatedTypes DEF Reloc!StarterWork
  <2>3. relocMonitor' \in MonitorStates
    BY <1>7, RelocOutdatedTypes DEF Reloc!StartStack
  <2> QED
    BY <1>7, <2>1, <2>2, <2>3, RelocOutdatedRegions
       DEF Reloc!StartStack, Reloc!TypeOK, Reloc!States
<1> QED
  BY <1>1, <1>2, <1>3, <1>4, <1>5, <1>6, <1>7 DEF Reloc!Command

\* The downloads keep the types.
LEMMA RelocFetcherTypes ==
    ASSUME Reloc!TypeOK, NEW f \in Fetchers, Reloc!FetcherStep(f)
    PROVE  Reloc!TypeOK'
<1> USE DEF Reloc!session, Reloc!threads, Reloc!fix, Reloc!Enters,
            Reloc!EntersUnrecorded, Reloc!Fails, Reloc!Record, Reloc!FetcherTo,
            Reloc!Ends
<1>1. relocFetcher[f] \in Download
  BY RelocWorks DEF Reloc!FetcherStep, Reloc!Fetched, Reloc!FetchFails, Reloc!FetchDies,
                    Reloc!Displace, Reloc!Install
<1>2. relocFetcher' \in FetcherStates
  BY <1>1 DEF Reloc!FetcherStep, Reloc!Fetched, Reloc!FetchFails, Reloc!FetchDies,
              Reloc!Displace, Reloc!Install, Reloc!TypeOK, Reloc!NoWork
<1>3. relocInstalled' \subseteq Pair
  BY <1>1 DEF Reloc!FetcherStep, Reloc!Fetched, Reloc!FetchFails, Reloc!FetchDies,
              Reloc!Displace, Reloc!Install, Reloc!TypeOK
<1>4. relocState' \in Reloc!States /\ relocMapDir' \in Pair \union {None}
      /\ relocActive' \in [map: Pair, status: Reloc!States] \union {None}
  BY <1>1 DEF Reloc!FetcherStep, Reloc!Fetched, Reloc!FetchFails, Reloc!FetchDies,
              Reloc!Displace, Reloc!Install, Reloc!TypeOK, Reloc!States
<1>5. UNCHANGED <<relocBackend, relocPower, relocIdentity, relocStack, relocStarter,
                  relocMonitor, relocHealthy, relocUnsaved, relocRegion, relocFixed>>
  BY DEF Reloc!FetcherStep, Reloc!Fetched, Reloc!FetchFails, Reloc!FetchDies,
         Reloc!Displace, Reloc!Install
<1> QED
  BY <1>2, <1>3, <1>4, <1>5 DEF Reloc!TypeOK

\* The stack threads keep the types.
LEMMA RelocStarterTypes ==
    ASSUME Reloc!TypeOK, NEW s \in One, Reloc!StarterStep(s)
    PROVE  Reloc!TypeOK'
<1> USE DEF Reloc!session, Reloc!threads, Reloc!fix, Reloc!Enters,
            Reloc!EntersUnrecorded, Reloc!Fails, Reloc!Record, Reloc!StarterTo,
            Reloc!Ends, Reloc!StackStops
<1>1. relocStarter[s] \in Reloc!StarterWork
  BY DEF Reloc!StarterStep, Reloc!StackBegins, Reloc!Launch, Reloc!StackFails,
         Reloc!StackReady, Reloc!StartAnswers, Reloc!TypeOK, Reloc!Idle
<1>2. relocStarter' \in StarterStates
  BY <1>1 DEF Reloc!StarterStep, Reloc!StackBegins, Reloc!Launch, Reloc!StackFails,
              Reloc!StackReady, Reloc!StartAnswers, Reloc!TypeOK, Reloc!StarterWork
<1>3. relocStarter[s].map \in Pair
  BY <1>1 DEF Reloc!StarterWork
<1> QED
  BY <1>2, <1>3 DEF Reloc!StarterStep, Reloc!StackBegins, Reloc!Launch,
                    Reloc!StackFails, Reloc!StackReady, Reloc!StartAnswers,
                    Reloc!TypeOK, Reloc!States

\* The monitor threads keep the types.
LEMMA RelocMonitorTypes ==
    ASSUME Reloc!TypeOK, NEW m \in One, Reloc!MonitorStep(m)
    PROVE  Reloc!TypeOK'
<1> USE DEF Reloc!session, Reloc!threads, Reloc!fix, Reloc!Enters,
            Reloc!EntersUnrecorded, Reloc!Fails, Reloc!Record, Reloc!Ends
<1>1. relocMonitor[m] \in Reloc!MonitorWork
  BY RelocWorks DEF Reloc!MonitorStep, Reloc!MonitorSees, Reloc!ResultAccepted,
                    Reloc!MonitorCancelled, Reloc!NotLocalized, Reloc!Localized
<1>2. relocMonitor' \in MonitorStates
  BY <1>1, RelocCallbackTypes DEF Reloc!MonitorStep, Reloc!MonitorSees,
                                  Reloc!ResultAccepted, Reloc!MonitorCancelled,
                                  Reloc!NotLocalized, Reloc!Localized, Reloc!TypeOK,
                                  Reloc!MonitorWork, Reloc!NoWork
<1>3. relocMonitor[m].map \in Pair
  BY <1>1 DEF Reloc!MonitorWork
<1> QED
  BY <1>2, <1>3 DEF Reloc!MonitorStep, Reloc!MonitorSees, Reloc!ResultAccepted,
                    Reloc!MonitorCancelled, Reloc!NotLocalized, Reloc!Localized,
                    Reloc!TypeOK, Reloc!States

\* The process, its stack and the regions' thread keep the types.
LEMMA RelocProcessTypes ==
    ASSUME Reloc!TypeOK,
           \/ relocPower # "off" /\ (Reloc!SaveRegions \/ Reloc!RegionsEnd)
           \/ Reloc!Stop \/ Reloc!Exit \/ Reloc!Boot
           \/ Reloc!StackDies \/ Reloc!HealthChanges
    PROVE  Reloc!TypeOK'
<1> USE DEF Reloc!session, Reloc!threads, Reloc!fix, Reloc!Record
<1>1. ASSUME Reloc!SaveRegions \/ Reloc!RegionsEnd PROVE Reloc!TypeOK'
  BY <1>1 DEF Reloc!SaveRegions, Reloc!RegionsEnd, Reloc!TypeOK
<1>2. ASSUME Reloc!Stop PROVE Reloc!TypeOK'
  BY <1>2, RelocOutdatedTypes, RelocOutdatedRegions
     DEF Reloc!Stop, Reloc!PersistsAtStop, Reloc!StackStops, Reloc!TypeOK, Reloc!States
<1>3. ASSUME Reloc!Exit PROVE Reloc!TypeOK'
  BY <1>3 DEF Reloc!Exit, Reloc!Volatile, Reloc!TypeOK, Reloc!NoWork, Reloc!States
<1>4. ASSUME Reloc!Boot PROVE Reloc!TypeOK'
  BY <1>4 DEF Reloc!Boot, Reloc!Invalidated, Reloc!TypeOK, Reloc!States
<1>5. ASSUME Reloc!StackDies \/ Reloc!HealthChanges PROVE Reloc!TypeOK'
  BY <1>5 DEF Reloc!StackDies, Reloc!HealthChanges, Reloc!TypeOK
<1> QED
  BY <1>1, <1>2, <1>3, <1>4, <1>5

\* No command of the station says that a map is localized.
LEMMA RelocCommandInv == ASSUME Reloc!TypeOK, RelocInv, Reloc!Command PROVE RelocInv'
<1> USE DEF RelocInv, Reloc!LocalizedSinceBoot, UnsavedIsFixed, RegionsOutdated,
            Reloc!session, Reloc!threads, Reloc!fix, Reloc!Enters,
            Reloc!EntersUnrecorded, Reloc!Fails, Reloc!Record
<1>1. ASSUME NEW map \in Pair, NEW s \in One, Reloc!Negotiate(map, s) PROVE RelocInv'
  BY <1>1, RelocOutdatedRegions DEF Reloc!Negotiate, Reloc!NextOperation
<1>2. CASE Reloc!OfferMap \/ Reloc!StartRefused \/ Reloc!InitialPose
  <2>1. CASE Reloc!OfferMap
    BY <2>1 DEF Reloc!OfferMap
  <2>2. CASE Reloc!StartRefused
    BY <2>2 DEF Reloc!StartRefused
  <2>3. CASE Reloc!InitialPose
    BY <2>3 DEF Reloc!InitialPose
  <2> QED
    BY <1>2, <2>1, <2>2, <2>3
<1>5. CASE Reloc!OfferRegions
  BY <1>5 DEF Reloc!OfferRegions
<1>3. ASSUME NEW replace \in BOOLEAN, Reloc!ReuseStack(replace) PROVE RelocInv'
  BY <1>3 DEF Reloc!ReuseStack
<1>4. ASSUME NEW replace \in BOOLEAN, Reloc!StartStack(replace) PROVE RelocInv'
  BY <1>4, RelocOutdatedRegions DEF Reloc!StartStack
<1> QED
  BY <1>1, <1>2, <1>3, <1>4, <1>5 DEF Reloc!Command

\* A monitor that says so has localized it.
LEMMA RelocThreadInv ==
    ASSUME Reloc!TypeOK, RelocInv, \/ \E f \in Fetchers : Reloc!FetcherStep(f)
                         \/ \E s \in One : Reloc!StarterStep(s)
                         \/ \E m \in One : Reloc!MonitorStep(m)
    PROVE  RelocInv'
<1> USE DEF RelocInv, Reloc!LocalizedSinceBoot, UnsavedIsFixed, RegionsOutdated,
            Reloc!session, Reloc!threads, Reloc!fix, Reloc!Enters,
            Reloc!EntersUnrecorded, Reloc!Fails, Reloc!Record
<1>1. ASSUME NEW f \in Fetchers, Reloc!FetcherStep(f) PROVE RelocInv'
  BY <1>1 DEF Reloc!FetcherStep, Reloc!Fetched, Reloc!FetchFails, Reloc!FetchDies,
              Reloc!Displace, Reloc!Install
<1>2. ASSUME NEW s \in One, Reloc!StarterStep(s) PROVE RelocInv'
  BY <1>2 DEF Reloc!StarterStep, Reloc!StackBegins, Reloc!Launch, Reloc!StackFails,
              Reloc!StackReady, Reloc!StartAnswers
<1>3. ASSUME NEW m \in One, Reloc!MonitorStep(m) PROVE RelocInv'
  BY <1>3 DEF Reloc!MonitorStep, Reloc!MonitorSees, Reloc!ResultAccepted,
              Reloc!MonitorCancelled, Reloc!NotLocalized, Reloc!Localized
<1> QED
  BY <1>1, <1>2, <1>3

\* The shutdown writes what a monitor found, and a start believes nothing.
LEMMA RelocProcessInv ==
    ASSUME Reloc!TypeOK, RelocInv,
           \/ relocPower # "off" /\ (Reloc!SaveRegions \/ Reloc!RegionsEnd)
           \/ Reloc!Stop \/ Reloc!Exit \/ Reloc!Boot
           \/ Reloc!StackDies \/ Reloc!HealthChanges
    PROVE  RelocInv'
<1> USE DEF RelocInv, Reloc!LocalizedSinceBoot, UnsavedIsFixed, RegionsOutdated,
            Reloc!session, Reloc!threads, Reloc!fix, Reloc!Enters,
            Reloc!EntersUnrecorded, Reloc!Fails, Reloc!Record
<1>1. CASE Reloc!SaveRegions \/ Reloc!RegionsEnd \/ Reloc!StackDies \/ Reloc!HealthChanges
  BY <1>1 DEF Reloc!SaveRegions, Reloc!RegionsEnd, Reloc!StackDies, Reloc!HealthChanges,
              Reloc!TypeOK
<1>2. CASE Reloc!Stop
  BY <1>2, RelocOutdatedRegions DEF Reloc!Stop, Reloc!PersistsAtStop
<1>3. CASE Reloc!Exit
  BY <1>3 DEF Reloc!Exit, Reloc!Volatile
<1>4. CASE Reloc!Boot
  BY <1>4 DEF Reloc!Boot, Reloc!Invalidated, Reloc!TypeOK
<1> QED
  BY <1>1, <1>2, <1>3, <1>4

\* Whatever threads, crashes and shutdowns come, what is unsaved or on disk is of
\* this life of the process.
THEOREM RelocInvariant == Reloc!Spec => [](Reloc!TypeOK /\ RelocInv)
<1>1. Reloc!Init => Reloc!TypeOK /\ RelocInv
  BY DEF Reloc!Init, Reloc!TypeOK, Reloc!NoWork, RelocInv, Reloc!LocalizedSinceBoot,
         UnsavedIsFixed, RegionsOutdated, Reloc!States
<1>2. Reloc!TypeOK /\ RelocInv /\ [Reloc!Next]_Reloc!vars => (Reloc!TypeOK /\ RelocInv)'
  <2> SUFFICES ASSUME Reloc!TypeOK, RelocInv, [Reloc!Next]_Reloc!vars
               PROVE  (Reloc!TypeOK /\ RelocInv)'
    OBVIOUS
  <2>1. CASE Reloc!Next
    <3>1. Reloc!TypeOK'
      BY <2>1, RelocCommandTypes, RelocFetcherTypes, RelocStarterTypes,
         RelocMonitorTypes, RelocProcessTypes
         DEF Reloc!Next
    <3>2. RelocInv'
      BY <2>1, RelocCommandInv, RelocThreadInv, RelocProcessInv DEF Reloc!Next
    <3> QED
      BY <3>1, <3>2
  <2>2. CASE UNCHANGED Reloc!vars
    BY <2>2 DEF Reloc!vars, Reloc!TypeOK, RelocInv, Reloc!LocalizedSinceBoot,
                UnsavedIsFixed, RegionsOutdated, Reloc!session, Reloc!threads, Reloc!fix
  <2> QED
    BY <2>1, <2>2
<1> QED
  BY <1>1, <1>2, PTL DEF Reloc!Spec

\* The state file says that a map is localized only of one that has been localized
\* since the process started.
THEOREM RelocFileOfThisLife == Reloc!Spec => []Reloc!LocalizedSinceBoot
<1>1. RelocInv => Reloc!LocalizedSinceBoot
  BY DEF RelocInv
<1> QED
  BY <1>1, RelocInvariant, PTL

\* Regions are saved only for the session negotiated then, and not after the
\* shutdown has begun.
THEOREM RegionsSaved == Reloc!Spec => Reloc!RegionsOfSession
<1>1. Reloc!TypeOK /\ RelocInv /\ [Reloc!Next]_Reloc!vars =>
          [Reloc!SavesRegions => relocPower = "on" /\ relocIdentity = relocRegion.of]_Reloc!vars
  <2> SUFFICES ASSUME Reloc!TypeOK, RelocInv, Reloc!Next, Reloc!SavesRegions
               PROVE  relocPower = "on" /\ relocIdentity = relocRegion.of
    OBVIOUS
  <2> USE DEF Reloc!SavesRegions, Reloc!session, Reloc!threads, Reloc!fix
  <2>1. CASE Reloc!SaveRegions
    BY <2>1 DEF Reloc!SaveRegions, Reloc!RegionsCurrent, RelocInv, RegionsOutdated
  <2>2. ASSUME NEW map \in Pair, NEW s \in One, Reloc!Negotiate(map, s) PROVE FALSE
    BY <2>2, RelocOutdatedRegions DEF Reloc!Negotiate, Reloc!NextOperation
  <2>3. ASSUME NEW replace \in BOOLEAN, Reloc!ReuseStack(replace) \/ Reloc!StartStack(replace)
        PROVE  FALSE
    BY <2>3, RelocOutdatedRegions DEF Reloc!ReuseStack, Reloc!StartStack
  <2>4. CASE \/ Reloc!OfferMap \/ Reloc!StartRefused
             \/ Reloc!InitialPose \/ Reloc!OfferRegions
    BY <2>4 DEF Reloc!OfferMap, Reloc!StartRefused, Reloc!InitialPose,
                Reloc!OfferRegions
  <2>5. CASE \/ \E f \in Fetchers : Reloc!FetcherStep(f)
             \/ \E s \in One : Reloc!StarterStep(s)
             \/ \E m \in One : Reloc!MonitorStep(m)
    BY <2>5 DEF Reloc!FetcherStep, Reloc!Fetched, Reloc!FetchFails, Reloc!FetchDies,
                Reloc!Displace, Reloc!Install, Reloc!StarterStep, Reloc!StackBegins,
                Reloc!Launch, Reloc!StackFails, Reloc!StackReady, Reloc!StartAnswers,
                Reloc!MonitorStep, Reloc!MonitorSees, Reloc!ResultAccepted,
                Reloc!MonitorCancelled, Reloc!NotLocalized, Reloc!Localized
  <2>6. CASE \/ Reloc!RegionsEnd \/ Reloc!Exit \/ Reloc!Boot
             \/ Reloc!StackDies \/ Reloc!HealthChanges
    BY <2>6 DEF Reloc!RegionsEnd, Reloc!Exit, Reloc!Volatile, Reloc!Boot,
                Reloc!StackDies, Reloc!HealthChanges
  <2>7. CASE Reloc!Stop
    BY <2>7, RelocOutdatedRegions DEF Reloc!Stop
  <2> QED
    BY <2>1, <2>2, <2>3, <2>4, <2>5, <2>6, <2>7 DEF Reloc!Next, Reloc!Command
<1> QED
  BY <1>1, RelocInvariant, PTL DEF Reloc!Spec, Reloc!RegionsOfSession

-----------------------------------------------------------------------------
(* The authority over a Wheeltec vehicle.                                  *)
\* The driver obeys the autonomy.
Authorized == wheeltecDriver = "enabled" /\ ~wheeltecUnstopped

Owned == Authorized => wheeltecDesired
Claimed == wheeltecTransition \in {"enableDriver", "arm"} => wheeltecDesired
Given == wheeltecTransition \in {"regate", "disown"} => ~Authorized

AuthInv == Owned /\ Claimed /\ Given

\* Every variable keeps its type, whatever calls fail or lose their answer.
THEOREM AuthTypes == Auth!Spec => []Auth!TypeOK
<1>1. Auth!Init => Auth!TypeOK
  BY DEF Auth!Init, Auth!TypeOK, Auth!Steps, Auth!Threads
<1>2. Auth!TypeOK /\ [Auth!Next]_Auth!vars => Auth!TypeOK'
  <2> SUFFICES ASSUME Auth!TypeOK, [Auth!Next]_Auth!vars PROVE Auth!TypeOK'
    OBVIOUS
  <2> USE DEF Auth!TypeOK, Auth!Steps
  <2>1. CASE Auth!Enable \/ Auth!Release \/ Auth!Stop \/ Auth!Reset
    BY <2>1 DEF Auth!Enable, Auth!Release, Auth!Stop, Auth!Reset, Auth!Begins,
                Auth!config, Auth!inputs, Auth!device
  <2>2. CASE Auth!Service
    <3> USE DEF Auth!Service, Auth!ResetGate, Auth!Claim, Auth!EnableDriver, Auth!Arm,
                Auth!ReleaseGate, Auth!ReleaseDriver, Auth!StopGate, Auth!StopDriver,
                Auth!ResetDriver, Auth!Regate, Auth!Disown, Auth!Calls, Auth!device
    <3>1. UNCHANGED <<Auth!config, Auth!inputs, wheeltecPublishing, wheeltecPublished>>
      BY <2>2
    <3>2. wheeltecTransition' \in Auth!Steps
      BY <2>2 DEF Auth!Fallback
    <3>3. wheeltecDesired' \in BOOLEAN
      BY <2>2
    <3>4. wheeltecArmed' \in BOOLEAN /\ wheeltecUnstopped' \in BOOLEAN
      BY <2>2 DEF Auth!Gate, Auth!GateDone, Auth!Driver, Auth!DriverDone
    <3>5. wheeltecDriver' \in {"manual", "enabled", "stopped"}
      BY <2>2 DEF Auth!Gate, Auth!GateDone, Auth!Driver, Auth!DriverDone
    <3> QED
      BY <3>1, <3>2, <3>3, <3>4, <3>5 DEF Auth!config, Auth!inputs
  <2>3. CASE Auth!TimerFires \/ Auth!DriverPublishes \/ Auth!ServicePublishes
    <3>1. wheeltecPublishing' \in [Auth!Threads -> {"none", "enabled", "disabled"}]
      BY <2>3 DEF Auth!TimerFires, Auth!DriverPublishes, Auth!ServicePublishes,
                  Auth!Computes
    <3> QED
      BY <2>3, <3>1 DEF Auth!TimerFires, Auth!DriverPublishes, Auth!ServicePublishes,
                        Auth!config, Auth!inputs, Auth!device
  <2>4. CASE Auth!DriverHeard
    <3>1. wheeltecHeard' \in BOOLEAN
      BY <2>4 DEF Auth!DriverHeard
    <3> QED
      BY <2>4, <3>1 DEF Auth!DriverHeard, Auth!config, Auth!device
  <2>5. ASSUME NEW t \in Auth!Threads, Auth!Announce(t) PROVE Auth!TypeOK'
    <3>1. wheeltecPublished' \in BOOLEAN
      BY <2>5 DEF Auth!Announce
    <3>2. wheeltecPublishing' \in [Auth!Threads -> {"none", "enabled", "disabled"}]
      BY <2>5 DEF Auth!Announce
    <3> QED
      BY <2>5, <3>1, <3>2 DEF Auth!Announce, Auth!config, Auth!inputs, Auth!device
  <2>6. CASE Auth!OdomChanges
    <3>1. wheeltecFresh' \in BOOLEAN /\ wheeltecLocalized' \in BOOLEAN
      BY <2>6 DEF Auth!OdomChanges
    <3> QED
      BY <2>6, <3>1 DEF Auth!OdomChanges, Auth!config, Auth!device
  <2>7. CASE Auth!DriverChanges
    BY <2>7 DEF Auth!DriverChanges, Auth!config, Auth!inputs
  <2>8. CASE UNCHANGED Auth!vars
    BY <2>8 DEF Auth!vars, Auth!config, Auth!inputs, Auth!device
  <2> QED
    BY <2>1, <2>2, <2>3, <2>4, <2>5, <2>6, <2>7, <2>8 DEF Auth!Next
<1> QED
  BY <1>1, <1>2, PTL DEF Auth!Spec

\* Each call of a service keeps the wish with the authority it covers.
LEMMA AuthServiceStep == ASSUME AuthInv, Auth!TypeOK, Auth!Service PROVE AuthInv'
<1> USE DEF AuthInv, Owned, Claimed, Given, Authorized
<1>1. CASE Auth!ResetGate
  BY <1>1 DEF Auth!ResetGate, Auth!Calls, Auth!Gate, Auth!GateDone, Auth!Fallback
<1>2. CASE Auth!Claim
  BY <1>2 DEF Auth!Claim, Auth!Calls, Auth!device
<1>3. CASE Auth!EnableDriver
  BY <1>3 DEF Auth!EnableDriver, Auth!Calls, Auth!Driver, Auth!DriverDone, Auth!Fallback
<1>4. CASE Auth!Arm
  BY <1>4 DEF Auth!Arm, Auth!Calls, Auth!Gate, Auth!GateDone, Auth!Fallback
<1>5. CASE Auth!ReleaseGate
  BY <1>5 DEF Auth!ReleaseGate, Auth!Calls, Auth!Gate
<1>6. CASE Auth!ReleaseDriver
  BY <1>6 DEF Auth!ReleaseDriver, Auth!Calls, Auth!Driver, Auth!DriverDone,
              Auth!Fallback
<1>7. CASE Auth!StopGate
  BY <1>7 DEF Auth!StopGate, Auth!Calls, Auth!Gate
<1>8. CASE Auth!StopDriver
  BY <1>8 DEF Auth!StopDriver, Auth!Calls, Auth!DriverDone
<1>9. CASE Auth!ResetDriver
  BY <1>9 DEF Auth!ResetDriver, Auth!Calls, Auth!Driver, Auth!DriverDone
<1>10. CASE Auth!Regate
  BY <1>10 DEF Auth!Regate, Auth!Calls, Auth!Gate
<1>11. CASE Auth!Disown
  BY <1>11 DEF Auth!Disown, Auth!Calls, Auth!device
<1> QED
  BY <1>1, <1>2, <1>3, <1>4, <1>5, <1>6, <1>7, <1>8, <1>9, <1>10, <1>11 DEF Auth!Service

\* The wish of a task covers the driver at every call of a service.
THEOREM AuthInvariant == Auth!Spec => []AuthInv
<1>1. Auth!Init => AuthInv
  BY DEF Auth!Init, AuthInv, Owned, Claimed, Given, Authorized
<1>2. AuthInv /\ Auth!TypeOK /\ [Auth!Next]_Auth!vars => AuthInv'
  <2> SUFFICES ASSUME AuthInv, Auth!TypeOK, [Auth!Next]_Auth!vars PROVE AuthInv'
    OBVIOUS
  <2> USE DEF AuthInv, Owned, Claimed, Given, Authorized
  <2>1. CASE Auth!Enable \/ Auth!Release \/ Auth!Stop \/ Auth!Reset
    BY <2>1 DEF Auth!Enable, Auth!Release, Auth!Stop, Auth!Reset, Auth!Begins,
                Auth!device
  <2>2. CASE Auth!Service
    BY <2>2, AuthServiceStep
  <2>3. CASE \/ Auth!TimerFires \/ Auth!DriverHeard \/ Auth!DriverPublishes
             \/ Auth!ServicePublishes \/ Auth!OdomChanges
    BY <2>3 DEF Auth!TimerFires, Auth!DriverHeard, Auth!DriverPublishes,
                Auth!ServicePublishes, Auth!OdomChanges, Auth!device
  <2>4. ASSUME NEW t \in Auth!Threads, Auth!Announce(t) PROVE AuthInv'
    BY <2>4 DEF Auth!Announce, Auth!device
  <2>5. CASE Auth!DriverChanges
    BY <2>5 DEF Auth!DriverChanges
  <2>6. CASE UNCHANGED Auth!vars
    BY <2>6 DEF Auth!vars, Auth!device
  <2> QED
    BY <2>1, <2>2, <2>3, <2>4, <2>5, <2>6 DEF Auth!Next
<1> QED
  BY <1>1, <1>2, AuthTypes, PTL DEF Auth!Spec

\* The driver obeys the autonomy only for a task that has asked for it, between
\* two services, and whatever calls of the last one failed or lost an answer.
THEOREM AuthOwned == Auth!Spec => []Auth!HeldAuthorityIsOwned
<1>1. AuthInv => Auth!HeldAuthorityIsOwned
  BY DEF AuthInv, Owned, Authorized, Auth!HeldAuthorityIsOwned
<1> QED
  BY <1>1, AuthInvariant, PTL

-----------------------------------------------------------------------------
(* The sum of the services.                                                *)
\* In the sum, the mapping session takes its own steps or none.
LEMMA MappingRuns == Spec => Mapping!Spec
<1>1. Init => Mapping!Init
  BY DEF Init, MappingSleeps
<1>2. [Next]_vars => [Mapping!Next]_Mapping!vars
  BY DEF Next, vars, OthersRest, MappingVars, Mapping!vars
<1> QED
  BY <1>1, <1>2, PTL DEF Spec, Mapping!Spec

\* In the sum, the preview takes its own steps or none.
LEMMA PreviewRuns == Spec => Preview!Spec
<1>1. Init => Preview!Init
  BY DEF Init, PreviewSleeps
<1>2. [Next]_vars => [Preview!Next]_Preview!vars
  BY DEF Next, vars, OthersRest, PreviewVars, Preview!vars, Preview!life,
         Preview!pipeline, Preview!http
<1> QED
  BY <1>1, <1>2, PTL DEF Spec, Preview!Spec

\* In the sum, relocalization takes its own steps or none.
LEMMA RelocRuns == Spec => Reloc!Spec
<1>1. Init => Reloc!Init
  BY DEF Init, RelocalizerSleeps
<1>2. [Next]_vars => [Reloc!Next]_Reloc!vars
  BY DEF Next, vars, OthersRest, RelocalizerVars, Reloc!vars, Reloc!session,
         Reloc!threads, Reloc!fix
<1> QED
  BY <1>1, <1>2, PTL DEF Spec, Reloc!Spec

\* In the sum, the stages takes its own steps or none.
LEMMA StagesRuns == Spec => Stages!Spec
<1>1. Init => Stages!Init
  BY DEF Init, StagesSleeps
<1>2. [Next]_vars => [Stages!Next]_Stages!vars
  BY DEF Next, vars, OthersRest, StagesVars, Stages!vars, Stages!active
<1> QED
  BY <1>1, <1>2, PTL DEF Spec, Stages!Spec

\* In the sum, the flight takes its own steps or none.
LEMMA FlightRuns == Spec => Flight!Spec
<1>1. Init => Flight!Init
  BY DEF Init, FlightSleeps
<1>2. [Next]_vars => [Flight!Next]_Flight!vars
  BY DEF Next, vars, OthersRest, FlightVars, Flight!vars, Flight!adapter,
         Flight!manager, Flight!locks
<1> QED
  BY <1>1, <1>2, PTL DEF Spec, Flight!Spec

\* In the sum, the authority takes its own steps or none.
LEMMA AuthRuns == Spec => Auth!Spec
<1>1. Init => Auth!Init
  BY DEF Init, AuthoritySleeps
<1>2. [Next]_vars => [Auth!Next]_Auth!vars
  BY DEF Next, vars, OthersRest, AuthorityVars, Auth!vars, Auth!config, Auth!inputs,
         Auth!device
<1> QED
  BY <1>1, <1>2, PTL DEF Spec, Auth!Spec

-----------------------------------------------------------------------------
(* The theorems.                                                           *)
\* The service that works keeps the types of its state.
THEOREM TypesKept == Spec => []TypeOK
<1>1. Mapping!Spec => []Mapping!TypeOK
  BY ServicesConstants, Mapping!MappingTypes
<1>2. Preview!Spec => []Preview!TypeOK
  BY ServicesConstants, Preview!PreviewTypes
<1>3. Reloc!Spec => []Reloc!TypeOK
  BY RelocInvariant, PTL
<1>4. Stages!Spec => []Stages!TypeOK
  BY ServicesConstants, Stages!TypeCorrect
<1>5. Flight!Spec => []Flight!TypeOK
  BY ServicesConstants, Flight!TypeCorrect
<1>6. Mapping!TypeOK /\ Preview!TypeOK /\ Reloc!TypeOK /\ Stages!TypeOK /\ Flight!TypeOK
          /\ Auth!TypeOK => TypeOK
  BY DEF TypeOK
<1> QED
  BY <1>1, <1>2, <1>3, <1>4, <1>5, <1>6, AuthTypes, MappingRuns, PreviewRuns, RelocRuns,
     StagesRuns, FlightRuns, AuthRuns, PTL

\* The archive published for a session is of its own map, whoever saves or starts
\* meanwhile, unless the watchdog has interrupted a generation.
THEOREM OwnMapPublished == Spec => []PublishedIsOwn
<1>1. Mapping!Spec => []Mapping!PublishedIsOwn
  BY ServicesConstants, Mapping!OwnMapPublished
<1>2. Mapping!PublishedIsOwn => PublishedIsOwn
  BY DEF PublishedIsOwn
<1> QED
  BY <1>1, <1>2, MappingRuns, PTL

\* Files are archived when the stack that wrote them has stopped, on every vehicle
\* but the scout, whose stop script may report success before.
THEOREM StoppedBeforeArchived == Spec => []PublishedAfterStop
<1>1. Mapping!Spec => []Mapping!PublishedAfterStop
  BY ServicesConstants, Mapping!StoppedBeforeArchived
<1>2. Mapping!PublishedAfterStop => PublishedAfterStop
  BY DEF PublishedAfterStop
<1> QED
  BY <1>1, <1>2, MappingRuns, PTL

\* No other session is prepared while one is generated.
THEOREM GeneratedIsCurrent == Spec => []GenerationOwnsSession
<1>1. Mapping!Spec => []Mapping!GenerationOwnsSession
  BY ServicesConstants, Mapping!GeneratedIsCurrent
<1>2. Mapping!GenerationOwnsSession => GenerationOwnsSession
  BY DEF GenerationOwnsSession
<1> QED
  BY <1>1, <1>2, MappingRuns, PTL

\* A fragment that can be downloaded is counted as not acknowledged.
THEOREM FragmentsCounted == Spec => []ServedIsCounted
<1>1. Preview!Spec => []Preview!ServedIsCounted
  BY ServicesConstants, Preview!FragmentsCounted
<1>2. Preview!ServedIsCounted => ServedIsCounted
  BY DEF ServedIsCounted
<1> QED
  BY <1>1, <1>2, PreviewRuns, PTL

\* No fragment file is left behind.
THEOREM FilesReferenced == Spec => []NoOrphanFile
<1>1. Preview!Spec => []Preview!NoOrphanFile
  BY ServicesConstants, Preview!FilesReferenced
<1>2. Preview!NoOrphanFile => NoOrphanFile
  BY DEF NoOrphanFile
<1> QED
  BY <1>1, <1>2, PreviewRuns, PTL

\* A session that does not map any more ends with its fragments withdrawn, or with
\* another thread about to withdraw them.
THEOREM EndingWithdraws == Spec => EndsWithdrawn
<1>1. Preview!Spec => Preview!EndsWithdrawn
  BY ServicesConstants, Preview!EndingWithdraws
<1>2. Preview!EndsWithdrawn => EndsWithdrawn
  BY DEF EndsWithdrawn
<1> QED
  BY <1>1, <1>2, PreviewRuns, PTL

\* A transform of an earlier life of the process is never taken for a localization.
THEOREM FileOfThisLife == Spec => []LocalizedSinceBoot
<1>1. Reloc!Spec => []Reloc!LocalizedSinceBoot
  BY RelocFileOfThisLife
<1>2. Reloc!LocalizedSinceBoot => LocalizedSinceBoot
  BY DEF LocalizedSinceBoot
<1> QED
  BY <1>1, <1>2, RelocRuns, PTL

\* Regions are saved only for the session negotiated at that moment.
THEOREM RegionsOfTheSession == Spec => RegionsOfSession
<1>1. Reloc!Spec => Reloc!RegionsOfSession
  BY RegionsSaved
<1>2. Reloc!RegionsOfSession => RegionsOfSession
  BY DEF RegionsOfSession
<1> QED
  BY <1>1, <1>2, RelocRuns, PTL

\* Two stages of the ground-air vehicle never run at a time.
THEOREM StagesExcludeEachOther == Spec => []OneStageRuns
<1>1. Stages!Spec => []Stages!OneStageRuns
  BY ServicesConstants, Stages!StagesExclude
<1>2. Stages!OneStageRuns => OneStageRuns
  BY DEF OneStageRuns
<1> QED
  BY <1>1, <1>2, StagesRuns, PTL

\* A stage is not taken from the session it belongs to.
THEOREM StageStaysWithSession == Spec => SessionKeepsStage
<1>1. Stages!Spec => Stages!SessionKeepsStage
  BY ServicesConstants, Stages!StageBelongs
<1>2. Stages!SessionKeepsStage => SessionKeepsStage
  BY DEF SessionKeepsStage
<1> QED
  BY <1>1, <1>2, StagesRuns, PTL

\* The UAV's controller belongs to the task that holds the lease.
THEOREM ControllerBelongs == Spec => []ControllerIsOwned
<1>1. Flight!Spec => []Flight!ControllerIsOwned
  BY ServicesConstants, Flight!ControllerOwned
<1>2. Flight!ControllerIsOwned => ControllerIsOwned
  BY DEF ControllerIsOwned
<1> QED
  BY <1>1, <1>2, FlightRuns, PTL

\* A Wheeltec vehicle is autonomous only for a task that wants it.
THEOREM AuthorityBelongs == Spec => []HeldAuthorityIsOwned
<1>1. Auth!Spec => []Auth!HeldAuthorityIsOwned
  BY AuthOwned
<1>2. Auth!HeldAuthorityIsOwned => HeldAuthorityIsOwned
  BY DEF HeldAuthorityIsOwned
<1> QED
  BY <1>1, <1>2, AuthRuns, PTL
=============================================================================
