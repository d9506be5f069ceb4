--------------------------- MODULE MapPreviewProofs ---------------------------
(***************************************************************************)
(* Fragments of the live preview are counted, cleaned up and withdrawn,    *)
(* for any sessions, any window of unacknowledged fragments, any number of *)
(* frames and any interleaving of the threads that end sessions.           *)
(*                                                                         *)
(* The argument: whoever withdraws a fragment deletes its file, or leaves  *)
(* it to the download under way (UnserveKeeps); a thread past the idle     *)
(* step has a window (Windowed), so what it registers is a fragment of a   *)
(* session; and a session that does not map has no fragments, or a thread  *)
(* that will withdraw them (Withdrawn): every step that takes mapping away *)
(* makes its thread one, and no fragment is counted for such a session.    *)
(***************************************************************************)
EXTENDS MapPreview, TLAPS

\* The preview thread has a window while it is at work.
Windowed == worker.step # "idle" => worker.window \in Window

\* There is a session while there is a phase.
Phased == phase # "none" => live \in Sessions

\* A session that does not map has no fragments, or they will be withdrawn.
Withdrawn == live # None /\ phase # "mapping" => cache[live] = {} \/ WillClean(live)

IInv == Windowed /\ Phased /\ ServedIsCounted /\ NoOrphanFile /\ Withdrawn

-----------------------------------------------------------------------------
(* The operators.                                                          *)
\* Withdrawing fragments keeps the types of both tables.
LEMMA UnserveTypes ==
    ASSUME TypeOK, NEW gone, Unserve(gone)
    PROVE  served' \subseteq Fragments /\ files' \subseteq 0..LastFrame
BY DEF TypeOK, Unserve

\* A file whose entry is withdrawn is deleted, unless it is being downloaded.
LEMMA UnserveKeeps ==
    ASSUME NEW gone, Unserve(gone), UNCHANGED readers,
           NEW n \in files', n \in {f.number : f \in served \union readers}
    PROVE  n \in {f.number : f \in served' \union readers'}
<1>1. PICK f \in served \union readers : f.number = n
  OBVIOUS
<1>2. CASE f \in readers
  BY <1>1, <1>2
<1>3. CASE f \in served /\ f \notin readers
  <2>1. f \notin gone
    BY <1>1, <1>3 DEF Unserve, DeletedBy
  <2> QED
    BY <1>1, <1>3, <2>1 DEF Unserve
<1> QED
  BY <1>2, <1>3

\* The window of unacknowledged fragments only drops some.
LEMMA NewestIsPart == ASSUME NEW numbers PROVE Newest(numbers) \subseteq numbers
BY DEF Newest

\* A fragment is named by its session and its number.
LEMMA FragmentNamed ==
    ASSUME NEW f \in Fragments
    PROVE  f = Fragment(f.session, f.number) /\ f.session \in Sessions /\ f.number \in 0..LastFrame
BY DEF Fragments, Fragment

-----------------------------------------------------------------------------
(* Types.                                                                  *)
\* A thread's step with a session, and a renewed token, keep the types.
LEMMA ToTyped ==
    ASSUME TypeOK, NEW s \in Sessions, NEW t \in Threads, NEW step, To(s, t, step),
           step \in {"idle", "decided", "working", "cleaning", "resetting", "ending"}
    PROVE  ender' \in [Sessions -> [Threads ->
                        {"idle", "decided", "working", "cleaning", "resetting", "ending"}]]
BY DEF TypeOK, To

LEMMA RenewTyped ==
    ASSUME PreviewConstants, TypeOK, NEW s \in Sessions, Renew(s)
    PROVE  /\ listening' \in BOOLEAN /\ queue' \in Window \union {None}
           /\ worker' \in [step: {"idle", "held", "numbered", "written", "registered"},
                            window: Window \union {None}, number: 0..LastFrame]
           /\ worker'.step = worker.step /\ worker'.number = worker.number
           /\ worker'.window = Stale(worker.window, s)
           /\ Windowed => Windowed'
<1>1. ASSUME NEW w \in Window \union {None}
      PROVE  Stale(w, s) \in Window \union {None} /\ (w \in Window => Stale(w, s) \in Window)
  BY DEF Stale, Window
<1>2. worker.window \in Window \union {None} /\ worker.number \in 0..LastFrame
  BY DEF TypeOK
<1>3. Stale(worker.window, s) \in Window \union {None}
  BY <1>1, <1>2
<1>4. worker' = [worker EXCEPT !.window = Stale(worker.window, s)]
  BY DEF Renew
<1>5. queue' \in Window \union {None} /\ listening' \in BOOLEAN
  BY <1>1 DEF TypeOK, Renew
<1> HIDE DEF Stale
<1>6. worker' \in [step: {"idle", "held", "numbered", "written", "registered"},
                   window: Window \union {None}, number: 0..LastFrame]
  BY <1>3, <1>4 DEF TypeOK
<1>7. worker'.step = worker.step /\ worker'.number = worker.number
      /\ worker'.window = Stale(worker.window, s)
  BY <1>4 DEF TypeOK
<1>8. Windowed => Windowed'
  BY <1>1, <1>2, <1>7 DEF Windowed
<1> QED
  BY <1>5, <1>6, <1>7, <1>8

\* The steps of the session keep the types.
LEMMA SessionTypes == ASSUME PreviewConstants, TypeOK, Phased, SessionSteps
                      PROVE  TypeOK'
<1> USE DEF pipeline, life, http
<1> Threads = {"watchdog", "control", "generator"}
  BY DEF Threads
<1> 0 \in 0..LastFrame + 1
  BY DEF PreviewConstants
<1>1. ASSUME NEW s \in Sessions, Prepare(s) PROVE TypeOK'
  BY <1>1 DEF TypeOK, Prepare
<1>2. ASSUME PreparationEnds \/ StartMapping PROVE TypeOK'
  BY <1>2 DEF TypeOK, PreparationEnds, SessionGone, StartMapping
<1>3. ASSUME StopMapping PROVE TypeOK'
  <2>1. live \in Sessions
    BY <1>3 DEF Phased, StopMapping
  <2> QED
    BY <1>3, <2>1, RenewTyped, ToTyped DEF TypeOK, StopMapping
<1>4. ASSUME InputLost \/ RestartWanted PROVE TypeOK'
  <2>1. live \in Sessions
    BY <1>4 DEF Phased, InputLost, RestartWanted
  <2> QED
    BY <1>4, <2>1, ToTyped DEF TypeOK, InputLost, RestartWanted
<1>5. ASSUME NEW s \in Sessions, FailSession(s) PROVE TypeOK'
  <2>1. CASE live = s
    BY <1>5, <2>1, RenewTyped, ToTyped DEF TypeOK, FailSession
  <2>2. CASE live # s
    BY <1>5, <2>2, ToTyped DEF TypeOK, FailSession
  <2> QED
    BY <2>1, <2>2
<1>6. ASSUME NEW s \in Sessions, Restart(s) PROVE TypeOK'
  BY <1>6, RenewTyped, ToTyped DEF TypeOK, Restart
<1>7. ASSUME NEW s \in Sessions, ResetPaths(s) \/ RestartFails(s) \/ GenerationEnds(s)
      PROVE  TypeOK'
  BY <1>7, ToTyped DEF TypeOK, ResetPaths, RestartFails, GenerationEnds
<1>8. ASSUME NEW s \in Sessions, NEW current \in BOOLEAN, GenerationResumes(s, current)
      PROVE  TypeOK'
  BY <1>8, ToTyped DEF TypeOK, GenerationResumes
<1>9. ASSUME NEW s \in Sessions, NEW t \in Threads, CleanFragments(s, t) PROVE TypeOK'
  <2>1. served' \subseteq Fragments /\ files' \subseteq 0..LastFrame
    BY <1>9, UnserveTypes DEF CleanFragments
  <2>2. cache' \in [Sessions -> SUBSET (0..LastFrame)]
    BY <1>9 DEF TypeOK, CleanFragments
  <2>3. ender' \in [Sessions -> [Threads ->
                    {"idle", "decided", "working", "cleaning", "resetting", "ending"}]]
    BY <1>9, ToTyped DEF CleanFragments
  <2> QED
    BY <1>9, <2>1, <2>2, <2>3 DEF TypeOK, CleanFragments
<1>10. ASSUME NEW s \in Sessions, NEW t \in Threads, SessionEnds(s, t) PROVE TypeOK'
  BY <1>10, ToTyped DEF TypeOK, SessionEnds, SessionGone
<1> QED
  BY <1>1, <1>2, <1>3, <1>4, <1>5, <1>6, <1>7, <1>8, <1>9, <1>10 DEF SessionSteps

\* The steps of the preview thread keep the types.
LEMMA ThreadTypes == ASSUME PreviewConstants, TypeOK, Windowed, PreviewThread
                     PROVE  TypeOK'
<1> USE DEF PreviewConstants, pipeline, life, http
<1>1. ASSUME TakeWindow PROVE TypeOK'
  BY <1>1 DEF TypeOK, TakeWindow
<1>2. ASSUME NumberFragment PROVE TypeOK'
  <2>2. frame \in 0..LastFrame
    BY <1>2 DEF TypeOK, NumberFragment
  <2>3. frame' \in 0..LastFrame + 1
    BY <1>2, <2>2 DEF TypeOK, NumberFragment
  <2>4. worker' \in [step: {"idle", "held", "numbered", "written", "registered"},
                     window: Window \union {None}, number: 0..LastFrame]
    BY <1>2, <2>2 DEF TypeOK, NumberFragment
  <2> QED
    BY <1>2, <2>3, <2>4 DEF TypeOK, NumberFragment
<1>3. ASSUME DropWindow PROVE TypeOK'
  BY <1>3 DEF TypeOK, DropWindow, GivesUp, Resting
<1>4. ASSUME WriteFragment PROVE TypeOK'
  BY <1>4 DEF TypeOK, WriteFragment, WorkerTo
<1>5. ASSUME RegisterFragment PROVE TypeOK'
  <2>1. Held \in Fragments
    BY <1>5 DEF TypeOK, Windowed, RegisterFragment, Held, Fragment, Fragments, Window
  <2> QED
    BY <1>5, <2>1 DEF TypeOK, RegisterFragment, WorkerTo
<1>6. ASSUME CacheFragment PROVE TypeOK'
  <2> DEFINE s == worker.window.session
             all == cache[s] \union {worker.number}
  <2>1. s \in Sessions /\ worker.number \in 0..LastFrame
    BY <1>6 DEF TypeOK, Windowed, CacheFragment, Window
  <2>2. served' \subseteq Fragments /\ files' \subseteq 0..LastFrame
    <3>1. PICK gone : Unserve(gone)
      BY <1>6 DEF CacheFragment
    <3> QED
      BY <3>1, UnserveTypes
  <2>3. cache' \in [Sessions -> SUBSET (0..LastFrame)]
    <3>1. Newest(all) \subseteq 0..LastFrame
      BY <2>1, NewestIsPart DEF TypeOK
    <3>2. cache' = [cache EXCEPT ![s] = Newest(all)] \/ cache' = cache
      BY <1>6 DEF CacheFragment
    <3> HIDE DEF all
    <3> QED
      BY <2>1, <3>1, <3>2 DEF TypeOK
  <2> QED
    BY <1>6, <2>2, <2>3 DEF TypeOK, CacheFragment, GivesUp, Resting
<1> QED
  BY <1>1, <1>2, <1>3, <1>4, <1>5, <1>6 DEF PreviewThread

\* What the clouds, the station and the HTTP server do keeps the types.
LEMMA OthersTypes ==
    ASSUME PreviewConstants, TypeOK, Phased, Station \/ CloudArrives \/ FlushWindow
    PROVE  TypeOK'
<1> USE DEF PreviewConstants, pipeline, life, http
<1>1. ASSUME NEW n \in 0..LastFrame, Acknowledge(n) PROVE TypeOK'
  <2>1. served' \subseteq Fragments /\ files' \subseteq 0..LastFrame
    BY <1>1, UnserveTypes DEF Acknowledge
  <2>2. cache' \in [Sessions -> SUBSET (0..LastFrame)]
    BY <1>1 DEF TypeOK, Acknowledge
  <2> QED
    BY <1>1, <2>1, <2>2 DEF TypeOK, Acknowledge
<1>2. ASSUME NEW f \in Fragments, Download(f) \/ DownloadEnds(f) PROVE TypeOK'
  BY <1>2 DEF TypeOK, Download, DownloadEnds
<1>3. ASSUME NEW f \in Fragments, Expires(f) PROVE TypeOK'
  BY <1>3, UnserveTypes DEF TypeOK, Expires
<1>4. ASSUME CloudArrives PROVE TypeOK'
  BY <1>4 DEF TypeOK, CloudArrives
<1>5. ASSUME FlushWindow PROVE TypeOK'
  BY <1>5 DEF TypeOK, Phased, FlushWindow, Window
<1> QED
  BY <1>1, <1>2, <1>3, <1>4, <1>5 DEF Station

\* The steps of the session keep the thread's step, and a window if it has one.
LEMMA SessionKeepsWorker ==
    ASSUME PreviewConstants, TypeOK, Windowed, Phased, SessionSteps
    PROVE  /\ worker'.step = worker.step /\ worker'.number = worker.number
           /\ worker.step # "idle" => worker'.window.session = worker.window.session
           /\ Windowed'
<1> USE DEF pipeline, life, http
<1>1. ASSUME NEW s \in Sessions, Renew(s)
      PROVE  /\ worker'.step = worker.step /\ worker'.number = worker.number
             /\ worker.step # "idle" => worker'.window.session = worker.window.session
             /\ Windowed'
  BY <1>1, RenewTyped DEF Windowed, Stale, Window
<1>2. CASE UNCHANGED worker
  BY <1>2 DEF Windowed
<1>3. CASE StopMapping
  BY <1>1, <1>3 DEF StopMapping, Phased
<1>4. CASE \E s \in Sessions : FailSession(s) \/ Restart(s)
  BY <1>1, <1>2, <1>4 DEF FailSession, Restart
<1> QED
  BY <1>2, <1>3, <1>4
     DEF SessionSteps, PreparationEnds, StartMapping, InputLost, RestartWanted, Prepare,
         ResetPaths, RestartFails, GenerationEnds, GenerationResumes, CleanFragments,
         SessionEnds

\* A thread at work keeps its window.
LEMMA StaysWindowed == ASSUME PreviewConstants, TypeOK, Windowed, Phased, Next PROVE Windowed'
<1> USE DEF pipeline, life, http
<1>1. CASE SessionSteps
  BY <1>1, SessionKeepsWorker
<1>2. ASSUME PreviewThread PROVE Windowed'
  <2>1. CASE TakeWindow
    BY <2>1 DEF Windowed, TypeOK, TakeWindow
  <2>2. CASE NumberFragment \/ WriteFragment \/ RegisterFragment
    BY <2>2 DEF Windowed, TypeOK, NumberFragment, WriteFragment, RegisterFragment, WorkerTo
  <2>3. CASE DropWindow \/ CacheFragment
    BY <2>3 DEF Windowed, DropWindow, CacheFragment, GivesUp, Resting
  <2> QED
    BY <1>2, <2>1, <2>2, <2>3 DEF PreviewThread
<1>3. CASE Station \/ CloudArrives \/ FlushWindow
  BY <1>3 DEF Windowed, Station, Acknowledge, Download, DownloadEnds, Expires, CloudArrives,
              FlushWindow
<1> QED
  BY <1>1, <1>2, <1>3 DEF Next

\* Only a session has a phase.
LEMMA StaysPhased == ASSUME PreviewConstants, Phased, Next PROVE Phased'
<1> USE DEF PreviewConstants, Phased, pipeline, life, http
<1>1. CASE SessionSteps
  BY <1>1 DEF SessionSteps, Prepare, PreparationEnds, StartMapping, StopMapping, InputLost,
              FailSession, RestartWanted, Restart, GenerationEnds, GenerationResumes,
              CleanFragments, ResetPaths, RestartFails, SessionEnds, SessionGone
<1>2. CASE PreviewThread
  BY <1>2 DEF PreviewThread, TakeWindow, NumberFragment, DropWindow, WriteFragment,
              RegisterFragment, CacheFragment
<1>3. CASE Station \/ CloudArrives \/ FlushWindow
  BY <1>3 DEF Station, Acknowledge, Download, DownloadEnds, Expires, CloudArrives, FlushWindow
<1> QED
  BY <1>1, <1>2, <1>3 DEF Next
-----------------------------------------------------------------------------
(* Every fragment that can be downloaded is counted.                       *)
\* Of the steps that withdraw, those of one session's fragments.
LEMMA WithdrawalCounts ==
    ASSUME TypeOK, ServedIsCounted, NEW s \in Sessions, NEW gone \in SUBSET (0..LastFrame),
           Unserve({Fragment(s, n) : n \in gone}), UNCHANGED worker,
           cache' = [cache EXCEPT ![s] = @ \ gone]
    PROVE  ServedIsCounted'
<1> SUFFICES ASSUME NEW f \in served'
             PROVE  f.number \in cache'[f.session] \/ (worker.step = "registered" /\ f = Held)
  BY DEF ServedIsCounted, Held
<1>1. f \in served /\ f \in Fragments /\ f \notin {Fragment(s, n) : n \in gone}
  BY DEF Unserve, TypeOK
<1>2. f = Fragment(f.session, f.number) /\ f.session \in Sessions
  BY <1>1, FragmentNamed
<1>3. f.session # s \/ f.number \notin gone
  BY <1>1, <1>2
<1>4. CASE f.number \in cache[f.session]
  BY <1>2, <1>3, <1>4 DEF TypeOK
<1>5. CASE worker.step = "registered" /\ f = Held
  BY <1>5
<1> QED
  BY <1>1, <1>4, <1>5 DEF ServedIsCounted

\* The fragment the thread counts is one of the session's, whose oldest go.
LEMMA CountingCounts ==
    ASSUME TypeOK, Windowed, ServedIsCounted, CacheFragment
    PROVE  ServedIsCounted'
<1> DEFINE s == worker.window.session
           all == cache[s] \union {worker.number}
<1>1. s \in Sessions
  BY DEF TypeOK, Windowed, CacheFragment, Window
<1>2. ASSUME NEW f \in served, f # Held PROVE f.number \in cache[f.session]
  BY <1>2 DEF ServedIsCounted
<1>3. CASE Current(worker.window)
  <2>1. cache' = [cache EXCEPT ![s] = Newest(all)]
    BY <1>3 DEF CacheFragment
  <2>2. served' = served \ {Fragment(s, n) : n \in all \ Newest(all)}
    BY <1>3 DEF CacheFragment, Unserve
  <2> SUFFICES ASSUME NEW f \in served' PROVE f.number \in cache'[f.session]
    BY DEF ServedIsCounted
  <2>3. f \in served /\ f \notin {Fragment(s, n) : n \in all \ Newest(all)}
    BY <2>2
  <2>4. f = Fragment(f.session, f.number) /\ f.session \in Sessions
    BY <2>3, FragmentNamed DEF TypeOK
  <2>5. CASE f.session = s
    <3>1. f.number \in all
      BY <1>2, <2>3, <2>5 DEF Held, Fragment
    <3>2. f.number \in Newest(all)
      BY <2>3, <2>4, <2>5, <3>1
    <3> HIDE DEF all
    <3> QED
      BY <1>1, <2>1, <2>5, <3>2 DEF TypeOK
  <2>6. CASE f.session # s
    <3>1. f # Held
      BY <2>6 DEF Held, Fragment
    <3> QED
      BY <1>1, <1>2, <2>1, <2>3, <2>4, <2>6, <3>1 DEF TypeOK
  <2> QED
    BY <2>5, <2>6
<1>4. CASE ~Current(worker.window)
  BY <1>2, <1>4 DEF CacheFragment, Unserve, ServedIsCounted
<1> QED
  BY <1>3, <1>4

\* What can be downloaded stays counted.
LEMMA StaysCounted ==
    ASSUME PreviewConstants, TypeOK, Windowed, Phased, ServedIsCounted, Next
    PROVE  ServedIsCounted'
<1> USE DEF ServedIsCounted, Held, pipeline, life, http
<1>1. ASSUME SessionSteps PROVE ServedIsCounted'
  <2>1. ASSUME NEW s \in Sessions, NEW t \in Threads, CleanFragments(s, t)
        PROVE  ServedIsCounted'
    <3>1. cache[s] \in SUBSET (0..LastFrame)
      BY DEF TypeOK
    <3>2. cache' = [cache EXCEPT ![s] = @ \ cache[s]]
      BY <2>1 DEF CleanFragments
    <3> QED
      BY <2>1, <3>1, <3>2, WithdrawalCounts DEF CleanFragments
  <2>2. CASE UNCHANGED <<served, cache>>
    <3>1. worker.step = "registered" => worker'.step = "registered" /\ Held' = Held
      BY <1>1, SessionKeepsWorker DEF Fragment
    <3> QED
      BY <2>2, <3>1 DEF Held
  <2>3. ASSUME NEW s \in Sessions, Prepare(s) PROVE ServedIsCounted'
    BY <2>3 DEF TypeOK, Prepare, Referenced
  <2> QED
    BY <1>1, <2>1, <2>2, <2>3
       DEF SessionSteps, PreparationEnds, StartMapping, StopMapping, InputLost, FailSession,
           RestartWanted, Restart, GenerationEnds, GenerationResumes, ResetPaths,
           RestartFails, SessionEnds
<1>2. ASSUME PreviewThread PROVE ServedIsCounted'
  <2>1. CASE RegisterFragment
    BY <2>1 DEF TypeOK, RegisterFragment, WorkerTo
  <2>2. CASE TakeWindow \/ NumberFragment \/ DropWindow \/ WriteFragment
    BY <2>2 DEF TypeOK, TakeWindow, NumberFragment, DropWindow, WriteFragment, WorkerTo
  <2> QED
    BY <1>2, <2>1, <2>2, CountingCounts DEF PreviewThread
<1>3. ASSUME NEW n \in 0..LastFrame, Acknowledge(n) PROVE ServedIsCounted'
  <2>1. live \in Sessions
    BY <1>3 DEF Phased, Acknowledge
  <2>2. Unserve({Fragment(live, k) : k \in {n}})
    BY <1>3 DEF Acknowledge, Unserve, DeletedBy
  <2> QED
    BY <1>3, <2>1, <2>2, WithdrawalCounts DEF Acknowledge
<1>4. ASSUME NEW f \in Fragments, Download(f) \/ DownloadEnds(f) \/ Expires(f)
      PROVE  ServedIsCounted'
  BY <1>4 DEF Download, DownloadEnds, Expires, Unserve
<1>5. CASE CloudArrives \/ FlushWindow
  BY <1>5 DEF CloudArrives, FlushWindow
<1> QED
  BY <1>1, <1>2, <1>3, <1>4, <1>5 DEF Next, Station

-----------------------------------------------------------------------------
(* No file is left behind.                                                 *)
\* A withdrawal leaves no file behind.
LEMMA WithdrawalLeavesNone ==
    ASSUME NoOrphanFile, NEW gone, Unserve(gone), UNCHANGED readers,
           worker.step = "written" => UNCHANGED worker
    PROVE  NoOrphanFile'
<1> SUFFICES ASSUME NEW n \in files'
             PROVE  \/ n \in {f.number : f \in served' \union readers'}
                    \/ worker'.step = "written" /\ n = worker'.number
  BY DEF NoOrphanFile
<1>1. n \in files
  BY DEF Unserve
<1> QED
  BY <1>1, UnserveKeeps DEF NoOrphanFile

\* Every file keeps an entry, a download or the thread.
LEMMA StaysReferenced ==
    ASSUME PreviewConstants, TypeOK, Windowed, Phased, NoOrphanFile, Next
    PROVE  NoOrphanFile'
<1> USE DEF pipeline, life, http
<1>1. ASSUME SessionSteps PROVE NoOrphanFile'
  <2>1. CASE \E s \in Sessions, t \in Threads : CleanFragments(s, t)
    BY <2>1, WithdrawalLeavesNone DEF CleanFragments
  <2>2. CASE UNCHANGED <<files, served, readers>>
    BY <1>1, <2>2, SessionKeepsWorker DEF NoOrphanFile
  <2>3. CASE \E s \in Sessions : ResetPaths(s)
    BY <2>3 DEF NoOrphanFile, ResetPaths
  <2> QED
    BY <1>1, <2>1, <2>2, <2>3
       DEF SessionSteps, Prepare, PreparationEnds, StartMapping, StopMapping, InputLost,
           FailSession, RestartWanted, Restart, GenerationEnds, GenerationResumes,
           RestartFails, SessionEnds
<1>2. ASSUME PreviewThread PROVE NoOrphanFile'
  <2>1. CASE TakeWindow \/ NumberFragment \/ DropWindow \/ WriteFragment
    BY <2>1 DEF NoOrphanFile, TypeOK, TakeWindow, NumberFragment, DropWindow, WriteFragment,
                WorkerTo
  <2>2. CASE RegisterFragment
    <3> SUFFICES ASSUME NEW n \in files
                 PROVE  n \in {f.number : f \in served' \union readers'}
      BY <2>2 DEF NoOrphanFile, RegisterFragment
    <3>1. Held.number = worker.number /\ Held \in served'
      BY <2>2 DEF RegisterFragment, Held, Fragment
    <3> QED
      BY <2>2, <3>1 DEF NoOrphanFile, RegisterFragment
  <2>3. CASE CacheFragment
    <3>1. PICK gone : Unserve(gone)
      BY <2>3 DEF CacheFragment
    <3> QED
      BY <2>3, <3>1, WithdrawalLeavesNone DEF CacheFragment
  <2> QED
    BY <1>2, <2>1, <2>2, <2>3 DEF PreviewThread
<1>3. ASSUME NEW n \in 0..LastFrame, Acknowledge(n) PROVE NoOrphanFile'
  BY <1>3, WithdrawalLeavesNone DEF Acknowledge
<1>4. ASSUME NEW f \in Fragments, Download(f) PROVE NoOrphanFile'
  BY <1>4 DEF Download, NoOrphanFile
<1>5. ASSUME NEW f \in Fragments, DownloadEnds(f) PROVE NoOrphanFile'
  <2> SUFFICES ASSUME NEW n \in files'
               PROVE  \/ n \in {g.number : g \in served \union readers'}
                      \/ worker.step = "written" /\ n = worker.number
    BY <1>5 DEF NoOrphanFile, DownloadEnds
  <2>1. n \in files /\ (f \in served \/ n # f.number)
    BY <1>5 DEF DownloadEnds
  <2>2. CASE \E g \in served \union readers : g.number = n
    BY <1>5, <2>1, <2>2 DEF DownloadEnds
  <2> QED
    BY <2>1, <2>2 DEF NoOrphanFile
<1>6. ASSUME NEW f \in Fragments, Expires(f) PROVE NoOrphanFile'
  BY <1>6, WithdrawalLeavesNone DEF Expires
<1>7. CASE CloudArrives \/ FlushWindow
  BY <1>7 DEF NoOrphanFile, CloudArrives, FlushWindow
<1> QED
  BY <1>1, <1>2, <1>3, <1>4, <1>5, <1>6, <1>7 DEF Next, Station

-----------------------------------------------------------------------------
(* The fragments of a session that does not map are withdrawn, or will be. *)
\* A thread's step with a session leaves a withdrawal to come where it was, unless
\* it is that withdrawal.
LEMMA StillCleans ==
    ASSUME TypeOK, NEW s \in Sessions, NEW t \in Threads, NEW step, To(s, t, step),
           NEW x \in Sessions, WillClean(x),
           \/ x # s \/ step \in {"working", "cleaning"}
           \/ ender[s][t] \notin {"working", "cleaning"}
    PROVE  WillClean(x)'
<1>1. PICK u \in Threads : ender[x][u] \in {"working", "cleaning"}
  BY DEF WillClean
<1>2. ender'[x][u] = IF x = s /\ u = t THEN step ELSE ender[x][u]
  BY DEF TypeOK, To
<1> QED
  BY <1>1, <1>2 DEF WillClean

LEMMA NowCleans ==
    ASSUME TypeOK, NEW s \in Sessions, NEW t \in Threads, NEW step, To(s, t, step),
           step \in {"working", "cleaning"}
    PROVE  WillClean(s)'
BY DEF TypeOK, To, WillClean

\* No step of the session takes both the fragments' cleaner and the phase away.
LEMMA SessionWithdraws ==
    ASSUME PreviewConstants, TypeOK, Phased, Withdrawn, SessionSteps
    PROVE  Withdrawn'
<1> USE DEF Withdrawn, pipeline, life, http
<1> Threads = {"watchdog", "control", "generator"}
  BY DEF Threads
<1> live \in Sessions \union {None} /\ None \notin Sessions
  BY DEF TypeOK, PreviewConstants
<1>1. ASSUME NEW s \in Sessions, Prepare(s) PROVE Withdrawn'
  BY <1>1 DEF TypeOK, Prepare
<1>2. ASSUME PreparationEnds \/ StartMapping PROVE Withdrawn'
  BY <1>2 DEF PreparationEnds, SessionGone, StartMapping
<1>3. ASSUME StopMapping PROVE Withdrawn'
  BY <1>3, NowCleans DEF Phased, StopMapping
<1>4. ASSUME InputLost \/ RestartWanted PROVE Withdrawn'
  <2>1. live \in Sessions /\ UNCHANGED <<live, phase, cache>>
    BY <1>4 DEF Phased, InputLost, RestartWanted
  <2>2. WillClean(live) => WillClean(live)'
    BY <1>4, <2>1, StillCleans DEF InputLost, RestartWanted, Idle
  <2> QED
    BY <2>1, <2>2
<1>5. ASSUME NEW s \in Sessions, FailSession(s) PROVE Withdrawn'
  <2>1. CASE live = s
    BY <1>5, <2>1, NowCleans DEF FailSession
  <2>2. CASE live # s
    BY <1>5, <2>2, StillCleans DEF FailSession
  <2> QED
    BY <2>1, <2>2
<1>6. ASSUME NEW s \in Sessions, Restart(s) PROVE Withdrawn'
  BY <1>6, NowCleans, StillCleans DEF Restart
<1>7. ASSUME NEW s \in Sessions, ResetPaths(s) \/ RestartFails(s) \/ GenerationEnds(s)
      PROVE  Withdrawn'
  BY <1>7, StillCleans DEF ResetPaths, RestartFails, GenerationEnds
<1>8. ASSUME NEW s \in Sessions, NEW current \in BOOLEAN, GenerationResumes(s, current)
      PROVE  Withdrawn'
  BY <1>8, StillCleans DEF GenerationResumes
<1>9. ASSUME NEW s \in Sessions, NEW t \in Threads, CleanFragments(s, t) PROVE Withdrawn'
  <2>1. UNCHANGED <<live, phase>> /\ cache' = [cache EXCEPT ![s] = {}]
    BY <1>9 DEF CleanFragments
  <2>2. CASE live = s
    BY <2>1, <2>2 DEF TypeOK
  <2>3. CASE live # s
    BY <1>9, <2>1, <2>3, StillCleans DEF TypeOK, CleanFragments
  <2> QED
    BY <2>2, <2>3
<1>10. ASSUME NEW s \in Sessions, NEW t \in Threads, SessionEnds(s, t) PROVE Withdrawn'
  <2>1. CASE live = s
    BY <1>10, <2>1 DEF SessionEnds, SessionGone
  <2>2. CASE live # s
    BY <1>10, <2>2, StillCleans DEF SessionEnds
  <2> QED
    BY <2>1, <2>2
<1> QED
  BY <1>1, <1>2, <1>3, <1>4, <1>5, <1>6, <1>7, <1>8, <1>9, <1>10 DEF SessionSteps

\* The preview thread counts no fragment for a session that does not map.
LEMMA StaysWithdrawn ==
    ASSUME PreviewConstants, TypeOK, Phased, Withdrawn, Next
    PROVE  Withdrawn'
<1> USE DEF Withdrawn, WillClean, pipeline, life, http
<1>1. CASE SessionSteps
  BY <1>1, SessionWithdraws
<1>2. CASE PreviewThread
  BY <1>2 DEF PreviewThread, TakeWindow, NumberFragment, DropWindow, WriteFragment,
              RegisterFragment, CacheFragment, Current
<1>3. ASSUME NEW n \in 0..LastFrame, Acknowledge(n) PROVE Withdrawn'
  BY <1>3 DEF TypeOK, Phased, Acknowledge
<1>4. ASSUME NEW f \in Fragments, Download(f) \/ DownloadEnds(f) \/ Expires(f)
      PROVE  Withdrawn'
  BY <1>4 DEF Download, DownloadEnds, Expires
<1>5. CASE CloudArrives \/ FlushWindow
  BY <1>5 DEF CloudArrives, FlushWindow
<1> QED
  BY <1>1, <1>2, <1>3, <1>4, <1>5 DEF Next, Station

-----------------------------------------------------------------------------
(* The theorems.                                                           *)
\* The preview keeps the types of its state, and all of its threads agree.
THEOREM PreviewInvariant == ASSUME PreviewConstants PROVE Spec => [](TypeOK /\ IInv)
<1>1. Init => TypeOK /\ IInv
  <2> SUFFICES ASSUME Init PROVE TypeOK /\ IInv
    OBVIOUS
  <2>1. TypeOK
    <3>1. cache \in [Sessions -> SUBSET (0..LastFrame)] /\ frame \in 0..LastFrame + 1
      BY DEF PreviewConstants, Init
    <3>2. ender \in [Sessions -> [Threads ->
                     {"idle", "decided", "working", "cleaning", "resetting", "ending"}]]
      BY DEF Init
    <3>3. worker \in [step: {"idle", "held", "numbered", "written", "registered"},
                      window: Window \union {None}, number: 0..LastFrame]
      BY DEF PreviewConstants, Init, Resting
    <3> QED
      BY <3>1, <3>2, <3>3 DEF Init, TypeOK
  <2> QED
    BY <2>1 DEF Init, IInv, Windowed, Phased, ServedIsCounted, NoOrphanFile, Withdrawn, Resting
<1>2. TypeOK /\ IInv /\ [Next]_vars => (TypeOK /\ IInv)'
  <2> SUFFICES ASSUME TypeOK, IInv, [Next]_vars PROVE (TypeOK /\ IInv)'
    OBVIOUS
  <2>1. CASE Next
    <3>1. TypeOK'
      BY <2>1, SessionTypes, ThreadTypes, OthersTypes DEF IInv, Next
    <3>2. Windowed' /\ Phased' /\ Withdrawn'
      BY <2>1, StaysWindowed, StaysPhased, StaysWithdrawn DEF IInv
    <3>3. ServedIsCounted' /\ NoOrphanFile'
      BY <2>1, StaysCounted, StaysReferenced DEF IInv
    <3> QED
      BY <3>1, <3>2, <3>3 DEF IInv
  <2>2. CASE UNCHANGED vars
    BY <2>2 DEF vars, pipeline, life, http, TypeOK, IInv, Windowed, Phased, ServedIsCounted,
                NoOrphanFile, Withdrawn, WillClean, Held
  <2> QED
    BY <2>1, <2>2
<1> QED
  BY <1>1, <1>2, PTL DEF Spec

\* The preview keeps the types of its state.
THEOREM PreviewTypes == ASSUME PreviewConstants PROVE Spec => []TypeOK
BY PreviewInvariant, PTL

\* A fragment that can be downloaded is counted as not acknowledged, or about
\* to be: no acknowledgement, supersession or end of a session forgets one.
THEOREM FragmentsCounted == ASSUME PreviewConstants PROVE Spec => []ServedIsCounted
<1>1. IInv => ServedIsCounted
  BY DEF IInv
<1> QED
  BY <1>1, PreviewInvariant, PTL

\* Each fragment file has an entry, a download or the preview thread at it.
THEOREM FilesReferenced == ASSUME PreviewConstants PROVE Spec => []NoOrphanFile
<1>1. IInv => NoOrphanFile
  BY DEF IInv
<1> QED
  BY <1>1, PreviewInvariant, PTL

\* A session that failed or was saved is taken away with all its fragments
\* withdrawn, or with a thread still to do it, however the threads that end it
\* interleave.
THEOREM EndingWithdraws == ASSUME PreviewConstants PROVE Spec => EndsWithdrawn
<1>1. IInv => (live # None /\ phase # "mapping" => cache[live] = {} \/ WillClean(live))
  BY DEF IInv, Withdrawn
<1>2. IInv /\ [Next]_vars
        => [live # None /\ live' = None /\ phase # "mapping"
              => cache[live] = {} \/ WillClean(live)]_vars
  BY <1>1
<1> QED
  BY <1>2, PreviewInvariant, PTL DEF Spec, EndsWithdrawn
=============================================================================
