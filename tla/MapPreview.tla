---------------------------- MODULE MapPreview ----------------------------
(***************************************************************************)
(* The live preview of a mapping session: point cloud windows, the preview *)
(* thread that turns them into files (_preview_loop of node.py), the cache *)
(* of fragments the ground station has not acknowledged, and the HTTP      *)
(* server they are downloaded from (ArtifactHttpServer of artifacts.py).   *)
(*                                                                         *)
(* The session itself is reduced to what the preview reads of it: which    *)
(* one is current, whether it is mapping, and its token, which every step  *)
(* that takes mapping away renews (see MappingSession).  All a token does  *)
(* is to tell the windows taken before it was renewed from those after, so *)
(* a window has a flag in its place, which the renewal takes away.          *)
(*                                                                         *)
(* Three threads end sessions, and none waits for another: the watchdog    *)
(* (_fail_session), the control thread (_restart_active_session) and the   *)
(* generation thread of each session.  All sessions here have the same ID, *)
(* as after a restart, and so the same directory: the frames of one reuse  *)
(* the file names of another.  close() is not modelled: it ends the        *)
(* process.                                                                *)
(***************************************************************************)
EXTENDS Naturals, FiniteSets

CONSTANTS
    Sessions,       \* session objects
    MaxUnacked,     \* max_unacked_preview_fragments, at most 4
    LastFrame,      \* bound: the highest fragment number explored
    MaxDownloads,   \* bound: downloads at a time
    None

PreviewConstants ==
    /\ MaxUnacked \in Nat \ {0} /\ LastFrame \in Nat /\ MaxDownloads \in Nat
    /\ None \notin Sessions

VARIABLES
    live,           \* self.session
    phase,          \* the current session's state ("prepared" until it maps)
    listening,      \* whether its subscribers have its token
    scans,          \* whether its window holds scans
    frame,          \* frame_id: its next fragment number
    queue,          \* preview_queue: the one window waiting, or None
    worker,         \* the preview thread: its step, window and fragment
    cache,          \* fragment_cache: the fragments not acknowledged
    ender,          \* how far each thread is with ending each session
    directory,      \* the session directory exists
    files,          \* the fragment files that exist
    served,         \* the registered fragments: HTTP entries
    readers         \* the entries being downloaded

life == <<live, phase, listening, ender>>
pipeline == <<scans, queue, worker, frame>>
http == <<served, readers>>
vars == <<life, pipeline, cache, directory, files, http>>

Fragments == [session: Sessions, number: 0..LastFrame]
Window == [session: Sessions, current: BOOLEAN]
Threads == {"watchdog", "control", "generator"}
Resting == [step |-> "idle", window |-> None, number |-> 0]

TypeOK ==
    /\ live \in Sessions \union {None}
    /\ phase \in {"none", "prepared", "mapping", "generating", "error"}
    /\ listening \in BOOLEAN /\ scans \in BOOLEAN /\ frame \in 0..LastFrame + 1
    /\ queue \in Window \union {None}
    /\ worker \in [step: {"idle", "held", "numbered", "written", "registered"},
                   window: Window \union {None}, number: 0..LastFrame]
    /\ cache \in [Sessions -> SUBSET (0..LastFrame)]
    /\ ender \in [Sessions -> [Threads ->
                 {"idle", "decided", "working", "cleaning", "resetting", "ending"}]]
    /\ directory \in BOOLEAN
    /\ files \subseteq 0..LastFrame
    /\ served \subseteq Fragments /\ readers \subseteq Fragments

Init ==
    /\ live = None /\ phase = "none"
    /\ ender = [s \in Sessions |-> [t \in Threads |-> "idle"]]
    /\ listening = FALSE /\ scans = FALSE /\ frame = 0
    /\ queue = None /\ worker = Resting
    /\ cache = [s \in Sessions |-> {}]
    /\ directory = FALSE /\ files = {}
    /\ served = {} /\ readers = {}

-----------------------------------------------------------------------------
(* The HTTP server.  unregister deletes the file at once, or when the last *)
(* download of its entry ends.                                             *)
Fragment(s, n) == [session |-> s, number |-> n]

DeletedBy(gone) == {f.number : f \in {g \in gone : g \notin readers}}

Unserve(gone) ==
    /\ served' = served \ gone
    /\ files' = files \ DeletedBy(gone \intersect served)

Download(f) ==
    /\ f \in served /\ f \notin readers /\ f.number \in files
    /\ Cardinality(readers) < MaxDownloads
    /\ readers' = readers \union {f}
    /\ UNCHANGED <<life, pipeline, cache, directory, files, served>>

\* Mutant: a file withdrawn during a download is not deleted after it.
DownloadEndsKeepsFile(f) ==
    /\ f \in readers
    /\ readers' = readers \ {f}
    /\ UNCHANGED <<life, pipeline, cache, directory, files, served>>

DownloadEnds(f) ==
    /\ f \in readers
    /\ readers' = readers \ {f}
    /\ files' = IF f \in served THEN files ELSE files \ {f.number}
    /\ UNCHANGED <<life, pipeline, cache, directory, served>>

\* cleanup(): the token's time is over.
Expires(f) ==
    /\ f \in served
    /\ Unserve({f})
    /\ UNCHANGED <<life, pipeline, cache, directory, readers>>

-----------------------------------------------------------------------------
(* The session, as far as the preview depends on it.                       *)
To(s, t, step) == ender' = [ender EXCEPT ![s][t] = step]
Idle(t) == \A s \in Sessions : ender[s][t] = "idle"

\* Sessions that a thread, a window, a download or an entry still belongs to.
Referenced(s) ==
    \/ live = s \/ s \in {f.session : f \in served \union readers}
    \/ \E t \in Threads : ender[s][t] # "idle"
    \/ queue # None /\ queue.session = s
    \/ worker.window # None /\ worker.window.session = s

\* self.session = None, and with it what is kept of the current session.
SessionGone ==
    /\ live' = None /\ phase' = "none"
    /\ listening' = FALSE /\ scans' = FALSE /\ frame' = 0

\* A new session object; its ID may be that of the one before.
Prepare(s) ==
    /\ live = None /\ Idle("control") /\ ~Referenced(s)
    /\ live' = s /\ phase' = "prepared"
    /\ directory' = TRUE
    /\ cache' = [cache EXCEPT ![s] = {}]
    /\ UNCHANGED <<listening, ender, pipeline, files, http>>

\* An input is missing, the stack does not start, or the session was ready too long.
PreparationEnds ==
    /\ phase = "prepared" /\ SessionGone
    /\ UNCHANGED <<ender, queue, worker, cache, directory, files, http>>

StartMapping ==
    /\ phase = "prepared" /\ Idle("control")
    /\ phase' = "mapping" /\ listening' = TRUE
    /\ UNCHANGED <<live, ender, pipeline, cache, directory, files, http>>

\* The token is renewed under the lock: subscribers and windows become stale.
Stale(w, s) == IF w # None /\ w.session = s THEN [w EXCEPT !.current = FALSE] ELSE w

Renew(s) ==
    /\ listening' = (listening /\ live # s)
    /\ queue' = Stale(queue, s)
    /\ worker' = [worker EXCEPT !.window = Stale(@, s)]

StopMapping ==
    /\ phase = "mapping" /\ Idle("control")
    /\ Renew(live)
    /\ phase' = "generating" /\ To(live, "generator", "working")
    /\ scans' = FALSE
    /\ UNCHANGED <<live, frame, cache, directory, files, http>>

\* The watchdog finds an input silent, and fails the session after it has
\* released the lock: the session may be generating by then, or gone.
InputLost ==
    /\ phase = "mapping" /\ Idle("watchdog")
    /\ To(live, "watchdog", "decided")
    /\ UNCHANGED <<live, phase, listening, pipeline, cache, directory, files, http>>

\* _fail_session: the state with the token, if the session is still current.
FailSession(s) ==
    /\ ender[s]["watchdog"] = "decided"
    /\ IF live = s
       THEN Renew(s) /\ phase' = "error" /\ To(s, "watchdog", "cleaning")
       ELSE To(s, "watchdog", "idle") /\ UNCHANGED <<phase, listening, queue, worker>>
    /\ UNCHANGED <<live, scans, frame, cache, directory, files, http>>

\* A PREPARE with restart_active, or an ABORT, of a session that may be restarted.
RestartWanted ==
    /\ phase \in {"prepared", "mapping", "error"} /\ Idle("control")
    /\ To(live, "control", "decided")
    /\ UNCHANGED <<live, phase, listening, pipeline, cache, directory, files, http>>

\* _restart_active_session: the state stays what it was, and nobody asks
\* whether the session is still current.
Restart(s) ==
    /\ ender[s]["control"] = "decided"
    /\ Renew(s) /\ To(s, "control", "cleaning")
    /\ UNCHANGED <<live, phase, scans, frame, cache, directory, files, http>>

\* The artifact is registered, or there will be none.
GenerationEnds(s) ==
    /\ ender[s]["generator"] = "working" /\ To(s, "generator", "cleaning")
    /\ UNCHANGED <<live, phase, listening, pipeline, cache, directory, files, http>>

\* The save failed: the session maps again, with the subscribers of the token
\* read before; the watchdog may have renewed it, and the session may be gone.
GenerationResumes(s, current) ==
    /\ ender[s]["generator"] = "working" /\ To(s, "generator", "idle")
    /\ current \/ live # s \/ ender[s]["watchdog"] # "idle"
    /\ IF live = s THEN phase' = "mapping" /\ listening' = current
                   ELSE UNCHANGED <<phase, listening>>
    /\ UNCHANGED <<live, pipeline, cache, directory, files, http>>

CleanFragments(s, t) ==
    /\ ender[s][t] = "cleaning"
    /\ cache' = [cache EXCEPT ![s] = {}]
    /\ Unserve({Fragment(s, n) : n \in cache[s]})
    /\ To(s, t, IF t = "control" THEN "resetting" ELSE "ending")
    /\ UNCHANGED <<live, phase, listening, pipeline, directory, readers>>

\* The restart stops the stack and removes the directory.
ResetPaths(s) ==
    /\ ender[s]["control"] = "resetting" /\ To(s, "control", "ending")
    /\ directory' = FALSE /\ files' = {}
    /\ UNCHANGED <<live, phase, listening, pipeline, cache, http>>

\* The stack does not stop: the session stays, deaf.
RestartFails(s) ==
    /\ ender[s]["control"] = "resetting" /\ To(s, "control", "idle")
    /\ UNCHANGED <<live, phase, listening, pipeline, cache, directory, files, http>>

SessionEnds(s, t) ==
    /\ ender[s][t] = "ending" /\ To(s, t, "idle")
    /\ IF live = s THEN SessionGone ELSE UNCHANGED <<live, phase, listening, scans, frame>>
    /\ UNCHANGED <<queue, worker, cache, directory, files, http>>

-----------------------------------------------------------------------------
(* Windows.  The clouds' callback and the watchdog flush; a window that    *)
(* waits in the queue gives way to a newer one.                            *)
\* Mutant: only the session object is compared.
CurrentSession(w) == live = w.session

Current(w) == live = w.session /\ w.current /\ phase = "mapping"

CloudArrives ==
    /\ phase = "mapping" /\ listening /\ ~scans
    /\ scans' = TRUE
    /\ UNCHANGED <<life, queue, worker, frame, cache, directory, files, http>>

\* The watchdog flushes under the token of the moment, the callback under its own.
FlushWindow ==
    /\ phase = "mapping" /\ scans
    /\ listening \/ \A s \in Sessions : ender[s]["watchdog"] \in {"idle", "decided"}
    /\ queue' = [session |-> live, current |-> TRUE]
    /\ scans' = FALSE
    /\ UNCHANGED <<life, worker, frame, cache, directory, files, http>>

\* The thread takes a window, and any that comes while it waits for its turn.
TakeWindow ==
    /\ worker.step \in {"idle", "held"} /\ queue # None
    /\ worker' = [step |-> "held", window |-> queue, number |-> 0]
    /\ queue' = None
    /\ UNCHANGED <<life, scans, frame, cache, directory, files, http>>

WorkerTo(step) == worker' = [worker EXCEPT !.step = step]
GivesUp == worker' = Resting

NumberFragment ==
    /\ worker.step = "held" /\ Current(worker.window) /\ frame <= LastFrame
    /\ worker' = [worker EXCEPT !.step = "numbered", !.number = frame]
    /\ frame' = frame + 1
    /\ UNCHANGED <<life, scans, queue, cache, directory, files, http>>

\* The window is not current any more, is empty, or cannot be processed; at a
\* later step, the file cannot be written.
DropWindow ==
    /\ worker.step \in {"held", "numbered"}
    /\ GivesUp
    /\ UNCHANGED <<life, scans, queue, frame, cache, directory, files, http>>

WriteFragment ==
    /\ worker.step = "numbered" /\ directory
    /\ files' = files \union {worker.number}
    /\ WorkerTo("written")
    /\ UNCHANGED <<life, scans, queue, frame, cache, directory, http>>

Held == Fragment(worker.window.session, worker.number)

RegisterFragment ==
    /\ worker.step = "written"
    /\ served' = served \union {Held}
    /\ WorkerTo("registered")
    /\ UNCHANGED <<life, scans, queue, frame, cache, directory, files, readers>>

\* The oldest fragments give way to the newest MaxUnacked.
Newest(numbers) == {n \in numbers : Cardinality({m \in numbers : m > n}) < MaxUnacked}

\* Under the lock: still current, or the file is withdrawn again.
CacheFragment ==
    /\ worker.step = "registered"
    /\ LET s == worker.window.session
           all == cache[s] \union {worker.number}
       IN  IF Current(worker.window)
           THEN /\ cache' = [cache EXCEPT ![s] = Newest(all)]
                /\ Unserve({Fragment(s, n) : n \in all \ Newest(all)})
           ELSE Unserve({Held}) /\ UNCHANGED cache
    /\ GivesUp
    /\ UNCHANGED <<life, scans, queue, frame, directory, readers>>

\* Mutant: an acknowledged fragment is forgotten, and its entry kept.
AcknowledgeKeepsEntry(n) ==
    /\ phase \in {"mapping", "generating"} /\ Idle("control") /\ n \in cache[live]
    /\ cache' = [cache EXCEPT ![live] = @ \ {n}]
    /\ UNCHANGED <<life, pipeline, directory, readers, served, files>>

\* cloud_fragment_ack of the current session.
Acknowledge(n) ==
    /\ phase \in {"mapping", "generating"} /\ Idle("control") /\ n \in cache[live]
    /\ cache' = [cache EXCEPT ![live] = @ \ {n}]
    /\ Unserve({Fragment(live, n)})
    /\ UNCHANGED <<life, pipeline, directory, readers>>

-----------------------------------------------------------------------------
SessionSteps ==
    \/ PreparationEnds \/ StartMapping \/ StopMapping \/ InputLost \/ RestartWanted
    \/ \E s \in Sessions :
          \/ Prepare(s) \/ FailSession(s) \/ Restart(s) \/ ResetPaths(s) \/ RestartFails(s)
          \/ GenerationEnds(s) \/ \E current \in BOOLEAN : GenerationResumes(s, current)
          \/ \E t \in Threads : CleanFragments(s, t) \/ SessionEnds(s, t)
PreviewThread ==
    \/ TakeWindow \/ NumberFragment \/ DropWindow
    \/ WriteFragment \/ RegisterFragment \/ CacheFragment
Station ==
    \/ \E n \in 0..LastFrame : Acknowledge(n)
    \/ \E f \in Fragments : Download(f) \/ DownloadEnds(f) \/ Expires(f)

Next == SessionSteps \/ PreviewThread \/ Station \/ CloudArrives \/ FlushWindow

Spec == Init /\ [][Next]_vars

-----------------------------------------------------------------------------
\* A fragment that can be downloaded is one the session still counts as not
\* acknowledged, or the one the preview thread is about to count: withdrawing,
\* acknowledging and superseding a fragment all reach both tables.
ServedIsCounted ==
    \A f \in served : \/ f.number \in cache[f.session]
                      \/ worker.step = "registered" /\ f = Held

\* No fragment file is left behind: each has an entry that will expire, a
\* download that will delete it, or the preview thread at work on it.
NoOrphanFile ==
    \A n \in files : \/ n \in {f.number : f \in served \union readers}
                     \/ worker.step = "written" /\ n = worker.number

\* Another thread has still to withdraw the session's fragments.
WillClean(s) == \E t \in Threads : ender[s][t] \in {"working", "cleaning"}

\* Whichever thread takes a session away that failed or was saved, all its
\* fragments are withdrawn by then, also one whose window was in the preview
\* thread's hands, or another thread that is ending the same session still will.
\* (A session taken away while its state says "mapping" is another matter: the
\* state is left so by a restart, and set so again by a generation that failed
\* while the watchdog was ending the session; both go on producing fragments
\* after the cleanup.)
EndsWithdrawn ==
    [][live # None /\ live' = None /\ phase # "mapping"
         => cache[live] = {} \/ WillClean(live)]_vars
=============================================================================
