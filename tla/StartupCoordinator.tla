------------------------- MODULE StartupCoordinator -------------------------
(***************************************************************************)
(* page/src/startup_coordinator.ts: one asynchronous function takes the    *)
(* page from the visible editor to a ready project, with or without the    *)
(* cache of the standard library (stdlib_cache.ts), while a user may abort *)
(* it and the runtime may dispose of it.  What it waits for is given to it *)
(* by App.tsx.                                                             *)
(*                                                                         *)
(* run is the await at which #run() stands.  The analyzer session that     *)
(* initializeAnalyzer() returns is followed until it is disposed of.       *)
(***************************************************************************)
EXTENDS Naturals, Sequences

VARIABLES run,                 \* where #run() stands
          generation, runGeneration, \* #generation, and the one #run() was given
          aborted,             \* the controller's signal
          snapshot,            \* phase and tasks
          prefetch,            \* the promise of prefetchSysroots()
          cached,              \* cacheEnabled
          session,             \* is #session set?
          analyzer,            \* the session's own life, with its disposals
                    \* installSysroots() resolved
          cleanupFailed, disposal, started

coordinatorVars == <<run, generation, runGeneration, aborted, snapshot, prefetch, cached,
                     session, analyzer, cleanupFailed, disposal, started>>

Phases == <<"editor-visible", "vfs-starting", "analyzer-initializing", "sysroots-loading",
            "project-activating", "semantic-warming", "ready">>
Range1(s) == {s[i] : i \in 1..Len(s)}
Sysroots == {"rust-src", "target-sysroot"}
Tasks == {"editor", "analyzer", "project"} \cup Sysroots
TaskStates == {"pending", "running", "complete", "failed"}

Awaits == {"vfs", "cache", "prefetch", "initialize", "install", "activate"}
Steps == Awaits \cup {"idle", "cleanup", "resolved", "rejected"}

InitialTasks == [t \in Tasks |-> IF t = "editor" THEN "complete" ELSE "pending"]

Init == /\ run = "idle" /\ generation = 0 /\ runGeneration = 0
        /\ aborted = FALSE
        /\ snapshot = [phase |-> "editor-visible", tasks |-> InitialTasks]
        /\ prefetch = "none" /\ cached = FALSE
        /\ session = FALSE /\ analyzer = [life |-> "none", disposals |-> 0]
        /\ cleanupFailed = FALSE /\ disposal = "none"
        /\ started = FALSE

(* --- snapshots ----------------------------------------------------------- *)

\* taskStateForPhase()
TaskState(t, phase) ==
  CASE t = "editor" \/ phase = "ready" -> "complete"
    [] phase \in {"project-activating", "semantic-warming"} /\ t # "editor" ->
         IF t = "project" THEN "running" ELSE "complete"
    [] phase = "sysroots-loading" /\ t # "editor" ->
         IF t = "analyzer" THEN "complete" ELSE IF t \in Sysroots THEN "running" ELSE "pending"
    [] phase = "analyzer-initializing" /\ t # "editor" ->
         IF t = "project" THEN "pending" ELSE "running"
    [] phase = "vfs-starting" /\ t # "editor" -> IF t \in Sysroots THEN "running" ELSE "pending"
    [] phase = "editor-visible" /\ t # "editor" -> "pending"

Final == snapshot.phase \in {"ready", "failed"}
\* #setPhase(), by a run of an earlier generation in vain.
SetPhase(phase) ==
  IF runGeneration # generation \/ Final THEN snapshot
  ELSE [phase |-> phase, tasks |-> [t \in Tasks |-> TaskState(t, phase)]]

\* #setFailed()
Failed(s) == [phase |-> "failed",
              tasks |-> [t \in Tasks |-> IF s.tasks[t] = "running" THEN "failed" ELSE s.tasks[t]]]

(* --- start() and #run() --------------------------------------------------- *)

\* #disposeSession() up to the session's dispose().
DisposedNow(a) == [a EXCEPT !.life = "disposing", !.disposals = @ + 1]

\* throwIfAborted() and a rejected await lead to the catch: the failure is
\* shown, and the session of this run, unless dispose() has taken it, is
\* disposed of, once.
Throws(kept, a) ==
  /\ snapshot' = IF generation = runGeneration THEN Failed(snapshot) ELSE snapshot
  /\ session' = FALSE
  /\ IF kept THEN run' = "cleanup" /\ analyzer' = DisposedNow(a)
             ELSE run' = "rejected" /\ analyzer' = a

Start ==
  /\ ~started /\ started' = TRUE
  /\ generation' = generation + 1 /\ runGeneration' = generation + 1
  /\ IF aborted
       THEN /\ snapshot' = Failed(snapshot) /\ run' = "rejected" /\ UNCHANGED prefetch
       ELSE /\ run' = "vfs" /\ prefetch' = "running"
            /\ snapshot' = IF Final THEN snapshot
                           ELSE [phase |-> "vfs-starting",
                                 tasks |-> [t \in Tasks |-> TaskState(t, "vfs-starting")]]
  /\ UNCHANGED <<aborted, cached, session, analyzer, cleanupFailed, disposal>>

\* fetchStdlibCache(): any unexpected answer means to do without the cache.
CacheBytes(manifest, parts, digest) == manifest /\ parts /\ digest
\* prepareStdlibCache(): the bytes were fetched and the guest took them.
CacheEnabled(fetched, taken) == fetched /\ taken

\* The run goes on to its next await, showing a phase if there is one.
GoesOn(next, phase) ==
  /\ run' = next
  /\ snapshot' = IF phase = "" THEN snapshot ELSE SetPhase(phase)

VfsReady ==
  /\ run = "vfs" /\ ~aborted /\ GoesOn("cache", "")
  /\ UNCHANGED <<generation, runGeneration, aborted, prefetch, cached, session, analyzer,
                 cleanupFailed, disposal, started>>

CachePrepared ==
  /\ run = "cache" /\ ~aborted
  /\ \E manifest, parts, digest, taken \in BOOLEAN :
       LET enabled == CacheEnabled(CacheBytes(manifest, parts, digest), taken) IN
         /\ cached' = enabled
         /\ IF enabled THEN GoesOn("prefetch", "") ELSE GoesOn("initialize", "analyzer-initializing")
  /\ UNCHANGED <<generation, runGeneration, aborted, prefetch, session, analyzer, cleanupFailed, disposal, started>>

\* Both orders wait for the prefetch before the sysroots are installed.
Prefetched ==
  /\ run = "prefetch" /\ prefetch = "ok" /\ ~aborted /\ GoesOn("install", "sysroots-loading")
  /\ UNCHANGED <<generation, runGeneration, aborted, prefetch, cached, session, analyzer,
                 cleanupFailed, disposal, started>>

Installed ==
  /\ run = "install" /\ ~aborted
  /\ IF cached THEN GoesOn("initialize", "analyzer-initializing")
               ELSE GoesOn("activate", "project-activating")
  /\ UNCHANGED <<generation, runGeneration, aborted, prefetch, cached, session, analyzer,
                 cleanupFailed, disposal, started>>

Live == [life |-> "live", disposals |-> 0]
\* Mutant: a session that comes after the abort is not kept.
InitializedUnkept ==
  /\ run = "initialize"
  /\ IF aborted THEN Throws(FALSE, Live)
     ELSE /\ session' = TRUE /\ analyzer' = Live
          /\ IF cached THEN GoesOn("activate", "project-activating") ELSE GoesOn("prefetch", "")
  /\ UNCHANGED <<generation, runGeneration, aborted, prefetch, cached, cleanupFailed,
                 disposal, started>>

\* The session is kept before the signal is looked at.
Initialized ==
  /\ run = "initialize"
  /\ IF aborted THEN Throws(TRUE, Live)
     ELSE /\ session' = TRUE /\ analyzer' = Live
          /\ IF cached THEN GoesOn("activate", "project-activating") ELSE GoesOn("prefetch", "")
  /\ UNCHANGED <<generation, runGeneration, aborted, prefetch, cached, cleanupFailed,
                 disposal, started>>

Activated ==
  /\ run = "activate" /\ ~aborted /\ GoesOn("resolved", "ready")
  /\ UNCHANGED <<generation, runGeneration, aborted, prefetch, cached, session, analyzer,
                 cleanupFailed, disposal, started>>

\* The await rejects, or ends and the signal is found aborted.
AwaitFails ==
  /\ run \in Awaits
  /\ run = "prefetch" => prefetch = "error" \/ (prefetch = "ok" /\ aborted)
  /\ Throws(session, analyzer)
  /\ UNCHANGED <<generation, runGeneration, aborted, prefetch, cached, cleanupFailed,
                 disposal, started>>

(* --- callbacks ------------------------------------------------------------ *)

PrefetchEnds ==
  /\ prefetch = "running" /\ \E outcome \in {"ok", "error"} : prefetch' = outcome
  /\ UNCHANGED <<run, generation, runGeneration, aborted, snapshot, cached, session, analyzer,
                 cleanupFailed, disposal, started>>

\* reportStartupProgress is App's, and stays set after the prefetch.
ReportProgress(id) ==
  /\ prefetch # "none"
  /\ runGeneration = generation /\ ~aborted /\ ~Final
  /\ snapshot' = [snapshot EXCEPT !.tasks[id] = "running"]
  /\ UNCHANGED <<run, generation, runGeneration, aborted, prefetch, cached, session, analyzer,
                 cleanupFailed, disposal, started>>

\* activateProject() calls back, perhaps after it has been given up.
Warming ==
  /\ analyzer.life # "none" /\ runGeneration > 0
  /\ run \in {"activate", "cleanup", "rejected"}
  /\ snapshot' = SetPhase("semantic-warming") /\ snapshot' # snapshot
  /\ UNCHANGED <<run, generation, runGeneration, aborted, prefetch, cached, session, analyzer,
                 cleanupFailed, disposal, started>>

ReportProjectProgress ==
  /\ runGeneration = generation /\ ~aborted /\ snapshot.phase = "project-activating"
  /\ snapshot' = [snapshot EXCEPT !.tasks["project"] = "running"]
  /\ UNCHANGED <<run, generation, runGeneration, aborted, prefetch, cached, session, analyzer,
                 cleanupFailed, disposal, started>>

(* --- abort() and dispose() ------------------------------------------------ *)

Abort ==
  /\ ~aborted /\ aborted' = TRUE
  /\ UNCHANGED <<run, generation, runGeneration, snapshot, prefetch, cached, session, analyzer,
                 cleanupFailed, disposal, started>>

CleanupEnds ==
  /\ run = "cleanup" /\ run' = "rejected" /\ cleanupFailed' \in BOOLEAN
  /\ UNCHANGED <<generation, runGeneration, aborted, snapshot, prefetch, cached, session,
                 analyzer, disposal, started>>

Dispose ==
  /\ disposal = "none" /\ generation' = generation + 1 /\ aborted' = TRUE
  /\ IF session THEN session' = FALSE /\ analyzer' = DisposedNow(analyzer) /\ disposal' = "first"
                ELSE disposal' = "run" /\ UNCHANGED <<session, analyzer>>
  /\ UNCHANGED <<run, runGeneration, snapshot, prefetch, cached, cleanupFailed, started>>

FirstDisposed ==
  /\ disposal = "first" /\ disposal' = "run"
  /\ UNCHANGED <<run, generation, runGeneration, aborted, snapshot, prefetch, cached, session,
                 analyzer, cleanupFailed, started>>

\* #run() has ended; a session it has left behind is disposed of.
RunAwaited ==
  /\ disposal = "run" /\ run \in {"idle", "resolved", "rejected"}
  /\ disposal' = "over"
  /\ IF session THEN session' = FALSE /\ analyzer' = DisposedNow(analyzer)
                ELSE UNCHANGED <<session, analyzer>>
  /\ UNCHANGED <<run, generation, runGeneration, aborted, snapshot, prefetch, cached, cleanupFailed, started>>

RunStep == \/ VfsReady \/ CachePrepared \/ Prefetched \/ Installed \/ Initialized \/ Activated
           \/ AwaitFails \/ CleanupEnds
Next == \/ Start \/ RunStep \/ PrefetchEnds \/ \E id \in Sysroots : ReportProgress(id)
        \/ Warming \/ ReportProjectProgress \/ Abort
        \/ Dispose \/ FirstDisposed \/ RunAwaited

Spec == Init /\ [][Next]_coordinatorVars
\* What is awaited settles: AwaitFails alone is not taken for granted.
FairSpec == /\ Spec /\ WF_coordinatorVars(RunStep) /\ WF_coordinatorVars(PrefetchEnds)
            /\ WF_coordinatorVars(FirstDisposed) /\ WF_coordinatorVars(RunAwaited)

(* --- properties ------------------------------------------------------------ *)

TypeOK ==
  /\ run \in Steps /\ generation \in 0..2 /\ runGeneration \in 0..2
  /\ aborted \in BOOLEAN /\ prefetch \in {"none", "running", "ok", "error"}
  /\ snapshot \in [phase : Range1(Phases) \cup {"failed"}, tasks : [Tasks -> TaskStates]]
  /\ cached \in BOOLEAN /\ session \in BOOLEAN
  /\ analyzer \in [life : {"none", "live", "disposing"}, disposals : 0..2]
  /\ cleanupFailed \in BOOLEAN /\ started \in BOOLEAN
  /\ disposal \in {"none", "first", "run", "over"}

\* However a failure, an abort and dispose() meet, the analyzer is disposed of
\* at most once, and exactly once when dispose() has ended.
AnalyzerDisposedOnce ==
  /\ analyzer.disposals <= 1
  /\ disposal = "over" => (analyzer.life # "none" => analyzer.disposals = 1)

\* A coordinator that is being disposed of shows nothing more, whatever its
\* run and the callbacks it has handed out still do; only a start() that comes
\* too late is answered with a failure.
QuietAfterDispose ==
  [][disposal # "none" => snapshot' = snapshot \/ (~started /\ started')]_coordinatorVars

\* dispose() comes to an end, also in the middle of a startup.
DisposeEnds == []<>(disposal \in {"none", "over"})
=============================================================================
