------------------------------ MODULE HostProofs -----------------------------
(*****************************************************************************)
(* Proofs about the components of the page and of its workers, for every     *)
(* number of tabs, documents, providers, calls, edits and frames: the cache  *)
(* of archives, the startup coordinator, the readiness of the analyzer, the  *)
(* messages to and from it, and the language client, each along an inductive *)
(* invariant of its own; then the documents, the activation and the runtime, *)
(* whose theorems DocumentSyncProofs, ProjectActivationProofs and            *)
(* AppRuntimeProofs prove.                                                   *)
(*****************************************************************************)
EXTENDS MCHost, Integers, FiniteSetTheorems, SequenceTheorems, WellFoundedInduction, TLAPS

-----------------------------------------------------------------------------
(* The cache of archives (AssetCache).                                      *)

AssetTypes == /\ listed \in [Tabs -> SUBSET Assets!Builds] /\ newest \in [Tabs -> 0..2]
              /\ source \in [Tabs -> {"none", "good", "bad"}] /\ assetBody \in [Tabs -> Nat]

\* What is read is good, what a load has was read to its end, and a pruning tab has asked for
\* a build that was deployed by then.
ReadsGood == \A t \in Tabs :
  /\ op[t] = "reading" => source[t] = "good"
  /\ result[t] = "loaded" => op[t] = "ended"
AskedDeployed == \A t \in Tabs : newest[t] <= deployed

AssetInv == Assets!TypeOK /\ AssetTypes /\ ReadsGood /\ AskedDeployed

LEMMA AssetFacts == Build \in [Tabs -> Assets!Builds] /\ Timeout \in Nat /\ Assets!Builds = {1, 2}
  BY HostAssumption DEF HostAssumption, Assets!BuildAssumption, Assets!Builds

LEMMA AssetInit == Assets!Init => AssetInv
  BY AssetFacts
  DEF Assets!Init, AssetInv, Assets!TypeOK, AssetTypes, ReadsGood, AskedDeployed, Assets!Running

LEMMA AssetStep == AssetInv /\ [Assets!Next]_(Assets!assetVars) => AssetInv'
<1> SUFFICES ASSUME AssetInv, [Assets!Next]_(Assets!assetVars) PROVE AssetInv'
  OBVIOUS
<1> USE AssetFacts DEF AssetInv, Assets!TypeOK, AssetTypes, ReadsGood, AskedDeployed, Assets!Running
<1>1. CASE Assets!Deploy
  BY <1>1 DEF Assets!Deploy, Assets!loadVars, Assets!pruneVars
<1>2. CASE Assets!Tick
  BY <1>2 DEF Assets!Tick, Assets!pruneVars
<1>3. ASSUME NEW t \in Tabs, Assets!Load(t) \/ Assets!Match(t) PROVE AssetInv'
  BY <1>3 DEF Assets!Load, Assets!Match, Assets!To, Assets!pruneVars
<1>4. ASSUME NEW t \in Tabs, Assets!Delete(t) \/ Assets!PutEnds(t) PROVE AssetInv'
  BY <1>4 DEF Assets!Delete, Assets!PutEnds, Assets!To, Assets!pruneVars, Assets!loadVars
<1>5. ASSUME NEW t \in Tabs, Assets!Fetched(t) \/ Assets!Accept(t) PROVE AssetInv'
  BY <1>5 DEF Assets!Fetched, Assets!Accept, Assets!Throws, Assets!To, Assets!pruneVars
<1>6. ASSUME NEW t \in Tabs, Assets!Break(t) \/ Assets!Chunk(t) PROVE AssetInv'
  BY <1>6 DEF Assets!Break, Assets!Chunk, Assets!Throws, Assets!To, Assets!pruneVars
<1>7. ASSUME NEW t \in Tabs, Assets!ReadDone(t) PROVE AssetInv'
  BY <1>7 DEF Assets!ReadDone, Assets!Throws, Assets!To
<1>8. ASSUME NEW t \in Tabs, Assets!Abort(t) \/ Assets!TimerFires(t) PROVE AssetInv'
  BY <1>8 DEF Assets!Abort, Assets!TimerFires, Assets!Stopped, Assets!pruneVars
<1>9. ASSUME NEW t \in Tabs,
             Assets!List(t) \/ Assets!Ask(t) \/ Assets!PruneFails(t) \/ Assets!PruneDone(t)
      PROVE  AssetInv'
  BY <1>9 DEF Assets!List, Assets!Ask, Assets!PruneFails, Assets!PruneDone, Assets!loadVars
<1>10. ASSUME NEW t \in Tabs, NEW b \in Assets!Builds, Assets!PruneOne(t, b) PROVE AssetInv'
  BY <1>10 DEF Assets!PruneOne, Assets!loadVars
<1>11. CASE UNCHANGED Assets!assetVars
  BY <1>11 DEF Assets!assetVars, Assets!loadVars, Assets!pruneVars
<1> QED
  BY <1>1, <1>2, <1>3, <1>4, <1>5, <1>6, <1>7, <1>8, <1>9, <1>10, <1>11
  DEF Assets!Next, Assets!Operation

LEMMA AssetPrunes ==
  AssetInv /\ Assets!Next =>
    \A b \in Assets!Builds : assetCache[b] # "none" /\ assetCache'[b] = "none"
      => b < deployed \/ \E t \in Tabs : Build[t] = b /\ op[t] = "deleting"
<1> SUFFICES ASSUME AssetInv, Assets!Next, NEW b \in Assets!Builds,
                    assetCache[b] # "none", assetCache'[b] = "none"
             PROVE  b < deployed \/ \E t \in Tabs : Build[t] = b /\ op[t] = "deleting"
  OBVIOUS
<1> USE AssetFacts DEF AssetInv, Assets!TypeOK, AssetTypes
<1>1. ASSUME NEW t \in Tabs, Assets!Delete(t) PROVE Build[t] = b /\ op[t] = "deleting"
  BY <1>1 DEF Assets!Delete
<1>2. ASSUME NEW t \in Tabs, NEW c \in Assets!Builds, Assets!PruneOne(t, c)
      PROVE  b < deployed
  BY <1>2 DEF Assets!PruneOne, Assets!Older, AskedDeployed
<1>3. ASSUME NEW t \in Tabs, Assets!PutEnds(t) PROVE FALSE
  BY <1>3 DEF Assets!PutEnds
<1>4. CASE UNCHANGED assetCache
  BY <1>4
<1> QED
  BY <1>1, <1>2, <1>3, <1>4
  DEF Assets!Next, Assets!Operation, Assets!Deploy, Assets!Tick, Assets!Load, Assets!Match,
      Assets!Fetched, Assets!Accept, Assets!Break, Assets!Chunk, Assets!ReadDone, Assets!Abort,
      Assets!TimerFires, Assets!List, Assets!Ask, Assets!PruneFails, Assets!PruneDone

LEMMA StepOfAssets == [Next]_vars => [Assets!Next]_(Assets!assetVars)
  BY DEF Next, vars, assetVars, Assets!assetVars, Assets!loadVars, Assets!pruneVars, HttpStep,
         DownloadStep, AssetsStep, CoordinatorStep, LanguageStep, TransportStep, ReadinessStep,
         DocumentsStep, ActivationStep, RuntimeStep

\* A tab that cleans the shared cache deletes no archive of its own build nor of a newer one,
\* whatever is deployed between its listing, its question and its deletions.
THEOREM CacheIsSound == Spec => CacheSound
<1>1. Init => AssetInv
  BY AssetInit DEF Init
<1>2. AssetInv /\ [Next]_vars => AssetInv'
  BY AssetStep, StepOfAssets
<1>3. AssetInv => (part = "asset" => Assets!TypeOK)
  BY DEF AssetInv
<1>4. AssetInv /\ [Next]_vars =>
        [\A b \in Assets!Builds : assetCache[b] # "none" /\ assetCache'[b] = "none"
           => b < deployed \/ \E t \in Tabs : Build[t] = b /\ op[t] = "deleting"]_(Assets!assetVars)
  BY AssetPrunes, StepOfAssets
<1> QED
  BY <1>1, <1>2, <1>3, <1>4, PTL DEF Spec, CacheSound, Assets!PruneKeepsNewer

-----------------------------------------------------------------------------
(* The startup of the page (StartupCoordinator).                            *)

\* The session that the coordinator holds is the one analyzer that lives; no analyzer was
\* there before the run came to the await that returns it.
OneAnalyzer ==
  /\ session = (analyzer.life = "live")
  /\ analyzer.disposals = IF analyzer.life = "disposing" THEN 1 ELSE 0
  /\ run \in {"idle", "vfs", "cache", "initialize"} \/ (run \in {"prefetch", "install"} /\ cached)
       => analyzer.life = "none"

\* Each of start() and dispose() begins a generation; what was started before dispose() is of
\* an earlier one, what is started after it fails at once.
Generations ==
  /\ generation = (IF started THEN 1 ELSE 0) + (IF coordinatorDisposal = "none" THEN 0 ELSE 1)
  /\ runGeneration <= generation
  /\ ~started => run = "idle" /\ runGeneration = 0
  /\ coordinatorDisposal # "none" =>
       /\ coordinatorAborted
       /\ runGeneration # generation \/ (run = "rejected" /\ analyzer.life = "none")
  /\ coordinatorDisposal = "over" => session = FALSE /\ run \in {"idle", "resolved", "rejected"}

CoordinatorInv == Coordinator!TypeOK /\ OneAnalyzer /\ Generations

CoordinatorSnapshots ==
  [phase : Coordinator!Range1(Coordinator!Phases) \cup {"failed"},
   tasks : [Coordinator!Tasks -> Coordinator!TaskStates]]

LEMMA PhaseNames ==
  Coordinator!Range1(Coordinator!Phases) =
    {"editor-visible", "vfs-starting", "analyzer-initializing", "sysroots-loading",
     "project-activating", "semantic-warming", "ready"}
<1>1. Len(Coordinator!Phases) = 7 /\ 1..7 = {1, 2, 3, 4, 5, 6, 7}
  BY DEF Coordinator!Phases
<1> QED
  BY <1>1 DEF Coordinator!Range1, Coordinator!Phases

\* Every phase gives each task a state.
LEMMA TaskStateTyped ==
  ASSUME NEW phase_ \in Coordinator!Range1(Coordinator!Phases), NEW t \in Coordinator!Tasks
  PROVE  Coordinator!TaskState(t, phase_) \in Coordinator!TaskStates
<1>1. t = "editor" \/ t # "editor"
  OBVIOUS
<1> QED
  BY PhaseNames DEF Coordinator!TaskState, Coordinator!TaskStates, Coordinator!Sysroots

LEMMA SetPhaseTyped ==
  ASSUME snapshot \in CoordinatorSnapshots, NEW phase_ \in Coordinator!Range1(Coordinator!Phases)
  PROVE  Coordinator!SetPhase(phase_) \in CoordinatorSnapshots
  BY TaskStateTyped DEF CoordinatorSnapshots, Coordinator!SetPhase

LEMMA FailedTyped ==
  ASSUME NEW s \in CoordinatorSnapshots
  PROVE  Coordinator!Failed(s) \in CoordinatorSnapshots
  BY DEF CoordinatorSnapshots, Coordinator!Failed, Coordinator!TaskStates

Analyzers == [life : {"none", "live", "disposing"}, disposals : 0..2]

LEMMA AnalyzerTyped ==
  ASSUME NEW l \in {"none", "live", "disposing"}, NEW n \in 0..2
  PROVE  [life |-> l, disposals |-> n] \in Analyzers
  BY DEF Analyzers

LEMMA NewAnalyzers ==
  /\ [life |-> "none", disposals |-> 0] \in Analyzers
  /\ Coordinator!Live \in Analyzers /\ Coordinator!Live.life = "live"
  /\ Coordinator!Live.disposals = 0
<1>1. 0 \in 0..2
  OBVIOUS
<1> QED
  BY <1>1, AnalyzerTyped DEF Coordinator!Live

LEMMA DisposedTyped ==
  ASSUME NEW a \in Analyzers, a.disposals = 0
  PROVE  /\ Coordinator!DisposedNow(a) \in Analyzers
         /\ Coordinator!DisposedNow(a).life = "disposing"
         /\ Coordinator!DisposedNow(a).disposals = 1
<1> DEFINE d == "disposing"
           n == a.disposals + 1
           b == [a EXCEPT !.life = d, !.disposals = n]
<1>1. d \in {"none", "live", "disposing"} /\ n \in 0..2 /\ n = 1
  BY DEF Analyzers
<1>2. b = Coordinator!DisposedNow(a)
  BY DEF Coordinator!DisposedNow
<1> HIDE DEF d, n
<1>3. b \in Analyzers /\ b.life = d /\ b.disposals = n
  BY <1>1 DEF Analyzers
<1> QED
  BY <1>1, <1>2, <1>3 DEF d

LEMMA CoordinatorInit == Coordinator!Init => CoordinatorInv
<1> SUFFICES ASSUME Coordinator!Init PROVE CoordinatorInv
  OBVIOUS
<1>1. snapshot \in CoordinatorSnapshots
  BY PhaseNames DEF Coordinator!Init, CoordinatorSnapshots, Coordinator!InitialTasks, Coordinator!TaskStates
<1>2. analyzer \in Analyzers /\ analyzer.life = "none" /\ analyzer.disposals = 0
  BY NewAnalyzers DEF Coordinator!Init
<1>3. Coordinator!TypeOK
  BY <1>1, <1>2
  DEF Coordinator!Init, Coordinator!TypeOK, CoordinatorSnapshots, Coordinator!Steps,
      Coordinator!Awaits, Analyzers
<1>4. OneAnalyzer
  <2>1. session = FALSE /\ (analyzer.life = "live") = FALSE
    BY <1>2 DEF Coordinator!Init
  <2> QED
    BY <1>2, <2>1 DEF OneAnalyzer
<1>5. Generations
  BY <1>2 DEF Coordinator!Init, Generations
<1> QED
  BY <1>3, <1>4, <1>5 DEF CoordinatorInv

LEMMA CoordinatorStepInv ==
  CoordinatorInv /\ [Coordinator!Next]_(Coordinator!coordinatorVars) => CoordinatorInv'
<1> SUFFICES ASSUME CoordinatorInv, [Coordinator!Next]_(Coordinator!coordinatorVars)
             PROVE  CoordinatorInv'
  OBVIOUS
<1>S. snapshot \in CoordinatorSnapshots
  BY DEF CoordinatorInv, Coordinator!TypeOK, CoordinatorSnapshots
<1>P. \A p \in {"vfs-starting", "analyzer-initializing", "sysroots-loading", "project-activating",
                "semantic-warming", "ready"} :
        /\ Coordinator!SetPhase(p) \in CoordinatorSnapshots
        /\ [phase |-> p, tasks |-> [t \in Coordinator!Tasks |-> Coordinator!TaskState(t, p)]]
             \in CoordinatorSnapshots
  BY <1>S, SetPhaseTyped, TaskStateTyped, PhaseNames DEF CoordinatorSnapshots
<1>F. Coordinator!Failed(snapshot) \in CoordinatorSnapshots
  BY <1>S, FailedTyped
<1>A. analyzer \in Analyzers
  BY DEF CoordinatorInv, Coordinator!TypeOK, Analyzers
<1> DEFINE Disposed(a) == /\ a \in [life : {"none", "live", "disposing"}, disposals : 0..2]
                          /\ a.life = "disposing" /\ a.disposals = 1
<1>D. session => Disposed(Coordinator!DisposedNow(analyzer))
  BY <1>A, DisposedTyped DEF CoordinatorInv, OneAnalyzer, Analyzers
<1>L. /\ Coordinator!Live \in [life : {"none", "live", "disposing"}, disposals : 0..2]
      /\ Coordinator!Live.life = "live" /\ Coordinator!Live.disposals = 0
      /\ Disposed(Coordinator!DisposedNow(Coordinator!Live))
  BY NewAnalyzers, DisposedTyped DEF Analyzers
<1> DEFINE Known == snapshot' \in CoordinatorSnapshots
<1>1. CASE Coordinator!Start
  <2>1. Known
    BY <1>1, <1>S, <1>P, <1>F DEF Coordinator!Start
  <2> QED
    BY <1>1, <2>1
    DEF Coordinator!Start, CoordinatorInv, Coordinator!TypeOK, OneAnalyzer, Generations,
        CoordinatorSnapshots, Coordinator!Steps, Coordinator!Awaits
<1>2. CASE Coordinator!VfsReady \/ Coordinator!CachePrepared \/ Coordinator!Prefetched
           \/ Coordinator!Installed \/ Coordinator!Activated
  <2>1. Known
    BY <1>2, <1>S, <1>P
    DEF Coordinator!VfsReady, Coordinator!CachePrepared, Coordinator!Prefetched,
        Coordinator!Installed, Coordinator!Activated, Coordinator!GoesOn
  <2>2. /\ coordinatorDisposal = "none"
        /\ UNCHANGED <<generation, runGeneration, coordinatorAborted, session, analyzer,
                       coordinatorDisposal, started, cleanupFailed, prefetch>>
        /\ run # "idle"
    BY <1>2
    DEF Coordinator!VfsReady, Coordinator!CachePrepared, Coordinator!Prefetched,
        Coordinator!Installed, Coordinator!Activated, Coordinator!GoesOn, CoordinatorInv, Generations
  <2>3. run' \in Coordinator!Steps /\ cached' \in BOOLEAN
    BY <1>2
    DEF Coordinator!VfsReady, Coordinator!CachePrepared, Coordinator!Prefetched,
        Coordinator!Installed, Coordinator!Activated, Coordinator!GoesOn, CoordinatorInv,
        Coordinator!TypeOK, Coordinator!CacheEnabled, Coordinator!CacheBytes, Coordinator!Steps,
        Coordinator!Awaits
  <2>4. run' \in {"idle", "vfs", "cache", "initialize"} \/ (run' \in {"prefetch", "install"} /\ cached')
          => analyzer.life = "none"
    BY <1>2
    DEF Coordinator!VfsReady, Coordinator!CachePrepared, Coordinator!Prefetched,
        Coordinator!Installed, Coordinator!Activated, Coordinator!GoesOn, CoordinatorInv,
        OneAnalyzer
  <2> QED
    BY <2>1, <2>2, <2>3, <2>4
    DEF CoordinatorInv, Coordinator!TypeOK, OneAnalyzer, Generations, CoordinatorSnapshots
<1>3. CASE Coordinator!Initialized
  <2>1. Known
    BY <1>3, <1>S, <1>P, <1>F
    DEF Coordinator!Initialized, Coordinator!Throws, Coordinator!GoesOn
  <2>2. run = "initialize" /\ analyzer.life = "none" /\ ~session
    BY <1>3 DEF Coordinator!Initialized, CoordinatorInv, OneAnalyzer
  <2>3. CASE coordinatorAborted
    BY <1>3, <2>1, <2>2, <2>3, <1>L
    DEF Coordinator!Initialized, Coordinator!Throws, CoordinatorInv, Coordinator!TypeOK,
        OneAnalyzer, Generations, CoordinatorSnapshots, Coordinator!Steps
  <2>4. CASE ~coordinatorAborted
    BY <1>3, <2>1, <2>2, <2>4, <1>L
    DEF Coordinator!Initialized, Coordinator!GoesOn, CoordinatorInv, Coordinator!TypeOK,
        OneAnalyzer, Generations, CoordinatorSnapshots, Coordinator!Steps, Coordinator!Awaits
  <2> QED
    BY <2>3, <2>4
<1>4. CASE Coordinator!AwaitFails
  <2>1. Known
    BY <1>4, <1>S, <1>F DEF Coordinator!AwaitFails, Coordinator!Throws
  <2>2. CASE session
    BY <1>4, <2>1, <2>2, <1>D
    DEF Coordinator!AwaitFails, Coordinator!Throws, CoordinatorInv, Coordinator!TypeOK,
        OneAnalyzer, Generations, CoordinatorSnapshots, Coordinator!Steps, Coordinator!Awaits
  <2>3. CASE ~session
    BY <1>4, <2>1, <2>3
    DEF Coordinator!AwaitFails, Coordinator!Throws, CoordinatorInv, Coordinator!TypeOK,
        OneAnalyzer, Generations, CoordinatorSnapshots, Coordinator!Steps, Coordinator!Awaits
  <2> QED
    BY <2>2, <2>3
<1>5. ASSUME NEW id \in Coordinator!Sysroots,
             Coordinator!ReportProgress(id) \/ Coordinator!ReportProjectProgress
             \/ Coordinator!Warming
      PROVE  CoordinatorInv'
  <2>1. Known
    <3>1. CASE Coordinator!ReportProgress(id)
      BY <1>5, <3>1, <1>S
      DEF Coordinator!ReportProgress, CoordinatorSnapshots, Coordinator!TaskStates,
          Coordinator!Tasks
    <3>2. CASE Coordinator!ReportProjectProgress
      BY <3>2, <1>S
      DEF Coordinator!ReportProjectProgress, CoordinatorSnapshots, Coordinator!TaskStates,
          Coordinator!Tasks
    <3>3. CASE Coordinator!Warming
      BY <3>3, <1>P DEF Coordinator!Warming
    <3> QED
      BY <1>5, <3>1, <3>2, <3>3
  <2>2. UNCHANGED <<run, generation, runGeneration, coordinatorAborted, prefetch, cached, session,
                    analyzer, cleanupFailed, coordinatorDisposal, started>>
    BY <1>5 DEF Coordinator!ReportProgress, Coordinator!ReportProjectProgress, Coordinator!Warming
  <2> QED
    BY <2>1, <2>2
    DEF CoordinatorInv, Coordinator!TypeOK, OneAnalyzer, Generations, CoordinatorSnapshots
<1>6. CASE Coordinator!PrefetchEnds \/ Coordinator!CleanupEnds \/ Coordinator!FirstDisposed
           \/ Coordinator!Abort
  <2>1. CASE Coordinator!PrefetchEnds
    BY <2>1 DEF Coordinator!PrefetchEnds, CoordinatorInv, Coordinator!TypeOK, OneAnalyzer, Generations
  <2>2. CASE Coordinator!CleanupEnds
    BY <2>2
    DEF Coordinator!CleanupEnds, CoordinatorInv, Coordinator!TypeOK, OneAnalyzer, Generations,
        Coordinator!Steps
  <2>3. CASE Coordinator!FirstDisposed
    BY <2>3 DEF Coordinator!FirstDisposed, CoordinatorInv, Coordinator!TypeOK, OneAnalyzer, Generations
  <2>4. CASE Coordinator!Abort
    BY <2>4 DEF Coordinator!Abort, CoordinatorInv, Coordinator!TypeOK, OneAnalyzer, Generations
  <2> QED
    BY <1>6, <2>1, <2>2, <2>3, <2>4
<1>7. CASE Coordinator!Dispose \/ Coordinator!RunAwaited
  <2>1. /\ analyzer' \in [life : {"none", "live", "disposing"}, disposals : 0..2]
        /\ session' \in BOOLEAN
        /\ session' = (analyzer'.life = "live")
        /\ analyzer'.disposals = IF analyzer'.life = "disposing" THEN 1 ELSE 0
        /\ (analyzer.life = "none" => analyzer'.life = "none")
    <3>1. CASE session
      BY <1>7, <3>1, <1>D DEF Coordinator!Dispose, Coordinator!RunAwaited, CoordinatorInv, OneAnalyzer
    <3>2. CASE ~session
      <4>1. UNCHANGED <<session, analyzer>>
        BY <1>7, <3>2 DEF Coordinator!Dispose, Coordinator!RunAwaited
      <4> QED
        BY <4>1, <3>2 DEF CoordinatorInv, Coordinator!TypeOK, OneAnalyzer
    <3> QED
      BY <3>1, <3>2
  <2>2. CASE Coordinator!Dispose
    <3>1. UNCHANGED <<run, runGeneration, snapshot, prefetch, cached, cleanupFailed, started>>
          /\ coordinatorDisposal = "none" /\ generation' = generation + 1 /\ coordinatorAborted' = TRUE
          /\ coordinatorDisposal' \in {"first", "run"}
      BY <2>2 DEF Coordinator!Dispose
    <3>2. /\ generation \in 0..2 /\ runGeneration \in 0..2 /\ runGeneration <= generation
          /\ generation = IF started THEN 1 ELSE 0
      BY <3>1 DEF CoordinatorInv, Coordinator!TypeOK, Generations
    <3>3. generation' \in 0..2 /\ runGeneration <= generation' /\ runGeneration # generation'
          /\ generation' = (IF started THEN 1 ELSE 0) + 1
      BY <3>1, <3>2
    <3>4. Generations'
      BY <3>1, <3>3 DEF CoordinatorInv, Generations
    <3>5. OneAnalyzer'
      BY <2>1, <3>1 DEF CoordinatorInv, OneAnalyzer
    <3>6. Coordinator!TypeOK'
      BY <2>1, <3>1, <3>3 DEF CoordinatorInv, Coordinator!TypeOK
    <3> QED
      BY <3>4, <3>5, <3>6 DEF CoordinatorInv
  <2>3. CASE Coordinator!RunAwaited
    <3>1. UNCHANGED <<run, generation, runGeneration, coordinatorAborted, snapshot, prefetch, cached,
                      cleanupFailed, started>>
          /\ coordinatorDisposal = "run" /\ coordinatorDisposal' = "over" /\ session' = FALSE
          /\ run \in {"idle", "resolved", "rejected"}
      BY <2>3 DEF Coordinator!RunAwaited
    <3>2. Generations'
      BY <2>1, <3>1 DEF CoordinatorInv, Generations
    <3>3. OneAnalyzer'
      BY <2>1, <3>1 DEF CoordinatorInv, OneAnalyzer
    <3>4. Coordinator!TypeOK'
      BY <2>1, <3>1 DEF CoordinatorInv, Coordinator!TypeOK
    <3> QED
      BY <3>2, <3>3, <3>4 DEF CoordinatorInv
  <2> QED
    BY <1>7, <2>2, <2>3
<1>8. CASE UNCHANGED Coordinator!coordinatorVars
  BY <1>8
  DEF Coordinator!coordinatorVars, CoordinatorInv, Coordinator!TypeOK, OneAnalyzer, Generations
<1>9. "rust-src" \in Coordinator!Sysroots
  BY DEF Coordinator!Sysroots
<1> QED
  BY <1>1, <1>2, <1>3, <1>4, <1>5, <1>6, <1>7, <1>8, <1>9
  DEF Coordinator!Next, Coordinator!RunStep

LEMMA CoordinatorIsQuiet ==
  CoordinatorInv /\ Coordinator!Next =>
    (coordinatorDisposal # "none" => snapshot' = snapshot \/ (~started /\ started'))
<1> SUFFICES ASSUME CoordinatorInv, Coordinator!Next, coordinatorDisposal # "none"
             PROVE  snapshot' = snapshot \/ (~started /\ started')
  OBVIOUS
<1> USE DEF CoordinatorInv, Generations
<1>1. CASE Coordinator!Start
  BY <1>1 DEF Coordinator!Start
<1>2. CASE Coordinator!RunStep
  BY <1>2
  DEF Coordinator!RunStep, Coordinator!VfsReady, Coordinator!CachePrepared,
      Coordinator!Prefetched, Coordinator!Installed, Coordinator!Initialized,
      Coordinator!Activated, Coordinator!AwaitFails, Coordinator!CleanupEnds, Coordinator!Throws,
      Coordinator!Awaits
<1>3. ASSUME NEW id \in Coordinator!Sysroots, Coordinator!ReportProgress(id) PROVE FALSE
  BY <1>3 DEF Coordinator!ReportProgress
<1>4. CASE Coordinator!Warming
  BY <1>4 DEF Coordinator!Warming, Coordinator!SetPhase
<1>5. CASE Coordinator!ReportProjectProgress
  BY <1>5 DEF Coordinator!ReportProjectProgress
<1> QED
  BY <1>1, <1>2, <1>3, <1>4, <1>5
  DEF Coordinator!Next, Coordinator!PrefetchEnds, Coordinator!Abort, Coordinator!Dispose,
      Coordinator!FirstDisposed, Coordinator!RunAwaited

LEMMA StepOfCoordinator == [Next]_vars => [Coordinator!Next]_(Coordinator!coordinatorVars)
  BY DEF Next, vars, coordinatorVars, Coordinator!coordinatorVars, HttpStep, DownloadStep,
         AssetsStep, CoordinatorStep, LanguageStep, TransportStep, ReadinessStep, DocumentsStep,
         ActivationStep, RuntimeStep

\* However a failure, an abort and dispose() meet, the analyzer of a startup is disposed of at
\* most once, and exactly once when dispose() has ended; after dispose() nothing more is shown.
THEOREM CoordinatorIsSound == Spec => CoordinatorSound
<1>1. Init => CoordinatorInv
  BY CoordinatorInit DEF Init
<1>2. CoordinatorInv /\ [Next]_vars => CoordinatorInv'
  BY CoordinatorStepInv, StepOfCoordinator
<1>3. CoordinatorInv =>
        (part = "coordinator" => Coordinator!TypeOK /\ Coordinator!AnalyzerDisposedOnce)
  BY DEF CoordinatorInv, OneAnalyzer, Generations, Coordinator!TypeOK,
         Coordinator!AnalyzerDisposedOnce
<1>4. CoordinatorInv /\ [Next]_vars =>
        [coordinatorDisposal # "none" => snapshot' = snapshot \/ (~started /\ started')
        ]_(Coordinator!coordinatorVars)
  BY CoordinatorIsQuiet, StepOfCoordinator
<1> QED
  BY <1>1, <1>2, <1>3, <1>4, PTL DEF Spec, CoordinatorSound, Coordinator!QuietAfterDispose

-----------------------------------------------------------------------------
(* The readiness of the analyzer (AnalyzerReadiness).                       *)

TimerTypes ==
  /\ phase \in {"idle", "graph-done", "reopened", "ready", "failed", "graph", "graph-sleep",
                "sleep", "hint"}
  /\ readinessLeft \in 0..Phase /\ timer \in 0..(Phase + Poll)
FlagTypes ==
  lastAttempt \in BOOLEAN /\ crateGraphReady \in BOOLEAN /\ readinessStopped \in BOOLEAN
TextTypes ==
  /\ version \in 1..MaxVersion /\ analyzed \in 1..MaxVersion /\ analyzed <= version
  /\ diagnosticsVersion \in 0..MaxVersion /\ readinessGeneration \in Nat
MessageTypes == published \in Seq(1..MaxVersion)
CapturedTypes == captured \in [generation : Nat, version : 1..MaxVersion]
OneGraph == live = IF phase = "graph" THEN 1 ELSE 0
ReadinessInv ==
  TimerTypes /\ FlagTypes /\ TextTypes /\ MessageTypes /\ CapturedTypes /\ OneGraph

LEMMA ReadinessFacts == /\ Phase \in Nat \ {0} /\ Request \in Nat \ {0} /\ Poll \in Nat \ {0}
                        /\ MaxVersion \in Nat \ {0} /\ MaxPublished \in Nat
  BY HostAssumption DEF HostAssumption, Readiness!TimesAssumption

LEMMA HeadTailTyped ==
  ASSUME NEW S, NEW s \in Seq(S), s # <<>>
  PROVE  Head(s) \in S /\ Tail(s) \in Seq(S)
  OBVIOUS

LEMMA ReadinessInit == Readiness!Init => ReadinessInv
<1> SUFFICES ASSUME Readiness!Init PROVE ReadinessInv
  OBVIOUS
<1>1. 1 \in 1..MaxVersion /\ 0 \in Nat
  BY ReadinessFacts
<1>2. CapturedTypes
  <2> DEFINE n == 0
             v == 1
  <2>1. n \in Nat /\ v \in 1..MaxVersion /\ captured = [generation |-> n, version |-> v]
    BY <1>1 DEF Readiness!Init
  <2> HIDE DEF n, v
  <2> QED
    BY <2>1 DEF CapturedTypes
<1>3. TimerTypes /\ OneGraph
  BY ReadinessFacts DEF Readiness!Init, TimerTypes, OneGraph
<1>6. FlagTypes
  BY DEF Readiness!Init, FlagTypes
<1>4. TextTypes
  BY ReadinessFacts DEF Readiness!Init, TextTypes, Readiness!Undefined
<1>5. MessageTypes
  BY DEF Readiness!Init, MessageTypes
<1> QED
  BY <1>2, <1>3, <1>4, <1>5, <1>6 DEF ReadinessInv

LEMMA ReadinessStepInv ==
  ReadinessInv /\ [Readiness!Next]_(Readiness!readinessVars) => ReadinessInv'
<1> SUFFICES ASSUME ReadinessInv, [Readiness!Next]_(Readiness!readinessVars)
             PROVE  ReadinessInv'
  OBVIOUS
<1>I. TimerTypes /\ FlagTypes /\ TextTypes /\ MessageTypes /\ CapturedTypes /\ OneGraph
  BY DEF ReadinessInv
<1>1. CASE Readiness!WaitForCrateGraph \/ Readiness!GraphAnswers \/ Readiness!GraphTimesOut
           \/ Readiness!GraphSleepEnds \/ Readiness!Stops
  <2>1. /\ phase' = "graph" => /\ timer' = Readiness!Smaller(Request, readinessLeft')
                               /\ (phase = "graph-sleep" \/ phase = "idle") /\ live' = live + 1
        /\ phase' \in {"graph", "graph-sleep", "graph-done", "failed"}
        /\ phase' # "graph" => /\ timer' \in {timer, Poll}
                               /\ live' = IF phase = "graph" THEN live - 1 ELSE live
        /\ readinessLeft' \in {readinessLeft, Phase}
    <3> USE DEF Readiness!AskGraph, Readiness!Fails, Readiness!SleepsGraph, Readiness!Cancelled
    <3>1. CASE Readiness!WaitForCrateGraph
      BY <3>1 DEF Readiness!WaitForCrateGraph
    <3>2. CASE Readiness!GraphAnswers
      BY <3>2 DEF Readiness!GraphAnswers
    <3>3. CASE Readiness!GraphTimesOut
      BY <3>3 DEF Readiness!GraphTimesOut
    <3>4. CASE Readiness!GraphSleepEnds
      BY <3>4 DEF Readiness!GraphSleepEnds
    <3>5. CASE Readiness!Stops
      BY <3>5 DEF Readiness!Stops
    <3> QED
      BY <1>1, <3>1, <3>2, <3>3, <3>4, <3>5
  <2>2. TimerTypes' /\ OneGraph'
    BY <2>1, <1>I, ReadinessFacts DEF TimerTypes, OneGraph, Readiness!Smaller
  <2>3. UNCHANGED <<readinessGeneration, version, captured, analyzed, published, readinessStopped>>
        /\ diagnosticsVersion' \in {diagnosticsVersion, 0}
    BY <1>1
    DEF Readiness!WaitForCrateGraph, Readiness!GraphAnswers, Readiness!GraphTimesOut,
        Readiness!GraphSleepEnds, Readiness!Stops, Readiness!Undefined
  <2>4. lastAttempt' \in BOOLEAN
    <3>1. ASSUME NEW remaining \in Nat PROVE (Request >= remaining) \in BOOLEAN
      BY ReadinessFacts
    <3>2. readinessLeft \in Nat /\ Phase \in Nat
      BY <1>I, ReadinessFacts DEF TimerTypes
    <3> QED
      BY <1>1, <1>I, <3>1, <3>2, Zenon
      DEF Readiness!WaitForCrateGraph, Readiness!GraphAnswers, Readiness!GraphTimesOut,
          Readiness!GraphSleepEnds, Readiness!Stops, Readiness!Fails, Readiness!SleepsGraph,
          Readiness!AskGraph, FlagTypes
  <2>7. crateGraphReady' = crateGraphReady \/ crateGraphReady' = TRUE
    BY <1>1, Zenon
    DEF Readiness!WaitForCrateGraph, Readiness!GraphAnswers, Readiness!GraphTimesOut,
        Readiness!GraphSleepEnds, Readiness!Stops
  <2>5. FlagTypes'
    BY <2>3, <2>4, <2>7, <1>I, Zenon DEF FlagTypes
  <2>6. TextTypes'
    BY <2>3, <1>I, ReadinessFacts DEF TextTypes
  <2> QED
    BY <2>2, <2>3, <2>5, <2>6, <1>I DEF ReadinessInv, MessageTypes, CapturedTypes
<1>2. CASE Readiness!Edit \/ Readiness!Reopen
  <2>1. UNCHANGED <<timer, lastAttempt, live, crateGraphReady, captured, analyzed, published,
                    readinessStopped>>
        /\ readinessLeft' \in {readinessLeft, Phase} /\ phase' \in {phase, "reopened"}
        /\ (phase' # phase => phase = "graph-done")
        /\ diagnosticsVersion' = 0 /\ readinessGeneration' = readinessGeneration + 1
        /\ (version' = version \/ (version' = version + 1 /\ version < MaxVersion))
    BY <1>2 DEF Readiness!Edit, Readiness!Reopen, Readiness!Noted, Readiness!Undefined
  <2>2. TimerTypes' /\ OneGraph'
    BY <2>1, <1>I, ReadinessFacts DEF TimerTypes, OneGraph
  <2>3. TextTypes'
    BY <2>1, <1>I, ReadinessFacts DEF TextTypes
  <2> QED
    BY <2>1, <2>2, <2>3, <1>I DEF ReadinessInv, FlagTypes, MessageTypes, CapturedTypes
<1>3. CASE Readiness!Publish
  <2>1. PICK v \in analyzed..version : analyzed' = v /\ published' = Append(published, v)
    BY <1>3 DEF Readiness!Publish
  <2>2. UNCHANGED <<phase, readinessLeft, timer, lastAttempt, live, crateGraphReady,
                    diagnosticsVersion, readinessGeneration, version, captured, readinessStopped>>
    BY <1>3 DEF Readiness!Publish
  <2>3. v \in 1..MaxVersion /\ v <= version
    BY <2>1, <1>I, ReadinessFacts DEF TextTypes
  <2>4. MessageTypes'
    BY <2>1, <2>3, <1>I DEF MessageTypes
  <2>5. TextTypes'
    BY <2>1, <2>2, <2>3, <1>I DEF TextTypes
  <2> QED
    BY <2>2, <2>4, <2>5, <1>I DEF ReadinessInv, TimerTypes, FlagTypes, OneGraph, CapturedTypes
<1>4. CASE Readiness!ObserveMessage
  <2>1. UNCHANGED <<phase, readinessLeft, timer, lastAttempt, live, crateGraphReady, analyzed,
                    readinessGeneration, version, captured, readinessStopped>>
        /\ published # <<>> /\ published' = Tail(published)
        /\ diagnosticsVersion' \in {diagnosticsVersion, Head(published)}
    BY <1>4 DEF Readiness!ObserveMessage
  <2>2. Tail(published) \in Seq(1..MaxVersion) /\ Head(published) \in 1..MaxVersion
    BY <2>1, <1>I, HeadTailTyped DEF MessageTypes
  <2>3. TextTypes'
    BY <2>1, <2>2, <1>I, ReadinessFacts DEF TextTypes
  <2>4. MessageTypes'
    BY <2>1, <2>2 DEF MessageTypes
  <2> QED
    BY <2>1, <2>3, <2>4, <1>I DEF ReadinessInv, TimerTypes, FlagTypes, OneGraph, CapturedTypes
<1>5. CASE Readiness!WaitForSemanticReadiness \/ Readiness!SleepEnds \/ Readiness!HintAnswers
  <2>1. UNCHANGED <<lastAttempt, live, crateGraphReady, diagnosticsVersion, readinessGeneration,
                    version, analyzed, published, readinessStopped>>
        /\ phase' \in {"sleep", "hint", "ready", "failed"} /\ phase # "graph"
        /\ timer' \in {timer, Poll} /\ readinessLeft' \in {readinessLeft, Phase}
    BY <1>5
    DEF Readiness!WaitForSemanticReadiness, Readiness!SleepEnds, Readiness!HintAnswers,
        Readiness!Sleeps
  <2>2. TimerTypes' /\ OneGraph'
    BY <2>1, <1>I, ReadinessFacts DEF TimerTypes, OneGraph
  <2>3. \/ captured' = captured
        \/ captured' = [captured EXCEPT !.generation = readinessGeneration]
        \/ captured' = [generation |-> readinessGeneration, version |-> version]
    BY <1>5
    DEF Readiness!WaitForSemanticReadiness, Readiness!SleepEnds, Readiness!HintAnswers,
        Readiness!Sleeps
  <2>4. CapturedTypes'
    BY <2>3, <1>I DEF CapturedTypes, TextTypes
  <2>5. TextTypes' /\ MessageTypes' /\ FlagTypes'
    BY <2>1, <1>I DEF TextTypes, MessageTypes, FlagTypes
  <2> QED
    BY <2>2, <2>4, <2>5 DEF ReadinessInv
<1>6. CASE Readiness!SemanticTimesOut \/ Readiness!Stop \/ Readiness!Tick
  <2>1. UNCHANGED <<lastAttempt, live, crateGraphReady, readinessGeneration, version, captured,
                    analyzed, published>>
        /\ phase' \in {phase, "failed"} /\ (phase' # phase => phase # "graph")
        /\ diagnosticsVersion' \in {diagnosticsVersion, 0}
        /\ (readinessStopped' = readinessStopped \/ readinessStopped' = TRUE)
    BY <1>6
    DEF Readiness!SemanticTimesOut, Readiness!Stop, Readiness!Tick, Readiness!SemanticPhases,
        Readiness!Undefined
  <2>2. readinessLeft' \in 0..Phase /\ timer' \in 0..(Phase + Poll)
    BY <1>6, <1>I, ReadinessFacts
    DEF Readiness!SemanticTimesOut, Readiness!Stop, Readiness!Tick, TimerTypes
  <2>3. TimerTypes' /\ OneGraph'
    BY <2>1, <2>2, <1>I DEF TimerTypes, OneGraph
  <2>5. FlagTypes'
    BY <2>1, <1>I DEF FlagTypes
  <2>4. TextTypes'
    BY <2>1, <1>I, ReadinessFacts DEF TextTypes
  <2> QED
    BY <2>1, <2>3, <2>4, <2>5, <1>I DEF ReadinessInv, MessageTypes, CapturedTypes
<1>7. CASE UNCHANGED Readiness!readinessVars
  BY <1>7, <1>I
  DEF Readiness!readinessVars, ReadinessInv, TimerTypes, FlagTypes, TextTypes, MessageTypes,
      CapturedTypes, OneGraph
<1> QED
  BY <1>1, <1>2, <1>3, <1>4, <1>5, <1>6, <1>7 DEF Readiness!Next

\* The wait ends well in one step only, which looks at the text and at its diagnostics.
LEMMA ReadyOnlyWhenCurrent ==
  Readiness!Next =>
    (phase # "ready" /\ phase' = "ready" =>
       /\ captured.version = version /\ captured.generation = readinessGeneration
       /\ diagnosticsVersion = version /\ ~readinessStopped)
<1> SUFFICES ASSUME Readiness!Next, phase # "ready", phase' = "ready"
             PROVE  Readiness!StillCurrent /\ ~readinessStopped
  BY DEF Readiness!StillCurrent
<1>1. CASE Readiness!HintAnswers
  BY <1>1 DEF Readiness!HintAnswers, Readiness!Sleeps
<1> QED
  BY <1>1
  DEF Readiness!Next, Readiness!WaitForCrateGraph, Readiness!GraphAnswers, Readiness!GraphTimesOut,
      Readiness!GraphSleepEnds, Readiness!Stops, Readiness!Edit, Readiness!Reopen,
      Readiness!Publish, Readiness!ObserveMessage, Readiness!WaitForSemanticReadiness,
      Readiness!SleepEnds, Readiness!SemanticTimesOut, Readiness!Stop, Readiness!Tick,
      Readiness!AskGraph, Readiness!Fails, Readiness!SleepsGraph, Readiness!Sleeps

LEMMA StepOfReadiness == [Next]_vars => [Readiness!Next]_(Readiness!readinessVars)
  BY DEF Next, vars, readinessVars, Readiness!readinessVars, HttpStep, DownloadStep, AssetsStep,
         CoordinatorStep, LanguageStep, TransportStep, ReadinessStep, DocumentsStep,
         ActivationStep, RuntimeStep

\* The analyzer counts as ready only for the text that the editor shows, and works on one
\* crate graph for the page at most, for every length of the phases and of the polls.
THEOREM ReadinessIsSound == Spec => ReadinessSound
<1>1. Init => ReadinessInv
  BY ReadinessInit DEF Init
<1>2. ReadinessInv /\ [Next]_vars => ReadinessInv'
  BY ReadinessStepInv, StepOfReadiness
<1>3. ReadinessInv => Readiness!TypeOK /\ Readiness!OneGraphRequest
  <2> SUFFICES ASSUME ReadinessInv PROVE Readiness!TypeOK /\ Readiness!OneGraphRequest
    OBVIOUS
  <2>1. phase \in {"idle", "graph-done", "reopened", "ready", "failed"} \cup Readiness!GraphPhases
                  \cup Readiness!SemanticPhases
    BY DEF ReadinessInv, TimerTypes, FlagTypes, Readiness!GraphPhases, Readiness!SemanticPhases
  <2>2. analyzed \in 1..version
    BY ReadinessFacts DEF ReadinessInv, TextTypes
  <2>3. {lastAttempt, crateGraphReady, readinessStopped} \subseteq BOOLEAN
    BY Zenon DEF ReadinessInv, TimerTypes, FlagTypes
  <2> QED
    BY <2>1, <2>2, <2>3
    DEF ReadinessInv, TimerTypes, FlagTypes, TextTypes, MessageTypes, CapturedTypes, OneGraph,
        Readiness!TypeOK, Readiness!OneGraphRequest
<1>4. [Next]_vars =>
        [phase # "ready" /\ phase' = "ready" =>
           /\ captured.version = version /\ captured.generation = readinessGeneration
           /\ diagnosticsVersion = version /\ ~readinessStopped]_(Readiness!readinessVars)
  BY ReadyOnlyWhenCurrent, StepOfReadiness
<1> QED
  BY <1>1, <1>2, <1>3, <1>4, PTL DEF Spec, ReadinessSound, Readiness!ReadyIsCurrent

-----------------------------------------------------------------------------
(* The writes of the language server's transport (LspTransport).            *)

\* The numbers of the messages that wait are in order, and after those that were taken out;
\* one at most is being sent, and it is after those that arrived.
Outcomes == {"pending", "sent", "failed", "refused"}
Written(n) == n \in 1..Len(outcome)
Increasing(s) == \A i, j \in 1..Len(s) : i < j => s[i] < s[j]
InTurn ==
  /\ outcome \in Seq(Outcomes)
  /\ transportQueue \in Seq(Nat) /\ arrived \in Seq(Nat) /\ sending \in SUBSET Nat
  /\ Increasing(transportQueue) /\ Increasing(arrived)
  /\ \A m, n \in sending : m = n
  /\ \A i \in 1..Len(transportQueue) : Written(transportQueue[i])
  /\ \A m \in sending : Written(m) /\ \A i \in 1..Len(transportQueue) : m < transportQueue[i]
  /\ \A k \in 1..Len(arrived) :
       /\ Written(arrived[k])
       /\ \A m \in sending : arrived[k] < m
       /\ \A i \in 1..Len(transportQueue) : arrived[k] < transportQueue[i]

LEMMA AppendIncreasing ==
  ASSUME NEW s \in Seq(Nat), NEW e \in Nat, Increasing(s), \A i \in 1..Len(s) : s[i] < e
  PROVE  /\ Append(s, e) \in Seq(Nat) /\ Increasing(Append(s, e))
         /\ \A k \in 1..Len(Append(s, e)) : Append(s, e)[k] = e \/ \E i \in 1..Len(s) : Append(s, e)[k] = s[i]
<1>1. /\ Append(s, e) \in Seq(Nat) /\ Len(s) \in Nat /\ Len(Append(s, e)) = Len(s) + 1
      /\ Append(s, e)[Len(s) + 1] = e
      /\ \A i \in 1..Len(s) : Append(s, e)[i] = s[i] /\ s[i] \in Nat
  OBVIOUS
<1>2. \A i \in 1..(Len(s) + 1) : i \in 1..Len(s) \/ i = Len(s) + 1
  BY <1>1
<1>3. ASSUME NEW i \in 1..Len(Append(s, e)), NEW j \in 1..Len(Append(s, e)), i < j
      PROVE  Append(s, e)[i] < Append(s, e)[j]
  <2>1. i \in 1..Len(s)
    BY <1>1, <1>2, <1>3
  <2>2. CASE j \in 1..Len(s)
    BY <1>1, <1>3, <2>1, <2>2 DEF Increasing
  <2>3. CASE j = Len(s) + 1
    BY <1>1, <2>1, <2>3
  <2> QED
    BY <1>1, <1>2, <2>2, <2>3
<1> QED
  BY <1>1, <1>2, <1>3 DEF Increasing

LEMMA TailIncreasing ==
  ASSUME NEW s \in Seq(Nat), s # <<>>, Increasing(s)
  PROVE  /\ Tail(s) \in Seq(Nat) /\ Head(s) \in Nat /\ Increasing(Tail(s))
         /\ \E i \in 1..Len(s) : Head(s) = s[i]
         /\ \A i \in 1..Len(Tail(s)) : Head(s) < Tail(s)[i] /\ \E j \in 1..Len(s) : Tail(s)[i] = s[j]
<1>1. /\ Tail(s) \in Seq(Nat) /\ Head(s) \in Nat /\ Head(s) = s[1] /\ Len(s) \in Nat /\ 1 \in 1..Len(s)
      /\ Len(Tail(s)) = Len(s) - 1
  OBVIOUS
<1>2. \A i \in 1..Len(Tail(s)) : Tail(s)[i] = s[i + 1] /\ i + 1 \in 1..Len(s) /\ 1 < i + 1
  BY <1>1
<1>3. Increasing(Tail(s))
  <2> SUFFICES ASSUME NEW i \in 1..Len(Tail(s)), NEW j \in 1..Len(Tail(s)), i < j
               PROVE  Tail(s)[i] < Tail(s)[j]
    BY DEF Increasing
  <2>1. i + 1 < j + 1
    OBVIOUS
  <2> QED
    BY <1>2, <2>1 DEF Increasing
<1> QED
  BY <1>1, <1>2, <1>3 DEF Increasing

LEMMA SettledTyped ==
  ASSUME NEW S, NEW s \in Seq(S), NEW i \in 1..Len(s), NEW e \in S
  PROVE  [s EXCEPT ![i] = e] \in Seq(S) /\ Len([s EXCEPT ![i] = e]) = Len(s)
  OBVIOUS

LEMMA InTurnInit == Transport!Init => InTurn
  BY DEF Transport!Init, InTurn, Written, Increasing

LEMMA InTurnStep == InTurn /\ [Transport!Next]_(Transport!transportVars) => InTurn'
<1> SUFFICES ASSUME InTurn, [Transport!Next]_(Transport!transportVars) PROVE InTurn'
  OBVIOUS
<1>1. CASE UNCHANGED <<transportQueue, sending, arrived, outcome>>
  BY <1>1 DEF InTurn, Written, Increasing
<1>2. CASE Transport!Write
  <2> DEFINE e == IF writerClosed THEN "refused" ELSE "pending"
             n == Len(outcome) + 1
  <2>1. /\ outcome' = Append(outcome, e) /\ e \in Outcomes /\ UNCHANGED <<sending, arrived>>
        /\ transportQueue' = transportQueue \/ transportQueue' = Append(transportQueue, n)
    BY <1>2 DEF Transport!Write, Outcomes
  <2> HIDE DEF e
  <2>2. /\ outcome' \in Seq(Outcomes) /\ Len(outcome) \in Nat /\ Len(outcome') = n
    BY <2>1 DEF InTurn
  <2>3. /\ n \in Nat /\ n \in 1..Len(outcome')
        /\ \A m : Written(m) => m \in 1..Len(outcome') /\ m < n
    BY <2>2 DEF Written
  <2> HIDE DEF n
  <2>4. CASE transportQueue' = transportQueue
    BY <2>1, <2>2, <2>3, <2>4 DEF InTurn, Written
  <2>5. CASE transportQueue' = Append(transportQueue, n)
    <3>1. /\ transportQueue' \in Seq(Nat) /\ Increasing(transportQueue')
          /\ \A k \in 1..Len(transportQueue') :
               transportQueue'[k] = n \/ \E i \in 1..Len(transportQueue) : transportQueue'[k] = transportQueue[i]
      <4>1. \A i \in 1..Len(transportQueue) : transportQueue[i] < n
        BY <2>3 DEF InTurn
      <4> QED
        BY <2>3, <2>5, <4>1, AppendIncreasing DEF InTurn
    <3>2. \A k \in 1..Len(transportQueue') :
            /\ transportQueue'[k] \in 1..Len(outcome')
            /\ \A m \in sending : m < transportQueue'[k]
            /\ \A a \in 1..Len(arrived) : arrived[a] < transportQueue'[k]
      BY <3>1, <2>3 DEF InTurn
    <3>3. /\ \A m \in sending : m \in 1..Len(outcome')
          /\ \A a \in 1..Len(arrived) : arrived[a] \in 1..Len(outcome')
      BY <2>3 DEF InTurn
    <3> QED
      BY <2>1, <2>2, <3>1, <3>2, <3>3 DEF InTurn, Written
  <2> QED
    BY <2>1, <2>4, <2>5
<1>3. CASE Transport!Send
  <2>1. /\ sending = {} /\ transportQueue # <<>> /\ sending' = {Head(transportQueue)}
        /\ transportQueue' = Tail(transportQueue) /\ UNCHANGED <<arrived, outcome>>
    BY <1>3 DEF Transport!Send, Transport!Turn
  <2> DEFINE h == Head(transportQueue)
  <2>2. /\ transportQueue' \in Seq(Nat) /\ h \in Nat /\ Increasing(transportQueue')
        /\ \E i \in 1..Len(transportQueue) : h = transportQueue[i]
        /\ \A i \in 1..Len(transportQueue') :
             h < transportQueue'[i] /\ \E j \in 1..Len(transportQueue) : transportQueue'[i] = transportQueue[j]
    BY <2>1, TailIncreasing DEF InTurn
  <2>3. sending' = {h}
    BY <2>1
  <2> HIDE DEF h
  <2>4. Written(h) /\ \A i \in 1..Len(transportQueue') : Written(transportQueue'[i])
    BY <2>2 DEF InTurn
  <2>5. \A k \in 1..Len(arrived) :
          arrived[k] < h /\ \A i \in 1..Len(transportQueue') : arrived[k] < transportQueue'[i]
    BY <2>2 DEF InTurn
  <2> QED
    BY <2>1, <2>2, <2>3, <2>4, <2>5 DEF InTurn, Written
<1>4. CASE Transport!Sent
  <2>1. PICK m \in sending :
          /\ sending' = sending \ {m} /\ transportQueue' = transportQueue
          /\ \/ arrived' = Append(arrived, m) /\ outcome' = [outcome EXCEPT ![m] = "sent"]
             \/ outcome' = [outcome EXCEPT ![m] = "failed"] /\ UNCHANGED arrived
    BY <1>4 DEF Transport!Sent
  <2>2. sending' = {} /\ m \in Nat /\ Written(m)
    BY <2>1 DEF InTurn
  <2>3. outcome' \in Seq(Outcomes) /\ Len(outcome') = Len(outcome)
    <3>1. "sent" \in Outcomes /\ "failed" \in Outcomes
      BY DEF Outcomes
    <3>2. outcome \in Seq(Outcomes) /\ m \in 1..Len(outcome)
      BY <2>2 DEF InTurn, Written
    <3>3. \A o \in Outcomes : /\ [outcome EXCEPT ![m] = o] \in Seq(Outcomes)
                              /\ Len([outcome EXCEPT ![m] = o]) = Len(outcome)
      BY <3>2, SettledTyped
    <3>4. /\ [outcome EXCEPT ![m] = "sent"] \in Seq(Outcomes)
          /\ Len([outcome EXCEPT ![m] = "sent"]) = Len(outcome)
          /\ [outcome EXCEPT ![m] = "failed"] \in Seq(Outcomes)
          /\ Len([outcome EXCEPT ![m] = "failed"]) = Len(outcome)
      BY <3>1, <3>3, Zenon
    <3> QED
      BY <2>1, <3>4, Zenon
  <2>4. CASE UNCHANGED arrived
    BY <2>1, <2>2, <2>3, <2>4 DEF InTurn, Written
  <2>5. CASE arrived' = Append(arrived, m)
    <3>1. \A k \in 1..Len(arrived) : arrived[k] < m
      BY <2>1 DEF InTurn
    <3>2. /\ arrived' \in Seq(Nat) /\ Increasing(arrived')
          /\ \A k \in 1..Len(arrived') : arrived'[k] = m \/ \E i \in 1..Len(arrived) : arrived'[k] = arrived[i]
      BY <2>2, <2>5, <3>1, AppendIncreasing DEF InTurn
    <3>3. \A k \in 1..Len(arrived') :
            /\ Written(arrived'[k])
            /\ \A i \in 1..Len(transportQueue) : arrived'[k] < transportQueue[i]
      BY <3>2, <2>1, <2>2 DEF InTurn
    <3>4. \A k \in 1..Len(arrived') : arrived'[k] \in 1..Len(outcome')
      BY <2>3, <3>3 DEF Written
    <3>5. /\ transportQueue' = transportQueue /\ transportQueue \in Seq(Nat)
          /\ Increasing(transportQueue)
          /\ \A i \in 1..Len(transportQueue) : transportQueue[i] \in 1..Len(outcome')
      BY <2>1, <2>3 DEF InTurn, Written
    <3>6. /\ sending' \in SUBSET Nat /\ \A a \in sending' : FALSE
      BY <2>2
    <3> QED
      BY <2>3, <3>2, <3>3, <3>4, <3>5, <3>6 DEF InTurn, Written
  <2> QED
    BY <2>1, <2>4, <2>5
<1> QED
  BY <1>1, <1>2, <1>3, <1>4
  DEF Transport!Next, Transport!Listen, Transport!Receive, Transport!Dispose,
      Transport!transportVars

LEMMA StepOfTransport == [Next]_vars => [Transport!Next]_(Transport!transportVars)
  BY DEF Next, vars, transportVars, Transport!transportVars, HttpStep, DownloadStep, AssetsStep,
         CoordinatorStep, LanguageStep, TransportStep, ReadinessStep, DocumentsStep,
         ActivationStep, RuntimeStep

LEMMA WritesOrdered == InTurn => Transport!WritesInOrder
<1> SUFFICES ASSUME InTurn PROVE Transport!WritesInOrder
  OBVIOUS
<1>1. DOMAIN arrived = 1..Len(arrived)
  BY DEF InTurn
<1> QED
  BY <1>1 DEF InTurn, Increasing, Transport!WritesInOrder

\* The guest gets the client's messages in the order of the calls, whichever write fails and
\* whenever the connection is disposed of.
THEOREM WritesStayInOrder == Spec => []Transport!WritesInOrder
<1>1. Init => InTurn
  BY InTurnInit DEF Init
<1>2. InTurn /\ [Next]_vars => InTurn'
  BY InTurnStep, StepOfTransport
<1>3. InTurn => Transport!WritesInOrder
  BY WritesOrdered
<1> QED
  BY <1>1, <1>2, <1>3, PTL DEF Spec

-----------------------------------------------------------------------------
(* The frames of the language server's transport (LspTransport).            *)

\* The least of a set of numbers.
LEMMA LeastNatural ==
  ASSUME NEW T \in SUBSET Nat, T # {}
  PROVE  \E x \in T : \A y \in T : x <= y
<1> DEFINE R == OpToRel(<, Nat)
<1>1. \E x \in T : \A y \in T : ~ (<<y, x>> \in R)
  <2>1. IsWellFoundedOn(R, Nat)
    BY NatLessThanWellFounded, Zenon
  <2> HIDE DEF R
  <2> QED
    BY <2>1, WFMin, Zenon
<1>2. ASSUME NEW x \in Nat, NEW y \in Nat, y < x PROVE <<y, x>> \in R
  BY <1>2 DEF OpToRel
<1> HIDE DEF R
<1>3. PICK x \in T : \A y \in T : ~ (<<y, x>> \in R)
  BY <1>1
<1>4. ASSUME NEW y \in T PROVE x <= y
  <2>1. ~(y < x)
    BY <1>2, <1>3
  <2> QED
    BY <2>1
<1> QED
  BY <1>3, <1>4

\* The loop of the decoder is defined for every number of frames.
LEMMA LeftIs ==
  ASSUME NEW b
  PROVE  LET rests == Transport!Left(b) IN
         rests[0] = b /\ \A n \in Nat : rests[n + 1] = Transport!AfterFrame(rests[n])
<1> DEFINE Runs(g, n) == g[0] = b /\ \A k \in Nat : k < n => g[k + 1] = Transport!AfterFrame(g[k])
<1>1. \A n \in Nat : \E g : Runs(g, n)
  <2> DEFINE T == {n \in Nat : ~ \E g : Runs(g, n)}
  <2> SUFFICES ASSUME T # {} PROVE FALSE
    OBVIOUS
  <2>1. PICK x \in T : \A y \in T : x <= y
    <3>1. T \in SUBSET Nat
      OBVIOUS
    <3> HIDE DEF T
    <3> QED BY <3>1, LeastNatural
  <2>2. x \in Nat /\ ~ \E g : Runs(g, x)
    OBVIOUS
  <2>3. CASE x = 0
    <3> DEFINE h == [k \in {0} |-> b]
    <3>1. Runs(h, x)
      BY <2>3
    <3> QED BY <2>2, <3>1
  <2>4. CASE x # 0
    <3>1. x - 1 \in Nat /\ x - 1 \notin T
      BY <2>1, <2>2, <2>4
    <3>2. PICK g : Runs(g, x - 1)
      BY <3>1
    <3> DEFINE h == [k \in 0..x |-> IF k = x THEN Transport!AfterFrame(g[x - 1]) ELSE g[k]]
    <3>3. h[0] = b
      BY <2>2, <2>4, <3>2
    <3>4. ASSUME NEW k \in Nat, k < x PROVE h[k + 1] = Transport!AfterFrame(h[k])
      <4>1. CASE k = x - 1
        BY <2>2, <3>4, <4>1
      <4>2. CASE k # x - 1
        <5>1. k < x - 1 /\ k + 1 \in 0..x /\ k + 1 # x /\ k \in 0..x /\ k # x
          BY <2>2, <3>4, <4>2
        <5>2. g[k + 1] = Transport!AfterFrame(g[k])
          BY <3>2, <5>1
        <5> QED BY <5>1, <5>2
      <4> QED BY <4>1, <4>2
    <3> HIDE DEF h
    <3>5. Runs(h, x)
      BY <3>3, <3>4
    <3> QED BY <2>2, <3>5
  <2> QED BY <2>3, <2>4
<1>2. ASSUME NEW n \in Nat, NEW g, NEW h, Runs(g, n), Runs(h, n)
      PROVE  g[n] = h[n]
  <2> DEFINE T == {k \in Nat : k <= n /\ g[k] # h[k]}
  <2> SUFFICES ASSUME T # {} PROVE FALSE
    OBVIOUS
  <2>1. PICK x \in T : \A y \in T : x <= y
    <3>1. T \in SUBSET Nat
      OBVIOUS
    <3> HIDE DEF T
    <3> QED BY <3>1, LeastNatural
  <2>2. x \in Nat /\ x <= n /\ g[x] # h[x]
    OBVIOUS
  <2>3. x # 0
    BY <1>2, <2>2
  <2>4. x - 1 \in Nat /\ x - 1 < n /\ g[x - 1] = h[x - 1] /\ (x - 1) + 1 = x
    BY <2>1, <2>2, <2>3
  <2>5. g[x] = Transport!AfterFrame(g[x - 1]) /\ h[x] = Transport!AfterFrame(h[x - 1])
    BY <1>2, <2>4
  <2> QED BY <2>2, <2>4, <2>5
<1> DEFINE Run(n) == CHOOSE g : Runs(g, n)
           f == [n \in Nat |-> Run(n)[n]]
<1>3. \A n \in Nat : Runs(Run(n), n)
  BY <1>1
<1> HIDE DEF Run
<1>4. f[0] = b
  BY <1>3
<1>5. ASSUME NEW n \in Nat PROVE f[n + 1] = Transport!AfterFrame(f[n])
  <2>1. Run(n + 1)[n + 1] = Transport!AfterFrame(Run(n + 1)[n])
    BY <1>3
  <2>2. Runs(Run(n + 1), n) /\ Runs(Run(n), n)
    BY <1>3
  <2>3. Run(n + 1)[n] = Run(n)[n]
    <3> HIDE DEF Runs
    <3> QED BY <1>2, <2>2
  <2> QED BY <2>1, <2>3
<1> HIDE DEF Runs
<1>6. f = [n \in Nat |-> IF n = 0 THEN b ELSE Transport!AfterFrame(f[n - 1])]
  <2>1. ASSUME NEW n \in Nat
        PROVE  f[n] = IF n = 0 THEN b ELSE Transport!AfterFrame(f[n - 1])
    <3>1. CASE n = 0
      BY <1>4, <3>1
    <3>2. CASE n # 0
      <4>1. n - 1 \in Nat /\ (n - 1) + 1 = n
        BY <3>2
      <4>2. f[(n - 1) + 1] = Transport!AfterFrame(f[n - 1])
        BY <1>5, <4>1
      <4> QED BY <3>2, <4>1, <4>2
    <3> QED BY <3>1, <3>2
  <2>2. f = [n \in Nat |-> f[n]]
    OBVIOUS
  <2> HIDE DEF f
  <2> QED BY <2>1, <2>2
<1> HIDE DEF f
<1>7. Transport!Left(b)
        = CHOOSE g : g = [n \in Nat |-> IF n = 0 THEN b ELSE Transport!AfterFrame(g[n - 1])]
  BY DEF Transport!Left
<1> DEFINE rests == Transport!Left(b)
<1>8. rests = [n \in Nat |-> IF n = 0 THEN b ELSE Transport!AfterFrame(rests[n - 1])]
  BY <1>6, <1>7
<1> HIDE DEF rests
<1>9. rests[0] = b
  BY <1>8
<1>10. \A n \in Nat : rests[n + 1] = Transport!AfterFrame(rests[n])
  BY <1>8
<1> QED BY <1>9, <1>10 DEF rests

\* A flattened sequence is laid out piece after piece.
LEMMA FlattenIs ==
  ASSUME NEW s, NEW n \in Nat, Len(s) = n, n > 0
  PROVE  \E f : /\ Transport!FlattenSeq(s) = f[n] /\ f[1] = s[1]
                /\ \A i \in Nat : 0 < i /\ i < n => f[i + 1] = f[i] \o s[i + 1]
<1> DEFINE Runs(g, m) == g[1] = s[1] /\ \A k \in Nat : 0 < k /\ k < m => g[k + 1] = g[k] \o s[k + 1]
           Rec(g) == [i \in 1..n |-> IF i = 1 THEN s[i] ELSE g[i - 1] \o s[i]]
<1>1. \E g : Runs(g, n)
  <2> DEFINE Runnable(m) == \E g : Runs(g, m)
             T == {m \in Nat : m > 0 /\ ~Runnable(m)}
  <2>0. n \notin T => Runnable(n)
    <3> HIDE DEF Runnable
    <3> QED OBVIOUS
  <2> SUFFICES ASSUME T # {} PROVE FALSE
    BY <2>0
  <2>1. PICK x \in T : \A y \in T : x <= y
    <3>1. T \in SUBSET Nat
      OBVIOUS
    <3> HIDE DEF T
    <3> QED BY <3>1, LeastNatural
  <2>2. x \in Nat /\ x > 0 /\ ~Runnable(x)
    <3> HIDE DEF Runnable
    <3> QED OBVIOUS
  <2>3. CASE x = 1
    <3> DEFINE h == [k \in {1} |-> s[1]]
    <3>1. h[1] = s[1] /\ \A k \in Nat : ~(0 < k /\ k < x)
      BY <2>3
    <3> HIDE DEF h
    <3>2. Runs(h, x)
      BY <3>1
    <3> QED BY <2>2, <3>2
  <2>4. CASE x # 1
    <3>1. x - 1 \in Nat /\ x - 1 > 0
      BY <2>2, <2>4
    <3>2. x - 1 \notin T
      <4> HIDE DEF T
      <4> QED BY <2>1, <2>2, <3>1
    <3>3. Runnable(x - 1)
      <4> HIDE DEF Runnable
      <4> QED BY <3>1, <3>2
    <3>4. PICK g : Runs(g, x - 1)
      BY <3>3
    <3> DEFINE h == [k \in 1..x |-> IF k = x THEN g[x - 1] \o s[x] ELSE g[k]]
    <3>5. h[1] = s[1]
      BY <2>2, <2>4, <3>4
    <3>6. ASSUME NEW k \in Nat, 0 < k, k < x PROVE h[k + 1] = h[k] \o s[k + 1]
      <4>1. CASE k = x - 1
        <5>1. k + 1 = x /\ k \in 1..x /\ k # x /\ x \in 1..x
          BY <2>2, <3>6, <4>1
        <5> QED BY <4>1, <5>1
      <4>2. CASE k # x - 1
        <5>1. k < x - 1 /\ k + 1 \in 1..x /\ k + 1 # x /\ k \in 1..x /\ k # x
          BY <2>2, <3>6, <4>2
        <5>2. g[k + 1] = g[k] \o s[k + 1]
          BY <3>4, <3>6, <5>1
        <5> QED BY <5>1, <5>2
      <4> QED BY <4>1, <4>2
    <3> HIDE DEF h
    <3>7. Runs(h, x)
      BY <3>5, <3>6
    <3> QED BY <2>2, <3>7
  <2> QED BY <2>3, <2>4
<1>2. PICK g : Runs(g, n)
  BY <1>1
<1> DEFINE f == [i \in 1..n |-> g[i]]
<1>3. f = Rec(f)
  <2>1. ASSUME NEW i \in 1..n PROVE f[i] = IF i = 1 THEN s[i] ELSE f[i - 1] \o s[i]
    <3>1. CASE i = 1
      BY <1>2, <3>1
    <3>2. CASE i # 1
      <4>1. i - 1 \in Nat /\ 0 < i - 1 /\ i - 1 < n /\ (i - 1) + 1 = i /\ i - 1 \in 1..n
        BY <3>2
      <4>2. g[(i - 1) + 1] = g[i - 1] \o s[(i - 1) + 1]
        BY <1>2, <4>1
      <4> QED BY <3>2, <4>1, <4>2
    <3> QED BY <3>1, <3>2
  <2>2. f = [i \in 1..n |-> f[i]]
    OBVIOUS
  <2> HIDE DEF f
  <2> QED BY <2>1, <2>2
<1> HIDE DEF f
<1> DEFINE whole == CHOOSE h : h = Rec(h)
<1>4. Transport!FlattenSeq(s) = whole[n]
  BY DEF Transport!FlattenSeq
<1>5. whole = Rec(whole)
  BY <1>3
<1> HIDE DEF whole
<1>6. whole[1] = s[1]
  BY <1>5
<1>7. ASSUME NEW i \in Nat, 0 < i, i < n PROVE whole[i + 1] = whole[i] \o s[i + 1]
  <2>1. i + 1 \in 1..n /\ i + 1 # 1 /\ (i + 1) - 1 = i
    BY <1>7
  <2> QED BY <1>5, <2>1
<1> QED BY <1>4, <1>6, <1>7

LEMMA LayoutIs ==
  ASSUME NEW V, NEW s \in Seq(Seq(V))
  PROVE  LET all == Transport!FlattenSeq(s) IN
         /\ all \in Seq(V)
         /\ \E offset \in [1..(Len(s) + 1) -> 0..Len(all)] :
              /\ offset[1] = 0 /\ offset[Len(s) + 1] = Len(all)
              /\ \A i \in 1..Len(s) :
                   /\ offset[i + 1] = offset[i] + Len(s[i])
                   /\ \A p \in 1..Len(s[i]) : all[offset[i] + p] = s[i][p]
<1> DEFINE n == Len(s)
           all == Transport!FlattenSeq(s)
           Laid(offset) == /\ offset[1] = 0 /\ offset[n + 1] = Len(all)
                           /\ \A i \in 1..n : /\ offset[i + 1] = offset[i] + Len(s[i])
                                              /\ \A p \in 1..Len(s[i]) : all[offset[i] + p] = s[i][p]
           LaidOut == all \in Seq(V) /\ \E offset \in [1..(n + 1) -> 0..Len(all)] : Laid(offset)
<1>0. n \in Nat
  OBVIOUS
<1>1. ASSUME n = 0 PROVE LaidOut
  <2>1. all = << >>
    BY <1>1 DEF Transport!FlattenSeq
  <2>2. all \in Seq(V) /\ Len(all) = 0
    BY <2>1
  <2> DEFINE offset == [i \in 1..(n + 1) |-> 0]
  <2>3. offset \in [1..(n + 1) -> 0..Len(all)] /\ Laid(offset)
    BY <1>1, <2>2
  <2> QED BY <2>2, <2>3
<1>2. ASSUME n > 0 PROVE LaidOut
  <2>1. PICK f : /\ all = f[n] /\ f[1] = s[1]
                 /\ \A i \in Nat : 0 < i /\ i < n => f[i + 1] = f[i] \o s[i + 1]
    BY <1>0, <1>2, FlattenIs
  <2>2. \A i \in 1..n : s[i] \in Seq(V) /\ Len(s[i]) \in Nat
    OBVIOUS
  <2> HIDE DEF n, all
  <2>3. \A i \in 1..n : f[i] \in Seq(V)
    <3> DEFINE T == {i \in Nat : 0 < i /\ i <= n /\ f[i] \notin Seq(V)}
    <3> SUFFICES ASSUME T # {} PROVE FALSE
      BY <1>0
    <3>1. PICK x \in T : \A y \in T : x <= y
      <4>1. T \in SUBSET Nat
        OBVIOUS
      <4> HIDE DEF T
      <4> QED BY <4>1, LeastNatural
    <3>2. x \in 1..n /\ x \in Nat /\ f[x] \notin Seq(V)
      BY <1>0
    <3>3. x # 1
      BY <2>1, <2>2, <3>2
    <3>4. x - 1 \in Nat /\ 0 < x - 1 /\ x - 1 < n /\ (x - 1) + 1 = x /\ f[x - 1] \in Seq(V)
      BY <1>0, <3>1, <3>2, <3>3
    <3>5. f[(x - 1) + 1] = f[x - 1] \o s[(x - 1) + 1]
      BY <2>1, <3>4
    <3>6. f[x] = f[x - 1] \o s[x]
      BY <3>4, <3>5
    <3>7. f[x - 1] \o s[x] \in Seq(V)
      BY <2>2, <3>2, <3>4, ConcatProperties
    <3> QED BY <3>2, <3>6, <3>7
  <2>4. ASSUME NEW i \in Nat, 0 < i, i < n
        PROVE  /\ Len(f[i + 1]) = Len(f[i]) + Len(s[i + 1])
               /\ \A p \in 1..Len(f[i]) : f[i + 1][p] = f[i][p]
               /\ \A p \in 1..Len(s[i + 1]) : f[i + 1][Len(f[i]) + p] = s[i + 1][p]
    <3>1. i \in 1..n /\ i + 1 \in 1..n
      BY <1>0, <2>4
    <3>2. f[i] \in Seq(V) /\ s[i + 1] \in Seq(V) /\ f[i + 1] = f[i] \o s[i + 1]
      BY <2>1, <2>2, <2>3, <2>4, <3>1
    <3>3. ASSUME NEW a \in Seq(V), NEW c \in Seq(V)
          PROVE  /\ Len(a \o c) = Len(a) + Len(c)
                 /\ \A p \in 1..Len(a) : (a \o c)[p] = a[p]
                 /\ \A p \in 1..Len(c) : (a \o c)[Len(a) + p] = c[p]
      OBVIOUS
    <3>4. /\ Len(f[i] \o s[i + 1]) = Len(f[i]) + Len(s[i + 1])
          /\ \A p \in 1..Len(f[i]) : (f[i] \o s[i + 1])[p] = f[i][p]
          /\ \A p \in 1..Len(s[i + 1]) : (f[i] \o s[i + 1])[Len(f[i]) + p] = s[i + 1][p]
      BY <3>2, <3>3, Zenon
    <3> QED BY <3>2, <3>4, Zenon
  <2>5. \A i \in 1..n : Len(f[i]) <= Len(all) /\ \A p \in 1..Len(f[i]) : all[p] = f[i][p]
    <3> DEFINE Kept(i) == Len(f[i]) <= Len(all) /\ \A p \in 1..Len(f[i]) : all[p] = f[i][p]
               T == {d \in Nat : d < n /\ ~Kept(n - d)}
    <3>0. \A i \in 1..n : Len(f[i]) \in Nat
      BY <2>3
    <3>1. T = {}
      <4> SUFFICES ASSUME T # {} PROVE FALSE
        OBVIOUS
      <4>1. PICK x \in T : \A y \in T : x <= y
        <5>1. T \in SUBSET Nat
          OBVIOUS
        <5> HIDE DEF T
        <5> QED BY <5>1, LeastNatural
      <4>2. x \in Nat /\ x < n /\ ~Kept(n - x)
        OBVIOUS
      <4>3. x # 0
        <5> SUFFICES ASSUME x = 0 PROVE FALSE
          OBVIOUS
        <5>1. f[n - x] = all
          BY <1>0, <2>1
        <5>2. n \in 1..n
          BY <1>0, <1>2
        <5> QED BY <2>1, <3>0, <4>2, <5>1, <5>2
      <4> DEFINE i == n - x
      <4>4. i \in Nat /\ 0 < i /\ i < n /\ i + 1 = n - (x - 1) /\ x - 1 \in Nat /\ i \in 1..n /\ i + 1 \in 1..n
        BY <1>0, <4>2, <4>3
      <4>5. Kept(n - (x - 1))
        <5>1. x - 1 \notin T
          <6> HIDE DEF T
          <6> QED BY <4>1, <4>2, <4>4
        <5>2. x - 1 < n
          BY <1>0, <4>2
        <5> HIDE DEF Kept
        <5> QED BY <4>4, <5>1, <5>2
      <4>6. Len(f[i + 1]) <= Len(all) /\ \A p \in 1..Len(f[i + 1]) : all[p] = f[i + 1][p]
        <5> HIDE DEF i
        <5> QED BY <4>4, <4>5
      <4> HIDE DEF i
      <4>7. /\ Len(f[i + 1]) = Len(f[i]) + Len(s[i + 1])
            /\ \A p \in 1..Len(f[i]) : f[i + 1][p] = f[i][p]
        BY <2>4, <4>4
      <4>8. Len(f[i]) \in Nat /\ Len(s[i + 1]) \in Nat /\ Len(f[i + 1]) \in Nat
        BY <2>2, <3>0, <4>4
      <4>9. Len(all) \in Nat
        <5>1. n \in 1..n
          BY <1>0, <1>2
        <5> QED BY <2>1, <3>0, <5>1
      <4>10. /\ Len(f[i]) <= Len(all)
             /\ \A p \in 1..Len(f[i]) : p \in 1..Len(f[i + 1])
        <5> DEFINE a == Len(f[i])
                   c == Len(s[i + 1])
                   l == Len(f[i + 1])
                   m == Len(all)
        <5>1. a \in Nat /\ c \in Nat /\ l \in Nat /\ m \in Nat /\ l = a + c /\ l <= m
          BY <4>6, <4>7, <4>8, <4>9
        <5> HIDE DEF a, c, l, m
        <5>2. a <= m /\ \A p \in 1..a : p \in 1..l
          BY <5>1
        <5> QED BY <5>2 DEF a, l, m
      <4>11. Kept(i)
        <5>1. \A p \in 1..Len(f[i]) : all[p] = f[i][p]
          BY <4>6, <4>7, <4>10
        <5> QED BY <4>10, <5>1
      <4> QED BY <4>2, <4>11 DEF i
    <3>2. \A i \in 1..n : n - i \in Nat /\ n - i < n /\ n - (n - i) = i
      BY <1>0
    <3> QED BY <3>1, <3>2
  <2> DEFINE offset == [i \in 1..(n + 1) |-> IF i = 1 THEN 0 ELSE Len(f[i - 1])]
  <2>6. all \in Seq(V) /\ Len(all) \in Nat
    <3>1. n \in 1..n
      BY <1>0, <1>2
    <3> QED BY <2>1, <2>3, <3>1
  <2>7. /\ offset[1] = 0 /\ \A i \in 1..n : offset[i + 1] = Len(f[i])
        /\ 1 \in 1..n /\ n \in 1..n
    <3>1. \A i \in 1..n : i + 1 \in 1..(n + 1) /\ i + 1 # 1 /\ (i + 1) - 1 = i
      BY <1>0
    <3>2. 1 \in 1..(n + 1) /\ 1 \in 1..n /\ n \in 1..n
      BY <1>0, <1>2
    <3> QED BY <3>1, <3>2
  <2>8. offset \in [1..(n + 1) -> 0..Len(all)]
    <3>1. \A i \in 1..(n + 1) : i = 1 \/ (i # 1 /\ i - 1 \in 1..n)
      BY <1>0
    <3>2. \A i \in 1..n : Len(f[i]) \in 0..Len(all)
      BY <2>3, <2>5, <2>6
    <3> QED BY <2>6, <3>1, <3>2
  <2> HIDE DEF offset
  <2>9. offset[n + 1] = Len(all)
    BY <2>1, <2>7
  <2>10. ASSUME NEW i \in 1..n
         PROVE  /\ offset[i + 1] = offset[i] + Len(s[i])
                /\ \A p \in 1..Len(s[i]) : all[offset[i] + p] = s[i][p]
    <3>1. CASE i = 1
      <4>1. offset[i] = 0 /\ f[i] = s[i] /\ offset[i + 1] = Len(f[i])
        BY <2>1, <2>7, <3>1
      <4>2. \A p \in 1..Len(s[i]) : all[p] = s[i][p]
        BY <2>5, <4>1
      <4>3. Len(s[i]) \in Nat /\ \A p \in 1..Len(s[i]) : 0 + p = p
        BY <2>2
      <4> QED BY <4>1, <4>2, <4>3
    <3>2. CASE i # 1
      <4> DEFINE j == i - 1
      <4>1. j \in Nat /\ 0 < j /\ j < n /\ j + 1 = i /\ j \in 1..n
        BY <1>0, <3>2
      <4> HIDE DEF j
      <4>2. offset[i] = Len(f[j]) /\ offset[i + 1] = Len(f[i])
        BY <2>7, <4>1
      <4>3. /\ Len(f[i]) = Len(f[j]) + Len(s[i])
            /\ \A p \in 1..Len(s[i]) : f[i][Len(f[j]) + p] = s[i][p]
        BY <2>4, <4>1
      <4>4. Len(f[j]) \in Nat /\ Len(s[i]) \in Nat
        BY <2>2, <2>3, <4>1
      <4>5. \A p \in 1..Len(s[i]) : Len(f[j]) + p \in 1..Len(f[i])
        <5>1. \A a, c, l \in Nat : l = a + c => \A p \in 1..c : a + p \in 1..l
          OBVIOUS
        <5>2. Len(f[i]) \in Nat
          BY <2>3
        <5> QED BY <4>3, <4>4, <5>1, <5>2, Zenon
      <4> QED BY <2>5, <4>2, <4>3, <4>5
    <3> QED BY <3>1, <3>2
  <2> QED BY <2>6, <2>7, <2>8, <2>9, <2>10
<1>3. LaidOut
  <2> HIDE DEF LaidOut, n
  <2> QED BY <1>0, <1>1, <1>2
<1> QED BY <1>3

Tokens == [of : Nat, at : {"length", "blank", "body"}]
\* All that the analyzer writes, and where in it a frame begins.
AllBytes == Transport!FlattenSeq([i \in DOMAIN Frames |-> Transport!Bytes(i)])
Count == Len(Frames)
FrameSize(i) == 2 + (IF Frames[i] = Bad THEN 0 ELSE Frames[i])
Layout(offset) ==
  /\ offset \in [1..(Count + 1) -> 0..Len(AllBytes)]
  /\ offset[1] = 0 /\ offset[Count + 1] = Len(AllBytes)
  /\ \A i \in 1..Count :
       /\ offset[i + 1] = offset[i] + FrameSize(i)
       /\ \A p \in 1..FrameSize(i) :
            /\ AllBytes[offset[i] + p].of = i
            /\ AllBytes[offset[i] + p].at = CASE p = 1 -> "length" [] p = 2 -> "blank" [] OTHER -> "body"
Offset == CHOOSE offset : Layout(offset)
\* What is there of it from a place on.
Window(bytes, from) ==
  /\ bytes \in Seq(Tokens) /\ from + Len(bytes) <= Len(AllBytes)
  /\ \A p \in 1..Len(bytes) : bytes[p] = AllBytes[from + p]

\* What is joined, and what is left when its beginning is dropped.
LEMMA Joined ==
  ASSUME NEW V, NEW a \in Seq(V), NEW c \in Seq(V)
  PROVE  /\ a \o c \in Seq(V) /\ Len(a) \in Nat /\ Len(c) \in Nat /\ Len(a \o c) = Len(a) + Len(c)
         /\ \A p \in 1..(Len(a) + Len(c)) :
              (a \o c)[p] = IF p <= Len(a) THEN a[p] ELSE c[p - Len(a)]
<1>1. a \o c \in Seq(V)
  BY ConcatProperties
<1> QED BY <1>1

LEMMA Dropped ==
  ASSUME NEW V, NEW s \in Seq(V), NEW n \in 0..Len(s)
  PROVE  LET rest == SubSeq(s, n + 1, Len(s)) IN
         /\ rest \in Seq(V) /\ Len(rest) = Len(s) - n /\ Len(s) \in Nat
         /\ \A p \in 1..(Len(s) - n) : rest[p] = s[n + p]
<1> DEFINE rest == SubSeq(s, n + 1, Len(s))
<1>1. rest \in Seq(V)
  OBVIOUS
<1>2. Len(rest) = Len(s) - n /\ Len(s) \in Nat /\ \A p \in 1..(Len(s) - n) : rest[p] = s[n + p]
  OBVIOUS
<1> QED BY <1>1, <1>2

LEMMA Taken ==
  ASSUME NEW V, NEW s \in Seq(V), NEW n \in 0..Len(s)
  PROVE  /\ SubSeq(s, 1, n) \in Seq(V) /\ Len(SubSeq(s, 1, n)) = n
         /\ \A p \in 1..n : SubSeq(s, 1, n)[p] = s[p]
  OBVIOUS

LEMMA FramesTyped ==
  /\ Frames \in Seq(Nat \cup {Bad}) /\ Count \in Nat /\ DOMAIN Frames = 1..Count
  /\ \A i \in 1..Count : /\ FrameSize(i) \in Nat /\ FrameSize(i) >= 2
                         /\ Frames[i] # Bad => Frames[i] \in Nat /\ FrameSize(i) = 2 + Frames[i]
                         /\ Frames[i] = Bad => FrameSize(i) = 2
<1>1. Frames \in Seq(Nat \cup {Bad})
  BY HostAssumption DEF HostAssumption, Transport!TransportAssumption
<1>2. Count \in Nat /\ DOMAIN Frames = 1..Count /\ \A i \in 1..Count : Frames[i] \in Nat \cup {Bad}
  BY <1>1 DEF Count
<1> QED BY <1>1, <1>2 DEF FrameSize

LEMMA BytesIs ==
  ASSUME NEW i \in 1..Count
  PROVE  /\ Transport!Bytes(i) \in Seq(Tokens) /\ Len(Transport!Bytes(i)) = FrameSize(i)
         /\ \A p \in 1..FrameSize(i) :
              /\ Transport!Bytes(i)[p].of = i
              /\ Transport!Bytes(i)[p].at = CASE p = 1 -> "length" [] p = 2 -> "blank" [] OTHER -> "body"
<1> DEFINE n == IF Frames[i] = Bad THEN 0 ELSE Frames[i]
           head == <<[of |-> i, at |-> "length"], [of |-> i, at |-> "blank"]>>
           filling == [m \in 1..n |-> [of |-> i, at |-> "body"]]
<1>1. n \in Nat /\ FrameSize(i) = 2 + n /\ i \in Nat
  BY FramesTyped DEF FrameSize
<1>2. Transport!Bytes(i) = head \o filling
  BY DEF Transport!Bytes
<1> HIDE DEF n
<1>3. /\ head \in Seq(Tokens) /\ Len(head) = 2
      /\ head[1].of = i /\ head[1].at = "length" /\ head[2].of = i /\ head[2].at = "blank"
  <2>1. [of |-> i, at |-> "length"] \in Tokens /\ [of |-> i, at |-> "blank"] \in Tokens
    BY <1>1 DEF Tokens
  <2> QED BY <2>1
<1>4. filling \in Seq(Tokens) /\ Len(filling) = n /\ \A m \in 1..n : filling[m].of = i /\ filling[m].at = "body"
  <2>1. [of |-> i, at |-> "body"] \in Tokens
    BY <1>1 DEF Tokens
  <2>2. filling \in [1..n -> Tokens]
    BY <2>1
  <2> QED BY <1>1, <2>2
<1> HIDE DEF head, filling
<1>5. /\ head \o filling \in Seq(Tokens) /\ Len(head \o filling) = 2 + n
      /\ \A p \in 1..(2 + n) : (head \o filling)[p] = IF p <= 2 THEN head[p] ELSE filling[p - 2]
  <2>1. /\ head \o filling \in Seq(Tokens) /\ Len(head \o filling) = Len(head) + Len(filling)
        /\ \A p \in 1..(Len(head) + Len(filling)) :
             (head \o filling)[p] = IF p <= Len(head) THEN head[p] ELSE filling[p - Len(head)]
    <3>1. \A x, y \in Seq(Tokens) :
            /\ x \o y \in Seq(Tokens) /\ Len(x \o y) = Len(x) + Len(y)
            /\ \A p \in 1..(Len(x) + Len(y)) :
                 (x \o y)[p] = IF p <= Len(x) THEN x[p] ELSE y[p - Len(x)]
      BY Joined
    <3> QED BY <1>3, <1>4, <3>1, Zenon
  <2>2. Len(head) = 2 /\ Len(filling) = n
    BY <1>3, <1>4
  <2> QED BY <2>1, <2>2, Zenon
<1>6. ASSUME NEW p \in 1..(2 + n)
      PROVE  /\ (head \o filling)[p].of = i
             /\ (head \o filling)[p].at = CASE p = 1 -> "length" [] p = 2 -> "blank" [] OTHER -> "body"
  <2>1. CASE p = 1
    BY <1>3, <1>5, <2>1
  <2>2. CASE p = 2
    BY <1>3, <1>5, <2>2
  <2>3. CASE p # 1 /\ p # 2
    <3>1. p - 2 \in 1..n /\ ~(p <= 2)
      BY <1>1, <2>3
    <3>2. (head \o filling)[p] = filling[p - 2]
      BY <1>5, <3>1
    <3> QED BY <1>4, <2>3, <3>1, <3>2
  <2> QED BY <2>1, <2>2, <2>3
<1> QED BY <1>1, <1>2, <1>5, <1>6

LEMMA FramesLaid == AllBytes \in Seq(Tokens) /\ Len(AllBytes) \in Nat /\ Layout(Offset)
<1> DEFINE s == [i \in DOMAIN Frames |-> Transport!Bytes(i)]
<1>1. s \in Seq(Seq(Tokens)) /\ Len(s) = Count /\ \A i \in 1..Count : s[i] = Transport!Bytes(i)
  <2>1. s \in [1..Count -> Seq(Tokens)]
    BY FramesTyped, BytesIs
  <2> QED BY <2>1, FramesTyped
<1>2. AllBytes = Transport!FlattenSeq(s)
  BY DEF AllBytes
<1> HIDE DEF s
<1>3. /\ AllBytes \in Seq(Tokens)
      /\ \E offset \in [1..(Count + 1) -> 0..Len(AllBytes)] :
           /\ offset[1] = 0 /\ offset[Count + 1] = Len(AllBytes)
           /\ \A i \in 1..Count :
                /\ offset[i + 1] = offset[i] + Len(s[i])
                /\ \A p \in 1..Len(s[i]) : AllBytes[offset[i] + p] = s[i][p]
  BY <1>1, <1>2, LayoutIs
<1>4. PICK offset \in [1..(Count + 1) -> 0..Len(AllBytes)] :
        /\ offset[1] = 0 /\ offset[Count + 1] = Len(AllBytes)
        /\ \A i \in 1..Count :
             /\ offset[i + 1] = offset[i] + Len(s[i])
             /\ \A p \in 1..Len(s[i]) : AllBytes[offset[i] + p] = s[i][p]
  BY <1>3
<1>5. ASSUME NEW i \in 1..Count
      PROVE  /\ offset[i + 1] = offset[i] + FrameSize(i)
             /\ \A p \in 1..FrameSize(i) :
                  /\ AllBytes[offset[i] + p].of = i
                  /\ AllBytes[offset[i] + p].at = CASE p = 1 -> "length" [] p = 2 -> "blank" [] OTHER -> "body"
  <2>1. Len(s[i]) = FrameSize(i) /\ s[i] = Transport!Bytes(i)
    BY <1>1, BytesIs
  <2>2. /\ offset[i + 1] = offset[i] + FrameSize(i)
        /\ \A p \in 1..FrameSize(i) : AllBytes[offset[i] + p] = Transport!Bytes(i)[p]
    BY <1>4, <2>1, Zenon
  <2> QED BY <2>2, BytesIs
<1>6. Layout(offset)
  BY <1>4, <1>5, Zenon DEF Layout
<1> QED BY <1>3, <1>6 DEF Offset

LEMMA OffsetFacts ==
  /\ Offset[1] = 0 /\ Offset[Count + 1] = Len(AllBytes)
  /\ \A i \in 1..(Count + 1) : Offset[i] \in Nat /\ Offset[i] <= Len(AllBytes)
  /\ \A i \in 1..Count :
       /\ i + 1 \in 1..(Count + 1) /\ i \in 1..(Count + 1)
       /\ Offset[i + 1] = Offset[i] + FrameSize(i)
       /\ \A p \in 1..FrameSize(i) :
            /\ AllBytes[Offset[i] + p].of = i
            /\ AllBytes[Offset[i] + p].at = CASE p = 1 -> "length" [] p = 2 -> "blank" [] OTHER -> "body"
<1>1. Offset \in [1..(Count + 1) -> 0..Len(AllBytes)]
  BY FramesLaid DEF Layout
<1>2. \A i \in 1..(Count + 1) : Offset[i] \in 0..Len(AllBytes)
  BY <1>1
<1>3. \A i \in 1..(Count + 1) : Offset[i] \in Nat /\ Offset[i] <= Len(AllBytes)
  BY <1>2, FramesLaid
<1>4. \A i \in 1..Count : i + 1 \in 1..(Count + 1) /\ i \in 1..(Count + 1)
  BY FramesTyped
<1> QED BY <1>3, <1>4, FramesLaid DEF Layout

\* What the decoder makes of what is there of a frame.
LEMMA HeaderIs ==
  ASSUME NEW k \in 1..(Count + 1), NEW b, Window(b, Offset[k])
  PROVE  /\ Len(b) \in Nat
         /\ k \in 1..Count /\ Len(b) >= 2 =>
              Transport!HeaderEnd(b) = 2 /\ Transport!BodyLength(b) = Frames[k] /\ b[1].of = k
         /\ k \notin 1..Count \/ Len(b) < 2 => Transport!HeaderEnd(b) = 0
<1> DEFINE ends == {n \in DOMAIN b : b[n].at = "blank"}
<1>1. b \in Seq(Tokens) /\ Len(b) \in Nat /\ DOMAIN b = 1..Len(b)
  BY DEF Window
<1>2. Transport!HeaderEnd(b) = IF ends = {} THEN 0 ELSE CHOOSE n \in ends : \A m \in ends : n <= m
  BY DEF Transport!HeaderEnd
<1>3. Offset[k] \in Nat /\ Len(AllBytes) \in Nat /\ Count \in Nat
  BY OffsetFacts, FramesLaid, FramesTyped
<1>4. \A p \in 1..Len(b) : b[p] = AllBytes[Offset[k] + p]
  BY DEF Window
<1>5. ASSUME k \in 1..Count, NEW p \in 1..Len(b), p <= 2
      PROVE  b[p].of = k /\ b[p].at = IF p = 1 THEN "length" ELSE "blank"
  <2>1. p \in 1..FrameSize(k) /\ (p = 1 \/ p = 2)
    BY <1>1, <1>5, FramesTyped
  <2>2. /\ AllBytes[Offset[k] + p].of = k
        /\ AllBytes[Offset[k] + p].at = CASE p = 1 -> "length" [] p = 2 -> "blank" [] OTHER -> "body"
    BY <1>5, <2>1, OffsetFacts, Zenon
  <2>3. b[p] = AllBytes[Offset[k] + p]
    BY <1>4
  <2>4. b[p].of = k /\ b[p].at = CASE p = 1 -> "length" [] p = 2 -> "blank" [] OTHER -> "body"
    BY <2>2, <2>3, Zenon
  <2> QED BY <2>1, <2>4
<1>6. ASSUME k \in 1..Count, Len(b) >= 2
      PROVE  Transport!HeaderEnd(b) = 2 /\ Transport!BodyLength(b) = Frames[k] /\ b[1].of = k
  <2>1. 1 \in 1..Len(b) /\ 2 \in 1..Len(b)
    BY <1>1, <1>6
  <2>2. b[1].of = k /\ b[1].at = "length" /\ b[2].of = k /\ b[2].at = "blank"
    BY <1>5, <1>6, <2>1
  <2>3. 2 \in ends /\ 1 \notin ends /\ \A m \in ends : m \in Nat /\ m >= 1
    BY <1>1, <2>1, <2>2
  <2> HIDE DEF ends
  <2>4. \A m \in ends : 2 <= m
    BY <2>3
  <2>5. (CHOOSE n \in ends : \A m \in ends : n <= m) = 2
    BY <2>3, <2>4
  <2>6. Transport!HeaderEnd(b) = 2
    BY <1>2, <2>3, <2>5
  <2> QED BY <2>2, <2>6 DEF Transport!BodyLength
<1>7. ASSUME k \notin 1..Count \/ Len(b) < 2 PROVE Transport!HeaderEnd(b) = 0
  <2>1. ASSUME NEW n \in ends PROVE FALSE
    <3>1. n \in 1..Len(b) /\ b[n].at = "blank"
      BY <1>1
    <3>2. k \in 1..Count
      <4> SUFFICES ASSUME k \notin 1..Count PROVE FALSE
        OBVIOUS
      <4>1. k = Count + 1
        BY <1>3
      <4>2. Offset[k] = Len(AllBytes)
        BY <4>1, OffsetFacts
      <4>3. Len(b) = 0
        BY <1>1, <1>3, <4>2 DEF Window
      <4> QED BY <3>1, <4>3
    <3>3. Len(b) < 2
      BY <1>7, <3>2
    <3>4. n = 1
      BY <1>1, <3>1, <3>3
    <3> QED BY <1>5, <3>1, <3>2, <3>4
  <2> QED BY <1>2, <2>1
<1> QED BY <1>1, <1>6, <1>7

\* A whole frame is the next one, and the one after it follows.
LEMMA FrameIs ==
  ASSUME NEW k \in 1..(Count + 1), NEW b, Window(b, Offset[k]), Transport!Complete(b)
  PROVE  /\ k \in 1..Count /\ b[1].of = k /\ Len(b) >= FrameSize(k)
         /\ Window(Transport!AfterFrame(b), Offset[k + 1])
         /\ Len(Transport!AfterFrame(b)) = Len(b) - FrameSize(k)
<1>1. /\ Transport!HeaderEnd(b) # 0 /\ Transport!BodyLength(b) # Bad
      /\ Len(b) >= Transport!HeaderEnd(b) + Transport!BodyLength(b)
  BY DEF Transport!Complete
<1>2. k \in 1..Count /\ Len(b) \in Nat /\ Len(b) >= 2
  BY <1>1, HeaderIs
<1>3. Transport!HeaderEnd(b) = 2 /\ Transport!BodyLength(b) = Frames[k] /\ b[1].of = k
  BY <1>2, HeaderIs
<1>4. Frames[k] \in Nat /\ FrameSize(k) = 2 + Frames[k] /\ FrameSize(k) \in Nat
  BY <1>1, <1>2, <1>3, FramesTyped
<1>5. Len(b) >= FrameSize(k) /\ FrameSize(k) \in 0..Len(b)
  BY <1>1, <1>2, <1>3, <1>4
<1> DEFINE rest == SubSeq(b, FrameSize(k) + 1, Len(b))
<1>6. Transport!AfterFrame(b) = rest
  BY <1>3, <1>4 DEF Transport!AfterFrame
<1>7. b \in Seq(Tokens)
  BY DEF Window
<1>8. /\ rest \in Seq(Tokens) /\ Len(rest) = Len(b) - FrameSize(k)
      /\ \A p \in 1..(Len(b) - FrameSize(k)) : rest[p] = b[FrameSize(k) + p]
  BY <1>5, <1>7, Dropped, Zenon
<1> HIDE DEF rest
<1>9. /\ Offset[k + 1] = Offset[k] + FrameSize(k) /\ Offset[k] \in Nat /\ Offset[k + 1] \in Nat
  BY <1>2, OffsetFacts
<1>10. Len(AllBytes) \in Nat
  BY FramesLaid
<1>11. Offset[k] + Len(b) <= Len(AllBytes) /\ \A p \in 1..Len(b) : b[p] = AllBytes[Offset[k] + p]
  BY DEF Window
<1> DEFINE size == FrameSize(k)
           here == Offset[k]
           next == Offset[k + 1]
           length == Len(b)
           all == Len(AllBytes)
<1>12. /\ size \in Nat /\ here \in Nat /\ next \in Nat /\ length \in Nat /\ all \in Nat
       /\ length >= size /\ next = here + size /\ here + length <= all
       /\ Len(rest) = length - size
       /\ \A p \in 1..length : b[p] = AllBytes[here + p]
       /\ \A p \in 1..(length - size) : rest[p] = b[size + p]
  BY <1>2, <1>4, <1>5, <1>8, <1>9, <1>10, <1>11
<1> HIDE DEF size, here, next, length, all
<1>13. next + (length - size) <= all
  BY <1>12
<1>14. ASSUME NEW p \in 1..(length - size) PROVE rest[p] = AllBytes[next + p]
  <2>1. size + p \in 1..length /\ here + (size + p) = next + p
    BY <1>12
  <2> QED BY <1>12, <2>1
<1>15. Window(rest, next)
  BY <1>8, <1>12, <1>13, <1>14 DEF Window, all
<1> QED BY <1>2, <1>3, <1>5, <1>6, <1>8, <1>15 DEF next

\* No frame waits whose last byte is there.
LEMMA EnoughIs ==
  ASSUME NEW k \in 1..Count, NEW b, Window(b, Offset[k]), Len(b) >= FrameSize(k)
  PROVE  Transport!Complete(b) \/ Transport!Malformed(b)
<1>1. k \in 1..(Count + 1) /\ FrameSize(k) >= 2 /\ FrameSize(k) \in Nat
  BY FramesTyped
<1>2. Len(b) \in Nat /\ Len(b) >= 2
  BY <1>1, HeaderIs
<1>3. Transport!HeaderEnd(b) = 2 /\ Transport!BodyLength(b) = Frames[k]
  BY <1>1, <1>2, HeaderIs
<1>4. CASE Frames[k] = Bad
  BY <1>3, <1>4 DEF Transport!Malformed
<1>5. CASE Frames[k] # Bad
  <2>1. FrameSize(k) = 2 + Frames[k]
    BY <1>5, FramesTyped
  <2> QED BY <1>3, <1>5, <2>1 DEF Transport!Complete
<1> QED BY <1>4, <1>5

\* What push() makes of the bytes from the beginning of a frame on: the frames from that one
\* on, in order, and the beginning of the one after them.
LEMMA PushIs ==
  ASSUME NEW k \in 1..(Count + 1), NEW b, Window(b, Offset[k])
  PROVE  LET rests == Transport!Left(b)
             w == Transport!Whole(b) IN
         /\ w \in Nat /\ k + w \in 1..(Count + 1)
         /\ Window(rests[w], Offset[k + w]) /\ ~Transport!Complete(rests[w])
         /\ Len(rests[w]) \in Nat /\ Offset[k + w] + Len(rests[w]) = Offset[k] + Len(b)
         /\ \A j \in 0..(w - 1) : rests[j][1].of = k + j
<1> DEFINE rests == Transport!Left(b)
           w == Transport!Whole(b)
           Before(n) == \A m \in 0..(n - 1) : Transport!Complete(rests[m])
           At(n) == /\ k + n \in 1..(Count + 1) /\ Window(rests[n], Offset[k + n])
                    /\ Len(rests[n]) \in Nat /\ Len(rests[n]) + 2 * n <= Len(b)
                    /\ Offset[k + n] + Len(rests[n]) = Offset[k] + Len(b)
<1>1. rests[0] = b /\ \A n \in Nat : rests[n + 1] = Transport!AfterFrame(rests[n])
  BY LeftIs
<1>2. w = CHOOSE n \in 0..Len(b) : Before(n) /\ ~Transport!Complete(rests[n])
  BY DEF Transport!Whole
<1> HIDE DEF rests, w
<1>3. Len(b) \in Nat /\ Count \in Nat
  BY HeaderIs, FramesTyped
<1>4. At(0)
  BY <1>1, <1>3
<1>5. ASSUME NEW n \in Nat, At(n), Transport!Complete(rests[n])
      PROVE  At(n + 1) /\ rests[n][1].of = k + n
  <2> DEFINE i == k + n
             l == rests[n]
  <2>1. i \in 1..(Count + 1) /\ Window(l, Offset[i]) /\ Transport!Complete(l)
    BY <1>5
  <2>2. k + (n + 1) = i + 1
    OBVIOUS
  <2>3. rests[n + 1] = Transport!AfterFrame(l)
    BY <1>1
  <2>4. Len(l) \in Nat /\ Len(l) + 2 * n <= Len(b) /\ Offset[i] + Len(l) = Offset[k] + Len(b)
    BY <1>5
  <2> HIDE DEF i, l
  <2>5. /\ i \in 1..Count /\ l[1].of = i /\ Len(l) >= FrameSize(i)
        /\ Window(Transport!AfterFrame(l), Offset[i + 1])
        /\ Len(Transport!AfterFrame(l)) = Len(l) - FrameSize(i)
    BY <2>1, FrameIs
  <2>6. /\ FrameSize(i) \in Nat /\ FrameSize(i) >= 2 /\ i + 1 \in 1..(Count + 1)
        /\ Offset[i + 1] = Offset[i] + FrameSize(i) /\ Offset[i] \in Nat /\ Offset[i + 1] \in Nat
        /\ Offset[k] \in Nat
    BY <2>5, FramesTyped, OffsetFacts
  <2> DEFINE r == Len(rests[n + 1])
  <2>7. r = Len(l) - FrameSize(i) /\ Window(rests[n + 1], Offset[i + 1])
    BY <2>3, <2>5
  <2> HIDE DEF r
  <2>8. r \in Nat /\ r + 2 * (n + 1) <= Len(b) /\ Offset[i + 1] + r = Offset[k] + Len(b)
    <3> DEFINE x == Len(l)
               c == Len(b)
               z == FrameSize(i)
               o == Offset[i]
               q == Offset[i + 1]
               h == Offset[k]
    <3>1. /\ x \in Nat /\ c \in Nat /\ z \in Nat /\ o \in Nat /\ q \in Nat /\ h \in Nat
          /\ x + 2 * n <= c /\ o + x = h + c /\ x >= z /\ z >= 2 /\ q = o + z /\ r = x - z
      BY <1>3, <2>4, <2>5, <2>6, <2>7
    <3> HIDE DEF x, c, z, o, q, h
    <3>2. r \in Nat /\ r + 2 * (n + 1) <= c /\ q + r = h + c
      BY <3>1
    <3> QED BY <3>2 DEF c, q, h
  <2>9. At(n + 1)
    BY <2>2, <2>6, <2>7, <2>8 DEF r
  <2> QED BY <2>5, <2>9 DEF i, l
<1> HIDE DEF At
<1>6. ASSUME NEW n \in Nat, Before(n) PROVE At(n)
  <2> DEFINE T == {m \in Nat : m <= n /\ ~At(m)}
  <2> SUFFICES ASSUME T # {} PROVE FALSE
    OBVIOUS
  <2>1. PICK x \in T : \A y \in T : x <= y
    <3>1. T \in SUBSET Nat
      OBVIOUS
    <3> HIDE DEF T
    <3> QED BY <3>1, LeastNatural
  <2>2. x \in Nat /\ x <= n /\ ~At(x)
    OBVIOUS
  <2>3. x # 0
    BY <1>4, <2>2
  <2>4. x - 1 \in Nat /\ x - 1 \in 0..(n - 1) /\ x - 1 <= n /\ x - 1 < x /\ (x - 1) + 1 = x
    BY <2>2, <2>3
  <2>5. At(x - 1)
    <3>1. x - 1 \notin T
      <4> HIDE DEF T
      <4> QED BY <2>1, <2>2, <2>4
    <3> QED BY <2>4, <3>1
  <2>6. Transport!Complete(rests[x - 1])
    BY <1>6, <2>4
  <2>7. At((x - 1) + 1)
    BY <1>5, <2>4, <2>5, <2>6
  <2> QED BY <2>2, <2>4, <2>7
<1>7. \E n \in 0..Len(b) : Before(n) /\ ~Transport!Complete(rests[n])
  <2> DEFINE T == {n \in Nat : ~Transport!Complete(rests[n])}
  <2>1. T # {}
    <3> SUFFICES ASSUME \A n \in Nat : Transport!Complete(rests[n]) PROVE FALSE
      OBVIOUS
    <3>1. Len(b) + 1 \in Nat /\ Before(Len(b) + 1)
      BY <1>3
    <3>2. At(Len(b) + 1)
      BY <1>6, <3>1
    <3>3. /\ Len(rests[Len(b) + 1]) \in Nat
          /\ Len(rests[Len(b) + 1]) + 2 * (Len(b) + 1) <= Len(b)
      BY <3>2 DEF At
    <3> DEFINE l == Len(rests[Len(b) + 1])
               c == Len(b)
    <3>4. l \in Nat /\ c \in Nat /\ l + 2 * (c + 1) <= c
      BY <1>3, <3>3
    <3> HIDE DEF l, c
    <3> QED BY <3>4
  <2>2. PICK x \in T : \A y \in T : x <= y
    <3>1. T \in SUBSET Nat
      OBVIOUS
    <3> HIDE DEF T
    <3> QED BY <2>1, <3>1, LeastNatural
  <2>3. x \in Nat /\ ~Transport!Complete(rests[x])
    OBVIOUS
  <2>4. Before(x)
    <3> SUFFICES ASSUME NEW m \in 0..(x - 1) PROVE Transport!Complete(rests[m])
      OBVIOUS
    <3>1. m \in Nat /\ m < x
      BY <2>3
    <3> QED BY <2>2, <2>3, <3>1
  <2>5. At(x)
    BY <1>6, <2>3, <2>4
  <2>6. Len(rests[x]) \in Nat /\ Len(rests[x]) + 2 * x <= Len(b)
    BY <2>5 DEF At
  <2>7. x \in 0..Len(b)
    <3> DEFINE l == Len(rests[x])
               c == Len(b)
    <3>1. l \in Nat /\ c \in Nat /\ l + 2 * x <= c
      BY <1>3, <2>6
    <3> HIDE DEF l
    <3>2. x <= c
      <4> HIDE DEF c
      <4> QED BY <2>3, <3>1
    <3> QED BY <2>3, <3>2
  <2> QED BY <2>3, <2>4, <2>7
<1>8. w \in 0..Len(b) /\ Before(w) /\ ~Transport!Complete(rests[w])
  <2> HIDE DEF Before
  <2> QED BY <1>2, <1>7
<1>9. w \in Nat /\ At(w)
  BY <1>3, <1>6, <1>8
<1>10. ASSUME NEW j \in 0..(w - 1) PROVE rests[j][1].of = k + j
  <2>1. j \in Nat /\ \A m \in 0..(j - 1) : m \in 0..(w - 1)
    BY <1>9
  <2>2. At(j)
    BY <1>6, <1>8, <2>1
  <2> QED BY <1>5, <1>8, <2>1, <2>2
<1> QED BY <1>8, <1>9, <1>10 DEF At, rests, w

\* Bytes and the next ones.
LEMMA WindowJoined ==
  ASSUME NEW from \in Nat, NEW a, Window(a, from), NEW s, Window(s, from + Len(a)),
         NEW n \in 0..Len(s)
  PROVE  Window(a \o SubSeq(s, 1, n), from) /\ Len(a \o SubSeq(s, 1, n)) = Len(a) + n
<1> DEFINE chunk == SubSeq(s, 1, n)
           joined == a \o chunk
<1>1. /\ a \in Seq(Tokens) /\ s \in Seq(Tokens) /\ Len(AllBytes) \in Nat
  BY FramesLaid DEF Window
<1>2. chunk \in Seq(Tokens) /\ Len(chunk) = n /\ \A p \in 1..n : chunk[p] = s[p]
  BY <1>1, Taken
<1> HIDE DEF chunk
<1>3. /\ joined \in Seq(Tokens) /\ Len(joined) = Len(a) + Len(chunk)
      /\ \A p \in 1..(Len(a) + Len(chunk)) :
           joined[p] = IF p <= Len(a) THEN a[p] ELSE chunk[p - Len(a)]
  BY <1>1, <1>2, Joined
<1> HIDE DEF joined
<1> DEFINE h == Len(a)
           l == Len(s)
           all == Len(AllBytes)
<1>4. /\ h \in Nat /\ l \in Nat /\ all \in Nat /\ n \in 0..l /\ from + h + l <= all
      /\ Len(joined) = h + n
      /\ \A p \in 1..h : a[p] = AllBytes[from + p]
      /\ \A p \in 1..l : s[p] = AllBytes[(from + h) + p]
      /\ \A p \in 1..(h + n) : joined[p] = IF p <= h THEN a[p] ELSE chunk[p - h]
  BY <1>1, <1>2, <1>3 DEF Window
<1> HIDE DEF h, l, all
<1>5. ASSUME NEW p \in 1..(h + n) PROVE joined[p] = AllBytes[from + p]
  <2>1. CASE p <= h
    <3>1. p \in 1..h
      BY <1>4, <2>1
    <3> QED BY <1>4, <2>1, <3>1
  <2>2. CASE ~(p <= h)
    <3>1. p - h \in 1..n /\ p - h \in 1..l /\ (from + h) + (p - h) = from + p
      BY <1>4, <2>2
    <3>2. p \in 1..(h + n) /\ joined[p] = chunk[p - h]
      BY <1>4, <1>5, <2>2
    <3>3. chunk[p - h] = s[p - h]
      BY <1>2, <3>1
    <3>4. s[p - h] = AllBytes[(from + h) + (p - h)]
      BY <1>4, <3>1
    <3> QED BY <3>1, <3>2, <3>3, <3>4
  <2> QED BY <2>1, <2>2
<1>6. from + (h + n) <= all
  BY <1>4
<1>7. Window(joined, from)
  BY <1>3, <1>4, <1>5, <1>6 DEF Window, all
<1> QED BY <1>4, <1>7 DEF joined, chunk, h

\* What is on its way is the end of what the analyzer writes, and while the reader is open the
\* decoder holds the beginning of the first frame that is not delivered, and not all of it.
FrameInv ==
  /\ delivered \in Seq(DOMAIN Frames) /\ \A i \in 1..Len(delivered) : delivered[i] = i
  /\ Window(stream, Len(AllBytes) - Len(stream))
  /\ ~readerClosed =>
       /\ Len(delivered) + 1 \in 1..(Count + 1)
       /\ Window(buffer, Offset[Len(delivered) + 1])
       /\ Offset[Len(delivered) + 1] + Len(buffer) + Len(stream) = Len(AllBytes)
       /\ ~Transport!Complete(buffer) /\ ~Transport!Malformed(buffer)

LEMMA FrameInit == Transport!Init => FrameInv
<1> SUFFICES ASSUME Transport!Init PROVE FrameInv
  OBVIOUS
<1>1. stream = AllBytes /\ buffer = << >> /\ delivered = << >>
  BY DEF Transport!Init, AllBytes
<1>2. AllBytes \in Seq(Tokens) /\ Len(AllBytes) \in Nat /\ Count \in Nat /\ Offset[1] = 0
  BY FramesLaid, FramesTyped, OffsetFacts
<1>3. Window(stream, Len(AllBytes) - Len(stream))
  <2>1. \A p \in 1..Len(AllBytes) : 0 + p = p
    BY <1>2
  <2> QED BY <1>1, <1>2, <2>1 DEF Window
<1>4. << >> \in Seq(Tokens) /\ Len(<< >>) = 0 /\ << >> \in Seq(DOMAIN Frames)
  OBVIOUS
<1>5. Window(buffer, Offset[1])
  BY <1>1, <1>2, <1>4 DEF Window
<1>6. 1 \in 1..(Count + 1)
  BY <1>2
<1>7. Transport!HeaderEnd(buffer) = 0
  BY <1>1, <1>4, <1>5, <1>6, HeaderIs
<1>8. ~Transport!Complete(buffer) /\ ~Transport!Malformed(buffer)
  BY <1>7 DEF Transport!Complete, Transport!Malformed
<1>9. Len(delivered) + 1 = 1 /\ Len(buffer) = 0
  BY <1>1, <1>4
<1>10. Offset[1] + Len(buffer) + Len(stream) = Len(AllBytes)
  BY <1>1, <1>2, <1>9
<1> QED BY <1>1, <1>3, <1>4, <1>5, <1>6, <1>8, <1>9, <1>10 DEF FrameInv

LEMMA FrameStep == FrameInv /\ [Transport!Next]_(Transport!transportVars) => FrameInv'
<1> SUFFICES ASSUME FrameInv, [Transport!Next]_(Transport!transportVars) PROVE FrameInv'
  OBVIOUS
<1>1. CASE UNCHANGED <<stream, buffer, delivered>> /\ (readerClosed => readerClosed')
  BY <1>1 DEF FrameInv, Window
<1>2. CASE Transport!Receive
  <2> DEFINE limit == IF Len(stream) < MaxFrameChunk THEN Len(stream) ELSE MaxFrameChunk
             k == Len(delivered) + 1
  <2>1. PICK n \in 1..limit :
          LET bytes == buffer \o SubSeq(stream, 1, n)
              rest == Transport!Left(bytes)[Transport!Whole(bytes)] IN
          /\ stream' = SubSeq(stream, n + 1, Len(stream))
          /\ IF readerClosed THEN UNCHANGED <<buffer, delivered, readerClosed, closeFired>>
             ELSE IF Transport!Malformed(rest)
             THEN readerClosed' = TRUE /\ closeFired' = TRUE /\ buffer' = rest /\ UNCHANGED delivered
             ELSE /\ buffer' = rest /\ UNCHANGED <<readerClosed, closeFired>>
                  /\ delivered' = delivered \o
                       [j \in 1..Transport!Whole(bytes) |-> Transport!Left(bytes)[j - 1][1].of]
    BY <1>2 DEF Transport!Receive
  <2>2. MaxFrameChunk \in Nat
    BY HostAssumption DEF HostAssumption, Transport!TransportAssumption
  <2>3. stream \in Seq(Tokens) /\ Len(stream) \in Nat /\ n \in 0..Len(stream)
    BY <2>2 DEF FrameInv, Window
  <2> HIDE DEF limit
  <2>4. Len(AllBytes) \in Nat /\ Count \in Nat
    BY FramesLaid, FramesTyped
  <2>5. /\ stream' \in Seq(Tokens) /\ Len(stream') = Len(stream) - n
        /\ \A p \in 1..(Len(stream) - n) : stream'[p] = stream[n + p]
    BY <2>1, <2>3, Dropped
  <2>6. Window(stream', Len(AllBytes) - Len(stream'))
    <3> DEFINE all == Len(AllBytes)
               l == Len(stream)
    <3>1. l \in Nat /\ all \in Nat /\ n \in 0..l /\ \A p \in 1..l : stream[p] = AllBytes[(all - l) + p]
      BY <2>3, <2>4 DEF FrameInv, Window
    <3> HIDE DEF l, all
    <3>2. ASSUME NEW p \in 1..(l - n)
          PROVE  stream'[p] = AllBytes[(all - (l - n)) + p]
      <4>1. n + p \in 1..l /\ (all - l) + (n + p) = (all - (l - n)) + p
        BY <3>1
      <4>2. stream[n + p] = AllBytes[(all - l) + (n + p)]
        BY <3>1, <4>1
      <4>3. stream'[p] = stream[n + p]
        BY <2>5 DEF l
      <4> QED BY <4>1, <4>2, <4>3
    <3>3. (all - (l - n)) + (l - n) <= all
      BY <3>1
    <3> QED BY <2>5, <3>2, <3>3 DEF Window, l, all
  <2>7. CASE readerClosed
    BY <2>1, <2>6, <2>7 DEF FrameInv
  <2>8. CASE ~readerClosed
    <3> DEFINE bytes == buffer \o SubSeq(stream, 1, n)
               rests == Transport!Left(bytes)
               w == Transport!Whole(bytes)
               numbers == [j \in 1..w |-> rests[j - 1][1].of]
    <3>1. /\ delivered \in Seq(DOMAIN Frames) /\ Len(delivered) \in Nat
          /\ k \in 1..(Count + 1) /\ Window(buffer, Offset[k])
          /\ Offset[k] + Len(buffer) + Len(stream) = Len(AllBytes)
          /\ buffer \in Seq(Tokens) /\ Len(buffer) \in Nat /\ Offset[k] \in Nat
      BY <2>8, OffsetFacts DEF FrameInv, Window
    <3>2. /\ Window(bytes, Offset[k]) /\ Len(bytes) = Len(buffer) + n
      <4> DEFINE o == Offset[k]
      <4>1. Window(stream, o + Len(buffer))
        <5> DEFINE all == Len(AllBytes)
                   l == Len(stream)
                   h == Len(buffer)
        <5>1. all \in Nat /\ l \in Nat /\ h \in Nat /\ o \in Nat /\ o + h + l = all
          BY <2>3, <2>4, <3>1
        <5>2. Window(stream, all - l)
          BY DEF FrameInv
        <5> HIDE DEF all, l, h, o
        <5>3. all - l = o + h
          BY <5>1
        <5> QED BY <5>2, <5>3 DEF h
      <4>2. o \in Nat /\ Window(buffer, o)
        BY <3>1
      <4> HIDE DEF o
      <4>3. /\ Window(buffer \o SubSeq(stream, 1, n), o)
            /\ Len(buffer \o SubSeq(stream, 1, n)) = Len(buffer) + n
        BY <2>3, <4>1, <4>2, WindowJoined
      <4> QED BY <4>3 DEF o
    <3>3. /\ stream' = SubSeq(stream, n + 1, Len(stream))
          /\ IF Transport!Malformed(rests[w])
             THEN readerClosed' = TRUE /\ UNCHANGED delivered
             ELSE buffer' = rests[w] /\ ~readerClosed' /\ delivered' = delivered \o numbers
      BY <2>1, <2>8
    <3>4. /\ w \in Nat /\ k + w \in 1..(Count + 1)
          /\ Window(rests[w], Offset[k + w]) /\ ~Transport!Complete(rests[w])
          /\ Len(rests[w]) \in Nat /\ Offset[k + w] + Len(rests[w]) = Offset[k] + Len(bytes)
          /\ \A j \in 0..(w - 1) : rests[j][1].of = k + j
      BY <3>1, <3>2, PushIs
    <3> HIDE DEF bytes, rests, w
    <3>5. CASE Transport!Malformed(rests[w])
      BY <2>6, <3>3, <3>5 DEF FrameInv
    <3>6. CASE ~Transport!Malformed(rests[w])
      <4>1. /\ numbers \in Seq(DOMAIN Frames) /\ Len(numbers) = w
            /\ \A j \in 1..w : numbers[j] = Len(delivered) + j
        <5> DEFINE d == Len(delivered)
        <5>1. d \in Nat /\ w \in Nat /\ Count \in Nat /\ (d + 1) + w \in 1..(Count + 1)
          BY <2>4, <3>1, <3>4
        <5>2. \A j \in 0..(w - 1) : rests[j][1].of = (d + 1) + j
          BY <3>4
        <5> HIDE DEF d
        <5>3. \A j \in 1..w : /\ j - 1 \in 0..(w - 1) /\ (d + 1) + (j - 1) = d + j
                              /\ d + j \in 1..Count
          BY <5>1
        <5>4. \A j \in 1..w : rests[j - 1][1].of = d + j
          BY <5>2, <5>3
        <5>5. \A j \in 1..w : numbers[j] = d + j /\ numbers[j] \in DOMAIN Frames
          BY <5>3, <5>4, FramesTyped
        <5>6. numbers \in [1..w -> DOMAIN Frames]
          <6>1. DOMAIN numbers = 1..w /\ numbers = [j \in 1..w |-> numbers[j]]
            OBVIOUS
          <6> HIDE DEF numbers
          <6> QED BY <5>5, <6>1
        <5> HIDE DEF numbers
        <5>7. numbers \in Seq(DOMAIN Frames) /\ Len(numbers) = w
          <6>1. \A S : \A f \in [1..w -> S] : f \in Seq(S) /\ Len(f) = w
            BY <5>1
          <6> QED BY <5>6, <6>1, Zenon
        <5> QED BY <5>5, <5>7 DEF d
      <4> HIDE DEF numbers
      <4>2. /\ delivered \o numbers \in Seq(DOMAIN Frames)
            /\ Len(delivered \o numbers) = Len(delivered) + Len(numbers)
            /\ \A p \in 1..(Len(delivered) + Len(numbers)) :
                 (delivered \o numbers)[p]
                   = IF p <= Len(delivered) THEN delivered[p] ELSE numbers[p - Len(delivered)]
        <5>1. \A x, y \in Seq(DOMAIN Frames) :
                /\ x \o y \in Seq(DOMAIN Frames) /\ Len(x \o y) = Len(x) + Len(y)
                /\ \A p \in 1..(Len(x) + Len(y)) :
                     (x \o y)[p] = IF p <= Len(x) THEN x[p] ELSE y[p - Len(x)]
          BY Joined
        <5> QED BY <3>1, <4>1, <5>1, Zenon
      <4>3. delivered' = delivered \o numbers /\ buffer' = rests[w] /\ ~readerClosed'
        BY <3>3, <3>6
      <4>4. \A i \in 1..Len(delivered') : delivered'[i] = i
        <5> DEFINE d == Len(delivered)
        <5>1. d \in Nat /\ w \in Nat /\ Len(delivered') = d + w
          BY <3>1, <3>4, <4>1, <4>2, <4>3
        <5>2. /\ \A i \in 1..d : delivered[i] = i
              /\ \A j \in 1..w : numbers[j] = d + j
              /\ \A p \in 1..(d + w) : delivered'[p] = IF p <= d THEN delivered[p] ELSE numbers[p - d]
          BY <4>1, <4>2, <4>3 DEF FrameInv
        <5> HIDE DEF d
        <5>3. ASSUME NEW i \in 1..(d + w) PROVE delivered'[i] = i
          <6>1. CASE i <= d
            BY <5>1, <5>2, <6>1
          <6>2. CASE ~(i <= d)
            <7>1. i - d \in 1..w /\ d + (i - d) = i
              BY <5>1, <6>2
            <7> QED BY <5>2, <6>2, <7>1
          <6> QED BY <6>1, <6>2
        <5> QED BY <5>1, <5>3
      <4>5. Len(delivered') + 1 = k + w
        <5> DEFINE d == Len(delivered)
        <5>1. d \in Nat /\ w \in Nat /\ Len(delivered') = d + w /\ k = d + 1
          BY <3>1, <3>4, <4>1, <4>2, <4>3
        <5> HIDE DEF d, k
        <5> QED BY <5>1
      <4>6. Offset[k + w] + Len(rests[w]) + Len(stream') = Len(AllBytes)
        <5> DEFINE all == Len(AllBytes)
                   l == Len(stream)
                   h == Len(buffer)
                   o == Offset[k]
                   q == Offset[k + w]
                   r == Len(rests[w])
        <5>1. /\ all \in Nat /\ l \in Nat /\ h \in Nat /\ o \in Nat /\ q \in Nat /\ r \in Nat
              /\ o + h + l = all /\ q + r = o + (h + n) /\ Len(stream') = l - n /\ n \in Nat
          BY <2>3, <2>4, <2>5, <3>1, <3>2, <3>4, OffsetFacts
        <5> HIDE DEF all, l, h, o, q, r
        <5>2. q + r + (l - n) = all
          BY <5>1
        <5> QED BY <5>1, <5>2 DEF all, q, r
      <4> QED BY <2>6, <3>4, <3>6, <4>2, <4>3, <4>4, <4>5, <4>6 DEF FrameInv
    <3> QED BY <3>5, <3>6
  <2> QED BY <2>7, <2>8
<1> QED
  BY <1>1, <1>2
  DEF Transport!Next, Transport!Listen, Transport!Write, Transport!Send, Transport!Sent,
      Transport!Dispose, Transport!transportVars

LEMMA FramesAreWhole == FrameInv => Transport!FramesWhole
<1> SUFFICES ASSUME FrameInv PROVE Transport!FramesWhole
  OBVIOUS
<1>1. delivered \in Seq(DOMAIN Frames) /\ DOMAIN delivered = 1..Len(delivered) /\ Len(delivered) \in Nat
  BY DEF FrameInv
<1>2. ASSUME ~readerClosed, NEW i \in DOMAIN Frames, \A n \in DOMAIN stream : stream[n].of > i,
             ~(i <= Len(delivered))
      PROVE  FALSE
  <2> DEFINE k == Len(delivered) + 1
  <2>1. i \in 1..Count /\ k \in 1..Count /\ k <= i /\ k \in Nat
    BY <1>1, <1>2, FramesTyped
  <2>2. /\ Window(buffer, Offset[k]) /\ ~Transport!Complete(buffer) /\ ~Transport!Malformed(buffer)
        /\ Offset[k] + Len(buffer) + Len(stream) = Len(AllBytes)
    BY <1>2 DEF FrameInv
  <2>3. ~(Len(buffer) >= FrameSize(k))
    BY <2>1, <2>2, EnoughIs
  <2> HIDE DEF k
  <2> DEFINE o == Offset[k]
             h == Len(buffer)
             l == Len(stream)
             all == Len(AllBytes)
             size == FrameSize(k)
  <2>4. /\ o \in Nat /\ all \in Nat /\ size \in Nat /\ size >= 2
        /\ Offset[k + 1] = o + size /\ Offset[k + 1] <= all
        /\ \A p \in 1..size : AllBytes[o + p].of = k
    <3>1. k \in 1..(Count + 1) /\ k + 1 \in 1..(Count + 1)
      BY <2>1, FramesTyped
    <3> QED BY <2>1, <3>1, OffsetFacts, FramesLaid, FramesTyped
  <2>5. /\ h \in Nat /\ l \in Nat /\ o + h + l = all /\ ~(h >= size) /\ DOMAIN stream = 1..l
        /\ \A p \in 1..l : stream[p] = AllBytes[(all - l) + p]
    BY <2>2, <2>3 DEF FrameInv, Window
  <2> HIDE DEF o, h, l, all, size
  <2>6. 1 \in 1..l /\ h + 1 \in 1..size /\ (all - l) + 1 = o + (h + 1)
    BY <2>4, <2>5
  <2>7. stream[1].of = k
    BY <2>4, <2>5, <2>6
  <2> QED BY <1>2, <2>1, <2>5, <2>6, <2>7
<1>3. \A i \in DOMAIN delivered : delivered[i] = i
  BY <1>1 DEF FrameInv
<1> QED BY <1>2, <1>3 DEF Transport!FramesWhole

\* No more is written than the bound allows.
WriteTyped == /\ {listening, readerClosed, writerClosed, closeFired} \subseteq BOOLEAN
              /\ Len(outcome) <= MaxWrites

LEMMA WriteTypedInit == Transport!Init => WriteTyped
<1>1. MaxWrites \in Nat
  BY HostAssumption DEF HostAssumption, Transport!TransportAssumption
<1> SUFFICES ASSUME Transport!Init PROVE WriteTyped
  OBVIOUS
<1>2. outcome = << >> /\ Len(<< >>) = 0
  BY DEF Transport!Init
<1>3. Len(outcome) <= MaxWrites
  BY <1>1, <1>2
<1>4. {listening, readerClosed, writerClosed, closeFired} \subseteq BOOLEAN
  BY DEF Transport!Init
<1> QED BY <1>3, <1>4 DEF WriteTyped

LEMMA WriteTypedStep ==
  InTurn /\ WriteTyped /\ [Transport!Next]_(Transport!transportVars) => WriteTyped'
<1> SUFFICES ASSUME InTurn, WriteTyped, [Transport!Next]_(Transport!transportVars)
             PROVE  WriteTyped'
  OBVIOUS
<1>1. {listening, readerClosed, writerClosed, closeFired}' \subseteq BOOLEAN
  BY DEF WriteTyped, Transport!Next, Transport!Listen, Transport!Receive, Transport!Write,
         Transport!Send, Transport!Sent, Transport!Dispose, Transport!transportVars
<1>2. outcome \in Seq(Outcomes) /\ Len(outcome) \in Nat /\ Len(outcome) <= MaxWrites /\ MaxWrites \in Nat
  BY HostAssumption DEF InTurn, WriteTyped, HostAssumption, Transport!TransportAssumption
<1>3. CASE outcome' = outcome
  BY <1>1, <1>2, <1>3 DEF WriteTyped
<1>4. CASE Transport!Write
  <2>1. Len(outcome) < MaxWrites /\ \E e : outcome' = Append(outcome, e)
    BY <1>4 DEF Transport!Write
  <2>2. Len(outcome') = Len(outcome) + 1
    BY <1>2, <2>1
  <2> QED BY <1>1, <1>2, <2>1, <2>2 DEF WriteTyped
<1>5. CASE Transport!Sent
  <2>1. PICK m \in sending : \/ outcome' = [outcome EXCEPT ![m] = "sent"]
                             \/ outcome' = [outcome EXCEPT ![m] = "failed"]
    BY <1>5 DEF Transport!Sent
  <2>2. Len(outcome') = Len(outcome)
    BY <1>2, <2>1
  <2> QED BY <1>1, <1>2, <2>2 DEF WriteTyped
<1> QED
  BY <1>3, <1>4, <1>5
  DEF Transport!Next, Transport!Listen, Transport!Receive, Transport!Send, Transport!Dispose,
      Transport!transportVars

LEMMA TransportTyped == InTurn /\ FrameInv /\ WriteTyped => Transport!TypeOK
<1> SUFFICES ASSUME InTurn, FrameInv, WriteTyped PROVE Transport!TypeOK
  OBVIOUS
<1>1. \A m : Written(m) => m \in 1..MaxWrites
  BY HostAssumption DEF InTurn, WriteTyped, Written, HostAssumption, Transport!TransportAssumption
<1>2. ASSUME NEW s \in Seq(Nat), \A i \in 1..Len(s) : s[i] \in 1..MaxWrites
      PROVE  s \in Seq(1..MaxWrites)
  <2>1. DOMAIN s = 1..Len(s) /\ Len(s) \in Nat /\ s = [i \in 1..Len(s) |-> s[i]]
    OBVIOUS
  <2>2. s \in [1..Len(s) -> 1..MaxWrites]
    BY <1>2, <2>1
  <2>3. \A T : \A n \in Nat : \A f \in [1..n -> T] : f \in Seq(T)
    OBVIOUS
  <2> QED BY <2>1, <2>2, <2>3, Zenon
<1>3. transportQueue \in Seq(1..MaxWrites)
  BY <1>1, <1>2 DEF InTurn
<1>4. arrived \in Seq(1..MaxWrites)
  BY <1>1, <1>2 DEF InTurn
<1>5. sending \subseteq 1..MaxWrites
  BY <1>1 DEF InTurn
<1>6. delivered \in Seq(DOMAIN Frames)
  BY DEF FrameInv
<1> QED
  BY <1>3, <1>4, <1>5, <1>6 DEF InTurn, WriteTyped, Outcomes, Transport!TypeOK

\* However the analyzer's bytes are cut, the client gets its messages whole, in order and none
\* late, up to the one that cannot be read; and the guest gets the client's messages in the
\* order of the calls.
THEOREM TransportIsSound == Spec => []TransportSound
<1> DEFINE Sound == InTurn /\ FrameInv /\ WriteTyped
<1>1. Init => Sound
  BY InTurnInit, FrameInit, WriteTypedInit DEF Init
<1>2. Sound /\ [Next]_vars => Sound'
  BY InTurnStep, FrameStep, WriteTypedStep, StepOfTransport
<1>3. Sound => TransportSound
  BY TransportTyped, FramesAreWhole, WritesOrdered DEF TransportSound
<1> QED
  BY <1>1, <1>2, <1>3, PTL DEF Spec

-----------------------------------------------------------------------------
(* The language client and its resources (LanguageClient).                  *)

LEMMA ResourceNames ==
  /\ Language!Resources =
       {"ref", "sync", "connection", "client", "readiness", "listener", "progress", "testApi"}
  /\ Language!Listeners \subseteq Language!Resources
<1>1. /\ DOMAIN Language!Created = {1, 2, 3, 4, 5, 6, 7}
      /\ Language!Created[1] = "ref" /\ Language!Created[2] = "sync"
      /\ Language!Created[3] = "connection" /\ Language!Created[4] = "client"
      /\ Language!Created[5] = "readiness" /\ Language!Created[6] = "listener"
      /\ Language!Created[7] = "progress"
  BY DEF Language!Created
<1> QED
  BY <1>1 DEF Language!Resources, Language!Listeners

ActivationAwaits == {"configuration", "graph", "main", "close", "open", "semantic"}
LEMMA AwaitNames ==
  /\ {Language!AwaitsIn[n] : n \in DOMAIN Language!AwaitsIn} = ActivationAwaits
  /\ \A n \in 1..7 : Language!Awaited(n) \in ActivationAwaits \cup {"done"}
  /\ activation \in ActivationAwaits => Language!Place \in 1..6
<1>1. /\ DOMAIN Language!AwaitsIn = {1, 2, 3, 4, 5, 6} /\ Len(Language!AwaitsIn) = 6
      /\ Language!AwaitsIn[1] = "configuration" /\ Language!AwaitsIn[2] = "graph"
      /\ Language!AwaitsIn[3] = "main" /\ Language!AwaitsIn[4] = "close"
      /\ Language!AwaitsIn[5] = "open" /\ Language!AwaitsIn[6] = "semantic"
  BY DEF Language!AwaitsIn
<1>2. {Language!AwaitsIn[n] : n \in DOMAIN Language!AwaitsIn} = ActivationAwaits
  BY <1>1 DEF ActivationAwaits
<1>3. \A n \in 1..7 : n > 6 \/ n \in {1, 2, 3, 4, 5, 6}
  OBVIOUS
<1>4. \A n \in 1..7 : Language!Awaited(n) \in ActivationAwaits \cup {"done"}
  BY <1>1, <1>3 DEF Language!Awaited, ActivationAwaits
<1>5. activation \in ActivationAwaits => Language!Place \in 1..6
  <2>1. activation \in ActivationAwaits =>
          \E n \in DOMAIN Language!AwaitsIn : Language!AwaitsIn[n] = activation
    BY <1>1 DEF ActivationAwaits
  <2>2. activation \in ActivationAwaits => Language!Place \in DOMAIN Language!AwaitsIn
    BY <2>1 DEF Language!Place
  <2> QED
    BY <1>1, <2>2
<1> QED
  BY <1>2, <1>4, <1>5

ClientTypes ==
  /\ startup \in {"idle", "prepopulate", "starting", "cancelling", "session", "cleaning",
                  "failed", "disposed"}
  /\ prepopulate \in {"none", "pending", "ended"}
  /\ client \in {"initial", "starting", "running", "failed", "stopping", "stopped"}
  /\ languageDisposal \in {"none", "sync", "stop", "done"}
  /\ gate \in {"closed", "open", "disposed"}
FlagsTyped == languageAborted \in BOOLEAN /\ timedOut \in BOOLEAN /\ severed \in BOOLEAN
ProvidersTyped == provider \in [Providers -> {"none", "waiting", "provided", "empty"}]
ResourcesTyped == resource \in [Language!Resources -> {"none", "owned", "released"}]

\* The connection is closed when it is released, and the resources are released in the order
\* of the disposal.
ClosedOnce ==
  /\ closings = IF resource["connection"] = "released" THEN 1 ELSE 0
  /\ severed => resource["connection"] # "owned"
ReleasedInOrder ==
  /\ startup = "idle" => /\ languageDisposal = "none" /\ closings = 0 /\ ~severed
                         /\ \A r \in Language!Resources : resource[r] = "none"
  /\ languageDisposal # "none" => \A r \in Language!Listeners : resource[r] # "owned"
  /\ languageDisposal \in {"stop", "done"} => resource["sync"] # "owned"
  /\ languageDisposal = "done" =>
       \A r \in {"client", "connection", "ref"} : resource[r] # "owned"

\* Only an abort or the end of a start disposes of the owner.
DisposedByAbort ==
  languageDisposal # "none" => languageAborted \/ startup \in {"cleaning", "failed", "disposed"}

\* What an activation changes is under way only while the activation waits for it.
OwnMutation ==
  /\ activation \in {"none", "done", "failed"} \cup ActivationAwaits
  /\ mutation \in {"none", "configuration", "main"}
  /\ mutation # "none" => mutation = activation

LanguageInv == /\ ClientTypes /\ FlagsTyped /\ ProvidersTyped /\ ResourcesTyped /\ ClosedOnce
               /\ ReleasedInOrder /\ DisposedByAbort /\ OwnMutation

ClientInv == ClientTypes /\ ResourcesTyped /\ ClosedOnce /\ ReleasedInOrder /\ DisposedByAbort

\* The connection is closed by who releases it.
LEMMA ConnectionClosed ==
  ASSUME LanguageInv, NEW S, "connection" \in S, S \subseteq Language!Resources
  PROVE  /\ resource["connection"] = "owned" => Language!Closings(S) = 1 /\ closings = 0
         /\ resource["connection"] # "owned" => Language!Closings(S) = closings
<1> DEFINE T == {r \in S : resource[r] = "owned"}
<1>1. \A U : Language!Cardinality(U) = Cardinality(U)
  BY DEF Language!Cardinality, Cardinality
<1>2. Language!Closings(S) = closings + Cardinality({"connection"} \cap T)
  BY <1>1 DEF Language!Closings
<1>3. /\ resource["connection"] = "owned" => {"connection"} \cap T = {"connection"}
      /\ resource["connection"] # "owned" => {"connection"} \cap T = {}
  OBVIOUS
<1>4. Cardinality({"connection"}) = 1 /\ Cardinality({}) = 0
  BY FS_Singleton, FS_EmptySet
<1>5. closings = IF resource["connection"] = "released" THEN 1 ELSE 0
  BY DEF LanguageInv, ClosedOnce
<1> HIDE DEF T
<1> QED
  BY <1>2, <1>3, <1>4, <1>5

LEMMA LanguageInit == Language!Init => LanguageInv
  BY ResourceNames
  DEF Language!Init, LanguageInv, ClientTypes, FlagsTyped, ProvidersTyped, ResourcesTyped,
      ClosedOnce, ReleasedInOrder, DisposedByAbort, OwnMutation

LEMMA ClientStep ==
  ASSUME LanguageInv, [Language!Next]_(Language!languageVars)
  PROVE  ClientInv'
<1> USE ResourceNames
    DEF LanguageInv, ClientInv, ClientTypes, FlagsTyped, ResourcesTyped, ClosedOnce,
        ReleasedInOrder, DisposedByAbort, Language!Listeners
<1>1. CASE Language!Start
  BY <1>1 DEF Language!Start
<1>2. CASE Language!StartFails
  <2>1. PICK n \in 0..(Len(Language!Created) - 1) :
          resource' = [r \in Language!Resources |->
                         IF \E i \in 1..n : Language!Created[i] = r
                         THEN IF r \in Language!Listeners THEN "released" ELSE "owned" ELSE "none"]
    BY <1>2 DEF Language!StartFails
  <2>2. /\ startup = "idle" /\ startup' = "cleaning" /\ languageDisposal' = "sync"
        /\ gate' \in {gate, "disposed"}
        /\ UNCHANGED <<languageAborted, prepopulate, client, closings, severed>>
    BY <1>2 DEF Language!StartFails, Language!CloseGate
  <2>3. /\ ResourcesTyped' /\ resource'["connection"] # "released"
        /\ \A r \in Language!Listeners : resource'[r] # "owned"
    BY <2>1
  <2> QED
    BY <2>2, <2>3
<1>3. CASE Language!PrepopulateEnds
  BY <1>3
  DEF Language!PrepopulateEnds, Language!Clean, Language!CloseGate, Language!DisposeOwner,
      Language!Release, Language!Cancelled
<1>4. CASE Language!ClientStarts
  BY <1>4
  DEF Language!ClientStarts, Language!Clean, Language!CloseGate, Language!DisposeOwner,
      Language!Release, Language!Cancelled
<1>5. CASE Language!TimesOut \/ Language!HearsAbort
  <2>1. /\ startup \in {"prepopulate", "starting"} /\ startup' = "cancelling"
        /\ UNCHANGED <<languageAborted, prepopulate, client, languageDisposal, gate>>
        /\ \/ UNCHANGED <<severed, closings, resource>>
           \/ /\ closings' = Language!Closings({"connection"})
              /\ resource' = Language!Release({"connection"})
    BY <1>5 DEF Language!TimesOut, Language!HearsAbort, Language!GivesUp, Language!Sever
  <2>2. CASE UNCHANGED <<severed, closings, resource>>
    BY <2>1, <2>2
  <2>3. CASE /\ closings' = Language!Closings({"connection"})
             /\ resource' = Language!Release({"connection"})
    <3>1. /\ ResourcesTyped' /\ resource'["connection"] # "owned"
          /\ resource'["connection"] = "released" <=> resource["connection"] \in {"owned", "released"}
          /\ \A r \in Language!Resources : resource[r] # "owned" => resource'[r] # "owned"
      BY <2>3 DEF Language!Release
    <3>2. ClosedOnce'
      BY <2>3, <3>1, ConnectionClosed
    <3> QED
      BY <2>1, <3>1, <3>2
  <2> QED
    BY <2>1, <2>2, <2>3
<1>6. CASE Language!SettleTimeout \/ Language!Cleaned \/ Language!SessionDispose
  BY <1>6
  DEF Language!SettleTimeout, Language!Cleaned, Language!SessionDispose, Language!Clean,
      Language!CloseGate, Language!DisposeOwner, Language!Release
<1>7. CASE Language!RuntimeAborts
  BY <1>7 DEF Language!RuntimeAborts, Language!DisposeOwner, Language!Release
<1>8. CASE Language!SyncDisposed \/ Language!StopEnds
  <2>1. /\ languageDisposal \in {"sync", "stop"} /\ languageDisposal' \in {"stop", "done"}
        /\ client' \in {client, "stopping", "stopped"}
        /\ UNCHANGED <<startup, languageAborted, prepopulate, severed, gate>>
        /\ \/ /\ languageDisposal = "sync" /\ languageDisposal' = "stop"
              /\ resource' = Language!Release({"sync"}) /\ UNCHANGED closings
           \/ /\ closings' = Language!Closings({"connection"}) /\ languageDisposal' = "done"
              /\ \/ resource' = Language!Release({"sync", "client", "connection", "ref"})
                 \/ /\ languageDisposal = "stop"
                    /\ resource' = Language!Release({"client", "connection", "ref"})
    BY <1>8 DEF Language!SyncDisposed, Language!StopEnds
  <2>2. /\ ResourcesTyped'
        /\ \A r \in Language!Resources : resource[r] # "owned" => resource'[r] # "owned"
    BY <2>1 DEF Language!Release
  <2>3. CASE languageDisposal' = "stop"
    BY <2>1, <2>2, <2>3 DEF Language!Release
  <2>4. CASE languageDisposal' = "done"
    <3>1. /\ resource'["connection"] # "owned" /\ resource'["sync"] # "owned"
          /\ resource'["client"] # "owned" /\ resource'["ref"] # "owned"
          /\ resource'["connection"] = "released" <=> resource["connection"] \in {"owned", "released"}
      BY <2>1, <2>4 DEF Language!Release
    <3>2. ClosedOnce'
      BY <2>1, <2>4, <3>1, ConnectionClosed
    <3> QED
      BY <2>1, <2>2, <2>4, <3>1, <3>2
  <2> QED
    BY <2>1, <2>3, <2>4
<1>9. CASE Language!Activate \/ Language!Settles \/ Language!AbortsWait
  BY <1>9 DEF Language!Activate, Language!Settles, Language!AbortsWait, Language!Enters
<1>10. CASE UNCHANGED <<startup, languageAborted, prepopulate, client, resource, closings, severed,
                        languageDisposal, gate>>
  BY <1>10
<1> QED
  BY <1>1, <1>2, <1>3, <1>4, <1>5, <1>6, <1>7, <1>8, <1>9, <1>10
  DEF Language!Next, Language!Asks, Language!Answers, Language!CancelsRequest,
      Language!languageVars

LEMMA OtherStep ==
  ASSUME LanguageInv, [Language!Next]_(Language!languageVars)
  PROVE  FlagsTyped' /\ ProvidersTyped' /\ OwnMutation'
<1>I. FlagsTyped /\ ProvidersTyped /\ OwnMutation
  BY DEF LanguageInv
<1>1. CASE Language!Activate
  BY <1>1, <1>I
  DEF Language!Activate, Language!Enters, Language!Mutations, FlagsTyped, ProvidersTyped,
      OwnMutation, ActivationAwaits
<1>2. CASE Language!Settles
  <2> DEFINE n == Language!Awaited(Language!Place + 1)
             unmet == IF mutation = activation THEN "none" ELSE mutation
  <2>1. activation \in ActivationAwaits
    BY <1>2, AwaitNames DEF Language!Settles
  <2>2. Language!Place + 1 \in 1..7
    BY <2>1, AwaitNames
  <2>3. n \in ActivationAwaits \cup {"done"}
    BY <2>2, AwaitNames
  <2>4. unmet = "none"
    BY <1>I DEF OwnMutation
  <2>5. /\ UNCHANGED <<languageAborted, timedOut, severed, provider>>
        /\ \/ n \notin Language!Mutations /\ mutation' = unmet /\ activation' = n
           \/ n \in Language!Mutations /\ mutation' = n /\ activation' = n
           \/ activation' = "failed" /\ mutation' = unmet
    BY <1>2 DEF Language!Settles, Language!Enters
  <2> HIDE DEF n, unmet
  <2> QED
    BY <2>3, <2>4, <2>5, <1>I DEF FlagsTyped, ProvidersTyped, OwnMutation, Language!Mutations
<1>3. CASE Language!AbortsWait
  <2>1. activation \notin {"configuration", "main"} /\ activation' = "failed"
        /\ UNCHANGED <<languageAborted, timedOut, severed, provider, mutation>>
    BY <1>3 DEF Language!AbortsWait, Language!Mutations
  <2> QED
    BY <2>1, <1>I DEF FlagsTyped, ProvidersTyped, OwnMutation
<1>4. ASSUME NEW p \in Providers,
             Language!Asks(p) \/ Language!Answers(p) \/ Language!CancelsRequest(p)
      PROVE  FlagsTyped' /\ ProvidersTyped' /\ OwnMutation'
  <2>1. /\ \E v \in {"waiting", "provided", "empty"} : provider' = [provider EXCEPT ![p] = v]
        /\ UNCHANGED <<languageAborted, timedOut, severed, activation, mutation>>
    <3>1. CASE Language!Asks(p)
      <4>1. gate \in {"closed", "open", "disposed"}
        BY DEF LanguageInv, ClientTypes
      <4> QED
        BY <3>1, <4>1 DEF Language!Asks
    <3>2. CASE Language!Answers(p) \/ Language!CancelsRequest(p)
      BY <3>2 DEF Language!Answers, Language!CancelsRequest
    <3> QED
      BY <1>4, <3>1, <3>2
  <2> QED
    BY <2>1, <1>I DEF FlagsTyped, ProvidersTyped, OwnMutation
<1>5. CASE UNCHANGED <<provider, activation, mutation>>
  <2>1. FlagsTyped'
    BY <1>I, Zenon
    DEF Language!Next, Language!languageVars, Language!Start, Language!StartFails,
        Language!PrepopulateEnds, Language!ClientStarts, Language!TimesOut, Language!HearsAbort,
        Language!GivesUp, Language!Sever, Language!SettleTimeout, Language!Cleaned,
        Language!RuntimeAborts, Language!SyncDisposed, Language!StopEnds, Language!SessionDispose,
        Language!Activate, Language!Settles, Language!AbortsWait, Language!Asks, Language!Answers,
        Language!CancelsRequest, FlagsTyped
  <2> QED
    BY <1>5, <1>I, <2>1 DEF ProvidersTyped, OwnMutation
<1> QED
  BY <1>1, <1>2, <1>3, <1>4, <1>5
  DEF Language!Next, Language!languageVars, Language!Start, Language!StartFails,
      Language!PrepopulateEnds, Language!ClientStarts, Language!TimesOut, Language!HearsAbort,
      Language!GivesUp, Language!SettleTimeout, Language!Cleaned, Language!RuntimeAborts,
      Language!SyncDisposed, Language!StopEnds, Language!SessionDispose

\* The client is stopped over a connection that is there, and started before any abort.
LEMMA ClientMoves ==
  ASSUME LanguageInv, Language!Next
  PROVE  /\ client' = "stopping" => client = "stopping" \/ ~severed
         /\ client = "initial" /\ client' = "starting" =>
              ~languageAborted /\ ~timedOut /\ languageDisposal = "none"
<1>1. CASE Language!PrepopulateEnds
  BY <1>1
  DEF Language!PrepopulateEnds, Language!Cancelled, LanguageInv, DisposedByAbort
<1>2. CASE Language!ClientStarts
  BY <1>2 DEF Language!ClientStarts
<1>3. CASE Language!SyncDisposed \/ Language!StopEnds
  BY <1>3 DEF Language!SyncDisposed, Language!StopEnds, Language!Stoppable
<1>4. CASE UNCHANGED client
  BY <1>4
<1> QED
  BY <1>1, <1>2, <1>3, <1>4
  DEF Language!Next, Language!Start, Language!StartFails, Language!TimesOut, Language!HearsAbort,
      Language!GivesUp, Language!SettleTimeout, Language!Cleaned, Language!RuntimeAborts,
      Language!SessionDispose, Language!Activate, Language!Settles, Language!AbortsWait,
      Language!Asks, Language!Answers, Language!CancelsRequest

LEMMA StepOfLanguage == [Next]_vars => [Language!Next]_(Language!languageVars)
  BY DEF Next, vars, languageVars, Language!languageVars, HttpStep, DownloadStep, AssetsStep,
         CoordinatorStep, LanguageStep, TransportStep, ReadinessStep, DocumentsStep,
         ActivationStep, RuntimeStep

\* What the language client is made of is released once, over a connection that is still
\* there; an abort starts no client and leaves no write behind, whichever providers ask.
THEOREM LanguageIsSound == Spec => LanguageSound
<1>1. Init => LanguageInv
  BY LanguageInit DEF Init
<1>2. LanguageInv /\ [Next]_vars => LanguageInv'
  BY ClientStep, OtherStep, StepOfLanguage DEF LanguageInv, ClientInv
<1>3. LanguageInv =>
        Language!TypeOK /\ Language!ReleasedOnce /\ Language!ActivationLeavesNoWrite
  <2> SUFFICES ASSUME LanguageInv
               PROVE  Language!TypeOK /\ Language!ReleasedOnce /\ Language!ActivationLeavesNoWrite
    OBVIOUS
  <2>1. closings \in 0..1 /\ closings <= 1
    BY DEF LanguageInv, ClosedOnce
  <2>2. {languageAborted, timedOut, severed} \subseteq BOOLEAN
    BY Zenon DEF LanguageInv, FlagsTyped
  <2>3. Language!TypeOK
    BY <2>1, <2>2, AwaitNames
    DEF LanguageInv, ClientTypes, ProvidersTyped, ResourcesTyped, OwnMutation, Language!TypeOK,
        Language!Mutations
  <2>4. Language!ReleasedOnce
    BY <2>1, ResourceNames
    DEF LanguageInv, ClosedOnce, ReleasedInOrder, Language!ReleasedOnce, Language!Listeners
  <2>5. Language!ActivationLeavesNoWrite
    BY DEF LanguageInv, OwnMutation, Language!ActivationLeavesNoWrite
  <2> QED
    BY <2>3, <2>4, <2>5
<1>4. LanguageInv /\ [Next]_vars =>
        /\ [client' = "stopping" => client = "stopping" \/ ~severed]_(Language!languageVars)
        /\ [client = "initial" /\ client' = "starting" =>
              ~languageAborted /\ ~timedOut /\ languageDisposal = "none"]_(Language!languageVars)
  BY ClientMoves, StepOfLanguage
<1> QED
  BY <1>1, <1>2, <1>3, <1>4, PTL
  DEF Spec, LanguageSound, Language!StopsUnsevered, Language!NoLateStart

-----------------------------------------------------------------------------
(* Documents, activation and runtime: the theorems of their own modules,     *)
(* which hold of every behaviour of theirs, hold of what the page does.      *)

D == INSTANCE DocumentSyncProofs
A == INSTANCE ProjectActivationProofs WITH MaxEdits <- MaxTexts,
       activation <- activationStep, text <- activationText, pending <- activationPending,
       chain <- activationChain, failure <- activationFailure, vfs <- activationVfs,
       open <- activationOpen, close <- activationClose, closeLeft <- activationCloseLeft,
       aborted <- activationAborted
R == INSTANCE AppRuntimeProofs WITH Nobody <- None, current <- runtimeCurrent,
       phase <- runtimePhase, startup <- runtimeStartup, live <- runtimeLive,
       awaited <- runtimeAwaited

\* What documents does is a behaviour of its own module.
LEMMA DocumentsRun == Spec => D!Spec
<1>1. Documents!Init <=> D!Init
  BY DEF Documents!Init, D!Init
<1>2. Documents!Next <=> D!Next
  BY DEF Documents!Next, Documents!Editor, Documents!TimerFires, Documents!Progress,
         Documents!FlushStart, Documents!FlushAgain, Documents!FlushSettles,
         Documents!Disposed, Documents!Abort, Documents!DidOpen,
         Documents!DidChange, Documents!DidClose, Documents!QueueWrite,
         Documents!openVars, Documents!closeVars, Documents!flushVars,
         Documents!DidOpenForwarded, Documents!CloseFlushes,
         Documents!CloseRejected, Documents!WriteSettles,
         Documents!QueueSnapshots, Documents!Retried, Documents!Waited,
         Documents!Drained, Documents!lifeVars, Documents!OpenInFlight,
         Documents!docVars, Documents!CloseMayFlush, Documents!CountDown,
         Documents!StrictFails, D!Next, D!Editor, D!TimerFires, D!Progress,
         D!FlushStart, D!FlushAgain, D!FlushSettles, D!Disposed, D!Abort,
         D!DidOpen, D!DidChange, D!DidClose, D!QueueWrite, D!openVars,
         D!closeVars, D!flushVars, D!DidOpenForwarded, D!CloseFlushes,
         D!CloseRejected, D!WriteSettles, D!QueueSnapshots, D!Retried, D!Waited,
         D!Drained, D!lifeVars, D!OpenInFlight, D!docVars, D!CloseMayFlush,
         D!CountDown, D!StrictFails
<1>3. Init => D!Init
  BY <1>1 DEF Init
<1>4. [Next]_vars => [Documents!Next]_(Documents!vars)
  BY DEF Next, vars, documentVars, HttpStep, DownloadStep, AssetsStep, CoordinatorStep,
         LanguageStep, TransportStep, ReadinessStep, DocumentsStep,
         ActivationStep, RuntimeStep, Documents!vars, Documents!docVars,
         Documents!openVars, Documents!closeVars, Documents!lifeVars,
         Documents!flushVars
<1>5. [Next]_vars => [D!Next]_(D!vars)
  BY <1>2, <1>4 DEF Documents!vars, Documents!docVars, Documents!openVars, Documents!closeVars,
         Documents!lifeVars, Documents!flushVars, D!vars, D!docVars, D!openVars,
         D!closeVars, D!lifeVars, D!flushVars
<1> QED BY <1>3, <1>5, PTL DEF Spec, D!Spec

\* What activation does is a behaviour of its own module.
LEMMA ActivationRun == Spec => A!Spec
<1>1. Activation!Init <=> A!Init
  BY DEF Activation!Init, Activation!Lives, A!Init, A!Lives
<1>2. Activation!Next <=> A!Next
  BY DEF Activation!Next, Activation!Edit, Activation!TimerFires, Activation!Activation,
         Activation!Calls, Activation!Abort, Activation!SyncAborts,
         Activation!calls, Activation!stops, Activation!QueueWrite,
         Activation!editor, Activation!ActivationFails, Activation!GraphReady,
         Activation!MainSettles, Activation!Reopens, Activation!CallFails,
         Activation!Reopened, Activation!SemanticReady, Activation!WriteSettles,
         Activation!Lives, Activation!OpenSettles, Activation!CloseFlushes,
         Activation!CloseRejected, Activation!CloseSettles, Activation!writes,
         Activation!CountDown, Activation!Leaves, Activation!CloseWaits, A!Next,
         A!Edit, A!TimerFires, A!Activation, A!Calls, A!Abort, A!SyncAborts,
         A!calls, A!stops, A!QueueWrite, A!editor, A!ActivationFails,
         A!GraphReady, A!MainSettles, A!Reopens, A!CallFails, A!Reopened,
         A!SemanticReady, A!WriteSettles, A!Lives, A!OpenSettles, A!CloseFlushes,
         A!CloseRejected, A!CloseSettles, A!writes, A!CountDown, A!Leaves,
         A!CloseWaits
<1>3. Init => A!Init
  BY <1>1 DEF Init
<1>4. [Next]_vars => [Activation!Next]_(Activation!vars)
  BY DEF Next, vars, activationVars, HttpStep, DownloadStep, AssetsStep, CoordinatorStep,
         LanguageStep, TransportStep, ReadinessStep, DocumentsStep,
         ActivationStep, RuntimeStep, Activation!vars, Activation!editor,
         Activation!writes, Activation!calls, Activation!stops
<1>5. [Next]_vars => [A!Next]_(A!vars)
  BY <1>2, <1>4 DEF Activation!vars, Activation!editor, Activation!writes, Activation!calls,
         Activation!stops, A!vars, A!editor, A!writes, A!calls, A!stops
<1> QED BY <1>3, <1>5, PTL DEF Spec, A!Spec

\* What runtime does is a behaviour of its own module.
LEMMA RuntimeRun == Spec => R!Spec
<1>1. Runtime!Init <=> R!Init
  BY DEF Runtime!Init, R!Init
<1>2. Runtime!Next <=> R!Next
  BY DEF Runtime!Next, Runtime!Supervision, Runtime!Startup, Runtime!Teardown,
         Runtime!Dispose, Runtime!Track, Runtime!Works, Runtime!WorkSettles,
         Runtime!Create, Runtime!Admit, Runtime!AwaitedTeardown, Runtime!Start,
         Runtime!EnterStart, Runtime!Acquire, Runtime!Proceed, Runtime!Ready,
         Runtime!InitializeFails, Runtime!InitializeAborted,
         Runtime!StartupSettles, Runtime!CallbacksSettle, Runtime!AnimalSettles,
         Runtime!Settled, Runtime!LateSettled, Runtime!Finish, Runtime!Idle,
         Runtime!Running, Runtime!BeginDispose, Runtime!downVars, Runtime!supVars,
         Runtime!startVars, Runtime!resVars, Runtime!HoldsTurn, Runtime!Disposing,
         Runtime!Refuse, Runtime!ConstructOrFail, Runtime!Unstarted,
         Runtime!StartStep, Runtime!MakeInTime, Runtime!MakeLate,
         Runtime!MakeFails, Runtime!Order, Runtime!Workers, Runtime!StartRejected,
         Runtime!FailStart, Runtime!Endings, Runtime!Confirm, Runtime!Left,
         Runtime!StartSettling, Runtime!NotTorn, Runtime!Safe, Runtime!Release,
         Runtime!Quarantine, Runtime!Boundaries, Runtime!Construct,
         Runtime!Recorded, R!Next, R!Supervision, R!Startup, R!Teardown,
         R!Dispose, R!Track, R!Works, R!WorkSettles, R!Create, R!Admit,
         R!AwaitedTeardown, R!Start, R!EnterStart, R!Acquire, R!Proceed, R!Ready,
         R!InitializeFails, R!InitializeAborted, R!StartupSettles,
         R!CallbacksSettle, R!AnimalSettles, R!Settled, R!LateSettled, R!Finish,
         R!Idle, R!Running, R!BeginDispose, R!downVars, R!supVars, R!startVars,
         R!resVars, R!HoldsTurn, R!Disposing, R!Refuse, R!ConstructOrFail,
         R!Unstarted, R!StartStep, R!MakeInTime, R!MakeLate, R!MakeFails, R!Order,
         R!Workers, R!StartRejected, R!FailStart, R!Endings, R!Confirm, R!Left,
         R!StartSettling, R!NotTorn, R!Safe, R!Release, R!Quarantine,
         R!Boundaries, R!Construct, R!Recorded
<1>3. Init => R!Init
  BY <1>1 DEF Init
<1>4. [Next]_vars => [Runtime!Next]_(Runtime!vars)
  BY DEF Next, vars, runtimeVars, HttpStep, DownloadStep, AssetsStep, CoordinatorStep,
         LanguageStep, TransportStep, ReadinessStep, DocumentsStep,
         ActivationStep, RuntimeStep, Runtime!vars, Runtime!supVars,
         Runtime!startVars, Runtime!resVars, Runtime!downVars
<1>5. [Next]_vars => [R!Next]_(R!vars)
  BY <1>2, <1>4 DEF Runtime!vars, Runtime!supVars, Runtime!startVars, Runtime!resVars,
         Runtime!downVars, R!vars, R!supVars, R!startVars, R!resVars, R!downVars
<1> QED BY <1>3, <1>5, PTL DEF Spec, R!Spec

\* A didClose follows the writes of its document, the VFS and the server see its texts in
\* the order of the editor's events, whatever was typed, delayed, refused or retried.
THEOREM DocumentsAreSound == Spec => DocumentsSound
<1>0. D!SyncAssumption
  BY HostAssumption DEF HostAssumption, Documents!SyncAssumption, D!SyncAssumption
<1>1. D!TypeOK => Documents!TypeOK
  BY DEF Documents!TypeOK, Documents!TextOrNone, Documents!Text, Documents!OpenSteps,
         Documents!CloseSteps, Documents!Modes, Documents!FlushSteps, D!TypeOK,
         D!TextOrNone, D!Text, D!OpenSteps, D!CloseSteps, D!Modes, D!FlushSteps
<1>2. [\A d \in Docs :
          /\ close[d] # "done" /\ close'[d] = "done"
          /\ mode # "aborted" /\ d \notin overtaken
          => vfs'[d] = text'[d] \/ failure'[d] # 0]_(D!vars)
      => [\A d \in Docs :
          /\ close[d] # "done" /\ close'[d] = "done"
          /\ mode # "aborted" /\ d \notin overtaken
          => vfs'[d] = text'[d] \/ failure'[d] # 0]_(Documents!vars)
  BY DEF Documents!vars, Documents!docVars, Documents!openVars, Documents!closeVars,
         Documents!lifeVars, Documents!flushVars, D!vars, D!docVars, D!openVars,
         D!closeVars, D!lifeVars, D!flushVars
<1>3. [\A d \in Docs : d \notin overtaken => vfs'[d] >= vfs[d]]_(D!vars)
      => [\A d \in Docs : d \notin overtaken => vfs'[d] >= vfs[d]]_(Documents!vars)
  BY DEF Documents!vars, Documents!docVars, Documents!openVars, Documents!closeVars,
         Documents!lifeVars, Documents!flushVars, D!vars, D!docVars, D!openVars,
         D!closeVars, D!lifeVars, D!flushVars
<1>4. [\A d \in Docs :
          server'[d] # server[d] /\ mode # "aborted" =>
            /\ server'[d] > server[d]
            /\ server[d] = 0 => server'[d] = 1 \/ open[d] = "rejected"]_(D!vars)
      => [\A d \in Docs :
          server'[d] # server[d] /\ mode # "aborted" =>
            /\ server'[d] > server[d]
            /\ server[d] = 0 => server'[d] = 1 \/ open[d] = "rejected"]_(Documents!vars)
  BY DEF Documents!vars, Documents!docVars, Documents!openVars, Documents!closeVars,
         Documents!lifeVars, Documents!flushVars, D!vars, D!docVars, D!openVars,
         D!closeVars, D!lifeVars, D!flushVars
<1>5. Spec => []D!TypeOK /\ D!CloseAfterWrite /\ D!VfsNeverRegresses /\ D!ServerInOrder
  BY <1>0, DocumentsRun, D!TypeCorrect, D!ClosesAfterWrite, D!VfsAdvances,
     D!ServerHearsInOrder, PTL
<1> QED
  BY <1>1, <1>2, <1>3, <1>4, <1>5, PTL
  DEF DocumentsSound, D!CloseAfterWrite, D!VfsNeverRegresses, D!ServerInOrder,
      Documents!CloseAfterWrite, Documents!VfsNeverRegresses, Documents!ServerInOrder

\* The activation's close and open of main.rs reach the server one after the other, and
\* lose no text, whichever of their calls is slow or rejected.
THEOREM ActivationIsSound == Spec => ActivationSound
<1>1. A!TypeOK => Activation!TypeOK
  BY DEF Activation!TypeOK, Activation!Texts, Activation!Steps, Activation!Lives,
         Activation!OpenSteps, Activation!CloseSteps, A!TypeOK, A!Texts, A!Steps,
         A!Lives, A!OpenSteps, A!CloseSteps
<1>2. A!ActivatedText => Activation!ActivatedText
  BY DEF Activation!ActivatedText, Activation!Tip, A!ActivatedText, A!Tip
<1>3. [/\ \A life \in A!Lives :
            activationOpen[life] # "forwarding" /\ activationOpen'[life] = "forwarding"
              => ~serverOpen /\ serverOpen'
       /\ activationClose # "forwarding" /\ activationClose' = "forwarding"
            => serverOpen /\ ~serverOpen']_(A!vars)
      => [/\ \A life \in Activation!Lives :
               activationOpen[life] # "forwarding" /\ activationOpen'[life] = "forwarding"
                 => ~serverOpen /\ serverOpen'
          /\ activationClose # "forwarding" /\ activationClose' = "forwarding"
               => serverOpen /\ ~serverOpen']_(Activation!vars)
  BY DEF Activation!vars, Activation!Lives, Activation!editor, Activation!writes,
         Activation!calls, Activation!stops, A!vars, A!Lives, A!editor, A!writes,
         A!calls, A!stops
<1> QED
  BY <1>1, <1>2, <1>3, ActivationRun, A!TypeCorrect, A!ActivationKeepsText,
     A!LivesAreOrdered, PTL
  DEF ActivationSound, A!LivesInOrder, Activation!LivesInOrder

\* With calls in flight and every fault, the runtime gives back nothing that is in use, and
\* no runtime that is disposed of becomes ready.
THEOREM TeardownIsSound == Spec => TeardownSound
<1>0. R!RuntimeAssumption
  BY HostAssumption
  DEF HostAssumption, Runtime!RuntimeAssumption, R!RuntimeAssumption, Runtime!FaultKinds,
      R!FaultKinds
<1>1. R!TypeOK => Runtime!TypeOK
  BY DEF Runtime!TypeOK, Runtime!CallSteps, Runtime!Phases, Runtime!StartSteps,
         Runtime!Stages, Runtime!Kinds, Runtime!Boundaries, Runtime!Works,
         Runtime!TeardownSteps, R!TypeOK, R!CallSteps, R!Phases, R!StartSteps,
         R!Stages, R!Kinds, R!Boundaries, R!Works, R!TeardownSteps
<1>2. R!FarmOutlivesUsers => Runtime!FarmOutlivesUsers
  BY DEF Runtime!FarmOutlivesUsers, R!FarmOutlivesUsers
<1>3. R!QuarantineRetains => Runtime!QuarantineRetains
  BY DEF Runtime!QuarantineRetains, Runtime!Workers, R!QuarantineRetains, R!Workers
<1>4. [\A g \in Gens : runtimePhase'[g] # runtimePhase[g]
         => R!Rank(runtimePhase[g]) < R!Rank(runtimePhase'[g])]_(R!vars)
      => [\A g \in Gens : runtimePhase'[g] # runtimePhase[g]
         => Runtime!Rank(runtimePhase[g]) < Runtime!Rank(runtimePhase'[g])]_(Runtime!vars)
  BY DEF Runtime!vars, Runtime!Rank, Runtime!supVars, Runtime!startVars, Runtime!resVars,
         Runtime!downVars, R!vars, R!Rank, R!supVars, R!startVars, R!resVars,
         R!downVars
<1>5. Spec => [](R!TypeOK /\ R!FarmOutlivesUsers /\ R!QuarantineRetains) /\ R!PhaseOnlyAdvances
  BY <1>0, RuntimeRun, R!TypeCorrect, R!FarmIsSafe, R!QuarantineKeeps, R!PhasesAdvance, PTL
<1> QED
  BY <1>1, <1>2, <1>3, <1>4, <1>5, PTL
  DEF TeardownSound, R!PhaseOnlyAdvances, Runtime!PhaseOnlyAdvances

=============================================================================
