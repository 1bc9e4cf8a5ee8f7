------------------------------- MODULE MCHost --------------------------------
(* Instances of the components of the page and of its workers for TLC.  A run explores
   one after the other, each by itself: they share nothing but the time of the run.  *)
EXTENDS Naturals, FiniteSets, Sequences, TLC

CONSTANTS Threads, MaxRetained, MaxBody, MaxChunk, Bodies, None, Size, MaxAttempts,
          Tabs, Build, Timeout, Providers, Frames, Bad, MaxFrameChunk, MaxWrites, Phase,
          Request, Poll, MaxVersion, MaxPublished, Docs, Flushes, Disposer, MaxEdits,
          Failing, MaxTexts, Gens, Ops, Faults

\* The parts to explore, and the one that this behaviour is about; every other part
\* stays as it begins.
CONSTANT Explored
VARIABLE part

VARIABLES guest, request, responses, nextRequestId, aborted, disposal, got
VARIABLES main, attempts, downloadAborted, stopped, failed, pump, fromCache, body,
          loaded, queue, ready, put, cache, undeleted, current, waiting, emitted,
          progress, outputFailed, module
VARIABLES deployed, assetCache, op, left, assetStopped, result, assetBody, source,
          assetPut, prune, listed, newest
VARIABLES run, generation, runGeneration, coordinatorAborted, snapshot, prefetch,
          cached, session, analyzer, cleanupFailed, coordinatorDisposal, started
VARIABLES startup, languageAborted, timedOut, prepopulate, client, resource, closings,
          severed, languageDisposal, gate, provider, activation, mutation
VARIABLES listening, readerClosed, writerClosed, stream, buffer, delivered, closeFired,
          transportQueue, sending, arrived, outcome
VARIABLES phase, readinessLeft, timer, lastAttempt, live, crateGraphReady,
          diagnosticsVersion, readinessGeneration, version, captured, analyzed,
          published, readinessStopped
VARIABLES edits, text, pending, chain, failure, vfs, open, strict, openLeft, held,
          close, closeLeft, server, mode, awaited, flush, flushLeft, overtaken
VARIABLES activationText, content, activationStep, language, activationPending,
          activationChain, activationFailure, activationVfs, activationOpen, inFlight,
          activationClose, activationCloseLeft, skipped, serverOpen, activationAborted,
          disposed
VARIABLES call, turns, runtimeCurrent, quarantine, runtimePhase, start, stage,
          runtimeStartup, fatal, has, runtimeLive, late, lateUnsafe, detached, work,
          teardown, runtimeAwaited, confirmed, settled

\* One part of a module; a tab of each of two builds; five messages of which one cannot be
\* read.
MCSize == <<1>>
MCBuild == [t \in Tabs |-> IF t = "t1" THEN 1 ELSE 2]
MCFrames == <<2, 0, 1, Bad, 1>>

Http == INSTANCE HttpBridge
Download == INSTANCE PartDownload WITH aborted <- downloadAborted
Assets == INSTANCE AssetCache WITH cache <- assetCache, stopped <- assetStopped,
                                   body <- assetBody, put <- assetPut
Coordinator == INSTANCE StartupCoordinator WITH aborted <- coordinatorAborted,
                                        disposal <- coordinatorDisposal
Language == INSTANCE LanguageClient WITH aborted <- languageAborted,
                                        disposal <- languageDisposal
Transport == INSTANCE LspTransport WITH MaxChunk <- MaxFrameChunk,
                                        queue <- transportQueue
Readiness == INSTANCE AnalyzerReadiness WITH left <- readinessLeft,
                                        generation <- readinessGeneration,
                                        stopped <- readinessStopped
Documents == INSTANCE DocumentSync
Activation == INSTANCE ProjectActivation WITH MaxEdits <- MaxTexts,
                                        activation <- activationStep,
                                        text <- activationText,
                                        pending <- activationPending,
                                        chain <- activationChain,
                                        failure <- activationFailure,
                                        vfs <- activationVfs, open <- activationOpen,
                                        close <- activationClose,
                                        closeLeft <- activationCloseLeft,
                                        aborted <- activationAborted
Runtime == INSTANCE AppRuntime WITH Nobody <- None, current <- runtimeCurrent,
                                    phase <- runtimePhase, startup <- runtimeStartup,
                                    live <- runtimeLive, awaited <- runtimeAwaited

httpVars == <<guest, request, responses, nextRequestId, aborted, disposal, got>>
downloadVars == <<main, attempts, downloadAborted, stopped, failed, pump, fromCache,
                  body, loaded, queue, ready, put, cache, undeleted, current, waiting,
                  emitted, progress, outputFailed, module>>
assetVars == <<deployed, assetCache, op, left, assetStopped, result, assetBody, source,
               assetPut, prune, listed, newest>>
coordinatorVars == <<run, generation, runGeneration, coordinatorAborted, snapshot,
                     prefetch, cached, session, analyzer, cleanupFailed,
                     coordinatorDisposal, started>>
languageVars == <<startup, languageAborted, timedOut, prepopulate, client, resource,
                  closings, severed, languageDisposal, gate, provider, activation,
                  mutation>>
transportVars == <<listening, readerClosed, writerClosed, stream, buffer, delivered,
                   closeFired, transportQueue, sending, arrived, outcome>>
readinessVars == <<phase, readinessLeft, timer, lastAttempt, live, crateGraphReady,
                   diagnosticsVersion, readinessGeneration, version, captured, analyzed,
                   published, readinessStopped>>
documentVars == <<edits, text, pending, chain, failure, vfs, open, strict, openLeft,
                  held, close, closeLeft, server, mode, awaited, flush, flushLeft,
                  overtaken>>
activationVars == <<activationText, content, activationStep, language,
                    activationPending, activationChain, activationFailure,
                    activationVfs, activationOpen, inFlight, activationClose,
                    activationCloseLeft, skipped, serverOpen, activationAborted,
                    disposed>>
runtimeVars == <<call, turns, runtimeCurrent, quarantine, runtimePhase, start, stage,
                 runtimeStartup, fatal, has, runtimeLive, late, lateUnsafe, detached,
                 work, teardown, runtimeAwaited, confirmed, settled>>
vars == <<part, httpVars, downloadVars, assetVars, coordinatorVars, languageVars,
          transportVars, readinessVars, documentVars, activationVars, runtimeVars>>

\* What the components ask of their constants.
ASSUME HostAssumption == /\ Download!SizeAssumption /\ Assets!BuildAssumption
                         /\ Transport!TransportAssumption /\ Readiness!TimesAssumption
                         /\ Documents!SyncAssumption /\ Runtime!RuntimeAssumption

Init == /\ part \in Explored
        /\ Http!Init /\ Download!Init /\ Assets!Init /\ Coordinator!Init /\
           Language!Init /\ Transport!Init /\ Readiness!Init /\ Documents!Init /\
           Activation!Init /\ Runtime!Init
        /\ part # "download" => cache = [p \in Download!Parts |-> "none"]
        /\ part # "asset" => assetCache = [b \in Assets!Builds |-> "none"]

HttpStep ==
  /\ part = "http" /\ Http!Next
  /\ UNCHANGED <<part, downloadVars, assetVars, coordinatorVars, languageVars,
                 transportVars, readinessVars, documentVars, activationVars, runtimeVars>>
DownloadStep ==
  /\ part = "download" /\ Download!Next
  /\ UNCHANGED <<part, httpVars, assetVars, coordinatorVars, languageVars,
                 transportVars, readinessVars, documentVars, activationVars, runtimeVars>>
AssetsStep ==
  /\ part = "asset" /\ Assets!Next
  /\ UNCHANGED <<part, httpVars, downloadVars, coordinatorVars, languageVars,
                 transportVars, readinessVars, documentVars, activationVars, runtimeVars>>
CoordinatorStep ==
  /\ part = "coordinator" /\ Coordinator!Next
  /\ UNCHANGED <<part, httpVars, downloadVars, assetVars, languageVars, transportVars,
                 readinessVars, documentVars, activationVars, runtimeVars>>
LanguageStep ==
  /\ part = "language" /\ Language!Next
  /\ UNCHANGED <<part, httpVars, downloadVars, assetVars, coordinatorVars,
                 transportVars, readinessVars, documentVars, activationVars, runtimeVars>>
TransportStep ==
  /\ part = "transport" /\ Transport!Next
  /\ UNCHANGED <<part, httpVars, downloadVars, assetVars, coordinatorVars, languageVars,
                 readinessVars, documentVars, activationVars, runtimeVars>>
ReadinessStep ==
  /\ part = "readiness" /\ Readiness!Next
  /\ UNCHANGED <<part, httpVars, downloadVars, assetVars, coordinatorVars, languageVars,
                 transportVars, documentVars, activationVars, runtimeVars>>
DocumentsStep ==
  /\ part = "documents" /\ Documents!Next
  /\ UNCHANGED <<part, httpVars, downloadVars, assetVars, coordinatorVars, languageVars,
                 transportVars, readinessVars, activationVars, runtimeVars>>
ActivationStep ==
  /\ part = "activation" /\ Activation!Next
  /\ UNCHANGED <<part, httpVars, downloadVars, assetVars, coordinatorVars, languageVars,
                 transportVars, readinessVars, documentVars, runtimeVars>>
RuntimeStep ==
  /\ part = "runtime" /\ Runtime!Next
  /\ UNCHANGED <<part, httpVars, downloadVars, assetVars, coordinatorVars, languageVars,
                 transportVars, readinessVars, documentVars, activationVars>>

Next == HttpStep \/ DownloadStep \/ AssetsStep \/ CoordinatorStep \/ LanguageStep \/
        TransportStep \/ ReadinessStep \/ DocumentsStep \/ ActivationStep \/ RuntimeStep

Spec == Init /\ [][Next]_vars

\* Each component's own fairness, while the behaviour is about it.
HttpFairness ==
  /\ WF_httpVars(part = "http" /\ Http!Disposed)
  /\ \A t \in Threads : /\ WF_httpVars(part = "http" /\ Http!Guest(t))
                        /\ WF_httpVars(part = "http" /\ aborted /\ Http!Network(t))
DownloadFairness ==
  /\ WF_downloadVars(part = "download" /\ Download!MainStep)
  /\ WF_downloadVars(part = "download" /\ Download!Progress)
  /\ \A p \in Download!Parts :
       /\ WF_downloadVars(part = "download" /\ (Download!FromCache(p) \/ Download!NotCached(p)))
       /\ WF_downloadVars(part = "download" /\ stopped /\ Download!NoResponse(p))
       /\ WF_downloadVars(part = "download" /\ Download!BodyEnds(p))
       /\ WF_downloadVars(part = "download" /\ Download!PutSettles(p))
       /\ WF_downloadVars(part = "download" /\ Download!PumpEnds(p))
AssetFairness ==
  /\ WF_assetVars(part = "asset" /\ Assets!Tick)
  /\ \A t \in Tabs : /\ WF_assetVars(part = "asset" /\ Assets!Operation(t))
                     /\ WF_assetVars(part = "asset" /\ Assets!TimerFires(t))
CoordinatorFairness ==
  /\ WF_coordinatorVars(part = "coordinator" /\ Coordinator!RunStep)
  /\ WF_coordinatorVars(part = "coordinator" /\ Coordinator!PrefetchEnds)
  /\ WF_coordinatorVars(part = "coordinator" /\ Coordinator!FirstDisposed)
  /\ WF_coordinatorVars(part = "coordinator" /\ Coordinator!RunAwaited)
LanguageFairness ==
  /\ WF_languageVars(part = "language" /\ (Language!TimesOut \/ Language!HearsAbort))
  /\ WF_languageVars(part = "language" /\ Language!SettleTimeout)
  /\ WF_languageVars(part = "language" /\ Language!Cleaned)
  /\ WF_languageVars(part = "language" /\ Language!SyncDisposed)
  /\ WF_languageVars(part = "language" /\ Language!StopEnds)
  /\ WF_languageVars(part = "language" /\ languageAborted /\ Language!SessionDispose)
  /\ WF_languageVars(part = "language" /\ Language!AbortsWait)
  /\ WF_languageVars(part = "language" /\ languageAborted /\ Language!Settles)
  /\ \A p \in Providers : WF_languageVars(part = "language" /\ Language!Answers(p))
TransportFairness == /\ WF_transportVars(part = "transport" /\ Transport!Send)
                     /\ WF_transportVars(part = "transport" /\ Transport!Sent)
ReadinessFairness ==
  /\ WF_readinessVars(part = "readiness" /\ Readiness!Tick)
  /\ WF_readinessVars(part = "readiness" /\ Readiness!GraphTimesOut)
  /\ WF_readinessVars(part = "readiness" /\ Readiness!GraphSleepEnds)
  /\ WF_readinessVars(part = "readiness" /\ Readiness!SleepEnds)
  /\ WF_readinessVars(part = "readiness" /\ Readiness!SemanticTimesOut)
  /\ WF_readinessVars(part = "readiness" /\ Readiness!Stops)
DocumentFairness ==
  /\ \A d \in Docs : /\ WF_documentVars(part = "documents" /\ Documents!TimerFires(d))
                     /\ WF_documentVars(part = "documents" /\ Documents!Progress(d))
  /\ \A f \in Flushes :
       WF_documentVars(part = "documents" /\ (Documents!FlushAgain(f) \/ Documents!FlushSettles(f)))
  /\ WF_documentVars(part = "documents" /\ Documents!Disposed)
ActivationFairness ==
  /\ WF_activationVars(part = "activation" /\ Activation!Activation)
  /\ WF_activationVars(part = "activation" /\ \E ok \in BOOLEAN : Activation!WriteSettles(ok))
  /\ \A n \in Activation!Lives :
       WF_activationVars(part = "activation" /\ Activation!OpenSettles(n))
  /\ WF_activationVars(part = "activation" /\ Activation!CloseFlushes)
  /\ WF_activationVars(part = "activation" /\ Activation!CloseRejected)
  /\ WF_activationVars(part = "activation" /\ Activation!CloseSettles)
RuntimeFairness ==
  \A g \in Gens :
    /\ WF_runtimeVars(part = "runtime" /\ (Runtime!Admit(g) \/ Runtime!AwaitedTeardown(g)))
    /\ WF_runtimeVars(part = "runtime"
                        /\ (Runtime!EnterStart(g) \/ Runtime!Acquire(g) \/ Runtime!Proceed(g)))
    /\ WF_runtimeVars(part = "runtime" /\ Runtime!InitializeAborted(g))
    /\ WF_runtimeVars(part = "runtime" /\ Runtime!StartupSettles(g))
    /\ WF_runtimeVars(part = "runtime" /\ Runtime!CallbacksSettle(g))
    /\ WF_runtimeVars(part = "runtime" /\ Runtime!AnimalSettles(g))
    /\ WF_runtimeVars(part = "runtime" /\ Runtime!Settled(g))
    /\ WF_runtimeVars(part = "runtime" /\ Runtime!LateSettled(g))
    /\ WF_runtimeVars(part = "runtime" /\ Runtime!Finish(g))
FairSpec == /\ Spec /\ HttpFairness /\ DownloadFairness /\ AssetFairness /\ CoordinatorFairness
            /\ LanguageFairness /\ TransportFairness /\ ReadinessFairness /\ DocumentFairness
            /\ ActivationFairness /\ RuntimeFairness

-----------------------------------------------------------------------------
(* The properties of the components, each as one.                            *)

\* A tab that cleans the cache of archives deletes only those of builds before the one that
\* is deployed (rust_src_cache.ts).
CacheSound ==
  /\ [](part = "asset" => Assets!TypeOK)
  /\ Assets!PruneKeepsNewer

\* The analyzer of a startup is disposed of once, whatever fails or aborts it, and nothing
\* is shown once its coordinator is being disposed of (startup_coordinator.ts).
CoordinatorSound ==
  /\ [](part = "coordinator" => Coordinator!TypeOK /\ Coordinator!AnalyzerDisposedOnce)
  /\ Coordinator!QuietAfterDispose

\* What the language client is made of is released once, over a connection that is still
\* there; an abort starts no client, and leaves no write behind (rust_lsp_startup.ts,
\* rust_lsp_client_dispose.ts).
LanguageSound ==
  /\ [](part = "language" =>
          Language!TypeOK /\ Language!ReleasedOnce
          /\ Language!ActivationLeavesNoWrite)
  /\ Language!StopsUnsevered /\ Language!NoLateStart

\* The messages of the language server are whole and in order in both directions, however
\* their bytes are cut and whichever write fails (lsp_protocol.ts).
TransportSound ==
  part = "transport" =>
    Transport!TypeOK /\ Transport!FramesWhole /\ Transport!WritesInOrder

\* The analyzer counts as ready only for the text that the editor shows, and is asked for one
\* crate graph at a time (rust_analyzer_readiness.ts).
ReadinessSound ==
  /\ [](part = "readiness" => Readiness!TypeOK /\ Readiness!OneGraphRequest)
  /\ Readiness!ReadyIsCurrent

\* A didClose follows the writes of its document, and the server sees the notifications of
\* one in the order of the editor's events (rust_document_sync.ts).
DocumentsSound ==
  /\ [](part = "documents" => Documents!TypeOK)
  /\ Documents!CloseAfterWrite /\ Documents!VfsNeverRegresses /\ Documents!ServerInOrder

\* The activation closes main.rs and opens it again: the server hears of the two lives one
\* after the other, and the VFS is on its way to what the editor shows, whatever was typed,
\* written or rejected meanwhile (rust_lsp_startup.ts, rust_document_sync.ts).
ActivationSound ==
  /\ [](part = "activation" => Activation!TypeOK /\ Activation!ActivatedText)
  /\ Activation!LivesInOrder

\* With calls in flight and every fault: the farm and the host's services outlive all that
\* uses them, a quarantine keeps what may still be reached, and no runtime that is being
\* disposed of becomes ready (app_runtime.ts).
TeardownSound ==
  /\ [](part = "runtime" =>
          Runtime!TypeOK /\ Runtime!FarmOutlivesUsers /\ Runtime!QuarantineRetains)
  /\ Runtime!PhaseOnlyAdvances

\* Transfers that are aborted or out of time end, even when the network has fallen silent;
\* a startup, an activation, the waits for the analyzer, flushes, writes and disposals
\* all settle.
HostEnds == /\ Http!AbortReleases /\ Download!AbortEnds /\ Assets!LoadsEnd
            /\ Coordinator!DisposeEnds /\ Language!LspStartEnds /\ Language!ProvidersAnswered
            /\ Transport!WritesSettle /\ Readiness!WaitsEnd /\ Documents!CallsEnd
            /\ (part = "activation" => Activation!ActivationEnds)
            /\ Runtime!DisposeEnds /\ Runtime!StartupEnds
==============================================================================
