--------------------------- MODULE LanguageClient ---------------------------
(* startRustLspClient() of rust_lsp_client.ts with what it is built from: the    *)
(* owner of its resources (rust_lsp_client_dispose.ts), the start under a time    *)
(* limit and the activation of the project (rust_lsp_startup.ts) and the gate    *)
(* that holds the semantic providers back (semantic_provider_gate.ts).           *)
(*                                                                                *)
(* The runtime disposes of the owner the moment it aborts its signal, while the  *)
(* start hears of the abort in a microtask of its own and then severs the        *)
(* transport: the two race, and meet in one disposal.                            *)
EXTENDS Naturals, Sequences, FiniteSets

CONSTANTS Providers      \* requests for code actions or inlay hints

VARIABLES startup,       \* where startRustLspClient() is
          aborted,       \* the runtime's signal, and the coordinator's with it
          timedOut,
          prepopulate,   \* the write of main.rs
          client,        \* the state of the Monaco language client
          resource,      \* what became of each resource
          closings,      \* how often connection.dispose() ran
          severed,       \* transportAborted
          disposal,      \* owner.dispose(): what it waits for
          gate, provider,
          activation,    \* where activateRustProject() is
          mutation       \* its notification or write that has not settled

languageVars == <<startup, aborted, timedOut, prepopulate, client, resource, closings, severed,
                  disposal, gate, provider, activation, mutation>>

Created == <<"ref", "sync", "connection", "client", "readiness", "listener", "progress">>
Resources == {Created[i] : i \in DOMAIN Created} \cup {"testApi"}
\* What dispose() releases before its first await.
Listeners == {"testApi", "progress", "listener", "readiness"}

Init == /\ startup = "idle" /\ aborted = FALSE /\ timedOut = FALSE
        /\ prepopulate = "none" /\ client = "initial"
        /\ resource = [r \in Resources |-> "none"] /\ closings = 0
        /\ severed = FALSE /\ disposal = "none"
        /\ gate = "closed" /\ provider = [p \in Providers |-> "none"]
        /\ activation = "none" /\ mutation = "none"

(* --- the owner ------------------------------------------------------------- *)

Release(set) == [r \in Resources |-> IF r \in set /\ resource[r] = "owned" THEN "released"
                                     ELSE resource[r]]
\* Mutant: the connection is closed by whoever comes, guard or no guard.
ClosingsUnguarded(set) == closings + Cardinality({"connection"} \cap set)

\* A connection that was closed before is not closed again.
Closings(set) == closings + Cardinality({"connection"} \cap {r \in set : resource[r] = "owned"})

NeedsStop == client \in {"starting", "running"}

\* owner.abort(), of the start that was cancelled.
Sever == /\ severed' = TRUE /\ closings' = Closings({"connection"})
         /\ resource' = Release({"connection"})

\* owner.dispose(), which is memoised: up to the disposal of the document sync.
DisposeOwner ==
  IF disposal # "none" THEN UNCHANGED <<resource, disposal>>
  ELSE resource' = Release(Listeners) /\ disposal' = "sync"

\* Then the client is stopped, unless the transport was severed meanwhile.
Stoppable == ~severed /\ NeedsStop

SyncDisposed ==
  /\ disposal = "sync"
  /\ IF Stoppable
     THEN /\ disposal' = "stop" /\ client' = "stopping"
          /\ resource' = Release({"sync"}) /\ UNCHANGED closings
     ELSE /\ disposal' = "done" /\ closings' = Closings({"connection"}) /\ UNCHANGED client
          /\ resource' = Release({"sync", "client", "connection", "ref"})
  /\ UNCHANGED <<startup, aborted, timedOut, prepopulate, severed, gate, provider, activation,
                 mutation>>

\* client.stop() settled, with an error or without.
StopEnds ==
  /\ disposal = "stop" /\ disposal' = "done"
  /\ client' = "stopped" /\ closings' = Closings({"connection"})
  /\ resource' = Release({"client", "connection", "ref"})
  /\ UNCHANGED <<startup, aborted, timedOut, prepopulate, severed, gate, provider, activation,
                 mutation>>

CloseGate == gate' = IF gate = "closed" THEN "disposed" ELSE gate

(* --- the start ------------------------------------------------------------- *)

\* The owner is adopted and the resources are made, in one turn; then main.rs is
\* written.
Start ==
  /\ startup = "idle"
  /\ IF aborted
     THEN startup' = "failed" /\ UNCHANGED <<resource, prepopulate>>
     ELSE /\ startup' = "prepopulate" /\ prepopulate' = "pending"
          /\ resource' = [r \in Resources |-> IF r = "testApi" THEN "none" ELSE "owned"]
  /\ UNCHANGED <<aborted, timedOut, client, closings, severed, disposal, gate, provider,
                 activation, mutation>>

\* The resource after the n-th cannot be made: the others are released.
StartFails ==
  /\ startup = "idle" /\ ~aborted /\ startup' = "cleaning" /\ CloseGate
  /\ \E n \in 0..(Len(Created) - 1) :
       resource' = [r \in Resources |->
                      IF \E i \in 1..n : Created[i] = r
                      THEN IF r \in Listeners THEN "released" ELSE "owned" ELSE "none"]
  /\ disposal' = "sync"
  /\ UNCHANGED <<aborted, timedOut, prepopulate, client, closings, severed, provider, activation,
                 mutation>>

\* The catch of startRustLspClient().
Clean == startup' = "cleaning" /\ CloseGate /\ DisposeOwner

Cancelled == timedOut \/ aborted

\* The write settled: the client is started, unless the start was cancelled.
PrepopulateEnds ==
  /\ prepopulate = "pending" /\ prepopulate' = "ended"
  /\ \/ /\ ~Cancelled /\ startup = "prepopulate"
        /\ startup' = "starting" /\ client' = "starting"
        /\ UNCHANGED <<resource, disposal, gate>>
     \/ /\ ~Cancelled /\ startup = "prepopulate" \* the write was rejected
        /\ Clean /\ UNCHANGED client
     \/ /\ Cancelled /\ UNCHANGED client
        /\ IF startup = "cancelling" THEN Clean ELSE UNCHANGED <<startup, resource, disposal, gate>>
  /\ UNCHANGED <<aborted, timedOut, closings, severed, provider, activation, mutation>>

\* client.start() settled; without a connection it cannot succeed. In a test build
\* the requests are exposed too.
ClientStarts ==
  /\ client = "starting" /\ prepopulate = "ended"
  /\ \E answer \in {"failed"} \cup (IF closings = 0 THEN {"running"} ELSE {}) :
       /\ client' = answer
       /\ IF startup = "starting" /\ ~Cancelled /\ answer = "running"
          THEN /\ startup' = "session" /\ resource' = [resource EXCEPT !["testApi"] = "owned"]
               /\ UNCHANGED <<disposal, gate>>
          ELSE IF startup = "cancelling" \/ (startup = "starting" /\ ~Cancelled)
          THEN Clean
          ELSE UNCHANGED <<startup, resource, disposal, gate>>
  /\ UNCHANGED <<aborted, timedOut, prepopulate, closings, severed, provider, activation, mutation>>

\* runRustLspStartup() gives up, and severs the transport of a client that is
\* being started.
GivesUp ==
  /\ startup \in {"prepopulate", "starting"}
  /\ startup' = "cancelling"
  /\ IF startup = "starting" THEN Sever ELSE UNCHANGED <<severed, closings, resource>>
  /\ UNCHANGED <<aborted, prepopulate, client, disposal, gate, provider, activation, mutation>>

TimesOut == GivesUp /\ ~Cancelled /\ timedOut' = TRUE
HearsAbort == GivesUp /\ aborted /\ UNCHANGED timedOut

\* The start that was cancelled did not settle in time, or had settled.
SettleTimeout ==
  /\ startup = "cancelling" /\ Clean
  /\ UNCHANGED <<aborted, timedOut, prepopulate, client, closings, severed, provider, activation,
                 mutation>>

Cleaned ==
  /\ startup = "cleaning" /\ disposal = "done" /\ startup' = "failed"
  /\ UNCHANGED <<aborted, timedOut, prepopulate, client, resource, closings, severed, disposal,
                 gate, provider, activation, mutation>>

\* The runtime aborts its signal and disposes of the owner it has adopted.
RuntimeAborts ==
  /\ ~aborted /\ aborted' = TRUE
  /\ IF startup = "idle" THEN UNCHANGED <<resource, disposal>> ELSE DisposeOwner
  /\ UNCHANGED <<startup, timedOut, prepopulate, client, closings, severed, gate, provider,
                 activation, mutation>>

\* The coordinator disposes of the session: at once when it is disposed of itself, also while
\* the project is activated, or when its run has failed, by the activation or before it.
SessionDispose ==
  /\ startup = "session" /\ (aborted \/ activation \in {"none", "failed"})
  /\ CloseGate /\ DisposeOwner /\ startup' = "disposed"
  /\ UNCHANGED <<aborted, timedOut, prepopulate, client, closings, severed, provider, activation,
                 mutation>>

(* --- the providers --------------------------------------------------------- *)

\* wait(): a provider asks once the client runs.
Asks(p) ==
  /\ provider[p] = "none" /\ client = "running"
  /\ provider' = [provider EXCEPT ![p] = CASE gate = "open" -> "provided" [] gate = "closed" -> "waiting"
                                           [] OTHER -> "empty"]
  /\ UNCHANGED <<startup, aborted, timedOut, prepopulate, client, resource, closings, severed,
                 disposal, gate, activation, mutation>>

\* The gate settled, or the request is cancelled.
Answers(p) ==
  /\ provider[p] = "waiting"
  /\ \/ gate = "open" /\ provider' = [provider EXCEPT ![p] = "provided"]
     \/ gate = "disposed" /\ provider' = [provider EXCEPT ![p] = "empty"]
  /\ UNCHANGED <<startup, aborted, timedOut, prepopulate, client, resource, closings, severed,
                 disposal, gate, activation, mutation>>

CancelsRequest(p) ==
  /\ provider[p] = "waiting" /\ provider' = [provider EXCEPT ![p] = "empty"]
  /\ UNCHANGED <<startup, aborted, timedOut, prepopulate, client, resource, closings, severed,
                 disposal, gate, activation, mutation>>

(* --- the activation -------------------------------------------------------- *)

\* What is awaited, in order; the first and the third change what others see.
AwaitsIn == <<"configuration", "graph", "main", "close", "open", "semantic">>
Mutations == {"configuration", "main"}
Awaited(n) == IF n > Len(AwaitsIn) THEN "done" ELSE AwaitsIn[n]
Place == CHOOSE n \in DOMAIN AwaitsIn : AwaitsIn[n] = activation

Enters(step) ==
  /\ activation' = step
  /\ mutation' = IF step \in Mutations THEN step ELSE mutation
  /\ gate' = IF step = "semantic" /\ gate = "closed" THEN "open" ELSE gate

Activate ==
  /\ startup = "session" /\ activation = "none"
  /\ IF aborted THEN activation' = "failed" /\ UNCHANGED <<mutation, gate>> ELSE Enters("configuration")
  /\ UNCHANGED <<startup, aborted, timedOut, prepopulate, client, resource, closings, severed,
                 disposal, provider>>

\* What is awaited settles. An error, or an abort found on the way, ends it.
Settles ==
  /\ activation \in {AwaitsIn[n] : n \in DOMAIN AwaitsIn}
  /\ LET settled == IF mutation = activation THEN "none" ELSE mutation IN
     \/ /\ ~aborted /\ Awaited(Place + 1) \notin Mutations /\ mutation' = settled
        /\ activation' = Awaited(Place + 1)
        /\ gate' = IF activation' = "semantic" /\ gate = "closed" THEN "open" ELSE gate
     \/ ~aborted /\ Awaited(Place + 1) \in Mutations /\ Enters(Awaited(Place + 1))
     \/ activation' = "failed" /\ mutation' = settled /\ UNCHANGED gate
  /\ UNCHANGED <<startup, aborted, timedOut, prepopulate, client, resource, closings, severed,
                 disposal, provider>>

\* An abort ends the wait at once for what is only observed; what mutates is
\* waited for (Settles).
AbortsWait ==
  /\ aborted /\ activation \in {AwaitsIn[n] : n \in DOMAIN AwaitsIn} \ Mutations
  /\ activation' = "failed"
  /\ UNCHANGED <<startup, aborted, timedOut, prepopulate, client, resource, closings, severed,
                 disposal, gate, provider, mutation>>

Next == \/ Start \/ StartFails \/ PrepopulateEnds \/ ClientStarts \/ TimesOut \/ HearsAbort
        \/ SettleTimeout \/ Cleaned \/ RuntimeAborts \/ SyncDisposed \/ StopEnds
        \/ SessionDispose \/ Activate \/ Settles \/ AbortsWait
        \/ \E p \in Providers : Asks(p) \/ Answers(p) \/ CancelsRequest(p)

Spec == Init /\ [][Next]_languageVars
\* Timers run out and the page's own steps are taken; the write of main.rs and
\* the client's start may never settle. Once the signal is aborted what the
\* activation changes does settle, as the runtime's teardown counts on.
Fairness ==
  /\ WF_languageVars(TimesOut \/ HearsAbort) /\ WF_languageVars(SettleTimeout)
  /\ WF_languageVars(Cleaned) /\ WF_languageVars(SyncDisposed) /\ WF_languageVars(StopEnds)
  /\ WF_languageVars(aborted /\ SessionDispose) /\ WF_languageVars(AbortsWait)
  /\ WF_languageVars(aborted /\ Settles)
  /\ \A p \in Providers : WF_languageVars(Answers(p))
FairSpec == Spec /\ Fairness

(* --- properties ------------------------------------------------------------ *)

TypeOK ==
  /\ startup \in {"idle", "prepopulate", "starting", "cancelling", "session",
                  "cleaning", "failed", "disposed"}
  /\ {aborted, timedOut, severed} \subseteq BOOLEAN
  /\ prepopulate \in {"none", "pending", "ended"}
  /\ client \in {"initial", "starting", "running", "failed", "stopping", "stopped"}
  /\ resource \in [Resources -> {"none", "owned", "released"}] /\ closings \in 0..1
  /\ disposal \in {"none", "sync", "stop", "done"} /\ gate \in {"closed", "open", "disposed"}
  /\ provider \in [Providers -> {"none", "waiting", "provided", "empty"}]
  /\ activation \in {"none", "done", "failed"} \cup {AwaitsIn[n] : n \in DOMAIN AwaitsIn}
  /\ mutation \in {"none"} \cup Mutations

\* Whoever comes first, the abort of the start or the disposal (dispose.ts:158-218),
\* the connection is closed once, at once when the transport is severed, and nothing
\* that was made is still held when the disposal has settled.
ReleasedOnce ==
  /\ closings <= 1 /\ (severed => resource["connection"] # "owned")
  /\ disposal = "done" => \A r \in Resources : resource[r] # "owned"

\* The disposal that waits for the document sync asks afterwards whether the
\* transport was severed meanwhile: the client is not asked to stop over a closed
\* connection (dispose.ts:47-50).
StopsUnsevered == [][client' = "stopping" => client = "stopping" \/ ~severed]_languageVars

\* A write of main.rs that settles after the abort or the timeout starts no client,
\* even before the start has heard of the abort (rust_lsp_startup.ts:151-157).
NoLateStart == [][client = "initial" /\ client' = "starting"
                    => ~aborted /\ ~timedOut /\ disposal = "none"]_languageVars

\* An activation that has ended leaves no notification and no write of main.rs
\* under way, which would come after what replaces it (rust_lsp_startup.ts:57-70).
ActivationLeavesNoWrite == activation \in {"done", "failed"} => mutation = "none"

\* startRustLspClient() settles though the write or the client's start never does.
LspStartEnds == []<>(startup \in {"idle", "session", "failed", "disposed"})

\* No code action waits for the analyzer of a runtime that is gone.
ProvidersAnswered == []<>(aborted => \A p \in Providers : provider[p] # "waiting")

=============================================================================
