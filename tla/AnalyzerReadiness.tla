-------------------------- MODULE AnalyzerReadiness --------------------------
(* RustAnalyzerReadiness of rust_analyzer_readiness.ts: how the page finds out   *)
(* that the analyzer knows the project.  It asks for the crate graph until it     *)
(* holds the four crates, then waits until the diagnostics of the text that the   *)
(* editor shows were published and a request about the same text was answered.    *)
(* Requests time out, the analyzer drops them when the text changes, and the      *)
(* user goes on typing.                                                           *)
(*                                                                                *)
(* Time is what is left of the two timers: of the phase and of what it awaits.    *)
EXTENDS Naturals, Sequences

CONSTANTS Phase, Request, Poll,   \* timeoutMs, crateGraphRequestTimeoutMs, the sleep
          MaxVersion, MaxPublished  \* bounds: edits, messages of the analyzer under way

TimesAssumption == /\ Phase \in Nat \ {0} /\ Request \in Nat \ {0} /\ Poll \in Nat \ {0}
                   /\ MaxVersion \in Nat \ {0} /\ MaxPublished \in Nat

VARIABLES phase,          \* what is awaited
          left,           \* until the deadline of the phase
          timer,          \* until the request times out or the sleep ends
          lastAttempt,    \* reachesPhaseDeadline
          live,           \* crate graph requests that were not cancelled
          crateGraphReady, diagnosticsVersion, generation,
          version,        \* of the model
          captured,       \* the generation and the version the loop has read
          analyzed, published,  \* what the analyzer has seen, and its messages under way
          stopped         \* the signal is aborted, or dispose() was called

readinessVars == <<phase, left, timer, lastAttempt, live, crateGraphReady, diagnosticsVersion,
                   generation, version, captured, analyzed, published, stopped>>

Undefined == 0
GraphPhases == {"graph", "graph-sleep"}
SemanticPhases == {"sleep", "hint"}

Init == /\ phase = "idle" /\ left = 0 /\ timer = 0 /\ lastAttempt = FALSE /\ live = 0
        /\ crateGraphReady = FALSE /\ diagnosticsVersion = Undefined
        /\ generation = 0 /\ version = 1 /\ captured = [generation |-> 0, version |-> 1]
        /\ analyzed = 1 /\ published = << >> /\ stopped = FALSE

Smaller(a, b) == IF a < b THEN a ELSE b

(* --- the crate graph ------------------------------------------------------- *)

\* requestCrateGraph(): the deadline cuts the last attempt short.
AskGraph(remaining, requests) ==
  /\ phase' = "graph" /\ timer' = Smaller(Request, remaining)
  /\ lastAttempt' = (Request >= remaining) /\ live' = requests + 1

Fails(requests) == phase' = "failed" /\ live' = requests /\ UNCHANGED <<timer, lastAttempt>>

\* The finally of requestCrateGraph() cancels the request it gave up.
Cancelled(requests) == requests - 1

SleepsGraph(requests) ==
  IF stopped \/ left = 0 THEN Fails(requests)
  ELSE /\ phase' = "graph-sleep" /\ timer' = Poll /\ live' = requests /\ UNCHANGED lastAttempt

WaitForCrateGraph ==
  /\ phase = "idle"
  /\ IF stopped THEN Fails(live) /\ UNCHANGED left ELSE left' = Phase /\ AskGraph(Phase, live)
  /\ UNCHANGED <<crateGraphReady, diagnosticsVersion, generation, version, captured, analyzed,
                 published, stopped>>

\* An answer that lacks a required crate, or ContentModified, which counts as a
\* time-out, is asked for again; any other error ends the wait.
GraphAnswers ==
  /\ phase = "graph"
  /\ \/ /\ ~stopped /\ left > 0 \* every crate is there
        /\ crateGraphReady' = TRUE /\ diagnosticsVersion' = Undefined
        /\ phase' = "graph-done" /\ live' = Cancelled(live) /\ UNCHANGED <<timer, lastAttempt>>
     \/ /\ SleepsGraph(Cancelled(live)) \/ Fails(Cancelled(live))
        /\ UNCHANGED <<crateGraphReady, diagnosticsVersion>>
  /\ UNCHANGED <<left, generation, version, captured, analyzed, published, stopped>>

GraphTimesOut ==
  /\ phase = "graph" /\ timer = 0
  /\ IF lastAttempt THEN Fails(Cancelled(live)) ELSE SleepsGraph(Cancelled(live))
  /\ UNCHANGED <<left, crateGraphReady, diagnosticsVersion, generation, version, captured,
                 analyzed, published, stopped>>

GraphSleepEnds ==
  /\ phase = "graph-sleep" /\ (timer = 0 \/ left = 0)
  /\ IF stopped \/ left = 0 THEN Fails(live) ELSE AskGraph(left, live)
  /\ UNCHANGED <<left, crateGraphReady, diagnosticsVersion, generation, version, captured,
                 analyzed, published, stopped>>

\* An abort or a disposal rejects what is awaited at once.
Stops ==
  /\ stopped /\ phase \in GraphPhases \cup SemanticPhases
  /\ Fails(IF phase = "graph" THEN Cancelled(live) ELSE live)
  /\ UNCHANGED <<left, crateGraphReady, diagnosticsVersion, generation, version, captured,
                 analyzed, published, stopped>>

(* --- the document ---------------------------------------------------------- *)

\* noteDocumentChanged(), which postpones the deadline of the semantic phase.
Noted == /\ diagnosticsVersion' = Undefined /\ generation' = generation + 1
         /\ left' = IF phase \in GraphPhases THEN left ELSE Phase

Edit ==
  /\ version < MaxVersion /\ version' = version + 1 /\ Noted
  /\ UNCHANGED <<phase, timer, lastAttempt, live, crateGraphReady, captured, analyzed, published,
                 stopped>>

\* The activation writes main.rs and opens the document again: the text is the same.
Reopen ==
  /\ phase = "graph-done" /\ Noted /\ phase' = "reopened"
  /\ UNCHANGED <<timer, lastAttempt, live, crateGraphReady, version, captured, analyzed, published,
                 stopped>>

\* The analyzer takes up changes and publishes the diagnostics of what it has.
Publish ==
  /\ Len(published) < MaxPublished
  /\ \E v \in analyzed..version : analyzed' = v /\ published' = Append(published, v)
  /\ UNCHANGED <<phase, left, timer, lastAttempt, live, crateGraphReady, diagnosticsVersion,
                 generation, version, captured, stopped>>

\* observeMessage(): a version below the known one is of no interest.
ObserveMessage ==
  /\ published # << >> /\ published' = Tail(published)
  /\ diagnosticsVersion' =
       IF crateGraphReady /\ (diagnosticsVersion = Undefined \/ Head(published) >= diagnosticsVersion)
       THEN Head(published) ELSE diagnosticsVersion
  /\ UNCHANGED <<phase, left, timer, lastAttempt, live, crateGraphReady, generation, version,
                 captured, analyzed, stopped>>

(* --- the semantic phase ---------------------------------------------------- *)

\* The loop from its top: the generation is read before the sleep.
Sleeps ==
  IF stopped \/ left = 0 THEN phase' = "failed" /\ UNCHANGED <<timer, captured>>
  ELSE phase' = "sleep" /\ timer' = Poll /\ captured' = [captured EXCEPT !.generation = generation]

WaitForSemanticReadiness ==
  /\ phase = "reopened" /\ left' = Phase
  /\ IF stopped THEN phase' = "failed" /\ UNCHANGED <<timer, captured>>
     ELSE phase' = "sleep" /\ timer' = Poll /\ captured' = [captured EXCEPT !.generation = generation]
  /\ UNCHANGED <<lastAttempt, live, crateGraphReady, diagnosticsVersion, generation, version,
                 analyzed, published, stopped>>

\* Nothing changed during the sleep, and the diagnostics are those of the text.
SleepEnds ==
  /\ phase = "sleep" /\ timer = 0
  /\ IF stopped \/ left = 0 \/ captured.generation # generation \/ diagnosticsVersion # version
     THEN Sleeps
     ELSE /\ phase' = "hint" /\ captured' = [generation |-> generation, version |-> version]
          /\ UNCHANGED timer
  /\ UNCHANGED <<left, lastAttempt, live, crateGraphReady, diagnosticsVersion, generation, version,
                 analyzed, published, stopped>>

\* Mutant: the diagnostics are looked at, what the request was about is not.
DiagnosticsCurrent == diagnosticsVersion = version

\* What the answer was about is still what the editor shows.
StillCurrent == /\ captured.generation = generation /\ captured.version = version
                /\ diagnosticsVersion = captured.version

HintAnswers ==
  /\ phase = "hint"
  /\ \/ /\ ~stopped /\ left > 0 /\ StillCurrent /\ phase' = "ready" /\ UNCHANGED <<timer, captured>>
     \/ ~StillCurrent /\ Sleeps
     \/ Sleeps                        \* ContentModified
     \/ phase' = "failed" /\ UNCHANGED <<timer, captured>>
  /\ UNCHANGED <<left, lastAttempt, live, crateGraphReady, diagnosticsVersion, generation, version,
                 analyzed, published, stopped>>

\* The deadline as it is now: an edit has postponed it.
SemanticTimesOut ==
  /\ phase \in SemanticPhases /\ left = 0 /\ phase' = "failed"
  /\ UNCHANGED <<left, timer, lastAttempt, live, crateGraphReady, diagnosticsVersion, generation,
                 version, captured, analyzed, published, stopped>>

(* --------------------------------------------------------------------------- *)

Stop ==
  /\ ~stopped /\ stopped' = TRUE /\ diagnosticsVersion' = Undefined
  /\ UNCHANGED <<phase, left, timer, lastAttempt, live, crateGraphReady, generation, version,
                 captured, analyzed, published>>

Tick ==
  /\ left > 0 /\ left' = left - 1 /\ timer' = IF timer = 0 THEN 0 ELSE timer - 1
  /\ UNCHANGED <<phase, lastAttempt, live, crateGraphReady, diagnosticsVersion, generation,
                 version, captured, analyzed, published, stopped>>

Next == \/ WaitForCrateGraph \/ GraphAnswers \/ GraphTimesOut \/ GraphSleepEnds \/ Stops
        \/ Edit \/ Reopen \/ Publish \/ ObserveMessage
        \/ WaitForSemanticReadiness \/ SleepEnds \/ HintAnswers \/ SemanticTimesOut
        \/ Stop \/ Tick

Spec == Init /\ [][Next]_readinessVars
\* Time passes and timers fire; the analyzer need not answer anything.
Fairness ==
  /\ WF_readinessVars(Tick) /\ WF_readinessVars(GraphTimesOut) /\ WF_readinessVars(GraphSleepEnds)
  /\ WF_readinessVars(SleepEnds) /\ WF_readinessVars(SemanticTimesOut) /\ WF_readinessVars(Stops)
FairSpec == Spec /\ Fairness

(* --- properties ------------------------------------------------------------ *)

TypeOK ==
  /\ phase \in {"idle", "graph-done", "reopened", "ready", "failed"} \cup GraphPhases
                 \cup SemanticPhases
  /\ left \in 0..Phase /\ timer \in 0..(Phase + Poll) /\ live \in Nat
  /\ {lastAttempt, crateGraphReady, stopped} \subseteq BOOLEAN
  /\ version \in 1..MaxVersion /\ analyzed \in 1..version
  /\ diagnosticsVersion \in 0..MaxVersion /\ published \in Seq(1..MaxVersion)
  /\ generation \in Nat /\ captured \in [generation : Nat, version : 1..MaxVersion]

\* The wait ends well only for the text that the editor shows: the request that was
\* answered was asked with this text and after its diagnostics had come, however
\* edits, old diagnostics and the answer crossed (rust_analyzer_readiness.ts:331-367).
ReadyIsCurrent == [][phase # "ready" /\ phase' = "ready"
                       => /\ captured.version = version /\ captured.generation = generation
                          /\ diagnosticsVersion = version /\ ~stopped]_readinessVars

\* The analyzer works on at most one crate graph for the page, and on none once the
\* wait has ended: requests that timed out do not pile up in its single worker
\* (rust_analyzer_readiness.ts:471-477).
OneGraphRequest == live = IF phase = "graph" THEN 1 ELSE 0

\* Each wait ends though the analyzer never answers, as soon as the user pauses.
WaitsEnd == /\ []<>(phase \notin GraphPhases) /\ []<>(phase \notin SemanticPhases)

=============================================================================
