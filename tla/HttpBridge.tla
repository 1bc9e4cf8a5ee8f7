------------------------------ MODULE HttpBridge ------------------------------
(***************************************************************************)
(* The way of one HTTP request of the guest: wasi_ext_fetch()              *)
(* (crates/vfs/src/lib.rs), the imports of the worker (http_import.ts),    *)
(* the owner of the host's callbacks (runtime_host_callbacks.ts) and the   *)
(* bridge (lib/src/http_bridge.ts), which fetches, keeps the response and  *)
(* hands it out in chunks until the guest ends it.  The guest waits for    *)
(* each answer; several of its threads may be fetching.                    *)
(*                                                                         *)
(* A response is known by the lengths of its parts.  The host may be       *)
(* aborted and disposed of at any moment; the network may never answer.    *)
(***************************************************************************)
EXTENDS Naturals, FiniteSets

CONSTANTS Threads,          \* of the guest, each fetching once
          MaxRetained,      \* MAX_RETAINED_RESPONSES
          MaxBody,          \* MAX_RESPONSE_BYTES
          MaxChunk,         \* MAX_CHUNK_SIZE
          Bodies,           \* lengths of the bodies that the network sends
          None
BridgeAssumption == /\ IsFiniteSet(Threads) /\ MaxBody \in Nat /\ MaxChunk \in Nat \ {0}
                    /\ Bodies \subseteq Nat

VARIABLES guest,       \* where wasi_ext_fetch() of each thread is
          request,     \* httpRequestStart of the thread at the host, with its id
          responses,   \* the retained ones, by id
          nextRequestId,
          aborted, disposal,
          got          \* what the thread has read of each part, and the lengths it was told

httpVars == <<guest, request, responses, nextRequestId, aborted, disposal, got>>

Parts == {"headers", "body", "error"}
NextPart == [headers |-> "body", body |-> "error", error |-> "ending"]
Nothing == [p \in Parts |-> 0]
Idle == [at |-> "none", id |-> 0, total |-> 0, sent |-> 0]

Init == /\ guest = [t \in Threads |-> "idle"]
        /\ request = [t \in Threads |-> Idle]
        /\ responses = << >> /\ nextRequestId = 1
        /\ aborted = FALSE /\ disposal = "none"
        /\ got = [t \in Threads |-> [id |-> 0, lens |-> Nothing, read |-> Nothing]]

Pending == {t \in Threads : request[t].at # "none"}
Retained(f) == Cardinality(DOMAIN f)

Lengths(h, b, e) == [headers |-> h, body |-> b, error |-> e]
Stored(id, lens) == [i \in DOMAIN responses \cup {id} |->
                       IF i = id THEN [lens |-> lens, offset |-> Nothing] ELSE responses[i]]
Dropped(id) == [i \in DOMAIN responses \ {id} |-> responses[i]]

(* --- httpRequestStart --------------------------------------------------------- *)

\* The request has failed for the guest before there is a response to end.
StartFails(t) == guest' = [guest EXCEPT ![t] = "failed"]

\* The response is kept, and the guest is told of its lengths.
Keep(t, id, lens) ==
  /\ responses' = Stored(id, lens)
  /\ guest' = [guest EXCEPT ![t] = "told"]
  /\ got' = [got EXCEPT ![t] = [id |-> id, lens |-> lens, read |-> Nothing]]

Full == Cardinality(Pending) + Retained(responses) >= MaxRetained

Start(t) ==
  /\ guest[t] = "idle" /\ UNCHANGED <<responses, aborted, disposal, got>>
  /\ IF aborted \/ Full
       THEN StartFails(t) /\ UNCHANGED <<request, nextRequestId>>
       ELSE /\ nextRequestId' = nextRequestId + 1
            /\ request' = [request EXCEPT ![t] = [Idle EXCEPT !.at = "fetching", !.id = nextRequestId]]
            /\ guest' = [guest EXCEPT ![t] = "waiting"]

\* The method, URL, headers or body of the request are no good.
StartMalformed(t) ==
  /\ guest[t] = "idle" /\ ~aborted /\ ~Full
  /\ nextRequestId' = nextRequestId + 1 /\ Keep(t, nextRequestId, Lengths(0, 0, 1))
  /\ UNCHANGED <<request, aborted, disposal>>

Settled(t) == request' = [request EXCEPT ![t] = Idle]

\* The catch of the request: an error is a response, unless the bridge is aborted.
Errs(t) ==
  /\ Settled(t)
  /\ IF aborted THEN StartFails(t) /\ UNCHANGED <<responses, got>>
                ELSE Keep(t, request[t].id, Lengths(0, 0, 1))

FetchFails(t) ==
  /\ request[t].at \in {"fetching", "reading"} /\ Errs(t)
  /\ UNCHANGED <<nextRequestId, aborted, disposal>>

\* The response is there; its body is longer than is known, perhaps.
FetchResolves(t) ==
  /\ request[t].at = "fetching" /\ ~aborted
  /\ \E total \in Bodies, declared \in BOOLEAN :
       IF declared /\ total > MaxBody THEN Errs(t)
       ELSE IF total = 0 THEN Settled(t) /\ Keep(t, request[t].id, Lengths(1, 0, 0))
       ELSE /\ request' = [request EXCEPT ![t].at = "reading", ![t].total = total]
            /\ UNCHANGED <<guest, responses, got>>
  /\ UNCHANGED <<nextRequestId, aborted, disposal>>

\* A read of the stream: too much of it cancels the rest.
ReadStream(t) ==
  LET r == request[t] IN
  /\ r.at = "reading" /\ r.sent < r.total
  /\ \E n \in 1..(r.total - r.sent) :
       IF n > MaxBody - r.sent THEN Errs(t)
       ELSE request' = [request EXCEPT ![t].sent = @ + n] /\ UNCHANGED <<guest, responses, got>>
  /\ UNCHANGED <<nextRequestId, aborted, disposal>>

\* A stream that is cancelled by the abort ends as well.
StreamEnds(t) ==
  LET r == request[t] IN
  /\ r.at = "reading" /\ (r.sent = r.total \/ aborted)
  /\ IF aborted THEN Errs(t)
                ELSE Settled(t) /\ Keep(t, r.id, Lengths(1, r.sent, 0))
  /\ UNCHANGED <<nextRequestId, aborted, disposal>>

(* --- wasi_ext_fetch() ----------------------------------------------------------- *)

\* The buffers are there.
Allocated(t) ==
  /\ guest[t] = "told" /\ guest' = [guest EXCEPT ![t] = "headers"]
  /\ UNCHANGED <<request, responses, nextRequestId, aborted, disposal, got>>

\* They are not, or the metadata cannot be used.
Unusable(t) ==
  /\ guest[t] = "told" /\ guest' = [guest EXCEPT ![t] = "dropping"]
  /\ UNCHANGED <<request, responses, nextRequestId, aborted, disposal, got>>

Least(S) == CHOOSE n \in S : \A m \in S : n <= m
\* read() of the bridge: how far the part is handed out then.
HandedOut(id, part, wanted) ==
  LET start == responses[id].offset[part] IN
    Least({start + wanted, start + MaxChunk, responses[id].lens[part]})
\* read() of the worker: a chunk of another length is refused.
Accepted(id, part, wanted) == HandedOut(id, part, wanted) = responses[id].offset[part] + wanted

ReadChunk(t) ==
  LET part == guest[t]  id == got[t].id
      wanted == Least({MaxChunk, got[t].lens[part] - got[t].read[part]})
      offset == HandedOut(id, part, wanted) IN
  /\ part \in Parts /\ UNCHANGED <<request, nextRequestId, aborted, disposal>>
  /\ IF wanted = 0
       THEN guest' = [guest EXCEPT ![t] = NextPart[part]] /\ UNCHANGED <<responses, got>>
     ELSE IF aborted \/ id \notin DOMAIN responses
       THEN guest' = [guest EXCEPT ![t] = "dropping"] /\ UNCHANGED <<responses, got>>
     ELSE /\ responses' = [responses EXCEPT ![id].offset[part] = offset]
          /\ IF Accepted(id, part, wanted)
               THEN got' = [got EXCEPT ![t].read[part] = @ + wanted] /\ UNCHANGED guest
               ELSE guest' = [guest EXCEPT ![t] = "dropping"] /\ UNCHANGED got

\* An error of the host is a failure for the guest.
Outcome(t) == IF guest[t] = "ending" /\ got[t].lens.error = 0 THEN "ok" ELSE "failed"

\* Mutant: a request that failed half way is not ended.
EndForgotten(t) ==
  /\ guest[t] \in {"ending", "dropping"}
  /\ UNCHANGED <<request, nextRequestId, aborted, disposal, got>>
  /\ IF guest[t] = "ending" /\ ~aborted
       THEN /\ responses' = Dropped(got[t].id)
            /\ guest' = [guest EXCEPT ![t] = Outcome(t)]
       ELSE guest' = [guest EXCEPT ![t] = "failed"] /\ UNCHANGED responses

\* ResponseGuard: whatever happened, the response is ended, once.
End(t) ==
  /\ guest[t] \in {"ending", "dropping"}
  /\ UNCHANGED <<request, nextRequestId, aborted, disposal, got>>
  /\ IF aborted \/ got[t].id \notin DOMAIN responses
       THEN guest' = [guest EXCEPT ![t] = "failed"] /\ UNCHANGED responses
       ELSE /\ responses' = Dropped(got[t].id)
            /\ guest' = [guest EXCEPT ![t] = Outcome(t)]

(* --- abort() and dispose() -------------------------------------------------------- *)

Abort ==
  /\ ~aborted /\ aborted' = TRUE
  /\ UNCHANGED <<guest, request, responses, nextRequestId, disposal, got>>
Dispose ==
  /\ disposal = "none" /\ disposal' = "settling" /\ aborted' = TRUE
  /\ UNCHANGED <<guest, request, responses, nextRequestId, got>>

Disposed ==
  /\ disposal = "settling" /\ Pending = {}
  /\ disposal' = "disposed" /\ responses' = << >>
  /\ UNCHANGED <<guest, request, nextRequestId, aborted, got>>

Guest(t) == Allocated(t) \/ Unusable(t) \/ ReadChunk(t) \/ End(t)
Network(t) == FetchResolves(t) \/ FetchFails(t) \/ ReadStream(t) \/ StreamEnds(t)
Next == \/ \E t \in Threads : Start(t) \/ StartMalformed(t) \/ Network(t) \/ Guest(t)
        \/ Abort \/ Dispose \/ Disposed

Spec == Init /\ [][Next]_httpVars
\* The guest goes on; the network may be silent until the abort, which both
\* rejects a fetch and ends a stream.
FairSpec ==
  /\ Spec /\ WF_httpVars(Disposed)
  /\ \A t \in Threads : WF_httpVars(Guest(t)) /\ WF_httpVars(aborted /\ Network(t))

(* --- properties --------------------------------------------------------------------- *)

TypeOK ==
  /\ guest \in [Threads -> {"idle", "waiting", "told", "ending", "dropping", "ok", "failed"} \cup Parts]
  /\ \A t \in Threads : request[t].at \in {"none", "fetching", "reading"}
  /\ \A i \in DOMAIN responses : i \in 1..Cardinality(Threads)
  /\ nextRequestId \in 1..(Cardinality(Threads) + 1)
  /\ aborted \in BOOLEAN /\ disposal \in {"none", "settling", "disposed"}
  /\ \A t \in Threads : got[t].id \in 0..Cardinality(Threads)

\* Every response kept belongs to a thread that will still end it: however a
\* request fails, it does not use up the bridge's capacity, until the abort.
EveryResponseIsEnded ==
  ~aborted => DOMAIN responses = {got[t].id : t \in {u \in Threads :
                                    guest[u] \in {"told", "ending", "dropping"} \cup Parts}}

\* A fetch that succeeds has read all of a response that was received in full,
\* each part in order, however the chunks are cut.
WholeResponses ==
  [][\A t \in Threads : /\ guest'[t] = "ok" => got[t].read = got[t].lens /\ got[t].lens.error = 0
                        /\ request[t].at = "reading" /\ guest'[t] = "told" =>
                             got'[t].lens.body \in {0, request[t].total}]_httpVars

\* Once dispose() has settled, the bridge holds nothing and nothing comes back.
NothingAfterDispose == disposal = "disposed" => responses = << >> /\ Pending = {}

\* No request outlives the abort: its thread is let go, and dispose() ends, even
\* if the network is silent.
AbortReleases == []<>(aborted => \A t \in Threads : guest[t] \in {"idle", "ok", "failed"})
=============================================================================
