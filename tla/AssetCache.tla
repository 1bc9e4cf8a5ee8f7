------------------------------ MODULE AssetCache ------------------------------
(* The tabs of the page load the archive of Rust's sources through one cache that *)
(* they share (sysroot_archive.ts, fetch_with_optional_cache.ts and its callers), *)
(* each under the URL of the build it was loaded from, while new builds are       *)
(* deployed; a load that succeeded prunes the cache of older builds               *)
(* (rust_src_cache.ts).                                                           *)
(*                                                                                *)
(* A response is "good" when it is ok and of an accepted type; the server has     *)
(* none for a build that is no longer deployed, or answers with a page.           *)
EXTENDS Naturals

CONSTANTS Tabs, Build,  \* Build[t]: the build epoch tab t was loaded with
          Timeout       \* of a load, in steps of the clock

Builds == 1..2
BuildAssumption == Build \in [Tabs -> Builds] /\ Timeout \in Nat

VARIABLES deployed,     \* the build the server has
          cache,        \* [Builds -> what "rubrc-assets-v1" has of the archive of a build]
          op,           \* where the operation of a load is; it outlives a load that failed
          left,         \* until its deadline
          stopped,      \* controller.signal is aborted
          result,       \* what the load's promise is
          body,         \* chunks of the response that are still to come
          source,       \* the response that is read: "good" or "bad"
          put,          \* the clone of a fetched response is on its way into the cache
          prune, listed, newest \* pruneRustSrcCacheVariants(): where it is and what it knows

loadVars == <<op, left, stopped, result, body, source>>
pruneVars == <<prune, listed, newest>>
assetVars == <<deployed, cache, loadVars, put, pruneVars>>

Running == {"matching", "deleting", "fetching", "checking", "reading"}

Init == /\ deployed = 1 /\ cache \in [Builds -> {"none", "good", "bad"}]
        /\ op = [t \in Tabs |-> "idle"] /\ left = [t \in Tabs |-> 0]
        /\ stopped = [t \in Tabs |-> FALSE] /\ result = [t \in Tabs |-> "none"]
        /\ body = [t \in Tabs |-> 0] /\ source = [t \in Tabs |-> "none"]
        /\ put = [t \in Tabs |-> FALSE] /\ prune = [t \in Tabs |-> "idle"]
        /\ listed = [t \in Tabs |-> {}] /\ newest = [t \in Tabs |-> 0]

Deploy == /\ deployed = 1 /\ deployed' = 2
          /\ UNCHANGED <<cache, loadVars, put, pruneVars>>

(* --- a load ---------------------------------------------------------------- *)

To(t, s) == op' = [op EXCEPT ![t] = s]

\* loadSysrootArchiveBytes(), by a tab whose build has been deployed.
Load(t) ==
  /\ op[t] = "idle" /\ result[t] = "none" /\ Build[t] <= deployed
  /\ To(t, "matching") /\ left' = [left EXCEPT ![t] = Timeout]
  /\ UNCHANGED <<deployed, cache, stopped, result, body, source, put, pruneVars>>

\* fetchWithOptionalCache(): a cached response is used when it is accepted; the cache may
\* not open or not answer, then it is left out of the load altogether.
Match(t) ==
  /\ op[t] = "matching"
  /\ \/ /\ cache[Build[t]] = "good" /\ To(t, "checking")
        /\ source' = [source EXCEPT ![t] = "good"]
     \/ cache[Build[t]] = "bad" /\ To(t, "deleting") /\ UNCHANGED source
     \/ To(t, "fetching") /\ UNCHANGED source
  /\ UNCHANGED <<deployed, cache, left, stopped, result, body, put, pruneVars>>

Delete(t) ==
  /\ op[t] = "deleting" /\ To(t, "fetching")
  /\ cache' \in {cache, [cache EXCEPT ![Build[t]] = "none"]}
  /\ UNCHANGED <<deployed, left, stopped, result, body, source, put, pruneVars>>

\* fetch() answers: what is accepted is put into the cache besides.
Fetched(t) ==
  /\ op[t] = "fetching" /\ ~stopped[t] /\ To(t, "checking")
  /\ \/ /\ Build[t] = deployed /\ source' = [source EXCEPT ![t] = "good"]
        /\ put' \in {put, [put EXCEPT ![t] = TRUE]}  \* without a cache there is no put
     \/ source' = [source EXCEPT ![t] = "bad"] /\ UNCHANGED put
  /\ UNCHANGED <<deployed, cache, left, stopped, result, body, pruneVars>>

\* The put ends: with the response in the cache, or without.
PutEnds(t) ==
  /\ put[t] /\ put' = [put EXCEPT ![t] = FALSE]
  /\ cache' \in {cache, [cache EXCEPT ![Build[t]] = "good"]}
  /\ UNCHANGED <<deployed, loadVars, pruneVars>>

\* The operation throws, and the promise of the load is rejected unless it is settled.
Throws(t) ==
  /\ To(t, "ended") /\ stopped' = [stopped EXCEPT ![t] = TRUE]
  /\ result' = [result EXCEPT ![t] = IF @ = "none" THEN "failed" ELSE @]

\* fetchBinaryStream() and fetchCompressedStream(): the response is accepted, or its body
\* is cancelled.
Accept(t) ==
  /\ op[t] = "checking"
  /\ IF source[t] = "good" THEN To(t, "reading") /\ UNCHANGED <<stopped, result>> ELSE Throws(t)
  /\ body' = [body EXCEPT ![t] = IF source[t] = "good" THEN 1 ELSE 0]
  /\ UNCHANGED <<deployed, cache, left, source, put, pruneVars>>

\* The network fails, or an abort ends the fetch or the read (cancelRead).
Break(t) ==
  /\ op[t] \in {"fetching", "reading"} /\ Throws(t) /\ body' = [body EXCEPT ![t] = 0]
  /\ UNCHANGED <<deployed, cache, left, source, put, pruneVars>>

Chunk(t) ==
  /\ op[t] = "reading" /\ ~stopped[t] /\ body[t] > 0 /\ body' = [body EXCEPT ![t] = @ - 1]
  /\ UNCHANGED <<deployed, cache, op, left, stopped, result, source, put, pruneVars>>

\* The end of the body: the deadline is looked at once more, then the load has the bytes;
\* the archive store that asked for them starts the pruning.
ReadDone(t) ==
  /\ op[t] = "reading" /\ ~stopped[t] /\ body[t] = 0
  /\ IF left[t] = 0 THEN Throws(t) /\ UNCHANGED prune
     ELSE /\ To(t, "ended") /\ result' = [result EXCEPT ![t] = "loaded"] /\ UNCHANGED stopped
          /\ prune' = [prune EXCEPT ![t] = "listing"]
  /\ UNCHANGED <<deployed, cache, left, body, source, put, listed, newest>>

\* The timer, and the signal of the store: the promise is rejected at once, the operation
\* ends when its fetch or its read does.
Stopped(t) == /\ stopped' = [stopped EXCEPT ![t] = TRUE]
              /\ result' = [result EXCEPT ![t] = "failed"]
Abort(t) ==
  /\ op[t] \in Running /\ result[t] = "none" /\ Stopped(t)
  /\ UNCHANGED <<deployed, cache, op, left, body, source, put, pruneVars>>
TimerFires(t) ==
  /\ op[t] \in Running /\ left[t] = 0 /\ result[t] = "none" /\ Stopped(t)
  /\ UNCHANGED <<deployed, cache, op, left, body, source, put, pruneVars>>

Tick == /\ \E t \in Tabs : left[t] > 0 /\ op[t] \in Running
        /\ left' = [t \in Tabs |-> IF left[t] > 0 /\ op[t] \in Running THEN left[t] - 1 ELSE left[t]]
        /\ UNCHANGED <<deployed, cache, op, stopped, result, body, source, put, pruneVars>>

(* --- pruneRustSrcCacheVariants --------------------------------------------- *)

\* cache.keys(), before the build that is deployed is asked for.
List(t) ==
  /\ prune[t] = "listing"
  /\ prune' = [prune EXCEPT ![t] = "asking"]
  /\ listed' = [listed EXCEPT ![t] = {b \in Builds : cache[b] # "none"}]
  /\ UNCHANGED <<deployed, cache, loadVars, put, newest>>

\* .rubrc-pages-build.json: no pruning by a tab whose build is no longer deployed.
Ask(t) ==
  /\ prune[t] = "asking" /\ newest' = [newest EXCEPT ![t] = deployed]
  /\ prune' = [prune EXCEPT ![t] = IF deployed = Build[t] THEN "deleting" ELSE "idle"]
  /\ UNCHANGED <<deployed, cache, loadVars, put, listed>>

\* The storage or the network fails: the pruning is given up.
PruneFails(t) == /\ prune[t] \in {"listing", "asking", "deleting"}
                 /\ prune' = [prune EXCEPT ![t] = "idle"]
                 /\ UNCHANGED <<deployed, cache, loadVars, put, listed, newest>>

\* A defect: whatever is not of this build.
OlderOrOther(t) == {b \in listed[t] : b # newest[t]}

\* What was listed of the builds before it is deleted.
Older(t) == {b \in listed[t] : b < newest[t]}
PruneOne(t, b) ==
  /\ prune[t] = "deleting" /\ b \in Older(t)
  /\ cache' = [cache EXCEPT ![b] = "none"] /\ listed' = [listed EXCEPT ![t] = @ \ {b}]
  /\ UNCHANGED <<deployed, loadVars, put, prune, newest>>
PruneDone(t) ==
  /\ prune[t] = "deleting" /\ Older(t) = {} /\ prune' = [prune EXCEPT ![t] = "idle"]
  /\ UNCHANGED <<deployed, cache, loadVars, put, listed, newest>>

Operation(t) == \/ Match(t) \/ Delete(t) \/ Accept(t) \/ ReadDone(t) \/ (stopped[t] /\ Break(t))
Next == \/ Deploy \/ Tick
        \/ \E t \in Tabs :
             \/ Load(t) \/ Operation(t) \/ Fetched(t) \/ PutEnds(t) \/ Break(t) \/ Chunk(t)
             \/ Abort(t) \/ TimerFires(t) \/ List(t) \/ Ask(t) \/ PruneFails(t) \/ PruneDone(t)
             \/ \E b \in Builds : PruneOne(t, b)

Spec == Init /\ [][Next]_assetVars
\* Time passes and timers fire; storage answers; a stopped fetch or read ends.  The
\* network owes nothing.
Fairness == /\ WF_assetVars(Tick)
            /\ \A t \in Tabs : WF_assetVars(Operation(t)) /\ WF_assetVars(TimerFires(t))
FairSpec == Spec /\ Fairness

(* --- properties ------------------------------------------------------------ *)

\* Every variable has its kind of value, and a load that succeeded has read good bytes to
\* their end, whatever was found in the cache.
TypeOK == /\ cache \in [Builds -> {"none", "good", "bad"}] /\ deployed \in Builds
          /\ op \in [Tabs -> Running \cup {"idle", "ended"}]
          /\ result \in [Tabs -> {"none", "loaded", "failed"}]
          /\ prune \in [Tabs -> {"idle", "listing", "asking", "deleting"}]
          /\ \A t \in Tabs : result[t] = "loaded" => source[t] = "good" /\ body[t] = 0

\* Whichever tabs prune, and whenever a build is deployed between the listing, the question
\* and the deletions: pruning only deletes archives of builds before the one that was
\* deployed when it asked, so never the one of the tab itself or of a newer tab.
PruneKeepsNewer ==
  [][\A b \in Builds : cache[b] # "none" /\ cache'[b] = "none"
       => b < deployed \/ \E t \in Tabs : Build[t] = b /\ op[t] = "deleting"]_assetVars

\* Every load ends within its time or before, and takes its fetch or its read with it, even
\* when the network is silent from some moment on.
LoadsEnd == \A t \in Tabs : []<>(op[t] = "idle" \/ (op[t] = "ended" /\ result[t] # "none"))
================================================================================
