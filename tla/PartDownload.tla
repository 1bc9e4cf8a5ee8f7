----------------------------- MODULE PartDownload -----------------------------
(* How the Utility Worker gets the VFS's module: prepareUtilityAnimal() of        *)
(* util_cmd.ts asks for a compiled module in IndexedDB and, without one, compiles *)
(* the stream of createParallelPartStream() (parallel_part_download.ts), which    *)
(* fetches every part of the file at once, each through a cache of its own, and   *)
(* gives their bytes out in order.                                                *)
(*                                                                                *)
(* A part is as many chunks as its declared size; a response may have another     *)
(* length than it says, fail on the way, or send nothing any more.                *)
EXTENDS Naturals, Sequences

CONSTANTS Size,        \* the declared sizes of the parts, in chunks
          MaxAttempts  \* bound on how often the page asks for the module

Parts == DOMAIN Size
SizeAssumption == Size \in Seq(Nat) /\ Size # << >> /\ \A p \in Parts : Size[p] > 0

VARIABLES main,      \* where prepareUtilityAnimal() is
          attempts, aborted, \* its signal
          stopped,   \* abortController of the stream
          failed,    \* firstError is set
          pump,      \* [Parts -> what pumpPart() waits for]
          fromCache, body, loaded, queue, ready, \* result, the response, the PartState
          put,       \* cacheWrite
          cache,     \* [Parts -> what PART_CACHE_NAME has of a part]
          undeleted, \* the parts a cache.delete() failed for
          current, waiting, emitted, \* the stream: state.waiter of the current part is set
          progress, outputFailed, \* progressOutput; "behind": there is more to tell by now
          module     \* IndexedDB has the compiled module

streamVars == <<stopped, failed, pump, fromCache, body, loaded, queue, ready, put,
                current, waiting, emitted>>
progressVars == <<progress, outputFailed>>
mainVars == <<main, attempts, aborted, module>>
partVars == <<mainVars, streamVars, progressVars, cache, undeleted>>

Last == Len(Size)
Zero == [p \in Parts |-> 0]
Sum(f) == LET S[n \in 0..Last] == IF n = 0 THEN 0 ELSE S[n - 1] + f[n] IN S[Last]
\* In the cache: nothing, the part, the head of it under the right length, another length.
Cached == {"none", "whole", "cut", "other"}
Ended == {"idle", "done", "failed"}

Init == /\ main = "idle" /\ attempts = 0 /\ aborted = FALSE /\ module = FALSE
        /\ cache \in [Parts -> Cached] /\ undeleted = {}
        /\ stopped = FALSE /\ failed = FALSE /\ pump = [p \in Parts |-> "ended"]
        /\ fromCache = [p \in Parts |-> FALSE] /\ body = Zero /\ loaded = Zero
        /\ queue = Zero /\ ready = [p \in Parts |-> FALSE] /\ put = [p \in Parts |-> "none"]
        /\ current = 1 /\ waiting = FALSE /\ emitted = Zero
        /\ progress = "idle" /\ outputFailed = FALSE

(* --- the stream's parts ---------------------------------------------------- *)

\* wake().
WakeWaiter(p) == waiting' = (waiting /\ current # p)
\* fail(): the first error stops every fetch and wakes the consumer.
Fail == failed' = TRUE /\ stopped' = TRUE /\ waiting' = FALSE

\* The catch of pumpPart(): fail(), and the part is taken out of the cache once its own
\* write has ended; before getResponse() has returned there is no cache to take it from.
Fails(p) == Fail /\ pump' = [pump EXCEPT ![p] = "failing"]

\* What no step of a part but Chunk changes.
Elsewhere == UNCHANGED <<mainVars, progressVars, current, emitted>>

\* getResponse(): what the cache has is used when its length is right ("cut" looks so).
FromCache(p) ==
  /\ pump[p] = "matching" /\ cache[p] \in {"whole", "cut"}
  /\ pump' = [pump EXCEPT ![p] = "reading"] /\ fromCache' = [fromCache EXCEPT ![p] = TRUE]
  /\ \E b \in IF cache[p] = "whole" THEN {Size[p]} ELSE 0..(Size[p] - 1) :
       body' = [body EXCEPT ![p] = b]
  /\ UNCHANGED <<stopped, failed, loaded, queue, ready, put, waiting, cache, undeleted>>
  /\ Elsewhere

NotCached(p) ==
  /\ pump[p] = "matching" /\ cache[p] \in {"none", "other"}
  /\ pump' = [pump EXCEPT ![p] = "fetching"]
  /\ \/ cache' = [cache EXCEPT ![p] = "none"] /\ UNCHANGED undeleted
     \/ cache[p] = "other" /\ undeleted' = undeleted \cup {p} /\ UNCHANGED cache
  /\ UNCHANGED <<stopped, failed, fromCache, body, loaded, queue, ready, put, waiting>>
  /\ Elsewhere

\* The server answers; its clone goes to the cache while the body is read.
Response(p, b) ==
  /\ pump[p] = "fetching" /\ ~stopped
  /\ pump' = [pump EXCEPT ![p] = "reading"] /\ body' = [body EXCEPT ![p] = b]
  /\ put' = [put EXCEPT ![p] = "pending"]
  /\ UNCHANGED <<stopped, failed, fromCache, loaded, queue, ready, waiting, cache, undeleted>>
  /\ Elsewhere

\* No response, one that is not ok, or one that is aborted: fetchPart() throws.
NoResponse(p) ==
  /\ pump[p] = "fetching" /\ Fail /\ pump' = [pump EXCEPT ![p] = "ended"]
  /\ UNCHANGED <<fromCache, body, loaded, queue, ready, put, cache, undeleted>> /\ Elsewhere

\* A Content-Length that is not the declared size.
WrongLength(p) ==
  /\ pump[p] = "fetching" /\ ~stopped /\ Fails(p)
  /\ UNCHANGED <<fromCache, body, loaded, queue, ready, put, cache, undeleted>> /\ Elsewhere

Chunk(p) ==
  /\ pump[p] = "reading" /\ ~stopped /\ body[p] > 0
  /\ body' = [body EXCEPT ![p] = @ - 1] /\ loaded' = [loaded EXCEPT ![p] = @ + 1]
  /\ IF loaded[p] + 1 > Size[p]
     THEN Fails(p) /\ UNCHANGED <<queue, progress>>
     ELSE /\ queue' = [queue EXCEPT ![p] = @ + 1] /\ WakeWaiter(p)
          /\ progress' = IF outputFailed THEN progress
                         ELSE IF progress = "idle" THEN "writing" ELSE "behind"
          /\ UNCHANGED <<stopped, failed, pump>>
  /\ UNCHANGED <<fromCache, ready, put, cache, undeleted, mainVars, outputFailed,
                 current, emitted>>

\* The body ends, breaks off, or is cancelled by cancelReader() when the stream is stopped.
BodyEnds(p) ==
  /\ pump[p] = "reading"
  /\ \/ /\ ~stopped /\ body[p] = 0 /\ loaded[p] = Size[p]
        /\ pump' = [pump EXCEPT ![p] = "writing"] /\ ready' = [ready EXCEPT ![p] = TRUE]
        /\ WakeWaiter(p) /\ UNCHANGED <<stopped, failed>>
     \/ /\ (stopped \/ (body[p] = 0 /\ loaded[p] # Size[p]))
        /\ Fails(p) /\ UNCHANGED ready
  /\ UNCHANGED <<fromCache, body, loaded, queue, put, cache, undeleted>> /\ Elsewhere

BodyBreaks(p) ==
  /\ pump[p] = "reading" /\ Fails(p)
  /\ UNCHANGED <<fromCache, body, loaded, queue, ready, put, cache, undeleted>> /\ Elsewhere

\* cache.put() settles: it has what the body had, or nothing when the body did not end.
PutSettles(p) ==
  /\ put[p] = "pending" /\ pump[p] \in {"writing", "failing", "ended"}
  /\ put' = [put EXCEPT ![p] = "settled"]
  /\ \/ UNCHANGED cache
     \/ body[p] = 0 /\ cache' = [cache EXCEPT ![p] = IF loaded[p] = Size[p] THEN "whole"
                                                   ELSE IF loaded[p] < Size[p] THEN "cut"
                                                                              ELSE "other"]
  /\ UNCHANGED <<stopped, failed, pump, fromCache, body, loaded, queue, ready, waiting, undeleted>>
  /\ Elsewhere

\* A defect: the part is deleted from the cache while it is still written there.
PumpEndsEarly(p) ==
  /\ pump[p] \in {"writing", "failing"}
  /\ pump' = [pump EXCEPT ![p] = "ended"]
  /\ \/ pump[p] = "writing" /\ UNCHANGED <<cache, undeleted>>
     \/ pump[p] = "failing" /\ cache' = [cache EXCEPT ![p] = "none"] /\ UNCHANGED undeleted
  /\ UNCHANGED <<stopped, failed, fromCache, body, loaded, queue, ready, put, waiting>>
  /\ Elsewhere

\* pumpPart() returns; after an error the part is deleted from the cache first.
PumpEnds(p) ==
  /\ pump[p] \in {"writing", "failing"} /\ put[p] # "pending"
  /\ pump' = [pump EXCEPT ![p] = "ended"]
  /\ \/ pump[p] = "writing" /\ UNCHANGED <<cache, undeleted>>
     \/ pump[p] = "failing" /\ cache' = [cache EXCEPT ![p] = "none"] /\ UNCHANGED undeleted
     \/ pump[p] = "failing" /\ undeleted' = undeleted \cup {p} /\ UNCHANGED cache
  /\ UNCHANGED <<stopped, failed, fromCache, body, loaded, queue, ready, put, waiting>>
  /\ Elsewhere

PumpStep(p) == \/ FromCache(p) \/ NotCached(p) \/ NoResponse(p) \/ WrongLength(p) \/ Chunk(p)
               \/ BodyEnds(p) \/ BodyBreaks(p) \/ PutSettles(p) \/ PumpEnds(p)
               \/ \E b \in 0..(Size[p] + 1) : Response(p, b)

(* --- prepareUtilityAnimal -------------------------------------------------- *)

Begin ==
  /\ main \in Ended /\ attempts < MaxAttempts /\ \A p \in Parts : pump[p] = "ended"
  /\ attempts' = attempts + 1 /\ main' = "manifest" /\ aborted' = FALSE
  /\ progress = "idle" /\ stopped' = FALSE /\ failed' = FALSE
  /\ UNCHANGED <<module, pump, fromCache, body, loaded, queue, ready, put, current, waiting, emitted,
                 progressVars, cache, undeleted>>

\* The manifest is not there or not valid, or its fetch is aborted.
ManifestFails == /\ main = "manifest" /\ main' = "failed"
                 /\ UNCHANGED <<attempts, aborted, module, streamVars, progressVars, cache, undeleted>>

\* getCachedWasm() and createParallelPartStream(): all parts are pumped at once, and a
\* signal that is aborted already stops them.
Open ==
  /\ main = "manifest"
  /\ IF module THEN main' = "done" /\ UNCHANGED <<streamVars, progressVars>>
     ELSE /\ main' = "streaming" /\ stopped' = aborted /\ failed' = aborted
          /\ pump' = [p \in Parts |-> "matching"] /\ fromCache' = [p \in Parts |-> FALSE]
          /\ body' = Zero /\ loaded' = Zero /\ queue' = Zero
          /\ ready' = [p \in Parts |-> FALSE] /\ put' = [p \in Parts |-> "none"]
          /\ current' = 1 /\ waiting' = FALSE /\ emitted' = Zero
          /\ progress' = "idle" /\ outputFailed' = FALSE
  /\ UNCHANGED <<attempts, aborted, module, cache, undeleted>>

\* pull().
Pull ==
  /\ main = "streaming" /\ ~waiting
  /\ \/ failed /\ main' = "failed" /\ UNCHANGED <<current, queue, emitted, waiting>>
     \/ ~failed /\ current > Last /\ main' = "flushing" /\ UNCHANGED <<current, queue, emitted, waiting>>
     \/ /\ ~failed /\ current <= Last /\ queue[current] > 0
        /\ queue' = [queue EXCEPT ![current] = @ - 1]
        /\ emitted' = [emitted EXCEPT ![current] = @ + 1] /\ UNCHANGED <<main, current, waiting>>
     \/ /\ ~failed /\ current <= Last /\ queue[current] = 0 /\ ready[current]
        /\ current' = current + 1 /\ UNCHANGED <<main, queue, emitted, waiting>>
     \/ /\ ~failed /\ current <= Last /\ queue[current] = 0 /\ ~ready[current]
        /\ waiting' = TRUE /\ UNCHANGED <<main, current, queue, emitted>>
  /\ UNCHANGED <<attempts, aborted, module, progressVars, stopped, failed, pump, fromCache, body,
                 loaded, ready, put, cache, undeleted>>

\* The stream is cancelled.
Cancelled == stopped' = TRUE /\ waiting' = FALSE

\* The decompressor, the check of the module's size or the compiler refuses the bytes.
Cancel ==
  /\ main \in {"streaming", "flushing"} /\ main' = "failed" /\ Cancelled
  /\ UNCHANGED <<attempts, aborted, module, progressVars, failed, pump, fromCache, body, loaded,
                 queue, ready, put, current, emitted, cache, undeleted>>

\* flushProgress(): one message at a time, for as long as there is something new to tell;
\* the first that fails ends it.
Progress ==
  /\ progress # "idle"
  /\ \/ progress' = (IF progress = "behind" THEN "writing" ELSE "idle") /\ UNCHANGED outputFailed
     \/ outputFailed' = TRUE /\ progress' = "idle"
  /\ UNCHANGED <<mainVars, streamVars, cache, undeleted>>

\* The flush of the counting stream waits for the progress, then the totals are compared
\* and the compiler gets the end of the module.
Flush ==
  /\ main = "flushing" /\ progress = "idle"
  /\ main' = IF outputFailed \/ Sum(loaded) # Sum(Size) THEN "failed" ELSE "compiled"
  /\ UNCHANGED <<attempts, aborted, module, streamVars, progressVars, cache, undeleted>>

\* await cacheReady; cacheWasm(), which may fail unnoticed.
Compiled ==
  /\ main = "compiled" /\ \A p \in Parts : pump[p] = "ended"
  /\ main' = "done" /\ module' \in {module, TRUE}
  /\ UNCHANGED <<attempts, aborted, streamVars, progressVars, cache, undeleted>>

\* The generation is aborted: onExternalAbort(), while the stream listens.
Abort ==
  /\ main \notin Ended /\ ~aborted /\ aborted' = TRUE
  /\ IF main = "streaming" THEN Fail ELSE UNCHANGED <<failed, stopped, waiting>>
  /\ UNCHANGED <<main, attempts, module, progressVars, pump, fromCache, body, loaded, queue, ready,
                 put, current, emitted, cache, undeleted>>

MainStep == Open \/ Pull \/ Flush \/ Compiled
Next == \/ Begin \/ ManifestFails \/ MainStep \/ Cancel \/ Progress \/ Abort
        \/ \E p \in Parts : PumpStep(p)

Spec == Init /\ [][Next]_partVars

\* What the browser owes: storage and the terminal answer, a stopped fetch or read ends,
\* and the worker runs.  The network owes nothing.
Fairness == /\ WF_partVars(MainStep) /\ WF_partVars(Progress)
            /\ \A p \in Parts :
                 /\ WF_partVars(FromCache(p) \/ NotCached(p)) /\ WF_partVars(stopped /\ NoResponse(p))
                 /\ WF_partVars(BodyEnds(p)) /\ WF_partVars(PutSettles(p)) /\ WF_partVars(PumpEnds(p))
FairSpec == Spec /\ Fairness

(* --- properties ------------------------------------------------------------ *)

\* Every variable has its kind of value; the stream never has more of a part than was read.
TypeOK == /\ main \in Ended \cup {"manifest", "streaming", "flushing", "compiled"}
          /\ cache \in [Parts -> Cached] /\ undeleted \subseteq Parts /\ current \in 1..(Last + 1)
          /\ pump \in [Parts -> {"matching", "fetching", "reading", "writing", "failing", "ended"}]
          /\ \A p \in Parts : emitted[p] + queue[p] <= loaded[p] /\ loaded[p] <= Size[p] + 1

\* However the parts arrive, the decompressor gets their bytes in the order of the file:
\* nothing of a part before the whole of every part before it, and a module is only made
\* of all of them (createParallelPartStream).
BytesInOrder ==
  /\ \A p, q \in Parts : p < q /\ emitted[q] > 0 => emitted[p] = Size[p]
  /\ main = "compiled" => emitted = Size

\* A part that turned out short or long is not in the cache when its pump has ended, though
\* its write to the cache ran at the same time: the next attempt fetches it again
\* (pumpPart's catch), unless the cache refused to delete it.
NoBadPartIsKept ==
  \A p \in Parts \ undeleted :
    pump[p] = "ended" /\ (fromCache[p] \/ put[p] # "none") => cache[p] \in {"none", "whole"}

\* An abort ends the preparation, wherever it is, and so does the first error of any part;
\* all the fetches and reads that were started end too, even when the network has fallen
\* silent.
AbortEnds == []<>(aborted \/ stopped => main \in Ended /\ \A p \in Parts : pump[p] = "ended")
================================================================================
