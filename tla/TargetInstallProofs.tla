------------------------- MODULE TargetInstallProofs -------------------------
(***************************************************************************)
(* Proofs about TargetInstall: its inductive invariant Inv, that Run and   *)
(* the extraction of a target exclude each other, and that page, registry, *)
(* threads and store agree about each load, for any targets, capacity,     *)
(* archive length and number of requests.                                  *)
(***************************************************************************)
EXTENDS TargetInstall, SequenceTheorems, TLAPS

-----------------------------------------------------------------------------
(* Types.                                                                   *)

\* What the record and set constructions of the actions are made of.
LEMMA Values ==
  /\ NoLoad \in Loaders /\ NoCall \in Calls /\ EMPTY \in Slots
  /\ Requests \subseteq Threads /\ 0 \in Threads /\ 0 \notin Requests
  /\ NoOne \notin Threads
BY InstallAssumption
   DEF NoLoad, Loaders, NoCall, Calls, EMPTY, Slots, Requests, Threads, NoOne

LEMMA SentIsCall ==
  ASSUME NEW op \in {"start", "state", "error", "cancel", "release"}, Send(op)
  PROVE  /\ rpc' \in Calls /\ rpc' # NoCall
         /\ rpc'.op = op /\ rpc'.at = "sent" /\ rpc'.value = 0
BY InstallAssumption DEF Send, Calls, NoCall

LEMMA ReplyIsCall ==
  ASSUME rpc \in Calls, NEW value \in -1..(MaxRequests + 3), Reply(value)
  PROVE  /\ rpc' \in Calls
         /\ rpc'.op = rpc.op /\ rpc'.at = "answered" /\ rpc'.value = value
BY DEF Reply, Calls

\* A call that is out belongs to a loader that waits for it, on a queue.
LEMMA CallIsOut ==
  ASSUME Inv, rpc.op # "none"
  PROVE  /\ loader.step = "calling" /\ queue # <<>> /\ Head(queue) \in Triples
         /\ rpc.op = "start" <=> loader.id = 0
         /\ rpc.op # "start" => loader.id \in Requests
         /\ rpc.at = "sent" => rpc.value = 0
<1>1. rpc # NoCall
  BY DEF NoCall
<1>2. loader.step = "calling"
  BY <1>1 DEF Inv, LoaderAsks
<1>3. queue # <<>>
  BY <1>2 DEF Inv, GateHeld
<1>4. loader.id \in Threads
  BY DEF Inv, TypeOK, Loaders
<1> QED BY <1>2, <1>3, <1>4 DEF Inv, LoaderAsks, TypeOK, Threads, Requests

\* The end of a load leaves what it began with.
LEMMA LoadEndsTyped ==
  ASSUME Inv, queue # <<>>, NEW ok \in BOOLEAN, LoadEnds(ok)
  PROVE  /\ queue' \in Seq(Triples) /\ completed' \subseteq Triples
         /\ operation' \in {"idle", "target"} /\ (operation' = "target" <=> queue' # <<>>)
         /\ loader' = NoLoad /\ rpc' = NoCall /\ phase' = phase /\ command' = command
<1>1. queue \in Seq(Triples) /\ Head(queue) \in Triples
  BY DEF Inv, TypeOK
<1>2. Tail(queue) \in Seq(Triples) /\ (Len(queue) = 1 <=> Tail(queue) = <<>>)
  <2>1. Tail(queue) \in Seq(Triples) /\ Len(Tail(queue)) = Len(queue) - 1
    BY <1>1, HeadTailProperties
  <2>2. Len(queue) \in Nat /\ (Tail(queue) = <<>> <=> Len(Tail(queue)) = 0)
    BY <1>1, <2>1, EmptySeq
  <2> QED BY <2>1, <2>2
<1>3. completed' \subseteq Triples
  BY <1>1 DEF LoadEnds, Inv, TypeOK
<1> QED BY <1>2, <1>3 DEF LoadEnds

\* A load ends well or badly with a request that is over, or without one.
LEMMA LoadEndings ==
  ASSUME Inv, PrefetchFails \/ StartRejected \/ Released
  PROVE  /\ queue # <<>> /\ Used = {}
         /\ UNCHANGED <<registryVars, shellVars, storeVars>>
         /\ \E ok \in BOOLEAN : LoadEnds(ok) /\ (ok => Head(queue) \in installed)
<1>1. CASE PrefetchFails
  <2>1. queue # <<>> /\ rpc = NoCall /\ loader.id = 0
    BY <1>1 DEF PrefetchFails, Inv, GateHeld, LoaderAsks
  <2>2. Used = {}
    BY <2>1 DEF Inv, RequestPolled, Polled, NoCall, Requests, Used
  <2> QED BY <1>1, <2>1, <2>2 DEF PrefetchFails
<1>2. CASE StartRejected
  <2>1. rpc.op = "start" /\ rpc.value = -1
    BY <1>2 DEF StartRejected, Answer
  <2>2. queue # <<>> /\ loader.id = 0
    BY <2>1, CallIsOut
  <2>3. Used = {}
    BY <2>1, <2>2 DEF Inv, RequestPolled, Polled, Requests, Used
  <2> QED BY <1>2, <2>2, <2>3 DEF StartRejected
<1>3. CASE Released
  <2>1. rpc.op = "release" /\ rpc.at = "answered" /\ rpc.value \in {0, 1}
    BY <1>3 DEF Released, Answer
  <2>2. queue # <<>> /\ loader.id \in Requests
    BY <2>1, CallIsOut
  <2>3. Used = {}
    BY <2>1 DEF Inv, RequestPolled
  <2> DEFINE ok == rpc.value = 1 /\ ~loader.expired /\ ~loader.failed
  <2>4. what[loader.id] = Head(queue)
    BY <2>2 DEF Inv, RequestPolled, Polled
  <2>5. ok => Head(queue) \in installed
    BY <2>1, <2>4 DEF Inv, RequestPolled
  <2>6. LoadEnds(ok) /\ ok \in BOOLEAN
    BY <1>3 DEF Released
  <2> QED BY <1>3, <2>2, <2>3, <2>5, <2>6 DEF Released
<1> QED BY <1>1, <1>2, <1>3

\* The answer to start takes the next id.
LEMMA StartHandled ==
  ASSUME Inv, HandleStart
  PROVE  /\ nextId \in Requests /\ nextId' = nextId + 1 /\ Head(queue) \in Triples
         /\ Used = {} /\ busy = {} /\ loader.step = "calling" /\ loader.id = 0
         /\ rpc'.op = "start" /\ rpc'.at = "answered" /\ rpc'.value = nextId
         /\ thread[nextId] = "none" /\ slot[nextId].state = "empty"
<1>1. rpc.op = "start" /\ rpc.at = "sent" /\ nextId \in Requests /\ Reply(nextId)
  BY DEF HandleStart, Calling
<1>2. /\ loader.step = "calling" /\ loader.id = 0 /\ rpc.value = 0 /\ Head(queue) \in Triples
  BY <1>1, CallIsOut
<1>3. Used = {} /\ busy = {}
  BY <1>1, <1>2 DEF Inv, RequestPolled, Polled, Requests, Used
<1>4. nextId \in -1..(MaxRequests + 3)
  BY <1>1, InstallAssumption DEF Requests
<1>5. rpc \in Calls
  BY DEF Inv, TypeOK
<1>6. nextId >= nextId
  BY <1>1 DEF Requests
<1> QED BY <1>1, <1>2, <1>3, <1>4, <1>5, <1>6, ReplyIsCall DEF HandleStart, Inv, ThreadsServe

\* Of the request that the loader has let go of there is nothing left.
LEMMA ReleaseHandled ==
  ASSUME Inv, HandleRelease
  PROVE  /\ loader.id \in Requests /\ loader.step = "calling"
         /\ slot' = [slot EXCEPT ![loader.id] = EMPTY] /\ busy' = busy \ {loader.id}
         /\ slot[loader.id].state \in {"ready", "failed"}
         /\ rpc'.op = "release" /\ rpc'.at = "answered" /\ rpc'.value = 1 /\ rpc' \in Calls
         /\ UNCHANGED <<phase, gateVars, loader, nextId, shellVars, storeVars>>
<1>1. rpc.op = "release" /\ rpc.at = "sent"
  BY DEF HandleRelease, Calling
<1>2. loader.id \in Requests /\ loader.step = "calling"
  BY <1>1, CallIsOut
<1>3. slot[loader.id].state \in {"ready", "failed"}
  BY <1>1 DEF Inv, RequestPolled
<1>4. rpc \in Calls /\ 1 \in -1..(MaxRequests + 3)
  BY InstallAssumption DEF Inv, TypeOK
<1> QED BY <1>1, <1>2, <1>3, <1>4, ReplyIsCall DEF HandleRelease

\* What cancel, begin and finish make of a request.
LEMMA SlotChanges ==
  ASSUME Inv, NEW r \in Requests
  PROVE  /\ Cancelled(slot[r]) \in Slots /\ Finished(r) \in Slots
         /\ Cancelled(slot[r]).state = slot[r].state \/ Cancelled(slot[r]).state = "failed"
         /\ slot[r].state # "pending" => Cancelled(slot[r]).state = slot[r].state
         /\ slot[r].state = "pending" => Cancelled(slot[r]).state = "failed"
         /\ slot[r].state # "loading" => Finished(r) = slot[r]
         /\ slot[r].state = "loading" => Finished(r).state \in {"ready", "failed"}
         /\ Finished(r).state = "ready" => slot[r].state = "ready" \/ thread[r] = "loaded"
<1>1. slot[r] \in Slots
  BY DEF Inv, TypeOK
<1>2. /\ Cancelled(slot[r]) \in Slots
      /\ slot[r].state # "pending" => Cancelled(slot[r]).state = slot[r].state
      /\ slot[r].state = "pending" => Cancelled(slot[r]).state = "failed"
  BY <1>1 DEF Slots, Cancelled
<1>3. /\ Finished(r) \in Slots
      /\ slot[r].state # "loading" => Finished(r) = slot[r]
      /\ slot[r].state = "loading" => Finished(r).state \in {"ready", "failed"}
      /\ Finished(r).state = "ready" => slot[r].state = "ready" \/ thread[r] = "loaded"
  <2>1. CASE slot[r].state # "loading"
    <3>1. thread[r] # "loaded"
      BY <2>1 DEF Inv, ThreadsServe, Extracting
    <3>2. Finished(r) = slot[r]
      BY <2>1, <3>1 DEF Finished
    <3> QED BY <1>1, <2>1, <3>2
  <2>2. CASE slot[r].state = "loading" /\ thread[r] = "loaded" /\ ~slot[r].cancelled
    <3>1. Finished(r) = [slot[r] EXCEPT !.state = "ready"]
      BY <2>2 DEF Finished
    <3> QED BY <1>1, <2>2, <3>1 DEF Slots
  <2>3. CASE slot[r].state = "loading" /\ ~(thread[r] = "loaded" /\ ~slot[r].cancelled)
    <3>1. Finished(r) = [slot[r] EXCEPT !.state = "failed"]
      BY <2>3 DEF Finished
    <3> QED BY <1>1, <2>3, <3>1 DEF Slots
  <2> QED BY <2>1, <2>2, <2>3
<1> QED BY <1>2, <1>3

-----------------------------------------------------------------------------
(* The invariant is inductive.                                              *)

LEMMA InitInv == Init => Inv
<1> SUFFICES ASSUME Init PROVE Inv
  OBVIOUS
<1> USE DEF Init
<1>1. TypeOK
  <2>1. /\ 0 \in 0..Chunks /\ 1 \in 1..(MaxRequests + 1)
    BY InstallAssumption
  <2>2. <<>> \in Seq(Triples)
    OBVIOUS
  <2> QED BY <2>1, <2>2, Values DEF TypeOK, ThreadSteps
<1>2. Used = {}
  BY DEF Used, EMPTY
<1>3. GateHeld
  BY DEF GateHeld, NoLoad
<1>4. LoaderAsks
  BY DEF LoaderAsks, NoLoad, NoCall
<1>5. RequestPolled
  BY <1>2, Values DEF RequestPolled, Polled, NoLoad, NoCall, Requests
<1>6. ThreadsServe
  BY Values DEF ThreadsServe, Extracting, EMPTY
<1>7. CompletedInstalled /\ ReadsOwnArchive
  BY DEF CompletedInstalled, ReadsOwnArchive
<1> QED BY <1>1, <1>3, <1>4, <1>5, <1>6, <1>7 DEF Inv

\* Every step keeps the types.
LEMMA TypeStep ==
  ASSUME Inv, [Next]_vars
  PROVE  TypeOK'
<1> USE DEF TypeOK
<1>0. TypeOK
  BY DEF Inv
<1> USE <1>0
<1>1. CASE Run
  BY <1>1 DEF Run, gateVars, registryVars, shellVars, storeVars
<1>2. CASE RunFlushed
  BY <1>2 DEF RunFlushed, gateVars, registryVars, shellVars, storeVars
<1>3. CASE RunSettles
  BY <1>3 DEF RunSettles, gateVars, registryVars, shellVars, storeVars
<1>4. CASE Dispose
  BY <1>4 DEF Dispose, gateVars, registryVars, shellVars, storeVars
<1>5. CASE TransportTimeout
  BY <1>5 DEF TransportTimeout, Fatal, gateVars, registryVars, shellVars, storeVars
<1>6. ASSUME NEW t \in Triples, LoadTarget(t)
      PROVE  TypeOK'
  BY <1>6 DEF LoadTarget, gateVars, registryVars, shellVars, storeVars
<1>7. ASSUME NEW t \in Triples, TerminalLoad(t)
      PROVE  TypeOK'
  BY <1>7, Values DEF TerminalLoad, ThreadSteps, gateVars, registryVars, shellVars,
     storeVars
<1>8. CASE LoadStarts
  BY <1>8 DEF LoadStarts, Loaders, gateVars, registryVars, shellVars, storeVars
<1>9. CASE Prefetched
  <2>1. Head(queue) \in Triples
    BY <1>9 DEF Prefetched, Inv, GateHeld
  <2> QED BY <1>9, <2>1, SentIsCall DEF Prefetched, Loaders, gateVars, registryVars,
             shellVars, storeVars
<1>10. CASE PrefetchFails \/ StartRejected \/ Released
  <2>1. PICK ok \in BOOLEAN : LoadEnds(ok)
    BY <1>10, LoadEndings
  <2>2. queue # <<>> /\ UNCHANGED <<registryVars, shellVars, storeVars>>
    BY <1>10, LoadEndings
  <2> QED BY <2>1, <2>2, LoadEndsTyped, Values DEF registryVars, shellVars, storeVars
<1>11. CASE Started
  BY <1>11, SentIsCall, Values DEF Started, Answer, Loaders, gateVars, registryVars,
     shellVars, storeVars
<1>12. CASE StillLoading
  BY <1>12, Values DEF StillLoading, Loaders, gateVars, registryVars, shellVars, storeVars
<1>13. CASE Wake
  BY <1>13, SentIsCall DEF Wake, Answer, Loaders, gateVars, registryVars, shellVars,
     storeVars
<1>14. CASE CancelAnswered
  BY <1>14, SentIsCall DEF CancelAnswered, Answer, Loaders, gateVars, registryVars,
     shellVars, storeVars
<1>15. CASE TerminalState
  BY <1>15, SentIsCall DEF TerminalState, Answer, Loaders, gateVars, registryVars,
     shellVars, storeVars
<1>16. CASE ErrorAnswered
  BY <1>16, SentIsCall DEF ErrorAnswered, Answer, Loaders, gateVars, registryVars,
     shellVars, storeVars
<1>17. CASE CallRejected
  BY <1>17 DEF CallRejected, Fatal, gateVars, registryVars, shellVars, storeVars
<1>18. CASE HandleStart
  <2>1. /\ nextId \in Requests /\ Head(queue) \in Triples
    BY <1>18, StartHandled
  <2>2. rpc' \in Calls
    BY <1>18, <2>1, ReplyIsCall, InstallAssumption DEF HandleStart, Requests
  <2>3. [state |-> "pending", cancelled |-> FALSE] \in Slots
    BY DEF Slots
  <2>4. nextId' \in 1..(MaxRequests + 1) /\ nextId \in Threads
    BY <1>18, <2>1, Values, InstallAssumption DEF HandleStart, Requests
  <2> QED BY <1>18, <2>1, <2>2, <2>3, <2>4 DEF HandleStart, ThreadSteps, gateVars,
             registryVars, shellVars, storeVars
<1>19. CASE HandleStartRejected
  <2>1. rpc' \in Calls
    BY <1>19, ReplyIsCall, InstallAssumption DEF HandleStartRejected
  <2>2. nextId' \in 1..(MaxRequests + 1)
    BY <1>19, InstallAssumption DEF HandleStartRejected, Requests
  <2> QED BY <1>19, <2>1, <2>2 DEF HandleStartRejected, gateVars, registryVars, shellVars,
             storeVars
<1>20. CASE HandleState
  <2>1. StateCode(loader.id) \in -1..(MaxRequests + 3)
    BY InstallAssumption DEF StateCode
  <2>2. rpc' \in Calls
    BY <1>20, <2>1, ReplyIsCall DEF HandleState
  <2> QED BY <1>20, <2>2 DEF HandleState, gateVars, registryVars, shellVars, storeVars
<1>21. CASE HandleError
  <2>1. rpc' \in Calls
    BY <1>21, ReplyIsCall, InstallAssumption DEF HandleError
  <2> QED BY <1>21, <2>1 DEF HandleError, gateVars, registryVars, shellVars, storeVars
<1>22. CASE HandleCancel
  <2>1. rpc' \in Calls
    BY <1>22, ReplyIsCall, InstallAssumption DEF HandleCancel
  <2>2. loader.id \in Requests
    BY <1>22, CallIsOut DEF HandleCancel, Calling
  <2>3. Cancelled(slot[loader.id]) \in Slots
    BY <2>2, SlotChanges
  <2> QED BY <1>22, <2>1, <2>2, <2>3 DEF HandleCancel, gateVars, registryVars, shellVars,
             storeVars
<1>23. CASE HandleRelease
  <2>1. slot' \in [Requests -> Slots] /\ busy' \subseteq Requests /\ rpc' \in Calls
    <3>1. EMPTY \in Slots
      BY Values
    <3>2. /\ slot' = [slot EXCEPT ![loader.id] = EMPTY] /\ busy' = busy \ {loader.id}
          /\ rpc' \in Calls
      BY <1>23, ReleaseHandled
    <3> QED BY <3>1, <3>2
  <2>2. UNCHANGED <<phase, gateVars, loader, nextId, shellVars, storeVars>>
    BY <1>23, ReleaseHandled
  <2> QED BY <2>1, <2>2 DEF gateVars, registryVars, shellVars, storeVars
<1>24. CASE HandleTraps
  <2>1. rpc' \in Calls
    BY <1>24, ReplyIsCall, InstallAssumption DEF HandleTraps
  <2> QED BY <1>24, <2>1 DEF HandleTraps, gateVars, registryVars, shellVars, storeVars
<1>25. ASSUME NEW r \in Requests, ShellBegins(r)
      PROVE  TypeOK'
  <2>1. [slot[r] EXCEPT !.state = "loading"] \in Slots
    BY <1>25 DEF Slots
  <2>2. slot' \in [Requests -> Slots]
    BY <1>25, <2>1 DEF ShellBegins
  <2>3. thread' \in [Threads -> ThreadSteps]
    BY <1>25, Values DEF ShellBegins, ThreadSteps
  <2> QED BY <1>25, <2>2, <2>3 DEF ShellBegins, gateVars, registryVars, shellVars, storeVars
<1>26. ASSUME NEW r \in Threads, ShellLocks(r)
      PROVE  TypeOK'
  BY <1>26 DEF ShellLocks, ThreadSteps, gateVars, registryVars, shellVars, storeVars
<1>27. ASSUME NEW r \in Threads, ShellFetches(r)
      PROVE  TypeOK'
  <2>1. what[r] \in Triples /\ Chunks \in 0..Chunks
    BY <1>27, InstallAssumption DEF ShellFetches
  <2> QED BY <1>27, <2>1 DEF ShellFetches, ThreadSteps, gateVars, registryVars, shellVars,
             storeVars
<1>28. ASSUME NEW r \in Threads, ShellReads(r)
      PROVE  TypeOK'
  <2>1. what[r] \in Triples /\ left[r] \in 1..Chunks
    BY <1>28 DEF ShellReads, Inv, ThreadsServe
  <2>2. stream.left \in 1..Chunks /\ stream.left - 1 \in 0..Chunks /\ 0 \in 0..Chunks
    BY <1>28, InstallAssumption DEF ShellReads
  <2>3. stream' \in [triple : Triples \cup {NoTriple}, left : 0..Chunks]
    <3>1. CASE stream' = [triple |-> NoTriple, left |-> 0]
      BY <2>2, <3>1
    <3>2. CASE stream' = [stream EXCEPT !.left = stream.left - 1]
      BY <2>2, <3>2
    <3> QED BY <1>28, <3>1, <3>2 DEF ShellReads
  <2>4. /\ left' \in [Threads -> 0..Chunks] /\ installed' \subseteq Triples
        /\ thread' \in [Threads -> ThreadSteps] /\ lock' \in Threads \cup {NoOne}
    <3>1. CASE /\ thread' = [thread EXCEPT ![r] = "loaded"] /\ left' = [left EXCEPT ![r] = 0]
               /\ lock' = NoOne /\ installed' = installed \cup {what[r]}
      BY <2>1, <2>2, <3>1 DEF ThreadSteps
    <3>2. CASE left' = [left EXCEPT ![r] = left[r] - 1] /\ UNCHANGED <<thread, lock, installed>>
      <4>1. left[r] - 1 \in 0..Chunks
        BY <2>1, InstallAssumption
      <4> QED BY <3>2, <4>1
    <3> QED BY <1>28, <3>1, <3>2 DEF ShellReads
  <2> QED BY <1>28, <2>3, <2>4 DEF ShellReads, gateVars, registryVars, shellVars, storeVars
<1>29. ASSUME NEW r \in Threads, ShellStops(r)
      PROVE  TypeOK'
  BY <1>29, InstallAssumption DEF ShellStops, ThreadSteps, gateVars, registryVars,
     shellVars, storeVars
<1>30. ASSUME NEW r \in Threads, ShellFinishes(r)
      PROVE  TypeOK'
  <2>1. r \in Requests => Finished(r) \in Slots
    BY SlotChanges
  <2> QED BY <1>30, <2>1 DEF ShellFinishes, ThreadSteps, gateVars, registryVars, shellVars,
             storeVars
<1>31. CASE UNCHANGED vars
  BY <1>31 DEF vars, gateVars, registryVars, shellVars, storeVars
<1> QED BY <1>1, <1>2, <1>3, <1>4, <1>5, <1>6, <1>7, <1>8, <1>9, <1>10, <1>11, <1>12, <1>13,
           <1>14, <1>15, <1>16, <1>17, <1>18, <1>19, <1>20, <1>21, <1>22, <1>23, <1>24,
           <1>25, <1>26, <1>27, <1>28, <1>29, <1>30, <1>31 DEF Next, Loader, Endpoint, Shell

\* What the endpoint and the shell's threads leave to the page.
LEMMA Frames ==
  /\ Endpoint => UNCHANGED <<phase, gateVars, loader, left, lock, installed, storeVars>>
  /\ (\E r \in Requests : ShellBegins(r)) \/ (\E r \in Threads : Shell(r)) =>
       UNCHANGED <<phase, gateVars, loader, rpc, nextId, busy, what, archives>>
  /\ Loader => UNCHANGED <<registryVars, shellVars, stream>>
  /\ Run \/ RunFlushed \/ RunSettles \/ Dispose \/ TransportTimeout \/ CallRejected =>
       UNCHANGED <<queue, completed, loader, rpc, registryVars, shellVars, storeVars>>
  /\ \A t : LoadTarget(t) =>
       UNCHANGED <<completed, loader, rpc, registryVars, shellVars, storeVars>>
<1>1. Endpoint => UNCHANGED <<phase, gateVars, loader, left, lock, installed, storeVars>>
  BY DEF Endpoint, HandleStart, HandleStartRejected, HandleState, HandleError, HandleCancel,
         HandleRelease, HandleTraps, gateVars, registryVars, shellVars, storeVars
<1>2. ASSUME NEW r \in Threads, ShellBegins(r) \/ Shell(r)
      PROVE  UNCHANGED <<phase, gateVars, loader, rpc, nextId, busy, what, archives>>
  BY <1>2 DEF Shell, ShellBegins, ShellLocks, ShellFetches, ShellReads, ShellStops,
              ShellFinishes, gateVars, registryVars, storeVars
<1>3. Loader => UNCHANGED <<registryVars, shellVars, stream>>
  BY DEF Loader, LoadStarts, Prefetched, PrefetchFails, Started, StartRejected, StillLoading,
         Wake, CancelAnswered, TerminalState, ErrorAnswered, Released, CallRejected, Fatal,
         storeVars
<1>4. Run \/ RunFlushed \/ RunSettles \/ Dispose \/ TransportTimeout \/ CallRejected =>
        UNCHANGED <<queue, completed, loader, rpc, registryVars, shellVars, storeVars>>
  BY DEF Run, RunFlushed, RunSettles, Dispose, TransportTimeout, CallRejected, Fatal, gateVars
<1>5. \A t : LoadTarget(t) =>
        UNCHANGED <<completed, loader, rpc, registryVars, shellVars, storeVars>>
  BY DEF LoadTarget
<1> QED BY <1>1, <1>2, <1>3, <1>4, <1>5, Values

\* A Run is admitted to an idle gate, and a load ends where it began.
LEMMA GateStep ==
  ASSUME Inv, [Next]_vars
  PROVE  GateHeld'
<1> USE DEF GateHeld
<1>0. GateHeld /\ operation \in {"idle", "run", "target"}
  BY DEF Inv, TypeOK
<1> USE <1>0
<1>1. CASE Run
  BY <1>1 DEF Run, gateVars, registryVars, shellVars, storeVars
<1>2. CASE RunFlushed
  BY <1>2 DEF RunFlushed, gateVars, registryVars, shellVars, storeVars
<1>3. CASE RunSettles
  BY <1>3 DEF RunSettles, gateVars, registryVars, shellVars, storeVars
<1>4. CASE Dispose
  BY <1>4 DEF Dispose, gateVars, registryVars, shellVars, storeVars
<1>5. CASE TransportTimeout
  BY <1>5 DEF TransportTimeout, Fatal, gateVars, registryVars, shellVars, storeVars
<1>6. ASSUME NEW t \in Triples, LoadTarget(t)
      PROVE  GateHeld'
  <2>1. queue' # <<>>
    <3>1. queue \in Seq(Triples) /\ queue' = Append(queue, t)
      BY <1>6 DEF LoadTarget, Inv, TypeOK
    <3> QED BY <3>1, AppendProperties
  <2>2. /\ phase = "ready" /\ phase' = "ready" /\ command' = command
        /\ operation # "run" /\ operation' = "target"
    BY <1>6 DEF LoadTarget
  <2> QED BY <2>1, <2>2
<1>7. ASSUME NEW t \in Triples, TerminalLoad(t)
      PROVE  GateHeld'
  BY <1>7 DEF TerminalLoad, gateVars, registryVars, shellVars, storeVars
<1>8. CASE LoadStarts
  BY <1>8 DEF LoadStarts, Answer, Loaders, gateVars, registryVars, shellVars, storeVars
<1>9. CASE Prefetched
  <2>1. queue # <<>> /\ UNCHANGED <<phase, gateVars>>
    BY <1>9, CallIsOut DEF Prefetched, Answer, Inv, GateHeld
  <2> QED BY <2>1 DEF gateVars
<1>10. CASE PrefetchFails \/ StartRejected \/ Released
  <2>1. PICK ok \in BOOLEAN : LoadEnds(ok)
    BY <1>10, LoadEndings
  <2>2. queue # <<>>
    BY <1>10, LoadEndings
  <2>3. phase = "ready" /\ operation = "target" /\ command = "none"
    BY <1>10, <2>2 DEF PrefetchFails, StartRejected, Released, Answer, Inv, GateHeld, TypeOK
  <2> QED BY <2>1, <2>2, <2>3, LoadEndsTyped DEF NoLoad
<1>11. CASE Started
  <2>1. loader'.step = loader.step /\ UNCHANGED <<phase, gateVars>>
    BY <1>11 DEF Started, Inv, TypeOK, Loaders
  <2> QED BY <2>1 DEF gateVars
<1>12. CASE StillLoading
  <2>1. queue # <<>> /\ UNCHANGED <<phase, gateVars>>
    BY <1>12, CallIsOut DEF StillLoading, Answer, Inv, GateHeld
  <2> QED BY <2>1 DEF gateVars
<1>13. CASE Wake
  <2>1. queue # <<>> /\ UNCHANGED <<phase, gateVars>>
    BY <1>13, CallIsOut DEF Wake, Answer, Inv, GateHeld
  <2> QED BY <2>1 DEF gateVars
<1>14. CASE CancelAnswered
  <2>1. loader'.step = loader.step /\ UNCHANGED <<phase, gateVars>>
    BY <1>14 DEF CancelAnswered, Inv, TypeOK, Loaders
  <2> QED BY <2>1 DEF gateVars
<1>15. CASE TerminalState
  BY <1>15 DEF TerminalState, gateVars, registryVars, shellVars, storeVars
<1>16. CASE ErrorAnswered
  <2>1. loader'.step = loader.step /\ UNCHANGED <<phase, gateVars>>
    BY <1>16 DEF ErrorAnswered, Inv, TypeOK, Loaders
  <2> QED BY <2>1 DEF gateVars
<1>17. CASE CallRejected
  BY <1>17 DEF CallRejected, Fatal, gateVars, registryVars, shellVars, storeVars
<1>18. CASE UNCHANGED vars
  BY <1>18 DEF vars, gateVars, registryVars, shellVars, storeVars
<1>19. CASE Endpoint
  BY <1>19, Frames DEF gateVars, registryVars, shellVars, storeVars
<1>20. CASE (\E r \in Requests : ShellBegins(r)) \/ (\E r \in Threads : Shell(r))
  BY <1>20, Frames DEF gateVars, registryVars, shellVars, storeVars
<1> QED BY <1>1, <1>2, <1>3, <1>4, <1>5, <1>6, <1>7, <1>8, <1>9, <1>10, <1>11, <1>12, <1>13,
           <1>14, <1>15, <1>16, <1>17, <1>18, <1>19, <1>20 DEF Next, Loader, Endpoint, Shell

\* The endpoint answers the call that is out, and only answers it.
LEMMA EndpointReplies ==
  ASSUME Inv, Endpoint
  PROVE  /\ loader' = loader /\ rpc.op # "none" /\ rpc.at = "sent"
         /\ rpc'.op = rpc.op /\ rpc'.at = "answered"
<1>1. loader' = loader /\ rpc.op # "none" /\ rpc.at = "sent" /\ \E v : Reply(v)
  BY DEF Endpoint, HandleStart, HandleStartRejected, HandleState, HandleError, HandleCancel,
         HandleRelease, HandleTraps, Calling
<1>2. rpc \in Calls
  BY DEF Inv, TypeOK
<1> QED BY <1>1, <1>2 DEF Reply, Calls

\* The loader has one call out at a time, and knows for which request.
LEMMA AsksStep ==
  ASSUME Inv, [Next]_vars
  PROVE  LoaderAsks'
<1> USE DEF LoaderAsks
<1>0. LoaderAsks
  BY DEF Inv
<1> USE <1>0
<1>1. ASSUME NEW t \in Triples, LoadTarget(t)
      PROVE  LoaderAsks'
  BY <1>1 DEF LoadTarget
<1>2. ASSUME NEW t \in Triples, TerminalLoad(t)
      PROVE  LoaderAsks'
  BY <1>2 DEF TerminalLoad
<1>3. CASE LoadStarts
  <2>1. loader = NoLoad /\ loader' = [NoLoad EXCEPT !.step = "prefetch"] /\ rpc' = rpc
    BY <1>3 DEF LoadStarts
  <2>2. rpc' = NoCall
    BY <2>1, <1>3 DEF LoadStarts
  <2> QED BY <2>1, <2>2 DEF NoLoad
<1>4. CASE Prefetched
  <2>1. loader' = [loader EXCEPT !.step = "calling"] /\ loader.id = 0 /\ Send("start")
    BY <1>4 DEF Prefetched
  <2>2. loader'.step = "calling" /\ loader'.id = 0
    BY <2>1 DEF Inv, TypeOK, Loaders
  <2> QED BY <2>1, <2>2, SentIsCall
<1>5. CASE PrefetchFails \/ StartRejected \/ Released
  <2>1. loader' = NoLoad /\ rpc' = NoCall
    BY <1>5, LoadEndings, LoadEndsTyped
  <2> QED BY <2>1 DEF NoLoad
<1>6. CASE Started
  <2>1. /\ rpc.op = "start" /\ rpc.value \in Requests /\ Send("state")
        /\ loader' = [loader EXCEPT !.id = rpc.value]
    BY <1>6 DEF Started, Answer
  <2>2. loader.step = "calling" /\ loader \in Loaders
    BY <2>1, CallIsOut DEF Inv, TypeOK
  <2>3. loader'.step = "calling" /\ loader'.id = rpc.value
    BY <2>1, <2>2 DEF Loaders
  <2>4. rpc.value # 0
    BY <2>1, Values
  <2> QED BY <2>1, <2>3, <2>4, SentIsCall
<1>7. CASE StillLoading
  <2>1. PICK e \in {loader.expired, TRUE} :
          rpc.op = "state" /\ loader' = [loader EXCEPT !.step = "pause", !.expired = e]
    BY <1>7 DEF StillLoading, Answer
  <2>2. loader.id \in Requests /\ loader \in Loaders
    BY <2>1, CallIsOut DEF Inv, TypeOK
  <2>3. loader'.step = "pause" /\ loader'.id = loader.id /\ rpc' = NoCall
    BY <2>1, <2>2, <1>7 DEF Loaders, StillLoading
  <2> QED BY <2>2, <2>3
<1>8. CASE Wake
  <2>1. loader' = [loader EXCEPT !.step = "calling"] /\ loader.id \in Requests
    BY <1>8 DEF Wake
  <2>2. loader'.step = "calling" /\ loader'.id = loader.id /\ loader'.id # 0
    BY <2>1, Values DEF Inv, TypeOK, Loaders
  <2>3. rpc'.op \in {"cancel", "state"} /\ rpc'.at = "sent" /\ rpc'.value = 0
    BY <1>8, SentIsCall DEF Wake
  <2> QED BY <2>2, <2>3
<1>9. CASE CancelAnswered
  <2>1. rpc.op = "cancel" /\ Send("state")
    BY <1>9 DEF CancelAnswered, Answer
  <2>2. loader.step = "calling" /\ loader.id \in Requests /\ loader \in Loaders
    BY <2>1, CallIsOut DEF Inv, TypeOK
  <2>3. loader'.step = "calling" /\ loader'.id = loader.id
    BY <2>2, <1>9 DEF CancelAnswered, Loaders
  <2> QED BY <2>1, <2>2, <2>3, Values, SentIsCall
<1>10. CASE TerminalState
  <2>1. loader.step = "calling" /\ loader.id \in Requests /\ loader' = loader
    BY <1>10, CallIsOut DEF TerminalState, Answer
  <2>2. rpc'.op \in {"error", "release"} /\ rpc'.at = "sent" /\ rpc'.value = 0
    BY <1>10, SentIsCall DEF TerminalState
  <2> QED BY <2>1, <2>2, Values
<1>11. CASE ErrorAnswered
  <2>1. rpc.op = "error" /\ Send("release")
    BY <1>11 DEF ErrorAnswered, Answer
  <2>2. loader.step = "calling" /\ loader.id \in Requests /\ loader \in Loaders
    BY <2>1, CallIsOut DEF Inv, TypeOK
  <2>3. loader'.step = "calling" /\ loader'.id = loader.id
    BY <2>2, <1>11 DEF ErrorAnswered, Loaders
  <2> QED BY <2>1, <2>2, <2>3, Values, SentIsCall
<1>12. CASE UNCHANGED vars
  BY <1>12 DEF vars
<1>13. CASE Run \/ RunFlushed \/ RunSettles \/ Dispose \/ TransportTimeout \/ CallRejected
  BY <1>13, Frames
<1>14. CASE Endpoint
  <2>1. loader' = loader /\ rpc.op # "none" /\ rpc'.op = rpc.op /\ rpc'.at = "answered"
    BY <1>14, EndpointReplies
  <2>2. loader.step = "calling"
    BY <2>1, CallIsOut
  <2> QED BY <2>1, <2>2
<1>15. CASE (\E r \in Requests : ShellBegins(r)) \/ (\E r \in Threads : Shell(r))
  BY <1>15, Frames
<1> QED BY <1>1, <1>2, <1>3, <1>4, <1>5, <1>6, <1>7, <1>8, <1>9, <1>10, <1>11, <1>12, <1>13,
           <1>14, <1>15 DEF Next, Loader, Endpoint, Shell

\* What a request's slot goes through under the loader's eyes: begun, cancelled and
\* finished, it is neither emptied nor brought back.
LEMMA SlotsKept ==
  ASSUME Inv,
         UNCHANGED <<queue, loader, rpc, busy, what>>, installed \subseteq installed',
         \A q \in Requests :
           \/ slot'[q].state = slot[q].state
           \/ slot[q].state \in {"pending", "loading"} /\ slot'[q].state # "empty"
  PROVE  RequestPolled'
<1>0. RequestPolled
  BY DEF Inv
<1>1. Used' = Used
  BY DEF Used
<1>2. \A q : Polled(q)' <=> Polled(q)
  BY DEF Polled
<1>3. rpc.op \in {"state", "error", "release"} => loader.id \in Requests
  BY CallIsOut
<1>4. busy' = Used' /\ (\A r \in Used' : Polled(r)')
  BY <1>0, <1>1, <1>2 DEF RequestPolled
<1>5. \A r \in Requests : Polled(r)' => what'[r] = Head(queue')
  BY <1>0, <1>2 DEF RequestPolled
<1>6. \A r \in Requests : Polled(r)' /\ ~(rpc'.op = "release" /\ rpc'.at = "answered") =>
        slot'[r].state # "empty"
  BY <1>0, <1>2 DEF RequestPolled
<1>7. /\ rpc'.op = "state" /\ rpc'.at = "answered" =>
           /\ rpc'.value = 2 => slot'[loader'.id].state = "ready"
           /\ rpc'.value = 3 => slot'[loader'.id].state = "failed"
      /\ rpc'.op = "error" \/ (rpc'.op = "release" /\ rpc'.at = "sent") =>
           slot'[loader'.id].state \in {"ready", "failed"}
  BY <1>0, <1>3 DEF RequestPolled
<1>8. /\ rpc'.op = "release" /\ rpc'.at = "answered" =>
           rpc'.value = -1 \/ (rpc'.value = 1 /\ Used' = {})
      /\ rpc'.op = "release" /\ ~loader'.expired /\ ~loader'.failed =>
           what'[loader'.id] \in installed'
  BY <1>0, <1>1 DEF RequestPolled
<1> QED BY <1>4, <1>5, <1>6, <1>7, <1>8 DEF RequestPolled

\* While no call is out for a request, none is registered.
LEMMA NothingPolled ==
  ASSUME Inv, loader.id = 0, rpc.op # "start" \/ rpc.value \notin Requests
  PROVE  Used = {} /\ busy = {} /\ \A r : ~Polled(r)
BY Values DEF Inv, RequestPolled, Polled, Used

\* Nothing is known of a call that asks nothing of a request that is over.
LEMMA AsksLittle ==
  ASSUME RequestPolled, UNCHANGED <<queue, busy, slot, what>>,
         \A r : Polled(r)' <=> Polled(r),
         rpc.op # "release", rpc'.op \in {"none", "start", "state", "cancel"},
         rpc'.op = "state" => rpc'.at = "sent"
  PROVE  RequestPolled'
BY DEF RequestPolled, Used

\* Page, registry and sessions speak of the same request.
LEMMA PolledStep ==
  ASSUME Inv, [Next]_vars
  PROVE  RequestPolled'
<1>1. ASSUME NEW t \in Triples, LoadTarget(t)
      PROVE  RequestPolled'
  <2>1. UNCHANGED <<loader, rpc, busy, slot, what, installed>> /\ queue' = Append(queue, t)
    BY <1>1 DEF LoadTarget, registryVars, shellVars
  <2>2. CASE queue = <<>>
    <3>1. loader = NoLoad /\ rpc = NoCall
      BY <2>2 DEF Inv, GateHeld, LoaderAsks
    <3>2. Used = {} /\ busy = {} /\ \A r : ~Polled(r)
      BY <3>1, NothingPolled DEF NoLoad, NoCall
    <3>3. Used' = {} /\ \A r : ~Polled(r)'
      BY <2>1, <3>2 DEF Used, Polled
    <3> QED BY <2>1, <3>1, <3>2, <3>3 DEF RequestPolled, NoCall
  <2>3. CASE queue # <<>>
    <3>1. Head(queue') = Head(queue)
      BY <2>1, <2>3 DEF Inv, TypeOK
    <3>2. Used' = Used /\ \A r : Polled(r)' <=> Polled(r)
      BY <2>1 DEF Used, Polled
    <3> QED BY <2>1, <3>1, <3>2 DEF Inv, RequestPolled
  <2> QED BY <2>2, <2>3
<1>2. ASSUME NEW t \in Triples, TerminalLoad(t)
      PROVE  RequestPolled'
  <2>1. /\ UNCHANGED <<queue, loader, rpc, busy, slot, installed>>
        /\ what' = [what EXCEPT ![0] = t]
    BY <1>2 DEF TerminalLoad, gateVars, registryVars
  <2>2. \A r \in Requests : what'[r] = what[r]
    BY <2>1, Values DEF Inv, TypeOK
  <2>3. rpc.op = "release" => loader.id \in Requests
    BY CallIsOut
  <2>4. Used' = Used /\ \A r : Polled(r)' <=> Polled(r)
    BY <2>1 DEF Used, Polled
  <2> QED BY <2>1, <2>2, <2>3, <2>4 DEF Inv, RequestPolled
<1>3. CASE LoadStarts
  <2>1. loader = NoLoad /\ rpc = NoCall
    BY <1>3 DEF LoadStarts, Inv, LoaderAsks
  <2>2. /\ loader' = [NoLoad EXCEPT !.step = "prefetch"]
        /\ UNCHANGED <<queue, rpc, busy, slot, what, installed>>
    BY <1>3, <2>1 DEF LoadStarts, gateVars, registryVars, shellVars
  <2>3. \A r : Polled(r)' <=> Polled(r)
    BY <2>1, <2>2 DEF Polled, NoLoad
  <2> QED BY <2>1, <2>2, <2>3, AsksLittle DEF Inv, NoCall
<1>4. CASE Prefetched
  <2>1. /\ loader' = [loader EXCEPT !.step = "calling"] /\ Send("start")
        /\ UNCHANGED <<queue, busy, slot, what, installed>>
    BY <1>4 DEF Prefetched, gateVars, registryVars, shellVars
  <2>2. loader.id = 0 /\ rpc = NoCall
    BY <1>4 DEF Prefetched, Inv, LoaderAsks
  <2>3. loader'.id = 0 /\ rpc'.op = "start" /\ rpc'.value = 0
    BY <2>1, <2>2, SentIsCall DEF Inv, TypeOK, Loaders
  <2>4. \A r : Polled(r)' <=> Polled(r)
    BY <2>2, <2>3, Values DEF Polled, NoCall
  <2> QED BY <2>1, <2>2, <2>3, <2>4, AsksLittle DEF Inv, NoCall
<1>5. CASE PrefetchFails \/ StartRejected \/ Released
  <2>1. /\ Used = {} /\ loader' = NoLoad /\ rpc' = NoCall
        /\ UNCHANGED <<registryVars, shellVars>>
    BY <1>5, LoadEndings, LoadEndsTyped
  <2>2. Used' = {} /\ busy' = {} /\ \A r : ~Polled(r)'
    BY <2>1, Values DEF Inv, RequestPolled, Used, Polled, NoLoad, NoCall, registryVars
  <2> QED BY <2>1, <2>2 DEF RequestPolled, NoCall
<1>6. CASE Started
  <2>1. /\ rpc.op = "start" /\ rpc.value \in Requests /\ Send("state")
        /\ loader' = [loader EXCEPT !.id = rpc.value]
        /\ UNCHANGED <<queue, busy, slot, what, installed>>
    BY <1>6 DEF Started, Answer, gateVars, registryVars, shellVars
  <2>2. loader.id = 0 /\ loader'.id = rpc.value
    BY <2>1, CallIsOut DEF Inv, TypeOK, Loaders
  <2>3. rpc'.op = "state" /\ rpc'.at = "sent"
    BY <2>1, SentIsCall
  <2>4. \A r : Polled(r)' <=> Polled(r)
    BY <2>1, <2>2, <2>3, Values DEF Polled
  <2> QED BY <2>1, <2>3, <2>4, AsksLittle DEF Inv
<1>7. CASE StillLoading
  <2>1. rpc.op \notin {"start", "release"} /\ UNCHANGED <<queue, busy, slot, what, installed>>
    BY <1>7 DEF StillLoading, Answer, gateVars, registryVars, shellVars
  <2>2. loader'.id = loader.id
    BY <1>7 DEF StillLoading, Inv, TypeOK, Loaders
  <2>3. rpc'.op = "none"
    BY <1>7, SentIsCall DEF StillLoading, NoCall
  <2>4. \A r : Polled(r)' <=> Polled(r)
    BY <2>1, <2>2, <2>3 DEF Polled
  <2> QED BY <2>1, <2>3, <2>4, AsksLittle DEF Inv
<1>8. CASE Wake
  <2>0. rpc = NoCall
    BY <1>8 DEF Wake, Inv, LoaderAsks
  <2>1. rpc.op \notin {"start", "release"} /\ UNCHANGED <<queue, busy, slot, what, installed>>
    BY <1>8, <2>0 DEF NoCall, Wake, gateVars, registryVars, shellVars
  <2>2. loader'.id = loader.id
    BY <1>8 DEF Wake, Inv, TypeOK, Loaders
  <2>3. rpc'.op \in {"cancel", "state"} /\ rpc'.at = "sent"
    BY <1>8, SentIsCall DEF Wake, NoCall
  <2>4. \A r : Polled(r)' <=> Polled(r)
    BY <2>1, <2>2, <2>3 DEF Polled
  <2> QED BY <2>1, <2>3, <2>4, AsksLittle DEF Inv
<1>9. CASE CancelAnswered
  <2>1. rpc.op \notin {"start", "release"} /\ UNCHANGED <<queue, busy, slot, what, installed>>
    BY <1>9 DEF CancelAnswered, Answer, gateVars, registryVars, shellVars
  <2>2. loader'.id = loader.id
    BY <1>9 DEF CancelAnswered, Inv, TypeOK, Loaders
  <2>3. rpc'.op = "state" /\ rpc'.at = "sent"
    BY <1>9, SentIsCall DEF CancelAnswered, NoCall
  <2>4. \A r : Polled(r)' <=> Polled(r)
    BY <2>1, <2>2, <2>3 DEF Polled
  <2> QED BY <2>1, <2>3, <2>4, AsksLittle DEF Inv
<1>10. CASE TerminalState
  <2>1. /\ rpc.op = "state" /\ rpc.at = "answered" /\ rpc.value \in {2, 3}
        /\ UNCHANGED <<queue, loader, busy, slot, what, installed>>
    BY <1>10 DEF TerminalState, Answer, gateVars, registryVars, shellVars
  <2>2. loader.id \in Requests
    BY <2>1, CallIsOut
  <2>3. /\ rpc'.at = "sent" /\ rpc'.op \in {"error", "release"}
        /\ rpc'.op = "release" => rpc.value # 3 \/ loader.expired
    BY <1>10, SentIsCall DEF TerminalState
  <2>4. Used' = Used /\ \A r : Polled(r)' <=> Polled(r)
    BY <2>1, <2>3 DEF Used, Polled
  <2>5. slot[loader.id].state = "ready" => what[loader.id] \in installed
    BY <2>2 DEF Inv, ThreadsServe
  <2> QED BY <2>1, <2>2, <2>3, <2>4, <2>5 DEF Inv, RequestPolled
<1>11. CASE ErrorAnswered
  <2>1. /\ rpc.op = "error" /\ Send("release") /\ loader' = [loader EXCEPT !.failed = TRUE]
        /\ UNCHANGED <<queue, busy, slot, what, installed>>
    BY <1>11 DEF ErrorAnswered, Answer, gateVars, registryVars, shellVars
  <2>2. loader'.id = loader.id /\ loader'.failed
    BY <2>1 DEF Inv, TypeOK, Loaders
  <2>3. rpc'.op = "release" /\ rpc'.at = "sent"
    BY <2>1, SentIsCall
  <2>4. Used' = Used /\ \A r : Polled(r)' <=> Polled(r)
    BY <2>1, <2>2, <2>3 DEF Used, Polled
  <2> QED BY <2>1, <2>2, <2>3, <2>4 DEF Inv, RequestPolled
<1>12. CASE HandleStart
  <2>1. /\ nextId \in Requests /\ Used = {} /\ busy = {} /\ loader.id = 0
        /\ rpc'.op = "start" /\ rpc'.at = "answered" /\ rpc'.value = nextId
    BY <1>12, StartHandled
  <2>2. /\ slot' = [slot EXCEPT ![nextId] = [state |-> "pending", cancelled |-> FALSE]]
        /\ busy' = busy \cup {nextId} /\ what' = [what EXCEPT ![nextId] = Head(queue)]
        /\ UNCHANGED <<queue, loader, installed>>
    BY <1>12 DEF HandleStart, gateVars
  <2>3. /\ slot'[nextId].state = "pending"
        /\ \A q \in Requests \ {nextId} : slot'[q] = slot[q]
    BY <2>1, <2>2 DEF Inv, TypeOK
  <2>4. Used' = {nextId} /\ busy' = {nextId}
    BY <2>1, <2>2, <2>3 DEF Used
  <2>5. \A r : Polled(r)' <=> r = nextId
    BY <2>1, <2>2, Values DEF Polled
  <2>6. what'[nextId] = Head(queue)
    BY <2>1, <2>2, Values DEF Inv, TypeOK
  <2> QED BY <2>1, <2>2, <2>3, <2>4, <2>5, <2>6 DEF RequestPolled
<1>13. CASE HandleStartRejected
  <2>1. /\ rpc.op = "start" /\ rpc.at = "sent" /\ Reply(-1)
        /\ UNCHANGED <<queue, loader, busy, slot, what, installed>>
    BY <1>13 DEF HandleStartRejected, Calling, gateVars, shellVars
  <2>2. rpc.value = 0 /\ loader.id = 0
    BY <2>1, CallIsOut
  <2>3. rpc'.op = "start" /\ rpc'.value = -1
    BY <2>1 DEF Reply, Inv, TypeOK, Calls
  <2>4. \A r : Polled(r)' <=> Polled(r)
    BY <2>1, <2>2, <2>3 DEF Polled, Requests
  <2> QED BY <2>1, <2>3, <2>4, AsksLittle DEF Inv
<1>14. CASE HandleState
  <2>1. /\ rpc.op = "state" /\ Reply(StateCode(loader.id))
        /\ UNCHANGED <<queue, loader, busy, slot, what, installed>>
    BY <1>14 DEF HandleState, Calling, gateVars, registryVars, shellVars
  <2>2. loader.id \in Requests
    BY <2>1, CallIsOut
  <2>3. slot[loader.id].state # "empty" /\ slot[loader.id] \in Slots
    BY <2>1, <2>2 DEF Inv, TypeOK, RequestPolled, Polled
  <2>4. /\ StateCode(loader.id) = 2 => slot[loader.id].state = "ready"
        /\ StateCode(loader.id) = 3 => slot[loader.id].state = "failed"
    BY <2>3 DEF StateCode, Slots
  <2>5. rpc'.op = "state" /\ rpc'.value = StateCode(loader.id)
    BY <2>1 DEF Reply, Inv, TypeOK, Calls
  <2>6. Used' = Used /\ \A r : Polled(r)' <=> Polled(r)
    BY <2>1, <2>5 DEF Used, Polled
  <2> QED BY <2>1, <2>4, <2>5, <2>6 DEF Inv, RequestPolled
<1>15. CASE HandleError
  <2>1. rpc.op = "error" /\ UNCHANGED <<queue, loader, busy, slot, what, installed>>
    BY <1>15 DEF HandleError, Calling, gateVars, registryVars, shellVars
  <2>2. rpc'.op = "error"
    BY <1>15, <2>1, EndpointReplies DEF Endpoint
  <2>3. Used' = Used /\ \A r : Polled(r)' <=> Polled(r)
    BY <2>1, <2>2 DEF Used, Polled
  <2> QED BY <2>1, <2>2, <2>3 DEF Inv, RequestPolled
<1>16. CASE HandleCancel
  <2>1. /\ rpc.op = "cancel" /\ slot' = [slot EXCEPT ![loader.id] = Cancelled(slot[loader.id])]
        /\ UNCHANGED <<queue, loader, busy, what, installed>>
    BY <1>16 DEF HandleCancel, Calling, gateVars, shellVars
  <2>2. loader.id \in Requests
    BY <2>1, CallIsOut
  <2>3. rpc'.op = "cancel"
    BY <1>16, <2>1, EndpointReplies DEF Endpoint
  <2>4. \A q \in Requests : slot'[q].state = "empty" <=> slot[q].state = "empty"
    <3>1. slot'[loader.id] = Cancelled(slot[loader.id])
      BY <2>1, <2>2 DEF Inv, TypeOK
    <3>2. slot'[loader.id].state = "empty" <=> slot[loader.id].state = "empty"
      BY <2>2, <3>1, SlotChanges
    <3>3. \A q \in Requests \ {loader.id} : slot'[q] = slot[q]
      BY <2>1, <2>2 DEF Inv, TypeOK
    <3> QED BY <3>2, <3>3
  <2>5. Used' = Used /\ \A r : Polled(r)' <=> Polled(r)
    BY <2>1, <2>3, <2>4 DEF Used, Polled
  <2> QED BY <2>1, <2>3, <2>4, <2>5 DEF Inv, RequestPolled
<1>17. CASE HandleRelease
  <2>1. /\ loader.id \in Requests
        /\ slot' = [slot EXCEPT ![loader.id] = EMPTY] /\ busy' = busy \ {loader.id}
        /\ rpc'.op = "release" /\ rpc'.at = "answered" /\ rpc'.value = 1
        /\ UNCHANGED <<queue, loader, what, installed>>
    BY <1>17, ReleaseHandled DEF gateVars, shellVars
  <2>2. rpc.op = "release"
    BY <1>17 DEF HandleRelease, Calling
  <2>3. Used \subseteq {loader.id}
    BY <2>2 DEF Inv, RequestPolled, Polled
  <2>4. /\ slot'[loader.id].state = "empty"
        /\ \A q \in Requests \ {loader.id} : slot'[q] = slot[q]
    BY <2>1 DEF Inv, TypeOK, EMPTY
  <2>5. Used' = {} /\ busy' = {}
    BY <2>1, <2>3, <2>4 DEF Used, Inv, RequestPolled
  <2>6. \A r : Polled(r)' <=> Polled(r)
    BY <2>1, <2>2 DEF Polled
  <2> QED BY <2>1, <2>2, <2>5, <2>6 DEF Inv, RequestPolled
<1>18. CASE HandleTraps
  <2>1. /\ rpc.op \notin {"none", "start"} /\ Reply(-1)
        /\ UNCHANGED <<queue, loader, busy, slot, what, installed>>
    BY <1>18 DEF HandleTraps, gateVars, registryVars, shellVars
  <2>2. rpc'.op = rpc.op /\ rpc'.at = "answered" /\ rpc'.value = -1
    BY <2>1 DEF Reply, Inv, TypeOK, Calls
  <2>3. Used' = Used /\ \A r : Polled(r)' <=> Polled(r)
    BY <2>1, <2>2 DEF Used, Polled
  <2> QED BY <1>18, <2>1, <2>2, <2>3 DEF HandleTraps, Inv, RequestPolled
<1>19. ASSUME NEW r \in Requests, ShellBegins(r)
      PROVE  RequestPolled'
  <2>1. UNCHANGED <<queue, loader, rpc, busy, what, installed>>
    BY <1>19 DEF ShellBegins, gateVars
  <2>2. \A q \in Requests : \/ slot'[q].state = slot[q].state
                            \/ slot[q].state = "pending" /\ slot'[q].state = "loading"
    <3>1. CASE slot' = slot
      BY <3>1
    <3>2. CASE slot[r].state = "pending" /\ slot' = [slot EXCEPT ![r].state = "loading"]
      BY <3>2 DEF Inv, TypeOK, Slots
    <3> QED BY <1>19, <3>1, <3>2 DEF ShellBegins
  <2> QED BY <2>1, <2>2, SlotsKept
<1>20. ASSUME NEW r \in Threads, ShellLocks(r)
      PROVE  RequestPolled'
  <2>1. UNCHANGED <<queue, loader, rpc, busy, what, slot, installed>>
    BY <1>20 DEF ShellLocks, Fatal, gateVars, registryVars, shellVars
  <2> QED BY <2>1, SlotsKept
<1>21. ASSUME NEW r \in Threads, ShellFetches(r)
      PROVE  RequestPolled'
  <2>1. UNCHANGED <<queue, loader, rpc, busy, what, slot, installed>>
    BY <1>21 DEF ShellFetches, Fatal, gateVars, registryVars, shellVars
  <2> QED BY <2>1, SlotsKept
<1>22. ASSUME NEW r \in Threads, ShellReads(r)
      PROVE  RequestPolled'
  <2>1. UNCHANGED <<queue, loader, rpc, busy, what, slot>> /\ installed \subseteq installed'
    BY <1>22 DEF ShellReads, gateVars, registryVars
  <2> QED BY <2>1, SlotsKept
<1>23. ASSUME NEW r \in Threads, ShellStops(r)
      PROVE  RequestPolled'
  <2>1. UNCHANGED <<queue, loader, rpc, busy, what, slot, installed>>
    BY <1>23 DEF ShellStops, Fatal, gateVars, registryVars, shellVars
  <2> QED BY <2>1, SlotsKept
<1>24. ASSUME NEW r \in Threads, ShellFinishes(r)
      PROVE  RequestPolled'
  <2>1. UNCHANGED <<queue, loader, rpc, busy, what, installed>>
    BY <1>24 DEF ShellFinishes, gateVars
  <2>2. \A q \in Requests : \/ slot'[q].state = slot[q].state
                            \/ slot[q].state = "loading" /\ slot'[q].state # "empty"
    <3>1. CASE slot' = slot
      BY <3>1
    <3>2. CASE r \in Requests /\ slot' = [slot EXCEPT ![r] = Finished(r)]
      <4>1. slot'[r] = Finished(r) /\ \A q \in Requests \ {r} : slot'[q] = slot[q]
        BY <3>2 DEF Inv, TypeOK
      <4>2. \/ Finished(r) = slot[r]
            \/ slot[r].state = "loading" /\ Finished(r).state # "empty"
        BY <3>2, SlotChanges
      <4> QED BY <4>1, <4>2
    <3> QED BY <1>24, <3>1, <3>2 DEF ShellFinishes
  <2> QED BY <2>1, <2>2, SlotsKept
<1>25. CASE UNCHANGED vars
  <2>1. UNCHANGED <<queue, loader, rpc, busy, what, slot, installed>>
    BY <1>25 DEF vars, Fatal, gateVars, registryVars, shellVars
  <2> QED BY <2>1, SlotsKept
<1>26. CASE Run \/ RunFlushed \/ RunSettles \/ Dispose \/ TransportTimeout \/ CallRejected
  <2>1. UNCHANGED <<queue, loader, rpc, busy, what, slot, installed>>
    BY <1>26, Frames DEF registryVars, shellVars
  <2> QED BY <2>1, SlotsKept
<1> QED BY <1>1, <1>2, <1>3, <1>4, <1>5, <1>6, <1>7, <1>8, <1>9, <1>10, <1>11, <1>12, <1>13,
           <1>14, <1>15, <1>16, <1>17, <1>18, <1>19, <1>20, <1>21, <1>22, <1>23, <1>24,
           <1>25, <1>26 DEF Next, Loader, Endpoint, Shell

\* Whatever leaves registry and threads alone keeps what they know of each other.
LEMMA ThreadsKept ==
  ASSUME Inv, UNCHANGED <<slot, nextId, shellVars>>
  PROVE  ThreadsServe'
BY DEF Inv, ThreadsServe, shellVars

\* A thread serves a request that is loading, under the lock.
LEMMA ServeStep ==
  ASSUME Inv, [Next]_vars
  PROVE  ThreadsServe'
<1>1. ASSUME NEW t \in Triples, LoadTarget(t)
      PROVE  ThreadsServe'
  <2>1. UNCHANGED <<slot, nextId, shellVars>>
    BY <1>1 DEF LoadTarget, Fatal, gateVars, registryVars
  <2> QED BY <2>1, ThreadsKept
<1>2. ASSUME NEW t \in Triples, TerminalLoad(t)
      PROVE  ThreadsServe'
  <2>1. /\ thread[0] = "none" /\ UNCHANGED <<slot, nextId, left, lock, installed>>
        /\ thread' = [thread EXCEPT ![0] = "locking"] /\ what' = [what EXCEPT ![0] = t]
    BY <1>2 DEF TerminalLoad, registryVars
  <2>2. /\ thread'[0] = "locking" /\ what'[0] = t
        /\ \A q \in Threads \ {0} : thread'[q] = thread[q] /\ what'[q] = what[q]
    BY <2>1, Values DEF Inv, TypeOK
  <2> QED BY <2>1, <2>2, Values DEF Inv, ThreadsServe
<1>3. CASE HandleStart
  <2>1. /\ nextId \in Requests /\ nextId' = nextId + 1 /\ Head(queue) \in Triples
        /\ thread[nextId] = "none" /\ slot[nextId].state = "empty"
    BY <1>3, StartHandled
  <2>2. /\ slot' = [slot EXCEPT ![nextId] = [state |-> "pending", cancelled |-> FALSE]]
        /\ thread' = [thread EXCEPT ![nextId] = "typed"]
        /\ what' = [what EXCEPT ![nextId] = Head(queue)]
        /\ UNCHANGED <<left, lock, installed>>
    BY <1>3 DEF HandleStart
  <2>3. /\ slot'[nextId].state = "pending" /\ thread'[nextId] = "typed"
        /\ what'[nextId] = Head(queue)
        /\ \A q \in Requests \ {nextId} : slot'[q] = slot[q]
        /\ \A q \in Threads \ {nextId} : thread'[q] = thread[q] /\ what'[q] = what[q]
    BY <2>1, <2>2, Values DEF Inv, TypeOK
  <2>4. \A q \in Requests : q >= nextId' => q # nextId /\ q >= nextId
    BY <2>1 DEF Requests
  <2>5. ThreadsServe
    BY DEF Inv
  <2>6. ASSUME NEW q \in Requests
        PROVE  /\ thread'[q] \in Extracting => slot'[q].state = "loading"
               /\ q >= nextId' => thread'[q] = "none" /\ slot'[q].state = "empty"
               /\ slot'[q].state = "ready" => what'[q] \in installed'
    <3>1. CASE q = nextId
      BY <2>3, <2>4, <3>1 DEF Extracting
    <3>2. CASE q # nextId
      BY <2>2, <2>3, <2>4, <2>5, <3>2, Values DEF ThreadsServe
    <3> QED BY <3>1, <3>2
  <2>7. ASSUME NEW q \in Threads
        PROVE  /\ thread'[q] # "none" => what'[q] \in Triples
               /\ thread'[q] \in {"fetching", "reading"} => lock' = q
               /\ thread'[q] = "reading" => left'[q] > 0
               /\ thread'[q] = "loaded" => what'[q] \in installed'
    BY <2>1, <2>2, <2>3, <2>5 DEF ThreadsServe
  <2> QED BY <2>6, <2>7 DEF ThreadsServe
<1>4. CASE HandleStartRejected
  <2>1. UNCHANGED <<slot, shellVars>> /\ nextId' \in {nextId, nextId + 1}
    BY <1>4 DEF HandleStartRejected
  <2>2. \A q \in Requests : q >= nextId' => q >= nextId
    BY <2>1 DEF Inv, TypeOK, Requests
  <2> QED BY <2>1, <2>2 DEF Inv, ThreadsServe, shellVars
<1>5. CASE HandleState
  <2>1. UNCHANGED <<slot, nextId, shellVars>>
    BY <1>5 DEF HandleState, Fatal, gateVars, registryVars
  <2> QED BY <2>1, ThreadsKept
<1>6. CASE HandleError
  <2>1. UNCHANGED <<slot, nextId, shellVars>>
    BY <1>6 DEF HandleError, Fatal, gateVars, registryVars
  <2> QED BY <2>1, ThreadsKept
<1>7. CASE HandleCancel
  <2>1. /\ rpc.op = "cancel" /\ slot' = [slot EXCEPT ![loader.id] = Cancelled(slot[loader.id])]
        /\ UNCHANGED <<nextId, shellVars>>
    BY <1>7 DEF HandleCancel, Calling
  <2>2. loader.id \in Requests
    BY <2>1, CallIsOut
  <2>3. /\ slot'[loader.id] = Cancelled(slot[loader.id])
        /\ \A q \in Requests \ {loader.id} : slot'[q] = slot[q]
    BY <2>1, <2>2 DEF Inv, TypeOK
  <2>4. /\ slot'[loader.id].state = slot[loader.id].state \/ slot'[loader.id].state = "failed"
        /\ slot[loader.id].state # "pending" => slot'[loader.id].state = slot[loader.id].state
    BY <2>2, <2>3, SlotChanges
  <2>5. \A q \in Requests :
          \/ slot'[q].state = slot[q].state
          \/ slot[q].state = "pending" /\ slot'[q].state = "failed"
    BY <2>3, <2>4
  <2> QED BY <2>1, <2>5 DEF Inv, ThreadsServe, shellVars
<1>8. CASE HandleRelease
  <2>1. /\ loader.id \in Requests /\ slot' = [slot EXCEPT ![loader.id] = EMPTY]
        /\ slot[loader.id].state \in {"ready", "failed"} /\ UNCHANGED <<nextId, shellVars>>
    BY <1>8, ReleaseHandled
  <2>2. /\ slot'[loader.id].state = "empty"
        /\ \A q \in Requests \ {loader.id} : slot'[q] = slot[q]
    BY <2>1 DEF Inv, TypeOK, EMPTY
  <2> QED BY <2>1, <2>2 DEF Inv, ThreadsServe, shellVars
<1>9. CASE HandleTraps
  <2>1. UNCHANGED <<slot, nextId, shellVars>>
    BY <1>9 DEF HandleTraps, Fatal, gateVars, registryVars
  <2> QED BY <2>1, ThreadsKept
<1>10. ASSUME NEW r \in Requests, ShellBegins(r)
      PROVE  ThreadsServe'
  <2>1. thread[r] = "typed" /\ UNCHANGED <<nextId, what, left, lock, installed>>
    BY <1>10 DEF ShellBegins
  <2>2. /\ ~(r >= nextId) /\ what[r] \in Triples
    BY <2>1, Values DEF Inv, ThreadsServe
  <2>3. CASE /\ slot' = [slot EXCEPT ![r].state = "loading"]
             /\ thread' = [thread EXCEPT ![r] = "locking"]
    <3>1. slot \in [Requests -> Slots] /\ thread \in [Threads -> ThreadSteps] /\ r \in Threads
      BY Values DEF Inv, TypeOK
    <3>2. slot'[r].state = "loading" /\ \A q \in Requests \ {r} : slot'[q] = slot[q]
      BY <2>3, <3>1 DEF Slots
    <3>3. thread'[r] = "locking" /\ \A q \in Threads \ {r} : thread'[q] = thread[q]
      BY <2>3, <3>1
    <3> QED BY <2>1, <2>2, <3>2, <3>3, Values DEF Inv, ThreadsServe, Extracting
  <2>4. CASE slot' = slot /\ thread' = [thread EXCEPT ![r] = "over"]
    <3>1. thread'[r] = "over" /\ \A q \in Threads \ {r} : thread'[q] = thread[q]
      BY <2>4, Values DEF Inv, TypeOK
    <3> QED BY <2>1, <2>2, <2>4, <3>1, Values DEF Inv, ThreadsServe, Extracting
  <2> QED BY <1>10, <2>3, <2>4 DEF ShellBegins
<1>11. ASSUME NEW r \in Threads, ShellLocks(r)
      PROVE  ThreadsServe'
  <2>1. /\ thread[r] = "locking" /\ lock = NoOne /\ lock' = r
        /\ thread' = [thread EXCEPT ![r] = "fetching"]
        /\ UNCHANGED <<slot, nextId, what, left, installed>>
    BY <1>11 DEF ShellLocks, registryVars
  <2>2. thread'[r] = "fetching" /\ \A q \in Threads \ {r} : thread'[q] = thread[q]
    BY <2>1 DEF Inv, TypeOK
  <2>3. \A q \in Threads : thread[q] \notin {"fetching", "reading"}
    BY <2>1, Values DEF Inv, ThreadsServe
  <2> QED BY <2>1, <2>2, <2>3, Values DEF Inv, ThreadsServe, Extracting
<1>12. ASSUME NEW r \in Threads, ShellFetches(r)
      PROVE  ThreadsServe'
  <2>1. /\ thread[r] = "fetching" /\ left' = [left EXCEPT ![r] = Chunks]
        /\ thread' = [thread EXCEPT ![r] = "reading"]
        /\ UNCHANGED <<slot, nextId, what, lock, installed>>
    BY <1>12 DEF ShellFetches, registryVars
  <2>2. /\ thread'[r] = "reading" /\ left'[r] = Chunks
        /\ \A q \in Threads \ {r} : thread'[q] = thread[q] /\ left'[q] = left[q]
    BY <2>1 DEF Inv, TypeOK
  <2>3. Chunks > 0
    BY InstallAssumption
  <2> QED BY <2>1, <2>2, <2>3, Values DEF Inv, ThreadsServe, Extracting
<1>13. ASSUME NEW r \in Threads, ShellReads(r)
      PROVE  ThreadsServe'
  <2>1. /\ thread[r] = "reading" /\ UNCHANGED <<slot, nextId, what>>
    BY <1>13 DEF ShellReads, registryVars
  <2>2. lock = r /\ left[r] \in Nat /\ left[r] > 0
    BY <2>1 DEF Inv, TypeOK, ThreadsServe
  <2>3. \A q \in Threads \ {r} : thread[q] \notin {"fetching", "reading"}
    BY <2>2 DEF Inv, ThreadsServe
  <2>4. CASE /\ thread' = [thread EXCEPT ![r] = "loaded"] /\ left' = [left EXCEPT ![r] = 0]
             /\ installed' = installed \cup {what[r]}
    <3>1. /\ thread'[r] = "loaded"
          /\ \A q \in Threads \ {r} : thread'[q] = thread[q] /\ left'[q] = left[q]
      BY <2>4 DEF Inv, TypeOK
    <3>2. /\ \A q \in Requests : thread'[q] # thread[q] =>
                thread[q] = "reading" /\ thread'[q] = "loaded"
          /\ what'[r] \in installed' /\ installed \subseteq installed'
      BY <2>1, <2>4, <3>1, Values
    <3>3. ThreadsServe
      BY DEF Inv
    <3>4. ASSUME NEW q \in Requests
          PROVE  /\ thread'[q] \in Extracting => slot'[q].state = "loading"
                 /\ q >= nextId' => thread'[q] = "none" /\ slot'[q].state = "empty"
                 /\ slot'[q].state = "ready" => what'[q] \in installed'
      BY <2>1, <3>2, <3>3 DEF ThreadsServe, Extracting
    <3>5. ASSUME NEW q \in Threads
          PROVE  /\ thread'[q] # "none" => what'[q] \in Triples
                 /\ thread'[q] \in {"fetching", "reading"} => lock' = q
                 /\ thread'[q] = "reading" => left'[q] > 0
                 /\ thread'[q] = "loaded" => what'[q] \in installed'
      BY <2>1, <2>3, <3>1, <3>2, <3>3 DEF ThreadsServe
    <3> QED BY <3>4, <3>5 DEF ThreadsServe
  <2>5. CASE left[r] # 1 /\ left' = [left EXCEPT ![r] = left[r] - 1]
             /\ UNCHANGED <<thread, lock, installed>>
    <3>1. /\ left'[r] > 0
          /\ \A q \in Threads \ {r} : left'[q] = left[q]
      BY <2>2, <2>5 DEF Inv, TypeOK
    <3> QED BY <2>1, <2>5, <3>1 DEF Inv, ThreadsServe
  <2> QED BY <1>13, <2>4, <2>5 DEF ShellReads
<1>14. ASSUME NEW r \in Threads, ShellStops(r)
      PROVE  ThreadsServe'
  <2>1. /\ thread[r] \in {"fetching", "reading"} /\ left' = [left EXCEPT ![r] = 0]
        /\ thread' = [thread EXCEPT ![r] = "failed"]
        /\ UNCHANGED <<slot, nextId, what, installed>>
    BY <1>14 DEF ShellStops, registryVars
  <2>2. \A q \in Threads \ {r} : thread[q] \notin {"fetching", "reading"}
    BY <2>1 DEF Inv, ThreadsServe
  <2>3. /\ thread'[r] = "failed"
        /\ \A q \in Threads \ {r} : thread'[q] = thread[q] /\ left'[q] = left[q]
    BY <2>1 DEF Inv, TypeOK
  <2> QED BY <2>1, <2>2, <2>3, Values DEF Inv, ThreadsServe, Extracting
<1>15. ASSUME NEW r \in Threads, ShellFinishes(r)
      PROVE  ThreadsServe'
  <2>1. /\ thread[r] \in {"loaded", "failed"} /\ thread' = [thread EXCEPT ![r] = "over"]
        /\ UNCHANGED <<nextId, what, left, lock, installed>>
    BY <1>15 DEF ShellFinishes
  <2>2. thread'[r] = "over" /\ \A q \in Threads \ {r} : thread'[q] = thread[q]
    BY <2>1 DEF Inv, TypeOK
  <2>3. \A q \in Requests :
          \/ slot'[q].state = slot[q].state
          \/ /\ q = r /\ slot[q].state = "loading" /\ slot'[q].state \in {"ready", "failed"}
             /\ slot'[q].state = "ready" => thread[q] = "loaded"
    <3>1. CASE slot' = slot
      BY <3>1
    <3>2. CASE r \in Requests /\ slot' = [slot EXCEPT ![r] = Finished(r)]
      <4>1. slot'[r] = Finished(r) /\ \A q \in Requests \ {r} : slot'[q] = slot[q]
        BY <3>2 DEF Inv, TypeOK
      <4> QED BY <3>2, <4>1, SlotChanges
    <3> QED BY <1>15, <3>1, <3>2 DEF ShellFinishes
  <2>4. ThreadsServe
    BY DEF Inv
  <2>5. ASSUME NEW q \in Requests
        PROVE  /\ thread'[q] \in Extracting => slot'[q].state = "loading"
               /\ q >= nextId' => thread'[q] = "none" /\ slot'[q].state = "empty"
               /\ slot'[q].state = "ready" => what'[q] \in installed'
    BY <2>1, <2>2, <2>3, <2>4, Values DEF ThreadsServe, Extracting
  <2>6. ASSUME NEW q \in Threads
        PROVE  /\ thread'[q] # "none" => what'[q] \in Triples
               /\ thread'[q] \in {"fetching", "reading"} => lock' = q
               /\ thread'[q] = "reading" => left'[q] > 0
               /\ thread'[q] = "loaded" => what'[q] \in installed'
    BY <2>1, <2>2, <2>4 DEF ThreadsServe
  <2> QED BY <2>5, <2>6 DEF ThreadsServe
<1>16. CASE UNCHANGED vars
  <2>1. UNCHANGED <<slot, nextId, shellVars>>
    BY <1>16 DEF vars, Fatal, gateVars, registryVars
  <2> QED BY <2>1, ThreadsKept
<1>17. CASE Run \/ RunFlushed \/ RunSettles \/ Dispose \/ TransportTimeout
  <2>1. UNCHANGED <<slot, nextId, shellVars>>
    BY <1>17, Frames DEF registryVars
  <2> QED BY <2>1, ThreadsKept
<1>18. CASE Loader
  <2>1. UNCHANGED <<slot, nextId, shellVars>>
    BY <1>18, Frames DEF registryVars
  <2> QED BY <2>1, ThreadsKept
<1> QED BY <1>1, <1>2, <1>3, <1>4, <1>5, <1>6, <1>7, <1>8, <1>9, <1>10, <1>11, <1>12, <1>13,
           <1>14, <1>15, <1>16, <1>17, <1>18 DEF Next, Loader, Endpoint, Shell

\* Only a load whose archive was extracted to the end completes.
LEMMA CompletedStep ==
  ASSUME Inv, [Next]_vars
  PROVE  CompletedInstalled'
<1> USE DEF CompletedInstalled
<1>1. ASSUME NEW t \in Triples, LoadTarget(t)
      PROVE  CompletedInstalled'
  <2>1. UNCHANGED <<completed, installed>>
    BY <1>1 DEF LoadTarget, Fatal, gateVars, shellVars
  <2> QED BY <2>1 DEF Inv, CompletedInstalled
<1>2. ASSUME NEW t \in Triples, TerminalLoad(t)
      PROVE  CompletedInstalled'
  <2>1. UNCHANGED <<completed, installed>>
    BY <1>2 DEF TerminalLoad, Fatal, gateVars, shellVars
  <2> QED BY <2>1 DEF Inv, CompletedInstalled
<1>3. CASE LoadStarts
  <2>1. UNCHANGED <<completed, installed>>
    BY <1>3 DEF LoadStarts, Fatal, gateVars, shellVars
  <2> QED BY <2>1 DEF Inv, CompletedInstalled
<1>4. CASE Prefetched
  <2>1. UNCHANGED <<completed, installed>>
    BY <1>4 DEF Prefetched, Fatal, gateVars, shellVars
  <2> QED BY <2>1 DEF Inv, CompletedInstalled
<1>5. CASE PrefetchFails \/ StartRejected \/ Released
  <2>1. PICK ok \in BOOLEAN : LoadEnds(ok) /\ (ok => Head(queue) \in installed)
    BY <1>5, LoadEndings
  <2>2. installed' = installed
    BY <1>5, LoadEndings DEF shellVars
  <2>3. completed \subseteq installed
    BY DEF Inv, CompletedInstalled
  <2> QED BY <2>1, <2>2, <2>3 DEF LoadEnds
<1>6. CASE Started
  <2>1. UNCHANGED <<completed, installed>>
    BY <1>6 DEF Started, Fatal, gateVars, shellVars
  <2> QED BY <2>1 DEF Inv, CompletedInstalled
<1>7. CASE StillLoading
  <2>1. UNCHANGED <<completed, installed>>
    BY <1>7 DEF StillLoading, Fatal, gateVars, shellVars
  <2> QED BY <2>1 DEF Inv, CompletedInstalled
<1>8. CASE Wake
  <2>1. UNCHANGED <<completed, installed>>
    BY <1>8 DEF Wake, Fatal, gateVars, shellVars
  <2> QED BY <2>1 DEF Inv, CompletedInstalled
<1>9. CASE CancelAnswered
  <2>1. UNCHANGED <<completed, installed>>
    BY <1>9 DEF CancelAnswered, Fatal, gateVars, shellVars
  <2> QED BY <2>1 DEF Inv, CompletedInstalled
<1>10. CASE TerminalState
  <2>1. UNCHANGED <<completed, installed>>
    BY <1>10 DEF TerminalState, Fatal, gateVars, shellVars
  <2> QED BY <2>1 DEF Inv, CompletedInstalled
<1>11. CASE ErrorAnswered
  <2>1. UNCHANGED <<completed, installed>>
    BY <1>11 DEF ErrorAnswered, Fatal, gateVars, shellVars
  <2> QED BY <2>1 DEF Inv, CompletedInstalled
<1>12. ASSUME NEW r \in Requests, ShellBegins(r)
      PROVE  CompletedInstalled'
  <2>1. UNCHANGED <<completed, installed>>
    BY <1>12 DEF ShellBegins, Fatal, gateVars, shellVars
  <2> QED BY <2>1 DEF Inv, CompletedInstalled
<1>13. ASSUME NEW r \in Threads, ShellLocks(r)
      PROVE  CompletedInstalled'
  <2>1. UNCHANGED <<completed, installed>>
    BY <1>13 DEF ShellLocks, Fatal, gateVars, shellVars
  <2> QED BY <2>1 DEF Inv, CompletedInstalled
<1>14. ASSUME NEW r \in Threads, ShellFetches(r)
      PROVE  CompletedInstalled'
  <2>1. UNCHANGED <<completed, installed>>
    BY <1>14 DEF ShellFetches, Fatal, gateVars, shellVars
  <2> QED BY <2>1 DEF Inv, CompletedInstalled
<1>15. ASSUME NEW r \in Threads, ShellReads(r)
      PROVE  CompletedInstalled'
  <2>1. completed' = completed /\ installed \subseteq installed'
    BY <1>15 DEF ShellReads, gateVars
  <2> QED BY <2>1 DEF Inv, CompletedInstalled
<1>16. ASSUME NEW r \in Threads, ShellStops(r)
      PROVE  CompletedInstalled'
  <2>1. UNCHANGED <<completed, installed>>
    BY <1>16 DEF ShellStops, Fatal, gateVars, shellVars
  <2> QED BY <2>1 DEF Inv, CompletedInstalled
<1>17. ASSUME NEW r \in Threads, ShellFinishes(r)
      PROVE  CompletedInstalled'
  <2>1. UNCHANGED <<completed, installed>>
    BY <1>17 DEF ShellFinishes, Fatal, gateVars, shellVars
  <2> QED BY <2>1 DEF Inv, CompletedInstalled
<1>18. CASE UNCHANGED vars
  <2>1. UNCHANGED <<completed, installed>>
    BY <1>18 DEF vars, Fatal, gateVars, shellVars
  <2> QED BY <2>1 DEF Inv, CompletedInstalled
<1>19. CASE Run \/ RunFlushed \/ RunSettles \/ Dispose \/ TransportTimeout \/ CallRejected
  <2>1. UNCHANGED <<completed, installed>>
    BY <1>19, Frames DEF gateVars, shellVars
  <2> QED BY <2>1 DEF Inv
<1>20. CASE Endpoint
  <2>1. UNCHANGED <<completed, installed>>
    BY <1>20, Frames DEF gateVars, shellVars
  <2> QED BY <2>1 DEF Inv
<1> QED BY <1>1, <1>2, <1>3, <1>4, <1>5, <1>6, <1>7, <1>8, <1>9, <1>10, <1>11, <1>12, <1>13,
           <1>14, <1>15, <1>16, <1>17, <1>18, <1>19, <1>20 DEF Next, Loader, Endpoint, Shell

\* A thread reads from the place in its own archive where it stopped.
LEMMA ReadsStep ==
  ASSUME Inv, [Next]_vars
  PROVE  ReadsOwnArchive'
<1>1. ASSUME NEW t \in Triples, LoadTarget(t)
      PROVE  ReadsOwnArchive'
  <2>1. UNCHANGED <<thread, what, left, stream>>
    BY <1>1 DEF LoadTarget, Fatal, shellVars, storeVars
  <2> QED BY <2>1 DEF Inv, ReadsOwnArchive
<1>2. ASSUME NEW t \in Triples, TerminalLoad(t)
      PROVE  ReadsOwnArchive'
  <2>1. /\ thread' = [thread EXCEPT ![0] = "locking"] /\ what' = [what EXCEPT ![0] = t]
        /\ UNCHANGED <<left, stream>>
    BY <1>2 DEF TerminalLoad, storeVars
  <2>2. /\ thread'[0] = "locking"
        /\ \A q \in Threads \ {0} : thread'[q] = thread[q] /\ what'[q] = what[q]
    BY <2>1, Values DEF Inv, TypeOK
  <2> QED BY <2>1, <2>2 DEF Inv, ReadsOwnArchive
<1>3. CASE HandleStart
  <2>1. /\ thread' = [thread EXCEPT ![nextId] = "typed"] /\ nextId \in Requests
        /\ what' = [what EXCEPT ![nextId] = Head(queue)] /\ UNCHANGED <<left, stream>>
    BY <1>3 DEF HandleStart, storeVars
  <2>2. /\ thread'[nextId] = "typed"
        /\ \A q \in Threads \ {nextId} : thread'[q] = thread[q] /\ what'[q] = what[q]
    BY <2>1, Values DEF Inv, TypeOK
  <2> QED BY <2>1, <2>2 DEF Inv, ReadsOwnArchive
<1>4. CASE HandleStartRejected
  <2>1. UNCHANGED <<thread, what, left, stream>>
    BY <1>4 DEF HandleStartRejected, Fatal, shellVars, storeVars
  <2> QED BY <2>1 DEF Inv, ReadsOwnArchive
<1>5. CASE HandleState
  <2>1. UNCHANGED <<thread, what, left, stream>>
    BY <1>5 DEF HandleState, Fatal, shellVars, storeVars
  <2> QED BY <2>1 DEF Inv, ReadsOwnArchive
<1>6. CASE HandleError
  <2>1. UNCHANGED <<thread, what, left, stream>>
    BY <1>6 DEF HandleError, Fatal, shellVars, storeVars
  <2> QED BY <2>1 DEF Inv, ReadsOwnArchive
<1>7. CASE HandleCancel
  <2>1. UNCHANGED <<thread, what, left, stream>>
    BY <1>7 DEF HandleCancel, Fatal, shellVars, storeVars
  <2> QED BY <2>1 DEF Inv, ReadsOwnArchive
<1>8. CASE HandleRelease
  <2>1. UNCHANGED <<thread, what, left, stream>>
    BY <1>8 DEF HandleRelease, Fatal, shellVars, storeVars
  <2> QED BY <2>1 DEF Inv, ReadsOwnArchive
<1>9. CASE HandleTraps
  <2>1. UNCHANGED <<thread, what, left, stream>>
    BY <1>9 DEF HandleTraps, Fatal, shellVars, storeVars
  <2> QED BY <2>1 DEF Inv, ReadsOwnArchive
<1>10. ASSUME NEW r \in Requests, ShellBegins(r)
      PROVE  ReadsOwnArchive'
  <2>1. /\ UNCHANGED <<what, left, stream>>
        /\ \E v \in {"locking", "over"} : thread' = [thread EXCEPT ![r] = v]
    BY <1>10 DEF ShellBegins, storeVars
  <2>2. thread'[r] # "reading" /\ \A q \in Threads \ {r} : thread'[q] = thread[q]
    BY <2>1, Values DEF Inv, TypeOK
  <2> QED BY <2>1, <2>2 DEF Inv, ReadsOwnArchive
<1>11. ASSUME NEW r \in Threads, ShellLocks(r)
      PROVE  ReadsOwnArchive'
  <2>1. UNCHANGED <<what, left, stream>> /\ thread' = [thread EXCEPT ![r] = "fetching"]
    BY <1>11 DEF ShellLocks, storeVars
  <2>2. thread'[r] # "reading" /\ \A q \in Threads \ {r} : thread'[q] = thread[q]
    BY <2>1 DEF Inv, TypeOK
  <2> QED BY <2>1, <2>2 DEF Inv, ReadsOwnArchive
<1>12. ASSUME NEW r \in Threads, ShellFetches(r)
      PROVE  ReadsOwnArchive'
  <2>1. /\ thread[r] = "fetching" /\ left' = [left EXCEPT ![r] = Chunks]
        /\ thread' = [thread EXCEPT ![r] = "reading"]
        /\ stream' = [triple |-> what[r], left |-> Chunks] /\ what' = what
    BY <1>12 DEF ShellFetches
  <2>2. /\ left'[r] = Chunks
        /\ \A q \in Threads \ {r} : thread'[q] = thread[q]
    BY <2>1 DEF Inv, TypeOK
  <2>3. \A q \in Threads \ {r} : thread[q] # "reading"
    BY <2>1 DEF Inv, ThreadsServe
  <2> QED BY <2>1, <2>2, <2>3 DEF ReadsOwnArchive
<1>13. ASSUME NEW r \in Threads, ShellReads(r)
      PROVE  ReadsOwnArchive'
  <2>1. /\ thread[r] = "reading" /\ what' = what
        /\ stream' = IF stream.left = 1 THEN [triple |-> NoTriple, left |-> 0]
                     ELSE [stream EXCEPT !.left = stream.left - 1]
    BY <1>13 DEF ShellReads
  <2>2. stream.triple = what[r] /\ stream.left = left[r]
    BY <2>1 DEF Inv, ReadsOwnArchive
  <2>3. \A q \in Threads \ {r} : thread[q] # "reading"
    BY <2>1 DEF Inv, ThreadsServe
  <2>4. CASE thread' = [thread EXCEPT ![r] = "loaded"]
    <3>1. thread'[r] = "loaded" /\ \A q \in Threads \ {r} : thread'[q] = thread[q]
      BY <2>4 DEF Inv, TypeOK
    <3> QED BY <2>3, <3>1 DEF ReadsOwnArchive
  <2>5. CASE left[r] # 1 /\ left' = [left EXCEPT ![r] = left[r] - 1] /\ thread' = thread
    <3>1. left'[r] = left[r] - 1
      BY <2>5 DEF Inv, TypeOK
    <3>2. stream'.triple = stream.triple /\ stream'.left = stream.left - 1
      BY <2>1, <2>2, <2>5 DEF Inv, TypeOK
    <3> QED BY <2>1, <2>2, <2>3, <2>5, <3>1, <3>2 DEF ReadsOwnArchive
  <2> QED BY <1>13, <2>4, <2>5 DEF ShellReads
<1>14. ASSUME NEW r \in Threads, ShellStops(r)
      PROVE  ReadsOwnArchive'
  <2>1. /\ thread[r] \in {"fetching", "reading"} /\ UNCHANGED <<what, stream>>
        /\ thread' = [thread EXCEPT ![r] = "failed"]
    BY <1>14 DEF ShellStops, storeVars
  <2>2. thread'[r] = "failed" /\ \A q \in Threads \ {r} : thread'[q] = thread[q]
    BY <2>1 DEF Inv, TypeOK
  <2>3. \A q \in Threads \ {r} : thread[q] # "reading"
    BY <2>1 DEF Inv, ThreadsServe
  <2> QED BY <2>2, <2>3 DEF ReadsOwnArchive
<1>15. ASSUME NEW r \in Threads, ShellFinishes(r)
      PROVE  ReadsOwnArchive'
  <2>1. UNCHANGED <<what, left, stream>> /\ thread' = [thread EXCEPT ![r] = "over"]
    BY <1>15 DEF ShellFinishes, storeVars
  <2>2. thread'[r] # "reading" /\ \A q \in Threads \ {r} : thread'[q] = thread[q]
    BY <2>1 DEF Inv, TypeOK
  <2> QED BY <2>1, <2>2 DEF Inv, ReadsOwnArchive
<1>16. CASE UNCHANGED vars
  <2>1. UNCHANGED <<thread, what, left, stream>>
    BY <1>16 DEF vars, Fatal, shellVars, storeVars
  <2> QED BY <2>1 DEF Inv, ReadsOwnArchive
<1>17. CASE Run \/ RunFlushed \/ RunSettles \/ Dispose \/ TransportTimeout
  <2>1. UNCHANGED <<thread, what, left, stream>>
    BY <1>17, Frames DEF shellVars, storeVars
  <2> QED BY <2>1 DEF Inv, ReadsOwnArchive
<1>18. CASE Loader
  <2>1. UNCHANGED <<thread, what, left, stream>>
    BY <1>18, Frames DEF shellVars, storeVars
  <2> QED BY <2>1 DEF Inv, ReadsOwnArchive
<1> QED BY <1>1, <1>2, <1>3, <1>4, <1>5, <1>6, <1>7, <1>8, <1>9, <1>10, <1>11, <1>12, <1>13,
           <1>14, <1>15, <1>16, <1>17, <1>18 DEF Next, Loader, Endpoint, Shell

-----------------------------------------------------------------------------
(* The theorems.                                                            *)

\* Inv holds in every reachable state.
THEOREM Invariance == Spec => []Inv
<1>1. Inv /\ [Next]_vars => Inv'
  BY TypeStep, GateStep, AsksStep, PolledStep, ServeStep, CompletedStep, ReadsStep DEF Inv
<1> QED BY <1>1, InitInv, PTL DEF Spec

\* Run and target loading exclude each other (AppRuntime.run and loadTarget): while a
\* Run is admitted no request is registered and none is extracted, whichever loads
\* timed out, failed or trapped before it.
THEOREM RunsExcludeInstalls == Spec => []RunExcludesInstall
<1>1. Inv => RunExcludesInstall
  <2> SUFFICES ASSUME Inv, phase = "ready", operation = "run"
               PROVE  Used = {} /\ \A r \in Requests : thread[r] \notin Extracting
    BY DEF RunExcludesInstall
  <2>1. queue = <<>>
    BY DEF Inv, GateHeld
  <2>2. loader = NoLoad /\ rpc = NoCall
    BY <2>1 DEF Inv, GateHeld, LoaderAsks
  <2>3. Used = {}
    BY <2>2, NothingPolled DEF NoLoad, NoCall
  <2> QED BY <2>3 DEF Used, Inv, ThreadsServe
<1> QED BY <1>1, Invariance, PTL

\* Page, registry, sessions, threads and store agree about the load under way: no
\* failure leaks a slot or a session, success means a whole archive, and each thread
\* reads its own from the one stream.
THEOREM LoadsAreTracked == Spec => []LoadsTracked
<1>1. Inv => LoadsTracked
  BY DEF Inv, LoadsTracked, RequestsOwned, RequestPolled, Polled
<1> QED BY <1>1, Invariance, PTL
=============================================================================
