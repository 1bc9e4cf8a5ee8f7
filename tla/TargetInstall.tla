----------------------------- MODULE TargetInstall -----------------------------
(***************************************************************************)
(* Additional targets of one ready generation: the gate that AppRuntime    *)
(* keeps between Run and target loading (page/src/app_runtime.ts), the     *)
(* loader that polls one extraction (app_startup_lifecycle.ts), the        *)
(* endpoint of the utility worker with its hidden sessions                 *)
(* (vfs_readiness.ts), the guest's registry of requests and the shell      *)
(* threads that extract (crates/vfs-shell), and the one archive stream of  *)
(* the page's store (sysroot_archive_store.ts).                            *)
(*                                                                         *)
(* The chain of promises that serialises the loads is the queue itself:    *)
(* its head is the load that runs.  Thread 0 is a load_sysroot that a user *)
(* types in a terminal; thread r > 0 serves request r.                     *)
(***************************************************************************)
EXTENDS Integers, FiniteSets, Sequences

CONSTANTS Triples,      \* the targets other than the one loaded at startup
          NoTriple,     \* what an idle thread and an ended stream are about
          Capacity,     \* registry slots, and hidden sessions
          Chunks,       \* reads of an archive
          MaxRequests   \* bound: request ids, after which register() returns 0

ASSUME InstallAssumption ==
  /\ Capacity \in Nat \ {0} /\ Chunks \in Nat \ {0} /\ MaxRequests \in Nat
  /\ NoTriple \notin Triples

VARIABLES
  phase, operation, queue, completed, command,  \* AppRuntime
  loader, rpc,                                  \* the load of Head(queue), its call
  slot, nextId, busy,                           \* registry, ids with a session
  thread, what, left, lock,                     \* shell threads, SYSROOT_LOAD_LOCK
  archives, stream,                             \* archive store
  installed                                     \* targets extracted to the end

gateVars == <<operation, queue, completed, command>>
registryVars == <<slot, nextId, busy>>
shellVars == <<thread, what, left, lock, installed>>
storeVars == <<archives, stream>>
vars == <<phase, gateVars, loader, rpc, registryVars, shellVars, storeVars>>

Requests == 1..MaxRequests
Threads == 0..MaxRequests
NoOne == -1

\* An answer is a number as in the code; -1 stands for a rejected promise.
Calls == [op : {"none", "start", "state", "error", "cancel", "release"},
          at : {"sent", "answered"}, value : -1..(MaxRequests + 3)]
NoCall == [op |-> "none", at |-> "answered", value |-> 0]

Loaders == [step : {"none", "prefetch", "calling", "pause"}, id : Threads,
            expired : BOOLEAN, cancelRequested : BOOLEAN, failed : BOOLEAN]
NoLoad == [step |-> "none", id |-> 0, expired |-> FALSE, cancelRequested |-> FALSE,
           failed |-> FALSE]

Slots == [state : {"empty", "pending", "loading", "ready", "failed"}, cancelled : BOOLEAN]
EMPTY == [state |-> "empty", cancelled |-> FALSE]

ThreadSteps == {"none", "typed", "locking", "fetching", "reading", "loaded", "failed", "over"}
\* The steps between begin() and finish().
Extracting == {"locking", "fetching", "reading", "loaded", "failed"}

Queued == {queue[i] : i \in 1..Len(queue)}
Used == {r \in Requests : slot[r].state # "empty"}

TypeOK ==
  /\ phase \in {"ready", "gone"}
  /\ operation \in {"idle", "run", "target"} /\ command \in {"none", "flush", "running"}
  /\ queue \in Seq(Triples) /\ completed \subseteq Triples
  /\ loader \in Loaders /\ rpc \in Calls
  /\ slot \in [Requests -> Slots] /\ nextId \in 1..(MaxRequests + 1)
  /\ busy \subseteq Requests
  /\ thread \in [Threads -> ThreadSteps] /\ what \in [Threads -> Triples \cup {NoTriple}]
  /\ left \in [Threads -> 0..Chunks] /\ lock \in Threads \cup {NoOne}
  /\ archives \subseteq Triples /\ installed \subseteq Triples
  /\ stream \in [triple : Triples \cup {NoTriple}, left : 0..Chunks]

Init ==
  /\ phase = "ready" /\ operation = "idle" /\ command = "none"
  /\ queue = <<>> /\ completed = {} /\ loader = NoLoad /\ rpc = NoCall
  /\ slot = [r \in Requests |-> EMPTY] /\ nextId = 1 /\ busy = {}
  /\ thread = [r \in Threads |-> "none"] /\ what = [r \in Threads |-> NoTriple]
  /\ left = [r \in Threads |-> 0] /\ lock = NoOne
  /\ archives = {} /\ stream = [triple |-> NoTriple, left |-> 0] /\ installed = {}

-----------------------------------------------------------------------------
(* AppRuntime: the gate.                                                    *)

\* run(): refused while anything is running or queued.
Run ==
  /\ phase = "ready" /\ operation = "idle" /\ queue = <<>>
  /\ operation' = "run" /\ command' = "flush"
  /\ UNCHANGED <<phase, queue, completed, loader, rpc, registryVars, shellVars, storeVars>>

RunFlushed ==
  /\ phase = "ready" /\ command = "flush" /\ command' = "running"
  /\ UNCHANGED <<phase, operation, queue, completed, loader, rpc, registryVars, shellVars,
                 storeVars>>

\* The flush fails, the command ends, or the generation's signal wins the race.
RunSettles ==
  /\ command # "none" /\ command' = "none"
  /\ operation' = IF phase = "ready" THEN "idle" ELSE operation
  /\ UNCHANGED <<phase, queue, completed, loader, rpc, registryVars, shellVars, storeVars>>

\* loadTarget(): a call for a completed or a queued triple adds nothing.
LoadTarget(t) ==
  /\ phase = "ready" /\ operation # "run" /\ t \notin completed /\ t \notin Queued
  /\ queue' = Append(queue, t) /\ operation' = "target"
  /\ UNCHANGED <<phase, completed, command, loader, rpc, registryVars, shellVars, storeVars>>

\* The head's promise settles: the next link of the chain may run.
LoadEnds(ok) ==
  /\ queue' = Tail(queue) /\ completed' = IF ok THEN completed \cup {Head(queue)} ELSE completed
  /\ operation' = IF Len(queue) = 1 THEN "idle" ELSE "target"
  /\ loader' = NoLoad /\ rpc' = NoCall
  /\ UNCHANGED <<phase, command>>

\* dispose(), or reportFatal(): the generation's signal aborts.
Dispose ==
  /\ phase = "ready" /\ phase' = "gone"
  /\ UNCHANGED <<gateVars, loader, rpc, registryVars, shellVars, storeVars>>

-----------------------------------------------------------------------------
(* The loader, runAcceptedTargetExtraction.                                 *)

Send(op) == rpc' = [op |-> op, at |-> "sent", value |-> 0]

Answer(op, values) ==
  phase = "ready" /\ rpc.op = op /\ rpc.at = "answered" /\ rpc.value \in values

LoadStarts ==
  /\ phase = "ready" /\ queue # <<>> /\ loader.step = "none"
  /\ loader' = [loader EXCEPT !.step = "prefetch"]
  /\ UNCHANGED <<phase, gateVars, rpc, registryVars, shellVars, storeVars>>

\* The store keeps what it fetched; a failed fetch is forgotten.
Prefetched ==
  /\ phase = "ready" /\ loader.step = "prefetch"
  /\ archives' = archives \cup {Head(queue)}
  /\ loader' = [loader EXCEPT !.step = "calling"] /\ Send("start")
  /\ UNCHANGED <<phase, gateVars, registryVars, shellVars, stream>>

PrefetchFails ==
  /\ phase = "ready" /\ loader.step = "prefetch" /\ Head(queue) \notin archives
  /\ LoadEnds(FALSE)
  /\ UNCHANGED <<registryVars, shellVars, storeVars>>

Started ==
  /\ Answer("start", Requests)
  /\ loader' = [loader EXCEPT !.id = rpc.value] /\ Send("state")
  /\ UNCHANGED <<phase, gateVars, registryVars, shellVars, storeVars>>

\* No request was accepted: the load fails, the runtime stays.
StartRejected ==
  /\ Answer("start", {-1}) /\ LoadEnds(FALSE)
  /\ UNCHANGED <<registryVars, shellVars, storeVars>>

\* Not terminal: sleep, and perhaps find that the time is over.
StillLoading ==
  /\ Answer("state", {0, 1})
  /\ \E expired \in {loader.expired, TRUE} :
       loader' = [loader EXCEPT !.step = "pause", !.expired = expired]
  /\ rpc' = NoCall
  /\ UNCHANGED <<phase, gateVars, registryVars, shellVars, storeVars>>

\* The sleep is over: cancel once after a timeout, then go on polling.
Wake ==
  /\ phase = "ready" /\ loader.step = "pause"
  /\ loader' = [loader EXCEPT !.step = "calling"]
  /\ IF loader.expired /\ ~loader.cancelRequested THEN Send("cancel") ELSE Send("state")
  /\ UNCHANGED <<phase, gateVars, registryVars, shellVars, storeVars>>

CancelAnswered ==
  /\ Answer("cancel", {0, 1})
  /\ loader' = [loader EXCEPT !.cancelRequested = TRUE] /\ Send("state")
  /\ UNCHANGED <<phase, gateVars, registryVars, shellVars, storeVars>>

\* Ready or failed: the reason of a failure is read before the release.
TerminalState ==
  /\ Answer("state", {2, 3})
  /\ IF rpc.value = 3 /\ ~loader.expired THEN Send("error") ELSE Send("release")
  /\ UNCHANGED <<phase, gateVars, loader, registryVars, shellVars, storeVars>>

ErrorAnswered ==
  /\ Answer("error", {0})
  /\ loader' = [loader EXCEPT !.failed = TRUE] /\ Send("release")
  /\ UNCHANGED <<phase, gateVars, registryVars, shellVars, storeVars>>

Released ==
  /\ Answer("release", {0, 1})
  /\ LoadEnds(rpc.value = 1 /\ ~loader.expired /\ ~loader.failed)
  /\ UNCHANGED <<registryVars, shellVars, storeVars>>

Fatal == /\ phase' = "gone"
         /\ UNCHANGED <<gateVars, loader, rpc, registryVars, shellVars, storeVars>>

\* A call that is rejected once a request was accepted is fatal to the runtime.
CallRejected ==
  /\ phase = "ready" /\ rpc.at = "answered" /\ rpc.value = -1 /\ rpc.op # "start"
  /\ Fatal

\* So is any call that takes five seconds, whatever became of it.
TransportTimeout == phase = "ready" /\ rpc.op # "none" /\ Fatal

-----------------------------------------------------------------------------
(* The utility worker's endpoint and the guest's registry.                  *)

Calling(op) == rpc.op = op /\ rpc.at = "sent"
Reply(value) == rpc' = [rpc EXCEPT !.at = "answered", !.value = value]

\* start: a slot, a hidden session, and the command typed into it.
HandleStart ==
  /\ Calling("start") /\ nextId \in Requests
  /\ Cardinality(Used) < Capacity /\ Cardinality(busy) < Capacity
  /\ slot' = [slot EXCEPT ![nextId] = [state |-> "pending", cancelled |-> FALSE]]
  /\ busy' = busy \cup {nextId} /\ nextId' = nextId + 1
  /\ thread' = [thread EXCEPT ![nextId] = "typed"]
  /\ what' = [what EXCEPT ![nextId] = Head(queue)]
  /\ Reply(nextId)
  /\ UNCHANGED <<phase, gateVars, loader, left, lock, installed, storeVars>>

\* Mutant: a request whose session cannot be had is only cancelled.
HandleStartLeaks ==
  /\ Calling("start") /\ Reply(-1)
  /\ IF nextId \in Requests /\ Cardinality(Used) < Capacity
     THEN /\ slot' = [slot EXCEPT ![nextId] = [state |-> "failed", cancelled |-> FALSE]]
          /\ nextId' = nextId + 1
     ELSE UNCHANGED <<slot, nextId>>
  /\ UNCHANGED <<phase, gateVars, loader, busy, shellVars, storeVars>>

\* No slot or no id is left; or there is no session or dispatch() throws, and
\* the request just registered is cancelled and released again.
HandleStartRejected ==
  /\ Calling("start") /\ Reply(-1)
  /\ nextId' = IF nextId \in Requests /\ Cardinality(Used) < Capacity THEN nextId + 1
               ELSE nextId
  /\ UNCHANGED <<phase, gateVars, loader, slot, busy, shellVars, storeVars>>

StateCode(r) == CASE slot[r].state = "pending" -> 0
                  [] slot[r].state = "loading" -> 1
                  [] slot[r].state = "ready" -> 2
                  [] OTHER -> 3

HandleState ==
  /\ Calling("state") /\ Reply(StateCode(loader.id))
  /\ UNCHANGED <<phase, gateVars, loader, registryVars, shellVars, storeVars>>

HandleError ==
  /\ Calling("error") /\ Reply(0)
  /\ UNCHANGED <<phase, gateVars, loader, registryVars, shellVars, storeVars>>

\* Mutant: a request that is loading is failed at once.
CancelledAtOnce(q) ==
  IF q.state \in {"pending", "loading"} THEN [q EXCEPT !.state = "failed", !.cancelled = TRUE]
  ELSE q

\* cancel(): a request not begun fails, one that loads is told to stop.
Cancelled(q) == CASE q.state = "pending" -> [q EXCEPT !.state = "failed"]
                  [] q.state = "loading" -> [q EXCEPT !.cancelled = TRUE]
                  [] OTHER -> q

HandleCancel ==
  /\ Calling("cancel")
  /\ slot' = [slot EXCEPT ![loader.id] = Cancelled(@)]
  /\ Reply(IF slot[loader.id].state \in {"pending", "loading"} THEN 1 ELSE 0)
  /\ UNCHANGED <<phase, gateVars, loader, nextId, busy, shellVars, storeVars>>

\* release: the slot is emptied and the session closed and given back.
HandleRelease ==
  /\ Calling("release")
  /\ IF slot[loader.id].state \in {"ready", "failed"}
     THEN /\ slot' = [slot EXCEPT ![loader.id] = EMPTY]
          /\ busy' = busy \ {loader.id} /\ Reply(1)
     ELSE Reply(0) /\ UNCHANGED <<slot, busy>>
  /\ UNCHANGED <<phase, gateVars, loader, nextId, shellVars, storeVars>>

\* The guest traps under a call other than start.
HandleTraps ==
  /\ rpc.op \notin {"none", "start"} /\ rpc.at = "sent" /\ Reply(-1)
  /\ UNCHANGED <<phase, gateVars, loader, registryVars, shellVars, storeVars>>

-----------------------------------------------------------------------------
(* The shell threads: load_sysroot.                                         *)

\* A user types load_sysroot in a terminal, once.
TerminalLoad(t) ==
  /\ thread[0] = "none"
  /\ thread' = [thread EXCEPT ![0] = "locking"] /\ what' = [what EXCEPT ![0] = t]
  /\ UNCHANGED <<phase, gateVars, loader, rpc, registryVars, left, lock, installed, storeVars>>

\* begin(): only a pending request is served; a closed session drains its input.
ShellBegins(r) ==
  /\ thread[r] = "typed"
  /\ IF slot[r].state = "pending"
     THEN /\ slot' = [slot EXCEPT ![r].state = "loading"]
          /\ thread' = [thread EXCEPT ![r] = "locking"]
     ELSE thread' = [thread EXCEPT ![r] = "over"] /\ UNCHANGED slot
  /\ UNCHANGED <<phase, gateVars, loader, rpc, nextId, busy, what, left, lock, installed,
                 storeVars>>

ShellLocks(r) ==
  /\ thread[r] = "locking" /\ lock = NoOne /\ lock' = r
  /\ thread' = [thread EXCEPT ![r] = "fetching"]
  /\ UNCHANGED <<phase, gateVars, loader, rpc, registryVars, what, left, installed, storeVars>>

\* sysroot_start_fetch and the archive's length: the store's one stream.
ShellFetches(r) ==
  /\ thread[r] = "fetching" /\ what[r] \in archives
  /\ stream' = [triple |-> what[r], left |-> Chunks] /\ left' = [left EXCEPT ![r] = Chunks]
  /\ thread' = [thread EXCEPT ![r] = "reading"]
  /\ UNCHANGED <<phase, gateVars, loader, rpc, registryVars, what, lock, installed, archives>>

IsCancelled(r) == r \in Requests /\ slot[r].cancelled

\* One chunk.  The extraction, and the lock, end with the archive or with the
\* end mark that tar finds before it; the stream ends with its last byte.
ShellReads(r) ==
  /\ thread[r] = "reading" /\ ~IsCancelled(r) /\ stream.left > 0
  /\ stream' = IF stream.left = 1 THEN [triple |-> NoTriple, left |-> 0]
               ELSE [stream EXCEPT !.left = @ - 1]
  /\ \E ends \in {left[r] = 1, TRUE} :
       IF ends
       THEN /\ thread' = [thread EXCEPT ![r] = "loaded"] /\ left' = [left EXCEPT ![r] = 0]
            /\ lock' = NoOne /\ installed' = installed \cup {what[r]}
       ELSE /\ left' = [left EXCEPT ![r] = @ - 1] /\ UNCHANGED <<thread, lock, installed>>
  /\ UNCHANGED <<phase, gateVars, loader, rpc, registryVars, what, archives>>

\* No archive, a cancelled request, or an entry that cannot be written.
ShellStops(r) ==
  /\ thread[r] \in {"fetching", "reading"}
  /\ thread' = [thread EXCEPT ![r] = "failed"] /\ left' = [left EXCEPT ![r] = 0]
  /\ lock' = NoOne
  /\ UNCHANGED <<phase, gateVars, loader, rpc, registryVars, what, installed, storeVars>>

\* Mutant: a cancelled request is left as it is.
FinishedUnlessCancelled(r) ==
  CASE slot[r].state # "loading" \/ slot[r].cancelled -> slot[r]
    [] thread[r] = "loaded" -> [slot[r] EXCEPT !.state = "ready"]
    [] OTHER -> [slot[r] EXCEPT !.state = "failed"]

\* finish(): a cancellation wins over a late success.
Finished(r) ==
  CASE slot[r].state # "loading" -> slot[r]
    [] thread[r] = "loaded" /\ ~slot[r].cancelled -> [slot[r] EXCEPT !.state = "ready"]
    [] OTHER -> [slot[r] EXCEPT !.state = "failed"]

ShellFinishes(r) ==
  /\ thread[r] \in {"loaded", "failed"} /\ thread' = [thread EXCEPT ![r] = "over"]
  /\ IF r \in Requests THEN slot' = [slot EXCEPT ![r] = Finished(r)] ELSE UNCHANGED slot
  /\ UNCHANGED <<phase, gateVars, loader, rpc, nextId, busy, what, left, lock, installed,
                 storeVars>>

-----------------------------------------------------------------------------
Loader ==
  \/ LoadStarts \/ Prefetched \/ PrefetchFails \/ Started \/ StartRejected \/ StillLoading
  \/ Wake \/ CancelAnswered \/ TerminalState \/ ErrorAnswered \/ Released
  \/ CallRejected
Endpoint ==
  \/ HandleStart \/ HandleStartRejected \/ HandleState \/ HandleError \/ HandleCancel
  \/ HandleRelease \/ HandleTraps
Shell(r) ==
  \/ ShellLocks(r) \/ ShellFetches(r) \/ ShellReads(r) \/ ShellStops(r) \/ ShellFinishes(r)

Next ==
  \/ Run \/ RunFlushed \/ RunSettles \/ Dispose \/ TransportTimeout
  \/ \E t \in Triples : LoadTarget(t) \/ TerminalLoad(t)
  \/ Loader \/ Endpoint
  \/ \E r \in Requests : ShellBegins(r)
  \/ \E r \in Threads : Shell(r)

\* The page's and the utility worker's event loops go on, and so do the shell's
\* threads: an archive is in memory when its extraction starts.
Fairness == /\ WF_vars(Loader) /\ WF_vars(Endpoint)
            /\ \A r \in Requests : WF_vars(ShellBegins(r))
            /\ \A r \in Threads : WF_vars(Shell(r))

Spec == Init /\ [][Next]_vars
FairSpec == Spec /\ Fairness

-----------------------------------------------------------------------------
(* Properties.                                                              *)

\* Run and target loading share the guest: while a Run is admitted no request
\* is registered and no extraction of one goes on, whatever became of the loads
\* before it, those that timed out or failed included.
RunExcludesInstall ==
  phase = "ready" /\ operation = "run" =>
    Used = {} /\ \A r \in Requests : thread[r] \notin Extracting

\* Every registered request is the one the loader polls, or on its way to it,
\* and holds one session: no failure path leaks either of them.
RequestsOwned ==
  phase = "ready" =>
    /\ busy = Used
    /\ \A r \in Used : r = loader.id \/ (rpc.op = "start" /\ rpc.value = r)

\* A target counts as loaded only when its archive was extracted to the end.
CompletedInstalled == completed \subseteq installed

\* The store has one stream for everybody; what a thread reads from it is its
\* own target's archive, from the place where it stopped.
ReadsOwnArchive ==
  \A r \in Threads : thread[r] = "reading" =>
    stream.triple = what[r] /\ stream.left = left[r]

\* What the page, the registry and the store know of a load agrees, whichever of them
\* was the one to fail: no slot leaks, and success means a whole archive of its own.
LoadsTracked == TypeOK /\ RequestsOwned /\ CompletedInstalled /\ ReadsOwnArchive

\* Every accepted loadTarget() settles, after a timeout too, or the runtime is
\* torn down.
LoadsEnd == \A t \in Triples : []<>(t \notin Queued \/ phase = "gone")

-----------------------------------------------------------------------------
(* The inductive invariant behind the safety properties.                    *)

\* The gate: a Run has the runtime to itself, and only a queue has a loader.
GateHeld ==
  /\ phase = "ready" => /\ operation = "run" <=> command # "none"
                        /\ operation = "target" <=> queue # <<>>
  /\ queue = <<>> => loader.step = "none"

\* What the steps of the loader know: which call is out, and about which request.
LoaderAsks ==
  /\ loader.step = "none" => loader = NoLoad
  /\ loader.step # "calling" => rpc = NoCall
  /\ loader.step = "prefetch" => loader.id = 0
  /\ loader.step = "pause" => loader.id \in Requests
  /\ loader.step = "calling" => /\ rpc.op # "none" /\ (rpc.op = "start" <=> loader.id = 0)
                                /\ (rpc.at = "sent" => rpc.value = 0)

\* The request that the loader polls, or is about to.
Polled(r) == r \in Requests /\ (r = loader.id \/ (rpc.op = "start" /\ rpc.value = r))

\* Registry and sessions name one request, that of the load under way; a call that
\* ends it is made only for a request that is over.
RequestPolled ==
  /\ busy = Used
  /\ \A r \in Used : Polled(r)
  /\ \A r \in Requests : Polled(r) => what[r] = Head(queue)
  /\ \A r \in Requests : Polled(r) /\ ~(rpc.op = "release" /\ rpc.at = "answered") =>
       slot[r].state # "empty"
  /\ rpc.op = "state" /\ rpc.at = "answered" =>
       /\ rpc.value = 2 => slot[loader.id].state = "ready"
       /\ rpc.value = 3 => slot[loader.id].state = "failed"
  /\ rpc.op = "error" \/ (rpc.op = "release" /\ rpc.at = "sent") =>
       slot[loader.id].state \in {"ready", "failed"}
  /\ rpc.op = "release" /\ rpc.at = "answered" =>
       rpc.value = -1 \/ (rpc.value = 1 /\ Used = {})
  /\ rpc.op = "release" /\ ~loader.expired /\ ~loader.failed => what[loader.id] \in installed

\* A shell thread extracts only for a request that is loading, and reads only while it
\* has the lock and with it the one stream.
ThreadsServe ==
  /\ \A r \in Requests : /\ thread[r] \in Extracting => slot[r].state = "loading"
                         /\ r >= nextId => thread[r] = "none" /\ slot[r].state = "empty"
                         /\ slot[r].state = "ready" => what[r] \in installed
  /\ \A r \in Threads : /\ thread[r] # "none" => what[r] \in Triples
                        /\ thread[r] \in {"fetching", "reading"} => lock = r
                        /\ thread[r] = "reading" => left[r] > 0
                        /\ thread[r] = "loaded" => what[r] \in installed

Inv == /\ TypeOK /\ GateHeld /\ LoaderAsks /\ RequestPolled /\ ThreadsServe
       /\ CompletedInstalled /\ ReadsOwnArchive
=============================================================================
