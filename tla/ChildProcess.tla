----------------------------- MODULE ChildProcess -----------------------------
(***************************************************************************)
(* The program that cargo run starts: the guest side in the VFS            *)
(* (crates/vfs/src/lib.rs, run_wasi_child) and the bridge on the main      *)
(* thread (lib/src/child_process_bridge.ts) that runs it in a Worker on    *)
(* the host's file system.  The guest copies the VFS to the host, starts,  *)
(* uploads and runs a request, and imports what a graceful child wrote     *)
(* before it ends the request; the bridge keeps one request, a timer and a *)
(* baseline it restores when the child does not end gracefully.  The VFS   *)
(* instance may trap at any point and be replaced.                         *)
(*                                                                         *)
(* A file's contents are a number: 0 as found, k > 0 the k-th edit made in *)
(* the VFS, -r what the child of request r writes.                         *)
(***************************************************************************)
EXTENDS Integers, FiniteSets
CONSTANTS Paths,        \* the files
          Chunks,       \* upload chunks of a module
          MaxRequests,  \* bound: request ids handed out
          MaxEdits,     \* bound: edits in the VFS
          MaxTraps,     \* bound: VFS instances lost
          Faults,       \* cleanup calls that may throw
          MaxFaults     \* bound: how many of them do

ChildAssumption ==
  /\ Chunks \in Nat \ {0} /\ MaxRequests \in Nat /\ MaxEdits \in Nat
  /\ MaxTraps \in Nat /\ MaxFaults \in Nat /\ Faults \subseteq {"clear", "terminate", "restore"}

VARIABLES
  vfs, host,      \* the files of the guest and those of the farm
  request, nextRequestId, req, childRequests, aborted, disposal,   \* bridge
  guest, own, base,           \* the guest's step, request id and baseline
  edits, traps, faults        \* what the environment did

bridgeVars == <<request, nextRequestId, req, childRequests>>
ownerVars == <<aborted, disposal>>
guestVars == <<guest, own, base>>
boundVars == <<edits, traps, faults>>
vars == <<vfs, host, bridgeVars, ownerVars, guestVars, boundVars>>

Requests == 1..MaxRequests
Contents == (-MaxRequests)..MaxEdits
Files == [Paths -> Contents]

\* One RequestState.  stage is its state (0 before it exists); worker is
\* "muted" when its listeners are gone but terminate() threw; run is what the
\* promise of childProcessRun became: an answer without or with an error text.
Request == [stage : 0..3, uploaded : 0..Chunks, timer : {"none", "upload", "execution"},
            worker : {"none", "live", "muted"}, baseline : Files,
            restore : {"unneeded", "owed", "done"}, recovery : BOOLEAN,
            graceful : BOOLEAN, run : {"none", "pending", "clean", "error", "rejected"}]

GuestSteps == {"idle", "prepared", "uploading", "running", "reading", "importing",
               "ending", "failing", "dead", "booted", "reimporting", "acknowledging"}
\* The shell and the language server serve, and edits reach the VFS.
Serving == GuestSteps \ {"dead", "booted", "reimporting", "acknowledging"}

TypeOK ==
  /\ vfs \in Files /\ host \in Files /\ base \in Files
  /\ req \in [Requests -> Request] /\ childRequests \subseteq Requests
  /\ request \in Requests \cup {0} /\ own \in Requests \cup {0}
  /\ nextRequestId \in 1..(MaxRequests + 1)
  /\ guest \in GuestSteps
  /\ aborted \in BOOLEAN /\ disposal \in {"none", "settling", "done"}
  /\ edits \in 0..MaxEdits /\ traps \in 0..MaxTraps /\ faults \in 0..MaxFaults

AsFound == [p \in Paths |-> 0]

Init ==
  /\ vfs = AsFound /\ host = AsFound /\ base = AsFound
  /\ req = [r \in Requests |->
              [stage |-> 0, uploaded |-> 0, timer |-> "none", worker |-> "none",
               baseline |-> AsFound, restore |-> "unneeded", recovery |-> FALSE,
               graceful |-> FALSE, run |-> "none"]]
  /\ childRequests = {} /\ request = 0 /\ own = 0 /\ nextRequestId = 1
  /\ guest = "idle" /\ aborted = FALSE /\ disposal = "none"
  /\ edits = 0 /\ traps = 0 /\ faults = 0

-----------------------------------------------------------------------------
(* What the bridge does to a request; bad are the calls that throw.         *)

\* cleanupResources(): the timer, the listeners and the Worker.
Cleaned(q, bad) ==
  [q EXCEPT !.timer = IF "clear" \in bad THEN @ ELSE "none",
            !.worker = IF @ # "none" /\ "terminate" \in bad THEN "muted" ELSE "none"]

\* restore(): owed until it succeeded once.
Restored(q, bad) ==
  [q EXCEPT !.restore = IF @ # "done" /\ "restore" \in bad THEN "owed" ELSE "done"]
Restores(q, bad) == q.restore # "done" /\ "restore" \notin bad

RolledBack(q, bad) == Restored(Cleaned(q, bad), bad)

\* The promise of childProcessRun settles, if it is pending.
Answered(q, answer) == [q EXCEPT !.run = IF @ = "pending" THEN answer ELSE @]

CleanupComplete(q) == q.timer = "none" /\ q.worker = "none" /\ q.restore # "owed"

\* abortRequest(): a completed request is only cleaned up, and restored if its
\* restoration is owed.
Aborted(q, bad) ==
  IF q.stage # 3 THEN Answered(RolledBack(q, bad), "rejected")
  ELSE IF q.restore = "owed" THEN RolledBack(q, bad) ELSE Cleaned(q, bad)
AbortRestores(q, bad) ==
  (q.stage # 3 \/ q.restore = "owed") /\ Restores(q, bad)

\* The calls that throw in this step.
Throw(bad) == /\ faults + Cardinality(bad) <= MaxFaults
              /\ faults' = faults + Cardinality(bad)

\* Request r becomes q; it leaves childRequests once nothing is left to clean.
Update(r, q) ==
  /\ req' = [req EXCEPT ![r] = q]
  /\ childRequests' = IF CleanupComplete(q) THEN childRequests \ {r} ELSE childRequests

RestoreHost(r, bad) ==
  host' = IF Restores(req[r], bad) THEN req[r].baseline ELSE host

Uploading(r) == request = r /\ req[r].stage = 1 /\ ~req[r].recovery
Running(r) == request = r /\ req[r].stage = 2 /\ ~req[r].recovery

-----------------------------------------------------------------------------
(* The bridge's own events.                                                 *)

\* Mutant: the files of a child that failed are kept.
CompleteKeeps(r, q, graceful, bad) ==
  /\ Update(r, Answered([Cleaned(q, bad) EXCEPT !.stage = 3, !.graceful = graceful],
                        IF graceful THEN "clean" ELSE "error"))
  /\ UNCHANGED <<host, request>>

\* complete() of r, now q: the Worker reported, failed, or its time is over.
Complete(r, q, graceful, bad) ==
  /\ LET cleaned == Cleaned(q, bad)
         kept == IF graceful THEN cleaned ELSE Restored(cleaned, bad)
     IN Update(r, Answered([kept EXCEPT !.stage = 3, !.graceful = graceful],
                           IF graceful THEN "clean" ELSE "error"))
  /\ IF graceful THEN UNCHANGED host ELSE RestoreHost(r, bad)
  /\ UNCHANGED request

\* worker.onmessage, onerror and onmessageerror.
WorkerReports(r, graceful, bad) ==
  /\ req[r].worker = "live" /\ Throw(bad)
  /\ IF Running(r) THEN Complete(r, req[r], graceful, bad)
     ELSE UNCHANGED <<host, request, req, childRequests>>
  /\ UNCHANGED <<vfs, nextRequestId, ownerVars, guestVars, edits, traps>>

\* The execution timer fires.
ExecutionTimeout(r, bad) ==
  /\ req[r].timer = "execution" /\ Throw(bad)
  /\ LET fired == [req[r] EXCEPT !.timer = "none"]
     IN IF Running(r) THEN Complete(r, fired, FALSE, bad)
        ELSE /\ req' = [req EXCEPT ![r] = fired]
             /\ UNCHANGED <<host, request, childRequests>>
  /\ UNCHANGED <<vfs, nextRequestId, ownerVars, guestVars, edits, traps>>

\* The upload timer fires: the request is rolled back and its slot released.
UploadTimeout(r, bad) ==
  /\ req[r].timer = "upload" /\ Throw(bad)
  /\ LET fired == [req[r] EXCEPT !.timer = "none"]
     IN IF Uploading(r)
        THEN /\ Update(r, Restored(fired, bad)) /\ RestoreHost(r, bad)
             /\ request' = 0
        ELSE /\ req' = [req EXCEPT ![r] = fired]
             /\ UNCHANGED <<host, request, childRequests>>
  /\ UNCHANGED <<vfs, nextRequestId, ownerVars, guestVars, edits, traps>>

\* The child writes through the farm, until its Worker is terminated.
ChildWrites(r, p) ==
  /\ req[r].worker # "none" /\ host' = [host EXCEPT ![p] = -r]
  /\ UNCHANGED <<vfs, bridgeVars, ownerVars, guestVars, boundVars>>

\* abort(): every request that is not clean yet, in the order of their ids.
Sweep(bad) ==
  LET restoring == {r \in childRequests : AbortRestores(req[r], bad)} IN
  /\ Throw(bad) /\ aborted' = TRUE
  /\ req' = [r \in Requests |-> IF r \in childRequests THEN Aborted(req[r], bad)
                                ELSE req[r]]
  /\ childRequests' = {r \in childRequests : ~CleanupComplete(Aborted(req[r], bad))}
  /\ host' = IF restoring = {} THEN host
             ELSE req[CHOOSE r \in restoring : \A s \in restoring : s <= r].baseline
  /\ UNCHANGED <<vfs, nextRequestId, guestVars, edits, traps>>

SweptRequest == IF request \in childRequests /\ req[request].stage # 3 THEN 0 ELSE request

\* The generation's signal aborts.
Abort(bad) == ~aborted /\ Sweep(bad) /\ request' = SweptRequest /\ UNCHANGED disposal

Dispose(bad) ==
  /\ disposal = "none" /\ disposal' = "settling"
  /\ Sweep(bad) /\ request' = SweptRequest

\* Mutant: dispose() does not abort a second time.
DisposeOnce(bad) ==
  /\ disposal = "settling" /\ \A r \in Requests : req[r].run # "pending"
  /\ disposal' = "done" /\ request' = 0 /\ bad = {}
  /\ UNCHANGED <<vfs, host, nextRequestId, req, childRequests, aborted, guestVars,
                 boundVars>>

\* settle() returned: a second abort() retries what is left.
DisposeSettled(bad) ==
  /\ disposal = "settling" /\ \A r \in Requests : req[r].run # "pending"
  /\ disposal' = "done" /\ Sweep(bad) /\ request' = 0

-----------------------------------------------------------------------------
(* The guest: run_wasi_child, one at a time under CARGO_RUN_LOCK.  A call   *)
(* to an aborted bridge throws.                                             *)

\* sync_vfs_to_host.
Prepare ==
  /\ guest = "idle" /\ guest' = "prepared" /\ host' = vfs /\ base' = vfs
  /\ UNCHANGED <<vfs, bridgeVars, ownerVars, own, boundVars>>

\* childProcessStart: the slot is free, and the file system within the limits.
Start ==
  /\ guest = "prepared" /\ ~aborted /\ request = 0 /\ nextRequestId <= MaxRequests
  /\ LET r == nextRequestId IN
     /\ request' = r /\ own' = r /\ nextRequestId' = r + 1
     /\ req' = [req EXCEPT ![r].stage = 1, ![r].timer = "upload", ![r].baseline = host]
     /\ childRequests' = childRequests \cup {r}
  /\ guest' = "uploading"
  /\ UNCHANGED <<vfs, host, base, ownerVars, boundVars>>

\* The slot is taken, the bridge aborted or a limit exceeded.
StartRefused ==
  /\ guest = "prepared" /\ guest' = "idle"
  /\ UNCHANGED <<vfs, host, bridgeVars, ownerVars, own, base, boundVars>>

\* childProcessWrite: one chunk.
Write ==
  /\ guest = "uploading" /\ req[own].uploaded < Chunks
  /\ IF ~aborted /\ Uploading(own)
     THEN /\ req' = [req EXCEPT ![own].uploaded = @ + 1, ![own].timer = "upload"]
          /\ UNCHANGED guest
     ELSE guest' = "failing" /\ UNCHANGED req
  /\ UNCHANGED <<vfs, host, request, nextRequestId, childRequests, ownerVars, own,
                 base, boundVars>>

\* The chunk is refused, or the timer throws: abortRequest() and abortActive().
WriteAborts(bad) ==
  /\ guest = "uploading" /\ req[own].uploaded < Chunks /\ Throw(bad)
  /\ ~aborted /\ Uploading(own)
  /\ Update(own, RolledBack(req[own], bad)) /\ RestoreHost(own, bad) /\ request' = 0
  /\ guest' = "failing"
  /\ UNCHANGED <<vfs, nextRequestId, ownerVars, own, base, edits, traps>>

\* childProcessRun: the Worker is created and the execution timer armed.
Run ==
  /\ guest = "uploading" /\ req[own].uploaded = Chunks
  /\ ~aborted /\ Uploading(own)
  /\ req' = [req EXCEPT ![own].stage = 2, ![own].timer = "execution",
                        ![own].worker = "live", ![own].run = "pending"]
  /\ guest' = "running"
  /\ UNCHANGED <<vfs, host, request, nextRequestId, childRequests, ownerVars, own,
                 base, boundVars>>

\* The request is gone, clearTimeout() throws, or setting the Worker up does.
RunFails(bad) ==
  /\ guest = "uploading" /\ req[own].uploaded = Chunks /\ Throw(bad)
  /\ IF ~aborted /\ Uploading(own) /\ "clear" \notin bad
     THEN /\ Update(own, RolledBack([req[own] EXCEPT !.stage = 2, !.run = "rejected"], bad))
          /\ RestoreHost(own, bad) /\ request' = 0
     ELSE UNCHANGED <<host, request, req, childRequests>>
  /\ guest' = "failing"
  /\ UNCHANGED <<vfs, nextRequestId, ownerVars, own, base, edits, traps>>

\* The answer of childProcessRun reaches the guest.
RunReturns ==
  /\ guest = "running" /\ req[own].run # "pending"
  /\ guest' = CASE req[own].run = "clean" -> "importing"
                [] req[own].run = "error" -> "reading"
                [] OTHER -> "failing"
  /\ UNCHANGED <<vfs, host, bridgeVars, ownerVars, own, base, boundVars>>

\* childProcessReadError.
ReadError ==
  /\ guest = "reading"
  /\ guest' = IF ~aborted /\ request = own /\ req[own].stage = 3 THEN "ending" ELSE "failing"
  /\ UNCHANGED <<vfs, host, bridgeVars, ownerVars, own, base, boundVars>>

\* sync_host_to_vfs: what the child changed, unless the VFS changed it too.
Reconciled == [p \in Paths |-> IF host[p] # base[p] /\ vfs[p] = base[p] THEN host[p]
                               ELSE vfs[p]]

Import == /\ guest = "importing" /\ guest' = "ending" /\ vfs' = Reconciled
          /\ UNCHANGED <<host, bridgeVars, ownerVars, own, base, boundVars>>

\* The import fails, over a limit for one; retain_on_drop: nobody ends the request.
ImportFails ==
  /\ guest = "importing" /\ guest' = "idle"
  /\ UNCHANGED <<vfs, host, bridgeVars, ownerVars, own, base, boundVars>>

\* childProcessEnd.
BridgeEnd(id, bad) ==
  IF aborted \/ request # id THEN UNCHANGED <<host, request, req, childRequests>>
  ELSE /\ request' = 0
       /\ IF req[id].recovery
          THEN UNCHANGED <<host, req, childRequests>>
          ELSE IF req[id].stage = 3
          THEN Update(id, Cleaned(req[id], bad)) /\ UNCHANGED host
          ELSE /\ Update(id, Answered(RolledBack(req[id], bad), "clean"))
               /\ RestoreHost(id, bad)

\* The guest ends its request, at its end or when the guard is dropped.
End(bad) ==
  /\ guest \in {"ending", "failing"} /\ guest' = "idle"
  /\ Throw(bad) /\ BridgeEnd(own, bad)
  /\ UNCHANGED <<vfs, nextRequestId, ownerVars, own, base, edits, traps>>

\* An editor, a command or the language server writes in the VFS.
Edit(p) ==
  /\ guest \in Serving /\ edits < MaxEdits
  /\ edits' = edits + 1 /\ vfs' = [vfs EXCEPT ![p] = edits']
  /\ UNCHANGED <<host, bridgeVars, ownerVars, guestVars, traps, faults>>

-----------------------------------------------------------------------------
(* A VFS instance traps and a replacement starts (lib.rs, main).            *)

Trap ==
  /\ guest # "dead" /\ guest' = "dead" /\ traps < MaxTraps /\ traps' = traps + 1
  /\ UNCHANGED <<vfs, host, bridgeVars, ownerVars, own, base, edits, faults>>

\* import_host_authoritative; an error is printed and the VFS stays as built.
Boot ==
  /\ guest = "dead" /\ guest' = "booted" /\ vfs' \in {host, AsFound}
  /\ UNCHANGED <<host, bridgeVars, ownerVars, own, base, boundVars>>

\* Mutant: recovery terminates the child and leaves its files.
RecoverKeeps(bad) ==
  /\ guest = "booted" /\ Throw(bad)
  /\ IF aborted
     THEN guest' = "dead" /\ UNCHANGED <<req, childRequests, own>>
     ELSE IF request = 0
     THEN guest' = "idle" /\ UNCHANGED <<req, childRequests, own>>
     ELSE /\ guest' = "reimporting" /\ own' = request
          /\ IF req[request].recovery \/ req[request].stage = 3
             THEN UNCHANGED <<req, childRequests>>
             ELSE Update(request, Answered([Cleaned(req[request], bad)
                                              EXCEPT !.recovery = TRUE], "clean"))
  /\ UNCHANGED <<vfs, host, request, nextRequestId, base, ownerVars, edits, traps>>

\* childProcessRecover: an active request is rolled back and kept until End.
Recover(bad) ==
  /\ guest = "booted" /\ Throw(bad)
  /\ IF aborted
     THEN guest' = "dead" /\ UNCHANGED <<host, req, childRequests, own>>
     ELSE IF request = 0
     THEN guest' = "idle" /\ UNCHANGED <<host, req, childRequests, own>>
     ELSE /\ guest' = "reimporting" /\ own' = request
          /\ IF req[request].recovery \/ req[request].stage = 3
             THEN UNCHANGED <<host, req, childRequests>>
             ELSE /\ Update(request, Answered([RolledBack(req[request], bad)
                                                 EXCEPT !.recovery = TRUE], "clean"))
                  /\ RestoreHost(request, bad)
  /\ UNCHANGED <<vfs, request, nextRequestId, base, ownerVars, edits, traps>>

\* import_host_authoritative again; an error ends the new instance.
Reimport ==
  /\ guest = "reimporting" /\ guest' = "acknowledging" /\ vfs' = host
  /\ UNCHANGED <<host, bridgeVars, ownerVars, own, base, boundVars>>

ReimportFails ==
  /\ guest = "reimporting" /\ guest' = "dead"
  /\ UNCHANGED <<vfs, host, bridgeVars, ownerVars, own, base, boundVars>>

Acknowledge(bad) ==
  /\ guest = "acknowledging" /\ Throw(bad) /\ BridgeEnd(own, bad)
  /\ guest' = IF aborted \/ (request # own /\ request # 0) THEN "dead" ELSE "idle"
  /\ UNCHANGED <<vfs, nextRequestId, ownerVars, own, base, edits, traps>>

-----------------------------------------------------------------------------
Guest ==
  \/ Prepare \/ Start \/ StartRefused \/ Write \/ Run \/ RunReturns \/ ReadError
  \/ Import \/ ImportFails \/ Trap \/ Boot \/ Reimport \/ ReimportFails
  \/ \E bad \in SUBSET Faults :
       WriteAborts(bad) \/ RunFails(bad) \/ End(bad) \/ Recover(bad) \/ Acknowledge(bad)

Timers(r) == \E bad \in SUBSET Faults : UploadTimeout(r, bad) \/ ExecutionTimeout(r, bad)

Next ==
  \/ Guest \/ \E p \in Paths : Edit(p)
  \/ \E r \in Requests :
       \/ Timers(r) \/ \E p \in Paths : ChildWrites(r, p)
       \/ \E graceful \in BOOLEAN, bad \in SUBSET Faults : WorkerReports(r, graceful, bad)
  \/ \E bad \in SUBSET Faults : Abort(bad) \/ Dispose(bad) \/ DisposeSettled(bad)

\* Timers fire and an answer reaches the guest.  A child need not end, nor the
\* guest make its next call.
Fairness == /\ WF_vars(RunReturns)
            /\ \A r \in Requests : WF_vars(Timers(r))

Spec == Init /\ [][Next]_vars
FairSpec == Spec /\ Fairness

-----------------------------------------------------------------------------
(* Properties.                                                              *)

\* What a VFS that serves holds of a child, that child wrote and ended
\* gracefully: a trapped, killed or abandoned child leaves nothing, whatever
\* instance of the VFS imports the host, and when.
VfsHoldsOnlyGraceful ==
  guest \in Serving =>
    \A p \in Paths, r \in Requests : vfs[p] = -r => req[r].graceful

\* An import takes from the child only files that nobody edited while it ran.
EditsWin ==
  [][(guest \in Serving /\ guest' \in Serving) =>
       \A p \in Paths : vfs'[p] < 0 /\ vfs'[p] # vfs[p] => vfs[p] = base[p]]_vars

\* When the guest ends a request whose child ended gracefully, all that child
\* wrote is in the VFS, except where an edit won.
GracefulDelivered ==
  guest = "ending" /\ req[own].graceful =>
    \A p \in Paths : host[p] = -own => vfs[p] = -own \/ vfs[p] # base[p]

\* The file system is a transaction of the child (module ChildTransaction).
Owner == IF request # 0 /\ req[request].stage # 3 /\ ~req[request].recovery
         THEN request ELSE 0
Transaction == INSTANCE ChildTransaction WITH
  disk <- host, owner <- Owner, last <- nextRequestId - 1,
  kept <- {r \in Requests : req[r].graceful},
  before <- IF Owner = 0 THEN host ELSE req[Owner].baseline
HostIsTransactional == Transaction!TransactionSpec

\* One cleanup call that throws, anywhere, is made up for by the end of dispose().
DisposedClean ==
  disposal = "done" => \A r \in Requests : CleanupComplete(req[r])

\* childProcessRun answers, whatever the child does.
RunEnds == []<>(guest # "running")

\* A request that is uploaded or run does not keep the slot for ever, with or
\* without a guest.
SlotReleased == \A r \in Requests : []<>(Owner # r)

\* The files of a child that ended gracefully stay on the host until the VFS
\* has taken them and ended the request.
RetainedUntilEnded ==
  [][\A r \in Requests, p \in Paths :
       request = r /\ req[r].stage = 3 /\ req[r].graceful /\ host[p] = -r
         => host'[p] = -r \/ request' # r]_vars
=============================================================================
