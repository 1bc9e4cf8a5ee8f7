---------------------------- MODULE DocumentSync ----------------------------
(***************************************************************************)
(* page/src/rust_document_sync.ts: RustDocumentSync mirrors the text of    *)
(* open Rust documents into the VFS of the running wasm guest.  A change   *)
(* restarts the document's debounce timer; a write is chained behind the   *)
(* earlier writes of the same document; a failed write is remembered and   *)
(* retried by the next flush(), the barrier Run waits for.                 *)
(*                                                                         *)
(* The text of a document is the number of the edit that produced it.      *)
(* MaxEdits bounds the edits of one document; each member of Flushes is    *)
(* one call of flush(), Disposer the one dispose() makes.                  *)
(***************************************************************************)
EXTENDS Integers, Sequences

CONSTANTS Docs, Flushes, Disposer, MaxEdits,
          Failing   \* the documents whose writes may fail

ASSUME SyncAssumption == /\ MaxEdits \in Nat \ {0}
                         /\ Failing \subseteq Docs
                         /\ Disposer \in Flushes

VARIABLES
  edits,    \* the text of the document in the editor
  text,     \* the last text of the document the sync object has accepted
  pending,  \* the snapshot behind the debounce timer, 0 if none
  chain,    \* the queued writes, the one in flight first
  failure,  \* the snapshot of the last failed write, 0 if none
  vfs,      \* the text the VFS holds
  open,     \* the didOpen call
  strict,   \* was it awaited by waitForStrictDidOpen()?
  openLeft, \* how many queued writes the didOpen call still waits for
  held,     \* the edits whose didChange waits for the didOpen call
  close, closeLeft,   \* the same for didClose
  server,   \* the last text announced to the language server, 0 for none
  mode,     \* live, dispose() under way, disposed, or aborted
  awaited,  \* the documents whose didOpen dispose() still waits for
  flush, flushLeft,   \* where each flush() stands, the writes it waits for
  overtaken \* documents for which a retry was queued behind newer text

docVars == <<edits, text, pending, chain, failure, vfs>>
openVars == <<open, strict, openLeft, held>>
closeVars == <<close, closeLeft>>
lifeVars == <<mode, awaited>>
flushVars == <<flush, flushLeft>>
vars == <<docVars, openVars, closeVars, server, lifeVars, flushVars, overtaken>>

Text == 1..MaxEdits
TextOrNone == 0..MaxEdits
OpenSteps == {"none", "writing", "forwarding", "done", "rejected"}
CloseSteps == {"none", "awaitOpen", "flushing", "writing", "done", "rejected"}
FlushSteps == {"idle", "waiting", "ok", "failed"}
Modes == {"live", "disposing", "disposed", "aborted"}

TypeOK ==
  /\ edits \in [Docs -> TextOrNone]
  /\ text \in [Docs -> TextOrNone]
  /\ pending \in [Docs -> TextOrNone]
  /\ chain \in [Docs -> Seq(Text)]
  /\ failure \in [Docs -> TextOrNone]
  /\ vfs \in [Docs -> TextOrNone]
  /\ open \in [Docs -> OpenSteps]
  /\ strict \in [Docs -> BOOLEAN]
  /\ openLeft \in [Docs -> Nat]
  /\ held \in [Docs -> Seq(Text)]
  /\ close \in [Docs -> CloseSteps]
  /\ closeLeft \in [Docs -> Nat]
  /\ server \in [Docs -> TextOrNone]
  /\ mode \in Modes /\ awaited \subseteq Docs
  /\ flush \in [Flushes -> FlushSteps]
  /\ flushLeft \in [Flushes -> [Docs -> Nat]]
  /\ overtaken \subseteq Docs

Init ==
  /\ edits = [d \in Docs |-> 0]
  /\ text = [d \in Docs |-> 0] /\ pending = [d \in Docs |-> 0]
  /\ chain = [d \in Docs |-> <<>>]
  /\ failure = [d \in Docs |-> 0] /\ vfs = [d \in Docs |-> 0]
  /\ open = [d \in Docs |-> "none"] /\ strict = [d \in Docs |-> FALSE]
  /\ openLeft = [d \in Docs |-> 0] /\ held = [d \in Docs |-> <<>>]
  /\ close = [d \in Docs |-> "none"] /\ closeLeft = [d \in Docs |-> 0]
  /\ server = [d \in Docs |-> 0]
  /\ mode = "live" /\ awaited = {}
  /\ flush = [f \in Flushes |-> "idle"]
  /\ flushLeft = [f \in Flushes |-> [d \in Docs |-> 0]]
  /\ overtaken = {}

\* Mutant: a write overtakes the earlier writes of the document.
QueueWriteFirst(d, snapshot) ==
  chain' = [chain EXCEPT ![d] = <<snapshot>> \o @]

\* queueWrite(): chained behind the writes of the same document.
QueueWrite(d, snapshot) == chain' = [chain EXCEPT ![d] = Append(@, snapshot)]

\* didOpenInFlight has the document; abort() clears the map.
OpenInFlight(d) == open[d] \in {"writing", "forwarding"} /\ mode # "aborted"

-----------------------------------------------------------------------------
(* The editor: didOpen, didChange and didClose.                             *)

\* didOpen: queue the text, then forward the notification.
DidOpen(d) ==
  /\ open[d] = "none"
  /\ edits' = [edits EXCEPT ![d] = 1]
  /\ text' = [text EXCEPT ![d] = 1]
  /\ QueueWrite(d, 1)
  /\ open' = [open EXCEPT ![d] = "writing"]
  /\ \E s \in BOOLEAN : strict' = [strict EXCEPT ![d] = s]
  /\ openLeft' = [openLeft EXCEPT ![d] = Len(chain[d]) + 1]
  /\ UNCHANGED <<pending, failure, vfs, held, closeVars, server, mode, awaited,
                 flushVars, overtaken>>

\* didOpen's next() has returned: the changes held back are forwarded in order.
DidOpenForwarded(d) ==
  /\ open[d] = "forwarding"
  /\ \/ /\ open' = [open EXCEPT ![d] = "done"]
        /\ server' = IF held[d] = <<>> THEN server
                     ELSE [server EXCEPT ![d] = held[d][Len(held[d])]]
     \/ /\ open' = [open EXCEPT ![d] = "rejected"]
        /\ UNCHANGED server
  /\ held' = [held EXCEPT ![d] = <<>>]
  /\ UNCHANGED <<docVars, strict, openLeft, closeVars, lifeVars, flushVars, overtaken>>

\* didChange: schedule() restarts the timer, unless disposed; the notification
\* waits for a didOpen in flight.
DidChange(d) ==
  LET new == edits[d] + 1 IN
  /\ open[d] # "none" /\ close[d] = "none" /\ edits[d] < MaxEdits
  /\ edits' = [edits EXCEPT ![d] = new]
  /\ IF mode = "live"
     THEN /\ text' = [text EXCEPT ![d] = new]
          /\ pending' = [pending EXCEPT ![d] = new]
     ELSE UNCHANGED <<text, pending>>
  /\ IF OpenInFlight(d)
     THEN held' = [held EXCEPT ![d] = Append(@, new)] /\ UNCHANGED server
     ELSE server' = [server EXCEPT ![d] = new] /\ UNCHANGED held
  /\ UNCHANGED <<chain, failure, vfs, open, strict, openLeft, closeVars, mode, awaited,
                 flushVars, overtaken>>

\* The debounce timer of a document fires.
TimerFires(d) ==
  /\ pending[d] # 0
  /\ QueueWrite(d, pending[d])
  /\ pending' = [pending EXCEPT ![d] = 0]
  /\ UNCHANGED <<edits, text, failure, vfs, openVars, closeVars, server, mode, awaited,
                 flushVars, overtaken>>

DidClose(d) ==
  /\ open[d] # "none" /\ close[d] = "none"
  /\ close' = [close EXCEPT ![d] = IF OpenInFlight(d) THEN "awaitOpen"
                                   ELSE "flushing"]
  /\ UNCHANGED <<docVars, openVars, closeLeft, server, lifeVars, flushVars, overtaken>>

\* didClose has waited for the didOpen in flight, if there was one.
CloseMayFlush(d) == \/ close[d] = "flushing"
                    \/ close[d] = "awaitOpen" /\ open[d] = "done"

\* Mutant: the timer is cancelled and its snapshot forgotten.
CloseDropsPending(d) ==
  /\ CloseMayFlush(d)
  /\ pending' = [pending EXCEPT ![d] = 0]
  /\ closeLeft' = [closeLeft EXCEPT ![d] = Len(chain[d])]
  /\ close' = [close EXCEPT ![d] = IF chain[d] = <<>> THEN "done" ELSE "writing"]
  /\ UNCHANGED <<edits, text, chain, failure, vfs, openVars, server, mode, awaited,
                 flushVars, overtaken>>

\* flushDocument(): queue the editor's text if a snapshot is pending, else wait
\* for the writes already queued.
CloseFlushes(d) ==
  /\ CloseMayFlush(d)
  /\ IF pending[d] # 0
     THEN /\ QueueWrite(d, edits[d])
          /\ pending' = [pending EXCEPT ![d] = 0]
          /\ text' = [text EXCEPT ![d] = edits[d]]
     ELSE UNCHANGED <<chain, pending, text>>
  /\ closeLeft' = [closeLeft EXCEPT ![d] = Len(chain'[d])]
  /\ close' = [close EXCEPT ![d] = IF chain'[d] = <<>> THEN "done" ELSE "writing"]
  /\ UNCHANGED <<edits, failure, vfs, openVars, server, lifeVars, flushVars, overtaken>>

\* A didClose that waited for a didOpen that was rejected is rejected too.
CloseRejected(d) ==
  /\ close[d] = "awaitOpen" /\ open[d] = "rejected"
  /\ close' = [close EXCEPT ![d] = "rejected"]
  /\ UNCHANGED <<docVars, openVars, closeLeft, server, lifeVars, flushVars, overtaken>>

-----------------------------------------------------------------------------
(* Writes.                                                                  *)

CountDown(left) == IF left = 0 THEN 0 ELSE left - 1

\* The write of a strictly awaited didOpen fails: only then is its promise
\* rejected, and with it every call that waits for this write alone.
StrictFails(d, ok) == openLeft[d] = 1 /\ strict[d] /\ ~ok

\* The write in flight settles: those who waited for it alone go on.
WriteSettles(d, ok) ==
  /\ chain[d] # <<>>
  /\ ok \/ d \in Failing
  /\ chain' = [chain EXCEPT ![d] = Tail(@)]
  /\ vfs' = IF ok THEN [vfs EXCEPT ![d] = Head(chain[d])] ELSE vfs
  /\ failure' = [failure EXCEPT ![d] = IF ok THEN 0 ELSE Head(chain[d])]
  /\ openLeft' = [openLeft EXCEPT ![d] = CountDown(@)]
  /\ closeLeft' = [closeLeft EXCEPT ![d] = CountDown(@)]
  /\ flushLeft' = [f \in Flushes |-> [flushLeft[f] EXCEPT ![d] = CountDown(@)]]
  /\ LET fails(f) == flush[f] = "waiting" /\ flushLeft[f][d] = 1 /\ StrictFails(d, ok)
     IN /\ flush' = [f \in Flushes |-> IF fails(f) THEN "failed" ELSE flush[f]]
        /\ awaited' = IF fails(Disposer) THEN {e \in Docs : OpenInFlight(e)} ELSE awaited
  /\ IF openLeft[d] = 1
     THEN IF strict[d] /\ ~ok
          THEN /\ open' = [open EXCEPT ![d] = "rejected"]
               /\ held' = [held EXCEPT ![d] = <<>>]
               /\ UNCHANGED server
          ELSE /\ open' = [open EXCEPT ![d] = "forwarding"]
               /\ server' = [server EXCEPT ![d] = 1]
               /\ UNCHANGED held
     ELSE UNCHANGED <<open, held, server>>
  /\ close' = IF closeLeft[d] # 1 THEN close
              ELSE [close EXCEPT ![d] = IF StrictFails(d, ok) THEN "rejected" ELSE "done"]
  /\ UNCHANGED <<edits, text, pending, strict, mode, overtaken>>

-----------------------------------------------------------------------------
(* flush(), dispose() and abort().                                          *)

\* What flush() queues for each document: the pending snapshot if there is one,
\* else, on the first round, the snapshot of a failed write.
Retried == [d \in Docs |-> IF pending[d] # 0 THEN pending[d] ELSE failure[d]]

QueueSnapshots(f, snapshots) ==
  /\ chain' = [d \in Docs |-> IF snapshots[d] = 0 THEN chain[d]
                              ELSE Append(chain[d], snapshots[d])]
  /\ pending' = [d \in Docs |-> 0]
  /\ flushLeft' = [flushLeft EXCEPT ![f] = [d \in Docs |-> Len(chain'[d])]]
  /\ overtaken' = overtaken \cup
       {d \in Docs : /\ snapshots[d] # 0 /\ chain[d] # <<>>
                     /\ snapshots[d] < chain[d][Len(chain[d])]}

FlushStart(f) ==
  /\ flush[f] = "idle"
  /\ f = Disposer => mode = "live"
  /\ mode' = IF f = Disposer THEN "disposing" ELSE mode
  /\ flush' = [flush EXCEPT ![f] = "waiting"]
  /\ QueueSnapshots(f, Retried)
  /\ UNCHANGED <<edits, text, failure, vfs, openVars, closeVars, server, awaited>>

Waited(f) == flush[f] = "waiting" /\ \A d \in Docs : flushLeft[f][d] = 0
\* Mutant: edits made during the last round are not looked at.
DrainedWrites == \A d \in Docs : chain[d] = <<>>

Drained == \A d \in Docs : pending[d] = 0 /\ chain[d] = <<>>

\* The writes flush() saw have settled, but there are new ones.
FlushAgain(f) ==
  /\ Waited(f) /\ ~Drained
  /\ QueueSnapshots(f, pending)
  /\ UNCHANGED <<edits, text, failure, vfs, openVars, closeVars, server, lifeVars, flush>>

FlushSettles(f) ==
  /\ Waited(f) /\ Drained
  /\ flush' = [flush EXCEPT ![f] = IF \E d \in Docs : failure[d] # 0
                                   THEN "failed" ELSE "ok"]
  /\ awaited' = IF f = Disposer THEN {d \in Docs : OpenInFlight(d)} ELSE awaited
  /\ UNCHANGED <<docVars, openVars, closeVars, server, mode, flushLeft, overtaken>>

\* Mutant: dispose() does not wait for its flush.
DisposedEarly ==
  /\ mode = "disposing"
  /\ mode' = "disposed"
  /\ UNCHANGED <<docVars, openVars, closeVars, server, awaited, flushVars, overtaken>>

\* dispose() resolves: its flush has settled, no matter how, and so have the
\* didOpen calls that were in flight then.
Disposed ==
  /\ mode = "disposing" /\ flush[Disposer] \in {"ok", "failed"}
  /\ \A d \in awaited : open[d] \in {"done", "rejected"}
  /\ mode' = "disposed"
  /\ UNCHANGED <<docVars, openVars, closeVars, server, awaited, flushVars, overtaken>>

\* abort(): pending text is dropped; queued writes go on.
Abort ==
  /\ mode = "live"
  /\ mode' = "aborted"
  /\ pending' = [d \in Docs |-> 0]
  /\ UNCHANGED <<edits, text, chain, failure, vfs, openVars, closeVars, server,
                 awaited, flushVars, overtaken>>

-----------------------------------------------------------------------------
Editor(d) == DidOpen(d) \/ DidChange(d) \/ DidClose(d)

Progress(d) == \/ DidOpenForwarded(d) \/ CloseFlushes(d) \/ CloseRejected(d)
               \/ \E ok \in BOOLEAN : WriteSettles(d, ok)

Next == \/ \E d \in Docs : Editor(d) \/ TimerFires(d) \/ Progress(d)
        \/ \E f \in Flushes : FlushStart(f) \/ FlushAgain(f) \/ FlushSettles(f)
        \/ Disposed \/ Abort

\* Timers fire, the write RPC and the language client's next() settle, and the
\* continuation of flush() runs.  Nobody has to edit, close or dispose.
Fairness == /\ \A d \in Docs : WF_vars(TimerFires(d)) /\ WF_vars(Progress(d))
            /\ \A f \in Flushes : WF_vars(FlushAgain(f) \/ FlushSettles(f))
            /\ WF_vars(Disposed)

Spec == Init /\ [][Next]_vars
FairSpec == Spec /\ Fairness
-----------------------------------------------------------------------------
(* Properties.                                                              *)

\* The newest text of a document that is still on its way to the VFS, or the
\* one it has when nothing is.
Tip(d) == IF pending[d] # 0 THEN pending[d]
          ELSE IF chain[d] # <<>> THEN chain[d][Len(chain[d])]
          ELSE IF failure[d] # 0 THEN failure[d] ELSE vfs[d]

\* No accepted text is lost between the timer, the chain, the failures and the
\* VFS, except by abort() and by a retry queued behind newer text.
NoSilentLoss ==
  \A d \in Docs : mode # "aborted" /\ d \notin overtaken => Tip(d) = text[d]

\* When flush() resolves, the VFS holds the accepted text of every document,
\* edits made while it waited included: Run starts from what the editor shows.
FlushBarrier ==
  [][\A f \in Flushes, d \in Docs :
       /\ flush[f] = "waiting" /\ flush'[f] = "ok"
       /\ mode # "aborted" /\ d \notin overtaken
       => vfs[d] = text[d]]_vars

\* The design's claim without the exception for retries.
FlushedTextIsLatest ==
  [][\A f \in Flushes, d \in Docs :
       flush[f] = "waiting" /\ flush'[f] = "ok" /\ mode # "aborted"
       => vfs[d] = text[d]]_vars

\* didClose is forwarded only when the document's text is in the VFS or its
\* write has failed: the server cannot fall back on older text by closing.
CloseAfterWrite ==
  [][\A d \in Docs :
       /\ close[d] # "done" /\ close'[d] = "done"
       /\ mode # "aborted" /\ d \notin overtaken
       => vfs'[d] = text'[d] \/ failure'[d] # 0]_vars

\* The VFS never goes back to older text of a document.
VfsNeverRegresses ==
  [][\A d \in Docs : d \notin overtaken => vfs'[d] >= vfs[d]]_vars

\* The server hears of a document's texts in order and of no change before the
\* didOpen, however long the write before didOpen takes.
ServerInOrder ==
  [][\A d \in Docs :
       server'[d] # server[d] /\ mode # "aborted" =>
         /\ server'[d] > server[d]
         /\ server[d] = 0 => server'[d] = 1 \/ open[d] = "rejected"]_vars

\* When dispose() resolves, the writes of the documents that were open are over:
\* the transport is closed next.  A strict didOpen that fails cuts this short, and
\* a flush() called meanwhile may retry a failed write.
DisposeDrains ==
  [][/\ mode # "disposed" /\ mode' = "disposed"
     /\ \A f \in Flushes \ {Disposer} : flush[f] # "waiting"
     /\ ~ \E e \in Docs : strict[e] /\ open[e] = "rejected"
     => \A d \in Docs : open[d] = "done" => chain[d] = <<>>]_vars

\* flush(), dispose() and didClose come to an end: failures are reported and not
\* waited for, and every didOpen in flight settles, rejected or not.
CallsEnd ==
  /\ \A f \in Flushes : []<>(flush[f] # "waiting")
  /\ []<>(mode # "disposing")
  /\ \A d \in Docs : []<>(close[d] \in {"none", "done", "rejected"})

=============================================================================
