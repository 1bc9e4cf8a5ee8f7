--------------------------- MODULE ProjectActivation ---------------------------
(***************************************************************************)
(* activateRustProject() (page/src/rust_lsp_startup.ts) over the document  *)
(* sync (rust_document_sync.ts), for /src/main.rs.  The activation makes   *)
(* the language client close the document and open it again by changing    *)
(* its language, while the first didOpen, its writes, a debounce timer and *)
(* the user's edits go on.  DocumentSync has every document opened once;   *)
(* here one document has two lives.  A text is a number, 0 is none.        *)
(***************************************************************************)
EXTENDS Naturals, Sequences

CONSTANT MaxEdits  \* bounds what the user types

VARIABLES
  text,       \* what the editor shows
  content,    \* what the activation read when it began
  activation, \* the step the activation waits for
  language,   \* the language of the model: the client has it open while it is "rust"
  pending,    \* the snapshot behind the debounce timer
  chain,      \* the queued writes [text, life]: life # 0 for the write of a didOpen
  failure,    \* the snapshot of the last failed write
  vfs,        \* what the VFS holds
  open,       \* the two didOpen calls
  inFlight,   \* the one in didOpenInFlight, 0 if none
  close,      \* the didClose call
  closeLeft,  \* how many queued writes it waits for
  skipped,    \* it saw the new language and flushed nothing
  serverOpen, \* has the server the document open?
  aborted,    \* the runtime's signal
  disposed    \* sync.abort() was called

editor == <<text, language>>
writes == <<pending, chain, failure, vfs>>
calls == <<open, inFlight, close, closeLeft, skipped, serverOpen>>
stops == <<aborted, disposed>>
vars == <<editor, content, activation, writes, calls, stops>>

Lives == 1..2
Texts == Nat \ {0}
Steps == {"graph", "main", "close", "open", "semantic", "done", "failed"}
OpenSteps == {"none", "writing", "forwarding", "done", "rejected"}
CloseSteps == {"none", "awaitOpen", "flushing", "writing", "forwarding", "done", "rejected"}

\* The client has been started on a VFS with the text of the model and has opened it; the
\* activation has read the model and waits for the configuration and the crate graph.
Init ==
  /\ text = 1 /\ content = 1 /\ language = "rust" /\ activation = "graph"
  /\ pending = 0 /\ chain = <<[text |-> 1, life |-> 1]>> /\ failure = 0 /\ vfs = 1
  /\ open = [life \in Lives |-> IF life = 1 THEN "writing" ELSE "none"] /\ inFlight = 1
  /\ close = "none" /\ closeLeft = 0 /\ skipped = FALSE
  /\ serverOpen = FALSE /\ aborted = FALSE /\ disposed = FALSE

QueueWrite(snapshot, life) == chain' = Append(chain, [text |-> snapshot, life |-> life])

(* --- the editor and the timer ---------------------------------------------- *)

\* An edit; the client tells of it, and the sync schedules it, while it is Rust.
Edit ==
  /\ text < MaxEdits /\ text' = text + 1
  /\ pending' = IF language = "rust" /\ ~disposed THEN text + 1 ELSE pending
  /\ UNCHANGED <<language, content, activation, chain, failure, vfs, calls, stops>>

TimerFires ==
  /\ pending # 0 /\ QueueWrite(pending, 0) /\ pending' = 0
  /\ UNCHANGED <<editor, content, activation, failure, vfs, calls, stops>>

(* --- the activation --------------------------------------------------------- *)

\* An error or the signal ends the activation wherever it waits; only the write of
\* main.rs is waited for (MainSettles).
ActivationFails ==
  /\ \/ activation \in {"graph", "semantic"}
     \/ aborted /\ activation \in {"close", "open"}
  /\ activation' = "failed"
  /\ UNCHANGED <<editor, content, writes, calls, stops>>

\* The crate graph is there: main.rs is written with what was read before.
GraphReady ==
  /\ activation = "graph" /\ ~aborted /\ activation' = "main"
  /\ UNCHANGED <<editor, content, writes, calls, stops>>

\* The write of main.rs settles.  In the same turn the language is changed, and with it
\* the client calls didClose, which waits for the didOpen if it is still in flight.
MainSettles ==
  /\ activation = "main"
  /\ \/ /\ vfs' = content /\ ~aborted
        /\ activation' = "close" /\ language' = "plaintext"
        /\ close' = IF inFlight = 0 THEN "flushing" ELSE "awaitOpen"
     \/ /\ vfs' \in {vfs, content} /\ activation' = "failed"
        /\ UNCHANGED <<language, close>>
  /\ UNCHANGED <<text, content, pending, chain, failure, open, inFlight, closeLeft,
                 skipped, serverOpen, stops>>

\* Mutant: the document is opened again without waiting for its didClose.
ReopensAtOnce ==
  /\ activation = "close" /\ ~aborted
  /\ activation' = "open" /\ language' = "rust"
  /\ QueueWrite(text, 2) /\ open' = [open EXCEPT ![2] = "writing"] /\ inFlight' = 2
  /\ UNCHANGED <<text, content, pending, failure, vfs, close, closeLeft, skipped,
                 serverOpen, stops>>

\* The didClose is over: the language is changed back, and the client opens the document
\* with what the editor shows now, by a didOpen whose write must succeed.
Reopens ==
  /\ activation = "close" /\ close = "done" /\ ~aborted
  /\ activation' = "open" /\ language' = "rust"
  /\ QueueWrite(text, 2) /\ open' = [open EXCEPT ![2] = "writing"] /\ inFlight' = 2
  /\ UNCHANGED <<text, content, pending, failure, vfs, close, closeLeft, skipped,
                 serverOpen, stops>>

\* The awaited call is rejected, and the activation with it.
CallFails ==
  /\ \/ activation = "close" /\ close = "rejected"
     \/ activation = "open" /\ open[2] = "rejected"
  /\ activation' = "failed"
  /\ UNCHANGED <<editor, content, writes, calls, stops>>

Reopened ==
  /\ activation = "open" /\ open[2] = "done" /\ ~aborted /\ activation' = "semantic"
  /\ UNCHANGED <<editor, content, writes, calls, stops>>

\* The analyzer is ready, and the page with it: Run is admitted.
SemanticReady ==
  /\ activation = "semantic" /\ ~aborted /\ activation' = "done"
  /\ UNCHANGED <<editor, content, writes, calls, stops>>

(* --- didOpen, didClose and the writes ---------------------------------------- *)

CountDown(left) == IF left = 0 THEN 0 ELSE left - 1

\* A didOpen settles: it leaves the map unless another has taken its place.
Leaves(life) == inFlight' = IF inFlight = life THEN 0 ELSE inFlight

\* The write in flight settles.  The didOpen it belongs to is forwarded, whether or not
\* the write failed, except the one of the activation; a didClose that waited for this
\* write last is forwarded.
WriteSettles(ok) ==
  LET head == Head(chain)
      forwards == {n \in Lives : n = head.life /\ (ok \/ n = 1)}
      rejects == {n \in Lives : n = head.life /\ ~ok /\ n = 2}
      closes == close = "writing" /\ closeLeft = 1
  IN /\ chain # <<>>
     /\ chain' = Tail(chain)
     /\ vfs' = IF ok THEN head.text ELSE vfs
     /\ failure' = IF ok THEN 0 ELSE head.text
     /\ open' = [n \in Lives |-> IF n \in forwards THEN "forwarding"
                                 ELSE IF n \in rejects THEN "rejected" ELSE open[n]]
     /\ inFlight' = IF inFlight \in rejects THEN 0 ELSE inFlight
     /\ closeLeft' = CountDown(closeLeft)
     /\ close' = IF closes THEN "forwarding" ELSE close
     /\ serverOpen' = IF forwards # {} THEN TRUE ELSE IF closes THEN FALSE ELSE serverOpen
     /\ UNCHANGED <<editor, content, activation, pending, skipped, stops>>

\* The client's own part of a didOpen settles.
OpenSettles(life) ==
  /\ open[life] = "forwarding"
  /\ \E outcome \in {"done", "rejected"} : open' = [open EXCEPT ![life] = outcome]
  /\ Leaves(life)
  /\ UNCHANGED <<editor, content, activation, writes, close, closeLeft, skipped,
                 serverOpen, stops>>

\* What is left for didClose to wait for once the didOpen in flight is over.
CloseWaits ==
  /\ closeLeft' = Len(chain')
  /\ close' = IF chain' = <<>> THEN "forwarding" ELSE "writing"
  /\ serverOpen' = IF chain' = <<>> THEN FALSE ELSE serverOpen

\* didClose goes on and reads the document: a pending snapshot gives way to a write of
\* the current text.  By now the language of the document may be the new one; then there
\* is nothing to flush.  Which one it sees is the client's business.
CloseFlushes ==
  /\ \/ close = "flushing"
     \/ close = "awaitOpen" /\ open[1] = "done"
  /\ \/ /\ pending # 0 /\ QueueWrite(text, 0) /\ pending' = 0 /\ CloseWaits
        /\ UNCHANGED skipped
     \/ /\ pending = 0 /\ UNCHANGED <<chain, pending, skipped>> /\ CloseWaits
     \/ /\ close' = "forwarding" /\ serverOpen' = FALSE /\ closeLeft' = 0
        /\ skipped' = TRUE /\ UNCHANGED <<chain, pending>>
  /\ UNCHANGED <<editor, content, activation, failure, vfs, open, inFlight, stops>>

\* The didOpen that didClose waits for is rejected, and didClose with it.
CloseRejected ==
  /\ close = "awaitOpen" /\ open[1] = "rejected" /\ close' = "rejected"
  /\ UNCHANGED <<editor, content, activation, writes, open, inFlight, closeLeft, skipped,
                 serverOpen, stops>>

CloseSettles ==
  /\ close = "forwarding" /\ close' \in {"done", "rejected"}
  /\ UNCHANGED <<editor, content, activation, writes, open, inFlight, closeLeft, skipped,
                 serverOpen, stops>>

(* --- the runtime goes away ---------------------------------------------------- *)

Abort ==
  /\ ~aborted /\ aborted' = TRUE
  /\ UNCHANGED <<editor, content, activation, writes, calls, disposed>>

\* sync.abort(): no timer, no call in the maps any more; what was queued goes on.
SyncAborts ==
  /\ aborted /\ ~disposed /\ disposed' = TRUE /\ pending' = 0 /\ inFlight' = 0
  /\ UNCHANGED <<editor, content, activation, chain, failure, vfs, open, close,
                 closeLeft, skipped, serverOpen, aborted>>

-----------------------------------------------------------------------------
Activation == \/ ActivationFails \/ GraphReady \/ MainSettles \/ Reopens \/ CallFails
              \/ Reopened \/ SemanticReady
Calls == \/ \E ok \in BOOLEAN : WriteSettles(ok)
         \/ \E life \in Lives : OpenSettles(life)
         \/ CloseFlushes \/ CloseRejected \/ CloseSettles
Next == Edit \/ TimerFires \/ Activation \/ Calls \/ Abort \/ SyncAborts

Spec == Init /\ [][Next]_vars

\* The writes and the client's calls settle, and so does what the activation waits for
\* (AnalyzerReadiness: its waits have deadlines).  Nobody has to edit or to abort.
FairSpec == /\ Spec /\ WF_vars(Activation)
            /\ WF_vars(\E ok \in BOOLEAN : WriteSettles(ok))
            /\ \A life \in Lives : WF_vars(OpenSettles(life))
            /\ WF_vars(CloseFlushes) /\ WF_vars(CloseRejected) /\ WF_vars(CloseSettles)

-----------------------------------------------------------------------------
(* Properties.                                                               *)

TypeOK ==
  /\ text \in Texts /\ content \in Texts /\ language \in {"rust", "plaintext"}
  /\ activation \in Steps /\ pending \in Texts \cup {0}
  /\ chain \in Seq([text : Texts, life : 0..2])
  /\ failure \in Texts \cup {0} /\ vfs \in Texts
  /\ open \in [Lives -> OpenSteps] /\ inFlight \in 0..2
  /\ close \in CloseSteps /\ closeLeft \in Nat
  /\ skipped \in BOOLEAN /\ serverOpen \in BOOLEAN
  /\ aborted \in BOOLEAN /\ disposed \in BOOLEAN

\* The server hears of a didOpen only of a document it does not have open, and of a
\* didClose only of one it has: the calls of the two lives do not overtake each other,
\* however slow the first didOpen and the writes are, and whatever fails.
LivesInOrder ==
  [][/\ \A life \in Lives : open[life] # "forwarding" /\ open'[life] = "forwarding"
                              => ~serverOpen /\ serverOpen'
     /\ close # "forwarding" /\ close' = "forwarding" => serverOpen /\ ~serverOpen']_vars

\* The text that will be in the VFS when the timer and the queue are through.
Tip == IF pending # 0 THEN pending
       ELSE IF chain # <<>> THEN chain[Len(chain)].text
       ELSE IF failure # 0 THEN failure ELSE vfs

\* Once the document is open again the VFS is on its way to what the editor shows: the
\* text from before the crate graph that was written to main.rs, and the edits made while
\* the document was not Rust, are made up for.  What didClose did not flush is not.
ActivatedText ==
  activation \in {"semantic", "done"} /\ ~disposed /\ ~skipped => Tip = text

\* The activation ends: a didOpen or a didClose that fails, at whichever point, fails it.
ActivationEnds == <>(activation \in {"done", "failed"})

=============================================================================
