--------------------------- MODULE TerminalService ---------------------------
(***************************************************************************)
(* page/src/runtime_terminal_service.ts: what the guest writes to one      *)
(* terminal session is kept in a bounded history and shown by at most one  *)
(* view.  A view that is attached is first given the history; what is      *)
(* written meanwhile waits for it.  A view's write() may call the service  *)
(* again, or throw, so calls nest: stack holds the writes to views under   *)
(* way.  A mounted terminal keeps its attachment by retainAsyncCleanup()   *)
(* (solid_xterm_lifecycle.ts), and may be unmounted before it has it.      *)
(*                                                                         *)
(* Characters are numbers, in the order in which they are written; an even *)
(* one takes two bytes.                                                    *)
(***************************************************************************)
EXTENDS Naturals, Sequences, SequencesExt

CONSTANTS Views, Limit,         \* OUTPUT_LIMIT, in bytes
          MaxChars, MaxTokens, MaxDepth, None

TerminalAssumption == /\ Limit \in Nat
                      /\ MaxChars \in Nat /\ MaxTokens \in Nat /\ MaxDepth \in Nat

VARIABLES active, decoder,      \* of the session's output
          history, historyBytes,
          view, attaching,      \* the session's
          stack,                \* the writes to views under way, outermost first
          shown,                \* what each view was given since its attach()
          latest,               \* each view's latest attachment
          holders,              \* what became of the attachments handed out
          written               \* the number of characters so far

terminalVars == <<active, decoder, history, historyBytes, view, attaching, stack, shown, latest,
                  holders, written>>

Init == /\ active = TRUE /\ decoder = "clean"
        /\ history = <<>> /\ historyBytes = 0
        /\ view = None /\ attaching = None /\ stack = <<>>
        /\ shown = [v \in Views |-> <<>>] /\ latest = [v \in Views |-> 0]
        /\ holders = <<>> /\ written = 0

(* --- text -------------------------------------------------------------------- *)

Width(c) == IF c % 2 = 0 THEN 2 ELSE 1
Utf8Length(s) == Len(s) + Cardinality({i \in DOMAIN s : Width(s[i]) = 2})
Rest(s, k) == SubSeq(s, k + 1, Len(s))
\* The least number of characters at the front of s that take at least n bytes.
Prefix(s, n) == CHOOSE k \in 0..Len(s) : /\ Utf8Length(SubSeq(s, 1, k)) >= n
                                         /\ \A j \in 0..(k - 1) : Utf8Length(SubSeq(s, 1, j)) < n

\* appendBounded(): whole characters go, from the front.
AppendBounded(current, bytes, value) ==
  LET valueBytes == Utf8Length(value) IN
    IF valueBytes >= Limit
      THEN LET bounded == Rest(value, Prefix(value, valueBytes - Limit)) IN
             [value |-> bounded, bytes |-> Utf8Length(bounded)]
    ELSE IF bytes + valueBytes <= Limit
      THEN [value |-> current \o value, bytes |-> bytes + valueBytes]
    ELSE LET k == Prefix(current, bytes + valueBytes - Limit) IN
           [value |-> Rest(current, k) \o value,
            bytes |-> bytes - Utf8Length(SubSeq(current, 1, k)) + valueBytes]

\* A chunk may be text, the head of a character, its tail, or no UTF-8 at all.
\* The number of characters it makes, and what the decoder holds then; a fatal
\* error of the decoder leaves it clean.
Chunks == {"one", "three", "head", "tail", "bad"}
Decoded(held, chunk) ==
  CASE held = "clean" /\ chunk = "one"   -> [chars |-> 1, held |-> "clean"]
    [] held = "clean" /\ chunk = "three" -> [chars |-> 3, held |-> "clean"]
    [] held = "clean" /\ chunk = "head"  -> [chars |-> 0, held |-> "half"]
    [] held = "half" /\ chunk = "tail"   -> [chars |-> 1, held |-> "clean"]
    [] OTHER -> [chars |-> 0, held |-> "clean"]

(* --- write() ------------------------------------------------------------------ *)

Give(v, s) == shown' = [shown EXCEPT ![v] = @ \o s]
Frame(op, v, token, id) == [op |-> op, view |-> v, token |-> token, id |-> id]

\* History first, then the attachment that waits, then the view.
Write(chunk) ==
  LET d == Decoded(decoder, chunk)
      value == [i \in 1..d.chars |-> written + i]
      bounded == AppendBounded(history, historyBytes, value) IN
  /\ active /\ Len(stack) < MaxDepth /\ written + d.chars <= MaxChars
  /\ decoder' = d.held /\ written' = written + d.chars
  /\ IF value = <<>>
       THEN UNCHANGED <<history, historyBytes, attaching, stack, shown>>
       ELSE /\ history' = bounded.value /\ historyBytes' = bounded.bytes
            /\ attaching' = IF attaching = None THEN None
                            ELSE [attaching EXCEPT !.pending = Append(@, value)]
            /\ IF view = None THEN UNCHANGED <<stack, shown>>
               ELSE /\ Give(view.view, value)
                    /\ stack' = Append(stack, Frame("write", view.view, view.token, 0))
  /\ UNCHANGED <<active, view, latest, holders>>

(* --- attach() ------------------------------------------------------------------ *)

NewToken == 1 + Len(holders)

\* A token is taken when attach() is called; what comes back disposes by it.
Attach(v) ==
  /\ active /\ Len(stack) < MaxDepth /\ Len(holders) < MaxTokens
  /\ latest' = [latest EXCEPT ![v] = NewToken]
  /\ IF attaching # None /\ attaching.view = v
       THEN /\ attaching' = [attaching EXCEPT !.token = NewToken]
            /\ holders' = Append(holders, "held") /\ UNCHANGED <<view, stack, shown>>
     ELSE IF view # None /\ view.view = v
       THEN /\ attaching' = None /\ view' = [token |-> NewToken, view |-> v]
            /\ holders' = Append(holders, "held") /\ UNCHANGED <<stack, shown>>
       ELSE /\ attaching' = [token |-> NewToken, id |-> NewToken, view |-> v, pending |-> <<>>]
            /\ shown' = [shown EXCEPT ![v] = history]
            /\ stack' = Append(stack, Frame("replay", v, NewToken, NewToken))
            /\ holders' = Append(holders, "attaching") /\ UNCHANGED view
  /\ UNCHANGED <<active, decoder, history, historyBytes, written>>

Top == stack[Len(stack)]
Mine(id) == attaching # None /\ attaching.id = id

WriteReturns ==
  /\ stack # <<>> /\ Top.op = "write" /\ stack' = Front(stack)
  /\ UNCHANGED <<active, decoder, history, historyBytes, view, attaching, shown, latest, holders,
                 written>>

\* What waits after a write of the drain has returned.
Pending == IF Top.op = "drain" THEN Tail(attaching.pending) ELSE attaching.pending

Drain ==
  /\ stack # <<>> /\ Top.op # "write"
  /\ active /\ Mine(Top.id) /\ Pending # <<>>
  /\ attaching' = [attaching EXCEPT !.pending = Pending]
  /\ Give(Top.view, Head(Pending))
  /\ stack' = [stack EXCEPT ![Len(stack)].op = "drain"]
  /\ UNCHANGED <<active, decoder, history, historyBytes, view, latest, holders, written>>

\* Mutant: the view is published although another attach() has come in between.
PublishAlways ==
  /\ stack # <<>> /\ Top.op # "write"
  /\ active /\ ~(Mine(Top.id) /\ Pending # <<>>)
  /\ view' = [token |-> Top.token, view |-> Top.view] /\ attaching' = None
  /\ stack' = Front(stack)
  /\ holders' = [holders EXCEPT ![Top.id] = "held"]
  /\ UNCHANGED <<active, decoder, history, historyBytes, shown, latest, written>>

\* Nothing waits any more: the view takes over.
Publish ==
  /\ stack # <<>> /\ Top.op # "write"
  /\ active /\ Mine(Top.id) /\ Pending = <<>>
  /\ view' = [token |-> attaching.token, view |-> Top.view] /\ attaching' = None
  /\ stack' = Front(stack)
  /\ holders' = [holders EXCEPT ![Top.id] = "held"]
  /\ UNCHANGED <<active, decoder, history, historyBytes, shown, latest, written>>

\* Superseded, detached or disposed of meanwhile.
Superseded ==
  /\ stack # <<>> /\ Top.op # "write"
  /\ ~(active /\ Mine(Top.id))
  /\ stack' = Front(stack)
  /\ holders' = [holders EXCEPT ![Top.id] = "held"]
  /\ UNCHANGED <<active, decoder, history, historyBytes, view, attaching, shown, latest, written>>

\* The catches of write() and of attach().
Throw ==
  /\ stack # <<>> /\ stack' = Front(stack)
  /\ IF Top.op = "write"
       THEN /\ view' = IF view # None /\ view.token = Top.token THEN None ELSE view
            /\ UNCHANGED <<attaching, holders>>
       ELSE /\ attaching' = IF Mine(Top.id) THEN None ELSE attaching
            /\ holders' = [holders EXCEPT ![Top.id] = "disposed"] /\ UNCHANGED view
  /\ UNCHANGED <<active, decoder, history, historyBytes, shown, latest, written>>

(* --- detaching ------------------------------------------------------------------ *)

\* disposable(): by token, so that a stale one does nothing.
Detached(t) ==
  /\ attaching' = IF attaching # None /\ attaching.token = t THEN None ELSE attaching
  /\ view' = IF view # None /\ view.token = t THEN None ELSE view

DisposeAttachment(t) ==
  /\ holders[t] = "held" /\ holders' = [holders EXCEPT ![t] = "disposed"]
  /\ Detached(t)
  /\ UNCHANGED <<active, decoder, history, historyBytes, stack, shown, latest, written>>

\* A terminal is unmounted before the promise of its onMount() has settled:
\* the attachment is disposed of as soon as it has.
Unmount(t) ==
  /\ holders[t] = "held" /\ holders' = [holders EXCEPT ![t] = "unmounted"]
  /\ UNCHANGED <<active, decoder, history, historyBytes, view, attaching, stack, shown, latest,
                 written>>
MountSettles(t) ==
  /\ stack = <<>> /\ holders[t] = "unmounted" /\ holders' = [holders EXCEPT ![t] = "disposed"]
  /\ Detached(t)
  /\ UNCHANGED <<active, decoder, history, historyBytes, stack, shown, latest, written>>

\* dispose(): also from within a write to a view.
Dispose ==
  /\ active /\ active' = FALSE
  /\ UNCHANGED <<decoder, history, historyBytes, view, attaching, stack, shown, latest, holders,
                 written>>

Next == \/ \E chunk \in Chunks : Write(chunk)
        \/ \E v \in Views : Attach(v)
        \/ WriteReturns \/ Drain \/ Publish \/ Superseded \/ Throw \/ Dispose
        \/ \E t \in DOMAIN holders : DisposeAttachment(t) \/ Unmount(t) \/ MountSettles(t)

Spec == Init /\ [][Next]_terminalVars

(* --- properties ------------------------------------------------------------------ *)

TypeOK ==
  /\ active \in BOOLEAN /\ decoder \in {"clean", "half"} /\ written \in 0..MaxChars
  /\ history \in Seq(1..MaxChars)
  /\ view = None \/ view \in [token : 1..MaxTokens, view : Views]
  /\ attaching = None \/ attaching.view \in Views
  /\ Len(stack) <= MaxDepth /\ shown \in [Views -> Seq(1..MaxChars)]
  /\ \A t \in DOMAIN holders : holders[t] \in {"attaching", "held", "unmounted", "disposed"}

\* However writes, attachments and failures nest, the view that is attached was
\* given everything since the history it began with: nothing twice, nothing
\* left out, nothing out of order.
ViewFollowsOutput ==
  view # None => LET s == shown[view.view] IN
                   \A i \in DOMAIN s : s[i] = written - Len(s) + i

\* The history stays within its limit, and its size is counted right.
HistoryBounded == historyBytes = Utf8Length(history) /\ historyBytes <= Limit

\* A view whose attachment is disposed of is given nothing more, and no view is
\* once the service is disposed of.
DetachedIsSilent ==
  [][\A v \in Views : shown'[v] # shown[v] =>
       active /\ holders'[latest'[v]] # "disposed"]_terminalVars
=============================================================================
