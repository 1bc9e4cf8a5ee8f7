------------------------- MODULE ProjectActivationProofs -------------------------
(***************************************************************************)
(* Proofs about ProjectActivation for every number of edits: the calls of  *)
(* the two lives of main.rs reach the server in order, and once it is open *)
(* again the VFS is on its way to what the editor shows.                   *)
(***************************************************************************)
EXTENDS ProjectActivation, SequenceTheorems, TLAPS

\* The queue: a write of a didOpen belongs to a call that waits for it, and no call has
\* two.
Queued ==
  /\ \A i \in DOMAIN chain : chain[i].life # 0 => open[chain[i].life] = "writing"
  /\ \A i, j \in DOMAIN chain : chain[i].life # 0 /\ chain[i].life = chain[j].life => i = j

\* Where the two lives and the didClose between them stand to each other: nothing of the
\* second begins before the didClose is over, and didClose is not begun before the
\* first didOpen is over, unless it waits for it.
Lifetimes ==
  /\ activation \in {"graph", "main"} => close = "none"
  /\ close \in {"none", "awaitOpen"} \/ open[1] \in {"done", "rejected"}
                                     \/ close = "rejected"
  /\ open[1] # "none"
  /\ open[2] # "none" => close = "done" /\ language = "rust"
  /\ activation \in {"open", "semantic", "done"} => open[2] # "none"
  /\ activation = "close" => language = "plaintext"
  /\ inFlight = 1 \/ open[1] \in {"done", "rejected"} \/ disposed
  /\ disposed => aborted

\* What the server knows follows from where the calls stand.
ServerKnows ==
  /\ open[1] = "writing" => ~serverOpen
  /\ close \in {"none", "awaitOpen", "flushing", "writing"} /\ open[1] # "writing" => serverOpen
  /\ close \in {"forwarding", "done"} /\ open[2] \in {"none", "writing"} => ~serverOpen

\* The text: nothing is left behind the timer when the document is opened again, and
\* from then on what is on its way to the VFS is what the editor shows.
TextKept ==
  ~skipped =>
    /\ language = "plaintext" /\ close \in {"writing", "forwarding", "done"} => pending = 0
    /\ open[2] # "none" /\ ~disposed => Tip = text

Inv == TypeOK /\ Queued /\ Lifetimes /\ ServerKnows /\ TextKept

-----------------------------------------------------------------------------
(* The queue.                                                                *)

Write == [text : Texts, life : 0..2]

LEMMA Appended ==
  ASSUME NEW s \in Seq(Write), NEW e \in Write
  PROVE  /\ Append(s, e) \in Seq(Write) /\ Append(s, e) # <<>>
         /\ Len(Append(s, e)) \in Nat /\ DOMAIN Append(s, e) = 1..Len(s) + 1
         /\ Append(s, e)[Len(Append(s, e))] = e
         /\ Append(s, e)[Len(s) + 1] = e
         /\ \A i \in 1..Len(s) : Append(s, e)[i] = s[i]
OBVIOUS

LEMMA Lived ==
  ASSUME NEW s \in Seq(Write), NEW i \in DOMAIN s
  PROVE  s[i] \in Write /\ s[i].life \in 0..2 /\ (s[i].life # 0 => s[i].life \in Lives)
<1>1. s[i] \in Write
  OBVIOUS
<1> QED BY <1>1 DEF Write, Lives

LEMMA Shortened ==
  ASSUME NEW s \in Seq(Write), s # <<>>
  PROVE  /\ Tail(s) \in Seq(Write) /\ Head(s) \in Write /\ Head(s) = s[1]
         /\ Len(s) \in Nat \ {0} /\ Len(Tail(s)) = Len(s) - 1
         /\ DOMAIN s = 1..Len(s) /\ DOMAIN Tail(s) = 1..Len(Tail(s))
         /\ \A i \in 1..Len(Tail(s)) : Tail(s)[i] = s[i + 1]
         /\ Tail(s) # <<>> => Tail(s)[Len(Tail(s))] = s[Len(s)]
         /\ Tail(s) = <<>> => s[Len(s)] = Head(s)
<1>1. /\ Tail(s) \in Seq(Write) /\ Head(s) \in Write /\ Len(Tail(s)) = Len(s) - 1
      /\ \A i \in 1..Len(Tail(s)) : Tail(s)[i] = s[i + 1]
  BY HeadTailProperties
<1>2. /\ Len(s) \in Nat \ {0} /\ DOMAIN s = 1..Len(s) /\ Head(s) = s[1]
      /\ DOMAIN Tail(s) = 1..Len(Tail(s))
  BY <1>1, EmptySeq
<1>3. Tail(s) # <<>> => Len(Tail(s)) \in 1..Len(Tail(s)) /\ Len(Tail(s)) + 1 = Len(s)
  BY <1>1, <1>2, EmptySeq
<1>4. Tail(s) = <<>> => Len(s) = 1
  <2>1. Len(<<>>) = 0
    OBVIOUS
  <2>2. Tail(s) = <<>> => Len(s) - 1 = 0
    BY <1>1, <2>1
  <2> QED BY <1>2, <2>2
<1> QED BY <1>1, <1>2, <1>3, <1>4

-----------------------------------------------------------------------------
(* The invariant.                                                            *)

LEMMA InitInv == Init => Inv
<1> SUFFICES ASSUME Init PROVE Inv
  OBVIOUS
<1>1. 1 \in Texts /\ chain \in Seq([text : Texts, life : 0..2])
  <2>1. 1 \in Texts
    BY DEF Texts
  <2>2. [text |-> 1, life |-> 1] \in [text : Texts, life : 0..2]
    BY <2>1
  <2> QED BY <2>1, <2>2 DEF Init
<1>2. TypeOK
  <2>1. open \in [Lives -> OpenSteps]
    BY DEF Init, OpenSteps
  <2>2. /\ text = 1 /\ content = 1 /\ language = "rust" /\ activation = "graph"
        /\ pending = 0 /\ failure = 0 /\ vfs = 1 /\ inFlight = 1 /\ close = "none"
        /\ closeLeft = 0 /\ ~skipped /\ ~serverOpen /\ ~aborted /\ ~disposed
        /\ skipped \in BOOLEAN /\ serverOpen \in BOOLEAN /\ aborted \in BOOLEAN
        /\ disposed \in BOOLEAN
    BY DEF Init
  <2> QED BY <1>1, <2>1, <2>2 DEF TypeOK, Steps, CloseSteps
<1>3. DOMAIN chain = {1} /\ chain[1].life = 1
  BY DEF Init
<1>4. open[1] = "writing" /\ open[2] = "none"
  BY DEF Init, Lives
<1>5. Queued
  BY <1>3, <1>4 DEF Queued
<1>6. Lifetimes /\ ServerKnows /\ TextKept
  BY <1>4 DEF Init, Lifetimes, ServerKnows, TextKept
<1> QED BY <1>2, <1>5, <1>6 DEF Inv

LEMMA NextType == Inv /\ [Next]_vars => TypeOK'
<1> SUFFICES ASSUME Inv, [Next]_vars PROVE TypeOK'
  OBVIOUS
<1> USE DEF Inv, TypeOK, Steps, OpenSteps, CloseSteps, Lives, stops
<1>a. chain \in Seq(Write)
  BY DEF Write
<1>1. CASE Edit
  <2>1. text + 1 \in Texts
    BY <1>1 DEF Edit, Texts
  <2> QED BY <1>1, <2>1 DEF Edit, calls
<1>2. CASE TimerFires
  <2>1. chain' \in Seq([text : Texts, life : 0..2])
    <3>1. [text |-> pending, life |-> 0] \in Write
      BY <1>2 DEF TimerFires, Write
    <3> QED BY <1>2, <1>a, <3>1, Appended DEF TimerFires, QueueWrite, Write
  <2> QED BY <1>2, <2>1 DEF TimerFires, calls, editor
<1>3. CASE MainSettles
  BY <1>3 DEF MainSettles
<1>4. CASE Reopens
  <2>1. chain' \in Seq([text : Texts, life : 0..2])
    <3>1. [text |-> text, life |-> 2] \in Write
      BY DEF Write
    <3> QED BY <1>4, <1>a, <3>1, Appended DEF Reopens, QueueWrite, Write
  <2> QED BY <1>4, <2>1 DEF Reopens
<1>5. CASE ActivationFails \/ GraphReady \/ CallFails \/ Reopened \/ SemanticReady
  BY <1>5 DEF ActivationFails, GraphReady, CallFails, Reopened, SemanticReady, editor,
              writes, calls
<1>6. ASSUME NEW ok \in BOOLEAN, WriteSettles(ok) PROVE TypeOK'
  <2>1. Tail(chain) \in Seq(Write) /\ Head(chain) \in Write
    BY <1>6, <1>a, Shortened DEF WriteSettles
  <2>2. chain' \in Seq([text : Texts, life : 0..2]) /\ Head(chain).text \in Texts
    BY <1>6, <2>1 DEF WriteSettles, Write
  <2>3. CountDown(closeLeft) \in Nat
    BY DEF CountDown
  <2>4. open' \in [Lives -> OpenSteps]
    BY <1>6 DEF WriteSettles
  <2>5. close' \in CloseSteps /\ serverOpen' \in BOOLEAN /\ closeLeft' \in Nat
    BY <1>6, <2>3 DEF WriteSettles
  <2>6. vfs' \in Texts /\ failure' \in Texts \cup {0} /\ inFlight' \in 0..2
    BY <1>6, <2>2 DEF WriteSettles
  <2>7. UNCHANGED <<text, language, content, activation, pending, skipped, aborted, disposed>>
    BY <1>6 DEF WriteSettles, editor
  <2> QED BY <2>2, <2>4, <2>5, <2>6, <2>7
<1>7. ASSUME NEW life \in Lives, OpenSettles(life) PROVE TypeOK'
  BY <1>7 DEF OpenSettles, Leaves, editor, writes
<1>8. CASE CloseFlushes
  <2>1. chain' \in Seq([text : Texts, life : 0..2]) /\ Len(chain') \in Nat
    <3>1. [text |-> text, life |-> 0] \in Write
      BY DEF Write
    <3>2. chain' = chain \/ chain' = Append(chain, [text |-> text, life |-> 0])
      BY <1>8 DEF CloseFlushes, QueueWrite
    <3>3. chain' \in Seq(Write)
      BY <1>a, <3>1, <3>2, Appended
    <3> QED BY <3>3 DEF Write
  <2>2. closeLeft' \in Nat /\ close' \in CloseSteps /\ serverOpen' \in BOOLEAN
    <3>1. ASSUME CloseWaits
          PROVE  closeLeft' \in Nat /\ close' \in CloseSteps /\ serverOpen' \in BOOLEAN
      BY <2>1, <3>1 DEF CloseWaits
    <3>2. CloseWaits \/ (close' = "forwarding" /\ serverOpen' = FALSE /\ closeLeft' = 0)
      BY <1>8 DEF CloseFlushes
    <3>3. ASSUME close' = "forwarding", serverOpen' = FALSE, closeLeft' = 0
          PROVE  closeLeft' \in Nat /\ close' \in CloseSteps /\ serverOpen' \in BOOLEAN
      BY <3>3
    <3> QED BY <3>1, <3>2, <3>3
  <2>3. pending' \in Texts \cup {0} /\ skipped' \in BOOLEAN
    BY <1>8 DEF CloseFlushes
  <2>4. UNCHANGED <<text, language, content, activation, failure, vfs, open, inFlight,
                    aborted, disposed>>
    BY <1>8 DEF CloseFlushes, editor
  <2> QED BY <2>1, <2>2, <2>3, <2>4
<1>9. CASE CloseRejected \/ CloseSettles
  BY <1>9 DEF CloseRejected, CloseSettles, editor, writes
<1>10. CASE Abort
  BY <1>10 DEF Abort, editor, writes, calls
<1>11. CASE SyncAborts
  BY <1>11 DEF SyncAborts, editor
<1>12. CASE UNCHANGED vars
  BY <1>12 DEF vars, editor, writes, calls
<1> QED BY <1>1, <1>2, <1>3, <1>4, <1>5, <1>6, <1>7, <1>8, <1>9, <1>10, <1>11, <1>12
        DEF Next, Activation, Calls

\* A write that is appended leaves the queue in order if it is of no didOpen, or the first
\* of the didOpen that begins.
LEMMA QueueGrows ==
  ASSUME TypeOK, Queued, NEW w \in Write, chain' = Append(chain, w),
         \/ w.life = 0 /\ open' = open
         \/ w.life = 2 /\ open[2] = "none" /\ open' = [open EXCEPT ![2] = "writing"]
  PROVE  Queued'
<1>1. chain \in Seq(Write)
  BY DEF TypeOK, Write
<1>2. /\ Len(chain) \in Nat /\ DOMAIN chain = 1..Len(chain)
      /\ DOMAIN chain' = 1..Len(chain) + 1 /\ chain'[Len(chain) + 1] = w
      /\ \A i \in 1..Len(chain) : chain'[i] = chain[i]
  BY <1>1, Appended
<1>3. \A i \in 1..Len(chain) : /\ chain[i].life \in 0..2
                              /\ chain[i].life # 0 => open[chain[i].life] = "writing"
  BY <1>1, <1>2, Lived DEF Queued
<1>4. \A n \in Lives : open[n] = "writing" => open'[n] = "writing"
  BY DEF TypeOK, Lives
<1>5. \A i \in 1..Len(chain) : chain[i].life # 0 => chain[i].life # w.life
  <2>1. CASE w.life = 0
    BY <2>1
  <2>2. CASE w.life = 2 /\ open[2] = "none"
    BY <1>3, <2>2
  <2> QED BY <2>1, <2>2
<1>6. w.life # 0 => open'[w.life] = "writing"
  BY DEF TypeOK, Lives
<1>7. \A i \in DOMAIN chain' : i \in 1..Len(chain) \/ i = Len(chain) + 1
  BY <1>2
<1>8. \A i \in DOMAIN chain' : chain'[i].life # 0 => open'[chain'[i].life] = "writing"
  <2>1. ASSUME NEW i \in 1..Len(chain), chain'[i].life # 0
        PROVE  open'[chain'[i].life] = "writing"
    <3>1. chain'[i] = chain[i]
      BY <1>2
    <3>2. i \in DOMAIN chain /\ chain[i].life # 0
      BY <1>2, <2>1, <3>1
    <3>3. chain[i].life \in Lives /\ open[chain[i].life] = "writing"
      BY <1>1, <3>2, Lived DEF Queued
    <3> QED BY <1>4, <3>1, <3>3
  <2> QED BY <1>2, <1>6, <1>7, <2>1
<1>9. \A i, j \in DOMAIN chain' :
        chain'[i].life # 0 /\ chain'[i].life = chain'[j].life => i = j
  BY <1>2, <1>5, <1>7 DEF Queued
<1> QED BY <1>8, <1>9 DEF Queued

LEMMA NextQueued == Inv /\ [Next]_vars => Queued'
<1> SUFFICES ASSUME Inv, [Next]_vars PROVE Queued'
  OBVIOUS
<1>a. TypeOK /\ Queued /\ chain \in Seq(Write)
  BY DEF Inv, TypeOK, Write
<1>1. CASE TimerFires
  <2>1. [text |-> pending, life |-> 0] \in Write
    BY <1>1, <1>a DEF TimerFires, TypeOK, Write
  <2> QED BY <1>1, <1>a, <2>1, QueueGrows DEF TimerFires, QueueWrite, calls
<1>2. CASE Reopens
  <2>1. [text |-> text, life |-> 2] \in Write
    BY <1>a DEF TypeOK, Write
  <2>2. open[2] = "none"
    BY <1>2 DEF Reopens, Inv, Lifetimes
  <2> QED BY <1>2, <1>a, <2>1, <2>2, QueueGrows DEF Reopens, QueueWrite
<1>3. CASE CloseFlushes
  <2>1. [text |-> text, life |-> 0] \in Write
    BY <1>a DEF TypeOK, Write
  <2>2. open' = open
    BY <1>3 DEF CloseFlushes
  <2>3. chain' = chain \/ chain' = Append(chain, [text |-> text, life |-> 0])
    BY <1>3 DEF CloseFlushes, QueueWrite
  <2>4. CASE chain' = chain
    BY <1>a, <2>2, <2>4 DEF Queued
  <2> QED BY <1>a, <2>1, <2>2, <2>3, <2>4, QueueGrows
<1>4. ASSUME NEW ok \in BOOLEAN, WriteSettles(ok) PROVE Queued'
  <2>1. /\ chain' = Tail(chain) /\ chain # <<>>
        /\ \A n \in Lives : n # Head(chain).life => open'[n] = open[n]
    BY <1>4 DEF WriteSettles
  <2>2. /\ Len(chain) \in Nat \ {0} /\ DOMAIN chain = 1..Len(chain)
        /\ DOMAIN chain' = 1..Len(chain) - 1 /\ Head(chain) = chain[1]
        /\ \A i \in 1..Len(chain) - 1 : chain'[i] = chain[i + 1]
    BY <1>a, <2>1, Shortened
  <2>3. ASSUME NEW i \in DOMAIN chain', chain'[i].life # 0
        PROVE  open'[chain'[i].life] = "writing"
    <3>1. chain'[i] = chain[i + 1] /\ i + 1 \in DOMAIN chain /\ i + 1 # 1 /\ 1 \in DOMAIN chain
      BY <2>2
    <3>2. chain[i + 1].life # chain[1].life
      BY <1>a, <2>3, <3>1 DEF Queued
    <3>3. chain[i + 1].life \in Lives /\ open[chain[i + 1].life] = "writing"
      BY <1>a, <2>2, <2>3, <3>1, Lived DEF Queued
    <3> QED BY <2>1, <2>2, <3>1, <3>2, <3>3
  <2>4. ASSUME NEW i \in DOMAIN chain', NEW j \in DOMAIN chain',
               chain'[i].life # 0, chain'[i].life = chain'[j].life
        PROVE  i = j
    <3>1. i \in Nat /\ j \in Nat /\ i + 1 \in DOMAIN chain /\ j + 1 \in DOMAIN chain
      BY <2>2
    <3>2. chain'[i] = chain[i + 1] /\ chain'[j] = chain[j + 1]
      BY <2>2
    <3>3. i + 1 = j + 1
      BY <1>a, <2>4, <3>1, <3>2 DEF Queued
    <3> QED BY <3>1, <3>3
  <2> QED BY <2>3, <2>4 DEF Queued
<1>5. ASSUME NEW life \in Lives, OpenSettles(life) PROVE Queued'
  <2>1. /\ chain' = chain /\ open[life] # "writing"
        /\ \A n \in Lives : n # life => open'[n] = open[n]
    BY <1>5, <1>a DEF OpenSettles, writes, TypeOK
  <2>2. \A i \in DOMAIN chain : chain[i].life # 0 => chain[i].life \in Lives
    BY <1>a, Lived
  <2> QED BY <1>a, <2>1, <2>2 DEF Queued
<1>6. ASSUME UNCHANGED <<chain, open>> PROVE Queued'
  BY <1>6, <1>a DEF Queued
<1> QED BY <1>1, <1>2, <1>3, <1>4, <1>5, <1>6
        DEF Next, Activation, Calls, Edit, ActivationFails, GraphReady, MainSettles,
            CallFails, Reopened, SemanticReady, CloseRejected, CloseSettles, Abort,
            SyncAborts, vars, editor, writes, calls


\* What a write that settles does to the two calls.
LEMMA SettledCalls ==
  ASSUME Inv, NEW ok \in BOOLEAN, WriteSettles(ok)
  PROVE  /\ chain # <<>>
         /\ \A n \in Lives : \/ open'[n] = open[n]
                             \/ /\ open[n] = "writing" /\ Head(chain).life = n
                                /\ \/ open'[n] = "forwarding"
                                   \/ n = 2 /\ open'[n] = "rejected"
         /\ \/ close' = close
            \/ close = "writing" /\ close' = "forwarding"
<1>1. chain # <<>> /\ chain \in Seq(Write)
  BY DEF WriteSettles, Inv, TypeOK, Write
<1>2. 1 \in DOMAIN chain /\ Head(chain) = chain[1]
  BY <1>1, Shortened
<1>3. Head(chain).life # 0 => open[Head(chain).life] = "writing"
  BY <1>2 DEF Inv, Queued
<1>4. ASSUME NEW n \in Lives
      PROVE  \/ open'[n] = open[n]
             \/ /\ open[n] = "writing" /\ Head(chain).life = n
                /\ open'[n] = "forwarding" \/ (n = 2 /\ open'[n] = "rejected")
  <2>1. CASE n = Head(chain).life
    <3>1. n # 0
      BY DEF Lives
    <3>2. \/ open'[n] = "forwarding"
          \/ n = 2 /\ open'[n] = "rejected"
      BY <2>1 DEF WriteSettles, Lives
    <3> QED BY <1>3, <2>1, <3>1, <3>2
  <2>2. CASE n # Head(chain).life
    BY <2>2 DEF WriteSettles
  <2> QED BY <2>1, <2>2
<1>5. \/ close' = close
      \/ close = "writing" /\ close' = "forwarding"
  BY DEF WriteSettles
<1> QED BY <1>1, <1>4, <1>5

LEMMA NextLifetimes == Inv /\ [Next]_vars => Lifetimes'
<1> SUFFICES ASSUME Inv, [Next]_vars PROVE Lifetimes'
  OBVIOUS
<1>a. TypeOK /\ Lifetimes /\ 1 \in Lives /\ 2 \in Lives
  BY DEF Inv, Lives
<1>1. CASE MainSettles
  BY <1>1, <1>a DEF MainSettles, Lifetimes, stops
<1>2. CASE Reopens
  <2>1. open'[1] = open[1] /\ open'[2] = "writing"
    BY <1>2, <1>a DEF Reopens, TypeOK
  <2> QED BY <1>2, <1>a, <2>1 DEF Reopens, Lifetimes, stops
<1>3. ASSUME NEW ok \in BOOLEAN, WriteSettles(ok) PROVE Lifetimes'
  <2>1. UNCHANGED <<activation, language, disposed, aborted>>
    BY <1>3 DEF WriteSettles, editor, stops
  <2>2. open[2] = "none" => open'[2] = "none"
    BY <1>3, <1>a, SettledCalls
  <2>3. /\ open'[1] # "none" /\ (open[1] \in {"done", "rejected"} => open'[1] = open[1])
        /\ open'[2] # "none" => open[2] # "none"
        /\ open[2] # "none" => open'[2] # "none"
    BY <1>3, <1>a, SettledCalls DEF Lifetimes
  <2>4. close' = close \/ (close = "writing" /\ close' = "forwarding")
    BY <1>3, SettledCalls
  <2>5. inFlight' = inFlight \/ (inFlight = 2 /\ inFlight' = 0)
    BY <1>3 DEF WriteSettles
  <2> QED BY <1>a, <2>1, <2>2, <2>3, <2>4, <2>5 DEF Lifetimes
<1>4. ASSUME NEW life \in Lives, OpenSettles(life) PROVE Lifetimes'
  <2>1. /\ open[life] = "forwarding" /\ open'[life] \in {"done", "rejected"}
        /\ \A n \in Lives : n # life => open'[n] = open[n]
    BY <1>4, <1>a DEF OpenSettles, TypeOK
  <2>2. UNCHANGED <<activation, language, close, disposed, aborted>>
    BY <1>4 DEF OpenSettles, editor, stops
  <2>3. inFlight' = IF inFlight = life THEN 0 ELSE inFlight
    BY <1>4 DEF OpenSettles, Leaves
  <2>4. life = 1 \/ life = 2
    BY DEF Lives
  <2> QED BY <1>a, <2>1, <2>2, <2>3, <2>4 DEF Lifetimes
<1>5. CASE CloseFlushes
  <2>1. close' \in {"writing", "forwarding"}
    BY <1>5 DEF CloseFlushes, CloseWaits
  <2>2. UNCHANGED <<open, activation, language, inFlight, disposed, aborted>>
    BY <1>5 DEF CloseFlushes, editor, stops
  <2>3. close \in {"flushing", "awaitOpen"} /\ (close = "awaitOpen" => open[1] = "done")
    BY <1>5 DEF CloseFlushes
  <2> QED BY <1>a, <2>1, <2>2, <2>3 DEF Lifetimes
<1>6. CASE CloseRejected \/ CloseSettles
  BY <1>6, <1>a DEF CloseRejected, CloseSettles, Lifetimes, editor, stops
<1>7. CASE ActivationFails \/ GraphReady \/ CallFails \/ Reopened \/ SemanticReady
  BY <1>7, <1>a DEF ActivationFails, GraphReady, CallFails, Reopened, SemanticReady,
                    Lifetimes, editor, calls, stops
<1>8. CASE Abort
  BY <1>8, <1>a DEF Abort, Lifetimes, editor, calls
<1>9. CASE SyncAborts
  BY <1>9, <1>a DEF SyncAborts, Lifetimes, editor
<1>10. ASSUME UNCHANGED <<language, activation, open, inFlight, close, stops>>
       PROVE  Lifetimes'
  BY <1>10, <1>a DEF Lifetimes, stops
<1> QED BY <1>1, <1>2, <1>3, <1>4, <1>5, <1>6, <1>7, <1>8, <1>9, <1>10
        DEF Next, Activation, Calls, Edit, TimerFires, vars, editor, calls

LEMMA NextServerKnows == Inv /\ [Next]_vars => ServerKnows'
<1> SUFFICES ASSUME Inv, [Next]_vars PROVE ServerKnows'
  OBVIOUS
<1>a. TypeOK /\ Lifetimes /\ ServerKnows /\ 1 \in Lives /\ 2 \in Lives
  BY DEF Inv, Lives
<1>1. CASE MainSettles
  <2>1. close = "none" /\ close' \in {"none", "flushing", "awaitOpen"}
    BY <1>1, <1>a DEF MainSettles, Lifetimes
  <2> QED BY <1>1, <1>a, <2>1 DEF MainSettles, ServerKnows
<1>2. CASE Reopens
  <2>1. open'[1] = open[1] /\ open'[2] = "writing" /\ open[2] = "none"
    BY <1>2, <1>a DEF Reopens, Lifetimes, TypeOK
  <2> QED BY <1>2, <1>a, <2>1 DEF Reopens, ServerKnows
<1>3. ASSUME NEW ok \in BOOLEAN, WriteSettles(ok) PROVE ServerKnows'
  <2> DEFINE life == Head(chain).life
             forwards == {n \in Lives : n = life /\ (ok \/ n = 1)}
             closes == close = "writing" /\ closeLeft = 1
  <2>1. /\ serverOpen' = IF forwards # {} THEN TRUE ELSE IF closes THEN FALSE ELSE serverOpen
        /\ close' = IF closes THEN "forwarding" ELSE close
        /\ \A n \in Lives : n \in forwards => open'[n] = "forwarding"
        /\ \A n \in Lives : n # life => open'[n] = open[n]
    BY <1>3 DEF WriteSettles
  <2>2. \A n \in Lives : n = life => open[n] = "writing"
    <3>1. 1 \in DOMAIN chain /\ Head(chain) = chain[1]
      BY <1>3, Shortened DEF WriteSettles, Inv, TypeOK, Write
    <3> QED BY <3>1 DEF Inv, Queued, Lives
  <2>3. CASE life = 1
    <3>1. forwards # {} /\ 1 \in forwards
      BY <2>3, <1>a
    <3>2. serverOpen' /\ open'[1] = "forwarding" /\ open'[2] = open[2] /\ open[1] = "writing"
      BY <1>a, <2>1, <2>2, <2>3, <3>1
    <3>3. close' = close /\ close \in {"none", "awaitOpen", "rejected"}
      BY <1>a, <2>1, <3>2 DEF Lifetimes
    <3> QED BY <3>2, <3>3 DEF ServerKnows
  <2>4. CASE life = 2
    <3>1. open[2] = "writing" /\ close = "done" /\ open'[1] = open[1]
      BY <1>a, <2>1, <2>2, <2>4 DEF Lifetimes
    <3>2. open[1] \in {"done", "rejected"} /\ close' = "done"
      BY <1>a, <2>1, <3>1 DEF Lifetimes
    <3>3. open'[2] \in {"forwarding", "rejected"}
      BY <1>3, <1>a, <2>4 DEF WriteSettles
    <3> QED BY <3>1, <3>2, <3>3 DEF ServerKnows
  <2>5. CASE life \notin Lives
    <3>1. forwards = {} /\ open'[1] = open[1] /\ open'[2] = open[2]
      BY <1>a, <2>1, <2>5
    <3>2. CASE closes
      <4>1. close = "writing" /\ close' = "forwarding" /\ ~serverOpen'
        BY <2>1, <3>1, <3>2
      <4> QED BY <3>1, <4>1 DEF ServerKnows
    <3>3. CASE ~closes
      <4>1. close' = close /\ serverOpen' = serverOpen
        BY <2>1, <3>1, <3>3
      <4> QED BY <1>a, <3>1, <4>1 DEF ServerKnows
    <3> QED BY <3>2, <3>3
  <2>6. life \notin Lives \/ life = 1 \/ life = 2
    BY DEF Lives
  <2> QED BY <2>3, <2>4, <2>5, <2>6
<1>4. ASSUME NEW life \in Lives, OpenSettles(life) PROVE ServerKnows'
  <2>1. /\ open[life] = "forwarding" /\ open'[life] \in {"done", "rejected"}
        /\ \A n \in Lives : n # life => open'[n] = open[n]
    BY <1>4, <1>a DEF OpenSettles, TypeOK
  <2>2. UNCHANGED <<close, serverOpen>>
    BY <1>4 DEF OpenSettles
  <2>3. life = 1 \/ life = 2
    BY DEF Lives
  <2> QED BY <1>a, <2>1, <2>2, <2>3 DEF ServerKnows
<1>5. CASE CloseFlushes
  <2>1. open' = open /\ open[1] # "writing" /\ open[2] = "none" /\ serverOpen
    BY <1>5, <1>a DEF CloseFlushes, Lifetimes, ServerKnows
  <2>2. \/ close' = "forwarding" /\ ~serverOpen'
        \/ close' = "writing" /\ serverOpen' = serverOpen
    BY <1>5 DEF CloseFlushes, CloseWaits
  <2> QED BY <2>1, <2>2 DEF ServerKnows
<1>6. CASE CloseRejected \/ CloseSettles
  BY <1>6, <1>a DEF CloseRejected, CloseSettles, ServerKnows
<1>7. ASSUME UNCHANGED <<open, close, serverOpen>> PROVE ServerKnows'
  BY <1>7, <1>a DEF ServerKnows
<1> QED BY <1>1, <1>2, <1>3, <1>4, <1>5, <1>6, <1>7
        DEF Next, Activation, Calls, Edit, TimerFires, ActivationFails, GraphReady,
            CallFails, Reopened, SemanticReady, Abort, SyncAborts, vars, calls

\* While nothing is scheduled, a write that settles leaves the last text where it is: last
\* in the queue, remembered as failed, or in the VFS.
LEMMA TipSettles ==
  ASSUME TypeOK, NEW ok \in BOOLEAN, WriteSettles(ok)
  PROVE  Tip' = Tip
<1>1. /\ chain \in Seq(Write) /\ chain # <<>> /\ chain' = Tail(chain) /\ pending' = pending
      /\ vfs' = IF ok THEN Head(chain).text ELSE vfs
      /\ failure' = IF ok THEN 0 ELSE Head(chain).text
  BY DEF WriteSettles, TypeOK, Write
<1>2. /\ Head(chain) \in Write
      /\ Tail(chain) # <<>> => Tail(chain)[Len(Tail(chain))] = chain[Len(chain)]
      /\ Tail(chain) = <<>> => chain[Len(chain)] = Head(chain)
  BY <1>1, Shortened
<1>3. Head(chain).text # 0
  BY <1>2 DEF Write, Texts
<1>4. CASE Tail(chain) # <<>>
  BY <1>1, <1>2, <1>4 DEF Tip
<1>5. CASE Tail(chain) = <<>>
  <2>1. Tip = IF pending # 0 THEN pending ELSE Head(chain).text
    BY <1>1, <1>2, <1>5 DEF Tip
  <2>2. Tip' = IF pending # 0 THEN pending ELSE IF failure' # 0 THEN failure' ELSE vfs'
    BY <1>1, <1>5 DEF Tip
  <2> QED BY <1>1, <1>3, <2>1, <2>2
<1> QED BY <1>4, <1>5

LEMMA NextTextKept == Inv /\ [Next]_vars => TextKept'
<1> SUFFICES ASSUME Inv, [Next]_vars, ~skipped'
             PROVE  /\ language' = "plaintext" /\ close' \in {"writing", "forwarding", "done"}
                         => pending' = 0
                    /\ open'[2] # "none" /\ ~disposed' => Tip' = text'
  BY DEF TextKept
<1> DEFINE Kept == /\ language' = "plaintext" /\ close' \in {"writing", "forwarding", "done"}
                         => pending' = 0
                   /\ open'[2] # "none" /\ ~disposed' => Tip' = text'
<1>a. TypeOK /\ Lifetimes /\ TextKept /\ 1 \in Lives /\ 2 \in Lives /\ chain \in Seq(Write)
  BY DEF Inv, TypeOK, Lives, Write
<1>b. text # 0 /\ text \in Nat
  BY DEF Inv, TypeOK, Texts
<1>1. CASE Edit
  <2>1. UNCHANGED <<language, close, open, disposed, skipped>> /\ text' = text + 1
    BY <1>1 DEF Edit, calls, stops
  <2>2. language = "plaintext" => pending' = pending
    BY <1>1 DEF Edit
  <2>3. open[2] # "none" /\ ~disposed => pending' = text + 1 /\ Tip' = pending'
    <3>1. open[2] # "none" => language = "rust"
      BY <1>a DEF Lifetimes
    <3> SUFFICES ASSUME open[2] # "none", ~disposed
                 PROVE  pending' = text + 1 /\ Tip' = pending'
      OBVIOUS
    <3>2. pending' = text + 1
      BY <1>1, <3>1 DEF Edit
    <3>3. pending' # 0
      BY <1>b, <3>2
    <3> QED BY <3>2, <3>3 DEF Tip
  <2> QED BY <1>a, <2>1, <2>2, <2>3 DEF TextKept
<1>2. CASE TimerFires
  <2>1. UNCHANGED <<language, close, open, disposed, skipped, text, failure, vfs>>
    BY <1>2 DEF TimerFires, editor, calls, stops
  <2>2. pending # 0 /\ pending' = 0 /\ chain' = Append(chain, [text |-> pending, life |-> 0])
    BY <1>2 DEF TimerFires, QueueWrite
  <2>3. [text |-> pending, life |-> 0] \in Write
    BY <1>a, <2>2 DEF TypeOK, Write
  <2>4. chain' # <<>> /\ chain'[Len(chain')] = [text |-> pending, life |-> 0]
    BY <1>a, <2>2, <2>3, Appended
  <2>5. Tip' = pending /\ Tip = pending
    BY <2>2, <2>4 DEF Tip
  <2> QED BY <1>a, <2>1, <2>2, <2>5 DEF TextKept
<1>3. CASE MainSettles
  <2>1. close = "none" /\ close' \in {"none", "flushing", "awaitOpen"} /\ open' = open
    BY <1>3, <1>a DEF MainSettles, Lifetimes
  <2>2. open[2] = "none"
    BY <1>a, <2>1 DEF Lifetimes
  <2> QED BY <2>1, <2>2
<1>4. CASE Reopens
  <2>1. /\ language = "plaintext" /\ close = "done" /\ language' = "rust" /\ ~skipped
        /\ pending' = pending /\ text' = text
        /\ chain' = Append(chain, [text |-> text, life |-> 2])
    BY <1>4, <1>a DEF Reopens, QueueWrite, Lifetimes
  <2>2. pending = 0
    BY <1>a, <2>1 DEF TextKept
  <2>3. [text |-> text, life |-> 2] \in Write
    BY <1>a DEF TypeOK, Write
  <2>4. chain' # <<>> /\ chain'[Len(chain')] = [text |-> text, life |-> 2]
    BY <1>a, <2>1, <2>3, Appended
  <2>5. Tip' = text'
    BY <2>1, <2>2, <2>4 DEF Tip
  <2> QED BY <2>1, <2>5
<1>5. ASSUME NEW ok \in BOOLEAN, WriteSettles(ok) PROVE Kept
  <2>1. Tip' = Tip
    BY <1>5, <1>a, TipSettles
  <2>2. UNCHANGED <<text, language, pending, disposed, skipped>>
    BY <1>5 DEF WriteSettles, editor, stops
  <2>3. /\ close' = close \/ (close = "writing" /\ close' = "forwarding")
        /\ open'[2] # "none" => open[2] # "none"
    BY <1>5, <1>a, SettledCalls
  <2> QED BY <1>a, <2>1, <2>2, <2>3 DEF TextKept
<1>6. ASSUME NEW life \in Lives, OpenSettles(life) PROVE Kept
  <2>1. open'[2] # "none" => open[2] # "none"
    BY <1>6, <1>a DEF OpenSettles, TypeOK
  <2>2. UNCHANGED <<text, language, close, skipped, disposed, pending, chain, failure, vfs>>
    BY <1>6 DEF OpenSettles, editor, writes, stops
  <2> QED BY <1>a, <2>1, <2>2 DEF TextKept, Tip
<1>7. CASE CloseFlushes
  <2>1. open' = open /\ open[2] = "none"
    BY <1>7, <1>a DEF CloseFlushes, Lifetimes
  <2>2. skipped' = TRUE \/ pending' = 0
    BY <1>7 DEF CloseFlushes
  <2> QED BY <2>1, <2>2
<1>8. CASE CloseRejected \/ CloseSettles
  <2>1. UNCHANGED <<text, language, open, skipped, disposed, pending, chain, failure, vfs>>
    BY <1>8 DEF CloseRejected, CloseSettles, editor, writes, stops
  <2>2. close' \in {"writing", "forwarding", "done"} => close = "forwarding"
    BY <1>8 DEF CloseRejected, CloseSettles
  <2> QED BY <1>a, <2>1, <2>2 DEF TextKept, Tip
<1>9. CASE SyncAborts
  BY <1>9 DEF SyncAborts
<1>10. ASSUME UNCHANGED <<editor, writes, calls, disposed>> PROVE Kept
  BY <1>10, <1>a DEF TextKept, Tip, editor, writes, calls
<1> QED BY <1>1, <1>2, <1>3, <1>4, <1>5, <1>6, <1>7, <1>8, <1>9, <1>10
        DEF Next, Activation, Calls, ActivationFails, GraphReady, CallFails, Reopened,
            SemanticReady, Abort, vars, stops

\* Every step keeps the invariant: the queue, the order of the lives, what the server
\* knows, and the text.
THEOREM Invariance == Spec => []Inv
<1>1. Inv /\ [Next]_vars => Inv'
  BY NextType, NextQueued, NextLifetimes, NextServerKnows, NextTextKept DEF Inv
<1> QED BY <1>1, InitInv, PTL DEF Spec

-----------------------------------------------------------------------------
(* The theorems.                                                             *)

\* Type correctness: the queue holds writes of texts.
THEOREM TypeCorrect == Spec => []TypeOK
<1>1. Inv => TypeOK
  BY DEF Inv
<1> QED BY <1>1, Invariance, PTL

\* Whatever is slow and whatever fails, the server hears of an opening of main.rs only
\* when it does not have it open, and of its closing only when it has.
THEOREM LivesAreOrdered == Spec => LivesInOrder
<1>1. Inv /\ [Next]_vars =>
        [/\ \A life \in Lives : open[life] # "forwarding" /\ open'[life] = "forwarding"
                                  => ~serverOpen /\ serverOpen'
         /\ close # "forwarding" /\ close' = "forwarding"
              => serverOpen /\ ~serverOpen']_vars
  <2> SUFFICES ASSUME Inv, [Next]_vars
               PROVE  /\ \A life \in Lives :
                           open[life] # "forwarding" /\ open'[life] = "forwarding"
                             => ~serverOpen /\ serverOpen'
                      /\ close # "forwarding" /\ close' = "forwarding"
                           => serverOpen /\ ~serverOpen'
    OBVIOUS
  <2>a. TypeOK /\ Lifetimes /\ ServerKnows /\ 1 \in Lives /\ 2 \in Lives
    BY DEF Inv, Lives
  <2>1. ASSUME NEW life \in Lives, open[life] # "forwarding", open'[life] = "forwarding"
        PROVE  ~serverOpen /\ serverOpen'
    <3>1. \E ok \in BOOLEAN : WriteSettles(ok)
      <4>1. ASSUME NEW n \in Lives, OpenSettles(n) PROVE FALSE
        BY <2>1, <2>a, <4>1 DEF OpenSettles, TypeOK
      <4>2. ASSUME Reopens PROVE FALSE
        BY <2>1, <2>a, <4>2 DEF Reopens, TypeOK
      <4>3. ASSUME open' = open PROVE FALSE
        BY <2>1, <4>3
      <4> QED BY <4>1, <4>2, <4>3
              DEF Next, Activation, Calls, Edit, TimerFires, ActivationFails, GraphReady,
                  MainSettles, CallFails, Reopened, SemanticReady, CloseFlushes,
                  CloseRejected, CloseSettles, Abort, SyncAborts, vars, calls
    <3>2. PICK ok \in BOOLEAN : WriteSettles(ok)
      BY <3>1
    <3>3. open[life] = "writing" /\ Head(chain).life = life
      BY <2>1, <3>2, SettledCalls
    <3>4. life \in {n \in Lives : n = Head(chain).life /\ (ok \/ n = 1)}
      BY <2>1, <3>2, <3>3 DEF WriteSettles
    <3>5. serverOpen' = TRUE
      BY <3>2, <3>4 DEF WriteSettles
    <3>6. CASE life = 1
      BY <2>a, <3>3, <3>5, <3>6 DEF ServerKnows
    <3>7. CASE life = 2
      BY <2>a, <3>3, <3>5, <3>7 DEF ServerKnows, Lifetimes
    <3> QED BY <3>6, <3>7 DEF Lives
  <2>2. ASSUME close # "forwarding", close' = "forwarding"
        PROVE  serverOpen /\ ~serverOpen'
    <3>1. CASE CloseFlushes
      BY <2>a, <2>2, <3>1 DEF CloseFlushes, CloseWaits, Lifetimes, ServerKnows
    <3>2. ASSUME NEW ok \in BOOLEAN, WriteSettles(ok) PROVE serverOpen /\ ~serverOpen'
      <4>1. close = "writing" /\ closeLeft = 1
        BY <2>2, <3>2 DEF WriteSettles
      <4>2. open[1] \in {"done", "rejected"} /\ open[2] = "none"
        BY <2>a, <4>1 DEF Lifetimes
      <4>3. \A n \in Lives : n # Head(chain).life
        <5>1. 1 \in DOMAIN chain /\ Head(chain) = chain[1]
          BY <3>2, Shortened DEF WriteSettles, Inv, TypeOK, Write
        <5> QED BY <4>2, <5>1 DEF Inv, Queued, Lives
      <4>4. serverOpen' = FALSE
        BY <3>2, <4>1, <4>3 DEF WriteSettles
      <4> QED BY <2>a, <4>1, <4>2, <4>4 DEF ServerKnows
    <3>3. ASSUME UNCHANGED close PROVE FALSE
      BY <2>2, <3>3
    <3>4. ASSUME MainSettles \/ CloseRejected \/ CloseSettles PROVE FALSE
      BY <2>2, <3>4 DEF MainSettles, CloseRejected, CloseSettles
    <3> QED BY <3>1, <3>2, <3>3, <3>4
            DEF Next, Activation, Calls, Edit, TimerFires, ActivationFails, GraphReady,
                Reopens, CallFails, Reopened, SemanticReady, OpenSettles, Abort,
                SyncAborts, vars, calls
  <2> QED BY <2>1, <2>2
<1> QED BY <1>1, Invariance, PTL DEF Spec, LivesInOrder

\* Once the document is open again the VFS is on its way to what the editor shows, for any
\* number of edits and at whatever moments they are made.
THEOREM ActivationKeepsText == Spec => []ActivatedText
<1>1. Inv => ActivatedText
  BY DEF Inv, ActivatedText, Lifetimes, TextKept
<1> QED BY <1>1, Invariance, PTL

=============================================================================
