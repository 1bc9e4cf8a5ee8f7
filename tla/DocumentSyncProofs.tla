------------------------- MODULE DocumentSyncProofs -------------------------
(***************************************************************************)
(* Proofs about DocumentSync for every set of documents and every number   *)
(* of edits and flushes: no accepted text is lost, a flush() that resolves *)
(* leaves the accepted text in the VFS, and dispose() leaves no write.     *)
(***************************************************************************)
EXTENDS DocumentSync, SequenceTheorems, TLAPS

-----------------------------------------------------------------------------
(* Type correctness.                                                        *)

LEMMA CountDownNat == ASSUME NEW n \in Nat PROVE CountDown(n) \in Nat
BY DEF CountDown

LEMMA Updated ==
  ASSUME NEW S, NEW T, NEW f \in [S -> T], NEW d \in S, NEW v \in T
  PROVE  [f EXCEPT ![d] = v] \in [S -> T]
OBVIOUS

LEMMA TextTypes == /\ Text \subseteq TextOrNone /\ 0 \in TextOrNone /\ 1 \in Text
                   /\ \A t \in TextOrNone : t # 0 => t \in Text
BY SyncAssumption DEF Text, TextOrNone

\* Queuing snapshots keeps the types of what it changes.
LEMMA QueueSnapshotsType ==
  ASSUME TypeOK, NEW f \in Flushes, NEW snapshots \in [Docs -> TextOrNone],
         QueueSnapshots(f, snapshots)
  PROVE  /\ chain' \in [Docs -> Seq(Text)]
         /\ pending' \in [Docs -> TextOrNone]
         /\ flushLeft' \in [Flushes -> [Docs -> Nat]]
         /\ overtaken' \subseteq Docs
<1>1. \A d \in Docs : IF snapshots[d] = 0 THEN chain[d] \in Seq(Text)
                      ELSE Append(chain[d], snapshots[d]) \in Seq(Text)
  BY TextTypes DEF TypeOK
<1>2. chain' \in [Docs -> Seq(Text)]
  BY <1>1 DEF QueueSnapshots
<1>3. \A d \in Docs : Len(chain'[d]) \in Nat
  BY <1>2
<1>4. [d \in Docs |-> Len(chain'[d])] \in [Docs -> Nat]
  BY <1>3
<1>5. flushLeft' \in [Flushes -> [Docs -> Nat]]
  BY <1>4 DEF QueueSnapshots, TypeOK
<1> QED BY <1>2, <1>5, TextTypes DEF QueueSnapshots, TypeOK

LEMMA RetriedType == TypeOK => Retried \in [Docs -> TextOrNone]
BY DEF TypeOK, Retried

\* A document nobody opened has no text, one that was opened has some.
Started == \A d \in Docs :
  IF open[d] = "none"
  THEN /\ pending[d] = 0 /\ chain[d] = <<>> /\ failure[d] = 0 /\ vfs[d] = 0
  ELSE edits[d] # 0

LEMMA InitType == Init => TypeOK
<1>1. <<>> \in Seq(Text) /\ 0 \in TextOrNone
  BY TextTypes
<1> QED BY <1>1 DEF Init, TypeOK, OpenSteps, CloseSteps, FlushSteps, Modes

\* Every step keeps the types.
LEMMA NextType == TypeOK /\ Started /\ [Next]_vars => TypeOK'
<1> SUFFICES ASSUME TypeOK, Started, [Next]_vars PROVE TypeOK'
  OBVIOUS
<1> USE TextTypes
<1>1. ASSUME NEW d \in Docs, DidOpen(d) PROVE TypeOK'
  BY <1>1 DEF DidOpen, QueueWrite, TypeOK, OpenSteps, closeVars, flushVars, lifeVars
<1>2. ASSUME NEW d \in Docs, DidChange(d) PROVE TypeOK'
  <2>1. edits[d] + 1 \in Text
    BY <1>2, SyncAssumption, SMTT(30) DEF DidChange, TypeOK, Text, TextOrNone
  <2>a. /\ edits \in [Docs -> TextOrNone] /\ text \in [Docs -> TextOrNone]
        /\ pending \in [Docs -> TextOrNone] /\ server \in [Docs -> TextOrNone]
        /\ held \in [Docs -> Seq(Text)] /\ edits[d] + 1 \in TextOrNone
    BY <2>1 DEF TypeOK
  <2>2. edits' \in [Docs -> TextOrNone]
    BY <1>2, <2>a, Updated DEF DidChange
  <2>5. text' \in [Docs -> TextOrNone] /\ pending' \in [Docs -> TextOrNone]
    <3>1. CASE mode = "live"
      <4>1. /\ text' = [text EXCEPT ![d] = edits[d] + 1]
            /\ pending' = [pending EXCEPT ![d] = edits[d] + 1]
        BY <1>2, <3>1 DEF DidChange
      <4> QED BY <2>a, <4>1, Updated
    <3>2. CASE mode # "live"
      BY <1>2, <2>a, <3>2 DEF DidChange
    <3> QED BY <3>1, <3>2
  <2>3. Append(held[d], edits[d] + 1) \in Seq(Text)
    BY <2>1, <2>a
  <2>4. held' \in [Docs -> Seq(Text)] /\ server' \in [Docs -> TextOrNone]
    <3>1. CASE OpenInFlight(d)
      <4>1. /\ held' = [held EXCEPT ![d] = Append(held[d], edits[d] + 1)]
            /\ server' = server
        BY <1>2, <3>1 DEF DidChange
      <4> QED BY <2>a, <2>3, <4>1, Updated
    <3>2. CASE ~ OpenInFlight(d)
      <4>1. server' = [server EXCEPT ![d] = edits[d] + 1] /\ held' = held
        BY <1>2, <3>2 DEF DidChange
      <4> QED BY <2>a, <4>1, Updated
    <3> QED BY <3>1, <3>2
  <2>6. UNCHANGED <<chain, failure, vfs, open, strict, openLeft, closeVars, mode,
                    awaited, flushVars, overtaken>>
    BY <1>2 DEF DidChange
  <2> QED BY <2>2, <2>4, <2>5, <2>6 DEF TypeOK, closeVars, flushVars
<1>3. ASSUME NEW d \in Docs, DidClose(d) PROVE TypeOK'
  BY <1>3 DEF DidClose, TypeOK, CloseSteps, docVars, openVars, flushVars, lifeVars
<1>4. ASSUME NEW d \in Docs, TimerFires(d) PROVE TypeOK'
  BY <1>4 DEF TimerFires, QueueWrite, TypeOK, openVars, closeVars, flushVars, lifeVars
<1>5. ASSUME NEW d \in Docs, DidOpenForwarded(d) PROVE TypeOK'
  <2>1. held[d] # <<>> => held[d][Len(held[d])] \in TextOrNone
    BY DEF TypeOK
  <2>2. held' \in [Docs -> Seq(Text)] /\ open' \in [Docs -> OpenSteps]
    <3>1. <<>> \in Seq(Text)
      OBVIOUS
    <3>2. held' \in [Docs -> Seq(Text)]
      BY <1>5, <3>1 DEF DidOpenForwarded, TypeOK
    <3>3. open' = [open EXCEPT ![d] = "done"] \/ open' = [open EXCEPT ![d] = "rejected"]
      BY <1>5 DEF DidOpenForwarded
    <3> QED BY <3>2, <3>3 DEF TypeOK, OpenSteps
  <2>3. server' \in [Docs -> TextOrNone]
    BY <1>5, <2>1 DEF DidOpenForwarded, TypeOK
  <2> QED BY <1>5, <2>2, <2>3
          DEF DidOpenForwarded, TypeOK, docVars, closeVars, flushVars, lifeVars
<1>6. ASSUME NEW d \in Docs, CloseFlushes(d) PROVE TypeOK'
  <2>1. /\ chain' \in [Docs -> Seq(Text)] /\ pending' \in [Docs -> TextOrNone]
        /\ text' \in [Docs -> TextOrNone]
    <3>1. CASE pending[d] = 0
      BY <1>6, <3>1 DEF CloseFlushes, TypeOK
    <3>2. CASE pending[d] # 0 /\ edits[d] # 0
      <4>1. edits[d] \in Text
        BY <3>2 DEF TypeOK
      <4>2. Append(chain[d], edits[d]) \in Seq(Text)
        BY <4>1 DEF TypeOK
      <4>3. /\ chain' = [chain EXCEPT ![d] = Append(chain[d], edits[d])]
            /\ pending' = [pending EXCEPT ![d] = 0]
            /\ text' = [text EXCEPT ![d] = edits[d]]
        BY <1>6, <3>2 DEF CloseFlushes, QueueWrite
      <4>4. /\ chain \in [Docs -> Seq(Text)] /\ pending \in [Docs -> TextOrNone]
            /\ text \in [Docs -> TextOrNone] /\ edits[d] \in TextOrNone
        BY DEF TypeOK
      <4> QED BY <4>2, <4>3, <4>4, Updated
    <3> QED BY <3>1, <3>2 DEF Started
  <2>2. Len(chain'[d]) \in Nat
    BY <2>1
  <2> QED BY <1>6, <2>1, <2>2
          DEF CloseFlushes, TypeOK, CloseSteps, openVars, flushVars, lifeVars
<1>7. ASSUME NEW d \in Docs, CloseRejected(d) PROVE TypeOK'
  BY <1>7 DEF CloseRejected, TypeOK, CloseSteps, docVars, openVars, flushVars, lifeVars
<1>8. ASSUME NEW d \in Docs, NEW ok \in BOOLEAN, WriteSettles(d, ok) PROVE TypeOK'
  <2>1. Tail(chain[d]) \in Seq(Text) /\ Head(chain[d]) \in Text
    BY <1>8 DEF WriteSettles, TypeOK
  <2>2. /\ chain' \in [Docs -> Seq(Text)] /\ vfs' \in [Docs -> TextOrNone]
        /\ failure' \in [Docs -> TextOrNone]
    BY <1>8, <2>1 DEF WriteSettles, TypeOK
  <2>3. \A f \in Flushes : [flushLeft[f] EXCEPT ![d] = CountDown(@)] \in [Docs -> Nat]
    <3> TAKE f \in Flushes
    <3>1. flushLeft[f] \in [Docs -> Nat]
      BY DEF TypeOK
    <3>2. CountDown(flushLeft[f][d]) \in Nat
      BY <3>1, CountDownNat
    <3> QED BY <3>1, <3>2
  <2>4. /\ openLeft' \in [Docs -> Nat] /\ closeLeft' \in [Docs -> Nat]
        /\ flushLeft' \in [Flushes -> [Docs -> Nat]]
    BY <1>8, <2>3, CountDownNat DEF WriteSettles, TypeOK
  <2>5. /\ open' \in [Docs -> OpenSteps] /\ held' \in [Docs -> Seq(Text)]
        /\ server' \in [Docs -> TextOrNone] /\ close' \in [Docs -> CloseSteps]
    <3>0. <<>> \in Seq(Text)
      OBVIOUS
    <3>1. CASE openLeft[d] = 1 /\ strict[d] /\ ~ok
      BY <1>8, <3>0, <3>1 DEF WriteSettles, TypeOK, OpenSteps, CloseSteps
    <3>2. CASE openLeft[d] = 1 /\ ~(strict[d] /\ ~ok)
      BY <1>8, <3>2 DEF WriteSettles, TypeOK, OpenSteps, CloseSteps
    <3>3. CASE openLeft[d] # 1
      BY <1>8, <3>3 DEF WriteSettles, TypeOK, CloseSteps
    <3> QED BY <3>1, <3>2, <3>3
  <2>6. flush' \in [Flushes -> FlushSteps] /\ awaited' \subseteq Docs
    BY <1>8 DEF WriteSettles, TypeOK, FlushSteps
  <2> QED BY <1>8, <2>2, <2>4, <2>5, <2>6 DEF WriteSettles, TypeOK
<1>9. ASSUME NEW f \in Flushes, FlushStart(f) PROVE TypeOK'
  BY <1>9, QueueSnapshotsType, RetriedType
     DEF FlushStart, TypeOK, FlushSteps, Modes, openVars, closeVars
<1>10. ASSUME NEW f \in Flushes, FlushAgain(f) PROVE TypeOK'
  <2>1. QueueSnapshots(f, pending) /\ pending \in [Docs -> TextOrNone]
    BY <1>10 DEF FlushAgain, TypeOK
  <2> QED BY <1>10, <2>1, QueueSnapshotsType
          DEF FlushAgain, TypeOK, openVars, closeVars, lifeVars
<1>11. ASSUME NEW f \in Flushes, FlushSettles(f) PROVE TypeOK'
  BY <1>11 DEF FlushSettles, TypeOK, FlushSteps, docVars, openVars, closeVars, lifeVars
<1>12. CASE Abort
  BY <1>12 DEF Abort, TypeOK, Modes, openVars, closeVars, flushVars, lifeVars
<1>13. CASE Disposed
  BY <1>13 DEF Disposed, TypeOK, Modes, docVars, openVars, closeVars, flushVars
<1>14. CASE UNCHANGED vars
  BY <1>14 DEF vars, docVars, openVars, closeVars, lifeVars, flushVars, lifeVars, TypeOK
<1> QED
  BY <1>1, <1>2, <1>3, <1>4, <1>5, <1>6, <1>7, <1>8, <1>9, <1>10, <1>11,
     <1>12, <1>13, <1>14 DEF Next, Editor, Progress

-----------------------------------------------------------------------------
(* No accepted text is lost.                                                *)

LEMMA InitStarted == Init => Started
<1> SUFFICES ASSUME Init, NEW d \in Docs
             PROVE  /\ open[d] = "none" /\ pending[d] = 0 /\ chain[d] = <<>>
                    /\ failure[d] = 0 /\ vfs[d] = 0
  BY DEF Started
<1>1. chain[d] = <<>>
  BY DEF Init
<1> QED BY <1>1 DEF Init

LEMMA NextStarted == TypeOK /\ Started /\ [Next]_vars => Started'
<1> SUFFICES ASSUME TypeOK, Started, [Next]_vars PROVE Started'
  OBVIOUS
<1>1. ASSUME NEW d \in Docs, DidOpen(d) PROVE Started'
  BY <1>1 DEF DidOpen, QueueWrite, TypeOK, Started
<1>2. ASSUME NEW d \in Docs, DidChange(d) PROVE Started'
  <2>1. edits[d] + 1 # 0
    BY <1>2, SyncAssumption DEF TypeOK, TextOrNone
  <2> QED BY <1>2, <2>1 DEF DidChange, TypeOK, Started
<1>3. ASSUME NEW d \in Docs, DidClose(d) PROVE Started'
  BY <1>3 DEF DidClose, Started, docVars, openVars
<1>4. ASSUME NEW d \in Docs, TimerFires(d) PROVE Started'
  BY <1>4 DEF TimerFires, QueueWrite, TypeOK, Started, openVars
<1>5. ASSUME NEW d \in Docs, DidOpenForwarded(d) PROVE Started'
  BY <1>5 DEF DidOpenForwarded, TypeOK, Started, docVars
<1>6. ASSUME NEW d \in Docs, CloseFlushes(d) PROVE Started'
  BY <1>6 DEF CloseFlushes, QueueWrite, TypeOK, Started, openVars
<1>7. ASSUME NEW d \in Docs, CloseRejected(d) PROVE Started'
  BY <1>7 DEF CloseRejected, Started, docVars, openVars
<1>8. ASSUME NEW d \in Docs, NEW ok \in BOOLEAN, WriteSettles(d, ok) PROVE Started'
  BY <1>8 DEF WriteSettles, TypeOK, Started
<1>9. ASSUME NEW f \in Flushes, FlushStart(f) PROVE Started'
  BY <1>9 DEF FlushStart, QueueSnapshots, Retried, TypeOK, Started, openVars
<1>10. ASSUME NEW f \in Flushes, FlushAgain(f) PROVE Started'
  BY <1>10 DEF FlushAgain, QueueSnapshots, TypeOK, Started, openVars
<1>11. ASSUME NEW f \in Flushes, FlushSettles(f) PROVE Started'
  BY <1>11 DEF FlushSettles, Started, docVars, openVars
<1>12. CASE Abort
  BY <1>12 DEF Abort, Started, openVars
<1>13. CASE Disposed
  BY <1>13 DEF Disposed, Started, docVars, openVars
<1>14. CASE UNCHANGED vars
  BY <1>14 DEF vars, docVars, openVars, Started
<1> QED
  BY <1>1, <1>2, <1>3, <1>4, <1>5, <1>6, <1>7, <1>8, <1>9, <1>10, <1>11,
     <1>12, <1>13, <1>14 DEF Next, Editor, Progress

\* Where no retry was queued behind newer text, the texts under way are in the
\* order of the edits that made them: VFS, failure, chain, timer, editor.
Ordered(d) ==
  /\ text[d] <= edits[d] /\ pending[d] <= text[d] /\ failure[d] <= text[d]
  /\ vfs[d] <= text[d]
  /\ failure[d] # 0 => vfs[d] <= failure[d]
  /\ pending[d] # 0 => vfs[d] <= pending[d] /\ failure[d] <= pending[d]
  /\ \A i \in 1..Len(chain[d]) :
       /\ vfs[d] <= chain[d][i] /\ failure[d] <= chain[d][i]
       /\ chain[d][i] <= text[d]
       /\ pending[d] # 0 => chain[d][i] <= pending[d]
       /\ \A j \in 1..i : chain[d][j] <= chain[d][i]

InOrder == \A d \in Docs : d \notin overtaken => Ordered(d)

Inv == TypeOK /\ Started /\ InOrder /\ NoSilentLoss

\* What a queued snapshot no older than the chain does to a document.
LEMMA QueueOrdered ==
  ASSUME TypeOK, NEW d \in Docs, Ordered(d), NEW snapshot \in Text,
         snapshot <= text'[d], text[d] <= text'[d], text'[d] <= edits'[d],
         vfs[d] <= snapshot, failure[d] <= snapshot,
         \A i \in 1..Len(chain[d]) : chain[d][i] <= snapshot,
         chain'[d] = Append(chain[d], snapshot), pending'[d] = 0,
         text'[d] \in TextOrNone, edits'[d] \in TextOrNone,
         vfs'[d] = vfs[d], failure'[d] = failure[d]
  PROVE  Ordered(d)'
<1>1. /\ chain[d] \in Seq(Text) /\ vfs[d] \in TextOrNone /\ failure[d] \in TextOrNone
      /\ text[d] \in TextOrNone
  BY DEF TypeOK
<1>2. /\ Len(chain'[d]) = Len(chain[d]) + 1
      /\ chain'[d][Len(chain[d]) + 1] = snapshot
      /\ \A i \in 1..Len(chain[d]) : chain'[d][i] = chain[d][i] /\ chain[d][i] \in Text
  BY <1>1
<1>3. \A t \in TextOrNone : t \in Int
  BY SyncAssumption DEF TextOrNone
<1>4. \A t \in Text : t \in Int
  BY DEF Text
<1>5. ASSUME NEW i \in 1..Len(chain'[d])
      PROVE  /\ vfs[d] <= chain'[d][i] /\ failure[d] <= chain'[d][i]
             /\ chain'[d][i] <= text'[d]
             /\ \A j \in 1..i : chain'[d][j] <= chain'[d][i]
  <2>1. CASE i = Len(chain[d]) + 1
    <3>1. chain'[d][i] = snapshot
      BY <1>2, <2>1
    <3>2. snapshot <= snapshot
      BY <1>4
    <3>3. ASSUME NEW j \in 1..i PROVE chain'[d][j] <= snapshot
      <4>1. CASE j = i
        BY <3>1, <3>2, <4>1
      <4>2. CASE j # i
        <5>1. j \in 1..Len(chain[d])
          BY <1>1, <2>1, <4>2
        <5> QED BY <1>2, <5>1
      <4> QED BY <4>1, <4>2
    <3> QED BY <3>1, <3>3
  <2>2. CASE i \in 1..Len(chain[d])
    <3>1. \A j \in 1..i : j \in 1..Len(chain[d])
      BY <1>1, <2>2
    <3>2. chain[d][i] \in Int /\ chain[d][i] <= text[d] /\ text[d] \in Int
          /\ text'[d] \in Int
      BY <1>1, <1>2, <1>3, <1>4, <2>2 DEF Ordered
    <3>3. chain[d][i] <= text'[d]
      BY <3>2
    <3>4. /\ vfs[d] <= chain[d][i] /\ failure[d] <= chain[d][i]
          /\ \A j \in 1..i : chain[d][j] <= chain[d][i]
      BY <2>2 DEF Ordered
    <3> QED BY <1>2, <2>2, <3>1, <3>3, <3>4
  <2> QED BY <1>1, <1>2, <2>1, <2>2
<1>6. /\ failure[d] <= text'[d] /\ vfs[d] <= text'[d] /\ 0 <= text'[d]
  BY <1>1, <1>3, <1>4, SyncAssumption DEF Ordered, TextOrNone
<1> QED BY <1>5, <1>6 DEF Ordered

\* A document whose texts a step leaves alone keeps what is said of them.
LEMMA Untouched ==
  ASSUME NEW d \in Docs, edits'[d] = edits[d], text'[d] = text[d],
         pending'[d] = pending[d], chain'[d] = chain[d], failure'[d] = failure[d],
         vfs'[d] = vfs[d], Ordered(d)
  PROVE  Ordered(d)' /\ Tip(d)' = Tip(d)
BY DEF Ordered, Tip

LEMMA QueueTip ==
  ASSUME TypeOK, NEW d \in Docs, NEW snapshot \in Text,
         chain'[d] = Append(chain[d], snapshot), pending'[d] = 0
  PROVE  Tip(d)' = snapshot
<1>1. chain[d] \in Seq(Text)
  BY DEF TypeOK
<1>2. chain'[d] # <<>> /\ chain'[d][Len(chain'[d])] = snapshot
  BY <1>1
<1> QED BY <1>2 DEF Tip

LEMMA OneLess ==
  ASSUME NEW n \in Nat \ {0, 1}, NEW m, m = n - 1
  PROVE  m \in 1..m /\ m + 1 = n
OBVIOUS

\* The write at the head of the chain settles.
LEMMA SettleOrdered ==
  ASSUME TypeOK, NEW d \in Docs, Ordered(d), NEW ok \in BOOLEAN,
         WriteSettles(d, ok)
  PROVE  Ordered(d)' /\ Tip(d)' = Tip(d)
<1>1. /\ chain[d] \in Seq(Text) /\ chain[d] # <<>> /\ chain'[d] = Tail(chain[d])
      /\ vfs'[d] = (IF ok THEN Head(chain[d]) ELSE vfs[d])
      /\ failure'[d] = (IF ok THEN 0 ELSE Head(chain[d]))
      /\ edits'[d] = edits[d] /\ text'[d] = text[d] /\ pending'[d] = pending[d]
  BY DEF WriteSettles, TypeOK
<1>2. /\ Len(chain[d]) \in Nat \ {0} /\ Head(chain[d]) = chain[d][1]
      /\ Len(chain'[d]) = Len(chain[d]) - 1
      /\ \A i \in 1..Len(chain'[d]) : chain'[d][i] = chain[d][i + 1]
                                    /\ i + 1 \in 1..Len(chain[d])
      /\ chain'[d] \in Seq(Text)
  BY <1>1
<1>3. /\ \A t \in TextOrNone : t \in Int /\ 0 <= t
      /\ \A t \in Text : t \in Int /\ 0 < t
  BY SyncAssumption DEF TextOrNone, Text
<1>4. /\ edits[d] \in TextOrNone /\ text[d] \in TextOrNone
      /\ pending[d] \in TextOrNone /\ failure[d] \in TextOrNone
      /\ vfs[d] \in TextOrNone /\ chain[d][1] \in Text
  BY <1>1, <1>2 DEF TypeOK
<1>5. \A i \in 1..Len(chain'[d]) : chain[d][1] <= chain'[d][i]
  BY <1>2 DEF Ordered
<1>6. 1 \in 1..Len(chain[d])
  BY <1>2
<1>7. /\ chain[d][1] <= text[d] /\ vfs[d] <= chain[d][1]
      /\ pending[d] # 0 => chain[d][1] <= pending[d]
  BY <1>6 DEF Ordered
<1>8. ASSUME NEW i \in 1..Len(chain'[d])
      PROVE  /\ vfs'[d] <= chain'[d][i] /\ failure'[d] <= chain'[d][i]
             /\ chain'[d][i] <= text[d]
             /\ pending[d] # 0 => chain'[d][i] <= pending[d]
             /\ \A j \in 1..i : chain'[d][j] <= chain'[d][i]
  <2>1. /\ i + 1 \in 1..Len(chain[d]) /\ chain'[d][i] = chain[d][i + 1]
        /\ chain'[d][i] \in Text
    BY <1>2
  <2>2. vfs'[d] <= chain'[d][i] /\ failure'[d] <= chain'[d][i]
    BY <1>1, <1>2, <1>3, <1>4, <1>5, <2>1 DEF Ordered
  <2>3. ASSUME NEW j \in 1..i PROVE chain'[d][j] <= chain'[d][i]
    <3>1. j \in 1..Len(chain'[d]) /\ j + 1 \in 1..(i + 1)
      BY <1>2
    <3>2. chain'[d][j] = chain[d][j + 1]
      BY <1>2, <3>1
    <3> QED BY <2>1, <3>1, <3>2 DEF Ordered
  <2> QED BY <2>1, <2>2, <2>3 DEF Ordered
<1>9. Ordered(d)'
  BY <1>1, <1>2, <1>3, <1>4, <1>7, <1>8 DEF Ordered
<1>10. CASE Len(chain[d]) = 1
  <2> DEFINE head == chain[d][1]
  <2>1. chain'[d] = <<>> /\ chain[d][Len(chain[d])] = head /\ Head(chain[d]) = head
    BY <1>1, <1>2, <1>10
  <2>2. head # 0
    BY <1>3, <1>4
  <2>3. Tip(d) = IF pending[d] # 0 THEN pending[d] ELSE head
    BY <1>1, <2>1 DEF Tip
  <2>4. Tip(d)' = IF pending'[d] # 0 THEN pending'[d]
                  ELSE IF failure'[d] # 0 THEN failure'[d] ELSE vfs'[d]
    BY <2>1 DEF Tip
  <2>5. /\ pending'[d] = pending[d]
        /\ vfs'[d] = (IF ok THEN head ELSE vfs[d])
        /\ failure'[d] = (IF ok THEN 0 ELSE head)
    BY <1>1, <2>1
  <2> HIDE DEF head
  <2>6. Tip(d)' = Tip(d)
    BY <2>2, <2>3, <2>4, <2>5
  <2> QED BY <1>9, <2>6
<1>11. CASE Len(chain[d]) # 1
  <2>1. chain'[d] # <<>> /\ chain'[d][Len(chain'[d])] = chain[d][Len(chain[d])]
    <3>0. Len(chain[d]) \in Nat \ {0, 1} /\ Len(chain'[d]) = Len(chain[d]) - 1
      BY <1>2, <1>11
    <3>1. Len(chain'[d]) \in 1..Len(chain'[d]) /\ Len(chain'[d]) + 1 = Len(chain[d])
      BY <3>0, OneLess
    <3>2. chain'[d][Len(chain'[d])] = chain[d][Len(chain[d])]
      BY <1>2, <3>1
    <3> QED BY <3>1, <3>2
  <2>2. chain[d] # <<>> /\ pending'[d] = pending[d]
    BY <1>1
  <2>3. Tip(d)' = Tip(d)
    BY <2>1, <2>2 DEF Tip
  <2> QED BY <1>9, <2>3
<1> QED BY <1>10, <1>11

LEMMA RetriedChoice ==
  ASSUME NEW d \in Docs
  PROVE  /\ Retried[d] = pending[d] \/ (pending[d] = 0 /\ Retried[d] = failure[d])
         /\ pending[d] # 0 => Retried[d] = pending[d]
<1>1. Retried[d] = IF pending[d] # 0 THEN pending[d] ELSE failure[d]
  BY DEF Retried
<1> QED BY <1>1

\* What flush() queues for a document.
LEMMA SnapshotsOrdered ==
  ASSUME TypeOK, NEW d \in Docs, NEW f \in Flushes, NEW snapshots,
         QueueSnapshots(f, snapshots),
         snapshots[d] = pending[d] \/ (pending[d] = 0 /\ snapshots[d] = failure[d]),
         pending[d] # 0 => snapshots[d] = pending[d],
         edits' = edits, text' = text, failure' = failure, vfs' = vfs,
         d \notin overtaken', Ordered(d)
  PROVE  Ordered(d)' /\ Tip(d)' = Tip(d)
<1>1. /\ pending'[d] = 0
      /\ snapshots[d] = 0 => chain'[d] = chain[d]
      /\ snapshots[d] # 0 => chain'[d] = Append(chain[d], snapshots[d])
      /\ ~ (/\ snapshots[d] # 0 /\ chain[d] # <<>>
            /\ snapshots[d] < chain[d][Len(chain[d])])
  BY DEF QueueSnapshots
<1>2. /\ chain[d] \in Seq(Text) /\ edits[d] \in TextOrNone
      /\ text[d] \in TextOrNone /\ pending[d] \in TextOrNone
      /\ failure[d] \in TextOrNone /\ vfs[d] \in TextOrNone
  BY DEF TypeOK
<1>3. /\ \A t \in TextOrNone : t \in Int /\ 0 <= t
      /\ \A t \in Text : t \in Int /\ 0 < t
  BY SyncAssumption DEF TextOrNone, Text
<1>4. CASE snapshots[d] = 0
  <2>1. pending[d] = 0 /\ chain'[d] = chain[d]
    BY <1>1, <1>4
  <2> QED BY <1>1, <2>1, Untouched
<1>5. CASE snapshots[d] # 0
  <2>1. snapshots[d] \in Text
    BY <1>2, <1>5, TextTypes
  <2>2. chain[d] # <<>> => /\ Len(chain[d]) \in 1..Len(chain[d])
                           /\ chain[d][Len(chain[d])] \in Text
                           /\ chain[d][Len(chain[d])] <= snapshots[d]
    BY <1>1, <1>2, <1>3, <1>5, <2>1
  <2>3. \A i \in 1..Len(chain[d]) : chain[d][i] <= snapshots[d]
    <3> SUFFICES ASSUME NEW i \in 1..Len(chain[d])
                 PROVE  chain[d][i] <= snapshots[d]
      OBVIOUS
    <3>1. chain[d] # <<>> /\ i \in 1..Len(chain[d]) /\ chain[d][i] \in Text
      BY <1>2
    <3>2. chain[d][i] <= chain[d][Len(chain[d])]
      BY <2>2, <3>1 DEF Ordered
    <3> QED BY <1>3, <2>1, <2>2, <3>1, <3>2
  <2>4. vfs[d] <= snapshots[d] /\ failure[d] <= snapshots[d] /\ snapshots[d] <= text[d]
    BY <1>2, <1>3, <1>5, <2>1 DEF Ordered
  <2>5. Ordered(d)'
    <3>1. /\ text'[d] = text[d] /\ edits'[d] = edits[d] /\ vfs'[d] = vfs[d]
          /\ failure'[d] = failure[d] /\ text[d] <= edits[d] /\ text[d] <= text[d]
      BY <1>2, <1>3 DEF Ordered
    <3> QED BY <1>1, <1>2, <1>5, <2>1, <2>3, <2>4, <3>1, QueueOrdered
  <2>6. Tip(d)' = snapshots[d]
    BY <1>1, <1>5, <2>1, QueueTip
  <2>7. Tip(d) = snapshots[d]
    <3>1. CASE pending[d] # 0
      BY <3>1 DEF Tip
    <3>2. CASE pending[d] = 0 /\ chain[d] = <<>>
      BY <1>5, <3>2 DEF Tip
    <3>3. CASE pending[d] = 0 /\ chain[d] # <<>>
      <4>1. chain[d][Len(chain[d])] >= failure[d]
        BY <2>2, <3>3 DEF Ordered
      <4> QED BY <1>2, <1>3, <1>5, <2>1, <2>2, <3>3, <4>1 DEF Tip
    <3> QED BY <3>1, <3>2, <3>3
  <2> QED BY <2>5, <2>6, <2>7
<1> QED BY <1>4, <1>5

\* Every step keeps the order of the texts and loses none.
LEMMA NextNoLoss == Inv /\ [Next]_vars => InOrder' /\ NoSilentLoss'
<1> SUFFICES ASSUME Inv, [Next]_vars, NEW e \in Docs, e \notin overtaken'
             PROVE  Ordered(e)' /\ (mode' # "aborted" => Tip(e)' = text'[e])
  BY DEF InOrder, NoSilentLoss
<1> USE DEF Inv
<1>a. TypeOK
  OBVIOUS
<1>b. Ordered(e) /\ (mode # "aborted" => Tip(e) = text[e])
  <2>1. overtaken \subseteq overtaken'
    BY DEF Next, Editor, Progress, DidOpen, DidChange, DidClose, TimerFires,
       DidOpenForwarded, CloseFlushes, CloseRejected, WriteSettles, FlushStart,
       FlushAgain, FlushSettles, Abort, Disposed, QueueSnapshots, vars
  <2> QED BY <2>1 DEF InOrder, NoSilentLoss
<1>c. /\ edits[e] \in TextOrNone /\ text[e] \in TextOrNone
      /\ pending[e] \in TextOrNone /\ chain[e] \in Seq(Text)
      /\ failure[e] \in TextOrNone /\ vfs[e] \in TextOrNone
  BY DEF TypeOK
<1>d. /\ \A t \in TextOrNone : t \in Int /\ 0 <= t
      /\ \A t \in Text : t \in Int /\ 0 < t
      /\ \A i \in 1..Len(chain[e]) : chain[e][i] \in Text
  BY <1>c, SyncAssumption DEF TextOrNone, Text
<1>1. ASSUME NEW d \in Docs, DidOpen(d)
      PROVE  Ordered(e)' /\ (mode' # "aborted" => Tip(e)' = text'[e])
  <2>1. CASE e = d
    <3>1. /\ pending[d] = 0 /\ chain[d] = <<>> /\ failure[d] = 0 /\ vfs[d] = 0
      BY <1>1 DEF DidOpen, Started
    <3>2. /\ edits'[d] = 1 /\ text'[d] = 1 /\ pending'[d] = 0 /\ failure'[d] = 0
          /\ vfs'[d] = 0 /\ chain'[d] = Append(chain[d], 1)
      BY <1>1, <3>1 DEF DidOpen, QueueWrite, TypeOK
    <3>3. chain'[d] = <<1>>
      BY <3>1, <3>2
    <3> QED BY <2>1, <3>2, <3>3 DEF Ordered, Tip
  <2>2. CASE e # d
    BY <1>b, <1>1, <2>2, Untouched DEF DidOpen, QueueWrite, TypeOK
  <2> QED BY <2>1, <2>2
<1>2. ASSUME NEW d \in Docs, DidChange(d)
      PROVE  Ordered(e)' /\ (mode' # "aborted" => Tip(e)' = text'[e])
  <2>1. CASE e = d /\ mode = "live"
    <3>1. /\ edits'[e] = edits[e] + 1 /\ text'[e] = edits[e] + 1
          /\ pending'[e] = edits[e] + 1 /\ chain'[e] = chain[e]
          /\ failure'[e] = failure[e] /\ vfs'[e] = vfs[e]
      BY <1>2, <2>1 DEF DidChange, TypeOK
    <3>2. /\ edits[e] \in Int /\ 0 <= edits[e] /\ edits[e] + 1 # 0
          /\ text[e] \in Int /\ text[e] <= edits[e] + 1 /\ edits[e] <= edits[e] + 1
          /\ vfs[e] \in Int /\ vfs[e] <= edits[e] + 1
          /\ failure[e] \in Int /\ failure[e] <= edits[e] + 1
      BY <1>b, <1>c, <1>d DEF Ordered
    <3>3. ASSUME NEW i \in 1..Len(chain[e])
          PROVE  chain[e][i] <= edits[e] + 1
      <4>1. chain[e][i] \in Int /\ chain[e][i] <= text[e]
        BY <1>b, <1>d DEF Ordered
      <4> QED BY <3>2, <4>1
    <3>4. edits[e] + 1 <= edits[e] + 1
      BY <3>2
    <3>5. Ordered(e)'
      BY <1>b, <3>1, <3>2, <3>3, <3>4 DEF Ordered
    <3> QED BY <3>1, <3>2, <3>5 DEF Tip
  <2>2. CASE e = d /\ mode # "live"
    <3>1. /\ edits'[e] = edits[e] + 1 /\ text'[e] = text[e] /\ mode' = mode
          /\ pending'[e] = pending[e] /\ chain'[e] = chain[e]
          /\ failure'[e] = failure[e] /\ vfs'[e] = vfs[e]
      BY <1>2, <2>2 DEF DidChange, TypeOK, lifeVars
    <3>2. text[e] <= edits[e] + 1
      BY <1>b, <1>c, <1>d DEF Ordered
    <3>3. Ordered(e)'
      BY <1>b, <3>1, <3>2 DEF Ordered
    <3> QED BY <1>b, <3>1, <3>3 DEF Tip
  <2>3. CASE e # d
    BY <1>b, <1>2, <2>3, Untouched DEF DidChange, TypeOK, lifeVars
  <2> QED BY <2>1, <2>2, <2>3
<1>3. ASSUME NEW d \in Docs, TimerFires(d)
      PROVE  Ordered(e)' /\ (mode' # "aborted" => Tip(e)' = text'[e])
  <2>1. CASE e = d
    <3>1. /\ pending[e] \in Text /\ chain'[e] = Append(chain[e], pending[e])
          /\ pending'[e] = 0 /\ text' = text /\ edits' = edits /\ vfs' = vfs
          /\ failure' = failure /\ mode' = mode
      BY <1>3, <2>1, TextTypes DEF TimerFires, QueueWrite, TypeOK, lifeVars
    <3>2. /\ text'[e] = text[e] /\ edits'[e] = edits[e] /\ vfs'[e] = vfs[e]
          /\ failure'[e] = failure[e] /\ text[e] <= edits[e] /\ text[e] <= text[e]
          /\ pending[e] <= text[e] /\ vfs[e] <= pending[e] /\ failure[e] <= pending[e]
          /\ \A i \in 1..Len(chain[e]) : chain[e][i] <= pending[e]
      BY <1>b, <1>c, <1>d, <3>1 DEF Ordered
    <3>2a. Ordered(e)'
      BY <1>a, <1>b, <1>c, <3>1, <3>2, QueueOrdered
    <3>3. Tip(e)' = pending[e]
      BY <3>1, QueueTip
    <3> QED BY <1>b, <1>d, <3>1, <3>2a, <3>3 DEF Tip
  <2>2. CASE e # d
    BY <1>b, <1>3, <2>2, Untouched DEF TimerFires, QueueWrite, TypeOK, lifeVars
  <2> QED BY <2>1, <2>2
<1>4. ASSUME NEW d \in Docs, CloseFlushes(d)
      PROVE  Ordered(e)' /\ (mode' # "aborted" => Tip(e)' = text'[e])
  <2>1. CASE e = d /\ pending[d] # 0
    <3>1. edits[e] \in Text
      BY <2>1, TextTypes DEF Started, TypeOK
    <3>2. /\ chain'[e] = Append(chain[e], edits[e]) /\ text'[e] = edits[e]
          /\ pending'[e] = 0 /\ edits' = edits /\ vfs' = vfs /\ failure' = failure
      BY <1>4, <2>1 DEF CloseFlushes, QueueWrite, TypeOK
    <3>3. /\ edits'[e] = edits[e] /\ vfs'[e] = vfs[e] /\ failure'[e] = failure[e]
          /\ text[e] <= edits[e] /\ edits[e] <= edits[e] /\ vfs[e] <= edits[e]
          /\ failure[e] <= edits[e]
          /\ \A i \in 1..Len(chain[e]) : chain[e][i] <= edits[e]
      <4>1. \A i \in 1..Len(chain[e]) : chain[e][i] <= text[e]
        BY <1>b DEF Ordered
      <4>2. text[e] <= edits[e] /\ vfs[e] <= text[e] /\ failure[e] <= text[e]
        BY <1>b DEF Ordered
      <4> QED BY <1>c, <1>d, <3>2, <4>1, <4>2
    <3>3a. Ordered(e)'
      BY <1>a, <1>b, <1>c, <3>1, <3>2, <3>3, QueueOrdered
    <3>4. Tip(e)' = edits[e]
      BY <3>1, <3>2, QueueTip
    <3> QED BY <3>2, <3>3a, <3>4
  <2>2. CASE e # d \/ pending[d] = 0
    BY <1>b, <1>4, <2>2, Untouched DEF CloseFlushes, QueueWrite, TypeOK, lifeVars
  <2> QED BY <2>1, <2>2
<1>5. ASSUME NEW d \in Docs, NEW ok \in BOOLEAN, WriteSettles(d, ok)
      PROVE  Ordered(e)' /\ (mode' # "aborted" => Tip(e)' = text'[e])
  <2>1. text' = text /\ mode' = mode
    BY <1>5 DEF WriteSettles
  <2>2. CASE e = d
    BY <1>b, <1>5, <2>1, <2>2, SettleOrdered
  <2>3. CASE e # d
    BY <1>b, <1>5, <2>1, <2>3, Untouched DEF WriteSettles, TypeOK
  <2> QED BY <2>2, <2>3
<1>6. ASSUME NEW f \in Flushes, FlushStart(f)
      PROVE  Ordered(e)' /\ (mode' # "aborted" => Tip(e)' = text'[e])
  <2>1. /\ Retried[e] = pending[e] \/ (pending[e] = 0 /\ Retried[e] = failure[e])
        /\ pending[e] # 0 => Retried[e] = pending[e]
    BY RetriedChoice
  <2>2. /\ QueueSnapshots(f, Retried) /\ edits' = edits /\ text' = text
        /\ failure' = failure /\ vfs' = vfs
        /\ mode' # "aborted" => mode # "aborted"
    BY <1>6 DEF FlushStart
  <2> QED BY <1>a, <1>b, <2>1, <2>2, SnapshotsOrdered
<1>7. ASSUME NEW f \in Flushes, FlushAgain(f)
      PROVE  Ordered(e)' /\ (mode' # "aborted" => Tip(e)' = text'[e])
  <2>1. /\ QueueSnapshots(f, pending) /\ edits' = edits /\ text' = text
        /\ failure' = failure /\ vfs' = vfs /\ mode' = mode
    BY <1>7 DEF FlushAgain, lifeVars
  <2>2. Ordered(e)' /\ Tip(e)' = Tip(e)
    BY <1>a, <1>b, <2>1, SnapshotsOrdered
  <2> QED BY <1>b, <2>1, <2>2
<1>8. CASE Abort
  <2>1. /\ pending'[e] = 0 /\ edits' = edits /\ text' = text /\ chain' = chain
        /\ failure' = failure /\ vfs' = vfs /\ mode' = "aborted"
    BY <1>8 DEF Abort
  <2> QED BY <1>b, <1>c, <1>d, <2>1 DEF Ordered
<1>9. ASSUME UNCHANGED docVars, mode' # "aborted" => mode # "aborted"
      PROVE  Ordered(e)' /\ (mode' # "aborted" => Tip(e)' = text'[e])
  BY <1>b, <1>9, Untouched DEF docVars
<1> QED
  BY <1>1, <1>2, <1>3, <1>4, <1>5, <1>6, <1>7, <1>8, <1>9
     DEF Next, Editor, Progress, DidClose, DidOpenForwarded, CloseRejected,
         FlushSettles, Disposed, vars, lifeVars

THEOREM Invariance == Spec => []Inv
<1>1. Init => Inv
  <2>1. Init => InOrder /\ NoSilentLoss
    <3> SUFFICES ASSUME Init, NEW d \in Docs PROVE Ordered(d) /\ Tip(d) = text[d]
      BY DEF InOrder, NoSilentLoss
    <3>1. /\ edits[d] = 0 /\ text[d] = 0 /\ pending[d] = 0 /\ chain[d] = <<>>
          /\ failure[d] = 0 /\ vfs[d] = 0
      BY InitStarted DEF Init
    <3> QED BY <3>1 DEF Ordered, Tip
  <2> QED BY <2>1, InitType, InitStarted DEF Inv
<1>2. Inv /\ [Next]_vars => Inv'
  BY NextType, NextStarted, NextNoLoss DEF Inv
<1> QED BY <1>1, <1>2, PTL DEF Spec

-----------------------------------------------------------------------------
(* The theorems.                                                            *)

\* Type correctness: every queue holds texts of the document.
THEOREM TypeCorrect == Spec => []TypeOK
<1>1. Inv => TypeOK
  BY DEF Inv
<1> QED BY <1>1, Invariance, PTL

\* Whatever the timers, the writes and the failures do, the newest accepted text
\* of a document is behind its timer, last in its chain, remembered as failed, or
\* in the VFS.
THEOREM NoTextLost == Spec => []NoSilentLoss
<1>1. Inv => NoSilentLoss
  BY DEF Inv
<1> QED BY <1>1, Invariance, PTL

\* flush() is a barrier: when it resolves, the VFS holds the accepted text of every
\* document, those edited while it waited included.
THEOREM FlushIsBarrier == Spec => FlushBarrier
<1>1. Inv /\ [Next]_vars =>
        [\A f \in Flushes, d \in Docs :
           /\ flush[f] = "waiting" /\ flush'[f] = "ok"
           /\ mode # "aborted" /\ d \notin overtaken
           => vfs[d] = text[d]]_vars
  <2> SUFFICES ASSUME Inv, [Next]_vars, NEW f \in Flushes, NEW d \in Docs,
                      flush[f] = "waiting", flush'[f] = "ok", mode # "aborted",
                      d \notin overtaken
               PROVE  vfs[d] = text[d]
    OBVIOUS
  <2>1. FlushSettles(f)
    <3>1. ASSUME NEW g \in Flushes, FlushStart(g) PROVE FALSE
      BY <3>1 DEF FlushStart, Inv, TypeOK
    <3>2. ASSUME NEW g \in Flushes, FlushSettles(g), g # f PROVE FALSE
      BY <3>2 DEF FlushSettles, Inv, TypeOK
    <3>3. ASSUME NEW e \in Docs, NEW ok \in BOOLEAN, WriteSettles(e, ok) PROVE FALSE
      BY <3>3 DEF WriteSettles, Inv, TypeOK
    <3>4. ASSUME flush' = flush PROVE FALSE
      BY <3>4
    <3> QED BY <3>1, <3>2, <3>3, <3>4
            DEF Next, Editor, Progress, DidOpen, DidChange, DidClose, TimerFires,
                DidOpenForwarded, CloseFlushes, CloseRejected, FlushAgain, Abort,
                Disposed, flushVars, vars
  <2>2. pending[d] = 0 /\ chain[d] = <<>> /\ failure[d] = 0
    BY <2>1 DEF FlushSettles, Drained, Inv, TypeOK
  <2> QED BY <2>2 DEF Inv, NoSilentLoss, Tip
<1> QED BY <1>1, Invariance, PTL DEF Spec, FlushBarrier

\* The VFS never goes back to older text, unless a retry was queued behind newer.
THEOREM VfsAdvances == Spec => VfsNeverRegresses
<1>1. Inv /\ [Next]_vars =>
        [\A d \in Docs : d \notin overtaken => vfs'[d] >= vfs[d]]_vars
  <2> SUFFICES ASSUME Inv, [Next]_vars, NEW d \in Docs, d \notin overtaken
               PROVE  vfs'[d] >= vfs[d]
    OBVIOUS
  <2>1. vfs[d] \in Int /\ Ordered(d) /\ chain[d] \in Seq(Text)
    BY SyncAssumption DEF Inv, TypeOK, TextOrNone, InOrder
  <2>2. ASSUME NEW e \in Docs, NEW ok \in BOOLEAN, WriteSettles(e, ok)
        PROVE  vfs'[d] >= vfs[d]
    <3>1. CASE e = d /\ ok
      <4>1. chain[d] # <<>> /\ vfs'[d] = Head(chain[d])
        BY <2>2, <3>1 DEF WriteSettles, Inv, TypeOK
      <4>2. 1 \in 1..Len(chain[d]) /\ Head(chain[d]) = chain[d][1] /\ chain[d][1] \in Text
        BY <2>1, <4>1
      <4> QED BY <2>1, <4>1, <4>2 DEF Ordered, Text
    <3>2. CASE ~ (e = d /\ ok)
      BY <2>1, <2>2, <3>2 DEF WriteSettles, Inv, TypeOK
    <3> QED BY <3>1, <3>2
  <2>3. ASSUME vfs' = vfs PROVE vfs'[d] >= vfs[d]
    BY <2>1, <2>3
  <2> QED BY <2>2, <2>3
          DEF Next, Editor, Progress, DidOpen, DidChange, DidClose, TimerFires,
              DidOpenForwarded, CloseFlushes, CloseRejected, FlushStart, FlushAgain,
              FlushSettles, Abort, Disposed, docVars, vars
<1> QED BY <1>1, Invariance, PTL DEF Spec, VfsNeverRegresses

-----------------------------------------------------------------------------
(* The end of dispose().                                                    *)

\* The one thing that may cut the drain short: a strict didOpen that fails.
StrictRejected == \E e \in Docs : strict[e] /\ open[e] = "rejected"

\* dispose() has drained everything and waits, if at all, for a didOpen in flight.
Settled == mode = "disposing" /\ flush[Disposer] \in {"ok", "failed"} /\ ~StrictRejected

\* No other flush() may have queued a retry.
Alone == \A f \in Flushes \ {Disposer} : flush[f] # "waiting"

\* Nothing is written for a document but the text it was opened with.
Quiet(d) == \/ chain[d] = <<>>
            \/ open[d] = "writing" /\ openLeft[d] = 1 /\ Len(chain[d]) = 1

\* The drain is kept once dispose() has it: there are no timers any more, and every
\* call that may queue a write waits for it before it ends.
DrainKept == Settled => /\ \A d \in Docs : pending[d] = 0
                        /\ Alone => \A d \in Docs : Quiet(d)

\* A didOpen that waits for queued writes has not been forwarded yet.
OpenWaits == \A d \in Docs : openLeft[d] # 0 => open[d] = "writing"

LEMMA NextOpenWaits == Inv /\ OpenWaits /\ [Next]_vars => OpenWaits'
<1> SUFFICES ASSUME Inv, OpenWaits, [Next]_vars, NEW e \in Docs, openLeft'[e] # 0
             PROVE  open'[e] = "writing"
  BY DEF OpenWaits
<1>1. ASSUME NEW d \in Docs, DidOpen(d) PROVE open'[e] = "writing"
  BY <1>1 DEF DidOpen, Inv, TypeOK, OpenWaits
<1>2. ASSUME NEW d \in Docs, DidOpenForwarded(d) PROVE open'[e] = "writing"
  BY <1>2 DEF DidOpenForwarded, Inv, TypeOK, OpenWaits
<1>3. ASSUME NEW d \in Docs, NEW ok \in BOOLEAN, WriteSettles(d, ok)
      PROVE  open'[e] = "writing"
  <2>1. CASE d = e
    <3>1. openLeft[e] # 0 /\ openLeft[e] # 1
      BY <1>3, <2>1 DEF WriteSettles, CountDown, Inv, TypeOK
    <3> QED BY <1>3, <2>1, <3>1 DEF WriteSettles, Inv, TypeOK, OpenWaits
  <2>2. CASE d # e
    BY <1>3, <2>2 DEF WriteSettles, Inv, TypeOK, OpenWaits
  <2> QED BY <2>1, <2>2
<1>4. ASSUME UNCHANGED <<open, openLeft>> PROVE open'[e] = "writing"
  BY <1>4 DEF OpenWaits
<1> QED BY <1>1, <1>2, <1>3, <1>4
        DEF Next, Editor, Progress, DidChange, DidClose, TimerFires, CloseFlushes,
            CloseRejected, FlushStart, FlushAgain, FlushSettles, Abort, Disposed,
            openVars, vars

\* A rejected strict didOpen stays so.
LEMMA RejectionStays ==
  ASSUME Inv, OpenWaits, [Next]_vars, StrictRejected
  PROVE  StrictRejected'
<1> SUFFICES ASSUME NEW e \in Docs, strict[e], open[e] = "rejected"
             PROVE  strict'[e] /\ open'[e] = "rejected"
  BY DEF StrictRejected
<1>1. ASSUME NEW d \in Docs, DidOpen(d) PROVE strict'[e] /\ open'[e] = "rejected"
  <2>1. d # e
    BY <1>1 DEF DidOpen
  <2> QED BY <1>1, <2>1 DEF DidOpen, Inv, TypeOK
<1>2. ASSUME NEW d \in Docs, DidOpenForwarded(d)
      PROVE  strict'[e] /\ open'[e] = "rejected"
  BY <1>2 DEF DidOpenForwarded, Inv, TypeOK
<1>3. ASSUME NEW d \in Docs, NEW ok \in BOOLEAN, WriteSettles(d, ok)
      PROVE  strict'[e] /\ open'[e] = "rejected"
  <2>1. openLeft[e] = 0
    BY DEF OpenWaits
  <2>2. open'[e] = open[e]
    BY <1>3, <2>1 DEF WriteSettles, Inv, TypeOK
  <2> QED BY <1>3, <2>2 DEF WriteSettles
<1>4. ASSUME UNCHANGED <<open, strict>> PROVE strict'[e] /\ open'[e] = "rejected"
  BY <1>4
<1> QED BY <1>1, <1>2, <1>3, <1>4
        DEF Next, Editor, Progress, DidChange, DidClose, TimerFires, CloseFlushes,
            CloseRejected, FlushStart, FlushAgain, FlushSettles, Abort, Disposed,
            openVars, vars

\* No step queues a write behind dispose()'s back.
LEMMA NextDrainKept == Inv /\ OpenWaits /\ DrainKept /\ [Next]_vars => DrainKept'
<1> SUFFICES ASSUME Inv, OpenWaits, DrainKept, [Next]_vars, Settled'
             PROVE  /\ \A d \in Docs : pending'[d] = 0
                    /\ Alone' => \A d \in Docs : Quiet(d)'
  BY DEF DrainKept
<1> DEFINE Kept == /\ \A d \in Docs : pending'[d] = 0
                   /\ Alone' => \A d \in Docs : Quiet(d)'
<1>a. ~ StrictRejected /\ mode' = "disposing" /\ flush'[Disposer] \in {"ok", "failed"}
  BY RejectionStays DEF Settled
<1>b. Disposer \in Flushes
  BY SyncAssumption
<1>c. ASSUME UNCHANGED <<mode, flush>>
      PROVE  /\ \A d \in Docs : pending[d] = 0
             /\ Alone' => \A d \in Docs : Quiet(d)
  BY <1>a, <1>c DEF DrainKept, Settled, Alone
<1>1. ASSUME NEW d \in Docs, DidOpen(d) PROVE Kept
  <2>1. UNCHANGED <<mode, flush, pending>>
    BY <1>1 DEF DidOpen, flushVars
  <2>2. chain[d] = <<>>
    BY <1>1 DEF DidOpen, Inv, Started
  <2>3. open'[d] = "writing" /\ openLeft'[d] = 1 /\ Len(chain'[d]) = 1
    BY <1>1, <2>2 DEF DidOpen, QueueWrite, Inv, TypeOK
  <2>4. ASSUME NEW e \in Docs, e # d PROVE Quiet(e)' = Quiet(e)
    BY <1>1, <2>4 DEF DidOpen, QueueWrite, Inv, TypeOK, Quiet
  <2> QED BY <1>c, <2>1, <2>3, <2>4 DEF Quiet
<1>2. ASSUME NEW d \in Docs, DidChange(d) PROVE Kept
  <2>1. UNCHANGED <<mode, flush, chain, open, openLeft>>
    BY <1>2 DEF DidChange, flushVars
  <2>2. pending' = pending
    BY <1>2, <1>a, <2>1 DEF DidChange
  <2> QED BY <1>c, <2>1, <2>2 DEF Quiet
<1>3. ASSUME NEW d \in Docs, TimerFires(d) PROVE Kept
  <2>1. UNCHANGED <<mode, flush>> /\ pending[d] # 0
    BY <1>3 DEF TimerFires, flushVars
  <2> QED BY <1>c, <2>1
<1>4. ASSUME NEW d \in Docs, DidOpenForwarded(d) PROVE Kept
  <2>1. UNCHANGED <<mode, flush, pending, chain>> /\ open[d] # "writing"
    BY <1>4 DEF DidOpenForwarded, flushVars, lifeVars, docVars
  <2>2. ASSUME NEW e \in Docs, Quiet(e) PROVE Quiet(e)'
    <3>1. CASE e = d
      BY <2>1, <2>2, <3>1 DEF Quiet
    <3>2. CASE e # d
      BY <1>4, <2>1, <2>2, <3>2 DEF DidOpenForwarded, Inv, TypeOK, Quiet
    <3> QED BY <3>1, <3>2
  <2> QED BY <1>c, <2>1, <2>2
<1>5. ASSUME NEW d \in Docs, CloseFlushes(d) PROVE Kept
  <2>1. UNCHANGED <<mode, flush, open, openLeft>>
    BY <1>5 DEF CloseFlushes, flushVars, lifeVars, openVars
  <2>2. pending[d] = 0
    BY <1>c, <2>1
  <2>3. UNCHANGED <<chain, pending>>
    BY <1>5, <2>2 DEF CloseFlushes
  <2> QED BY <1>c, <2>1, <2>3 DEF Quiet
<1>6. ASSUME NEW d \in Docs, NEW ok \in BOOLEAN, WriteSettles(d, ok) PROVE Kept
  <2>1. UNCHANGED <<mode, pending, strict>> /\ chain[d] # <<>>
    BY <1>6 DEF WriteSettles
  <2>2. ~ StrictFails(d, ok)
    <3> SUFFICES ASSUME StrictFails(d, ok) PROVE StrictRejected'
      BY DEF Settled
    <3>1. strict'[d] /\ open'[d] = "rejected"
      BY <1>6, <2>1 DEF WriteSettles, StrictFails, Inv, TypeOK
    <3> QED BY <3>1 DEF StrictRejected
  <2>3. flush' = flush
    <3>1. flush' = [f \in Flushes |-> flush[f]]
      BY <1>6, <2>2 DEF WriteSettles
    <3> QED BY <3>1 DEF Inv, TypeOK
  <2>4. ASSUME NEW e \in Docs, Quiet(e) PROVE Quiet(e)'
    <3>1. CASE e = d
      <4>1. chain[d] \in Seq(Text) /\ Len(chain[d]) = 1
        BY <2>1, <2>4, <3>1 DEF Quiet, Inv, TypeOK
      <4>2. chain'[d] = Tail(chain[d])
        BY <1>6 DEF WriteSettles, Inv, TypeOK
      <4>3. chain'[d] = <<>>
        <5>1. chain'[d] \in Seq(Text) /\ Len(chain'[d]) = 0
          BY <2>1, <4>1, <4>2, HeadTailProperties
        <5> QED BY <5>1, EmptySeq
      <4> QED BY <3>1, <4>3 DEF Quiet
    <3>2. CASE e # d
      <4>1. chain'[e] = chain[e] /\ open'[e] = open[e] /\ openLeft'[e] = openLeft[e]
        BY <1>6, <3>2 DEF WriteSettles, Inv, TypeOK
      <4> QED BY <2>4, <4>1 DEF Quiet
    <3> QED BY <3>1, <3>2
  <2> QED BY <1>c, <2>1, <2>3, <2>4
<1>7. ASSUME NEW f \in Flushes, FlushStart(f) PROVE Kept
  <2>1. flush'[f] = "waiting" /\ f # Disposer
    BY <1>7, <1>a DEF FlushStart, Inv, TypeOK
  <2>2. pending' = [d \in Docs |-> 0]
    BY <1>7 DEF FlushStart, QueueSnapshots
  <2> QED BY <2>1, <2>2 DEF Alone
<1>8. ASSUME NEW f \in Flushes, FlushAgain(f) PROVE Kept
  <2>1. flush'[f] = "waiting" /\ f # Disposer
    BY <1>8, <1>a DEF FlushAgain, Waited
  <2>2. pending' = [d \in Docs |-> 0]
    BY <1>8 DEF FlushAgain, QueueSnapshots
  <2> QED BY <2>1, <2>2 DEF Alone
<1>9. ASSUME NEW f \in Flushes, FlushSettles(f) PROVE Kept
  BY <1>9 DEF FlushSettles, Drained, docVars, Quiet
<1>10. CASE Abort
  BY <1>10, <1>a DEF Abort
<1>11. CASE Disposed
  BY <1>11, <1>a DEF Disposed
<1>12. ASSUME UNCHANGED <<mode, flush, pending, chain, open, openLeft>> PROVE Kept
  BY <1>c, <1>12 DEF Quiet
<1> QED BY <1>1, <1>2, <1>3, <1>4, <1>5, <1>6, <1>7, <1>8, <1>9, <1>10, <1>11, <1>12
        DEF Next, Editor, Progress, DidClose, CloseRejected, docVars, openVars,
            lifeVars, flushVars, vars

\* When dispose() resolves, the writes of the documents that were open are over: the
\* transport, which dispose() closes next, carries none of them.
THEOREM DisposalDrains == Spec => DisposeDrains
<1>1. Init => OpenWaits /\ DrainKept
  BY DEF Init, OpenWaits, DrainKept, Settled
<1>2. Inv /\ OpenWaits /\ DrainKept /\ [Next]_vars => OpenWaits' /\ DrainKept'
  BY NextOpenWaits, NextDrainKept
<1>3. Inv /\ DrainKept /\ [Next]_vars =>
        [/\ mode # "disposed" /\ mode' = "disposed"
         /\ \A f \in Flushes \ {Disposer} : flush[f] # "waiting"
         /\ ~ \E e \in Docs : strict[e] /\ open[e] = "rejected"
         => \A d \in Docs : open[d] = "done" => chain[d] = <<>>]_vars
  <2> SUFFICES ASSUME DrainKept, [Next]_vars, mode # "disposed", mode' = "disposed",
                      Alone, ~StrictRejected, NEW d \in Docs, open[d] = "done"
               PROVE  chain[d] = <<>>
    BY DEF Alone, StrictRejected
  <2>1. Disposed
    <3>1. ASSUME NEW f \in Flushes, FlushStart(f) PROVE mode' \in {mode, "disposing"}
      BY <3>1 DEF FlushStart
    <3> QED BY <3>1
            DEF Next, Editor, Progress, DidOpen, DidChange, DidClose, TimerFires,
                DidOpenForwarded, CloseFlushes, CloseRejected, WriteSettles, FlushAgain,
                FlushSettles, Abort, lifeVars, vars
  <2>2. Settled
    BY <2>1 DEF Disposed, Settled
  <2> QED BY <2>2 DEF DrainKept, Quiet
<1> QED BY <1>1, <1>2, <1>3, Invariance, PTL DEF Spec, DisposeDrains

-----------------------------------------------------------------------------
(* didClose and the writes of its document.                                 *)

\* Only a document that was opened is closed.
CloseOpened == \A d \in Docs : close[d] # "none" => open[d] # "none"

LEMMA NextCloseOpened == Inv /\ CloseOpened /\ [Next]_vars => CloseOpened'
<1> SUFFICES ASSUME Inv, CloseOpened, [Next]_vars, NEW e \in Docs, close'[e] # "none"
             PROVE  open'[e] # "none"
  BY DEF CloseOpened
<1> USE DEF CloseOpened, Inv, TypeOK
<1>1. ASSUME NEW d \in Docs, DidOpen(d) PROVE open'[e] # "none"
  BY <1>1 DEF DidOpen, closeVars
<1>2. ASSUME NEW d \in Docs, DidClose(d) PROVE open'[e] # "none"
  BY <1>2 DEF DidClose, openVars
<1>3. ASSUME NEW d \in Docs, DidOpenForwarded(d) PROVE open'[e] # "none"
  BY <1>3 DEF DidOpenForwarded, closeVars
<1>4. ASSUME NEW d \in Docs, CloseFlushes(d) PROVE open'[e] # "none"
  BY <1>4 DEF CloseFlushes, CloseMayFlush, openVars
<1>5. ASSUME NEW d \in Docs, CloseRejected(d) PROVE open'[e] # "none"
  BY <1>5 DEF CloseRejected, openVars
<1>6. ASSUME NEW d \in Docs, NEW ok \in BOOLEAN, WriteSettles(d, ok)
      PROVE  open'[e] # "none"
  <2>1. open[e] # "none" => open'[e] # "none"
    BY <1>6 DEF WriteSettles
  <2>2. close[e] # "none" \/ (d = e /\ chain[e] # <<>>)
    BY <1>6 DEF WriteSettles
  <2> QED BY <2>1, <2>2 DEF Started
<1>7. ASSUME UNCHANGED <<open, close>> PROVE open'[e] # "none"
  BY <1>7
<1> QED BY <1>1, <1>2, <1>3, <1>4, <1>5, <1>6, <1>7
        DEF Next, Editor, Progress, DidChange, TimerFires, FlushStart, FlushAgain,
            FlushSettles, Abort, Disposed, openVars, closeVars, vars

\* Only a didClose that waits for writes counts them.
CloseWriting == \A d \in Docs : closeLeft[d] # 0 => close[d] = "writing"

LEMMA NextCloseWriting == Inv /\ CloseWriting /\ [Next]_vars => CloseWriting'
<1> SUFFICES ASSUME Inv, CloseWriting, [Next]_vars, NEW e \in Docs, closeLeft'[e] # 0
             PROVE  close'[e] = "writing"
  BY DEF CloseWriting
<1> USE DEF CloseWriting, Inv, TypeOK
<1>1. ASSUME NEW d \in Docs, DidClose(d) PROVE close'[e] = "writing"
  BY <1>1 DEF DidClose
<1>2. ASSUME NEW d \in Docs, CloseFlushes(d) PROVE close'[e] = "writing"
  <2>1. CASE e = d /\ chain'[d] = <<>>
    <3>1. closeLeft'[d] = 0
      BY <1>2, <2>1 DEF CloseFlushes
    <3> QED BY <2>1, <3>1
  <2>2. CASE ~ (e = d /\ chain'[d] = <<>>)
    BY <1>2, <2>2 DEF CloseFlushes
  <2> QED BY <2>1, <2>2
<1>3. ASSUME NEW d \in Docs, CloseRejected(d) PROVE close'[e] = "writing"
  BY <1>3 DEF CloseRejected
<1>4. ASSUME NEW d \in Docs, NEW ok \in BOOLEAN, WriteSettles(d, ok)
      PROVE  close'[e] = "writing"
  <2>1. CASE d = e
    <3>1. closeLeft[e] # 0 /\ closeLeft[e] # 1
      BY <1>4, <2>1 DEF WriteSettles, CountDown
    <3> QED BY <1>4, <2>1, <3>1 DEF WriteSettles
  <2>2. CASE d # e
    BY <1>4, <2>2 DEF WriteSettles
  <2> QED BY <2>1, <2>2
<1>5. ASSUME UNCHANGED closeVars PROVE close'[e] = "writing"
  BY <1>5 DEF closeVars
<1> QED BY <1>1, <1>2, <1>3, <1>4, <1>5
        DEF Next, Editor, Progress, DidOpen, DidChange, DidOpenForwarded, TimerFires,
            FlushStart, FlushAgain, FlushSettles, Abort, Disposed, vars

\* What a didClose waits for ends with the text of the document: every write from the
\* last one it waits for on is a write of that text, since the editor changes it no more
\* and what is queued later repeats it.
CloseWaits(d) ==
  /\ pending[d] = 0 /\ closeLeft[d] \in 1..Len(chain[d])
  /\ \A i \in closeLeft[d]..Len(chain[d]) : chain[d][i] = text[d]
CloseQueued ==
  \A d \in Docs : close[d] = "writing" /\ mode # "aborted" /\ d \notin overtaken
                    => CloseWaits(d)

\* The text of a document is the last one of its queue, if nothing else is under way.
LEMMA LastIsText ==
  ASSUME TypeOK, NoSilentLoss, NEW d \in Docs, mode # "aborted", d \notin overtaken,
         pending[d] = 0, chain[d] # <<>>
  PROVE  Len(chain[d]) \in Nat \ {0} /\ chain[d][Len(chain[d])] = text[d]
<1>1. chain[d] \in Seq(Text)
  BY DEF TypeOK
<1> QED BY <1>1 DEF NoSilentLoss, Tip

\* What a flush queues behind the writes of a closed document repeats its text.
LEMMA FlushKeepsClose ==
  ASSUME Inv, NEW f \in Flushes, NEW snapshots, QueueSnapshots(f, snapshots),
         NEW d \in Docs, d \notin overtaken', CloseWaits(d),
         snapshots[d] = pending[d] \/ snapshots[d] = failure[d],
         UNCHANGED <<text, closeLeft>>
  PROVE  CloseWaits(d)'
<1>1. chain[d] \in Seq(Text) /\ pending'[d] = 0 /\ d \notin overtaken
  BY DEF Inv, TypeOK, QueueSnapshots
<1>2. CASE snapshots[d] = 0
  BY <1>1, <1>2 DEF QueueSnapshots, CloseWaits
<1>3. CASE snapshots[d] # 0
  <2>1. snapshots[d] = failure[d] /\ failure[d] # 0
    BY <1>3 DEF CloseWaits
  <2>2. Len(chain[d]) \in Nat \ {0} /\ chain[d] # <<>> /\ chain[d][Len(chain[d])] = text[d]
    BY <1>1 DEF CloseWaits
  <2>3. text[d] \in Int /\ failure[d] \in Int /\ failure[d] <= text[d]
    BY <1>1, SyncAssumption DEF Inv, TypeOK, TextOrNone, InOrder, Ordered
  <2>4. ~ (failure[d] < text[d])
    BY <1>3, <2>1, <2>2 DEF QueueSnapshots
  <2>5. failure[d] = text[d]
    BY <2>3, <2>4
  <2>6. chain'[d] = Append(chain[d], failure[d])
    BY <1>3, <2>1 DEF QueueSnapshots
  <2>7. failure[d] \in Text
    BY <2>1, TextTypes DEF Inv, TypeOK
  <2>8. /\ Len(chain'[d]) = Len(chain[d]) + 1
        /\ chain'[d][Len(chain[d]) + 1] = text[d]
        /\ \A i \in 1..Len(chain[d]) : chain'[d][i] = chain[d][i]
    BY <1>1, <2>5, <2>6, <2>7
  <2>9. closeLeft'[d] = closeLeft[d] /\ text'[d] = text[d] /\ closeLeft[d] \in 1..Len(chain[d])
    BY DEF CloseWaits
  <2>10. ASSUME NEW i \in closeLeft[d]..Len(chain'[d]) PROVE chain'[d][i] = text[d]
    <3>1. CASE i = Len(chain[d]) + 1
      BY <2>8, <3>1
    <3>2. CASE i # Len(chain[d]) + 1
      <4>1. i \in closeLeft[d]..Len(chain[d]) /\ i \in 1..Len(chain[d])
        BY <2>2, <2>8, <2>9, <3>2
      <4> QED BY <2>8, <4>1 DEF CloseWaits
    <3> QED BY <3>1, <3>2
  <2>11. closeLeft[d] \in 1..Len(chain'[d])
    BY <2>2, <2>8, <2>9
  <2> QED BY <1>1, <2>9, <2>10, <2>11 DEF CloseWaits
<1> QED BY <1>2, <1>3

LEMMA NextCloseQueued ==
  Inv /\ Inv' /\ CloseOpened /\ CloseQueued /\ [Next]_vars => CloseQueued'
<1> SUFFICES ASSUME Inv, Inv', CloseOpened, CloseQueued, [Next]_vars, NEW e \in Docs,
                    close'[e] = "writing", mode' # "aborted", e \notin overtaken'
             PROVE  CloseWaits(e)'
  BY DEF CloseQueued
<1>a. /\ chain[e] \in Seq(Text) /\ close \in [Docs -> CloseSteps]
      /\ closeLeft \in [Docs -> Nat]
  BY DEF Inv, TypeOK
<1>b. mode # "aborted" /\ e \notin overtaken
  BY DEF Next, Editor, Progress, DidOpen, DidChange, DidClose, TimerFires,
         DidOpenForwarded, CloseFlushes, CloseRejected, WriteSettles, FlushStart, FlushAgain,
         FlushSettles, QueueSnapshots, Abort, Disposed, lifeVars, vars
<1>c. close[e] = "writing" => CloseWaits(e)
  BY <1>b DEF CloseQueued
<1>d. ASSUME close[e] = "writing",
             UNCHANGED <<pending[e], closeLeft[e], chain[e], text[e]>>
      PROVE  CloseWaits(e)'
  BY <1>c, <1>d DEF CloseWaits
<1>1. ASSUME NEW d \in Docs, DidOpen(d) PROVE CloseWaits(e)'
  <2>1. close[e] = "writing" /\ d # e
    BY <1>1 DEF DidOpen, closeVars, CloseOpened
  <2>2. UNCHANGED <<pending[e], closeLeft[e], chain[e], text[e]>>
    BY <1>1, <2>1 DEF DidOpen, QueueWrite, closeVars, Inv, TypeOK
  <2> QED BY <1>d, <2>1, <2>2
<1>2. ASSUME NEW d \in Docs, DidChange(d) PROVE CloseWaits(e)'
  <2>1. close[e] = "writing" /\ d # e
    BY <1>2 DEF DidChange, closeVars
  <2>2. UNCHANGED <<pending[e], closeLeft[e], chain[e], text[e]>>
    BY <1>2, <2>1 DEF DidChange, closeVars, Inv, TypeOK
  <2> QED BY <1>d, <2>1, <2>2
<1>3. ASSUME NEW d \in Docs, DidClose(d) PROVE CloseWaits(e)'
  <2>1. close[e] = "writing"
    BY <1>3, <1>a DEF DidClose
  <2> QED BY <1>3, <1>d, <2>1 DEF DidClose, docVars
<1>4. ASSUME NEW d \in Docs, TimerFires(d) PROVE CloseWaits(e)'
  <2>1. close[e] = "writing" /\ d # e
    BY <1>4, <1>c DEF TimerFires, closeVars, CloseWaits
  <2>2. UNCHANGED <<pending[e], closeLeft[e], chain[e], text[e]>>
    BY <1>4, <2>1 DEF TimerFires, QueueWrite, closeVars, Inv, TypeOK
  <2> QED BY <1>d, <2>1, <2>2
<1>5. ASSUME NEW d \in Docs, CloseFlushes(d) PROVE CloseWaits(e)'
  <2>1. CASE d = e
    <3>1. /\ pending'[e] = 0 /\ closeLeft'[e] = Len(chain'[e]) /\ chain'[e] # <<>>
      BY <1>5, <1>a, <2>1 DEF CloseFlushes, Inv, TypeOK
    <3>2. Len(chain'[e]) \in Nat \ {0} /\ chain'[e][Len(chain'[e])] = text'[e]
      <4>1. chain'[e] \in Seq(Text) /\ Tip(e)' = text'[e]
        BY DEF Inv, TypeOK, NoSilentLoss
      <4> QED BY <3>1, <4>1 DEF Tip
    <3> QED BY <3>1, <3>2 DEF CloseWaits
  <2>2. CASE d # e
    <3>1. /\ close[e] = "writing"
          /\ UNCHANGED <<pending[e], closeLeft[e], chain[e], text[e]>>
      BY <1>5, <2>2 DEF CloseFlushes, QueueWrite, Inv, TypeOK
    <3> QED BY <1>d, <3>1
  <2> QED BY <2>1, <2>2
<1>6. ASSUME NEW d \in Docs, NEW ok \in BOOLEAN, WriteSettles(d, ok) PROVE CloseWaits(e)'
  <2>0. close[e] = "writing"
    BY <1>6, <1>a DEF WriteSettles
  <2>1. CASE d = e
    <3>1. /\ chain[e] # <<>> /\ chain'[e] = Tail(chain[e]) /\ pending' = pending
          /\ text' = text /\ closeLeft'[e] = CountDown(closeLeft[e]) /\ closeLeft[e] # 1
      BY <1>6, <1>a, <2>1 DEF WriteSettles, Inv, TypeOK
    <3>2. CloseWaits(e) /\ Len(chain[e]) \in Nat /\ closeLeft[e] \in 2..Len(chain[e])
      BY <1>a, <1>c, <2>0, <3>1 DEF CloseWaits
    <3>3. closeLeft'[e] = closeLeft[e] - 1
      BY <3>1, <3>2 DEF CountDown
    <3>4. /\ Len(chain'[e]) = Len(chain[e]) - 1
          /\ \A i \in 1..(Len(chain[e]) - 1) : chain'[e][i] = chain[e][i + 1]
      BY <1>a, <3>1
    <3>5. ASSUME NEW i \in closeLeft'[e]..Len(chain'[e]) PROVE chain'[e][i] = text[e]
      <4>1. i \in 1..(Len(chain[e]) - 1) /\ i + 1 \in closeLeft[e]..Len(chain[e])
        BY <3>2, <3>3, <3>4
      <4> QED BY <3>2, <3>4, <4>1 DEF CloseWaits
    <3>6. closeLeft'[e] \in 1..Len(chain'[e])
      BY <3>2, <3>3, <3>4
    <3> QED BY <3>1, <3>2, <3>5, <3>6 DEF CloseWaits
  <2>2. CASE d # e
    <3>1. UNCHANGED <<pending[e], closeLeft[e], chain[e], text[e]>>
      BY <1>6, <2>2 DEF WriteSettles, Inv, TypeOK
    <3> QED BY <1>d, <2>0, <3>1
  <2> QED BY <2>1, <2>2
<1>7. ASSUME NEW f \in Flushes, FlushStart(f) PROVE CloseWaits(e)'
  <2>1. /\ close[e] = "writing" /\ QueueSnapshots(f, Retried)
        /\ UNCHANGED <<text, closeLeft>>
    BY <1>7 DEF FlushStart, closeVars
  <2>2. Retried[e] = pending[e] \/ Retried[e] = failure[e]
    BY DEF Retried
  <2> QED BY <1>c, <2>1, <2>2, FlushKeepsClose
<1>8. ASSUME NEW f \in Flushes, FlushAgain(f) PROVE CloseWaits(e)'
  <2>1. /\ close[e] = "writing" /\ QueueSnapshots(f, pending)
        /\ UNCHANGED <<text, closeLeft>>
    BY <1>8 DEF FlushAgain, closeVars
  <2> QED BY <1>c, <2>1, FlushKeepsClose
<1>9. ASSUME NEW d \in Docs, CloseRejected(d) PROVE CloseWaits(e)'
  <2>1. close[e] = "writing"
    BY <1>9, <1>a DEF CloseRejected
  <2> QED BY <1>9, <1>d, <2>1 DEF CloseRejected, docVars
<1>10. CASE Abort
  BY <1>10 DEF Abort
<1>11. ASSUME UNCHANGED <<pending, chain, text, close, closeLeft>> PROVE CloseWaits(e)'
  BY <1>11, <1>d
<1> QED BY <1>1, <1>2, <1>3, <1>4, <1>5, <1>6, <1>7, <1>8, <1>9, <1>10, <1>11
        DEF Next, Editor, Progress, DidOpenForwarded, FlushSettles, Disposed, docVars,
            closeVars, vars

\* A didClose is forwarded only when the VFS holds the text of its document or has
\* refused it: whatever timers, retries and other writes do meanwhile.
THEOREM ClosesAfterWrite == Spec => CloseAfterWrite
<1>1. Init => CloseOpened /\ CloseWriting /\ CloseQueued
  BY DEF Init, CloseOpened, CloseWriting, CloseQueued
<1>2. Inv /\ Inv' /\ CloseOpened /\ CloseWriting /\ CloseQueued /\ [Next]_vars
        => CloseOpened' /\ CloseWriting' /\ CloseQueued'
  BY NextCloseOpened, NextCloseWriting, NextCloseQueued
<1>3. Inv /\ Inv' /\ CloseWriting /\ CloseQueued /\ [Next]_vars =>
        [\A d \in Docs :
           /\ close[d] # "done" /\ close'[d] = "done"
           /\ mode # "aborted" /\ d \notin overtaken
           => vfs'[d] = text'[d] \/ failure'[d] # 0]_vars
  <2> SUFFICES ASSUME Inv, Inv', CloseWriting, CloseQueued, [Next]_vars, NEW d \in Docs,
                      close[d] # "done", close'[d] = "done", mode # "aborted",
                      d \notin overtaken
               PROVE  vfs'[d] = text'[d] \/ failure'[d] # 0
    OBVIOUS
  <2>1. ASSUME NEW e \in Docs, CloseFlushes(e)
        PROVE  vfs'[d] = text'[d] \/ failure'[d] # 0
    <3>1. e = d /\ chain'[d] = <<>> /\ pending'[d] = 0
      BY <2>1 DEF CloseFlushes, Inv, TypeOK
    <3>2. mode' # "aborted" /\ d \notin overtaken'
      BY <2>1 DEF CloseFlushes, lifeVars
    <3> QED BY <3>1, <3>2 DEF Inv, NoSilentLoss, Tip
  <2>2. ASSUME NEW e \in Docs, NEW ok \in BOOLEAN, WriteSettles(e, ok)
        PROVE  vfs'[d] = text'[d] \/ failure'[d] # 0
    <3>1. e = d /\ closeLeft[d] = 1 /\ chain[d] # <<>> /\ text' = text
      BY <2>2 DEF WriteSettles, Inv, TypeOK
    <3>2. /\ Head(chain[d]) \in Text /\ Head(chain[d]) # 0
          /\ Head(chain[d]) = chain[d][1] /\ Len(chain[d]) \in Nat \ {0}
      <4>1. chain[d] \in Seq(Text)
        BY DEF Inv, TypeOK
      <4>2. Head(chain[d]) \in Text
        BY <3>1, <4>1
      <4>3. \A t \in Text : t # 0
        BY DEF Text
      <4> QED BY <3>1, <4>1, <4>2, <4>3
    <3>3. CASE ok
      <4>1. vfs'[d] = Head(chain[d])
        BY <2>2, <3>1, <3>3 DEF WriteSettles, Inv, TypeOK
      <4>2. close[d] = "writing"
        BY <2>2, <3>1 DEF CloseWriting
      <4> QED BY <3>1, <3>2, <4>1, <4>2 DEF CloseQueued, CloseWaits
    <3>4. CASE ~ok
      BY <2>2, <3>1, <3>2, <3>4 DEF WriteSettles, Inv, TypeOK
    <3> QED BY <3>3, <3>4
  <2>3. ASSUME NEW e \in Docs, DidClose(e) \/ CloseRejected(e) PROVE FALSE
    BY <2>3 DEF DidClose, CloseRejected, Inv, TypeOK
  <2>4. ASSUME UNCHANGED close PROVE FALSE
    BY <2>4
  <2> QED BY <2>1, <2>2, <2>3, <2>4
          DEF Next, Editor, Progress, DidOpen, DidChange, TimerFires, DidOpenForwarded,
              FlushStart, FlushAgain, FlushSettles, Abort, Disposed, closeVars, vars
<1> QED BY <1>1, <1>2, <1>3, Invariance, PTL DEF Spec, CloseAfterWrite

-----------------------------------------------------------------------------
(* What the language server hears.                                          *)

\* The texts the server has heard of are those of the editor; before the didOpen it has
\* heard of none, and of the first only until the changes that were held back follow.
ServerKnows(d) ==
  /\ server[d] <= edits[d]
  /\ open[d] \in {"none", "writing"} => server[d] = 0
  /\ open[d] = "forwarding" => server[d] = 1
  /\ open[d] = "done" => server[d] # 0
  /\ held[d] # <<>> => /\ open[d] \in {"writing", "forwarding"}
                       /\ held[d][Len(held[d])] \in 2..edits[d]
ServerFollows == mode # "aborted" => \A d \in Docs : ServerKnows(d)

LEMMA NextServerFollows == Inv /\ OpenWaits /\ ServerFollows /\ [Next]_vars => ServerFollows'
<1> SUFFICES ASSUME Inv, OpenWaits, ServerFollows, [Next]_vars, mode' # "aborted",
                    NEW e \in Docs
             PROVE  ServerKnows(e)'
  BY DEF ServerFollows
<1>a. mode # "aborted"
  BY DEF Next, Editor, Progress, DidOpen, DidChange, DidClose, TimerFires,
         DidOpenForwarded, CloseFlushes, CloseRejected, WriteSettles, FlushStart, FlushAgain,
         FlushSettles, Abort, Disposed, lifeVars, vars
<1>b. /\ ServerKnows(e) /\ held[e] \in Seq(Text) /\ edits[e] \in Nat /\ server[e] \in Nat
      /\ server[e] <= edits[e] /\ open \in [Docs -> OpenSteps]
  BY <1>a, SyncAssumption DEF ServerFollows, ServerKnows, Inv, TypeOK, TextOrNone
<1>c. ASSUME UNCHANGED <<edits[e], open[e], server[e], held[e]>> PROVE ServerKnows(e)'
  BY <1>b, <1>c DEF ServerKnows
<1>1. ASSUME NEW d \in Docs, DidOpen(d) PROVE ServerKnows(e)'
  <2>1. CASE d = e
    <3>1. /\ open[e] = "none" /\ edits'[e] = 1 /\ open'[e] = "writing"
          /\ server'[e] = server[e] /\ held'[e] = held[e]
      BY <1>1, <2>1 DEF DidOpen, Inv, TypeOK
    <3>2. server[e] = 0 /\ held[e] = <<>>
      BY <1>b, <3>1 DEF ServerKnows
    <3> QED BY <3>1, <3>2 DEF ServerKnows
  <2>2. CASE d # e
    BY <1>1, <1>c, <2>2 DEF DidOpen, Inv, TypeOK
  <2> QED BY <2>1, <2>2
<1>2. ASSUME NEW d \in Docs, DidChange(d) PROVE ServerKnows(e)'
  <2>1. CASE d = e /\ OpenInFlight(e)
    <3>1. /\ edits'[e] = edits[e] + 1 /\ held'[e] = Append(held[e], edits[e] + 1)
          /\ server'[e] = server[e] /\ open'[e] = open[e] /\ edits[e] + 1 <= MaxEdits
      BY <1>2, <1>b, <2>1, SyncAssumption DEF DidChange, Inv, TypeOK
    <3>2. open[e] \in {"writing", "forwarding"} /\ edits[e] # 0
      BY <2>1 DEF OpenInFlight, Inv, Started
    <3>3. edits[e] + 1 \in Text
      BY <1>b, <3>1 DEF Text
    <3>4. held'[e][Len(held'[e])] = edits[e] + 1
      BY <1>b, <3>1, <3>3
    <3>5. server'[e] <= edits'[e] /\ edits[e] + 1 \in 2..edits'[e]
      BY <1>b, <3>1, <3>2
    <3> QED BY <1>b, <3>1, <3>2, <3>4, <3>5 DEF ServerKnows
  <2>2. CASE d = e /\ ~OpenInFlight(e)
    <3>1. /\ edits'[e] = edits[e] + 1 /\ held'[e] = held[e] /\ open[e] # "none"
          /\ server'[e] = edits[e] + 1 /\ open'[e] = open[e]
      BY <1>2, <2>2 DEF DidChange, Inv, TypeOK
    <3>2. open[e] \notin {"none", "writing", "forwarding"}
      BY <1>a, <2>2, <3>1 DEF OpenInFlight
    <3>3. held[e] = <<>>
      BY <1>b, <3>2 DEF ServerKnows
    <3>4. server'[e] <= edits'[e] /\ server'[e] # 0
      BY <1>b, <3>1
    <3> QED BY <3>1, <3>2, <3>3, <3>4 DEF ServerKnows
  <2>3. CASE d # e
    <3>1. UNCHANGED <<edits[e], open[e], server[e], held[e]>>
      BY <1>2, <2>3 DEF DidChange, Inv, TypeOK
    <3> QED BY <1>c, <3>1
  <2> QED BY <2>1, <2>2, <2>3
<1>3. ASSUME NEW d \in Docs, DidOpenForwarded(d) PROVE ServerKnows(e)'
  <2>1. CASE d = e
    <3>1. /\ held'[e] = <<>> /\ edits'[e] = edits[e] /\ open[e] = "forwarding"
          /\ open'[e] \in {"done", "rejected"}
      BY <1>3, <2>1 DEF DidOpenForwarded, docVars, Inv, TypeOK
    <3>2. server[e] = 1
      BY <1>b, <3>1 DEF ServerKnows
    <3>3. \/ server'[e] = server[e]
          \/ held[e] # <<>> /\ server'[e] = held[e][Len(held[e])]
      BY <1>3, <2>1 DEF DidOpenForwarded, Inv, TypeOK
    <3>4. held[e] # <<>> => held[e][Len(held[e])] \in 2..edits[e]
      BY <1>b DEF ServerKnows
    <3>5. server'[e] <= edits'[e] /\ server'[e] # 0
      BY <1>b, <3>1, <3>2, <3>3, <3>4
    <3> QED BY <3>1, <3>5 DEF ServerKnows
  <2>2. CASE d # e
    <3>1. UNCHANGED <<edits[e], open[e], server[e], held[e]>>
      BY <1>3, <2>2 DEF DidOpenForwarded, docVars, Inv, TypeOK
    <3> QED BY <1>c, <3>1
  <2> QED BY <2>1, <2>2
<1>4. ASSUME NEW d \in Docs, NEW ok \in BOOLEAN, WriteSettles(d, ok) PROVE ServerKnows(e)'
  <2>1. CASE d = e /\ openLeft[e] = 1
    <3>1. open[e] = "writing" /\ edits' = edits /\ edits[e] # 0
      BY <1>4, <2>1 DEF WriteSettles, OpenWaits, Inv, Started
    <3>2. server[e] = 0
      BY <1>b, <3>1 DEF ServerKnows
    <3>3. CASE strict[e] /\ ~ok
      <4>1. open'[e] = "rejected" /\ held'[e] = <<>> /\ server'[e] = server[e]
        BY <1>4, <2>1, <3>3 DEF WriteSettles, Inv, TypeOK
      <4> QED BY <1>b, <3>1, <4>1 DEF ServerKnows
    <3>4. CASE ~ (strict[e] /\ ~ok)
      <4>1. open'[e] = "forwarding" /\ held'[e] = held[e] /\ server'[e] = 1
        BY <1>4, <2>1, <3>4 DEF WriteSettles, Inv, TypeOK
      <4>2. server'[e] <= edits'[e]
        BY <1>b, <3>1, <4>1
      <4> QED BY <1>b, <3>1, <4>1, <4>2 DEF ServerKnows
    <3> QED BY <3>3, <3>4
  <2>2. CASE ~ (d = e /\ openLeft[e] = 1)
    <3>1. UNCHANGED <<edits[e], open[e], server[e], held[e]>>
      BY <1>4, <2>2 DEF WriteSettles, Inv, TypeOK
    <3> QED BY <1>c, <3>1
  <2> QED BY <2>1, <2>2
<1>5. ASSUME UNCHANGED <<edits, open, server, held>> PROVE ServerKnows(e)'
  BY <1>c, <1>5
<1> QED BY <1>1, <1>2, <1>3, <1>4, <1>5
        DEF Next, Editor, Progress, DidClose, CloseRejected, TimerFires, CloseFlushes,
            FlushStart, FlushAgain, FlushSettles, Abort, Disposed, docVars, openVars, vars

\* The server hears of the texts of a document in the order of the edits, and of no change
\* before the didOpen, however long the write that the didOpen waits for takes.
THEOREM ServerHearsInOrder == Spec => ServerInOrder
<1>1. Init => OpenWaits /\ ServerFollows
  <2> SUFFICES ASSUME Init PROVE OpenWaits /\ ServerFollows
    OBVIOUS
  <2>1. \A d \in Docs : /\ openLeft[d] = 0 /\ held[d] = <<>> /\ server[d] = 0
                        /\ edits[d] = 0 /\ open[d] = "none"
    BY DEF Init
  <2> QED BY <2>1 DEF OpenWaits, ServerFollows, ServerKnows
<1>2. Inv /\ OpenWaits /\ ServerFollows /\ [Next]_vars => OpenWaits' /\ ServerFollows'
  BY NextOpenWaits, NextServerFollows
<1>3. Inv /\ OpenWaits /\ ServerFollows /\ [Next]_vars =>
        [\A d \in Docs :
           server'[d] # server[d] /\ mode # "aborted" =>
             /\ server'[d] > server[d]
             /\ server[d] = 0 => server'[d] = 1 \/ open[d] = "rejected"]_vars
  <2> SUFFICES ASSUME Inv, OpenWaits, ServerFollows, [Next]_vars, NEW d \in Docs,
                      server'[d] # server[d], mode # "aborted"
               PROVE  /\ server'[d] > server[d]
                      /\ server[d] = 0 => server'[d] = 1 \/ open[d] = "rejected"
    OBVIOUS
  <2>a. /\ ServerKnows(d) /\ held[d] \in Seq(Text) /\ edits[d] \in Nat
        /\ server[d] \in Nat /\ server[d] <= edits[d]
    BY SyncAssumption DEF ServerFollows, ServerKnows, Inv, TypeOK, TextOrNone
  <2>1. ASSUME NEW e \in Docs, DidChange(e)
        PROVE  /\ server'[d] > server[d]
               /\ server[d] = 0 => server'[d] = 1 \/ open[d] = "rejected"
    <3>1. /\ e = d /\ ~OpenInFlight(d) /\ server'[d] = edits[d] + 1 /\ open[d] # "none"
      BY <2>1 DEF DidChange, Inv, TypeOK
    <3>2. open[d] \in {"done", "rejected"}
      BY <3>1 DEF OpenInFlight, Inv, TypeOK, OpenSteps
    <3> QED BY <2>a, <3>1, <3>2 DEF ServerKnows
  <2>2. ASSUME NEW e \in Docs, DidOpenForwarded(e)
        PROVE  /\ server'[d] > server[d]
               /\ server[d] = 0 => server'[d] = 1 \/ open[d] = "rejected"
    <3>1. /\ e = d /\ open[d] = "forwarding" /\ held[d] # <<>>
          /\ server'[d] = held[d][Len(held[d])]
      BY <2>2 DEF DidOpenForwarded, Inv, TypeOK
    <3>2. server[d] = 1 /\ held[d][Len(held[d])] \in 2..edits[d]
      BY <2>a, <3>1 DEF ServerKnows
    <3> QED BY <2>a, <3>1, <3>2
  <2>3. ASSUME NEW e \in Docs, NEW ok \in BOOLEAN, WriteSettles(e, ok)
        PROVE  /\ server'[d] > server[d]
               /\ server[d] = 0 => server'[d] = 1 \/ open[d] = "rejected"
    <3>1. e = d /\ openLeft[d] = 1 /\ server'[d] = 1
      BY <2>3 DEF WriteSettles, Inv, TypeOK
    <3>2. server[d] = 0
      BY <2>a, <3>1 DEF OpenWaits, ServerKnows
    <3> QED BY <3>1, <3>2
  <2>4. ASSUME UNCHANGED server PROVE FALSE
    BY <2>4
  <2> QED BY <2>1, <2>2, <2>3, <2>4
          DEF Next, Editor, Progress, DidOpen, DidClose, CloseRejected, TimerFires,
              CloseFlushes, FlushStart, FlushAgain, FlushSettles, Abort, Disposed, vars
<1> QED BY <1>1, <1>2, <1>3, Invariance, PTL DEF Spec, ServerInOrder

=============================================================================
