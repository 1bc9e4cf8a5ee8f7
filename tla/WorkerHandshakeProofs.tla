------------------------ MODULE WorkerHandshakeProofs ------------------------
(***************************************************************************)
(* Proofs about WorkerHandshake: type correctness, the inductive invariant *)
(* Inv, and the safety properties that follow from it, for every fault set.*)
(***************************************************************************)
EXTENDS WorkerHandshake, SequenceTheorems, TLAPS

-----------------------------------------------------------------------------
(* Queues.                                                                  *)

\* What appending to a queue does to the messages in it.
LEMMA AppendIn ==
  ASSUME NEW S, NEW q \in Seq(S), NEW x \in S
  PROVE  /\ Append(q, x) \in Seq(S)
         /\ \A m : In(m, Append(q, x)) <=> In(m, q) \/ m = x
         /\ \A m : Once(m, q) /\ (m = x => ~In(m, q)) => Once(m, Append(q, x))
BY DEF In, Once

\* What taking the head of a queue does to the messages in it.
LEMMA TailIn ==
  ASSUME NEW S, NEW q \in Seq(S), q # <<>>
  PROVE  /\ Tail(q) \in Seq(S)
         /\ Head(q) \in S
         /\ In(Head(q), q)
         /\ \A m : In(m, Tail(q)) => In(m, q)
         /\ \A m : Once(m, q) => Once(m, Tail(q))
         /\ Once(Head(q), q) => ~In(Head(q), Tail(q))
<1>1. Tail(q) \in Seq(S) /\ Head(q) \in S /\ Len(q) \in Nat \ {0}
  OBVIOUS
<1>2. Len(Tail(q)) = Len(q) - 1 /\ Head(q) = q[1]
  OBVIOUS
<1>3. \A i \in 1..Len(Tail(q)) : Tail(q)[i] = q[i + 1] /\ i + 1 \in 1..Len(q)
  BY <1>1, <1>2
<1>4. In(Head(q), q)
  BY <1>1, <1>2 DEF In
<1>5. \A m : In(m, Tail(q)) => In(m, q)
  BY <1>3 DEF In
<1>6. \A m : Once(m, q) => Once(m, Tail(q))
  <2> TAKE m
  <2> SUFFICES ASSUME Once(m, q),
                      NEW i \in 1..Len(Tail(q)), NEW j \in 1..Len(Tail(q)),
                      Tail(q)[i] = m, Tail(q)[j] = m
               PROVE  i = j
    BY DEF Once
  <2>1. i + 1 = j + 1
    BY <1>3 DEF Once
  <2> QED BY <1>1, <1>2, <2>1
<1>7. Once(Head(q), q) => ~In(Head(q), Tail(q))
  <2> SUFFICES ASSUME Once(Head(q), q),
                      NEW i \in 1..Len(Tail(q)), Tail(q)[i] = Head(q)
               PROVE  FALSE
    BY DEF In
  <2>1. i + 1 \in 1..Len(q) /\ q[i + 1] = q[1] /\ 1 \in 1..Len(q)
    BY <1>1, <1>2, <1>3
  <2>2. i + 1 = 1
    BY <1>2, <2>1 DEF Once
  <2> QED BY <1>1, <1>2, <2>2
<1> QED BY <1>1, <1>4, <1>5, <1>6, <1>7

-----------------------------------------------------------------------------
(* The handlers of the main thread.                                         *)

\* The flags that only their own handler sets.
Tracked == {"initialized", "destroyerReceived", "adopted", "adoptionFailure"}

Keeps(m, n) == /\ n \in Main
               /\ \A f \in Tracked : Has(n, f) <=> Has(m, f)

Closed(m) == Has(m, "terminal") <=> m.disposal # "pending"

\* Setting a flag keeps the record well formed and disturbs no other flag.
LEMMA SetFlag ==
  ASSUME NEW m \in Main, NEW f \in MainFlags
  PROVE  /\ Set(m, f) \in Main
         /\ \A g : Has(Set(m, f), g) <=> Has(m, g) \/ g = f
         /\ Set(m, f).startup = m.startup
         /\ Set(m, f).disposal = m.disposal
BY DEF Set, Has, Main

\* The three functions that settle a promise touch no flag.
LEMMA SettleKeeps ==
  ASSUME NEW m \in Main
  PROVE  /\ RejectStartup(m) \in Main
         /\ RejectStartup(m).flags = m.flags
         /\ RejectStartup(m).disposal = m.disposal
         /\ ResolveDisposal(m) \in Main
         /\ ResolveDisposal(m).flags = m.flags
         /\ ResolveDisposal(m).disposal # "pending"
         /\ RejectDisposal(m) \in Main
         /\ RejectDisposal(m).flags = m.flags
         /\ RejectDisposal(m).disposal # "pending"
         /\ m.disposal = "pending" => RejectDisposal(m).disposal = "rejected"
BY DEF RejectStartup, ResolveDisposal, RejectDisposal, Settle, Main, Promise

\* captureFailure keeps the tracked flags and leaves the disposal promise alone.
LEMMA CaptureKeeps ==
  ASSUME NEW m \in Main
  PROVE  /\ Keeps(m, CaptureFailure(m))
         /\ CaptureFailure(m).disposal = m.disposal
         /\ Has(CaptureFailure(m), "failure")
         /\ Has(CaptureFailure(m), "terminal") <=> Has(m, "terminal")
<1>1. "failure" \in MainFlags /\ "reported" \in MainFlags
  BY DEF MainFlags
<1>2. /\ Set(m, "failure") \in Main
      /\ Set(Set(m, "failure"), "reported") \in Main
  BY <1>1, SetFlag
<1> QED BY <1>1, <1>2, SetFlag DEF CaptureFailure, Keeps, Tracked

\* completeDisposal resolves the disposal promise only if nothing failed.
LEMMA CompleteDisposalKeeps ==
  ASSUME NEW m \in Main, m.disposal = "pending"
  PROVE  /\ Keeps(m, CompleteDisposal(m)) /\ Closed(CompleteDisposal(m))
         /\ CompleteDisposal(m).disposal = "resolved" => ~Has(m, "failure")
<1>1. /\ Terminate(m) \in Main /\ Terminate(m).disposal = "pending"
      /\ \A g : Has(Terminate(m), g) <=> Has(m, g) \/ g = "terminal"
  BY SetFlag DEF Terminate, MainFlags
<1> DEFINE t == Terminate(m)
           r == RejectStartup(t)
<1>2. r \in Main /\ r.flags = t.flags
  BY <1>1, SettleKeeps
<1> QED BY <1>1, <1>2, SettleKeeps
        DEF CompleteDisposal, Keeps, Closed, Tracked, Has

\* failImmediately always rejects the disposal promise.
LEMMA FailImmediatelyKeeps ==
  ASSUME NEW m \in Main, m.disposal = "pending"
  PROVE  /\ Keeps(m, FailImmediately(m)) /\ Closed(FailImmediately(m))
         /\ FailImmediately(m).disposal = "rejected"
<1> DEFINE c == CaptureFailure(m)
           r == RejectStartup(c)
           t == Terminate(r)
<1>1. /\ c \in Main /\ c.disposal = "pending"
      /\ \A f \in Tracked : Has(c, f) <=> Has(m, f)
  BY CaptureKeeps DEF Keeps
<1>2. r \in Main /\ r.flags = c.flags /\ r.disposal = "pending"
  BY <1>1, SettleKeeps
<1>3. /\ t \in Main /\ t.disposal = "pending" /\ Has(t, "terminal")
      /\ \A f \in Tracked : Has(t, f) <=> Has(r, f)
  BY <1>2, SetFlag DEF Terminate, MainFlags, Tracked
<1>4. FailImmediately(m) = RejectDisposal(t)
  BY DEF FailImmediately
<1> QED BY <1>1, <1>2, <1>3, <1>4, SettleKeeps DEF Keeps, Closed, Has

\* So does the handler of a failed adoption.
LEMMA FailAdoptionKeeps ==
  ASSUME NEW m \in Main, m.disposal = "pending"
  PROVE  /\ Keeps(m, FailAdoption(m)) /\ Closed(FailAdoption(m))
         /\ FailAdoption(m).disposal = "rejected"
<1> DEFINE c == Set(m, "failure")
           r == RejectStartup(c)
           t == Terminate(r)
<1>1. /\ c \in Main /\ c.disposal = "pending"
      /\ \A f \in Tracked : Has(c, f) <=> Has(m, f)
  BY SetFlag DEF MainFlags, Tracked
<1>2. r \in Main /\ r.flags = c.flags /\ r.disposal = "pending"
  BY <1>1, SettleKeeps
<1>3. /\ t \in Main /\ t.disposal = "pending" /\ Has(t, "terminal")
      /\ \A f \in Tracked : Has(t, f) <=> Has(r, f)
  BY <1>2, SetFlag DEF Terminate, MainFlags, Tracked
<1>4. FailAdoption(m) = RejectDisposal(t)
  BY DEF FailAdoption
<1> QED BY <1>1, <1>2, <1>3, <1>4, SettleKeeps DEF Keeps, Closed, Has

\* What requestDestroy may change: the destroy flag and the lifecycle queue.
LEMMA RequestDestroyKeeps ==
  ASSUME NEW m \in Main, m.disposal = "pending", ~Has(m, "terminal"),
         toL \in Seq(ToLifecycle), RequestDestroy(m)
  PROVE  /\ Keeps(m, main') /\ Closed(main') /\ main'.disposal = "pending"
         /\ toL' = toL \/ toL' = Append(toL, "destroy")
<1>1. "destroySent" \in MainFlags
  BY DEF MainFlags
<1> QED BY <1>1, SetFlag DEF RequestDestroy, Keeps, Closed, Tracked

\* What beginFailureDisposal may change: it never resolves the disposal promise.
LEMMA BeginFailureKeeps ==
  ASSUME NEW m \in Main, m.disposal = "pending", ~Has(m, "terminal"),
         toL \in Seq(ToLifecycle), BeginFailureDisposal(m)
  PROVE  /\ Keeps(m, main') /\ Closed(main') /\ main'.disposal # "resolved"
         /\ toL' = toL \/ toL' = Append(toL, "destroy")
<1> DEFINE c == CaptureFailure(m)
           r == RejectStartup(c)
           f == Set(r, "disposeRequested")
<1>1. /\ c \in Main /\ c.disposal = "pending" /\ ~Has(c, "terminal")
      /\ \A g \in Tracked : Has(c, g) <=> Has(m, g)
  BY CaptureKeeps DEF Keeps
<1>2. /\ r \in Main /\ r.flags = c.flags /\ r.disposal = "pending"
  BY <1>1, SettleKeeps
<1>3. /\ f \in Main /\ f.disposal = "pending" /\ ~Has(f, "terminal")
      /\ \A g \in Tracked : Has(f, g) <=> Has(m, g)
  BY <1>1, <1>2, SetFlag DEF MainFlags, Tracked, Has
<1>4. CASE Has(f, "destroyerReceived")
  <2>1. RequestDestroy(f)
    BY <1>4 DEF BeginFailureDisposal
  <2> HIDE DEF f
  <2> QED BY <1>3, <2>1, RequestDestroyKeeps DEF Keeps
<1>5. CASE ~Has(f, "destroyerReceived")
  <2>1. main' = FailImmediately(f) /\ toL' = toL
    BY <1>5 DEF BeginFailureDisposal
  <2> HIDE DEF f
  <2> QED BY <1>3, <2>1, FailImmediatelyKeeps DEF Keeps
<1> QED BY <1>4, <1>5

-----------------------------------------------------------------------------
(* The invariant is inductive.                                              *)

Parts == /\ AdoptionPlaces /\ Construction /\ Adoption /\ Destruction
         /\ Closed(main) /\ SoundDisposal

\* Inv, with its last conjunct under the name the lemmas above use.
LEMMA InvParts == Inv <=> TypeOK /\ Parts
BY DEF Inv, Parts, Closed

\* The initial state: empty queues and no flag.
LEMMA InitInv == Init => Inv
<1> SUFFICES ASSUME Init PROVE Inv
  OBVIOUS
<1>1. TypeOK
  <2>1. \A S : <<>> \in Seq(S)
    OBVIOUS
  <2>2. main \in Main
    BY DEF Init, Main, Promise
  <2> QED BY <2>1, <2>2 DEF Init, TypeOK, UtilPcs, LifePcs, Animals
<1>2. /\ \A m : /\ ~In(m, fromU) /\ ~In(m, toU) /\ ~In(m, fromL) /\ ~In(m, toL)
      /\ \A m : /\ Once(m, fromU) /\ Once(m, toU)
                /\ Once(m, fromL) /\ Once(m, toL)
  BY DEF Init, In, Once
<1>3. \A f : ~Has(main, f)
  BY DEF Init, Has
<1> QED BY <1>1, <1>2, <1>3
        DEF Inv, Init, AdoptionPlaces, AdoptionInFlight, Construction, Adoption,
            Destruction, SoundDisposal

\* A step of the main thread that takes one message of the utility worker.
LEMMA MainFromUtility ==
  ASSUME Inv, NEW message \in FromUtility, FromU(message)
  PROVE  /\ main.disposal = "pending" /\ ~Has(main, "terminal") /\ main \in Main
         /\ fromU' \in Seq(FromUtility)
         /\ In(message, fromU)
         /\ \A m : In(m, fromU') => In(m, fromU)
         /\ \A m : Once(m, fromU) => Once(m, fromU')
         /\ Once(message, fromU) => ~In(message, fromU')
BY TailIn DEF FromU, Inv, TypeOK

\* A step of the main thread that takes one message of the lifecycle worker.
LEMMA MainFromLifecycle ==
  ASSUME Inv, NEW message \in FromLifecycle, FromL(message)
  PROVE  /\ main.disposal = "pending" /\ ~Has(main, "terminal") /\ main \in Main
         /\ fromL' \in Seq(FromLifecycle)
         /\ In(message, fromL)
         /\ \A m : In(m, fromL') => In(m, fromL)
         /\ \A m : Once(m, fromL) => Once(m, fromL')
         /\ Once(message, fromL) => ~In(message, fromL')
BY TailIn DEF FromL, Inv, TypeOK

\* A "destroy" in the lifecycle queue disturbs no part of the invariant.
LEMMA DestroyQueued ==
  ASSUME TypeOK, toL' = toL \/ toL' = Append(toL, "destroy")
  PROVE  /\ toL' \in Seq(ToLifecycle)
         /\ In("adopt", toL') <=> In("adopt", toL)
         /\ Once("adopt", toL) => Once("adopt", toL')
<1>1. toL \in Seq(ToLifecycle) /\ "destroy" \in ToLifecycle /\ "destroy" # "adopt"
  BY DEF TypeOK, ToLifecycle
<1>2. CASE toL' = toL
  BY <1>1, <1>2
<1>3. CASE toL' = Append(toL, "destroy")
  BY <1>1, <1>3, AppendIn
<1> QED BY <1>2, <1>3

LEMMA MainUtilityFatalInv == ASSUME Inv, MainUtilityFatal PROVE Inv'
<1>1. FromU("fatal") /\ "fatal" \in FromUtility
  BY DEF MainUtilityFatal, FromUtility
<1>2. /\ main.disposal = "pending" /\ ~Has(main, "terminal") /\ main \in Main
      /\ fromU' \in Seq(FromUtility)
      /\ In("fatal", fromU)
      /\ \A m : In(m, fromU') => In(m, fromU)
      /\ \A m : Once(m, fromU) => Once(m, fromU')
  BY <1>1, MainFromUtility
<1>3. /\ Keeps(main, main') /\ Closed(main')
      /\ toL' = toL \/ toL' = Append(toL, "destroy")
      /\ main'.disposal = "resolved" =>
           ~Has(main, "adopted") /\ ~Has(main, "adoptionFailure")
  <2>1. CASE Has(main, "adoptionFailure")
    BY <1>2, <2>1, FailAdoptionKeeps DEF MainUtilityFatal
  <2>2. CASE /\ ~Has(main, "adoptionFailure")
             /\ Has(main, "disposeRequested") /\ ~Has(main, "failure")
    <3> DEFINE r == RejectStartup(main)
               t == Terminate(r)
    <3>1. r \in Main /\ r.flags = main.flags /\ r.disposal = "pending"
      BY <1>2, SettleKeeps
    <3>2. /\ t \in Main /\ Has(t, "terminal")
          /\ \A f \in Tracked : Has(t, f) <=> Has(r, f)
      BY <3>1, SetFlag DEF Terminate, MainFlags, Tracked
    <3>3. main' = (IF Has(main, "adopted") THEN r ELSE ResolveDisposal(t))
          /\ toL' = toL
      BY <2>2 DEF MainUtilityFatal
    <3> QED BY <1>2, <2>2, <3>1, <3>2, <3>3, SettleKeeps DEF Keeps, Closed, Has
  <2>3. CASE /\ ~Has(main, "adoptionFailure")
             /\ ~(Has(main, "disposeRequested") /\ ~Has(main, "failure"))
    BY <1>2, <2>3, BeginFailureKeeps DEF MainUtilityFatal, Inv, TypeOK
  <2> QED BY <2>1, <2>2, <2>3
<1>4. /\ UNCHANGED <<utilPc, cancelled, life, animal, toU, fromL>>
  BY <1>1 DEF FromU, utilVars
<1>5. TypeOK'
  BY <1>2, <1>3, <1>4, DestroyQueued DEF Inv, TypeOK, Keeps
<1>6. Parts'
  BY <1>2, <1>3, <1>4, DestroyQueued
     DEF Inv, Parts, Keeps, Tracked, AdoptionPlaces, AdoptionInFlight,
         Construction, Adoption, Destruction, SoundDisposal
<1> QED BY <1>5, <1>6 DEF Inv, Parts, Closed

LEMMA MainCancelledInv == ASSUME Inv, MainCancelled PROVE Inv'
<1>1. FromU("cancelled") /\ "cancelled" \in FromUtility
  BY DEF MainCancelled, FromUtility
<1>2. /\ main.disposal = "pending" /\ ~Has(main, "terminal") /\ main \in Main
      /\ fromU' \in Seq(FromUtility)
      /\ In("cancelled", fromU)
      /\ \A m : In(m, fromU') => In(m, fromU)
      /\ \A m : Once(m, fromU) => Once(m, fromU')
      /\ Once("cancelled", fromU) => ~In("cancelled", fromU')
  BY <1>1, MainFromUtility
<1>3. Keeps(main, main') /\ Closed(main') /\ toL' = toL
  BY <1>2, FailImmediatelyKeeps, CompleteDisposalKeeps DEF MainCancelled
<1>4. UNCHANGED <<utilPc, cancelled, life, animal, toU, fromL>>
  BY <1>1 DEF FromU, utilVars
<1>5. TypeOK'
  BY <1>2, <1>3, <1>4, DestroyQueued DEF Inv, TypeOK, Keeps
<1>6. Parts'
  BY <1>2, <1>3, <1>4, DestroyQueued
     DEF Inv, Parts, Keeps, Tracked, AdoptionPlaces, AdoptionInFlight,
         Construction, Adoption, Destruction, SoundDisposal
<1> QED BY <1>5, <1>6 DEF Inv, Parts, Closed

LEMMA MainReadyInv == ASSUME Inv, MainReady PROVE Inv'
<1>1. FromU("ready") /\ "ready" \in FromUtility
  BY DEF MainReady, FromUtility
<1>2. /\ main.disposal = "pending" /\ ~Has(main, "terminal") /\ main \in Main
      /\ fromU' \in Seq(FromUtility)
      /\ In("ready", fromU)
      /\ \A m : In(m, fromU') => In(m, fromU)
      /\ \A m : Once(m, fromU) => Once(m, fromU')
      /\ Once("ready", fromU) => ~In("ready", fromU')
  BY <1>1, MainFromUtility
<1>3. /\ Keeps(main, main') /\ Closed(main') /\ main'.disposal # "resolved"
      /\ toL' = toL \/ toL' = Append(toL, "destroy")
  <2>1. CASE Has(main, "disposeRequested")
    BY <1>2, <2>1 DEF MainReady, Keeps, Closed
  <2>2. CASE /\ ~Has(main, "disposeRequested")
             /\ ~Has(main, "adopted") \/ Has(main, "ready")
    BY <1>2, <2>2, BeginFailureKeeps DEF MainReady, Inv, TypeOK
  <2>3. CASE /\ ~Has(main, "disposeRequested")
             /\ ~(~Has(main, "adopted") \/ Has(main, "ready"))
    <3> DEFINE r == Set(main, "ready")
    <3>1. /\ r \in Main /\ r.disposal = "pending"
          /\ \A g : Has(r, g) <=> Has(main, g) \/ g = "ready"
      BY <1>2, SetFlag DEF MainFlags
    <3>2. /\ main' = [r EXCEPT !.startup = Settle(@, "resolved")]
          /\ toL' = toL
      BY <2>3 DEF MainReady
    <3> HIDE DEF r
    <3>3. main' \in Main /\ main'.flags = r.flags /\ main'.disposal = r.disposal
      BY <3>1, <3>2 DEF Main, Promise, Settle
    <3> QED BY <1>2, <3>1, <3>2, <3>3 DEF Keeps, Closed, Has, Tracked
  <2> QED BY <2>1, <2>2, <2>3
<1>4. UNCHANGED <<utilPc, cancelled, life, animal, toU, fromL>>
  BY <1>1 DEF FromU, utilVars
<1>5. TypeOK'
  BY <1>2, <1>3, <1>4, DestroyQueued DEF Inv, TypeOK, Keeps
<1>6. Parts'
  BY <1>2, <1>3, <1>4, DestroyQueued
     DEF Inv, Parts, Keeps, Tracked, AdoptionPlaces, AdoptionInFlight,
         Construction, Adoption, Destruction, SoundDisposal
<1> QED BY <1>5, <1>6 DEF Inv, Parts, Closed

LEMMA MainDestroyerInv == ASSUME Inv, MainDestroyer PROVE Inv'
<1>1. FromU("destroyer") /\ "destroyer" \in FromUtility
  BY DEF MainDestroyer, FromUtility
<1>2. /\ main.disposal = "pending" /\ ~Has(main, "terminal") /\ main \in Main
      /\ fromU' \in Seq(FromUtility)
      /\ In("destroyer", fromU)
      /\ \A m : In(m, fromU') => In(m, fromU)
      /\ \A m : Once(m, fromU) => Once(m, fromU')
      /\ Once("destroyer", fromU) => ~In("destroyer", fromU')
  BY <1>1, MainFromUtility
<1>3. /\ main' = Set(main, "destroyerReceived")
      /\ toL' = Append(toL, "adopt")
  BY <1>2 DEF MainDestroyer, Inv, AdoptionPlaces
<1>4. UNCHANGED <<utilPc, cancelled, life, animal, toU, fromL>>
  BY <1>1 DEF FromU, utilVars
<1>7. /\ main' \in Main /\ main'.disposal = "pending"
      /\ \A g : Has(main', g) <=> Has(main, g) \/ g = "destroyerReceived"
  BY <1>2, <1>3, SetFlag DEF MainFlags
<1>8. /\ toL' \in Seq(ToLifecycle)
      /\ \A m : In(m, toL') <=> In(m, toL) \/ m = "adopt"
      /\ \A m : Once(m, toL) /\ (m = "adopt" => ~In(m, toL)) => Once(m, toL')
  BY <1>3, AppendIn DEF Inv, TypeOK, ToLifecycle
<1>5. TypeOK'
  BY <1>2, <1>4, <1>7, <1>8 DEF Inv, TypeOK
<1>6. Parts'
  BY <1>2, <1>4, <1>7, <1>8
     DEF Inv, Parts, Closed, AdoptionPlaces, AdoptionInFlight,
         Construction, Adoption, Destruction, SoundDisposal
<1> QED BY <1>5, <1>6 DEF Inv, Parts, Closed

LEMMA MainDestroyedInv == ASSUME Inv, MainDestroyed PROVE Inv'
<1>1. FromL("destroyed") /\ "destroyed" \in FromLifecycle
  BY DEF MainDestroyed, FromLifecycle
<1>2. /\ main.disposal = "pending" /\ ~Has(main, "terminal") /\ main \in Main
      /\ fromL' \in Seq(FromLifecycle)
      /\ In("destroyed", fromL)
      /\ \A m : In(m, fromL') => In(m, fromL)
      /\ \A m : Once(m, fromL) => Once(m, fromL')
      /\ Once("destroyed", fromL) => ~In("destroyed", fromL')
  BY <1>1, MainFromLifecycle
<1>4. UNCHANGED <<utilPc, cancelled, life, animal, fromU>>
  BY <1>1 DEF FromL, utilVars
<1>3. Keeps(main, main') /\ Closed(main') /\ UNCHANGED <<toU, toL>>
  BY <1>2, CompleteDisposalKeeps DEF MainDestroyed
<1>5. TypeOK'
  BY <1>2, <1>3, <1>4 DEF Inv, TypeOK, Keeps
<1>6. Parts'
  BY <1>2, <1>3, <1>4
     DEF Inv, Parts, Keeps, Tracked, AdoptionPlaces, AdoptionInFlight,
         Construction, Adoption, Destruction, SoundDisposal
<1> QED BY <1>5, <1>6 DEF Inv, Parts, Closed

LEMMA MainDestroyFailedInv == ASSUME Inv, MainDestroyFailed PROVE Inv'
<1>1. FromL("fatalWithToken") /\ "fatalWithToken" \in FromLifecycle
  BY DEF MainDestroyFailed, FromLifecycle
<1>2. /\ main.disposal = "pending" /\ ~Has(main, "terminal") /\ main \in Main
      /\ fromL' \in Seq(FromLifecycle)
      /\ In("fatalWithToken", fromL)
      /\ \A m : In(m, fromL') => In(m, fromL)
      /\ \A m : Once(m, fromL) => Once(m, fromL')
      /\ Once("fatalWithToken", fromL) => ~In("fatalWithToken", fromL')
  BY <1>1, MainFromLifecycle
<1>4. UNCHANGED <<utilPc, cancelled, life, animal, fromU>>
  BY <1>1 DEF FromL, utilVars
<1>3. /\ Keeps(main, main') /\ Closed(main') /\ UNCHANGED <<toU, toL>>
      /\ main'.disposal # "resolved"
  <2> DEFINE f == Set(main, "failure")
  <2>1. /\ f \in Main /\ f.disposal = "pending"
        /\ \A g : Has(f, g) <=> Has(main, g) \/ g = "failure"
    BY <1>2, SetFlag DEF MainFlags
  <2>2. main' = CompleteDisposal(f) /\ UNCHANGED <<toU, toL>>
    BY DEF MainDestroyFailed
  <2> HIDE DEF f
  <2> QED BY <2>1, <2>2, CompleteDisposalKeeps DEF Keeps, Tracked
<1>5. TypeOK'
  BY <1>2, <1>3, <1>4 DEF Inv, TypeOK, Keeps
<1>6. Parts'
  BY <1>2, <1>3, <1>4
     DEF Inv, Parts, Keeps, Tracked, AdoptionPlaces, AdoptionInFlight,
         Construction, Adoption, Destruction, SoundDisposal
<1> QED BY <1>5, <1>6 DEF Inv, Parts, Closed

LEMMA MainLifecycleFatalInv == ASSUME Inv, MainLifecycleFatal PROVE Inv'
<1>1. FromL("fatal") /\ "fatal" \in FromLifecycle
  BY DEF MainLifecycleFatal, FromLifecycle
<1>2. /\ main.disposal = "pending" /\ ~Has(main, "terminal") /\ main \in Main
      /\ fromL' \in Seq(FromLifecycle)
      /\ In("fatal", fromL)
      /\ \A m : In(m, fromL') => In(m, fromL)
      /\ \A m : Once(m, fromL) => Once(m, fromL')
      /\ Once("fatal", fromL) => ~In("fatal", fromL')
  BY <1>1, MainFromLifecycle
<1>4. UNCHANGED <<utilPc, cancelled, life, animal, fromU>>
  BY <1>1 DEF FromL, utilVars
<1>3. CASE Has(main, "ready")
  <2>1. /\ Keeps(main, main') /\ Closed(main') /\ main'.disposal # "resolved"
        /\ toL' = toL \/ toL' = Append(toL, "destroy")
        /\ toU' = toU
    BY <1>2, <1>3, BeginFailureKeeps DEF MainLifecycleFatal, Inv, TypeOK
  <2>5. TypeOK'
    BY <1>2, <1>4, <2>1, DestroyQueued DEF Inv, TypeOK, Keeps
  <2>6. Parts'
    BY <1>2, <1>4, <2>1, DestroyQueued
       DEF Inv, Parts, Keeps, Tracked, AdoptionPlaces, AdoptionInFlight,
         Construction, Adoption, Destruction, SoundDisposal
  <2> QED BY <2>5, <2>6 DEF Inv, Parts, Closed
<1>7. CASE ~Has(main, "ready")
  <2> DEFINE a == Set(main, "adoptionFailure")
  <2>1. /\ a \in Main /\ a.disposal = "pending"
        /\ \A g : Has(a, g) <=> Has(main, g) \/ g = "adoptionFailure"
    BY <1>2, SetFlag DEF MainFlags
  <2>2. /\ main' = RejectStartup(a) /\ toL' = toL
        /\ toU' = Append(toU, "adoptionFailed")
    BY <1>7 DEF MainLifecycleFatal
  <2> HIDE DEF a
  <2>3. main' \in Main /\ main'.flags = a.flags /\ main'.disposal = "pending"
    BY <2>1, <2>2, SettleKeeps
  <2>4. \A g : Has(main', g) <=> Has(main, g) \/ g = "adoptionFailure"
    BY <2>1, <2>3 DEF Has
  <2>7. /\ toU' \in Seq(ToUtility)
        /\ \A m : In(m, toU') <=> In(m, toU) \/ m = "adoptionFailed"
        /\ \A m : /\ Once(m, toU)
                  /\ m = "adoptionFailed" => ~In(m, toU)
                  => Once(m, toU')
    BY <2>2, AppendIn DEF Inv, TypeOK, ToUtility
  <2>5. TypeOK'
    BY <1>2, <1>4, <2>2, <2>3, <2>7 DEF Inv, TypeOK
  <2>6. Parts'
    BY <1>2, <1>4, <2>2, <2>3, <2>4, <2>7
       DEF Inv, Parts, Closed, AdoptionPlaces, AdoptionInFlight,
           Construction, Adoption, Destruction, SoundDisposal
  <2> QED BY <2>5, <2>6 DEF Inv, Parts, Closed
<1> QED BY <1>3, <1>7

LEMMA MainAdoptedInv == ASSUME Inv, MainAdopted PROVE Inv'
<1>1. FromL("adopted") /\ "adopted" \in FromLifecycle
  BY DEF MainAdopted, FromLifecycle
<1>2. /\ main.disposal = "pending" /\ ~Has(main, "terminal") /\ main \in Main
      /\ fromL' \in Seq(FromLifecycle)
      /\ In("adopted", fromL)
      /\ \A m : In(m, fromL') => In(m, fromL)
      /\ \A m : Once(m, fromL) => Once(m, fromL')
      /\ Once("adopted", fromL) => ~In("adopted", fromL')
  BY <1>1, MainFromLifecycle
<1>4. UNCHANGED <<utilPc, cancelled, life, animal, fromU>>
  BY <1>1 DEF FromL, utilVars
<1>3. CASE ~Has(main, "destroyerReceived") \/ Has(main, "adopted")
  <2>1. /\ Keeps(main, main') /\ Closed(main') /\ main'.disposal # "resolved"
        /\ UNCHANGED <<toU, toL>>
    BY <1>2, <1>3, FailImmediatelyKeeps DEF MainAdopted
  <2>5. TypeOK'
    BY <1>2, <1>4, <2>1 DEF Inv, TypeOK, Keeps
  <2>6. Parts'
    BY <1>2, <1>4, <2>1
       DEF Inv, Parts, Keeps, Tracked, AdoptionPlaces, AdoptionInFlight,
         Construction, Adoption, Destruction, SoundDisposal
  <2> QED BY <2>5, <2>6 DEF Inv, Parts, Closed
<1>7. CASE ~(~Has(main, "destroyerReceived") \/ Has(main, "adopted"))
  <2> DEFINE a == Set(main, "adopted")
  <2>1. /\ a \in Main /\ a.disposal = "pending"
        /\ \A g : Has(a, g) <=> Has(main, g) \/ g = "adopted"
    BY <1>2, SetFlag DEF MainFlags
  <2>2. \/ RequestDestroy(a) /\ toU' = toU
        \/ main' = a /\ toU' = Append(toU, "adopted") /\ toL' = toL
    BY <1>7 DEF MainAdopted
  <2> HIDE DEF a
  <2>3. /\ Keeps(a, main') /\ Closed(main') /\ main'.disposal = "pending"
        /\ toL' = toL \/ toL' = Append(toL, "destroy")
    BY <1>2, <2>1, <2>2, RequestDestroyKeeps DEF Keeps, Closed, Inv, TypeOK
  <2>4. \A g \in Tracked : Has(main', g) <=> Has(main, g) \/ g = "adopted"
    BY <2>1, <2>3 DEF Keeps
  <2>7. /\ toU' \in Seq(ToUtility)
        /\ \A m : In(m, toU') => In(m, toU) \/ m = "adopted"
        /\ \A m : m # "adopted" /\ Once(m, toU) => Once(m, toU')
    <3>1. CASE toU' = toU
      BY <3>1 DEF Inv, TypeOK
    <3>2. CASE toU' = Append(toU, "adopted")
      BY <3>2, AppendIn DEF Inv, TypeOK, ToUtility
    <3> QED BY <2>2, <3>1, <3>2
  <2>5. TypeOK'
    BY <1>2, <1>4, <2>3, <2>7, DestroyQueued DEF Inv, TypeOK, Keeps
  <2>6. Parts'
    BY <1>2, <1>4, <2>3, <2>4, <2>7, DestroyQueued
       DEF Inv, Parts, Closed, Tracked, AdoptionPlaces, AdoptionInFlight,
           Construction, Adoption, Destruction, SoundDisposal
  <2> QED BY <2>5, <2>6 DEF Inv, Parts, Closed
<1> QED BY <1>3, <1>7

LEMMA MainInitializeInv == ASSUME Inv, MainInitialize PROVE Inv'
<1>1. /\ main \in Main /\ main' = Set(main, "initialized")
      /\ toU' = Append(toU, "initialize")
      /\ UNCHANGED <<utilPc, cancelled, life, animal, fromU, toL, fromL>>
  BY DEF MainInitialize, utilVars, Inv, TypeOK
<1>2. /\ main' \in Main /\ main'.disposal = main.disposal
      /\ \A g : Has(main', g) <=> Has(main, g) \/ g = "initialized"
  BY <1>1, SetFlag DEF MainFlags
<1>3. /\ toU' \in Seq(ToUtility)
      /\ \A m : In(m, toU') <=> In(m, toU) \/ m = "initialize"
      /\ \A m : m # "initialize" /\ Once(m, toU) => Once(m, toU')
  BY <1>1, AppendIn, SMTT(30) DEF Inv, TypeOK, ToUtility
<1>5. TypeOK'
  BY <1>1, <1>2, <1>3 DEF Inv, TypeOK
<1>6. Parts'
  BY <1>1, <1>2, <1>3
     DEF Inv, Parts, Closed, Keeps, Tracked, AdoptionPlaces, AdoptionInFlight,
         Construction, Adoption, Destruction, SoundDisposal
<1> QED BY <1>5, <1>6 DEF Inv, Parts, Closed

LEMMA MainDisposeInv == ASSUME Inv, MainDispose PROVE Inv'
<1> DEFINE d == Set(main, "disposeRequested")
<1>1. /\ main \in Main /\ main.disposal = "pending" /\ ~Has(main, "terminal")
      /\ UNCHANGED <<utilPc, cancelled, life, animal, fromU, fromL>>
  BY DEF MainDispose, utilVars, Inv, TypeOK
<1>2. /\ d \in Main /\ d.disposal = "pending"
      /\ \A g : Has(d, g) <=> Has(main, g) \/ g = "disposeRequested"
  BY <1>1, SetFlag DEF MainFlags
<1>3. /\ Keeps(main, main') /\ Closed(main')
      /\ main'.disposal = "resolved" => ~Has(main, "initialized")
      /\ toL' = toL \/ toL' = Append(toL, "destroy")
      /\ toU' = toU \/ toU' = Append(toU, "cancel")
  <2>1. CASE ~Has(d, "initialized")
    <3>1. main' = CompleteDisposal(d) /\ toU' = toU /\ toL' = toL
      BY <2>1 DEF MainDispose
    <3> HIDE DEF d
    <3> QED BY <1>2, <2>1, <3>1, CompleteDisposalKeeps DEF Keeps, Tracked
  <2>2. CASE Has(d, "initialized") /\ Has(d, "destroyerReceived")
    <3>1. RequestDestroy(d) /\ toU' = toU
      BY <2>2 DEF MainDispose
    <3> HIDE DEF d
    <3> QED BY <1>1, <1>2, <2>2, <3>1, RequestDestroyKeeps
            DEF Keeps, Tracked, Inv, TypeOK
  <2>3. CASE Has(d, "initialized") /\ ~Has(d, "destroyerReceived")
    <3>1. /\ main' = Set(d, "cancelRequested")
          /\ toU' = Append(toU, "cancel") /\ toL' = toL
      BY <2>3 DEF MainDispose
    <3> HIDE DEF d
    <3> QED BY <1>1, <1>2, <2>3, <3>1, SetFlag DEF Keeps, Closed, Tracked, MainFlags
  <2> QED BY <2>1, <2>2, <2>3
<1>4. /\ toU' \in Seq(ToUtility)
      /\ \A m : In(m, toU') => In(m, toU) \/ m = "cancel"
      /\ \A m : m # "cancel" /\ Once(m, toU) => Once(m, toU')
  <2>1. CASE toU' = toU
    BY <2>1 DEF Inv, TypeOK
  <2>2. CASE toU' = Append(toU, "cancel")
    BY <2>2, AppendIn DEF Inv, TypeOK, ToUtility
  <2> QED BY <1>3, <2>1, <2>2
<1>5. TypeOK'
  BY <1>1, <1>3, <1>4, DestroyQueued DEF Inv, TypeOK, Keeps
<1>6. Parts'
  BY <1>1, <1>3, <1>4, DestroyQueued
     DEF Inv, Parts, Closed, Keeps, Tracked, AdoptionPlaces, AdoptionInFlight,
         Construction, Adoption, Destruction, SoundDisposal
<1> QED BY <1>5, <1>6 DEF Inv, Parts, Closed

LEMMA UtilityBoundaryInv == ASSUME Inv, UtilityBoundary PROVE Inv'
<1>1. /\ main \in Main /\ main.disposal = "pending" /\ ~Has(main, "terminal")
      /\ UNCHANGED <<utilPc, cancelled, life, animal, toU, fromU, fromL>>
  BY DEF UtilityBoundary, utilVars, Inv, TypeOK
<1>2. /\ Keeps(main, main') /\ Closed(main') /\ main'.disposal # "resolved"
      /\ toL' = toL \/ toL' = Append(toL, "destroy")
  <2>1. CASE Has(main, "adoptionFailure")
    BY <1>1, <2>1, FailImmediatelyKeeps DEF UtilityBoundary
  <2>2. CASE ~Has(main, "adoptionFailure")
    BY <1>1, <2>2, BeginFailureKeeps DEF UtilityBoundary, Inv, TypeOK
  <2> QED BY <2>1, <2>2
<1>5. TypeOK'
  BY <1>1, <1>2, DestroyQueued DEF Inv, TypeOK, Keeps
<1>6. Parts'
  BY <1>1, <1>2, DestroyQueued
     DEF Inv, Parts, Closed, Keeps, Tracked, AdoptionPlaces, AdoptionInFlight,
         Construction, Adoption, Destruction, SoundDisposal
<1> QED BY <1>5, <1>6 DEF Inv, Parts, Closed

LEMMA LifecycleBoundaryInv == ASSUME Inv, LifecycleBoundary PROVE Inv'
<1>1. /\ main \in Main /\ main.disposal = "pending" /\ ~Has(main, "terminal")
      /\ UNCHANGED <<utilPc, cancelled, life, animal, toU, fromU, fromL>>
  BY DEF LifecycleBoundary, utilVars, Inv, TypeOK
<1>2. /\ Keeps(main, main') /\ Closed(main') /\ main'.disposal # "resolved"
      /\ toL' = toL \/ toL' = Append(toL, "destroy")
  BY <1>1, FailImmediatelyKeeps DEF LifecycleBoundary
<1>5. TypeOK'
  BY <1>1, <1>2, DestroyQueued DEF Inv, TypeOK, Keeps
<1>6. Parts'
  BY <1>1, <1>2, DestroyQueued
     DEF Inv, Parts, Closed, Keeps, Tracked, AdoptionPlaces, AdoptionInFlight,
         Construction, Adoption, Destruction, SoundDisposal
<1> QED BY <1>5, <1>6 DEF Inv, Parts, Closed

\* A step of the utility worker that takes one message of main.
LEMMA UtilityTakes ==
  ASSUME Inv, NEW message \in ToUtility, ToU(message)
  PROVE  /\ UNCHANGED <<main, life, toL, fromL>>
         /\ main.disposal = "pending"
         /\ toU' \in Seq(ToUtility)
         /\ In(message, toU)
         /\ \A m : In(m, toU') => In(m, toU)
         /\ \A m : Once(m, toU) => Once(m, toU')
         /\ Once(message, toU) => ~In(message, toU')
BY TailIn DEF ToU, UtilityStep, Inv, TypeOK

\* What a message the utility worker posts does to its queue.
LEMMA UtilityPosts ==
  ASSUME Inv, NEW message \in FromUtility, fromU' = Append(fromU, message)
  PROVE  /\ fromU' \in Seq(FromUtility)
         /\ \A m : In(m, fromU') <=> In(m, fromU) \/ m = message
         /\ \A m : Once(m, fromU) /\ (m = message => ~In(m, fromU))
                 => Once(m, fromU')
BY AppendIn DEF Inv, TypeOK

LEMMA UtilityInitializeInv == ASSUME Inv, UtilityInitialize PROVE Inv'
<1>1. /\ UNCHANGED <<main, life, toL, fromL>> /\ main.disposal = "pending"
      /\ toU' \in Seq(ToUtility)
      /\ In("initialize", toU)
      /\ \A m : In(m, toU') => In(m, toU)
      /\ \A m : Once(m, toU) => Once(m, toU')
      /\ Once("initialize", toU) => ~In("initialize", toU')
  BY UtilityTakes DEF UtilityInitialize, ToUtility
<1>5. TypeOK'
  BY <1>1 DEF UtilityInitialize, Inv, TypeOK, UtilPcs, Animals
<1>6. Parts'
  BY <1>1
     DEF UtilityInitialize, Inv, Parts, Closed, AdoptionPlaces,
         AdoptionInFlight, Construction, Adoption, Destruction, SoundDisposal
<1> QED BY <1>5, <1>6 DEF Inv, Parts, Closed

LEMMA UtilityPrepareFailsInv == ASSUME Inv, UtilityPrepareFails PROVE Inv'
<1>1. /\ UNCHANGED <<main, life, toL, fromL, toU>> /\ main.disposal = "pending"
  BY DEF UtilityPrepareFails, UtilityStep, Inv, TypeOK
<1>2. /\ fromU' \in Seq(FromUtility)
      /\ \A m : In(m, fromU') <=> In(m, fromU) \/ m = "fatal"
      /\ \A m : Once(m, fromU) /\ (m = "fatal" => ~In(m, fromU))
              => Once(m, fromU')
  BY UtilityPosts DEF UtilityPrepareFails, FromUtility
<1>5. TypeOK'
  BY <1>1, <1>2 DEF UtilityPrepareFails, Inv, TypeOK, UtilPcs, Animals
<1>6. Parts'
  BY <1>1, <1>2
     DEF UtilityPrepareFails, Inv, Parts, Closed, AdoptionPlaces,
         AdoptionInFlight, Construction, Adoption, Destruction, SoundDisposal
<1> QED BY <1>5, <1>6 DEF Inv, Parts, Closed

LEMMA UtilityAdoptedInv == ASSUME Inv, UtilityAdopted PROVE Inv'
<1>1. /\ UNCHANGED <<main, life, toL, fromL>> /\ main.disposal = "pending"
      /\ toU' \in Seq(ToUtility)
      /\ In("adopted", toU)
      /\ \A m : In(m, toU') => In(m, toU)
      /\ \A m : Once(m, toU) => Once(m, toU')
      /\ Once("adopted", toU) => ~In("adopted", toU')
  BY UtilityTakes DEF UtilityAdopted, ToUtility
<1>5. TypeOK'
  BY <1>1 DEF UtilityAdopted, Inv, TypeOK, UtilPcs, Animals
<1>6. Parts'
  BY <1>1
     DEF UtilityAdopted, Inv, Parts, Closed, AdoptionPlaces,
         AdoptionInFlight, Construction, Adoption, Destruction, SoundDisposal
<1> QED BY <1>5, <1>6 DEF Inv, Parts, Closed

LEMMA UtilityAdoptionFailedInv == ASSUME Inv, UtilityAdoptionFailed PROVE Inv'
<1>1. /\ UNCHANGED <<main, life, toL, fromL>> /\ main.disposal = "pending"
      /\ toU' \in Seq(ToUtility)
      /\ In("adoptionFailed", toU)
      /\ \A m : In(m, toU') => In(m, toU)
      /\ \A m : Once(m, toU) => Once(m, toU')
      /\ Once("adoptionFailed", toU) => ~In("adoptionFailed", toU')
  BY UtilityTakes DEF UtilityAdoptionFailed, ToUtility
<1>5. TypeOK'
  BY <1>1 DEF UtilityAdoptionFailed, Inv, TypeOK, UtilPcs, Animals
<1>6. Parts'
  BY <1>1
     DEF UtilityAdoptionFailed, Inv, Parts, Closed, AdoptionPlaces,
         AdoptionInFlight, Construction, Adoption, Destruction, SoundDisposal
<1> QED BY <1>5, <1>6 DEF Inv, Parts, Closed

LEMMA UtilityGuestStartedInv == ASSUME Inv, UtilityGuestStarted PROVE Inv'
<1>1. /\ UNCHANGED <<main, life, toL, fromL, toU>> /\ main.disposal = "pending"
  BY DEF UtilityGuestStarted, UtilityStep, Inv, TypeOK
<1>2. /\ fromU' \in Seq(FromUtility)
      /\ \A m : In(m, fromU') <=> In(m, fromU) \/ m = "ready"
      /\ \A m : Once(m, fromU) /\ (m = "ready" => ~In(m, fromU))
              => Once(m, fromU')
  BY UtilityPosts DEF UtilityGuestStarted, FromUtility
<1>5. TypeOK'
  BY <1>1, <1>2 DEF UtilityGuestStarted, Inv, TypeOK, UtilPcs, Animals
<1>6. Parts'
  BY <1>1, <1>2
     DEF UtilityGuestStarted, Inv, Parts, Closed, AdoptionPlaces,
         AdoptionInFlight, Construction, Adoption, Destruction, SoundDisposal
<1> QED BY <1>5, <1>6 DEF Inv, Parts, Closed

LEMMA UtilityGuestFailsInv == ASSUME Inv, UtilityGuestFails PROVE Inv'
<1>1. /\ UNCHANGED <<main, life, toL, fromL, toU>> /\ main.disposal = "pending"
  BY DEF UtilityGuestFails, UtilityStep, Inv, TypeOK
<1>2. /\ fromU' \in Seq(FromUtility)
      /\ \A m : In(m, fromU') <=> In(m, fromU) \/ m = "fatal"
      /\ \A m : Once(m, fromU) /\ (m = "fatal" => ~In(m, fromU))
              => Once(m, fromU')
  BY UtilityPosts DEF UtilityGuestFails, FromUtility
<1>5. TypeOK'
  BY <1>1, <1>2 DEF UtilityGuestFails, Inv, TypeOK, UtilPcs, Animals
<1>6. Parts'
  BY <1>1, <1>2
     DEF UtilityGuestFails, Inv, Parts, Closed, AdoptionPlaces,
         AdoptionInFlight, Construction, Adoption, Destruction, SoundDisposal
<1> QED BY <1>5, <1>6 DEF Inv, Parts, Closed

LEMMA UtilityCleanupInv == ASSUME Inv, UtilityCleanup PROVE Inv'
<1>1. /\ UNCHANGED <<main, life, toL, fromL, toU>> /\ main.disposal = "pending"
  BY DEF UtilityCleanup, UtilityStep, Inv, TypeOK
<1>2. /\ fromU' \in Seq(FromUtility)
      /\ \A m : In(m, fromU') <=> In(m, fromU) \/ m = "fatal"
      /\ \A m : Once(m, fromU) /\ (m = "fatal" => ~In(m, fromU))
              => Once(m, fromU')
  BY UtilityPosts DEF UtilityCleanup, FromUtility
<1>5. TypeOK'
  BY <1>1, <1>2 DEF UtilityCleanup, Inv, TypeOK, UtilPcs, Animals
<1>6. Parts'
  BY <1>1, <1>2
     DEF UtilityCleanup, Inv, Parts, Closed, AdoptionPlaces,
         AdoptionInFlight, Construction, Adoption, Destruction, SoundDisposal
<1> QED BY <1>5, <1>6 DEF Inv, Parts, Closed

LEMMA UtilityCancelInv == ASSUME Inv, UtilityCancel PROVE Inv'
<1>1. /\ UNCHANGED <<main, life, toL, fromL>> /\ main.disposal = "pending"
      /\ toU' \in Seq(ToUtility)
      /\ \A m : In(m, toU') => In(m, toU)
      /\ \A m : Once(m, toU) => Once(m, toU')
  BY UtilityTakes DEF UtilityCancel, ToUtility
<1>2. CASE utilPc = "preparing" /\ ~cancelled
  <2>1. /\ cancelled' = TRUE /\ fromU' = Append(fromU, "cancelled")
        /\ UNCHANGED <<utilPc, animal>>
    BY <1>2 DEF UtilityCancel
  <2>2. /\ fromU' \in Seq(FromUtility)
        /\ \A m : In(m, fromU') <=> In(m, fromU) \/ m = "cancelled"
        /\ \A m : m # "cancelled" /\ Once(m, fromU) => Once(m, fromU')
    BY <2>1, UtilityPosts DEF FromUtility
  <2>5. TypeOK'
    BY <1>1, <2>1, <2>2 DEF Inv, TypeOK
  <2>6. Parts'
    BY <1>1, <1>2, <2>1, <2>2
       DEF Inv, Parts, Closed, AdoptionPlaces,
           AdoptionInFlight, Construction, Adoption, Destruction, SoundDisposal
  <2> QED BY <2>5, <2>6 DEF Inv, Parts, Closed
<1>3. CASE ~(utilPc = "preparing" /\ ~cancelled)
  <2>1. UNCHANGED <<cancelled, fromU, utilPc, animal>>
    BY <1>3 DEF UtilityCancel
  <2>5. TypeOK'
    BY <1>1, <2>1 DEF Inv, TypeOK
  <2>6. Parts'
    BY <1>1, <2>1
       DEF Inv, Parts, Closed, AdoptionPlaces,
           AdoptionInFlight, Construction, Adoption, Destruction, SoundDisposal
  <2> QED BY <2>5, <2>6 DEF Inv, Parts, Closed
<1> QED BY <1>2, <1>3

LEMMA UtilityCreateAnimalInv == ASSUME Inv, UtilityCreateAnimal PROVE Inv'
<1>1. /\ UNCHANGED <<main, life, toL, fromL, toU, cancelled>>
      /\ main.disposal = "pending"
      /\ utilPc = "preparing" /\ ~cancelled /\ animal' = "live"
  BY DEF UtilityCreateAnimal, UtilityStep, Inv, TypeOK
<1>2. CASE utilPc' = "awaitingAdoption" /\ fromU' = Append(fromU, "destroyer")
  <2>2. /\ fromU' \in Seq(FromUtility)
        /\ \A m : In(m, fromU') <=> In(m, fromU) \/ m = "destroyer"
        /\ \A m : /\ Once(m, fromU)
                  /\ m = "destroyer" => ~In(m, fromU)
                  => Once(m, fromU')
    BY <1>2, UtilityPosts DEF FromUtility
  <2>5. TypeOK'
    BY <1>1, <1>2, <2>2 DEF Inv, TypeOK, UtilPcs, Animals
  <2>6. Parts'
    BY <1>1, <1>2, <2>2
       DEF Inv, Parts, Closed, AdoptionPlaces,
           AdoptionInFlight, Construction, Adoption, Destruction, SoundDisposal
  <2> QED BY <2>5, <2>6 DEF Inv, Parts, Closed
<1>3. CASE utilPc' = "cleaning" /\ fromU' = fromU
  <2>5. TypeOK'
    BY <1>1, <1>3 DEF Inv, TypeOK, UtilPcs, Animals
  <2>6. Parts'
    BY <1>1, <1>3
       DEF Inv, Parts, Closed, AdoptionPlaces,
           AdoptionInFlight, Construction, Adoption, Destruction, SoundDisposal
  <2> QED BY <2>5, <2>6 DEF Inv, Parts, Closed
<1> QED BY <1>2, <1>3 DEF UtilityCreateAnimal

\* What a message the lifecycle worker posts does to its queue.
LEMMA LifecyclePosts ==
  ASSUME Inv, NEW message \in FromLifecycle, fromL' = Append(fromL, message)
  PROVE  /\ fromL' \in Seq(FromLifecycle)
         /\ \A m : In(m, fromL') <=> In(m, fromL) \/ m = message
         /\ \A m : Once(m, fromL) /\ (m = message => ~In(m, fromL))
                 => Once(m, fromL')
BY AppendIn DEF Inv, TypeOK

LEMMA LifecycleAdoptInv == ASSUME Inv, LifecycleAdopt PROVE Inv'
<1>1. /\ UNCHANGED <<main, utilPc, cancelled, toU, fromU, animal>>
      /\ main.disposal = "pending"
      /\ toL' \in Seq(ToLifecycle)
      /\ In("adopt", toL)
      /\ \A m : In(m, toL') => In(m, toL)
      /\ \A m : Once(m, toL) => Once(m, toL')
      /\ Once("adopt", toL) => ~In("adopt", toL')
  BY TailIn DEF LifecycleAdopt, LifecycleStep, utilVars, Inv, TypeOK
<1>2. CASE life = "empty" /\ life' = "holding" /\ fromL' = Append(fromL, "adopted")
  <2>2. /\ fromL' \in Seq(FromLifecycle)
        /\ \A m : In(m, fromL') <=> In(m, fromL) \/ m = "adopted"
        /\ \A m : /\ Once(m, fromL)
                  /\ m = "adopted" => ~In(m, fromL)
                  => Once(m, fromL')
    BY <1>2, LifecyclePosts DEF FromLifecycle
  <2>5. TypeOK'
    BY <1>1, <1>2, <2>2 DEF Inv, TypeOK, LifePcs, Animals
  <2>6. Parts'
    BY <1>1, <1>2, <2>2
       DEF Inv, Parts, Closed, AdoptionPlaces,
           AdoptionInFlight, Construction, Adoption, Destruction, SoundDisposal
  <2> QED BY <2>5, <2>6 DEF Inv, Parts, Closed
<1>3. CASE life' = life /\ fromL' = Append(fromL, "fatal")
  <2>2. /\ fromL' \in Seq(FromLifecycle)
        /\ \A m : In(m, fromL') <=> In(m, fromL) \/ m = "fatal"
        /\ \A m : /\ Once(m, fromL)
                  /\ m = "fatal" => ~In(m, fromL)
                  => Once(m, fromL')
    BY <1>3, LifecyclePosts DEF FromLifecycle
  <2>5. TypeOK'
    BY <1>1, <1>3, <2>2 DEF Inv, TypeOK, LifePcs, Animals
  <2>6. Parts'
    BY <1>1, <1>3, <2>2
       DEF Inv, Parts, Closed, AdoptionPlaces,
           AdoptionInFlight, Construction, Adoption, Destruction, SoundDisposal
  <2> QED BY <2>5, <2>6 DEF Inv, Parts, Closed
<1> QED BY <1>2, <1>3 DEF LifecycleAdopt

LEMMA LifecycleDestroyInv == ASSUME Inv, LifecycleDestroy PROVE Inv'
<1>1. /\ UNCHANGED <<main, utilPc, cancelled, toU, fromU, animal>>
      /\ main.disposal = "pending"
      /\ toL' \in Seq(ToLifecycle)
      /\ In("destroy", toL)
      /\ \A m : In(m, toL') => In(m, toL)
      /\ \A m : Once(m, toL) => Once(m, toL')
      /\ Once("destroy", toL) => ~In("destroy", toL')
  BY TailIn DEF LifecycleDestroy, LifecycleStep, utilVars, Inv, TypeOK
<1>2. CASE life' = life /\ fromL' = Append(fromL, "fatalWithToken")
  <2>2. /\ fromL' \in Seq(FromLifecycle)
        /\ \A m : In(m, fromL') <=> In(m, fromL) \/ m = "fatalWithToken"
        /\ \A m : /\ Once(m, fromL)
                  /\ m = "fatalWithToken" => ~In(m, fromL)
                  => Once(m, fromL')
    BY <1>2, LifecyclePosts DEF FromLifecycle
  <2>5. TypeOK'
    BY <1>1, <1>2, <2>2 DEF Inv, TypeOK, LifePcs, Animals
  <2>6. Parts'
    BY <1>1, <1>2, <2>2
       DEF Inv, Parts, Closed, AdoptionPlaces,
           AdoptionInFlight, Construction, Adoption, Destruction, SoundDisposal
  <2> QED BY <2>5, <2>6 DEF Inv, Parts, Closed
<1>3. CASE /\ life # "empty" /\ fromL' = fromL
           /\ life' = IF life = "holding" THEN "destroying" ELSE life
  <2>5. TypeOK'
    BY <1>1, <1>3 DEF Inv, TypeOK, LifePcs, Animals
  <2>6. Parts'
    BY <1>1, <1>3
       DEF Inv, Parts, Closed, AdoptionPlaces,
           AdoptionInFlight, Construction, Adoption, Destruction, SoundDisposal
  <2> QED BY <2>5, <2>6 DEF Inv, Parts, Closed
<1> QED BY <1>2, <1>3 DEF LifecycleDestroy

LEMMA LifecycleDestroyDoneInv == ASSUME Inv, LifecycleDestroyDone PROVE Inv'
<1>1. /\ UNCHANGED <<main, utilPc, cancelled, toU, fromU, toL>>
      /\ main.disposal = "pending"
      /\ life = "destroying" /\ life' = "done"
  BY DEF LifecycleDestroyDone, LifecycleStep, utilVars, Inv, TypeOK
<1>2. CASE animal' = "destroyed" /\ fromL' = Append(fromL, "destroyed")
  <2>2. /\ fromL' \in Seq(FromLifecycle)
        /\ \A m : In(m, fromL') <=> In(m, fromL) \/ m = "destroyed"
        /\ \A m : /\ Once(m, fromL)
                  /\ m = "destroyed" => ~In(m, fromL)
                  => Once(m, fromL')
    BY <1>2, LifecyclePosts DEF FromLifecycle
  <2>5. TypeOK'
    BY <1>1, <1>2, <2>2 DEF Inv, TypeOK, LifePcs, Animals
  <2>6. Parts'
    BY <1>1, <1>2, <2>2
       DEF Inv, Parts, Closed, AdoptionPlaces,
           AdoptionInFlight, Construction, Adoption, Destruction, SoundDisposal
  <2> QED BY <2>5, <2>6 DEF Inv, Parts, Closed
<1>3. CASE animal' = "unconfirmed" /\ fromL' = Append(fromL, "fatalWithToken")
  <2>2. /\ fromL' \in Seq(FromLifecycle)
        /\ \A m : In(m, fromL') <=> In(m, fromL) \/ m = "fatalWithToken"
        /\ \A m : /\ Once(m, fromL)
                  /\ m = "fatalWithToken" => ~In(m, fromL)
                  => Once(m, fromL')
    BY <1>3, LifecyclePosts DEF FromLifecycle
  <2>5. TypeOK'
    BY <1>1, <1>3, <2>2 DEF Inv, TypeOK, LifePcs, Animals
  <2>6. Parts'
    BY <1>1, <1>3, <2>2
       DEF Inv, Parts, Closed, AdoptionPlaces,
           AdoptionInFlight, Construction, Adoption, Destruction, SoundDisposal
  <2> QED BY <2>5, <2>6 DEF Inv, Parts, Closed
<1> QED BY <1>2, <1>3 DEF LifecycleDestroyDone

\* Every step of the handshake keeps the invariant.
LEMMA NextInv == Inv /\ [Next]_vars => Inv'
<1> SUFFICES ASSUME Inv, [Next]_vars PROVE Inv'
  OBVIOUS
<1>1. CASE MainInitialize
  BY <1>1, MainInitializeInv
<1>2. CASE MainDispose
  BY <1>2, MainDisposeInv
<1>3. CASE MainCancelled
  BY <1>3, MainCancelledInv
<1>4. CASE MainUtilityFatal
  BY <1>4, MainUtilityFatalInv
<1>5. CASE MainDestroyer
  BY <1>5, MainDestroyerInv
<1>6. CASE MainReady
  BY <1>6, MainReadyInv
<1>7. CASE MainAdopted
  BY <1>7, MainAdoptedInv
<1>8. CASE MainLifecycleFatal
  BY <1>8, MainLifecycleFatalInv
<1>9. CASE MainDestroyed
  BY <1>9, MainDestroyedInv
<1>10. CASE MainDestroyFailed
  BY <1>10, MainDestroyFailedInv
<1>11. CASE UtilityBoundary
  BY <1>11, UtilityBoundaryInv
<1>12. CASE LifecycleBoundary
  BY <1>12, LifecycleBoundaryInv
<1>13. CASE UtilityInitialize
  BY <1>13, UtilityInitializeInv
<1>14. CASE UtilityCancel
  BY <1>14, UtilityCancelInv
<1>15. CASE UtilityAdopted
  BY <1>15, UtilityAdoptedInv
<1>16. CASE UtilityAdoptionFailed
  BY <1>16, UtilityAdoptionFailedInv
<1>17. CASE UtilityPrepareFails
  BY <1>17, UtilityPrepareFailsInv
<1>18. CASE UtilityCreateAnimal
  BY <1>18, UtilityCreateAnimalInv
<1>19. CASE UtilityGuestStarted
  BY <1>19, UtilityGuestStartedInv
<1>20. CASE UtilityGuestFails
  BY <1>20, UtilityGuestFailsInv
<1>21. CASE UtilityCleanup
  BY <1>21, UtilityCleanupInv
<1>22. CASE LifecycleAdopt
  BY <1>22, LifecycleAdoptInv
<1>23. CASE LifecycleDestroy
  BY <1>23, LifecycleDestroyInv
<1>24. CASE LifecycleDestroyDone
  BY <1>24, LifecycleDestroyDoneInv
<1>25. CASE UNCHANGED vars
  BY <1>25
     DEF vars, Inv, TypeOK, AdoptionPlaces, AdoptionInFlight, Construction,
         Adoption, Destruction, SoundDisposal
<1> QED
  BY <1>1, <1>2, <1>3, <1>4, <1>5, <1>6, <1>7, <1>8, <1>9, <1>10, <1>11, <1>12, <1>13, <1>14, <1>15, <1>16, <1>17, <1>18, <1>19, <1>20, <1>21, <1>22, <1>23, <1>24, <1>25 DEF Next, MainReceive, UtilityReceive

-----------------------------------------------------------------------------
(* Theorems.                                                                *)

\* Inv holds in every state of every behaviour, whatever may fail.
THEOREM Invariance == Spec => []Inv
<1>1. Init => Inv
  BY InitInv
<1>2. Inv /\ [Next]_vars => Inv'
  BY NextInv
<1> QED BY <1>1, <1>2, PTL DEF Spec

\* Every variable keeps its type: the queues only ever carry the messages
\* their receivers know.
THEOREM TypeCorrect == Spec => []TypeOK
<1>1. Inv => TypeOK
  BY DEF Inv
<1> QED BY <1>1, Invariance, PTL

\* Guest code never starts before the lifecycle worker holds its destroyer.
THEOREM GuestStartsUnderLifecycle == Spec => []GuestNeedsLifecycle
<1>1. Inv => GuestNeedsLifecycle
  BY DEF Inv, Adoption, GuestNeedsLifecycle
<1> QED BY <1>1, Invariance, PTL

\* The utility worker and the lifecycle worker never both destroy the Animal.
THEOREM NeverTwoDestroyers == Spec => []OneDestroyer
<1>1. Inv => OneDestroyer
  BY DEF Inv, Construction, OneDestroyer
<1> QED BY <1>1, Invariance, PTL

\* Both together: the Animal always has exactly the owner that must stop it.
THEOREM AnimalIsSafe == Spec => []AnimalSafe
<1>1. Spec => []GuestNeedsLifecycle
  BY GuestStartsUnderLifecycle
<1>2. Spec => []OneDestroyer
  BY NeverTwoDestroyers
<1> QED BY <1>1, <1>2, PTL DEF AnimalSafe

\* dispose() resolves only when no Animal is left, or when both the creation of
\* the destroyer and the cleanup of the utility worker failed.
THEOREM DisposalIsSound == Spec => []SoundDisposal
<1>1. Inv => SoundDisposal
  BY DEF Inv
<1> QED BY <1>1, Invariance, PTL

-----------------------------------------------------------------------------
(* The handshake implements AnimalCustody.                                  *)

CustodyStep == [Custody!Next]_<<Holder, main.disposal>>

\* A step that leaves the Animal and the lifecycle worker alone can only settle
\* the disposal promise, and SoundDisposal says when it may resolve it.
LEMMA SettlingStep ==
  ASSUME Inv, Inv', ~Has(main, "terminal"),
         UNCHANGED <<animal, life>>
  PROVE  CustodyStep
<1>1. Holder' = Holder
  BY DEF Holder
<1>2. main.disposal = "pending" /\ main'.disposal \in Promise
  BY DEF Inv, TypeOK, Main
<1>3. CASE main'.disposal = "resolved"
  <2>1. animal \in {"none", "destroyed"} \/ (animal = "unconfirmed" /\ life = "empty")
    BY <1>3 DEF Inv, SoundDisposal
  <2>2. Holder \in {"nobody", "gone", "abandoned"}
    BY <2>1 DEF Holder
  <2> QED BY <1>1, <1>2, <1>3, <2>2
          DEF CustodyStep, Custody!Next, Custody!ReportClean, Custody!Open
<1>4. CASE main'.disposal = "rejected"
  BY <1>1, <1>2, <1>4
     DEF CustodyStep, Custody!Next, Custody!ReportFailure, Custody!Open
<1>5. CASE main'.disposal = "pending"
  BY <1>1, <1>2, <1>5 DEF CustodyStep
<1> QED BY <1>2, <1>3, <1>4, <1>5 DEF Promise

\* Creating the Animal makes the utility worker its holder.
LEMMA CreateStep ==
  ASSUME Inv, UtilityCreateAnimal PROVE CustodyStep
<1>1. /\ animal = "none" /\ life = "empty" /\ animal' = "live"
      /\ UNCHANGED <<main, life>> /\ main.disposal = "pending"
  BY DEF UtilityCreateAnimal, UtilityStep, Inv, Construction, TypeOK
<1>2. Holder = "nobody" /\ Holder' = "utility"
  BY <1>1 DEF Holder
<1> QED BY <1>1, <1>2 DEF CustodyStep, Custody!Next, Custody!Create, Custody!Open

\* The utility worker destroys an Animal only while it is the holder.
LEMMA UtilityDestroyStep ==
  ASSUME Inv, UtilityCleanup PROVE CustodyStep
<1>1. /\ animal = "live" /\ life = "empty" /\ animal' \in {"destroyed", "unconfirmed"}
      /\ UNCHANGED <<main, life>> /\ main.disposal = "pending"
  BY DEF UtilityCleanup, UtilityStep, Inv, Construction, TypeOK
<1>2. Holder = "utility" /\ Holder' \in {"gone", "abandoned"}
  BY <1>1 DEF Holder
<1> QED BY <1>1, <1>2 DEF CustodyStep, Custody!Next, Custody!Destroy, Custody!Abandon,
                          Custody!Open

\* Adopting the handle hands the Animal over; a failed adoption changes nothing.
LEMMA HandOverStep ==
  ASSUME Inv, Inv', LifecycleAdopt PROVE CustodyStep
<1>1. /\ UNCHANGED <<main, animal>> /\ main.disposal = "pending"
      /\ ~Has(main, "terminal") /\ In("adopt", toL)
  BY TailIn DEF LifecycleAdopt, LifecycleStep, Inv, TypeOK
<1>2. CASE life = "empty" /\ life' = "holding"
  <2>1. animal = "live"
    BY <1>1 DEF Inv, AdoptionPlaces, AdoptionInFlight
  <2>2. Holder = "utility" /\ Holder' = "lifecycle"
    BY <1>1, <1>2, <2>1 DEF Holder
  <2> QED BY <1>1, <2>2 DEF CustodyStep, Custody!Next, Custody!HandOver, Custody!Open
<1>3. CASE life' = life
  BY <1>1, <1>3, SettlingStep
<1> QED BY <1>2, <1>3 DEF LifecycleAdopt

\* Asking the lifecycle worker to destroy the Animal changes no holder yet.
LEMMA DestroyRequestStep ==
  ASSUME Inv, LifecycleDestroy PROVE CustodyStep
<1>1. /\ UNCHANGED <<main, animal>>
      /\ life' = "empty" <=> life = "empty"
  BY DEF LifecycleDestroy, LifecycleStep
<1> QED BY <1>1 DEF CustodyStep, Holder

\* The lifecycle worker destroys an Animal only while it is the holder.
LEMMA LifecycleDestroyStep ==
  ASSUME Inv, LifecycleDestroyDone PROVE CustodyStep
<1>1. /\ animal = "live" /\ life = "destroying"
      /\ animal' \in {"destroyed", "unconfirmed"}
      /\ UNCHANGED main /\ main.disposal = "pending"
  BY DEF LifecycleDestroyDone, LifecycleStep, Inv, Destruction, TypeOK
<1>2. life' # "empty"
  BY <1>1 DEF LifecycleDestroyDone
<1>3. Holder = "lifecycle" /\ Holder' \in {"gone", "lost"}
  BY <1>1, <1>2 DEF Holder
<1> QED BY <1>1, <1>3 DEF CustodyStep, Custody!Next, Custody!Destroy, Custody!Open

\* Every step of the handshake is a step of AnimalCustody or leaves it alone.
LEMMA NextCustody ==
  ASSUME Inv, Inv', [Next]_vars PROVE CustodyStep
<1>1. CASE \/ MainInitialize \/ MainDispose \/ UtilityBoundary \/ LifecycleBoundary
  BY <1>1, SettlingStep
     DEF MainInitialize, MainDispose, UtilityBoundary, LifecycleBoundary
<1>2. CASE \/ MainCancelled \/ MainUtilityFatal \/ MainDestroyer \/ MainReady
  BY <1>2, SettlingStep
     DEF MainCancelled, MainUtilityFatal, MainDestroyer, MainReady, FromU
<1>3. CASE \/ MainAdopted \/ MainLifecycleFatal \/ MainDestroyed \/ MainDestroyFailed
  BY <1>3, SettlingStep
     DEF MainAdopted, MainLifecycleFatal, MainDestroyed, MainDestroyFailed, FromL
<1>4. CASE UtilityReceive
  BY <1>4, SettlingStep
     DEF UtilityReceive, UtilityInitialize, UtilityCancel, UtilityAdopted,
         UtilityAdoptionFailed, ToU, UtilityStep
<1>5. CASE UtilityPrepareFails \/ UtilityGuestStarted \/ UtilityGuestFails
  BY <1>5, SettlingStep
     DEF UtilityPrepareFails, UtilityGuestStarted, UtilityGuestFails, UtilityStep
<1>6. CASE UtilityCreateAnimal
  BY <1>6, CreateStep
<1>7. CASE UtilityCleanup
  BY <1>7, UtilityDestroyStep
<1>8. CASE LifecycleAdopt
  BY <1>8, HandOverStep
<1>9. CASE LifecycleDestroy
  BY <1>9, DestroyRequestStep
<1>10. CASE LifecycleDestroyDone
  BY <1>10, LifecycleDestroyStep
<1>11. CASE UNCHANGED vars
  BY <1>11 DEF vars, CustodyStep, Holder
<1> QED
  BY <1>1, <1>2, <1>3, <1>4, <1>5, <1>6, <1>7, <1>8, <1>9, <1>10, <1>11
     DEF Next, MainReceive

\* The handshake implements AnimalCustody, whatever fails: one holder at a
\* time, one hand-over, and a disposal that resolves only when there is no
\* Animal left, or the utility worker alone failed to clean up.
THEOREM HandshakeImplementsCustody == Spec => ImplementsCustody
<1>1. Init => Custody!Init
  BY DEF Init, Custody!Init, Holder
<1>2. Inv /\ Inv' /\ [Next]_vars => CustodyStep
  BY NextCustody
<1> QED
  BY <1>1, <1>2, Invariance, PTL
     DEF Spec, ImplementsCustody, Custody!Spec, CustodyStep

-----------------------------------------------------------------------------
(* The messages arrive in the order their handlers expect, and a live Animal *)
(* always has an owner.                                                      *)

(* What a handler may leave behind.                                         *)

\* A queue from which at most its head was taken.
Follows(p, q) == p = q \/ (q # <<>> /\ p = Tail(q))

LEMMA FollowsIn ==
  ASSUME NEW S, NEW q \in Seq(S), NEW p, Follows(p, q)
  PROVE  /\ \A m : In(m, p) => In(m, q)
         /\ \A m : Once(m, q) => Once(m, p)
<1>1. CASE p = q
  BY <1>1
<1>2. CASE q # <<>> /\ p = Tail(q)
  BY <1>2, TailIn
<1> QED BY <1>1, <1>2 DEF Follows

\* The flags that failures and disposal set, and nothing else does.
Ending == {"failure", "reported", "terminal", "disposeRequested", "destroySent"}
Quiet(m, n) == m.flags \subseteq n.flags /\ n.flags \subseteq m.flags \cup Ending

\* A destroy request is recorded in the step that sends it.
DestroyKnown == \/ toL' = toL
                \/ toL' = Append(toL, "destroy") /\ Has(main', "destroySent")

LEMMA SetFlags ==
  ASSUME NEW m \in Main, NEW f \in MainFlags
  PROVE  Set(m, f) \in Main /\ Set(m, f).flags = m.flags \cup {f}
BY DEF Set, Main

\* The helpers that record a failure or the end are quiet.
LEMMA QuietHelpers ==
  ASSUME NEW m \in Main
  PROVE  /\ Quiet(m, CaptureFailure(m)) /\ CaptureFailure(m) \in Main
         /\ Quiet(m, RejectStartup(m)) /\ Quiet(m, CompleteDisposal(m))
         /\ Quiet(m, FailImmediately(m)) /\ Quiet(m, FailAdoption(m))
         /\ Quiet(m, ResolveDisposal(Terminate(RejectStartup(m))))
<1>1. {"failure", "reported", "terminal"} \subseteq MainFlags
  BY DEF MainFlags
<1>2. Quiet(m, CaptureFailure(m)) /\ CaptureFailure(m) \in Main
  BY <1>1, SetFlags DEF CaptureFailure, Quiet, Ending
<1>3. ASSUME NEW c \in Main
      PROVE  /\ RejectStartup(c) \in Main /\ RejectStartup(c).flags = c.flags
             /\ Terminate(c) \in Main /\ Terminate(c).flags = c.flags \cup {"terminal"}
             /\ ResolveDisposal(c).flags = c.flags /\ RejectDisposal(c).flags = c.flags
  BY <1>1, SettleKeeps, SetFlags DEF Terminate
<1>4. Quiet(m, RejectStartup(m)) /\ Quiet(m, CompleteDisposal(m))
  BY <1>3 DEF Quiet, Ending, CompleteDisposal
<1>5. Quiet(m, FailImmediately(m))
  BY <1>2, <1>3 DEF Quiet, Ending, FailImmediately
<1>6. Quiet(m, FailAdoption(m))
  BY <1>1, <1>3, SetFlags DEF Quiet, Ending, FailAdoption
<1>7. Quiet(m, ResolveDisposal(Terminate(RejectStartup(m))))
  BY <1>3 DEF Quiet, Ending
<1> QED BY <1>2, <1>4, <1>5, <1>6, <1>7

LEMMA QuietRequest ==
  ASSUME NEW m \in Main, RequestDestroy(m)
  PROVE  Quiet(m, main') /\ DestroyKnown
BY SetFlags DEF RequestDestroy, Quiet, Ending, DestroyKnown, Has, MainFlags

LEMMA QuietBegin ==
  ASSUME NEW m \in Main, BeginFailureDisposal(m)
  PROVE  Quiet(m, main') /\ DestroyKnown
<1> DEFINE f == Set(RejectStartup(CaptureFailure(m)), "disposeRequested")
<1>1. f \in Main /\ Quiet(m, f)
  <2>1. /\ RejectStartup(CaptureFailure(m)) \in Main
        /\ RejectStartup(CaptureFailure(m)).flags = CaptureFailure(m).flags
    BY QuietHelpers, SettleKeeps
  <2> QED BY <2>1, QuietHelpers, SetFlags DEF Quiet, Ending, MainFlags
<1>2. RequestDestroy(f) \/ (main' = FailImmediately(f) /\ toL' = toL)
  BY DEF BeginFailureDisposal
<1>3. Quiet(f, main') /\ DestroyKnown
  <2> HIDE DEF f
  <2> QED BY <1>1, <1>2, QuietRequest, QuietHelpers DEF DestroyKnown
<1> QED BY <1>1, <1>3 DEF Quiet

\* So a step of main that only fails or ends disturbs no expectation.
LEMMA QuietStep ==
  ASSUME Inv, Order, Quiet(main, main'), DestroyKnown,
         Follows(fromU', fromU), Follows(fromL', fromL),
         UNCHANGED <<utilPc, cancelled, life, animal, toU>>
  PROVE  Order'
<1>1. /\ \A m : In(m, fromU') => In(m, fromU)
      /\ \A m : In(m, fromL') => In(m, fromL)
      /\ \A m : Once(m, fromU) => Once(m, fromU')
      /\ \A m : Once(m, fromL) => Once(m, fromL')
  BY FollowsIn DEF Inv, TypeOK
<1>2. In("adopt", toL') => In("adopt", toL)
  BY DestroyQueued DEF DestroyKnown, Inv
<1>3. In("destroy", toL') => In("destroy", toL) \/ Has(main', "destroySent")
  BY DEF DestroyKnown
<1>4. /\ \A f \in {"initialized", "destroyerReceived", "adopted", "ready"} :
           Has(main', f) <=> Has(main, f)
      /\ \A f \in {"disposeRequested", "destroySent"} : Has(main, f) => Has(main', f)
  BY DEF Quiet, Ending, Has
<1>5. Expected'
  BY <1>1, <1>2, <1>4 DEF Order, Expected
<1>6. DestroyAnswered'
  BY <1>1, <1>3, <1>4 DEF Order, DestroyAnswered
<1>7. InitializeFirst'
  BY <1>4 DEF Order, InitializeFirst
<1> QED BY <1>5, <1>6, <1>7 DEF Order

-----------------------------------------------------------------------------
(* The main thread.                                                         *)

\* The messages of the utility worker that fail, end or are dropped.
LEMMA UtilityQuiet ==
  ASSUME Inv, Order, MainCancelled \/ MainUtilityFatal
  PROVE  Order'
<1>1. Quiet(main, main') /\ DestroyKnown
  <2>1. main \in Main
    BY DEF Inv, TypeOK
  <2>2. CASE MainCancelled
    BY <2>1, <2>2, QuietHelpers DEF MainCancelled, DestroyKnown
  <2>3. CASE MainUtilityFatal
    BY <2>1, <2>3, QuietHelpers, QuietBegin DEF MainUtilityFatal, DestroyKnown
  <2> QED BY <2>2, <2>3
<1>2. /\ Follows(fromU', fromU) /\ Follows(fromL', fromL)
      /\ UNCHANGED <<utilPc, cancelled, life, animal, toU>>
  BY DEF MainCancelled, MainUtilityFatal, FromU, Follows, utilVars
<1> QED BY <1>1, <1>2, QuietStep

LEMMA DestroyerOrder ==
  ASSUME Inv, Order, MainDestroyer
  PROVE  Order'
<1>1. FromU("destroyer") /\ In("destroyer", fromU) /\ ~Has(main, "destroyerReceived")
  BY TailIn DEF MainDestroyer, FromU, Inv, TypeOK, AdoptionPlaces
<1>2. /\ main' = Set(main, "destroyerReceived") /\ toL' = Append(toL, "adopt")
      /\ UNCHANGED <<utilPc, cancelled, life, animal, toU, fromL>>
  BY <1>1 DEF MainDestroyer, FromU, utilVars
<1>3. \A f : Has(main', f) <=> Has(main, f) \/ f = "destroyerReceived"
  BY <1>2, SetFlag DEF MainFlags, Inv, TypeOK
<1>4. /\ \A m : In(m, fromU') => In(m, fromU)
      /\ \A m : Once(m, fromU) => Once(m, fromU')
  BY <1>1, FollowsIn DEF FromU, Follows, Inv, TypeOK
<1>5. \A m : In(m, toL') <=> In(m, toL) \/ m = "adopt"
  BY <1>2, AppendIn DEF Inv, TypeOK, ToLifecycle
<1>6. animal = "live"
  BY <1>1 DEF Inv, AdoptionPlaces, AdoptionInFlight
<1> QED BY <1>2, <1>3, <1>4, <1>5, <1>6
        DEF Order, Expected, DestroyAnswered, InitializeFirst

LEMMA ReadyOrder ==
  ASSUME Inv, Order, MainReady
  PROVE  Order'
<1>1. /\ FromU("ready") /\ In("ready", fromU) /\ ~In("ready", fromU')
      /\ UNCHANGED <<utilPc, cancelled, life, animal, toU, fromL>>
  BY TailIn DEF MainReady, FromU, Inv, TypeOK, Order, Expected, utilVars
<1>2. Follows(fromU', fromU) /\ Follows(fromL', fromL)
  BY <1>1 DEF FromU, Follows
<1>3. main \in Main
  BY DEF Inv, TypeOK
<1>4. CASE Has(main, "disposeRequested")
  BY <1>1, <1>2, <1>4, QuietStep DEF MainReady, Quiet, DestroyKnown
<1>5. CASE ~Has(main, "disposeRequested") /\ (~Has(main, "adopted") \/ Has(main, "ready"))
  BY <1>1, <1>2, <1>3, <1>5, QuietBegin, QuietStep DEF MainReady
<1>6. CASE /\ main' = [Set(main, "ready") EXCEPT !.startup = Settle(@, "resolved")]
           /\ toL' = toL
  <2>1. \A f : Has(main', f) <=> Has(main, f) \/ f = "ready"
    <3>1. Set(main, "ready") \in Main /\ Set(main, "ready").flags = main.flags \cup {"ready"}
      BY <1>3, SetFlags DEF MainFlags
    <3>2. main'.flags = Set(main, "ready").flags
      BY <1>6, <3>1 DEF Main
    <3> QED BY <3>1, <3>2 DEF Has
  <2>2. /\ \A m : In(m, fromU') => In(m, fromU)
        /\ \A m : Once(m, fromU) => Once(m, fromU')
    BY <1>2, FollowsIn DEF Inv, TypeOK
  <2>3. utilPc = "serving"
    BY <1>1 DEF Order, Expected
  <2> QED BY <1>1, <1>6, <2>1, <2>2, <2>3
          DEF Order, Expected, DestroyAnswered, InitializeFirst
<1> QED BY <1>4, <1>5, <1>6 DEF MainReady

LEMMA LifecycleQuiet ==
  ASSUME Inv, Order, MainDestroyed \/ MainDestroyFailed
  PROVE  Order'
<1>1. main \in Main /\ Set(main, "failure") \in Main /\ Quiet(main, Set(main, "failure"))
  BY SetFlags DEF Inv, TypeOK, MainFlags, Quiet, Ending
<1>2. Quiet(main, main')
  <2>1. CASE MainDestroyed
    BY <1>1, <2>1, QuietHelpers DEF MainDestroyed
  <2>2. CASE MainDestroyFailed
    BY <1>1, <2>2, QuietHelpers DEF MainDestroyFailed, Quiet
  <2> QED BY <2>1, <2>2
<1>3. /\ DestroyKnown /\ Follows(fromU', fromU) /\ Follows(fromL', fromL)
      /\ UNCHANGED <<utilPc, cancelled, life, animal, toU>>
  BY DEF MainDestroyed, MainDestroyFailed, FromL, Follows, DestroyKnown, utilVars
<1> QED BY <1>2, <1>3, QuietStep

LEMMA AdoptedOrder ==
  ASSUME Inv, Order, MainAdopted
  PROVE  Order'
<1>1. /\ FromL("adopted") /\ In("adopted", fromL)
      /\ UNCHANGED <<utilPc, cancelled, life, animal, fromU>>
  BY TailIn DEF MainAdopted, FromL, Inv, TypeOK, utilVars
<1>2. /\ utilPc = "awaitingAdoption" /\ Has(main, "destroyerReceived")
      /\ ~Has(main, "adopted") /\ ~In("adopted", fromL')
  BY <1>1, TailIn DEF FromL, Order, Expected, Inv, TypeOK
<1> DEFINE m == Set(main, "adopted")
<1>3. m \in Main /\ \A f : Has(m, f) <=> Has(main, f) \/ f = "adopted"
  BY SetFlag DEF MainFlags, Inv, TypeOK
<1>4. /\ \A x : In(x, fromL') => In(x, fromL)
      /\ \A x : Once(x, fromL) => Once(x, fromL')
  BY <1>1, FollowsIn DEF FromL, Follows, Inv, TypeOK
<1>5. Has(main, "initialized") /\ ~In("adopted", toU)
  BY <1>2 DEF Inv, Construction, Adoption
<1>6. \/ RequestDestroy(m) /\ toU' = toU
      \/ main' = m /\ toU' = Append(toU, "adopted") /\ toL' = toL
  BY <1>2 DEF MainAdopted
<1> HIDE DEF m
<1>7. CASE RequestDestroy(m) /\ toU' = toU
  <2>1. Quiet(m, main') /\ DestroyKnown
    BY <1>3, <1>7, QuietRequest
  <2>2. /\ \A f \in {"initialized", "destroyerReceived", "ready"} : Has(main', f) <=> Has(main, f)
        /\ \A f \in {"disposeRequested", "destroySent"} : Has(main, f) => Has(main', f)
    BY <1>3, <2>1 DEF Quiet, Ending, Has
  <2>3. In("adopt", toL') => In("adopt", toL)
    BY <2>1, DestroyQueued DEF DestroyKnown, Inv
  <2>4. In("destroy", toL') => In("destroy", toL) \/ Has(main', "destroySent")
    BY <2>1 DEF DestroyKnown
  <2>5. Expected'
    BY <1>1, <1>2, <1>4, <1>7, <2>2, <2>3 DEF Order, Expected
  <2>6. DestroyAnswered'
    BY <1>1, <1>4, <2>2, <2>4 DEF Order, DestroyAnswered
  <2>7. InitializeFirst'
    BY <1>1, <1>2, <1>5, <2>2 DEF InitializeFirst
  <2> QED BY <2>5, <2>6, <2>7 DEF Order
<1>8. CASE main' = m /\ toU' = Append(toU, "adopted") /\ toL' = toL
  <2>1. /\ \A x : In(x, toU') <=> In(x, toU) \/ x = "adopted"
        /\ \A x : Once(x, toU) /\ (x = "adopted" => ~In(x, toU)) => Once(x, toU')
    BY <1>8, AppendIn DEF Inv, TypeOK, ToUtility
  <2>2. Expected'
    BY <1>1, <1>2, <1>3, <1>4, <1>5, <1>8, <2>1 DEF Order, Expected
  <2>3. DestroyAnswered'
    BY <1>1, <1>3, <1>4, <1>8 DEF Order, DestroyAnswered
  <2>4. InitializeFirst'
    BY <1>1, <1>2, <1>3, <1>5, <1>8 DEF InitializeFirst
  <2> QED BY <2>2, <2>3, <2>4 DEF Order
<1> QED BY <1>6, <1>7, <1>8

LEMMA LifecycleFatalOrder ==
  ASSUME Inv, Order, MainLifecycleFatal
  PROVE  Order'
<1>1. /\ FromL("fatal") /\ In("fatal", fromL)
      /\ UNCHANGED <<utilPc, cancelled, life, animal, fromU>>
  BY TailIn DEF MainLifecycleFatal, FromL, Inv, TypeOK, utilVars
<1>2. utilPc = "awaitingAdoption" /\ ~Has(main, "ready") /\ Has(main, "initialized")
  BY <1>1 DEF Inv, AdoptionPlaces, AdoptionInFlight, Construction, Order, Expected
<1>3. /\ main' = RejectStartup(Set(main, "adoptionFailure"))
      /\ toU' = Append(toU, "adoptionFailed") /\ toL' = toL
  BY <1>2 DEF MainLifecycleFatal
<1>4. \A f : Has(main', f) <=> Has(main, f) \/ f = "adoptionFailure"
  BY <1>3, SetFlag, SettleKeeps, SMTT(30) DEF MainFlags, Has, Inv, TypeOK
<1>5. /\ \A x : In(x, fromL') => In(x, fromL)
      /\ \A x : Once(x, fromL) => Once(x, fromL')
  BY <1>1, FollowsIn DEF FromL, Follows, Inv, TypeOK
<1>6. /\ \A x : In(x, toU') <=> In(x, toU) \/ x = "adoptionFailed"
      /\ \A x : Once(x, toU) /\ x # "adoptionFailed" => Once(x, toU')
  BY <1>3, AppendIn, SMTT(30) DEF Inv, TypeOK, ToUtility
<1> QED BY <1>1, <1>2, <1>3, <1>4, <1>5, <1>6
        DEF Order, Expected, DestroyAnswered, InitializeFirst

LEMMA InitializeOrder ==
  ASSUME Inv, Order, MainInitialize
  PROVE  Order'
<1>1. /\ ~Has(main, "initialized") /\ main' = Set(main, "initialized")
      /\ toU' = Append(toU, "initialize")
      /\ UNCHANGED <<utilPc, cancelled, life, animal, fromU, toL, fromL>>
  BY DEF MainInitialize, utilVars
<1>2. utilPc = "idle" /\ toU = <<>> /\ ~In("initialize", toU)
  BY <1>1 DEF Inv, Construction, Order, InitializeFirst
<1>3. \A f : Has(main', f) <=> Has(main, f) \/ f = "initialized"
  BY <1>1, SetFlag DEF MainFlags, Inv, TypeOK
<1>4. toU' # <<>> /\ Head(toU') = "initialize"
  BY <1>1, <1>2
<1>5. /\ \A x : In(x, toU') <=> In(x, toU) \/ x = "initialize"
      /\ \A x : Once(x, toU) /\ (x = "initialize" => ~In(x, toU)) => Once(x, toU')
  <2>1. toU \in Seq(ToUtility) /\ "initialize" \in ToUtility
    BY DEF Inv, TypeOK, ToUtility
  <2>2. /\ \A x : In(x, Append(toU, "initialize")) <=> In(x, toU) \/ x = "initialize"
        /\ \A x : Once(x, toU) /\ (x = "initialize" => ~In(x, toU)) =>
                    Once(x, Append(toU, "initialize"))
    BY <2>1, AppendIn
  <2> QED BY <1>1, <2>2
<1> QED BY <1>1, <1>2, <1>3, <1>4, <1>5
        DEF Order, Expected, DestroyAnswered, InitializeFirst

LEMMA DisposeOrder ==
  ASSUME Inv, Order, MainDispose
  PROVE  Order'
<1> DEFINE m == Set(main, "disposeRequested")
<1>1. /\ main \in Main /\ m \in Main /\ Quiet(main, m)
      /\ \A f : Has(m, f) <=> Has(main, f) \/ f = "disposeRequested"
  BY SetFlag, SetFlags DEF MainFlags, Inv, TypeOK, Quiet, Ending
<1>2. /\ UNCHANGED <<utilPc, cancelled, life, animal, fromU, fromL>>
      /\ Follows(fromU', fromU) /\ Follows(fromL', fromL)
  BY DEF MainDispose, utilVars, Follows
<1>3. \/ main' = CompleteDisposal(m) /\ UNCHANGED <<toU, toL>>
      \/ RequestDestroy(m) /\ toU' = toU
      \/ /\ Has(m, "initialized") /\ main' = Set(m, "cancelRequested")
         /\ toU' = Append(toU, "cancel") /\ toL' = toL
  BY DEF MainDispose
<1> HIDE DEF m
<1>4. CASE main' = CompleteDisposal(m) /\ UNCHANGED <<toU, toL>>
  BY <1>1, <1>2, <1>4, QuietHelpers, QuietStep DEF Quiet, DestroyKnown
<1>5. CASE RequestDestroy(m) /\ toU' = toU
  <2>1. Quiet(m, main') /\ DestroyKnown
    BY <1>1, <1>5, QuietRequest
  <2>2. Quiet(main, main')
    BY <1>1, <2>1 DEF Quiet
  <2> QED BY <1>2, <1>5, <2>1, <2>2, QuietStep
<1>6. CASE /\ Has(m, "initialized") /\ main' = Set(m, "cancelRequested")
           /\ toU' = Append(toU, "cancel") /\ toL' = toL
  <2>1. \A f : Has(main', f) <=> Has(main, f) \/ f \in {"disposeRequested", "cancelRequested"}
    BY <1>1, <1>6, SetFlag DEF MainFlags
  <2>2. /\ \A x : In(x, toU') <=> In(x, toU) \/ x = "cancel"
        /\ \A x : Once(x, toU) /\ x # "cancel" => Once(x, toU')
    BY <1>6, AppendIn DEF Inv, TypeOK, ToUtility
  <2>3. toU # <<>> => toU' # <<>> /\ Head(toU') = Head(toU)
    BY <1>6 DEF Inv, TypeOK
  <2>4. Expected'
    BY <1>2, <1>6, <2>1, <2>2 DEF Order, Expected
  <2>5. DestroyAnswered'
    BY <1>2, <1>6, <2>1 DEF Order, DestroyAnswered
  <2>6. InitializeFirst'
    BY <1>1, <1>2, <1>6, <2>1, <2>3 DEF Order, InitializeFirst
  <2> QED BY <2>4, <2>5, <2>6 DEF Order
<1> QED BY <1>3, <1>4, <1>5, <1>6

LEMMA BoundaryOrder ==
  ASSUME Inv, Order, UtilityBoundary \/ LifecycleBoundary
  PROVE  Order'
<1>1. Quiet(main, main') /\ DestroyKnown
  BY QuietHelpers, QuietBegin
     DEF UtilityBoundary, LifecycleBoundary, DestroyKnown, Inv, TypeOK
<1>2. /\ Follows(fromU', fromU) /\ Follows(fromL', fromL)
      /\ UNCHANGED <<utilPc, cancelled, life, animal, toU>>
  BY DEF UtilityBoundary, LifecycleBoundary, Follows, utilVars
<1> QED BY <1>1, <1>2, QuietStep

-----------------------------------------------------------------------------
(* The utility worker.                                                      *)

\* What a step of the utility worker does to its two queues.
LEMMA UtilityQueues ==
  ASSUME Inv, UtilityStep,
         Follows(toU', toU),
         fromU' = fromU \/ \E x \in FromUtility : fromU' = Append(fromU, x)
  PROVE  /\ \A m : In(m, toU') => In(m, toU)
         /\ \A m : Once(m, toU) => Once(m, toU')
         /\ \A m : fromU' # Append(fromU, m) => (In(m, fromU') => In(m, fromU))
         /\ \A m : fromU' # Append(fromU, m) \/ ~In(m, fromU) =>
                     (Once(m, fromU) => Once(m, fromU'))
         /\ UNCHANGED <<main, life, toL, fromL>>
<1>1. toU \in Seq(ToUtility) /\ fromU \in Seq(FromUtility)
  BY DEF Inv, TypeOK
<1>2. /\ \A m : In(m, toU') => In(m, toU)
      /\ \A m : Once(m, toU) => Once(m, toU')
  BY <1>1, FollowsIn
<1>3. CASE fromU' = fromU
  BY <1>2, <1>3 DEF UtilityStep
<1>4. ASSUME NEW x \in FromUtility, fromU' = Append(fromU, x)
      PROVE  /\ \A m : fromU' # Append(fromU, m) => (In(m, fromU') => In(m, fromU))
             /\ \A m : fromU' # Append(fromU, m) \/ ~In(m, fromU) =>
                         (Once(m, fromU) => Once(m, fromU'))
  BY <1>1, <1>4, AppendIn
<1> QED BY <1>2, <1>3, <1>4 DEF UtilityStep

LEMMA UtilityInitializeOrder ==
  ASSUME Inv, Order, UtilityInitialize
  PROVE  Order'
<1>1. /\ UtilityStep /\ toU # <<>> /\ toU' = Tail(toU) /\ In("initialize", toU)
      /\ Once("initialize", toU) => ~In("initialize", toU')
  BY TailIn DEF UtilityInitialize, ToU, Inv, TypeOK
<1>2. /\ fromU' = fromU
      /\ utilPc = "idle" /\ utilPc' = "preparing" /\ UNCHANGED <<cancelled, animal>>
  BY DEF UtilityInitialize
<1>3. /\ \A m : In(m, toU') => In(m, toU)
      /\ \A m : Once(m, toU) => Once(m, toU')
      /\ In("ready", fromU') => In("ready", fromU)
      /\ Once("ready", fromU) => Once("ready", fromU')
      /\ UNCHANGED <<main, life, toL, fromL>>
  BY <1>1, <1>2, UtilityQueues DEF Follows, FromUtility
<1>4. Has(main, "initialized")
  BY <1>1 DEF Order, InitializeFirst
<1>5. Expected'
  BY <1>1, <1>2, <1>3, <1>4 DEF Order, Expected
<1>6. DestroyAnswered'
  BY <1>2, <1>3, <1>4 DEF Order, DestroyAnswered
<1>7. InitializeFirst'
  BY <1>1, <1>2, <1>3, <1>4 DEF Order, InitializeFirst
<1> QED BY <1>5, <1>6, <1>7 DEF Order

LEMMA UtilityCancelOrder ==
  ASSUME Inv, Order, UtilityCancel
  PROVE  Order'
<1>1. /\ UtilityStep /\ toU # <<>> /\ toU' = Tail(toU) /\ In("cancel", toU)
      /\ Once("cancel", toU) => ~In("cancel", toU')
  BY TailIn DEF UtilityCancel, ToU, Inv, TypeOK
<1>2. /\ \/ cancelled' = TRUE /\ fromU' = Append(fromU, "cancelled")
         \/ UNCHANGED <<cancelled, fromU>>
      /\ UNCHANGED <<utilPc, animal>>
  BY DEF UtilityCancel
<1>3. /\ \A m : In(m, toU') => In(m, toU)
      /\ \A m : Once(m, toU) => Once(m, toU')
      /\ In("ready", fromU') => In("ready", fromU)
      /\ Once("ready", fromU) => Once("ready", fromU')
      /\ UNCHANGED <<main, life, toL, fromL>>
  BY <1>1, <1>2, UtilityQueues DEF Follows, FromUtility
<1>4. Has(main, "initialized") /\ utilPc # "idle" /\ Has(main, "disposeRequested")
  BY <1>1 DEF UtilityCancel, ToU, Order, InitializeFirst, Expected
<1>5. Expected'
  BY <1>1, <1>2, <1>3, <1>4 DEF Order, Expected
<1>6. DestroyAnswered'
  BY <1>2, <1>3, <1>4 DEF Order, DestroyAnswered
<1>7. InitializeFirst'
  BY <1>1, <1>2, <1>3, <1>4 DEF Order, InitializeFirst
<1> QED BY <1>5, <1>6, <1>7 DEF Order

LEMMA UtilityAdoptedOrder ==
  ASSUME Inv, Order, UtilityAdopted
  PROVE  Order'
<1>1. /\ UtilityStep /\ toU # <<>> /\ toU' = Tail(toU) /\ In("adopted", toU)
      /\ Once("adopted", toU) => ~In("adopted", toU')
  BY TailIn DEF UtilityAdopted, ToU, Inv, TypeOK
<1>2. /\ fromU' = fromU
      /\ utilPc' = "startingGuest" /\ UNCHANGED <<cancelled, animal>>
  BY DEF UtilityAdopted
<1>3. /\ \A m : In(m, toU') => In(m, toU)
      /\ \A m : Once(m, toU) => Once(m, toU')
      /\ In("ready", fromU') => In("ready", fromU)
      /\ Once("ready", fromU) => Once("ready", fromU')
      /\ UNCHANGED <<main, life, toL, fromL>>
  BY <1>1, <1>2, UtilityQueues DEF Follows, FromUtility
<1>4. /\ Has(main, "initialized") /\ utilPc = "awaitingAdoption"
      /\ ~In("adopted", fromL)
  BY <1>1 DEF Inv, Adoption, Order, InitializeFirst, Expected
<1>5. Expected'
  BY <1>1, <1>2, <1>3, <1>4 DEF Order, Expected
<1>6. DestroyAnswered'
  BY <1>2, <1>3, <1>4 DEF Order, DestroyAnswered
<1>7. InitializeFirst'
  BY <1>1, <1>2, <1>3, <1>4 DEF Order, InitializeFirst
<1> QED BY <1>5, <1>6, <1>7 DEF Order

LEMMA UtilityAdoptionFailedOrder ==
  ASSUME Inv, Order, UtilityAdoptionFailed
  PROVE  Order'
<1>1. /\ UtilityStep /\ toU # <<>> /\ toU' = Tail(toU) /\ In("adoptionFailed", toU)
      /\ Once("adoptionFailed", toU) => ~In("adoptionFailed", toU')
  BY TailIn DEF UtilityAdoptionFailed, ToU, Inv, TypeOK
<1>2. /\ fromU' = fromU
      /\ UNCHANGED <<cancelled, animal>>
  BY DEF UtilityAdoptionFailed
<1>3. /\ \A m : In(m, toU') => In(m, toU)
      /\ \A m : Once(m, toU) => Once(m, toU')
      /\ In("ready", fromU') => In("ready", fromU)
      /\ Once("ready", fromU) => Once("ready", fromU')
      /\ UNCHANGED <<main, life, toL, fromL>>
  BY <1>1, <1>2, UtilityQueues DEF Follows, FromUtility
<1>4. /\ Has(main, "initialized") /\ utilPc = "awaitingAdoption" /\ utilPc' = "cleaning"
      /\ ~In("adopted", fromL) /\ ~In("adopted", toU)
  BY <1>1 DEF Inv, AdoptionPlaces, AdoptionInFlight, Adoption, Order, InitializeFirst,
              UtilityAdoptionFailed
<1>5. Expected'
  BY <1>1, <1>2, <1>3, <1>4 DEF Order, Expected
<1>6. DestroyAnswered'
  BY <1>2, <1>3, <1>4 DEF Order, DestroyAnswered
<1>7. InitializeFirst'
  BY <1>1, <1>2, <1>3, <1>4 DEF Order, InitializeFirst
<1> QED BY <1>5, <1>6, <1>7 DEF Order

LEMMA UtilityPrepareFailsOrder ==
  ASSUME Inv, Order, UtilityPrepareFails
  PROVE  Order'
<1>1. UtilityStep /\ toU' = toU /\ utilPc = "preparing" /\ cancelled' = cancelled
  BY DEF UtilityPrepareFails
<1>2. utilPc' = "failed" /\ fromU' = Append(fromU, "fatal") /\ animal' = animal
  BY DEF UtilityPrepareFails
<1>3. /\ \A m : In(m, toU') => In(m, toU)
      /\ \A m : Once(m, toU) => Once(m, toU')
      /\ In("ready", fromU') => In("ready", fromU) \/ utilPc' = "serving"
      /\ ~In("ready", fromU) /\ Once("ready", fromU) => Once("ready", fromU')
      /\ UNCHANGED <<main, life, toL, fromL>>
  BY <1>1, <1>2, UtilityQueues DEF Follows, FromUtility
<1>4. ~In("ready", fromU) /\ ~Has(main, "ready")
  BY <1>1 DEF Order, Expected
<1>5. Expected'
  BY <1>1, <1>2, <1>3, <1>4 DEF Order, Expected
<1>6. DestroyAnswered'
  BY <1>2, <1>3, <1>4 DEF Order, DestroyAnswered
<1>7. InitializeFirst'
  BY <1>1, <1>2, <1>3 DEF Order, InitializeFirst
<1> QED BY <1>5, <1>6, <1>7 DEF Order

LEMMA UtilityCreateAnimalOrder ==
  ASSUME Inv, Order, UtilityCreateAnimal
  PROVE  Order'
<1>1. UtilityStep /\ toU' = toU /\ utilPc = "preparing" /\ cancelled' = cancelled
  BY DEF UtilityCreateAnimal
<1>2. /\ animal' = "live"
      /\ \/ utilPc' = "awaitingAdoption" /\ fromU' = Append(fromU, "destroyer")
         \/ utilPc' = "cleaning" /\ fromU' = fromU
  BY DEF UtilityCreateAnimal
<1>3. /\ \A m : In(m, toU') => In(m, toU)
      /\ \A m : Once(m, toU) => Once(m, toU')
      /\ In("ready", fromU') => In("ready", fromU) \/ utilPc' = "serving"
      /\ ~In("ready", fromU) /\ Once("ready", fromU) => Once("ready", fromU')
      /\ UNCHANGED <<main, life, toL, fromL>>
  BY <1>1, <1>2, UtilityQueues DEF Follows, FromUtility
<1>4. /\ ~In("ready", fromU) /\ ~Has(main, "ready") /\ life = "empty"
      /\ ~In("adopted", fromL) /\ ~In("adopted", toU)
  BY <1>1 DEF Inv, Construction, Order, Expected
<1>5. Expected'
  BY <1>1, <1>2, <1>3, <1>4 DEF Order, Expected
<1>6. DestroyAnswered'
  BY <1>2, <1>3, <1>4 DEF Order, DestroyAnswered
<1>7. InitializeFirst'
  BY <1>1, <1>2, <1>3 DEF Order, InitializeFirst
<1> QED BY <1>5, <1>6, <1>7 DEF Order

LEMMA UtilityGuestStartedOrder ==
  ASSUME Inv, Order, UtilityGuestStarted
  PROVE  Order'
<1>1. UtilityStep /\ toU' = toU /\ utilPc = "startingGuest" /\ cancelled' = cancelled
  BY DEF UtilityGuestStarted
<1>2. utilPc' = "serving" /\ fromU' = Append(fromU, "ready") /\ animal' = animal
  BY DEF UtilityGuestStarted
<1>3. /\ \A m : In(m, toU') => In(m, toU)
      /\ \A m : Once(m, toU) => Once(m, toU')
      /\ In("ready", fromU') => In("ready", fromU) \/ utilPc' = "serving"
      /\ ~In("ready", fromU) /\ Once("ready", fromU) => Once("ready", fromU')
      /\ UNCHANGED <<main, life, toL, fromL>>
  BY <1>1, <1>2, UtilityQueues DEF Follows, FromUtility
<1>4. ~In("ready", fromU) /\ ~Has(main, "ready")
  BY <1>1 DEF Order, Expected
<1>5. Expected'
  BY <1>1, <1>2, <1>3, <1>4 DEF Order, Expected
<1>6. DestroyAnswered'
  BY <1>2, <1>3, <1>4 DEF Order, DestroyAnswered
<1>7. InitializeFirst'
  BY <1>1, <1>2, <1>3 DEF Order, InitializeFirst
<1> QED BY <1>5, <1>6, <1>7 DEF Order

LEMMA UtilityGuestFailsOrder ==
  ASSUME Inv, Order, UtilityGuestFails
  PROVE  Order'
<1>1. UtilityStep /\ toU' = toU /\ utilPc = "startingGuest" /\ cancelled' = cancelled
  BY DEF UtilityGuestFails
<1>2. utilPc' = "failed" /\ fromU' = Append(fromU, "fatal") /\ animal' = animal
  BY DEF UtilityGuestFails
<1>3. /\ \A m : In(m, toU') => In(m, toU)
      /\ \A m : Once(m, toU) => Once(m, toU')
      /\ In("ready", fromU') => In("ready", fromU) \/ utilPc' = "serving"
      /\ ~In("ready", fromU) /\ Once("ready", fromU) => Once("ready", fromU')
      /\ UNCHANGED <<main, life, toL, fromL>>
  BY <1>1, <1>2, UtilityQueues DEF Follows, FromUtility
<1>4. ~In("ready", fromU) /\ ~Has(main, "ready")
  BY <1>1 DEF Order, Expected
<1>5. Expected'
  BY <1>1, <1>2, <1>3, <1>4 DEF Order, Expected
<1>6. DestroyAnswered'
  BY <1>2, <1>3, <1>4 DEF Order, DestroyAnswered
<1>7. InitializeFirst'
  BY <1>1, <1>2, <1>3 DEF Order, InitializeFirst
<1> QED BY <1>5, <1>6, <1>7 DEF Order

LEMMA UtilityCleanupOrder ==
  ASSUME Inv, Order, UtilityCleanup
  PROVE  Order'
<1>1. UtilityStep /\ toU' = toU /\ utilPc = "cleaning" /\ cancelled' = cancelled
  BY DEF UtilityCleanup
<1>2. /\ utilPc' = "failed" /\ fromU' = Append(fromU, "fatal")
      /\ animal' \in {"destroyed", "unconfirmed"}
  BY DEF UtilityCleanup
<1>3. /\ \A m : In(m, toU') => In(m, toU)
      /\ \A m : Once(m, toU) => Once(m, toU')
      /\ In("ready", fromU') => In("ready", fromU) \/ utilPc' = "serving"
      /\ ~In("ready", fromU) /\ Once("ready", fromU) => Once("ready", fromU')
      /\ UNCHANGED <<main, life, toL, fromL>>
  BY <1>1, <1>2, UtilityQueues DEF Follows, FromUtility
<1>4. ~In("ready", fromU) /\ ~Has(main, "ready")
  BY <1>1 DEF Order, Expected
<1>5. Expected'
  BY <1>1, <1>2, <1>3, <1>4 DEF Order, Expected
<1>6. DestroyAnswered'
  BY <1>2, <1>3, <1>4 DEF Order, DestroyAnswered
<1>7. InitializeFirst'
  BY <1>1, <1>2, <1>3 DEF Order, InitializeFirst
<1> QED BY <1>5, <1>6, <1>7 DEF Order

-----------------------------------------------------------------------------
(* The lifecycle worker.                                                    *)

\* What taking the head of toL, and perhaps answering it, leaves in the queues.
LEMMA LifecycleQueues ==
  ASSUME Inv, Follows(toL', toL), NEW x \in FromLifecycle,
         fromL' = fromL \/ fromL' = Append(fromL, x)
  PROVE  /\ \A m : In(m, toL') => In(m, toL)
         /\ \A m : In(m, fromL') => In(m, fromL) \/ (m = x /\ fromL' # fromL)
         /\ \A m : m # x \/ ~In(m, fromL) => (Once(m, fromL) => Once(m, fromL'))
<1>1. toL \in Seq(ToLifecycle) /\ fromL \in Seq(FromLifecycle)
  BY DEF Inv, TypeOK
<1>2. \A m : In(m, toL') => In(m, toL)
  BY <1>1, FollowsIn
<1>3. CASE fromL' = fromL
  BY <1>2, <1>3
<1>4. CASE fromL' = Append(fromL, x)
  <2>1. fromL' # fromL
    BY <1>1, <1>4
  <2> QED BY <1>1, <1>2, <1>4, <2>1, AppendIn
<1> QED BY <1>3, <1>4

LEMMA LifecycleAdoptOrder ==
  ASSUME Inv, Order, LifecycleAdopt
  PROVE  Order'
<1>1. /\ In("adopt", toL) /\ Follows(toL', toL)
      /\ UNCHANGED <<main, utilPc, cancelled, toU, fromU, animal>>
  BY TailIn DEF LifecycleAdopt, LifecycleStep, utilVars, Follows, Inv, TypeOK
<1>2. utilPc = "awaitingAdoption" /\ life = "empty" /\ Has(main, "destroyerReceived")
  BY <1>1 DEF Inv, AdoptionPlaces, AdoptionInFlight, Order, Expected
<1>3. ~In("adopted", fromL) /\ ~Has(main, "adopted")
  BY <1>2 DEF Inv, Adoption
<1>4. \/ life' = "holding" /\ fromL' = Append(fromL, "adopted")
      \/ life' = "empty" /\ fromL' = Append(fromL, "fatal")
  BY <1>2 DEF LifecycleAdopt
<1>5. ASSUME NEW x \in {"adopted", "fatal"}, fromL' = Append(fromL, x)
      PROVE  /\ \A m : In(m, toL') => In(m, toL)
             /\ \A m : In(m, fromL') => In(m, fromL) \/ m = x
             /\ Once("adopted", fromL) => Once("adopted", fromL')
  BY <1>1, <1>3, <1>5, LifecycleQueues DEF FromLifecycle
<1>6. /\ \A m : In(m, toL') => In(m, toL)
      /\ \A m : In(m, fromL') => In(m, fromL) \/ m \in {"adopted", "fatal"}
      /\ Once("adopted", fromL) => Once("adopted", fromL')
  BY <1>4, <1>5
<1> QED BY <1>1, <1>2, <1>3, <1>4, <1>6
        DEF Order, Expected, DestroyAnswered, InitializeFirst

LEMMA LifecycleDestroyOrder ==
  ASSUME Inv, Order, LifecycleDestroy \/ LifecycleDestroyDone
  PROVE  Order'
<1>1. /\ Follows(toL', toL) /\ UNCHANGED <<main, utilPc, cancelled, toU, fromU>>
  BY DEF LifecycleDestroy, LifecycleDestroyDone, LifecycleStep, utilVars, Follows
<1>2. Has(main, "destroySent")
  <2>1. CASE LifecycleDestroy
    BY <2>1, TailIn DEF LifecycleDestroy, Inv, TypeOK, Order, DestroyAnswered
  <2>2. CASE LifecycleDestroyDone
    BY <2>2 DEF LifecycleDestroyDone, Order, DestroyAnswered
  <2> QED BY <2>1, <2>2
<1>3. PICK x \in {"destroyed", "fatalWithToken"} :
        fromL' = fromL \/ fromL' = Append(fromL, x)
  BY DEF LifecycleDestroy, LifecycleDestroyDone
<1>4. /\ \A m : In(m, toL') => In(m, toL)
      /\ In("adopted", fromL') => In("adopted", fromL)
      /\ Once("adopted", fromL) => Once("adopted", fromL')
  BY <1>1, <1>3, LifecycleQueues DEF FromLifecycle
<1>5. /\ life' = "done" => animal' # "live"
      /\ animal' = animal \/ animal' # "none"
  BY DEF LifecycleDestroy, LifecycleDestroyDone, Order, DestroyAnswered
<1> QED BY <1>1, <1>2, <1>4, <1>5
        DEF Order, Expected, DestroyAnswered, InitializeFirst

-----------------------------------------------------------------------------
(* The theorem.                                                             *)

LEMMA InitOrder == Init => Order
<1> SUFFICES ASSUME Init PROVE Order
  OBVIOUS
<1>1. \A m : /\ ~In(m, fromU) /\ ~In(m, toU) /\ ~In(m, fromL) /\ ~In(m, toL)
            /\ Once(m, fromU) /\ Once(m, toU) /\ Once(m, fromL)
  BY DEF Init, In, Once
<1>2. \A f : ~Has(main, f)
  BY DEF Init, Has
<1> QED BY <1>1, <1>2
        DEF Init, Order, Expected, DestroyAnswered, InitializeFirst

LEMMA NextOrder == Inv /\ Order /\ [Next]_vars => Order'
<1> SUFFICES ASSUME Inv, Order, [Next]_vars PROVE Order'
  OBVIOUS
<1>1. CASE MainInitialize \/ MainDispose
  BY <1>1, InitializeOrder, DisposeOrder
<1>2. CASE MainReceive
  BY <1>2, UtilityQuiet, DestroyerOrder, ReadyOrder, AdoptedOrder, LifecycleFatalOrder,
     LifecycleQuiet DEF MainReceive
<1>3. CASE UtilityBoundary \/ LifecycleBoundary
  BY <1>3, BoundaryOrder
<1>4. CASE UtilityReceive
  BY <1>4, UtilityInitializeOrder, UtilityCancelOrder, UtilityAdoptedOrder,
     UtilityAdoptionFailedOrder DEF UtilityReceive
<1>5. CASE \/ UtilityPrepareFails \/ UtilityCreateAnimal \/ UtilityGuestStarted
           \/ UtilityGuestFails \/ UtilityCleanup
  BY <1>5, UtilityPrepareFailsOrder, UtilityCreateAnimalOrder, UtilityGuestStartedOrder,
     UtilityGuestFailsOrder, UtilityCleanupOrder
<1>6. CASE LifecycleAdopt \/ LifecycleDestroy \/ LifecycleDestroyDone
  BY <1>6, LifecycleAdoptOrder, LifecycleDestroyOrder
<1>7. CASE UNCHANGED vars
  BY <1>7 DEF vars, Order, Expected, DestroyAnswered, InitializeFirst
<1> QED BY <1>1, <1>2, <1>3, <1>4, <1>5, <1>6, <1>7 DEF Next

\* A live Animal has somebody left to destroy it, and each message is still expected
\* when it reaches the head of its queue (the handlers of
\* createRuntimeWorkerHandshake and of the two workers), whatever fails.
THEOREM HandshakeIsOrdered == Spec => []HandshakeOrdered
<1>1. Inv /\ Order => LiveAnimalOwned
  BY DEF Inv, TypeOK, UtilPcs, LifePcs, Construction, Adoption, Destruction, Order,
         DestroyAnswered, LiveAnimalOwned
<1>2. Inv /\ Order => MessagesInOrder
  <2> SUFFICES ASSUME Inv, Order PROVE MessagesInOrder
    OBVIOUS
  <2>1. /\ fromU # <<>> => In(Head(fromU), fromU)
        /\ fromL # <<>> => In(Head(fromL), fromL) /\ Head(fromL) \in FromLifecycle
        /\ toU # <<>> => In(Head(toU), toU) /\ Head(toU) \in ToUtility
    BY TailIn DEF Inv, TypeOK
  <2>2. fromU # <<>> =>
          CASE Head(fromU) = "cancelled" -> /\ Has(main, "disposeRequested")
                                            /\ ~Has(main, "destroyerReceived")
            [] Head(fromU) = "destroyer" -> ~Has(main, "destroyerReceived")
            [] Head(fromU) = "ready" -> Has(main, "adopted") /\ ~Has(main, "ready")
            [] OTHER -> TRUE
    BY <2>1 DEF Inv, Construction, AdoptionPlaces, Adoption, Order, Expected
  <2>3. fromL # <<>> =>
          CASE Head(fromL) = "adopted" -> /\ Has(main, "destroyerReceived")
                                          /\ ~Has(main, "adopted")
            [] Head(fromL) = "fatal" -> ~Has(main, "ready")
            [] OTHER -> Has(main, "destroySent")
    BY <2>1 DEF FromLifecycle, Inv, AdoptionPlaces, AdoptionInFlight, Order, Expected,
                DestroyAnswered
  <2>4. toU # <<>> =>
          CASE Head(toU) = "initialize" -> utilPc = "idle"
            [] Head(toU) = "adopted" -> utilPc = "awaitingAdoption"
            [] Head(toU) = "adoptionFailed" -> utilPc = "awaitingAdoption"
            [] OTHER -> utilPc # "idle"
    BY <2>1 DEF ToUtility, Inv, AdoptionPlaces, AdoptionInFlight, Order, Expected,
                InitializeFirst
  <2> QED BY <2>2, <2>3, <2>4 DEF MessagesInOrder
<1>3. Inv /\ Order => HandshakeOrdered
  BY <1>1, <1>2 DEF HandshakeOrdered
<1>4. Spec => []Order
  BY InitOrder, NextOrder, Invariance, PTL DEF Spec
<1> QED BY <1>3, <1>4, Invariance, PTL

=============================================================================
