-------------------------- MODULE AppRuntimeProofs --------------------------
(***************************************************************************)
(* Proofs about AppRuntime for every number of create() calls and of       *)
(* operations and every set of faults: the farm outlives whatever uses it, *)
(* a quarantine keeps what may still be used, and one generation at a time *)
(* holds the slot.                                                         *)
(***************************************************************************)
EXTENDS AppRuntime, SequenceTheorems, TLAPS

-----------------------------------------------------------------------------
(* Type correctness.                                                        *)

\* The sets the types are made of.
LEMMA Kinded ==
  /\ \A s \in Stages : Order[s] \in Kinds
  /\ Workers \subseteq Kinds /\ Boundaries \subseteq Kinds
  /\ {"callbacks", "farm", "services"} \subseteq Kinds
  /\ \A s \in Stages : Order[s] \in Boundaries \cup Workers \cup {"farm"}
  /\ Ops \subseteq Works /\ {"startup", "owners", "construction"} \subseteq Works
BY DEF Stages, Order, Kinds, Workers, Boundaries, Works

\* The blocks the actions are built from.
LEMMA RefuseType == ASSUME TypeOK, NEW g \in Gens, turns # <<>>, Refuse(g) PROVE TypeOK'
<1>1. turns' \in Seq(Gens)
  BY DEF Refuse, TypeOK
<1> QED BY <1>1 DEF Refuse, TypeOK, CallSteps, Phases, StartSteps, TeardownSteps,
  supVars, startVars, resVars, downVars

LEMMA ConstructType ==
  ASSUME TypeOK, NEW g \in Gens, turns # <<>>, ConstructOrFail(g) PROVE TypeOK'
<1>1. CASE Refuse(g)
  BY <1>1, RefuseType
<1>2. CASE Construct(g)
  <2>1. turns' \in Seq(Gens)
    BY <1>2 DEF Construct, TypeOK
  <2> QED BY <1>2, <2>1, Kinded DEF Construct, TypeOK, CallSteps, Phases, StartSteps,
    TeardownSteps, supVars, startVars, resVars, downVars
<1> QED BY <1>1, <1>2 DEF ConstructOrFail

LEMMA SettlingType ==
  ASSUME TypeOK, NEW g \in Gens, NEW left \in SUBSET Kinds, NEW pending \in SUBSET Works,
         StartSettling(g, left, pending)
  PROVE  /\ teardown' \in [Gens -> TeardownSteps]
         /\ awaited' \in [Gens -> SUBSET Works]
         /\ live' \in [Gens -> SUBSET Kinds]
BY DEF StartSettling, TypeOK, TeardownSteps

\* What the beginning of a disposal changes.
DisposeTyped ==
  /\ phase \in [Gens -> Phases] /\ detached \in [Gens -> BOOLEAN]
  /\ confirmed \in [Gens -> SUBSET Boundaries] /\ settled \in [Gens -> BOOLEAN]
  /\ work \in [Gens -> SUBSET Works] /\ teardown \in [Gens -> TeardownSteps]
  /\ awaited \in [Gens -> SUBSET Works] /\ live \in [Gens -> SUBSET Kinds]

LEMMA BeginDisposeType ==
  ASSUME TypeOK, NEW g \in Gens, NEW pending \in SUBSET Works, BeginDispose(g, pending)
  PROVE  DisposeTyped'
<1>1. live[g] \in SUBSET Kinds
  BY DEF TypeOK
<1>2. /\ phase' \in [Gens -> Phases] /\ detached' \in [Gens -> BOOLEAN]
      /\ confirmed' \in [Gens -> SUBSET Boundaries] /\ settled' \in [Gens -> BOOLEAN]
      /\ work' \in [Gens -> SUBSET Works]
  BY DEF BeginDispose, TypeOK, Phases
<1>3. /\ teardown' \in [Gens -> TeardownSteps]
      /\ awaited' \in [Gens -> SUBSET Works]
      /\ live' \in [Gens -> SUBSET Kinds]
  <2>1. CASE "callbacks" \in has[g]
    BY <2>1 DEF BeginDispose, TypeOK, TeardownSteps
  <2>2. CASE "callbacks" \notin has[g]
    BY <2>2, <1>1, SettlingType DEF BeginDispose
  <2> QED BY <2>1, <2>2
<1> QED BY <1>2, <1>3 DEF DisposeTyped

LEMMA FailStartType ==
  ASSUME TypeOK, NEW g \in Gens, NEW pending \in SUBSET Works, FailStart(g, pending)
  PROVE  TypeOK'
<1>1. /\ start' \in [Gens -> StartSteps] /\ fatal' \in [Gens -> BOOLEAN]
  BY DEF FailStart, StartStep, TypeOK, StartSteps
<1>2. DisposeTyped'
  <2>1. CASE Disposing(g)
    BY <2>1 DEF FailStart, TypeOK, DisposeTyped, downVars
  <2>2. CASE ~ Disposing(g)
    <3>1. PICK owners \in {{}, {"owners"}} :
            BeginDispose(g, (pending \ {"startup"}) \cup owners)
      BY <2>2 DEF FailStart
    <3>2. (pending \ {"startup"}) \cup owners \in SUBSET Works
      BY Kinded
    <3> QED BY <3>1, <3>2, BeginDisposeType
  <2> QED BY <2>1, <2>2
<1> QED BY <1>1, <1>2 DEF FailStart, DisposeTyped, TypeOK, supVars

LEMMA InitType == Init => TypeOK
BY DEF Init, TypeOK, CallSteps, Phases, StartSteps, TeardownSteps, Stages, Kinds

\* Every step keeps the types.
LEMMA NextType == TypeOK /\ [Next]_vars => TypeOK'
<1> SUFFICES ASSUME TypeOK, [Next]_vars PROVE TypeOK'
  OBVIOUS
<1> USE Kinded
<1>1. ASSUME NEW g \in Gens, Create(g) PROVE TypeOK'
  BY <1>1 DEF Create, TypeOK, CallSteps, Phases, StartSteps, TeardownSteps, supVars,
    startVars, resVars, downVars
<1>2. ASSUME NEW g \in Gens, Admit(g) PROVE TypeOK'
  <2>1. turns # <<>>
    BY <1>2 DEF Admit, HoldsTurn
  <2>2. CASE call' = [call EXCEPT ![g] = "awaiting"] /\ UNCHANGED <<turns, current, quarantine, phase,
              startVars, fatal, resVars, work, downVars>>
    BY <2>2 DEF TypeOK, CallSteps, Phases, StartSteps, TeardownSteps, supVars,
      startVars, resVars, downVars
  <2>3. CASE Refuse(g)
    BY <2>1, <2>3, RefuseType
  <2>4. CASE ConstructOrFail(g)
    BY <2>1, <2>4, ConstructType
  <2> QED BY <1>2, <2>2, <2>3, <2>4 DEF Admit
<1>3. ASSUME NEW g \in Gens, AwaitedTeardown(g) PROVE TypeOK'
  <2>1. turns # <<>>
    BY <1>3 DEF AwaitedTeardown, HoldsTurn
  <2> QED BY <1>3, <2>1, RefuseType, ConstructType DEF AwaitedTeardown
<1>4. ASSUME NEW g \in Gens, Start(g) PROVE TypeOK'
  BY <1>4 DEF Start, StartStep, Unstarted, TypeOK, CallSteps, Phases, StartSteps,
    TeardownSteps, supVars, startVars, resVars, downVars
<1>5. ASSUME NEW g \in Gens, EnterStart(g) PROVE TypeOK'
  <2>1. start' \in [Gens -> StartSteps] /\ work' \in [Gens -> SUBSET Works]
    BY <1>5 DEF EnterStart, StartStep, TypeOK, StartSteps
  <2> QED BY <1>5, <2>1 DEF EnterStart, Unstarted, TypeOK, supVars, downVars
<1>6. ASSUME NEW g \in Gens, MakeInTime(g) PROVE TypeOK'
  BY <1>6 DEF MakeInTime, StartStep, Unstarted, Recorded, TypeOK, CallSteps, Phases,
    StartSteps, TeardownSteps, supVars, startVars, resVars, downVars
<1>7. ASSUME NEW g \in Gens, MakeLate(g) PROVE TypeOK'
  BY <1>7 DEF MakeLate, StartStep, StartRejected, Recorded, TypeOK, CallSteps, Phases,
    StartSteps, TeardownSteps, supVars, startVars, resVars, downVars
<1>8. ASSUME NEW g \in Gens, MakeFails(g) PROVE TypeOK'
  <2>1. PICK cleanup \in SUBSET Works : FailStart(g, work[g] \cup cleanup)
    BY <1>8 DEF MakeFails
  <2>2. work[g] \cup cleanup \in SUBSET Works
    BY DEF TypeOK
  <2> QED BY <2>1, <2>2, FailStartType
<1>9. ASSUME NEW g \in Gens, Proceed(g) PROVE TypeOK'
  <2>1. start' \in [Gens -> StartSteps] /\ stage' \in [Gens -> Stages]
    BY <1>9 DEF Proceed, StartRejected, StartStep, TypeOK, StartSteps, Stages
  <2>2. live' \in [Gens -> SUBSET Kinds] /\ work' \in [Gens -> SUBSET Works]
    <3>1. CASE Disposing(g)
      BY <1>9, <3>1, SMTT(30) DEF Proceed, StartRejected, TypeOK
    <3>2. CASE ~ Disposing(g)
      BY <1>9, <3>2 DEF Proceed, TypeOK
    <3> QED BY <3>1, <3>2
  <2> QED BY <1>9, <2>1, <2>2 DEF Proceed, Unstarted, TypeOK, supVars, downVars
<1>10. ASSUME NEW g \in Gens, Ready(g) PROVE TypeOK'
  BY <1>10 DEF Ready, StartStep, Unstarted, TypeOK, CallSteps, Phases, StartSteps,
    TeardownSteps, supVars, startVars, resVars, downVars
<1>11. ASSUME NEW g \in Gens, InitializeFails(g) PROVE TypeOK'
  BY <1>11, FailStartType DEF InitializeFails, TypeOK
<1>12. ASSUME NEW g \in Gens, InitializeAborted(g) PROVE TypeOK'
  BY <1>12, FailStartType DEF InitializeAborted, TypeOK
<1>13. ASSUME NEW g \in Gens, StartupSettles(g) PROVE TypeOK'
  BY <1>13 DEF StartupSettles, TypeOK, CallSteps, Phases, StartSteps, TeardownSteps,
    supVars, startVars, resVars, downVars
<1>14. ASSUME NEW g \in Gens, CallbacksSettle(g) PROVE TypeOK'
  <2>1. PICK ok \in BOOLEAN :
          /\ Confirm(g, "callbacks", ok)
          /\ IF "handshake" \in has[g]
             THEN /\ teardown' = [teardown EXCEPT ![g] = "animal"]
                  /\ live' = [live EXCEPT ![g] = Left(g, "callbacks", ok)]
                  /\ UNCHANGED awaited
             ELSE StartSettling(g, Left(g, "callbacks", ok), work[g])
    BY <1>14 DEF CallbacksSettle, Endings
  <2>2. Left(g, "callbacks", ok) \in SUBSET Kinds /\ work[g] \in SUBSET Works
    BY DEF Left, TypeOK
  <2>3. confirmed' \in [Gens -> SUBSET Boundaries]
    BY <2>1 DEF Confirm, TypeOK, Boundaries
  <2>4. /\ teardown' \in [Gens -> TeardownSteps] /\ awaited' \in [Gens -> SUBSET Works]
        /\ live' \in [Gens -> SUBSET Kinds]
    <3>1. CASE "handshake" \in has[g]
      BY <2>1, <2>2, <3>1 DEF TypeOK, TeardownSteps
    <3>2. CASE "handshake" \notin has[g]
      BY <2>1, <2>2, <3>2, SettlingType
    <3> QED BY <3>1, <3>2
  <2> QED BY <1>14, <2>3, <2>4 DEF CallbacksSettle, NotTorn, TypeOK, supVars, startVars
<1>15. ASSUME NEW g \in Gens, AnimalSettles(g) PROVE TypeOK'
  <2>1. PICK ok \in BOOLEAN :
          /\ Confirm(g, "handshake", ok)
          /\ StartSettling(g, Left(g, "handshake", ok), work[g])
    BY <1>15 DEF AnimalSettles, Endings
  <2>2. Left(g, "handshake", ok) \in SUBSET Kinds /\ work[g] \in SUBSET Works
    BY DEF Left, TypeOK
  <2>3. confirmed' \in [Gens -> SUBSET Boundaries]
    BY <2>1 DEF Confirm, TypeOK, Boundaries
  <2>4. /\ teardown' \in [Gens -> TeardownSteps] /\ awaited' \in [Gens -> SUBSET Works]
        /\ live' \in [Gens -> SUBSET Kinds]
    BY <2>1, <2>2, SettlingType
  <2> QED BY <1>15, <2>3, <2>4 DEF AnimalSettles, NotTorn, TypeOK, supVars, startVars
<1>16. ASSUME NEW g \in Gens, Settled(g) PROVE TypeOK'
  BY <1>16 DEF Settled, TypeOK, CallSteps, Phases, StartSteps, TeardownSteps, supVars,
    startVars, resVars, downVars
<1>17. ASSUME NEW g \in Gens, LateSettled(g) PROVE TypeOK'
  BY <1>17 DEF LateSettled, TypeOK, CallSteps, Phases, StartSteps, TeardownSteps,
    supVars, startVars, resVars, downVars
<1>18. ASSUME NEW g \in Gens, Finish(g) PROVE TypeOK'
  <2>1. /\ phase' \in [Gens -> Phases] /\ live' \in [Gens -> SUBSET Kinds]
        /\ current' \in Gens \cup {Nobody} /\ quarantine' \in Gens \cup {Nobody}
    <3>1. CASE Release(g)
      BY <3>1 DEF Release, TypeOK, Phases
    <3>2. CASE Quarantine(g)
      BY <3>2 DEF Quarantine, TypeOK, Phases
    <3> QED BY <1>18, <3>1, <3>2 DEF Finish
  <2> QED BY <1>18, <2>1 DEF Finish, TypeOK, startVars, TeardownSteps
<1>19. ASSUME NEW g \in Gens, NEW isFatal \in BOOLEAN, Dispose(g, isFatal) PROVE TypeOK'
  <2>1. fatal' \in [Gens -> BOOLEAN]
    BY <1>19 DEF Dispose, TypeOK
  <2>2. DisposeTyped'
    <3>1. CASE teardown[g] = "no"
      <4>1. PICK owners \in {{}, {"owners"}} : BeginDispose(g, work[g] \cup owners)
        BY <1>19, <3>1 DEF Dispose
      <4>2. work[g] \cup owners \in SUBSET Works
        BY DEF TypeOK
      <4> QED BY <4>1, <4>2, BeginDisposeType
    <3>2. CASE teardown[g] # "no"
      BY <1>19, <3>2 DEF Dispose, DisposeTyped, TypeOK, downVars
    <3> QED BY <3>1, <3>2
  <2> QED BY <1>19, <2>1, <2>2 DEF Dispose, DisposeTyped, TypeOK, supVars, startVars
<1>20. ASSUME NEW g \in Gens, NEW o \in Ops, Track(g, o) PROVE TypeOK'
  BY <1>20 DEF Track, TypeOK, CallSteps, Phases, StartSteps, TeardownSteps, supVars,
    startVars, resVars, downVars
<1>21. ASSUME NEW g \in Gens, NEW w \in Works, WorkSettles(g, w) PROVE TypeOK'
  BY <1>21 DEF WorkSettles, TypeOK, CallSteps, Phases, StartSteps, TeardownSteps,
    supVars, startVars, resVars, downVars
<1>22. CASE UNCHANGED vars
  BY <1>22 DEF vars, supVars, startVars, resVars, downVars, TypeOK
<1> QED BY <1>1, <1>2, <1>3, <1>4, <1>5, <1>6, <1>7, <1>8, <1>9, <1>10, <1>11, <1>12,
  <1>13, <1>14, <1>15, <1>16, <1>17, <1>18, <1>19, <1>20, <1>21, <1>22 DEF Next,
  Supervision, Startup, Acquire, Teardown

\* Every variable keeps its type, for every number of create() calls and of
\* operations and every set of faults (the whole of app_runtime.ts that is modelled).
THEOREM TypeCorrect == Spec => []TypeOK
<1>1. Init => TypeOK
  BY InitType
<1>2. TypeOK /\ [Next]_vars => TypeOK'
  BY NextType
<1> QED BY <1>1, <1>2, PTL DEF Spec

-----------------------------------------------------------------------------
(* The inductive invariant.                                                 *)

\* Phases, call and teardown agree; before start() nothing has been acquired.
PhasesAgree == \A g \in Gens :
  /\ phase[g] = "none" <=> call[g] # "created"
  /\ teardown[g] = "no" <=> ~ Disposing(g)
  /\ teardown[g] = "over" <=> phase[g] \in {"disposed", "reload-required"}
  /\ phase[g] \in {"none", "created"} => start[g] = "no" /\ stage[g] = 1

\* Who holds the slot.
SlotHeld ==
  /\ \A g \in Gens : phase[g] \notin {"none", "disposed"} => current = g
  /\ current # Nobody => phase[current] \notin {"none", "disposed"}
  /\ quarantine # Nobody <=> \E g \in Gens : phase[g] = "reload-required"

\* A resource that is live is in its field; farm and services stay live.
LiveOf(g) ==
  /\ live[g] \subseteq has[g]
  /\ phase[g] = "none" => live[g] = {}
  /\ phase[g] \notin {"none", "disposed"} =>
       "services" \in live[g] /\ ("farm" \in has[g] => "farm" \in live[g])
LiveResources == \A g \in Gens : LiveOf(g)

\* Nothing is left of a generation that was disposed of, nor uses it.
NothingLeft == \A g \in Gens : phase[g] = "disposed" =>
  live[g] = {} /\ work[g] \cap (Ops \cup {"startup"}) = {}

\* Where start() may be when a disposal meets it.
StartMet == \A g \in Gens :
  /\ Running(g) /\ (stage[g] # 1 \/ start[g] = "made") => "callbacks" \in has[g]
  /\ Running(g) /\ Disposing(g) =>
       \/ teardown[g] = "callbacks"
       \/ teardown[g] = "settling" /\ stage[g] = 1 /\ start[g] # "made"

\* What the disposal knows about the boundaries: one that is confirmed and live
\* came late, and is waited for or makes the generation unsafe.
KnownOf(g) ==
  /\ Disposing(g) =>
       \A b \in confirmed[g] : b \in live[g] => b \in late[g] \/ lateUnsafe[g]
  /\ teardown[g] = "finish" /\ settled[g] => late[g] \cap live[g] = {}
BoundariesKnown == \A g \in Gens : KnownOf(g)

\* Workers and listeners do not outlive the beginning of the settlement.
StoppedOf(g) ==
  /\ teardown[g] \in {"settling", "late", "finish", "over"} => Workers \cap live[g] = {}
  /\ Disposing(g) /\ "farm" \in has[g] => detached[g]
Stopped == \A g \in Gens : StoppedOf(g)

\* The settlement waits for every operation there is.
AwaitedOf(g) ==
  /\ teardown[g] \in {"settling", "late", "finish"} =>
       work[g] \cap (Ops \cup {"startup"}) \subseteq awaited[g]
  /\ teardown[g] \in {"late", "finish"} /\ settled[g] => awaited[g] \cap work[g] = {}
Awaited == \A g \in Gens : AwaitedOf(g)

Inv == /\ TypeOK /\ PhasesAgree /\ SlotHeld /\ LiveResources /\ NothingLeft
       /\ StartMet /\ BoundariesKnown /\ Stopped /\ Awaited

-----------------------------------------------------------------------------
(* What the blocks of a disposal do to one generation.                      *)

\* Nothing of h changes that the invariant speaks of.
Untouched(h) ==
  /\ phase'[h] = phase[h] /\ start'[h] = start[h] /\ stage'[h] = stage[h]
  /\ has'[h] = has[h] /\ live'[h] = live[h] /\ late'[h] = late[h]
  /\ lateUnsafe'[h] = lateUnsafe[h] /\ detached'[h] = detached[h]
  /\ work'[h] = work[h] /\ teardown'[h] = teardown[h] /\ awaited'[h] = awaited[h]
  /\ confirmed'[h] = confirmed[h] /\ settled'[h] = settled[h]

\* The disposal of g has begun, in a state with those pending operations.
Begun(g, pending) ==
  /\ phase'[g] = "disposing" /\ work'[g] = pending
  /\ confirmed'[g] = Boundaries \ has[g]
  /\ "farm" \in has[g] => detached'[g]
  /\ IF "callbacks" \in has[g]
     THEN teardown'[g] = "callbacks" /\ live'[g] = live[g]
     ELSE teardown'[g] = "settling" /\ live'[g] = live[g] \ Workers /\ awaited'[g] = pending

LEMMA BeginDisposeEffect ==
  ASSUME TypeOK, NEW g \in Gens, NEW pending \in SUBSET Works, BeginDispose(g, pending)
  PROVE  Begun(g, pending)
<1>1. /\ phase'[g] = "disposing" /\ work'[g] = pending
      /\ confirmed'[g] = Boundaries \ has[g]
      /\ "farm" \in has[g] => detached'[g]
  BY DEF BeginDispose, TypeOK
<1>2. CASE "callbacks" \in has[g]
  BY <1>1, <1>2 DEF BeginDispose, Begun, TypeOK
<1>3. CASE "callbacks" \notin has[g]
  BY <1>1, <1>3 DEF BeginDispose, StartSettling, Begun, TypeOK
<1> QED BY <1>2, <1>3

LEMMA DisposeEffect ==
  ASSUME TypeOK, NEW g \in Gens, NEW isFatal \in BOOLEAN, Dispose(g, isFatal)
  PROVE  /\ has' = has /\ start' = start /\ stage' = stage /\ late' = late
         /\ lateUnsafe' = lateUnsafe
         /\ \A h \in Gens \ {g} : Untouched(h)
         /\ \/ teardown[g] # "no" /\ Untouched(g)
            \/ /\ teardown[g] = "no"
               /\ \E owners \in {{}, {"owners"}} : Begun(g, work[g] \cup owners)
<1>1. /\ has' = has /\ start' = start /\ stage' = stage /\ late' = late
      /\ lateUnsafe' = lateUnsafe
  BY DEF Dispose, startVars
<1>2. \A h \in Gens \ {g} : Untouched(h)
  BY <1>1 DEF Dispose, BeginDispose, StartSettling, Untouched, TypeOK, downVars
<1>3. CASE teardown[g] # "no"
  BY <1>1, <1>2, <1>3 DEF Dispose, Untouched, downVars
<1>4. CASE teardown[g] = "no"
  <2>1. PICK owners \in {{}, {"owners"}} : BeginDispose(g, work[g] \cup owners)
    BY <1>4 DEF Dispose
  <2>2. work[g] \cup owners \in SUBSET Works
    BY Kinded DEF TypeOK
  <2> QED BY <1>1, <1>2, <1>4, <2>1, <2>2, BeginDisposeEffect
<1> QED BY <1>3, <1>4

LEMMA FailStartEffect ==
  ASSUME TypeOK, NEW g \in Gens, NEW pending \in SUBSET Works, FailStart(g, pending)
  PROVE  /\ has' = has /\ stage' = stage /\ late' = late /\ lateUnsafe' = lateUnsafe
         /\ start'[g] = "rejected"
         /\ \A h \in Gens \ {g} : Untouched(h)
         /\ \/ /\ Disposing(g)
               /\ work'[g] = pending \ {"startup"}
               /\ UNCHANGED <<phase, downVars, live, detached>>
            \/ /\ ~ Disposing(g)
               /\ \E owners \in {{}, {"owners"}} :
                    Begun(g, (pending \ {"startup"}) \cup owners)
<1>1. /\ has' = has /\ stage' = stage /\ late' = late /\ lateUnsafe' = lateUnsafe
      /\ start'[g] = "rejected"
  BY DEF FailStart, StartStep, TypeOK
<1>2. \A h \in Gens \ {g} : Untouched(h)
  BY <1>1 DEF FailStart, StartStep, BeginDispose, StartSettling, Untouched, TypeOK,
    downVars
<1>3. CASE Disposing(g)
  BY <1>1, <1>2, <1>3 DEF FailStart, TypeOK
<1>4. CASE ~ Disposing(g)
  <2>1. PICK owners \in {{}, {"owners"}} :
          BeginDispose(g, (pending \ {"startup"}) \cup owners)
    BY <1>4 DEF FailStart
  <2>2. (pending \ {"startup"}) \cup owners \in SUBSET Works
    BY Kinded
  <2>3. Begun(g, (pending \ {"startup"}) \cup owners)
    BY <2>1, <2>2, BeginDisposeEffect
  <2> QED BY <1>1, <1>2, <1>4, <2>3
<1> QED BY <1>3, <1>4

\* MakeFails, InitializeFails and InitializeAborted, whatever is pending.
Fails(g) == \E pending \in SUBSET Works :
  /\ work[g] \subseteq pending /\ pending \subseteq work[g] \cup {"construction"}
  /\ start[g] # "no" /\ (Running(g) \/ pending = work[g])
  /\ FailStart(g, pending)

LEMMA MakeFailsFails == ASSUME TypeOK, NEW g \in Gens, MakeFails(g) PROVE Fails(g)
<1>1. PICK cleanup \in {{}, {"construction"}} : FailStart(g, work[g] \cup cleanup)
  BY DEF MakeFails
<1>2. work[g] \cup cleanup \in SUBSET Works
  BY Kinded DEF TypeOK
<1> QED BY <1>1, <1>2 DEF Fails, MakeFails, Running

LEMMA InitializeFailsFails ==
  ASSUME TypeOK, NEW g \in Gens, InitializeFails(g) \/ InitializeAborted(g)
  PROVE  Fails(g) /\ start[g] = "initializing"
<1>1. work[g] \in SUBSET Works
  BY DEF TypeOK
<1> QED BY <1>1 DEF Fails, InitializeFails, InitializeAborted

LEMMA NextPhasesAgree == Inv /\ TypeOK' /\ [Next]_vars => PhasesAgree'
<1> SUFFICES ASSUME Inv, TypeOK', [Next]_vars PROVE PhasesAgree'
  OBVIOUS
<1> USE RuntimeAssumption
<1>1. ASSUME NEW g \in Gens, Create(g) PROVE PhasesAgree'
  BY <1>1 DEF Create, supVars, startVars, resVars, downVars, Inv, TypeOK, PhasesAgree,
    Disposing, Idle, Running
<1>2. ASSUME NEW g \in Gens, Admit(g) PROVE PhasesAgree'
  BY <1>2 DEF Admit, HoldsTurn, Refuse, Construct, ConstructOrFail, supVars,
    startVars, resVars, downVars, Inv, TypeOK, PhasesAgree, Disposing, Idle, Running
<1>3. ASSUME NEW g \in Gens, AwaitedTeardown(g) PROVE PhasesAgree'
  BY <1>3 DEF AwaitedTeardown, HoldsTurn, Refuse, Construct, ConstructOrFail, supVars,
    startVars, resVars, downVars, Inv, TypeOK, PhasesAgree, Disposing, Idle, Running
<1>4. ASSUME NEW g \in Gens, Start(g) PROVE PhasesAgree'
  BY <1>4 DEF Start, StartStep, Unstarted, supVars, startVars, resVars, downVars, Inv,
    TypeOK, PhasesAgree, Disposing, Idle, Running
<1>5. ASSUME NEW g \in Gens, EnterStart(g) PROVE PhasesAgree'
  BY <1>5 DEF EnterStart, StartStep, Unstarted, supVars, startVars, resVars, downVars,
    Inv, TypeOK, PhasesAgree, Disposing, Idle, Running
<1>6. ASSUME NEW g \in Gens, MakeInTime(g) PROVE PhasesAgree'
  BY <1>6 DEF MakeInTime, StartStep, Unstarted, Recorded, supVars, startVars, resVars,
    downVars, Inv, TypeOK, PhasesAgree, Disposing, Idle, Running
<1>7. ASSUME NEW g \in Gens, MakeLate(g) PROVE PhasesAgree'
  BY <1>7 DEF MakeLate, StartStep, StartRejected, Recorded, supVars, startVars,
    resVars, downVars, Inv, TypeOK, PhasesAgree, Disposing, Idle, Running
<1>8. ASSUME NEW g \in Gens, MakeFails(g) PROVE PhasesAgree'
  BY SMTT(30), <1>8 DEF MakeFails, StartStep, FailStart, BeginDispose, StartSettling,
    supVars, startVars, resVars, downVars, Inv, TypeOK, PhasesAgree, Disposing,
    Idle, Running
<1>9. ASSUME NEW g \in Gens, Proceed(g) PROVE PhasesAgree'
  BY <1>9 DEF Proceed, StartStep, Unstarted, StartRejected, supVars, startVars,
    resVars, downVars, Inv, TypeOK, PhasesAgree, Disposing, Idle, Running
<1>10. ASSUME NEW g \in Gens, Ready(g) PROVE PhasesAgree'
  BY <1>10 DEF Ready, StartStep, Unstarted, supVars, startVars, resVars, downVars,
    Inv, TypeOK, PhasesAgree, Disposing, Idle, Running
<1>11. ASSUME NEW g \in Gens, InitializeFails(g) PROVE PhasesAgree'
  BY SMTT(30), <1>11 DEF InitializeFails, StartStep, FailStart, BeginDispose,
    StartSettling, supVars, startVars, resVars, downVars, Inv, TypeOK, PhasesAgree,
    Disposing, Idle, Running
<1>12. ASSUME NEW g \in Gens, InitializeAborted(g) PROVE PhasesAgree'
  BY SMTT(30), <1>12 DEF InitializeAborted, StartStep, FailStart, BeginDispose,
    StartSettling, supVars, startVars, resVars, downVars, Inv, TypeOK, PhasesAgree,
    Disposing, Idle, Running
<1>13. ASSUME NEW g \in Gens, StartupSettles(g) PROVE PhasesAgree'
  BY <1>13 DEF StartupSettles, supVars, startVars, resVars, downVars, Inv, TypeOK,
    PhasesAgree, Disposing, Idle, Running
<1>14. ASSUME NEW g \in Gens, CallbacksSettle(g) PROVE PhasesAgree'
  BY <1>14 DEF CallbacksSettle, NotTorn, Confirm, Left, StartSettling, Endings,
    supVars, startVars, resVars, downVars, Inv, TypeOK, PhasesAgree, Disposing,
    Idle, Running
<1>15. ASSUME NEW g \in Gens, AnimalSettles(g) PROVE PhasesAgree'
  BY <1>15 DEF AnimalSettles, NotTorn, Confirm, Left, StartSettling, Endings, supVars,
    startVars, resVars, downVars, Inv, TypeOK, PhasesAgree, Disposing, Idle, Running
<1>16. ASSUME NEW g \in Gens, Settled(g) PROVE PhasesAgree'
  BY <1>16 DEF Settled, supVars, startVars, resVars, downVars, Inv, TypeOK,
    PhasesAgree, Disposing, Idle, Running
<1>17. ASSUME NEW g \in Gens, LateSettled(g) PROVE PhasesAgree'
  BY <1>17 DEF LateSettled, supVars, startVars, resVars, downVars, Inv, TypeOK,
    PhasesAgree, Disposing, Idle, Running
<1>18. ASSUME NEW g \in Gens, Finish(g) PROVE PhasesAgree'
  BY <1>18 DEF Finish, Release, Quarantine, Safe, supVars, startVars, resVars,
    downVars, Inv, TypeOK, PhasesAgree, Disposing, Idle, Running
<1>19. ASSUME NEW g \in Gens, NEW isFatal \in BOOLEAN, Dispose(g, isFatal) PROVE PhasesAgree'
  BY SMTT(30), <1>19 DEF Dispose, BeginDispose, StartSettling, supVars, startVars,
    resVars, downVars, Inv, TypeOK, PhasesAgree, Disposing, Idle, Running
<1>20. ASSUME NEW g \in Gens, NEW o \in Ops, Track(g, o) PROVE PhasesAgree'
  BY <1>20 DEF Track, supVars, startVars, resVars, downVars, Inv, TypeOK, PhasesAgree,
    Disposing, Idle, Running
<1>21. ASSUME NEW g \in Gens, NEW w \in Works, WorkSettles(g, w) PROVE PhasesAgree'
  BY <1>21 DEF WorkSettles, supVars, startVars, resVars, downVars, Inv, TypeOK,
    PhasesAgree, Disposing, Idle, Running
<1>22. CASE UNCHANGED vars
  BY <1>22 DEF vars, supVars, startVars, resVars, downVars, Inv, PhasesAgree,
    Disposing, Idle, Running
<1> QED BY <1>1, <1>2, <1>3, <1>4, <1>5, <1>6, <1>7, <1>8, <1>9, <1>10, <1>11, <1>12,
  <1>13, <1>14, <1>15, <1>16, <1>17, <1>18, <1>19, <1>20, <1>21, <1>22 DEF Next,
  Supervision, Startup, Acquire, Teardown

LEMMA NextSlotHeld == Inv /\ TypeOK' /\ [Next]_vars => SlotHeld'
<1> SUFFICES ASSUME Inv, TypeOK', [Next]_vars PROVE SlotHeld'
  OBVIOUS
<1> USE RuntimeAssumption
<1>1. ASSUME NEW g \in Gens, Create(g) PROVE SlotHeld'
  BY <1>1 DEF Create, supVars, startVars, resVars, downVars, Inv, TypeOK, PhasesAgree,
    SlotHeld, Disposing
<1>2. ASSUME NEW g \in Gens, Admit(g) PROVE SlotHeld'
  BY <1>2 DEF Admit, HoldsTurn, Refuse, Construct, ConstructOrFail, supVars,
    startVars, resVars, downVars, Inv, TypeOK, PhasesAgree, SlotHeld, Disposing
<1>3. ASSUME NEW g \in Gens, AwaitedTeardown(g) PROVE SlotHeld'
  BY <1>3 DEF AwaitedTeardown, HoldsTurn, Refuse, Construct, ConstructOrFail, supVars,
    startVars, resVars, downVars, Inv, TypeOK, PhasesAgree, SlotHeld, Disposing
<1>4. ASSUME NEW g \in Gens, Start(g) PROVE SlotHeld'
  BY <1>4 DEF Start, StartStep, Unstarted, supVars, startVars, resVars, downVars, Inv,
    TypeOK, PhasesAgree, SlotHeld, Disposing
<1>5. ASSUME NEW g \in Gens, EnterStart(g) PROVE SlotHeld'
  BY <1>5 DEF EnterStart, StartStep, Unstarted, supVars, startVars, resVars, downVars,
    Inv, TypeOK, PhasesAgree, SlotHeld, Disposing
<1>6. ASSUME NEW g \in Gens, MakeInTime(g) PROVE SlotHeld'
  BY <1>6 DEF MakeInTime, StartStep, Unstarted, Recorded, supVars, startVars, resVars,
    downVars, Inv, TypeOK, PhasesAgree, SlotHeld, Disposing
<1>7. ASSUME NEW g \in Gens, MakeLate(g) PROVE SlotHeld'
  BY <1>7 DEF MakeLate, StartStep, StartRejected, Recorded, supVars, startVars,
    resVars, downVars, Inv, TypeOK, PhasesAgree, SlotHeld, Disposing
<1>8. ASSUME NEW g \in Gens, MakeFails(g) PROVE SlotHeld'
  BY SMTT(30), <1>8 DEF MakeFails, StartStep, FailStart, BeginDispose, StartSettling,
    supVars, startVars, resVars, downVars, Inv, TypeOK, PhasesAgree, SlotHeld,
    Disposing
<1>9. ASSUME NEW g \in Gens, Proceed(g) PROVE SlotHeld'
  BY <1>9 DEF Proceed, StartStep, Unstarted, StartRejected, supVars, startVars,
    resVars, downVars, Inv, TypeOK, PhasesAgree, SlotHeld, Disposing
<1>10. ASSUME NEW g \in Gens, Ready(g) PROVE SlotHeld'
  BY <1>10 DEF Ready, StartStep, Unstarted, supVars, startVars, resVars, downVars,
    Inv, TypeOK, PhasesAgree, SlotHeld, Disposing
<1>11. ASSUME NEW g \in Gens, InitializeFails(g) PROVE SlotHeld'
  BY SMTT(30), <1>11 DEF InitializeFails, StartStep, FailStart, BeginDispose,
    StartSettling, supVars, startVars, resVars, downVars, Inv, TypeOK, PhasesAgree,
    SlotHeld, Disposing
<1>12. ASSUME NEW g \in Gens, InitializeAborted(g) PROVE SlotHeld'
  BY SMTT(30), <1>12 DEF InitializeAborted, StartStep, FailStart, BeginDispose,
    StartSettling, supVars, startVars, resVars, downVars, Inv, TypeOK, PhasesAgree,
    SlotHeld, Disposing
<1>13. ASSUME NEW g \in Gens, StartupSettles(g) PROVE SlotHeld'
  BY <1>13 DEF StartupSettles, supVars, startVars, resVars, downVars, Inv, TypeOK,
    PhasesAgree, SlotHeld, Disposing
<1>14. ASSUME NEW g \in Gens, CallbacksSettle(g) PROVE SlotHeld'
  BY <1>14 DEF CallbacksSettle, NotTorn, Confirm, Left, StartSettling, Endings,
    supVars, startVars, resVars, downVars, Inv, TypeOK, PhasesAgree, SlotHeld,
    Disposing
<1>15. ASSUME NEW g \in Gens, AnimalSettles(g) PROVE SlotHeld'
  BY <1>15 DEF AnimalSettles, NotTorn, Confirm, Left, StartSettling, Endings, supVars,
    startVars, resVars, downVars, Inv, TypeOK, PhasesAgree, SlotHeld, Disposing
<1>16. ASSUME NEW g \in Gens, Settled(g) PROVE SlotHeld'
  BY <1>16 DEF Settled, supVars, startVars, resVars, downVars, Inv, TypeOK,
    PhasesAgree, SlotHeld, Disposing
<1>17. ASSUME NEW g \in Gens, LateSettled(g) PROVE SlotHeld'
  BY <1>17 DEF LateSettled, supVars, startVars, resVars, downVars, Inv, TypeOK,
    PhasesAgree, SlotHeld, Disposing
<1>18. ASSUME NEW g \in Gens, Finish(g) PROVE SlotHeld'
  <2>1. phase[g] = "disposing" /\ current = g /\ quarantine = Nobody
    BY <1>18 DEF Finish, Inv, TypeOK, PhasesAgree, SlotHeld, Disposing, Phases
  <2>2. CASE Release(g)
    BY <1>18, <2>1, <2>2 DEF Release, Inv, TypeOK, SlotHeld
  <2>3. CASE Quarantine(g)
    BY <1>18, <2>1, <2>3 DEF Quarantine, Inv, TypeOK, SlotHeld
  <2> QED BY <1>18, <2>2, <2>3 DEF Finish
<1>19. ASSUME NEW g \in Gens, NEW isFatal \in BOOLEAN, Dispose(g, isFatal) PROVE SlotHeld'
  BY SMTT(30), <1>19 DEF Dispose, BeginDispose, StartSettling, supVars, startVars,
    resVars, downVars, Inv, TypeOK, PhasesAgree, SlotHeld, Disposing
<1>20. ASSUME NEW g \in Gens, NEW o \in Ops, Track(g, o) PROVE SlotHeld'
  BY <1>20 DEF Track, supVars, startVars, resVars, downVars, Inv, TypeOK, PhasesAgree,
    SlotHeld, Disposing
<1>21. ASSUME NEW g \in Gens, NEW w \in Works, WorkSettles(g, w) PROVE SlotHeld'
  BY <1>21 DEF WorkSettles, supVars, startVars, resVars, downVars, Inv, TypeOK,
    PhasesAgree, SlotHeld, Disposing
<1>22. CASE UNCHANGED vars
  BY <1>22 DEF vars, supVars, startVars, resVars, downVars, Inv, PhasesAgree,
    SlotHeld, Disposing
<1> QED BY <1>1, <1>2, <1>3, <1>4, <1>5, <1>6, <1>7, <1>8, <1>9, <1>10, <1>11, <1>12,
  <1>13, <1>14, <1>15, <1>16, <1>17, <1>18, <1>19, <1>20, <1>21, <1>22 DEF Next,
  Supervision, Startup, Acquire, Teardown

LEMMA NextLiveResources == Inv /\ TypeOK' /\ [Next]_vars => LiveResources'
<1> SUFFICES ASSUME Inv, TypeOK', [Next]_vars PROVE LiveResources'
  OBVIOUS
<1> USE RuntimeAssumption
<1>1. ASSUME NEW g \in Gens, Create(g) PROVE LiveResources'
  BY <1>1 DEF Create, supVars, startVars, resVars, downVars, Inv, TypeOK,
    LiveResources, LiveOf, PhasesAgree, StartMet, Disposing, Running, Idle, Workers,
    Boundaries
<1>2. ASSUME NEW g \in Gens, Admit(g) PROVE LiveResources'
  <2> SUFFICES ASSUME NEW h \in Gens PROVE LiveOf(h)'
    BY DEF LiveResources
  <2>1. CASE h # g
    BY <1>2, <2>1 DEF Admit, HoldsTurn, Refuse, Construct, ConstructOrFail, supVars,
      startVars, resVars, downVars, Inv, TypeOK, LiveResources, LiveOf, Disposing
  <2>2. CASE h = g
    BY SMTT(20), <1>2, <2>2 DEF Admit, HoldsTurn, Refuse, Construct, ConstructOrFail,
      supVars, startVars, resVars, downVars, Inv, TypeOK, LiveResources, LiveOf,
      PhasesAgree, StartMet, Disposing, Running, Idle, Workers, Boundaries
  <2> QED BY <2>1, <2>2
<1>3. ASSUME NEW g \in Gens, AwaitedTeardown(g) PROVE LiveResources'
  <2> SUFFICES ASSUME NEW h \in Gens PROVE LiveOf(h)'
    BY DEF LiveResources
  <2>1. CASE h # g
    BY <1>3, <2>1 DEF AwaitedTeardown, HoldsTurn, Refuse, Construct, ConstructOrFail,
      supVars, startVars, resVars, downVars, Inv, TypeOK, LiveResources, LiveOf,
      Disposing
  <2>2. CASE h = g
    BY SMTT(20), <1>3, <2>2 DEF AwaitedTeardown, HoldsTurn, Refuse, Construct,
      ConstructOrFail, supVars, startVars, resVars, downVars, Inv, TypeOK,
      LiveResources, LiveOf, PhasesAgree, StartMet, Disposing, Running, Idle,
      Workers, Boundaries
  <2> QED BY <2>1, <2>2
<1>4. ASSUME NEW g \in Gens, Start(g) PROVE LiveResources'
  BY <1>4 DEF Start, StartStep, Unstarted, supVars, startVars, resVars, downVars, Inv,
    TypeOK, LiveResources, LiveOf, PhasesAgree, StartMet, Disposing, Running, Idle,
    Workers, Boundaries
<1>5. ASSUME NEW g \in Gens, EnterStart(g) PROVE LiveResources'
  <2> SUFFICES ASSUME NEW h \in Gens PROVE LiveOf(h)'
    BY DEF LiveResources
  <2>1. CASE h # g
    BY <1>5, <2>1 DEF EnterStart, StartStep, Unstarted, supVars, startVars, resVars,
      downVars, Inv, TypeOK, LiveResources, LiveOf, Disposing
  <2>2. CASE h = g
    BY SMTT(20), <1>5, <2>2 DEF EnterStart, StartStep, Unstarted, supVars, startVars,
      resVars, downVars, Inv, TypeOK, LiveResources, LiveOf, PhasesAgree,
      StartMet, Disposing, Running, Idle, Workers, Boundaries
  <2> QED BY <2>1, <2>2
<1>6. ASSUME NEW g \in Gens, MakeInTime(g) PROVE LiveResources'
  <2> SUFFICES ASSUME NEW h \in Gens PROVE LiveOf(h)'
    BY DEF LiveResources
  <2>1. CASE h # g
    BY <1>6, <2>1 DEF MakeInTime, StartStep, Unstarted, Recorded, supVars, startVars,
      resVars, downVars, Inv, TypeOK, LiveResources, LiveOf, Disposing
  <2>2. CASE h = g
    BY SMTT(20), <1>6, <2>2 DEF MakeInTime, StartStep, Unstarted, Recorded, supVars,
      startVars, resVars, downVars, Inv, TypeOK, LiveResources, LiveOf,
      PhasesAgree, StartMet, Disposing, Running, Idle, Workers, Boundaries
  <2> QED BY <2>1, <2>2
<1>7. ASSUME NEW g \in Gens, MakeLate(g) PROVE LiveResources'
  <2> SUFFICES ASSUME NEW h \in Gens PROVE LiveOf(h)'
    BY DEF LiveResources
  <2>1. CASE h # g
    BY <1>7, <2>1 DEF MakeLate, StartStep, StartRejected, Recorded, supVars,
      startVars, resVars, downVars, Inv, TypeOK, LiveResources, LiveOf, Disposing
  <2>2. CASE h = g
    BY SMTT(20), <1>7, <2>2 DEF MakeLate, StartStep, StartRejected, Recorded, supVars,
      startVars, resVars, downVars, Inv, TypeOK, LiveResources, LiveOf,
      PhasesAgree, StartMet, Disposing, Running, Idle, Workers, Boundaries
  <2> QED BY <2>1, <2>2
<1>8. ASSUME NEW g \in Gens, Fails(g) PROVE LiveResources'
  <2>1. PICK pending \in SUBSET Works :
          /\ work[g] \subseteq pending /\ pending \subseteq work[g] \cup {"construction"}
          /\ start[g] # "no" /\ (Running(g) \/ pending = work[g])
          /\ FailStart(g, pending)
    BY <1>8 DEF Fails
  <2>2. /\ has' = has /\ late' = late /\ lateUnsafe' = lateUnsafe
        /\ \A h \in Gens \ {g} : Untouched(h)
        /\ \/ /\ Disposing(g)
              /\ work'[g] = pending \ {"startup"}
              /\ UNCHANGED <<phase, downVars, live, detached>>
           \/ /\ ~ Disposing(g)
              /\ \E owners \in {{}, {"owners"}} :
                   Begun(g, (pending \ {"startup"}) \cup owners)
    BY <2>1, FailStartEffect DEF Inv
  <2>3. ASSUME NEW h \in Gens, h # g PROVE LiveOf(h)'
    BY <2>2, <2>3 DEF Untouched, Inv, LiveResources, LiveOf, Disposing
  <2>4. ASSUME Disposing(g) PROVE LiveOf(g)'
    BY <2>2, <2>4 DEF Inv, LiveResources, LiveOf
  <2>5. ASSUME ~ Disposing(g) PROVE LiveOf(g)'
    <3>1. PICK owners \in {{}, {"owners"}} :
            Begun(g, (pending \ {"startup"}) \cup owners)
      BY <2>2, <2>5
    <3>2. phase[g] \notin {"none", "disposed"}
      BY <2>1, <2>5 DEF Inv, PhasesAgree, Disposing
    <3> QED BY <2>2, <3>1, <3>2 DEF Begun, Inv, LiveResources, LiveOf, Workers,
      Disposing
  <2> QED BY <2>3, <2>4, <2>5 DEF LiveResources
<1>9. ASSUME NEW g \in Gens, Proceed(g) PROVE LiveResources'
  <2> SUFFICES ASSUME NEW h \in Gens PROVE LiveOf(h)'
    BY DEF LiveResources
  <2>1. CASE h # g
    BY <1>9, <2>1 DEF Proceed, StartStep, Unstarted, StartRejected, supVars,
      startVars, resVars, downVars, Inv, TypeOK, LiveResources, LiveOf, Disposing
  <2>2. CASE h = g
    BY SMTT(20), <1>9, <2>2 DEF Proceed, StartStep, Unstarted, StartRejected, supVars,
      startVars, resVars, downVars, Inv, TypeOK, LiveResources, LiveOf,
      PhasesAgree, StartMet, Disposing, Running, Idle, Workers, Boundaries
  <2> QED BY <2>1, <2>2
<1>10. ASSUME NEW g \in Gens, Ready(g) PROVE LiveResources'
  BY <1>10 DEF Ready, StartStep, Unstarted, supVars, startVars, resVars, downVars,
    Inv, TypeOK, LiveResources, LiveOf, PhasesAgree, StartMet, Disposing, Running,
    Idle, Workers, Boundaries
<1>11. ASSUME NEW g \in Gens, StartupSettles(g) PROVE LiveResources'
  BY <1>11 DEF StartupSettles, supVars, startVars, resVars, downVars, Inv, TypeOK,
    LiveResources, LiveOf, PhasesAgree, StartMet, Disposing, Running, Idle, Workers,
    Boundaries
<1>12. ASSUME NEW g \in Gens, CallbacksSettle(g) PROVE LiveResources'
  <2>1. ASSUME NEW h \in Gens, h # g PROVE LiveOf(h)'
    BY <1>12, <2>1 DEF CallbacksSettle, NotTorn, StartSettling, Inv, TypeOK,
      LiveResources, LiveOf
  <2>2. /\ has' = has /\ phase' = phase
        /\ live'[g] \subseteq live[g]
        /\ live[g] \subseteq live'[g] \cup Workers \cup Boundaries
    BY <1>12 DEF CallbacksSettle, NotTorn, StartSettling, Left, Inv, TypeOK, Boundaries
  <2>3. LiveOf(g)'
    BY <2>2 DEF Inv, LiveResources, LiveOf, Boundaries, Workers
  <2> QED BY <2>1, <2>3 DEF LiveResources
<1>13. ASSUME NEW g \in Gens, AnimalSettles(g) PROVE LiveResources'
  <2> SUFFICES ASSUME NEW h \in Gens PROVE LiveOf(h)'
    BY DEF LiveResources
  <2>1. CASE h # g
    BY <1>13, <2>1 DEF AnimalSettles, NotTorn, Confirm, Left, StartSettling, Endings,
      supVars, startVars, resVars, downVars, Inv, TypeOK, LiveResources, LiveOf,
      Disposing
  <2>2. CASE h = g
    BY SMTT(20), <1>13, <2>2 DEF AnimalSettles, NotTorn, Confirm, Left, StartSettling,
      Endings, supVars, startVars, resVars, downVars, Inv, TypeOK, LiveResources,
      LiveOf, PhasesAgree, StartMet, Disposing, Running, Idle, Workers, Boundaries
  <2> QED BY <2>1, <2>2
<1>14. ASSUME NEW g \in Gens, Settled(g) PROVE LiveResources'
  BY <1>14 DEF Settled, supVars, startVars, resVars, downVars, Inv, TypeOK,
    LiveResources, LiveOf, PhasesAgree, StartMet, Disposing, Running, Idle, Workers,
    Boundaries
<1>15. ASSUME NEW g \in Gens, LateSettled(g) PROVE LiveResources'
  <2>1. ASSUME NEW h \in Gens, h # g PROVE LiveOf(h)'
    BY <1>15, <2>1 DEF LateSettled, Inv, TypeOK, LiveResources, LiveOf
  <2>2. /\ live'[g] \in {live[g], live[g] \ late[g]} /\ has' = has /\ phase' = phase
        /\ late[g] \subseteq Boundaries
    BY <1>15 DEF LateSettled, Inv, TypeOK
  <2>3. LiveOf(g)'
    BY <2>2 DEF Inv, LiveResources, LiveOf, Boundaries
  <2> QED BY <2>1, <2>3 DEF LiveResources
<1>16. ASSUME NEW g \in Gens, Finish(g) PROVE LiveResources'
  <2>1. ASSUME NEW h \in Gens, h # g PROVE LiveOf(h)'
    BY <1>16, <2>1 DEF Finish, Release, Quarantine, Inv, TypeOK, LiveResources, LiveOf
  <2>2. LiveOf(g)'
    <3>1. phase[g] = "disposing" /\ LiveOf(g) /\ has' = has
      BY <1>16 DEF Finish, Inv, PhasesAgree, Disposing, LiveResources
    <3>2. CASE Release(g)
      <4>1. phase'[g] = "disposed" /\ live'[g] = live[g] \ {"farm", "services"}
        BY <3>2 DEF Release, Inv, TypeOK
      <4> QED BY <3>1, <4>1 DEF LiveOf
    <3>3. CASE Quarantine(g)
      <4>1. phase'[g] = "reload-required" /\ live' = live
        BY <3>3 DEF Quarantine, Inv, TypeOK
      <4> QED BY <3>1, <4>1 DEF LiveOf
    <3> QED BY <1>16, <3>2, <3>3 DEF Finish
  <2> QED BY <2>1, <2>2 DEF LiveResources
<1>17. ASSUME NEW g \in Gens, NEW isFatal \in BOOLEAN, Dispose(g, isFatal) PROVE LiveResources'
  <2>1. /\ has' = has /\ late' = late /\ lateUnsafe' = lateUnsafe
        /\ \A h \in Gens \ {g} : Untouched(h)
        /\ \/ teardown[g] # "no" /\ Untouched(g)
           \/ /\ teardown[g] = "no"
              /\ \E owners \in {{}, {"owners"}} : Begun(g, work[g] \cup owners)
    BY <1>17, DisposeEffect DEF Inv
  <2>2. ASSUME NEW h \in Gens, Untouched(h) PROVE LiveOf(h)'
    BY <2>2 DEF Untouched, Inv, LiveResources, LiveOf, Disposing
  <2>3. ASSUME teardown[g] = "no" PROVE LiveOf(g)'
    <3>1. PICK owners \in {{}, {"owners"}} : Begun(g, work[g] \cup owners)
      BY <2>1, <2>3
    <3>2. phase[g] \notin {"none", "disposed"}
      BY <1>17, <2>3 DEF Dispose, Inv, PhasesAgree, Disposing
    <3> QED BY <2>1, <3>1, <3>2 DEF Begun, Inv, LiveResources, LiveOf, Workers
  <2> QED BY <2>1, <2>2, <2>3 DEF LiveResources
<1>18. ASSUME NEW g \in Gens, NEW o \in Ops, Track(g, o) PROVE LiveResources'
  BY <1>18 DEF Track, supVars, startVars, resVars, downVars, Inv, TypeOK,
    LiveResources, LiveOf, PhasesAgree, StartMet, Disposing, Running, Idle, Workers,
    Boundaries
<1>19. ASSUME NEW g \in Gens, NEW w \in Works, WorkSettles(g, w) PROVE LiveResources'
  BY <1>19 DEF WorkSettles, supVars, startVars, resVars, downVars, Inv, TypeOK,
    LiveResources, LiveOf, PhasesAgree, StartMet, Disposing, Running, Idle, Workers,
    Boundaries
<1>20. CASE UNCHANGED vars
  BY <1>20 DEF vars, supVars, startVars, resVars, downVars, Inv, LiveResources,
    LiveOf, PhasesAgree, StartMet, Disposing, Running, Idle, Workers, Boundaries
<1> QED BY <1>1, <1>2, <1>3, <1>4, <1>5, <1>6, <1>7, <1>8, <1>9, <1>10, <1>11, <1>12,
  <1>13, <1>14, <1>15, <1>16, <1>17, <1>18, <1>19, <1>20, MakeFailsFails,
  InitializeFailsFails DEF Next, Supervision, Startup, Acquire, Teardown, Inv

LEMMA NextNothingLeft == Inv /\ TypeOK' /\ [Next]_vars => NothingLeft'
<1> SUFFICES ASSUME Inv, TypeOK', [Next]_vars PROVE NothingLeft'
  OBVIOUS
<1> USE RuntimeAssumption
<1>1. ASSUME NEW g \in Gens, Create(g) PROVE NothingLeft'
  BY <1>1 DEF Create, supVars, startVars, resVars, downVars, Inv, TypeOK, NothingLeft,
    PhasesAgree, Disposing
<1>2. ASSUME NEW g \in Gens, Admit(g) PROVE NothingLeft'
  BY <1>2 DEF Admit, HoldsTurn, Refuse, Construct, ConstructOrFail, supVars,
    startVars, resVars, downVars, Inv, TypeOK, NothingLeft, PhasesAgree, Disposing
<1>3. ASSUME NEW g \in Gens, AwaitedTeardown(g) PROVE NothingLeft'
  BY <1>3 DEF AwaitedTeardown, HoldsTurn, Refuse, Construct, ConstructOrFail, supVars,
    startVars, resVars, downVars, Inv, TypeOK, NothingLeft, PhasesAgree, Disposing
<1>4. ASSUME NEW g \in Gens, Start(g) PROVE NothingLeft'
  BY <1>4 DEF Start, StartStep, Unstarted, supVars, startVars, resVars, downVars, Inv,
    TypeOK, NothingLeft, PhasesAgree, Disposing
<1>5. ASSUME NEW g \in Gens, EnterStart(g) PROVE NothingLeft'
  BY <1>5 DEF EnterStart, StartStep, Unstarted, supVars, startVars, resVars, downVars,
    Inv, TypeOK, NothingLeft, PhasesAgree, Disposing
<1>6. ASSUME NEW g \in Gens, MakeInTime(g) PROVE NothingLeft'
  BY <1>6 DEF MakeInTime, StartStep, Unstarted, Recorded, supVars, startVars, resVars,
    downVars, Inv, TypeOK, NothingLeft, PhasesAgree, Disposing
<1>7. ASSUME NEW g \in Gens, MakeLate(g) PROVE NothingLeft'
  <2>1. phase[g] # "disposed"
    BY <1>7 DEF MakeLate, Inv, StartMet, PhasesAgree, Running
  <2>2. phase' = phase /\ \A h \in Gens \ {g} : live'[h] = live[h] /\ work'[h] = work[h]
    BY <1>7 DEF MakeLate, StartRejected, Inv, TypeOK
  <2> QED BY <2>1, <2>2 DEF Inv, NothingLeft
<1>8. ASSUME NEW g \in Gens, MakeFails(g) PROVE NothingLeft'
  BY SMTT(30), <1>8 DEF MakeFails, StartStep, FailStart, BeginDispose, StartSettling,
    supVars, startVars, resVars, downVars, Inv, TypeOK, NothingLeft, PhasesAgree,
    Disposing
<1>9. ASSUME NEW g \in Gens, Proceed(g) PROVE NothingLeft'
  BY <1>9 DEF Proceed, StartStep, Unstarted, StartRejected, supVars, startVars,
    resVars, downVars, Inv, TypeOK, NothingLeft, PhasesAgree, Disposing
<1>10. ASSUME NEW g \in Gens, Ready(g) PROVE NothingLeft'
  BY <1>10 DEF Ready, StartStep, Unstarted, supVars, startVars, resVars, downVars,
    Inv, TypeOK, NothingLeft, PhasesAgree, Disposing
<1>11. ASSUME NEW g \in Gens, InitializeFails(g) PROVE NothingLeft'
  BY SMTT(30), <1>11 DEF InitializeFails, StartStep, FailStart, BeginDispose,
    StartSettling, supVars, startVars, resVars, downVars, Inv, TypeOK, NothingLeft,
    PhasesAgree, Disposing
<1>12. ASSUME NEW g \in Gens, InitializeAborted(g) PROVE NothingLeft'
  BY SMTT(30), <1>12 DEF InitializeAborted, StartStep, FailStart, BeginDispose,
    StartSettling, supVars, startVars, resVars, downVars, Inv, TypeOK, NothingLeft,
    PhasesAgree, Disposing
<1>13. ASSUME NEW g \in Gens, StartupSettles(g) PROVE NothingLeft'
  BY <1>13 DEF StartupSettles, supVars, startVars, resVars, downVars, Inv, TypeOK,
    NothingLeft, PhasesAgree, Disposing
<1>14. ASSUME NEW g \in Gens, CallbacksSettle(g) PROVE NothingLeft'
  BY <1>14 DEF CallbacksSettle, NotTorn, Confirm, Left, StartSettling, Endings,
    supVars, startVars, resVars, downVars, Inv, TypeOK, NothingLeft, PhasesAgree,
    Disposing
<1>15. ASSUME NEW g \in Gens, AnimalSettles(g) PROVE NothingLeft'
  BY <1>15 DEF AnimalSettles, NotTorn, Confirm, Left, StartSettling, Endings, supVars,
    startVars, resVars, downVars, Inv, TypeOK, NothingLeft, PhasesAgree, Disposing
<1>16. ASSUME NEW g \in Gens, Settled(g) PROVE NothingLeft'
  BY <1>16 DEF Settled, supVars, startVars, resVars, downVars, Inv, TypeOK,
    NothingLeft, PhasesAgree, Disposing
<1>17. ASSUME NEW g \in Gens, LateSettled(g) PROVE NothingLeft'
  BY <1>17 DEF LateSettled, supVars, startVars, resVars, downVars, Inv, TypeOK,
    NothingLeft, PhasesAgree, Disposing
<1>18. ASSUME NEW g \in Gens, Finish(g) PROVE NothingLeft'
  <2>1. \A h \in Gens \ {g} : phase'[h] = phase[h] /\ live'[h] = live[h] /\ work'[h] = work[h]
    BY <1>18 DEF Finish, Release, Quarantine, Inv, TypeOK
  <2>2. CASE Safe(g)
    <3>1. live'[g] = live[g] \ {"farm", "services"} /\ work' = work
      BY <1>18, <2>2 DEF Finish, Release, Inv, TypeOK
    <3>2. Disposing(g) /\ teardown[g] = "finish"
      BY <1>18 DEF Finish, Inv, PhasesAgree
    <3>3. work[g] \cap (Ops \cup {"startup"}) = {}
      BY <2>2, <3>2 DEF Safe, Inv, Awaited, AwaitedOf
    <3>4. Boundaries \cap live[g] = {}
      BY <2>2, <3>2 DEF Safe, Inv, BoundariesKnown, KnownOf
    <3>5. Workers \cap live[g] = {}
      BY <3>2 DEF Inv, Stopped, StoppedOf
    <3>6. live'[g] = {}
      BY <3>1, <3>4, <3>5 DEF Inv, TypeOK, Kinds, Boundaries, Workers
    <3> QED BY <2>1, <3>1, <3>3, <3>6 DEF Inv, NothingLeft
  <2>3. CASE ~ Safe(g)
    BY <1>18, <2>1, <2>3 DEF Finish, Quarantine, Inv, TypeOK, NothingLeft
  <2> QED BY <2>2, <2>3
<1>19. ASSUME NEW g \in Gens, NEW isFatal \in BOOLEAN, Dispose(g, isFatal) PROVE NothingLeft'
  BY SMTT(30), <1>19 DEF Dispose, BeginDispose, StartSettling, supVars, startVars,
    resVars, downVars, Inv, TypeOK, NothingLeft, PhasesAgree, Disposing
<1>20. ASSUME NEW g \in Gens, NEW o \in Ops, Track(g, o) PROVE NothingLeft'
  BY <1>20 DEF Track, supVars, startVars, resVars, downVars, Inv, TypeOK, NothingLeft,
    PhasesAgree, Disposing
<1>21. ASSUME NEW g \in Gens, NEW w \in Works, WorkSettles(g, w) PROVE NothingLeft'
  BY <1>21 DEF WorkSettles, supVars, startVars, resVars, downVars, Inv, TypeOK,
    NothingLeft, PhasesAgree, Disposing
<1>22. CASE UNCHANGED vars
  BY <1>22 DEF vars, supVars, startVars, resVars, downVars, Inv, NothingLeft,
    PhasesAgree, Disposing
<1> QED BY <1>1, <1>2, <1>3, <1>4, <1>5, <1>6, <1>7, <1>8, <1>9, <1>10, <1>11, <1>12,
  <1>13, <1>14, <1>15, <1>16, <1>17, <1>18, <1>19, <1>20, <1>21, <1>22 DEF Next,
  Supervision, Startup, Acquire, Teardown

LEMMA NextStartMet == Inv /\ TypeOK' /\ [Next]_vars => StartMet'
<1> SUFFICES ASSUME Inv, TypeOK', [Next]_vars PROVE StartMet'
  OBVIOUS
<1> USE RuntimeAssumption
<1>1. ASSUME NEW g \in Gens, Create(g) PROVE StartMet'
  BY <1>1 DEF Create, supVars, startVars, resVars, downVars, Inv, TypeOK, PhasesAgree,
    LiveResources, StartMet, Disposing, Running, Idle, Stages, Order
<1>2. ASSUME NEW g \in Gens, Admit(g) PROVE StartMet'
  BY <1>2 DEF Admit, HoldsTurn, Refuse, Construct, ConstructOrFail, supVars,
    startVars, resVars, downVars, Inv, TypeOK, PhasesAgree, LiveResources, StartMet,
    Disposing, Running, Idle, Stages, Order
<1>3. ASSUME NEW g \in Gens, AwaitedTeardown(g) PROVE StartMet'
  BY <1>3 DEF AwaitedTeardown, HoldsTurn, Refuse, Construct, ConstructOrFail, supVars,
    startVars, resVars, downVars, Inv, TypeOK, PhasesAgree, LiveResources, StartMet,
    Disposing, Running, Idle, Stages, Order
<1>4. ASSUME NEW g \in Gens, Start(g) PROVE StartMet'
  BY <1>4 DEF Start, StartStep, Unstarted, supVars, startVars, resVars, downVars, Inv,
    TypeOK, PhasesAgree, LiveResources, StartMet, Disposing, Running, Idle, Stages,
    Order
<1>5. ASSUME NEW g \in Gens, EnterStart(g) PROVE StartMet'
  BY <1>5 DEF EnterStart, StartStep, Unstarted, supVars, startVars, resVars, downVars,
    Inv, TypeOK, PhasesAgree, LiveResources, StartMet, Disposing, Running, Idle,
    Stages, Order
<1>6. ASSUME NEW g \in Gens, MakeInTime(g) PROVE StartMet'
  BY <1>6 DEF MakeInTime, StartStep, Unstarted, Recorded, supVars, startVars, resVars,
    downVars, Inv, TypeOK, PhasesAgree, LiveResources, StartMet, Disposing, Running,
    Idle, Stages, Order
<1>7. ASSUME NEW g \in Gens, MakeLate(g) PROVE StartMet'
  BY <1>7 DEF MakeLate, StartStep, StartRejected, Recorded, supVars, startVars,
    resVars, downVars, Inv, TypeOK, PhasesAgree, LiveResources, StartMet, Disposing,
    Running, Idle, Stages, Order
<1>8. ASSUME NEW g \in Gens, MakeFails(g) PROVE StartMet'
  BY SMTT(30), <1>8 DEF MakeFails, StartStep, FailStart, BeginDispose, StartSettling,
    supVars, startVars, resVars, downVars, Inv, TypeOK, PhasesAgree, LiveResources,
    StartMet, Disposing, Running, Idle, Stages, Order
<1>9. ASSUME NEW g \in Gens, Proceed(g) PROVE StartMet'
  BY <1>9 DEF Proceed, StartStep, Unstarted, StartRejected, supVars, startVars,
    resVars, downVars, Inv, TypeOK, PhasesAgree, LiveResources, StartMet, Disposing,
    Running, Idle, Stages, Order
<1>10. ASSUME NEW g \in Gens, Ready(g) PROVE StartMet'
  BY <1>10 DEF Ready, StartStep, Unstarted, supVars, startVars, resVars, downVars,
    Inv, TypeOK, PhasesAgree, LiveResources, StartMet, Disposing, Running, Idle,
    Stages, Order
<1>11. ASSUME NEW g \in Gens, InitializeFails(g) PROVE StartMet'
  BY SMTT(30), <1>11 DEF InitializeFails, StartStep, FailStart, BeginDispose,
    StartSettling, supVars, startVars, resVars, downVars, Inv, TypeOK, PhasesAgree,
    LiveResources, StartMet, Disposing, Running, Idle, Stages, Order
<1>12. ASSUME NEW g \in Gens, InitializeAborted(g) PROVE StartMet'
  BY SMTT(30), <1>12 DEF InitializeAborted, StartStep, FailStart, BeginDispose,
    StartSettling, supVars, startVars, resVars, downVars, Inv, TypeOK, PhasesAgree,
    LiveResources, StartMet, Disposing, Running, Idle, Stages, Order
<1>13. ASSUME NEW g \in Gens, StartupSettles(g) PROVE StartMet'
  BY <1>13 DEF StartupSettles, supVars, startVars, resVars, downVars, Inv, TypeOK,
    PhasesAgree, LiveResources, StartMet, Disposing, Running, Idle, Stages, Order
<1>14. ASSUME NEW g \in Gens, CallbacksSettle(g) PROVE StartMet'
  BY <1>14 DEF CallbacksSettle, NotTorn, Confirm, Left, StartSettling, Endings,
    supVars, startVars, resVars, downVars, Inv, TypeOK, PhasesAgree, LiveResources,
    StartMet, Disposing, Running, Idle, Stages, Order
<1>15. ASSUME NEW g \in Gens, AnimalSettles(g) PROVE StartMet'
  BY <1>15 DEF AnimalSettles, NotTorn, Confirm, Left, StartSettling, Endings, supVars,
    startVars, resVars, downVars, Inv, TypeOK, PhasesAgree, LiveResources, StartMet,
    Disposing, Running, Idle, Stages, Order
<1>16. ASSUME NEW g \in Gens, Settled(g) PROVE StartMet'
  BY <1>16 DEF Settled, supVars, startVars, resVars, downVars, Inv, TypeOK,
    PhasesAgree, LiveResources, StartMet, Disposing, Running, Idle, Stages, Order
<1>17. ASSUME NEW g \in Gens, LateSettled(g) PROVE StartMet'
  BY <1>17 DEF LateSettled, supVars, startVars, resVars, downVars, Inv, TypeOK,
    PhasesAgree, LiveResources, StartMet, Disposing, Running, Idle, Stages, Order
<1>18. ASSUME NEW g \in Gens, Finish(g) PROVE StartMet'
  BY <1>18 DEF Finish, Release, Quarantine, Safe, supVars, startVars, resVars,
    downVars, Inv, TypeOK, PhasesAgree, LiveResources, StartMet, Disposing, Running,
    Idle, Stages, Order
<1>19. ASSUME NEW g \in Gens, NEW isFatal \in BOOLEAN, Dispose(g, isFatal) PROVE StartMet'
  BY SMTT(30), <1>19 DEF Dispose, BeginDispose, StartSettling, supVars, startVars,
    resVars, downVars, Inv, TypeOK, PhasesAgree, LiveResources, StartMet, Disposing,
    Running, Idle, Stages, Order
<1>20. ASSUME NEW g \in Gens, NEW o \in Ops, Track(g, o) PROVE StartMet'
  BY <1>20 DEF Track, supVars, startVars, resVars, downVars, Inv, TypeOK, PhasesAgree,
    LiveResources, StartMet, Disposing, Running, Idle, Stages, Order
<1>21. ASSUME NEW g \in Gens, NEW w \in Works, WorkSettles(g, w) PROVE StartMet'
  BY <1>21 DEF WorkSettles, supVars, startVars, resVars, downVars, Inv, TypeOK,
    PhasesAgree, LiveResources, StartMet, Disposing, Running, Idle, Stages, Order
<1>22. CASE UNCHANGED vars
  BY <1>22 DEF vars, supVars, startVars, resVars, downVars, Inv, PhasesAgree,
    LiveResources, StartMet, Disposing, Running, Idle, Stages, Order
<1> QED BY <1>1, <1>2, <1>3, <1>4, <1>5, <1>6, <1>7, <1>8, <1>9, <1>10, <1>11, <1>12,
  <1>13, <1>14, <1>15, <1>16, <1>17, <1>18, <1>19, <1>20, <1>21, <1>22 DEF Next,
  Supervision, Startup, Acquire, Teardown

LEMMA NextBoundariesKnown == Inv /\ TypeOK' /\ [Next]_vars => BoundariesKnown'
<1> SUFFICES ASSUME Inv, TypeOK', [Next]_vars PROVE BoundariesKnown'
  OBVIOUS
<1> USE RuntimeAssumption
<1>1. ASSUME NEW g \in Gens, Create(g) PROVE BoundariesKnown'
  BY <1>1 DEF Create, supVars, startVars, resVars, downVars, Inv, TypeOK,
    BoundariesKnown, KnownOf, PhasesAgree, StartMet, Disposing, Running, Idle,
    Workers, Boundaries
<1>2. ASSUME NEW g \in Gens, Admit(g) PROVE BoundariesKnown'
  <2> SUFFICES ASSUME NEW h \in Gens PROVE KnownOf(h)'
    BY DEF BoundariesKnown
  <2>1. CASE h # g
    BY <1>2, <2>1 DEF Admit, HoldsTurn, Refuse, Construct, ConstructOrFail, supVars,
      startVars, resVars, downVars, Inv, TypeOK, BoundariesKnown, KnownOf,
      Disposing
  <2>2. CASE h = g
    BY SMTT(20), <1>2, <2>2 DEF Admit, HoldsTurn, Refuse, Construct, ConstructOrFail,
      supVars, startVars, resVars, downVars, Inv, TypeOK, BoundariesKnown,
      KnownOf, PhasesAgree, StartMet, Disposing, Running, Idle, Workers,
      Boundaries, LiveResources, LiveOf
  <2> QED BY <2>1, <2>2
<1>3. ASSUME NEW g \in Gens, AwaitedTeardown(g) PROVE BoundariesKnown'
  <2> SUFFICES ASSUME NEW h \in Gens PROVE KnownOf(h)'
    BY DEF BoundariesKnown
  <2>1. CASE h # g
    BY <1>3, <2>1 DEF AwaitedTeardown, HoldsTurn, Refuse, Construct, ConstructOrFail,
      supVars, startVars, resVars, downVars, Inv, TypeOK, BoundariesKnown,
      KnownOf, Disposing
  <2>2. CASE h = g
    BY SMTT(20), <1>3, <2>2 DEF AwaitedTeardown, HoldsTurn, Refuse, Construct,
      ConstructOrFail, supVars, startVars, resVars, downVars, Inv, TypeOK,
      BoundariesKnown, KnownOf, PhasesAgree, StartMet, Disposing, Running, Idle,
      Workers, Boundaries, LiveResources, LiveOf
  <2> QED BY <2>1, <2>2
<1>4. ASSUME NEW g \in Gens, Start(g) PROVE BoundariesKnown'
  <2> SUFFICES ASSUME NEW h \in Gens PROVE KnownOf(h)'
    BY DEF BoundariesKnown
  <2>1. CASE h # g
    BY <1>4, <2>1 DEF Start, StartStep, Unstarted, supVars, startVars, resVars,
      downVars, Inv, TypeOK, BoundariesKnown, KnownOf, Disposing
  <2>2. CASE h = g
    BY SMTT(20), <1>4, <2>2 DEF Start, StartStep, Unstarted, supVars, startVars,
      resVars, downVars, Inv, TypeOK, BoundariesKnown, KnownOf, PhasesAgree,
      StartMet, Disposing, Running, Idle, Workers, Boundaries
  <2> QED BY <2>1, <2>2
<1>5. ASSUME NEW g \in Gens, EnterStart(g) PROVE BoundariesKnown'
  <2> SUFFICES ASSUME NEW h \in Gens PROVE KnownOf(h)'
    BY DEF BoundariesKnown
  <2>1. CASE h # g
    BY <1>5, <2>1 DEF EnterStart, StartStep, Unstarted, supVars, startVars, resVars,
      downVars, Inv, TypeOK, BoundariesKnown, KnownOf, Disposing
  <2>2. CASE h = g
    BY SMTT(20), <1>5, <2>2 DEF EnterStart, StartStep, Unstarted, supVars, startVars,
      resVars, downVars, Inv, TypeOK, BoundariesKnown, KnownOf, PhasesAgree,
      StartMet, Disposing, Running, Idle, Workers, Boundaries, LiveResources,
      LiveOf
  <2> QED BY <2>1, <2>2
<1>6. ASSUME NEW g \in Gens, MakeInTime(g) PROVE BoundariesKnown'
  <2> SUFFICES ASSUME NEW h \in Gens PROVE KnownOf(h)'
    BY DEF BoundariesKnown
  <2>1. CASE h # g
    BY <1>6, <2>1 DEF MakeInTime, StartStep, Unstarted, Recorded, supVars, startVars,
      resVars, downVars, Inv, TypeOK, BoundariesKnown, KnownOf, Disposing
  <2>2. CASE h = g
    BY SMTT(20), <1>6, <2>2 DEF MakeInTime, StartStep, Unstarted, Recorded, supVars,
      startVars, resVars, downVars, Inv, TypeOK, BoundariesKnown, KnownOf,
      PhasesAgree, StartMet, Disposing, Running, Idle, Workers, Boundaries,
      LiveResources, LiveOf
  <2> QED BY <2>1, <2>2
<1>7. ASSUME NEW g \in Gens, MakeLate(g) PROVE BoundariesKnown'
  <2>1. /\ \A h \in Gens \ {g} : Untouched(h)
        /\ Running(g) /\ Disposing(g) /\ UNCHANGED <<phase, downVars>>
    BY <1>7 DEF MakeLate, Recorded, StartRejected, StartStep, Untouched, Running, Inv,
      TypeOK,
                 downVars
  <2>2. ASSUME NEW h \in Gens \ {g} PROVE KnownOf(h)'
    BY <2>1 DEF Untouched, Inv, BoundariesKnown, KnownOf, Disposing
  <2>3. KnownOf(g)'
    <3>1. PICK fails \in BOOLEAN :
            /\ live' = [live EXCEPT ![g] = IF Order[stage[g]] \in Workers THEN @
                                           ELSE @ \cup {Order[stage[g]]}]
            /\ late' = [late EXCEPT ![g] = IF fails THEN @
                                           ELSE @ \cup ({Order[stage[g]]} \cap Boundaries)]
            /\ lateUnsafe' = [lateUnsafe EXCEPT ![g] = @ \/ fails]
      BY <1>7 DEF MakeLate
    <3>4. live'[g] \subseteq live[g] \cup {Order[stage[g]]}
      BY <3>1 DEF Inv, TypeOK
    <3>5. late[g] \subseteq late'[g] /\ (lateUnsafe[g] => lateUnsafe'[g])
      BY <3>1 DEF Inv, TypeOK
    <3>6. Order[stage[g]] \in Boundaries => Order[stage[g]] \in late'[g] \/ lateUnsafe'[g]
      <4>1. CASE fails
        BY <3>1, <4>1 DEF Inv, TypeOK
      <4>2. CASE ~ fails
        BY <3>1, <4>2 DEF Inv, TypeOK
      <4> QED BY <4>1, <4>2
    <3>2. teardown[g] # "finish" /\ UNCHANGED downVars /\ UNCHANGED phase
      BY <2>1 DEF Inv, StartMet
    <3>3. ASSUME NEW b \in confirmed[g], b \in live'[g] PROVE b \in late'[g] \/ lateUnsafe'[g]
      <4>1. CASE b \in live[g]
        BY <2>1, <3>5, <4>1 DEF Inv, BoundariesKnown, KnownOf
      <4>2. CASE b = Order[stage[g]]
        BY <3>6, <4>2 DEF Inv, TypeOK
      <4> QED BY <3>3, <3>4, <4>1, <4>2
    <3> QED BY <3>2, <3>3 DEF KnownOf, downVars
  <2> QED BY <2>2, <2>3 DEF BoundariesKnown
<1>8. ASSUME NEW g \in Gens, Fails(g) PROVE BoundariesKnown'
  <2>1. PICK pending \in SUBSET Works :
          /\ work[g] \subseteq pending /\ pending \subseteq work[g] \cup {"construction"}
          /\ start[g] # "no" /\ (Running(g) \/ pending = work[g])
          /\ FailStart(g, pending)
    BY <1>8 DEF Fails
  <2>2. /\ has' = has /\ late' = late /\ lateUnsafe' = lateUnsafe
        /\ \A h \in Gens \ {g} : Untouched(h)
        /\ \/ /\ Disposing(g)
              /\ work'[g] = pending \ {"startup"}
              /\ UNCHANGED <<phase, downVars, live, detached>>
           \/ /\ ~ Disposing(g)
              /\ \E owners \in {{}, {"owners"}} :
                   Begun(g, (pending \ {"startup"}) \cup owners)
    BY <2>1, FailStartEffect DEF Inv
  <2>3. ASSUME NEW h \in Gens, h # g PROVE KnownOf(h)'
    BY <2>2, <2>3 DEF Untouched, Inv, BoundariesKnown, KnownOf, Disposing
  <2>4. ASSUME Disposing(g) PROVE KnownOf(g)'
    BY <2>2, <2>4 DEF Inv, BoundariesKnown, KnownOf, downVars, Disposing
  <2>5. ASSUME ~ Disposing(g) PROVE KnownOf(g)'
    <3>1. PICK owners \in {{}, {"owners"}} :
            Begun(g, (pending \ {"startup"}) \cup owners)
      BY <2>2, <2>5
    <3>2. \A b \in confirmed'[g] : b \notin live'[g]
      BY <3>1 DEF Begun, Inv, LiveResources, LiveOf
    <3> QED BY <3>1, <3>2 DEF Begun, KnownOf
  <2> QED BY <2>3, <2>4, <2>5 DEF BoundariesKnown
<1>9. ASSUME NEW g \in Gens, Proceed(g) PROVE BoundariesKnown'
  <2> SUFFICES ASSUME NEW h \in Gens PROVE KnownOf(h)'
    BY DEF BoundariesKnown
  <2>1. CASE h # g
    BY <1>9, <2>1 DEF Proceed, StartStep, Unstarted, StartRejected, supVars,
      startVars, resVars, downVars, Inv, TypeOK, BoundariesKnown, KnownOf,
      Disposing
  <2>2. CASE h = g
    BY SMTT(20), <1>9, <2>2 DEF Proceed, StartStep, Unstarted, StartRejected, supVars,
      startVars, resVars, downVars, Inv, TypeOK, BoundariesKnown, KnownOf,
      PhasesAgree, StartMet, Disposing, Running, Idle, Workers, Boundaries,
      LiveResources, LiveOf
  <2> QED BY <2>1, <2>2
<1>10. ASSUME NEW g \in Gens, Ready(g) PROVE BoundariesKnown'
  BY <1>10 DEF Ready, StartStep, Unstarted, supVars, startVars, resVars, downVars,
    Inv, TypeOK, BoundariesKnown, KnownOf, PhasesAgree, StartMet, Disposing,
    Running, Idle, Workers, Boundaries
<1>11. ASSUME NEW g \in Gens, StartupSettles(g) PROVE BoundariesKnown'
  BY <1>11 DEF StartupSettles, supVars, startVars, resVars, downVars, Inv, TypeOK,
    BoundariesKnown, KnownOf, PhasesAgree, StartMet, Disposing, Running, Idle,
    Workers, Boundaries
<1>12. ASSUME NEW g \in Gens, CallbacksSettle(g) PROVE BoundariesKnown'
  <2> SUFFICES ASSUME NEW h \in Gens PROVE KnownOf(h)'
    BY DEF BoundariesKnown
  <2>1. CASE h # g
    BY <1>12, <2>1 DEF CallbacksSettle, NotTorn, Confirm, Left, StartSettling,
      Endings, supVars, startVars, resVars, downVars, Inv, TypeOK,
      BoundariesKnown, KnownOf, Disposing
  <2>2. CASE h = g
    BY SMTT(20), <1>12, <2>2 DEF CallbacksSettle, NotTorn, Confirm, Left,
      StartSettling, Endings, supVars, startVars, resVars, downVars, Inv, TypeOK,
      BoundariesKnown, KnownOf, PhasesAgree, StartMet, Disposing, Running, Idle,
      Workers, Boundaries, LiveResources, LiveOf
  <2> QED BY <2>1, <2>2
<1>13. ASSUME NEW g \in Gens, AnimalSettles(g) PROVE BoundariesKnown'
  <2> SUFFICES ASSUME NEW h \in Gens PROVE KnownOf(h)'
    BY DEF BoundariesKnown
  <2>1. CASE h # g
    BY <1>13, <2>1 DEF AnimalSettles, NotTorn, Confirm, Left, StartSettling, Endings,
      supVars, startVars, resVars, downVars, Inv, TypeOK, BoundariesKnown,
      KnownOf, Disposing
  <2>2. CASE h = g
    BY SMTT(20), <1>13, <2>2 DEF AnimalSettles, NotTorn, Confirm, Left, StartSettling,
      Endings, supVars, startVars, resVars, downVars, Inv, TypeOK,
      BoundariesKnown, KnownOf, PhasesAgree, StartMet, Disposing, Running, Idle,
      Workers, Boundaries, LiveResources, LiveOf
  <2> QED BY <2>1, <2>2
<1>14. ASSUME NEW g \in Gens, Settled(g) PROVE BoundariesKnown'
  BY <1>14 DEF Settled, supVars, startVars, resVars, downVars, Inv, TypeOK,
    BoundariesKnown, KnownOf, PhasesAgree, StartMet, Disposing, Running, Idle,
    Workers, Boundaries
<1>15. ASSUME NEW g \in Gens, LateSettled(g) PROVE BoundariesKnown'
  <2>1. \A h \in Gens \ {g} : Untouched(h)
    BY <1>15 DEF LateSettled, Untouched, startVars, Inv, TypeOK
  <2>2. ASSUME NEW h \in Gens \ {g} PROVE KnownOf(h)'
    BY <2>1 DEF Untouched, Inv, BoundariesKnown, KnownOf, Disposing
  <2>3. KnownOf(g)'
    <3>1. PICK ok \in Endings("callbacks") \cup Endings("animal") :
            /\ settled' = [settled EXCEPT ![g] = @ /\ ok]
            /\ live' = [live EXCEPT ![g] = IF ok THEN @ \ late[g] ELSE @]
      BY <1>15 DEF LateSettled
    <3>2. UNCHANGED <<phase, late, lateUnsafe, confirmed>>
      BY <1>15 DEF LateSettled
    <3>3. CASE ok
      <4>1. live'[g] = live[g] \ late[g]
        BY <3>1, <3>3 DEF Inv, TypeOK
      <4> QED BY <3>2, <4>1 DEF Inv, BoundariesKnown, KnownOf, Disposing
    <3>4. CASE ~ ok
      <4>1. live'[g] = live[g]
        BY <3>1, <3>4 DEF Inv, TypeOK
      <4>2. settled'[g] = FALSE
        <5>1. settled'[g] = (settled[g] /\ ok)
          BY <3>1 DEF Inv, TypeOK
        <5> QED BY <5>1, <3>4
      <4> QED BY <3>2, <4>1, <4>2 DEF Inv, BoundariesKnown, KnownOf, Disposing
    <3> QED BY <3>3, <3>4
  <2> QED BY <2>2, <2>3 DEF BoundariesKnown
<1>16. ASSUME NEW g \in Gens, Finish(g) PROVE BoundariesKnown'
  <2> SUFFICES ASSUME NEW h \in Gens PROVE KnownOf(h)'
    BY DEF BoundariesKnown
  <2>1. CASE h # g
    BY <1>16, <2>1 DEF Finish, Release, Quarantine, Safe, supVars, startVars, resVars,
      downVars, Inv, TypeOK, BoundariesKnown, KnownOf, Disposing
  <2>2. CASE h = g
    BY SMTT(20), <1>16, <2>2 DEF Finish, Release, Quarantine, Safe, supVars,
      startVars, resVars, downVars, Inv, TypeOK, BoundariesKnown, KnownOf,
      PhasesAgree, StartMet, Disposing, Running, Idle, Workers, Boundaries,
      LiveResources, LiveOf
  <2> QED BY <2>1, <2>2
<1>17. ASSUME NEW g \in Gens, NEW isFatal \in BOOLEAN, Dispose(g, isFatal) PROVE BoundariesKnown'
  <2>1. /\ has' = has /\ late' = late /\ lateUnsafe' = lateUnsafe
        /\ \A h \in Gens \ {g} : Untouched(h)
        /\ \/ teardown[g] # "no" /\ Untouched(g)
           \/ /\ teardown[g] = "no"
              /\ \E owners \in {{}, {"owners"}} : Begun(g, work[g] \cup owners)
    BY <1>17, DisposeEffect DEF Inv
  <2>2. ASSUME NEW h \in Gens, Untouched(h) PROVE KnownOf(h)'
    BY <2>2 DEF Untouched, Inv, BoundariesKnown, KnownOf, Disposing
  <2>3. ASSUME teardown[g] = "no" PROVE KnownOf(g)'
    <3>1. PICK owners \in {{}, {"owners"}} : Begun(g, work[g] \cup owners)
      BY <2>1, <2>3
    <3>2. \A b \in confirmed'[g] : b \notin live'[g]
      BY <3>1 DEF Begun, Inv, LiveResources, LiveOf
    <3> QED BY <2>1, <3>1, <3>2 DEF Begun, KnownOf
  <2> QED BY <2>1, <2>2, <2>3 DEF BoundariesKnown
<1>18. ASSUME NEW g \in Gens, NEW o \in Ops, Track(g, o) PROVE BoundariesKnown'
  BY <1>18 DEF Track, supVars, startVars, resVars, downVars, Inv, TypeOK,
    BoundariesKnown, KnownOf, PhasesAgree, StartMet, Disposing, Running, Idle,
    Workers, Boundaries
<1>19. ASSUME NEW g \in Gens, NEW w \in Works, WorkSettles(g, w) PROVE BoundariesKnown'
  BY <1>19 DEF WorkSettles, supVars, startVars, resVars, downVars, Inv, TypeOK,
    BoundariesKnown, KnownOf, PhasesAgree, StartMet, Disposing, Running, Idle,
    Workers, Boundaries
<1>20. CASE UNCHANGED vars
  BY <1>20 DEF vars, supVars, startVars, resVars, downVars, Inv, BoundariesKnown,
    KnownOf, PhasesAgree, StartMet, Disposing, Running, Idle, Workers, Boundaries
<1> QED BY <1>1, <1>2, <1>3, <1>4, <1>5, <1>6, <1>7, <1>8, <1>9, <1>10, <1>11, <1>12,
  <1>13, <1>14, <1>15, <1>16, <1>17, <1>18, <1>19, <1>20, MakeFailsFails,
  InitializeFailsFails DEF Next, Supervision, Startup, Acquire, Teardown, Inv

LEMMA NextStopped == Inv /\ TypeOK' /\ [Next]_vars => Stopped'
<1> SUFFICES ASSUME Inv, TypeOK', [Next]_vars PROVE Stopped'
  OBVIOUS
<1> USE RuntimeAssumption
<1>1. ASSUME NEW g \in Gens, Create(g) PROVE Stopped'
  BY <1>1 DEF Create, supVars, startVars, resVars, downVars, Inv, TypeOK, Stopped,
    StoppedOf, PhasesAgree, StartMet, Disposing, Running, Idle, Workers, Boundaries
<1>2. ASSUME NEW g \in Gens, Admit(g) PROVE Stopped'
  <2> SUFFICES ASSUME NEW h \in Gens PROVE StoppedOf(h)'
    BY DEF Stopped
  <2>1. CASE h # g
    BY <1>2, <2>1 DEF Admit, HoldsTurn, Refuse, Construct, ConstructOrFail, supVars,
      startVars, resVars, downVars, Inv, TypeOK, Stopped, StoppedOf, Disposing
  <2>2. CASE h = g
    BY SMTT(20), <1>2, <2>2 DEF Admit, HoldsTurn, Refuse, Construct, ConstructOrFail,
      supVars, startVars, resVars, downVars, Inv, TypeOK, Stopped, StoppedOf,
      PhasesAgree, StartMet, Disposing, Running, Idle, Workers, Boundaries,
      LiveResources, LiveOf, Order, Stages
  <2> QED BY <2>1, <2>2
<1>3. ASSUME NEW g \in Gens, AwaitedTeardown(g) PROVE Stopped'
  <2> SUFFICES ASSUME NEW h \in Gens PROVE StoppedOf(h)'
    BY DEF Stopped
  <2>1. CASE h # g
    BY <1>3, <2>1 DEF AwaitedTeardown, HoldsTurn, Refuse, Construct, ConstructOrFail,
      supVars, startVars, resVars, downVars, Inv, TypeOK, Stopped, StoppedOf,
      Disposing
  <2>2. CASE h = g
    BY SMTT(20), <1>3, <2>2 DEF AwaitedTeardown, HoldsTurn, Refuse, Construct,
      ConstructOrFail, supVars, startVars, resVars, downVars, Inv, TypeOK,
      Stopped, StoppedOf, PhasesAgree, StartMet, Disposing, Running, Idle,
      Workers, Boundaries, LiveResources, LiveOf, Order, Stages
  <2> QED BY <2>1, <2>2
<1>4. ASSUME NEW g \in Gens, Start(g) PROVE Stopped'
  BY <1>4 DEF Start, StartStep, Unstarted, supVars, startVars, resVars, downVars, Inv,
    TypeOK, Stopped, StoppedOf, PhasesAgree, StartMet, Disposing, Running, Idle,
    Workers, Boundaries
<1>5. ASSUME NEW g \in Gens, EnterStart(g) PROVE Stopped'
  <2> SUFFICES ASSUME NEW h \in Gens PROVE StoppedOf(h)'
    BY DEF Stopped
  <2>1. CASE h # g
    BY <1>5, <2>1 DEF EnterStart, StartStep, Unstarted, supVars, startVars, resVars,
      downVars, Inv, TypeOK, Stopped, StoppedOf, Disposing
  <2>2. CASE h = g
    BY SMTT(20), <1>5, <2>2 DEF EnterStart, StartStep, Unstarted, supVars, startVars,
      resVars, downVars, Inv, TypeOK, Stopped, StoppedOf, PhasesAgree, StartMet,
      Disposing, Running, Idle, Workers, Boundaries, LiveResources, LiveOf, Order,
      Stages
  <2> QED BY <2>1, <2>2
<1>6. ASSUME NEW g \in Gens, MakeInTime(g) PROVE Stopped'
  <2> SUFFICES ASSUME NEW h \in Gens PROVE StoppedOf(h)'
    BY DEF Stopped
  <2>1. CASE h # g
    BY <1>6, <2>1 DEF MakeInTime, StartStep, Unstarted, Recorded, supVars, startVars,
      resVars, downVars, Inv, TypeOK, Stopped, StoppedOf, Disposing
  <2>2. CASE h = g
    BY SMTT(20), <1>6, <2>2 DEF MakeInTime, StartStep, Unstarted, Recorded, supVars,
      startVars, resVars, downVars, Inv, TypeOK, Stopped, StoppedOf, PhasesAgree,
      StartMet, Disposing, Running, Idle, Workers, Boundaries, LiveResources,
      LiveOf, Order, Stages
  <2> QED BY <2>1, <2>2
<1>7. ASSUME NEW g \in Gens, MakeLate(g) PROVE Stopped'
  <2>1. /\ \A h \in Gens \ {g} : Untouched(h)
        /\ UNCHANGED <<phase, downVars>>
    BY <1>7 DEF MakeLate, Recorded, StartRejected, StartStep, Untouched, Inv, TypeOK,
      downVars
  <2>2. ASSUME NEW h \in Gens \ {g} PROVE StoppedOf(h)'
    BY <2>1 DEF Untouched, Inv, Stopped, StoppedOf, Disposing
  <2>3. /\ live'[g] = IF Order[stage[g]] \in Workers THEN live[g]
                       ELSE live[g] \cup {Order[stage[g]]}
        /\ has'[g] = has[g] \cup {Order[stage[g]]}
        /\ detached'[g] = (detached[g] \/ Order[stage[g]] = "farm")
    BY <1>7 DEF MakeLate, Recorded, Inv, TypeOK
  <2>4. StoppedOf(g)'
    BY <2>1, <2>3 DEF Inv, Stopped, StoppedOf, Disposing, downVars
  <2> QED BY <2>2, <2>4 DEF Stopped
<1>8. ASSUME NEW g \in Gens, Fails(g) PROVE Stopped'
  <2>1. PICK pending \in SUBSET Works :
          /\ work[g] \subseteq pending /\ pending \subseteq work[g] \cup {"construction"}
          /\ start[g] # "no" /\ (Running(g) \/ pending = work[g])
          /\ FailStart(g, pending)
    BY <1>8 DEF Fails
  <2>2. /\ has' = has /\ late' = late /\ lateUnsafe' = lateUnsafe
        /\ \A h \in Gens \ {g} : Untouched(h)
        /\ \/ /\ Disposing(g)
              /\ work'[g] = pending \ {"startup"}
              /\ UNCHANGED <<phase, downVars, live, detached>>
           \/ /\ ~ Disposing(g)
              /\ \E owners \in {{}, {"owners"}} :
                   Begun(g, (pending \ {"startup"}) \cup owners)
    BY <2>1, FailStartEffect DEF Inv
  <2>3. ASSUME NEW h \in Gens, h # g PROVE StoppedOf(h)'
    BY <2>2, <2>3 DEF Untouched, Inv, Stopped, StoppedOf, Disposing
  <2>4. ASSUME Disposing(g) PROVE StoppedOf(g)'
    BY <2>2, <2>4 DEF Inv, Stopped, StoppedOf, downVars, Disposing
  <2>5. ASSUME ~ Disposing(g) PROVE StoppedOf(g)'
    <3>1. PICK owners \in {{}, {"owners"}} :
            Begun(g, (pending \ {"startup"}) \cup owners)
      BY <2>2, <2>5
    <3> QED BY <2>2, <3>1 DEF Begun, StoppedOf
  <2> QED BY <2>3, <2>4, <2>5 DEF Stopped
<1>9. ASSUME NEW g \in Gens, Proceed(g) PROVE Stopped'
  <2> SUFFICES ASSUME NEW h \in Gens PROVE StoppedOf(h)'
    BY DEF Stopped
  <2>1. CASE h # g
    BY <1>9, <2>1 DEF Proceed, StartStep, Unstarted, StartRejected, supVars,
      startVars, resVars, downVars, Inv, TypeOK, Stopped, StoppedOf, Disposing
  <2>2. CASE h = g
    BY SMTT(20), <1>9, <2>2 DEF Proceed, StartStep, Unstarted, StartRejected, supVars,
      startVars, resVars, downVars, Inv, TypeOK, Stopped, StoppedOf, PhasesAgree,
      StartMet, Disposing, Running, Idle, Workers, Boundaries, LiveResources,
      LiveOf, Order, Stages
  <2> QED BY <2>1, <2>2
<1>10. ASSUME NEW g \in Gens, Ready(g) PROVE Stopped'
  BY <1>10 DEF Ready, StartStep, Unstarted, supVars, startVars, resVars, downVars,
    Inv, TypeOK, Stopped, StoppedOf, PhasesAgree, StartMet, Disposing, Running,
    Idle, Workers, Boundaries
<1>11. ASSUME NEW g \in Gens, StartupSettles(g) PROVE Stopped'
  BY <1>11 DEF StartupSettles, supVars, startVars, resVars, downVars, Inv, TypeOK,
    Stopped, StoppedOf, PhasesAgree, StartMet, Disposing, Running, Idle, Workers,
    Boundaries
<1>12. ASSUME NEW g \in Gens, CallbacksSettle(g) PROVE Stopped'
  <2> SUFFICES ASSUME NEW h \in Gens PROVE StoppedOf(h)'
    BY DEF Stopped
  <2>1. CASE h # g
    BY <1>12, <2>1 DEF CallbacksSettle, NotTorn, Confirm, Left, StartSettling,
      Endings, supVars, startVars, resVars, downVars, Inv, TypeOK, Stopped,
      StoppedOf, Disposing
  <2>2. CASE h = g
    BY SMTT(20), <1>12, <2>2 DEF CallbacksSettle, NotTorn, Confirm, Left,
      StartSettling, Endings, supVars, startVars, resVars, downVars, Inv, TypeOK,
      Stopped, StoppedOf, PhasesAgree, StartMet, Disposing, Running, Idle,
      Workers, Boundaries, LiveResources, LiveOf, Order, Stages
  <2> QED BY <2>1, <2>2
<1>13. ASSUME NEW g \in Gens, AnimalSettles(g) PROVE Stopped'
  <2> SUFFICES ASSUME NEW h \in Gens PROVE StoppedOf(h)'
    BY DEF Stopped
  <2>1. CASE h # g
    BY <1>13, <2>1 DEF AnimalSettles, NotTorn, Confirm, Left, StartSettling, Endings,
      supVars, startVars, resVars, downVars, Inv, TypeOK, Stopped, StoppedOf,
      Disposing
  <2>2. CASE h = g
    BY SMTT(20), <1>13, <2>2 DEF AnimalSettles, NotTorn, Confirm, Left, StartSettling,
      Endings, supVars, startVars, resVars, downVars, Inv, TypeOK, Stopped,
      StoppedOf, PhasesAgree, StartMet, Disposing, Running, Idle, Workers,
      Boundaries, LiveResources, LiveOf, Order, Stages
  <2> QED BY <2>1, <2>2
<1>14. ASSUME NEW g \in Gens, Settled(g) PROVE Stopped'
  BY <1>14 DEF Settled, supVars, startVars, resVars, downVars, Inv, TypeOK, Stopped,
    StoppedOf, PhasesAgree, StartMet, Disposing, Running, Idle, Workers, Boundaries
<1>15. ASSUME NEW g \in Gens, LateSettled(g) PROVE Stopped'
  <2> SUFFICES ASSUME NEW h \in Gens PROVE StoppedOf(h)'
    BY DEF Stopped
  <2>1. CASE h # g
    BY <1>15, <2>1 DEF LateSettled, supVars, startVars, resVars, downVars, Inv,
      TypeOK, Stopped, StoppedOf, Disposing
  <2>2. CASE h = g
    BY SMTT(20), <1>15, <2>2 DEF LateSettled, supVars, startVars, resVars, downVars,
      Inv, TypeOK, Stopped, StoppedOf, PhasesAgree, StartMet, Disposing, Running,
      Idle, Workers, Boundaries, LiveResources, LiveOf, Order, Stages
  <2> QED BY <2>1, <2>2
<1>16. ASSUME NEW g \in Gens, Finish(g) PROVE Stopped'
  <2> SUFFICES ASSUME NEW h \in Gens PROVE StoppedOf(h)'
    BY DEF Stopped
  <2>1. CASE h # g
    BY <1>16, <2>1 DEF Finish, Release, Quarantine, Safe, supVars, startVars, resVars,
      downVars, Inv, TypeOK, Stopped, StoppedOf, Disposing
  <2>2. CASE h = g
    BY SMTT(20), <1>16, <2>2 DEF Finish, Release, Quarantine, Safe, supVars,
      startVars, resVars, downVars, Inv, TypeOK, Stopped, StoppedOf, PhasesAgree,
      StartMet, Disposing, Running, Idle, Workers, Boundaries, LiveResources,
      LiveOf, Order, Stages
  <2> QED BY <2>1, <2>2
<1>17. ASSUME NEW g \in Gens, NEW isFatal \in BOOLEAN, Dispose(g, isFatal) PROVE Stopped'
  <2>1. /\ has' = has /\ late' = late /\ lateUnsafe' = lateUnsafe
        /\ \A h \in Gens \ {g} : Untouched(h)
        /\ \/ teardown[g] # "no" /\ Untouched(g)
           \/ /\ teardown[g] = "no"
              /\ \E owners \in {{}, {"owners"}} : Begun(g, work[g] \cup owners)
    BY <1>17, DisposeEffect DEF Inv
  <2>2. ASSUME NEW h \in Gens, Untouched(h) PROVE StoppedOf(h)'
    BY <2>2 DEF Untouched, Inv, Stopped, StoppedOf, Disposing
  <2>3. ASSUME teardown[g] = "no" PROVE StoppedOf(g)'
    <3>1. PICK owners \in {{}, {"owners"}} : Begun(g, work[g] \cup owners)
      BY <2>1, <2>3
    <3> QED BY <2>1, <3>1 DEF Begun, StoppedOf
  <2> QED BY <2>1, <2>2, <2>3 DEF Stopped
<1>18. ASSUME NEW g \in Gens, NEW o \in Ops, Track(g, o) PROVE Stopped'
  BY <1>18 DEF Track, supVars, startVars, resVars, downVars, Inv, TypeOK, Stopped,
    StoppedOf, PhasesAgree, StartMet, Disposing, Running, Idle, Workers, Boundaries
<1>19. ASSUME NEW g \in Gens, NEW w \in Works, WorkSettles(g, w) PROVE Stopped'
  BY <1>19 DEF WorkSettles, supVars, startVars, resVars, downVars, Inv, TypeOK,
    Stopped, StoppedOf, PhasesAgree, StartMet, Disposing, Running, Idle, Workers,
    Boundaries
<1>20. CASE UNCHANGED vars
  BY <1>20 DEF vars, supVars, startVars, resVars, downVars, Inv, Stopped, StoppedOf,
    PhasesAgree, StartMet, Disposing, Running, Idle, Workers, Boundaries
<1> QED BY <1>1, <1>2, <1>3, <1>4, <1>5, <1>6, <1>7, <1>8, <1>9, <1>10, <1>11, <1>12,
  <1>13, <1>14, <1>15, <1>16, <1>17, <1>18, <1>19, <1>20, MakeFailsFails,
  InitializeFailsFails DEF Next, Supervision, Startup, Acquire, Teardown, Inv

LEMMA NextAwaited == Inv /\ TypeOK' /\ [Next]_vars => Awaited'
<1> SUFFICES ASSUME Inv, TypeOK', [Next]_vars PROVE Awaited'
  OBVIOUS
<1> USE RuntimeAssumption
<1>1. ASSUME NEW g \in Gens, Create(g) PROVE Awaited'
  BY <1>1 DEF Create, supVars, startVars, resVars, downVars, Inv, TypeOK, Awaited,
    AwaitedOf, PhasesAgree, StartMet, Disposing, Running, Idle, Workers, Boundaries
<1>2. ASSUME NEW g \in Gens, Admit(g) PROVE Awaited'
  <2> SUFFICES ASSUME NEW h \in Gens PROVE AwaitedOf(h)'
    BY DEF Awaited
  <2>1. CASE h # g
    BY <1>2, <2>1 DEF Admit, HoldsTurn, Refuse, Construct, ConstructOrFail, supVars,
      startVars, resVars, downVars, Inv, TypeOK, Awaited, AwaitedOf, Disposing
  <2>2. CASE h = g
    BY SMTT(20), <1>2, <2>2 DEF Admit, HoldsTurn, Refuse, Construct, ConstructOrFail,
      supVars, startVars, resVars, downVars, Inv, TypeOK, Awaited, AwaitedOf,
      PhasesAgree, StartMet, Disposing, Running, Idle
  <2> QED BY <2>1, <2>2
<1>3. ASSUME NEW g \in Gens, AwaitedTeardown(g) PROVE Awaited'
  <2> SUFFICES ASSUME NEW h \in Gens PROVE AwaitedOf(h)'
    BY DEF Awaited
  <2>1. CASE h # g
    BY <1>3, <2>1 DEF AwaitedTeardown, HoldsTurn, Refuse, Construct, ConstructOrFail,
      supVars, startVars, resVars, downVars, Inv, TypeOK, Awaited, AwaitedOf,
      Disposing
  <2>2. CASE h = g
    BY SMTT(20), <1>3, <2>2 DEF AwaitedTeardown, HoldsTurn, Refuse, Construct,
      ConstructOrFail, supVars, startVars, resVars, downVars, Inv, TypeOK,
      Awaited, AwaitedOf, PhasesAgree, StartMet, Disposing, Running, Idle
  <2> QED BY <2>1, <2>2
<1>4. ASSUME NEW g \in Gens, Start(g) PROVE Awaited'
  BY <1>4 DEF Start, StartStep, Unstarted, supVars, startVars, resVars, downVars, Inv,
    TypeOK, Awaited, AwaitedOf, PhasesAgree, StartMet, Disposing, Running, Idle,
    Workers, Boundaries
<1>5. ASSUME NEW g \in Gens, EnterStart(g) PROVE Awaited'
  <2> SUFFICES ASSUME NEW h \in Gens PROVE AwaitedOf(h)'
    BY DEF Awaited
  <2>1. CASE h # g
    BY <1>5, <2>1 DEF EnterStart, StartStep, Unstarted, supVars, startVars, resVars,
      downVars, Inv, TypeOK, Awaited, AwaitedOf, Disposing
  <2>2. CASE h = g
    BY SMTT(20), <1>5, <2>2 DEF EnterStart, StartStep, Unstarted, supVars, startVars,
      resVars, downVars, Inv, TypeOK, Awaited, AwaitedOf, PhasesAgree, StartMet,
      Disposing, Running, Idle
  <2> QED BY <2>1, <2>2
<1>6. ASSUME NEW g \in Gens, MakeInTime(g) PROVE Awaited'
  <2> SUFFICES ASSUME NEW h \in Gens PROVE AwaitedOf(h)'
    BY DEF Awaited
  <2>1. CASE h # g
    BY <1>6, <2>1 DEF MakeInTime, StartStep, Unstarted, Recorded, supVars, startVars,
      resVars, downVars, Inv, TypeOK, Awaited, AwaitedOf, Disposing
  <2>2. CASE h = g
    BY SMTT(20), <1>6, <2>2 DEF MakeInTime, StartStep, Unstarted, Recorded, supVars,
      startVars, resVars, downVars, Inv, TypeOK, Awaited, AwaitedOf, PhasesAgree,
      StartMet, Disposing, Running, Idle
  <2> QED BY <2>1, <2>2
<1>7. ASSUME NEW g \in Gens, MakeLate(g) PROVE Awaited'
  <2> SUFFICES ASSUME NEW h \in Gens PROVE AwaitedOf(h)'
    BY DEF Awaited
  <2>1. CASE h # g
    BY <1>7, <2>1 DEF MakeLate, StartStep, StartRejected, Recorded, supVars,
      startVars, resVars, downVars, Inv, TypeOK, Awaited, AwaitedOf, Disposing
  <2>2. CASE h = g
    BY SMTT(20), <1>7, <2>2 DEF MakeLate, StartStep, StartRejected, Recorded, supVars,
      startVars, resVars, downVars, Inv, TypeOK, Awaited, AwaitedOf, PhasesAgree,
      StartMet, Disposing, Running, Idle
  <2> QED BY <2>1, <2>2
<1>8. ASSUME NEW g \in Gens, Fails(g) PROVE Awaited'
  <2>1. PICK pending \in SUBSET Works :
          /\ work[g] \subseteq pending /\ pending \subseteq work[g] \cup {"construction"}
          /\ start[g] # "no" /\ (Running(g) \/ pending = work[g])
          /\ FailStart(g, pending)
    BY <1>8 DEF Fails
  <2>2. /\ has' = has /\ late' = late /\ lateUnsafe' = lateUnsafe
        /\ \A h \in Gens \ {g} : Untouched(h)
        /\ \/ /\ Disposing(g)
              /\ work'[g] = pending \ {"startup"}
              /\ UNCHANGED <<phase, downVars, live, detached>>
           \/ /\ ~ Disposing(g)
              /\ \E owners \in {{}, {"owners"}} :
                   Begun(g, (pending \ {"startup"}) \cup owners)
    BY <2>1, FailStartEffect DEF Inv
  <2>3. ASSUME NEW h \in Gens, h # g PROVE AwaitedOf(h)'
    BY <2>2, <2>3 DEF Untouched, Inv, Awaited, AwaitedOf, Disposing
  <2>4. ASSUME Disposing(g) PROVE AwaitedOf(g)'
    <3>1. CASE Running(g)
      <4>1. teardown[g] \notin {"late", "finish"}
        BY <2>4, <3>1 DEF Inv, StartMet
      <4>2. work'[g] \cap (Ops \cup {"startup"}) \subseteq work[g] \cap Ops
        BY <2>1, <2>2, <2>4
      <4> QED BY <2>2, <2>4, <4>1, <4>2 DEF Inv, Awaited, AwaitedOf, downVars
    <3>2. CASE pending = work[g]
      BY <2>2, <2>4, <3>2 DEF Inv, Awaited, AwaitedOf, downVars
    <3> QED BY <2>1, <3>1, <3>2
  <2>5. ASSUME ~ Disposing(g) PROVE AwaitedOf(g)'
    <3>1. PICK owners \in {{}, {"owners"}} :
            Begun(g, (pending \ {"startup"}) \cup owners)
      BY <2>2, <2>5
    <3> QED BY <2>2, <3>1 DEF Begun, AwaitedOf
  <2> QED BY <2>3, <2>4, <2>5 DEF Awaited
<1>9. ASSUME NEW g \in Gens, Proceed(g) PROVE Awaited'
  <2> SUFFICES ASSUME NEW h \in Gens PROVE AwaitedOf(h)'
    BY DEF Awaited
  <2>1. CASE h # g
    BY <1>9, <2>1 DEF Proceed, StartStep, Unstarted, StartRejected, supVars,
      startVars, resVars, downVars, Inv, TypeOK, Awaited, AwaitedOf, Disposing
  <2>2. CASE h = g
    BY SMTT(20), <1>9, <2>2 DEF Proceed, StartStep, Unstarted, StartRejected, supVars,
      startVars, resVars, downVars, Inv, TypeOK, Awaited, AwaitedOf, PhasesAgree,
      StartMet, Disposing, Running, Idle
  <2> QED BY <2>1, <2>2
<1>10. ASSUME NEW g \in Gens, Ready(g) PROVE Awaited'
  BY <1>10 DEF Ready, StartStep, Unstarted, supVars, startVars, resVars, downVars,
    Inv, TypeOK, Awaited, AwaitedOf, PhasesAgree, StartMet, Disposing, Running,
    Idle, Workers, Boundaries
<1>11. ASSUME NEW g \in Gens, StartupSettles(g) PROVE Awaited'
  BY <1>11 DEF StartupSettles, supVars, startVars, resVars, downVars, Inv, TypeOK,
    Awaited, AwaitedOf, PhasesAgree, StartMet, Disposing, Running, Idle, Workers,
    Boundaries
<1>12. ASSUME NEW g \in Gens, CallbacksSettle(g) PROVE Awaited'
  <2> SUFFICES ASSUME NEW h \in Gens PROVE AwaitedOf(h)'
    BY DEF Awaited
  <2>1. CASE h # g
    BY <1>12, <2>1 DEF CallbacksSettle, NotTorn, Confirm, Left, StartSettling,
      Endings, supVars, startVars, resVars, downVars, Inv, TypeOK, Awaited,
      AwaitedOf, Disposing
  <2>2. CASE h = g
    BY SMTT(20), <1>12, <2>2 DEF CallbacksSettle, NotTorn, Confirm, Left,
      StartSettling, Endings, supVars, startVars, resVars, downVars, Inv, TypeOK,
      Awaited, AwaitedOf, PhasesAgree, StartMet, Disposing, Running, Idle
  <2> QED BY <2>1, <2>2
<1>13. ASSUME NEW g \in Gens, AnimalSettles(g) PROVE Awaited'
  <2> SUFFICES ASSUME NEW h \in Gens PROVE AwaitedOf(h)'
    BY DEF Awaited
  <2>1. CASE h # g
    BY <1>13, <2>1 DEF AnimalSettles, NotTorn, Confirm, Left, StartSettling, Endings,
      supVars, startVars, resVars, downVars, Inv, TypeOK, Awaited, AwaitedOf,
      Disposing
  <2>2. CASE h = g
    BY SMTT(20), <1>13, <2>2 DEF AnimalSettles, NotTorn, Confirm, Left, StartSettling,
      Endings, supVars, startVars, resVars, downVars, Inv, TypeOK, Awaited,
      AwaitedOf, PhasesAgree, StartMet, Disposing, Running, Idle
  <2> QED BY <2>1, <2>2
<1>14. ASSUME NEW g \in Gens, Settled(g) PROVE Awaited'
  <2>1. ASSUME NEW h \in Gens, h # g PROVE AwaitedOf(h)'
    BY <1>14, <2>1 DEF Settled, Inv, TypeOK, Awaited, AwaitedOf
  <2>2. AwaitedOf(g)'
    <3>1. settled' = [settled EXCEPT ![g] = awaited[g] \cap work[g] = {}]
      BY <1>14 DEF Settled
    <3>2. settled'[g] = (awaited[g] \cap work[g] = {})
      BY <3>1 DEF Inv, TypeOK
    <3>3. teardown[g] = "settling" /\ UNCHANGED <<awaited, work>>
      BY <1>14 DEF Settled
    <3> QED BY <3>2, <3>3 DEF Inv, Awaited, AwaitedOf
  <2> QED BY <2>1, <2>2 DEF Awaited
<1>15. ASSUME NEW g \in Gens, LateSettled(g) PROVE Awaited'
  <2> SUFFICES ASSUME NEW h \in Gens PROVE AwaitedOf(h)'
    BY DEF Awaited
  <2>1. CASE h # g
    BY <1>15, <2>1 DEF LateSettled, supVars, startVars, resVars, downVars, Inv,
      TypeOK, Awaited, AwaitedOf, Disposing
  <2>2. CASE h = g
    BY SMTT(20), <1>15, <2>2 DEF LateSettled, supVars, startVars, resVars, downVars,
      Inv, TypeOK, Awaited, AwaitedOf, PhasesAgree, StartMet, Disposing, Running,
      Idle
  <2> QED BY <2>1, <2>2
<1>16. ASSUME NEW g \in Gens, Finish(g) PROVE Awaited'
  <2> SUFFICES ASSUME NEW h \in Gens PROVE AwaitedOf(h)'
    BY DEF Awaited
  <2>1. CASE h # g
    BY <1>16, <2>1 DEF Finish, Release, Quarantine, Safe, supVars, startVars, resVars,
      downVars, Inv, TypeOK, Awaited, AwaitedOf, Disposing
  <2>2. CASE h = g
    BY SMTT(20), <1>16, <2>2 DEF Finish, Release, Quarantine, Safe, supVars,
      startVars, resVars, downVars, Inv, TypeOK, Awaited, AwaitedOf, PhasesAgree,
      StartMet, Disposing, Running, Idle
  <2> QED BY <2>1, <2>2
<1>17. ASSUME NEW g \in Gens, NEW isFatal \in BOOLEAN, Dispose(g, isFatal) PROVE Awaited'
  <2>1. /\ has' = has /\ late' = late /\ lateUnsafe' = lateUnsafe
        /\ \A h \in Gens \ {g} : Untouched(h)
        /\ \/ teardown[g] # "no" /\ Untouched(g)
           \/ /\ teardown[g] = "no"
              /\ \E owners \in {{}, {"owners"}} : Begun(g, work[g] \cup owners)
    BY <1>17, DisposeEffect DEF Inv
  <2>2. ASSUME NEW h \in Gens, Untouched(h) PROVE AwaitedOf(h)'
    BY <2>2 DEF Untouched, Inv, Awaited, AwaitedOf, Disposing
  <2>3. ASSUME teardown[g] = "no" PROVE AwaitedOf(g)'
    <3>1. PICK owners \in {{}, {"owners"}} : Begun(g, work[g] \cup owners)
      BY <2>1, <2>3
    <3> QED BY <2>1, <3>1 DEF Begun, AwaitedOf
  <2> QED BY <2>1, <2>2, <2>3 DEF Awaited
<1>18. ASSUME NEW g \in Gens, NEW o \in Ops, Track(g, o) PROVE Awaited'
  BY <1>18 DEF Track, supVars, startVars, resVars, downVars, Inv, TypeOK, Awaited,
    AwaitedOf, PhasesAgree, StartMet, Disposing, Running, Idle, Workers, Boundaries
<1>19. ASSUME NEW g \in Gens, NEW w \in Works, WorkSettles(g, w) PROVE Awaited'
  BY <1>19 DEF WorkSettles, supVars, startVars, resVars, downVars, Inv, TypeOK,
    Awaited, AwaitedOf, PhasesAgree, StartMet, Disposing, Running, Idle, Workers,
    Boundaries
<1>20. CASE UNCHANGED vars
  BY <1>20 DEF vars, supVars, startVars, resVars, downVars, Inv, Awaited, AwaitedOf,
    PhasesAgree, StartMet, Disposing, Running, Idle, Workers, Boundaries
<1> QED BY <1>1, <1>2, <1>3, <1>4, <1>5, <1>6, <1>7, <1>8, <1>9, <1>10, <1>11, <1>12,
  <1>13, <1>14, <1>15, <1>16, <1>17, <1>18, <1>19, <1>20, MakeFailsFails,
  InitializeFailsFails DEF Next, Supervision, Startup, Acquire, Teardown, Inv

-----------------------------------------------------------------------------
(* The theorems.                                                            *)

LEMMA InitInv == Init => Inv
<1> SUFFICES ASSUME Init PROVE Inv
  OBVIOUS
<1>1. TypeOK
  BY InitType
<1>2. PhasesAgree /\ SlotHeld
  BY RuntimeAssumption DEF Init, PhasesAgree, SlotHeld, Disposing
<1>3. LiveResources /\ NothingLeft /\ StartMet
  BY DEF Init, LiveResources, LiveOf, NothingLeft, StartMet, Running, Disposing
<1>4. BoundariesKnown /\ Stopped /\ Awaited
  BY DEF Init, BoundariesKnown, KnownOf, Stopped, StoppedOf, Awaited, AwaitedOf,
    Disposing
<1> QED BY <1>1, <1>2, <1>3, <1>4 DEF Inv

LEMMA NextInv == Inv /\ [Next]_vars => Inv'
<1> SUFFICES ASSUME Inv, [Next]_vars PROVE Inv'
  OBVIOUS
<1>1. TypeOK'
  BY NextType DEF Inv
<1>2. PhasesAgree' /\ SlotHeld' /\ LiveResources' /\ NothingLeft'
  BY <1>1, NextPhasesAgree, NextSlotHeld, NextLiveResources, NextNothingLeft
<1>3. StartMet' /\ BoundariesKnown' /\ Stopped' /\ Awaited'
  BY <1>1, NextStartMet, NextBoundariesKnown, NextStopped, NextAwaited
<1> QED BY <1>1, <1>2, <1>3 DEF Inv

\* The inductive invariant holds: phases, fields and promises of the supervisor and
\* of its runtimes agree, however start() and dispose() interleave.
THEOREM Invariance == Spec => []Inv
<1>1. Init => Inv
  BY InitInv
<1>2. Inv /\ [Next]_vars => Inv'
  BY NextInv
<1> QED BY <1>1, <1>2, PTL DEF Spec

\* The farm and the services are given back only when no callback, worker, Animal
\* or tracked operation is left (disposeInner()).
THEOREM FarmIsSafe == Spec => []FarmOutlivesUsers
<1>1. Inv => FarmOutlivesUsers
  <2> SUFFICES ASSUME Inv, NEW g \in Gens, phase[g] # "none",
                      "services" \notin live[g] \/ "farm" \in has[g] \ live[g]
               PROVE  live[g] = {} /\ work[g] \cap (Ops \cup {"startup"}) = {}
    BY DEF FarmOutlivesUsers
  <2>1. phase[g] = "disposed"
    BY DEF Inv, LiveResources, LiveOf
  <2> QED BY <2>1 DEF Inv, NothingLeft
<1> QED BY <1>1, Invariance, PTL

\* A quarantined generation keeps farm and services, and has neither workers nor
\* farm listeners left (disposeInner() and the late branches of startInner()).
THEOREM QuarantineKeeps == Spec => []QuarantineRetains
<1>1. Inv => QuarantineRetains
  <2> SUFFICES ASSUME Inv, NEW g \in Gens, phase[g] = "reload-required"
               PROVE  /\ {"services"} \cup (has[g] \cap {"farm"}) \subseteq live[g]
                      /\ Workers \cap live[g] = {}
                      /\ "farm" \in has[g] => detached[g]
    BY DEF QuarantineRetains
  <2>1. Disposing(g) /\ teardown[g] = "over"
    BY DEF Inv, PhasesAgree, Disposing
  <2>2. Workers \cap live[g] = {} /\ ("farm" \in has[g] => detached[g])
    BY <2>1 DEF Inv, Stopped, StoppedOf
  <2>3. "services" \in live[g] /\ ("farm" \in has[g] => "farm" \in live[g])
    BY DEF Inv, LiveResources, LiveOf
  <2> QED BY <2>2, <2>3
<1> QED BY <1>1, Invariance, PTL

\* No phase is left for an earlier one.
Advances == \A g \in Gens : phase'[g] # phase[g] => Rank(phase[g]) < Rank(phase'[g])

LEMMA StepAdvances == Inv /\ [Next]_vars => Advances
<1> SUFFICES ASSUME Inv, [Next]_vars PROVE Advances
  OBVIOUS
<1>1. ASSUME NEW g \in Gens, Create(g) PROVE Advances
  BY <1>1 DEF Create, supVars, startVars, resVars, downVars, Inv, TypeOK, Advances,
    Rank, PhasesAgree, Disposing, Phases
<1>2. ASSUME NEW g \in Gens, Admit(g) PROVE Advances
  BY <1>2 DEF Admit, HoldsTurn, Refuse, Construct, ConstructOrFail, supVars,
    startVars, resVars, downVars, Inv, TypeOK, Advances, Rank, PhasesAgree,
    Disposing, Phases
<1>3. ASSUME NEW g \in Gens, AwaitedTeardown(g) PROVE Advances
  BY <1>3 DEF AwaitedTeardown, HoldsTurn, Refuse, Construct, ConstructOrFail, supVars,
    startVars, resVars, downVars, Inv, TypeOK, Advances, Rank, PhasesAgree,
    Disposing, Phases
<1>4. ASSUME NEW g \in Gens, Start(g) PROVE Advances
  BY <1>4 DEF Start, StartStep, Unstarted, supVars, startVars, resVars, downVars, Inv,
    TypeOK, Advances, Rank, PhasesAgree, Disposing, Phases
<1>5. ASSUME NEW g \in Gens, EnterStart(g) PROVE Advances
  BY <1>5 DEF EnterStart, StartStep, Unstarted, supVars, startVars, resVars, downVars,
    Inv, TypeOK, Advances, Rank, PhasesAgree, Disposing, Phases
<1>6. ASSUME NEW g \in Gens, MakeInTime(g) PROVE Advances
  BY <1>6 DEF MakeInTime, StartStep, Unstarted, Recorded, supVars, startVars, resVars,
    downVars, Inv, TypeOK, Advances, Rank, PhasesAgree, Disposing, Phases
<1>7. ASSUME NEW g \in Gens, MakeLate(g) PROVE Advances
  BY <1>7 DEF MakeLate, StartStep, StartRejected, Recorded, supVars, startVars,
    resVars, downVars, Inv, TypeOK, Advances, Rank, PhasesAgree, Disposing, Phases
<1>8. ASSUME NEW g \in Gens, MakeFails(g) PROVE Advances
  BY <1>8 DEF MakeFails, StartStep, FailStart, BeginDispose, StartSettling, supVars,
    startVars, resVars, downVars, Inv, TypeOK, Advances, Rank, PhasesAgree,
    Disposing, Phases
<1>9. ASSUME NEW g \in Gens, Proceed(g) PROVE Advances
  BY <1>9 DEF Proceed, StartStep, Unstarted, StartRejected, supVars, startVars,
    resVars, downVars, Inv, TypeOK, Advances, Rank, PhasesAgree, Disposing, Phases
<1>10. ASSUME NEW g \in Gens, Ready(g) PROVE Advances
  BY <1>10 DEF Ready, StartStep, Unstarted, supVars, startVars, resVars, downVars,
    Inv, TypeOK, Advances, Rank, PhasesAgree, Disposing, Phases
<1>11. ASSUME NEW g \in Gens, InitializeFails(g) PROVE Advances
  BY <1>11 DEF InitializeFails, StartStep, FailStart, BeginDispose, StartSettling,
    supVars, startVars, resVars, downVars, Inv, TypeOK, Advances, Rank, PhasesAgree,
    Disposing, Phases
<1>12. ASSUME NEW g \in Gens, InitializeAborted(g) PROVE Advances
  BY <1>12 DEF InitializeAborted, StartStep, FailStart, BeginDispose, StartSettling,
    supVars, startVars, resVars, downVars, Inv, TypeOK, Advances, Rank, PhasesAgree,
    Disposing, Phases
<1>13. ASSUME NEW g \in Gens, StartupSettles(g) PROVE Advances
  BY <1>13 DEF StartupSettles, supVars, startVars, resVars, downVars, Inv, TypeOK,
    Advances, Rank, PhasesAgree, Disposing, Phases
<1>14. ASSUME NEW g \in Gens, CallbacksSettle(g) PROVE Advances
  BY <1>14 DEF CallbacksSettle, NotTorn, Confirm, Left, StartSettling, Endings,
    supVars, startVars, resVars, downVars, Inv, TypeOK, Advances, Rank, PhasesAgree,
    Disposing, Phases
<1>15. ASSUME NEW g \in Gens, AnimalSettles(g) PROVE Advances
  BY <1>15 DEF AnimalSettles, NotTorn, Confirm, Left, StartSettling, Endings, supVars,
    startVars, resVars, downVars, Inv, TypeOK, Advances, Rank, PhasesAgree,
    Disposing, Phases
<1>16. ASSUME NEW g \in Gens, Settled(g) PROVE Advances
  BY <1>16 DEF Settled, supVars, startVars, resVars, downVars, Inv, TypeOK, Advances,
    Rank, PhasesAgree, Disposing, Phases
<1>17. ASSUME NEW g \in Gens, LateSettled(g) PROVE Advances
  BY <1>17 DEF LateSettled, supVars, startVars, resVars, downVars, Inv, TypeOK,
    Advances, Rank, PhasesAgree, Disposing, Phases
<1>18. ASSUME NEW g \in Gens, Finish(g) PROVE Advances
  BY <1>18 DEF Finish, Release, Quarantine, Safe, supVars, startVars, resVars,
    downVars, Inv, TypeOK, Advances, Rank, PhasesAgree, Disposing, Phases
<1>19. ASSUME NEW g \in Gens, NEW isFatal \in BOOLEAN, Dispose(g, isFatal) PROVE Advances
  BY <1>19 DEF Dispose, BeginDispose, StartSettling, supVars, startVars, resVars,
    downVars, Inv, TypeOK, Advances, Rank, PhasesAgree, Disposing, Phases
<1>20. ASSUME NEW g \in Gens, NEW o \in Ops, Track(g, o) PROVE Advances
  BY <1>20 DEF Track, supVars, startVars, resVars, downVars, Inv, TypeOK, Advances,
    Rank, PhasesAgree, Disposing, Phases
<1>21. ASSUME NEW g \in Gens, NEW w \in Works, WorkSettles(g, w) PROVE Advances
  BY <1>21 DEF WorkSettles, supVars, startVars, resVars, downVars, Inv, TypeOK,
    Advances, Rank, PhasesAgree, Disposing, Phases
<1>22. CASE UNCHANGED vars
  BY <1>22 DEF vars, supVars, startVars, resVars, downVars, Inv, Advances, Rank,
    PhasesAgree, Disposing, Phases
<1> QED BY <1>1, <1>2, <1>3, <1>4, <1>5, <1>6, <1>7, <1>8, <1>9, <1>10, <1>11, <1>12,
  <1>13, <1>14, <1>15, <1>16, <1>17, <1>18, <1>19, <1>20, <1>21, <1>22 DEF Next,
  Supervision, Startup, Acquire, Teardown

\* The phase of a runtime only advances: it is never ready after a disposal has
\* begun, and none that was disposed of or quarantined comes back.
THEOREM PhasesAdvance == Spec => PhaseOnlyAdvances
<1>1. Inv /\ [Next]_vars => [Advances]_vars
  BY StepAdvances
<1> QED BY <1>1, Invariance, PTL DEF Spec, PhaseOnlyAdvances, Advances

-----------------------------------------------------------------------------
(* The supervisor implements the slot of one generation at a time.          *)

Busy == {g \in Gens : live[g] # {}}
Used == {g \in Gens : phase[g] # "none"}

\* What is busy is what is in use and was not disposed of: the slot's owner.
LEMMA BusyIsOwner ==
  Inv => /\ Busy = {g \in Gens : phase[g] \notin {"none", "disposed"}}
         /\ current = Nobody => Busy = {}
         /\ current # Nobody => Busy = {current}
<1> SUFFICES ASSUME Inv
             PROVE  /\ Busy = {g \in Gens : phase[g] \notin {"none", "disposed"}}
                    /\ current = Nobody => Busy = {}
                    /\ current # Nobody => Busy = {current}
  OBVIOUS
<1>1. \A g \in Gens : live[g] # {} <=> phase[g] \notin {"none", "disposed"}
  BY DEF Inv, LiveResources, LiveOf, NothingLeft
<1>2. Busy = {g \in Gens : phase[g] \notin {"none", "disposed"}}
  BY <1>1 DEF Busy
<1>3. \A g \in Gens : phase[g] \notin {"none", "disposed"} => current = g
  BY DEF Inv, SlotHeld
<1>4. current # Nobody => current \in Gens /\ phase[current] \notin {"none", "disposed"}
  BY DEF Inv, SlotHeld, TypeOK
<1>5. \A g \in Gens : g # Nobody
  BY RuntimeAssumption
<1> QED BY <1>2, <1>3, <1>4, <1>5

\* A step that no generation takes the slot by, nor returns or closes it.
Quiet ==
  /\ UNCHANGED <<current, quarantine>>
  /\ \A g \in Gens : (phase'[g] = "none" <=> phase[g] = "none")

Takes(g) ==
  /\ phase[g] = "none" /\ current = Nobody /\ quarantine = Nobody
  /\ current' = g /\ quarantine' = quarantine
  /\ \A h \in Gens : phase'[h] = "none" <=> (phase[h] = "none" /\ h # g)

Ends ==
  /\ current # Nobody /\ quarantine = Nobody
  /\ \A g \in Gens : (phase'[g] = "none" <=> phase[g] = "none")
  /\ \/ current' = Nobody /\ quarantine' = Nobody
     \/ current' = current /\ quarantine' # Nobody

SlotStep == Quiet \/ Ends \/ \E g \in Gens : Takes(g)

LEMMA StepsOfSlot == Inv /\ [Next]_vars => SlotStep
<1> SUFFICES ASSUME Inv, [Next]_vars PROVE SlotStep
  OBVIOUS
<1>1. ASSUME NEW g \in Gens, Create(g) PROVE SlotStep
  BY <1>1 DEF Create, supVars, startVars, resVars, downVars, Inv, TypeOK, SlotStep,
    Quiet, PhasesAgree, Disposing
<1>2. ASSUME NEW g \in Gens, Admit(g) PROVE SlotStep
  <2>1. phase[g] = "none"
    BY <1>2 DEF Admit, HoldsTurn, Inv, PhasesAgree
  <2>2. CASE Construct(g)
    <3>1. quarantine = Nobody /\ current = Nobody
      BY <1>2, <2>1, <2>2, RuntimeAssumption DEF Admit, Construct, Refuse, Inv, TypeOK
    <3> QED BY <2>1, <2>2, <3>1 DEF Construct, Inv, TypeOK, SlotStep, Takes
  <2>3. CASE UNCHANGED <<current, quarantine, phase>>
    BY <2>3 DEF SlotStep, Quiet
  <2> QED BY <1>2, <2>2, <2>3 DEF Admit, ConstructOrFail, Refuse
<1>3. ASSUME NEW g \in Gens, AwaitedTeardown(g) PROVE SlotStep
  <2>1. phase[g] = "none"
    BY <1>3 DEF AwaitedTeardown, HoldsTurn, Inv, PhasesAgree
  <2>2. CASE Construct(g)
    <3>1. quarantine = Nobody /\ current = Nobody
      BY <1>3, <2>1, <2>2, RuntimeAssumption DEF AwaitedTeardown, Construct, Refuse,
        Inv, TypeOK
    <3> QED BY <2>1, <2>2, <3>1 DEF Construct, Inv, TypeOK, SlotStep, Takes
  <2>3. CASE UNCHANGED <<current, quarantine, phase>>
    BY <2>3 DEF SlotStep, Quiet
  <2> QED BY <1>3, <2>2, <2>3 DEF AwaitedTeardown, ConstructOrFail, Refuse
<1>4. ASSUME NEW g \in Gens, Start(g) PROVE SlotStep
  BY <1>4 DEF Start, StartStep, Unstarted, supVars, startVars, resVars, downVars, Inv,
    TypeOK, SlotStep, Quiet, PhasesAgree, Disposing
<1>5. ASSUME NEW g \in Gens, EnterStart(g) PROVE SlotStep
  BY <1>5 DEF EnterStart, StartStep, Unstarted, supVars, startVars, resVars, downVars,
    Inv, TypeOK, SlotStep, Quiet, PhasesAgree, Disposing
<1>6. ASSUME NEW g \in Gens, MakeInTime(g) PROVE SlotStep
  BY <1>6 DEF MakeInTime, StartStep, Unstarted, Recorded, supVars, startVars, resVars,
    downVars, Inv, TypeOK, SlotStep, Quiet, PhasesAgree, Disposing
<1>7. ASSUME NEW g \in Gens, MakeLate(g) PROVE SlotStep
  BY <1>7 DEF MakeLate, StartStep, StartRejected, Recorded, supVars, startVars,
    resVars, downVars, Inv, TypeOK, SlotStep, Quiet, PhasesAgree, Disposing
<1>8. ASSUME NEW g \in Gens, MakeFails(g) PROVE SlotStep
  BY <1>8 DEF MakeFails, StartStep, FailStart, BeginDispose, StartSettling, supVars,
    startVars, resVars, downVars, Inv, TypeOK, SlotStep, Quiet, PhasesAgree,
    Disposing
<1>9. ASSUME NEW g \in Gens, Proceed(g) PROVE SlotStep
  BY <1>9 DEF Proceed, StartStep, Unstarted, StartRejected, supVars, startVars,
    resVars, downVars, Inv, TypeOK, SlotStep, Quiet, PhasesAgree, Disposing
<1>10. ASSUME NEW g \in Gens, Ready(g) PROVE SlotStep
  BY <1>10 DEF Ready, StartStep, Unstarted, supVars, startVars, resVars, downVars,
    Inv, TypeOK, SlotStep, Quiet, PhasesAgree, Disposing
<1>11. ASSUME NEW g \in Gens, InitializeFails(g) PROVE SlotStep
  BY <1>11 DEF InitializeFails, StartStep, FailStart, BeginDispose, StartSettling,
    supVars, startVars, resVars, downVars, Inv, TypeOK, SlotStep, Quiet,
    PhasesAgree, Disposing
<1>12. ASSUME NEW g \in Gens, InitializeAborted(g) PROVE SlotStep
  BY <1>12 DEF InitializeAborted, StartStep, FailStart, BeginDispose, StartSettling,
    supVars, startVars, resVars, downVars, Inv, TypeOK, SlotStep, Quiet,
    PhasesAgree, Disposing
<1>13. ASSUME NEW g \in Gens, StartupSettles(g) PROVE SlotStep
  BY <1>13 DEF StartupSettles, supVars, startVars, resVars, downVars, Inv, TypeOK,
    SlotStep, Quiet, PhasesAgree, Disposing
<1>14. ASSUME NEW g \in Gens, CallbacksSettle(g) PROVE SlotStep
  BY <1>14 DEF CallbacksSettle, NotTorn, Confirm, Left, StartSettling, Endings,
    supVars, startVars, resVars, downVars, Inv, TypeOK, SlotStep, Quiet,
    PhasesAgree, Disposing
<1>15. ASSUME NEW g \in Gens, AnimalSettles(g) PROVE SlotStep
  BY <1>15 DEF AnimalSettles, NotTorn, Confirm, Left, StartSettling, Endings, supVars,
    startVars, resVars, downVars, Inv, TypeOK, SlotStep, Quiet, PhasesAgree,
    Disposing
<1>16. ASSUME NEW g \in Gens, Settled(g) PROVE SlotStep
  BY <1>16 DEF Settled, supVars, startVars, resVars, downVars, Inv, TypeOK, SlotStep,
    Quiet, PhasesAgree, Disposing
<1>17. ASSUME NEW g \in Gens, LateSettled(g) PROVE SlotStep
  BY <1>17 DEF LateSettled, supVars, startVars, resVars, downVars, Inv, TypeOK,
    SlotStep, Quiet, PhasesAgree, Disposing
<1>18. ASSUME NEW g \in Gens, Finish(g) PROVE SlotStep
  <2>1. phase[g] = "disposing" /\ current = g /\ quarantine = Nobody /\ g # Nobody
    BY <1>18, RuntimeAssumption DEF Finish, Inv, TypeOK, PhasesAgree, SlotHeld,
      Disposing
  <2>2. \A h \in Gens : (phase'[h] = "none" <=> phase[h] = "none")
    BY <1>18, <2>1 DEF Finish, Release, Quarantine, Inv, TypeOK
  <2> QED BY <1>18, <2>1, <2>2 DEF Finish, Release, Quarantine, SlotStep, Ends
<1>19. ASSUME NEW g \in Gens, NEW isFatal \in BOOLEAN, Dispose(g, isFatal) PROVE SlotStep
  BY <1>19 DEF Dispose, BeginDispose, StartSettling, supVars, startVars, resVars,
    downVars, Inv, TypeOK, SlotStep, Quiet, PhasesAgree, Disposing
<1>20. ASSUME NEW g \in Gens, NEW o \in Ops, Track(g, o) PROVE SlotStep
  BY <1>20 DEF Track, supVars, startVars, resVars, downVars, Inv, TypeOK, SlotStep,
    Quiet, PhasesAgree, Disposing
<1>21. ASSUME NEW g \in Gens, NEW w \in Works, WorkSettles(g, w) PROVE SlotStep
  BY <1>21 DEF WorkSettles, supVars, startVars, resVars, downVars, Inv, TypeOK,
    SlotStep, Quiet, PhasesAgree, Disposing
<1>22. CASE UNCHANGED vars
  BY <1>22 DEF vars, supVars, startVars, resVars, downVars, Inv, SlotStep, Quiet,
    PhasesAgree, Disposing
<1> QED BY <1>1, <1>2, <1>3, <1>4, <1>5, <1>6, <1>7, <1>8, <1>9, <1>10, <1>11, <1>12,
  <1>13, <1>14, <1>15, <1>16, <1>17, <1>18, <1>19, <1>20, <1>21, <1>22 DEF Next,
  Supervision, Startup, Acquire, Teardown

\* Every step of the runtime is a step of the slot or a stutter.
LEMMA SlotRefined ==
  Inv /\ Inv' /\ [Next]_vars => [Slot!Next]_<<current, Busy, Used, quarantine # Nobody>>
<1> SUFFICES ASSUME Inv, Inv', SlotStep
             PROVE  [Slot!Next]_<<current, Busy, Used, quarantine # Nobody>>
  BY StepsOfSlot
<1>5. /\ (current = Nobody => Busy = {}) /\ (current # Nobody => Busy = {current})
      /\ (current' = Nobody => Busy' = {}) /\ (current' # Nobody => Busy' = {current'})
  <2>1. (Inv => /\ (current = Nobody => Busy = {})
                /\ (current # Nobody => Busy = {current}))'
    BY BusyIsOwner, PTL
  <2> QED BY <2>1, BusyIsOwner
<1>1. CASE Quiet
  <2>1. Used' = Used
    BY <1>1 DEF Quiet, Used
  <2>2. Busy' = Busy
    BY <1>1, <1>5 DEF Quiet
  <2> QED BY <1>1, <2>1, <2>2 DEF Quiet
<1>2. ASSUME NEW g \in Gens, Takes(g) PROVE Slot!Take(g)
  <2>1. g # Nobody
    BY RuntimeAssumption
  <2>2. Busy = {} /\ Busy' = {g}
    BY <1>2, <2>1, <1>5 DEF Takes
  <2>3. Used' = Used \cup {g} /\ g \notin Used
    BY <1>2 DEF Takes, Used
  <2> QED BY <1>2, <2>1, <2>2, <2>3 DEF Takes, Slot!Take, Busy, Used
<1>3. CASE Ends
  <2>1. Used' = Used
    BY <1>3 DEF Ends, Used
  <2>2. CASE current' = Nobody /\ quarantine' = Nobody
    <3>1. Busy' = {}
      BY <2>2, <1>5
    <3>2. Slot!Return
      BY <1>3, <2>1, <2>2, <3>1 DEF Ends, Slot!Return, Busy, Used
    <3> QED BY <3>2 DEF Slot!Next
  <2>3. CASE current' = current /\ quarantine' # Nobody
    <3>1. Busy' = Busy
      BY <2>3, <1>5
    <3>2. Slot!Close
      BY <1>3, <2>1, <2>3, <3>1 DEF Ends, Slot!Close, Busy, Used
    <3> QED BY <3>2 DEF Slot!Next
  <2> QED BY <1>3, <2>2, <2>3 DEF Ends
<1> QED BY <1>1, <1>2, <1>3 DEF SlotStep, Slot!Next

\* RuntimeSupervisor admits a generation only into a free slot, when nothing of
\* an earlier generation is left, and none after a quarantine.
THEOREM ImplementsSlot == Spec => SlotImplemented
<1>1. Init => Slot!Init
  BY DEF Init, Slot!Init
<1>2. Inv /\ Inv' /\ [Next]_vars => [Slot!Next]_<<current, Busy, Used, quarantine # Nobody>>
  BY SlotRefined
<1> QED BY <1>1, <1>2, Invariance, PTL DEF Spec, Slot!Spec, SlotImplemented, Busy, Used
=============================================================================
