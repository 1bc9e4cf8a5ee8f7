----------------------------- MODULE AppRuntime -----------------------------
(***************************************************************************)
(* page/src/app_runtime.ts: RuntimeSupervisor admits one generation of the *)
(* VFS runtime at a time; AppRuntime acquires the resources of a           *)
(* generation in start() and gives them back in dispose(), or hands them   *)
(* to the supervisor's quarantine when it cannot tell that nobody uses     *)
(* them any more.  dispose() can be re-entered from every factory and      *)
(* state listener start() calls.                                           *)
(*                                                                         *)
(* Each member of Gens is one call of RuntimeSupervisor.create() and the   *)
(* generation it constructs.  Ops are calls to the utility worker that     *)
(* trackOperation() observes; Faults says what may go wrong.               *)
(***************************************************************************)
EXTENDS Naturals, Sequences

CONSTANTS Gens, Ops, Faults, Nobody

FaultKinds == {"construct", "factory", "initialize", "callbacks", "animal", "cleanup"}

ASSUME RuntimeAssumption ==
  /\ Nobody \notin Gens
  /\ Faults \subseteq FaultKinds
  /\ Ops \cap {"startup", "owners", "construction"} = {}

VARIABLES
  call, turns,          \* the create() calls, and those whose turn is to come
  current, quarantine,  \* #current and #quarantine of the supervisor
  phase,
  start, stage,         \* where startInner() is, the resource it is at
  startup,              \* the promise start() returned
  fatal,                \* is there a #primaryError?
  has, live,            \* resources a field holds, resources not yet given back
  late, lateUnsafe,     \* #lateStartupCleanups, #lateStartupUnsafe
  detached,             \* #farmDataPlaneDetached
  work,                 \* unsettled underlying operations and owner disposals
  teardown,             \* what disposeInner() awaits
  awaited, confirmed, settled  \* what it waits for, what it has confirmed

supVars == <<call, turns, current, quarantine>>
startVars == <<start, stage, startup>>
resVars == <<has, live, late, lateUnsafe, detached>>
downVars == <<teardown, awaited, confirmed, settled>>
vars == <<supVars, phase, startVars, fatal, resVars, work, downVars>>

\* The resources start() acquires, in that order; "handshake" stands for the
\* Animal too.  "services" are the ones the constructor makes.
Order == <<"callbacks", "farm", "utility", "lifecycle", "handshake">>
Stages == 1..5
Workers == {"utility", "lifecycle"}
Boundaries == {"callbacks", "handshake"}
Kinds == {"callbacks", "farm", "utility", "lifecycle", "handshake", "services"}
Works == Ops \cup {"startup", "owners", "construction"}

CallSteps == {"idle", "queued", "awaiting", "created", "rejected"}
Phases == {"none", "created", "starting", "ready", "disposing", "disposed",
           "reload-required"}
StartSteps == {"no", "called", "making", "made", "initializing", "resolved", "rejected"}
TeardownSteps == {"no", "callbacks", "animal", "settling", "late", "finish", "over"}

TypeOK ==
  /\ call \in [Gens -> CallSteps] /\ turns \in Seq(Gens)
  /\ current \in Gens \cup {Nobody} /\ quarantine \in Gens \cup {Nobody}
  /\ phase \in [Gens -> Phases]
  /\ start \in [Gens -> StartSteps] /\ stage \in [Gens -> Stages]
  /\ startup \in [Gens -> {"pending", "resolved", "rejected"}]
  /\ fatal \in [Gens -> BOOLEAN]
  /\ has \in [Gens -> SUBSET Kinds] /\ live \in [Gens -> SUBSET Kinds]
  /\ late \in [Gens -> SUBSET Boundaries] /\ lateUnsafe \in [Gens -> BOOLEAN]
  /\ detached \in [Gens -> BOOLEAN]
  /\ work \in [Gens -> SUBSET Works]
  /\ teardown \in [Gens -> TeardownSteps] /\ awaited \in [Gens -> SUBSET Works]
  /\ confirmed \in [Gens -> SUBSET Boundaries] /\ settled \in [Gens -> BOOLEAN]

Init ==
  /\ call = [g \in Gens |-> "idle"] /\ turns = <<>>
  /\ current = Nobody /\ quarantine = Nobody
  /\ phase = [g \in Gens |-> "none"]
  /\ start = [g \in Gens |-> "no"] /\ stage = [g \in Gens |-> 1]
  /\ startup = [g \in Gens |-> "pending"]
  /\ fatal = [g \in Gens |-> FALSE]
  /\ has = [g \in Gens |-> {}] /\ live = [g \in Gens |-> {}]
  /\ late = [g \in Gens |-> {}] /\ lateUnsafe = [g \in Gens |-> FALSE]
  /\ detached = [g \in Gens |-> FALSE]
  /\ work = [g \in Gens |-> {}]
  /\ teardown = [g \in Gens |-> "no"] /\ awaited = [g \in Gens |-> {}]
  /\ confirmed = [g \in Gens |-> {}] /\ settled = [g \in Gens |-> FALSE]

\* AppRuntime.disposing.
Disposing(g) == phase[g] \in {"disposing", "disposed", "reload-required"}

\* start() of g runs without a break up to the call of initialize(): nothing else
\* happens then, except that a factory or a listener re-enters dispose() of g.
Running(g) == start[g] \in {"called", "making", "made"}
Idle == \A g \in Gens : ~ Running(g)

-----------------------------------------------------------------------------
(* RuntimeSupervisor.create().                                              *)

Create(g) ==
  /\ Idle /\ call[g] = "idle"
  /\ call' = [call EXCEPT ![g] = "queued"]
  /\ turns' = Append(turns, g)
  /\ UNCHANGED <<current, quarantine, phase, startVars, fatal, resVars, work, downVars>>

\* g holds the turn: it is the first of those whose turn is not over.
HoldsTurn(g) == Idle /\ turns # <<>> /\ Head(turns) = g

\* Mutant: a create() that fails does not pass its turn on.
RefuseKeepsTurn(g) ==
  /\ call' = [call EXCEPT ![g] = "rejected"]
  /\ UNCHANGED <<turns, current, quarantine, phase, startVars, fatal, resVars, work, downVars>>

Refuse(g) ==
  /\ call' = [call EXCEPT ![g] = "rejected"]
  /\ turns' = Tail(turns)
  /\ UNCHANGED <<current, quarantine, phase, startVars, fatal, resVars, work, downVars>>

Construct(g) ==
  /\ call' = [call EXCEPT ![g] = "created"]
  /\ turns' = Tail(turns)
  /\ current' = g
  /\ phase' = [phase EXCEPT ![g] = "created"]
  /\ has' = [has EXCEPT ![g] = {"services"}]
  /\ live' = [live EXCEPT ![g] = {"services"}]
  /\ UNCHANGED <<quarantine, startVars, fatal, late, lateUnsafe, detached, work, downVars>>

ConstructOrFail(g) == Construct(g) \/ ("construct" \in Faults /\ Refuse(g))

Admit(g) ==
  /\ HoldsTurn(g) /\ call[g] = "queued"
  /\ IF quarantine # Nobody \/ (current # Nobody /\ ~ Disposing(current))
     THEN Refuse(g)
     ELSE IF current = Nobody
     THEN ConstructOrFail(g)
     ELSE /\ call' = [call EXCEPT ![g] = "awaiting"]
          /\ UNCHANGED <<turns, current, quarantine, phase, startVars, fatal,
                         resVars, work, downVars>>

\* Mutant: the quarantine is not looked at again after the teardown.
AwaitedTeardownUnchecked(g) ==
  /\ HoldsTurn(g) /\ call[g] = "awaiting"
  /\ current # Nobody => teardown[current] = "over"
  /\ ConstructOrFail(g)

\* The teardown create() waited for is over, one way or another.
AwaitedTeardown(g) ==
  /\ HoldsTurn(g) /\ call[g] = "awaiting"
  /\ current # Nobody => teardown[current] = "over"
  /\ IF quarantine # Nobody \/ current # Nobody THEN Refuse(g) ELSE ConstructOrFail(g)

-----------------------------------------------------------------------------
(* The beginning of a disposal: disposeInner() up to its first await.       *)

\* The workers of g are terminated and the operations to wait for are listed;
\* left is what of g is live otherwise.
StartSettling(g, left, pending) ==
  /\ teardown' = [teardown EXCEPT ![g] = "settling"]
  /\ awaited' = [awaited EXCEPT ![g] = pending]
  /\ live' = [live EXCEPT ![g] = left \ Workers]

\* What there is nothing of is confirmed, whatever start() still records.
BeginDispose(g, pending) ==
  /\ phase' = [phase EXCEPT ![g] = "disposing"]
  /\ detached' = [detached EXCEPT ![g] = @ \/ "farm" \in has[g]]
  /\ confirmed' = [confirmed EXCEPT ![g] = Boundaries \ has[g]]
  /\ work' = [work EXCEPT ![g] = pending]
  /\ IF "callbacks" \in has[g]
     THEN /\ teardown' = [teardown EXCEPT ![g] = "callbacks"]
          /\ UNCHANGED <<awaited, live>>
     ELSE StartSettling(g, live[g], pending)
  /\ UNCHANGED settled

\* reportFatal() and dispose(): disposeInner() runs once.  The disposals of the
\* coordinator and of the adopted owners, if there are any, begin with it.
Dispose(g, isFatal) ==
  /\ call[g] = "created"
  /\ Idle \/ (Running(g) /\ (start[g] = "made" => stage[g] # 2))
  /\ fatal' = [fatal EXCEPT ![g] = @ \/ isFatal]
  /\ IF teardown[g] = "no"
     THEN \E owners \in {{}, {"owners"}} : BeginDispose(g, work[g] \cup owners)
     ELSE isFatal /\ UNCHANGED <<phase, downVars, live, detached, work>>
  /\ UNCHANGED <<supVars, startVars, has, late, lateUnsafe>>

-----------------------------------------------------------------------------
(* start(): the resources are acquired one after the other.                 *)

Unstarted == <<supVars, downVars, late, lateUnsafe, detached>>

Start(g) ==
  /\ Idle /\ phase[g] = "created"
  /\ phase' = [phase EXCEPT ![g] = "starting"]
  /\ start' = [start EXCEPT ![g] = "called"]
  /\ UNCHANGED <<Unstarted, stage, startup, fatal, has, live, work>>

StartStep(g, step) == start' = [start EXCEPT ![g] = step]

\* The listeners of "starting" have run; a listener may have disposed of g.
EnterStart(g) ==
  /\ start[g] = "called"
  /\ IF Disposing(g)
     THEN StartStep(g, "rejected") /\ UNCHANGED work
     ELSE /\ StartStep(g, "making")
          /\ work' = [work EXCEPT ![g] = @ \cup {"startup"}]
  /\ UNCHANGED <<Unstarted, phase, stage, startup, fatal, has, live>>

Recorded(g) == has' = [has EXCEPT ![g] = @ \cup {Order[stage[g]]}]

\* A factory returns what it made.
MakeInTime(g) ==
  /\ start[g] = "making" /\ ~ Disposing(g)
  /\ Recorded(g)
  /\ live' = [live EXCEPT ![g] = @ \cup {Order[stage[g]]}]
  /\ StartStep(g, "made")
  /\ UNCHANGED <<Unstarted, phase, stage, startup, fatal, work>>

\* startInner() throws: the underlying operation "startup" has settled.
StartRejected(g) ==
  /\ StartStep(g, "rejected")
  /\ work' = [work EXCEPT ![g] = @ \ {"startup"}]

\* Mutant: a farm that comes after dispose() keeps its listeners.
MakeLateAttached(g) ==
  /\ start[g] = "making" /\ Disposing(g)
  /\ Recorded(g)
  /\ LET made == Order[stage[g]] IN
       /\ live' = [live EXCEPT ![g] = IF made \in Workers THEN @ ELSE @ \cup {made}]
       /\ late' = [late EXCEPT ![g] = @ \cup ({made} \cap Boundaries)]
  /\ UNCHANGED <<lateUnsafe, detached>>
  /\ StartRejected(g)
  /\ UNCHANGED <<supVars, downVars, phase, stage, startup, fatal>>

\* It was disposed of while the factory ran: the resource is recorded and given
\* back at once; what throws instead of being given back makes g unsafe.
MakeLate(g) ==
  /\ start[g] = "making" /\ Disposing(g)
  /\ Recorded(g)
  /\ LET made == Order[stage[g]] IN
     \E fails \in {FALSE} \cup ({TRUE} \cap {"cleanup" \in Faults}) :
       /\ live' = [live EXCEPT ![g] = IF made \in Workers THEN @ ELSE @ \cup {made}]
       /\ late' = [late EXCEPT ![g] = IF fails THEN @ ELSE @ \cup ({made} \cap Boundaries)]
       /\ lateUnsafe' = [lateUnsafe EXCEPT ![g] = @ \/ fails]
       /\ detached' = [detached EXCEPT ![g] = @ \/ made = "farm"]
  /\ StartRejected(g)
  /\ UNCHANGED <<supVars, downVars, phase, stage, startup, fatal>>

\* startInner() throws error: it is fatal unless g is being disposed of already.
FailStart(g, pending) ==
  /\ StartStep(g, "rejected")
  /\ LET left == pending \ {"startup"} IN
     IF Disposing(g)
     THEN /\ work' = [work EXCEPT ![g] = left]
          /\ UNCHANGED <<phase, fatal, downVars, live, detached>>
     ELSE /\ fatal' = [fatal EXCEPT ![g] = TRUE]
          /\ \E owners \in {{}, {"owners"}} : BeginDispose(g, left \cup owners)
  /\ UNCHANGED <<supVars, stage, startup, has, late, lateUnsafe>>

\* A factory throws.  The one of the host callbacks may have registered the
\* cleanup of what it had already made.
MakeFails(g) ==
  /\ start[g] = "making" /\ "factory" \in Faults
  /\ \E cleanup \in {{}} \cup (IF stage[g] = 1 THEN {{"construction"}} ELSE {}) :
       FailStart(g, work[g] \cup cleanup)

Proceed(g) ==
  /\ start[g] = "made"
  /\ IF Disposing(g)
     THEN /\ live' = [live EXCEPT ![g] = @ \ ({Order[stage[g]]} \cap Workers)]
          /\ StartRejected(g)
          /\ UNCHANGED stage
     ELSE /\ IF stage[g] = 5
             THEN StartStep(g, "initializing") /\ UNCHANGED stage
             ELSE StartStep(g, "making") /\ stage' = [stage EXCEPT ![g] = @ + 1]
          /\ UNCHANGED <<live, work>>
  /\ UNCHANGED <<Unstarted, phase, startup, fatal, has>>

\* initialize() resolves, before the abort or in the same turn as the abort.
Ready(g) ==
  /\ Idle /\ start[g] = "initializing"
  /\ StartStep(g, "resolved")
  /\ phase' = [phase EXCEPT ![g] = IF @ = "starting" THEN "ready" ELSE @]
  /\ work' = [work EXCEPT ![g] = @ \ {"startup"}]
  /\ UNCHANGED <<Unstarted, stage, startup, fatal, has, live>>

InitializeFails(g) ==
  /\ Idle /\ start[g] = "initializing" /\ "initialize" \in Faults
  /\ FailStart(g, work[g])

\* raceAbort(): the wait for initialize() ends with the abort of the generation.
InitializeAborted(g) ==
  /\ Idle /\ start[g] = "initializing" /\ Disposing(g)
  /\ FailStart(g, work[g])

\* The promise of start(): after a fatal error it is rejected when the disposal
\* has settled.
StartupSettles(g) ==
  /\ Idle /\ startup[g] = "pending"
  /\ \/ start[g] = "resolved" /\ startup' = [startup EXCEPT ![g] = "resolved"]
     \/ /\ start[g] = "rejected"
        /\ fatal[g] => teardown[g] = "over"
        /\ startup' = [startup EXCEPT ![g] = "rejected"]
  /\ UNCHANGED <<supVars, phase, start, stage, fatal, resVars, work, downVars>>

-----------------------------------------------------------------------------
(* Underlying operations: a call to the utility worker hangs for ever when  *)
(* that worker is gone; an owner's disposal or a construction's cleanup may *)
(* hang as well.                                                            *)

\* trackOperation() observes a call that was made.
Track(g, o) ==
  /\ Idle /\ phase[g] \in {"created", "starting", "ready"}
  /\ o \notin work[g]
  /\ work' = [work EXCEPT ![g] = @ \cup {o}]
  /\ UNCHANGED <<supVars, phase, startVars, fatal, resVars, downVars>>

WorkSettles(g, w) ==
  /\ Idle /\ w \in work[g] \ {"startup"}
  /\ w \in Ops => "utility" \in live[g]
  /\ work' = [work EXCEPT ![g] = @ \ {w}]
  /\ UNCHANGED <<supVars, phase, startVars, fatal, resVars, downVars>>

-----------------------------------------------------------------------------
(* The rest of a disposal; each wait has a deadline.                        *)

\* How a wait may end: well, or (by an error or the deadline) not.
Endings(kind) == {TRUE} \cup (IF kind \in Faults THEN {FALSE} ELSE {})

NotTorn == <<supVars, phase, startVars, fatal, has, late, lateUnsafe, detached, work, settled>>

Confirm(g, boundary, ok) ==
  confirmed' = [confirmed EXCEPT ![g] = IF ok THEN @ \cup {boundary} ELSE @]

Left(g, boundary, ok) == IF ok THEN live[g] \ {boundary} ELSE live[g]

\* Mutant: no deadline for the host callbacks.
CallbacksSettleNoDeadline(g) ==
  /\ Idle /\ teardown[g] = "callbacks" /\ "callbacks" \notin Faults
  /\ Confirm(g, "callbacks", TRUE)
  /\ IF "handshake" \in has[g]
     THEN /\ teardown' = [teardown EXCEPT ![g] = "animal"]
          /\ live' = [live EXCEPT ![g] = Left(g, "callbacks", TRUE)]
          /\ UNCHANGED awaited
     ELSE StartSettling(g, Left(g, "callbacks", TRUE), work[g])
  /\ UNCHANGED NotTorn

CallbacksSettle(g) ==
  /\ Idle /\ teardown[g] = "callbacks"
  /\ \E ok \in Endings("callbacks") :
       /\ Confirm(g, "callbacks", ok)
       /\ IF "handshake" \in has[g]
          THEN /\ teardown' = [teardown EXCEPT ![g] = "animal"]
               /\ live' = [live EXCEPT ![g] = Left(g, "callbacks", ok)]
               /\ UNCHANGED awaited
          ELSE StartSettling(g, Left(g, "callbacks", ok), work[g])
  /\ UNCHANGED NotTorn

AnimalSettles(g) ==
  /\ Idle /\ teardown[g] = "animal"
  /\ \E ok \in Endings("animal") :
       /\ Confirm(g, "handshake", ok)
       /\ StartSettling(g, Left(g, "handshake", ok), work[g])
  /\ UNCHANGED NotTorn

\* Mutant: only the owners are waited for.
OwnersSettled(g) ==
  /\ Idle /\ teardown[g] = "settling"
  /\ settled' = [settled EXCEPT ![g] = awaited[g] \cap work[g] \cap {"owners"} = {}]
  /\ teardown' = [teardown EXCEPT ![g] = IF late[g] = {} THEN "finish" ELSE "late"]
  /\ UNCHANGED <<supVars, phase, startVars, fatal, resVars, work, awaited, confirmed>>

\* Everything listed has settled, or the deadline is over.
Settled(g) ==
  /\ Idle /\ teardown[g] = "settling"
  /\ settled' = [settled EXCEPT ![g] = awaited[g] \cap work[g] = {}]
  /\ teardown' = [teardown EXCEPT ![g] = IF late[g] = {} THEN "finish" ELSE "late"]
  /\ UNCHANGED <<supVars, phase, startVars, fatal, resVars, work, awaited, confirmed>>

LateSettled(g) ==
  /\ Idle /\ teardown[g] = "late"
  /\ \E ok \in Endings("callbacks") \cup Endings("animal") :
       /\ settled' = [settled EXCEPT ![g] = @ /\ ok]
       /\ live' = [live EXCEPT ![g] = IF ok THEN @ \ late[g] ELSE @]
  /\ teardown' = [teardown EXCEPT ![g] = "finish"]
  /\ UNCHANGED <<supVars, phase, startVars, fatal, has, late, lateUnsafe, detached,
                 work, awaited, confirmed>>

Safe(g) == confirmed[g] = Boundaries /\ settled[g] /\ ~ lateUnsafe[g]

\* The farm is destroyed, the services are disposed of, the slot is released.
Release(g) ==
  /\ phase' = [phase EXCEPT ![g] = "disposed"]
  /\ live' = [live EXCEPT ![g] = @ \ {"farm", "services"}]
  /\ current' = IF current = g THEN Nobody ELSE current
  /\ UNCHANGED quarantine

Quarantine(g) ==
  /\ phase' = [phase EXCEPT ![g] = "reload-required"]
  /\ quarantine' = IF current = g THEN g ELSE quarantine
  /\ UNCHANGED <<live, current>>

Finish(g) ==
  /\ Idle /\ teardown[g] = "finish"
  /\ teardown' = [teardown EXCEPT ![g] = "over"]
  /\ IF Safe(g) THEN Release(g) ELSE Quarantine(g)
  /\ UNCHANGED <<call, turns, startVars, fatal, has, late, lateUnsafe, detached,
                 work, awaited, confirmed, settled>>

-----------------------------------------------------------------------------
Supervision(g) == Create(g) \/ Admit(g) \/ AwaitedTeardown(g)

Acquire(g) == MakeInTime(g) \/ MakeLate(g) \/ MakeFails(g)

\* A fatal error of the worker handshake is one of the reasons for Dispose.
Startup(g) ==
  \/ Start(g) \/ EnterStart(g) \/ Acquire(g) \/ Proceed(g)
  \/ Ready(g) \/ InitializeFails(g) \/ InitializeAborted(g) \/ StartupSettles(g)

Teardown(g) ==
  CallbacksSettle(g) \/ AnimalSettles(g) \/ Settled(g) \/ LateSettled(g) \/ Finish(g)

Next ==
  \E g \in Gens :
    \/ Supervision(g) \/ Startup(g) \/ Teardown(g)
    \/ \E isFatal \in BOOLEAN : Dispose(g, isFatal)
    \/ \E o \in Ops : Track(g, o)
    \/ \E w \in Works : WorkSettles(g, w)

Spec == Init /\ [][Next]_vars

\* What runs on the main thread runs to its end, every wait of a disposal has a
\* deadline, and the abort ends the wait for initialize().  Nothing makes an
\* operation settle, nor initialize(), nor anybody call dispose().
Fairness ==
  \A g \in Gens :
    /\ WF_vars(Admit(g) \/ AwaitedTeardown(g))
    /\ WF_vars(EnterStart(g) \/ Acquire(g) \/ Proceed(g))
    /\ WF_vars(InitializeAborted(g)) /\ WF_vars(StartupSettles(g))
    /\ WF_vars(CallbacksSettle(g)) /\ WF_vars(AnimalSettles(g)) /\ WF_vars(Settled(g))
    /\ WF_vars(LateSettled(g)) /\ WF_vars(Finish(g))

FairSpec == Spec /\ Fairness

-----------------------------------------------------------------------------
(* Properties.                                                              *)

\* The farm's shared memory, and the services the host callbacks write to, are
\* given back only when no callback, no worker, no Animal and no call to them
\* is left, in whatever order start() and dispose() met.
FarmOutlivesUsers ==
  \A g \in Gens :
    phase[g] # "none" /\ ("services" \notin live[g] \/ "farm" \in has[g] \ live[g])
      => live[g] = {} /\ work[g] \cap (Ops \cup {"startup"}) = {}

\* A quarantine keeps what a callback or an Animal that may still run can reach,
\* and leaves neither a worker nor the farm's listeners behind, those included
\* that start() made after the disposal had begun.
QuarantineRetains ==
  \A g \in Gens : phase[g] = "reload-required" =>
    /\ {"services"} \cup (has[g] \cap {"farm"}) \subseteq live[g]
    /\ Workers \cap live[g] = {}
    /\ "farm" \in has[g] => detached[g]

\* A runtime that was disposed of never becomes ready, and none comes back.
Rank(p) ==
  CASE p = "none" -> 0 [] p = "created" -> 1 [] p = "starting" -> 2
    [] p = "ready" -> 3 [] p = "disposing" -> 4 [] OTHER -> 5
PhaseOnlyAdvances ==
  [][\A g \in Gens : phase'[g] # phase[g] => Rank(phase[g]) < Rank(phase'[g])]_vars

\* At most one generation holds resources: a later one is admitted only when
\* they have all been given back, and none after a quarantine.
Slot == INSTANCE GenerationSlot WITH
          owner <- current,
          busy <- {g \in Gens : live[g] # {}},
          used <- {g \in Gens : phase[g] # "none"},
          closed <- quarantine # Nobody
SlotImplemented == Slot!Spec

\* A disposal ends whatever hangs, in a release of the slot or a quarantine.
DisposeEnds ==
  \A g \in Gens :
    []<>(phase[g] # "disposing")

\* Every create() is answered, those queued behind a teardown too.
CreateEnds == \A g \in Gens : []<>(call[g] # "queued")

\* The promise of start() settles once the runtime is disposed of.
StartupEnds ==
  \A g \in Gens : []<>(start[g] # "no" /\ Disposing(g) => startup[g] # "pending")

\* A design document says that operations lost with their worker are no safety
\* boundary: only callbacks and an Animal not accounted for cost a reload.
QuarantineOnlyUnconfirmed ==
  \A g \in Gens : phase[g] = "reload-required" =>
    \/ confirmed[g] # Boundaries \/ late[g] # {} \/ lateUnsafe[g]
    \/ work[g] \cap {"owners", "construction", "startup"} # {}
=============================================================================
