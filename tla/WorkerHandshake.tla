--------------------------- MODULE WorkerHandshake ---------------------------
(***************************************************************************)
(* The handshake of page/src/runtime_worker_protocol.ts: the page ("main"),*)
(* the utility worker that builds and runs the Animal (the WASI guest and  *)
(* its threads), and the lifecycle worker that owns the Animal's destroyer *)
(* once it has adopted it.  Each pair of threads talks over the two FIFO   *)
(* message queues of a Worker.  One module models one RuntimeGeneration.   *)
(*                                                                         *)
(* Faults is the set of steps that may fail; every failure is a throw or a *)
(* rejection the code handles, except the two "…Error" ones, which are the *)
(* error and messageerror events of a Worker.                              *)
(***************************************************************************)
EXTENDS Naturals, Sequences

CONSTANT Faults

FaultKinds == {"prepare", "create", "destroyer", "adopt", "guest", "cleanup",
               "destroy", "utilityError", "lifecycleError"}

ASSUME FaultsAssumption == Faults \subseteq FaultKinds

VARIABLES
  main,       \* the closure variables of createRuntimeWorkerHandshake
  utilPc,     \* where the utility machine's initialize() stands
  cancelled,  \* the utility machine's cancelledBeforeAnimal
  life,       \* the lifecycle machine
  animal,     \* what has become of the Animal
  toU, fromU, \* the queues between main and the utility worker
  toL, fromL  \* the queues between main and the lifecycle worker

vars == <<main, utilPc, cancelled, life, animal, toU, fromU, toL, fromL>>
utilVars == <<utilPc, cancelled>>

Promise == {"pending", "resolved", "rejected"}

MainFlags == {"initialized", "destroyerReceived", "adopted", "ready",
              "disposeRequested", "cancelRequested", "destroySent",
              "terminal", "failure", "adoptionFailure", "reported"}

Main == [flags : SUBSET MainFlags, startup : Promise, disposal : Promise]

ToUtility   == {"initialize", "cancel", "adopted", "adoptionFailed"}
FromUtility == {"destroyer", "ready", "fatal", "cancelled"}
ToLifecycle   == {"adopt", "destroy"}
FromLifecycle == {"adopted", "destroyed", "fatal", "fatalWithToken"}

UtilPcs == {"idle", "preparing", "awaitingAdoption", "startingGuest",
            "serving", "cleaning", "failed"}
LifePcs == {"empty", "holding", "destroying", "done"}
Animals == {"none", "live", "destroyed", "unconfirmed"}

TypeOK ==
  /\ main \in Main
  /\ utilPc \in UtilPcs
  /\ cancelled \in BOOLEAN
  /\ life \in LifePcs
  /\ animal \in Animals
  /\ toU \in Seq(ToUtility)
  /\ fromU \in Seq(FromUtility)
  /\ toL \in Seq(ToLifecycle)
  /\ fromL \in Seq(FromLifecycle)

Has(m, flag) == flag \in m.flags
Set(m, flag) == [m EXCEPT !.flags = @ \cup {flag}]

Init ==
  /\ main = [flags |-> {}, startup |-> "pending", disposal |-> "pending"]
  /\ utilPc = "idle"
  /\ cancelled = FALSE
  /\ life = "empty"
  /\ animal = "none"
  /\ toU = <<>> /\ fromU = <<>> /\ toL = <<>> /\ fromL = <<>>

-----------------------------------------------------------------------------
(* The main thread's helpers, as functions of its record.                   *)

\* A promise keeps the first settlement it gets.
Settle(promise, outcome) == IF promise = "pending" THEN outcome ELSE promise

RejectStartup(m)   == [m EXCEPT !.startup = Settle(@, "rejected")]
ResolveDisposal(m) == [m EXCEPT !.disposal = Settle(@, "resolved")]
RejectDisposal(m)  == [m EXCEPT !.disposal = Settle(@, "rejected")]

\* terminate(): the listeners are removed and both workers stopped.
Terminate(m) == Set(m, "terminal")

CompleteDisposal(m) ==
  LET t == Terminate(m) IN
  IF Has(t, "failure") THEN RejectDisposal(t)
  ELSE ResolveDisposal(IF Has(t, "ready") THEN t ELSE RejectStartup(t))

\* onFatalError is called for the first failure after ready, unless the owner
\* has already asked for disposal.
CaptureFailure(m) ==
  IF /\ ~Has(m, "failure")
     /\ Has(m, "ready")
     /\ ~Has(m, "disposeRequested")
     /\ ~Has(m, "reported")
  THEN Set(Set(m, "failure"), "reported")
  ELSE Set(m, "failure")

FailImmediately(m) ==
  RejectDisposal(Terminate(RejectStartup(CaptureFailure(m))))

DestroyDue(m) == /\ Has(m, "disposeRequested") /\ Has(m, "adopted")
                 /\ ~Has(m, "destroySent") /\ ~Has(m, "terminal")

\* requestDestroy(), with m the record the handler has made so far.
RequestDestroy(m) ==
  IF DestroyDue(m)
  THEN main' = Set(m, "destroySent") /\ toL' = Append(toL, "destroy")
  ELSE main' = m /\ UNCHANGED toL

BeginFailureDisposal(m) ==
  LET f == Set(RejectStartup(CaptureFailure(m)), "disposeRequested") IN
  IF Has(f, "destroyerReceived")
  THEN RequestDestroy(f)
  ELSE main' = FailImmediately(f) /\ UNCHANGED toL

\* What the handler of an adoptionFailure does when the utility has cleaned up.
FailAdoption(m) ==
  RejectDisposal(Terminate(RejectStartup(Set(m, "failure"))))

-----------------------------------------------------------------------------
(* The main thread.                                                         *)

\* initialize(): refused once disposed or a second time.
MainInitialize ==
  /\ \A f \in {"initialized", "terminal", "disposeRequested"} : ~Has(main, f)
  /\ main' = Set(main, "initialized")
  /\ toU' = Append(toU, "initialize")
  /\ UNCHANGED <<utilVars, life, animal, fromU, toL, fromL>>

\* dispose(), with cancelBeforeDestroyer() inlined.
MainDispose ==
  LET m == Set(main, "disposeRequested") IN
  /\ ~Has(main, "terminal") /\ ~Has(main, "disposeRequested")
  /\ IF ~Has(m, "initialized")
     THEN main' = CompleteDisposal(m) /\ UNCHANGED <<toU, toL>>
     ELSE IF Has(m, "destroyerReceived")
     THEN RequestDestroy(m) /\ UNCHANGED toU
     ELSE /\ main' = Set(m, "cancelRequested")
          /\ toU' = Append(toU, "cancel")
          /\ UNCHANGED toL
  /\ UNCHANGED <<utilVars, life, animal, fromU, fromL>>

\* main takes the next message of the utility worker.
FromU(message) ==
  /\ ~Has(main, "terminal")
  /\ fromU # <<>> /\ Head(fromU) = message
  /\ fromU' = Tail(fromU)
  /\ UNCHANGED <<utilVars, life, animal, toU, fromL>>

MainCancelled ==
  /\ FromU("cancelled")
  /\ main' = IF ~Has(main, "disposeRequested") \/ Has(main, "destroyerReceived")
             THEN FailImmediately(main)
             ELSE CompleteDisposal(main)
  /\ UNCHANGED toL

MainUtilityFatal ==
  /\ FromU("fatal")
  /\ IF Has(main, "adoptionFailure")
     THEN main' = FailAdoption(main) /\ UNCHANGED toL
     ELSE IF Has(main, "disposeRequested") /\ ~Has(main, "failure")
     THEN /\ main' = IF Has(main, "adopted")
                     THEN RejectStartup(main)
                     ELSE ResolveDisposal(Terminate(RejectStartup(main)))
          /\ UNCHANGED toL
     ELSE BeginFailureDisposal(main)

MainDestroyer ==
  /\ FromU("destroyer")
  /\ IF Has(main, "destroyerReceived")
     THEN BeginFailureDisposal(main)
     ELSE /\ main' = Set(main, "destroyerReceived")
          /\ toL' = Append(toL, "adopt")

MainReady ==
  /\ FromU("ready")
  /\ IF Has(main, "disposeRequested")
     THEN UNCHANGED <<main, toL>>
     ELSE IF ~Has(main, "adopted") \/ Has(main, "ready")
     THEN BeginFailureDisposal(main)
     ELSE /\ main' = [Set(main, "ready") EXCEPT
                        !.startup = Settle(@, "resolved")]
          /\ UNCHANGED toL

\* main takes the next message of the lifecycle worker.
FromL(message) ==
  /\ ~Has(main, "terminal")
  /\ fromL # <<>> /\ Head(fromL) = message
  /\ fromL' = Tail(fromL)
  /\ UNCHANGED <<utilVars, life, animal, fromU>>

\* Mutant: a disposal requested before the adoption is not resumed after it.
MainAdoptedForgetsDisposal ==
  /\ FromL("adopted")
  /\ main' = Set(main, "adopted")
  /\ toU' = IF Has(main, "disposeRequested") THEN toU ELSE Append(toU, "adopted")
  /\ UNCHANGED toL

MainAdopted ==
  /\ FromL("adopted")
  /\ IF ~Has(main, "destroyerReceived") \/ Has(main, "adopted")
     THEN main' = FailImmediately(main) /\ UNCHANGED <<toU, toL>>
     ELSE LET m == Set(main, "adopted") IN
          IF Has(m, "disposeRequested")
          THEN RequestDestroy(m) /\ UNCHANGED toU
          ELSE main' = m /\ toU' = Append(toU, "adopted") /\ UNCHANGED toL

\* A lifecycle fatal with no token is a failed adoption.
MainLifecycleFatal ==
  /\ FromL("fatal")
  /\ IF Has(main, "ready")
     THEN BeginFailureDisposal(main) /\ UNCHANGED toU
     ELSE /\ main' = RejectStartup(Set(main, "adoptionFailure"))
          /\ toU' = Append(toU, "adoptionFailed")
          /\ UNCHANGED toL

MainDestroyed ==
  /\ FromL("destroyed")
  /\ main' = CompleteDisposal(main)
  /\ UNCHANGED <<toU, toL>>

\* Mutant: a failed destroy is taken for an acknowledgement.
MainDestroyFailedAsDone ==
  /\ FromL("fatalWithToken")
  /\ main' = CompleteDisposal(main)
  /\ UNCHANGED <<toU, toL>>

MainDestroyFailed ==
  /\ FromL("fatalWithToken")
  /\ main' = CompleteDisposal(Set(main, "failure"))
  /\ UNCHANGED <<toU, toL>>

\* onUtilityBoundary: an error or messageerror event of the utility worker.
UtilityBoundary ==
  /\ "utilityError" \in Faults
  /\ ~Has(main, "terminal")
  /\ IF Has(main, "adoptionFailure")
     THEN main' = FailImmediately(main) /\ UNCHANGED toL
     ELSE BeginFailureDisposal(main)
  /\ UNCHANGED <<utilVars, life, animal, toU, fromU, fromL>>

LifecycleBoundary ==
  /\ "lifecycleError" \in Faults
  /\ ~Has(main, "terminal")
  /\ main' = FailImmediately(main)
  /\ UNCHANGED <<utilVars, life, animal, toU, toL, fromU, fromL>>

-----------------------------------------------------------------------------
(* The utility worker: a worker main has terminated takes no step.          *)

UtilityStep == ~Has(main, "terminal") /\ UNCHANGED <<main, life, toL, fromL>>

ToU(message) ==
  /\ UtilityStep
  /\ toU # <<>> /\ Head(toU) = message
  /\ toU' = Tail(toU)

UtilityInitialize ==
  /\ ToU("initialize")
  /\ utilPc = "idle"
  /\ utilPc' = "preparing"
  /\ UNCHANGED <<cancelled, animal, fromU>>

\* animalCreated is false only while the prerequisite is being loaded; in the
\* state "failed" the message handler is terminal and drops the message.
UtilityCancel ==
  /\ ToU("cancel")
  /\ IF utilPc = "preparing" /\ ~cancelled
     THEN cancelled' = TRUE /\ fromU' = Append(fromU, "cancelled")
     ELSE UNCHANGED <<cancelled, fromU>>
  /\ UNCHANGED <<utilPc, animal>>

\* The prerequisite fails, or is thrown away because of a cancel, or the
\* constructor throws: there is no Animal to clean up.
UtilityPrepareFails ==
  /\ UtilityStep
  /\ utilPc = "preparing"
  /\ cancelled \/ Faults \cap {"prepare", "create"} # {}
  /\ utilPc' = "failed"
  /\ fromU' = Append(fromU, "fatal")
  /\ UNCHANGED <<cancelled, animal, toU>>

UtilityCreateAnimal ==
  /\ UtilityStep
  /\ utilPc = "preparing" /\ ~cancelled
  /\ animal' = "live"
  /\ \/ /\ utilPc' = "awaitingAdoption"
        /\ fromU' = Append(fromU, "destroyer")
     \/ /\ "destroyer" \in Faults         \* create_destroyer() throws
        /\ utilPc' = "cleaning"
        /\ UNCHANGED fromU
  /\ UNCHANGED <<cancelled, toU>>

UtilityAdopted ==
  /\ ToU("adopted")
  /\ utilPc = "awaitingAdoption"
  /\ utilPc' = "startingGuest"
  /\ UNCHANGED <<cancelled, animal, fromU>>

\* Mutant: a failed adoption skips the utility's own cleanup.
UtilityAdoptionFailedNoCleanup ==
  /\ ToU("adoptionFailed")
  /\ utilPc' = "failed"
  /\ fromU' = Append(fromU, "fatal")
  /\ UNCHANGED <<cancelled, animal>>

\* rejectAdoption runs the catch block: the utility still owns the destroyer.
UtilityAdoptionFailed ==
  /\ ToU("adoptionFailed")
  /\ utilPc' = IF utilPc = "awaitingAdoption" THEN "cleaning" ELSE utilPc
  /\ UNCHANGED <<cancelled, animal, fromU>>

UtilityGuestStarted ==
  /\ UtilityStep
  /\ utilPc = "startingGuest"
  /\ utilPc' = "serving"
  /\ fromU' = Append(fromU, "ready")
  /\ UNCHANGED <<cancelled, animal, toU>>

\* Mutant: the catch block ignores lifecycleOwnsDestroyer.
UtilityGuestFailsUnowned ==
  /\ UtilityStep
  /\ "guest" \in Faults
  /\ utilPc = "startingGuest"
  /\ utilPc' = "cleaning"
  /\ UNCHANGED <<cancelled, animal, toU, fromU>>

\* startGuest rejects after the adoption: the lifecycle worker cleans up.
UtilityGuestFails ==
  /\ UtilityStep
  /\ "guest" \in Faults
  /\ utilPc = "startingGuest"
  /\ utilPc' = "failed"
  /\ fromU' = Append(fromU, "fatal")
  /\ UNCHANGED <<cancelled, animal, toU>>

\* animal.async_destroy() of the utility's own cleanup, then its fatal.
UtilityCleanup ==
  /\ UtilityStep
  /\ utilPc = "cleaning"
  /\ \/ animal' = "destroyed"
     \/ "cleanup" \in Faults /\ animal' = "unconfirmed"
  /\ utilPc' = "failed"
  /\ fromU' = Append(fromU, "fatal")
  /\ UNCHANGED <<cancelled, toU>>

-----------------------------------------------------------------------------
(* The lifecycle worker.                                                    *)

LifecycleStep == ~Has(main, "terminal") /\ UNCHANGED <<main, utilVars, toU, fromU>>

LifecycleAdopt ==
  /\ LifecycleStep
  /\ toL # <<>> /\ Head(toL) = "adopt"
  /\ toL' = Tail(toL)
  /\ \/ /\ life = "empty"
        /\ life' = "holding"
        /\ fromL' = Append(fromL, "adopted")
     \/ /\ life # "empty" \/ "adopt" \in Faults
        /\ fromL' = Append(fromL, "fatal")
        /\ UNCHANGED life
  /\ UNCHANGED animal

LifecycleDestroy ==
  /\ LifecycleStep
  /\ toL # <<>> /\ Head(toL) = "destroy"
  /\ toL' = Tail(toL)
  /\ IF life = "empty"
     THEN fromL' = Append(fromL, "fatalWithToken") /\ UNCHANGED life
     ELSE /\ life' = IF life = "holding" THEN "destroying" ELSE life
          /\ UNCHANGED fromL
  /\ UNCHANGED animal

\* destroyOutcome settles and respondToDestroy answers.
LifecycleDestroyDone ==
  /\ LifecycleStep
  /\ life = "destroying"
  /\ life' = "done"
  /\ \/ animal' = "destroyed" /\ fromL' = Append(fromL, "destroyed")
     \/ /\ "destroy" \in Faults
        /\ animal' = "unconfirmed" /\ fromL' = Append(fromL, "fatalWithToken")
  /\ UNCHANGED toL

-----------------------------------------------------------------------------
MainReceive == \/ MainCancelled \/ MainUtilityFatal \/ MainDestroyer
               \/ MainReady \/ MainAdopted \/ MainLifecycleFatal
               \/ MainDestroyed \/ MainDestroyFailed

UtilityReceive == \/ UtilityInitialize \/ UtilityCancel \/ UtilityAdopted
                  \/ UtilityAdoptionFailed

Next ==
  \/ MainInitialize \/ MainDispose \/ MainReceive
  \/ UtilityBoundary \/ LifecycleBoundary
  \/ UtilityReceive \/ UtilityPrepareFails \/ UtilityCreateAnimal
  \/ UtilityGuestStarted \/ UtilityGuestFails \/ UtilityCleanup
  \/ LifecycleAdopt \/ LifecycleDestroy \/ LifecycleDestroyDone

\* Event loops deliver queued messages.  Loading the prerequisite, starting the
\* guest and the two async_destroy calls may hang: none of them has a deadline.
Fairness ==
  /\ WF_vars(MainReceive)
  /\ WF_vars(UtilityReceive)
  /\ WF_vars(LifecycleAdopt \/ LifecycleDestroy)

Spec == Init /\ [][Next]_vars
FairSpec == Spec /\ Fairness
-----------------------------------------------------------------------------
(* Properties.                                                              *)

\* The guest runs, or is being started, only while the lifecycle worker holds
\* (or has used) the destroyer that can stop it: startGuest waits for the
\* adoption to travel utility -> main -> lifecycle -> main -> utility.
GuestNeedsLifecycle ==
  utilPc \in {"startingGuest", "serving"} => life # "empty"

\* The two cleanup paths exclude each other: when the utility's catch block
\* destroys the Animal itself, the lifecycle worker has no destroyer for it.
\* Destroying through both would run the shim's destroyer twice.
OneDestroyer ==
  utilPc = "cleaning" => life = "empty" /\ animal = "live"

\* The Animal is never without the one owner that must stop it: its guest runs only under
\* the lifecycle worker's destroyer, and no failure makes both workers destroy it.
AnimalSafe == GuestNeedsLifecycle /\ OneDestroyer

\* Until the handshake is terminal, a live Animal has somebody left to destroy
\* it, whichever startup step threw: no failure path drops the reference.
LiveAnimalOwned ==
  animal = "live" /\ ~Has(main, "terminal") =>
    utilPc \in {"awaitingAdoption", "cleaning"} \/ life \in {"holding", "destroying"}

\* The order checks of the handlers are never what a healthy pair of workers
\* trips over: each message is still expected when it reaches the head of its
\* queue, whatever disposal and failures crossed it on the way.
MessagesInOrder ==
  ~Has(main, "terminal") =>
    /\ fromU # <<>> =>
         CASE Head(fromU) = "cancelled" -> /\ Has(main, "disposeRequested")
                                           /\ ~Has(main, "destroyerReceived")
           [] Head(fromU) = "destroyer" -> ~Has(main, "destroyerReceived")
           [] Head(fromU) = "ready" -> Has(main, "adopted") /\ ~Has(main, "ready")
           [] OTHER -> TRUE
    /\ fromL # <<>> =>
         CASE Head(fromL) = "adopted" -> /\ Has(main, "destroyerReceived")
                                         /\ ~Has(main, "adopted")
           [] Head(fromL) = "fatal" -> ~Has(main, "ready")
           [] OTHER -> Has(main, "destroySent")
    /\ toU # <<>> =>
         CASE Head(toU) = "initialize" -> utilPc = "idle"
           [] Head(toU) = "adopted" -> utilPc = "awaitingAdoption"
           [] Head(toU) = "adoptionFailed" -> utilPc = "awaitingAdoption"
           [] OTHER -> utilPc # "idle"

\* However disposal and failures cross the adoption, nobody is sent what it does not
\* expect, and the Animal is not dropped on the way.
HandshakeOrdered == LiveAnimalOwned /\ MessagesInOrder

\* dispose() resolves only when no Animal is left.  The code keeps this except
\* when the destroyer could not be created and the utility's own cleanup then
\* failed as well, which is the reason for the last disjunct.
SoundDisposal ==
  main.disposal = "resolved" =>
    \/ animal \in {"none", "destroyed"}
    \/ /\ animal = "unconfirmed" /\ life = "empty" /\ "cleanup" \in Faults
       /\ ~Has(main, "destroyerReceived")

\* The design's claim without the exception: a disposal reported as clean has
\* confirmed that the Animal is gone.
NoFalseSafeDisposal ==
  main.disposal = "resolved" => animal \in {"none", "destroyed"}

\* initialize() resolves only for a runtime whose guest is serving and whose
\* destroyer the lifecycle worker holds unused: a ready message that crosses
\* a destroy request never makes a runtime look started.
StartupResolvesServing ==
  [][main.startup = "pending" /\ main'.startup = "resolved" =>
       utilPc = "serving" /\ life = "holding" /\ ~Has(main, "disposeRequested")]_vars

\* A failure of a running runtime that nobody asked to dispose of is reported
\* through onFatalError in the very step that records it, so the supervisor
\* cannot keep using a runtime that is tearing itself down.
FailureReported ==
  [][ /\ Has(main, "ready") /\ ~Has(main, "disposeRequested")
      /\ ~Has(main, "failure") /\ Has(main', "failure")
      => Has(main', "reported")]_vars

\* An async_destroy call that has not settled yet.
Destroying == utilPc = "cleaning" \/ life = "destroying"

\* Once disposal was asked for, or a failure started it, the disposal promise
\* settles, unless an async_destroy call hangs: however the request crosses the
\* handshake, some message or event still arrives that completes it.
DisposalSettles ==
  []<>(Has(main, "disposeRequested") \/ Has(main, "adoptionFailure")
         => main.disposal # "pending" \/ Destroying)

\* The owner of an initialize() call hears of the end of the runtime: the
\* startup promise settles or the disposal promise rejects, unless async_destroy
\* hangs.
StartupHeard ==
  []<>(Has(main, "initialized") /\ Has(main, "disposeRequested")
         => main.startup # "pending" \/ main.disposal = "rejected" \/ Destroying)

\* The owner of a runtime hears of its start, of its failure and of its end: the two
\* promises settle, and only as the handshake stands.
CallersHear == /\ StartupResolvesServing /\ FailureReported
               /\ DisposalSettles /\ StartupHeard

\* Who can destroy the Animal, read off the two workers.
Holder == CASE animal = "none" -> "nobody"
            [] animal = "destroyed" -> "gone"
            [] animal = "unconfirmed" -> IF life = "empty" THEN "abandoned" ELSE "lost"
            [] OTHER -> IF life = "empty" THEN "utility" ELSE "lifecycle"

Custody == INSTANCE AnimalCustody WITH holder <- Holder, outcome <- main.disposal

\* The handshake keeps the custody discipline of AnimalCustody.
ImplementsCustody == Custody!Spec

-----------------------------------------------------------------------------
(* The inductive invariant behind the safety properties.                    *)

In(message, queue) == \E i \in 1..Len(queue) : queue[i] = message

Once(message, queue) ==
  \A i, j \in 1..Len(queue) : queue[i] = message /\ queue[j] = message => i = j

\* The adoption is in one place: the destroyer on its way to main, the handle
\* on its way to the lifecycle worker, or the failure on its way back.
AdoptionInFlight ==
  \/ In("destroyer", fromU) \/ In("adopt", toL)
  \/ In("fatal", fromL) \/ In("adoptionFailed", toU)

AdoptionPlaces ==
  /\ Once("destroyer", fromU) /\ Once("adopt", toL)
  /\ Once("fatal", fromL) /\ Once("adoptionFailed", toU)
  /\ AdoptionInFlight =>
       utilPc = "awaitingAdoption" /\ life = "empty" /\ animal = "live"
  /\ In("destroyer", fromU) =>
       /\ ~Has(main, "destroyerReceived")
       /\ ~In("adopt", toL) /\ ~In("fatal", fromL) /\ ~In("adoptionFailed", toU)
  /\ In("adopt", toL) => ~In("fatal", fromL) /\ ~In("adoptionFailed", toU)
  /\ In("fatal", fromL) => ~In("adoptionFailed", toU)
  /\ In("adoptionFailed", toU) => Has(main, "adoptionFailure")

Construction ==
  /\ utilPc # "idle" \/ In("initialize", toU) => Has(main, "initialized")
  /\ utilPc \in {"idle", "preparing"} =>
       animal = "none" /\ life = "empty" /\ ~Has(main, "destroyerReceived")
  /\ In("cancelled", fromU) => cancelled
  /\ cancelled => animal = "none" /\ utilPc \in {"preparing", "failed"}
  /\ utilPc = "cleaning" =>
       /\ life = "empty" /\ animal = "live"
       /\ Has(main, "destroyerReceived") => Has(main, "adoptionFailure")

Adoption ==
  /\ In("adopted", fromL) \/ Has(main, "adopted") => life # "empty"
  /\ In("adopted", toU) => Has(main, "adopted")
  /\ utilPc \in {"startingGuest", "serving"} => Has(main, "adopted")

Destruction ==
  /\ life \in {"holding", "destroying"} => animal = "live"
  /\ In("destroyed", fromL) => animal = "destroyed" /\ life = "done"
  /\ In("fatal", fromU) => utilPc = "failed"
  /\ animal = "none" => life = "empty"
  /\ utilPc = "failed" =>
       \/ Has(main, "adopted") \/ animal \in {"none", "destroyed"}
       \/ /\ animal = "unconfirmed" /\ life = "empty" /\ "cleanup" \in Faults
          /\ Has(main, "destroyerReceived") => Has(main, "adoptionFailure")

Inv ==
  /\ TypeOK /\ AdoptionPlaces /\ Construction /\ Adoption /\ Destruction
  /\ Has(main, "terminal") <=> main.disposal # "pending"
  /\ SoundDisposal

\* What main has recorded, and where the utility stands, for each message that waits.
Expected ==
  /\ cancelled \/ In("cancel", toU) => Has(main, "disposeRequested")
  /\ In("ready", fromU) \/ Has(main, "ready") => utilPc = "serving"
  /\ In("ready", fromU) => ~Has(main, "ready")
  /\ In("adopt", toL) => Has(main, "destroyerReceived")
  /\ Has(main, "destroyerReceived") => animal # "none"
  /\ In("adopted", fromL) => /\ utilPc = "awaitingAdoption"
                            /\ Has(main, "destroyerReceived") /\ ~Has(main, "adopted")
  /\ In("adopted", toU) => utilPc = "awaitingAdoption"
  /\ In("initialize", toU) => utilPc = "idle"
  /\ Once("ready", fromU) /\ Once("adopted", fromL)
  /\ Once("adopted", toU) /\ Once("initialize", toU)

\* The destroy request is what starts the lifecycle worker's cleanup.
DestroyAnswered ==
  /\ life = "done" => animal # "live"
  /\ \/ In("destroy", toL) \/ life \in {"destroying", "done"}
     \/ In("destroyed", fromL) \/ In("fatalWithToken", fromL)
     => Has(main, "destroySent")

\* Nothing overtakes the utility's first message.
InitializeFirst ==
  /\ ~Has(main, "initialized") => toU = <<>>
  /\ Has(main, "initialized") /\ utilPc = "idle" =>
       toU # <<>> /\ Head(toU) = "initialize"

\* With Inv, what the order of the messages rests on.
Order == Expected /\ DestroyAnswered /\ InitializeFirst
=============================================================================
