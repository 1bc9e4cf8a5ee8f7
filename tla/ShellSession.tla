---------------------------- MODULE ShellSession ----------------------------
(***************************************************************************)
(* The sessions of the shell (crates/vfs-shell/src/main.rs), each a thread *)
(* that takes events from its channel, the bootstrap of the two startup    *)
(* sysroots that one of them runs (startup_sysroot_bootstrap.rs), and the  *)
(* page that waits for it (page/src/vfs_readiness.ts).                     *)
(*                                                                         *)
(* A loop is one run of run_session_loop(): a session that is created      *)
(* anew gets another loop.  Keys are told apart as far as they end a line  *)
(* ("line" runs a command) or not ("char"); Resize does nothing here.      *)
(* Pipelines are wasibox_core's: a command reads its input or ends.        *)
(***************************************************************************)
EXTENDS Naturals, Sequences

CONSTANTS SessionIds,             \* 0 is the session that startup uses
          Keys,                   \* the keys a user presses
          MaxLoops, MaxEvents     \* bounds: sessions created, events sent by the page

SessionAssumption == 0 \in SessionIds /\ Keys \subseteq {"char", "line"}
                     /\ MaxLoops \in Nat /\ MaxEvents \in Nat

VARIABLES table,      \* SESSIONS: the loop of a session, 0 if there is none
          loop,       \* the threads
          sysroot,    \* STARTUP_SYSROOTS
          startup,    \* the status endpoint and its poll
          waiter, abortSeen,  \* awaitStartupSysrootsSettlement() in the page
          sent

shellVars == <<table, loop, sysroot, startup, waiter, abortSeen, sent>>

Loops == 1..MaxLoops
Kinds == {"rust-src", "target"}
Events == {"char", "line"} \cup Kinds
LoadStates == {"NotStarted", "Loading", "Ready", "Failed"}

\* open: its sender lives; eof: its command has read the end of its input.
LoopState == [at : {"none", "idle", "command", "stdin", "loading", "ended"},
              queue : Seq(Events), deferred : Seq(Kinds), kind : Kinds,
              open : BOOLEAN, cancelled : BOOLEAN, eof : BOOLEAN]
Unused == [at |-> "none", queue |-> <<>>, deferred |-> <<>>, kind |-> "rust-src",
           open |-> FALSE, cancelled |-> FALSE, eof |-> FALSE]

Init == /\ table = [s \in SessionIds |-> 0]
        /\ loop = [l \in Loops |-> Unused]
        /\ sysroot = [k \in Kinds |-> "NotStarted"]
        /\ startup = [poll |-> "none", first |-> "NotStarted",
                      late |-> FALSE, status |-> "loading"]
        /\ waiter = "none" /\ abortSeen = FALSE /\ sent = 0

pageVars == <<startup, waiter, abortSeen>>

(* --- vfs_shell_dispatch() ----------------------------------------------- *)

MayDispatch == sent < MaxEvents /\ sent' = sent + 1

\* A new channel and thread; the sender of an earlier one is dropped.
\* Session 0 first runs its five commands of greeting.
CreateSession(s) ==
  \E l \in Loops :
    /\ MayDispatch
    /\ loop[l].at = "none" /\ \A m \in 1..(l - 1) : loop[m].at # "none"
    /\ loop' = [m \in Loops |->
                  CASE m = l -> [Unused EXCEPT !.open = TRUE,
                                               !.at = IF s = 0 THEN "command" ELSE "idle"]
                    [] m = table[s] /\ m # l -> [loop[m] EXCEPT !.open = FALSE]
                    [] OTHER -> loop[m]]
    /\ table' = [table EXCEPT ![s] = l]
    /\ UNCHANGED <<sysroot, pageVars>>

Sent(s, events) == IF table[s] = 0 THEN loop
                   ELSE [loop EXCEPT ![table[s]].queue = @ \o events]

Input(s, e) == /\ MayDispatch /\ table[s] # 0
               /\ loop' = Sent(s, <<e>>)
               /\ UNCHANGED <<table, sysroot, pageVars>>

\* Neither goes through the channel.
Interrupt(s) == /\ MayDispatch /\ table[s] # 0
                /\ loop' = [loop EXCEPT ![table[s]].cancelled = TRUE]
                /\ UNCHANGED <<table, sysroot, pageVars>>
CloseSession(s) == /\ MayDispatch /\ table[s] # 0
                   /\ loop' = [loop EXCEPT ![table[s]].cancelled = TRUE, ![table[s]].open = FALSE]
                   /\ table' = [table EXCEPT ![s] = 0]
                   /\ UNCHANGED <<sysroot, pageVars>>

(* --- run_session_loop() ------------------------------------------------- *)

\* Mutant: what a command put aside waits for the channel to be empty.
DeferredLast(q) == q.queue # <<>>

\* Is the next event one of the channel's?
FromChannel(q) == q.deferred = <<>> /\ q.queue # <<>>
NextEvent(q) == IF FromChannel(q) THEN Head(q.queue) ELSE Head(q.deferred)
Taken(q) == IF FromChannel(q) THEN [q EXCEPT !.queue = Tail(@)]
                              ELSE [q EXCEPT !.deferred = Tail(@)]

\* process_input_char(): a key clears the cancellation; a line runs.
TakeKey(l) ==
  /\ loop[l].at = "idle" /\ FromChannel(loop[l])
  /\ LET e == NextEvent(loop[l]) IN
       /\ e \in {"char", "line"}
       /\ loop' = [loop EXCEPT ![l] = [Taken(@) EXCEPT !.cancelled = FALSE, !.eof = FALSE,
                                         !.at = IF e = "line" THEN "command" ELSE "idle"]]
  /\ UNCHANGED <<table, sysroot, pageVars, sent>>

\* begin() refuses a sysroot that loads or has loaded.
Begins(k) == sysroot[k] \notin {"Loading", "Ready"}
TakeBootstrap(l) ==
  /\ loop[l].at = "idle" /\ loop[l].deferred \o loop[l].queue # <<>>
  /\ LET k == NextEvent(loop[l]) IN
       /\ k \in Kinds
       /\ loop' = [loop EXCEPT ![l] = [Taken(@) EXCEPT !.kind = k,
                                         !.at = IF Begins(k) THEN "loading" ELSE "idle"]]
       /\ sysroot' = IF Begins(k) THEN [sysroot EXCEPT ![k] = "Loading"] ELSE sysroot
  /\ UNCHANGED <<table, pageVars, sent>>

\* finish()
Finished(k, outcome) == IF sysroot[k] = "Loading" THEN [sysroot EXCEPT ![k] = outcome] ELSE sysroot

\* bootstrap_command_outcome(): an error of load_sysroot, or no error but the
\* file that shows it worked is missing, is a failure.
Outcome(error, sentinel) == IF ~error /\ sentinel THEN "Ready" ELSE "Failed"
LoadEnds(l) ==
  /\ loop[l].at = "loading"
  /\ \E error, sentinel \in BOOLEAN :
       sysroot' = Finished(loop[l].kind, Outcome(error, sentinel))
  /\ loop' = [loop EXCEPT ![l].at = "idle"]
  /\ UNCHANGED <<table, pageVars, sent>>

LoopEnds(l) ==
  /\ loop[l].at = "idle" /\ ~loop[l].open
  /\ loop[l].queue = <<>> /\ loop[l].deferred = <<>>
  /\ loop' = [loop EXCEPT ![l].at = "ended"]
  /\ UNCHANGED <<table, sysroot, pageVars, sent>>

(* --- CommandStdin::read() of the command that runs ---------------------- *)

ReadStdin(l) ==
  /\ loop[l].at = "command" /\ ~loop[l].eof
  /\ loop' = [loop EXCEPT ![l] = IF @.cancelled THEN [@ EXCEPT !.eof = TRUE]
                                                ELSE [@ EXCEPT !.at = "stdin"]]
  /\ UNCHANGED <<table, sysroot, pageVars, sent>>

\* A key is input of the command, even one typed after an interruption that
\* recv() could not notice; a bootstrap is put aside.
Received(q) == IF Head(q.queue) \in Kinds
                 THEN [q EXCEPT !.queue = Tail(@), !.deferred = Append(@, Head(q.queue)),
                                !.at = "command"]
                 ELSE [q EXCEPT !.queue = Tail(@), !.at = "command"]
Receive(l) ==
  /\ loop[l].at = "stdin" /\ loop[l].queue # <<>>
  /\ loop' = [loop EXCEPT ![l] = Received(@)]
  /\ UNCHANGED <<table, sysroot, pageVars, sent>>

ReceiveClosed(l) ==
  /\ loop[l].at = "stdin" /\ loop[l].queue = <<>> /\ ~loop[l].open
  /\ loop' = [loop EXCEPT ![l].at = "command", ![l].eof = TRUE]
  /\ UNCHANGED <<table, sysroot, pageVars, sent>>

\* Any command may end at any time; one that still reads need not.
CommandEnds(l) ==
  /\ loop[l].at = "command"
  /\ loop' = [loop EXCEPT ![l].at = "idle"]
  /\ UNCHANGED <<table, sysroot, pageVars, sent>>

(* --- the status endpoint of the utility worker -------------------------- *)

\* pollStartupSysroots(): the two states are asked for one after the other.
PollFirst ==
  /\ startup.poll = "due"
  /\ startup' = [startup EXCEPT !.poll = "second", !.first = sysroot["rust-src"]]
  /\ UNCHANGED <<table, loop, sysroot, waiter, abortSeen, sent>>

Snapshot(first, second) == CASE first = "Failed" \/ second = "Failed" -> "failed"
                             [] first = "Ready" /\ second = "Ready" -> "ok"
                             [] OTHER -> "loading"

PollSecond ==
  /\ startup.poll = "second"
  /\ LET result == Snapshot(startup.first, sysroot["target"])
         settled == IF result = "loading" /\ startup.late THEN "failed" ELSE result
     IN startup' = [startup EXCEPT !.status = settled,
                                   !.poll = IF settled = "loading" THEN "due" ELSE "over"]
  /\ UNCHANGED <<table, loop, sysroot, waiter, abortSeen, sent>>

Deadline ==
  /\ startup.poll \in {"due", "second"} /\ ~startup.late
  /\ startup' = [startup EXCEPT !.late = TRUE]
  /\ UNCHANGED <<table, loop, sysroot, waiter, abortSeen, sent>>

(* --- the page ------------------------------------------------------------ *)

\* The first call dispatches both bootstraps, to session 0 if it is there.
Ask ==
  /\ waiter = "none" /\ waiter' = "waiting"
  /\ startup' = [startup EXCEPT !.poll = "due"]
  /\ loop' = Sent(0, <<"rust-src", "target">>)
  /\ UNCHANGED <<table, sysroot, abortSeen, sent>>

\* The dispatch of a guest that traps throws.
AskTraps ==
  /\ waiter = "none" /\ waiter' = "waiting"
  /\ startup' = [startup EXCEPT !.status = "failed", !.poll = "over"]
  /\ UNCHANGED <<table, loop, sysroot, abortSeen, sent>>

\* An answer that is complete; an abort does not cut the wait short, it only
\* changes its outcome.
Answered ==
  /\ waiter = "waiting" /\ startup.status # "loading"
  /\ waiter' = IF abortSeen THEN "aborted" ELSE startup.status
  /\ UNCHANGED <<table, loop, sysroot, startup, abortSeen, sent>>

\* The call itself fails: with the error, or with the reason of the abort.
EndpointFails ==
  /\ waiter = "waiting" /\ waiter' = "rejected"
  /\ UNCHANGED <<table, loop, sysroot, startup, abortSeen, sent>>

AbortWait ==
  /\ waiter = "waiting" /\ ~abortSeen /\ abortSeen' = TRUE
  /\ UNCHANGED <<table, loop, sysroot, startup, waiter, sent>>

LoopStep(l) == \/ TakeKey(l) \/ TakeBootstrap(l) \/ LoadEnds(l) \/ LoopEnds(l)
               \/ ReadStdin(l) \/ Receive(l) \/ ReceiveClosed(l)
Next ==
  \/ \E s \in SessionIds : \/ CreateSession(s) \/ Interrupt(s) \/ CloseSession(s)
                           \/ \E e \in Keys : Input(s, e)
  \/ \E l \in Loops : LoopStep(l) \/ CommandEnds(l)
  \/ Ask \/ AskTraps \/ Answered \/ EndpointFails \/ AbortWait
  \/ PollFirst \/ PollSecond \/ Deadline

Spec == Init /\ [][Next]_shellVars
\* Threads, timers and calls go on; a command need not end while it may read,
\* but one that has read the end of its input does.
FairSpec ==
  /\ Spec
  /\ \A l \in Loops : /\ WF_shellVars(LoopStep(l))
                      /\ WF_shellVars(loop[l].eof /\ CommandEnds(l))
  /\ WF_shellVars(Answered)
  /\ WF_shellVars(PollFirst \/ PollSecond) /\ WF_shellVars(Deadline)

(* --- properties ----------------------------------------------------------- *)

TypeOK ==
  /\ table \in [SessionIds -> 0..MaxLoops]
  /\ loop \in [Loops -> LoopState]
  /\ sysroot \in [Kinds -> LoadStates]
  /\ startup \in [poll : {"none", "due", "second", "over"},
                  first : LoadStates, late : BOOLEAN, status : {"loading", "ok", "failed"}]
  /\ waiter \in {"none", "waiting", "ok", "failed", "aborted", "rejected"}
  /\ abortSeen \in BOOLEAN /\ sent \in 0..MaxEvents

\* The target is extracted after rust-src has been, successfully or not, also
\* when a command that reads its input has put one of the two bootstraps aside.
LoadedInOrder == sysroot["target"] # "NotStarted" => sysroot["rust-src"] \in {"Ready", "Failed"}

\* The page hears of success only when both are there, and an abort of its
\* wait does not let it go on while the guest may still be extracting.
SettledTruth ==
  /\ waiter = "ok" => \A k \in Kinds : sysroot[k] = "Ready"
  /\ waiter = "aborted" => startup.poll = "over"

\* A closed or replaced session's thread comes to an end, whatever its
\* command was waiting for.
ClosedSessionsEnd == \A l \in Loops : []<>(loop[l].at \in {"none", "ended"} \/ loop[l].open)

\* The wait of the page comes to an end, with or without a session 0.
StartupSettles == []<>(waiter # "waiting")
=============================================================================
