------------------------------ MODULE ToolRuns ------------------------------
(***************************************************************************)
(* The embedded tools of the VFS guest (crates/vfs: lib.rs, command.rs,    *)
(* shell.rs) and the state they share: one argument vector and one         *)
(* environment for every tool, the buffer through which the shell hands a  *)
(* command over, the two run locks, the capture of the tools' output and   *)
(* their exit statuses.                                                    *)
(*                                                                         *)
(* A thread is a terminal session of the shell, a host thread of the       *)
(* language server that calls host_run_cargo(), or a job thread of a       *)
(* running cargo that calls wasi_ext_spawn().  Arguments, environments and *)
(* output are the thread they belong to.  CARGO_OUTPUT, which the          *)
(* child-process slot shadows while it is set, and COLUMNS and LINES are   *)
(* left out.                                                               *)
(***************************************************************************)
EXTENDS Naturals, FiniteSets

CONSTANTS Sessions, Hosts, Jobs, Lsp,   \* threads; Lsp starts the editor's analyzer
          Commands, HostPrograms,       \* programs of each session, of a host thread
          ExitCodes,                    \* what a program may exit with
          MaxCommands,                  \* bound: programs started in all
          None

ToolAssumption ==
  /\ Commands \in [Sessions -> SUBSET {"rustc", "cargo", "clang", "rust-analyzer"}]
  /\ HostPrograms \subseteq {"rustc", "cargo"}
  /\ ExitCodes \subseteq 0..100 /\ ExitCodes # {} /\ MaxCommands \in Nat
  /\ Sessions \cap (Hosts \cup Jobs) = {} /\ Hosts \cap Jobs = {}
  /\ Lsp \notin Sessions \cup Hosts \cup Jobs
  /\ None \notin Sessions \cup Hosts \cup Jobs \cup {Lsp}

VARIABLES th,          \* the threads
          cmdArgs,     \* CMD_ARGS: who wrote it and what
          cargoLock, rustcLock,
          env, argv,   \* VIRTUAL_SHELL_ENV, VIRTUAL_ARGS
          slot,        \* CHILD_PROCESS_STDIO: owner, output
          hostOut,     \* HOST_CARGO_OUTPUT, {None} when it is not set
          status,      \* CARGO_EXIT_STATUS, RUSTC_EXIT_STATUS
          lspStarted, started

toolVars == <<th, cmdArgs, cargoLock, rustcLock, env, argv, slot, hostOut, status,
              lspStarted, started>>

Threads == Sessions \cup Hosts \cup Jobs \cup {Lsp}
Programs == {"rustc", "cargo", "clang", "rust-analyzer", "unknown"}
Command == [by : Threads \cup {None}, prog : Programs]
NoCommand == [by |-> None, prog |-> "unknown"]
FreeSlot == [owner |-> None, out |-> {}]
NotCaptured == {None}

Steps == {"idle", "typed", "copy", "cargo", "overlay", "rustc", "set", "enter", "main",
          "run", "exited", "restore"}
\* seen: the arguments its program read; code: what it exited with.
Thread == [pc : Steps, cmd : Command, buf : Command, env : Threads \cup {None},
           args : Command, seen : Command, wrote : BOOLEAN,
           code : {0, 101} \cup ExitCodes]
Idle == [pc |-> "idle", cmd |-> NoCommand, buf |-> NoCommand, env |-> None,
         args |-> NoCommand, seen |-> NoCommand, wrote |-> FALSE, code |-> 0]

Init == /\ th = [t \in Threads |-> Idle]
        /\ cmdArgs = NoCommand
        /\ cargoLock = None /\ rustcLock = None
        /\ env = None /\ argv = NoCommand
        /\ slot = FreeSlot /\ hostOut = NotCaptured
        /\ status = [cargo |-> 0, rustc |-> 0]
        /\ lspStarted = FALSE /\ started = 0

Prog(t) == th[t].cmd.prog
At(t, pc) == th[t].pc = pc
Goto(t, pc) == th' = [th EXCEPT ![t].pc = pc]
Begin(t, p) == /\ started < MaxCommands /\ At(t, "idle")
               /\ started' = started + 1
               /\ th' = [th EXCEPT ![t] = [Idle EXCEPT !.pc = p.pc, !.cmd = p.cmd]]

(* --- the shell hands a command over ----------------------------------- *)

\* The fallback of the registry leaves the words in the one buffer.
Fallback(s, p) ==
  /\ Begin(s, [pc |-> "typed", cmd |-> NoCommand])
  /\ cmdArgs' = [by |-> s, prog |-> p]
  /\ UNCHANGED <<cargoLock, rustcLock, env, argv, slot, hostOut, status, lspStarted>>

\* vfs_execute_command() asks for the address and then for the length.
ReadPointer(s) ==
  /\ At(s, "typed")
  /\ th' = [th EXCEPT ![s].pc = "copy", ![s].buf = cmdArgs]
  /\ UNCHANGED <<cmdArgs, cargoLock, rustcLock, env, argv, slot, hostOut, status,
                 lspStarted, started>>

\* The bytes at that address; another session may have replaced the vector,
\* which frees them.
Copied(s) == IF th[s].buf = cmdArgs THEN {cmdArgs} ELSE {th[s].buf, cmdArgs, NoCommand}

\* Mutant: a cargo typed in a terminal does not wait for the run lock.
FirstStepUnlocked(prog) == IF prog = "rustc" THEN "cargo"
                           ELSE IF prog = "unknown" THEN "idle" ELSE "set"

\* handle_command() up to the first lock or the first write.
FirstStep(prog) == CASE prog \in {"rustc", "cargo"} -> "cargo"
                     [] prog = "clang" -> "set"
                     [] prog = "rust-analyzer" -> IF lspStarted THEN "idle" ELSE "set"
                     [] prog = "unknown" -> "idle"

CopyArgs(s) ==
  /\ At(s, "copy")
  /\ \E c \in Copied(s) :
       th' = [th EXCEPT ![s] = [Idle EXCEPT !.cmd = IF FirstStep(c.prog) = "idle" THEN @ ELSE c,
                                            !.pc = FirstStep(c.prog)]]
  /\ UNCHANGED <<cmdArgs, cargoLock, rustcLock, env, argv, slot, hostOut, status,
                 lspStarted, started>>

(* --- the editor's language server ------------------------------------- *)

\* dispatch() of the language server's session: StartOnce and a thread.
StartLsp ==
  /\ ~lspStarted /\ lspStarted' = TRUE
  /\ th' = [th EXCEPT ![Lsp].pc = "set", ![Lsp].cmd = [by |-> Lsp, prog |-> "rust-analyzer"]]
  /\ UNCHANGED <<cmdArgs, cargoLock, rustcLock, env, argv, slot, hostOut, status, started>>

\* host_run_cargo(): a request with arguments and a program it supports.
HostRequest(h, p) ==
  /\ At(Lsp, "run")
  /\ Begin(h, [pc |-> "cargo", cmd |-> [by |-> h, prog |-> p]])
  /\ UNCHANGED <<cmdArgs, cargoLock, rustcLock, env, argv, slot, hostOut, status, lspStarted>>

Overlay(h) ==
  /\ At(h, "overlay")
  /\ th' = [th EXCEPT ![h].env = env,
                      ![h].pc = IF Prog(h) = "cargo" THEN "set" ELSE "rustc"]
  /\ env' = h
  /\ UNCHANGED <<cmdArgs, cargoLock, rustcLock, argv, slot, hostOut, status, lspStarted, started>>

(* --- cargo spawns rustc ------------------------------------------------ *)

\* wasi_ext_spawn() of a cargo that runs; other programs leave this state
\* alone (run_wasi_child() is in ChildProcess).
Spawn(j) ==
  /\ \E t \in Threads \ Jobs : At(t, "run") /\ Prog(t) = "cargo"
  /\ Begin(j, [pc |-> "rustc", cmd |-> [by |-> j, prog |-> "rustc"]])
  /\ UNCHANGED <<cmdArgs, cargoLock, rustcLock, env, argv, slot, hostOut, status, lspStarted>>

(* --- the run locks ----------------------------------------------------- *)

AfterCargoLock(t) == IF t \in Hosts THEN "overlay"
                     ELSE IF Prog(t) = "rustc" THEN "rustc" ELSE "set"
TakeCargo(t) ==
  /\ At(t, "cargo") /\ cargoLock = None
  /\ cargoLock' = t
  /\ Goto(t, AfterCargoLock(t))
  /\ UNCHANGED <<cmdArgs, rustcLock, env, argv, slot, hostOut, status, lspStarted, started>>

AfterRustcLock(t) == IF t \in Sessions THEN "set" ELSE "enter"
TakeRustc(t) ==
  /\ At(t, "rustc") /\ rustcLock = None
  /\ rustcLock' = t
  /\ Goto(t, AfterRustcLock(t))
  /\ UNCHANGED <<cmdArgs, cargoLock, env, argv, slot, hostOut, status, lspStarted, started>>

\* enter_target_cwd() refuses the directory of a cargo of the host.
HostCwdFails(h) ==
  /\ h \in Hosts /\ At(h, "set") /\ th' = [th EXCEPT ![h] = Idle]
  /\ env' = th[h].env /\ cargoLock' = None
  /\ UNCHANGED <<rustcLock, cmdArgs, argv, slot, hostOut, status, lspStarted, started>>

\* The same for a rustc that cargo spawns.
JobCwdFails(j) ==
  /\ j \in Jobs /\ At(j, "enter") /\ th' = [th EXCEPT ![j] = Idle]
  /\ rustcLock' = None
  /\ UNCHANGED <<cargoLock, env, cmdArgs, argv, slot, hostOut, status, lspStarted, started>>

(* --- one run of a tool ------------------------------------------------- *)

\* set_..._opt_args(), by whoever holds whatever lock.
SetArgs(t) ==
  /\ At(t, "set") /\ argv' = th[t].cmd /\ Goto(t, "main")
  /\ UNCHANGED <<cmdArgs, cargoLock, rustcLock, env, slot, hostOut, status, lspStarted, started>>

\* ChildProcessStdioGuard::new() and drain_and_restore(); the slot is only
\* replaced under the lock of rustc, so that the previous one is free.
InstalledBy(t) == [owner |-> t, out |-> {}]
Drained == FreeSlot

\* RustcInvocationState::new() and the guard of the child-process slot.
Enter(t) ==
  /\ At(t, "enter")
  /\ th' = [th EXCEPT ![t].pc = "main", ![t].args = argv,
                      ![t].env = IF t \in Jobs THEN env ELSE @]
  /\ env' = t /\ argv' = th[t].cmd
  /\ slot' = InstalledBy(t)
  /\ UNCHANGED <<cmdArgs, cargoLock, rustcLock, hostOut, status, lspStarted, started>>

\* run_cargo_capture_output() or run_rustc() up to _main(), which asks for
\* the arguments.
Main(t) ==
  /\ At(t, "main")
  /\ th' = [th EXCEPT ![t].pc = "run", ![t].seen = argv]
  /\ hostOut' = IF Prog(t) = "cargo" THEN {} ELSE hostOut
  /\ status' = IF Prog(t) \in {"cargo", "rustc"} THEN [status EXCEPT ![Prog(t)] = 0] ELSE status
  /\ UNCHANGED <<cmdArgs, cargoLock, rustcLock, env, argv, slot, lspStarted, started>>

\* route_stdio_output(): the slot of this thread, the capture of cargo, then
\* the context of a session.
Destination(t) == CASE slot.owner = t -> "slot"
                    [] slot.owner # t /\ Prog(t) = "cargo" /\ hostOut # NotCaptured -> "capture"
                    [] OTHER -> IF t \in Sessions THEN "context" ELSE "default"
Write(t) ==
  /\ At(t, "run") /\ ~th[t].wrote /\ Prog(t) \in {"cargo", "rustc"}
  /\ th' = [th EXCEPT ![t].wrote = TRUE]
  /\ slot' = IF Destination(t) = "slot" THEN [slot EXCEPT !.out = @ \cup {t}] ELSE slot
  /\ hostOut' = IF Destination(t) = "capture" THEN hostOut \cup {t} ELSE hostOut
  /\ UNCHANGED <<cmdArgs, cargoLock, rustcLock, env, argv, status, lspStarted, started>>

\* proc_exit(); cargo has waited for its jobs, the analyzer stays.
Exit(t) ==
  /\ At(t, "run") /\ t # Lsp
  /\ Prog(t) = "cargo" => \A j \in Jobs : At(j, "idle")
  /\ \E code \in ExitCodes :
       /\ th' = [th EXCEPT ![t].pc = "exited", ![t].code = code]
       /\ status' = IF Prog(t) \in {"cargo", "rustc"}
                      THEN [status EXCEPT ![Prog(t)] = code] ELSE status
  /\ UNCHANGED <<cmdArgs, cargoLock, rustcLock, env, argv, slot, hostOut, lspStarted, started>>

\* A panic inside an invocation is caught; its output is dropped.
Panic(t) ==
  /\ At(t, "run") /\ slot.owner = t
  /\ th' = [th EXCEPT ![t].pc = "exited", ![t].code = 101, ![t].wrote = FALSE]
  /\ slot' = [slot EXCEPT !.out = {}]
  /\ UNCHANGED <<cmdArgs, cargoLock, rustcLock, env, argv, hostOut, status, lspStarted, started>>

\* The capture of cargo is taken and, in a session, shown.
CollectCargo(t) ==
  /\ At(t, "exited") /\ Prog(t) = "cargo"
  /\ th' = [th EXCEPT ![t] = IF t \in Hosts THEN [@ EXCEPT !.pc = "restore"] ELSE Idle]
  /\ hostOut' = NotCaptured
  /\ cargoLock' = IF t \in Hosts THEN cargoLock ELSE None
  /\ UNCHANGED <<cmdArgs, rustcLock, env, argv, slot, status, lspStarted, started>>

\* Mutant: a job keeps the lock of rustc.
LeaveLocked(t) ==
  /\ At(t, "exited") /\ t \in Jobs \cup Hosts /\ Prog(t) = "rustc"
  /\ th' = [th EXCEPT ![t] = IF t \in Hosts THEN [@ EXCEPT !.pc = "restore"] ELSE Idle]
  /\ slot' = Drained /\ argv' = th[t].args
  /\ env' = IF t \in Jobs THEN th[t].env ELSE env
  /\ rustcLock' = IF t \in Hosts THEN None ELSE rustcLock
  /\ UNCHANGED <<cmdArgs, cargoLock, hostOut, status, lspStarted, started>>

\* The guards of an invocation are dropped, then its lock.
Leave(t) ==
  /\ At(t, "exited") /\ t \in Jobs \cup Hosts /\ Prog(t) = "rustc"
  /\ th' = [th EXCEPT ![t] = IF t \in Hosts THEN [@ EXCEPT !.pc = "restore"] ELSE Idle]
  /\ slot' = Drained /\ argv' = th[t].args
  /\ env' = IF t \in Jobs THEN th[t].env ELSE env
  /\ rustcLock' = None
  /\ UNCHANGED <<cmdArgs, cargoLock, hostOut, status, lspStarted, started>>

HostRestores(h) ==
  /\ At(h, "restore") /\ th' = [th EXCEPT ![h] = Idle]
  /\ env' = th[h].env /\ cargoLock' = None
  /\ UNCHANGED <<cmdArgs, rustcLock, argv, slot, hostOut, status, lspStarted, started>>

\* The end of a rustc, a clang or an analyzer in the shell.
CommandReturns(s) ==
  /\ At(s, "exited") /\ s \in Sessions /\ Prog(s) # "cargo"
  /\ th' = [th EXCEPT ![s] = Idle]
  /\ IF Prog(s) = "rustc" THEN cargoLock' = None /\ rustcLock' = None
                          ELSE UNCHANGED <<cargoLock, rustcLock>>
  /\ UNCHANGED <<cmdArgs, env, argv, slot, hostOut, status, lspStarted, started>>

Advances(t) ==
  \/ ReadPointer(t) \/ CopyArgs(t) \/ TakeCargo(t) \/ TakeRustc(t)
  \/ Overlay(t) \/ HostCwdFails(t) \/ JobCwdFails(t) \/ SetArgs(t) \/ Enter(t) \/ Main(t)
  \/ Write(t) \/ Exit(t) \/ Panic(t)
  \/ CollectCargo(t) \/ Leave(t) \/ HostRestores(t) \/ CommandReturns(t)

Next ==
  \/ \E s \in Sessions : \E p \in Commands[s] : Fallback(s, p)
  \/ StartLsp
  \/ \E h \in Hosts, p \in HostPrograms : HostRequest(h, p)
  \/ \E j \in Jobs : Spawn(j)
  \/ \E t \in Threads : Advances(t)

Spec == Init /\ [][Next]_toolVars
\* Every thread goes on, and a tool that runs comes to an end.
FairSpec == Spec /\ \A t \in Threads : WF_toolVars(Advances(t))

(* --- properties --------------------------------------------------------- *)

TypeOK ==
  /\ th \in [Threads -> Thread] /\ cmdArgs \in Command
  /\ cargoLock \in Threads \cup {None} /\ rustcLock \in Threads \cup {None}
  /\ env \in Threads \cup {None} /\ argv \in Command
  /\ slot \in [owner : Threads \cup {None}, out : SUBSET Threads]
  /\ hostOut \subseteq Threads \cup {None}
  /\ status \in [cargo : {0} \cup ExitCodes, rustc : {0} \cup ExitCodes]
  /\ lspStarted \in BOOLEAN /\ started \in 0..MaxCommands

\* When a cargo, or a rustc started for somebody, has ended and its caller
\* is about to collect, the exit status and the capture that all threads
\* share hold the status and all of the output of this program, and nothing
\* of another one.
ResultIsOwn ==
  \A t \in Threads : At(t, "exited") =>
    LET own == IF th[t].wrote THEN {t} ELSE {}
    IN CASE Prog(t) = "cargo" -> status.cargo = th[t].code /\ hostOut = own
         [] Prog(t) = "rustc" /\ t \in Sessions -> status.rustc = th[t].code
         [] Prog(t) = "rustc" /\ t \notin Sessions ->
              th[t].code \in {status.rustc, 101} /\ slot = [owner |-> t, out |-> own]
         [] OTHER -> TRUE

\* A cargo or rustc reads the arguments set for it, or those of a program
\* that takes no run lock (clang, the language server); those of another
\* cargo or rustc never.
SerializedArgs ==
  \A t \in Threads : (At(t, "run") /\ Prog(t) \in {"cargo", "rustc"}) =>
    th[t].seen = th[t].cmd \/ th[t].seen.prog \in {"clang", "rust-analyzer"}

\* What an ended invocation or request changed is put back: the environment
\* is the one the guest started with whenever neither lock is held, and no
\* capture is left behind.
LeavesNothing == (cargoLock = None /\ rustcLock = None) =>
                   env = None /\ slot = FreeSlot /\ hostOut = NotCaptured

\* Two locks, taken by sessions, by the language server's cargo and by the
\* jobs of the cargo that holds one of them: every command still ends.
CommandsEnd == \A t \in Threads \ {Lsp} : []<>At(t, "idle")
=============================================================================
