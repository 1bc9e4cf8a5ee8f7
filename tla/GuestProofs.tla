----------------------------- MODULE GuestProofs -----------------------------
(***************************************************************************)
(* Proofs about the components of the guest, for every value of the        *)
(* constants: each is the invariant of a component, and the theorem states *)
(* it of the sum (MCGuest), which adds only that one part moves at a time. *)
(***************************************************************************)
EXTENDS MCGuest, Integers, FunctionTheorems, FiniteSetTheorems, SequenceTheorems,
        WellFoundedInduction, TLAPS

-----------------------------------------------------------------------------
(* The tools and their locks (ToolRuns).                                    *)

\* What a thread wrote.
Output(t) == IF th[t].wrote THEN {t} ELSE {}

\* The steps that each kind of thread takes, and the programs it takes them for.
SessionShape(t) ==
  /\ th[t].pc \notin {"overlay", "enter", "restore"}
  /\ th[t].pc = "cargo" => Tools!Prog(t) \in {"rustc", "cargo"}
  /\ th[t].pc = "rustc" => Tools!Prog(t) = "rustc"
  /\ th[t].pc \in {"set", "main", "run", "exited"} => Tools!Prog(t) # "unknown"
HostShape(t) ==
  /\ th[t].pc \notin {"typed", "copy"}
  /\ th[t].pc # "idle" => Tools!Prog(t) \in {"rustc", "cargo"}
  /\ th[t].pc \in {"rustc", "enter"} => Tools!Prog(t) = "rustc"
  /\ th[t].pc = "set" => Tools!Prog(t) = "cargo"
JobShape(t) ==
  /\ th[t].pc \in {"idle", "rustc", "enter", "main", "run", "exited"}
  /\ th[t].pc # "idle" => Tools!Prog(t) = "rustc"
LspShape(t) ==
  /\ th[t].pc \in {"idle", "set", "main", "run"}
  /\ th[t].pc # "idle" => Tools!Prog(t) = "rust-analyzer"
  /\ ~th[t].wrote
ThreadShape(t) ==
  /\ t \in Sessions => SessionShape(t)
  /\ t \in Hosts => HostShape(t)
  /\ t \in Jobs => JobShape(t)
  /\ t = Lsp => LspShape(t)
  /\ th[t].wrote => th[t].pc \in {"run", "exited", "restore"}
Shapes == \A t \in Tools!Threads : ThreadShape(t)

\* Who is in a section that a lock guards.
HoldsCargo(t) ==
  \/ /\ t \in Sessions /\ Tools!Prog(t) \in {"cargo", "rustc"}
     /\ th[t].pc \in {"rustc", "set", "main", "run", "exited"}
  \/ t \in Hosts /\ th[t].pc \notin {"idle", "cargo"}
HoldsRustc(t) ==
  /\ Tools!Prog(t) = "rustc"
  /\ \/ t \in Sessions /\ th[t].pc \in {"set", "main", "run", "exited"}
     \/ t \in Hosts \cup Jobs /\ th[t].pc \in {"enter", "main", "run", "exited"}
Locks == \A t \in Tools!Threads : /\ cargoLock = t <=> HoldsCargo(t)
                                  /\ rustcLock = t <=> HoldsRustc(t)

\* A job belongs to a cargo that runs, and that holds its lock.
JobsOfCargo ==
  \A j \in Jobs : th[j].pc # "idle" =>
    /\ cargoLock # None /\ th[cargoLock].pc = "run" /\ Tools!Prog(cargoLock) = "cargo"

\* The arguments that a cargo or rustc is about to read, or has read.
Unlocked == {"clang", "rust-analyzer"}
ArgsOf(t) ==
  Tools!Prog(t) \in {"cargo", "rustc"} =>
    /\ th[t].pc = "main" => argv = th[t].cmd \/ argv.prog \in Unlocked
    /\ th[t].pc = "run" => th[t].seen = th[t].cmd \/ th[t].seen.prog \in Unlocked
Arguments == \A t \in Tools!Threads : ArgsOf(t)

\* The slot of the child process is that of the invocation under way.
InSlot(t) == /\ t \in Hosts \cup Jobs /\ Tools!Prog(t) = "rustc"
             /\ th[t].pc \in {"main", "run", "exited"}
Slots == /\ \A t \in Tools!Threads : InSlot(t) => slot = [owner |-> t, out |-> Output(t)]
         /\ (\A t \in Tools!Threads : ~InSlot(t)) => slot = Tools!FreeSlot

\* The capture is that of the cargo under way.
Captures(t) == Tools!Prog(t) = "cargo" /\ th[t].pc \in {"run", "exited"}
Capture == /\ \A t \in Tools!Threads : Captures(t) => hostOut = Output(t)
           /\ (\A t \in Tools!Threads : ~Captures(t)) => hostOut = Tools!NotCaptured

StatusOf(t) ==
  th[t].pc = "exited" =>
    /\ Tools!Prog(t) = "cargo" => status.cargo = th[t].code
    /\ Tools!Prog(t) = "rustc" => \/ th[t].code = status.rustc
                                  \/ t \notin Sessions /\ th[t].code = 101
Statuses == \A t \in Tools!Threads : StatusOf(t)

\* The environment is that of the job under way, below it that of the request of the
\* language server under way, below it the first one.
Requested == IF cargoLock \in Hosts /\ th[cargoLock].pc # "overlay" THEN cargoLock ELSE None
Invoked(j) == th[j].pc \in {"main", "run", "exited"}
Environment ==
  /\ \A j \in Jobs : Invoked(j) => env = j /\ th[j].env = Requested
  /\ (\A j \in Jobs : ~Invoked(j)) => env = Requested
  /\ Requested # None => th[Requested].env = None

ToolInv == /\ Shapes /\ Locks /\ JobsOfCargo /\ Arguments /\ Slots /\ Capture /\ Statuses
           /\ Environment

LEMMA ToolFacts == Tools!ToolAssumption
  BY GuestAssumption DEF GuestAssumption

LEMMA ToolTypeInit == Tools!Init => Tools!TypeOK
<1> SUFFICES ASSUME Tools!Init PROVE Tools!TypeOK
  OBVIOUS
<1>1. Tools!Idle \in Tools!Thread
  BY DEF Tools!Idle, Tools!Thread, Tools!Steps, Tools!Command, Tools!NoCommand,
         Tools!Programs
<1>2. th \in [Tools!Threads -> Tools!Thread]
  BY <1>1 DEF Tools!Init
<1>3. cmdArgs \in Tools!Command /\ argv \in Tools!Command
  BY DEF Tools!Init, Tools!NoCommand, Tools!Command, Tools!Programs
<1>4. status \in [cargo : {0} \cup ExitCodes, rustc : {0} \cup ExitCodes]
  BY DEF Tools!Init
<1>5. started \in 0..MaxCommands
  BY ToolFacts DEF Tools!Init, Tools!ToolAssumption
<1>6. slot \in [owner : Tools!Threads \cup {None}, out : SUBSET Tools!Threads]
  BY DEF Tools!Init, Tools!FreeSlot
<1> QED
  BY <1>2, <1>3, <1>4, <1>5, <1>6 DEF Tools!Init, Tools!TypeOK, Tools!NotCaptured

LEMMA ToolTypeStep == Tools!TypeOK /\ [Tools!Next]_(Tools!toolVars) => Tools!TypeOK'
<1> SUFFICES ASSUME Tools!TypeOK, [Tools!Next]_(Tools!toolVars) PROVE Tools!TypeOK'
  OBVIOUS
<1>C. Tools!NoCommand \in Tools!Command /\ Tools!Idle \in Tools!Thread
  BY DEF Tools!Idle, Tools!Thread, Tools!Steps, Tools!Command, Tools!NoCommand,
         Tools!Programs
<1> USE ToolFacts DEF Tools!TypeOK, Tools!ToolAssumption, Tools!Prog, Tools!At, Tools!Goto
<1>B. ASSUME NEW t \in Tools!Threads, NEW c \in Tools!Command, NEW pc \in Tools!Steps,
             Tools!Begin(t, [pc |-> pc, cmd |-> c])
      PROVE  /\ th' \in [Tools!Threads -> Tools!Thread]
             /\ started' \in 0..MaxCommands
  <2>1. [Tools!Idle EXCEPT !.pc = pc, !.cmd = c] \in Tools!Thread
    BY <1>C DEF Tools!Thread
  <2> QED
    BY <1>B, <2>1 DEF Tools!Begin
<1>1. ASSUME NEW s \in Sessions, NEW p \in Commands[s], Tools!Fallback(s, p)
      PROVE  Tools!TypeOK'
  <2>1. s \in Tools!Threads /\ p \in Tools!Programs /\ "typed" \in Tools!Steps
    BY DEF Tools!Threads, Tools!Programs, Tools!Steps
  <2>2. [by |-> s, prog |-> p] \in Tools!Command
    BY <2>1 DEF Tools!Command
  <2> QED
    BY <1>1, <2>1, <2>2, <1>B, <1>C DEF Tools!Fallback
<1>2. CASE Tools!StartLsp
  <2>1. Lsp \in Tools!Threads /\ th[Lsp] \in Tools!Thread
    BY DEF Tools!Threads
  <2>2. [by |-> Lsp, prog |-> "rust-analyzer"] \in Tools!Command
    BY <2>1 DEF Tools!Command, Tools!Programs
  <2>3. [th[Lsp] EXCEPT !.pc = "set", !.cmd = [by |-> Lsp, prog |-> "rust-analyzer"]]
          \in Tools!Thread
    BY <2>1, <2>2 DEF Tools!Thread, Tools!Steps
  <2> QED
    BY <1>2, <2>1, <2>3 DEF Tools!StartLsp
<1>3. ASSUME NEW h \in Hosts, NEW p \in HostPrograms, Tools!HostRequest(h, p)
      PROVE  Tools!TypeOK'
  <2>1. h \in Tools!Threads /\ p \in Tools!Programs /\ "cargo" \in Tools!Steps
    BY DEF Tools!Threads, Tools!Programs, Tools!Steps
  <2>2. [by |-> h, prog |-> p] \in Tools!Command
    BY <2>1 DEF Tools!Command
  <2> QED
    BY <1>3, <2>1, <2>2, <1>B DEF Tools!HostRequest
<1>4. ASSUME NEW j \in Jobs, Tools!Spawn(j) PROVE Tools!TypeOK'
  <2>1. j \in Tools!Threads /\ "rustc" \in Tools!Steps
    BY DEF Tools!Threads, Tools!Steps
  <2>2. [by |-> j, prog |-> "rustc"] \in Tools!Command
    BY <2>1 DEF Tools!Command, Tools!Programs
  <2> QED
    BY <1>4, <2>1, <2>2, <1>B DEF Tools!Spawn
<1>5. ASSUME NEW t \in Tools!Threads, Tools!Advances(t) PROVE Tools!TypeOK'
  <2>T. th[t] \in Tools!Thread
    OBVIOUS
  <2>1. CASE Tools!ReadPointer(t)
    <3>1. [th[t] EXCEPT !.pc = "copy", !.buf = cmdArgs] \in Tools!Thread
      BY <2>T DEF Tools!Thread, Tools!Steps
    <3> QED
      BY <3>1, <2>1, <2>T, <1>C DEF Tools!ReadPointer
  <2>2. CASE Tools!CopyArgs(t)
    <3>1. th[t].buf \in Tools!Command
      BY <2>T DEF Tools!Thread
    <3>2. PICK c \in Tools!Copied(t) :
            th' = [th EXCEPT ![t] = [Tools!Idle EXCEPT
                     !.cmd = IF Tools!FirstStep(c.prog) = "idle" THEN @ ELSE c,
                     !.pc = Tools!FirstStep(c.prog)]]
      BY <2>2 DEF Tools!CopyArgs
    <3>3. c \in Tools!Command
      BY <3>1, <1>C DEF Tools!Copied
    <3>4. Tools!FirstStep(c.prog) \in Tools!Steps
      BY <3>3 DEF Tools!FirstStep, Tools!Command, Tools!Programs, Tools!Steps
    <3>5. CASE Tools!FirstStep(c.prog) = "idle"
      <4>1. Tools!Idle.cmd \in Tools!Command
        BY <1>C DEF Tools!Thread
      <4>2. [Tools!Idle EXCEPT !.cmd = Tools!Idle.cmd, !.pc = Tools!FirstStep(c.prog)]
              \in Tools!Thread
        BY <4>1, <3>4, <1>C DEF Tools!Thread
      <4> QED
        BY <3>2, <3>5, <4>2, <2>2 DEF Tools!CopyArgs
    <3>6. CASE Tools!FirstStep(c.prog) # "idle"
      <4>1. [Tools!Idle EXCEPT !.cmd = c, !.pc = Tools!FirstStep(c.prog)] \in Tools!Thread
        BY <3>3, <3>4, <1>C DEF Tools!Thread
      <4> QED
        BY <3>2, <3>6, <4>1, <2>2 DEF Tools!CopyArgs
    <3> QED
      BY <3>5, <3>6
  <2>3. CASE Tools!TakeCargo(t)
    BY <2>3, <2>T, <1>C DEF Tools!TakeCargo, Tools!AfterCargoLock, Tools!Thread, Tools!Steps
  <2>4. CASE Tools!TakeRustc(t)
    BY <2>4, <2>T, <1>C DEF Tools!TakeRustc, Tools!AfterRustcLock, Tools!Thread, Tools!Steps
  <2>5. CASE Tools!Overlay(t)
    BY <2>5, <2>T, <1>C DEF Tools!Overlay, Tools!Thread, Tools!Steps
  <2>6. CASE Tools!HostCwdFails(t)
    BY <2>6, <2>T, <1>C DEF Tools!HostCwdFails, Tools!Thread
  <2>7. CASE Tools!JobCwdFails(t)
    BY <2>7, <2>T, <1>C DEF Tools!JobCwdFails
  <2>8. CASE Tools!SetArgs(t)
    BY <2>8, <2>T, <1>C DEF Tools!SetArgs, Tools!Thread, Tools!Steps
  <2>9. CASE Tools!Enter(t)
    <3>1. [th[t] EXCEPT !.pc = "main", !.args = argv, !.env = env] \in Tools!Thread
      BY <2>T DEF Tools!Thread, Tools!Steps
    <3>2. [th[t] EXCEPT !.pc = "main", !.args = argv, !.env = th[t].env] \in Tools!Thread
      BY <2>T DEF Tools!Thread, Tools!Steps
    <3>3. th[t].cmd \in Tools!Command
      BY <2>T DEF Tools!Thread
    <3> QED
      BY <3>1, <3>2, <3>3, <2>9 DEF Tools!Enter, Tools!InstalledBy
  <2>10. CASE Tools!Main(t)
    <3>1. [th[t] EXCEPT !.pc = "run", !.seen = argv] \in Tools!Thread
      BY <2>T DEF Tools!Thread, Tools!Steps
    <3> QED
      BY <3>1, <2>10, <2>T, <1>C DEF Tools!Main
  <2>11. CASE Tools!Write(t)
    <3>1. [th[t] EXCEPT !.wrote = TRUE] \in Tools!Thread
      BY <2>T DEF Tools!Thread, Tools!Steps
    <3> QED
      BY <3>1, <2>11, <2>T, <1>C DEF Tools!Write
  <2>12. CASE Tools!Exit(t)
    <3>1. PICK code \in ExitCodes :
            /\ th' = [th EXCEPT ![t].pc = "exited", ![t].code = code]
            /\ status' = IF Tools!Prog(t) \in {"cargo", "rustc"}
                           THEN [status EXCEPT ![Tools!Prog(t)] = code] ELSE status
      BY <2>12 DEF Tools!Exit
    <3>2. [th[t] EXCEPT !.pc = "exited", !.code = code] \in Tools!Thread
      BY <2>T DEF Tools!Thread, Tools!Steps
    <3>3. th' \in [Tools!Threads -> Tools!Thread]
      BY <3>1, <3>2
    <3>4. status' \in [cargo : {0} \cup ExitCodes, rustc : {0} \cup ExitCodes]
      BY <3>1
    <3> QED
      BY <3>3, <3>4, <2>12 DEF Tools!Exit
  <2>13. CASE Tools!Panic(t)
    <3>1. [th[t] EXCEPT !.pc = "exited", !.code = 101, !.wrote = FALSE] \in Tools!Thread
      BY <2>T DEF Tools!Thread, Tools!Steps
    <3> QED
      BY <3>1, <2>13, <2>T, <1>C DEF Tools!Panic
  <2>14. CASE Tools!CollectCargo(t)
    BY <2>14, <2>T, <1>C DEF Tools!CollectCargo, Tools!NotCaptured, Tools!Thread, Tools!Steps
  <2>15. CASE Tools!Leave(t)
    BY <2>15, <2>T, <1>C DEF Tools!Leave, Tools!Drained, Tools!FreeSlot, Tools!Thread, Tools!Steps
  <2>16. CASE Tools!HostRestores(t)
    BY <2>16, <2>T, <1>C DEF Tools!HostRestores, Tools!Thread
  <2>17. CASE Tools!CommandReturns(t)
    BY <2>17, <2>T, <1>C DEF Tools!CommandReturns
  <2> QED
    BY <1>5, <2>1, <2>2, <2>3, <2>4, <2>5, <2>6, <2>7, <2>8, <2>9, <2>10, <2>11, <2>12, <2>13, <2>14, <2>15, <2>16, <2>17 DEF Tools!Advances
<1>6. CASE UNCHANGED Tools!toolVars
  BY <1>6 DEF Tools!toolVars
<1> QED
  BY <1>1, <1>2, <1>3, <1>4, <1>5, <1>6 DEF Tools!Next


LEMMA ToolInvInit == Tools!Init => ToolInv
<1> SUFFICES ASSUME Tools!Init PROVE ToolInv
  OBVIOUS
<1>1. \A t \in Tools!Threads : /\ th[t].pc = "idle" /\ ~th[t].wrote
                              /\ Tools!Prog(t) = "unknown"
  BY DEF Tools!Init, Tools!Idle, Tools!NoCommand, Tools!Prog
<1>2. /\ cargoLock = None /\ rustcLock = None /\ None \notin Tools!Threads
      /\ Jobs \subseteq Tools!Threads /\ None \notin Hosts
  BY ToolFacts DEF Tools!Init, Tools!ToolAssumption, Tools!Threads
<1>3. Shapes /\ Locks
  BY <1>1, <1>2 DEF Shapes, ThreadShape, SessionShape, HostShape, JobShape, LspShape,
                    Locks, HoldsCargo, HoldsRustc
<1>4. JobsOfCargo /\ Arguments /\ Statuses
  BY <1>1, <1>2 DEF JobsOfCargo, Arguments, ArgsOf, Statuses, StatusOf
<1>5. Slots /\ Capture /\ Environment
  BY <1>1, <1>2 DEF Tools!Init, Slots, InSlot, Capture, Captures, Environment, Requested,
                    Invoked
<1> QED
  BY <1>3, <1>4, <1>5 DEF ToolInv

\* The kinds of threads are distinct, and none of them is None.
LEMMA ToolKinds ==
  /\ Tools!Threads = Sessions \cup Hosts \cup Jobs \cup {Lsp}
  /\ None \notin Tools!Threads
  /\ Sessions \cap (Hosts \cup Jobs) = {} /\ Hosts \cap Jobs = {}
  /\ Lsp \notin Sessions \cup Hosts \cup Jobs
BY ToolFacts DEF Tools!ToolAssumption, Tools!Threads

LEMMA ReadPointerKeeps ==
  ASSUME Tools!TypeOK, ToolInv, NEW t \in Tools!Threads, Tools!ReadPointer(t)
  PROVE  ToolInv'
<1>1. /\ th[t].pc = "typed" /\ t \in Sessions
      /\ th'[t].pc = "copy"
      /\ th'[t].cmd = th[t].cmd /\ th'[t].wrote = th[t].wrote /\ th'[t].env = th[t].env
      /\ th'[t].code = th[t].code /\ th'[t].seen = th[t].seen /\ th'[t].args = th[t].args
  BY ToolKinds DEF Tools!ReadPointer, Tools!TypeOK, Tools!Thread, Tools!At, Tools!Goto, Tools!Prog,
                   ToolInv, Shapes, ThreadShape, SessionShape, HostShape, JobShape,
                   LspShape
<1>2. \A u \in Tools!Threads : u # t => th'[u] = th[u]
  BY DEF Tools!ReadPointer, Tools!TypeOK, Tools!At, Tools!Goto
<1>3. /\ UNCHANGED <<cmdArgs, cargoLock, rustcLock, env, argv, slot, hostOut, status>>
  BY DEF Tools!ReadPointer
<1>T. cargoLock \in Tools!Threads \cup {None}
  BY DEF Tools!TypeOK
<1> USE <1>T, <1>1, <1>2, <1>3, ToolKinds DEF ToolInv, Shapes, ThreadShape, SessionShape, HostShape, JobShape, LspShape,
        Tools!Prog
<1>4. Shapes'
  OBVIOUS
<1>5. Locks'
  BY DEF Locks, HoldsCargo, HoldsRustc
<1>6. JobsOfCargo'
  BY DEF Locks, HoldsCargo, HoldsRustc, JobsOfCargo
<1>7. Arguments'
  BY DEF Locks, HoldsCargo, HoldsRustc, JobsOfCargo, Arguments, ArgsOf, Unlocked
<1>8. Slots'
  BY DEF Locks, HoldsRustc, Slots, InSlot, Output, Tools!FreeSlot
<1>9. Capture'
  BY DEF Locks, HoldsCargo, Capture, Captures, Output, Tools!NotCaptured
<1>10. Statuses'
  BY DEF Locks, HoldsCargo, HoldsRustc, Statuses, StatusOf, Tools!TypeOK
<1>11. Environment'
  BY DEF Locks, HoldsCargo, HoldsRustc, JobsOfCargo, Environment, Requested, Invoked
<1> QED
  BY <1>4, <1>5, <1>6, <1>7, <1>8, <1>9, <1>10, <1>11

LEMMA TakeCargoKeeps ==
  ASSUME Tools!TypeOK, ToolInv, NEW t \in Tools!Threads, Tools!TakeCargo(t)
  PROVE  ToolInv'
<1>1. /\ th[t].pc = "cargo" /\ t \in Sessions \cup Hosts
      /\ th'[t].pc = Tools!AfterCargoLock(t)
      /\ th'[t].cmd = th[t].cmd /\ th'[t].wrote = th[t].wrote /\ th'[t].env = th[t].env
      /\ th'[t].code = th[t].code /\ th'[t].seen = th[t].seen /\ th'[t].args = th[t].args
  BY ToolKinds DEF Tools!TakeCargo, Tools!TypeOK, Tools!Thread, Tools!At, Tools!Goto, Tools!Prog,
                   ToolInv, Shapes, ThreadShape, SessionShape, HostShape, JobShape,
                   LspShape
<1>2. \A u \in Tools!Threads : u # t => th'[u] = th[u]
  BY DEF Tools!TakeCargo, Tools!TypeOK, Tools!At, Tools!Goto
<1>3. /\ cargoLock = None /\ cargoLock' = t
      /\ UNCHANGED <<cmdArgs, rustcLock, env, argv, slot, hostOut, status>>
  BY DEF Tools!TakeCargo
<1>T. cargoLock \in Tools!Threads \cup {None}
  BY DEF Tools!TypeOK
<1>S. \/ t \in Hosts /\ th'[t].pc = "overlay"
      \/ t \in Sessions /\ Tools!Prog(t) = "rustc" /\ th'[t].pc = "rustc"
      \/ t \in Sessions /\ Tools!Prog(t) = "cargo" /\ th'[t].pc = "set"
  <2>1. CASE t \in Hosts
    BY <1>1, <2>1 DEF Tools!AfterCargoLock
  <2>2. CASE t \in Sessions
    <3>1. t \notin Hosts /\ Tools!Prog(t) \in {"rustc", "cargo"}
      BY <1>1, <2>2, ToolKinds DEF ToolInv, Shapes, ThreadShape, SessionShape, Tools!Prog
    <3>2. CASE Tools!Prog(t) = "rustc"
      BY <1>1, <2>2, <3>1, <3>2 DEF Tools!AfterCargoLock
    <3>3. CASE Tools!Prog(t) = "cargo"
      BY <1>1, <2>2, <3>1, <3>3 DEF Tools!AfterCargoLock
    <3> QED
      BY <3>1, <3>2, <3>3
  <2> QED
    BY <1>1, <2>1, <2>2
<1> USE <1>T, <1>S, <1>1, <1>2, <1>3, ToolKinds DEF ToolInv, Shapes, ThreadShape, SessionShape, HostShape, JobShape, LspShape,
        Tools!Prog
<1>4. Shapes'
  OBVIOUS
<1>5. Locks'
  BY DEF Locks, HoldsCargo, HoldsRustc
<1>6. JobsOfCargo'
  BY DEF Locks, HoldsCargo, HoldsRustc, JobsOfCargo
<1>7. Arguments'
  BY DEF Locks, HoldsCargo, HoldsRustc, JobsOfCargo, Arguments, ArgsOf, Unlocked
<1>8. Slots'
  BY DEF Locks, HoldsRustc, Slots, InSlot, Output, Tools!FreeSlot
<1>9. Capture'
  BY DEF Locks, HoldsCargo, Capture, Captures, Output, Tools!NotCaptured
<1>10. Statuses'
  BY DEF Locks, HoldsCargo, HoldsRustc, Statuses, StatusOf, Tools!TypeOK
<1>11. Environment'
  BY DEF Locks, HoldsCargo, HoldsRustc, JobsOfCargo, Environment, Requested, Invoked
<1> QED
  BY <1>4, <1>5, <1>6, <1>7, <1>8, <1>9, <1>10, <1>11

LEMMA TakeRustcKeeps ==
  ASSUME Tools!TypeOK, ToolInv, NEW t \in Tools!Threads, Tools!TakeRustc(t)
  PROVE  ToolInv'
<1>1. /\ th[t].pc = "rustc" /\ Tools!Prog(t) = "rustc"
      /\ \/ t \in Sessions /\ th'[t].pc = "set"
         \/ t \in Hosts \cup Jobs /\ th'[t].pc = "enter"
      /\ th'[t].cmd = th[t].cmd /\ th'[t].wrote = th[t].wrote /\ th'[t].env = th[t].env
      /\ th'[t].code = th[t].code /\ th'[t].seen = th[t].seen /\ th'[t].args = th[t].args
  BY ToolKinds DEF Tools!TakeRustc, Tools!TypeOK, Tools!Thread, Tools!At, Tools!Goto, Tools!Prog,
                   ToolInv, Shapes, ThreadShape, SessionShape, HostShape, JobShape,
                   LspShape, Tools!AfterRustcLock
<1>2. \A u \in Tools!Threads : u # t => th'[u] = th[u]
  BY DEF Tools!TakeRustc, Tools!TypeOK, Tools!At, Tools!Goto
<1>3. /\ rustcLock = None /\ rustcLock' = t
      /\ UNCHANGED <<cmdArgs, cargoLock, env, argv, slot, hostOut, status>>
  BY DEF Tools!TakeRustc
<1>T. cargoLock \in Tools!Threads \cup {None}
  BY DEF Tools!TypeOK
<1> USE <1>T, <1>1, <1>2, <1>3, ToolKinds DEF ToolInv, Shapes, ThreadShape, SessionShape, HostShape, JobShape, LspShape,
        Tools!Prog
<1>4. Shapes'
  OBVIOUS
<1>5. Locks'
  BY DEF Locks, HoldsCargo, HoldsRustc
<1>6. JobsOfCargo'
  BY DEF Locks, HoldsCargo, HoldsRustc, JobsOfCargo
<1>7. Arguments'
  BY DEF Locks, HoldsCargo, HoldsRustc, JobsOfCargo, Arguments, ArgsOf, Unlocked
<1>8. Slots'
  BY DEF Locks, HoldsRustc, Slots, InSlot, Output, Tools!FreeSlot
<1>9. Capture'
  BY DEF Locks, HoldsCargo, Capture, Captures, Output, Tools!NotCaptured
<1>10. Statuses'
  BY DEF Locks, HoldsCargo, HoldsRustc, Statuses, StatusOf, Tools!TypeOK
<1>11. Environment'
  BY DEF Locks, HoldsCargo, HoldsRustc, JobsOfCargo, Environment, Requested, Invoked
<1> QED
  BY <1>4, <1>5, <1>6, <1>7, <1>8, <1>9, <1>10, <1>11

LEMMA OverlayKeeps ==
  ASSUME Tools!TypeOK, ToolInv, NEW t \in Tools!Threads, Tools!Overlay(t)
  PROVE  ToolInv'
<1>1. /\ th[t].pc = "overlay" /\ t \in Hosts
      /\ \/ Tools!Prog(t) = "cargo" /\ th'[t].pc = "set"
         \/ Tools!Prog(t) = "rustc" /\ th'[t].pc = "rustc"
      /\ th'[t].env = env
      /\ th'[t].cmd = th[t].cmd /\ th'[t].wrote = th[t].wrote /\ th'[t].code = th[t].code
      /\ th'[t].seen = th[t].seen /\ th'[t].args = th[t].args
  BY ToolKinds DEF Tools!Overlay, Tools!TypeOK, Tools!Thread, Tools!At, Tools!Goto, Tools!Prog,
                   ToolInv, Shapes, ThreadShape, SessionShape, HostShape, JobShape,
                   LspShape
<1>2. \A u \in Tools!Threads : u # t => th'[u] = th[u]
  BY DEF Tools!Overlay, Tools!TypeOK, Tools!At, Tools!Goto
<1>3. /\ env' = t
      /\ UNCHANGED <<cmdArgs, cargoLock, rustcLock, argv, slot, hostOut, status>>
  BY DEF Tools!Overlay
<1>T. cargoLock \in Tools!Threads \cup {None}
  BY DEF Tools!TypeOK
<1> USE <1>T, <1>1, <1>2, <1>3, ToolKinds DEF ToolInv, Shapes, ThreadShape, SessionShape, HostShape, JobShape, LspShape,
        Tools!Prog
<1>4. Shapes'
  OBVIOUS
<1>5. Locks'
  BY DEF Locks, HoldsCargo, HoldsRustc
<1>6. JobsOfCargo'
  BY DEF Locks, HoldsCargo, HoldsRustc, JobsOfCargo
<1>7. Arguments'
  BY DEF Locks, HoldsCargo, HoldsRustc, JobsOfCargo, Arguments, ArgsOf, Unlocked
<1>8. Slots'
  BY DEF Locks, HoldsRustc, Slots, InSlot, Output, Tools!FreeSlot
<1>9. Capture'
  BY DEF Locks, HoldsCargo, Capture, Captures, Output, Tools!NotCaptured
<1>10. Statuses'
  BY DEF Locks, HoldsCargo, HoldsRustc, Statuses, StatusOf, Tools!TypeOK
<1>11. Environment'
  BY DEF Locks, HoldsCargo, HoldsRustc, JobsOfCargo, Environment, Requested, Invoked
<1> QED
  BY <1>4, <1>5, <1>6, <1>7, <1>8, <1>9, <1>10, <1>11

LEMMA HostCwdFailsKeeps ==
  ASSUME Tools!TypeOK, ToolInv, NEW t \in Tools!Threads, Tools!HostCwdFails(t)
  PROVE  ToolInv'
<1>1. /\ th[t].pc = "set" /\ t \in Hosts
      /\ th[t].cmd.prog = "cargo"
      /\ th'[t].pc = "idle" /\ ~th'[t].wrote
      /\ th'[t].cmd.prog = "unknown"
  BY ToolKinds DEF Tools!HostCwdFails, Tools!TypeOK, Tools!Thread, Tools!At, Tools!Goto, Tools!Prog,
                   ToolInv, Shapes, ThreadShape, SessionShape, HostShape, JobShape,
                   LspShape, Tools!Idle, Tools!NoCommand
<1>2. \A u \in Tools!Threads : u # t => th'[u] = th[u]
  BY DEF Tools!HostCwdFails, Tools!TypeOK, Tools!At, Tools!Goto
<1>3. /\ env' = th[t].env
      /\ cargoLock' = None
      /\ UNCHANGED <<cmdArgs, rustcLock, argv, slot, hostOut, status>>
  BY DEF Tools!HostCwdFails
<1>T. cargoLock \in Tools!Threads \cup {None}
  BY DEF Tools!TypeOK
<1> USE <1>T, <1>1, <1>2, <1>3, ToolKinds DEF ToolInv, Shapes, ThreadShape, SessionShape, HostShape, JobShape, LspShape,
        Tools!Prog
<1>4. Shapes'
  OBVIOUS
<1>5. Locks'
  BY DEF Locks, HoldsCargo, HoldsRustc
<1>6. JobsOfCargo'
  BY DEF Locks, HoldsCargo, HoldsRustc, JobsOfCargo
<1>7. Arguments'
  BY DEF Locks, HoldsCargo, HoldsRustc, JobsOfCargo, Arguments, ArgsOf, Unlocked
<1>8. Slots'
  BY DEF Locks, HoldsRustc, Slots, InSlot, Output, Tools!FreeSlot
<1>9. Capture'
  BY DEF Locks, HoldsCargo, Capture, Captures, Output, Tools!NotCaptured
<1>10. Statuses'
  BY DEF Locks, HoldsCargo, HoldsRustc, Statuses, StatusOf, Tools!TypeOK
<1>11. Environment'
  BY DEF Locks, HoldsCargo, HoldsRustc, JobsOfCargo, Environment, Requested, Invoked
<1> QED
  BY <1>4, <1>5, <1>6, <1>7, <1>8, <1>9, <1>10, <1>11

LEMMA JobCwdFailsKeeps ==
  ASSUME Tools!TypeOK, ToolInv, NEW t \in Tools!Threads, Tools!JobCwdFails(t)
  PROVE  ToolInv'
<1>1. /\ th[t].pc = "enter" /\ t \in Jobs
      /\ th'[t].pc = "idle" /\ ~th'[t].wrote
      /\ th'[t].cmd.prog = "unknown"
  BY ToolKinds DEF Tools!JobCwdFails, Tools!TypeOK, Tools!Thread, Tools!At, Tools!Goto, Tools!Prog,
                   ToolInv, Shapes, ThreadShape, SessionShape, HostShape, JobShape,
                   LspShape, Tools!Idle, Tools!NoCommand
<1>2. \A u \in Tools!Threads : u # t => th'[u] = th[u]
  BY DEF Tools!JobCwdFails, Tools!TypeOK, Tools!At, Tools!Goto
<1>3. /\ rustcLock' = None
      /\ UNCHANGED <<cmdArgs, cargoLock, env, argv, slot, hostOut, status>>
  BY DEF Tools!JobCwdFails
<1>T. cargoLock \in Tools!Threads \cup {None}
  BY DEF Tools!TypeOK
<1> USE <1>T, <1>1, <1>2, <1>3, ToolKinds DEF ToolInv, Shapes, ThreadShape, SessionShape, HostShape, JobShape, LspShape,
        Tools!Prog
<1>4. Shapes'
  OBVIOUS
<1>5. Locks'
  BY DEF Locks, HoldsCargo, HoldsRustc
<1>6. JobsOfCargo'
  BY DEF Locks, HoldsCargo, HoldsRustc, JobsOfCargo
<1>7. Arguments'
  BY DEF Locks, HoldsCargo, HoldsRustc, JobsOfCargo, Arguments, ArgsOf, Unlocked
<1>8. Slots'
  BY DEF Locks, HoldsRustc, Slots, InSlot, Output, Tools!FreeSlot
<1>9. Capture'
  BY DEF Locks, HoldsCargo, Capture, Captures, Output, Tools!NotCaptured
<1>10. Statuses'
  BY DEF Locks, HoldsCargo, HoldsRustc, Statuses, StatusOf, Tools!TypeOK
<1>11. Environment'
  BY DEF Locks, HoldsCargo, HoldsRustc, JobsOfCargo, Environment, Requested, Invoked
<1> QED
  BY <1>4, <1>5, <1>6, <1>7, <1>8, <1>9, <1>10, <1>11

LEMMA SetArgsKeeps ==
  ASSUME Tools!TypeOK, ToolInv, NEW t \in Tools!Threads, Tools!SetArgs(t)
  PROVE  ToolInv'
<1>1. /\ th[t].pc = "set" /\ t \notin Jobs
      /\ th'[t].pc = "main"
      /\ th'[t].cmd = th[t].cmd /\ th'[t].wrote = th[t].wrote /\ th'[t].env = th[t].env
      /\ th'[t].code = th[t].code /\ th'[t].seen = th[t].seen /\ th'[t].args = th[t].args
  BY ToolKinds DEF Tools!SetArgs, Tools!TypeOK, Tools!Thread, Tools!At, Tools!Goto, Tools!Prog,
                   ToolInv, Shapes, ThreadShape, SessionShape, HostShape, JobShape,
                   LspShape
<1>2. \A u \in Tools!Threads : u # t => th'[u] = th[u]
  BY DEF Tools!SetArgs, Tools!TypeOK, Tools!At, Tools!Goto
<1>3. /\ argv' = th[t].cmd
      /\ UNCHANGED <<cmdArgs, cargoLock, rustcLock, env, slot, hostOut, status>>
  BY DEF Tools!SetArgs
<1>T. cargoLock \in Tools!Threads \cup {None}
  BY DEF Tools!TypeOK
<1> USE <1>T, <1>1, <1>2, <1>3, ToolKinds DEF ToolInv, Shapes, ThreadShape, SessionShape, HostShape, JobShape, LspShape,
        Tools!Prog
<1>4. Shapes'
  OBVIOUS
<1>5. Locks'
  BY DEF Locks, HoldsCargo, HoldsRustc
<1>6. JobsOfCargo'
  BY DEF Locks, HoldsCargo, HoldsRustc, JobsOfCargo
<1>7. Arguments'
  <2> SUFFICES ASSUME NEW u \in Tools!Threads PROVE ArgsOf(u)'
    BY DEF Arguments
  <2>1. CASE u = t
    BY <2>1 DEF ArgsOf
  <2>2. CASE u # t /\ Tools!Prog(t) \in {"cargo", "rustc"}
    BY <2>2 DEF Locks, HoldsCargo, HoldsRustc, JobsOfCargo, Arguments, ArgsOf
  <2>3. CASE u # t /\ Tools!Prog(t) \notin {"cargo", "rustc"}
    <3>1. Tools!Prog(t) \in Unlocked
      BY <2>3 DEF Tools!TypeOK, Tools!Thread, Tools!Command, Tools!Programs, Unlocked
    <3> QED
      BY <2>3, <3>1 DEF Arguments, ArgsOf
  <2> QED
    BY <2>1, <2>2, <2>3
<1>8. Slots'
  BY DEF Locks, HoldsRustc, Slots, InSlot, Output, Tools!FreeSlot
<1>9. Capture'
  BY DEF Locks, HoldsCargo, Capture, Captures, Output, Tools!NotCaptured
<1>10. Statuses'
  BY DEF Locks, HoldsCargo, HoldsRustc, Statuses, StatusOf, Tools!TypeOK
<1>11. Environment'
  BY DEF Locks, HoldsCargo, HoldsRustc, JobsOfCargo, Environment, Requested, Invoked
<1> QED
  BY <1>4, <1>5, <1>6, <1>7, <1>8, <1>9, <1>10, <1>11

LEMMA EnterKeeps ==
  ASSUME Tools!TypeOK, ToolInv, NEW t \in Tools!Threads, Tools!Enter(t)
  PROVE  ToolInv'
<1>1. /\ th[t].pc = "enter" /\ t \in Hosts \cup Jobs /\ Tools!Prog(t) = "rustc"
      /\ th'[t].pc = "main"
      /\ th'[t].env = IF t \in Jobs THEN env ELSE th[t].env
      /\ th'[t].cmd = th[t].cmd /\ th'[t].wrote = th[t].wrote /\ th'[t].code = th[t].code
      /\ th'[t].seen = th[t].seen
  BY ToolKinds DEF Tools!Enter, Tools!TypeOK, Tools!Thread, Tools!At, Tools!Goto, Tools!Prog,
                   ToolInv, Shapes, ThreadShape, SessionShape, HostShape, JobShape,
                   LspShape, Tools!InstalledBy
<1>2. \A u \in Tools!Threads : u # t => th'[u] = th[u]
  BY DEF Tools!Enter, Tools!TypeOK, Tools!At, Tools!Goto
<1>3. /\ env' = t
      /\ argv' = th[t].cmd
      /\ slot' = [owner |-> t, out |-> {}]
      /\ UNCHANGED <<cmdArgs, cargoLock, rustcLock, hostOut, status>>
  BY DEF Tools!Enter, Tools!InstalledBy
<1>T. cargoLock \in Tools!Threads \cup {None}
  BY DEF Tools!TypeOK
<1> USE <1>T, <1>1, <1>2, <1>3, ToolKinds DEF ToolInv, Shapes, ThreadShape, SessionShape, HostShape, JobShape, LspShape,
        Tools!Prog
<1>4. Shapes'
  OBVIOUS
<1>5. Locks'
  BY DEF Locks, HoldsCargo, HoldsRustc
<1>6. JobsOfCargo'
  BY DEF Locks, HoldsCargo, HoldsRustc, JobsOfCargo
<1>7. Arguments'
  BY DEF Locks, HoldsCargo, HoldsRustc, JobsOfCargo, Arguments, ArgsOf, Unlocked
<1>8. Slots'
  <2>1. ~th[t].wrote /\ InSlot(t)'
    BY DEF InSlot
  <2>2. \A u \in Tools!Threads : u # t => ~InSlot(u)'
    BY DEF Locks, HoldsRustc, InSlot
  <2> QED
    BY <2>1, <2>2 DEF Slots, Output
<1>9. Capture'
  BY DEF Locks, HoldsCargo, Capture, Captures, Output, Tools!NotCaptured
<1>10. Statuses'
  BY DEF Locks, HoldsCargo, HoldsRustc, Statuses, StatusOf, Tools!TypeOK
<1>11. Environment'
  BY DEF Locks, HoldsCargo, HoldsRustc, JobsOfCargo, Environment, Requested, Invoked
<1> QED
  BY <1>4, <1>5, <1>6, <1>7, <1>8, <1>9, <1>10, <1>11

LEMMA MainKeeps ==
  ASSUME Tools!TypeOK, ToolInv, NEW t \in Tools!Threads, Tools!Main(t)
  PROVE  ToolInv'
<1>1. /\ th[t].pc = "main"
      /\ th'[t].pc = "run"
      /\ th'[t].seen = argv
      /\ th'[t].cmd = th[t].cmd /\ th'[t].wrote = th[t].wrote /\ th'[t].env = th[t].env
      /\ th'[t].code = th[t].code /\ th'[t].args = th[t].args
  BY ToolKinds DEF Tools!Main, Tools!TypeOK, Tools!Thread, Tools!At, Tools!Goto, Tools!Prog,
                   ToolInv, Shapes, ThreadShape, SessionShape, HostShape, JobShape,
                   LspShape
<1>2. \A u \in Tools!Threads : u # t => th'[u] = th[u]
  BY DEF Tools!Main, Tools!TypeOK, Tools!At, Tools!Goto
<1>3. /\ hostOut' = IF Tools!Prog(t) = "cargo" THEN {} ELSE hostOut
      /\ Tools!Prog(t) # "cargo" => status'.cargo = status.cargo
      /\ Tools!Prog(t) # "rustc" => status'.rustc = status.rustc
      /\ UNCHANGED <<cmdArgs, cargoLock, rustcLock, env, argv, slot>>
  BY DEF Tools!Main, Tools!TypeOK, Tools!Prog
<1>T. cargoLock \in Tools!Threads \cup {None}
  BY DEF Tools!TypeOK
<1> USE <1>T, <1>1, <1>2, <1>3, ToolKinds DEF ToolInv, Shapes, ThreadShape, SessionShape, HostShape, JobShape, LspShape,
        Tools!Prog
<1>4. Shapes'
  OBVIOUS
<1>5. Locks'
  BY DEF Locks, HoldsCargo, HoldsRustc
<1>6. JobsOfCargo'
  BY DEF Locks, HoldsCargo, HoldsRustc, JobsOfCargo
<1>7. Arguments'
  BY DEF Locks, HoldsCargo, HoldsRustc, JobsOfCargo, Arguments, ArgsOf, Unlocked
<1>8. Slots'
  BY DEF Locks, HoldsRustc, Slots, InSlot, Output, Tools!FreeSlot
<1>9. Capture'
  <2>1. CASE Tools!Prog(t) = "cargo"
    <3>1. \A u \in Tools!Threads : u # t => ~Captures(u)'
      BY <2>1 DEF Locks, HoldsCargo, Captures
    <3> QED
      BY <2>1, <3>1 DEF Capture, Captures, Output
  <2>2. CASE Tools!Prog(t) # "cargo"
    BY <2>2 DEF Capture, Captures, Output
  <2> QED
    BY <2>1, <2>2
<1>10. Statuses'
  BY DEF Locks, HoldsCargo, HoldsRustc, Statuses, StatusOf, Tools!TypeOK
<1>11. Environment'
  BY DEF Locks, HoldsCargo, HoldsRustc, JobsOfCargo, Environment, Requested, Invoked
<1> QED
  BY <1>4, <1>5, <1>6, <1>7, <1>8, <1>9, <1>10, <1>11

LEMMA WriteKeeps ==
  ASSUME Tools!TypeOK, ToolInv, NEW t \in Tools!Threads, Tools!Write(t)
  PROVE  ToolInv'
<1>1. /\ th[t].pc = "run" /\ ~th[t].wrote
      /\ Tools!Prog(t) \in {"cargo", "rustc"}
      /\ th'[t].pc = "run" /\ th'[t].wrote
      /\ th'[t].cmd = th[t].cmd /\ th'[t].env = th[t].env /\ th'[t].code = th[t].code
      /\ th'[t].seen = th[t].seen /\ th'[t].args = th[t].args
  BY ToolKinds DEF Tools!Write, Tools!TypeOK, Tools!Thread, Tools!At, Tools!Goto, Tools!Prog,
                   ToolInv, Shapes, ThreadShape, SessionShape, HostShape, JobShape,
                   LspShape, Tools!Destination, Tools!NotCaptured
<1>2. \A u \in Tools!Threads : u # t => th'[u] = th[u]
  BY DEF Tools!Write, Tools!TypeOK, Tools!At, Tools!Goto
<1>3. /\ slot' = IF slot.owner = t THEN [slot EXCEPT !.out = @ \cup {t}] ELSE slot
      /\ hostOut' = IF slot.owner # t /\ Tools!Prog(t) = "cargo" /\ hostOut # {None}
                     THEN hostOut \cup {t} ELSE hostOut
      /\ UNCHANGED <<cmdArgs, cargoLock, rustcLock, env, argv, status>>
  BY DEF Tools!Write, Tools!Destination, Tools!NotCaptured
<1>T. cargoLock \in Tools!Threads \cup {None}
  BY DEF Tools!TypeOK
<1> USE <1>T, <1>1, <1>2, <1>3, ToolKinds DEF ToolInv, Shapes, ThreadShape, SessionShape, HostShape, JobShape, LspShape,
        Tools!Prog
<1>4. Shapes'
  OBVIOUS
<1>5. Locks'
  BY DEF Locks, HoldsCargo, HoldsRustc
<1>6. JobsOfCargo'
  BY DEF Locks, HoldsCargo, HoldsRustc, JobsOfCargo
<1>7. Arguments'
  BY DEF Locks, HoldsCargo, HoldsRustc, JobsOfCargo, Arguments, ArgsOf, Unlocked
<1>8. Slots'
  <2>1. \A u \in Tools!Threads : InSlot(u)' <=> InSlot(u)
    BY DEF InSlot
  <2>2. CASE InSlot(t)
    <3>1. slot = [owner |-> t, out |-> {}]
      BY <2>2 DEF Slots, Output
    <3>2. \A u \in Tools!Threads : u # t => ~InSlot(u)
      BY <2>2 DEF Locks, HoldsRustc, InSlot
    <3>3. slot' = [owner |-> t, out |-> {t}]
      BY <3>1
    <3> QED
      BY <2>1, <2>2, <3>2, <3>3 DEF Slots, Output
  <2>3. CASE ~InSlot(t)
    <3>1. slot.owner # t
      BY <2>3 DEF Slots, Tools!FreeSlot
    <3> QED
      BY <2>1, <2>3, <3>1 DEF Slots, Output
  <2> QED
    BY <2>2, <2>3
<1>9. Capture'
  <2>1. \A u \in Tools!Threads : Captures(u)' <=> Captures(u)
    BY DEF Captures
  <2>2. CASE Captures(t)
    <3>1. hostOut = {} /\ slot.owner # t
      BY <2>2 DEF Capture, Captures, Output, Slots, InSlot, Tools!FreeSlot
    <3>2. \A u \in Tools!Threads : u # t => ~Captures(u)
      BY <2>2 DEF Locks, HoldsCargo, Captures
    <3> QED
      BY <2>1, <2>2, <3>1, <3>2 DEF Capture, Captures, Output
  <2>3. CASE ~Captures(t)
    <3>1. hostOut' = hostOut
      BY <2>3 DEF Captures
    <3>2. \A u \in Tools!Threads : u # t => Output(u)' = Output(u)
      BY DEF Output
    <3> QED
      BY <2>1, <2>3, <3>1, <3>2 DEF Capture
  <2> QED
    BY <2>2, <2>3
<1>10. Statuses'
  BY DEF Locks, HoldsCargo, HoldsRustc, Statuses, StatusOf, Tools!TypeOK
<1>11. Environment'
  BY DEF Locks, HoldsCargo, HoldsRustc, JobsOfCargo, Environment, Requested, Invoked
<1> QED
  BY <1>4, <1>5, <1>6, <1>7, <1>8, <1>9, <1>10, <1>11

LEMMA PanicKeeps ==
  ASSUME Tools!TypeOK, ToolInv, NEW t \in Tools!Threads, Tools!Panic(t)
  PROVE  ToolInv'
<1>1. /\ th[t].pc = "run" /\ slot.owner = t
      /\ th'[t].pc = "exited" /\ ~th'[t].wrote /\ th'[t].code = 101
      /\ th'[t].cmd = th[t].cmd /\ th'[t].env = th[t].env /\ th'[t].seen = th[t].seen
      /\ th'[t].args = th[t].args
  BY ToolKinds DEF Tools!Panic, Tools!TypeOK, Tools!Thread, Tools!At, Tools!Goto, Tools!Prog,
                   ToolInv, Shapes, ThreadShape, SessionShape, HostShape, JobShape,
                   LspShape
<1>2. \A u \in Tools!Threads : u # t => th'[u] = th[u]
  BY DEF Tools!Panic, Tools!TypeOK, Tools!At, Tools!Goto
<1>3. /\ slot' = [slot EXCEPT !.out = {}]
      /\ UNCHANGED <<cmdArgs, cargoLock, rustcLock, env, argv, hostOut, status>>
  BY DEF Tools!Panic
<1>T. cargoLock \in Tools!Threads \cup {None}
  BY DEF Tools!TypeOK
<1>S. InSlot(t) /\ t \in Hosts \cup Jobs /\ Tools!Prog(t) = "rustc"
      /\ slot = [owner |-> t, out |-> Output(t)]
  BY ToolKinds DEF ToolInv, Slots, InSlot, Tools!FreeSlot, Tools!Panic
<1> USE <1>T, <1>S, <1>1, <1>2, <1>3, ToolKinds DEF ToolInv, Shapes, ThreadShape, SessionShape, HostShape, JobShape, LspShape,
        Tools!Prog
<1>4. Shapes'
  OBVIOUS
<1>5. Locks'
  BY DEF Locks, HoldsCargo, HoldsRustc
<1>6. JobsOfCargo'
  BY DEF Locks, HoldsCargo, HoldsRustc, JobsOfCargo
<1>7. Arguments'
  BY DEF Locks, HoldsCargo, HoldsRustc, JobsOfCargo, Arguments, ArgsOf, Unlocked
<1>8. Slots'
  <2>1. \A u \in Tools!Threads : u # t => ~InSlot(u)'
    BY DEF Locks, HoldsRustc, InSlot
  <2>2. slot' = [owner |-> t, out |-> {}] /\ InSlot(t)' /\ Output(t)' = {}
    BY DEF InSlot, Output
  <2> QED
    BY <2>1, <2>2 DEF Slots
<1>9. Capture'
  BY DEF Locks, HoldsCargo, Capture, Captures, Output, Tools!NotCaptured
<1>10. Statuses'
  BY DEF Locks, HoldsCargo, HoldsRustc, Statuses, StatusOf, Tools!TypeOK
<1>11. Environment'
  BY DEF Locks, HoldsCargo, HoldsRustc, JobsOfCargo, Environment, Requested, Invoked
<1> QED
  BY <1>4, <1>5, <1>6, <1>7, <1>8, <1>9, <1>10, <1>11

LEMMA CommandReturnsKeeps ==
  ASSUME Tools!TypeOK, ToolInv, NEW t \in Tools!Threads, Tools!CommandReturns(t)
  PROVE  ToolInv'
<1>1. /\ th[t].pc = "exited" /\ t \in Sessions /\ Tools!Prog(t) # "cargo"
      /\ th'[t].pc = "idle" /\ ~th'[t].wrote
      /\ th'[t].cmd.prog = "unknown"
  BY ToolKinds DEF Tools!CommandReturns, Tools!TypeOK, Tools!Thread, Tools!At, Tools!Goto, Tools!Prog,
                   ToolInv, Shapes, ThreadShape, SessionShape, HostShape, JobShape,
                   LspShape, Tools!Idle, Tools!NoCommand
<1>2. \A u \in Tools!Threads : u # t => th'[u] = th[u]
  BY DEF Tools!CommandReturns, Tools!TypeOK, Tools!At, Tools!Goto
<1>3. /\ cargoLock' = IF Tools!Prog(t) = "rustc" THEN None ELSE cargoLock
      /\ rustcLock' = IF Tools!Prog(t) = "rustc" THEN None ELSE rustcLock
      /\ UNCHANGED <<cmdArgs, env, argv, slot, hostOut, status>>
  BY DEF Tools!CommandReturns
<1>T. cargoLock \in Tools!Threads \cup {None}
  BY DEF Tools!TypeOK
<1> USE <1>T, <1>1, <1>2, <1>3, ToolKinds DEF ToolInv, Shapes, ThreadShape, SessionShape, HostShape, JobShape, LspShape,
        Tools!Prog
<1>4. Shapes'
  OBVIOUS
<1>5. Locks'
  BY DEF Locks, HoldsCargo, HoldsRustc
<1>6. JobsOfCargo'
  BY DEF Locks, HoldsCargo, HoldsRustc, JobsOfCargo
<1>7. Arguments'
  BY DEF Locks, HoldsCargo, HoldsRustc, JobsOfCargo, Arguments, ArgsOf, Unlocked
<1>8. Slots'
  BY DEF Locks, HoldsRustc, Slots, InSlot, Output, Tools!FreeSlot
<1>9. Capture'
  BY DEF Locks, HoldsCargo, Capture, Captures, Output, Tools!NotCaptured
<1>10. Statuses'
  BY DEF Locks, HoldsCargo, HoldsRustc, Statuses, StatusOf, Tools!TypeOK
<1>11. Environment'
  BY DEF Locks, HoldsCargo, HoldsRustc, JobsOfCargo, Environment, Requested, Invoked
<1> QED
  BY <1>4, <1>5, <1>6, <1>7, <1>8, <1>9, <1>10, <1>11

LEMMA CopyArgsKeeps ==
  ASSUME Tools!TypeOK, ToolInv, NEW t \in Tools!Threads, Tools!CopyArgs(t)
  PROVE  ToolInv'
<1>1. /\ th[t].pc = "copy" /\ t \in Sessions
      /\ ~th'[t].wrote
      /\ \/ th'[t].pc = "idle" /\ th'[t].cmd.prog = "unknown"
         \/ th'[t].pc = "cargo" /\ th'[t].cmd.prog \in {"cargo", "rustc"}
         \/ th'[t].pc = "set" /\ th'[t].cmd.prog \in Unlocked
  <2>1. PICK c \in Tools!Copied(t) :
          th' = [th EXCEPT ![t] = [Tools!Idle EXCEPT
                   !.cmd = IF Tools!FirstStep(c.prog) = "idle" THEN @ ELSE c,
                   !.pc = Tools!FirstStep(c.prog)]]
    BY DEF Tools!CopyArgs
  <2>2. c.prog \in Tools!Programs
    BY DEF Tools!Copied, Tools!TypeOK, Tools!Thread, Tools!Command, Tools!NoCommand,
           Tools!Programs
  <2>3. \/ Tools!FirstStep(c.prog) = "idle"
        \/ Tools!FirstStep(c.prog) = "cargo" /\ c.prog \in {"cargo", "rustc"}
        \/ Tools!FirstStep(c.prog) = "set" /\ c.prog \in Unlocked
    BY <2>2 DEF Tools!FirstStep, Tools!Programs, Unlocked
  <2>4. th[t].pc = "copy" /\ t \in Sessions
    BY ToolKinds DEF Tools!CopyArgs, Tools!At, ToolInv, Shapes, ThreadShape, SessionShape, HostShape, JobShape,
                     LspShape
  <2> QED
    BY <2>1, <2>3, <2>4 DEF Tools!TypeOK, Tools!Idle, Tools!NoCommand
<1>2. \A u \in Tools!Threads : u # t => th'[u] = th[u]
  BY DEF Tools!CopyArgs, Tools!TypeOK, Tools!At, Tools!Goto, Tools!Begin
<1>3. /\ UNCHANGED <<cmdArgs, cargoLock, rustcLock, env, argv, slot, hostOut, status>>
  BY DEF Tools!CopyArgs
<1>T. cargoLock \in Tools!Threads \cup {None}
  BY DEF Tools!TypeOK
<1> USE <1>T, <1>1, <1>2, <1>3, ToolKinds DEF ToolInv, Shapes, ThreadShape, SessionShape, HostShape, JobShape, LspShape,
        Tools!Prog
<1>4. Shapes'
  BY DEF Unlocked
<1>5. Locks'
  BY DEF Locks, HoldsCargo, HoldsRustc, Unlocked
<1>6. JobsOfCargo'
  BY DEF Locks, HoldsCargo, HoldsRustc, JobsOfCargo
<1>7. Arguments'
  BY DEF Locks, HoldsCargo, HoldsRustc, JobsOfCargo, Arguments, ArgsOf, Unlocked
<1>8. Slots'
  BY DEF Locks, HoldsRustc, Slots, InSlot, Output, Tools!FreeSlot
<1>9. Capture'
  BY DEF Locks, HoldsCargo, Capture, Captures, Output, Tools!NotCaptured
<1>10. Statuses'
  BY DEF Locks, HoldsCargo, HoldsRustc, Statuses, StatusOf, Tools!TypeOK
<1>11. Environment'
  BY DEF Locks, HoldsCargo, HoldsRustc, JobsOfCargo, Environment, Requested, Invoked
<1> QED
  BY <1>4, <1>5, <1>6, <1>7, <1>8, <1>9, <1>10, <1>11

LEMMA ExitKeeps ==
  ASSUME Tools!TypeOK, ToolInv, NEW t \in Tools!Threads, Tools!Exit(t)
  PROVE  ToolInv'
<1>1. /\ th[t].pc = "run" /\ t # Lsp
      /\ th'[t].pc = "exited"
      /\ th'[t].cmd = th[t].cmd /\ th'[t].wrote = th[t].wrote
      /\ th'[t].env = th[t].env /\ th'[t].seen = th[t].seen
      /\ Tools!Prog(t) = "cargo" => status'.cargo = th'[t].code
      /\ Tools!Prog(t) = "rustc" => status'.rustc = th'[t].code
      /\ Tools!Prog(t) # "cargo" => status'.cargo = status.cargo
      /\ Tools!Prog(t) # "rustc" => status'.rustc = status.rustc
      /\ Tools!Prog(t) = "cargo" => \A j \in Jobs : th[j].pc = "idle"
  BY DEF Tools!Exit, Tools!TypeOK, Tools!Thread, Tools!At, Tools!Prog
<1>2. \A u \in Tools!Threads : u # t => th'[u] = th[u]
  BY DEF Tools!Exit, Tools!TypeOK, Tools!At, Tools!Goto, Tools!Begin
<1>3. /\ UNCHANGED <<cmdArgs, cargoLock, rustcLock, env, argv, slot, hostOut>>
  BY DEF Tools!Exit
<1>T. cargoLock \in Tools!Threads \cup {None}
  BY DEF Tools!TypeOK
<1> USE <1>T, <1>1, <1>2, <1>3, ToolKinds DEF ToolInv, Shapes, ThreadShape, SessionShape, HostShape, JobShape, LspShape,
        Tools!Prog
<1>4. Shapes'
  OBVIOUS
<1>5. Locks'
  BY DEF Locks, HoldsCargo, HoldsRustc
<1>6. JobsOfCargo'
  BY DEF Locks, HoldsCargo, HoldsRustc, JobsOfCargo
<1>7. Arguments'
  BY DEF Locks, HoldsCargo, HoldsRustc, JobsOfCargo, Arguments, ArgsOf, Unlocked
<1>8. Slots'
  BY DEF Locks, HoldsRustc, Slots, InSlot, Output, Tools!FreeSlot
<1>9. Capture'
  BY DEF Locks, HoldsCargo, Capture, Captures, Output, Tools!NotCaptured
<1>10. Statuses'
  BY DEF Locks, HoldsCargo, HoldsRustc, Statuses, StatusOf, Tools!TypeOK
<1>11. Environment'
  BY DEF Locks, HoldsCargo, HoldsRustc, JobsOfCargo, Environment, Requested, Invoked
<1> QED
  BY <1>4, <1>5, <1>6, <1>7, <1>8, <1>9, <1>10, <1>11

LEMMA CollectCargoKeeps ==
  ASSUME Tools!TypeOK, ToolInv, NEW t \in Tools!Threads, Tools!CollectCargo(t)
  PROVE  ToolInv'
<1>1. /\ th[t].pc = "exited" /\ Tools!Prog(t) = "cargo"
      /\ t \in Sessions \cup Hosts
      /\ t \in Hosts => /\ th'[t].pc = "restore" /\ th'[t].cmd = th[t].cmd
                        /\ th'[t].env = th[t].env /\ th'[t].wrote = th[t].wrote
      /\ t \notin Hosts => /\ th'[t].pc = "idle" /\ ~th'[t].wrote
                           /\ th'[t].cmd.prog = "unknown"
  <2>1. th[t].pc = "exited" /\ Tools!Prog(t) = "cargo"
    BY DEF Tools!CollectCargo, Tools!At
  <2>2. CASE t \in Hosts
    <3>1. th' = [th EXCEPT ![t] = [th[t] EXCEPT !.pc = "restore"]]
      BY <2>2 DEF Tools!CollectCargo
    <3>2. th' = [th EXCEPT ![t].pc = "restore"]
      BY <3>1 DEF Tools!TypeOK
    <3>3. /\ th'[t].pc = "restore" /\ th'[t].cmd = th[t].cmd
          /\ th'[t].env = th[t].env /\ th'[t].wrote = th[t].wrote
      BY <3>2 DEF Tools!TypeOK, Tools!Thread
    <3> QED
      BY <2>1, <2>2, <3>3
  <2>3. CASE t \notin Hosts
    <3>1. th' = [th EXCEPT ![t] = Tools!Idle]
      BY <2>3 DEF Tools!CollectCargo
    <3>2. th'[t] = Tools!Idle
      BY <3>1 DEF Tools!TypeOK
    <3>3. t \in Sessions \cup Hosts
      BY <2>1, ToolKinds DEF Tools!CollectCargo, Tools!Prog, ToolInv, Shapes, ThreadShape, SessionShape, HostShape,
                             JobShape, LspShape
    <3> QED
      BY <2>1, <2>3, <3>2, <3>3 DEF Tools!Idle, Tools!NoCommand
  <2> QED
    BY <2>2, <2>3
<1>2. \A u \in Tools!Threads : u # t => th'[u] = th[u]
  BY DEF Tools!CollectCargo, Tools!TypeOK, Tools!At, Tools!Goto, Tools!Begin
<1>3. /\ hostOut' = Tools!NotCaptured
      /\ cargoLock' = IF t \in Hosts THEN cargoLock ELSE None
      /\ UNCHANGED <<cmdArgs, rustcLock, env, argv, slot, status>>
  BY DEF Tools!CollectCargo
<1>T. cargoLock \in Tools!Threads \cup {None}
  BY DEF Tools!TypeOK
<1> USE <1>T, <1>1, <1>2, <1>3, ToolKinds DEF ToolInv, Shapes, ThreadShape, SessionShape, HostShape, JobShape, LspShape,
        Tools!Prog
<1>4. Shapes'
  OBVIOUS
<1>5. Locks'
  BY DEF Locks, HoldsCargo, HoldsRustc
<1>6. JobsOfCargo'
  BY DEF Locks, HoldsCargo, HoldsRustc, JobsOfCargo
<1>7. Arguments'
  BY DEF Locks, HoldsCargo, HoldsRustc, JobsOfCargo, Arguments, ArgsOf, Unlocked
<1>8. Slots'
  BY DEF Locks, HoldsRustc, Slots, InSlot, Output, Tools!FreeSlot
<1>9. Capture'
  BY DEF Locks, HoldsCargo, Capture, Captures, Output, Tools!NotCaptured
<1>10. Statuses'
  BY DEF Locks, HoldsCargo, HoldsRustc, Statuses, StatusOf, Tools!TypeOK
<1>11. Environment'
  BY DEF Locks, HoldsCargo, HoldsRustc, JobsOfCargo, Environment, Requested, Invoked
<1> QED
  BY <1>4, <1>5, <1>6, <1>7, <1>8, <1>9, <1>10, <1>11

LEMMA LeaveKeeps ==
  ASSUME Tools!TypeOK, ToolInv, NEW t \in Tools!Threads, Tools!Leave(t)
  PROVE  ToolInv'
<1>1. /\ th[t].pc = "exited" /\ Tools!Prog(t) = "rustc"
      /\ t \in Jobs \cup Hosts
      /\ t \in Hosts => /\ th'[t].pc = "restore" /\ th'[t].cmd = th[t].cmd
                        /\ th'[t].env = th[t].env /\ th'[t].wrote = th[t].wrote
      /\ t \notin Hosts => /\ th'[t].pc = "idle" /\ ~th'[t].wrote
                           /\ th'[t].cmd.prog = "unknown"
  <2>1. th[t].pc = "exited" /\ Tools!Prog(t) = "rustc"
    BY DEF Tools!Leave, Tools!At
  <2>2. CASE t \in Hosts
    <3>1. th' = [th EXCEPT ![t] = [th[t] EXCEPT !.pc = "restore"]]
      BY <2>2 DEF Tools!Leave
    <3>2. th' = [th EXCEPT ![t].pc = "restore"]
      BY <3>1 DEF Tools!TypeOK
    <3>3. /\ th'[t].pc = "restore" /\ th'[t].cmd = th[t].cmd
          /\ th'[t].env = th[t].env /\ th'[t].wrote = th[t].wrote
      BY <3>2 DEF Tools!TypeOK, Tools!Thread
    <3> QED
      BY <2>1, <2>2, <3>3
  <2>3. CASE t \notin Hosts
    <3>1. th' = [th EXCEPT ![t] = Tools!Idle]
      BY <2>3 DEF Tools!Leave
    <3>2. th'[t] = Tools!Idle
      BY <3>1 DEF Tools!TypeOK
    <3>3. t \in Jobs \cup Hosts
      BY <2>1, ToolKinds DEF Tools!Leave, Tools!Prog, ToolInv, Shapes, ThreadShape, SessionShape, HostShape,
                             JobShape, LspShape
    <3> QED
      BY <2>1, <2>3, <3>2, <3>3 DEF Tools!Idle, Tools!NoCommand
  <2> QED
    BY <2>2, <2>3
<1>2. \A u \in Tools!Threads : u # t => th'[u] = th[u]
  BY DEF Tools!Leave, Tools!TypeOK, Tools!At, Tools!Goto, Tools!Begin
<1>3. /\ slot' = Tools!FreeSlot
      /\ argv' = th[t].args
      /\ env' = IF t \in Jobs THEN th[t].env ELSE env
      /\ rustcLock' = None
      /\ UNCHANGED <<cmdArgs, cargoLock, hostOut, status>>
  BY DEF Tools!Leave, Tools!Drained
<1>T. cargoLock \in Tools!Threads \cup {None}
  BY DEF Tools!TypeOK
<1> USE <1>T, <1>1, <1>2, <1>3, ToolKinds DEF ToolInv, Shapes, ThreadShape, SessionShape, HostShape, JobShape, LspShape,
        Tools!Prog
<1>4. Shapes'
  OBVIOUS
<1>5. Locks'
  BY DEF Locks, HoldsCargo, HoldsRustc
<1>6. JobsOfCargo'
  BY DEF Locks, HoldsCargo, HoldsRustc, JobsOfCargo
<1>7. Arguments'
  BY DEF Locks, HoldsCargo, HoldsRustc, JobsOfCargo, Arguments, ArgsOf, Unlocked
<1>8. Slots'
  BY DEF Locks, HoldsRustc, Slots, InSlot, Output, Tools!FreeSlot
<1>9. Capture'
  BY DEF Locks, HoldsCargo, Capture, Captures, Output, Tools!NotCaptured
<1>10. Statuses'
  BY DEF Locks, HoldsCargo, HoldsRustc, Statuses, StatusOf, Tools!TypeOK
<1>11. Environment'
  BY DEF Locks, HoldsCargo, HoldsRustc, JobsOfCargo, Environment, Requested, Invoked
<1> QED
  BY <1>4, <1>5, <1>6, <1>7, <1>8, <1>9, <1>10, <1>11

LEMMA HostRestoresKeeps ==
  ASSUME Tools!TypeOK, ToolInv, NEW t \in Tools!Threads, Tools!HostRestores(t)
  PROVE  ToolInv'
<1>1. /\ th[t].pc = "restore" /\ t \in Hosts
      /\ th'[t].pc = "idle" /\ ~th'[t].wrote
      /\ th'[t].cmd.prog = "unknown"
  BY ToolKinds DEF Tools!HostRestores, Tools!TypeOK, Tools!Thread, Tools!At, Tools!Begin, Tools!Prog,
                   Tools!Idle, Tools!NoCommand, ToolInv, Shapes, ThreadShape, SessionShape, HostShape, JobShape,
                   LspShape
<1>2. \A u \in Tools!Threads : u # t => th'[u] = th[u]
  BY DEF Tools!HostRestores, Tools!TypeOK, Tools!At, Tools!Goto, Tools!Begin
<1>3. /\ env' = th[t].env
      /\ cargoLock' = None
      /\ UNCHANGED <<cmdArgs, rustcLock, argv, slot, hostOut, status>>
  BY DEF Tools!HostRestores
<1>T. cargoLock \in Tools!Threads \cup {None}
  BY DEF Tools!TypeOK
<1> USE <1>T, <1>1, <1>2, <1>3, ToolKinds DEF ToolInv, Shapes, ThreadShape, SessionShape, HostShape, JobShape, LspShape,
        Tools!Prog
<1>4. Shapes'
  OBVIOUS
<1>5. Locks'
  BY DEF Locks, HoldsCargo, HoldsRustc
<1>6. JobsOfCargo'
  BY DEF Locks, HoldsCargo, HoldsRustc, JobsOfCargo
<1>7. Arguments'
  BY DEF Locks, HoldsCargo, HoldsRustc, JobsOfCargo, Arguments, ArgsOf, Unlocked
<1>8. Slots'
  BY DEF Locks, HoldsRustc, Slots, InSlot, Output, Tools!FreeSlot
<1>9. Capture'
  BY DEF Locks, HoldsCargo, Capture, Captures, Output, Tools!NotCaptured
<1>10. Statuses'
  BY DEF Locks, HoldsCargo, HoldsRustc, Statuses, StatusOf, Tools!TypeOK
<1>11. Environment'
  BY DEF Locks, HoldsCargo, HoldsRustc, JobsOfCargo, Environment, Requested, Invoked
<1> QED
  BY <1>4, <1>5, <1>6, <1>7, <1>8, <1>9, <1>10, <1>11

LEMMA FallbackKeeps ==
  ASSUME Tools!TypeOK, ToolInv, NEW t \in Sessions, NEW p \in Commands[t],
         Tools!Fallback(t, p)
  PROVE  ToolInv'
<1>1. /\ th[t].pc = "idle" /\ t \in Tools!Threads
      /\ th'[t].pc = "typed" /\ ~th'[t].wrote
      /\ th'[t].cmd.prog = "unknown"
  BY ToolKinds DEF Tools!Fallback, Tools!TypeOK, Tools!Thread, Tools!At, Tools!Begin, Tools!Prog,
                   Tools!Idle, Tools!NoCommand, ToolInv, Shapes, ThreadShape, SessionShape, HostShape, JobShape,
                   LspShape
<1>2. \A u \in Tools!Threads : u # t => th'[u] = th[u]
  BY DEF Tools!Fallback, Tools!TypeOK, Tools!At, Tools!Goto, Tools!Begin
<1>3. /\ UNCHANGED <<cargoLock, rustcLock, env, argv, slot, hostOut, status>>
  BY DEF Tools!Fallback
<1>T. cargoLock \in Tools!Threads \cup {None}
  BY DEF Tools!TypeOK
<1> USE <1>T, <1>1, <1>2, <1>3, ToolKinds DEF ToolInv, Shapes, ThreadShape, SessionShape, HostShape, JobShape, LspShape,
        Tools!Prog
<1>4. Shapes'
  OBVIOUS
<1>5. Locks'
  BY DEF Locks, HoldsCargo, HoldsRustc
<1>6. JobsOfCargo'
  BY DEF Locks, HoldsCargo, HoldsRustc, JobsOfCargo
<1>7. Arguments'
  BY DEF Locks, HoldsCargo, HoldsRustc, JobsOfCargo, Arguments, ArgsOf, Unlocked
<1>8. Slots'
  BY DEF Locks, HoldsRustc, Slots, InSlot, Output, Tools!FreeSlot
<1>9. Capture'
  BY DEF Locks, HoldsCargo, Capture, Captures, Output, Tools!NotCaptured
<1>10. Statuses'
  BY DEF Locks, HoldsCargo, HoldsRustc, Statuses, StatusOf, Tools!TypeOK
<1>11. Environment'
  BY DEF Locks, HoldsCargo, HoldsRustc, JobsOfCargo, Environment, Requested, Invoked
<1> QED
  BY <1>4, <1>5, <1>6, <1>7, <1>8, <1>9, <1>10, <1>11

LEMMA StartLspKeeps ==
  ASSUME Tools!TypeOK, ToolInv, Tools!StartLsp
  PROVE  ToolInv'
<1>1. /\ Lsp \in Tools!Threads /\ th'[Lsp].pc = "set"
      /\ th'[Lsp].cmd.prog = "rust-analyzer" /\ th'[Lsp].wrote = th[Lsp].wrote
  BY ToolKinds DEF Tools!StartLsp, Tools!TypeOK, Tools!Thread, Tools!At, Tools!Begin, Tools!Prog,
                   Tools!Idle, Tools!NoCommand, ToolInv, Shapes, ThreadShape, SessionShape, HostShape, JobShape,
                   LspShape
<1>2. \A u \in Tools!Threads : u # Lsp => th'[u] = th[u]
  BY DEF Tools!StartLsp, Tools!TypeOK, Tools!At, Tools!Goto, Tools!Begin
<1>3. /\ UNCHANGED <<cmdArgs, cargoLock, rustcLock, env, argv, slot, hostOut, status>>
  BY DEF Tools!StartLsp
<1>T. cargoLock \in Tools!Threads \cup {None}
  BY DEF Tools!TypeOK
<1> USE <1>T, <1>1, <1>2, <1>3, ToolKinds DEF ToolInv, Shapes, ThreadShape, SessionShape, HostShape, JobShape, LspShape,
        Tools!Prog
<1>4. Shapes'
  OBVIOUS
<1>5. Locks'
  BY DEF Locks, HoldsCargo, HoldsRustc
<1>6. JobsOfCargo'
  BY DEF Locks, HoldsCargo, HoldsRustc, JobsOfCargo
<1>7. Arguments'
  BY DEF Locks, HoldsCargo, HoldsRustc, JobsOfCargo, Arguments, ArgsOf, Unlocked
<1>8. Slots'
  BY DEF Locks, HoldsRustc, Slots, InSlot, Output, Tools!FreeSlot
<1>9. Capture'
  BY DEF Locks, HoldsCargo, Capture, Captures, Output, Tools!NotCaptured
<1>10. Statuses'
  BY DEF Locks, HoldsCargo, HoldsRustc, Statuses, StatusOf, Tools!TypeOK
<1>11. Environment'
  BY DEF Locks, HoldsCargo, HoldsRustc, JobsOfCargo, Environment, Requested, Invoked
<1> QED
  BY <1>4, <1>5, <1>6, <1>7, <1>8, <1>9, <1>10, <1>11

LEMMA HostRequestKeeps ==
  ASSUME Tools!TypeOK, ToolInv, NEW t \in Hosts, NEW p \in HostPrograms,
         Tools!HostRequest(t, p)
  PROVE  ToolInv'
<1>1. /\ th[t].pc = "idle" /\ t \in Tools!Threads
      /\ th'[t].pc = "cargo" /\ ~th'[t].wrote
      /\ th'[t].cmd.prog \in {"rustc", "cargo"}
  BY ToolKinds, ToolFacts DEF Tools!HostRequest, Tools!TypeOK, Tools!Thread, Tools!At, Tools!Begin, Tools!Prog,
                   Tools!Idle, Tools!NoCommand, ToolInv, Shapes, ThreadShape, SessionShape, HostShape, JobShape,
                   LspShape, Tools!ToolAssumption
<1>2. \A u \in Tools!Threads : u # t => th'[u] = th[u]
  BY DEF Tools!HostRequest, Tools!TypeOK, Tools!At, Tools!Goto, Tools!Begin
<1>3. /\ UNCHANGED <<cmdArgs, cargoLock, rustcLock, env, argv, slot, hostOut, status>>
  BY DEF Tools!HostRequest
<1>T. cargoLock \in Tools!Threads \cup {None}
  BY DEF Tools!TypeOK
<1> USE <1>T, <1>1, <1>2, <1>3, ToolKinds DEF ToolInv, Shapes, ThreadShape, SessionShape, HostShape, JobShape, LspShape,
        Tools!Prog
<1>4. Shapes'
  OBVIOUS
<1>5. Locks'
  BY DEF Locks, HoldsCargo, HoldsRustc
<1>6. JobsOfCargo'
  BY DEF Locks, HoldsCargo, HoldsRustc, JobsOfCargo
<1>7. Arguments'
  BY DEF Locks, HoldsCargo, HoldsRustc, JobsOfCargo, Arguments, ArgsOf, Unlocked
<1>8. Slots'
  BY DEF Locks, HoldsRustc, Slots, InSlot, Output, Tools!FreeSlot
<1>9. Capture'
  BY DEF Locks, HoldsCargo, Capture, Captures, Output, Tools!NotCaptured
<1>10. Statuses'
  BY DEF Locks, HoldsCargo, HoldsRustc, Statuses, StatusOf, Tools!TypeOK
<1>11. Environment'
  BY DEF Locks, HoldsCargo, HoldsRustc, JobsOfCargo, Environment, Requested, Invoked
<1> QED
  BY <1>4, <1>5, <1>6, <1>7, <1>8, <1>9, <1>10, <1>11

LEMMA SpawnKeeps ==
  ASSUME Tools!TypeOK, ToolInv, NEW t \in Jobs, Tools!Spawn(t)
  PROVE  ToolInv'
<1>1. /\ th[t].pc = "idle" /\ t \in Tools!Threads
      /\ th'[t].pc = "rustc" /\ ~th'[t].wrote
      /\ th'[t].cmd.prog = "rustc"
      /\ \E u \in Tools!Threads \ Jobs : th[u].pc = "run" /\ Tools!Prog(u) = "cargo"
  BY ToolKinds DEF Tools!Spawn, Tools!TypeOK, Tools!Thread, Tools!At, Tools!Begin, Tools!Prog,
                   Tools!Idle, Tools!NoCommand, ToolInv, Shapes, ThreadShape, SessionShape, HostShape, JobShape,
                   LspShape
<1>2. \A u \in Tools!Threads : u # t => th'[u] = th[u]
  BY DEF Tools!Spawn, Tools!TypeOK, Tools!At, Tools!Goto, Tools!Begin
<1>3. /\ UNCHANGED <<cmdArgs, cargoLock, rustcLock, env, argv, slot, hostOut, status>>
  BY DEF Tools!Spawn
<1>T. cargoLock \in Tools!Threads \cup {None}
  BY DEF Tools!TypeOK
<1> USE <1>T, <1>1, <1>2, <1>3, ToolKinds DEF ToolInv, Shapes, ThreadShape, SessionShape, HostShape, JobShape, LspShape,
        Tools!Prog
<1>4. Shapes'
  OBVIOUS
<1>5. Locks'
  BY DEF Locks, HoldsCargo, HoldsRustc
<1>6. JobsOfCargo'
  BY DEF Locks, HoldsCargo, HoldsRustc, JobsOfCargo
<1>7. Arguments'
  BY DEF Locks, HoldsCargo, HoldsRustc, JobsOfCargo, Arguments, ArgsOf, Unlocked
<1>8. Slots'
  BY DEF Locks, HoldsRustc, Slots, InSlot, Output, Tools!FreeSlot
<1>9. Capture'
  BY DEF Locks, HoldsCargo, Capture, Captures, Output, Tools!NotCaptured
<1>10. Statuses'
  BY DEF Locks, HoldsCargo, HoldsRustc, Statuses, StatusOf, Tools!TypeOK
<1>11. Environment'
  BY DEF Locks, HoldsCargo, HoldsRustc, JobsOfCargo, Environment, Requested, Invoked
<1> QED
  BY <1>4, <1>5, <1>6, <1>7, <1>8, <1>9, <1>10, <1>11

LEMMA ToolInvStep ==
  Tools!TypeOK /\ ToolInv /\ [Tools!Next]_(Tools!toolVars) => ToolInv'
<1> SUFFICES ASSUME Tools!TypeOK, ToolInv, [Tools!Next]_(Tools!toolVars) PROVE ToolInv'
  OBVIOUS
<1>1. ASSUME NEW t \in Tools!Threads, Tools!Advances(t) PROVE ToolInv'
  BY <1>1, ReadPointerKeeps, CopyArgsKeeps, TakeCargoKeeps, TakeRustcKeeps, OverlayKeeps,
     HostCwdFailsKeeps, JobCwdFailsKeeps, SetArgsKeeps, EnterKeeps, MainKeeps, WriteKeeps,
     ExitKeeps, PanicKeeps, CollectCargoKeeps, LeaveKeeps, HostRestoresKeeps,
     CommandReturnsKeeps DEF Tools!Advances
<1>2. CASE UNCHANGED Tools!toolVars
  BY <1>2 DEF Tools!toolVars, ToolInv, Shapes, ThreadShape, SessionShape, HostShape,
     JobShape, LspShape, Tools!Prog, Locks, HoldsCargo, HoldsRustc, JobsOfCargo, Arguments,
     ArgsOf, Slots, InSlot, Output, Capture, Captures, Statuses, StatusOf, Environment,
     Requested, Invoked
<1> QED
  BY <1>1, <1>2, FallbackKeeps, StartLspKeeps, HostRequestKeeps, SpawnKeeps DEF Tools!Next

LEMMA ResultIsOwnHolds == Tools!TypeOK /\ ToolInv => Tools!ResultIsOwn
<1> SUFFICES ASSUME Tools!TypeOK, ToolInv, NEW t \in Tools!Threads, th[t].pc = "exited"
             PROVE  /\ Tools!Prog(t) = "cargo" =>
                         status.cargo = th[t].code /\ hostOut = Output(t)
                    /\ Tools!Prog(t) = "rustc" /\ t \in Sessions =>
                         status.rustc = th[t].code
                    /\ Tools!Prog(t) = "rustc" /\ t \notin Sessions =>
                         /\ th[t].code \in {status.rustc, 101}
                         /\ slot = [owner |-> t, out |-> Output(t)]
  BY DEF Tools!ResultIsOwn, Tools!At, Output
<1>1. StatusOf(t)
  BY DEF ToolInv, Statuses
<1>2. Tools!Prog(t) = "cargo" => hostOut = Output(t)
  BY DEF ToolInv, Capture, Captures
<1>3. Tools!Prog(t) = "rustc" /\ t \notin Sessions => slot = [owner |-> t, out |-> Output(t)]
  BY ToolKinds DEF ToolInv, Slots, InSlot, Shapes, ThreadShape, LspShape
<1> QED
  BY <1>1, <1>2, <1>3 DEF StatusOf

LEMMA LeavesNothingHolds == Tools!TypeOK /\ ToolInv => Tools!LeavesNothing
<1> SUFFICES ASSUME Tools!TypeOK, ToolInv, cargoLock = None, rustcLock = None
             PROVE  env = None /\ slot = Tools!FreeSlot /\ hostOut = Tools!NotCaptured
  BY DEF Tools!LeavesNothing
<1>1. \A t \in Tools!Threads : ~HoldsCargo(t) /\ ~HoldsRustc(t)
  BY ToolKinds DEF ToolInv, Locks
<1>2. \A t \in Tools!Threads : ~InSlot(t) /\ ~Captures(t)
  BY <1>1, ToolKinds DEF ToolInv, Shapes, ThreadShape, SessionShape, HostShape, JobShape,
     LspShape, HoldsCargo, HoldsRustc, InSlot, Captures
<1>3. env = None
  BY ToolKinds DEF ToolInv, JobsOfCargo, Environment, Requested, Invoked
<1> QED
  BY <1>2, <1>3 DEF ToolInv, Slots, Capture

\* A step of the guest is one of its tools, or leaves them alone.
LEMMA StepOfTools == [Next]_vars => [Tools!Next]_(Tools!toolVars)
  BY DEF Next, vars, toolVars, Tools!toolVars, ToolsStep, ShellStep, ChildStep, ResultsStep,
         MirrorStep

\* Concurrent cargo and rustc runs read their own arguments, collect their own status and
\* output, and leave the environment and the capture as they found them, however many
\* sessions, requests of the language server and jobs of cargo there are.
THEOREM ToolRunsAreSound == Spec => []ToolRunsSound
<1>1. Init => Tools!TypeOK /\ ToolInv
  BY ToolTypeInit, ToolInvInit DEF Init
<1>2. Tools!TypeOK /\ ToolInv /\ [Next]_vars => (Tools!TypeOK /\ ToolInv)'
  BY ToolTypeStep, ToolInvStep, StepOfTools
<1>3. Tools!TypeOK /\ ToolInv => ToolRunsSound
  <2>1. ToolInv => Tools!SerializedArgs
    BY DEF ToolInv, Arguments, ArgsOf, Unlocked, Tools!SerializedArgs, Tools!At
  <2> QED
    BY <2>1, ResultIsOwnHolds, LeavesNothingHolds DEF ToolRunsSound
<1> QED
  BY <1>1, <1>2, <1>3, PTL DEF Spec

-----------------------------------------------------------------------------
(* The program that cargo run starts (ChildProcess).                        *)

\* A set of naturals has a least element, a bounded one a greatest.
LEMMA LeastNatural ==
  ASSUME NEW T \in SUBSET Nat, T # {}
  PROVE  \E x \in T : \A y \in T : x <= y
<1> DEFINE R == OpToRel(<, Nat)
<1>1. \E x \in T : \A y \in T : ~ (<<y, x>> \in R)
  <2>1. IsWellFoundedOn(R, Nat)
    BY NatLessThanWellFounded, Zenon
  <2> HIDE DEF R
  <2> QED
    BY <2>1, WFMin, Zenon
<1>2. ASSUME NEW x \in Nat, NEW y \in Nat, y < x PROVE <<y, x>> \in R
  BY <1>2 DEF OpToRel
<1> HIDE DEF R
<1>3. PICK x \in T : \A y \in T : ~ (<<y, x>> \in R)
  BY <1>1
<1>4. ASSUME NEW y \in T PROVE x <= y
  <2>1. ~(y < x)
    BY <1>2, <1>3
  <2> QED
    BY <2>1
<1> QED
  BY <1>3, <1>4

LEMMA Greatest ==
  ASSUME NEW N \in Nat, NEW T \in SUBSET (1..N), T # {}
  PROVE  \E x \in T : \A y \in T : y <= x
<1> DEFINE U == {N - x : x \in T}
<1>1. U \in SUBSET Nat /\ U # {}
  <2>1. \A x \in T : x \in 1..N /\ N - x \in Nat
    OBVIOUS
  <2> QED
    BY <2>1
<1>2. PICK u \in U : \A v \in U : u <= v
  <2> HIDE DEF U
  <2> QED BY <1>1, LeastNatural
<1>3. PICK x \in T : u = N - x
  BY <1>2
<1>4. \A y \in T : N - x <= N - y
  BY <1>2, <1>3
<1> QED
  BY <1>3, <1>4

LEMMA ChildFacts == Child!ChildAssumption
  BY GuestAssumption DEF GuestAssumption

\* The sets of cleanup calls that throw are finite: they can be counted.
LEMMA BadFacts ==
  ASSUME NEW bad \in SUBSET Faults
  PROVE  Child!Cardinality(bad) \in Nat /\ (Child!Cardinality(bad) = 0 => bad = {})
<1>1. IsFiniteSet({"clear"}) /\ IsFiniteSet({"clear", "terminate"})
  BY FS_EmptySet, FS_AddElement, IsFiniteSet({}), {"clear"} = {} \cup {"clear"},
     {"clear", "terminate"} = {"clear"} \cup {"terminate"}
<1>2. IsFiniteSet({"clear", "terminate", "restore"})
  BY <1>1, FS_AddElement,
     {"clear", "terminate", "restore"} = {"clear", "terminate"} \cup {"restore"}
<1>3. IsFiniteSet(bad)
  BY <1>2, FS_Subset, ChildFacts DEF Child!ChildAssumption
<1>4. Child!Cardinality(bad) = Cardinality(bad)
  BY DEF Child!Cardinality, Cardinality
<1> QED
  BY <1>3, <1>4, FS_CardinalityType, FS_EmptySet

\* A request whose step, timer or outcome changes is still a request.
LEMMA Staged ==
  ASSUME NEW q \in Child!Request, NEW stage \in 0..3
  PROVE  [q EXCEPT !.stage = stage] \in Child!Request
  BY DEF Child!Request

LEMMA Started ==
  ASSUME NEW q \in Child!Request, NEW stage \in 0..3,
         NEW timer \in {"none", "upload", "execution"}, NEW baseline \in Child!Files
  PROVE  [q EXCEPT !.stage = stage, !.timer = timer, !.baseline = baseline] \in Child!Request
  BY DEF Child!Request

LEMMA Uploaded ==
  ASSUME NEW q \in Child!Request, NEW uploaded \in 0..Chunks,
         NEW timer \in {"none", "upload", "execution"}
  PROVE  [q EXCEPT !.uploaded = uploaded, !.timer = timer] \in Child!Request
  BY DEF Child!Request

LEMMA Ran ==
  ASSUME NEW q \in Child!Request, NEW stage \in 0..3,
         NEW timer \in {"none", "upload", "execution"}, NEW worker \in {"none", "live", "muted"},
         NEW run \in {"none", "pending", "clean", "error", "rejected"}
  PROVE  [q EXCEPT !.stage = stage, !.timer = timer, !.worker = worker, !.run = run]
           \in Child!Request
  BY DEF Child!Request

LEMMA Rejected ==
  ASSUME NEW q \in Child!Request, NEW stage \in 0..3,
         NEW run \in {"none", "pending", "clean", "error", "rejected"}
  PROVE  [q EXCEPT !.stage = stage, !.run = run] \in Child!Request
  BY DEF Child!Request

LEMMA Ended ==
  ASSUME NEW q \in Child!Request, NEW stage \in 0..3, NEW graceful \in BOOLEAN
  PROVE  [q EXCEPT !.stage = stage, !.graceful = graceful] \in Child!Request
  BY DEF Child!Request

\* What cleaning, restoring and answering a request leaves alone, and what it achieves
\* when nothing throws.
LEMMA CleanedIs ==
  ASSUME NEW q \in Child!Request, NEW bad
  PROVE  LET c == Child!Cleaned(q, bad) IN
         /\ c \in Child!Request
         /\ c.stage = q.stage /\ c.uploaded = q.uploaded /\ c.baseline = q.baseline
         /\ c.restore = q.restore /\ c.recovery = q.recovery /\ c.graceful = q.graceful
         /\ c.run = q.run
         /\ bad = {} => c.timer = "none" /\ c.worker = "none"
  BY DEF Child!Cleaned, Child!Request

LEMMA RestoredIs ==
  ASSUME NEW q \in Child!Request, NEW bad
  PROVE  LET c == Child!Restored(q, bad) IN
         /\ c \in Child!Request
         /\ c.stage = q.stage /\ c.uploaded = q.uploaded /\ c.baseline = q.baseline
         /\ c.timer = q.timer /\ c.worker = q.worker /\ c.recovery = q.recovery
         /\ c.graceful = q.graceful /\ c.run = q.run
         /\ bad = {} => c.restore = "done"
  BY DEF Child!Restored, Child!Request

LEMMA RolledBackIs ==
  ASSUME NEW q \in Child!Request, NEW bad
  PROVE  LET c == Child!RolledBack(q, bad) IN
         /\ c \in Child!Request
         /\ c.stage = q.stage /\ c.uploaded = q.uploaded /\ c.baseline = q.baseline
         /\ c.recovery = q.recovery /\ c.graceful = q.graceful /\ c.run = q.run
         /\ bad = {} => c.timer = "none" /\ c.worker = "none" /\ c.restore = "done"
<1>1. Child!Cleaned(q, bad) \in Child!Request
  BY CleanedIs
<1> QED
  BY <1>1, CleanedIs, RestoredIs DEF Child!RolledBack

LEMMA AnsweredIs ==
  ASSUME NEW q \in Child!Request, NEW answer \in {"clean", "error", "rejected"}
  PROVE  LET c == Child!Answered(q, answer) IN
         /\ c \in Child!Request
         /\ c.stage = q.stage /\ c.uploaded = q.uploaded /\ c.baseline = q.baseline
         /\ c.timer = q.timer /\ c.worker = q.worker /\ c.recovery = q.recovery
         /\ c.graceful = q.graceful /\ c.restore = q.restore
         /\ c.run = IF q.run = "pending" THEN answer ELSE q.run
  BY DEF Child!Answered, Child!Request

LEMMA AbortedIs ==
  ASSUME NEW q \in Child!Request, NEW bad
  PROVE  LET c == Child!Aborted(q, bad) IN
         /\ c \in Child!Request
         /\ c.stage = q.stage /\ c.uploaded = q.uploaded /\ c.baseline = q.baseline
         /\ c.recovery = q.recovery /\ c.graceful = q.graceful
         /\ q.run # "pending" => c.run = q.run
         /\ q.stage # 3 /\ q.run = "pending" => c.run = "rejected"
         /\ bad = {} => c.timer = "none" /\ c.worker = "none" /\ c.restore # "owed"
<1>1. CASE q.stage # 3
  <2>1. Child!RolledBack(q, bad) \in Child!Request
    BY RolledBackIs
  <2> QED
    BY <1>1, <2>1, RolledBackIs, AnsweredIs DEF Child!Aborted
<1>2. CASE q.stage = 3 /\ q.restore = "owed"
  BY <1>2, RolledBackIs DEF Child!Aborted
<1>3. CASE q.stage = 3 /\ q.restore # "owed"
  BY <1>3, CleanedIs DEF Child!Aborted
<1> QED
  BY <1>1, <1>2, <1>3

\* A guest that is at work has a request.
OwnRequest == guest \notin {"idle", "prepared", "dead", "booted"} => own \in Child!Requests

LEMMA ChildTypeInit == Child!Init => Child!TypeOK /\ OwnRequest
<1> SUFFICES ASSUME Child!Init PROVE Child!TypeOK /\ OwnRequest
  OBVIOUS
<1>1. Child!AsFound \in Child!Files
  BY ChildFacts DEF Child!AsFound, Child!Files, Child!Contents, Child!ChildAssumption
<1>2. \A r \in Child!Requests : req[r] \in Child!Request
  BY <1>1, ChildFacts DEF Child!Init, Child!Request, Child!ChildAssumption
<1>3. req \in [Child!Requests -> Child!Request]
  BY <1>2 DEF Child!Init
<1>4. 1 \in 1..(MaxRequests + 1) /\ 0 \in 0..MaxEdits /\ 0 \in 0..MaxTraps /\ 0 \in 0..MaxFaults
  BY ChildFacts DEF Child!ChildAssumption
<1> QED
  BY <1>1, <1>3, <1>4 DEF Child!Init, Child!TypeOK, Child!GuestSteps,
                             OwnRequest

\* Files that the child, an edit, the bridge or the guest writes are files.
LEMMA ChildTypeStep ==
  Child!TypeOK /\ OwnRequest /\ [Child!Next]_(Child!vars) => (Child!TypeOK /\ OwnRequest)'
<1> SUFFICES ASSUME Child!TypeOK, OwnRequest, [Child!Next]_(Child!vars)
             PROVE  Child!TypeOK' /\ OwnRequest'
  OBVIOUS
<1> USE DEF Child!bridgeVars, Child!ownerVars, Child!guestVars, Child!boundVars
<1>F. /\ MaxRequests \in Nat /\ MaxEdits \in Nat /\ Chunks \in Nat \ {0}
      /\ MaxTraps \in Nat /\ MaxFaults \in Nat
  BY ChildFacts DEF Child!ChildAssumption
<1>R. \A r \in Child!Requests : req[r] \in Child!Request
  BY DEF Child!TypeOK
<1>B. \A r \in Child!Requests : req[r].baseline \in Child!Files
  BY <1>R DEF Child!Request
<1>H. ASSUME NEW r \in Child!Requests, NEW bad, Child!RestoreHost(r, bad)
      PROVE  host' \in Child!Files
  BY <1>H, <1>B DEF Child!RestoreHost, Child!TypeOK
<1>U. ASSUME NEW r \in Child!Requests, NEW q \in Child!Request, Child!Update(r, q)
      PROVE  /\ req' \in [Child!Requests -> Child!Request]
             /\ childRequests' \subseteq Child!Requests
  BY <1>U DEF Child!Update, Child!TypeOK
<1>T. ASSUME NEW bad \in SUBSET Faults, Child!Throw(bad) PROVE faults' \in 0..MaxFaults
  <2>1. Child!Cardinality(bad) \in Nat /\ faults \in Nat
    BY BadFacts, <1>F DEF Child!TypeOK
  <2> QED
    BY <1>T, <1>F, <2>1 DEF Child!Throw
<1>C. ASSUME NEW r \in Child!Requests, NEW q \in Child!Request, NEW graceful \in BOOLEAN,
             NEW bad, Child!RestoreHost(r, bad) \/ UNCHANGED host,
             Child!Update(r, Child!Answered([(IF graceful THEN Child!Cleaned(q, bad)
                               ELSE Child!Restored(Child!Cleaned(q, bad), bad))
                                EXCEPT !.stage = 3, !.graceful = graceful],
                               IF graceful THEN "clean" ELSE "error"))
      PROVE  /\ req' \in [Child!Requests -> Child!Request]
             /\ childRequests' \subseteq Child!Requests /\ host' \in Child!Files
  <2> DEFINE c == Child!Cleaned(q, bad)
             k == IF graceful THEN c ELSE Child!Restored(c, bad)
             z == [k EXCEPT !.stage = 3, !.graceful = graceful]
  <2>1. c \in Child!Request
    BY CleanedIs
  <2>2. k \in Child!Request
    BY <2>1, RestoredIs
  <2>3. z \in Child!Request
    <3>1. 3 \in 0..3
      OBVIOUS
    <3> HIDE DEF k
    <3> QED
      BY <2>2, <3>1, Ended, Zenon
  <2>4. Child!Answered(z, IF graceful THEN "clean" ELSE "error") \in Child!Request
    BY <2>3, AnsweredIs
  <2> QED
    BY <1>C, <1>U, <1>H, <2>4 DEF Child!TypeOK
<1>D. ASSUME NEW r \in Child!Requests, NEW q \in Child!Request, NEW graceful \in BOOLEAN,
             NEW bad, Child!Complete(r, q, graceful, bad)
      PROVE  /\ req' \in [Child!Requests -> Child!Request]
             /\ childRequests' \subseteq Child!Requests /\ host' \in Child!Files
             /\ UNCHANGED request
  BY <1>D, <1>C DEF Child!Complete
<1>E. ASSUME NEW bad \in SUBSET Faults, Child!Sweep(bad)
      PROVE  /\ req' \in [Child!Requests -> Child!Request]
             /\ childRequests' \subseteq Child!Requests /\ host' \in Child!Files
             /\ aborted' = TRUE /\ faults' \in 0..MaxFaults
             /\ UNCHANGED <<vfs, nextRequestId, guest, own, base, edits, traps>>
  <2>1. \A r \in Child!Requests : Child!Aborted(req[r], bad) \in Child!Request
    BY <1>R, AbortedIs
  <2>2. req' \in [Child!Requests -> Child!Request]
    BY <2>1, <1>R, <1>E DEF Child!Sweep, Child!TypeOK
  <2>3. host' \in Child!Files
    <3> DEFINE restoring == {r \in childRequests : Child!AbortRestores(req[r], bad)}
    <3>1. CASE restoring = {}
      BY <3>1, <1>E DEF Child!Sweep, Child!TypeOK
    <3>2. CASE restoring # {}
      <4> DEFINE first == CHOOSE r \in restoring : \A s \in restoring : s <= r
      <4>1. host' = req[first].baseline
        BY <3>2, <1>E DEF Child!Sweep
      <4>2. restoring \in SUBSET (1..MaxRequests)
        BY DEF Child!TypeOK, Child!Requests
      <4>3. first \in restoring
        <5> HIDE DEF restoring
        <5> QED
          BY <3>2, <4>2, <1>F, Greatest
      <4> QED
        BY <4>1, <4>2, <4>3, <1>B DEF Child!Requests
    <3> QED
      BY <3>1, <3>2
  <2> QED
    BY <2>2, <2>3, <1>E, <1>T DEF Child!Sweep, Child!TypeOK
<1>1. CASE Child!Prepare
  BY <1>1, <1>F DEF Child!Prepare, Child!TypeOK, Child!GuestSteps, OwnRequest
<1>2. CASE Child!Start
  <2> DEFINE r == nextRequestId
  <2>1. r \in Child!Requests /\ r + 1 \in 1..(MaxRequests + 1)
    BY <1>2, <1>F DEF Child!Start, Child!TypeOK, Child!Requests
  <2>2. [req[r] EXCEPT !.stage = 1, !.timer = "upload", !.baseline = host] \in Child!Request
    <3>1. 1 \in 0..3 /\ "upload" \in {"none", "upload", "execution"} /\ host \in Child!Files
      BY DEF Child!TypeOK
    <3> QED
      BY <2>1, <1>R, <3>1, Started, Zenon
  <2>3. req' \in [Child!Requests -> Child!Request]
    BY <1>2, <2>1, <2>2 DEF Child!Start, Child!TypeOK
  <2> QED
    BY <1>2, <2>1, <2>3 DEF Child!Start, Child!TypeOK, Child!GuestSteps, OwnRequest
<1>3. CASE Child!StartRefused
  BY <1>3, <1>F DEF Child!StartRefused, Child!TypeOK, Child!GuestSteps, OwnRequest
<1>O. guest \in {"uploading", "ending", "failing", "acknowledging"} =>
        own \in Child!Requests /\ req[own] \in Child!Request
  BY <1>R DEF OwnRequest
<1>4. CASE Child!Write
  <2>1. own \in Child!Requests /\ req[own] \in Child!Request /\ req[own].uploaded < Chunks
    BY <1>4, <1>O DEF Child!Write
  <2>2. [req[own] EXCEPT !.uploaded = @ + 1, !.timer = "upload"] \in Child!Request
    <3>1. req[own].uploaded + 1 \in 0..Chunks
      BY <2>1, <1>F DEF Child!Request
    <3> QED
      BY <2>1, <3>1, Uploaded
  <2>3. req' \in [Child!Requests -> Child!Request]
    BY <1>4, <2>1, <2>2 DEF Child!Write, Child!TypeOK
  <2> QED
    BY <1>4, <2>1, <2>3 DEF Child!Write, Child!TypeOK, Child!GuestSteps, OwnRequest
<1>5. CASE Child!Run
  <2>1. own \in Child!Requests /\ req[own] \in Child!Request
    BY <1>5, <1>O DEF Child!Run
  <2>2. [req[own] EXCEPT !.stage = 2, !.timer = "execution", !.worker = "live",
                         !.run = "pending"] \in Child!Request
    <3>1. /\ 2 \in 0..3 /\ "execution" \in {"none", "upload", "execution"}
          /\ "live" \in {"none", "live", "muted"}
          /\ "pending" \in {"none", "pending", "clean", "error", "rejected"}
      OBVIOUS
    <3> QED
      BY <2>1, <3>1, Ran, Zenon
  <2>3. req' \in [Child!Requests -> Child!Request]
    BY <1>5, <2>1, <2>2 DEF Child!Run, Child!TypeOK
  <2> QED
    BY <1>5, <2>1, <2>3 DEF Child!Run, Child!TypeOK, Child!GuestSteps, OwnRequest
<1>6. CASE Child!RunReturns
  BY <1>6 DEF Child!RunReturns, Child!TypeOK, Child!GuestSteps, OwnRequest
<1>7. CASE Child!ReadError
  BY <1>7 DEF Child!ReadError, Child!TypeOK, Child!GuestSteps, OwnRequest
<1>8. CASE Child!Import
  <2>1. Child!Reconciled \in Child!Files
    BY DEF Child!Reconciled, Child!TypeOK, Child!Files
  <2> QED
    BY <1>8, <2>1 DEF Child!Import, Child!TypeOK, Child!GuestSteps, OwnRequest
<1>9. CASE Child!ImportFails
  BY <1>9, <1>F DEF Child!ImportFails, Child!TypeOK, Child!GuestSteps, OwnRequest
<1>10. CASE Child!Trap
  BY <1>10, <1>F DEF Child!Trap, Child!TypeOK, Child!GuestSteps, OwnRequest
<1>A. Child!AsFound \in Child!Files
  BY <1>F DEF Child!AsFound, Child!Files, Child!Contents
<1>11. CASE Child!Boot
  BY <1>11, <1>A DEF Child!Boot, Child!TypeOK, Child!GuestSteps, OwnRequest
<1>12. CASE Child!Reimport
  BY <1>12, <1>F DEF Child!Reimport, Child!TypeOK, Child!GuestSteps, OwnRequest
<1>13. CASE Child!ReimportFails
  BY <1>13, <1>F DEF Child!ReimportFails, Child!TypeOK, Child!GuestSteps, OwnRequest
<1>14. ASSUME NEW bad \in SUBSET Faults, Child!WriteAborts(bad)
       PROVE  Child!TypeOK' /\ OwnRequest'
  <2>1. own \in Child!Requests /\ req[own] \in Child!Request
    BY <1>14, <1>O DEF Child!WriteAborts
  <2>2. Child!RolledBack(req[own], bad) \in Child!Request
    BY <2>1, RolledBackIs
  <2>3. /\ req' \in [Child!Requests -> Child!Request] /\ childRequests' \subseteq Child!Requests
        /\ host' \in Child!Files /\ faults' \in 0..MaxFaults
    BY <1>14, <2>1, <2>2, <1>U, <1>H, <1>T DEF Child!WriteAborts
  <2> QED
    BY <1>14, <2>1, <2>3 DEF Child!WriteAborts, Child!TypeOK, Child!GuestSteps, OwnRequest
<1>15. ASSUME NEW bad \in SUBSET Faults, Child!RunFails(bad)
       PROVE  Child!TypeOK' /\ OwnRequest'
  <2>1. own \in Child!Requests /\ req[own] \in Child!Request
    BY <1>15, <1>O DEF Child!RunFails
  <2>2. [req[own] EXCEPT !.stage = 2, !.run = "rejected"] \in Child!Request
    <3>1. 2 \in 0..3 /\ "rejected" \in {"none", "pending", "clean", "error", "rejected"}
      OBVIOUS
    <3> QED
      BY <2>1, <3>1, Rejected, Zenon
  <2>3. Child!RolledBack([req[own] EXCEPT !.stage = 2, !.run = "rejected"], bad) \in Child!Request
    BY <2>2, RolledBackIs
  <2>4. faults' \in 0..MaxFaults
    BY <1>15, <1>T DEF Child!RunFails
  <2>5. CASE ~aborted /\ Child!Uploading(own) /\ "clear" \notin bad
    <3>1. /\ req' \in [Child!Requests -> Child!Request] /\ childRequests' \subseteq Child!Requests
          /\ host' \in Child!Files
      BY <1>15, <2>1, <2>3, <2>5, <1>U, <1>H DEF Child!RunFails
    <3> QED
      BY <1>15, <2>1, <2>4, <2>5, <3>1 DEF Child!RunFails, Child!TypeOK, Child!GuestSteps,
         OwnRequest
  <2>6. CASE ~(~aborted /\ Child!Uploading(own) /\ "clear" \notin bad)
    BY <1>15, <2>1, <2>4, <2>6 DEF Child!RunFails, Child!TypeOK, Child!GuestSteps, OwnRequest
  <2> QED
    BY <2>5, <2>6
<1>G. ASSUME NEW id \in Child!Requests, NEW bad, Child!BridgeEnd(id, bad)
      PROVE  /\ req' \in [Child!Requests -> Child!Request]
             /\ childRequests' \subseteq Child!Requests
             /\ host' \in Child!Files /\ request' \in Child!Requests \cup {0}
  <2>1. req[id] \in Child!Request
    BY <1>R
  <2>2. /\ Child!Cleaned(req[id], bad) \in Child!Request
        /\ Child!Answered(Child!RolledBack(req[id], bad), "clean") \in Child!Request
    BY <2>1, CleanedIs, RolledBackIs, AnsweredIs
  <2>3. CASE aborted \/ request # id \/ req[id].recovery
    BY <1>G, <2>3 DEF Child!BridgeEnd, Child!TypeOK
  <2>4. CASE ~(aborted \/ request # id) /\ ~req[id].recovery /\ req[id].stage = 3
    BY <1>G, <2>2, <2>4, <1>U DEF Child!BridgeEnd, Child!TypeOK
  <2>5. CASE ~(aborted \/ request # id) /\ ~req[id].recovery /\ req[id].stage # 3
    BY <1>G, <2>2, <2>5, <1>U, <1>H DEF Child!BridgeEnd
  <2> QED
    BY <2>3, <2>4, <2>5
<1>16. ASSUME NEW bad \in SUBSET Faults, Child!End(bad) PROVE Child!TypeOK' /\ OwnRequest'
  <2>1. own \in Child!Requests
    BY <1>16, <1>O DEF Child!End
  <2> QED
    BY <1>16, <2>1, <1>G, <1>T DEF Child!End, Child!TypeOK, Child!GuestSteps, OwnRequest
<1>17. ASSUME NEW bad \in SUBSET Faults, Child!Acknowledge(bad)
       PROVE  Child!TypeOK' /\ OwnRequest'
  <2>1. own \in Child!Requests
    BY <1>17, <1>O DEF Child!Acknowledge
  <2> QED
    BY <1>17, <2>1, <1>G, <1>T DEF Child!Acknowledge, Child!TypeOK, Child!GuestSteps, OwnRequest
<1>18. ASSUME NEW bad \in SUBSET Faults, Child!Recover(bad) PROVE Child!TypeOK' /\ OwnRequest'
  <2>1. faults' \in 0..MaxFaults
    BY <1>18, <1>T DEF Child!Recover
  <2>2. CASE aborted \/ request = 0
    BY <1>18, <2>1, <2>2 DEF Child!Recover, Child!TypeOK, Child!GuestSteps, OwnRequest
  <2>3. CASE ~aborted /\ request # 0 /\ (req[request].recovery \/ req[request].stage = 3)
    BY <1>18, <2>1, <2>3 DEF Child!Recover, Child!TypeOK, Child!GuestSteps, OwnRequest
  <2>4. CASE ~aborted /\ request # 0 /\ ~(req[request].recovery \/ req[request].stage = 3)
    <3>1. request \in Child!Requests /\ req[request] \in Child!Request
      BY <2>4, <1>R DEF Child!TypeOK
    <3>2. Child!RolledBack(req[request], bad) \in Child!Request
      BY <3>1, RolledBackIs
    <3>3. [Child!RolledBack(req[request], bad) EXCEPT !.recovery = TRUE] \in Child!Request
      BY <3>2 DEF Child!Request
    <3>4. Child!Answered([Child!RolledBack(req[request], bad) EXCEPT !.recovery = TRUE],
                         "clean") \in Child!Request
      BY <3>3, AnsweredIs
    <3>5. /\ req' \in [Child!Requests -> Child!Request] /\ childRequests' \subseteq Child!Requests
          /\ host' \in Child!Files
      BY <1>18, <2>4, <3>1, <3>4, <1>U, <1>H DEF Child!Recover
    <3> QED
      BY <1>18, <2>1, <2>4, <3>1, <3>5 DEF Child!Recover, Child!TypeOK, Child!GuestSteps,
         OwnRequest
  <2> QED
    BY <2>2, <2>3, <2>4
<1>19. ASSUME NEW p \in Paths, Child!Edit(p) PROVE Child!TypeOK' /\ OwnRequest'
  <2>1. edits' \in 0..MaxEdits /\ edits' \in Child!Contents
    BY <1>19, <1>F DEF Child!Edit, Child!TypeOK, Child!Contents
  <2>2. vfs' \in Child!Files
    BY <1>19, <2>1 DEF Child!Edit, Child!TypeOK, Child!Files
  <2> QED
    BY <1>19, <2>1, <2>2 DEF Child!Edit, Child!TypeOK, OwnRequest
<1>20. ASSUME NEW r \in Child!Requests, NEW bad \in SUBSET Faults,
              Child!UploadTimeout(r, bad)
       PROVE  Child!TypeOK' /\ OwnRequest'
  <2> DEFINE fired == [req[r] EXCEPT !.timer = "none"]
  <2>1. fired \in Child!Request /\ Child!Restored(fired, bad) \in Child!Request
    <3>1. fired \in Child!Request
      BY <1>R DEF Child!Request
    <3> QED
      BY <3>1, RestoredIs
  <2>2. faults' \in 0..MaxFaults
    BY <1>20, <1>T DEF Child!UploadTimeout
  <2>3. CASE Child!Uploading(r)
    <3>1. /\ req' \in [Child!Requests -> Child!Request] /\ childRequests' \subseteq Child!Requests
          /\ host' \in Child!Files
      BY <1>20, <2>1, <2>3, <1>U, <1>H DEF Child!UploadTimeout
    <3> QED
      BY <1>20, <2>2, <2>3, <3>1 DEF Child!UploadTimeout, Child!TypeOK, OwnRequest
  <2>4. CASE ~Child!Uploading(r)
    BY <1>20, <2>1, <2>2, <2>4 DEF Child!UploadTimeout, Child!TypeOK, OwnRequest
  <2> QED
    BY <2>3, <2>4
<1>21. ASSUME NEW r \in Child!Requests, NEW bad \in SUBSET Faults,
              Child!ExecutionTimeout(r, bad)
       PROVE  Child!TypeOK' /\ OwnRequest'
  <2> DEFINE fired == [req[r] EXCEPT !.timer = "none"]
  <2>1. fired \in Child!Request
    BY <1>R DEF Child!Request
  <2>2. faults' \in 0..MaxFaults
    BY <1>21, <1>T DEF Child!ExecutionTimeout
  <2>3. CASE Child!Running(r)
    <3>1. Child!Complete(r, fired, FALSE, bad)
      BY <1>21, <2>3 DEF Child!ExecutionTimeout
    <3> QED
      BY <1>21, <2>1, <2>2, <3>1, <1>D DEF Child!ExecutionTimeout, Child!TypeOK, OwnRequest
  <2>4. CASE ~Child!Running(r)
    BY <1>21, <2>1, <2>2, <2>4 DEF Child!ExecutionTimeout, Child!TypeOK, OwnRequest
  <2> QED
    BY <2>3, <2>4
<1>22. ASSUME NEW r \in Child!Requests, NEW p \in Paths, Child!ChildWrites(r, p)
       PROVE  Child!TypeOK' /\ OwnRequest'
  <2>1. -r \in Child!Contents
    BY <1>F DEF Child!Requests, Child!Contents
  <2>2. host' \in Child!Files
    BY <1>22, <2>1 DEF Child!ChildWrites, Child!TypeOK, Child!Files
  <2> QED
    BY <1>22, <2>2 DEF Child!ChildWrites, Child!TypeOK, OwnRequest
<1>23. ASSUME NEW r \in Child!Requests, NEW graceful \in BOOLEAN, NEW bad \in SUBSET Faults,
              Child!WorkerReports(r, graceful, bad)
       PROVE  Child!TypeOK' /\ OwnRequest'
  <2>1. faults' \in 0..MaxFaults
    BY <1>23, <1>T DEF Child!WorkerReports
  <2>2. CASE Child!Running(r)
    BY <1>23, <2>1, <2>2, <1>R, <1>D DEF Child!WorkerReports, Child!TypeOK, OwnRequest
  <2>3. CASE ~Child!Running(r)
    BY <1>23, <2>1, <2>3 DEF Child!WorkerReports, Child!TypeOK, OwnRequest
  <2> QED
    BY <2>2, <2>3
<1>24. ASSUME NEW bad \in SUBSET Faults,
              Child!Abort(bad) \/ Child!Dispose(bad) \/ Child!DisposeSettled(bad)
       PROVE  Child!TypeOK' /\ OwnRequest'
  <2>1. Child!Sweep(bad) /\ request' \in Child!Requests \cup {0}
        /\ disposal' \in {"none", "settling", "done"}
    BY <1>24 DEF Child!Abort, Child!Dispose, Child!DisposeSettled, Child!SweptRequest,
                 Child!TypeOK
  <2> QED
    BY <2>1, <1>E DEF Child!TypeOK, OwnRequest
<1>25. CASE UNCHANGED Child!vars
  BY <1>25 DEF Child!vars, Child!TypeOK, OwnRequest
<1> QED
  BY <1>1, <1>2, <1>3, <1>4, <1>5, <1>6, <1>7, <1>8, <1>9, <1>10, <1>11, <1>12, <1>13, <1>14,
     <1>15, <1>16, <1>17, <1>18, <1>19, <1>20, <1>21, <1>22, <1>23, <1>24, <1>25
     DEF Child!Next, Child!Guest, Child!Timers

\* A request that the bridge no longer tracks has nothing left to clean up.
CleanOutside ==
  \A r \in Child!Requests : r \notin childRequests => Child!CleanupComplete(req[r])
\* The request under way is tracked, and is there only before the abort.
Tracked == \A r \in Child!Requests :
  request = r /\ req[r].stage # 3 /\ ~req[r].recovery => r \in childRequests /\ ~aborted
\* An abort in which nothing throws cleans up everything, and disposal aborts twice.
Abortion == /\ faults = 0 /\ aborted => childRequests = {}
            /\ disposal # "none" => aborted
            /\ disposal = "done" => childRequests = {}
CleanupInv == CleanOutside /\ Tracked /\ Abortion

\* What a step does to a request leaves it tracked unless it is clean.
Tidies(r, q) == r \in childRequests \/ Child!CleanupComplete(q)
LEMMA TidyUpdate ==
  ASSUME Child!TypeOK, CleanOutside, NEW r \in Child!Requests, NEW q, Child!Update(r, q),
         Tidies(r, q)
  PROVE  CleanOutside'
  BY DEF Child!Update, Child!TypeOK, CleanOutside, Tidies

\* A step that starts no request and aborts nothing.
LEMMA NoAbortKeeps ==
  ASSUME Child!TypeOK, Abortion, UNCHANGED <<aborted, disposal>>, childRequests' \subseteq childRequests,
         faults' = 0 => faults = 0
  PROVE  Abortion'
  BY DEF Abortion

LEMMA CleanupInit == Child!Init => CleanupInv
  BY DEF Child!Init, CleanupInv, CleanOutside, Tracked, Abortion, Child!CleanupComplete,
         Child!Requests

LEMMA CleanupStep ==
  ASSUME MaxFaults \in {0, 1}, Child!TypeOK, OwnRequest, CleanupInv, [Child!Next]_(Child!vars)
  PROVE  CleanupInv'
<1> USE DEF Child!bridgeVars, Child!ownerVars, Child!guestVars, Child!boundVars, CleanupInv
<1>R. \A r \in Child!Requests : req[r] \in Child!Request
  BY DEF Child!TypeOK
<1>Q. ASSUME UNCHANGED <<req, childRequests, aborted, disposal, faults>>,
             request' \in {request, 0}
      PROVE  CleanupInv'
  BY <1>Q DEF CleanOutside, Tracked, Abortion, Child!Requests
<1>T. ASSUME NEW bad \in SUBSET Faults, Child!Throw(bad)
      PROVE  /\ faults' = 0 => faults = 0 /\ bad = {}
             /\ faults # 0 => bad = {}
  <2>1. Child!Cardinality(bad) \in Nat /\ faults \in 0..1
    BY BadFacts DEF Child!TypeOK
  <2>2. faults + Child!Cardinality(bad) <= 1 /\ faults' = faults + Child!Cardinality(bad)
    BY <1>T DEF Child!Throw
  <2>3. faults' = 0 => faults = 0 /\ Child!Cardinality(bad) = 0
    BY <2>1, <2>2
  <2>4. faults # 0 => Child!Cardinality(bad) = 0
    BY <2>1, <2>2
  <2> QED
    BY <2>3, <2>4, BadFacts
<1>U. ASSUME NEW r \in Child!Requests, NEW q, NEW bad \in SUBSET Faults, Child!Throw(bad),
             Child!Update(r, q), Tidies(r, q), UNCHANGED <<aborted, disposal>>,
             request' = 0 \/ (request' = request /\ (request = r => q.stage = 3 \/ q.recovery))
      PROVE  CleanupInv'
  <2>1. CleanOutside'
    BY <1>U, TidyUpdate
  <2>2. Tracked'
    BY <1>U DEF Child!Update, Tracked, Child!TypeOK, Child!Requests
  <2>3. childRequests' \subseteq childRequests
    BY <1>U DEF Child!Update
  <2> QED
    BY <1>U, <1>T, <2>1, <2>2, <2>3, NoAbortKeeps
<1>F. ASSUME NEW r \in Child!Requests, NEW q \in Child!Request, NEW bad \in SUBSET Faults, Child!Throw(bad),
             req' = [req EXCEPT ![r] = q], UNCHANGED <<request, childRequests, aborted, disposal>>,
             q.stage = req[r].stage, q.recovery = req[r].recovery,
             Child!CleanupComplete(req[r]) => Child!CleanupComplete(q)
      PROVE  CleanupInv'
  <2>1. CleanOutside'
    BY <1>F DEF CleanOutside, Child!TypeOK
  <2>2. Tracked'
    BY <1>F DEF Tracked, Child!TypeOK
  <2> QED
    BY <1>F, <1>T, <2>1, <2>2, NoAbortKeeps
<1>N. ASSUME NEW bad \in SUBSET Faults, Child!Throw(bad),
             UNCHANGED <<req, childRequests, aborted, disposal>>, request' \in {request, 0}
      PROVE  CleanupInv'
  <2>1. CleanOutside' /\ Tracked'
    BY <1>N DEF CleanOutside, Tracked, Child!Requests
  <2> QED
    BY <1>N, <1>T, <2>1, NoAbortKeeps
<1>C. ASSUME NEW r \in Child!Requests, NEW q \in Child!Request, NEW graceful \in BOOLEAN,
             NEW bad \in SUBSET Faults, Child!Throw(bad), r \in childRequests,
             UNCHANGED <<aborted, disposal>>, Child!Complete(r, q, graceful, bad)
      PROVE  CleanupInv'
  <2> DEFINE c == Child!Cleaned(q, bad)
             k == IF graceful THEN c ELSE Child!Restored(c, bad)
             z == [k EXCEPT !.stage = 3, !.graceful = graceful]
             a == Child!Answered(z, IF graceful THEN "clean" ELSE "error")
  <2>1. z \in Child!Request /\ z.stage = 3
    <3>1. k \in Child!Request
      BY CleanedIs, RestoredIs
    <3>2. 3 \in 0..3
      OBVIOUS
    <3> HIDE DEF k
    <3>3. z \in Child!Request
      BY <3>1, <3>2, Ended, Zenon
    <3>4. z.stage = 3
      BY <3>1 DEF Child!Request
    <3> QED
      BY <3>3, <3>4
  <2>2. Child!Update(r, a) /\ request' = request
    BY <1>C DEF Child!Complete
  <2>3. a.stage = 3
    <3> HIDE DEF z
    <3> QED
      BY <2>1, AnsweredIs
  <2> QED
    BY <1>C, <2>2, <2>3, <1>U DEF Tidies
<1>E. ASSUME NEW bad \in SUBSET Faults, Child!Sweep(bad), request' \in {0, Child!SweptRequest},
             disposal # disposal' => disposal' = "settling" \/ aborted
      PROVE  CleanupInv'
  <2>1. \A r \in Child!Requests :
          LET q == Child!Aborted(req[r], bad) IN
          q.stage = req[r].stage /\ q.recovery = req[r].recovery
    BY <1>R, AbortedIs
  <2>2. CleanOutside'
    BY <1>E DEF Child!Sweep, CleanOutside, Child!TypeOK
  <2>3. request' \notin childRequests \/ (request' \in Child!Requests => req[request'].stage = 3)
    BY <1>E DEF Child!SweptRequest, Child!TypeOK, Child!Requests
  <2>4. Tracked'
    <3> SUFFICES ASSUME NEW r \in Child!Requests, request' = r, req'[r].stage # 3, ~req'[r].recovery
                 PROVE  FALSE
      BY DEF Tracked
    <3>1. req[r].stage # 3 /\ ~req[r].recovery
      BY <1>E, <2>1 DEF Child!Sweep
    <3>2. request = r
      BY <1>E DEF Child!SweptRequest, Child!Requests
    <3>3. r \in childRequests
      BY <3>1, <3>2 DEF Tracked
    <3> QED
      BY <2>3, <3>1, <3>3
  <2>5. Abortion'
    <3>1. bad = {} => childRequests' = {}
      <4> SUFFICES ASSUME bad = {}, NEW r \in childRequests
                   PROVE  Child!CleanupComplete(Child!Aborted(req[r], bad))
        BY <1>E DEF Child!Sweep
      <4>1. req[r] \in Child!Request
        BY <1>R DEF Child!TypeOK
      <4> QED
        BY <4>1, AbortedIs DEF Child!CleanupComplete
    <3>2. aborted' /\ (childRequests = {} => childRequests' = {}) /\ Child!Throw(bad)
      BY <1>E DEF Child!Sweep
    <3>3. faults' = 0 => childRequests' = {}
      BY <3>1, <3>2, <1>T
    <3>4. disposal' = "done" => childRequests' = {}
      BY <1>E, <3>1, <3>2, <1>T DEF Abortion
    <3> QED
      BY <3>2, <3>3, <3>4 DEF Abortion
  <2> QED
    BY <2>2, <2>4, <2>5
<1>1. CASE Child!Prepare \/ Child!StartRefused \/ Child!RunReturns \/ Child!ReadError
  BY <1>1, <1>Q DEF Child!Prepare, Child!StartRefused, Child!RunReturns, Child!ReadError
<1>2. CASE Child!Import \/ Child!ImportFails \/ Child!Trap \/ Child!Boot \/ Child!Reimport
           \/ Child!ReimportFails
  BY <1>2, <1>Q DEF Child!Import, Child!ImportFails, Child!Trap, Child!Boot, Child!Reimport,
     Child!ReimportFails
<1>3. CASE Child!Start
  <2>1. nextRequestId \in Child!Requests
    BY <1>3, ChildFacts DEF Child!Start, Child!TypeOK, Child!Requests, Child!ChildAssumption
  <2>2. CleanOutside'
    BY <1>3, <2>1 DEF Child!Start, CleanOutside, Child!TypeOK
  <2>3. Tracked' /\ Abortion'
    BY <1>3, <2>1 DEF Child!Start, Tracked, Abortion, Child!TypeOK
  <2> QED
    BY <2>2, <2>3
<1>O. ASSUME Child!Uploading(own), guest = "uploading"
      PROVE  own \in childRequests /\ req[own] \in Child!Request /\ own \in Child!Requests
  BY <1>O, <1>R DEF OwnRequest, Child!Uploading, Tracked
<1>4. CASE Child!Write
  <2>1. CASE ~aborted /\ Child!Uploading(own)
    <3>1. own \in childRequests /\ req[own] \in Child!Request /\ own \in Child!Requests
      BY <1>4, <2>1, <1>O DEF Child!Write
    <3>2. CleanOutside'
      BY <1>4, <2>1, <3>1 DEF Child!Write, CleanOutside, Child!TypeOK
    <3>3. Tracked'
      BY <1>4, <2>1, <3>1 DEF Child!Write, Tracked, Child!TypeOK
    <3> QED
      BY <1>4, <3>2, <3>3 DEF Child!Write, Abortion
  <2>2. CASE ~(~aborted /\ Child!Uploading(own))
    BY <1>4, <2>2, <1>Q DEF Child!Write
  <2> QED
    BY <2>1, <2>2
<1>5. CASE Child!Run
  <2>1. own \in childRequests /\ req[own] \in Child!Request /\ own \in Child!Requests
    BY <1>5, <1>O DEF Child!Run
  <2>2. CleanOutside'
    BY <1>5, <2>1 DEF Child!Run, CleanOutside, Child!TypeOK
  <2>3. Tracked'
    BY <1>5, <2>1 DEF Child!Run, Tracked, Child!TypeOK
  <2> QED
    BY <1>5, <2>2, <2>3 DEF Child!Run, Abortion
<1>6. ASSUME NEW bad \in SUBSET Faults, Child!WriteAborts(bad) PROVE CleanupInv'
  <2>1. own \in childRequests /\ own \in Child!Requests
    BY <1>6, <1>O DEF Child!WriteAborts
  <2> QED
    BY <1>6, <2>1, <1>U DEF Child!WriteAborts, Tidies
<1>7. ASSUME NEW bad \in SUBSET Faults, Child!RunFails(bad) PROVE CleanupInv'
  <2>1. CASE ~aborted /\ Child!Uploading(own) /\ "clear" \notin bad
    <3>1. own \in childRequests /\ own \in Child!Requests
      BY <1>7, <2>1, <1>O DEF Child!RunFails
    <3> QED
      BY <1>7, <2>1, <3>1, <1>U DEF Child!RunFails, Tidies
  <2>2. CASE ~(~aborted /\ Child!Uploading(own) /\ "clear" \notin bad)
    BY <1>7, <2>2, <1>N DEF Child!RunFails
  <2> QED
    BY <2>1, <2>2
<1>G. ASSUME NEW bad \in SUBSET Faults, own \in Child!Requests, Child!BridgeEnd(own, bad),
             Child!Throw(bad), UNCHANGED <<aborted, disposal>>
      PROVE  CleanupInv'
  <2>1. CASE aborted \/ request # own
    BY <1>G, <2>1, <1>N DEF Child!BridgeEnd
  <2>2. CASE ~aborted /\ request = own /\ req[own].recovery
    BY <1>G, <2>2, <1>N DEF Child!BridgeEnd
  <2>3. CASE ~aborted /\ request = own /\ ~req[own].recovery /\ req[own].stage = 3
    <3>1. req[own] \in Child!Request
      BY <1>G, <1>R
    <3>2. Child!CleanupComplete(req[own]) => Child!CleanupComplete(Child!Cleaned(req[own], bad))
      BY <3>1 DEF Child!CleanupComplete, Child!Cleaned, Child!Request
    <3>3. Tidies(own, Child!Cleaned(req[own], bad))
      BY <1>G, <3>2 DEF Tidies, CleanOutside
    <3> QED
      BY <1>G, <2>3, <3>3, <1>U DEF Child!BridgeEnd
  <2>4. CASE ~aborted /\ request = own /\ ~req[own].recovery /\ req[own].stage # 3
    <3>1. own \in childRequests
      BY <1>G, <2>4 DEF Tracked
    <3> QED
      BY <1>G, <2>4, <3>1, <1>U DEF Child!BridgeEnd, Tidies
  <2> QED
    BY <2>1, <2>2, <2>3, <2>4
<1>8. ASSUME NEW bad \in SUBSET Faults, Child!End(bad) \/ Child!Acknowledge(bad)
      PROVE  CleanupInv'
  <2>1. own \in Child!Requests
    BY <1>8 DEF Child!End, Child!Acknowledge, OwnRequest
  <2> QED
    BY <1>8, <2>1, <1>G DEF Child!End, Child!Acknowledge
<1>9. ASSUME NEW bad \in SUBSET Faults, Child!Recover(bad) PROVE CleanupInv'
  <2>1. CASE aborted \/ request = 0
    BY <1>9, <2>1, <1>N DEF Child!Recover
  <2>2. CASE ~aborted /\ request # 0 /\ (req[request].recovery \/ req[request].stage = 3)
    BY <1>9, <2>2, <1>N DEF Child!Recover
  <2>3. CASE ~aborted /\ request # 0 /\ ~(req[request].recovery \/ req[request].stage = 3)
    <3>1. request \in Child!Requests /\ request \in childRequests
      BY <2>3 DEF Child!TypeOK, Tracked
    <3> DEFINE q == Child!RolledBack(req[request], bad)
               k == [q EXCEPT !.recovery = TRUE]
    <3>2. k \in Child!Request /\ k.recovery = TRUE
      <4>1. q \in Child!Request
        BY <3>1, <1>R, RolledBackIs
      <4> HIDE DEF q
      <4> QED
        BY <4>1 DEF Child!Request
    <3>3. Child!Answered(k, "clean").recovery = TRUE
      <4> HIDE DEF k
      <4> QED
        BY <3>2, AnsweredIs
    <3>4. Child!Update(request, Child!Answered(k, "clean"))
      BY <1>9, <2>3 DEF Child!Recover
    <3> HIDE DEF k
    <3> QED
      BY <1>9, <3>1, <3>3, <3>4, <1>U DEF Child!Recover, Tidies
  <2> QED
    BY <2>1, <2>2, <2>3
<1>10. ASSUME NEW p \in Paths, Child!Edit(p) PROVE CleanupInv'
  BY <1>10, <1>Q DEF Child!Edit
<1>11. ASSUME NEW r \in Child!Requests, NEW p \in Paths, Child!ChildWrites(r, p)
       PROVE  CleanupInv'
  BY <1>11, <1>Q DEF Child!ChildWrites
<1>12. ASSUME NEW r \in Child!Requests, NEW bad \in SUBSET Faults, Child!UploadTimeout(r, bad)
       PROVE  CleanupInv'
  <2> DEFINE fired == [req[r] EXCEPT !.timer = "none"]
  <2>1. /\ fired \in Child!Request /\ fired.stage = req[r].stage /\ fired.recovery = req[r].recovery
        /\ Child!CleanupComplete(req[r]) => Child!CleanupComplete(fired)
    BY <1>R DEF Child!Request, Child!CleanupComplete
  <2> HIDE DEF fired
  <2>2. CASE Child!Uploading(r)
    <3>1. r \in childRequests
      BY <2>2 DEF Tracked, Child!Uploading
    <3> QED
      BY <1>12, <2>2, <3>1, <1>U DEF Child!UploadTimeout, Tidies
  <2>3. CASE ~Child!Uploading(r)
    BY <1>12, <2>1, <2>3, <1>F DEF Child!UploadTimeout, fired
  <2> QED
    BY <2>2, <2>3
<1>13. ASSUME NEW r \in Child!Requests, NEW bad \in SUBSET Faults, Child!ExecutionTimeout(r, bad)
       PROVE  CleanupInv'
  <2> DEFINE fired == [req[r] EXCEPT !.timer = "none"]
  <2>1. /\ fired \in Child!Request /\ fired.stage = req[r].stage /\ fired.recovery = req[r].recovery
        /\ Child!CleanupComplete(req[r]) => Child!CleanupComplete(fired)
    BY <1>R DEF Child!Request, Child!CleanupComplete
  <2> HIDE DEF fired
  <2>2. CASE Child!Running(r)
    <3>1. r \in childRequests
      BY <2>2 DEF Tracked, Child!Running
    <3>2. Child!Complete(r, fired, FALSE, bad)
      BY <1>13, <2>2 DEF Child!ExecutionTimeout, fired
    <3> QED
      BY <1>13, <2>1, <3>1, <3>2, <1>C DEF Child!ExecutionTimeout
  <2>3. CASE ~Child!Running(r)
    BY <1>13, <2>1, <2>3, <1>F DEF Child!ExecutionTimeout, fired
  <2> QED
    BY <2>2, <2>3
<1>14. ASSUME NEW r \in Child!Requests, NEW graceful \in BOOLEAN, NEW bad \in SUBSET Faults,
              Child!WorkerReports(r, graceful, bad)
       PROVE  CleanupInv'
  <2>1. CASE Child!Running(r)
    <3>1. r \in childRequests /\ req[r] \in Child!Request
      BY <2>1, <1>R DEF Tracked, Child!Running
    <3> QED
      BY <1>14, <2>1, <3>1, <1>C DEF Child!WorkerReports
  <2>2. CASE ~Child!Running(r)
    BY <1>14, <2>2, <1>N DEF Child!WorkerReports
  <2> QED
    BY <2>1, <2>2
<1>15. ASSUME NEW bad \in SUBSET Faults,
              Child!Abort(bad) \/ Child!Dispose(bad) \/ Child!DisposeSettled(bad)
       PROVE  CleanupInv'
  <2>1. Child!Sweep(bad) /\ request' \in {0, Child!SweptRequest}
    BY <1>15 DEF Child!Abort, Child!Dispose, Child!DisposeSettled
  <2>2. disposal # disposal' => disposal' = "settling" \/ aborted
    BY <1>15 DEF Child!Abort, Child!Dispose, Child!DisposeSettled, Abortion
  <2> QED
    BY <2>1, <2>2, <1>E
<1>16. CASE UNCHANGED Child!vars
  BY <1>16, <1>Q DEF Child!vars
<1> QED
  BY <1>1, <1>2, <1>3, <1>4, <1>5, <1>6, <1>7, <1>8, <1>9, <1>10, <1>11, <1>12, <1>13, <1>14,
     <1>15, <1>16 DEF Child!Next, Child!Guest, Child!Timers

\* A step of the guest is one of the child's, or leaves it alone.
LEMMA StepOfChild == [Next]_vars => [Child!Next]_(Child!vars)
  BY DEF Next, vars, childVars, Child!vars, Child!bridgeVars, Child!ownerVars, Child!guestVars,
         Child!boundVars, ToolsStep, ShellStep, ChildStep, ResultsStep, MirrorStep

\* When one cleanup call at most throws, the bridge has nothing left to clean up once it is
\* disposed of, however many requests there were and whatever the guest, its instances,
\* timers and Workers did.
THEOREM DisposalCleans == MaxFaults \in {0, 1} /\ Spec => []DisposedClean
<1> SUFFICES ASSUME MaxFaults \in {0, 1} PROVE Spec => []DisposedClean
  OBVIOUS
<1> DEFINE I == Child!TypeOK /\ OwnRequest /\ CleanupInv
<1>1. Init => I
  BY ChildTypeInit, CleanupInit DEF Init
<1>2. I /\ [Next]_vars => I'
  BY ChildTypeStep, CleanupStep, StepOfChild
<1>3. I => DisposedClean
  BY DEF CleanupInv, CleanOutside, Abortion, DisposedClean, Child!DisposedClean
<1> QED
  BY <1>1, <1>2, <1>3, PTL DEF Spec

\* What follows holds while no cleanup call throws.  A request that was not handed out:
Fresh(q) == /\ q.stage = 0 /\ q.timer = "none" /\ q.worker = "none" /\ q.run = "none"
            /\ q.restore = "unneeded" /\ ~q.recovery /\ ~q.graceful
Unused == \A r \in Child!Requests : r >= nextRequestId => Fresh(req[r]) /\ r \notin childRequests

\* The one that the bridge tracks has a timer, and a Worker when it runs; the others are over.
Active(r) ==
  /\ request = r /\ ~req[r].recovery /\ ~req[r].graceful /\ req[r].restore = "unneeded"
  /\ \/ /\ req[r].stage = 1 /\ req[r].timer = "upload" /\ req[r].worker = "none"
        /\ req[r].run = "none"
     \/ /\ req[r].stage = 2 /\ req[r].timer = "execution" /\ req[r].worker = "live"
        /\ req[r].run = "pending"
Over(r) == /\ req[r].timer = "none" /\ req[r].worker = "none" /\ req[r].run # "pending"
           /\ req[r].restore # "owed"
           /\ req[r].graceful => req[r].stage = 3 /\ req[r].run # "error"
Activity == /\ \A r \in childRequests : Active(r)
            /\ \A r \in Child!Requests \ childRequests : Over(r)
UnderWay == \A r \in Child!Requests :
  request = r /\ req[r].stage # 3 /\ ~req[r].recovery => r \in childRequests /\ ~aborted

\* What the guest's step tells about its request.
OwnOnly == guest \notin {"idle", "prepared", "dead", "booted"} => request \in {0, own}
Steps ==
  /\ guest \in {"idle", "prepared", "reading", "importing", "ending", "failing",
                "reimporting", "acknowledging"} => childRequests = {}
  /\ guest = "uploading" /\ own \in childRequests => req[own].stage = 1
  /\ guest = "running" /\ own \in childRequests => req[own].stage = 2
  /\ guest = "reading" => req[own].run = "error"

\* No file holds an edit that is still to come.
Values == \A p \in Paths : vfs[p] <= edits /\ host[p] <= edits /\ base[p] <= edits
BaselineValues == \A r \in childRequests : \A p \in Paths : req[r].baseline[p] <= edits

\* Files without anything of a child that did not end gracefully.
Clean(files) == \A p \in Paths, r \in Child!Requests : files[p] = -r => req[r].graceful
HostClean == \A p \in Paths, r \in Child!Requests :
  host[p] = -r => req[r].graceful \/ (r \in childRequests /\ req[r].stage = 2)
BaselineClean == \A r \in childRequests : Clean(req[r].baseline)
VfsClean ==
  /\ guest \in Child!Serving \cup {"acknowledging"} => Clean(vfs)
  /\ guest = "booted" => \A p \in Paths, r \in Child!Requests :
       vfs[p] = -r => req[r].graceful \/ aborted \/ (request = r /\ req[r].stage \in {2, 3})

BridgeInv == Unused /\ Activity /\ UnderWay
ChildInv == /\ BridgeInv /\ OwnOnly /\ Steps /\ Values /\ BaselineValues /\ HostClean
            /\ BaselineClean /\ VfsClean /\ Child!GracefulDelivered

\* The bridge's step changes no request under way, or settles the one there is.
Quiet == /\ UNCHANGED <<host, req, childRequests, nextRequestId>>
         /\ request' # request => request' = 0 /\ childRequests = {}
Settles(r) ==
  /\ childRequests' = {} /\ nextRequestId' = nextRequestId
  /\ \A s \in Child!Requests : s # r => req'[s] = req[s]
  /\ LET q == req'[r] IN
     /\ q.timer = "none" /\ q.worker = "none" /\ q.run # "pending" /\ q.restore # "owed"
     /\ q.baseline = req[r].baseline
     /\ IF q.graceful THEN q.stage = 3 /\ q.run = "clean" /\ request' = r /\ UNCHANGED host
        ELSE host' = req[r].baseline
     /\ request' = 0 \/ (request' = r /\ (q.stage = 3 \/ q.recovery))
Settled == Quiet \/ \E r \in childRequests : Settles(r)

LEMMA ActiveFacts ==
  ASSUME Child!TypeOK, BridgeInv
  PROVE  /\ \A r \in childRequests : r \in Child!Requests /\ Active(r) /\ request = r
         /\ \A r \in childRequests : childRequests \ {r} = {}
         /\ \A r \in Child!Requests : r \notin childRequests => Over(r)
         /\ \A r \in Child!Requests : req[r] \in Child!Request
         /\ request = 0 => childRequests = {}
  BY DEF Child!TypeOK, BridgeInv, Activity, Active, Child!Requests

\* Rolling back, aborting, completing and recovering a request under way settle it.
LEMMA UpdateSettles ==
  ASSUME Child!TypeOK, BridgeInv, NEW r \in childRequests, NEW q \in Child!Request,
         Child!Update(r, q), q.timer = "none", q.worker = "none", q.run # "pending",
         q.restore # "owed", q.baseline = req[r].baseline, nextRequestId' = nextRequestId,
         IF q.graceful THEN q.stage = 3 /\ q.run = "clean" /\ request' = r /\ UNCHANGED host
         ELSE host' = req[r].baseline,
         request' = 0 \/ (request' = r /\ (q.stage = 3 \/ q.recovery))
  PROVE  Settles(r) /\ childRequests' = {} /\ req'[r] = q
<1>1. r \in Child!Requests /\ childRequests \ {r} = {}
  BY ActiveFacts
<1>2. Child!CleanupComplete(q)
  BY DEF Child!CleanupComplete
<1>3. req'[r] = q /\ \A s \in Child!Requests : s # r => req'[s] = req[s]
  BY <1>1 DEF Child!Update, Child!TypeOK
<1> QED
  BY <1>1, <1>2, <1>3 DEF Child!Update, Settles

LEMMA RestoresHost ==
  ASSUME NEW r \in childRequests, Active(r), Child!RestoreHost(r, {})
  PROVE  host' = req[r].baseline
  BY DEF Active, Child!RestoreHost, Child!Restores

LEMMA WriteAbortsSettles ==
  ASSUME Child!TypeOK, BridgeInv, Steps, Child!WriteAborts({}), own \in Child!Requests
  PROVE  Settles(own) /\ own \in childRequests /\ childRequests' = {}
<1>1. own \in childRequests /\ req[own] \in Child!Request /\ Active(own) /\ req[own].stage = 1
  BY ActiveFacts DEF Child!WriteAborts, Child!Uploading, BridgeInv, UnderWay, Steps
<1> DEFINE q == Child!RolledBack(req[own], {})
<1>2. /\ q \in Child!Request /\ q.timer = "none" /\ q.worker = "none" /\ q.restore = "done"
      /\ q.baseline = req[own].baseline /\ q.run = req[own].run /\ ~q.graceful
  BY <1>1, RolledBackIs DEF Active
<1>3. q.run # "pending"
  BY <1>1, <1>2 DEF Active
<1>4. /\ Child!Update(own, q) /\ host' = req[own].baseline /\ request' = 0
      /\ nextRequestId' = nextRequestId
  BY <1>1, RestoresHost DEF Child!WriteAborts
<1> HIDE DEF q
<1> QED
  BY <1>1, <1>2, <1>3, <1>4, UpdateSettles

LEMMA RunFailsSettles ==
  ASSUME Child!TypeOK, BridgeInv, OwnOnly, Steps, Child!RunFails({}), own \in Child!Requests
  PROVE  Settled /\ childRequests' = {}
<1>1. CASE ~aborted /\ Child!Uploading(own)
  <2>1. own \in childRequests /\ req[own] \in Child!Request /\ Active(own) /\ req[own].stage = 1
    BY <1>1, ActiveFacts DEF Child!Uploading, BridgeInv, UnderWay
  <2> DEFINE k == [req[own] EXCEPT !.stage = 2, !.run = "rejected"]
             q == Child!RolledBack(k, {})
  <2>2. /\ k \in Child!Request /\ k.run = "rejected" /\ ~k.graceful
        /\ k.baseline = req[own].baseline
    <3>1. 2 \in 0..3 /\ "rejected" \in {"none", "pending", "clean", "error", "rejected"}
      OBVIOUS
    <3>2. k \in Child!Request
      BY <2>1, <3>1, Rejected, Zenon
    <3> QED
      BY <2>1, <3>2 DEF Child!Request, Active
  <2>3. Child!Update(own, q) /\ host' = req[own].baseline /\ request' = 0
        /\ nextRequestId' = nextRequestId
    BY <1>1, <2>1, RestoresHost DEF Child!RunFails
  <2>4. /\ q \in Child!Request /\ q.timer = "none" /\ q.worker = "none" /\ q.restore = "done"
        /\ q.baseline = req[own].baseline /\ q.run = "rejected" /\ ~q.graceful
    <3> HIDE DEF k
    <3> QED
      BY <2>2, RolledBackIs
  <2> HIDE DEF q
  <2> QED
    BY <2>1, <2>3, <2>4, UpdateSettles DEF Settled
<1>2. CASE ~(~aborted /\ Child!Uploading(own))
  <2>1. own \notin childRequests
    BY <1>2, ActiveFacts DEF Child!RunFails, Steps, BridgeInv, UnderWay, Child!Uploading, Active
  <2>2. childRequests = {}
    BY <2>1, ActiveFacts DEF Child!RunFails, OwnOnly, Child!Requests
  <2> QED
    BY <1>2, <2>2 DEF Child!RunFails, Settled, Quiet
<1> QED
  BY <1>1, <1>2

\* The guest ends its request once it is over: nothing is left to do.
LEMMA EndSettles ==
  ASSUME Child!TypeOK, BridgeInv, childRequests = {}, Child!BridgeEnd(own, {}),
         own \in Child!Requests, nextRequestId' = nextRequestId
  PROVE  Quiet
<1>1. req[own] \in Child!Request /\ Over(own)
  BY ActiveFacts
<1>2. CASE aborted \/ request # own
  BY <1>2 DEF Child!BridgeEnd, Quiet
<1>3. CASE ~aborted /\ request = own /\ req[own].recovery
  BY <1>3 DEF Child!BridgeEnd, Quiet
<1>4. CASE ~aborted /\ request = own /\ ~req[own].recovery /\ req[own].stage = 3
  <2>1. Child!Cleaned(req[own], {}) = req[own]
    BY <1>1 DEF Over, Child!Cleaned, Child!Request
  <2>2. req' = [req EXCEPT ![own] = req[own]] /\ childRequests' = {} /\ host' = host /\ request' = 0
    BY <1>4, <2>1 DEF Child!BridgeEnd, Child!Update
  <2> QED
    BY <2>2 DEF Quiet, Child!TypeOK
<1>5. CASE ~aborted /\ request = own /\ ~req[own].recovery /\ req[own].stage # 3
  BY <1>5 DEF BridgeInv, UnderWay
<1> QED
  BY <1>2, <1>3, <1>4, <1>5

LEMMA RecoverSettles ==
  ASSUME Child!TypeOK, BridgeInv, Child!Recover({})
  PROVE  Settled /\ (guest' # "dead" => childRequests' = {})
<1>1. CASE aborted \/ request = 0
  BY <1>1, ActiveFacts DEF Child!Recover, Settled, Quiet
<1>2. CASE ~aborted /\ request # 0 /\ (req[request].recovery \/ req[request].stage = 3)
  <2>1. request \notin childRequests
    BY <1>2, ActiveFacts DEF Active
  <2>2. childRequests = {}
    BY <2>1, ActiveFacts
  <2> QED
    BY <1>2, <2>2 DEF Child!Recover, Settled, Quiet
<1>3. CASE ~aborted /\ request # 0 /\ ~(req[request].recovery \/ req[request].stage = 3)
  <2> DEFINE k == Child!RolledBack(req[request], {})
             z == [k EXCEPT !.recovery = TRUE]
             q == Child!Answered(z, "clean")
  <2>1. request \in childRequests /\ req[request] \in Child!Request /\ Active(request)
    BY <1>3, ActiveFacts DEF Child!TypeOK, BridgeInv, UnderWay
  <2>2. /\ k \in Child!Request /\ k.timer = "none" /\ k.worker = "none" /\ k.restore = "done"
        /\ k.baseline = req[request].baseline /\ ~k.graceful
    BY <2>1, RolledBackIs DEF Active
  <2>3. /\ z \in Child!Request /\ z.timer = "none" /\ z.worker = "none" /\ z.restore = "done"
        /\ z.baseline = req[request].baseline /\ ~z.graceful /\ z.recovery
    <3> HIDE DEF k
    <3> QED
      BY <2>2 DEF Child!Request
  <2>4. /\ q \in Child!Request /\ q.timer = "none" /\ q.worker = "none" /\ q.restore = "done"
        /\ q.baseline = req[request].baseline /\ ~q.graceful /\ q.recovery /\ q.run # "pending"
    <3> HIDE DEF z
    <3> QED
      BY <2>3, AnsweredIs
  <2>5. /\ Child!Update(request, q) /\ host' = req[request].baseline /\ request' = request
        /\ nextRequestId' = nextRequestId
    BY <1>3, <2>1, RestoresHost DEF Child!Recover
  <2> HIDE DEF q
  <2> QED
    BY <2>1, <2>4, <2>5, UpdateSettles DEF Settled
<1> QED
  BY <1>1, <1>2, <1>3

\* complete() of a request that runs.
LEMMA CompleteSettles ==
  ASSUME Child!TypeOK, BridgeInv, NEW r \in childRequests, NEW q \in Child!Request,
         NEW graceful \in BOOLEAN, Child!Complete(r, q, graceful, {}),
         q.baseline = req[r].baseline, q.restore = "unneeded", q.run = "pending",
         nextRequestId' = nextRequestId
  PROVE  Settles(r) /\ req'[r].stage = 3 /\ request' = r
<1> DEFINE c == Child!Cleaned(q, {})
           k == IF graceful THEN c ELSE Child!Restored(c, {})
           z == [k EXCEPT !.stage = 3, !.graceful = graceful]
           a == Child!Answered(z, IF graceful THEN "clean" ELSE "error")
<1>1. r \in Child!Requests /\ Active(r) /\ request = r
  BY ActiveFacts
<1>2. /\ c \in Child!Request /\ c.timer = "none" /\ c.worker = "none"
      /\ c.restore = "unneeded" /\ c.baseline = req[r].baseline /\ c.run = "pending"
  BY CleanedIs
<1>3. /\ k \in Child!Request /\ k.timer = "none" /\ k.worker = "none"
      /\ k.restore # "owed" /\ k.baseline = req[r].baseline /\ k.run = "pending"
  <2> HIDE DEF c
  <2> QED
    BY <1>2, RestoredIs
<1>4. /\ z \in Child!Request /\ z.timer = "none" /\ z.worker = "none" /\ z.restore # "owed"
      /\ z.baseline = req[r].baseline /\ z.run = "pending" /\ z.stage = 3
      /\ z.graceful = graceful
  <2> HIDE DEF k
  <2>1. 3 \in 0..3
    OBVIOUS
  <2>2. z \in Child!Request
    BY <1>3, <2>1, Ended, Zenon
  <2> QED
    BY <1>3, <2>2 DEF Child!Request
<1>5. /\ a \in Child!Request /\ a.timer = "none" /\ a.worker = "none" /\ a.restore # "owed"
      /\ a.baseline = req[r].baseline /\ a.run # "pending" /\ a.stage = 3
      /\ a.graceful = graceful /\ (graceful => a.run = "clean")
  <2> HIDE DEF z
  <2> QED
    BY <1>4, AnsweredIs
<1>6. Child!Update(r, a) /\ request' = r
  BY <1>1 DEF Child!Complete
<1>7. IF graceful THEN UNCHANGED host ELSE host' = req[r].baseline
  BY <1>1, RestoresHost DEF Child!Complete
<1> HIDE DEF a
<1> QED
  BY <1>5, <1>6, <1>7, UpdateSettles

LEMMA UploadTimeoutSettles ==
  ASSUME Child!TypeOK, BridgeInv, NEW r \in Child!Requests, Child!UploadTimeout(r, {})
  PROVE  r \in childRequests /\ Settles(r) /\ req[r].stage = 1
<1>1. r \in childRequests /\ req[r] \in Child!Request /\ Active(r) /\ req[r].stage = 1
  BY ActiveFacts DEF Child!UploadTimeout, Over, Active
<1> DEFINE k == [req[r] EXCEPT !.timer = "none"]
           q == Child!Restored(k, {})
<1>2. /\ k \in Child!Request /\ k.timer = "none" /\ k.worker = "none" /\ ~k.graceful
      /\ k.baseline = req[r].baseline /\ k.run # "pending"
  BY <1>1 DEF Child!Request, Active
<1>3. Child!Uploading(r)
  BY <1>1 DEF Child!Uploading, Active
<1>4. Child!Update(r, q) /\ host' = req[r].baseline /\ request' = 0 /\ nextRequestId' = nextRequestId
  BY <1>1, <1>3, RestoresHost DEF Child!UploadTimeout
<1>5. /\ q \in Child!Request /\ q.timer = "none" /\ q.worker = "none" /\ q.restore = "done"
      /\ q.baseline = req[r].baseline /\ ~q.graceful /\ q.run # "pending"
  <2> HIDE DEF k
  <2> QED
    BY <1>2, RestoredIs
<1> HIDE DEF q
<1> QED
  BY <1>1, <1>4, <1>5, UpdateSettles

LEMMA ExecutionTimeoutSettles ==
  ASSUME Child!TypeOK, BridgeInv, NEW r \in Child!Requests, Child!ExecutionTimeout(r, {})
  PROVE  r \in childRequests /\ Settles(r) /\ req'[r].stage = 3 /\ request' = r
<1>1. r \in childRequests /\ req[r] \in Child!Request /\ Active(r) /\ req[r].stage = 2
  BY ActiveFacts DEF Child!ExecutionTimeout, Over, Active
<1> DEFINE k == [req[r] EXCEPT !.timer = "none"]
<1>2. /\ k \in Child!Request /\ k.baseline = req[r].baseline /\ k.restore = "unneeded"
      /\ k.run = "pending"
  BY <1>1 DEF Child!Request, Active
<1>3. Child!Running(r)
  BY <1>1 DEF Child!Running, Active
<1>4. Child!Complete(r, k, FALSE, {}) /\ nextRequestId' = nextRequestId
  BY <1>3 DEF Child!ExecutionTimeout
<1> HIDE DEF k
<1> QED
  BY <1>1, <1>2, <1>4, CompleteSettles

LEMMA WorkerReportsSettles ==
  ASSUME Child!TypeOK, BridgeInv, NEW r \in Child!Requests, NEW graceful \in BOOLEAN,
         Child!WorkerReports(r, graceful, {})
  PROVE  r \in childRequests /\ Settles(r) /\ req'[r].stage = 3 /\ request' = r
<1>1. r \in childRequests /\ req[r] \in Child!Request /\ Active(r) /\ req[r].stage = 2
  BY ActiveFacts DEF Child!WorkerReports, Over, Active
<1>2. req[r].restore = "unneeded" /\ req[r].run = "pending" /\ Child!Running(r)
  BY <1>1 DEF Child!Running, Active
<1>3. Child!Complete(r, req[r], graceful, {}) /\ nextRequestId' = nextRequestId
  BY <1>2 DEF Child!WorkerReports
<1> QED
  BY <1>1, <1>2, <1>3, CompleteSettles

LEMMA SweepSettles ==
  ASSUME Child!TypeOK, BridgeInv, Child!Sweep({}), request' \in {0, Child!SweptRequest}
  PROVE  Settled /\ childRequests' = {} /\ aborted'
<1> DEFINE restoring == {r \in childRequests : Child!AbortRestores(req[r], {})}
<1>1. CASE childRequests = {}
  <2>1. req' = req /\ childRequests' = {} /\ host' = host
    BY <1>1 DEF Child!Sweep, Child!TypeOK
  <2> QED
    BY <1>1, <2>1 DEF Child!Sweep, Child!SweptRequest, Settled, Quiet
<1>2. CASE childRequests # {}
  <2>1. PICK r \in childRequests : TRUE
    BY <1>2
  <2>2. /\ r \in Child!Requests /\ childRequests = {r} /\ req[r] \in Child!Request
        /\ Active(r) /\ request = r
    BY <2>1, ActiveFacts
  <2> DEFINE q == Child!Aborted(req[r], {})
  <2>3. /\ q \in Child!Request /\ q.timer = "none" /\ q.worker = "none" /\ q.restore # "owed"
        /\ q.baseline = req[r].baseline /\ ~q.graceful /\ q.run # "pending"
    BY <2>2, AbortedIs DEF Active
  <2>4. req'[r] = q /\ \A s \in Child!Requests : s # r => req'[s] = req[s]
    BY <2>2 DEF Child!Sweep
  <2>5. childRequests' = {}
    BY <2>2, <2>3 DEF Child!Sweep, Child!CleanupComplete
  <2>6. host' = req[r].baseline
    <3>1. restoring = {r}
      BY <2>2 DEF Active, Child!AbortRestores, Child!Restores
    <3>2. host' = req[CHOOSE x \in restoring : \A s \in restoring : s <= x].baseline
      BY <3>1 DEF Child!Sweep
    <3>3. (CHOOSE x \in restoring : \A s \in restoring : s <= x) = r
      BY <3>1, <2>2, ChildFacts DEF Child!Requests, Child!ChildAssumption
    <3> QED
      BY <3>2, <3>3
  <2>7. request' = 0
    BY <2>2 DEF Child!SweptRequest, Active
  <2> HIDE DEF q
  <2> QED
    BY <2>1, <2>3, <2>4, <2>5, <2>6, <2>7 DEF Settled, Settles, Child!Sweep
<1> QED
  BY <1>1, <1>2

\* A settled request leaves the bridge, the host and what its requests keep in order.
LEMMA SettledKeeps ==
  ASSUME Child!TypeOK, BridgeInv, HostClean, BaselineClean, BaselineValues,
         \A p \in Paths : host[p] <= edits,
         Settled, aborted' = aborted \/ childRequests' = {}, UNCHANGED edits
  PROVE  /\ BridgeInv' /\ HostClean' /\ BaselineClean' /\ BaselineValues'
         /\ \A p \in Paths : host'[p] <= edits'
         /\ \A r \in Child!Requests : req[r].graceful => req'[r].graceful
         /\ request' \in {0, request}
<1>1. CASE Quiet
  BY <1>1 DEF Quiet, BridgeInv, Unused, Activity, UnderWay, Active, Over, Fresh, HostClean,
     BaselineClean, BaselineValues, Clean, Child!Requests
<1>2. ASSUME NEW r \in childRequests, Settles(r)
      PROVE  /\ BridgeInv' /\ HostClean' /\ BaselineClean' /\ BaselineValues'
             /\ \A p \in Paths : host'[p] <= edits'
             /\ \A s \in Child!Requests : req[s].graceful => req'[s].graceful
             /\ request' \in {0, request}
  <2>1. r \in Child!Requests /\ Active(r) /\ request = r /\ childRequests = {r}
    BY ActiveFacts
  <2>2. ~req[r].graceful /\ r < nextRequestId
    BY <2>1, ChildFacts DEF Active, BridgeInv, Unused, Child!TypeOK, Child!Requests,
       Child!ChildAssumption
  <2>3. Unused'
    BY <1>2, <2>1, <2>2 DEF Settles, BridgeInv, Unused, Fresh
  <2>4. Activity'
    BY <1>2, <2>1 DEF Settles, BridgeInv, Activity, Over
  <2>5. UnderWay'
    BY <1>2, <2>1 DEF Settles, UnderWay, Child!Requests
  <2>6. \A s \in Child!Requests : req[s].graceful => req'[s].graceful
    BY <1>2, <2>2 DEF Settles
  <2>7. HostClean'
    <3>1. CASE req'[r].graceful
      <4>1. host' = host
        BY <1>2, <3>1 DEF Settles
      <4> QED
        BY <2>1, <2>6, <3>1, <4>1 DEF HostClean
    <3>2. CASE ~req'[r].graceful
      <4>1. host' = req[r].baseline
        BY <1>2, <3>2 DEF Settles
      <4> QED
        BY <2>1, <2>6, <4>1 DEF HostClean, BaselineClean, Clean
    <3> QED
      BY <3>1, <3>2
  <2>8. \A p \in Paths : host'[p] <= edits'
    BY <1>2, <2>1 DEF Settles, BaselineValues
  <2>9. BaselineClean' /\ BaselineValues'
    BY <1>2 DEF Settles, BaselineClean, BaselineValues
  <2>10. request' \in {0, request}
    BY <1>2, <2>1 DEF Settles
  <2> QED
    BY <2>3, <2>4, <2>5, <2>6, <2>7, <2>8, <2>9, <2>10 DEF BridgeInv
<1> QED
  BY <1>1, <1>2 DEF Settled

\* A step that settles a request and leaves the guest where it is.
LEMMA SettledAside ==
  ASSUME Child!TypeOK, ChildInv, Settled, aborted' = aborted \/ (aborted' /\ childRequests' = {}),
         UNCHANGED <<edits, vfs, guest, own, base>>, Quiet => request' = request \/ aborted',
         \A r \in childRequests : Settles(r) =>
           req[r].stage = 1 \/ aborted' \/ (request' = r /\ req'[r].stage = 3)
  PROVE  ChildInv'
<1>1. /\ BridgeInv' /\ HostClean' /\ BaselineClean' /\ BaselineValues'
      /\ \A p \in Paths : host'[p] <= edits'
      /\ \A r \in Child!Requests : req[r].graceful => req'[r].graceful
      /\ request' \in {0, request}
  BY SettledKeeps DEF ChildInv, Values
<1>2. Values' /\ OwnOnly'
  BY <1>1 DEF ChildInv, Values, OwnOnly
<1>3. Steps'
  BY DEF ChildInv, Steps, Settled, Quiet, Settles
<1>4. VfsClean'
  <2>1. guest \in Child!Serving \cup {"acknowledging"} => Clean(vfs)'
    BY <1>1 DEF ChildInv, VfsClean, Clean
  <2>2. ASSUME guest = "booted", NEW p \in Paths, NEW r \in Child!Requests, vfs[p] = -r
        PROVE  req'[r].graceful \/ aborted' \/ (request' = r /\ req'[r].stage \in {2, 3})
    <3>1. req[r].graceful \/ aborted \/ (request = r /\ req[r].stage \in {2, 3})
      BY <2>2 DEF ChildInv, VfsClean
    <3>2. CASE req[r].graceful
      BY <1>1, <3>2
    <3>3. CASE Quiet
      <4>1. CASE request' = request /\ aborted' = aborted
        BY <3>1, <3>3, <4>1 DEF Quiet
      <4>2. CASE request' # request \/ aborted' # aborted
        BY <3>1, <3>3, <4>2 DEF Quiet
      <4> QED
        BY <4>1, <4>2
    <3>4. ASSUME NEW s \in childRequests, Settles(s)
          PROVE  req'[r].graceful \/ aborted' \/ (request' = r /\ req'[r].stage \in {2, 3})
      <4>1. Active(s) /\ request = s /\ ~aborted /\ req[s].stage # 3
        BY ActiveFacts DEF ChildInv, BridgeInv, UnderWay, Active
      <4> QED
        BY <1>1, <3>1, <3>4, <4>1
    <3> QED
      BY <3>2, <3>3, <3>4 DEF Settled
  <2> QED
    BY <2>1, <2>2 DEF VfsClean
<1>5. Child!GracefulDelivered'
  BY DEF ChildInv, Steps, Settled, Quiet, Child!GracefulDelivered
<1> QED
  BY <1>1, <1>2, <1>3, <1>4, <1>5 DEF ChildInv

\* A step that settles a request, if any, and takes the guest to a step where it has none.
LEMMA SettledBy ==
  ASSUME Child!TypeOK, ChildInv, Settled, childRequests' = {},
         UNCHANGED <<edits, vfs, base, aborted>>,
         guest' \in {"idle", "failing", "reimporting", "dead"},
         guest' \in {"failing", "reimporting"} => request' \in {0, own'},
         guest' \in {"idle", "failing"} => Clean(vfs)
  PROVE  ChildInv'
<1>1. /\ BridgeInv' /\ HostClean' /\ BaselineClean' /\ BaselineValues'
      /\ \A p \in Paths : host'[p] <= edits'
      /\ \A r \in Child!Requests : req[r].graceful => req'[r].graceful
  BY SettledKeeps DEF ChildInv, Values
<1>2. Values' /\ OwnOnly'
  BY <1>1 DEF ChildInv, Values, OwnOnly
<1>3. Steps'
  BY DEF Steps
<1>4. VfsClean'
  BY <1>1 DEF VfsClean, Clean, Child!Serving
<1>5. Child!GracefulDelivered'
  BY DEF Child!GracefulDelivered
<1> QED
  BY <1>1, <1>2, <1>3, <1>4, <1>5 DEF ChildInv

\* A step of the guest or its VFS that the bridge has no part in.
LEMMA GuestAlone ==
  ASSUME Child!TypeOK, ChildInv,
         UNCHANGED <<request, nextRequestId, req, childRequests, aborted>>,
         HostClean', OwnOnly', Steps', Values', VfsClean', Child!GracefulDelivered',
         edits' \in Int, edits <= edits', edits \in Int
  PROVE  ChildInv'
<1>1. BridgeInv'
  BY DEF ChildInv, BridgeInv, Unused, Activity, UnderWay, Active, Over, Fresh
<1>2. BaselineClean'
  BY DEF ChildInv, BaselineClean, Clean
<1>3. BaselineValues'
  <2> SUFFICES ASSUME NEW r \in childRequests, NEW p \in Paths
               PROVE  req[r].baseline[p] <= edits'
    BY DEF BaselineValues
  <2>1. req[r].baseline[p] \in Int /\ req[r].baseline[p] <= edits
    BY ActiveFacts, ChildFacts DEF ChildInv, BaselineValues, Child!TypeOK, Child!Request,
       Child!Files, Child!Contents, Child!ChildAssumption
  <2> QED
    BY <2>1
<1> QED
  BY <1>1, <1>2, <1>3 DEF ChildInv
LEMMA ChildInvInit == Child!Init => ChildInv
<1> SUFFICES ASSUME Child!Init PROVE ChildInv
  OBVIOUS
<1>1. MaxRequests \in Nat
  BY ChildFacts DEF Child!ChildAssumption
<1>2. BridgeInv
  BY DEF Child!Init, BridgeInv, Unused, Fresh, Activity, Over, UnderWay, Child!Requests
<1>3. OwnOnly /\ Steps /\ Values /\ BaselineValues /\ BaselineClean
  BY DEF Child!Init, Child!AsFound, OwnOnly, Steps, Values, BaselineValues, BaselineClean
<1>4. HostClean /\ VfsClean
  BY <1>1 DEF Child!Init, Child!AsFound, HostClean, VfsClean, Clean, Child!Requests
<1>5. Child!GracefulDelivered
  BY DEF Child!Init, Child!GracefulDelivered
<1> QED
  BY <1>2, <1>3, <1>4, <1>5 DEF ChildInv

LEMMA ChildInvStep ==
  ASSUME MaxFaults = 0, Child!TypeOK, OwnRequest, ChildInv, [Child!Next]_(Child!vars)
  PROVE  ChildInv'
<1> USE DEF Child!bridgeVars, Child!ownerVars, Child!guestVars, Child!boundVars
<1>R. \A r \in Child!Requests : req[r] \in Child!Request
  BY DEF Child!TypeOK
<1>E. edits \in Int
  BY DEF Child!TypeOK
<1>F. \A p \in Paths : vfs[p] \in Int /\ host[p] \in Int /\ base[p] \in Int
  BY ChildFacts DEF Child!TypeOK, Child!Files, Child!Contents, Child!ChildAssumption
<1>N. \A r \in Child!Requests : r \in Nat /\ r # 0 /\ -r \in Int /\ -r < 0
  BY ChildFacts DEF Child!Requests, Child!ChildAssumption
<1>I. /\ BridgeInv /\ OwnOnly /\ Steps /\ Values /\ BaselineValues /\ HostClean
      /\ BaselineClean /\ VfsClean /\ Child!GracefulDelivered
  BY DEF ChildInv
<1>T. ASSUME NEW bad \in SUBSET Faults, Child!Throw(bad) PROVE bad = {}
  <2>1. Child!Cardinality(bad) \in Nat /\ faults \in 0..0
    BY BadFacts DEF Child!TypeOK
  <2> QED
    BY <1>T, <2>1, BadFacts DEF Child!Throw
<1>C. childRequests = {} => Clean(host)
  BY <1>I DEF HostClean, Clean
<1>1. CASE Child!Prepare
  <2>1. childRequests = {} /\ Clean(host)' /\ Clean(vfs)'
    BY <1>1, <1>I DEF Child!Prepare, Steps, VfsClean, Child!Serving, Child!GuestSteps, Clean
  <2>2. HostClean' /\ OwnOnly' /\ Steps' /\ Values' /\ VfsClean' /\ Child!GracefulDelivered'
    BY <1>1, <1>I, <2>1 DEF Child!Prepare, HostClean, Clean, OwnOnly, Steps, Values, VfsClean,
       Child!GracefulDelivered
  <2> QED
    BY <1>1, <1>E, <2>2, GuestAlone DEF Child!Prepare
<1>2. CASE Child!Start
  <2> DEFINE r == nextRequestId
  <2>1. r \in Child!Requests /\ r + 1 \in Nat /\ childRequests = {} /\ Fresh(req[r]) /\ ~aborted
    BY <1>2, <1>I, ChildFacts DEF Child!Start, Child!TypeOK, Child!Requests, Child!ChildAssumption,
       Steps, BridgeInv, Unused
  <2>2. /\ req'[r].stage = 1 /\ req'[r].timer = "upload" /\ req'[r].worker = "none"
        /\ req'[r].run = "none" /\ req'[r].restore = "unneeded" /\ ~req'[r].recovery
        /\ ~req'[r].graceful /\ req'[r].baseline = host
    BY <1>2, <1>R, <2>1 DEF Child!Start, Child!TypeOK, Child!Request, Fresh
  <2>3. /\ \A s \in Child!Requests : s # r => req'[s] = req[s]
        /\ childRequests' = {r} /\ request' = r /\ own' = r /\ nextRequestId' = r + 1
        /\ guest' = "uploading" /\ UNCHANGED <<vfs, host, base, aborted, edits>>
    BY <1>2, <2>1 DEF Child!Start, Child!TypeOK
  <2>4. Unused'
    BY <1>I, <1>N, <2>1, <2>3 DEF BridgeInv, Unused, Fresh
  <2>5. Activity'
    BY <1>I, <2>1, <2>2, <2>3 DEF BridgeInv, Activity, Active, Over
  <2>6. UnderWay' /\ OwnOnly' /\ Steps'
    BY <2>1, <2>2, <2>3 DEF UnderWay, OwnOnly, Steps
  <2>7. Values' /\ BaselineValues'
    BY <1>I, <2>2, <2>3 DEF Values, BaselineValues
  <2>8. HostClean' /\ BaselineClean' /\ VfsClean'
    <3>1. \A s \in Child!Requests : req'[s].graceful <=> req[s].graceful
      BY <2>1, <2>2, <2>3 DEF Fresh
    <3>2. HostClean' /\ BaselineClean'
      BY <1>C, <2>1, <2>2, <2>3, <3>1 DEF HostClean, BaselineClean, Clean
    <3>3. Clean(vfs)
      BY <1>2, <1>I DEF Child!Start, VfsClean, Child!Serving, Child!GuestSteps
    <3> QED
      BY <2>3, <3>1, <3>2, <3>3 DEF VfsClean, Clean
  <2>9. Child!GracefulDelivered'
    BY <2>3 DEF Child!GracefulDelivered
  <2> QED
    BY <2>4, <2>5, <2>6, <2>7, <2>8, <2>9 DEF ChildInv, BridgeInv
<1>3. CASE Child!StartRefused
  <2>1. HostClean' /\ OwnOnly' /\ Steps' /\ Values' /\ VfsClean' /\ Child!GracefulDelivered'
    BY <1>3, <1>I DEF Child!StartRefused, HostClean, Clean, OwnOnly, Steps, Values, VfsClean,
       Child!GracefulDelivered, Child!Serving, Child!GuestSteps
  <2> QED
    BY <1>3, <1>E, <2>1, GuestAlone DEF Child!StartRefused
<1>4. CASE Child!Write
  <2>1. own \in Child!Requests /\ req[own] \in Child!Request /\ guest = "uploading"
    BY <1>4, <1>R DEF Child!Write, OwnRequest
  <2>2. CASE ~aborted /\ Child!Uploading(own)
    <3>1. own \in childRequests /\ req[own].stage = 1 /\ req[own].timer = "upload" /\ Active(own)
      BY <1>I, <2>1, <2>2, ActiveFacts DEF Child!Uploading, BridgeInv, UnderWay, Active
    <3>2. /\ req'[own].stage = req[own].stage /\ req'[own].timer = "upload"
          /\ req'[own].worker = req[own].worker /\ req'[own].baseline = req[own].baseline
          /\ req'[own].restore = req[own].restore /\ req'[own].recovery = req[own].recovery
          /\ req'[own].graceful = req[own].graceful /\ req'[own].run = req[own].run
      BY <1>4, <2>1, <2>2 DEF Child!Write, Child!TypeOK, Child!Request
    <3>3. /\ \A s \in Child!Requests : s # own => req'[s] = req[s]
          /\ UNCHANGED <<vfs, host, request, nextRequestId, childRequests, aborted, own, base,
                         edits, guest>>
      BY <1>4, <2>2 DEF Child!Write, Child!TypeOK
    <3>4. /\ \A s \in Child!Requests :
               /\ req'[s].stage = req[s].stage /\ req'[s].timer = req[s].timer
               /\ req'[s].worker = req[s].worker /\ req'[s].baseline = req[s].baseline
               /\ req'[s].restore = req[s].restore /\ req'[s].recovery = req[s].recovery
               /\ req'[s].graceful = req[s].graceful /\ req'[s].run = req[s].run
      BY <3>1, <3>2, <3>3
    <3>5. childRequests \subseteq Child!Requests
      BY DEF Child!TypeOK
    <3>6. BridgeInv'
      BY <1>I, <3>3, <3>4, <3>5 DEF BridgeInv, Unused, Fresh, Activity, Active, Over, UnderWay
    <3>7. OwnOnly' /\ Steps' /\ Values' /\ BaselineValues'
      BY <1>I, <2>1, <3>3, <3>4, <3>5 DEF OwnOnly, Steps, Values, BaselineValues
    <3>8. HostClean' /\ BaselineClean' /\ VfsClean'
      BY <1>I, <2>1, <3>3, <3>4, <3>5 DEF HostClean, BaselineClean, VfsClean, Clean
    <3>9. Child!GracefulDelivered'
      BY <2>1, <3>3 DEF Child!GracefulDelivered
    <3> QED
      BY <3>6, <3>7, <3>8, <3>9 DEF ChildInv
  <2>3. CASE ~(~aborted /\ Child!Uploading(own))
    <3>1. own \notin childRequests
      BY <1>I, <2>1, <2>3, ActiveFacts DEF Child!Uploading, BridgeInv, UnderWay, Active, Steps
    <3>2. childRequests = {}
      BY <1>I, <2>1, <3>1, ActiveFacts DEF OwnOnly, Child!Requests
    <3>3. HostClean' /\ OwnOnly' /\ Steps' /\ Values' /\ VfsClean' /\ Child!GracefulDelivered'
      BY <1>4, <1>I, <2>1, <2>3, <3>2 DEF Child!Write, HostClean, Clean, OwnOnly, Steps, Values,
         VfsClean, Child!GracefulDelivered, Child!Serving, Child!GuestSteps
    <3> QED
      BY <1>4, <1>E, <2>3, <3>3, GuestAlone DEF Child!Write
  <2> QED
    BY <2>2, <2>3
<1>5. CASE Child!Run
  <2>1. own \in Child!Requests /\ req[own] \in Child!Request /\ guest = "uploading"
    BY <1>5, <1>R DEF Child!Run, OwnRequest
  <2>2. own \in childRequests /\ req[own].stage = 1 /\ Active(own) /\ childRequests = {own} /\ request = own
    BY <1>5, <1>I, <2>1, ActiveFacts DEF Child!Run, Child!Uploading, BridgeInv, UnderWay
  <2>3. /\ req'[own].stage = 2 /\ req'[own].timer = "execution"
        /\ req'[own].worker = "live" /\ req'[own].baseline = req[own].baseline
        /\ req'[own].restore = req[own].restore /\ req'[own].recovery = req[own].recovery
        /\ req'[own].graceful = req[own].graceful /\ req'[own].run = "pending"
    BY <1>5, <2>1 DEF Child!Run, Child!TypeOK, Child!Request
  <2>4. /\ \A s \in Child!Requests : s # own => req'[s] = req[s]
        /\ UNCHANGED <<vfs, host, request, nextRequestId, childRequests, aborted, own, base, edits>>
        /\ guest' = "running"
    BY <1>5 DEF Child!Run, Child!TypeOK
  <2>5. \A s \in Child!Requests :
          req'[s].graceful = req[s].graceful /\ req'[s].baseline = req[s].baseline
    BY <2>3, <2>4
  <2>6. Unused' /\ Activity' /\ UnderWay'
    BY <1>I, <2>2, <2>3, <2>4 DEF BridgeInv, Unused, Fresh, Activity, Active, Over, UnderWay
  <2>7. OwnOnly' /\ Steps' /\ Values' /\ BaselineValues'
    BY <1>I, <2>2, <2>3, <2>4 DEF OwnOnly, Steps, Values, BaselineValues
  <2>8. HostClean' /\ BaselineClean' /\ VfsClean'
    <3>1. HostClean' /\ BaselineClean'
      BY <1>I, <2>1, <2>2, <2>3, <2>4, <2>5 DEF HostClean, BaselineClean, Clean
    <3>2. Clean(vfs)
      BY <1>I, <2>1 DEF VfsClean, Child!Serving, Child!GuestSteps
    <3> QED
      BY <2>4, <2>5, <3>1, <3>2 DEF VfsClean, Clean
  <2>9. Child!GracefulDelivered'
    BY <2>4 DEF Child!GracefulDelivered
  <2> QED
    BY <2>6, <2>7, <2>8, <2>9 DEF ChildInv, BridgeInv
<1>6. CASE Child!RunReturns
  <2>1. own \in Child!Requests /\ childRequests = {}
    <3>1. own \in Child!Requests /\ guest = "running" /\ req[own].run # "pending"
      BY <1>6 DEF Child!RunReturns, OwnRequest
    <3>2. own \notin childRequests
      BY <1>I, <3>1, ActiveFacts DEF Steps, Active
    <3> QED
      BY <1>I, <3>1, <3>2, ActiveFacts DEF OwnOnly, Child!Requests
  <2>2. HostClean' /\ OwnOnly' /\ Steps' /\ Values' /\ VfsClean' /\ Child!GracefulDelivered'
    BY <1>6, <1>I, <2>1 DEF Child!RunReturns, HostClean, Clean, OwnOnly, Steps, Values,
       VfsClean, Child!GracefulDelivered, Child!Serving, Child!GuestSteps
  <2> QED
    BY <1>6, <1>E, <2>2, GuestAlone DEF Child!RunReturns
<1>7. CASE Child!ReadError
  <2>1. own \in Child!Requests /\ childRequests = {} /\ req[own].run = "error"
    BY <1>7, <1>I DEF Child!ReadError, OwnRequest, Steps
  <2>2. ~req[own].graceful
    BY <1>I, <2>1 DEF BridgeInv, Activity, Over
  <2>3. HostClean' /\ OwnOnly' /\ Steps' /\ Values' /\ VfsClean' /\ Child!GracefulDelivered'
    BY <1>7, <1>I, <2>1, <2>2 DEF Child!ReadError, HostClean, Clean, OwnOnly, Steps, Values,
       VfsClean, Child!GracefulDelivered, Child!Serving, Child!GuestSteps
  <2> QED
    BY <1>7, <1>E, <2>3, GuestAlone DEF Child!ReadError
<1>8. CASE Child!Import
  <2>1. own \in Child!Requests /\ childRequests = {} /\ Clean(host) /\ Clean(vfs)
    BY <1>8, <1>I, <1>C DEF Child!Import, OwnRequest, Steps, VfsClean, Child!Serving,
       Child!GuestSteps
  <2>2. \A p \in Paths : vfs'[p] = IF host[p] # base[p] /\ vfs[p] = base[p] THEN host[p] ELSE vfs[p]
    BY <1>8 DEF Child!Import, Child!Reconciled
  <2>3. UNCHANGED <<host, request, nextRequestId, req, childRequests, aborted, own, base, edits>>
        /\ guest' = "ending"
    BY <1>8 DEF Child!Import
  <2>4. VfsClean' /\ HostClean'
    BY <1>I, <2>1, <2>2, <2>3 DEF HostClean, VfsClean, Clean
  <2>5. Child!GracefulDelivered'
    BY <2>2, <2>3 DEF Child!GracefulDelivered
  <2>6. OwnOnly' /\ Steps' /\ Values'
    BY <1>8, <1>I, <2>1, <2>2, <2>3 DEF Child!Import, OwnOnly, Steps, Values
  <2> QED
    BY <1>E, <2>3, <2>4, <2>5, <2>6, GuestAlone
<1>9. CASE Child!ImportFails \/ Child!Trap \/ Child!ReimportFails
  <2>1. HostClean' /\ OwnOnly' /\ Steps' /\ Values' /\ VfsClean' /\ Child!GracefulDelivered'
    BY <1>9, <1>I DEF Child!ImportFails, Child!Trap, Child!ReimportFails, HostClean, Clean,
       OwnOnly, Steps, Values, VfsClean, Child!GracefulDelivered, Child!Serving, Child!GuestSteps
  <2> QED
    BY <1>9, <1>E, <2>1, GuestAlone DEF Child!ImportFails, Child!Trap, Child!ReimportFails
<1>10. CASE Child!Boot
  <2>1. UNCHANGED <<host, request, nextRequestId, req, childRequests, aborted, own, base, edits>>
        /\ guest' = "booted" /\ (vfs' = host \/ vfs' = Child!AsFound)
    BY <1>10 DEF Child!Boot
  <2>2. \A p \in Paths, r \in Child!Requests : vfs'[p] = -r => host[p] = -r
    BY <1>N, <2>1 DEF Child!AsFound
  <2>3. \A r \in childRequests : request = r
    BY <1>I, ActiveFacts
  <2>4. VfsClean' /\ HostClean'
    BY <1>I, <2>1, <2>2, <2>3 DEF VfsClean, HostClean, Clean, Child!Serving
  <2>5. Values'
    <3>1. 0 <= edits
      BY DEF Child!TypeOK
    <3> QED
      BY <1>I, <2>1, <3>1 DEF Values, Child!AsFound
  <2>6. OwnOnly' /\ Steps' /\ Child!GracefulDelivered'
    BY <1>10, <1>I, <2>1 DEF Child!Boot, OwnOnly, Steps, Child!GracefulDelivered
  <2> QED
    BY <1>E, <2>1, <2>4, <2>5, <2>6, GuestAlone
<1>11. CASE Child!Reimport
  <2>1. childRequests = {} /\ Clean(host)
    BY <1>11, <1>I, <1>C DEF Child!Reimport, Steps
  <2>2. HostClean' /\ OwnOnly' /\ Steps' /\ Values' /\ VfsClean' /\ Child!GracefulDelivered'
    BY <1>11, <1>I, <2>1 DEF Child!Reimport, HostClean, Clean, OwnOnly, Steps, Values,
       VfsClean, Child!GracefulDelivered
  <2> QED
    BY <1>11, <1>E, <2>2, GuestAlone DEF Child!Reimport
<1>12. ASSUME NEW bad \in SUBSET Faults, Child!WriteAborts(bad) PROVE ChildInv'
  <2>1. bad = {} /\ own \in Child!Requests
    BY <1>12, <1>T DEF Child!WriteAborts, OwnRequest
  <2>2. Settles(own) /\ own \in childRequests /\ childRequests' = {}
    BY <1>12, <1>I, <2>1, WriteAbortsSettles
  <2>3. Clean(vfs)
    BY <1>12, <1>I DEF Child!WriteAborts, VfsClean, Child!Serving, Child!GuestSteps
  <2> QED
    BY <1>12, <2>2, <2>3, SettledBy DEF Child!WriteAborts, Settled
<1>13. ASSUME NEW bad \in SUBSET Faults, Child!RunFails(bad) PROVE ChildInv'
  <2>1. bad = {} /\ own \in Child!Requests
    BY <1>13, <1>T DEF Child!RunFails, OwnRequest
  <2>2. Settled /\ childRequests' = {}
    BY <1>13, <1>I, <2>1, RunFailsSettles
  <2>3. Clean(vfs) /\ request' \in {0, own}
    BY <1>13, <1>I DEF Child!RunFails, VfsClean, Child!Serving, Child!GuestSteps, OwnOnly
  <2> QED
    BY <1>13, <2>2, <2>3, SettledBy DEF Child!RunFails
<1>14. ASSUME NEW bad \in SUBSET Faults, Child!End(bad) PROVE ChildInv'
  <2>1. bad = {} /\ own \in Child!Requests /\ childRequests = {}
    BY <1>14, <1>T, <1>I DEF Child!End, OwnRequest, Steps
  <2>2. Quiet
    BY <1>14, <1>I, <2>1, EndSettles DEF Child!End
  <2>3. Clean(vfs)
    BY <1>14, <1>I DEF Child!End, VfsClean, Child!Serving, Child!GuestSteps
  <2> QED
    BY <1>14, <2>1, <2>2, <2>3, SettledBy DEF Child!End, Settled, Quiet
<1>15. ASSUME NEW bad \in SUBSET Faults, Child!Acknowledge(bad) PROVE ChildInv'
  <2>1. bad = {} /\ own \in Child!Requests /\ childRequests = {}
    BY <1>15, <1>T, <1>I DEF Child!Acknowledge, OwnRequest, Steps
  <2>2. Quiet
    BY <1>15, <1>I, <2>1, EndSettles DEF Child!Acknowledge
  <2>3. Clean(vfs)
    BY <1>15, <1>I DEF Child!Acknowledge, VfsClean
  <2>4. guest' \in {"idle", "dead"} /\ UNCHANGED <<edits, vfs, base, aborted>>
    BY <1>15 DEF Child!Acknowledge
  <2> QED
    BY <2>1, <2>2, <2>3, <2>4, SettledBy DEF Settled, Quiet
<1>16. ASSUME NEW bad \in SUBSET Faults, Child!Recover(bad) PROVE ChildInv'
  <2>1. bad = {} /\ guest = "booted"
    BY <1>16, <1>T DEF Child!Recover
  <2>2. Settled /\ (guest' # "dead" => childRequests' = {})
    BY <1>16, <1>I, <2>1, RecoverSettles
  <2>3. UNCHANGED <<edits, vfs, base, aborted, request>>
    BY <1>16 DEF Child!Recover
  <2>4. CASE aborted
    <3>1. guest' = "dead" /\ UNCHANGED <<host, request, nextRequestId, req, childRequests, own>>
      BY <1>16, <2>4 DEF Child!Recover
    <3>2. HostClean' /\ OwnOnly' /\ Steps' /\ Values' /\ VfsClean' /\ Child!GracefulDelivered'
      BY <1>I, <2>3, <3>1 DEF HostClean, Clean, OwnOnly, Steps, Values, VfsClean,
         Child!GracefulDelivered, Child!Serving
    <3> QED
      BY <1>E, <2>3, <3>1, <3>2, GuestAlone
  <2>5. CASE ~aborted /\ request = 0
    <3>1. guest' = "idle"
      BY <1>16, <2>5 DEF Child!Recover
    <3>2. Clean(vfs)
      BY <1>I, <1>N, <2>1, <2>5 DEF VfsClean, Clean
    <3> QED
      BY <2>2, <2>3, <3>1, <3>2, SettledBy
  <2>6. CASE ~aborted /\ request # 0
    <3>1. guest' = "reimporting" /\ own' = request
      BY <1>16, <2>6 DEF Child!Recover
    <3> QED
      BY <2>2, <2>3, <3>1, SettledBy
  <2> QED
    BY <2>4, <2>5, <2>6
<1>17. ASSUME NEW p \in Paths, Child!Edit(p) PROVE ChildInv'
  <2>1. /\ edits' = edits + 1 /\ vfs' = [vfs EXCEPT ![p] = edits + 1] /\ guest \in Child!Serving
        /\ UNCHANGED <<host, request, nextRequestId, req, childRequests, aborted, guest, own, base>>
    BY <1>17 DEF Child!Edit
  <2>2. edits \in Nat
    BY DEF Child!TypeOK
  <2>3. \A q \in Paths : vfs'[q] = IF q = p THEN edits + 1 ELSE vfs[q]
    BY <2>1 DEF Child!TypeOK, Child!Files
  <2>4. VfsClean' /\ HostClean'
    <3>1. HostClean'
      BY <1>I, <2>1 DEF HostClean
    <3>2. Clean(vfs)
      BY <1>I, <2>1 DEF VfsClean
    <3>3. Clean(vfs')
      BY <1>N, <2>2, <2>3, <3>2 DEF Clean
    <3>4. guest' # "booted"
      BY <2>1 DEF Child!Serving
    <3> QED
      BY <2>1, <3>1, <3>3, <3>4 DEF VfsClean, Clean
  <2>5. Values'
    BY <1>I, <1>F, <2>1, <2>2, <2>3 DEF Values
  <2>6. Child!GracefulDelivered'
    <3>1. base[p] # edits + 1
      BY <1>I, <1>F, <2>2 DEF Values
    <3> QED
      BY <1>I, <2>1, <2>3, <3>1 DEF Child!GracefulDelivered
  <2>7. OwnOnly' /\ Steps'
    BY <1>I, <2>1 DEF OwnOnly, Steps
  <2>8. edits' \in Int /\ edits <= edits'
    BY <2>1, <2>2
  <2> QED
    BY <1>E, <2>1, <2>4, <2>5, <2>6, <2>7, <2>8, GuestAlone
<1>18. ASSUME NEW r \in Child!Requests, NEW bad \in SUBSET Faults, Child!UploadTimeout(r, bad)
       PROVE  ChildInv'
  <2>1. Child!UploadTimeout(r, {})
    BY <1>18, <1>T DEF Child!UploadTimeout
  <2>2. r \in childRequests /\ Settles(r) /\ req[r].stage = 1 /\ childRequests = {r}
    BY <1>I, <2>1, UploadTimeoutSettles, ActiveFacts
  <2>3. UNCHANGED <<edits, vfs, guest, own, base, aborted>>
    BY <2>1 DEF Child!UploadTimeout
  <2>4. ~Quiet
    BY <2>2 DEF Quiet, Settles
  <2> QED
    BY <2>2, <2>3, <2>4, SettledAside DEF Settled
<1>19. ASSUME NEW r \in Child!Requests, NEW bad \in SUBSET Faults, Child!ExecutionTimeout(r, bad)
       PROVE  ChildInv'
  <2>1. Child!ExecutionTimeout(r, {})
    BY <1>19, <1>T DEF Child!ExecutionTimeout
  <2>2. /\ r \in childRequests /\ Settles(r) /\ req'[r].stage = 3 /\ request' = r
        /\ childRequests = {r}
    BY <1>I, <2>1, ExecutionTimeoutSettles, ActiveFacts
  <2>3. UNCHANGED <<edits, vfs, guest, own, base, aborted>>
    BY <2>1 DEF Child!ExecutionTimeout
  <2>4. ~Quiet
    BY <2>2 DEF Quiet, Settles
  <2> QED
    BY <2>2, <2>3, <2>4, SettledAside DEF Settled
<1>20. ASSUME NEW r \in Child!Requests, NEW graceful \in BOOLEAN, NEW bad \in SUBSET Faults,
              Child!WorkerReports(r, graceful, bad)
       PROVE  ChildInv'
  <2>1. Child!WorkerReports(r, graceful, {})
    BY <1>20, <1>T DEF Child!WorkerReports
  <2>2. /\ r \in childRequests /\ Settles(r) /\ req'[r].stage = 3 /\ request' = r
        /\ childRequests = {r}
    BY <1>I, <2>1, WorkerReportsSettles, ActiveFacts
  <2>3. UNCHANGED <<edits, vfs, guest, own, base, aborted>>
    BY <2>1 DEF Child!WorkerReports
  <2>4. ~Quiet
    BY <2>2 DEF Quiet, Settles
  <2> QED
    BY <2>2, <2>3, <2>4, SettledAside DEF Settled
<1>21. ASSUME NEW r \in Child!Requests, NEW p \in Paths, Child!ChildWrites(r, p) PROVE ChildInv'
  <2>1. r \in childRequests /\ Active(r) /\ req[r].stage = 2
    BY <1>21, <1>I, ActiveFacts DEF Child!ChildWrites, Over, Active
  <2>2. /\ host' = [host EXCEPT ![p] = -r]
        /\ UNCHANGED <<vfs, request, nextRequestId, req, childRequests, aborted, guest, own, base,
                       edits>>
    BY <1>21 DEF Child!ChildWrites
  <2>3. \A q \in Paths : host'[q] = IF q = p THEN -r ELSE host[q]
    BY <2>2 DEF Child!TypeOK, Child!Files
  <2>4. HostClean'
    <3>1. \A s \in Child!Requests : -s = -r => s = r
      BY <1>N
    <3> QED
      BY <1>I, <2>1, <2>2, <2>3, <3>1 DEF HostClean
  <2>5. Values'
    <3>1. -r <= edits
      BY <1>N DEF Child!TypeOK
    <3> QED
      BY <1>I, <2>2, <2>3, <3>1 DEF Values
  <2>6. OwnOnly' /\ Steps' /\ VfsClean'
    BY <1>I, <2>2 DEF OwnOnly, Steps, VfsClean, Clean
  <2>7. Child!GracefulDelivered'
    BY <1>I, <2>1, <2>2 DEF Child!GracefulDelivered, Steps
  <2> QED
    BY <1>E, <2>2, <2>4, <2>5, <2>6, <2>7, GuestAlone
<1>22. ASSUME NEW bad \in SUBSET Faults,
              Child!Abort(bad) \/ Child!Dispose(bad) \/ Child!DisposeSettled(bad)
       PROVE  ChildInv'
  <2>1. Child!Sweep(bad) /\ request' \in {0, Child!SweptRequest}
    BY <1>22 DEF Child!Abort, Child!Dispose, Child!DisposeSettled
  <2>2. bad = {}
    BY <2>1, <1>T DEF Child!Sweep
  <2>3. Settled /\ childRequests' = {} /\ aborted'
    BY <1>I, <2>1, <2>2, SweepSettles
  <2>4. UNCHANGED <<edits, vfs, guest, own, base>>
    BY <2>1 DEF Child!Sweep
  <2> QED
    BY <2>3, <2>4, SettledAside
<1>23. CASE UNCHANGED Child!vars
  <2>1. /\ UNCHANGED <<vfs, host, request, nextRequestId, req, childRequests, aborted, guest, own,
                       base, edits>>
    BY <1>23 DEF Child!vars
  <2>2. HostClean' /\ OwnOnly' /\ Steps' /\ Values' /\ VfsClean' /\ Child!GracefulDelivered'
    BY <1>I, <2>1 DEF HostClean, Clean, OwnOnly, Steps, Values, VfsClean, Child!GracefulDelivered
  <2> QED
    BY <1>E, <2>1, <2>2, GuestAlone
<1> QED
  BY <1>1, <1>2, <1>3, <1>4, <1>5, <1>6, <1>7, <1>8, <1>9, <1>10, <1>11, <1>12, <1>13, <1>14,
     <1>15, <1>16, <1>17, <1>18, <1>19, <1>20, <1>21, <1>22, <1>23
     DEF Child!Next, Child!Guest, Child!Timers

\* While no cleanup call throws, the VFS takes what a child wrote only and always when that
\* child ended gracefully: whatever traps, is killed, times out, is aborted or is edited in
\* between, for any number of requests, files, chunks and instances.
THEOREM DeliveriesAreSound == MaxFaults = 0 /\ Spec => []DeliveriesSound
<1> SUFFICES ASSUME MaxFaults = 0 PROVE Spec => []DeliveriesSound
  OBVIOUS
<1> DEFINE I == Child!TypeOK /\ OwnRequest /\ ChildInv
<1>1. Init => I
  BY ChildTypeInit, ChildInvInit DEF Init
<1>2. I /\ [Next]_vars => I'
  BY ChildTypeStep, ChildInvStep, StepOfChild
<1>3. I => DeliveriesSound
  BY DEF ChildInv, VfsClean, Clean, DeliveriesSound, Child!VfsHoldsOnlyGraceful
<1> QED
  BY <1>1, <1>2, <1>3, PTL DEF Spec

\* The transaction that a request under way stands for (ChildTransaction).
Before == IF Child!Owner = 0 THEN host ELSE req[Child!Owner].baseline
Kept == {r \in Child!Requests : req[r].graceful}
Stage == <<host, Child!Owner, Before, nextRequestId - 1, Kept>>

LEMMA OwnerIs ==
  ASSUME Child!TypeOK, BridgeInv
  PROVE  /\ \A r \in childRequests : Child!Owner = r
         /\ childRequests = {} => Child!Owner = 0
         /\ Child!Owner # 0 => Child!Owner \in childRequests
  BY ActiveFacts DEF Child!Owner, Active, BridgeInv, UnderWay, Child!TypeOK, Child!Requests

\* What the bridge's settling means for the transaction.
LEMMA SettledTransacts ==
  ASSUME Child!TypeOK, BridgeInv, Settled
  PROVE  [Child!Transaction!TransactionNext]_Stage
<1>1. CASE Quiet
  <2>1. Child!Owner' = Child!Owner
    <3>1. CASE request' = request
      BY <1>1, <3>1 DEF Quiet, Child!Owner
    <3>2. CASE request' # request
      BY <1>1, <3>2, OwnerIs DEF Quiet, Child!Owner
    <3> QED
      BY <3>1, <3>2
  <2> QED
    BY <1>1, <2>1 DEF Quiet, Stage, Before, Kept
<1>2. ASSUME NEW r \in childRequests, Settles(r)
      PROVE  Child!Transaction!TransactionNext
  <2>1. /\ r \in Child!Requests /\ Child!Owner = r /\ r # 0 /\ ~req[r].graceful
        /\ Before = req[r].baseline
    BY ActiveFacts, OwnerIs, ChildFacts DEF Active, Before, Child!Requests, Child!ChildAssumption
  <2>2. Child!Owner' = 0 /\ Before' = host' /\ nextRequestId' = nextRequestId
    BY <1>2 DEF Settles, Child!Owner, Before
  <2>3. CASE req'[r].graceful
    <3>1. Kept' = Kept \cup {Child!Owner} /\ host' = host
      BY <1>2, <2>1, <2>3 DEF Kept, Settles
    <3> QED
      BY <2>1, <2>2, <3>1 DEF Child!Transaction!TransactionNext, Child!Transaction!Commit,
         Before, Kept
  <2>4. CASE ~req'[r].graceful
    <3>1. Kept' = Kept /\ host' = Before
      BY <1>2, <2>1, <2>4 DEF Kept, Settles
    <3> QED
      BY <2>1, <2>2, <3>1 DEF Child!Transaction!TransactionNext, Child!Transaction!Rollback,
         Before, Kept
  <2> QED
    BY <2>3, <2>4
<1> QED
  BY <1>1, <1>2 DEF Settled

LEMMA Stutters ==
  ASSUME UNCHANGED <<host, request, nextRequestId, req>>
  PROVE  UNCHANGED Stage
  BY DEF Stage, Before, Kept, Child!Owner

\* Every step of the guest and the bridge is a step of the transaction, or none.
LEMMA TransactionStep ==
  ASSUME MaxFaults = 0, Child!TypeOK, OwnRequest, ChildInv, [Child!Next]_(Child!vars),
         Child!TypeOK'
  PROVE  [Child!Transaction!TransactionNext]_Stage
<1> USE DEF Child!bridgeVars, Child!ownerVars, Child!guestVars, Child!boundVars
<1>I. BridgeInv /\ OwnOnly /\ Steps
  BY DEF ChildInv
<1>H. host \in [Paths -> Child!Contents] /\ host' \in [Paths -> Child!Contents]
  BY DEF Child!TypeOK, Child!Files
<1>R. \A r \in Child!Requests : req[r] \in Child!Request
  BY DEF Child!TypeOK
<1>T. ASSUME NEW bad \in SUBSET Faults, Child!Throw(bad) PROVE bad = {}
  <2>1. Child!Cardinality(bad) \in Nat /\ faults \in 0..0
    BY BadFacts DEF Child!TypeOK
  <2> QED
    BY <1>T, <2>1, BadFacts DEF Child!Throw
<1>1. CASE Child!Prepare
  <2>1. Child!Owner = 0 /\ Child!Owner' = 0
    BY <1>1, <1>I, OwnerIs DEF Child!Prepare, Steps, Child!Owner
  <2> QED
    BY <1>1, <1>H, <2>1 DEF Child!Prepare, Child!Transaction!TransactionNext,
       Child!Transaction!Replace, Before, Kept
<1>2. CASE Child!Start
  <2> DEFINE r == nextRequestId
  <2>1. r \in Child!Requests /\ r \in Nat /\ r # 0 /\ Child!Owner = 0 /\ Fresh(req[r])
    BY <1>2, <1>I, ChildFacts, OwnerIs DEF Child!Start, Child!TypeOK, Child!Requests,
       Child!ChildAssumption, Steps, BridgeInv, Unused
  <2>2. /\ req'[r].stage = 1 /\ ~req'[r].recovery /\ ~req'[r].graceful
        /\ req'[r].baseline = host
        /\ \A s \in Child!Requests : s # r => req'[s] = req[s]
    BY <1>2, <1>R, <2>1 DEF Child!Start, Child!TypeOK, Child!Request, Fresh
  <2>3. request' = r /\ nextRequestId' = r + 1 /\ UNCHANGED host
    BY <1>2 DEF Child!Start
  <2>4. Child!Owner' = r
    BY <2>1, <2>2, <2>3 DEF Child!Owner
  <2>5. Kept' = Kept
    BY <2>1, <2>2 DEF Kept, Fresh
  <2>6. Before' = host
    BY <2>1, <2>2, <2>4 DEF Before
  <2>7. r = (r - 1) + 1 /\ nextRequestId' - 1 = r
    BY <2>1, <2>3
  <2> QED
    BY <2>1, <2>3, <2>4, <2>5, <2>6, <2>7 DEF Child!Transaction!TransactionNext,
       Child!Transaction!Begin, Before, Kept
<1>3. CASE Child!StartRefused \/ Child!RunReturns \/ Child!ReadError \/ Child!Import
  BY <1>3, Stutters DEF Child!StartRefused, Child!RunReturns, Child!ReadError, Child!Import
<1>4. CASE Child!ImportFails \/ Child!Trap \/ Child!Boot \/ Child!Reimport \/ Child!ReimportFails
  BY <1>4, Stutters DEF Child!ImportFails, Child!Trap, Child!Boot, Child!Reimport,
     Child!ReimportFails
\* An upload and the start of the child leave the transaction alone.
<1>K. ASSUME own \in Child!Requests, Child!Owner = own, UNCHANGED <<host, request, nextRequestId>>,
             \A s \in Child!Requests : s # own => req'[s] = req[s],
             req'[own].baseline = req[own].baseline, req'[own].graceful = req[own].graceful,
             req'[own].recovery = req[own].recovery, req'[own].stage # 3
      PROVE  UNCHANGED Stage
  <2>1. Child!Owner' = Child!Owner
    BY <1>K DEF Child!Owner, Child!Requests
  <2>2. Before' = Before /\ Kept' = Kept
    BY <1>K, <2>1 DEF Before, Kept
  <2> QED
    BY <1>K, <2>1, <2>2 DEF Stage
<1>5. CASE Child!Write
  <2>1. own \in Child!Requests
    BY <1>5 DEF Child!Write, OwnRequest
  <2>2. CASE ~aborted /\ Child!Uploading(own)
    <3>1. /\ Child!Owner = own
      BY <2>1, <2>2, ChildFacts DEF Child!Owner, Child!Uploading, Child!Requests,
         Child!ChildAssumption
    <3>2. /\ req'[own].baseline = req[own].baseline /\ req'[own].graceful = req[own].graceful
          /\ req'[own].recovery = req[own].recovery /\ req'[own].stage = 1
      BY <1>5, <1>R, <2>1, <2>2 DEF Child!Write, Child!TypeOK, Child!Request, Child!Uploading
    <3>3. /\ UNCHANGED <<host, request, nextRequestId>>
          /\ \A s \in Child!Requests : s # own => req'[s] = req[s]
      BY <1>5, <2>2 DEF Child!Write, Child!TypeOK
    <3> QED
      BY <2>1, <3>1, <3>2, <3>3, <1>K
  <2>3. CASE ~(~aborted /\ Child!Uploading(own))
    BY <1>5, <2>3, Stutters DEF Child!Write
  <2> QED
    BY <2>2, <2>3
<1>6. CASE Child!Run
  <2>1. own \in Child!Requests /\ Child!Uploading(own)
    BY <1>6 DEF Child!Run, OwnRequest
  <2>2. Child!Owner = own
    BY <2>1, ChildFacts DEF Child!Owner, Child!Uploading, Child!Requests, Child!ChildAssumption
  <2>3. /\ req'[own].baseline = req[own].baseline /\ req'[own].graceful = req[own].graceful
        /\ req'[own].recovery = req[own].recovery /\ req'[own].stage = 2
    BY <1>6, <1>R, <2>1 DEF Child!Run, Child!TypeOK, Child!Request
  <2>4. /\ UNCHANGED <<host, request, nextRequestId>>
        /\ \A s \in Child!Requests : s # own => req'[s] = req[s]
    BY <1>6 DEF Child!Run, Child!TypeOK
  <2> QED
    BY <2>1, <2>2, <2>3, <2>4, <1>K
<1>7. ASSUME NEW bad \in SUBSET Faults, Child!WriteAborts(bad) PROVE Settled
  <2>1. bad = {} /\ own \in Child!Requests
    BY <1>7, <1>T DEF Child!WriteAborts, OwnRequest
  <2> QED
    BY <1>7, <1>I, <2>1, WriteAbortsSettles DEF Settled
<1>8. ASSUME NEW bad \in SUBSET Faults, Child!RunFails(bad) PROVE Settled
  <2>1. bad = {} /\ own \in Child!Requests
    BY <1>8, <1>T DEF Child!RunFails, OwnRequest
  <2> QED
    BY <1>8, <1>I, <2>1, RunFailsSettles
<1>9. ASSUME NEW bad \in SUBSET Faults, Child!End(bad) \/ Child!Acknowledge(bad) PROVE Settled
  <2>1. bad = {} /\ own \in Child!Requests /\ childRequests = {}
    BY <1>9, <1>T, <1>I DEF Child!End, Child!Acknowledge, OwnRequest, Steps
  <2> QED
    BY <1>9, <1>I, <2>1, EndSettles DEF Child!End, Child!Acknowledge, Settled
<1>10. ASSUME NEW bad \in SUBSET Faults, Child!Recover(bad) PROVE Settled
  <2>1. bad = {}
    BY <1>10, <1>T DEF Child!Recover
  <2> QED
    BY <1>10, <1>I, <2>1, RecoverSettles
<1>11. ASSUME NEW p \in Paths, Child!Edit(p) PROVE UNCHANGED Stage
  BY <1>11, Stutters DEF Child!Edit
<1>12. ASSUME NEW r \in Child!Requests, NEW bad \in SUBSET Faults,
              Child!UploadTimeout(r, bad) \/ Child!ExecutionTimeout(r, bad)
       PROVE  Settled
  <2>1. Child!UploadTimeout(r, {}) \/ Child!ExecutionTimeout(r, {})
    BY <1>12, <1>T DEF Child!UploadTimeout, Child!ExecutionTimeout
  <2> QED
    BY <1>I, <2>1, UploadTimeoutSettles, ExecutionTimeoutSettles DEF Settled
<1>13. ASSUME NEW r \in Child!Requests, NEW graceful \in BOOLEAN, NEW bad \in SUBSET Faults,
              Child!WorkerReports(r, graceful, bad)
       PROVE  Settled
  <2>1. Child!WorkerReports(r, graceful, {})
    BY <1>13, <1>T DEF Child!WorkerReports
  <2> QED
    BY <1>I, <2>1, WorkerReportsSettles DEF Settled
<1>14. ASSUME NEW r \in Child!Requests, NEW p \in Paths, Child!ChildWrites(r, p)
       PROVE  Child!Transaction!TransactionNext
  <2>1. r \in childRequests /\ r # 0
    BY <1>14, <1>I, ActiveFacts, ChildFacts DEF Child!ChildWrites, Over, Child!Requests,
       Child!ChildAssumption
  <2>2. Child!Owner = r /\ Child!Owner' = r
    BY <1>14, <1>I, <2>1, OwnerIs DEF Child!ChildWrites, Child!Owner
  <2> QED
    BY <1>14, <1>H, <2>1, <2>2 DEF Child!ChildWrites, Child!Transaction!TransactionNext,
       Child!Transaction!Write, Before, Kept
<1>15. ASSUME NEW bad \in SUBSET Faults,
              Child!Abort(bad) \/ Child!Dispose(bad) \/ Child!DisposeSettled(bad)
       PROVE  Settled
  <2>1. Child!Sweep(bad) /\ request' \in {0, Child!SweptRequest}
    BY <1>15 DEF Child!Abort, Child!Dispose, Child!DisposeSettled
  <2>2. bad = {}
    BY <2>1, <1>T DEF Child!Sweep
  <2> QED
    BY <1>I, <2>1, <2>2, SweepSettles
<1>16. CASE UNCHANGED Child!vars
  BY <1>16, Stutters DEF Child!vars
<1> QED
  BY <1>1, <1>2, <1>3, <1>4, <1>5, <1>6, <1>7, <1>8, <1>9, <1>10, <1>11, <1>12, <1>13, <1>14,
     <1>15, <1>16, <1>I, SettledTransacts DEF Child!Next, Child!Guest, Child!Timers

\* Only an import takes something of a child over into a VFS that serves.
LEMMA EditsWinStep ==
  ASSUME Child!TypeOK, [Child!Next]_(Child!vars), guest \in Child!Serving,
         guest' \in Child!Serving, NEW p \in Paths, vfs'[p] < 0, vfs'[p] # vfs[p]
  PROVE  vfs[p] = base[p]
<1> USE DEF Child!bridgeVars, Child!ownerVars, Child!guestVars, Child!boundVars
<1>1. CASE Child!Import
  BY <1>1 DEF Child!Import, Child!Reconciled
<1>2. ASSUME NEW q \in Paths, Child!Edit(q) PROVE FALSE
  <2>1. edits + 1 \in Nat /\ vfs'[p] \in {edits + 1, vfs[p]}
    BY <1>2 DEF Child!Edit, Child!TypeOK, Child!Files
  <2> QED
    BY <2>1
<1>3. CASE Child!Boot \/ Child!Reimport
  BY <1>3 DEF Child!Boot, Child!Reimport, Child!Serving
<1>4. CASE UNCHANGED vfs
  BY <1>4
<1> QED
  BY <1>1, <1>2, <1>3, <1>4 DEF Child!Next, Child!Guest, Child!Timers, Child!vars, Child!Prepare,
     Child!Start, Child!StartRefused, Child!Write, Child!Run, Child!RunReturns, Child!ReadError,
     Child!ImportFails, Child!Trap, Child!ReimportFails, Child!WriteAborts, Child!RunFails,
     Child!End, Child!Recover, Child!Acknowledge, Child!UploadTimeout, Child!ExecutionTimeout,
     Child!ChildWrites, Child!WorkerReports, Child!Abort, Child!Dispose, Child!DisposeSettled,
     Child!Sweep

\* While no cleanup call throws, the files on the host are a transaction of the child: the
\* guest, the bridge, its timers and the child's Worker implement ChildTransaction, and an
\* import takes nothing that was edited meanwhile.
THEOREM HostImplementsTransaction == MaxFaults = 0 /\ Spec => HostIsTransactional
<1> SUFFICES ASSUME MaxFaults = 0 PROVE Spec => HostIsTransactional
  OBVIOUS
<1> DEFINE I == Child!TypeOK /\ OwnRequest /\ ChildInv
           Win == (guest \in Child!Serving /\ guest' \in Child!Serving) =>
                    \A p \in Paths : vfs'[p] < 0 /\ vfs'[p] # vfs[p] => vfs[p] = base[p]
<1>1. Init => I
  BY ChildTypeInit, ChildInvInit DEF Init
<1>2. I /\ [Next]_vars => I'
  BY ChildTypeStep, ChildInvStep, StepOfChild
<1>3. I /\ I' /\ [Next]_vars => [Child!Transaction!TransactionNext]_Stage
  BY TransactionStep, StepOfChild
<1>4. Init => Child!Transaction!TransactionInit
  <2> SUFFICES ASSUME Init PROVE Child!Transaction!TransactionInit
    OBVIOUS
  <2>1. Child!Init /\ host \in Child!Files
    BY ChildTypeInit DEF Init, Child!TypeOK
  <2> QED
    BY <2>1 DEF Child!Init, Child!Files, Child!Owner, Child!Transaction!TransactionInit
<1>5. I /\ [Next]_vars => [Win]_(Child!vars)
  BY EditsWinStep, StepOfChild
<1> QED
  BY <1>1, <1>2, <1>3, <1>4, <1>5, PTL DEF Spec, HostIsTransactional, Stage, Before, Kept,
     Child!HostIsTransactional, Child!EditsWin, Child!Transaction!TransactionSpec

-----------------------------------------------------------------------------
(* The sessions of the shell (ShellSession).                                *)

\* A sequence holds an event, holds it once, holds no m without a k before it.
Holds(s, k) == \E i \in 1..Len(s) : s[i] = k
Alone(s, k) == \A i, j \in 1..Len(s) : s[i] = k /\ s[j] = k => i = j
After(s, k, m) == \A j \in 1..Len(s) : s[j] = m => \E i \in 1..(j - 1) : s[i] = k

LEMMA TailFacts ==
  ASSUME NEW S, NEW s \in Seq(S), s # <<>>, NEW k, NEW m
  PROVE  /\ Tail(s) \in Seq(S) /\ Head(s) \in S /\ Holds(s, Head(s))
         /\ Holds(Tail(s), k) => Holds(s, k)
         /\ Alone(s, k) => Alone(Tail(s), k)
         /\ Alone(s, k) /\ Head(s) = k => ~Holds(Tail(s), k)
         /\ After(s, k, m) /\ Head(s) # k => After(Tail(s), k, m)
         /\ After(s, k, m) /\ k # m => Head(s) # m
<1>1. /\ Tail(s) \in Seq(S) /\ Head(s) \in S /\ Head(s) = s[1] /\ Len(s) \in Nat /\ Len(s) > 0
      /\ Len(Tail(s)) = Len(s) - 1
      /\ \A i \in 1..Len(Tail(s)) : Tail(s)[i] = s[i + 1] /\ i + 1 \in 1..Len(s)
  OBVIOUS
<1>2. Holds(s, Head(s))
  BY <1>1 DEF Holds
<1>3. Holds(Tail(s), k) => Holds(s, k)
  BY <1>1 DEF Holds
<1>4. Alone(s, k) => Alone(Tail(s), k)
  <2> SUFFICES ASSUME Alone(s, k), NEW i \in 1..Len(Tail(s)), NEW j \in 1..Len(Tail(s)),
                      Tail(s)[i] = k, Tail(s)[j] = k
               PROVE  i = j
    BY DEF Alone
  <2>1. i + 1 = j + 1
    BY <1>1 DEF Alone
  <2> QED
    BY <2>1
<1>5. Alone(s, k) /\ Head(s) = k => ~Holds(Tail(s), k)
  <2> SUFFICES ASSUME Alone(s, k), s[1] = k, NEW i \in 1..Len(Tail(s)), Tail(s)[i] = k
               PROVE  FALSE
    BY <1>1 DEF Holds
  <2>1. i + 1 = 1
    BY <1>1 DEF Alone
  <2> QED
    BY <2>1
<1>6. After(s, k, m) /\ Head(s) # k => After(Tail(s), k, m)
  <2> SUFFICES ASSUME After(s, k, m), s[1] # k, NEW j \in 1..Len(Tail(s)), Tail(s)[j] = m
               PROVE  \E i \in 1..(j - 1) : Tail(s)[i] = k
    BY <1>1 DEF After
  <2>1. PICK i \in 1..(j + 1 - 1) : s[i] = k
    BY <1>1 DEF After
  <2>2. i # 1 /\ i - 1 \in 1..(j - 1) /\ i - 1 \in 1..Len(Tail(s))
    BY <2>1, <1>1
  <2>3. Tail(s)[i - 1] = s[i - 1 + 1] /\ i - 1 + 1 = i
    BY <2>2, <1>1
  <2> QED
    BY <2>1, <2>2, <2>3
<1>7. After(s, k, m) /\ k # m => Head(s) # m
  BY <1>1 DEF After
<1> QED
  BY <1>1, <1>2, <1>3, <1>4, <1>5, <1>6, <1>7

LEMMA AppendFacts ==
  ASSUME NEW S, NEW s \in Seq(S), NEW e \in S, NEW k, NEW m
  PROVE  /\ Append(s, e) \in Seq(S)
         /\ Holds(Append(s, e), k) <=> Holds(s, k) \/ e = k
         /\ Alone(s, k) /\ (e = k => ~Holds(s, k)) => Alone(Append(s, e), k)
         /\ After(s, k, m) /\ (e = m => Holds(s, k)) => After(Append(s, e), k, m)
<1>1. /\ Append(s, e) \in Seq(S) /\ Len(s) \in Nat /\ Len(Append(s, e)) = Len(s) + 1
      /\ Append(s, e)[Len(s) + 1] = e
      /\ \A i \in 1..Len(s) : Append(s, e)[i] = s[i]
  OBVIOUS
<1>2. \A i \in 1..(Len(s) + 1) : i \in 1..Len(s) \/ i = Len(s) + 1
  BY <1>1
<1>3. Holds(Append(s, e), k) <=> Holds(s, k) \/ e = k
  <2>1. Len(s) + 1 \in 1..(Len(s) + 1) /\ \A i \in 1..Len(s) : i \in 1..(Len(s) + 1)
    BY <1>1
  <2> QED
    BY <1>1, <1>2, <2>1 DEF Holds
<1>4. Alone(s, k) /\ (e = k => ~Holds(s, k)) => Alone(Append(s, e), k)
  BY <1>1, <1>2 DEF Alone, Holds
<1>5. After(s, k, m) /\ (e = m => Holds(s, k)) => After(Append(s, e), k, m)
  <2> SUFFICES ASSUME After(s, k, m), e = m => Holds(s, k), NEW j \in 1..(Len(s) + 1),
                      Append(s, e)[j] = m
               PROVE  \E i \in 1..(j - 1) : Append(s, e)[i] = k
    BY <1>1 DEF After
  <2>1. CASE j \in 1..Len(s)
    <3>1. PICK i \in 1..(j - 1) : s[i] = k
      BY <1>1, <2>1 DEF After
    <3>2. i \in 1..Len(s)
      BY <2>1, <1>1
    <3> QED
      BY <3>1, <3>2, <1>1
  <2>2. CASE j = Len(s) + 1
    <3>1. PICK i \in 1..Len(s) : s[i] = k
      BY <1>1, <2>2 DEF Holds
    <3>2. i \in 1..(j - 1)
      BY <2>2, <1>1
    <3> QED
      BY <3>1, <3>2, <1>1
  <2> QED
    BY <2>1, <2>2, <1>2
<1> QED
  BY <1>1, <1>3, <1>4, <1>5

LEMMA ConcatIs ==
  ASSUME NEW S, NEW s \in Seq(S), NEW d \in S, NEW e \in S
  PROVE  s \o <<d>> = Append(s, d) /\ s \o <<d, e>> = Append(Append(s, d), e)
  OBVIOUS

LEMMA ShellFacts ==
  /\ 0 \in SessionIds /\ Keys \subseteq {"char", "line"} /\ MaxLoops \in Nat /\ MaxEvents \in Nat
  /\ Shell!Kinds = {"rust-src", "target"} /\ "char" \notin Shell!Kinds /\ "line" \notin Shell!Kinds
  /\ \A k \in Keys : k \in Shell!Events
  /\ \A k \in Shell!Kinds : k \in Shell!Events
  BY GuestAssumption DEF GuestAssumption, Shell!SessionAssumption, Shell!Kinds, Shell!Events

\* The channel of a session, and what a step does to its loop.
LEMMA ShellTypeInit == Shell!Init => Shell!TypeOK
<1> SUFFICES ASSUME Shell!Init PROVE Shell!TypeOK
  OBVIOUS
<1>1. Shell!Unused \in Shell!LoopState
  BY DEF Shell!Unused, Shell!LoopState, Shell!Kinds
<1>2. loop \in [Shell!Loops -> Shell!LoopState]
  BY <1>1 DEF Shell!Init
<1>3. 0 \in 0..MaxLoops /\ 0 \in 0..MaxEvents
  BY ShellFacts
<1> QED
  BY <1>2, <1>3 DEF Shell!Init, Shell!TypeOK, Shell!LoadStates

LEMMA LoopFacts ==
  ASSUME NEW q \in Shell!LoopState
  PROVE  /\ q.queue \in Seq(Shell!Events) /\ q.deferred \in Seq(Shell!Kinds)
         /\ q.deferred \in Seq(Shell!Events) /\ q.kind \in Shell!Kinds
<1>1. q.queue \in Seq(Shell!Events) /\ q.deferred \in Seq(Shell!Kinds) /\ q.kind \in Shell!Kinds
  BY DEF Shell!LoopState
<1>2. Shell!Kinds \subseteq Shell!Events
  BY ShellFacts
<1>3. q.deferred \in Seq(Shell!Events)
  BY <1>1, <1>2
<1> QED
  BY <1>1, <1>3

LEMMA QueueWith ==
  ASSUME NEW q \in Shell!LoopState, NEW d \in Seq(Shell!Kinds), NEW e \in Seq(Shell!Events)
  PROVE  /\ [q EXCEPT !.queue = e] \in Shell!LoopState
         /\ [q EXCEPT !.deferred = d] \in Shell!LoopState
  BY DEF Shell!LoopState

LEMMA TakenIs ==
  ASSUME NEW q \in Shell!LoopState, q.deferred \o q.queue # <<>>
  PROVE  LET t == Shell!Taken(q)
             e == Shell!NextEvent(q) IN
         /\ t \in Shell!LoopState /\ e \in Shell!Events
         /\ t.at = q.at /\ t.kind = q.kind /\ t.open = q.open /\ t.eof = q.eof
         /\ t.cancelled = q.cancelled
         /\ \/ /\ Shell!FromChannel(q) /\ q.deferred = <<>> /\ q.queue # <<>> /\ e = Head(q.queue)
               /\ t.deferred = q.deferred /\ t.queue = Tail(q.queue)
            \/ /\ ~Shell!FromChannel(q) /\ q.deferred # <<>> /\ e = Head(q.deferred)
               /\ t.deferred = Tail(q.deferred) /\ t.queue = q.queue
<1>1. q.queue \in Seq(Shell!Events) /\ q.deferred \in Seq(Shell!Kinds)
  BY LoopFacts
<1>2. CASE Shell!FromChannel(q)
  <2>1. q.deferred = <<>> /\ q.queue # <<>>
    BY <1>2 DEF Shell!FromChannel
  <2>2. Tail(q.queue) \in Seq(Shell!Events) /\ Head(q.queue) \in Shell!Events
    BY <1>1, <2>1
  <2>3. Shell!Taken(q) = [q EXCEPT !.queue = Tail(q.queue)]
    BY <1>2 DEF Shell!Taken
  <2>4. [q EXCEPT !.queue = Tail(q.queue)] \in Shell!LoopState
    BY <1>1, <2>2, QueueWith
  <2> QED
    BY <1>2, <2>1, <2>2, <2>3, <2>4 DEF Shell!NextEvent, Shell!LoopState
<1>3. CASE ~Shell!FromChannel(q)
  <2>1. q.deferred # <<>>
    BY <1>1, <1>3 DEF Shell!FromChannel
  <2>2. Tail(q.deferred) \in Seq(Shell!Kinds) /\ Head(q.deferred) \in Shell!Kinds
    BY <1>1, <2>1
  <2>3. Shell!Taken(q) = [q EXCEPT !.deferred = Tail(q.deferred)]
    BY <1>3 DEF Shell!Taken
  <2>4. [q EXCEPT !.deferred = Tail(q.deferred)] \in Shell!LoopState
    BY <1>1, <2>2, QueueWith
  <2>5. Head(q.deferred) \in Shell!Events
    BY <2>2, ShellFacts
  <2> QED
    BY <1>3, <2>1, <2>3, <2>4, <2>5 DEF Shell!NextEvent, Shell!LoopState
<1> QED
  BY <1>2, <1>3

LEMMA ReceivedIs ==
  ASSUME NEW q \in Shell!LoopState, q.queue # <<>>
  PROVE  LET t == Shell!Received(q)
             e == Head(q.queue) IN
         /\ t \in Shell!LoopState /\ t.at = "command" /\ t.queue = Tail(q.queue)
         /\ IF e \in Shell!Kinds THEN t.deferred = Append(q.deferred, e)
            ELSE t.deferred = q.deferred
<1>1. /\ q.queue \in Seq(Shell!Events) /\ q.deferred \in Seq(Shell!Kinds)
      /\ Tail(q.queue) \in Seq(Shell!Events)
  BY LoopFacts
<1>2. CASE Head(q.queue) \in Shell!Kinds
  <2>1. Append(q.deferred, Head(q.queue)) \in Seq(Shell!Kinds)
    BY <1>1, <1>2
  <2> DEFINE d == Append(q.deferred, Head(q.queue))
             e == Tail(q.queue)
             k == Shell!Kinds
  <2>2. Shell!Received(q) = [q EXCEPT !.queue = e, !.deferred = d, !.at = "command"]
    BY <1>2 DEF Shell!Received
  <2>3. d \in Seq(Shell!Kinds) /\ e \in Seq(Shell!Events)
    BY <1>1, <2>1
  <2> HIDE DEF d, e
  <2>4. [q EXCEPT !.queue = e, !.deferred = d, !.at = "command"] \in Shell!LoopState
    BY <2>3 DEF Shell!LoopState
  <2> QED
    BY <1>2, <2>2, <2>4 DEF Shell!LoopState, d, e
<1>3. CASE Head(q.queue) \notin Shell!Kinds
  <2> DEFINE e == Tail(q.queue)
  <2>2. Shell!Received(q) = [q EXCEPT !.queue = e, !.at = "command"]
    BY <1>3 DEF Shell!Received
  <2>3. e \in Seq(Shell!Events)
    BY <1>1
  <2> HIDE DEF e
  <2>4. [q EXCEPT !.queue = e, !.at = "command"] \in Shell!LoopState
    BY <2>3 DEF Shell!LoopState
  <2> QED
    BY <1>3, <2>2, <2>4 DEF Shell!LoopState, e
<1> QED
  BY <1>2, <1>3

LEMMA ShellTypeStep == Shell!TypeOK /\ [Shell!Next]_(Shell!shellVars) => Shell!TypeOK'
<1> SUFFICES ASSUME Shell!TypeOK, [Shell!Next]_(Shell!shellVars) PROVE Shell!TypeOK'
  OBVIOUS
<1> USE DEF Shell!pageVars
<1>L. \A l \in Shell!Loops : loop[l] \in Shell!LoopState
  BY DEF Shell!TypeOK
<1>N. MaxLoops \in Nat /\ MaxEvents \in Nat
  BY ShellFacts
<1>M. Shell!MayDispatch => sent' \in 0..MaxEvents
  BY <1>N DEF Shell!MayDispatch, Shell!TypeOK
\* A step that replaces the state of one loop.
<1>O. ASSUME NEW l, NEW q \in Shell!LoopState, loop' = [loop EXCEPT ![l] = q],
             UNCHANGED <<table, startup, waiter, abortSeen>>, sent' \in 0..MaxEvents,
             sysroot' \in [Shell!Kinds -> Shell!LoadStates]
      PROVE  Shell!TypeOK'
  BY <1>O DEF Shell!TypeOK
<1>P. ASSUME UNCHANGED <<table, loop, sysroot, sent>>,
             startup' \in [poll : {"none", "due", "second", "over"}, first : Shell!LoadStates,
                           late : BOOLEAN, status : {"loading", "ok", "failed"}],
             waiter' \in {"none", "waiting", "ok", "failed", "aborted", "rejected"},
             abortSeen' \in BOOLEAN
      PROVE  Shell!TypeOK'
  BY <1>P DEF Shell!TypeOK
<1>D. ASSUME NEW s \in SessionIds, table[s] # 0 PROVE table[s] \in Shell!Loops
  BY <1>D, <1>N DEF Shell!TypeOK, Shell!Loops
<1>S. ASSUME NEW l \in Shell!Loops, NEW queue \in Seq(Shell!Events)
      PROVE  [loop[l] EXCEPT !.queue = queue] \in Shell!LoopState
  BY <1>L DEF Shell!LoopState
<1>1. ASSUME NEW s \in SessionIds, Shell!CreateSession(s) PROVE Shell!TypeOK'
  <2>1. PICK l \in Shell!Loops :
          /\ loop' = [m \in Shell!Loops |->
                  CASE m = l -> [Shell!Unused EXCEPT !.open = TRUE,
                                               !.at = IF s = 0 THEN "command" ELSE "idle"]
                    [] m = table[s] /\ m # l -> [loop[m] EXCEPT !.open = FALSE]
                    [] OTHER -> loop[m]]
          /\ table' = [table EXCEPT ![s] = l]
          /\ UNCHANGED <<sysroot, startup, waiter, abortSeen>> /\ sent' \in 0..MaxEvents
    BY <1>1, <1>M DEF Shell!CreateSession
  <2>2. [Shell!Unused EXCEPT !.open = TRUE, !.at = IF s = 0 THEN "command" ELSE "idle"]
          \in Shell!LoopState
    <3> DEFINE step == IF s = 0 THEN "command" ELSE "idle"
    <3>1. step \in {"command", "idle"}
      OBVIOUS
    <3>2. Shell!Unused \in Shell!LoopState
      BY DEF Shell!Unused, Shell!LoopState, Shell!Kinds
    <3> HIDE DEF step
    <3>3. [Shell!Unused EXCEPT !.open = TRUE, !.at = step] \in Shell!LoopState
      BY <3>1, <3>2 DEF Shell!LoopState
    <3> QED
      BY <3>3 DEF step
  <2>3. \A m \in Shell!Loops : [loop[m] EXCEPT !.open = FALSE] \in Shell!LoopState
    BY <1>L DEF Shell!LoopState
  <2>4. loop' \in [Shell!Loops -> Shell!LoopState]
    BY <2>1, <2>2, <2>3, <1>L
  <2>5. table' \in [SessionIds -> 0..MaxLoops]
    BY <2>1, <1>N DEF Shell!TypeOK, Shell!Loops
  <2> QED
    BY <2>1, <2>4, <2>5 DEF Shell!TypeOK
<1>2. ASSUME NEW s \in SessionIds, Shell!Interrupt(s) PROVE Shell!TypeOK'
  <2>1. [loop[table[s]] EXCEPT !.cancelled = TRUE] \in Shell!LoopState
    <3>1. loop[table[s]] \in Shell!LoopState
      BY <1>2, <1>D, <1>L DEF Shell!Interrupt
    <3> QED
      BY <3>1 DEF Shell!LoopState
  <2>2. loop' = [loop EXCEPT ![table[s]] = [loop[table[s]] EXCEPT !.cancelled = TRUE]]
    BY <1>2 DEF Shell!Interrupt
  <2> QED
    BY <1>2, <2>1, <2>2, <1>M, <1>O DEF Shell!Interrupt, Shell!TypeOK
<1>3. ASSUME NEW s \in SessionIds, Shell!CloseSession(s) PROVE Shell!TypeOK'
  <2>1. [loop[table[s]] EXCEPT !.cancelled = TRUE, !.open = FALSE] \in Shell!LoopState
    <3>1. loop[table[s]] \in Shell!LoopState
      BY <1>3, <1>D, <1>L DEF Shell!CloseSession
    <3> QED
      BY <3>1 DEF Shell!LoopState
  <2>2. loop' = [loop EXCEPT ![table[s]] = [loop[table[s]] EXCEPT !.cancelled = TRUE, !.open = FALSE]]
    BY <1>3, <1>D DEF Shell!CloseSession, Shell!TypeOK
  <2>3. table' \in [SessionIds -> 0..MaxLoops]
    BY <1>3, <1>N DEF Shell!CloseSession, Shell!TypeOK
  <2> QED
    BY <1>3, <2>1, <2>2, <2>3, <1>M, ZenonT(30) DEF Shell!CloseSession, Shell!TypeOK
<1>4. ASSUME NEW s \in SessionIds, NEW e \in Keys, Shell!Input(s, e) PROVE Shell!TypeOK'
  <2>1. table[s] \in Shell!Loops /\ loop[table[s]].queue \o <<e>> \in Seq(Shell!Events)
    BY <1>4, <1>D, <1>L, LoopFacts, ShellFacts DEF Shell!Input
  <2>2. loop' = [loop EXCEPT ![table[s]] =
                   [loop[table[s]] EXCEPT !.queue = loop[table[s]].queue \o <<e>>]]
    BY <1>4 DEF Shell!Input, Shell!Sent
  <2>3. [loop[table[s]] EXCEPT !.queue = loop[table[s]].queue \o <<e>>] \in Shell!LoopState
    BY <2>1, <1>S
  <2> QED
    BY <1>4, <2>2, <2>3, <1>M, <1>O DEF Shell!Input, Shell!TypeOK
<1>5. ASSUME NEW l \in Shell!Loops, Shell!TakeKey(l) PROVE Shell!TypeOK'
  <2> DEFINE t == Shell!Taken(loop[l])
             step == IF Shell!NextEvent(loop[l]) = "line" THEN "command" ELSE "idle"
             q == [t EXCEPT !.cancelled = FALSE, !.eof = FALSE, !.at = step]
  <2>1. t \in Shell!LoopState
    BY <1>5, <1>L, LoopFacts, TakenIs DEF Shell!TakeKey, Shell!FromChannel
  <2>2. loop' = [loop EXCEPT ![l] = q]
    BY <1>5 DEF Shell!TakeKey
  <2>3. step \in {"idle", "command"}
    OBVIOUS
  <2>4. q \in Shell!LoopState
    <3> HIDE DEF t, step
    <3> QED
      BY <2>1, <2>3 DEF Shell!LoopState
  <2> QED
    BY <1>5, <2>2, <2>4, <1>O DEF Shell!TakeKey, Shell!TypeOK
<1>6. ASSUME NEW l \in Shell!Loops, Shell!TakeBootstrap(l) PROVE Shell!TypeOK'
  <2> DEFINE t == Shell!Taken(loop[l])
             k == Shell!NextEvent(loop[l])
             step == IF Shell!Begins(k) THEN "loading" ELSE "idle"
             q == [t EXCEPT !.kind = k, !.at = step]
  <2>1. t \in Shell!LoopState /\ k \in Shell!Kinds
    BY <1>6, <1>L, TakenIs DEF Shell!TakeBootstrap
  <2>2. loop' = [loop EXCEPT ![l] = q]
    BY <1>6 DEF Shell!TakeBootstrap
  <2>3. step \in {"idle", "loading"}
    OBVIOUS
  <2>4. q \in Shell!LoopState
    <3> HIDE DEF t, step, k
    <3> QED
      BY <2>1, <2>3 DEF Shell!LoopState
  <2>5. sysroot' \in [Shell!Kinds -> Shell!LoadStates]
    BY <1>6 DEF Shell!TakeBootstrap, Shell!TypeOK, Shell!LoadStates
  <2> QED
    BY <1>6, <2>2, <2>4, <2>5, <1>O DEF Shell!TakeBootstrap, Shell!TypeOK
<1>7. ASSUME NEW l \in Shell!Loops, Shell!LoadEnds(l) PROVE Shell!TypeOK'
  <2>1. [loop[l] EXCEPT !.at = "idle"] \in Shell!LoopState
    BY <1>L DEF Shell!LoopState
  <2>2. sysroot' \in [Shell!Kinds -> Shell!LoadStates]
    BY <1>7 DEF Shell!LoadEnds, Shell!Finished, Shell!Outcome, Shell!TypeOK, Shell!LoadStates
  <2>3. loop' = [loop EXCEPT ![l] = [loop[l] EXCEPT !.at = "idle"]]
    BY <1>7 DEF Shell!LoadEnds
  <2> QED
    BY <1>7, <2>1, <2>2, <2>3, <1>O DEF Shell!LoadEnds, Shell!TypeOK
<1>8. ASSUME NEW l \in Shell!Loops, Shell!LoopEnds(l) \/ Shell!CommandEnds(l) PROVE Shell!TypeOK'
  <2>1. /\ [loop[l] EXCEPT !.at = "ended"] \in Shell!LoopState
        /\ [loop[l] EXCEPT !.at = "idle"] \in Shell!LoopState
    BY <1>L DEF Shell!LoopState
  <2>2. \/ loop' = [loop EXCEPT ![l] = [loop[l] EXCEPT !.at = "ended"]]
        \/ loop' = [loop EXCEPT ![l] = [loop[l] EXCEPT !.at = "idle"]]
    BY <1>8 DEF Shell!LoopEnds, Shell!CommandEnds
  <2> QED
    BY <1>8, <2>1, <2>2, <1>O DEF Shell!LoopEnds, Shell!CommandEnds, Shell!TypeOK
<1>9. ASSUME NEW l \in Shell!Loops, Shell!ReadStdin(l) PROVE Shell!TypeOK'
  <2>1. /\ [loop[l] EXCEPT !.eof = TRUE] \in Shell!LoopState
        /\ [loop[l] EXCEPT !.at = "stdin"] \in Shell!LoopState
    BY <1>L DEF Shell!LoopState
  <2>2. \/ loop' = [loop EXCEPT ![l] = [loop[l] EXCEPT !.eof = TRUE]]
        \/ loop' = [loop EXCEPT ![l] = [loop[l] EXCEPT !.at = "stdin"]]
    BY <1>9 DEF Shell!ReadStdin
  <2> QED
    BY <1>9, <2>1, <2>2, <1>O DEF Shell!ReadStdin, Shell!TypeOK
<1>10. ASSUME NEW l \in Shell!Loops, Shell!Receive(l) PROVE Shell!TypeOK'
  <2>1. Shell!Received(loop[l]) \in Shell!LoopState
    BY <1>10, <1>L, ReceivedIs DEF Shell!Receive
  <2>2. loop' = [loop EXCEPT ![l] = Shell!Received(loop[l])]
    BY <1>10 DEF Shell!Receive
  <2> QED
    BY <1>10, <2>1, <2>2, <1>O DEF Shell!Receive, Shell!TypeOK
<1>11. ASSUME NEW l \in Shell!Loops, Shell!ReceiveClosed(l) PROVE Shell!TypeOK'
  <2>1. [loop[l] EXCEPT !.at = "command", !.eof = TRUE] \in Shell!LoopState
    BY <1>L DEF Shell!LoopState
  <2>2. loop' = [loop EXCEPT ![l] = [loop[l] EXCEPT !.at = "command", !.eof = TRUE]]
    BY <1>11 DEF Shell!ReceiveClosed, Shell!TypeOK
  <2> QED
    BY <1>11, <2>1, <2>2, <1>O DEF Shell!ReceiveClosed, Shell!TypeOK
<1>12. CASE Shell!Ask
  <2>1. startup' \in [poll : {"none", "due", "second", "over"}, first : Shell!LoadStates,
                      late : BOOLEAN, status : {"loading", "ok", "failed"}]
    BY <1>12 DEF Shell!Ask, Shell!TypeOK
  <2>2. loop' \in [Shell!Loops -> Shell!LoopState]
    <3>1. CASE table[0] = 0
      BY <1>12, <3>1 DEF Shell!Ask, Shell!Sent, Shell!TypeOK
    <3>2. CASE table[0] # 0
      <4>1. table[0] \in Shell!Loops /\ "rust-src" \in Shell!Events /\ "target" \in Shell!Events
        BY <3>2, <1>D, ShellFacts
      <4>2. loop[table[0]].queue \o <<"rust-src", "target">> \in Seq(Shell!Events)
        BY <4>1, <1>L, LoopFacts
      <4>3. loop' = [loop EXCEPT ![table[0]] =
                [loop[table[0]] EXCEPT !.queue = loop[table[0]].queue \o <<"rust-src", "target">>]]
        BY <1>12, <3>2 DEF Shell!Ask, Shell!Sent
      <4> QED
        BY <4>1, <4>2, <4>3, <1>S DEF Shell!TypeOK
    <3> QED
      BY <3>1, <3>2
  <2> QED
    BY <1>12, <2>1, <2>2 DEF Shell!Ask, Shell!TypeOK
<1>13. CASE Shell!AskTraps \/ Shell!Answered \/ Shell!EndpointFails \/ Shell!AbortWait
            \/ Shell!PollFirst \/ Shell!Deadline
  <2>1. sysroot["rust-src"] \in Shell!LoadStates
    BY ShellFacts DEF Shell!TypeOK
  <2> QED
    BY <1>13, <1>P, <2>1 DEF Shell!AskTraps, Shell!Answered, Shell!EndpointFails, Shell!AbortWait,
       Shell!PollFirst, Shell!Deadline, Shell!TypeOK
<1>14. CASE Shell!PollSecond
  <2> DEFINE result == Shell!Snapshot(startup.first, sysroot["target"])
             settled == IF result = "loading" /\ startup.late THEN "failed" ELSE result
             poll == IF settled = "loading" THEN "due" ELSE "over"
  <2>1. settled \in {"loading", "ok", "failed"}
    BY DEF Shell!Snapshot
  <2>2. poll \in {"none", "due", "second", "over"}
    OBVIOUS
  <2>3. startup' = [startup EXCEPT !.status = settled, !.poll = poll]
    BY <1>14 DEF Shell!PollSecond
  <2> HIDE DEF settled, poll
  <2> QED
    BY <1>14, <1>P, <2>1, <2>2, <2>3 DEF Shell!PollSecond, Shell!TypeOK
<1>15. CASE UNCHANGED Shell!shellVars
  BY <1>15 DEF Shell!shellVars, Shell!TypeOK
<1> QED
  BY <1>1, <1>2, <1>3, <1>4, <1>5, <1>6, <1>7, <1>8, <1>9, <1>10, <1>11, <1>12, <1>13, <1>14,
     <1>15 DEF Shell!Next, Shell!LoopStep

\* rust-src has been extracted, or its extraction has failed, or this loop is at it.
RustSettles(l) ==
  \/ sysroot["rust-src"] \in {"Ready", "Failed"}
  \/ loop[l].at = "loading" /\ loop[l].kind = "rust-src" /\ sysroot["rust-src"] = "Loading"

\* A loop that still holds the bootstrap of the target holds that of rust-src before it.
Ordered(d, e) == /\ After(d, "rust-src", "target")
                 /\ Holds(d, "rust-src") \/ After(e, "rust-src", "target")
InOrder == \A l \in Shell!Loops :
  ~RustSettles(l) => Ordered(loop[l].deferred, loop[l].queue)

\* The bootstrap of rust-src is pending in one place at most, and only before it begins.
Single(d, e) == /\ Alone(d, "rust-src") /\ Alone(e, "rust-src")
                /\ ~(Holds(d, "rust-src") /\ Holds(e, "rust-src"))
Pending(l, k) == Holds(loop[l].deferred, k) \/ Holds(loop[l].queue, k)
Once == \A l \in Shell!Loops :
  /\ Single(loop[l].deferred, loop[l].queue)
  /\ Pending(l, "rust-src") =>
       /\ sysroot["rust-src"] = "NotStarted"
       /\ \A m \in Shell!Loops : Pending(m, "rust-src") => m = l

\* Nothing begins before the page asks.
Asked == waiter = "none" =>
  /\ \A k \in Shell!Kinds : sysroot[k] = "NotStarted"
  /\ startup.status = "loading" /\ startup.poll = "none"
  /\ \A l \in Shell!Loops, k \in Shell!Kinds : ~Pending(l, k)

\* What the endpoint reports stays true.
Reported == /\ startup.first = "Ready" => sysroot["rust-src"] = "Ready"
            /\ startup.status = "ok" => \A k \in Shell!Kinds : sysroot[k] = "Ready"
            /\ startup.status # "loading" => startup.poll = "over"

ShellInv == InOrder /\ Once /\ Asked /\ Reported /\ Shell!LoadedInOrder /\ Shell!SettledTruth

LEMMA ShellInvInit == Shell!Init => ShellInv
  BY ShellFacts DEF Shell!Init, Shell!Unused, ShellInv, InOrder, Ordered, After, Once, Single,
     Alone, Holds, Pending, Asked, Reported, Shell!LoadedInOrder, Shell!SettledTruth

\* A loop takes in nothing for the sysroots that it did not hold, and keeps their order.
Lesser(l) ==
  /\ \A k \in Shell!Kinds : Pending(l, k)' => Pending(l, k)
  /\ Single(loop[l].deferred, loop[l].queue) => Single(loop[l].deferred, loop[l].queue)'
  /\ ~RustSettles(l) /\ Ordered(loop[l].deferred, loop[l].queue)
       => Ordered(loop[l].deferred, loop[l].queue)'
  /\ loop[l].at = "loading" => loop'[l].at = "loading" /\ loop'[l].kind = loop[l].kind

LEMMA LesserKeeps ==
  ASSUME ShellInv, \A l \in Shell!Loops : Lesser(l),
         UNCHANGED <<sysroot, startup, waiter, abortSeen>>
  PROVE  ShellInv'
<1>1. InOrder'
  BY DEF ShellInv, InOrder, Lesser, RustSettles
<1>2. Once' /\ Asked'
  BY ShellFacts DEF ShellInv, Once, Asked, Lesser
<1>3. Reported' /\ Shell!LoadedInOrder' /\ Shell!SettledTruth'
  BY DEF ShellInv, Reported, Shell!LoadedInOrder, Shell!SettledTruth
<1> QED
  BY <1>1, <1>2, <1>3 DEF ShellInv

\* The changes to a loop that are of no consequence for the sysroots.
LEMMA SameIsLesser ==
  ASSUME NEW l, loop'[l].deferred = loop[l].deferred, loop'[l].queue = loop[l].queue,
         loop[l].at = "loading" => loop'[l].at = "loading" /\ loop'[l].kind = loop[l].kind
  PROVE  Lesser(l)
  BY DEF Lesser, Pending

LEMMA EmptyIsLesser ==
  ASSUME NEW l, loop'[l].deferred = <<>>, loop'[l].queue = <<>>, loop[l].at # "loading"
  PROVE  Lesser(l)
  BY DEF Lesser, Pending, Single, Alone, Holds, Ordered, After

LEMMA KeyGoneIsLesser ==
  ASSUME NEW l, loop[l] \in Shell!LoopState, loop[l].queue # <<>>,
         Head(loop[l].queue) \notin Shell!Kinds,
         loop'[l].deferred = loop[l].deferred, loop'[l].queue = Tail(loop[l].queue),
         loop[l].at # "loading"
  PROVE  Lesser(l)
<1> DEFINE d == loop[l].deferred
           e == loop[l].queue
<1>1. e \in Seq(Shell!Events) /\ Head(e) # "rust-src"
  BY LoopFacts, ShellFacts
<1>2. /\ \A k : Holds(Tail(e), k) => Holds(e, k)
      /\ Alone(e, "rust-src") => Alone(Tail(e), "rust-src")
      /\ After(e, "rust-src", "target") => After(Tail(e), "rust-src", "target")
  BY <1>1, TailFacts
<1>3. loop'[l].deferred = d /\ loop'[l].queue = Tail(e)
  OBVIOUS
<1> HIDE DEF d, e
<1>4. Single(d, e) => Single(d, Tail(e))
  BY <1>2 DEF Single
<1>5. Ordered(d, e) => Ordered(d, Tail(e))
  BY <1>2 DEF Ordered
<1> QED
  BY <1>2, <1>3, <1>4, <1>5 DEF Lesser, Pending, d, e

LEMMA KeyAddedIsLesser ==
  ASSUME NEW l, loop[l] \in Shell!LoopState, NEW e \in Shell!Events, e \notin Shell!Kinds,
         loop'[l].deferred = loop[l].deferred, loop'[l].queue = Append(loop[l].queue, e),
         loop[l].at = "loading" => loop'[l].at = "loading" /\ loop'[l].kind = loop[l].kind
  PROVE  Lesser(l)
<1> DEFINE d == loop[l].deferred
           q == loop[l].queue
<1>1. q \in Seq(Shell!Events) /\ e # "rust-src" /\ e # "target"
  BY LoopFacts, ShellFacts
<1>2. /\ \A k : Holds(Append(q, e), k) => Holds(q, k) \/ e = k
      /\ Alone(q, "rust-src") => Alone(Append(q, e), "rust-src")
      /\ After(q, "rust-src", "target") => After(Append(q, e), "rust-src", "target")
  <2> HIDE DEF d, q
  <2>1. ASSUME NEW k PROVE Holds(Append(q, e), k) => Holds(q, k) \/ e = k
    BY <1>1, AppendFacts
  <2>2. Alone(q, "rust-src") => Alone(Append(q, e), "rust-src")
    BY <1>1, AppendFacts
  <2>3. After(q, "rust-src", "target") => After(Append(q, e), "rust-src", "target")
    BY <1>1, AppendFacts
  <2> QED
    BY <2>1, <2>2, <2>3
<1>3. loop'[l].deferred = d /\ loop'[l].queue = Append(q, e)
  OBVIOUS
<1> HIDE DEF d, q
<1>4. Single(d, q) => Single(d, Append(q, e))
  BY <1>1, <1>2 DEF Single
<1>5. Ordered(d, q) => Ordered(d, Append(q, e))
  BY <1>2 DEF Ordered
<1>6. \A k \in Shell!Kinds : Holds(Append(q, e), k) => Holds(q, k)
  BY <1>2
<1> QED
  BY <1>3, <1>4, <1>5, <1>6 DEF Lesser, Pending, d, q

\* A bootstrap that a command receives is put aside: where it was first, it is now last.
LEMMA DeferredIsLesser ==
  ASSUME NEW l, loop[l] \in Shell!LoopState, loop[l].queue # <<>>,
         Head(loop[l].queue) \in Shell!Kinds,
         loop'[l].deferred = Append(loop[l].deferred, Head(loop[l].queue)),
         loop'[l].queue = Tail(loop[l].queue), loop[l].at # "loading"
  PROVE  Lesser(l)
<1> DEFINE d == loop[l].deferred
           e == loop[l].queue
           h == Head(e)
<1>1. d \in Seq(Shell!Kinds) /\ e \in Seq(Shell!Events) /\ h \in Shell!Kinds
      /\ h \in {"rust-src", "target"}
  BY LoopFacts, ShellFacts
<1>2. /\ Holds(e, h)
      /\ \A k \in Shell!Kinds : Holds(Tail(e), k) => Holds(e, k)
      /\ Alone(e, "rust-src") => Alone(Tail(e), "rust-src")
      /\ Alone(e, "rust-src") /\ h = "rust-src" => ~Holds(Tail(e), "rust-src")
      /\ After(e, "rust-src", "target") /\ h # "rust-src" =>
           After(Tail(e), "rust-src", "target")
      /\ After(e, "rust-src", "target") => h # "target"
  BY <1>1, TailFacts, ZenonT(30)
<1>3. /\ \A k \in Shell!Kinds : Holds(Append(d, h), k) => Holds(d, k) \/ h = k
      /\ Holds(d, "rust-src") \/ h = "rust-src" => Holds(Append(d, h), "rust-src")
      /\ Alone(d, "rust-src") /\ (h = "rust-src" => ~Holds(d, "rust-src")) =>
           Alone(Append(d, h), "rust-src")
      /\ After(d, "rust-src", "target") /\ (h = "target" => Holds(d, "rust-src")) =>
           After(Append(d, h), "rust-src", "target")
  <2> HIDE DEF d, e, h
  <2>1. ASSUME NEW k PROVE Holds(Append(d, h), k) <=> Holds(d, k) \/ h = k
    BY <1>1, AppendFacts
  <2>2. Alone(d, "rust-src") /\ (h = "rust-src" => ~Holds(d, "rust-src")) =>
          Alone(Append(d, h), "rust-src")
    BY <1>1, AppendFacts
  <2>3. After(d, "rust-src", "target") /\ (h = "target" => Holds(d, "rust-src")) =>
          After(Append(d, h), "rust-src", "target")
    BY <1>1, AppendFacts
  <2> QED
    BY <2>1, <2>2, <2>3
<1>4. \A k \in Shell!Kinds : Pending(l, k)' => Pending(l, k)
  BY <1>2, <1>3 DEF Pending
<1>5. Single(d, e) => Single(Append(d, h), Tail(e))
  BY <1>2, <1>3, ShellFacts DEF Single
<1>6. Ordered(d, e) => Ordered(Append(d, h), Tail(e))
  BY <1>1, <1>2, <1>3 DEF Ordered
<1> QED
  BY <1>4, <1>5, <1>6 DEF Lesser

\* What a loop that takes a bootstrap has left.
LEMMA TakenLeaves ==
  ASSUME NEW q \in Shell!LoopState, q.deferred \o q.queue # <<>>, Single(q.deferred, q.queue)
  PROVE  LET t == Shell!Taken(q)
             e == Shell!NextEvent(q) IN
         /\ \A k \in Shell!Kinds : Holds(t.deferred, k) \/ Holds(t.queue, k) =>
              Holds(q.deferred, k) \/ Holds(q.queue, k)
         /\ Holds(q.deferred, e) \/ Holds(q.queue, e)
         /\ Single(t.deferred, t.queue)
         /\ e = "rust-src" => ~Holds(t.deferred, "rust-src") /\ ~Holds(t.queue, "rust-src")
         /\ Ordered(q.deferred, q.queue) => e # "target"
<1> DEFINE t == Shell!Taken(q)
           e == Shell!NextEvent(q)
<1>1. q.queue \in Seq(Shell!Events) /\ q.deferred \in Seq(Shell!Events)
  BY LoopFacts
<1>2. CASE /\ q.deferred = <<>> /\ q.queue # <<>> /\ e = Head(q.queue)
           /\ t.deferred = q.deferred /\ t.queue = Tail(q.queue)
  <2>1. \A k : ~Holds(q.deferred, k)
    BY <1>2 DEF Holds
  <2>2. \A k : Holds(t.queue, k) => Holds(q.queue, k)
    BY <1>1, <1>2, TailFacts
  <2>3. Holds(q.queue, e)
    BY <1>1, <1>2, TailFacts
  <2>4. Single(t.deferred, t.queue)
    BY <1>1, <1>2, <2>1, TailFacts DEF Single
  <2>5. e = "rust-src" => ~Holds(t.queue, "rust-src")
    BY <1>1, <1>2, TailFacts DEF Single
  <2>6. Ordered(q.deferred, q.queue) => e # "target"
    BY <1>1, <1>2, <2>1, TailFacts DEF Ordered
  <2> HIDE DEF t, e
  <2>7. t.deferred = q.deferred
    BY <1>2
  <2> QED
    BY <2>1, <2>2, <2>3, <2>4, <2>5, <2>6, <2>7 DEF t, e
<1>3. CASE /\ q.deferred # <<>> /\ e = Head(q.deferred)
           /\ t.deferred = Tail(q.deferred) /\ t.queue = q.queue
  <2>1. \A k : Holds(t.deferred, k) => Holds(q.deferred, k)
    BY <1>1, <1>3, TailFacts
  <2>2. Holds(q.deferred, e)
    BY <1>1, <1>3, TailFacts
  <2>3. Single(t.deferred, t.queue)
    BY <1>1, <1>3, <2>1, TailFacts DEF Single
  <2>4. e = "rust-src" => ~Holds(t.deferred, "rust-src") /\ ~Holds(t.queue, "rust-src")
    <3> SUFFICES ASSUME e = "rust-src"
                 PROVE  ~Holds(Tail(q.deferred), "rust-src") /\ ~Holds(q.queue, "rust-src")
      BY <1>3
    <3>1. Alone(q.deferred, "rust-src") /\ Head(q.deferred) = "rust-src"
      BY <1>3 DEF Single
    <3>2. ~Holds(Tail(q.deferred), "rust-src")
      BY <1>1, <1>3, <3>1, TailFacts
    <3> QED
      BY <2>2, <3>2 DEF Single
  <2>5. Ordered(q.deferred, q.queue) => e # "target"
    BY <1>1, <1>3, TailFacts DEF Ordered
  <2> HIDE DEF t, e
  <2>6. t.queue = q.queue
    BY <1>3
  <2> QED
    BY <2>1, <2>2, <2>3, <2>4, <2>5, <2>6 DEF t, e
<1> QED
  BY <1>2, <1>3, TakenIs
LEMMA ShellInvStep ==
  ASSUME Shell!TypeOK, ShellInv, [Shell!Next]_(Shell!shellVars)
  PROVE  ShellInv'
<1> USE DEF Shell!pageVars
<1>K. "rust-src" \in Shell!Kinds /\ "target" \in Shell!Kinds
  BY ShellFacts
<1>L. /\ loop \in [Shell!Loops -> Shell!LoopState]
      /\ \A l \in Shell!Loops : loop[l] \in Shell!LoopState
      /\ sysroot \in [Shell!Kinds -> Shell!LoadStates]
  BY DEF Shell!TypeOK
<1>I. /\ InOrder /\ Once /\ Asked /\ Reported /\ Shell!LoadedInOrder /\ Shell!SettledTruth
  BY DEF ShellInv
\* A step that leaves the order of what the loops hold alone.
<1>S. ASSUME UNCHANGED <<sysroot, startup, waiter, abortSeen>>,
             \A l \in Shell!Loops :
               \/ loop'[l].deferred = loop[l].deferred /\ loop'[l].queue = loop[l].queue
                  /\ (loop[l].at = "loading" => loop'[l].at = "loading" /\ loop'[l].kind = loop[l].kind)
               \/ Lesser(l)
      PROVE  ShellInv'
  BY <1>S, LesserKeeps, SameIsLesser
<1>1. ASSUME NEW s \in SessionIds, Shell!CreateSession(s) PROVE ShellInv'
  <2>1. PICK l \in Shell!Loops :
          /\ loop[l].at = "none"
          /\ loop' = [m \in Shell!Loops |->
                  CASE m = l -> [Shell!Unused EXCEPT !.open = TRUE,
                                               !.at = IF s = 0 THEN "command" ELSE "idle"]
                    [] m = table[s] /\ m # l -> [loop[m] EXCEPT !.open = FALSE]
                    [] OTHER -> loop[m]]
    BY <1>1 DEF Shell!CreateSession
  <2>2. loop'[l].deferred = <<>> /\ loop'[l].queue = <<>>
    BY <2>1 DEF Shell!Unused
  <2>3. Lesser(l)
    BY <2>1, <2>2, EmptyIsLesser
  <2>4. \A m \in Shell!Loops : m # l =>
          /\ loop'[m].deferred = loop[m].deferred /\ loop'[m].queue = loop[m].queue
          /\ loop'[m].at = loop[m].at /\ loop'[m].kind = loop[m].kind
    BY <2>1, <1>L DEF Shell!LoopState
  <2>5. UNCHANGED <<sysroot, startup, waiter, abortSeen>>
    BY <1>1 DEF Shell!CreateSession
  <2> QED
    BY <2>3, <2>4, <2>5, <1>S
<1>2. ASSUME NEW s \in SessionIds, Shell!Interrupt(s) \/ Shell!CloseSession(s) PROVE ShellInv'
  <2>1. \A m \in Shell!Loops :
          /\ loop'[m].deferred = loop[m].deferred /\ loop'[m].queue = loop[m].queue
          /\ loop'[m].at = loop[m].at /\ loop'[m].kind = loop[m].kind
    <3>1. CASE Shell!Interrupt(s)
      BY <3>1, <1>L DEF Shell!Interrupt, Shell!LoopState
    <3>2. CASE Shell!CloseSession(s)
      BY <3>2, <1>L DEF Shell!CloseSession, Shell!LoopState
    <3> QED
      BY <1>2, <3>1, <3>2
  <2>2. UNCHANGED <<sysroot, startup, waiter, abortSeen>>
    BY <1>2 DEF Shell!Interrupt, Shell!CloseSession
  <2> QED
    BY <2>1, <2>2, <1>S
<1>3. ASSUME NEW s \in SessionIds, NEW e \in Keys, Shell!Input(s, e) PROVE ShellInv'
  <2>1. table[s] \in Shell!Loops
    BY <1>3, ShellFacts DEF Shell!Input, Shell!TypeOK, Shell!Loops
  <2> DEFINE l == table[s]
  <2>2. e \in Shell!Events /\ e \notin Shell!Kinds /\ loop[l].queue \in Seq(Shell!Events)
    BY <2>1, <1>L, ShellFacts, LoopFacts
  <2>3. loop[l].queue \o <<e>> = Append(loop[l].queue, e)
    BY <2>2, ConcatIs
  <2>4. loop' = [loop EXCEPT ![l].queue = Append(loop[l].queue, e)]
    BY <1>3, <2>3 DEF Shell!Input, Shell!Sent
  <2>5. /\ loop'[l].deferred = loop[l].deferred /\ loop'[l].queue = Append(loop[l].queue, e)
        /\ loop'[l].at = loop[l].at /\ loop'[l].kind = loop[l].kind
        /\ \A m \in Shell!Loops : m # l => loop'[m] = loop[m]
    BY <2>1, <2>4, <1>L DEF Shell!LoopState
  <2>6. Lesser(l)
    BY <2>1, <2>2, <2>5, <1>L, KeyAddedIsLesser
  <2>7. UNCHANGED <<sysroot, startup, waiter, abortSeen>>
    BY <1>3 DEF Shell!Input
  <2> QED
    BY <2>5, <2>6, <2>7, <1>S
<1>4. ASSUME NEW l \in Shell!Loops, Shell!TakeKey(l) PROVE ShellInv'
  <2> DEFINE t == Shell!Taken(loop[l])
             step == IF Shell!NextEvent(loop[l]) = "line" THEN "command" ELSE "idle"
  <2>1. /\ loop[l].queue # <<>> /\ Head(loop[l].queue) \in {"char", "line"}
        /\ t.deferred = loop[l].deferred /\ t.queue = Tail(loop[l].queue)
        /\ t \in Shell!LoopState
    BY <1>4, <1>L, LoopFacts, TakenIs DEF Shell!TakeKey, Shell!FromChannel, Shell!NextEvent
  <2>2. loop' = [loop EXCEPT ![l] = [t EXCEPT !.cancelled = FALSE, !.eof = FALSE, !.at = step]]
    BY <1>4 DEF Shell!TakeKey
  <2> HIDE DEF t, step
  <2>3. /\ loop'[l].deferred = t.deferred /\ loop'[l].queue = t.queue
        /\ \A m \in Shell!Loops : m # l => loop'[m] = loop[m]
    BY <2>1, <2>2, <1>L DEF Shell!LoopState
  <2>4. loop[l].at # "loading" /\ UNCHANGED <<sysroot, startup, waiter, abortSeen>>
    BY <1>4 DEF Shell!TakeKey
  <2>5. Lesser(l)
    BY <2>1, <2>3, <2>4, <1>L, KeyGoneIsLesser, ShellFacts
  <2> QED
    BY <2>3, <2>4, <2>5, <1>S
<1>5. ASSUME NEW l \in Shell!Loops, Shell!TakeBootstrap(l) PROVE ShellInv'
  <2> DEFINE t == Shell!Taken(loop[l])
             k == Shell!NextEvent(loop[l])
             step == IF Shell!Begins(k) THEN "loading" ELSE "idle"
  <2>1. t \in Shell!LoopState /\ k \in Shell!Kinds /\ loop[l].at = "idle"
        /\ loop[l].deferred \o loop[l].queue # <<>>
    BY <1>5, <1>L, TakenIs DEF Shell!TakeBootstrap
  <2>2. Single(loop[l].deferred, loop[l].queue)
    BY <1>I DEF Once
  <2>3. /\ \A j \in Shell!Kinds : Holds(t.deferred, j) \/ Holds(t.queue, j) => Pending(l, j)
        /\ Pending(l, k) /\ Single(t.deferred, t.queue)
        /\ k = "rust-src" => ~Holds(t.deferred, "rust-src") /\ ~Holds(t.queue, "rust-src")
        /\ Ordered(loop[l].deferred, loop[l].queue) => k # "target"
    BY <2>1, <2>2, <1>L, TakenLeaves DEF Pending
  <2>4. loop' = [loop EXCEPT ![l] = [t EXCEPT !.kind = k, !.at = step]]
    BY <1>5 DEF Shell!TakeBootstrap
  <2>5. waiter # "none"
    BY <2>1, <2>3, <1>I DEF Asked
  <2>6. /\ sysroot' = IF Shell!Begins(k) THEN [sysroot EXCEPT ![k] = "Loading"] ELSE sysroot
        /\ UNCHANGED <<startup, waiter, abortSeen>>
    BY <1>5 DEF Shell!TakeBootstrap
  <2> HIDE DEF t, k
  <2>7. /\ loop'[l].deferred = t.deferred /\ loop'[l].queue = t.queue
        /\ loop'[l].at = step /\ loop'[l].kind = k
        /\ \A m \in Shell!Loops : m # l => loop'[m] = loop[m]
    <3> HIDE DEF step
    <3> QED
      BY <2>1, <2>4, <1>L DEF Shell!LoopState
  <2>8. \A m \in Shell!Loops, j \in Shell!Kinds : Pending(m, j)' => Pending(m, j)
    BY <2>3, <2>7 DEF Pending
  <2>9. \A m \in Shell!Loops : Single(loop[m].deferred, loop[m].queue)'
    BY <2>3, <2>7, <1>I DEF Once
  <2>10. CASE k = "rust-src"
    <3>1. sysroot["rust-src"] = "NotStarted" /\ \A m \in Shell!Loops : Pending(m, "rust-src") => m = l
      BY <2>3, <2>10, <1>I DEF Once
    <3>2. sysroot' = [sysroot EXCEPT !["rust-src"] = "Loading"] /\ step = "loading"
      BY <2>6, <2>10, <3>1 DEF Shell!Begins
    <3>3. sysroot'["rust-src"] = "Loading" /\ sysroot'["target"] = sysroot["target"]
      BY <3>2, <1>L, <1>K
    <3>4. sysroot["target"] = "NotStarted"
      BY <3>1, <1>I DEF Shell!LoadedInOrder
    <3>5. \A m \in Shell!Loops : ~Pending(m, "rust-src")'
      BY <2>3, <2>7, <2>8, <2>10, <3>1, <1>K DEF Pending
    <3>6. InOrder'
      BY <2>7, <2>10, <3>1, <3>2, <3>3, <1>I DEF InOrder, RustSettles
    <3>7. Once' /\ Asked'
      BY <2>5, <2>6, <2>9, <3>5 DEF Once, Asked
    <3>8. Reported' /\ Shell!LoadedInOrder' /\ Shell!SettledTruth'
      BY <2>6, <3>1, <3>3, <3>4, <1>I, <1>K DEF Reported, Shell!LoadedInOrder, Shell!SettledTruth
    <3> QED
      BY <3>6, <3>7, <3>8 DEF ShellInv
  <2>11. CASE k = "target"
    <3>1. sysroot["rust-src"] \in {"Ready", "Failed"}
      BY <2>1, <2>3, <2>11, <1>I DEF InOrder, RustSettles
    <3>2. sysroot'["rust-src"] = sysroot["rust-src"]
      BY <2>6, <2>11, <1>L, <1>K
    <3>3. InOrder'
      BY <3>1, <3>2 DEF InOrder, RustSettles
    <3>4. Once' /\ Asked'
      BY <2>5, <2>6, <2>8, <2>9, <3>1, <3>2, <1>I, <1>K DEF Once, Asked
    <3>5. sysroot["target"] = "Ready" => sysroot'["target"] = "Ready"
      BY <2>6, <2>11, <1>L, <1>K DEF Shell!Begins
    <3>6. Reported' /\ Shell!LoadedInOrder' /\ Shell!SettledTruth'
      BY <2>6, <3>1, <3>2, <3>5, <1>I, <1>K, ShellFacts
         DEF Reported, Shell!LoadedInOrder, Shell!SettledTruth
    <3> QED
      BY <3>3, <3>4, <3>6 DEF ShellInv
  <2> QED
    BY <2>1, <2>10, <2>11, ShellFacts
<1>6. ASSUME NEW l \in Shell!Loops, Shell!LoadEnds(l) PROVE ShellInv'
  <2>1. /\ loop' = [loop EXCEPT ![l].at = "idle"] /\ loop[l].at = "loading"
        /\ UNCHANGED <<startup, waiter, abortSeen>>
    BY <1>6 DEF Shell!LoadEnds
  <2>2. PICK o \in {"Ready", "Failed"} : sysroot' = Shell!Finished(loop[l].kind, o)
    BY <1>6 DEF Shell!LoadEnds, Shell!Outcome
  <2>3. /\ \A m \in Shell!Loops :
             loop'[m].deferred = loop[m].deferred /\ loop'[m].queue = loop[m].queue
        /\ \A m \in Shell!Loops : m # l => loop'[m] = loop[m]
    BY <2>1, <1>L DEF Shell!LoopState
  <2>4. loop[l].kind \in Shell!Kinds
    BY <1>L, LoopFacts
  <2>5. \A k \in Shell!Kinds :
          sysroot'[k] = IF k = loop[l].kind /\ sysroot[k] = "Loading" THEN o ELSE sysroot[k]
    BY <2>2, <2>4, <1>L DEF Shell!Finished
  <2>6. \A m \in Shell!Loops, k \in Shell!Kinds : Pending(m, k)' <=> Pending(m, k)
    BY <2>3 DEF Pending
  <2>7. \A m \in Shell!Loops :
          /\ Single(loop[m].deferred, loop[m].queue)' <=> Single(loop[m].deferred, loop[m].queue)
          /\ Ordered(loop[m].deferred, loop[m].queue)' <=> Ordered(loop[m].deferred, loop[m].queue)
    BY <2>3
  <2>8. \A m \in Shell!Loops : RustSettles(m) => RustSettles(m)'
    BY <2>3, <2>5, <1>K DEF RustSettles
  <2>9. InOrder'
    BY <2>7, <2>8, <1>I DEF InOrder
  <2>10. Once'
    BY <2>5, <2>6, <2>7, <1>I, <1>K DEF Once
  <2>11. Asked'
    BY <2>1, <2>5, <2>6, <1>I DEF Asked
  <2>12. Reported' /\ Shell!LoadedInOrder' /\ Shell!SettledTruth'
    BY <2>1, <2>5, <1>I, <1>K DEF Reported, Shell!LoadedInOrder, Shell!SettledTruth
  <2> QED
    BY <2>9, <2>10, <2>11, <2>12 DEF ShellInv
<1>7. ASSUME NEW l \in Shell!Loops,
             Shell!LoopEnds(l) \/ Shell!CommandEnds(l) \/ Shell!ReadStdin(l) \/ Shell!ReceiveClosed(l)
      PROVE  ShellInv'
  <2>1. loop[l].at # "loading"
    BY <1>7 DEF Shell!LoopEnds, Shell!CommandEnds, Shell!ReadStdin, Shell!ReceiveClosed
  <2>2. /\ \A m \in Shell!Loops :
             loop'[m].deferred = loop[m].deferred /\ loop'[m].queue = loop[m].queue
        /\ \A m \in Shell!Loops : m # l => loop'[m] = loop[m]
    <3>1. CASE Shell!LoopEnds(l)
      BY <3>1, <1>L DEF Shell!LoopEnds, Shell!LoopState
    <3>4. CASE Shell!CommandEnds(l)
      BY <3>4, <1>L DEF Shell!CommandEnds, Shell!LoopState
    <3>2. CASE Shell!ReadStdin(l)
      <4>1. CASE loop[l].cancelled
        BY <3>2, <4>1, <1>L DEF Shell!ReadStdin, Shell!LoopState
      <4>2. CASE ~loop[l].cancelled
        BY <3>2, <4>2, <1>L DEF Shell!ReadStdin, Shell!LoopState
      <4> QED
        BY <4>1, <4>2
    <3>3. CASE Shell!ReceiveClosed(l)
      BY <3>3, <1>L DEF Shell!ReceiveClosed, Shell!LoopState
    <3> QED
      BY <1>7, <3>1, <3>2, <3>3, <3>4
  <2>3. UNCHANGED <<sysroot, startup, waiter, abortSeen>>
    BY <1>7 DEF Shell!LoopEnds, Shell!CommandEnds, Shell!ReadStdin, Shell!ReceiveClosed
  <2> QED
    BY <2>1, <2>2, <2>3, <1>S
<1>8. ASSUME NEW l \in Shell!Loops, Shell!Receive(l) PROVE ShellInv'
  <2> DEFINE t == Shell!Received(loop[l])
  <2>1. /\ loop[l].queue # <<>> /\ loop[l].at = "stdin" /\ loop' = [loop EXCEPT ![l] = t]
        /\ UNCHANGED <<sysroot, startup, waiter, abortSeen>>
    BY <1>8 DEF Shell!Receive
  <2>2. /\ t.queue = Tail(loop[l].queue)
        /\ IF Head(loop[l].queue) \in Shell!Kinds
           THEN t.deferred = Append(loop[l].deferred, Head(loop[l].queue))
           ELSE t.deferred = loop[l].deferred
    BY <2>1, <1>L, ReceivedIs
  <2>3. loop'[l] = t /\ \A m \in Shell!Loops : m # l => loop'[m] = loop[m]
    BY <2>1, <1>L
  <2>4. Lesser(l)
    BY <2>1, <2>2, <2>3, <1>L, DeferredIsLesser, KeyGoneIsLesser
  <2> QED
    BY <2>1, <2>3, <2>4, <1>S
<1>9. CASE Shell!Ask
  <2>1. /\ waiter = "none" /\ waiter' = "waiting" /\ UNCHANGED <<sysroot, abortSeen>>
        /\ startup' = [startup EXCEPT !.poll = "due"] /\ loop' = Shell!Sent(0, <<"rust-src", "target">>)
    BY <1>9 DEF Shell!Ask
  <2>2. /\ \A k \in Shell!Kinds : sysroot[k] = "NotStarted"
        /\ startup.status = "loading"
        /\ \A l \in Shell!Loops, k \in Shell!Kinds : ~Pending(l, k)
    BY <2>1, <1>I DEF Asked
  <2>3. startup'.first = startup.first /\ startup'.status = startup.status
    BY <2>1 DEF Shell!TypeOK
  <2>4. Asked' /\ Reported' /\ Shell!LoadedInOrder' /\ Shell!SettledTruth'
    BY <2>1, <2>2, <2>3, <1>I, <1>K DEF Asked, Reported, Shell!LoadedInOrder, Shell!SettledTruth
  <2>5. CASE table[0] = 0
    <3>1. loop' = loop
      BY <2>1, <2>5 DEF Shell!Sent
    <3> QED
      BY <2>1, <2>4, <3>1, <1>I DEF ShellInv, InOrder, RustSettles, Once, Pending
  <2>6. CASE table[0] # 0
    <3>0. PICK l \in Shell!Loops : l = table[0]
      BY <2>6, ShellFacts DEF Shell!TypeOK, Shell!Loops
    <3> DEFINE e == loop[l].queue
               e1 == Append(e, "rust-src")
               e2 == Append(e1, "target")
    <3>1. l \in Shell!Loops /\ e \in Seq(Shell!Events)
      BY <1>L, LoopFacts
    <3>2. "rust-src" \in Shell!Events /\ "target" \in Shell!Events
      BY ShellFacts
    <3>3. e \o <<"rust-src", "target">> = e2
      <4> HIDE DEF e
      <4> QED
        BY <3>1, <3>2, ConcatIs
    <3>4. loop' = [loop EXCEPT ![l].queue = e2]
      BY <2>1, <2>6, <3>0, <3>3 DEF Shell!Sent
    <3>5. /\ loop'[l].deferred = loop[l].deferred /\ loop'[l].queue = e2
          /\ loop'[l].at = loop[l].at /\ loop'[l].kind = loop[l].kind
          /\ \A m \in Shell!Loops : m # l => loop'[m] = loop[m]
      <4> HIDE DEF e2
      <4> QED
        BY <3>1, <3>4, <1>L DEF Shell!LoopState
    <3>6. /\ ~Holds(loop[l].deferred, "rust-src") /\ ~Holds(loop[l].deferred, "target")
          /\ ~Holds(e, "rust-src") /\ ~Holds(e, "target")
      BY <2>2, <3>1, <1>K DEF Pending
    <3>7. e1 \in Seq(Shell!Events) /\ Holds(e1, "rust-src") /\ Alone(e1, "rust-src")
          /\ After(e1, "rust-src", "target")
      <4>1. Alone(e, "rust-src") /\ After(e, "rust-src", "target")
        BY <3>6 DEF Alone, After, Holds
      <4> QED
        BY <3>1, <3>2, <3>6, <4>1, AppendFacts
    <3>8. Alone(e2, "rust-src") /\ After(e2, "rust-src", "target")
      <4> HIDE DEF e1
      <4>1. Alone(e2, "rust-src")
        BY <3>2, <3>7, AppendFacts
      <4>2. After(e2, "rust-src", "target")
        BY <3>2, <3>7, AppendFacts
      <4> QED
        BY <4>1, <4>2
    <3>9. After(loop[l].deferred, "rust-src", "target")
      BY <3>6 DEF After, Holds
    <3> HIDE DEF e2
    <3>10. InOrder'
      <4> SUFFICES ASSUME NEW m \in Shell!Loops PROVE Ordered(loop[m].deferred, loop[m].queue)'
        BY DEF InOrder
      <4>1. CASE m = l
        BY <3>5, <3>8, <3>9, <4>1 DEF Ordered
      <4>2. CASE m # l
        BY <2>2, <3>5, <4>2, <1>K, <1>I DEF Ordered, After, Pending, Holds
      <4> QED
        BY <4>1, <4>2
    <3>11. Once'
      <4>1. \A m \in Shell!Loops : m # l => ~Pending(m, "rust-src")'
        BY <2>2, <3>5, <1>K DEF Pending
      <4>2. \A m \in Shell!Loops : m # l => Single(loop[m].deferred, loop[m].queue)'
        BY <3>5, <1>I DEF Once
      <4>3. Single(loop[l].deferred, loop[l].queue)'
        BY <3>5, <3>6, <3>8, <3>1, <1>I DEF Once, Single
      <4> QED
        BY <2>1, <2>2, <4>1, <4>2, <4>3, <1>K DEF Once
    <3> QED
      BY <2>4, <3>10, <3>11 DEF ShellInv
  <2> QED
    BY <2>5, <2>6
\* The page and the endpoint.
<1>P. ASSUME UNCHANGED <<loop, sysroot>>, Asked', Reported', Shell!SettledTruth'
      PROVE  ShellInv'
  BY <1>P, <1>I DEF ShellInv, InOrder, RustSettles, Once, Pending, Shell!LoadedInOrder
<1>10. CASE Shell!AskTraps
  <2>1. startup'.first = startup.first /\ startup'.status = "failed" /\ startup'.poll = "over"
        /\ waiter' = "waiting" /\ UNCHANGED <<loop, sysroot>>
    BY <1>10 DEF Shell!AskTraps, Shell!TypeOK
  <2>2. Asked' /\ Reported' /\ Shell!SettledTruth'
    BY <2>1, <1>I DEF Asked, Reported, Shell!SettledTruth
  <2> QED
    BY <2>1, <2>2, <1>P
<1>11. CASE Shell!Answered \/ Shell!EndpointFails \/ Shell!AbortWait
  <2>1. waiter = "waiting" /\ waiter' \in {"waiting", "aborted", "rejected", startup.status}
        /\ waiter' # "loading" /\ (waiter' = "aborted" => startup.status # "loading")
        /\ UNCHANGED <<loop, sysroot, startup>>
    BY <1>11 DEF Shell!Answered, Shell!EndpointFails, Shell!AbortWait, Shell!TypeOK
  <2>2. startup.status \in {"loading", "ok", "failed"}
    BY DEF Shell!TypeOK
  <2>3. Asked' /\ Reported' /\ Shell!SettledTruth'
    BY <2>1, <2>2, <1>I DEF Asked, Reported, Shell!SettledTruth
  <2> QED
    BY <2>1, <2>3, <1>P
<1>12. CASE Shell!PollFirst
  <2>1. startup'.first = sysroot["rust-src"] /\ startup'.status = startup.status
        /\ startup'.poll = "second" /\ startup.poll = "due" /\ UNCHANGED <<loop, sysroot, waiter>>
    BY <1>12 DEF Shell!PollFirst, Shell!TypeOK
  <2>2. Asked' /\ Reported' /\ Shell!SettledTruth'
    BY <2>1, <1>I DEF Asked, Reported, Shell!SettledTruth
  <2> QED
    BY <2>1, <2>2, <1>P
<1>13. CASE Shell!PollSecond
  <2> DEFINE result == Shell!Snapshot(startup.first, sysroot["target"])
             settled == IF result = "loading" /\ startup.late THEN "failed" ELSE result
             poll == IF settled = "loading" THEN "due" ELSE "over"
  <2>1. startup' = [startup EXCEPT !.status = settled, !.poll = poll] /\ startup.poll = "second"
        /\ UNCHANGED <<loop, sysroot, waiter>>
    BY <1>13 DEF Shell!PollSecond
  <2>2. settled = "ok" => startup.first = "Ready" /\ sysroot["target"] = "Ready"
    BY DEF Shell!Snapshot
  <2>3. settled = "ok" => \A k \in Shell!Kinds : sysroot[k] = "Ready"
    BY <2>2, <1>I, ShellFacts DEF Reported
  <2>4. settled # "loading" => poll = "over"
    OBVIOUS
  <2> HIDE DEF settled, poll
  <2>5. startup'.first = startup.first /\ startup'.status = settled /\ startup'.poll = poll
    BY <2>1 DEF Shell!TypeOK
  <2>6. waiter # "none"
    BY <2>1, <1>I DEF Asked
  <2>7. waiter # "aborted"
    BY <2>1, <1>I DEF Shell!SettledTruth
  <2>8. Asked' /\ Reported' /\ Shell!SettledTruth'
    BY <2>1, <2>3, <2>4, <2>5, <2>6, <2>7, <1>I DEF Asked, Reported, Shell!SettledTruth
  <2> QED
    BY <2>1, <2>8, <1>P
<1>14. CASE Shell!Deadline
  <2>1. startup'.first = startup.first /\ startup'.status = startup.status
        /\ startup'.poll = startup.poll /\ UNCHANGED <<loop, sysroot, waiter>>
    BY <1>14 DEF Shell!Deadline, Shell!TypeOK
  <2>2. Asked' /\ Reported' /\ Shell!SettledTruth'
    BY <2>1, <1>I DEF Asked, Reported, Shell!SettledTruth, Pending
  <2> QED
    BY <2>1, <2>2, <1>P
<1>15. CASE UNCHANGED Shell!shellVars
  BY <1>15, <1>S DEF Shell!shellVars
<1> QED
  BY <1>1, <1>2, <1>3, <1>4, <1>5, <1>6, <1>7, <1>8, <1>9, <1>10, <1>11, <1>12, <1>13, <1>14,
     <1>15 DEF Shell!Next, Shell!LoopStep

\* A step of the guest is one of the shell's, or leaves it alone.
LEMMA StepOfShell == [Next]_vars => [Shell!Next]_(Shell!shellVars)
  BY DEF Next, vars, shellVars, Shell!shellVars, ToolsStep, ShellStep, ChildStep, ResultsStep,
         MirrorStep

\* The two sysroots are extracted in order, whatever the commands of the session put aside and
\* however many sessions come and go, and the page is told of success only when both are there.
THEOREM BootstrapsAreSound == Spec => []BootstrapsSound
<1>1. Init => Shell!TypeOK /\ ShellInv
  BY ShellTypeInit, ShellInvInit DEF Init
<1>2. Shell!TypeOK /\ ShellInv /\ [Next]_vars => (Shell!TypeOK /\ ShellInv)'
  BY ShellTypeStep, ShellInvStep, StepOfShell
<1>3. Shell!TypeOK /\ ShellInv => BootstrapsSound
  BY DEF ShellInv, BootstrapsSound
<1> QED
  BY <1>1, <1>2, <1>3, PTL DEF Spec

-----------------------------------------------------------------------------
(* The synchronisation of the two file trees (FileSync).                    *)

\* What is excluded takes what is under it along.
Closed(X) == X \subseteq TreePaths /\ \A p \in TreePaths : TreeAncestors[p] \cap X # {} => p \in X
IsTree(t) == t \in Mirror!Trees /\ Mirror!WellFormed(t)

LEMMA SameFinite ==
  ASSUME NEW S
  PROVE  (Mirror!IsFiniteSet(S) <=> IsFiniteSet(S)) /\ Mirror!Cardinality(S) = Cardinality(S)
<1>1. Mirror!IsFiniteSet(S) <=> IsFiniteSet(S)
  BY DEF Mirror!IsFiniteSet, IsFiniteSet
<1>2. Mirror!Cardinality(S) = Cardinality(S)
  BY DEF Mirror!Cardinality, Cardinality
<1> QED BY <1>1, <1>2

LEMMA PathFacts ==
  /\ TreeAncestors \in [TreePaths -> SUBSET TreePaths]
  /\ \A p \in TreePaths : p \notin TreeAncestors[p] /\ IsFiniteSet(TreeAncestors[p])
  /\ \A p, a, b \in TreePaths : a \in TreeAncestors[p] /\ b \in TreeAncestors[a] => b \in TreeAncestors[p]
<1>1. /\ TreeAncestors \in [TreePaths -> SUBSET TreePaths]
      /\ \A p \in TreePaths :
           /\ p \notin TreeAncestors[p] /\ Mirror!IsFiniteSet(TreeAncestors[p])
           /\ \A a \in TreeAncestors[p] : TreeAncestors[a] \subseteq TreeAncestors[p]
  BY GuestAssumption DEF Mirror!PathsAssumption
<1>2. \A p \in TreePaths : IsFiniteSet(TreeAncestors[p])
  BY <1>1, SameFinite
<1> QED BY <1>1, <1>2

LEMMA ExclusionsClosed ==
  /\ Closed(Excluded) /\ Closed(Sysroot) /\ Sysroot \subseteq Excluded
  /\ \A X \in Mirror!Exclusions : Closed(X)
<1>1. \A X \in Runtimes \cup {Excluded, Sysroot} : Closed(X)
  BY GuestAssumption DEF Mirror!PathsAssumption, Closed
<1>2. ASSUME NEW X, NEW Y, Closed(X), Closed(Y) PROVE Closed(X \cup Y)
  BY <1>2 DEF Closed
<1>3. Sysroot \subseteq Excluded
  BY GuestAssumption DEF Mirror!PathsAssumption
<1> QED BY <1>1, <1>2, <1>3 DEF Mirror!Exclusions

LEMMA DepthGrows ==
  ASSUME NEW p \in TreePaths, NEW a \in TreeAncestors[p]
  PROVE  a \in TreePaths /\ Mirror!Depth(a) \in Nat /\ Mirror!Depth(p) \in Nat
         /\ Mirror!Depth(a) < Mirror!Depth(p)
<1>1. a \in TreePaths /\ TreeAncestors[a] \subseteq TreeAncestors[p] /\ a \notin TreeAncestors[a]
  BY PathFacts
<1>2. IsFiniteSet(TreeAncestors[p]) /\ IsFiniteSet(TreeAncestors[a])
  BY <1>1, PathFacts
<1>3. TreeAncestors[a] # TreeAncestors[p]
  BY <1>1
<1>4. /\ Cardinality(TreeAncestors[a]) <= Cardinality(TreeAncestors[p])
      /\ Cardinality(TreeAncestors[p]) # Cardinality(TreeAncestors[a])
  BY <1>1, <1>2, <1>3, FS_Subset
<1>5. Cardinality(TreeAncestors[a]) \in Nat /\ Cardinality(TreeAncestors[p]) \in Nat
  BY <1>2, FS_CardinalityType
<1>6. Mirror!Depth(a) = Cardinality(TreeAncestors[a])
      /\ Mirror!Depth(p) = Cardinality(TreeAncestors[p])
  BY SameFinite DEF Mirror!Depth
<1> QED BY <1>1, <1>4, <1>5, <1>6

\* A snapshot by its entries and what it keeps.
LEMMA SnapshotIs ==
  ASSUME NEW t, IsTree(t), NEW X, Closed(X)
  PROVE  /\ Mirror!Snapshot(t, X).entries \in Mirror!Trees
         /\ \A p \in TreePaths : Mirror!Snapshot(t, X).entries[p] = IF p \in X THEN "none" ELSE t[p]
         /\ Mirror!Snapshot(t, X).keeps \subseteq TreePaths \ X
         /\ \A p \in TreePaths, q \in TreePaths :
              p \in TreeAncestors[q] /\ p \notin X /\ q \in X /\ t[q] # "none" =>
                p \in Mirror!Snapshot(t, X).keeps
         /\ \A p \in Mirror!Snapshot(t, X).keeps :
              \E q \in TreePaths : p \in TreeAncestors[q] /\ q \in X /\ t[q] # "none"
BY DEF Mirror!Snapshot, Mirror!Children, Mirror!Trees, Mirror!Entries, IsTree

\* The steps that make w of c, by path.
Gone(c, w, p) ==
  /\ c.entries[p] # "none" /\ ~(c.entries[p] = "dir" /\ p \in Mirror!Kept(c, w))
  /\ w.entries[p] = "none" \/ (w.entries[p] = "dir") # (c.entries[p] = "dir")
MadeDir(c, w, p) == w.entries[p] = "dir" /\ c.entries[p] # "dir"
MadeFile(c, w, p) == /\ w.entries[p] \in Mirror!Files /\ c.entries[p] # w.entries[p]
                     /\ p \notin Mirror!Kept(c, w)
Step(k, p) == [kind |-> k, path |-> p]

LEMMA StepIs == \A k, p : Step(k, p).kind = k /\ Step(k, p).path = p
BY DEF Step

LEMMA WorkIs ==
  ASSUME NEW c, NEW w
  PROVE  /\ \A u \in Mirror!Work(c, w) :
              /\ u.path \in TreePaths /\ u = Step(u.kind, u.path)
              /\ \/ u.kind = 1 /\ Gone(c, w, u.path)
                 \/ u.kind = 2 /\ MadeDir(c, w, u.path)
                 \/ u.kind = 3 /\ MadeFile(c, w, u.path)
         /\ \A p \in TreePaths : /\ Gone(c, w, p) => Step(1, p) \in Mirror!Work(c, w)
                                 /\ MadeDir(c, w, p) => Step(2, p) \in Mirror!Work(c, w)
                                 /\ MadeFile(c, w, p) => Step(3, p) \in Mirror!Work(c, w)
<1>1. \A u : u \in Mirror!Removals(c, w) <=> \E p \in TreePaths : Gone(c, w, p) /\ u = Step(1, p)
  BY DEF Mirror!Removals, Gone, Step
<1>2. \A u : u \in Mirror!NewDirs(c, w) <=> \E p \in TreePaths : MadeDir(c, w, p) /\ u = Step(2, p)
  BY DEF Mirror!NewDirs, MadeDir, Step
<1>3. \A u : u \in Mirror!NewFiles(c, w) <=> \E p \in TreePaths : MadeFile(c, w, p) /\ u = Step(3, p)
  BY DEF Mirror!NewFiles, MadeFile, Step
<1> QED BY <1>1, <1>2, <1>3, StepIs DEF Mirror!Work

\* What is being brought over, and is not refused: w over c, both without what is in X.
Transfer(t, v, X, c, w) ==
  /\ IsTree(t) /\ IsTree(v) /\ Closed(X)
  /\ c = Mirror!Snapshot(t, X) /\ w = Mirror!Snapshot(v, X) /\ Mirror!Blocked(c, w) = {}

LEMMA TransferFacts ==
  ASSUME NEW t, NEW v, NEW X, NEW c, NEW w, Transfer(t, v, X, c, w)
  PROVE  /\ X \subseteq TreePaths
         /\ \A p \in TreePaths, a \in TreePaths : a \in TreeAncestors[p] /\ a \in X => p \in X
         /\ \A p \in TreePaths : /\ c.entries[p] = IF p \in X THEN "none" ELSE t[p]
                                 /\ w.entries[p] = IF p \in X THEN "none" ELSE v[p]
                                 /\ w.entries[p] \in {"none", "dir"} \cup Mirror!Files
                                 /\ w.entries[p] \in Mirror!Files /\ p \in Mirror!Kept(c, w) =>
                                      c.entries[p] = w.entries[p]
         /\ \A p, q \in TreePaths : p \in TreeAncestors[q] /\ p \notin X /\ q \in X /\ t[q] # "none" =>
                                      p \in Mirror!Kept(c, w)
         /\ \A p \in Mirror!Kept(c, w) : p \in TreePaths /\ p \notin X /\
              \E q \in TreePaths : p \in TreeAncestors[q] /\ q \in X /\ (t[q] # "none" \/ v[q] # "none")
         /\ \A p \in TreePaths : \A a \in TreeAncestors[p] :
              a \in TreePaths /\ (t[p] # "none" => t[a] = "dir") /\ (v[p] # "none" => v[a] = "dir")
<1>1. IsTree(t) /\ IsTree(v) /\ Closed(X) /\ c = Mirror!Snapshot(t, X) /\ w = Mirror!Snapshot(v, X)
  BY DEF Transfer
<1>2. \A p \in Mirror!Kept(c, w) : p \in c.keeps \/ p \in w.keeps
  BY DEF Mirror!Kept
<1>3. \A p \in c.keeps : p \in Mirror!Kept(c, w)
  BY DEF Mirror!Kept
<1>4. \A p \in TreePaths : w.entries[p] \in Mirror!Files /\ p \in Mirror!Kept(c, w) =>
                             c.entries[p] = w.entries[p]
  BY DEF Transfer, Mirror!Blocked
<1>5. X \subseteq TreePaths
      /\ \A p \in TreePaths, a \in TreePaths : a \in TreeAncestors[p] /\ a \in X => p \in X
  BY <1>1 DEF Closed
<1>6. \A p \in TreePaths : \A a \in TreeAncestors[p] :
        a \in TreePaths /\ (t[p] # "none" => t[a] = "dir") /\ (v[p] # "none" => v[a] = "dir")
  BY <1>1, PathFacts DEF IsTree, Mirror!WellFormed
<1>7. \A p \in TreePaths : w.entries[p] \in {"none", "dir"} \cup Mirror!Files
  BY <1>1, SnapshotIs DEF Mirror!Trees, Mirror!Entries
<1>8. \A p \in TreePaths : /\ c.entries[p] = IF p \in X THEN "none" ELSE t[p]
                           /\ w.entries[p] = IF p \in X THEN "none" ELSE v[p]
  BY <1>1, SnapshotIs
<1>9. \A p, q \in TreePaths : p \in TreeAncestors[q] /\ p \notin X /\ q \in X /\ t[q] # "none" =>
                                p \in c.keeps
  BY <1>1, SnapshotIs
<1>10. \A p \in c.keeps : p \in TreePaths /\ p \notin X /\
         \E q \in TreePaths : p \in TreeAncestors[q] /\ q \in X /\ t[q] # "none"
  BY <1>1, SnapshotIs
<1>11. \A p \in w.keeps : p \in TreePaths /\ p \notin X /\
         \E q \in TreePaths : p \in TreeAncestors[q] /\ q \in X /\ v[q] # "none"
  BY <1>1, SnapshotIs
<1> HIDE DEF Transfer
<1>12. \A p \in Mirror!Kept(c, w) : p \in TreePaths /\ p \notin X /\
              \E q \in TreePaths : p \in TreeAncestors[q] /\ q \in X /\ (t[q] # "none" \/ v[q] # "none")
  BY <1>2, <1>10, <1>11
<1> QED BY <1>3, <1>4, <1>5, <1>6, <1>7, <1>8, <1>9, <1>12

\* The tree after a part of the work, by path.
LEMMA AppliedIs ==
  ASSUME NEW t, NEW w, NEW D, t \in Mirror!Trees, w.entries \in Mirror!Trees
  PROVE  /\ Mirror!Applied(t, w, D) \in Mirror!Trees
         /\ \A p \in TreePaths :
              /\ (\E u \in D : u.path = p /\ u.kind # 1) => Mirror!Applied(t, w, D)[p] = w.entries[p]
              /\ ~(\E u \in D : u.path = p /\ u.kind # 1) /\ (\E u \in D : u.path = p) =>
                   Mirror!Applied(t, w, D)[p] = "none"
              /\ ~(\E u \in D : u.path = p) => Mirror!Applied(t, w, D)[p] = t[p]
BY DEF Mirror!Applied, Mirror!Trees, Mirror!Entries

LEMMA BeforeIs ==
  /\ \A k, m \in 1..3 : \A p, q : k < m => Mirror!Before(Step(k, p), Step(m, q))
  /\ \A p \in TreePaths : \A a \in TreeAncestors[p] :
       Mirror!Before(Step(1, p), Step(1, a)) /\ Mirror!Before(Step(2, a), Step(2, p))
BY StepIs, DepthGrows DEF Mirror!Before

\* A directory is removed after what was in it.
LEMMA RemovedAfter ==
  ASSUME NEW t, NEW v, NEW X, NEW c, NEW w, Transfer(t, v, X, c, w),
         NEW D \in Mirror!Prefixes(Mirror!Work(c, w)),
         NEW p \in TreePaths, NEW a \in TreeAncestors[p], Step(1, a) \in D, t[p] # "none"
  PROVE  Step(1, p) \in D
<1>1. D \subseteq Mirror!Work(c, w)
      /\ \A u \in D, x \in Mirror!Work(c, w) : Mirror!Before(x, u) => x \in D
  BY DEF Mirror!Prefixes
<1>2. a \in TreePaths /\ Gone(c, w, a) /\ t[a] = "dir"
  BY <1>1, WorkIs, StepIs, TransferFacts
<1>3. a \notin X /\ c.entries[a] = "dir" /\ a \notin Mirror!Kept(c, w) /\ w.entries[a] # "dir"
  BY <1>2, TransferFacts DEF Gone
<1>4. v[a] # "dir" /\ v[p] = "none"
  BY <1>2, <1>3, TransferFacts
<1>5. p \notin X
  BY <1>2, <1>3, TransferFacts
<1>6. p \notin Mirror!Kept(c, w)
  <2> SUFFICES ASSUME p \in Mirror!Kept(c, w) PROVE FALSE
    OBVIOUS
  <2>1. PICK q \in TreePaths : /\ p \in TreeAncestors[q] /\ q \in X
                               /\ t[q] # "none" \/ v[q] # "none"
    BY TransferFacts
  <2>2. v[q] = "none"
    BY <1>4, <2>1, TransferFacts
  <2>3. a \in TreeAncestors[q]
    BY <1>2, <2>1, PathFacts
  <2> QED BY <1>2, <1>3, <2>1, <2>2, <2>3, TransferFacts
<1>7. Gone(c, w, p)
  BY <1>4, <1>5, <1>6, TransferFacts DEF Gone
<1>8. Step(1, p) \in Mirror!Work(c, w) /\ Mirror!Before(Step(1, p), Step(1, a))
  BY <1>7, WorkIs, BeforeIs
<1> QED BY <1>1, <1>8

\* Wherever the host fails, what it has then is a tree.
LEMMA TransferKeepsTree ==
  ASSUME NEW t, NEW v, NEW X, NEW c, NEW w, Transfer(t, v, X, c, w),
         NEW D \in Mirror!Prefixes(Mirror!Work(c, w))
  PROVE  IsTree(Mirror!Applied(t, w, D))
<1> DEFINE r == Mirror!Applied(t, w, D)
           Made(p) == \E u \in D : u.path = p /\ u.kind # 1
<1>1. D \subseteq Mirror!Work(c, w)
      /\ \A u \in D, x \in Mirror!Work(c, w) : Mirror!Before(x, u) => x \in D
  BY DEF Mirror!Prefixes
<1>2. /\ r \in Mirror!Trees
      /\ \A p \in TreePaths : /\ Made(p) => r[p] = w.entries[p]
                              /\ ~Made(p) /\ (\E u \in D : u.path = p) => r[p] = "none"
                              /\ ~(\E u \in D : u.path = p) => r[p] = t[p]
  <2>1. t \in Mirror!Trees /\ w.entries \in Mirror!Trees
    BY SnapshotIs DEF Transfer, IsTree
  <2> QED BY <2>1, AppliedIs
<1>3. \A u \in D : /\ u.path \in TreePaths /\ u = Step(u.kind, u.path)
                   /\ \/ u.kind = 1 /\ Gone(c, w, u.path)
                      \/ u.kind = 2 /\ MadeDir(c, w, u.path)
                      \/ u.kind = 3 /\ MadeFile(c, w, u.path)
  BY <1>1, WorkIs
<1> HIDE DEF r
<1>4. "dir" \notin Mirror!Files /\ "none" \notin Mirror!Files
  BY DEF Mirror!Files
<1>5. ASSUME NEW p \in TreePaths, r[p] # "none", NEW a \in TreeAncestors[p]
      PROVE  r[a] = "dir"
  <2>1. CASE Made(p)
    <3>1. PICK u \in D : u.path = p /\ u.kind # 1
      BY <2>1
    <3>2. r[p] = w.entries[p] /\ u.kind \in {2, 3} /\ u = Step(u.kind, p)
      BY <1>2, <1>3, <2>1, <3>1
    <3>3. a \in TreePaths /\ p \notin X /\ a \notin X /\ v[a] = "dir" /\ w.entries[a] = "dir"
      BY <1>5, <3>2, TransferFacts
    <3>4. CASE c.entries[a] = "dir"
      <4>1. ~(\E x \in D : x.path = a)
        BY <1>3, <1>4, <3>3, <3>4 DEF Gone, MadeDir, MadeFile
      <4>2. t[a] = "dir"
        BY <3>3, <3>4, TransferFacts
      <4> QED BY <1>2, <3>3, <4>1, <4>2
    <3>5. CASE c.entries[a] # "dir"
      <4>1. Step(2, a) \in Mirror!Work(c, w)
        BY <3>3, <3>5, WorkIs DEF MadeDir
      <4>2. Mirror!Before(Step(2, a), u)
        BY <3>2, BeforeIs
      <4>3. Step(2, a) \in D
        BY <1>1, <4>1, <4>2
      <4>4. Made(a)
        BY <4>3, StepIs
      <4> QED BY <1>2, <3>3, <4>4
    <3> QED BY <3>4, <3>5
  <2>2. CASE ~Made(p)
    <3>1. t[p] # "none" /\ Step(1, p) \notin D
      BY <1>2, <1>5, <2>2, StepIs
    <3>2. a \in TreePaths /\ t[a] = "dir"
      BY <3>1, TransferFacts
    <3>3. Step(1, a) \notin D
      BY <3>1, RemovedAfter
    <3>4. ASSUME NEW u \in D, u.path = a PROVE FALSE
      <4>1. u.kind # 1
        BY <1>3, <3>3, <3>4
      <4>2. c.entries[a] = "dir" \/ a \in X
        BY <3>2, TransferFacts
      <4>3. a \notin X
        BY <1>3, <1>4, <3>2, <3>4, <4>1, TransferFacts DEF MadeDir, MadeFile
      <4>4. u.kind = 3 /\ MadeFile(c, w, a)
        BY <1>3, <3>4, <4>1, <4>2, <4>3 DEF MadeDir
      <4>5. Gone(c, w, a)
        BY <1>4, <4>2, <4>3, <4>4 DEF Gone, MadeFile
      <4>6. Step(1, a) \in Mirror!Work(c, w) /\ Mirror!Before(Step(1, a), u)
        <5>1. u = Step(3, a)
          BY <1>3, <3>4, <4>4
        <5> QED BY <3>2, <4>5, <5>1, WorkIs, BeforeIs
      <4> QED BY <1>1, <3>3, <4>6
    <3> QED BY <1>2, <3>2, <3>4
  <2> QED BY <2>1, <2>2
<1>6. Mirror!WellFormed(r)
  BY <1>5 DEF Mirror!WellFormed
<1> QED BY <1>2, <1>6 DEF r, IsTree

\* When all is done the host is a mirror, but for what is excluded and the directories it is in.
LEMMA TransferMirrors ==
  ASSUME NEW t, NEW v, NEW X, NEW c, NEW w, Transfer(t, v, X, c, w), NEW r,
         r = Mirror!Applied(t, w, Mirror!Work(c, w))
  PROVE  \A p \in TreePaths \ X : r[p] # v[p] =>
           /\ v[p] = "none" /\ r[p] = "dir"
           /\ \E q \in TreePaths : p \in TreeAncestors[q] /\ q \in X /\ r[q] # "none"
<1> DEFINE W == Mirror!Work(c, w)
           Made(p) == \E u \in W : u.path = p /\ u.kind # 1
<1>1. \A p \in TreePaths : /\ Made(p) => r[p] = w.entries[p]
                           /\ ~Made(p) /\ (\E u \in W : u.path = p) => r[p] = "none"
                           /\ ~(\E u \in W : u.path = p) => r[p] = t[p]
  <2>1. t \in Mirror!Trees /\ w.entries \in Mirror!Trees
    BY SnapshotIs DEF Transfer, IsTree
  <2> QED BY <2>1, AppliedIs
<1>2. \A u \in W : /\ u.path \in TreePaths
                   /\ \/ u.kind = 1 /\ Gone(c, w, u.path)
                      \/ u.kind = 2 /\ MadeDir(c, w, u.path)
                      \/ u.kind = 3 /\ MadeFile(c, w, u.path)
  BY WorkIs
<1>3. \A p \in TreePaths : /\ Gone(c, w, p) => \E u \in W : u.path = p
                           /\ MadeDir(c, w, p) => Made(p)
                           /\ MadeFile(c, w, p) => Made(p)
  BY WorkIs, StepIs
<1> HIDE DEF W
<1>4. "dir" \notin Mirror!Files /\ "none" \notin Mirror!Files
  BY DEF Mirror!Files
<1>5. ASSUME NEW p \in X PROVE p \in TreePaths /\ r[p] = t[p]
  <2>1. p \in TreePaths /\ c.entries[p] = "none" /\ w.entries[p] = "none"
    BY TransferFacts
  <2>2. ~(\E u \in W : u.path = p)
    BY <1>2, <1>4, <2>1 DEF Gone, MadeDir, MadeFile
  <2> QED BY <1>1, <2>1, <2>2
<1>6. ASSUME NEW p \in TreePaths \ X, r[p] # v[p]
      PROVE  /\ v[p] = "none" /\ r[p] = "dir"
             /\ \E q \in TreePaths : p \in TreeAncestors[q] /\ q \in X /\ r[q] # "none"
  <2>1. c.entries[p] = t[p] /\ w.entries[p] = v[p]
        /\ w.entries[p] \in {"none", "dir"} \cup Mirror!Files
        /\ (w.entries[p] \in Mirror!Files /\ p \in Mirror!Kept(c, w) => c.entries[p] = w.entries[p])
    BY TransferFacts
  <2>2. ~Made(p)
    BY <1>1, <1>6, <2>1
  <2>3. ~MadeDir(c, w, p) /\ ~MadeFile(c, w, p)
    BY <1>3, <2>2
  <2>4. c.entries[p] # w.entries[p]
    <3> SUFFICES ASSUME c.entries[p] = w.entries[p] PROVE FALSE
      OBVIOUS
    <3>1. ~Gone(c, w, p)
      BY DEF Gone
    <3>2. ~(\E u \in W : u.path = p)
      BY <1>2, <2>3, <3>1
    <3> QED BY <1>1, <1>6, <2>1, <3>2
  <2>5. w.entries[p] = "none"
    BY <2>1, <2>3, <2>4 DEF MadeDir, MadeFile
  <2>6. ~Gone(c, w, p)
    BY <1>1, <1>3, <1>6, <2>1, <2>2, <2>5
  <2>7. c.entries[p] = "dir" /\ p \in Mirror!Kept(c, w)
    BY <2>4, <2>5, <2>6 DEF Gone
  <2>8. r[p] = "dir"
    BY <1>1, <1>2, <2>1, <2>3, <2>6, <2>7
  <2>9. PICK q \in TreePaths : p \in TreeAncestors[q] /\ q \in X /\ (t[q] # "none" \/ v[q] # "none")
    BY <2>7, TransferFacts
  <2>10. v[q] = "none"
    BY <2>1, <2>5, <2>9, TransferFacts
  <2> QED BY <1>5, <2>1, <2>5, <2>8, <2>9, <2>10
<1> QED BY <1>6

\* A child's snapshot c and the live one v are reconciled over the baseline b.
Merge(s, h, l, X, b, c, v) ==
  /\ IsTree(s) /\ IsTree(h) /\ IsTree(l) /\ Closed(X) /\ b = Mirror!Snapshot(s, X)
  /\ c = Mirror!Snapshot(h, X) /\ v = Mirror!Snapshot(l, X)

LEMMA RelatedIs ==
  ASSUME NEW p \in TreePaths, NEW S, S \subseteq TreePaths
  PROVE  Mirror!Related(p, S) <=> \/ p \in S
                                  \/ \E a \in TreeAncestors[p] : a \in S
                                  \/ \E q \in S : p \in TreeAncestors[q]
BY DEF Mirror!Related, Mirror!Children

LEMMA MergeFacts ==
  ASSUME NEW s, NEW h, NEW l, NEW X, NEW b, NEW c, NEW v, Merge(s, h, l, X, b, c, v),
         NEW w, w = Mirror!Reconciled(b, c, v)
  PROVE  /\ w.entries \in Mirror!Trees /\ w.keeps = v.keeps
         /\ \A p \in TreePaths : w.entries[p] # v.entries[p] =>
              /\ p \notin X /\ v.entries[p] = b.entries[p]
              /\ \/ c.entries[p] # b.entries[p] /\ w.entries[p] = c.entries[p]
                 \/ b.entries[p] # "none" /\ c.entries[p] = "none"
         /\ Mirror!Contested(b, c, v) = {} => \A p \in TreePaths :
              v.entries[p] = b.entries[p] => w.entries[p] = c.entries[p]
<1> DEFINE dv == Mirror!Differ(v, b)
           dc == Mirror!Differ(b, c)
           contested == Mirror!Contested(b, c, v)
           taken == {p \in dc : ~Mirror!Related(p, contested)}
<1>1. /\ b.entries \in Mirror!Trees /\ c.entries \in Mirror!Trees /\ v.entries \in Mirror!Trees
      /\ \A p \in X : b.entries[p] = "none" /\ c.entries[p] = "none" /\ v.entries[p] = "none"
      /\ X \subseteq TreePaths
      /\ \A p \in TreePaths, a \in TreePaths : a \in TreeAncestors[p] /\ a \in X => p \in X
      /\ \A p \in TreePaths \ X : b.entries[p] = s[p] /\ c.entries[p] = h[p] /\ v.entries[p] = l[p]
  <2>1. X \subseteq TreePaths
        /\ \A p \in TreePaths, a \in TreePaths : a \in TreeAncestors[p] /\ a \in X => p \in X
    BY DEF Merge, Closed
  <2>2. /\ b.entries \in Mirror!Trees
        /\ \A p \in TreePaths : b.entries[p] = IF p \in X THEN "none" ELSE s[p]
    BY SnapshotIs DEF Merge
  <2>3. /\ c.entries \in Mirror!Trees
        /\ \A p \in TreePaths : c.entries[p] = IF p \in X THEN "none" ELSE h[p]
    BY SnapshotIs DEF Merge
  <2>4. /\ v.entries \in Mirror!Trees
        /\ \A p \in TreePaths : v.entries[p] = IF p \in X THEN "none" ELSE l[p]
    BY SnapshotIs DEF Merge
  <2> QED BY <2>1, <2>2, <2>3, <2>4
<1>2. /\ dv \subseteq TreePaths /\ dc \subseteq TreePaths /\ contested \subseteq TreePaths
      /\ \A p \in TreePaths : /\ p \in dv <=> v.entries[p] # b.entries[p]
                              /\ p \in dc <=> b.entries[p] # c.entries[p]
                              /\ p \in contested <=> p \in dv /\ Mirror!Related(p, dc)
  BY DEF Mirror!Differ, Mirror!Contested
<1>3. /\ w.keeps = v.keeps
      /\ w.entries = [p \in TreePaths |-> IF p \in taken THEN c.entries[p]
                                          ELSE IF TreeAncestors[p] \cap taken # {} THEN "none"
                                          ELSE v.entries[p]]
  <2>1. v = [entries |-> v.entries, keeps |-> v.keeps]
    BY DEF Merge, Mirror!Snapshot
  <2> QED BY <2>1 DEF Mirror!Reconciled
<1> HIDE DEF dv, dc, contested
<1>4. \A p \in taken : p \in TreePaths /\ p \notin X /\ b.entries[p] # c.entries[p]
  BY <1>1, <1>2
<1>5. ASSUME NEW p \in TreePaths, NEW a \in TreeAncestors[p], a \in taken
      PROVE  /\ a \in TreePaths /\ p \notin contested /\ (p \notin X => p \notin dv)
             /\ b.entries[p] # "none" => c.entries[p] = "none"
  <2>1. a \in TreePaths /\ a \in dc /\ ~Mirror!Related(a, contested)
    BY <1>5, PathFacts
  <2>2. p \notin contested
    BY <1>2, <2>1, RelatedIs
  <2>3. Mirror!Related(p, dc)
    BY <1>2, <2>1, RelatedIs
  <2>4. b.entries[p] # "none" => c.entries[p] = "none"
    <3> SUFFICES ASSUME b.entries[p] # "none", c.entries[p] # "none" PROVE FALSE
      OBVIOUS
    <3>1. p \notin X /\ a \notin X /\ s[p] # "none" /\ h[p] # "none"
      BY <1>1, <2>1
    <3>2. s[a] = "dir" /\ h[a] = "dir"
      BY <3>1 DEF Merge, IsTree, Mirror!WellFormed
    <3> QED BY <1>1, <1>2, <2>1, <3>1, <3>2
  <2> QED BY <1>2, <2>1, <2>2, <2>3, <2>4
<1>6. w.entries \in Mirror!Trees
  BY <1>1, <1>3 DEF Mirror!Trees, Mirror!Entries
<1>7. ASSUME NEW p \in TreePaths, w.entries[p] # v.entries[p]
      PROVE  /\ p \notin X /\ v.entries[p] = b.entries[p]
             /\ \/ c.entries[p] # b.entries[p] /\ w.entries[p] = c.entries[p]
                \/ b.entries[p] # "none" /\ c.entries[p] = "none"
  <2>1. CASE p \in taken
    <3>1. p \in dc /\ p \notin contested
      BY <1>2, <2>1, RelatedIs
    <3>2. Mirror!Related(p, dc)
      BY <1>2, <3>1, RelatedIs
    <3> QED BY <1>2, <1>3, <1>4, <2>1, <3>1, <3>2
  <2>2. CASE p \notin taken
    <3>1. PICK a \in TreeAncestors[p] : a \in taken
      BY <1>3, <1>7, <2>2
    <3>2. w.entries[p] = "none"
      BY <1>3, <2>2, <3>1
    <3>3. p \notin X
      BY <1>1, <1>7, <3>2
    <3>4. v.entries[p] = b.entries[p]
      BY <1>2, <1>5, <3>1, <3>3
    <3> QED BY <1>5, <1>7, <3>1, <3>2, <3>3, <3>4
  <2> QED BY <2>1, <2>2
<1>8. ASSUME contested = {}, NEW p \in TreePaths, v.entries[p] = b.entries[p]
      PROVE  w.entries[p] = c.entries[p]
  <2>1. \A q \in TreePaths : ~Mirror!Related(q, contested)
    BY <1>8, RelatedIs
  <2>2. taken = dc
    BY <1>2, <2>1
  <2>3. CASE p \in dc
    BY <1>3, <2>2, <2>3
  <2>4. CASE p \notin dc
    <3>1. b.entries[p] = c.entries[p]
      BY <1>2, <2>4
    <3>2. CASE \E a \in TreeAncestors[p] : a \in taken
      <4>1. PICK a \in TreeAncestors[p] : a \in taken
        BY <3>2
      <4>2. c.entries[p] = "none"
        BY <1>5, <3>1, <4>1
      <4> QED BY <1>3, <2>2, <2>4, <4>1, <4>2
    <3>3. CASE ~(\E a \in TreeAncestors[p] : a \in taken)
      BY <1>3, <1>8, <2>2, <2>4, <3>1, <3>3
    <3> QED BY <3>2, <3>3
  <2> QED BY <2>3, <2>4
<1> QED BY <1>3, <1>6, <1>7, <1>8 DEF contested

\* Where there is no work there is nothing to do, unless something is in the way.
LEMMA NoWorkIs ==
  ASSUME NEW c, NEW w, w.entries \in Mirror!Trees, w.keeps = c.keeps, Mirror!Blocked(c, w) = {},
         NEW p \in TreePaths, \A u \in Mirror!Work(c, w) : u.path # p
  PROVE  c.entries[p] = w.entries[p] \/ (p \in c.keeps /\ w.entries[p] = "none")
<1>1. ~Gone(c, w, p) /\ ~MadeDir(c, w, p) /\ ~MadeFile(c, w, p)
  BY WorkIs, StepIs
<1>2. w.entries[p] \in {"none", "dir"} \cup Mirror!Files
  BY DEF Mirror!Trees, Mirror!Entries
<1>3. p \in Mirror!Kept(c, w) <=> p \in c.keeps
  BY DEF Mirror!Kept
<1>4. w.entries[p] \in Mirror!Files /\ p \in Mirror!Kept(c, w) => c.entries[p] = w.entries[p]
  BY DEF Mirror!Blocked
<1> QED BY <1>1, <1>2, <1>3, <1>4 DEF Gone, MadeDir, MadeFile

\* A removal that is not followed by something made in its place is all there is to do.
LEMMA LastRemoval ==
  ASSUME NEW c, NEW w, w.entries \in Mirror!Trees, NEW p \in TreePaths, Gone(c, w, p),
         Step(2, p) \notin Mirror!Work(c, w), Step(3, p) \notin Mirror!Work(c, w)
  PROVE  w.entries[p] = "none"
<1>1. ~MadeDir(c, w, p) /\ ~MadeFile(c, w, p)
  BY WorkIs
<1>2. w.entries[p] \in {"none", "dir"} \cup Mirror!Files
  BY DEF Mirror!Trees, Mirror!Entries
<1> QED BY <1>1, <1>2 DEF Gone, MadeDir, MadeFile

\* Every step changes the entry of its path.
LEMMA WorkChanges ==
  ASSUME NEW c, NEW w, NEW u \in Mirror!Work(c, w)
  PROVE  u.path \in TreePaths /\ w.entries[u.path] # c.entries[u.path]
<1>1. "dir" \notin Mirror!Files /\ "none" \notin Mirror!Files
  BY DEF Mirror!Files
<1> QED BY <1>1, WorkIs DEF Gone, MadeDir, MadeFile

\* A child runs, or its import is being made.
Running == at \in {"child", "import"}
Merging == at \in {"applying", "checked"}

MirrorTypes ==
  /\ IsTree(vfsTree) /\ IsTree(hostTree) /\ IsTree(start[1]) /\ IsTree(start[2])
  /\ at \in {"off", "idle", "child", "import", "applying", "checked"}
  /\ outcome \in {"none", "imported", "failed"}
  /\ Closed(excluded) /\ conflicts \subseteq TreePaths /\ unseen \subseteq TreePaths
  /\ edited \in [TreePaths -> Mirror!Entries \cup {"-"}]
  /\ at # "checked" => next = {}
  /\ at = "off" => outcome = "none" /\ edited = [p \in TreePaths |-> "-"]
\* What the child was started with.
BaselineKept ==
  Running \/ Merging => treeBase = Mirror!Snapshot(start[1], excluded) /\ Mirror!ChildSeesTheVfs
\* Until the import the VFS differs from the baseline just where the editor wrote.
EditsKnown ==
  Running => \A p \in TreePaths :
    /\ edited[p] = "-" => vfsTree[p] = start[1][p]
    /\ edited[p] # "-" /\ p \notin unseen => edited[p] # treeBase.entries[p]
\* What is left of the work is done in order, where the child wrote and not where the editor did.
WorkLeft ==
  Merging =>
    /\ expected \in Mirror!Trees /\ want.entries \in Mirror!Trees
    /\ todo \subseteq Mirror!Work(cur, want)
    /\ \A u \in Mirror!Work(cur, want) \ todo, x \in todo : ~Mirror!Before(x, u)
    /\ \A u \in todo :
         /\ u.path \notin excluded
         /\ edited[u.path] # "-" /\ u.path \notin unseen => edited[u.path] # expected[u.path]
         /\ edited[u.path] = "-" => \/ hostTree[u.path] # start[2][u.path]
                                    \/ start[1][u.path] = "none" /\ u.kind = 2
\* Where the VFS is as expected, and what it is going to be.
WorkDone ==
  Merging => \A p \in TreePaths \ excluded :
    /\ edited[p] = "-" => vfsTree[p] = expected[p]
    /\ conflicts = {} =>
         /\ (\A u \in todo : u.path # p) =>
              expected[p] = want.entries[p] \/ (p \in cur.keeps /\ want.entries[p] = "none")
         /\ edited[p] = "-" => want.entries[p] = hostTree[p]
\* The path that was found to be free, and has been edited since only unseen.
CheckedFree ==
  at = "checked" => \E u \in todo : /\ next = {u} /\ \A x \in todo : ~Mirror!Before(x, u)
                                    /\ edited[u.path] = "-" \/ u.path \in unseen
MirrorInv ==
  /\ MirrorTypes /\ BaselineKept /\ EditsKnown /\ WorkLeft /\ WorkDone /\ CheckedFree
  /\ Mirror!EditsSurvive /\ Mirror!OthersUntouched /\ Mirror!ReportIsComplete

LEMMA BootTree ==
  ASSUME IsTree(hostTree)
  PROVE  IsTree(Mirror!WithSysroot(Mirror!Authoritative))
<1> DEFINE t == Mirror!Authoritative
           r == Mirror!WithSysroot(t)
<1>1. /\ t \in Mirror!Trees
      /\ \A p \in TreePaths : t[p] # "none" => p \notin Excluded /\ t[p] = hostTree[p]
      /\ (\A p \in TreePaths : t[p] = "none")
         \/ (\A p \in TreePaths \ Excluded : t[p] = hostTree[p])
  <2>1. CASE Mirror!TooMuch(Mirror!Snapshot(hostTree, Excluded))
    BY <2>1 DEF Mirror!Authoritative, Mirror!Empty, Mirror!Trees, Mirror!Entries
  <2>2. CASE ~Mirror!TooMuch(Mirror!Snapshot(hostTree, Excluded))
    <3>1. t = Mirror!Snapshot(hostTree, Excluded).entries
      BY <2>2 DEF Mirror!Authoritative
    <3> HIDE DEF t
    <3> QED BY <3>1, SnapshotIs, ExclusionsClosed
  <2> QED BY <2>1, <2>2
<1> HIDE DEF t
<1>2. r = [p \in TreePaths |-> IF p \in Sysroot THEN hostTree[p] ELSE t[p]]
  BY DEF Mirror!WithSysroot
<1>3. r \in Mirror!Trees
  BY <1>1, <1>2 DEF IsTree, Mirror!Trees
<1>4. ASSUME NEW p \in TreePaths, r[p] # "none", NEW a \in TreeAncestors[p]
      PROVE  r[a] = "dir"
  <2>1. a \in TreePaths /\ (hostTree[p] # "none" => hostTree[a] = "dir")
    BY PathFacts DEF IsTree, Mirror!WellFormed
  <2>2. CASE p \in Sysroot
    <3>1. a \in Sysroot
      BY <2>2, GuestAssumption DEF Mirror!PathsAssumption
    <3> QED BY <1>2, <1>4, <2>1, <2>2, <3>1
  <2>3. CASE p \notin Sysroot
    <3>1. t[p] # "none" /\ p \notin Excluded /\ t[p] = hostTree[p]
      BY <1>1, <1>2, <1>4, <2>3
    <3>2. a \notin Excluded
      BY <3>1, ExclusionsClosed DEF Closed
    <3>3. a \notin Sysroot
      BY <3>2, ExclusionsClosed
    <3>4. t[a] = hostTree[a]
      BY <1>1, <2>1, <3>1, <3>2
    <3> QED BY <1>2, <2>1, <3>1, <3>3, <3>4
  <2> QED BY <2>2, <2>3
<1>5. Mirror!WellFormed(r)
  BY <1>4 DEF Mirror!WellFormed
<1> QED BY <1>3, <1>5 DEF IsTree, t

LEMMA WrittenTree ==
  ASSUME NEW t, IsTree(t), NEW p \in TreePaths, NEW e \in Mirror!Entries, Mirror!MayWrite(t, p, e)
  PROVE  IsTree(Mirror!Written(t, p, e))
<1> DEFINE r == Mirror!Written(t, p, e)
<1>1. r = [q \in TreePaths |-> IF q = p THEN e ELSE IF p \in TreeAncestors[q] THEN "none" ELSE t[q]]
  BY DEF Mirror!Written
<1>2. r \in Mirror!Trees
  BY <1>1 DEF IsTree, Mirror!Trees, Mirror!Entries
<1>3. ASSUME NEW q \in TreePaths, r[q] # "none", NEW a \in TreeAncestors[q]
      PROVE  r[a] = "dir"
  <2>1. a \in TreePaths /\ (t[q] # "none" => t[a] = "dir")
    BY PathFacts DEF IsTree, Mirror!WellFormed
  <2>2. CASE q = p
    <3>1. t[a] = "dir" /\ a # p /\ p \notin TreeAncestors[a]
      BY <2>1, <2>2, PathFacts DEF Mirror!MayWrite
    <3> QED BY <1>1, <2>1, <3>1
  <2>3. CASE q # p
    <3>1. p \notin TreeAncestors[q] /\ t[q] # "none"
      BY <1>1, <1>3, <2>3
    <3>2. a # p /\ p \notin TreeAncestors[a]
      BY <2>1, <3>1, PathFacts
    <3> QED BY <1>1, <2>1, <3>1, <3>2
  <2> QED BY <2>2, <2>3
<1>4. Mirror!WellFormed(r)
  BY <1>3 DEF Mirror!WellFormed
<1> QED BY <1>2, <1>4 DEF IsTree

LEMMA EmptyTree == IsTree(Mirror!Empty)
BY PathFacts DEF IsTree, Mirror!Empty, Mirror!Trees, Mirror!Entries, Mirror!WellFormed

LEMMA MirrorInvInit == Mirror!Init => MirrorInv
<1> SUFFICES ASSUME Mirror!Init PROVE MirrorInv
  OBVIOUS
<1>1. IsTree(hostTree)
  BY GuestAssumption DEF Mirror!Init, Mirror!PathsAssumption, IsTree
<1>2. MirrorTypes
  BY <1>1, EmptyTree, ExclusionsClosed DEF Mirror!Init, MirrorTypes, Mirror!Entries
<1>3. Mirror!EditsSurvive
  BY DEF Mirror!Init, Mirror!EditsSurvive
<1> QED BY <1>2, <1>3 DEF Mirror!Init, MirrorInv, BaselineKept, EditsKnown, WorkLeft, WorkDone,
           CheckedFree, Running, Merging, Mirror!OthersUntouched, Mirror!ReportIsComplete

\* With no child and no import, only the trees and the ghosts matter.
LEMMA AtRest ==
  ASSUME MirrorTypes', at' \in {"off", "idle"}, Mirror!EditsSurvive', outcome' # "imported"
  PROVE  MirrorInv'
BY DEF MirrorInv, BaselineKept, EditsKnown, WorkLeft, WorkDone, CheckedFree, Running, Merging,
       Mirror!OthersUntouched, Mirror!ReportIsComplete

LEMMA BootKeeps == MirrorInv /\ Mirror!Boot => MirrorInv'
<1> SUFFICES ASSUME MirrorInv, Mirror!Boot PROVE MirrorInv'
  OBVIOUS
<1>1. /\ at = "off" /\ at' = "idle" /\ vfsTree' = Mirror!WithSysroot(Mirror!Authoritative)
      /\ UNCHANGED <<hostTree, excluded, conflicts, next, outcome, start, edited, unseen>>
  BY DEF Mirror!Boot, Mirror!applyVars, Mirror!ghostVars
<1>2. IsTree(vfsTree')
  BY <1>1, BootTree DEF MirrorInv, MirrorTypes
<1>3. outcome = "none" /\ edited = [p \in TreePaths |-> "-"]
  BY <1>1 DEF MirrorInv, MirrorTypes
<1>4. MirrorTypes'
  BY <1>1, <1>2 DEF MirrorInv, MirrorTypes
<1>5. Mirror!EditsSurvive'
  BY <1>1, <1>3 DEF Mirror!EditsSurvive
<1> QED BY <1>1, <1>3, <1>4, <1>5, AtRest

LEMMA CrashKeeps == MirrorInv /\ Mirror!Crash => MirrorInv'
<1> SUFFICES ASSUME MirrorInv, Mirror!Crash PROVE MirrorInv'
  OBVIOUS
<1>1. /\ at' = "off" /\ vfsTree' = Mirror!Empty /\ conflicts' = {} /\ next' = {}
      /\ outcome' = "none" /\ edited' = [p \in TreePaths |-> "-"] /\ unseen' = {}
      /\ UNCHANGED <<hostTree, excluded, start>>
  BY DEF Mirror!Crash
<1>2. MirrorTypes'
  BY <1>1, EmptyTree DEF MirrorInv, MirrorTypes
<1>3. Mirror!EditsSurvive'
  BY <1>1 DEF Mirror!EditsSurvive
<1> QED BY <1>1, <1>2, <1>3, AtRest

LEMMA ExportKeeps ==
  ASSUME MirrorInv, NEW X \in Mirror!Exclusions, Mirror!Export(X)
  PROVE  MirrorInv'
<1> DEFINE source == Mirror!Snapshot(vfsTree, X)
           there == Mirror!Snapshot(hostTree, X)
<1>1. /\ at = "idle" /\ excluded' = X
      /\ UNCHANGED <<vfsTree, conflicts, next>>
      /\ IF Mirror!ExportRefused(source, there)
         THEN at' = "idle" /\ outcome' = "failed" /\ UNCHANGED <<hostTree, start, edited, unseen>>
         ELSE /\ at' = "child" /\ outcome' = "none" /\ treeBase' = source
              /\ hostTree' = Mirror!Applied(hostTree, source, Mirror!Work(there, source))
              /\ start' = <<vfsTree, hostTree'>>
              /\ edited' = [p \in TreePaths |-> "-"] /\ unseen' = {}
  BY DEF Mirror!Export, Mirror!applyVars, Mirror!ghostVars
<1>2. Closed(X) /\ IsTree(vfsTree) /\ IsTree(hostTree)
  BY ExclusionsClosed DEF MirrorInv, MirrorTypes
<1>3. CASE Mirror!ExportRefused(source, there)
  <2>1. MirrorTypes'
    BY <1>1, <1>2, <1>3 DEF MirrorInv, MirrorTypes
  <2>2. Mirror!EditsSurvive'
    BY <1>1, <1>3 DEF MirrorInv, Mirror!EditsSurvive
  <2> QED BY <1>1, <1>3, <2>1, <2>2, AtRest
<1>4. CASE ~Mirror!ExportRefused(source, there)
  <2>1. Transfer(hostTree, vfsTree, X, there, source)
    BY <1>2, <1>4 DEF Transfer, Mirror!ExportRefused
  <2>2. Mirror!Work(there, source) \in Mirror!Prefixes(Mirror!Work(there, source))
    BY DEF Mirror!Prefixes
  <2> HIDE DEF source, there
  <2>3. IsTree(hostTree')
    BY <1>1, <1>4, <2>1, <2>2, TransferKeepsTree
  <2>4. start'[1] = vfsTree /\ start'[2] = hostTree'
    BY <1>1, <1>4
  <2>5. MirrorTypes'
    BY <1>1, <1>2, <1>4, <2>3, <2>4 DEF MirrorInv, MirrorTypes, Mirror!Entries
  <2>6. \A p \in TreePaths \ X : start'[2][p] # start'[1][p] =>
           /\ start'[1][p] = "none" /\ start'[2][p] = "dir"
           /\ \E q \in TreePaths : p \in TreeAncestors[q] /\ q \in X /\ start'[2][q] # "none"
    BY <1>1, <1>4, <2>1, <2>4, TransferMirrors
  <2>7. BaselineKept'
    BY <1>1, <1>4, <2>4, <2>6 DEF BaselineKept, Mirror!ChildSeesTheVfs, Mirror!Children, source
  <2>8. EditsKnown' /\ Mirror!EditsSurvive'
    BY <1>1, <1>4, <2>4 DEF EditsKnown, Mirror!EditsSurvive
  <2> QED BY <1>1, <1>4, <2>5, <2>7, <2>8
          DEF MirrorInv, WorkLeft, WorkDone, CheckedFree, Running, Merging,
              Mirror!OthersUntouched, Mirror!ReportIsComplete
<1> QED BY <1>3, <1>4

LEMMA ExportFailsKeeps ==
  ASSUME MirrorInv, NEW X \in Mirror!Exclusions, Mirror!ExportFails(X)
  PROVE  MirrorInv'
<1> DEFINE source == Mirror!Snapshot(vfsTree, X)
           there == Mirror!Snapshot(hostTree, X)
<1>1. /\ at = "idle" /\ excluded' = X /\ outcome' = "failed"
      /\ ~Mirror!ExportRefused(source, there)
      /\ UNCHANGED <<vfsTree, at, conflicts, next, start, edited, unseen>>
      /\ \E D \in Mirror!Prefixes(Mirror!Work(there, source)) :
            hostTree' = Mirror!Applied(hostTree, source, D)
  BY DEF Mirror!ExportFails, Mirror!applyVars, Mirror!ghostVars
<1>2. Closed(X) /\ IsTree(vfsTree) /\ IsTree(hostTree)
  BY ExclusionsClosed DEF MirrorInv, MirrorTypes
<1>3. Transfer(hostTree, vfsTree, X, there, source)
  BY <1>1, <1>2 DEF Transfer, Mirror!ExportRefused
<1> HIDE DEF source, there
<1>4. IsTree(hostTree')
  BY <1>1, <1>3, TransferKeepsTree
<1>5. MirrorTypes'
  BY <1>1, <1>2, <1>4 DEF MirrorInv, MirrorTypes
<1>6. Mirror!EditsSurvive'
  BY <1>1 DEF MirrorInv, Mirror!EditsSurvive
<1> QED BY <1>1, <1>5, <1>6, AtRest

LEMMA ChildWritesKeeps ==
  ASSUME MirrorInv, NEW p \in TreePaths, NEW e \in Mirror!Entries, Mirror!ChildWrites(p, e)
  PROVE  MirrorInv'
<1>1. /\ at = "child" /\ Mirror!MayWrite(hostTree, p, e)
      /\ hostTree' = Mirror!Written(hostTree, p, e)
      /\ UNCHANGED <<vfsTree, at, excluded, treeBase, conflicts, next, outcome, start, edited,
                     unseen>>
  BY DEF Mirror!ChildWrites, Mirror!applyVars, Mirror!ghostVars
<1>2. MirrorTypes'
  BY <1>1, WrittenTree DEF MirrorInv, MirrorTypes
<1>3. BaselineKept' /\ EditsKnown' /\ Mirror!EditsSurvive'
  BY <1>1 DEF MirrorInv, BaselineKept, EditsKnown, Running, Merging, Mirror!ChildSeesTheVfs,
              Mirror!EditsSurvive
<1> QED BY <1>1, <1>2, <1>3 DEF MirrorInv, WorkLeft, WorkDone, CheckedFree, Merging,
           Mirror!OthersUntouched, Mirror!ReportIsComplete

\* What an edit does to a path.
LEMMA EditIs ==
  ASSUME MirrorTypes, NEW p \in TreePaths, NEW e \in Mirror!Entries, Mirror!Edit(p, e)
  PROVE  /\ at # "off" /\ IsTree(vfsTree')
         /\ edited' \in [TreePaths -> Mirror!Entries \cup {"-"}] /\ unseen' \subseteq TreePaths
         /\ \A q \in TreePaths :
              /\ q \in unseen => q \in unseen'
              /\ vfsTree'[q] = vfsTree[q] => edited'[q] = edited[q]
              /\ vfsTree'[q] # vfsTree[q] =>
                   /\ edited'[q] = vfsTree'[q] /\ edited'[q] # "-"
                   /\ vfsTree'[q] = Mirror!Compared(q) => q \in unseen'
                   /\ (\E u \in next : u.path = q) => q \in unseen'
         /\ UNCHANGED <<hostTree, at, excluded, treeBase, cur, want, expected, conflicts, todo,
                        next, outcome, start>>
<1>1. /\ at # "off" /\ Mirror!MayWrite(vfsTree, p, e) /\ vfsTree' = Mirror!Written(vfsTree, p, e)
      /\ edited' = [q \in TreePaths |-> IF vfsTree'[q] # vfsTree[q] THEN vfsTree'[q] ELSE edited[q]]
      /\ unseen' = unseen \cup {q \in TreePaths : /\ vfsTree'[q] # vfsTree[q]
                                   /\ \/ vfsTree'[q] = Mirror!Compared(q)
                                      \/ \E u \in next : Mirror!Related(p, {u.path})}
  BY DEF Mirror!Edit
<1>u. UNCHANGED <<hostTree, at, excluded, treeBase, cur, want, expected, conflicts, todo,
                  next, outcome, start>>
  BY DEF Mirror!Edit, Mirror!applyVars
<1>2. IsTree(vfsTree')
  BY <1>1, WrittenTree DEF MirrorTypes
<1>3. \A q \in TreePaths : vfsTree'[q] \in Mirror!Entries
  BY <1>2 DEF IsTree, Mirror!Trees
<1>4. "-" \notin Mirror!Entries
  BY DEF Mirror!Entries, Mirror!Files
<1>5. ASSUME NEW q \in TreePaths, vfsTree'[q] # vfsTree[q], NEW u \in next, u.path = q
      PROVE  Mirror!Related(p, {u.path})
  <2>1. q = p \/ p \in TreeAncestors[q]
    BY <1>1, <1>5 DEF Mirror!Written
  <2> QED BY <1>5, <2>1, RelatedIs
<1>6. edited' \in [TreePaths -> Mirror!Entries \cup {"-"}] /\ unseen' \subseteq TreePaths
  BY <1>1, <1>3 DEF MirrorTypes
<1>7. \A q \in TreePaths :
        /\ q \in unseen => q \in unseen'
        /\ vfsTree'[q] = vfsTree[q] => edited'[q] = edited[q]
        /\ vfsTree'[q] # vfsTree[q] =>
             /\ edited'[q] = vfsTree'[q] /\ edited'[q] # "-"
             /\ vfsTree'[q] = Mirror!Compared(q) => q \in unseen'
             /\ (\E u \in next : u.path = q) => q \in unseen'
  BY <1>1, <1>3, <1>4, <1>5
<1> QED BY <1>1, <1>u, <1>2, <1>6, <1>7

LEMMA EditKeeps ==
  ASSUME MirrorInv, NEW p \in TreePaths, NEW e \in Mirror!Entries, Mirror!Edit(p, e)
  PROVE  MirrorInv'
<1>0. MirrorTypes
  BY DEF MirrorInv
<1>1. /\ at # "off" /\ IsTree(vfsTree')
      /\ edited' \in [TreePaths -> Mirror!Entries \cup {"-"}] /\ unseen' \subseteq TreePaths
      /\ UNCHANGED <<hostTree, at, excluded, treeBase, cur, want, expected, conflicts, todo,
                     next, outcome, start>>
  BY <1>0, EditIs
<1>2. \A q \in TreePaths :
        /\ q \in unseen => q \in unseen'
        /\ vfsTree'[q] = vfsTree[q] => edited'[q] = edited[q]
        /\ vfsTree'[q] # vfsTree[q] =>
             /\ edited'[q] = vfsTree'[q] /\ edited'[q] # "-"
             /\ vfsTree'[q] = Mirror!Compared(q) => q \in unseen'
             /\ (\E u \in next : u.path = q) => q \in unseen'
  BY <1>0, EditIs
<1>3. MirrorTypes'
  BY <1>0, <1>1 DEF MirrorTypes
<1>4. BaselineKept'
  BY <1>1 DEF MirrorInv, BaselineKept, Running, Merging, Mirror!ChildSeesTheVfs
<1>5. EditsKnown'
  <2> SUFFICES ASSUME Running', NEW q \in TreePaths
               PROVE  /\ edited'[q] = "-" => vfsTree'[q] = start'[1][q]
                      /\ edited'[q] # "-" /\ q \notin unseen' => edited'[q] # treeBase'.entries[q]
    BY DEF EditsKnown
  <2>1. Running /\ Mirror!Compared(q) = treeBase.entries[q]
    BY <1>1 DEF Running, Mirror!Compared
  <2> QED BY <1>1, <1>2, <2>1 DEF MirrorInv, EditsKnown
<1>6. WorkLeft'
  <2> SUFFICES ASSUME Merging' PROVE WorkLeft'
    BY DEF WorkLeft
  <2>1. Merging /\ \A q \in TreePaths : Mirror!Compared(q) = expected[q]
    BY <1>1 DEF Merging, Mirror!Compared
  <2>2. \A u \in todo : u.path \in TreePaths
    BY <2>1, WorkChanges DEF MirrorInv, WorkLeft
  <2>3. ASSUME NEW u \in todo'
        PROVE  /\ u.path \notin excluded'
               /\ edited'[u.path] # "-" /\ u.path \notin unseen' => edited'[u.path] # expected'[u.path]
               /\ edited'[u.path] = "-" => \/ hostTree'[u.path] # start'[2][u.path]
                                           \/ start'[1][u.path] = "none" /\ u.kind = 2
    BY <1>1, <1>2, <2>1, <2>2 DEF MirrorInv, WorkLeft
  <2>4. /\ expected' \in Mirror!Trees /\ want'.entries \in Mirror!Trees
        /\ todo' \subseteq Mirror!Work(cur', want')
        /\ \A u \in Mirror!Work(cur', want') \ todo', x \in todo' : ~Mirror!Before(x, u)
    BY <1>1, <2>1 DEF MirrorInv, WorkLeft
  <2>5. Mirror!Work(cur', want') = Mirror!Work(cur, want)'
    OBVIOUS
  <2> QED BY <2>3, <2>4, <2>5 DEF WorkLeft
<1>7. WorkDone'
  BY <1>1, <1>2 DEF MirrorInv, WorkDone, Merging
<1>8. CheckedFree'
  <2> SUFFICES ASSUME at' = "checked" PROVE CheckedFree'
    BY DEF CheckedFree
  <2>1. PICK u \in todo : /\ next = {u} /\ \A x \in todo : ~Mirror!Before(x, u)
                          /\ edited[u.path] = "-" \/ u.path \in unseen
    BY <1>1 DEF MirrorInv, CheckedFree
  <2>2. u.path \in TreePaths
    BY <1>1, WorkChanges DEF MirrorInv, WorkLeft, Merging
  <2>3. edited'[u.path] = "-" \/ u.path \in unseen'
    BY <1>2, <2>1, <2>2
  <2> QED BY <1>1, <2>1, <2>3 DEF CheckedFree
<1>9. Mirror!EditsSurvive'
  BY <1>1, <1>2 DEF MirrorInv, Mirror!EditsSurvive
<1>10. Mirror!OthersUntouched' /\ Mirror!ReportIsComplete'
  BY <1>1, <1>2 DEF MirrorInv, Mirror!OthersUntouched, Mirror!ReportIsComplete
<1> QED BY <1>3, <1>4, <1>5, <1>6, <1>7, <1>8, <1>9, <1>10 DEF MirrorInv

LEMMA ChildOverKeeps == MirrorInv /\ (Mirror!ChildFails \/ Mirror!ChildEnds) => MirrorInv'
<1>1. ASSUME MirrorInv, Mirror!ChildFails PROVE MirrorInv'
  <2>1. /\ at' = "idle" /\ outcome' = "failed" /\ hostTree' = start[2]
        /\ UNCHANGED <<vfsTree, excluded, conflicts, next, start, edited, unseen>>
    BY <1>1 DEF Mirror!ChildFails, Mirror!applyVars, Mirror!ghostVars
  <2>2. MirrorTypes'
    BY <1>1, <2>1 DEF MirrorInv, MirrorTypes, Mirror!ChildFails
  <2>3. Mirror!EditsSurvive'
    BY <1>1, <2>1 DEF MirrorInv, Mirror!EditsSurvive, Mirror!ChildFails
  <2> QED BY <2>1, <2>2, <2>3, AtRest
<1>2. ASSUME MirrorInv, Mirror!ChildEnds PROVE MirrorInv'
  <2>1. /\ at = "child" /\ at' = "import"
        /\ UNCHANGED <<vfsTree, hostTree, excluded, treeBase, conflicts, next, outcome, start,
                       edited, unseen>>
    BY <1>2 DEF Mirror!ChildEnds, Mirror!applyVars, Mirror!ghostVars
  <2>2. MirrorTypes'
    BY <1>2, <2>1 DEF MirrorInv, MirrorTypes
  <2>3. BaselineKept' /\ EditsKnown' /\ Mirror!EditsSurvive'
    BY <1>2, <2>1 DEF MirrorInv, BaselineKept, EditsKnown, Running, Merging,
                      Mirror!ChildSeesTheVfs, Mirror!EditsSurvive
  <2> QED BY <2>1, <2>2, <2>3 DEF MirrorInv, WorkLeft, WorkDone, CheckedFree, Merging,
             Mirror!OthersUntouched, Mirror!ReportIsComplete
<1> QED BY <1>1, <1>2

LEMMA ImportKeeps == MirrorInv /\ Mirror!Import => MirrorInv'
<1> SUFFICES ASSUME MirrorInv, Mirror!Import PROVE MirrorInv'
  OBVIOUS
<1> DEFINE s == start[1]
           c == Mirror!Snapshot(hostTree, excluded)
           v == Mirror!Snapshot(vfsTree, excluded)
           w == Mirror!Reconciled(treeBase, c, v)
<1>1. at = "import" /\ UNCHANGED <<vfsTree, hostTree, excluded, treeBase, start, edited, unseen>>
  BY DEF Mirror!Import, Mirror!ghostVars
<1>2. CASE at' = "idle" /\ outcome' = "failed" /\ UNCHANGED Mirror!applyVars
  <2>1. MirrorTypes'
    BY <1>1, <1>2 DEF MirrorInv, MirrorTypes, Mirror!applyVars
  <2>2. Mirror!EditsSurvive'
    BY <1>1, <1>2 DEF MirrorInv, Mirror!EditsSurvive
  <2> QED BY <1>2, <2>1, <2>2, AtRest
<1>3. CASE /\ at' = "applying" /\ cur' = v /\ want' = w /\ expected' = v.entries
           /\ conflicts' = Mirror!Contested(treeBase, c, v) \cup Mirror!Blocked(v, w)
           /\ todo' = Mirror!Work(v, w) /\ next' = {} /\ UNCHANGED outcome
  <2>1. Merge(s, hostTree, vfsTree, excluded, treeBase, c, v)
    BY <1>1 DEF MirrorInv, MirrorTypes, BaselineKept, Running, Merge
  <2>2. /\ v.entries \in Mirror!Trees /\ v.keeps \subseteq TreePaths
        /\ \A p \in TreePaths \ excluded : /\ v.entries[p] = vfsTree[p]
                                           /\ c.entries[p] = hostTree[p]
                                           /\ treeBase.entries[p] = start[1][p]
    BY <2>1, SnapshotIs DEF Merge
  <2> HIDE DEF s, c, v
  <2>3. w = Mirror!Reconciled(treeBase, c, v)
    OBVIOUS
  <2> HIDE DEF w
  <2>4. /\ w.entries \in Mirror!Trees /\ w.keeps = v.keeps
        /\ \A p \in TreePaths : w.entries[p] # v.entries[p] =>
             /\ p \notin excluded /\ v.entries[p] = treeBase.entries[p]
             /\ \/ c.entries[p] # treeBase.entries[p] /\ w.entries[p] = c.entries[p]
                \/ treeBase.entries[p] # "none" /\ c.entries[p] = "none"
        /\ Mirror!Contested(treeBase, c, v) = {} => \A p \in TreePaths :
             v.entries[p] = treeBase.entries[p] => w.entries[p] = c.entries[p]
    BY <2>1, <2>3, MergeFacts
  <2>5. conflicts' \subseteq TreePaths
    <3>1. Mirror!Contested(treeBase, c, v) \subseteq TreePaths
      BY DEF Mirror!Contested, Mirror!Differ
    <3>2. Mirror!Blocked(v, w) \subseteq TreePaths
      BY <2>2, <2>4 DEF Mirror!Blocked, Mirror!Kept
    <3> QED BY <1>3, <3>1, <3>2
  <2>6. MirrorTypes'
    BY <1>1, <1>3, <2>5 DEF MirrorInv, MirrorTypes
  <2>7. BaselineKept'
    BY <1>1 DEF MirrorInv, BaselineKept, Running, Mirror!ChildSeesTheVfs
  <2>8. ASSUME NEW u \in Mirror!Work(v, w)
        PROVE  /\ u.path \notin excluded
               /\ edited[u.path] # "-" /\ u.path \notin unseen => edited[u.path] # v.entries[u.path]
               /\ edited[u.path] = "-" => \/ hostTree[u.path] # start[2][u.path]
                                          \/ start[1][u.path] = "none" /\ u.kind = 2
    <3> DEFINE p == u.path
    <3>1. p \in TreePaths /\ w.entries[p] # v.entries[p]
      BY WorkChanges
    <3>2. /\ p \notin excluded /\ vfsTree[p] = start[1][p] /\ v.entries[p] = vfsTree[p]
          /\ treeBase.entries[p] = start[1][p]
          /\ \/ hostTree[p] # start[1][p] /\ w.entries[p] = hostTree[p]
             \/ start[1][p] # "none" /\ hostTree[p] = "none"
      BY <2>2, <2>4, <3>1
    <3>3. edited[p] # "-" /\ p \notin unseen => vfsTree[p] = edited[p] /\ edited[p] # start[1][p]
      BY <1>1, <3>1, <3>2 DEF MirrorInv, Mirror!EditsSurvive, EditsKnown, Running
    <3>4. start[2][p] # start[1][p] => start[1][p] = "none" /\ start[2][p] = "dir"
      BY <1>1, <3>1, <3>2 DEF MirrorInv, BaselineKept, Running, Mirror!ChildSeesTheVfs
    <3>5. \/ u.kind = 1 /\ Gone(v, w, p)
          \/ u.kind = 2
          \/ u.kind = 3 /\ MadeFile(v, w, p)
      BY WorkIs
    <3>6. "dir" \notin Mirror!Files /\ "none" \notin Mirror!Files
      BY DEF Mirror!Files
    <3> HIDE DEF p
    <3>7. \/ hostTree[p] # start[2][p]
          \/ start[1][p] = "none" /\ u.kind = 2
      <4> SUFFICES ASSUME hostTree[p] = start[2][p]
                   PROVE  start[1][p] = "none" /\ u.kind = 2
        OBVIOUS
      <4>1. start[1][p] = "none" /\ start[2][p] = "dir" /\ w.entries[p] = "dir"
        BY <3>2, <3>4
      <4> QED BY <3>2, <3>5, <3>6, <4>1 DEF Gone, MadeFile
    <3> QED BY <3>2, <3>3, <3>7 DEF p
  <2>9. WorkLeft'
    <3>1. Mirror!Work(cur, want)' = Mirror!Work(v, w)
      BY <1>3
    <3>2. todo' = Mirror!Work(v, w) /\ expected' = v.entries /\ want' = w
      BY <1>3
    <3> QED BY <1>1, <2>2, <2>4, <2>8, <3>1, <3>2 DEF WorkLeft
  <2>10. WorkDone'
    <3> SUFFICES ASSUME NEW p \in TreePaths \ excluded
                 PROVE  /\ edited[p] = "-" => vfsTree[p] = v.entries[p]
                        /\ conflicts' = {} =>
                             /\ (\A u \in Mirror!Work(v, w) : u.path # p) =>
                                  \/ v.entries[p] = w.entries[p]
                                  \/ p \in v.keeps /\ w.entries[p] = "none"
                             /\ edited[p] = "-" => w.entries[p] = hostTree[p]
      BY <1>1, <1>3 DEF WorkDone
    <3>1. ASSUME conflicts' = {}, \A u \in Mirror!Work(v, w) : u.path # p
          PROVE  v.entries[p] = w.entries[p] \/ (p \in v.keeps /\ w.entries[p] = "none")
      <4>1. Mirror!Blocked(v, w) = {}
        BY <1>3, <3>1
      <4> QED BY <2>4, <3>1, <4>1, NoWorkIs
    <3>2. ASSUME conflicts' = {}, edited[p] = "-" PROVE w.entries[p] = hostTree[p]
      <4>1. Mirror!Contested(treeBase, c, v) = {}
        BY <1>3, <3>2
      <4>2. vfsTree[p] = start[1][p]
        BY <1>1, <3>2 DEF MirrorInv, EditsKnown, Running
      <4> QED BY <2>2, <2>4, <4>1, <4>2
    <3> QED BY <2>2, <3>1, <3>2
  <2>11. Mirror!OthersUntouched'
    BY <1>1 DEF MirrorInv, EditsKnown, Running, Mirror!OthersUntouched
  <2>12. Mirror!EditsSurvive'
    BY <1>1, <1>3 DEF MirrorInv, Mirror!EditsSurvive
  <2> QED BY <1>3, <2>6, <2>7, <2>9, <2>10, <2>11, <2>12
          DEF MirrorInv, EditsKnown, Running, CheckedFree, Mirror!ReportIsComplete
<1> QED BY <1>2, <1>3 DEF Mirror!Import, Mirror!Live

LEMMA CheckKeeps ==
  ASSUME MirrorInv, NEW u \in todo, Mirror!Check(u)
  PROVE  MirrorInv'
<1>1. /\ at = "applying" /\ \A x \in todo : ~Mirror!Before(x, u)
      /\ UNCHANGED <<vfsTree, hostTree, excluded, treeBase, cur, want, expected, outcome, start,
                     edited, unseen>>
  BY DEF Mirror!Check, Mirror!ghostVars
<1>2. /\ u \in Mirror!Work(cur, want) /\ todo \subseteq Mirror!Work(cur, want)
      /\ u.path \in TreePaths /\ u.path \notin excluded
      /\ edited[u.path] # "-" /\ u.path \notin unseen => edited[u.path] # expected[u.path]
  BY <1>1, WorkChanges DEF MirrorInv, WorkLeft, Merging
<1>3. \/ /\ Mirror!Related(u.path, conflicts)
         /\ todo' = todo \ {u} /\ UNCHANGED <<at, conflicts, next>>
      \/ /\ Mirror!Affected(u) # {}
         /\ todo' = todo \ {u} /\ conflicts' = conflicts \cup Mirror!Affected(u)
         /\ UNCHANGED <<at, next>>
      \/ /\ Mirror!Affected(u) = {}
         /\ at' = "checked" /\ next' = {u} /\ UNCHANGED <<todo, conflicts>>
  BY DEF Mirror!Check
<1>4. Mirror!Affected(u) \subseteq TreePaths
  BY <1>2, PathFacts DEF Mirror!Affected, Mirror!Branch, Mirror!Children
<1>5. MirrorTypes'
  BY <1>1, <1>3, <1>4 DEF MirrorInv, MirrorTypes
<1>6. BaselineKept'
  BY <1>1 DEF MirrorInv, BaselineKept, Merging, Mirror!ChildSeesTheVfs
<1>7. Merging' /\ Merging /\ ~Running' /\ todo' \subseteq todo
      /\ \A x \in todo \ todo' : x = u
  BY <1>1, <1>3 DEF Merging, Running
<1>8. WorkLeft'
  <2>1. Mirror!Work(cur, want)' = Mirror!Work(cur, want)
    BY <1>1
  <2>2. \A x \in Mirror!Work(cur, want) \ todo', y \in todo' : ~Mirror!Before(y, x)
    BY <1>1, <1>7 DEF MirrorInv, WorkLeft
  <2>3. \A x \in todo' :
         /\ x.path \notin excluded'
         /\ edited'[x.path] # "-" /\ x.path \notin unseen' => edited'[x.path] # expected'[x.path]
         /\ edited'[x.path] = "-" => \/ hostTree'[x.path] # start'[2][x.path]
                                     \/ start'[1][x.path] = "none" /\ x.kind = 2
    BY <1>1, <1>7 DEF MirrorInv, WorkLeft
  <2>4. expected' \in Mirror!Trees /\ want'.entries \in Mirror!Trees /\ todo' \subseteq todo
    BY <1>1, <1>7 DEF MirrorInv, WorkLeft
  <2> QED BY <1>2, <2>1, <2>2, <2>3, <2>4 DEF WorkLeft
<1>9. WorkDone'
  <2>1. ASSUME conflicts' = {} PROVE conflicts = {} /\ todo' = todo
    <3>1. conflicts = {}
      BY <1>3, <2>1
    <3>2. ~Mirror!Related(u.path, {})
      BY <1>2, RelatedIs
    <3> QED BY <1>3, <2>1, <3>1, <3>2
  <2>2. \A p \in TreePaths \ excluded : edited[p] = "-" => vfsTree[p] = expected[p]
    BY <1>7 DEF MirrorInv, WorkDone
  <2>3. conflicts = {} => \A p \in TreePaths \ excluded :
         /\ (\A x \in todo : x.path # p) =>
              expected[p] = want.entries[p] \/ (p \in cur.keeps /\ want.entries[p] = "none")
         /\ edited[p] = "-" => want.entries[p] = hostTree[p]
    BY <1>7 DEF MirrorInv, WorkDone
  <2> QED BY <1>1, <2>1, <2>2, <2>3 DEF WorkDone
<1>10. CheckedFree'
  <2> SUFFICES ASSUME at' = "checked" PROVE CheckedFree'
    BY DEF CheckedFree
  <2>1. Mirror!Affected(u) = {} /\ next' = {u} /\ todo' = todo
    BY <1>1, <1>3
  <2>2. expected[u.path] = Mirror!Live.entries[u.path]
    BY <1>2, <2>1 DEF Mirror!Affected, Mirror!Branch
  <2>3. Mirror!Live.entries[u.path] = vfsTree[u.path]
    BY <1>2, SnapshotIs DEF MirrorInv, MirrorTypes, Mirror!Live
  <2>4. edited[u.path] = "-" \/ u.path \in unseen
    BY <1>1, <1>2, <2>2, <2>3 DEF MirrorInv, Mirror!EditsSurvive
  <2> QED BY <1>1, <2>1, <2>4 DEF CheckedFree
<1>11. Mirror!EditsSurvive'
  BY <1>1, <1>3 DEF MirrorInv, Mirror!EditsSurvive
<1>12. Mirror!OthersUntouched'
  BY <1>1 DEF MirrorInv, Mirror!OthersUntouched
<1>13. EditsKnown' /\ Mirror!ReportIsComplete'
  BY <1>7 DEF EditsKnown, Mirror!ReportIsComplete, Merging
<1> QED BY <1>5, <1>6, <1>8, <1>9, <1>10, <1>11, <1>12, <1>13 DEF MirrorInv

LEMMA MutateKeeps == MirrorInv /\ Mirror!Mutate => MirrorInv'
<1> SUFFICES ASSUME MirrorInv, Mirror!Mutate PROVE MirrorInv'
  OBVIOUS
<1>1. /\ at = "checked" /\ next' = {} /\ Merging
      /\ UNCHANGED <<hostTree, excluded, treeBase, cur, want, conflicts, start, edited, unseen>>
  BY DEF Mirror!Mutate, Mirror!ghostVars, Merging
<1>2. PICK u \in todo : /\ next = {u} /\ \A x \in todo : ~Mirror!Before(x, u)
                        /\ edited[u.path] = "-" \/ u.path \in unseen
  BY <1>1 DEF MirrorInv, CheckedFree
<1> DEFINE p == u.path
<1>3. /\ u \in Mirror!Work(cur, want) /\ todo \subseteq Mirror!Work(cur, want)
      /\ p \in TreePaths /\ p \notin excluded /\ u = Step(u.kind, p)
      /\ \/ u.kind = 1 /\ Gone(cur, want, p)
         \/ u.kind = 2 /\ MadeDir(cur, want, p)
         \/ u.kind = 3 /\ MadeFile(cur, want, p)
      /\ expected \in Mirror!Trees /\ want.entries \in Mirror!Trees
      /\ edited[p] = "-" => \/ hostTree[p] # start[2][p]
                            \/ start[1][p] = "none" /\ u.kind = 2
  <2>1. todo \subseteq Mirror!Work(cur, want)
    BY <1>1 DEF MirrorInv, WorkLeft
  <2>2. p \in TreePaths /\ u = Step(u.kind, p)
        /\ \/ u.kind = 1 /\ Gone(cur, want, p)
           \/ u.kind = 2 /\ MadeDir(cur, want, p)
           \/ u.kind = 3 /\ MadeFile(cur, want, p)
    BY <2>1, WorkIs
  <2> QED BY <1>1, <2>1, <2>2 DEF MirrorInv, WorkLeft
<1>4. CASE ~Mirror!Possible(u)
  <2>1. at' = "idle" /\ outcome' = "failed" /\ UNCHANGED vfsTree
    BY <1>2, <1>4 DEF Mirror!Mutate
  <2>2. MirrorTypes'
    BY <1>1, <2>1 DEF MirrorInv, MirrorTypes
  <2>3. Mirror!EditsSurvive'
    BY <1>1, <2>1 DEF MirrorInv, Mirror!EditsSurvive
  <2> QED BY <2>1, <2>2, <2>3, AtRest
<1>5. CASE Mirror!Possible(u)
  <2> DEFINE e == IF u.kind = 1 THEN "none" ELSE want.entries[p]
  <2>1. /\ vfsTree' = [vfsTree EXCEPT ![p] = e] /\ expected' = [expected EXCEPT ![p] = vfsTree'[p]]
        /\ todo' = todo \ {u} /\ at' = "applying" /\ outcome' = outcome
    BY <1>2, <1>5 DEF Mirror!Mutate
  <2>2. vfsTree \in Mirror!Trees /\ Mirror!WellFormed(vfsTree) /\ e \in Mirror!Entries
    BY <1>3 DEF MirrorInv, MirrorTypes, IsTree, Mirror!Trees, Mirror!Entries
  <2> HIDE DEF e
  <2>3. /\ vfsTree' \in Mirror!Trees /\ expected' \in Mirror!Trees
        /\ vfsTree'[p] = e /\ expected'[p] = e
        /\ \A q \in TreePaths : q # p => vfsTree'[q] = vfsTree[q] /\ expected'[q] = expected[q]
    BY <1>3, <2>1, <2>2 DEF Mirror!Trees
  <2>4. /\ \A a \in TreeAncestors[p] : vfsTree[a] = "dir"
        /\ \A q \in TreePaths : p \in TreeAncestors[q] => vfsTree[q] = "none"
    <3>1. \A a \in TreeAncestors[p] : vfsTree[a] = "dir"
      BY <1>5 DEF Mirror!Possible
    <3>2. CASE u.kind = 1
      BY <1>5, <3>1, <3>2 DEF Mirror!Possible, Mirror!Children
    <3>3. CASE u.kind # 1
      <4>1. vfsTree[p] # "dir"
        BY <1>3, <1>5, <3>3 DEF Mirror!Possible, Mirror!Files
      <4> QED BY <1>3, <2>2, <3>1, <4>1 DEF Mirror!WellFormed
    <3> QED BY <3>2, <3>3
  <2>5. Mirror!WellFormed(vfsTree')
    <3> SUFFICES ASSUME NEW q \in TreePaths, vfsTree'[q] # "none", NEW a \in TreeAncestors[q]
                 PROVE  vfsTree'[a] = "dir"
      BY DEF Mirror!WellFormed
    <3>1. a \in TreePaths
      BY PathFacts
    <3>2. CASE q = p
      <4>1. a # p
        BY <1>3, <3>2, PathFacts
      <4> QED BY <2>3, <2>4, <3>1, <3>2, <4>1
    <3>3. CASE q # p
      <4>1. vfsTree[q] # "none" /\ vfsTree[a] = "dir" /\ a # p
        BY <2>2, <2>3, <2>4, <3>3 DEF Mirror!WellFormed
      <4> QED BY <2>3, <3>1, <4>1
    <3> QED BY <3>2, <3>3
  <2>6. MirrorTypes'
    BY <1>1, <2>1, <2>3, <2>5 DEF MirrorInv, MirrorTypes, IsTree
  <2>7. BaselineKept'
    BY <1>1 DEF MirrorInv, BaselineKept, Merging, Mirror!ChildSeesTheVfs
  <2>8. Mirror!EditsSurvive'
    BY <1>1, <1>2, <2>1, <2>3 DEF MirrorInv, Mirror!EditsSurvive
  <2>9. Mirror!OthersUntouched'
    <3> SUFFICES ASSUME NEW q \in TreePaths, edited[q] = "-", vfsTree'[q] # start[1][q]
                 PROVE  q \notin excluded /\ (hostTree[q] # start[2][q]
                                              \/ (start[1][q] = "none" /\ vfsTree'[q] = "dir"))
      BY <1>1 DEF Mirror!OthersUntouched
    <3>1. CASE q # p
      BY <1>1, <2>3, <3>1 DEF MirrorInv, Mirror!OthersUntouched
    <3>2. CASE q = p
      BY <1>3, <2>3, <3>2 DEF e, MadeDir
    <3> QED BY <3>1, <3>2
  <2>10. WorkLeft'
    <3>1. Mirror!Work(cur, want)' = Mirror!Work(cur, want)
      BY <1>1
    <3>2. \A x \in Mirror!Work(cur, want) \ todo', y \in todo' : ~Mirror!Before(y, x)
      BY <1>1, <1>2, <2>1 DEF MirrorInv, WorkLeft
    <3>3. \A x \in todo' :
           /\ x.path \notin excluded'
           /\ edited'[x.path] # "-" /\ x.path \notin unseen' => edited'[x.path] # expected'[x.path]
           /\ edited'[x.path] = "-" => \/ hostTree'[x.path] # start'[2][x.path]
                                       \/ start'[1][x.path] = "none" /\ x.kind = 2
      <4> SUFFICES ASSUME NEW x \in todo
                   PROVE  /\ x.path \notin excluded
                          /\ edited[x.path] # "-" /\ x.path \notin unseen =>
                               edited[x.path] # expected'[x.path]
                          /\ edited[x.path] = "-" => \/ hostTree[x.path] # start[2][x.path]
                                                     \/ start[1][x.path] = "none" /\ x.kind = 2
        BY <1>1, <2>1
      <4>1. x.path \in TreePaths
        BY <1>3, WorkChanges
      <4> QED BY <1>1, <1>2, <2>3, <4>1 DEF MirrorInv, WorkLeft
    <3> QED BY <1>1, <1>3, <2>1, <2>3, <3>1, <3>2, <3>3 DEF WorkLeft
  <2>11. WorkDone'
    <3>1. ASSUME NEW q \in TreePaths \ excluded, edited[q] = "-" PROVE vfsTree'[q] = expected'[q]
      BY <1>1, <2>3, <3>1 DEF MirrorInv, WorkDone
    <3>2. ASSUME conflicts = {}, NEW q \in TreePaths \ excluded, \A x \in todo' : x.path # q
          PROVE  expected'[q] = want.entries[q] \/ (q \in cur.keeps /\ want.entries[q] = "none")
      <4>1. CASE q # p
        <5>1. \A x \in todo : x.path # q
          BY <2>1, <3>2, <4>1
        <5> QED BY <1>1, <2>3, <3>2, <4>1, <5>1 DEF MirrorInv, WorkDone
      <4>2. CASE q = p /\ u.kind # 1
        BY <2>3, <4>2 DEF e
      <4>3. CASE q = p /\ u.kind = 1
        <5>1. ASSUME NEW k \in {2, 3}, Step(k, p) \in Mirror!Work(cur, want) PROVE FALSE
          <6>1. Mirror!Before(u, Step(k, p))
            BY <1>3, <4>3, BeforeIs
          <6>2. Step(k, p) \in todo
            BY <1>1, <5>1, <6>1 DEF MirrorInv, WorkLeft
          <6>3. Step(k, p) # u /\ Step(k, p).path = q
            BY <4>3, StepIs
          <6> QED BY <2>1, <3>2, <6>2, <6>3
        <5>2. want.entries[p] = "none"
          BY <1>3, <4>3, <5>1, LastRemoval
        <5> QED BY <2>3, <4>3, <5>2 DEF e
      <4> QED BY <4>1, <4>2, <4>3
    <3>3. ASSUME conflicts = {}, NEW q \in TreePaths \ excluded, edited[q] = "-"
          PROVE  want.entries[q] = hostTree[q]
      BY <1>1, <3>3 DEF MirrorInv, WorkDone
    <3> QED BY <1>1, <3>1, <3>2, <3>3 DEF WorkDone
  <2> QED BY <2>1, <2>6, <2>7, <2>8, <2>9, <2>10, <2>11
          DEF MirrorInv, EditsKnown, Running, CheckedFree, Mirror!ReportIsComplete
<1> QED BY <1>4, <1>5

LEMMA ImportedKeeps == MirrorInv /\ Mirror!Imported => MirrorInv'
<1> SUFFICES ASSUME MirrorInv, Mirror!Imported PROVE MirrorInv'
  OBVIOUS
<1>1. /\ at = "applying" /\ todo = {} /\ at' = "idle" /\ outcome' = "imported" /\ Merging
      /\ UNCHANGED <<vfsTree, hostTree, excluded, treeBase, cur, conflicts, next, start, edited,
                     unseen>>
  BY DEF Mirror!Imported, Mirror!applyVars, Mirror!ghostVars, Merging
<1>2. MirrorTypes'
  BY <1>1 DEF MirrorInv, MirrorTypes
<1>3. Mirror!EditsSurvive' /\ Mirror!OthersUntouched'
  BY <1>1 DEF MirrorInv, Mirror!EditsSurvive, Mirror!OthersUntouched
<1>4. Mirror!ReportIsComplete'
  BY <1>1 DEF MirrorInv, WorkDone, Mirror!ReportIsComplete
<1> QED BY <1>1, <1>2, <1>3, <1>4
        DEF MirrorInv, BaselineKept, EditsKnown, WorkLeft, WorkDone, CheckedFree, Running, Merging

LEMMA MirrorStutters == MirrorInv /\ UNCHANGED Mirror!fileVars => MirrorInv'
<1> SUFFICES ASSUME MirrorInv, UNCHANGED Mirror!fileVars PROVE MirrorInv'
  OBVIOUS
<1>1. UNCHANGED <<vfsTree, hostTree, at, excluded, treeBase, cur, want, expected, conflicts, todo,
                  next, outcome, start, edited, unseen>>
  BY DEF Mirror!fileVars, Mirror!applyVars, Mirror!ghostVars
<1>2. MirrorTypes' /\ BaselineKept' /\ EditsKnown' /\ CheckedFree'
  BY <1>1 DEF MirrorInv, MirrorTypes, BaselineKept, EditsKnown, CheckedFree, Running, Merging,
              Mirror!ChildSeesTheVfs
<1>3. WorkLeft' /\ WorkDone'
  <2>1. Mirror!Work(cur, want)' = Mirror!Work(cur, want)
    BY <1>1
  <2> QED BY <1>1, <2>1 DEF MirrorInv, WorkLeft, WorkDone, Merging
<1>4. Mirror!EditsSurvive' /\ Mirror!OthersUntouched' /\ Mirror!ReportIsComplete'
  BY <1>1 DEF MirrorInv, Mirror!EditsSurvive, Mirror!OthersUntouched, Mirror!ReportIsComplete
<1> QED BY <1>2, <1>3, <1>4 DEF MirrorInv

LEMMA MirrorInvStep == MirrorInv /\ [Mirror!Next]_(Mirror!fileVars) => MirrorInv'
BY BootKeeps, CrashKeeps, ExportKeeps, ExportFailsKeeps, ChildWritesKeeps, EditKeeps,
   ChildOverKeeps, ImportKeeps, CheckKeeps, MutateKeeps, ImportedKeeps, MirrorStutters
DEF Mirror!Next

\* A step of the guest is one of the synchronisation's, or leaves it alone.
LEMMA StepOfMirror == [Next]_vars => [Mirror!Next]_(Mirror!fileVars)
  BY DEF Next, vars, mirrorVars, Mirror!fileVars, Mirror!applyVars, Mirror!ghostVars,
         Mirror!boundVars, ToolsStep, ShellStep, ChildStep, ResultsStep, MirrorStep

LEMMA MirrorInvHolds == Spec => []MirrorInv
<1>1. Init => MirrorInv
  BY MirrorInvInit DEF Init
<1>2. MirrorInv /\ [Next]_vars => MirrorInv'
  BY MirrorInvStep, StepOfMirror
<1> QED BY <1>1, <1>2, PTL DEF Spec

\* A child starts on a mirror of the VFS whatever was left on the host, both trees stay trees
\* wherever a call fails, and an import touches nothing that neither the child nor the editor
\* changed.
THEOREM MirrorIsSound == Spec => []MirrorSound
<1>1. MirrorInv => MirrorSound
  <2> SUFFICES ASSUME MirrorInv PROVE MirrorSound
    OBVIOUS
  <2>1. Mirror!Cardinality(next) <= 1
    <3>1. next = {} \/ \E u \in todo : next = {u}
      BY DEF MirrorInv, MirrorTypes, CheckedFree
    <3>2. Cardinality(next) = 0 \/ Cardinality(next) = 1
      BY <3>1, FS_EmptySet, FS_Singleton
    <3> QED BY <3>2, SameFinite
  <2>2. Mirror!TypeOK
    BY <2>1 DEF MirrorInv, MirrorTypes, IsTree, Closed, Mirror!TypeOK
  <2>3. Mirror!ChildSeesTheVfs
    BY DEF MirrorInv, BaselineKept, Running, Merging, Mirror!ChildSeesTheVfs
  <2> QED BY <2>2, <2>3 DEF MirrorInv, MirrorSound
<1> QED BY <1>1, MirrorInvHolds, PTL

\* An import loses no edit that its checks can see, and brings over all that it does not report
\* as a conflict, in every order of edits, checks and changes.
THEOREM ImportIsSound == Spec => []ImportSound
<1>1. MirrorInv => ImportSound
  BY DEF MirrorInv, ImportSound
<1> QED BY <1>1, MirrorInvHolds, PTL

-----------------------------------------------------------------------------
(* The memory of the analyzer's answers (LspResultMemory).                  *)

Blocks == [requested : Sizes, capacity : Nat \ {0}]

\* Regions that do not overlap; what they cover.
Covers(q, b) == \E i \in DOMAIN q : b \in Results!Bytes(q[i])
RegionsApart(q) ==
  /\ q \in Seq(Results!Regions) /\ \A i \in DOMAIN q : q[i].capacity > 0
  /\ \A i, j \in DOMAIN q : \A b \in Nat :
       b \in Results!Bytes(q[i]) /\ b \in Results!Bytes(q[j]) => i = j
Block(A, p) == p..(p + A[p].capacity - 1)
\* The free regions and the allocated blocks are all of some space, and no byte of it is twice
\* in them.
Partition(q, A, space) ==
  /\ RegionsApart(q)
  /\ DOMAIN A \subseteq Nat /\ A \in [DOMAIN A -> Blocks]
  /\ \A b \in Nat : b \in space <=> Covers(q, b) \/ \E p \in DOMAIN A : b \in Block(A, p)
  /\ \A p \in DOMAIN A : \A b \in Block(A, p) : ~Covers(q, b)
  /\ \A p, r \in DOMAIN A : \A b \in Nat : b \in Block(A, p) /\ b \in Block(A, r) => p = r

LEMMA RegionIs ==
  ASSUME NEW q, RegionsApart(q), NEW i \in DOMAIN q
  PROVE  /\ q[i] \in Results!Regions /\ q[i].ptr \in Nat /\ q[i].capacity \in Nat
         /\ q[i].capacity > 0
         /\ \A b : b \in Results!Bytes(q[i]) <=>
                     b \in Nat /\ q[i].ptr <= b /\ b < q[i].ptr + q[i].capacity
<1>1. q \in Seq(Results!Regions) /\ q[i].capacity > 0
  BY DEF RegionsApart
<1>2. q[i] \in Results!Regions
  BY <1>1
<1>3. q[i].ptr \in Nat /\ q[i].capacity \in Nat
  BY <1>2 DEF Results!Regions
<1> QED BY <1>1, <1>2, <1>3 DEF Results!Bytes

LEMMA GrownApart ==
  ASSUME NEW q, RegionsApart(q), NEW r \in Results!Regions, r.capacity > 0,
         \A b \in Results!Bytes(r) : ~Covers(q, b)
  PROVE  /\ RegionsApart(Append(q, r))
         /\ \A b : Covers(Append(q, r), b) <=> Covers(q, b) \/ b \in Results!Bytes(r)
<1> DEFINE s == Append(q, r)
<1>1. q \in Seq(Results!Regions)
  BY DEF RegionsApart
<1>2. /\ s \in Seq(Results!Regions) /\ DOMAIN s = DOMAIN q \cup {Len(q) + 1}
      /\ Len(q) + 1 \notin DOMAIN q /\ s[Len(q) + 1] = r
      /\ \A i \in DOMAIN q : s[i] = q[i]
  BY <1>1, AppendProperties
<1> HIDE DEF s
<1>3. \A i \in DOMAIN s : s[i].capacity > 0
  BY <1>2 DEF RegionsApart
<1>4. \A b : Covers(s, b) <=> Covers(q, b) \/ b \in Results!Bytes(r)
  BY <1>2 DEF Covers
<1>5. ASSUME NEW i \in DOMAIN s, NEW j \in DOMAIN s, NEW b \in Nat,
             b \in Results!Bytes(s[i]), b \in Results!Bytes(s[j])
      PROVE  i = j
  BY <1>2, <1>5 DEF RegionsApart, Covers
<1> QED BY <1>2, <1>3, <1>4, <1>5 DEF RegionsApart, s

\* What allocate() takes out of the free regions.
LEMMA CarveFacts ==
  ASSUME NEW q, RegionsApart(q), NEW c \in Nat \ {0}, Results!Fits(q, c) # {}
  PROVE  LET carved == Results!Carve(q, c) IN
         /\ carved.ptr \in Nat /\ RegionsApart(carved.rest)
         /\ \A b : Covers(q, b) <=> Covers(carved.rest, b) \/ b \in carved.ptr..(carved.ptr + c - 1)
         /\ \A b \in carved.ptr..(carved.ptr + c - 1) : ~Covers(carved.rest, b)
<1> DEFINE i == Results!FirstFit(q, c)
           carved == Results!Carve(q, c)
           rest == carved.rest
           block == carved.ptr..(carved.ptr + c - 1)
<1>1. q \in Seq(Results!Regions) /\ DOMAIN q = 1..Len(q) /\ Len(q) \in Nat
  BY DEF RegionsApart
<1>2. i \in DOMAIN q /\ q[i].capacity >= c
  <2>1. Results!Fits(q, c) \in SUBSET Nat
    BY <1>1 DEF Results!Fits
  <2>2. \E k \in Results!Fits(q, c) : \A m \in Results!Fits(q, c) : k <= m
    BY <2>1, LeastNatural
  <2>3. i \in Results!Fits(q, c)
    BY <2>2 DEF Results!FirstFit
  <2> QED BY <2>3 DEF Results!Fits
<1>3. /\ carved.ptr = q[i].ptr
      /\ rest = IF q[i].capacity = c THEN Results!SwapRemove(q, i)
                ELSE [q EXCEPT ![i] = [ptr |-> q[i].ptr + c, capacity |-> q[i].capacity - c]]
  BY DEF Results!Carve
<1> HIDE DEF i, carved, rest
<1>4. \A k \in DOMAIN q :
        /\ q[k] \in Results!Regions /\ q[k].ptr \in Nat /\ q[k].capacity \in Nat /\ q[k].capacity > 0
        /\ \A b : b \in Results!Bytes(q[k]) <=> b \in Nat /\ q[k].ptr <= b /\ b < q[k].ptr + q[k].capacity
  BY RegionIs
<1>5. \A b : b \in block <=> b \in Nat /\ q[i].ptr <= b /\ b < q[i].ptr + c
  BY <1>2, <1>3, <1>4
<1>6. \A k, m \in DOMAIN q : \A b \in Nat :
        b \in Results!Bytes(q[k]) /\ b \in Results!Bytes(q[m]) => k = m
  BY DEF RegionsApart
<1> HIDE DEF block
<1> DEFINE CarvedOut ==
             /\ RegionsApart(rest) /\ \A b : Covers(q, b) <=> Covers(rest, b) \/ b \in block
             /\ \A b \in block : ~Covers(rest, b)
<1>7. ASSUME q[i].capacity = c PROVE CarvedOut
  <2> DEFINE from(k) == IF k = i THEN Len(q) ELSE k
  <2>1. rest = [k \in 1..(Len(q) - 1) |-> IF k = i THEN q[Len(q)] ELSE q[k]]
    BY <1>3, <1>7 DEF Results!SwapRemove
  <2>2. Len(q) \in DOMAIN q /\ \A k \in 1..(Len(q) - 1) : k \in DOMAIN q /\ from(k) \in DOMAIN q
    BY <1>1, <1>2
  <2>3. rest \in [1..(Len(q) - 1) -> Results!Regions]
    BY <2>1, <2>2, <1>4
  <2>4. rest \in Seq(Results!Regions) /\ DOMAIN rest = 1..(Len(q) - 1)
    <3>1. Len(q) - 1 \in Nat
      BY <1>1, <1>2
    <3> QED BY <2>3, <3>1
  <2>5. \A k \in DOMAIN rest : rest[k] = q[from(k)] /\ from(k) \in DOMAIN q /\ from(k) # i
    BY <1>1, <1>2, <2>1, <2>2, <2>4
  <2>6. \A k, m \in DOMAIN rest : from(k) = from(m) => k = m
    BY <1>1, <2>4
  <2>7. \A k \in DOMAIN q : k # i => \E m \in DOMAIN rest : rest[m] = q[k]
    <3> SUFFICES ASSUME NEW k \in DOMAIN q, k # i PROVE \E m \in DOMAIN rest : rest[m] = q[k]
      OBVIOUS
    <3>1. CASE k = Len(q)
      <4>1. i \in DOMAIN rest /\ rest[i] = q[Len(q)]
        BY <1>1, <1>2, <2>1, <2>4, <3>1
      <4> QED BY <3>1, <4>1
    <3>2. CASE k # Len(q)
      <4>1. k \in DOMAIN rest /\ rest[k] = q[k]
        BY <1>1, <2>1, <2>4, <3>2
      <4> QED BY <4>1
    <3> QED BY <3>1, <3>2
  <2> HIDE DEF from
  <2>8. \A b : b \in block <=> b \in Results!Bytes(q[i])
    BY <1>2, <1>4, <1>5, <1>7
  <2>9. RegionsApart(rest)
    BY <1>4, <1>6, <2>4, <2>5, <2>6 DEF RegionsApart
  <2>10. \A b : Covers(q, b) <=> Covers(rest, b) \/ b \in block
    BY <1>2, <2>5, <2>7, <2>8 DEF Covers
  <2>11. \A b \in block : ~Covers(rest, b)
    BY <1>2, <1>5, <1>6, <2>5, <2>8 DEF Covers
  <2> QED BY <2>9, <2>10, <2>11
<1>8. ASSUME q[i].capacity # c PROVE CarvedOut
  <2> DEFINE r == [ptr |-> q[i].ptr + c, capacity |-> q[i].capacity - c]
  <2>1. rest = [q EXCEPT ![i] = r]
    BY <1>3, <1>8
  <2>2. r.ptr = q[i].ptr + c /\ r.capacity = q[i].capacity - c
    OBVIOUS
  <2>3. r.ptr \in Nat /\ r.capacity \in Nat /\ r.capacity > 0
    BY <1>2, <1>4, <1>8
  <2>4. r \in Results!Regions
    BY <2>3 DEF Results!Regions
  <2> HIDE DEF r
  <2>5. /\ rest \in Seq(Results!Regions) /\ DOMAIN rest = DOMAIN q
        /\ rest[i] = r /\ \A k \in DOMAIN q : k # i => rest[k] = q[k]
    BY <1>1, <1>2, <2>1, <2>4, ExceptSeq
  <2>6. \A b : b \in Results!Bytes(r) <=> b \in Nat /\ q[i].ptr + c <= b /\ b < q[i].ptr + q[i].capacity
    BY <1>2, <1>4, <2>2, <2>3 DEF Results!Bytes
  <2>7. \A b : b \in Results!Bytes(q[i]) <=> b \in block \/ b \in Results!Bytes(r)
    BY <1>2, <1>4, <1>5, <2>6
  <2>8. \A b \in block : b \notin Results!Bytes(r) /\ b \in Nat
    BY <1>2, <1>4, <1>5, <2>6
  <2>9. RegionsApart(rest)
    BY <1>4, <1>6, <2>3, <2>5, <2>7 DEF RegionsApart
  <2>10. \A b : Covers(q, b) <=> Covers(rest, b) \/ b \in block
    BY <1>2, <2>5, <2>7 DEF Covers
  <2>11. \A b \in block : ~Covers(rest, b)
    BY <1>2, <1>6, <2>5, <2>7, <2>8 DEF Covers
  <2> QED BY <2>9, <2>10, <2>11
<1>9. CarvedOut
  BY <1>7, <1>8
<1> QED BY <1>2, <1>3, <1>4, <1>9 DEF carved, rest, block

LEMMA CountOf ==
  ASSUME NEW n \in Nat
  PROVE  IsFiniteSet(1..n) /\ Cardinality(1..n) = n
<1>1. \A a, b \in Int : IsFiniteSet(a..b) /\ Cardinality(a..b) = IF a > b THEN 0 ELSE b - a + 1
  BY FS_Interval
<1>2. 1 \in Int /\ n \in Int
  OBVIOUS
<1>3. IsFiniteSet(1..n) /\ Cardinality(1..n) = IF 1 > n THEN 0 ELSE n - 1 + 1
  BY <1>1, <1>2
<1> QED BY <1>3

LEMMA ResultsCount ==
  ASSUME NEW S
  PROVE  Results!Cardinality(S) = Cardinality(S)
BY DEF Results!Cardinality, Cardinality

\* The k-th of finitely many numbers.
LEMMA NthFacts ==
  ASSUME NEW numbers \in SUBSET Nat, IsFiniteSet(numbers)
  PROVE  /\ Cardinality(numbers) \in Nat
         /\ \A k \in 1..Cardinality(numbers) : Results!Nth(numbers, k) \in numbers
         /\ \A k, l \in 1..Cardinality(numbers) :
              Results!Nth(numbers, k) = Results!Nth(numbers, l) => k = l
         /\ \A n \in numbers : \E k \in 1..Cardinality(numbers) : Results!Nth(numbers, k) = n
<1> DEFINE c == Cardinality(numbers)
           upTo(n) == {m \in numbers : m <= n}
           rank == [n \in numbers |-> Cardinality(upTo(n))]
<1>1. c \in Nat
  BY FS_CardinalityType
<1>2. ASSUME NEW n \in numbers
      PROVE  IsFiniteSet(upTo(n)) /\ Cardinality(upTo(n)) \in 1..c
  <2> DEFINE below == upTo(n)
  <2>1. below \in SUBSET numbers /\ n \in below
    OBVIOUS
  <2> HIDE DEF below
  <2>2. IsFiniteSet(below) /\ Cardinality(below) <= c
    BY <2>1, FS_Subset
  <2>3. Cardinality(below) \in Nat /\ Cardinality(below) # 0
    BY <2>1, <2>2, FS_EmptySet, FS_CardinalityType
  <2> QED BY <1>1, <2>2, <2>3 DEF below
<1>3. ASSUME NEW n \in numbers, NEW m \in numbers, n < m
      PROVE  Cardinality(upTo(n)) # Cardinality(upTo(m))
  <2> DEFINE lower == upTo(n)
             higher == upTo(m)
  <2>1. IsFiniteSet(higher)
    BY <1>2
  <2>2. n \in Nat /\ m \in Nat /\ \A k \in numbers : k \in Nat
    OBVIOUS
  <2>3. \A k \in numbers : k <= n => k <= m
    BY <1>3, <2>2
  <2>4. lower \in SUBSET higher
    BY <2>3, Zenon
  <2>5. m \in higher /\ m \notin lower
    BY <1>3, <2>2
  <2> HIDE DEF lower, higher
  <2>6. Cardinality(lower) # Cardinality(higher)
    BY <2>1, <2>4, <2>5, FS_Subset
  <2> QED BY <2>6 DEF lower, higher
<1> HIDE DEF upTo
<1>4. \A n, m \in numbers : Cardinality(upTo(n)) = Cardinality(upTo(m)) => n = m
  <2> SUFFICES ASSUME NEW n \in numbers, NEW m \in numbers, n # m
               PROVE  Cardinality(upTo(n)) # Cardinality(upTo(m))
    OBVIOUS
  <2>1. n < m \/ m < n
    OBVIOUS
  <2> QED BY <2>1, <1>3
<1>5. rank \in [numbers -> 1..c] /\ \A n, m \in numbers : rank[n] = rank[m] => n = m
  BY <1>2, <1>4
<1>6. rank \in Injection(numbers, 1..c)
  <2> HIDE DEF rank
  <2> QED BY <1>5 DEF Injection, IsInjective
<1>7. IsFiniteSet(1..c) /\ Cardinality(1..c) = c
  BY <1>1, CountOf
<1>8. rank \in Surjection(numbers, 1..c)
  BY <1>6, <1>7, FS_Injection
<1>9. \A k \in 1..c : \E n \in numbers : Cardinality(upTo(n)) = k
  BY <1>8 DEF Surjection
<1>10. \A k : Results!Nth(numbers, k) = CHOOSE n \in numbers : Cardinality(upTo(n)) = k
  BY ResultsCount DEF Results!Nth, upTo
<1>11. \A k \in 1..c : /\ Results!Nth(numbers, k) \in numbers
                       /\ Cardinality(upTo(Results!Nth(numbers, k))) = k
  BY <1>9, <1>10
<1>12. \A n \in numbers : Results!Nth(numbers, Cardinality(upTo(n))) = n
  BY <1>2, <1>4, <1>11
<1> QED BY <1>1, <1>2, <1>11, <1>12

\* The merge: it covers what was covered, with regions that do not overlap.
LEMMA MergedFacts ==
  ASSUME NEW q, RegionsApart(q), NEW bound \in Nat, \A b \in Nat : Covers(q, b) => b < bound
  PROVE  /\ RegionsApart(Results!Merged(q))
         /\ \A b : Covers(Results!Merged(q), b) <=> Covers(q, b)
<1> DEFINE starts == {q[i].ptr : i \in DOMAIN q}
           ends == {q[i].ptr + q[i].capacity : i \in DOMAIN q}
           heads == starts \ ends
           tails == ends \ starts
           RunEnd(h) == CHOOSE e \in tails : e > h /\ \A d \in tails : d > h => e <= d
           c == Cardinality(heads)
           merged == Results!Merged(q)
<1>1. \A i \in DOMAIN q :
        /\ q[i].ptr \in Nat /\ q[i].capacity \in Nat /\ q[i].capacity > 0
        /\ \A b : b \in Results!Bytes(q[i]) <=> b \in Nat /\ q[i].ptr <= b /\ b < q[i].ptr + q[i].capacity
  BY RegionIs
<1>2. merged = [k \in 1..c |-> [ptr |-> Results!Nth(heads, k),
                                capacity |-> RunEnd(Results!Nth(heads, k)) - Results!Nth(heads, k)]]
  <2>1. {r.ptr : r \in Results!Range(q)} = starts
    BY DEF Results!Range
  <2>2. {r.ptr + r.capacity : r \in Results!Range(q)} = ends
    BY DEF Results!Range
  <2> HIDE DEF starts, ends
  <2> QED BY <2>1, <2>2, ResultsCount DEF Results!Merged
<1>3. starts \subseteq Nat /\ ends \subseteq Nat
  BY <1>1
<1>4. \A b : Covers(q, b) => b \in Nat /\ b < bound
  BY <1>1 DEF Covers
\* The byte before an end is covered, so is a start, and what is covered without being a
\* start has the byte before it in the same region.
<1>5. \A x \in starts : Covers(q, x)
  BY <1>1 DEF Covers
<1>6. \A x \in ends : x > 0 /\ Covers(q, x - 1)
  <2> SUFFICES ASSUME NEW i \in DOMAIN q
               PROVE  /\ q[i].ptr + q[i].capacity > 0
                      /\ (q[i].ptr + q[i].capacity) - 1 \in Results!Bytes(q[i])
    BY DEF Covers
  <2> QED BY <1>1
<1>7. \A b \in Nat : Covers(q, b) /\ b \notin starts => b > 0 /\ Covers(q, b - 1) /\ b \notin ends
  <2> SUFFICES ASSUME NEW b \in Nat, Covers(q, b), b \notin starts
               PROVE  b > 0 /\ Covers(q, b - 1) /\ b \notin ends
    OBVIOUS
  <2>1. PICK i \in DOMAIN q : b \in Results!Bytes(q[i])
    BY DEF Covers
  <2>2. q[i].ptr < b
    BY <1>1, <2>1
  <2>3. b > 0 /\ b - 1 \in Results!Bytes(q[i])
    BY <1>1, <2>1, <2>2
  <2>4. ASSUME NEW j \in DOMAIN q, b = q[j].ptr + q[j].capacity PROVE FALSE
    <3>1. b - 1 \in Results!Bytes(q[j]) /\ b - 1 \in Nat
      BY <1>1, <2>4
    <3>2. i = j
      BY <2>3, <3>1 DEF RegionsApart
    <3> QED BY <1>1, <2>1, <2>4, <3>2
  <2> QED BY <2>3, <2>4 DEF Covers
<1>8. \A b \in Nat : Covers(q, b) /\ ~Covers(q, b + 1) => b + 1 \in tails
  <2> SUFFICES ASSUME NEW b \in Nat, Covers(q, b), ~Covers(q, b + 1)
               PROVE  b + 1 \in tails
    OBVIOUS
  <2>1. PICK i \in DOMAIN q : b \in Results!Bytes(q[i])
    BY DEF Covers
  <2>2. b + 1 \notin Results!Bytes(q[i])
    BY DEF Covers
  <2>3. b + 1 = q[i].ptr + q[i].capacity
    BY <1>1, <2>1, <2>2
  <2>4. b + 1 \in ends
    BY <2>3
  <2>5. b + 1 \notin starts
    BY <1>5
  <2> QED BY <2>4, <2>5
<1>9. \A x \in tails : x \in Nat /\ ~Covers(q, x)
  BY <1>3, <1>7
<1> HIDE DEF starts, ends
\* A run goes as far as it is covered.
<1>10. ASSUME NEW h \in heads
       PROVE  /\ RunEnd(h) \in Nat /\ RunEnd(h) > h /\ ~Covers(q, RunEnd(h))
              /\ \A b \in Nat : h <= b /\ b < RunEnd(h) => Covers(q, b)
  <2> DEFINE free_ == {b \in Nat : b >= h /\ ~Covers(q, b)}
  <2>1. h \in Nat /\ Covers(q, h)
    BY <1>3, <1>5
  <2>2. free_ \in SUBSET Nat /\ free_ # {}
    <3>1. CASE bound >= h
      BY <1>4, <3>1
    <3>2. CASE ~(bound >= h)
      BY <1>4, <2>1, <3>2
    <3> QED BY <3>1, <3>2
  <2>3. PICK u \in free_ : \A b \in free_ : u <= b
    <3> HIDE DEF free_
    <3> QED BY <2>2, LeastNatural
  <2>4. u \in Nat /\ u > h /\ ~Covers(q, u) /\ \A b \in Nat : h <= b /\ b < u => Covers(q, b)
    BY <2>1, <2>3
  <2>5. u \in tails
    <3>1. u - 1 \in Nat /\ Covers(q, u - 1) /\ (u - 1) + 1 = u
      BY <2>1, <2>4
    <3> QED BY <1>8, <2>4, <3>1
  <2>6. \A d \in tails : d > h => u <= d
    BY <1>9, <2>1, <2>4
  <2>7. RunEnd(h) = u
    <3>1. \A e \in tails : e > h /\ (\A d \in tails : d > h => e <= d) => e = u
      BY <1>9, <2>4, <2>5, <2>6
    <3> QED BY <2>4, <2>5, <2>6, <3>1
  <2> QED BY <2>4, <2>7
<1> HIDE DEF RunEnd, tails
<1>11. ASSUME NEW b \in Nat, Covers(q, b)
       PROVE  \E h \in heads : h <= b /\ b < RunEnd(h)
  <2> DEFINE whole == {x \in Nat : x <= b /\ \A y \in Nat : x <= y /\ y <= b => Covers(q, y)}
  <2>1. whole \in SUBSET Nat /\ b \in whole
    BY <1>11
  <2>2. PICK h \in whole : \A x \in whole : h <= x
    <3> HIDE DEF whole
    <3> QED BY <2>1, LeastNatural
  <2>3. h \in Nat /\ h <= b /\ Covers(q, h) /\ \A y \in Nat : h <= y /\ y <= b => Covers(q, y)
    BY <2>2
  <2>4. ~(h > 0 /\ Covers(q, h - 1))
    <3> SUFFICES ASSUME h > 0, Covers(q, h - 1) PROVE FALSE
      OBVIOUS
    <3>1. h - 1 \in whole
      BY <2>3
    <3> QED BY <2>2, <2>3, <3>1
  <2>5. h \in heads
    BY <1>6, <1>7, <2>3, <2>4
  <2>6. b < RunEnd(h)
    BY <1>10, <2>3, <2>5
  <2> QED BY <2>3, <2>5, <2>6
<1>12. \A g, h \in heads : g < h => RunEnd(g) <= h
  <2> SUFFICES ASSUME NEW g \in heads, NEW h \in heads, g < h, h < RunEnd(g) PROVE FALSE
    BY <1>3, <1>10
  <2>1. g \in Nat /\ h \in Nat /\ h > 0 /\ h - 1 \in Nat
    BY <1>3
  <2>2. Covers(q, h - 1)
    BY <1>10, <2>1
  <2>3. PICK i \in DOMAIN q : h - 1 \in Results!Bytes(q[i])
    BY <2>2 DEF Covers
  <2>4. h # q[i].ptr + q[i].capacity
    BY DEF ends
  <2>5. h \in Results!Bytes(q[i]) /\ q[i].ptr # h
    BY <1>1, <2>1, <2>3, <2>4
  <2>6. PICK j \in DOMAIN q : q[j].ptr = h
    BY DEF starts
  <2>7. h \in Results!Bytes(q[j])
    BY <1>1, <2>6
  <2>8. i = j
    BY <2>1, <2>5, <2>7 DEF RegionsApart
  <2> QED BY <2>5, <2>6, <2>8
<1>13. heads \in SUBSET Nat /\ IsFiniteSet(heads)
  <2>1. heads \in SUBSET (0..bound) /\ heads \in SUBSET Nat
    BY <1>3, <1>4, <1>5
  <2> HIDE DEF heads
  <2>2. IsFiniteSet(0..bound)
    BY FS_Interval
  <2> QED BY <2>1, <2>2, FS_Subset
<1>0. \A h \in heads : h \in Nat
  BY <1>3
<1> HIDE DEF heads
<1>14. /\ c \in Nat /\ \A k \in 1..c : Results!Nth(heads, k) \in heads
       /\ \A k, l \in 1..c : Results!Nth(heads, k) = Results!Nth(heads, l) => k = l
       /\ \A h \in heads : \E k \in 1..c : Results!Nth(heads, k) = h
  BY <1>13, NthFacts
<1> HIDE DEF c, merged
<1>15. ASSUME NEW k \in 1..c
       PROVE  LET h == Results!Nth(heads, k) IN
              /\ h \in heads /\ merged[k].ptr = h /\ merged[k] \in Results!Regions
              /\ merged[k].capacity > 0
              /\ \A b : b \in Results!Bytes(merged[k]) <=> b \in Nat /\ h <= b /\ b < RunEnd(h)
  <2> DEFINE h == Results!Nth(heads, k)
  <2>1. h \in heads /\ h \in Nat
    BY <1>0, <1>14
  <2>2. merged[k] = [ptr |-> h, capacity |-> RunEnd(h) - h]
    BY <1>2
  <2> HIDE DEF h
  <2>3. RunEnd(h) \in Nat /\ RunEnd(h) > h
    BY <1>10, <2>1
  <2>4. merged[k].ptr = h /\ merged[k].capacity = RunEnd(h) - h
    BY <2>2
  <2>5. merged[k] \in Results!Regions
    <3>1. RunEnd(h) - h \in Nat
      BY <2>1, <2>3
    <3> QED BY <2>1, <2>2, <3>1 DEF Results!Regions
  <2>6. \A b : b \in Results!Bytes(merged[k]) <=> b \in Nat /\ h <= b /\ b < RunEnd(h)
    BY <2>1, <2>3, <2>4 DEF Results!Bytes
  <2> QED BY <2>1, <2>3, <2>4, <2>5, <2>6 DEF h
<1>16. merged \in Seq(Results!Regions) /\ DOMAIN merged = 1..c
  <2>1. DOMAIN merged = 1..c
    BY <1>2
  <2>2. merged \in [1..c -> Results!Regions]
    BY <1>2, <1>15
  <2> QED BY <1>14, <2>1, <2>2
<1>17. \A b : Covers(merged, b) <=> Covers(q, b)
  <2>1. ASSUME NEW b, Covers(merged, b) PROVE Covers(q, b)
    BY <1>10, <1>15, <1>16, <2>1 DEF Covers
  <2>2. ASSUME NEW b, Covers(q, b) PROVE Covers(merged, b)
    <3>1. b \in Nat
      BY <1>4, <2>2
    <3>2. PICK h \in heads : h <= b /\ b < RunEnd(h)
      BY <1>11, <2>2, <3>1
    <3>3. PICK k \in 1..c : Results!Nth(heads, k) = h
      BY <1>14
    <3>4. b \in Results!Bytes(merged[k])
      BY <1>15, <3>1, <3>2, <3>3
    <3> QED BY <1>16, <3>4 DEF Covers
  <2> QED BY <2>1, <2>2
<1>18. RegionsApart(merged)
  <2>1. ASSUME NEW k \in 1..c, NEW l \in 1..c, NEW b \in Nat,
               b \in Results!Bytes(merged[k]), b \in Results!Bytes(merged[l])
        PROVE  k = l
    <3> DEFINE g == Results!Nth(heads, k)
               h == Results!Nth(heads, l)
    <3>1. g \in heads /\ h \in heads /\ g <= b /\ b < RunEnd(g) /\ h <= b /\ b < RunEnd(h)
      BY <1>15, <2>1
    <3>2. g \in Nat /\ h \in Nat /\ RunEnd(g) \in Nat /\ RunEnd(h) \in Nat
      BY <1>0, <1>10, <3>1
    <3> HIDE DEF g, h
    <3>3. ~(g < h) /\ ~(h < g)
      BY <1>12, <3>1, <3>2
    <3>4. g = h
      BY <3>2, <3>3
    <3> QED BY <1>14, <3>4 DEF g, h
  <2> QED BY <1>15, <1>16, <2>1 DEF RegionsApart
<1> QED BY <1>17, <1>18 DEF merged

\* A block taken out of the free regions.
LEMMA TakeOut ==
  ASSUME NEW q, NEW A, NEW S, Partition(q, A, S), NEW c \in Nat \ {0}, Results!Fits(q, c) # {},
         NEW v \in Blocks, v.capacity = c
  PROVE  LET carved == Results!Carve(q, c) IN
         /\ carved.ptr \in Nat /\ carved.ptr \notin DOMAIN A
         /\ Partition(carved.rest, Results!With(A, carved.ptr, v), S)
<1> DEFINE carved == Results!Carve(q, c)
           p == carved.ptr
           rest == carved.rest
           block == p..(p + c - 1)
           B == Results!With(A, p, v)
<1>1. RegionsApart(q) /\ DOMAIN A \subseteq Nat /\ A \in [DOMAIN A -> Blocks]
  BY DEF Partition
<1>2. /\ p \in Nat /\ RegionsApart(rest)
      /\ \A b : Covers(q, b) <=> Covers(rest, b) \/ b \in block
      /\ \A b \in block : ~Covers(rest, b)
  BY <1>1, CarveFacts
<1>3. B = [r \in DOMAIN A \cup {p} |-> IF r = p THEN v ELSE A[r]]
  BY DEF Results!With
<1> HIDE DEF carved, p, rest, B
<1>4. /\ DOMAIN B = DOMAIN A \cup {p} /\ B[p] = v /\ \A r \in DOMAIN A : r # p => B[r] = A[r]
      /\ B \in [DOMAIN B -> Blocks]
  BY <1>1, <1>3
<1>5. \A r \in DOMAIN A : r \in Nat /\ A[r].capacity \in Nat /\ A[r].capacity > 0 /\ r \in Block(A, r)
  <2> SUFFICES ASSUME NEW r \in DOMAIN A
               PROVE  r \in Nat /\ A[r].capacity \in Nat /\ A[r].capacity > 0 /\ r \in Block(A, r)
    OBVIOUS
  <2>1. r \in Nat /\ A[r] \in Blocks
    BY <1>1
  <2>2. A[r].capacity \in Nat /\ A[r].capacity > 0
    BY <2>1 DEF Blocks
  <2> QED BY <2>1, <2>2 DEF Block
<1>6. p \in block
  BY <1>2
<1>7. p \notin DOMAIN A
  BY <1>2, <1>5, <1>6 DEF Partition
<1>8. Block(B, p) = block /\ \A r \in DOMAIN A : Block(B, r) = Block(A, r)
  BY <1>4, <1>7 DEF Block
<1>9. \A b \in block : b \in Nat
  BY <1>2
<1> HIDE DEF block
<1>10. \A b \in Nat : b \in S <=> Covers(rest, b) \/ \E r \in DOMAIN B : b \in Block(B, r)
  BY <1>2, <1>4, <1>8 DEF Partition
<1>11. \A r \in DOMAIN B : \A b \in Block(B, r) : ~Covers(rest, b)
  BY <1>2, <1>4, <1>8 DEF Partition
<1>12. \A r, t \in DOMAIN B : \A b \in Nat : b \in Block(B, r) /\ b \in Block(B, t) => r = t
  BY <1>2, <1>4, <1>8 DEF Partition
<1>13. DOMAIN B \subseteq Nat
  BY <1>1, <1>2, <1>4
<1>14. Partition(rest, B, S)
  BY <1>2, <1>4, <1>10, <1>11, <1>12, <1>13 DEF Partition
<1> QED BY <1>2, <1>7, <1>14 DEF carved, p, rest, B

\* A block given back.
LEMMA PutBack ==
  ASSUME NEW q, NEW A, NEW S, Partition(q, A, S), NEW p \in DOMAIN A,
         NEW bound \in Nat, \A b \in Nat : b \in S => b < bound
  PROVE  Partition(Results!Merged(Append(q, [ptr |-> p, capacity |-> A[p].capacity])),
                   Results!Without(A, p), S)
<1> DEFINE r == [ptr |-> p, capacity |-> A[p].capacity]
           s == Append(q, r)
           merged == Results!Merged(s)
           B == Results!Without(A, p)
<1>1. RegionsApart(q) /\ DOMAIN A \subseteq Nat /\ A \in [DOMAIN A -> Blocks]
  BY DEF Partition
<1>2. p \in Nat /\ A[p].capacity \in Nat /\ A[p].capacity > 0
  <2>1. p \in Nat /\ A[p] \in Blocks
    BY <1>1
  <2> QED BY <2>1 DEF Blocks
<1>3. r \in Results!Regions /\ r.capacity > 0 /\ Results!Bytes(r) = Block(A, p)
  BY <1>2 DEF Results!Regions, Results!Bytes, Block
<1>4. \A b \in Block(A, p) : b \in Nat /\ ~Covers(q, b)
  BY <1>2 DEF Partition, Block
<1> HIDE DEF r
<1>5. RegionsApart(s) /\ \A b : Covers(s, b) <=> Covers(q, b) \/ b \in Block(A, p)
  BY <1>1, <1>3, <1>4, GrownApart
<1> HIDE DEF s
<1>6. \A b \in Nat : Covers(s, b) => b < bound
  BY <1>5 DEF Partition
<1>7. RegionsApart(merged) /\ \A b : Covers(merged, b) <=> Covers(q, b) \/ b \in Block(A, p)
  BY <1>5, <1>6, MergedFacts
<1>8. B = [t \in DOMAIN A \ {p} |-> A[t]]
  BY DEF Results!Without
<1> HIDE DEF merged, B
<1>9. /\ DOMAIN B = DOMAIN A \ {p} /\ DOMAIN B \subseteq Nat /\ B \in [DOMAIN B -> Blocks]
      /\ \A t \in DOMAIN B : B[t] = A[t] /\ Block(B, t) = Block(A, t)
  <2>1. DOMAIN B = DOMAIN A \ {p} /\ B \in [DOMAIN B -> Blocks]
    BY <1>1, <1>8
  <2>2. \A t \in DOMAIN B : B[t] = A[t]
    BY <1>8
  <2> QED BY <1>1, <2>1, <2>2 DEF Block
<1>10. \A b \in Nat : b \in S <=> Covers(merged, b) \/ \E t \in DOMAIN B : b \in Block(B, t)
  BY <1>7, <1>9 DEF Partition
<1>11. \A t, u \in DOMAIN A : \A b \in Nat : b \in Block(A, t) /\ b \in Block(A, u) => t = u
  BY DEF Partition
<1>12. \A t \in DOMAIN B : \A b \in Block(B, t) : ~Covers(merged, b)
  BY <1>4, <1>7, <1>9, <1>11 DEF Partition
<1>13. Partition(merged, B, S)
  BY <1>7, <1>9, <1>10, <1>11, <1>12 DEF Partition
<1> QED BY <1>13 DEF r, s, merged, B

\* New memory.
LEMMA GrowFree ==
  ASSUME NEW q, NEW A, NEW S, NEW T, Partition(q, A, S), NEW r \in Results!Regions, r.capacity > 0,
         \A b \in Results!Bytes(r) : b \notin S,
         \A b \in Nat : b \in T <=> b \in S \/ b \in Results!Bytes(r)
  PROVE  Partition(Append(q, r), A, T)
<1> DEFINE s == Append(q, r)
<1>1. \A b \in Results!Bytes(r) : b \in Nat
  BY DEF Results!Bytes, Results!Regions
<1>2. RegionsApart(q) /\ \A b \in Results!Bytes(r) : ~Covers(q, b)
  BY <1>1 DEF Partition
<1>3. RegionsApart(s) /\ \A b : Covers(s, b) <=> Covers(q, b) \/ b \in Results!Bytes(r)
  BY <1>2, GrownApart
<1> HIDE DEF s
<1>4. \A b \in Nat : b \in T <=> Covers(s, b) \/ \E p \in DOMAIN A : b \in Block(A, p)
  BY <1>3 DEF Partition
<1>5. \A p \in DOMAIN A : \A b \in Block(A, p) : b \in Nat
  BY DEF Partition, Block
<1>6. \A p \in DOMAIN A : \A b \in Block(A, p) : ~Covers(s, b)
  BY <1>1, <1>3, <1>5 DEF Partition
<1> QED BY <1>3, <1>4, <1>6 DEF Partition, s

LEMMA MemoryFacts ==
  /\ Align \in Nat /\ Align > 0 /\ PageBytes \in Nat /\ PageBytes > 0 /\ MaxPages \in Nat
  /\ MaxPages > 0 /\ MaxAnswers \in Nat /\ Sizes \subseteq Nat /\ None \notin Callers
  /\ None \notin [pages : Nat, current : Nat, reserved : BOOLEAN]
BY GuestAssumption DEF GuestAssumption, Results!MemoryAssumption

\* Division.
LEMMA Quotients ==
  ASSUME NEW n \in Nat, NEW d \in Nat, d > 0
  PROVE  n \div d \in Nat /\ (n \div d) * d <= n /\ n < (n \div d) * d + d
<1>1. n \div d \in Int /\ n % d \in 0..(d - 1) /\ n = d * (n \div d) + (n % d)
  OBVIOUS
<1>2. n \div d >= 0
  OBVIOUS
<1> QED BY <1>1, <1>2

LEMMA CapacityFacts ==
  ASSUME NEW n \in Nat, n > 0
  PROVE  /\ Results!Capacity(n) \in Nat \ {0} /\ Results!Capacity(n) >= n
         /\ Results!Pages(Results!Capacity(n)) \in Nat
         /\ Results!Pages(Results!Capacity(n)) > 0
         /\ Results!Pages(Results!Capacity(n)) * PageBytes >= Results!Capacity(n)
<1>1. ASSUME NEW m \in Nat, m > 0, NEW d \in Nat, d > 0
      PROVE  LET k == (m + d - 1) \div d IN k \in Nat /\ k > 0 /\ k * d \in Nat /\ k * d >= m
  <2> DEFINE k == (m + d - 1) \div d
  <2>1. m + d - 1 \in Nat
    BY <1>1
  <2>2. k \in Nat /\ k * d <= m + d - 1 /\ m + d - 1 < k * d + d
    BY <1>1, <2>1, Quotients
  <2> HIDE DEF k
  <2>3. k * d \in Nat /\ k * d >= m
    BY <1>1, <2>2
  <2>4. k # 0
    BY <1>1, <2>3
  <2> QED BY <2>2, <2>3, <2>4 DEF k
<1>2. Results!Capacity(n) \in Nat /\ Results!Capacity(n) >= n
  BY <1>1, MemoryFacts DEF Results!Capacity
<1>3. Results!Capacity(n) > 0
  BY <1>2
<1>4. /\ Results!Pages(Results!Capacity(n)) \in Nat /\ Results!Pages(Results!Capacity(n)) > 0
      /\ Results!Pages(Results!Capacity(n)) * PageBytes >= Results!Capacity(n)
  BY <1>1, <1>2, <1>3, MemoryFacts DEF Results!Pages
<1> QED BY <1>2, <1>3, <1>4

\* The bytes of a run of pages.
LEMMA PagesBytes ==
  ASSUME NEW first \in Nat, NEW pages \in Nat, NEW b \in Nat
  PROVE  LET r == [ptr |-> first * PageBytes, capacity |-> pages * PageBytes] IN
         /\ r \in Results!Regions
         /\ b \in Results!Bytes(r) <=> first <= b \div PageBytes /\ b \div PageBytes < first + pages
<1> DEFINE r == [ptr |-> first * PageBytes, capacity |-> pages * PageBytes]
           k == b \div PageBytes
<1>1. k \in Nat /\ k * PageBytes <= b /\ b < k * PageBytes + PageBytes
  BY Quotients, MemoryFacts
<1>2. first * PageBytes \in Nat /\ pages * PageBytes \in Nat
  BY MemoryFacts
<1>3. b \in Results!Bytes(r) <=> first * PageBytes <= b /\ b < first * PageBytes + pages * PageBytes
  BY <1>2 DEF Results!Bytes
<1> HIDE DEF k
<1>4. \A x, y \in Nat : x < y => x * PageBytes + PageBytes <= y * PageBytes
  BY MemoryFacts
<1>5. first * PageBytes + pages * PageBytes = (first + pages) * PageBytes
  BY MemoryFacts
<1>6. first * PageBytes <= b <=> first <= k
  <2>1. ASSUME first <= k PROVE first * PageBytes <= k * PageBytes
    BY <1>1, <1>4, <2>1, MemoryFacts
  <2>2. ASSUME k < first PROVE k * PageBytes + PageBytes <= first * PageBytes
    BY <1>1, <1>4, <2>2
  <2> QED BY <1>1, <1>2, <2>1, <2>2, MemoryFacts
<1>7. b < (first + pages) * PageBytes <=> k < first + pages
  <2>1. first + pages \in Nat /\ (first + pages) * PageBytes \in Nat /\ k * PageBytes \in Nat
    BY <1>1, MemoryFacts
  <2>2. ASSUME k < first + pages PROVE k * PageBytes + PageBytes <= (first + pages) * PageBytes
    BY <1>1, <1>4, <2>1, <2>2
  <2>3. ASSUME first + pages <= k PROVE (first + pages) * PageBytes <= k * PageBytes
    BY <1>1, <1>4, <2>1, <2>3, MemoryFacts
  <2> QED BY <1>1, <2>1, <2>2, <2>3, MemoryFacts
<1>8. r \in Results!Regions
  BY <1>2 DEF Results!Regions
<1> QED BY <1>3, <1>5, <1>6, <1>7, <1>8 DEF k

-----------------------------------------------------------------------------
\* The published bytes that the server has not grown itself.
Space == {b \in Nat : b \div PageBytes < logical /\ b \div PageBytes \notin guestPages}
Outputs == [ptr : Nat, len : Nat]
CallTypes ==
  caller \in [Callers -> [at : {"idle", "stdout", "stderr", "held"}, lens : Nat \X Nat,
                          out : Outputs, err : Outputs]]
MemoryTypes ==
  /\ CallTypes /\ lock \in Callers \cup {None} /\ (claim = None <=> lock = None)
  /\ logical \in Nat /\ physical \in 0..MaxPages /\ reserved \in BOOLEAN
  /\ guestPages \subseteq 0..(logical - 1) /\ 0 \in guestPages /\ answers \in 0..MaxAnswers
\* A claim is for the output that its call has at hand.
Claiming ==
  lock # None =>
    /\ caller[lock].at \in {"stdout", "stderr"} /\ Results!Wanted(lock) > 0
    /\ claim \in [pages : Nat, current : Nat, reserved : BOOLEAN]
    /\ claim.pages = Results!Pages(Results!Capacity(Results!Wanted(lock)))
\* What has been reserved has been published, but for the claim and the reserve.
Claimed == IF lock # None /\ claim.reserved THEN claim.pages ELSE 0
Backed == physical = logical + Claimed + (IF reserved THEN 1 ELSE 0)
\* The results of a call, by the stage it is at.
Stages ==
  \A h \in Callers :
    /\ caller[h].at \in {"stdout", "stderr"} => caller[h].lens \in Sizes \X Sizes
    /\ caller[h].at \in {"idle", "stdout"} => caller[h].out = Results!Empty
    /\ caller[h].at # "held" => caller[h].err = Results!Empty
\* Every allocation is one result of one call, and every result is an allocation.
OwnedBy(A, h, end) ==
  /\ caller[h][end].ptr \in DOMAIN A
  /\ A[caller[h][end].ptr].requested = caller[h][end].len
Owned ==
  /\ \A h \in Callers, end \in {"out", "err"} :
       caller[h][end] # Results!Empty => OwnedBy(allocations, h, end)
  /\ \A h, g \in Callers, end, other \in {"out", "err"} :
       /\ caller[h][end] # Results!Empty /\ caller[g][other] # Results!Empty
       /\ caller[h][end].ptr = caller[g][other].ptr
       => h = g /\ end = other
  /\ \A p \in DOMAIN allocations : \E h \in Callers, end \in {"out", "err"} :
       caller[h][end] # Results!Empty /\ caller[h][end].ptr = p
MemInv ==
  /\ MemoryTypes /\ Claiming /\ Backed /\ Stages /\ Owned
  /\ Partition(free, allocations, Space)

LEMMA EndIs ==
  \A h \in Callers : /\ caller[h]["out"] = caller[h].out /\ caller[h]["err"] = caller[h].err
OBVIOUS

LEMMA EmptyIs == Results!Empty \in Outputs /\ Results!Empty.ptr = 0 /\ Results!Empty.len = 0
BY DEF Results!Empty, Outputs

LEMMA SpaceIs ==
  ASSUME MemoryTypes
  PROVE  /\ \A b \in Nat : b \div PageBytes \in Nat
         /\ \A b \in Nat : b \in Space => b < logical * PageBytes
         /\ 0 \notin Space /\ logical \in Nat /\ logical * PageBytes \in Nat
<1>1. logical \in Nat /\ 0 \in guestPages /\ logical * PageBytes \in Nat
  BY MemoryFacts DEF MemoryTypes
<1>2. \A b \in Nat : /\ b \div PageBytes \in Nat /\ (b \div PageBytes) * PageBytes <= b
                     /\ b < (b \div PageBytes) * PageBytes + PageBytes
  BY MemoryFacts, Quotients
<1>3. \A x, y \in Nat : x < y => x * PageBytes + PageBytes <= y * PageBytes
  BY MemoryFacts
<1>4. ASSUME NEW b \in Nat, b \in Space PROVE b < logical * PageBytes
  <2> DEFINE k == b \div PageBytes
  <2>1. k \in Nat /\ k < logical /\ b < k * PageBytes + PageBytes
    BY <1>2, <1>4 DEF Space
  <2> HIDE DEF k
  <2>2. k * PageBytes + PageBytes <= logical * PageBytes
    BY <1>1, <1>3, <2>1
  <2> QED BY <1>1, <2>1, <2>2, MemoryFacts
<1>5. 0 \notin Space
  <2>1. 0 \div PageBytes = 0
    <3> DEFINE k == 0 \div PageBytes
    <3>1. k \in Nat /\ k * PageBytes <= 0
      BY <1>2
    <3> HIDE DEF k
    <3>2. k > 0 => k * PageBytes > 0
      BY <3>1, MemoryFacts
    <3>3. k = 0
      BY <3>1, <3>2, MemoryFacts
    <3> QED BY <3>3 DEF k
  <2> QED BY <1>1, <2>1 DEF Space
<1> QED BY <1>1, <1>2, <1>4, <1>5

\* No result is at the null pointer.
LEMMA NotNull ==
  ASSUME MemInv
  PROVE  0 \notin DOMAIN allocations
<1> SUFFICES ASSUME 0 \in DOMAIN allocations PROVE FALSE
  OBVIOUS
<1>1. Partition(free, allocations, Space) /\ 0 \notin Space
  BY SpaceIs DEF MemInv
<1>2. allocations[0] \in Blocks
  BY <1>1 DEF Partition
<1>3. 0 \in Block(allocations, 0)
  BY <1>2 DEF Blocks, Block
<1> QED BY <1>1, <1>3 DEF Partition

\* The result at hand is written into free memory.
LEMMA WrittenKeeps ==
  ASSUME MemInv, NEW h \in Callers, caller[h].at \in {"stdout", "stderr"}, Results!Wanted(h) > 0,
         NEW regions, NEW S, Partition(regions, allocations, S),
         Results!Fits(regions, Results!Capacity(Results!Wanted(h))) # {},
         Results!Written(h, regions)
  PROVE  CallTypes' /\ Stages' /\ Owned' /\ Partition(free', allocations', S)
<1> DEFINE len == Results!Wanted(h)
           c == Results!Capacity(len)
           p == Results!Carve(regions, c).ptr
           v == [requested |-> len, capacity |-> c]
           r == [ptr |-> p, len |-> len]
           end == IF caller[h].at = "stdout" THEN "out" ELSE "err"
<1>1. /\ caller \in [Callers -> [at : {"idle", "stdout", "stderr", "held"}, lens : Nat \X Nat,
                                 out : Outputs, err : Outputs]]
      /\ Stages /\ Owned
  BY DEF MemInv, MemoryTypes, CallTypes
<1>2. len \in Sizes /\ len \in Nat
  <2>1. caller[h].lens \in Sizes \X Sizes
    BY <1>1 DEF Stages
  <2> QED BY <2>1, MemoryFacts DEF Results!Wanted, Results!Stage
<1>3. c \in Nat \ {0}
  BY <1>2, CapacityFacts
<1>4. v \in Blocks /\ v.capacity = c /\ v.requested = len
  BY <1>2, <1>3 DEF Blocks
<1>5. /\ p \in Nat /\ p \notin DOMAIN allocations
      /\ Partition(Results!Carve(regions, c).rest, Results!With(allocations, p, v), S)
  <2>1. Results!Fits(regions, c) # {}
    OBVIOUS
  <2> HIDE DEF v, c
  <2> QED BY <1>3, <1>4, <2>1, TakeOut
<1>6. /\ free' = Results!Carve(regions, c).rest /\ allocations' = Results!With(allocations, p, v)
      /\ Results!Result(h, r)
  BY DEF Results!Written
<1>7. /\ DOMAIN allocations' = DOMAIN allocations \cup {p} /\ allocations'[p].requested = len
      /\ \A q \in DOMAIN allocations : allocations'[q] = allocations[q]
  BY <1>5, <1>6 DEF Results!With
<1>8. r \in Outputs /\ r.ptr = p /\ r.len = len /\ r # Results!Empty
  BY <1>2, <1>5 DEF Outputs, Results!Empty
<1> HIDE DEF p, r, v, c, len
<1>9. caller' = [caller EXCEPT ![h] = IF @.at = "stdout" THEN [@ EXCEPT !.at = "stderr", !.out = r]
                                      ELSE [@ EXCEPT !.at = "held", !.err = r]]
  BY <1>6 DEF Results!Result
<1>10. /\ CallTypes' /\ \A g \in Callers : g # h => caller'[g] = caller[g]
       /\ caller'[h].lens = caller[h].lens
       /\ caller[h].at = "stdout" => /\ caller'[h].at = "stderr" /\ caller'[h].out = r
                                     /\ caller'[h].err = caller[h].err
       /\ caller[h].at # "stdout" => /\ caller'[h].at = "held" /\ caller'[h].out = caller[h].out
                                     /\ caller'[h].err = r
  BY <1>1, <1>8, <1>9 DEF CallTypes
<1>11. Stages'
  BY <1>1, <1>10 DEF Stages
<1>12. \A g \in Callers : \A e \in {"out", "err"} :
          caller'[g][e] = IF g = h /\ e = end THEN r ELSE caller[g][e]
  BY <1>10, EndIs
<1>13. end \in {"out", "err"} /\ caller[h][end] = Results!Empty
  BY <1>1, EndIs DEF Stages
<1> HIDE DEF end
<1>14. Owned'
  <2>1. \A g \in Callers, e \in {"out", "err"} :
          caller'[g][e] # Results!Empty =>
            /\ caller'[g][e].ptr \in DOMAIN allocations'
            /\ allocations'[caller'[g][e].ptr].requested = caller'[g][e].len
    BY <1>1, <1>7, <1>8, <1>12 DEF Owned, OwnedBy
  <2>2. \A g, k \in Callers, e, o \in {"out", "err"} :
          /\ caller'[g][e] # Results!Empty /\ caller'[k][o] # Results!Empty
          /\ caller'[g][e].ptr = caller'[k][o].ptr
          => g = k /\ e = o
    BY <1>1, <1>5, <1>8, <1>12 DEF Owned, OwnedBy
  <2>3. ASSUME NEW q \in DOMAIN allocations'
        PROVE  \E g \in Callers, e \in {"out", "err"} :
                 caller'[g][e] # Results!Empty /\ caller'[g][e].ptr = q
    <3>1. CASE q = p
      BY <1>8, <1>12, <1>13, <3>1
    <3>2. CASE q # p
      <4>1. q \in DOMAIN allocations
        BY <1>7, <3>2
      <4>2. PICK g \in Callers, e \in {"out", "err"} :
              caller[g][e] # Results!Empty /\ caller[g][e].ptr = q
        BY <1>1, <4>1 DEF Owned
      <4>3. ~(g = h /\ e = end)
        BY <1>13, <4>2
      <4>4. caller'[g][e] = caller[g][e]
        BY <1>12, <4>3
      <4> QED BY <4>2, <4>4
    <3> QED BY <3>1, <3>2
  <2> QED BY <2>1, <2>2, <2>3 DEF Owned, OwnedBy
<1> QED BY <1>5, <1>6, <1>10, <1>11, <1>14

\* A result is given back.
LEMMA ReleaseKeeps ==
  ASSUME MemInv, NEW h \in Callers, NEW end \in {"out", "err"},
         Results!Released(caller[h][end].ptr, caller[h][end].len),
         \A g \in Callers : \A e \in {"out", "err"} :
           caller'[g][e] = IF g = h /\ e = end THEN Results!Empty ELSE caller[g][e]
  PROVE  Owned' /\ Partition(free', allocations', Space)
<1> DEFINE p == caller[h][end].ptr
           len == caller[h][end].len
<1>0. Owned /\ Partition(free, allocations, Space) /\ MemoryTypes
  BY DEF MemInv
<1>1. CASE caller[h][end] = Results!Empty
  <2>1. UNCHANGED <<free, allocations>>
    BY <1>1, NotNull, EmptyIs DEF Results!Released, Results!Freeable
  <2>2. \A g \in Callers : \A e \in {"out", "err"} : caller'[g][e] = caller[g][e]
    BY <1>1
  <2>3. Owned'
    <3>1. DOMAIN allocations' = DOMAIN allocations
      BY <2>1
    <3>2. \A g \in Callers : \A e \in {"out", "err"} :
            caller'[g][e] # Results!Empty => OwnedBy(allocations, g, e)'
      BY <1>0, <2>1, <2>2 DEF Owned, OwnedBy
    <3> QED BY <1>0, <2>2, <3>1, <3>2 DEF Owned
  <2> QED BY <1>0, <2>1, <2>3
<1>2. CASE caller[h][end] # Results!Empty
  <2>1. p \in DOMAIN allocations /\ allocations[p].requested = len
    BY <1>0, <1>2 DEF Owned, OwnedBy
  <2>2. /\ free' = Results!Merged(Append(free, [ptr |-> p, capacity |-> allocations[p].capacity]))
        /\ allocations' = Results!Without(allocations, p)
    BY <2>1 DEF Results!Released, Results!Freeable
  <2>3. \A b \in Nat : b \in Space => b < logical * PageBytes
    BY <1>0, SpaceIs
  <2>4. logical * PageBytes \in Nat
    BY <1>0, SpaceIs
  <2>5. Partition(free', allocations', Space)
    <3> HIDE DEF p
    <3> QED BY <1>0, <2>1, <2>2, <2>3, <2>4, PutBack
  <2>6. /\ DOMAIN allocations' = DOMAIN allocations \ {p}
        /\ \A q \in DOMAIN allocations' : allocations'[q] = allocations[q]
    BY <2>2 DEF Results!Without
  <2>7. \A g \in Callers, e \in {"out", "err"} :
          caller'[g][e] # Results!Empty =>
            /\ caller'[g][e].ptr \in DOMAIN allocations'
            /\ allocations'[caller'[g][e].ptr].requested = caller'[g][e].len
    <3> SUFFICES ASSUME NEW g \in Callers, NEW e \in {"out", "err"},
                        caller'[g][e] # Results!Empty
                 PROVE  /\ caller'[g][e].ptr \in DOMAIN allocations'
                        /\ allocations'[caller'[g][e].ptr].requested = caller'[g][e].len
      OBVIOUS
    <3>1. ~(g = h /\ e = end) /\ caller'[g][e] = caller[g][e]
      OBVIOUS
    <3>2. OwnedBy(allocations, g, e) /\ caller[g][e].ptr # p
      BY <1>0, <1>2, <3>1 DEF Owned
    <3> QED BY <2>6, <3>1, <3>2 DEF OwnedBy
  <2>8. \A g, k \in Callers, e, o \in {"out", "err"} :
          /\ caller'[g][e] # Results!Empty /\ caller'[k][o] # Results!Empty
          /\ caller'[g][e].ptr = caller'[k][o].ptr
          => g = k /\ e = o
    BY <1>0 DEF Owned
  <2>9. ASSUME NEW q \in DOMAIN allocations'
        PROVE  \E g \in Callers, e \in {"out", "err"} :
                 caller'[g][e] # Results!Empty /\ caller'[g][e].ptr = q
    <3>1. q \in DOMAIN allocations /\ q # p
      BY <2>6
    <3>2. PICK g \in Callers, e \in {"out", "err"} :
            caller[g][e] # Results!Empty /\ caller[g][e].ptr = q
      BY <1>0, <3>1 DEF Owned
    <3>3. ~(g = h /\ e = end)
      BY <3>1, <3>2
    <3>4. caller'[g][e] = caller[g][e]
      BY <3>3
    <3> QED BY <3>2, <3>4
  <2>10. Owned'
    BY <2>7, <2>8, <2>9 DEF Owned, OwnedBy
  <2> QED BY <2>5, <2>10
<1> QED BY <1>1, <1>2

LEMMA MemInit == Results!Init => MemInv
<1> SUFFICES ASSUME Results!Init PROVE MemInv
  OBVIOUS
<1>1. /\ free = <<>> /\ allocations = << >> /\ lock = None /\ claim = None
      /\ logical = 1 /\ physical = 1 /\ guestPages = {0} /\ reserved = FALSE /\ answers = 0
      /\ caller = [h \in Callers |-> [at |-> "idle", lens |-> <<0, 0>>, out |-> Results!Empty,
                                      err |-> Results!Empty]]
  BY DEF Results!Init
<1>2. /\ CallTypes /\ \A h \in Callers : caller[h].at = "idle" /\ caller[h].out = Results!Empty
                                         /\ caller[h].err = Results!Empty
  <2>1. [at |-> "idle", lens |-> <<0, 0>>, out |-> Results!Empty, err |-> Results!Empty]
          \in [at : {"idle", "stdout", "stderr", "held"}, lens : Nat \X Nat,
               out : Outputs, err : Outputs]
    BY EmptyIs
  <2> QED BY <1>1, <2>1 DEF CallTypes
<1>3. MemoryTypes /\ Claiming
  <2>1. logical \in Nat /\ physical \in 0..MaxPages /\ answers \in 0..MaxAnswers
    BY <1>1, MemoryFacts
  <2>2. guestPages \subseteq 0..(logical - 1) /\ 0 \in guestPages
    BY <1>1
  <2> QED BY <1>1, <1>2, <2>1, <2>2 DEF MemoryTypes, Claiming
<1>4. Backed /\ Stages
  BY <1>1, <1>2 DEF Backed, Claimed, Stages
<1>5. DOMAIN allocations = {} /\ DOMAIN free = {}
  BY <1>1
<1>6. Owned
  BY <1>2, <1>5, EndIs DEF Owned
<1>7. \A b \in Nat : b \notin Space
  BY <1>1, <1>3, SpaceIs DEF Space
<1>8. Partition(free, allocations, Space)
  <2>1. RegionsApart(free)
    BY <1>1, <1>5 DEF RegionsApart
  <2>2. allocations \in [DOMAIN allocations -> Blocks]
    BY <1>1, <1>5
  <2> QED BY <1>5, <1>7, <2>1, <2>2 DEF Partition, Covers
<1> QED BY <1>3, <1>4, <1>6, <1>8 DEF MemInv

\* What a step leaves that touches no results.
LEMMA ResultsAlone ==
  ASSUME Owned, Partition(free, allocations, Space), UNCHANGED <<free, allocations>>,
         \A h \in Callers : caller'[h].out = caller[h].out /\ caller'[h].err = caller[h].err,
         \A b \in Nat : b \in Space' <=> b \in Space
  PROVE  Owned' /\ Partition(free', allocations', Space')
<1>1. \A h \in Callers : \A end \in {"out", "err"} : caller'[h][end] = caller[h][end]
  BY EndIs
<1>2. Owned'
  BY <1>1 DEF Owned, OwnedBy
<1>3. Partition(free', allocations', Space')
  BY DEF Partition
<1> QED BY <1>2, <1>3

LEMMA AnswersKeeps == ASSUME MemInv, NEW h \in Callers, Results!Answers(h) PROVE MemInv'
<1>1. PICK out \in Sizes, err \in Sizes :
        caller' = [caller EXCEPT ![h] = [at |-> "stdout", lens |-> <<out, err>>,
                                         out |-> Results!Empty, err |-> Results!Empty]]
  BY DEF Results!Answers
<1>2. /\ caller[h].at = "idle" /\ answers < MaxAnswers /\ answers' = answers + 1
      /\ UNCHANGED <<free, allocations, lock, claim, logical, physical, guestPages, reserved>>
  BY DEF Results!Answers
<1>3. CallTypes /\ MemoryTypes /\ Stages
  BY DEF MemInv, MemoryTypes
<1>4. out \in Nat /\ err \in Nat
  BY MemoryFacts
<1>5. /\ CallTypes' /\ \A g \in Callers : g # h => caller'[g] = caller[g]
      /\ caller'[h].at = "stdout" /\ caller'[h].lens = <<out, err>>
      /\ caller'[h].out = Results!Empty /\ caller'[h].err = Results!Empty
  BY <1>1, <1>3, <1>4, EmptyIs DEF CallTypes
<1>6. MemoryTypes'
  BY <1>2, <1>3, <1>5, MemoryFacts DEF MemoryTypes
<1>7. Claiming'
  <2>1. lock # h
    BY <1>2, MemoryFacts DEF MemInv, Claiming
  <2>2. lock \in Callers => caller'[lock] = caller[lock]
    BY <1>5, <2>1
  <2> QED BY <1>2, <1>3, <2>2
          DEF MemInv, MemoryTypes, Claiming, Results!Wanted, Results!Stage
<1>8. Backed' /\ Stages'
  <2>1. Backed'
    BY <1>2 DEF MemInv, Backed, Claimed
  <2>2. caller'[h].lens \in Sizes \X Sizes
    BY <1>5
  <2> QED BY <1>3, <1>5, <2>1, <2>2 DEF Stages
<1>9. Owned' /\ Partition(free', allocations', Space')
  <2>1. \A g \in Callers : caller'[g].out = caller[g].out /\ caller'[g].err = caller[g].err
    BY <1>2, <1>3, <1>5 DEF Stages
  <2>2. Space' = Space
    BY <1>2 DEF Space
  <2> QED BY <1>2, <2>1, <2>2, ResultsAlone DEF MemInv
<1> QED BY <1>6, <1>7, <1>8, <1>9 DEF MemInv

LEMMA NothingKeeps == ASSUME MemInv, NEW h \in Callers, Results!Nothing(h) PROVE MemInv'
<1>1. /\ caller[h].at \in {"stdout", "stderr"} /\ lock = None
      /\ Results!Result(h, Results!Empty)
      /\ UNCHANGED <<free, allocations, lock, claim, logical, physical, guestPages, reserved, answers>>
  BY DEF Results!Nothing
<1>2. caller' = [caller EXCEPT ![h] =
                   IF @.at = "stdout" THEN [@ EXCEPT !.at = "stderr", !.out = Results!Empty]
                   ELSE [@ EXCEPT !.at = "held", !.err = Results!Empty]]
  BY <1>1 DEF Results!Result
<1>3. CallTypes /\ MemoryTypes /\ Stages
  BY DEF MemInv, MemoryTypes
<1>4. /\ CallTypes' /\ \A g \in Callers : g # h => caller'[g] = caller[g]
      /\ caller'[h].lens = caller[h].lens
      /\ caller[h].at = "stdout" => /\ caller'[h].at = "stderr" /\ caller'[h].out = Results!Empty
                                    /\ caller'[h].err = caller[h].err
      /\ caller[h].at # "stdout" => /\ caller'[h].at = "held" /\ caller'[h].out = caller[h].out
                                    /\ caller'[h].err = Results!Empty
  BY <1>2, <1>3, EmptyIs DEF CallTypes
<1>5. MemoryTypes' /\ Claiming' /\ Backed'
  BY <1>1, <1>3, <1>4 DEF MemInv, MemoryTypes, Claiming, Backed, Claimed
<1>6. Stages' /\ \A g \in Callers : caller'[g].out = caller[g].out /\ caller'[g].err = caller[g].err
  BY <1>1, <1>3, <1>4 DEF Stages
<1>7. Owned' /\ Partition(free', allocations', Space')
  <2>1. Space' = Space
    BY <1>1 DEF Space
  <2> QED BY <1>1, <1>6, <2>1, ResultsAlone DEF MemInv
<1> QED BY <1>5, <1>6, <1>7 DEF MemInv

LEMMA AllocateKeeps == ASSUME MemInv, NEW h \in Callers, Results!Allocate(h) PROVE MemInv'
<1>1. /\ caller[h].at \in {"stdout", "stderr"} /\ Results!Wanted(h) > 0 /\ lock = None
      /\ Results!Fits(free, Results!Capacity(Results!Wanted(h))) # {}
      /\ Results!Written(h, free)
      /\ UNCHANGED <<lock, claim, logical, physical, guestPages, reserved, answers>>
  BY DEF Results!Allocate
<1>2. Partition(free, allocations, Space)
  BY DEF MemInv
<1>3. CallTypes' /\ Stages' /\ Owned' /\ Partition(free', allocations', Space)
  BY <1>1, <1>2, WrittenKeeps
<1>4. Space' = Space
  BY <1>1 DEF Space
<1> QED BY <1>1, <1>3, <1>4 DEF MemInv, MemoryTypes, Claiming, Backed, Claimed

LEMMA ReadSizeKeeps == ASSUME MemInv, NEW h \in Callers, Results!ReadSize(h) PROVE MemInv'
<1>1. /\ caller[h].at \in {"stdout", "stderr"} /\ Results!Wanted(h) > 0 /\ lock = None /\ lock' = h
      /\ claim' = [pages |-> Results!Pages(Results!Capacity(Results!Wanted(h))),
                   current |-> logical, reserved |-> FALSE]
      /\ UNCHANGED <<free, allocations, logical, physical, guestPages, reserved, caller, answers>>
  BY DEF Results!ReadSize
<1>2. MemoryTypes /\ Stages /\ CallTypes
  BY DEF MemInv, MemoryTypes
<1>3. Results!Wanted(h) \in Nat
  <2>1. caller[h].lens \in Nat \X Nat
    BY <1>2 DEF CallTypes
  <2> QED BY <2>1 DEF Results!Wanted, Results!Stage
<1>4. /\ claim' \in [pages : Nat, current : Nat, reserved : BOOLEAN] /\ claim' # None
      /\ claim'.pages = Results!Pages(Results!Capacity(Results!Wanted(h))) /\ ~claim'.reserved
  <2> DEFINE n == Results!Pages(Results!Capacity(Results!Wanted(h)))
  <2>1. n \in Nat
    BY <1>1, <1>3, CapacityFacts
  <2> HIDE DEF n
  <2>2. logical \in Nat
    BY <1>2 DEF MemoryTypes
  <2>3. claim' = [pages |-> n, current |-> logical, reserved |-> FALSE]
    BY <1>1 DEF n
  <2>4. claim' \in [pages : Nat, current : Nat, reserved : BOOLEAN]
    BY <2>1, <2>2, <2>3
  <2>5. claim'.pages = n /\ ~claim'.reserved
    BY <2>3
  <2> QED BY <2>4, <2>5, MemoryFacts DEF n
<1>5. MemoryTypes'
  BY <1>1, <1>2, <1>4, MemoryFacts DEF MemoryTypes, CallTypes
<1>6. Claiming'
  BY <1>1, <1>4, MemoryFacts DEF Claiming, Results!Wanted, Results!Stage
<1>7. Backed'
  BY <1>1, <1>4 DEF MemInv, Backed, Claimed
<1>8. Stages' /\ Space' = Space
  BY <1>1, <1>2 DEF Stages, Space
<1>9. Owned' /\ Partition(free', allocations', Space')
  BY <1>1, <1>8, ResultsAlone DEF MemInv
<1> QED BY <1>5, <1>6, <1>7, <1>8, <1>9 DEF MemInv

LEMMA ReserveKeeps == ASSUME MemInv, NEW h \in Callers, Results!Reserve(h) PROVE MemInv'
<1>1. /\ lock = h /\ ~claim.reserved /\ physical + claim.pages <= MaxPages
      /\ claim' = [claim EXCEPT !.reserved = TRUE] /\ physical' = physical + claim.pages
      /\ UNCHANGED <<free, allocations, lock, logical, guestPages, reserved, caller, answers>>
  BY DEF Results!Reserve
<1>2. MemoryTypes /\ Claiming /\ Backed /\ Stages /\ h # None
  BY MemoryFacts DEF MemInv
<1>3. claim \in [pages : Nat, current : Nat, reserved : BOOLEAN]
  BY <1>1, <1>2 DEF Claiming
<1>4. /\ claim' \in [pages : Nat, current : Nat, reserved : BOOLEAN] /\ claim' # None
      /\ claim'.pages = claim.pages /\ claim'.reserved
  BY <1>1, <1>3, MemoryFacts
<1>5. MemoryTypes'
  BY <1>1, <1>2, <1>3, <1>4, MemoryFacts DEF MemoryTypes, CallTypes
<1>6. Claiming'
  BY <1>1, <1>2, <1>4 DEF Claiming, Results!Wanted, Results!Stage
<1>7. Backed'
  BY <1>1, <1>2, <1>3, <1>4 DEF Backed, Claimed, MemoryTypes
<1>8. Stages' /\ Space' = Space
  BY <1>1, <1>2 DEF Stages, Space
<1>9. Owned' /\ Partition(free', allocations', Space')
  BY <1>1, <1>8, ResultsAlone DEF MemInv
<1> QED BY <1>5, <1>6, <1>7, <1>8, <1>9 DEF MemInv

LEMMA ReserveFailsKeeps == ASSUME MemInv, NEW h \in Callers, Results!ReserveFails(h) PROVE MemInv'
<1>1. /\ lock = h /\ ~claim.reserved /\ lock' = None /\ claim' = None
      /\ caller' = [caller EXCEPT ![h].at = "idle", ![h].out = Results!Empty, ![h].err = Results!Empty]
      /\ Results!Released(caller[h].out.ptr, caller[h].out.len)
      /\ UNCHANGED <<logical, physical, guestPages, reserved, answers>>
  BY DEF Results!ReserveFails, Results!Fails
<1>2. MemoryTypes /\ CallTypes /\ Claiming /\ Backed /\ Stages /\ lock # None
  BY <1>1, MemoryFacts DEF MemInv, MemoryTypes
<1>3. /\ CallTypes' /\ \A g \in Callers : g # h => caller'[g] = caller[g]
      /\ caller'[h].at = "idle" /\ caller'[h].lens = caller[h].lens
      /\ caller'[h].out = Results!Empty /\ caller'[h].err = Results!Empty
  BY <1>1, <1>2, EmptyIs DEF CallTypes
<1>4. caller[h].err = Results!Empty
  BY <1>1, <1>2 DEF Claiming, Stages
<1>5. MemoryTypes' /\ Claiming' /\ Backed' /\ Space' = Space
  BY <1>1, <1>2, <1>3 DEF MemoryTypes, Claiming, Backed, Claimed, Space
<1>6. Stages'
  BY <1>2, <1>3 DEF Stages
<1>7. \A g \in Callers : \A e \in {"out", "err"} :
        caller'[g][e] = IF g = h /\ e = "out" THEN Results!Empty ELSE caller[g][e]
  BY <1>3, <1>4, EndIs
<1>8. Owned' /\ Partition(free', allocations', Space)
  BY <1>1, <1>7, EndIs, ReleaseKeeps
<1> QED BY <1>5, <1>6, <1>8 DEF MemInv

\* The claim is published.
LEMMA ExchangeKeeps == ASSUME MemInv, NEW h \in Callers, Results!Exchange(h) PROVE MemInv'
<1>1. /\ lock = h /\ claim.reserved /\ UNCHANGED <<physical, guestPages, reserved, answers>>
      /\ \/ /\ claim' = [claim EXCEPT !.current = logical]
            /\ UNCHANGED <<free, allocations, lock, logical, caller>>
         \/ /\ logical' = logical + claim.pages /\ lock' = None /\ claim' = None
            /\ Results!Written(h, Append(free, [ptr |-> logical * PageBytes,
                                                capacity |-> claim.pages * PageBytes]))
  BY DEF Results!Exchange
<1>2. MemoryTypes /\ CallTypes /\ Claiming /\ Backed /\ Stages /\ lock # None
  BY <1>1, MemoryFacts DEF MemInv, MemoryTypes
<1>3. claim \in [pages : Nat, current : Nat, reserved : BOOLEAN] /\ logical \in Nat
  BY <1>2 DEF Claiming, MemoryTypes
<1>4. ASSUME claim' = [claim EXCEPT !.current = logical],
             UNCHANGED <<free, allocations, lock, logical, caller>>
      PROVE  MemInv'
  <2>1. /\ claim' \in [pages : Nat, current : Nat, reserved : BOOLEAN]
        /\ claim'.pages = claim.pages /\ claim'.reserved = claim.reserved
    BY <1>3, <1>4
  <2>2. claim' # None
    BY <2>1, MemoryFacts
  <2>3. MemoryTypes'
    BY <1>1, <1>2, <1>4, <2>2 DEF MemoryTypes, CallTypes
  <2>4. Claiming'
    BY <1>1, <1>2, <1>4, <2>1 DEF Claiming, Results!Wanted, Results!Stage
  <2>5. Backed'
    BY <1>1, <1>2, <1>4, <2>1 DEF Backed, Claimed
  <2>6. Stages' /\ Space' = Space
    BY <1>1, <1>2, <1>4 DEF Stages, Space
  <2>7. Owned' /\ Partition(free', allocations', Space')
    BY <1>4, <2>6, ResultsAlone DEF MemInv
  <2> QED BY <2>3, <2>4, <2>5, <2>6, <2>7 DEF MemInv
<1>5. ASSUME logical' = logical + claim.pages, lock' = None, claim' = None,
             Results!Written(h, Append(free, [ptr |-> logical * PageBytes,
                                              capacity |-> claim.pages * PageBytes]))
      PROVE  MemInv'
  <2> DEFINE r == [ptr |-> logical * PageBytes, capacity |-> claim.pages * PageBytes]
             grown == Append(free, r)
             c == Results!Capacity(Results!Wanted(h))
  <2>1. /\ caller[h].at \in {"stdout", "stderr"} /\ Results!Wanted(h) > 0
        /\ claim.pages = Results!Pages(c) /\ claim.pages \in Nat
    BY <1>1, <1>2, <1>3 DEF Claiming
  <2>2. Results!Wanted(h) \in Nat
    <3>1. caller[h].lens \in Nat \X Nat
      BY <1>2 DEF CallTypes
    <3> QED BY <3>1 DEF Results!Wanted, Results!Stage
  <2>3. /\ c \in Nat /\ c > 0 /\ claim.pages > 0 /\ claim.pages * PageBytes >= c
    BY <2>1, <2>2, CapacityFacts
  <2>4. r \in Results!Regions /\ r.capacity = claim.pages * PageBytes
    BY <1>3, <2>1, PagesBytes
  <2>5. \A b \in Nat : b \in Results!Bytes(r) <=> b \div PageBytes >= logical
                                               /\ b \div PageBytes < logical + claim.pages
    BY <1>3, <2>1, PagesBytes, SpaceIs, <1>2
  <2>6. \A b \in Results!Bytes(r) : b \in Nat
    BY <2>4 DEF Results!Bytes, Results!Regions
  <2>7. \A b \in Nat : b \div PageBytes \in Nat
    BY <1>2, SpaceIs
  <2> HIDE DEF r, c
  <2>8. \A b \in Results!Bytes(r) : b \notin Space
    BY <1>3, <2>5, <2>6, <2>7 DEF Space
  <2>9. ASSUME NEW b \in Nat PROVE b \in Space' <=> b \in Space \/ b \in Results!Bytes(r)
    <3> DEFINE k == b \div PageBytes
    <3>1. k \in Nat /\ (b \in Results!Bytes(r) <=> k >= logical /\ k < logical + claim.pages)
      BY <2>5, <2>7
    <3>2. b \in Space <=> k < logical /\ k \notin guestPages
      BY DEF Space
    <3>3. b \in Space' <=> k < logical + claim.pages /\ k \notin guestPages
      BY <1>1, <1>5 DEF Space
    <3> HIDE DEF k
    <3>4. k \in guestPages => k < logical
      BY <1>2, <1>3 DEF MemoryTypes
    <3> QED BY <1>3, <2>1, <3>1, <3>2, <3>3, <3>4
  <2>10. r.capacity > 0 /\ r.capacity >= c /\ r.capacity \in Nat
    BY <2>3, <2>4, MemoryFacts, <2>1
  <2>11. Partition(free, allocations, Space)
    BY DEF MemInv
  <2>12. Partition(grown, allocations, Space')
    BY <2>4, <2>8, <2>9, <2>10, <2>11, GrowFree
  <2>13. Results!Fits(grown, c) # {}
    <3>1. free \in Seq(Results!Regions)
      BY <2>11 DEF Partition, RegionsApart
    <3>2. Len(free) + 1 \in DOMAIN grown /\ grown[Len(free) + 1] = r
      BY <2>4, <3>1
    <3> HIDE DEF grown
    <3> QED BY <2>10, <3>2 DEF Results!Fits
  <2>14. Results!Written(h, grown) /\ Results!Fits(grown, Results!Capacity(Results!Wanted(h))) # {}
    BY <1>5, <2>13 DEF r, c
  <2> HIDE DEF grown
  <2>15. CallTypes' /\ Stages' /\ Owned' /\ Partition(free', allocations', Space')
    BY <2>1, <2>12, <2>14, WrittenKeeps
  <2>16. physical = logical + claim.pages + (IF reserved THEN 1 ELSE 0)
    BY <1>1, <1>2 DEF Backed, Claimed
  <2>17. Backed'
    BY <1>1, <1>3, <1>5, <2>1, <2>16 DEF Backed, Claimed
  <2>18. logical' \in Nat /\ guestPages' \subseteq 0..(logical' - 1)
    BY <1>1, <1>2, <1>3, <1>5, <2>1 DEF MemoryTypes
  <2>19. MemoryTypes'
    BY <1>1, <1>2, <1>5, <2>15, <2>18 DEF MemoryTypes
  <2> QED BY <1>5, <2>15, <2>17, <2>19 DEF MemInv, Claiming
<1> QED BY <1>1, <1>4, <1>5

LEMMA HostFreeMemoryKeeps ==
  ASSUME MemInv, NEW h \in Callers, NEW end \in {"out", "err"}, Results!HostFreeMemory(h, end)
  PROVE  MemInv'
<1>1. /\ caller[h].at = "held" /\ lock = None
      /\ Results!Released(caller[h][end].ptr, caller[h][end].len)
      /\ caller' = [caller EXCEPT ![h][end] = Results!Empty]
      /\ UNCHANGED <<lock, claim, logical, physical, guestPages, reserved, answers>>
  BY DEF Results!HostFreeMemory
<1>2. MemoryTypes /\ CallTypes /\ Stages
  BY DEF MemInv, MemoryTypes
<1>3. /\ CallTypes' /\ \A g \in Callers : g # h => caller'[g] = caller[g]
      /\ caller'[h].at = "held"
      /\ \A e \in {"out", "err"} : caller'[h][e] = IF e = end THEN Results!Empty ELSE caller[h][e]
  <2>1. CASE end = "out"
    BY <1>1, <1>2, <2>1, EmptyIs DEF CallTypes
  <2>2. CASE end = "err"
    BY <1>1, <1>2, <2>2, EmptyIs DEF CallTypes
  <2> QED BY <2>1, <2>2
<1>4. MemoryTypes' /\ Claiming' /\ Space' = Space
  BY <1>1, <1>2, <1>3 DEF MemoryTypes, Claiming, Space
<1>5. Backed'
  BY <1>1 DEF MemInv, Backed, Claimed
<1>6. Stages'
  BY <1>2, <1>3 DEF Stages
<1>7. \A g \in Callers : \A e \in {"out", "err"} :
        caller'[g][e] = IF g = h /\ e = end THEN Results!Empty ELSE caller[g][e]
  BY <1>3
<1>8. Owned' /\ Partition(free', allocations', Space)
  BY <1>1, <1>7, ReleaseKeeps
<1> QED BY <1>4, <1>5, <1>6, <1>8 DEF MemInv

LEMMA TakenKeeps == ASSUME MemInv, NEW h \in Callers, Results!Taken(h) PROVE MemInv'
<1>1. /\ caller[h].at = "held" /\ caller[h].out = Results!Empty /\ caller[h].err = Results!Empty
      /\ caller' = [caller EXCEPT ![h].at = "idle"]
      /\ UNCHANGED <<free, allocations, lock, claim, logical, physical, guestPages, reserved, answers>>
  BY DEF Results!Taken
<1>2. MemoryTypes /\ CallTypes /\ Stages /\ Claiming
  BY DEF MemInv, MemoryTypes
<1>3. /\ CallTypes' /\ \A g \in Callers : g # h => caller'[g] = caller[g]
      /\ caller'[h].at = "idle" /\ caller'[h].lens = caller[h].lens
      /\ caller'[h].out = caller[h].out /\ caller'[h].err = caller[h].err
  BY <1>1, <1>2 DEF CallTypes
<1>4. MemoryTypes' /\ Space' = Space
  BY <1>1, <1>2, <1>3 DEF MemoryTypes, Space
<1>5. Claiming'
  <2>1. lock # None => lock \in Callers /\ lock # h
    BY <1>1, <1>2, MemoryFacts DEF Claiming, MemoryTypes
  <2>2. lock # None => caller'[lock] = caller[lock]
    BY <1>3, <2>1
  <2> QED BY <1>1, <1>2, <2>2 DEF Claiming, Results!Wanted, Results!Stage
<1>6. Backed'
  BY <1>1 DEF MemInv, Backed, Claimed
<1>7. Stages'
  BY <1>1, <1>2, <1>3 DEF Stages
<1>8. Owned' /\ Partition(free', allocations', Space')
  BY <1>1, <1>3, <1>4, ResultsAlone DEF MemInv
<1> QED BY <1>4, <1>5, <1>6, <1>7, <1>8 DEF MemInv

LEMMA GuestGrowsKeeps == ASSUME MemInv, Results!GuestGrows PROVE MemInv'
<1>1. /\ physical < MaxPages /\ physical' = physical + 1 /\ logical' = logical + 1
      /\ guestPages' = guestPages \cup {logical}
      /\ UNCHANGED <<free, allocations, lock, claim, reserved, caller, answers>>
  BY DEF Results!GuestGrows
<1>2. MemoryTypes /\ CallTypes /\ Stages /\ Claiming /\ Backed
  BY DEF MemInv, MemoryTypes
<1>3. logical \in Nat /\ physical \in Nat
  BY <1>2, MemoryFacts DEF MemoryTypes
<1>4. MemoryTypes'
  <2>1. logical' \in Nat /\ physical' \in 0..MaxPages
    BY <1>1, <1>3, MemoryFacts
  <2>2. guestPages' \subseteq 0..(logical' - 1) /\ 0 \in guestPages'
    BY <1>1, <1>2, <1>3 DEF MemoryTypes
  <2> QED BY <1>1, <1>2, <2>1, <2>2 DEF MemoryTypes, CallTypes
<1>5. Claiming'
  BY <1>1, <1>2 DEF Claiming, Results!Wanted, Results!Stage
<1>6. Backed'
  <2>1. Claimed \in Nat
    BY <1>2 DEF Claimed, Claiming
  <2>2. Claimed' = Claimed
    BY <1>1 DEF Claimed
  <2> QED BY <1>1, <1>2, <1>3, <2>1, <2>2 DEF Backed
<1>7. Stages'
  BY <1>1, <1>2 DEF Stages
<1>8. \A b \in Nat : b \in Space' <=> b \in Space
  <2>1. \A b \in Nat : b \div PageBytes \in Nat
    BY <1>2, SpaceIs
  <2> QED BY <1>1, <1>3, <2>1 DEF Space
<1>9. Owned' /\ Partition(free', allocations', Space')
  BY <1>1, <1>8, ResultsAlone DEF MemInv
<1> QED BY <1>4, <1>5, <1>6, <1>7, <1>9 DEF MemInv

LEMMA EnsureOnceKeeps == ASSUME MemInv, Results!EnsureOnce PROVE MemInv'
<1>1. /\ ~reserved /\ physical < MaxPages /\ reserved' = TRUE /\ physical' = physical + 1
      /\ UNCHANGED <<free, allocations, lock, claim, logical, guestPages, caller, answers>>
  BY DEF Results!EnsureOnce
<1>2. MemoryTypes /\ CallTypes /\ Stages /\ Claiming /\ Backed
  BY DEF MemInv, MemoryTypes
<1>3. logical \in Nat /\ physical \in Nat
  BY <1>2, MemoryFacts DEF MemoryTypes
<1>4. MemoryTypes'
  <2>1. physical' \in 0..MaxPages
    BY <1>1, <1>3, MemoryFacts
  <2> QED BY <1>1, <1>2, <2>1 DEF MemoryTypes, CallTypes
<1>5. Claiming'
  BY <1>1, <1>2 DEF Claiming, Results!Wanted, Results!Stage
<1>6. Backed'
  <2>1. Claimed \in Nat
    BY <1>2 DEF Claimed, Claiming
  <2>2. Claimed' = Claimed
    BY <1>1 DEF Claimed
  <2> QED BY <1>1, <1>2, <1>3, <2>1, <2>2 DEF Backed
<1>7. Stages' /\ Space' = Space
  BY <1>1, <1>2 DEF Stages, Space
<1>8. Owned' /\ Partition(free', allocations', Space')
  BY <1>1, <1>7, ResultsAlone DEF MemInv
<1> QED BY <1>4, <1>5, <1>6, <1>7, <1>8 DEF MemInv

LEMMA MemStutters == ASSUME MemInv, UNCHANGED Results!memoryVars PROVE MemInv'
<1>1. UNCHANGED <<free, allocations, lock, claim, logical, physical, guestPages, reserved, caller,
                  answers>>
  BY DEF Results!memoryVars
<1>2. MemoryTypes' /\ Claiming' /\ Stages' /\ Space' = Space
  BY <1>1 DEF MemInv, MemoryTypes, CallTypes, Claiming, Results!Wanted, Results!Stage, Stages, Space
<1>3. Backed'
  BY <1>1 DEF MemInv, Backed, Claimed
<1>4. Owned' /\ Partition(free', allocations', Space')
  BY <1>1, <1>2, ResultsAlone DEF MemInv
<1> QED BY <1>2, <1>3, <1>4 DEF MemInv

LEMMA MemInvStep == MemInv /\ [Results!Next]_(Results!memoryVars) => MemInv'
BY AnswersKeeps, NothingKeeps, AllocateKeeps, ReadSizeKeeps, ReserveKeeps, ReserveFailsKeeps,
   ExchangeKeeps, TakenKeeps, HostFreeMemoryKeeps, GuestGrowsKeeps, EnsureOnceKeeps, MemStutters
DEF Results!Next

\* The regions and the blocks are as many as the free list and the allocations have entries.
LEMMA RegionsCount ==
  ASSUME NEW q, NEW A, NEW S, Partition(q, A, S), NEW bound \in Nat, \A b \in Nat : b \in S => b < bound
  PROVE  LET blocks == {[ptr |-> p, capacity |-> A[p].capacity] : p \in DOMAIN A}
             regions == blocks \cup Results!Range(q)
         IN /\ \A r, t \in regions : r # t => Results!Bytes(r) \cap Results!Bytes(t) = {}
            /\ Cardinality(regions) = Cardinality(DOMAIN A) + Len(q)
            /\ \A b \in Nat : b \in S <=> \E r \in regions : b \in Results!Bytes(r)
            /\ \A r \in regions : \A b \in Results!Bytes(r) : b \in Nat
<1> DEFINE R(p) == [ptr |-> p, capacity |-> A[p].capacity]
           blocks == {R(p) : p \in DOMAIN A}
           listed == Results!Range(q)
           regions == blocks \cup listed
<1>1. RegionsApart(q) /\ DOMAIN A \subseteq Nat /\ A \in [DOMAIN A -> Blocks]
  BY DEF Partition
<1>2. \A p \in DOMAIN A : /\ p \in Nat /\ A[p].capacity \in Nat /\ A[p].capacity > 0
  <2> SUFFICES ASSUME NEW p \in DOMAIN A PROVE p \in Nat /\ A[p].capacity \in Nat /\ A[p].capacity > 0
    OBVIOUS
  <2>1. p \in Nat /\ A[p] \in Blocks
    BY <1>1
  <2> QED BY <2>1 DEF Blocks
<1>3. \A p \in DOMAIN A : /\ R(p).ptr = p /\ Results!Bytes(R(p)) = Block(A, p) /\ p \in Block(A, p)
                          /\ \A b \in Block(A, p) : b \in Nat
  BY <1>2 DEF Results!Bytes, Block
<1>4. \A i \in DOMAIN q : /\ q[i].ptr \in Results!Bytes(q[i]) /\ q[i].ptr \in Nat
                          /\ \A b \in Results!Bytes(q[i]) : b \in Nat
  BY <1>1, RegionIs
<1>5. listed = {q[i] : i \in DOMAIN q}
  BY DEF Results!Range
<1> HIDE DEF R, listed
\* No two of them share a byte.
<1>6. \A p, r \in DOMAIN A : \A b \in Nat : b \in Block(A, p) /\ b \in Block(A, r) => p = r
  BY DEF Partition
<1>7. \A i, j \in DOMAIN q : \A b \in Nat :
        b \in Results!Bytes(q[i]) /\ b \in Results!Bytes(q[j]) => i = j
  BY <1>1 DEF RegionsApart
<1>8. \A p \in DOMAIN A : \A i \in DOMAIN q : \A b \in Block(A, p) : b \notin Results!Bytes(q[i])
  BY DEF Partition, Covers
<1>9. \A r, t \in regions : r # t => Results!Bytes(r) \cap Results!Bytes(t) = {}
  <2> SUFFICES ASSUME NEW r \in regions, NEW t \in regions, NEW b,
                      b \in Results!Bytes(r), b \in Results!Bytes(t)
               PROVE  r = t
    OBVIOUS
  <2>1. CASE r \in blocks /\ t \in blocks
    <3>1. PICK p \in DOMAIN A : r = R(p)
      BY <2>1
    <3>2. PICK o \in DOMAIN A : t = R(o)
      BY <2>1
    <3> QED BY <1>3, <1>6, <3>1, <3>2
  <2>2. CASE r \in blocks /\ t \in listed
    <3>1. PICK p \in DOMAIN A : r = R(p)
      BY <2>2
    <3>2. PICK i \in DOMAIN q : t = q[i]
      BY <1>5, <2>2
    <3> QED BY <1>3, <1>8, <3>1, <3>2
  <2>3. CASE r \in listed /\ t \in blocks
    <3>1. PICK p \in DOMAIN A : t = R(p)
      BY <2>3
    <3>2. PICK i \in DOMAIN q : r = q[i]
      BY <1>5, <2>3
    <3> QED BY <1>3, <1>8, <3>1, <3>2
  <2>4. CASE r \in listed /\ t \in listed
    <3>1. PICK i \in DOMAIN q : r = q[i]
      BY <1>5, <2>4
    <3>2. PICK j \in DOMAIN q : t = q[j]
      BY <1>5, <2>4
    <3> QED BY <1>4, <1>7, <3>1, <3>2
  <2> QED BY <2>1, <2>2, <2>3, <2>4
<1>10. \A b \in Nat : b \in S <=> \E r \in regions : b \in Results!Bytes(r)
  <2>1. ASSUME NEW b \in Nat, b \in S PROVE \E r \in regions : b \in Results!Bytes(r)
    <3>1. CASE Covers(q, b)
      BY <1>5, <3>1 DEF Covers
    <3>2. CASE \E p \in DOMAIN A : b \in Block(A, p)
      BY <1>3, <3>2
    <3> QED BY <2>1, <3>1, <3>2 DEF Partition
  <2>2. ASSUME NEW b \in Nat, NEW r \in regions, b \in Results!Bytes(r) PROVE b \in S
    <3>1. CASE r \in blocks
      <4>1. PICK p \in DOMAIN A : r = R(p)
        BY <3>1
      <4> QED BY <1>3, <2>2, <4>1 DEF Partition
    <3>2. CASE r \in listed
      <4>1. PICK i \in DOMAIN q : r = q[i]
        BY <1>5, <3>2
      <4>2. Covers(q, b)
        BY <2>2, <4>1 DEF Covers
      <4> QED BY <4>2 DEF Partition
    <3> QED BY <3>1, <3>2
  <2> QED BY <2>1, <2>2
<1>11. \A r \in regions : \A b \in Results!Bytes(r) : b \in Nat
  BY <1>3, <1>4, <1>5
\* How many they are.
<1>12. IsFiniteSet(DOMAIN A)
  <2> DEFINE pointers == DOMAIN A
  <2>1. \A p \in pointers : p \in 0..bound
    BY <1>2, <1>3 DEF Partition
  <2> HIDE DEF pointers
  <2>2. pointers \in SUBSET (0..bound) /\ IsFiniteSet(0..bound)
    BY <2>1, FS_Interval
  <2> QED BY <2>2, FS_Subset DEF pointers
<1>13. IsFiniteSet(blocks) /\ Cardinality(blocks) = Cardinality(DOMAIN A)
  <2> DEFINE f == [p \in DOMAIN A |-> R(p)]
             pointers == DOMAIN A
  <2>1. f \in [pointers -> blocks] /\ \A p, o \in pointers : f[p] = f[o] => p = o
    BY <1>3
  <2>2. \A r \in blocks : \E p \in pointers : f[p] = r
    OBVIOUS
  <2>3. IsFiniteSet(pointers)
    BY <1>12
  <2> HIDE DEF f, pointers, blocks
  <2>4. f \in Bijection(pointers, blocks)
    BY <2>1, <2>2 DEF Bijection, Injection, IsInjective, Surjection
  <2>5. IsFiniteSet(blocks) /\ Cardinality(blocks) = Cardinality(pointers)
    <3>1. ExistsBijection(pointers, blocks)
      BY <2>4 DEF ExistsBijection
    <3> QED BY <2>3, <3>1, FS_Bijection
  <2> QED BY <2>5 DEF pointers
<1>14. IsFiniteSet(listed) /\ Cardinality(listed) = Len(q)
  <2> DEFINE places == 1..Len(q)
  <2>0. q \in Seq(Results!Regions) /\ Len(q) \in Nat /\ DOMAIN q = places
    BY <1>1 DEF RegionsApart
  <2>1. q \in [places -> listed] /\ \A i, j \in places : q[i] = q[j] => i = j
    BY <1>4, <1>5, <1>7, <2>0
  <2>2. \A r \in listed : \E i \in places : q[i] = r
    BY <1>5, <2>0
  <2>3. IsFiniteSet(places) /\ Cardinality(places) = Len(q)
    BY <2>0, CountOf
  <2> HIDE DEF places
  <2>4. q \in Bijection(places, listed)
    BY <2>1, <2>2 DEF Bijection, Injection, IsInjective, Surjection
  <2>5. ExistsBijection(places, listed)
    BY <2>4 DEF ExistsBijection
  <2> QED BY <2>3, <2>5, FS_Bijection
<1>15. blocks \cap listed = {}
  <2> SUFFICES ASSUME NEW p \in DOMAIN A, NEW i \in DOMAIN q, R(p) = q[i] PROVE FALSE
    BY <1>5
  <2> QED BY <1>3, <1>8
<1>16. Cardinality(regions) = Cardinality(DOMAIN A) + Len(q)
  <2> HIDE DEF blocks
  <2>1. /\ IsFiniteSet(blocks \cup listed)
        /\ Cardinality(blocks \cup listed)
             = Cardinality(blocks) + Cardinality(listed) - Cardinality(blocks \cap listed)
    BY <1>13, <1>14, FS_Union
  <2>2. Cardinality(blocks \cap listed) = 0
    BY <1>15, FS_EmptySet
  <2>3. Cardinality(blocks) \in Nat /\ Cardinality(listed) \in Nat
    BY <1>13, <1>14, FS_CardinalityType
  <2> QED BY <1>13, <1>14, <2>1, <2>2, <2>3
<1> QED BY <1>9, <1>10, <1>11, <1>16 DEF R, listed

LEMMA MemInvSuffices == MemInv => Results!TypeOK /\ Results!MemoryPartitioned
                                  /\ Results!PublishedIsBacked /\ Results!NothingLeaks
<1> SUFFICES ASSUME MemInv
             PROVE  /\ Results!TypeOK /\ Results!MemoryPartitioned
                    /\ Results!PublishedIsBacked /\ Results!NothingLeaks
  OBVIOUS
<1>1. /\ MemoryTypes /\ CallTypes /\ Claiming /\ Backed /\ Owned
      /\ Partition(free, allocations, Space)
  BY DEF MemInv, MemoryTypes
<1>2. logical \in Nat /\ physical \in Nat /\ physical <= MaxPages /\ logical <= physical
  <2>1. logical \in Nat /\ physical \in Nat /\ physical <= MaxPages /\ Claimed \in Nat
    BY <1>1, MemoryFacts DEF MemoryTypes, Claiming, Claimed
  <2> QED BY <1>1, <2>1 DEF Backed
<1>3. logical > 0
  BY <1>1, <1>2 DEF MemoryTypes
<1>4. Results!TypeOK
  <2>1. free \in Seq(Results!Regions)
    BY <1>1 DEF Partition, RegionsApart
  <2>2. \A p \in DOMAIN allocations : allocations[p].requested \in Sizes
    BY <1>1 DEF Partition, Blocks
  <2>3. logical \in 1..MaxPages /\ physical \in 1..MaxPages
    BY <1>2, <1>3, MemoryFacts
  <2>4. guestPages \subseteq 0..(MaxPages - 1)
    BY <1>1, <1>2, MemoryFacts DEF MemoryTypes
  <2>5. \A h \in Callers : caller[h].at \in {"idle", "stdout", "stderr", "held"}
    BY <1>1 DEF CallTypes
  <2> QED BY <1>1, <2>1, <2>2, <2>3, <2>4, <2>5 DEF MemoryTypes, Results!TypeOK
<1>5. Results!MemoryPartitioned
  <2> DEFINE regions == Results!AllocatedRegions \cup Results!Range(free)
             guest_ == {b \in 0..(MaxPages * PageBytes - 1) : b \div PageBytes \in guestPages}
             all == 0..(logical * PageBytes - 1)
  <2>1. logical * PageBytes \in Nat /\ \A b \in Nat : b \in Space => b < logical * PageBytes
    BY <1>1, SpaceIs
  <2>2. /\ \A r, t \in regions : r # t => Results!Bytes(r) \cap Results!Bytes(t) = {}
        /\ Cardinality(regions) = Cardinality(DOMAIN allocations) + Len(free)
        /\ \A b \in Nat : b \in Space <=> \E r \in regions : b \in Results!Bytes(r)
        /\ \A r \in regions : \A b \in Results!Bytes(r) : b \in Nat
    BY <1>1, <2>1, RegionsCount DEF Results!AllocatedRegions
  <2> HIDE DEF regions
  <2>3. \A b \in Nat : b \div PageBytes < logical <=> b < logical * PageBytes
    <3> SUFFICES ASSUME NEW b \in Nat
                 PROVE  b \div PageBytes < logical <=> b < logical * PageBytes
      OBVIOUS
    <3> DEFINE k == b \div PageBytes
    <3>1. k \in Nat /\ k * PageBytes <= b /\ b < k * PageBytes + PageBytes
      BY MemoryFacts, Quotients
    <3> HIDE DEF k
    <3>2. \A x, y \in Nat : x < y => x * PageBytes + PageBytes <= y * PageBytes
      BY MemoryFacts
    <3>3. ASSUME k < logical PROVE b < logical * PageBytes
      <4>1. k * PageBytes + PageBytes <= logical * PageBytes
        BY <1>2, <3>1, <3>2, <3>3
      <4> QED BY <2>1, <3>1, <4>1, MemoryFacts
    <3>4. ASSUME logical <= k PROVE logical * PageBytes <= b
      <4>1. logical * PageBytes <= k * PageBytes
        BY <1>2, <3>1, <3>2, <3>4, MemoryFacts
      <4> QED BY <2>1, <3>1, <4>1, MemoryFacts
    <3>5. k < logical <=> b < logical * PageBytes
      BY <1>2, <2>1, <3>1, <3>3, <3>4
    <3> QED BY <3>5 DEF k
  <2>4. logical * PageBytes <= MaxPages * PageBytes
    BY <1>2, MemoryFacts
  <2>5. MaxPages * PageBytes \in Nat
    BY MemoryFacts
  <2>6. \A b : b \in all <=> b \in Nat /\ b < logical * PageBytes
    BY <2>1
  <2>7. \A b : b \in guest_ <=> b \in Nat /\ b < MaxPages * PageBytes /\ b \div PageBytes \in guestPages
    BY <2>5
  <2> HIDE DEF all, guest_
  <2>8. \A b : b \in all \ guest_ <=> b \in Nat /\ b \in Space
    <3> SUFFICES ASSUME NEW b \in Nat PROVE b \in all \ guest_ <=> b \in Space
      BY <2>6
    <3>1. b < logical * PageBytes => b < MaxPages * PageBytes
      BY <2>1, <2>4, <2>5
    <3> QED BY <2>3, <2>6, <2>7, <3>1 DEF Space
  <2>9. UNION {Results!Bytes(r) : r \in regions} = all \ guest_
    BY <2>2, <2>8
  <2>10. Results!Cardinality(regions) = Results!Cardinality(DOMAIN allocations) + Len(free)
    BY <2>2, ResultsCount
  <2> QED BY <2>2, <2>9, <2>10 DEF Results!MemoryPartitioned, regions, all, guest_
<1>6. Results!NothingLeaks
  <2> DEFINE held == {r.ptr : r \in UNION {Results!Results(h) : h \in Callers}}
  <2>1. ASSUME NEW p \in DOMAIN allocations PROVE p \in held
    <3>1. PICK h \in Callers, end \in {"out", "err"} :
            caller[h][end] # Results!Empty /\ caller[h][end].ptr = p
      BY <1>1 DEF Owned
    <3>2. caller[h][end] \in Results!Results(h)
      BY <3>1, EndIs DEF Results!Results
    <3> QED BY <3>1, <3>2
  <2>2. ASSUME NEW p \in held PROVE p \in DOMAIN allocations
    <3>0. PICK h \in Callers : \E r \in Results!Results(h) : p = r.ptr
      BY <2>2
    <3>1. PICK r \in Results!Results(h) : p = r.ptr
      BY <3>0
    <3>2. \E end \in {"out", "err"} : r = caller[h][end] /\ r # Results!Empty
      BY <3>1, EndIs DEF Results!Results
    <3> QED BY <1>1, <3>1, <3>2 DEF Owned, OwnedBy
  <2> QED BY <2>1, <2>2 DEF Results!NothingLeaks
<1> QED BY <1>2, <1>4, <1>5, <1>6 DEF Results!PublishedIsBacked

\* A step of the guest is one of the memory's, or leaves it alone.
LEMMA StepOfResults == [Next]_vars => [Results!Next]_(Results!memoryVars)
  BY DEF Next, vars, resultVars, Results!memoryVars, ToolsStep, ShellStep, ChildStep, ResultsStep,
         MirrorStep

\* Every published byte is the analyzer's, free, or part of one result that a call holds: none is
\* lost and none is handed out twice, whatever grows the memory meanwhile and wherever an answer
\* fails, and what is published has been reserved.
THEOREM ResultsAreSound == Spec => []ResultsSound
<1>1. Init => MemInv
  BY MemInit DEF Init
<1>2. MemInv /\ [Next]_vars => MemInv'
  BY MemInvStep, StepOfResults
<1>3. MemInv => ResultsSound
  BY MemInvSuffices DEF ResultsSound
<1> QED BY <1>1, <1>2, <1>3, PTL DEF Spec
=============================================================================
