------------------------------- MODULE MCGuest -------------------------------
(* Instances of the guest's components for TLC.  A run explores some of them one after
   the other, each by itself: they share nothing but the time of the run.            *)
EXTENDS Naturals, FiniteSets, Sequences, TLC

CONSTANTS Sessions, Hosts, Jobs, Lsp, Commands, HostPrograms, ExitCodes, MaxCommands,
          None, SessionIds, Keys, MaxLoops, MaxEvents, Paths, Chunks, MaxRequests,
          MaxEdits, MaxTraps, Faults, MaxFaults, Callers, Sizes, Align, PageBytes,
          MaxPages, MaxAnswers, TreePaths, TreeAncestors, Excluded, Sysroot, Runtimes,
          MaxEntries, TreeHosts, MaxRuns, MaxWrites, MaxTreeEdits, s1, s2, h1, p1, p2

\* The parts to explore, and the one that this behaviour is about; every other part
\* stays as it begins.
CONSTANT Explored
VARIABLE part

VARIABLES th, cmdArgs, cargoLock, rustcLock, env, argv, slot, hostOut, status,
          lspStarted, started
VARIABLES table, loop, sysroot, startup, waiter, abortSeen, sent
VARIABLES vfs, host, request, nextRequestId, req, childRequests, aborted, disposal,
          guest, own, base, edits, traps, faults
VARIABLES free, allocations, lock, claim, logical, physical, guestPages, reserved,
          caller, answers
VARIABLES vfsTree, hostTree, at, excluded, treeBase, cur, want, expected, conflicts,
          todo, next, outcome, start, edited, unseen, runs, writes, treeEdits

\* The files of the child are alike.
Symmetric == Permutations(Paths)

\* One session can start rustc and cargo, the other cargo and clang.
MCCommands == s1 :> {"rustc", "cargo"} @@ s2 :> {"cargo", "clang"}

\* A directory with two files; the host begins with any part of it, left by other runs,
\* and with the sysroot.
MCAncestors == [p \in TreePaths |-> IF p \in {"d"} \cup Sysroot THEN {} ELSE {"d"}]
MCHosts ==
  {t \in [TreePaths -> {"none", "dir", "a"}] :
     /\ \A p \in Sysroot : t[p] = "a"
     /\ \A p \in TreePaths \ ({"d"} \cup Sysroot) :
          t[p] # "dir" /\ (t[p] # "none" => t["d"] = "dir")}

Tools == INSTANCE ToolRuns
Shell == INSTANCE ShellSession
Child == INSTANCE ChildProcess
Results == INSTANCE LspResultMemory WITH Hosts <- Callers, host <- caller
Mirror == INSTANCE FileSync WITH Paths <- TreePaths, Ancestors <- TreeAncestors,
                                 Hosts <- TreeHosts, MaxEdits <- MaxTreeEdits,
                                 vfs <- vfsTree, host <- hostTree, base <- treeBase,
                                 edits <- treeEdits

toolVars == <<th, cmdArgs, cargoLock, rustcLock, env, argv, slot, hostOut, status,
              lspStarted, started>>
shellVars == <<table, loop, sysroot, startup, waiter, abortSeen, sent>>
childVars == <<vfs, host, request, nextRequestId, req, childRequests, aborted, disposal,
               guest, own, base, edits, traps, faults>>
resultVars == <<free, allocations, lock, claim, logical, physical, guestPages, reserved,
                caller, answers>>
mirrorVars == <<vfsTree, hostTree, at, excluded, treeBase, cur, want, expected,
                conflicts, todo, next, outcome, start, edited, unseen, runs, writes,
                treeEdits>>
vars == <<part, toolVars, shellVars, childVars, resultVars, mirrorVars>>

\* What the components ask of their constants.
ASSUME GuestAssumption == /\ Tools!ToolAssumption /\ Shell!SessionAssumption
                          /\ Child!ChildAssumption /\ Mirror!PathsAssumption
                          /\ Results!MemoryAssumption

Init == /\ part \in Explored
        /\ Tools!Init /\ Shell!Init /\ Child!Init /\ Results!Init /\ Mirror!Init
        /\ part # "mirror" => hostTree = CHOOSE t \in TreeHosts : TRUE

ToolsStep ==
  /\ part = "tools" /\ Tools!Next
  /\ UNCHANGED <<part, shellVars, childVars, resultVars, mirrorVars>>
ShellStep ==
  /\ part = "shell" /\ Shell!Next
  /\ UNCHANGED <<part, toolVars, childVars, resultVars, mirrorVars>>
ChildStep ==
  /\ part = "child" /\ Child!Next
  /\ UNCHANGED <<part, toolVars, shellVars, resultVars, mirrorVars>>
ResultsStep ==
  /\ part = "results" /\ Results!Next
  /\ UNCHANGED <<part, toolVars, shellVars, childVars, mirrorVars>>
MirrorStep ==
  /\ part = "mirror" /\ Mirror!Next
  /\ UNCHANGED <<part, toolVars, shellVars, childVars, resultVars>>

Next == ToolsStep \/ ShellStep \/ ChildStep \/ ResultsStep \/ MirrorStep

Spec == Init /\ [][Next]_vars

\* Each component's own fairness, while the behaviour is about it.
FairSpec ==
  /\ Spec
  /\ \A t \in Tools!Threads : WF_toolVars(part = "tools" /\ Tools!Advances(t))
  /\ \A l \in Shell!Loops :
       /\ WF_shellVars(part = "shell" /\ Shell!LoopStep(l))
       /\ WF_shellVars(part = "shell" /\ loop[l].eof /\ Shell!CommandEnds(l))
  /\ WF_shellVars(part = "shell" /\ Shell!Answered)
  /\ WF_shellVars(part = "shell" /\ (Shell!PollFirst \/ Shell!PollSecond))
  /\ WF_shellVars(part = "shell" /\ Shell!Deadline)
  /\ WF_childVars(part = "child" /\ Child!RunReturns)
  /\ \A r \in Child!Requests : WF_childVars(part = "child" /\ Child!Timers(r))

-----------------------------------------------------------------------------
(* The properties of the components, each as one.                            *)

\* Concurrent cargo and rustc runs read their own arguments, collect their own status and
\* output, and leave the environment and the capture as they found them (command.rs,
\* process.rs and the locks of lib.rs).
ToolRunsSound ==
  part = "tools" =>
    Tools!TypeOK /\ Tools!ResultIsOwn /\ Tools!SerializedArgs /\ Tools!LeavesNothing

\* The sysroots are extracted in order though commands put their lines aside, and the
\* page is told of success only when both are there (main.rs, the shell's host service).
BootstrapsSound ==
  part = "shell" =>
    Shell!TypeOK /\ Shell!LoadedInOrder /\ Shell!SettledTruth

\* The memory that carries the answers of rust-analyzer is neither lost nor handed out
\* twice, whatever grows it in between and whichever answer fails half way (lib.rs).
ResultsSound ==
  part = "results" =>
    /\ Results!TypeOK /\ Results!MemoryPartitioned /\ Results!PublishedIsBacked
    /\ Results!NothingLeaks

\* A child starts on a mirror of the VFS, whatever is left on the host, and an import
\* touches nothing that neither the child nor the editor changed (filesystem_sync.rs).
MirrorSound ==
  part = "mirror" =>
    Mirror!TypeOK /\ Mirror!ChildSeesTheVfs /\ Mirror!OthersUntouched

\* An import loses no edit that its checks can see, and brings over all that it does not
\* report as a conflict (filesystem_sync.rs).
ImportSound ==
  part = "mirror" =>
    Mirror!EditsSurvive /\ Mirror!ReportIsComplete

\* The VFS takes what a child wrote only and always when that child ended gracefully
\* (ChildProcess).
DeliveriesSound ==
  part = "child" =>
    Child!TypeOK /\ Child!VfsHoldsOnlyGraceful /\ Child!GracefulDelivered

\* The files on the host are a transaction of the child, which an edit wins over.
HostIsTransactional == Child!HostIsTransactional /\ Child!EditsWin

\* One cleanup call that throws, anywhere, is made up for by the end of dispose().
DisposedClean ==
  part = "child" =>
    Child!DisposedClean

\* Commands, requests, closed sessions, the wait for the sysroots and runs of a child all
\* come to an end: the locks, channels and deadlines between them leave nobody waiting.
GuestEnds == /\ Tools!CommandsEnd /\ Shell!ClosedSessionsEnd /\ Shell!StartupSettles
             /\ Child!RunEnds /\ Child!SlotReleased
==============================================================================
