------------------------------- MODULE MCPage --------------------------------
(* Instances of the components of the page, and of the transfers of its utility worker, for
   TLC.  A run explores one after the other, each by itself: they share nothing but the
   time of the run.                                                                       *)
EXTENDS Naturals, FiniteSets, Sequences, TLC

CONSTANTS Threads, MaxRetained, MaxBody, MaxChunk, Bodies, None, PartSize, MaxAttempts,
          Views, Limit, MaxChars, MaxTokens, MaxDepth, MaxCalls, MaxY, Tolerance,
          TapDistance, ScrollDistance, LongPress, TapTime, Block, MaxGestures,
          MaxSession, MaxPanes, MaxText, MaxMounts, MaxModels, Names, Document, MaxNodes,
          MaxDocumentWrites, MaxSteps, Entries, Links, Readers, ImageSize,
          MaxGenerations, MaxChanges

\* The parts to explore, and the one that this behaviour is about; every other part
\* stays as it begins.
CONSTANT Explored
VARIABLE part

VARIABLES guest, request, responses, nextRequestId, aborted, disposal, got
VARIABLES main, attempts, downloadAborted, stopped, failed, pump, fromCache, body,
          loaded, queue, ready, put, cache, undeleted, current, waiting, emitted,
          progress, outputFailed, module
VARIABLES active, decoder, history, historyBytes, view, attaching, stack, shown, latest,
          holders, written
VARIABLES opening, open, commandsAborted, disposed, allDone, readyPending,
          commandsReady, running, calls, lines
VARIABLES installed, touching, mode, startY, lastY, distance, elapsed, scrollTop,
          scrollTopAtStart, scrolled, keyboardAtStart, longPress, copyButton, copying,
          focused, keyboard, suppressFocus, blockEvents, lateFocus, gestures, lastKind
VARIABLES panes, nextPane, nextSession, dragged, closed, stale, page, runtime, remounts,
          text, saved, refused, queued, taken, prepared, readOnly, mountFailed, mounts
VARIABLES kind, entries, data, handle, removed, known, quiet, workspaceGuest, wire,
          settled, writes, other, guestSteps
VARIABLES generation, phase, alive, resolved, sourceActive, load, download, result,
          todo, mounted, tree, change, raced, changes, call, owner, answer, children,
          entry

\* Two parts of a module; a document in a directory.
MCSize == <<1, 1>>
MCDocument == <<"a", "b">>

Http == INSTANCE HttpBridge
Download == INSTANCE PartDownload WITH Size <- PartSize, aborted <- downloadAborted
Terminal == INSTANCE TerminalService
Commands == INSTANCE RuntimeCommands WITH aborted <- commandsAborted,
                                        ready <- commandsReady
Gestures == INSTANCE TerminalGestures
Page == INSTANCE Workbench WITH failed <- mountFailed
Files == INSTANCE Workspace WITH MaxWrites <- MaxDocumentWrites, guest <- workspaceGuest
Source == INSTANCE RustSource WITH Size <- ImageSize, active <- sourceActive

httpVars == <<guest, request, responses, nextRequestId, aborted, disposal, got>>
downloadVars == <<main, attempts, downloadAborted, stopped, failed, pump, fromCache,
                  body, loaded, queue, ready, put, cache, undeleted, current, waiting,
                  emitted, progress, outputFailed, module>>
terminalVars == <<active, decoder, history, historyBytes, view, attaching, stack, shown,
                  latest, holders, written>>
commandVars == <<opening, open, commandsAborted, disposed, allDone, readyPending,
                 commandsReady, running, calls, lines>>
gestureVars == <<installed, touching, mode, startY, lastY, distance, elapsed, scrollTop,
                 scrollTopAtStart, scrolled, keyboardAtStart, longPress, copyButton,
                 copying, focused, keyboard, suppressFocus, blockEvents, lateFocus,
                 gestures, lastKind>>
pageVars == <<panes, nextPane, nextSession, dragged, closed, stale, page, runtime,
              remounts, text, saved, refused, queued, taken, prepared, readOnly, mountFailed,
              mounts>>
workspaceVars == <<kind, entries, data, handle, removed, known, quiet, workspaceGuest,
                   wire, settled, writes, other, guestSteps>>
sourceVars == <<generation, phase, alive, resolved, sourceActive, load, download,
                result, todo, mounted, tree, change, raced, changes, call, owner,
                answer, children, entry>>
vars == <<part, httpVars, downloadVars, terminalVars, commandVars, gestureVars,
          pageVars, workspaceVars, sourceVars>>

\* What the components ask of their constants.
ASSUME PageAssumption == /\ Download!SizeAssumption /\ Gestures!DistanceAssumption
                         /\ Files!WorkspaceAssumption /\ Source!ArchiveAssumption
                         /\ Commands!CallsAssumption /\ Http!BridgeAssumption
                         /\ Terminal!TerminalAssumption /\ Page!BoundsAssumption

Init == /\ part \in Explored
        /\ Http!Init /\ Download!Init /\ Terminal!Init /\ Commands!Init /\ Gestures!Init
           /\ Page!Init /\ Files!Init /\ Source!Init
        /\ part # "download" => cache = [p \in Download!Parts |-> "none"]
        /\ part # "texts" => refused = {}
        /\ part # "source" => entry = [r \in Readers |-> "f"]

HttpStep ==
  /\ part = "http" /\ Http!Next
  /\ UNCHANGED <<part, downloadVars, terminalVars, commandVars, gestureVars, pageVars,
                 workspaceVars, sourceVars>>
DownloadStep ==
  /\ part = "download" /\ Download!Next
  /\ UNCHANGED <<part, httpVars, terminalVars, commandVars, gestureVars, pageVars,
                 workspaceVars, sourceVars>>
TerminalStep ==
  /\ part = "terminal" /\ Terminal!Next
  /\ UNCHANGED <<part, httpVars, downloadVars, commandVars, gestureVars, pageVars,
                 workspaceVars, sourceVars>>
CommandsStep ==
  /\ part = "commands" /\ Commands!Next
  /\ UNCHANGED <<part, httpVars, downloadVars, terminalVars, gestureVars, pageVars,
                 workspaceVars, sourceVars>>
GesturesStep ==
  /\ part = "gesture" /\ Gestures!Next
  /\ UNCHANGED <<part, httpVars, downloadVars, terminalVars, commandVars, pageVars,
                 workspaceVars, sourceVars>>
\* The page has two parts: its panes, and what is typed in its editor.
PageStep ==
  /\ \/ part = "panes" /\ (Page!PaneNext \/ Page!MountNext)
     \/ part = "texts" /\ (Page!TextNext \/ Page!MountNext)
  /\ UNCHANGED <<part, httpVars, downloadVars, terminalVars, commandVars, gestureVars,
                 workspaceVars, sourceVars>>
FilesStep ==
  /\ part = "workspace" /\ Files!Next
  /\ UNCHANGED <<part, httpVars, downloadVars, terminalVars, commandVars, gestureVars,
                 pageVars, sourceVars>>
SourceStep ==
  /\ part = "source" /\ Source!Next
  /\ UNCHANGED <<part, httpVars, downloadVars, terminalVars, commandVars, gestureVars,
                 pageVars, workspaceVars>>

Next == HttpStep \/ DownloadStep \/ TerminalStep \/ CommandsStep \/ GesturesStep \/
        PageStep \/ FilesStep \/ SourceStep

Spec == Init /\ [][Next]_vars

-----------------------------------------------------------------------------
(* The properties of the components, each as one.                            *)

\* Every response of the HTTP bridge still has a thread of the guest that will end it,
\* none is answered in part as if it were whole, and dispose() leaves nothing behind
\* (http_bridge.ts).
HttpSound ==
  /\ [](part = "http" =>
          Http!TypeOK /\ Http!EveryResponseIsEnded
          /\ Http!NothingAfterDispose)
  /\ Http!WholeResponses

\* A module that comes in parts is put together in their order, and no cut or wrong part
\* stays in the cache unless its deletion failed too (parallel_part_download.ts).
DownloadSound ==
  part = "download" =>
    Download!TypeOK /\ Download!BytesInOrder /\ Download!NoBadPartIsKept

\* A terminal shows the output whole and in order from its attachment to its end, and the
\* history it begins with stays within its limit (runtime_terminal_service.ts).
TerminalSound ==
  /\ [](part = "terminal" =>
          Terminal!TypeOK /\ Terminal!ViewFollowsOutput
          /\ Terminal!HistoryBounded)
  /\ Terminal!DetachedIsSilent

\* Downloads are typed one after the other, the runtime is busy just while a run is under
\* way, and what failed or is disposed of leaves no channel (runtime_command_service.ts).
CommandsSound ==
  part = "commands" =>
    /\ Commands!TypeOK /\ Commands!DownloadsInTurn /\ Commands!BusyWhileRunning
    /\ Commands!NothingLeft

\* A scroll opens no keyboard and keeps the text under the finger, and a long press belongs
\* to the finger that is down (mobile_terminal_gestures.ts).
GesturesSound ==
  part = "gesture" =>
    /\ Gestures!TypeOK /\ Gestures!ScrollKeepsKeyboardClosed /\ Gestures!LongPressIsOwn
    /\ Gestures!ScrollFollowsFinger

\* Every open session has one tab, and when the page is mounted anew the workspace has what
\* the preparation came to; where it failed, the failure is shown before a runtime is created
\* (App.tsx, index.tsx).
PageSound ==
  part \in {"panes", "texts"} =>
    Page!TypeOK /\ Page!PanesSound /\ Page!NothingTypedIsLost

\* The editor's tree loses no file, its events tell what there is, and a text that was
\* answered is in the guest (workspace_fs.ts, workspace_sync.ts).
WorkspaceSound ==
  part = "workspace" =>
    /\ Files!TypeOK /\ Files!NothingIsLost /\ Files!EventsTellTheTree
    /\ Files!SettledArrived

\* The image of the Rust sources is mounted whole, answers of the guest go on as they began,
\* and none is asked of a runtime that is gone (lib.rs, rust_src_vfs_rpc.ts).
SourceSound ==
  /\ [](part = "source" => Source!TypeOK /\ Source!MountedWhole /\ Source!NoDeadEndpoint)
  /\ Source!AnswersStand
==============================================================================
