# A TLA+ model of rubrc

rubrc runs `rustc`, `cargo`, `rust-analyzer` and a shell in a browser page. All of
them are one WebAssembly program, the *VFS* (`src/crates/vfs*`), that virtualises
WASI for the tools inside it. The page (`src/page`) creates workers for it, owns its
life cycle, mirrors the editor's text into it, loads target sysroots on demand and
runs the programs that `cargo run` builds. What is hard in this code is not any
single function but the order in which the page, two or more workers, timers,
deadlines and the threads of the guest meet. These modules model that order, TLC
checks it on small instances, and TLAPS proves the most important properties for
every instance.

1. [The system](#1-the-system)
2. [The modules](#2-the-modules)
3. [The runs](#3-the-runs)
4. [The proofs](#4-the-proofs)
5. [Where code and documents disagree](#5-where-code-and-documents-disagree)
6. [Not modelled](#6-not-modelled)
7. [Plan](#7-plan)

Paths below are relative to `src/`. `PROJECT.json` maps each definition to the lines
it models and lists the runs, the mutants that show a property can fail, the hazards
and the theorems.

## 1. The system

### Inventory

| Component | Code | State it keeps | Operations | What makes it correct |
|---|---|---|---|---|
| Worker handshake | `page/src/runtime_worker_protocol.ts`, `worker_process/lifecycle_worker.ts` | a state machine each in page, utility worker and lifecycle worker; four message queues; the Animal (the instantiated guest) and its destroyer | initialize, dispose, one handler per message, worker error events | one owner of the Animal at any time, destroyed at most once; a disposal is answered, and truthfully |
| App runtime, supervisor | `page/src/app_runtime.ts` | phase, acquired resources, tracked operations, cleanups; `#current`, `#quarantine`, queue of `create()` | create, start, dispose, track, report a fatal error | shared memory outlives all its users or is quarantined; one generation at a time; every wait ends |
| Target queue and gate | `app_runtime.ts`, `app_startup_lifecycle.ts` | the operation admitted, chain of loads, targets completed | run, loadTarget, poll, time out, cancel, release | no Run during an extraction; nothing leaks; each load is answered |
| Sysroot requests | `page/src/vfs_readiness.ts`, `crates/vfs-shell/src/main.rs` | registry of requests (8 slots), hidden sessions, load lock | register, begin, finish, fail, cancel, release | a slot belongs to a load under way |
| Sysroot archive store | `page/src/sysroot_archive_store.ts` | fetched archives, the active stream | prefetch, start, chunk, end | a reader gets its own archive |
| Startup sysroots | `crates/vfs-shell/src/startup_sysroot_bootstrap.rs`, `page/src/vfs_readiness.ts` | state of two sysroots, status endpoint, poll | bootstrap, report, poll, abort | both are there before the page is told so, in order |
| Shell sessions | `crates/vfs-shell/src/main.rs` | table of sessions, a channel and deferred events each | open, key, close, run a command | a closed session ends; an event is served once |
| Document sync | `page/src/rust_document_sync.ts` | debounce map, chain of writes, failures, calls of didOpen and didClose | didOpen, didChange, didClose, flush, dispose, abort | no text lost or reordered; `flush()` is a barrier |
| Child process bridge | `lib/src/child_process_bridge.ts` | the one request, its Worker, timer and baseline; all requests not cleaned up | start, write, run, read error, end, abort, recover, dispose | the child's files are a transaction; everything is cleaned up |
| Child client of the VFS | `crates/vfs/src/lib.rs`, `filesystem_sync.rs` | request id, baseline of the VFS | copy to the host, run, import, end, recover | only graceful children leave files; edits win |
| File synchronisation | `crates/vfs/src/filesystem_sync.rs` | two trees, a plan of mutations | snapshot, mirror, import with checks | excluded and edited files survive; conflicts are told |
| Tools of the guest | `crates/vfs/src/lib.rs`, `process.rs`, `command.rs`, `shell.rs` | argument vector, environment, run locks, capture slot, statuses | run a tool, cargo's jobs, the editor's host calls | each run has its own arguments and answer; nobody waits for ever |
| Memory of answers | `crates/vfs/src/lib.rs`, `memory_manager.rs` | free regions, logical and physical size, allocations | reserve, publish, allocate, free | no byte handed out twice or lost |
| Startup coordinator | `page/src/startup_coordinator.ts` | attempt, phase, session of the analyzer | start, retry, abort, dispose | the analyzer is disposed of once; silence after disposal |
| HTTP bridge | `lib/src/http_bridge.ts`, `worker_process/vfs_bindings/http_import.ts`, `page/src/runtime_host_callbacks.ts` | retained responses with a capacity, signal | fetch, read a chunk, end, abort, dispose | every response is ended; whole bodies or none |
| Terminals | `page/src/runtime_terminal_service.ts`, `solid_xterm_lifecycle.ts` | history, attached view, decoder | output, attach, detach, mount | a view shows the output once and in order |
| Gestures | `page/src/mobile_terminal_gestures.ts` | the finger, mode, timers, suppressions | touch events, timers, focus events | a scroll opens no keyboard; a timer belongs to its gesture |
| Command service | `page/src/runtime_command_service.ts` | channels, readiness, running command, downloads | construct, run, download, abort, dispose | downloads in turn; no channel left |
| Language client | `page/src/rust_lsp_client*.ts`, `rust_lsp_startup.ts`, `semantic_provider_gate.ts` | resources, start, activation, gate | start, time out, abort, dispose | each resource released once, none late |
| Transport | `page/src/lsp_protocol.ts`, `lsp_bridge.ts` | decoder buffer, queue of writes | chunk, send, close | whole frames in order |
| Analyzer readiness | `page/src/rust_analyzer_readiness.ts` | phase, deadlines, diagnostics version | crate graph, semantic wait | ready only for the text shown |
| Workspace | `page/src/workspace_fs.ts`, `workspace_file_provider.ts`, `workspace_sync.ts` | tree of inodes, handles, events | the editor's and the host's file operations | no subtree lost; events tell the tree |
| Library sources | `page/src/rust_src_vfs_rpc.ts`, `production_runtime.ts`, `crates/vfs/src/lib.rs`, `rust_src_squashfs.rs` | load, mount, endpoint of a generation | load, mount, call, replace | mounted whole; no call to a dead generation |
| Module download | `page/src/worker_process/util_cmd.ts`, `parallel_part_download.ts` | parts, caches, output | fetch, cache, delete, emit, abort | bytes in order; no bad part kept |
| Archives | `page/src/sysroot_archive.ts`, `lib/src/fetch_with_optional_cache.ts`, `page/src/rust_src_cache.ts` | cache shared by tabs | load, prune | only older builds are pruned |
| Page | `page/src/App.tsx`, `index.tsx`, `runtime_entrypoint.ts` | panes and tabs, mount, texts | split, drag, close, type, remount | one tab per session; no typed text is lost in silence by a remount |

Section 6 lists what is left out.

### How they interact

* **Messages.** The page talks to each worker over two FIFO queues
  (`postMessage`). Calls to the guest (writes, target requests, terminal input) are
  RPCs over `SharedObjectRef`, a library outside `src/`; they can answer, reject or
  hang.
* **Shared memory.** The farm (`wasi_virt_layer`'s data plane) is a
  `SharedArrayBuffer` that page, workers and guest threads use. It is freed only by
  the page, and that is what `AppRuntime` has to get right.
* **Blocking calls.** A guest thread that calls a host import (child process, HTTP,
  sysroot stream) blocks until the page answers; the page itself never blocks.
* **Callbacks.** Factories and state listeners run inside `start()` and may call
  `dispose()` again; a terminal view may write while it is written to. The design
  lives with re-entrancy, not with locks.
* **Deadlines.** Each wait of `dispose()` is raced with a timer; target loads have a
  deadline after which they are cancelled cooperatively; a child has an upload timer
  and an execution timer; every transfer and every wait for the analyzer has one.
* **One signal.** A generation's abort signal is the only thing that reaches the
  command service, the bridges, the language client and the readiness waits. Each has
  its own await under way when it comes.

### What is hard

Startup and disposal cross each other in any order, in one thread by re-entrancy and
in several by messages. An operation settles after the deadline its waiter had. One
step of a cleanup throws and the others must still be made. The VFS instance traps
while its child still writes to the host's file system. A failed write is retried
behind newer ones. A target load times out in the moment in which it succeeds. Tools
that were written for a process each share one argument vector. The hazards in
`PROJECT.json` list these at the line where they bite; section 6 names those that no
property covers.

## 2. The modules

| Module | Models | Composition |
|---|---|---|
| `WorkerHandshake` | one generation of the handshake | refines `AnimalCustody` |
| `AnimalCustody` | who may destroy the Animal | abstract |
| `AppRuntime` | supervisor and generations | refines `GenerationSlot`; treats the handshake as one resource, "handshake", with the outcomes `WorkerHandshake` gives its disposal |
| `GenerationSlot` | one generation at a time | abstract |
| `DocumentSync` | mirror of the editor's documents | - |
| `ProjectActivation` | activation, document sync and editor over the two lives of main.rs | - |
| `ChildProcess` | guest client **and** bridge **and** file systems | refines `ChildTransaction` |
| `ChildTransaction` | the child's files as a transaction | abstract |
| `TargetInstall` | gate, loader, endpoint, registry, shell threads and archive store, composed | - |
| `ToolRuns` | the shell's sessions, the editor's host calls and cargo's jobs **on** the guest's tools and locks | - |
| `ShellSession` | sessions with their channels, the startup bootstraps **and** the page's wait | - |
| `LspResultMemory` | the server's memory, grown by the server and by the VFS | - |
| `FileSync` | guest's tree, host's tree, the walk between them, the child and the editor | - |
| `HttpBridge` | guest's loop, worker's imports, callbacks' owner, bridge and network | - |
| `PartDownload` | the preparation of the guest's module and the parallel stream of its parts | - |
| `AssetCache` | loads of several tabs, their one cache, deployments and pruning | - |
| `StartupCoordinator` | the startup of the page with and without its cache | - |
| `LanguageClient` | start, owner of resources, activation and semantic gate | - |
| `LspTransport` | decoder and ordered sender | - |
| `AnalyzerReadiness` | readiness of the analyzer, its answers and the user who types on | - |
| `TerminalService` | one terminal session, its views and their mounts | - |
| `TerminalGestures` | the finger, the browser's focus and the timers | - |
| `RuntimeCommands` | parser and command service with the buttons that call them | - |
| `Workspace` | the page's tree, its two kinds of callers and the guest's tree | - |
| `RustSource` | load, mount, programs, endpoint, provider and generations | - |
| `Workbench` | panes and tabs; the editor's models and the remount with its preparation, disposal and creation | - |
| `MC…` | constants for TLC; `MCGuest`, `MCHost`, `MCPage` explore several components | extend or instantiate the above |
| `…Proofs` | theorems | extend the above and TLAPS |

`MCGuest`, `MCHost` and `MCPage` hold the variables of several components and a variable
`part` that says which of them a behaviour is about. A step is a step of that component
and leaves the others as they began, so that a run explores the components one after the
other: they share nothing but the time of the run, and the distinct states of a run are
the sum of theirs. An invariant of such a module has the form `part = "x" => ...`; an
action property of a component needs no guard, because the component's variables only
change in its own steps; the fairness of a component holds while the behaviour is about
it. Interaction is modelled inside a module: each one above puts the actors that meet in
one component's code into one next-state relation.

### WorkerHandshake

`main` is the closure state of `createRuntimeWorkerHandshake`: a set of flags, one per
boolean of the code, and the two promises. `utilPc` and `life` are the states of
`createUtilityWorkerStateMachine` and `createLifecycleWorkerStateMachine`; `toU`,
`fromU`, `toL`, `fromL` are the queues. There is one action per message handler, per
`await` that continues, and per call of the owner. A handler that finds its message out
of order calls `failProtocol`; the model leaves these branches out and `MessagesInOrder`
shows that the repository's own workers never reach them. `Faults` selects which steps
may throw; the two `…Error` faults are the error events of a worker. `Terminate` stops
both workers; what they had queued is never handled, as after `Worker.terminate()`.

`AnimalCustody` says that custody passes from nobody to the utility worker to the
lifecycle worker and never back, that only its holder destroys the Animal, and that a
disposal resolves only when no Animal is left. One exception is the code's: a utility
worker whose own cleanup fails before it handed over ("abandoned").

### AppRuntime

Each member of `Gens` is one call of `RuntimeSupervisor.create()` and the generation it
makes. `start()` acquires five resources in the order of `Order`; the part of it up to
`initialize()` runs without an `await`, so nothing of the page happens between its steps
except what factories and listeners themselves do: re-entering `dispose()`. `Running` and
`Idle` express this. `teardown` is where `disposeInner()` awaits; each `await` is a step
of its own and may end by its deadline, which counts as "not confirmed". `has` is what
a field holds, `live` what has not been given back: that difference is where a leak or a
use after release would be. A resource made after the disposal had looked for it
(`MakeLate`) is cleaned up through `late`.

Decisions: `terminate()` and `detach()` that throw have had their effect;
`Worker.terminate()` never throws in the main path. The startup promise stays pending
when the destroyer fails before ready, as in the code; `StartupEnds` speaks of the
runtime's own promise, which is raced with the abort.

### DocumentSync

The text of a document is the number of its last edit, so "newer" is ">". `chain[d]` is
the promise chain of `writes`: its head is in flight. `openLeft`, `closeLeft` and
`flushLeft` say how many entries of a chain a caller still waits for, which is what
`Promise.all` over a snapshot of the map amounts to. `overtaken` is a history variable:
the documents for which a retry was queued behind newer text, the case `NoSilentLoss`,
`FlushBarrier`, `CloseAfterWrite` and `VfsNeverRegresses` except (see section 5). Each
document is opened and closed at most once; `ProjectActivation` has the one that is
opened again.

### ProjectActivation

`activateRustProject()` makes the language client close main.rs and open it again by
changing its language to plaintext and back. `activation` is the `await` at which it
stands, `open[1]` and `open[2]` are the two `didOpen` calls, `close` the `didClose`
between them; an entry of `chain` names the life whose `didOpen` waits for it. The write
of main.rs by the activation does not go through the sync, so it is no entry of `chain`.
The edits made while the language is plaintext are told to nobody. `skipped` says that
`didClose` saw the document as plaintext already and flushed nothing: the document belongs
to the language client, and the model lets it be either. The runtime aborts at any point;
`sync.abort()` follows it some steps later.

### ChildProcess

The guest's steps are the calls of `run_wasi_child` in order; they block, so the guest
has one program counter (cargo runs are serialised by `CARGO_RUN_LOCK`). `req[r]` is the
bridge's `RequestState`. The Worker writes to `host` at any time while it exists, and its
report races the timers, an abort and a recovery. `Trap` loses the guest anywhere and
`Boot` is the start of a replacement over the same bridge, which first recovers the
request its predecessor left. Cleanup calls throw only in instances with `Faults`; all
the cleanup calls of one sweep that are of a kind in `bad` throw together. Arming a timer
does not throw, `abort()` does not re-enter the set-up of a Worker, and a terminated
Worker writes nothing more: the farm that would have to guarantee the last is a library.

A file's contents say who wrote it: 0 as found, k the k-th edit, -r the child of request
r. That is all `VfsHoldsOnlyGraceful` and `EditsWin` need to tell apart. How the two
directions of the synchronisation walk the trees is `FileSync`'s matter.

### TargetInstall

The chain of promises in `loadTarget()` is `queue`; its head is the load that runs.
`loader` is where its `await` stands, `rpc` its one call to the endpoint, `slot` the
guest's registry, `busy` the hidden sessions. A shell thread takes `lock`, starts the one
`stream` and reads it in `Chunks` steps, looking for a cancellation before each. Thread 0
is a `load_sysroot` typed in a terminal, which happens once and is not a request: it is
not excluded from a Run, in the code as in the model. The endpoint's rejected dispatch
releases what it took. When the transport itself times out, or an accepted call is
rejected, the runtime is torn down: phase "gone" freezes the page's half, while guest
threads may go on. `Triples` leaves out the target loaded at startup. A tar may end
before its archive does. The disposal of the store and progress reports are left out.

### The guest: ToolRuns, ShellSession, LspResultMemory, FileSync

*ToolRuns.* A thread is a session of the shell, a host thread of the language server, or
a job of a cargo that runs. Every embedded tool reads the one argument vector `argv`
when it starts; the two run locks, the environment and the capture slot are one variable
each. `th[t].seen` is what the program read, `th[t].code` what it exited with. clang and
the language server's start set the arguments without a lock: that is the exception
`SerializedArgs` names.

*ShellSession.* A loop is one run of `run_session_loop()`. It serves its own deferred
events first, then its channel; a command that reads input puts everything that is not a
key aside. `table` is `SESSIONS`; the page's poll with its two requests and deadline is
`startup` and `waiter`. Pipelines and built-ins appear as "a command", which reads or ends.

*LspResultMemory.* Pages are reserved first (`physical`), then published by the
compare-and-exchange of `logical`. Both the server and the VFS grow it. Regions are
intervals of bytes, so `MemoryPartitioned` is about every byte. The loop of `free()` that
sorts the regions and joins neighbours is `Merged`, stated by what it does to regions that do
not overlap (and they never do): a region for each address where one begins and none ends, up
to the next where one ends and none begins.

*FileSync.* A tree gives each path an entry. `Snapshot`, `Plan` and the order of
mutations are operators over whole trees; the import's checked mutations are one step for
the check and one for the change, because other sessions edit in between. `unseen` is a
history variable: the paths edited in that window, which no check can see (section 6).

### The host: coordinator, client, transport, readiness, transfers

*StartupCoordinator.* `run` is the `await` at which `#run()` stands; App.tsx's callbacks
are the outcomes of the awaits. *LanguageClient.* `startup`, `disposal` and `activation`
are the three functions with awaits; the abort is heard at once by the runtime's owner
and a microtask later by the start. *LspTransport.* A byte is a token with the number of
its frame. *AnalyzerReadiness.* Time is what is left of two timers; `captured` is the
version a request was asked with. *HttpBridge.* A response is the lengths of its parts.
*PartDownload.* A part is its number of chunks; its write to the cache, its pump and the
consumer go on side by side. *AssetCache.* A tab belongs to a build, and deployment of
the next may happen at any moment.

### The page: terminals, gestures, commands, tree, sources, workbench

*TerminalService.* Calls nest: `stack` holds the writes to views under way, each of which
may call the service again, throw, or return. *TerminalGestures.* Positions are on a line
and coarse enough to tell the three distances of the module apart. *RuntimeCommands.* The
proxy's answers may come late or never, the abort at once. *Workspace.* Paths have at most
two names; a refused call is no step. *RustSource.* The load is three calls, the mount a
loop over entries; programs check a path and change it in two steps. *Workbench.* Panes
are a sequence of records of tabs, `Only` what `Array.filter` leaves of a sequence; the
remount is index.tsx's asynchronous function. The editor's models are numbers, in the order
Monaco lists them. `Preparation` writes them up to the first that the workspace refuses: the
path is a directory, or its directory is not in the page's tree, as for every source of
Rust's library that the editor has opened (`workspace_fs.ts:143-145,226-238`). That one and
those behind it are not written then, no flush is asked for, and the app goes all the same;
the failure is shown once the runtime is disposed of. `prepared` says how many were written. The runtime may be anywhere in its life meanwhile: it is asked for
a flush only if it is ready when the last model was written, and before its editor is mounted
an app has nothing to prepare. `Taken` and `Given` are the programs of the guest and the
commands of the editor, which share the tree; `Synced` is the document sync, whose queue may
hold an older text than the preparation has written. `MCPage` explores the panes and the
texts one after the other, both with every step of the mounting: `PaneNext` neither reads
nor changes what `TextNext` does, and the reverse.

## 3. The runs

Every passing run explores its whole state space. Each property of a passing run has a
mutant: a definition it depends on, replaced by a form with a plausible bug, violates it.

| Run | Instance | Question |
|---|---|---|
| `handshake` | all nine faults, one generation | every interleaving of startup, disposal and failure; refinement of `AnimalCustody`; that disposal and startup are heard |
| `documents_two` | 2 documents, 1 of them failing, 2 edits each, 1 flush, dispose, abort | what `flush()` and `dispose()` promise about all documents |
| `runtime_two` | 2 generations, faults of the construction and of the callbacks | refinement of `GenerationSlot`; nothing is freed under its user; every `create()` is answered |
| `target_loads` | 2 targets, 2 requests, 1 slot, 2 chunks, a terminal load, Runs | exclusion, ownership of requests and streams, and that loads end |
| `guest_state` | tools: 2 sessions, host thread, job, 3 commands; shell: 2 loops, 3 events; 2 callers of the answers' memory; tree of 3 paths, 2 runs, an edit; 2 files, 2 requests, 2 edits, 2 traps | what each tool reads and answers; the bootstraps; the memory; the two synchronisations; refinement of `ChildTransaction` |
| `guest_progress` | tools, shell, and a child with 1 file, 2 chunks, 1 trap, 1 throwing cleanup call | commands, closed sessions, the startup's wait and runs end; a cleanup that throws is made up for |
| `host_progress` | a runtime with 2 calls and all faults; 1 document, 2 flushes, failing writes; 4 texts of main.rs; 2 HTTP threads; 1 part; 2 tabs of 2 builds; the coordinator; the client; 5 frames; 3 versions | safety of each, and that everything that was begun ends |
| `page_state` | 3 HTTP threads; 2 parts; 2 views; 4 calls of commands; 2 gestures; 2 sessions, 3 panes, 2 models, 2 mounts; 3 inodes; 2 generations with a reader | safety of the page's components |
| `handshake_unconfirmed`, `documents_retry`, `runtime_lost_call`, `child_retained` | small, no fairness | the disagreements of section 5 |

The properties of the runs, and what they are made of:

* `handshake`: `AnimalSafe` (the guest starts only under a lifecycle worker that
  can destroy it, and never two destroyers), `HandshakeOrdered` (a live Animal has an owner
  until the handshake is terminal; no handler meets a message it does not expect),
  `ImplementsCustody`, `CallersHear` (startup resolves for a serving guest, a failure after
  it is reported, disposal and startup settle).
* `documents_two`: `NoSilentLoss`, `FlushBarrier`, `DisposeDrains`.
* `runtime_two`: `FarmOutlivesUsers`, `QuarantineRetains`, `SlotImplemented`, `CreateEnds`.
* `target_loads`: `RunExcludesInstall`, `LoadsTracked` (each busy slot belongs to a load
  under way, a completed target is installed, a reader gets its own archive), `LoadsEnd`.
* `guest_state`: `ToolRunsSound`, `BootstrapsSound`, `ResultsSound`, `MirrorSound`,
  `ImportSound`, `DeliveriesSound`, `HostIsTransactional`.
* `guest_progress`: `DisposedClean`, `GuestEnds`.
* `host_progress`: `TransportSound`, `TeardownSound`, `CacheSound`, `CoordinatorSound`,
  `LanguageSound`, `ReadinessSound`, `DocumentsSound`, `ActivationSound` (the server hears
  `didOpen` only of a document it does not have open and `didClose` only of one it has; once
  main.rs is open again the VFS is on its way to the text of the editor), `HostEnds`.
* `page_state`: `DownloadSound`, `CommandsSound`, `GesturesSound`, `PageSound`,
  `WorkspaceSound`, `HttpSound`, `TerminalSound`, `SourceSound`.

### Bounds, and why they are enough

* *Edits, requests, targets, generations, callers, tabs: 2.* The hazards relate an older
  and a newer item: a failed write and a newer one, a request left by a trapped guest and
  the next one, a load that timed out and the one behind it, a generation in teardown and
  one waiting for its turn, a gesture whose timer is left and the next. A third would queue
  behind the second in the same position. *HTTP threads: 3* in `page_state`, one more than
  the bridge retains.
* *Commands: 3.* Two sessions and the analyzer's host thread, or a cargo, its job and one
  that waits for the lock.
* *Texts of main.rs: 4.* The one the activation begins with, an edit before the crate graph,
  one behind the timer when the document is closed and one while it is plaintext or after.
* *Chunks: 2* where a cancellation or a trap between two chunks matters, 1 elsewhere.
* *Capacity: 1* instead of eight target requests, *2* instead of 64 responses: one
  leaked slot is enough to block. Loads are serial, so with 2 slots TLC finds the same
  number of states.
* *Traps and throwing cleanups: 1 or 2*, so that a recovery can itself be interrupted.
* *Faults*: all of them in `handshake` and in the runtime of `host_progress`. `runtime_two`
  keeps those that decide whether a slot is returned. Cleanup calls of the bridge throw in
  `guest_progress` only: `guest_state` asks about files. `child_retained` and
  `runtime_lost_call` need no fault to be violated.
* *The tree of FileSync*: a directory, a file in it and a file that may be excluded: a
  removal that must stop at what is excluded, a conflict inside a removed directory, and an
  entry too many for the limit. In `guest_state` there is also a file of the sysroot, which
  the host has from the start and which no direction may touch. The host begins with any
  part of the rest.
* *Frames*: lengths 2, 0 and 1, one that cannot be read and one after it, cut everywhere.
* *Times* in steps: each limit is at least one step apart from what it races with, so both
  orders happen.

The symmetry in `guest_state` is over the child's files, which no definition tells apart;
no run that checks liveness uses symmetry. Deadlock is not checked: a disposed runtime, a
finished handshake and a used-up bound really stop.

### Fairness, and why the code justifies it

* `WorkerHandshake`: event loops deliver queued messages. Loading the prerequisite,
  starting the guest and both `async_destroy()` calls may hang, because the handshake
  gives none a deadline; `DisposalSettles` and `StartupHeard` except a destroy that does
  not return. `AppRuntime` is where the deadline is.
* `AppRuntime`: code on the main thread runs to its next `await`; each wait of
  `dispose()` is a `withDeadline`; `initialize()` is raced with the abort signal. Nothing
  makes an operation or `initialize()` settle or anybody call `dispose()`.
* `DocumentSync`: timers fire; continuations run; the write RPC and the language
  client's `next()` settle. The code gives a write no deadline, so that last one is an
  assumption about the guest; `abort()` is the way out when it does not hold. Nobody has
  to edit, close or dispose. `ProjectActivation` assumes the same of the writes and the
  client's calls; the two waits for the analyzer end by their deadlines
  (`AnalyzerReadiness`), and timers, edits and the abort are left free.
* `ChildProcess`: timers fire and an answer wakes the blocked guest. A child need not
  end, nor the guest make its next call.
* `TargetInstall`: the event loops of page and utility worker go on; the loader's pause
  is a timer and its prefetch has a deadline; shell threads read an archive that is in
  memory when extraction starts. The thread scheduler gives the load lock to a waiter:
  one terminal load can be ahead of a request, so weak fairness per thread suffices.
  This assumes that the guest's extraction does not wedge (section 5).
* `ToolRuns`: each thread goes on when it can, a program ends, and a mutex is given to a
  waiter; commands are bounded, so that weak fairness per thread suffices.
* `ShellSession`: a loop takes what its channel holds; a command whose input is closed
  ends; the page's poll is answered and its deadline passes. A user need not type.
* `HttpBridge`: the guest goes on with its answer; after the abort the fetch and the reader
  reject, as the standard has it. Before the abort the network may be silent for ever.
* `PartDownload`: the main function and its progress go on; a cache answers; after the
  stop, fetches and reads reject. *AssetCache*: the clock ticks; the timer of a load fires;
  an operation that was stopped ends.
* `StartupCoordinator`: every await of `#run()` settles, which its callers' own deadlines
  see to. `LanguageClient`: timers fire, the abort is heard, cleanup settles; the start's
  own awaits need not, unless it was aborted. `LspTransport`: a send settles, well or badly.
* `AnalyzerReadiness`: the clock ticks and timers fire. The analyzer answers nothing it
  need not, and edits are bounded: "as soon as the user pauses".

## 4. The proofs

TLAPS proves the following for every value of the constants that satisfies the named
assumptions: any fault set, any number of documents, edits, flushes, generations, calls,
targets, requests, sessions, programs, files, tabs, parts and threads, any capacity and any
length of an archive or a body. The assumptions say what kind of thing a constant is and
little else (`FaultsAssumption`, `SyncAssumption`, `RuntimeAssumption`,
`InstallAssumption`; `GuestAssumption`, `HostAssumption` and `PageAssumption` collect those
of the components). Those with content: in `ToolAssumption` the threads of different kinds
are different; in `SizeAssumption` every part of a download has bytes, as the manifest's
parser demands; in `DistanceAssumption` a finger scrolls later than it stops being at rest,
and the suppression of focus lasts at least one step, as the module's own constants do; in
`PathsAssumption` a path has finitely many directories above it, what is excluded is excluded
with all below it, the sysroot is excluded and so are its directories, and the host begins
with a tree in which files are in directories; in
`MemoryAssumption` the alignment and the page have bytes; in
`BridgeAssumption` the guest has finitely many threads and a chunk is not empty.
`WorkspaceAssumption` and `TerminalAssumption` also say that the bounds of the exploration
(nodes, writes, tokens, characters) are natural numbers.

**WorkerHandshakeProofs.** `TypeCorrect`, `GuestStartsUnderLifecycle`,
`NeverTwoDestroyers`, `AnimalIsSafe`, `DisposalIsSound` and
`HandshakeImplementsCustody`. The properties
are not inductive: that the guest starts only under a lifecycle worker that holds the
destroyer depends on a chain of messages through two queues and `main`. `Inv` adds where
the adoption is. `Construction` says what the queues hold before the destroyer has been
posted, `Adoption` that the adoption is in exactly one of five places (`AdoptionPlaces`)
until it has come back, and `Destruction` what is known once a destroy has been sent.
`Once` excludes duplicates in a queue, which is what lets the place be named by
membership. The refinement proof maps each action to a custody action or a stutter under
`Inv`.

On top of that invariant comes `HandshakeIsOrdered`. `Order` says for
each message that waits what main has recorded and where the utility stands (`Expected`),
that only a destroy request sent by main starts the lifecycle worker's cleanup
(`DestroyAnswered`), and that nothing overtakes the utility's first message
(`InitializeFirst`), the one fact that is about places in a queue and not membership. A
step of main that only fails or ends is shown once to disturb none of it (`QuietStep`).

**DocumentSyncProofs.** `TypeCorrect`, `NoTextLost`, `FlushIsBarrier`, `VfsAdvances`,
`DisposalDrains`.
The invariant orders the texts of a document: what the VFS has, what failed, the chain
from front to back, the snapshot behind the timer, the accepted text. It excepts overtaken
documents, for which that order is what the code breaks. For `DisposalDrains` two facts are
added. `DrainKept` says that once dispose() has its drain no timer is left and the only
queued write of a document is the one of a didOpen that came later, which dispose() does
not wait for and which is over once that didOpen is. `OpenWaits` says that a didOpen with
writes to wait for has not been forwarded, so that a rejected one stays rejected. `ClosesAfterWrite` and `ServerHearsInOrder` are about the notifications.
`CloseQueued` says which writes of its document a `didClose` under way still waits for,
`ServerFollows` that what the server was told last is not newer than what waits for it.

**ProjectActivationProofs.** `Invariance`, `TypeCorrect`, `LivesAreOrdered`,
`ActivationKeepsText`. What the server knows is the outcome of three calls that wait for
each other through the activation, the map of calls in flight and the queue. `Queued` says
which writes of a `didOpen` are in the queue and how much of it `didClose` waits for,
`Lifetimes` that the second life begins only when `didClose` is done, `ServerKnows` what
the server has open at each stage, and `TextKept` where the current text is: behind the
timer, last in the queue, failed or in the VFS, unless the document is on its way to its
second life, which takes it from the editor.

**AppRuntimeProofs.** `TypeCorrect`, `FarmIsSafe`, `QuarantineKeeps`, `PhasesAdvance`,
`ImplementsSlot`. `Inv` is the conjunction of `TypeOK`, `PhasesAgree` (supervisor and
generations), `SlotHeld` (the current generation is the only one that is live),
`LiveResources` and `NothingLeft` (what is recorded and what given back at each stage),
`StartMet` (what a disposal that met a running `start()` knows), `BoundariesKnown` (a
confirmed boundary is not live), `Stopped` and `Awaited` (what each wait leaves behind).

**TargetInstallProofs.** `Invariance`, `RunsExcludeInstalls`, `LoadsAreTracked`. That a
Run excludes an extraction is seen on neither side alone: the gate is the page's, the slots
and threads are the guest's. `Inv` follows the load across them. `GateHeld` ties the
operation to the queue and the queue to the loader, `LoaderAsks` the loader's step to the
call that is out, `RequestPolled` that call to the one request that may have a slot and a
session (and an answer of "ready" or "failed" to a request that is over), `ThreadsServe` a
thread that extracts to a request that is loading and to the lock. With the gate at "run"
the queue is empty, so there is no loader, so no request, so no thread that extracts.
`RequestPolled` also carries the reason why a release ends well: a request is ready only
when its archive was extracted.

**GuestProofs.** `ToolRunsAreSound`, `BootstrapsAreSound`, `DisposalCleans`,
`DeliveriesAreSound`, `HostImplementsTransaction`, `MirrorIsSound`, `ImportIsSound`,
`ResultsAreSound`. Each is an invariant of one component and
holds of the sum because the steps of the others leave its variables alone (`StepOf...`).

* *The tools.* That each run reads its own arguments rests on who is in which guarded
  section: `Locks` says that a lock is held by exactly the thread whose program and program
  counter put it there, `JobsOfCargo` that jobs run only under a cargo that runs. From that
  follow the owners of the argument vector (`Arguments`), of the slot and the capture
  (`Slots`, `Capture`), and what is below whom in the environment (`Environment`).
* *The bootstraps.* `RustSettles` or `Ordered`: a loop either has got to the bootstrap of
  rust-src, or still has it before that of the target, in its queue or among the events it
  put aside. `Once` keeps the bootstrap of rust-src in one place.
* *The bridge.* `CleanupInv` says that a request which is no longer tracked has nothing left
  to clean up. It holds when at most one cleanup call throws, which is the theorem's
  hypothesis `MaxFaults \in {0, 1}`: dispose() sweeps twice, so two calls that throw, one
  in each sweep, do leave something behind.
* *What a child wrote.* `Activity` says that the tracked request has the timer, Worker and
  stage that belong together, `HostClean`, `BaselineClean` and `VfsClean` where contents of a
  child may be that has not ended gracefully. These need `MaxFaults = 0`: a restoration that
  throws leaves the child's files on the host, and the next import takes them.
  The refinement of `ChildTransaction` maps each step of the bridge under that invariant to
  a step of the transaction or a stutter (`Settled`: a step changes no request under way or
  settles the one there is). Edits, traps and children remain free in all of them.
* *The file trees.* `MirrorInv` is one invariant for both properties. `BaselineKept`: while
  a child runs or is merged, the manifest is the snapshot of the tree it was started on, and
  the host began as its mirror. `EditsKnown`: until the import the VFS differs from that tree
  just where the editor wrote. `WorkLeft`: what is left of the work is a part of the plan, no
  step of which waits for one that is over, on paths where the child wrote and no edit that
  the checks can see has come. `WorkDone`: where no work is left the tree has what it was to
  have. `CheckedFree`: a path that was found free has been edited since only in the window
  that no check sees. The lemmas under it are about whole trees: a transfer keeps a tree a
  tree after any part of its steps that is closed under their order (`TransferKeepsTree`),
  and all of them leave a mirror of the source, but for directories that hold something
  excluded (`TransferMirrors`); `MergeFacts` says whose entry a merge takes.
* *The memory of the answers.* `Partition`: the free regions and the allocated blocks are
  exactly the published bytes that are not the server's, each byte once. It is kept by
  carving a block out of the first region that fits (`CarveFacts`, `TakeOut`), by giving one
  back (`MergedFacts`, `PutBack`) and by publishing pages (`GrowFree`). `Backed` accounts
  for the pages that are reserved and not published, `Claiming` ties the claim to the call
  that holds the lock, and `Owned` is the bijection between allocations and the results that
  calls hold, which is why a failed answer leaves nothing behind.

**HostProofs.** `CacheIsSound`, `CoordinatorIsSound`, `ReadinessIsSound`,
`WritesStayInOrder`, `TransportIsSound`, `LanguageIsSound`, and the theorems of the
documents, the activation and the runtime carried into `MCHost` (`DocumentsAreSound`, `ActivationIsSound`,
`TeardownIsSound`). `OneAnalyzer` ties the coordinator's field to the one analyzer that
lives, `Generations` counts generations against the two calls that begin one, so that what
was started before a disposal is recognised as old. `InTurn` orders the messages that
arrived, the one that is being sent and those that wait. `FrameInv` says where the decoder
stands in all that the analyzer writes: what is on its way is the end of it, and while the
reader is open the buffer begins where the first frame that is not delivered does and holds
less than the whole of it. It rests on where each frame begins in the flattened bytes
(`LayoutIs`, `OffsetFacts`) and on what the loop of `push()` takes from a buffer (`PushIs`);
the recursive functions behind both are shown to be what their equations say (`FlattenIs`,
`LeftIs`), by the least number for which they would not be. `ClosedOnce`, `ReleasedInOrder`
and `DisposedByAbort` relate the resources of the client to the stage of its disposal,
`OwnMutation` a write of the activation to the await it is made in. A tab's pruning step
deletes only builds older than one that was deployed when it asked (`AskedDeployed`).

**PageProofs.** `GesturesAreSound`, `SourceIsSound`, `DownloadIsSound`, `CommandsAreSound`,
`HttpIsSound`, `WorkspaceIsSound`, `TerminalIsSound`, `RemountLosesNothing`, `PageIsSound`.

* *Gestures.* `FocusStaysAway`: after a scroll what the browser may still do is over before
  the suppression of focus is, however the clock and the finger go on.
* *Sources.* `MountSoFar` and `WholeMount` say what is in place during and after the mount,
  but for the entries a program raced for; `CallsOfMounts` that whoever was told a size or a
  listing asks a guest that has the mount or is gone.
* *Download.* `Counted` balances for each part the chunks that were read, wait and are out;
  `WritesBeside` and `KeptWell` follow the write to the cache, which outlives the pump;
  `EmittedInTurn` is the order.
* *Commands.* `OneRun`: the call under way is the one the runtime is busy with;
  `LinesOfCalls`: the downloads before one whose line was typed are over.
* *HTTP.* `IdsApart` and `ResponsesOfThreads`: the responses that are retained are those of
  the threads that are still to end one, each its own. `IdsOnce` bounds the ids by the
  threads that have asked. `PartsRead` says how far each part was read at each step, which
  gives whole bodies.
* *Workspace.* The provider finds a file by walking the tree, and a rename moves a subtree
  by changing one parent. `TreeInv` is what keeps that a tree: `OneSlot` (no two nodes in
  the same place), `Placed` (who is reachable is under a directory that is), `LeafNodes`,
  `Shallow` and `FreeNodes` (an unused node is nobody's parent). `TextsInv` carries the
  texts through a move: a node keeps its own whatever its path becomes. `Told` says that
  each change the editor was told of has happened, in the order of the changes.
* *Terminal.* The view is a cut of the history at a sequence number. `HistoryInv` and
  `FramesApart` say that the history is a run of frames without gap or overlap, so that the
  number of a frame says where it is; `ViewInv` that the view has all frames up to the last
  it was given; `AttachingInv` and `GivenInv` that a snapshot which is given late is one that
  the frames that wait continue. What the history drops is the shortest prefix that is long
  enough (`Prefix`): that there is one comes from the well-foundedness of the numbers
  (`LeastNatural`), and its bytes from cardinalities (`Utf8Length`), not from a recursion.
* *Panes.* `PanesInv`: the sequence of panes is sound as a whole (`AllSound`: ids differ, a
  terminal is in one pane and once in it, a pane shows a tab it has), and holds the open
  terminals, the closed ones only when a drag brought them back. `DragKnown`: what is dragged
  is in the pane it was dragged from or in none, though panes and tabs may have changed since,
  which is why a drop never makes a second place for it.
* *Mounting.* `MountInv`: between two editors nothing is typed, and what the preparation came
  to is in the workspace unless others or an older write of the document sync came after it
  (`TextsStand`); a preparation that failed or left a model out is not followed by a creation
  before its failure was shown, and a runtime that was disposed of stays so until the next
  (`MountSteps`). The strengthening carries the preparation's outcome through the flush and the
  disposal. `RemountLosesNothing` is a theorem of `Workbench`'s own specification, in which
  panes and texts change side by side.

Only model-checked is liveness under fairness, which is out of the prover's reach:
`CallersHear`, `CreateEnds`, `LoadsEnd`, `GuestEnds` and `HostEnds`. Every other property
of a passing run is stated by a theorem.

A theorem without a property in `PROJECT.json` states a part of a property that a run
checks (`DisposalIsSound` and `SoundDisposal` under `ImplementsCustody`; `PhasesAdvance`
under `TeardownSound`, `VfsAdvances`, `ClosesAfterWrite` and `ServerHearsInOrder` under
`DocumentsSound`, `LivesAreOrdered` and `ActivationKeepsText` under `ActivationSound`,
`WritesStayInOrder` under `TransportSound`, `RemountLosesNothing` under `PageSound`). The type invariant of
`WorkerHandshake` is proved and not checked by a run of its own.

## 5. Where code and documents disagree

Each of these is a run that TLC finds violated.

* `NoFalseSafeDisposal`: when `dispose()` comes before the destroyer and the utility
  worker's own cleanup fails, the disposal promise resolves although nothing confirmed
  that the Animal is gone. The design asks for a quarantine.
* `FlushedTextIsLatest`: `flush()` retries a failed snapshot behind a newer write that is
  in flight; it resolves with the older text in the VFS, and Run compiles it.
* `QuarantineOnlyUnconfirmed`: a call that hangs because its worker was terminated keeps
  `settleOperations()` waiting and costs a page reload, though callbacks and Animal are
  accounted for.
* `RetainedUntilEnded`: after an import that failed, the next `cargo run` copies the VFS
  over the host files that the bridge retains for that import.

Observations without a run:

* A cleanup registered from a factory that disposes of its own runtime is registered after
  `settleOperations()` has made its list (`page/src/app_runtime.ts:1217`) and is not
  awaited by that disposal; no production factory does so.
* The app-owned runtime design makes cancelling a target whose extraction has begun a fatal
  operation of the runtime, while the loader cancels cooperatively and polls on without a
  second deadline: an extraction that wedges in the guest refuses Run for good.
* `flushDocument()` reads the language of a document after `didClose` has awaited its
  `didOpen` (`page/src/rust_document_sync.ts:93,261`), while the activation has already
  changed it (`page/src/rust_lsp_startup.ts:113`). If the client's document shows the new
  language by then, nothing is flushed, and a timer that is left may write its older text
  behind the write of the second `didOpen`: `skipped` in `ProjectActivation`.
* The analyzer may count as ready on diagnostics that were published for the same version
  before the document was reopened, which
  `docs/superpowers/specs/2026-08-12-staged-rust-analyzer-startup-design.md:125-127` means
  to exclude.
* Between the second comparison of a path and its change an import holds no lock
  (`crates/vfs/src/filesystem_sync.rs:871-955`): an edit in this window is overwritten,
  although `docs/superpowers/specs/2026-07-13-cargo-run-wasi-execution-design.md:109-112`
  lets the edit win. `unseen` in `FileSync` is this window.
* clang and the start of the language server set the shared argument vector without a run
  lock; a cargo that starts in that moment reads their arguments.
* A tab that was closed after its drag had been abandoned comes back with the next drop
  (`page/src/App.tsx:349-403`): the set `stale` of `Workbench`.
* A remount does not persist every model, as `page/src/lsp_start_gate_test.ts:99` has it
  ("remount preparation persists every file-backed Monaco model"): a refused write
  (`page/src/App.tsx:252`) leaves its model and the later ones out of the workspace, and the
  app is disposed of. One open source of Rust's library is enough, and then every remount
  fails. The texts stay in Monaco's models and the failure is shown, which is what
  `NothingTypedIsLost` says; a remount from the page of the failure then creates a runtime
  over a workspace without them.
* Without a flush, because the runtime failed by itself, an older text that the document sync
  had queued may land behind the one the preparation wrote: `queued` in `Workbench`. And the
  retried write of `FlushedTextIsLatest` also puts its older text into the workspace
  (`page/src/workspace_sync.ts:15`), behind the preparation's: `taken`.

## 6. Not modelled

Components:

* Startup views, drawing of terminals, the editor's models and the theme: presentation of
  states that other components keep.
* Decoding (`fetch_compressed_stream.ts`, `brotli_stream.ts`, `parse_tar.ts`,
  `get_wasm.ts`, `proxy.ts`), the SquashFS index and the wire formats: data formats and
  stream plumbing without shared state.
* Generated bindings of `wasi_virt_layer` (the modules say how the code uses them, and
  `vfs.js` alone is a third of the lines), `vfs-rustc-twice`, an experiment the page does
  not load, debug counters and build tools.
* Libraries outside `src/`: `SharedObjectRef`, the farm, `monaco-languageclient`. They
  appear as calls that answer, reject or hang.

Parts of modelled components: which pipeline a line of the shell makes and what its
built-ins do; the guest's virtual pipes and its cwd-aware file system; resizing a
terminal; the dispatch of the language server's thread; the formatting middleware of the
language client; byte ranges and rights of workspace files; which cells a selection covers;
the disposal of the archive store.

Code that the product does not call, and which therefore has no place in a model of it:
`run_after_flush.ts`, the wrapper in `compile_and_run.ts`, `loadSysrootArchive`,
`createWorkspaceVfsBinaryWriter`, and in `terminal_channel_lifecycle.ts`
`createTerminalGenerationRouter`, `acquireTerminalCapture`, `acquireSharedChannel` and
`createTerminalSessionChannels`. They are reached from tests only.

Smaller hazards that no property states, found on the way:

* `resizeTerminal()` before "ready" is dropped (`page/src/app_runtime.ts:630`); nobody
  sends it again.
* `cacheWasm()` never settles when its IndexedDB transaction aborts
  (`page/src/worker_process/util_cmd.ts:101`).
* A call of the editor to the library sources has no answer when its generation dies with
  the call under way (`page/src/production_runtime.ts:192`).
* `LspFrameDecoder.push()` throws away complete frames of a chunk in which a later one is
  malformed (`page/src/lsp_protocol.ts:57`); the reader closes then anyway.
* The text of a document is dropped without an error when a component of its path is a
  file in the guest (`crates/vfs/src/lib.rs:845`); `Blocked` in `Workspace`.
* A program that renames a directory above the mount of the library sources takes the mount
  with it: only `library` and what is below it count as touched
  (`crates/vfs/src/lib.rs:1681-1733`). `RustSource` has changes at the entries only.

## 7. Plan

Done: the worker handshake, document sync with the reopening of main.rs, the runtime and
its supervisor with their proofs; target loads with theirs; child processes; and, as
components of `MCGuest`, `MCHost` and `MCPage`, everything else in the table of section 1.

What would add most next, in this order:

1. The guest's virtual pipes: a bounded byte queue that is closed once, as an abstract
   specification, and the pipes with blocking readers and writers as its refinement.
2. A composition of `StartupCoordinator` with `LanguageClient` and `AnalyzerReadiness`:
   each takes the other's outcomes as free choices now.
