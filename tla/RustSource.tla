------------------------------ MODULE RustSource ------------------------------
(* The sources of Rust's library as the editor and the guest see them: a load of  *)
(* the image in the guest (sysroot_rust_src_mount_* and mount_rust_src of lib.rs, *)
(* rust_src_squashfs.rs), programs that change files under the path of the mount  *)
(* meanwhile, the calls that the editor's provider makes through the endpoint of  *)
(* a generation (workspace_file_provider.ts, rust_src_vfs_rpc.ts), and the        *)
(* generations that come and go under them (production_runtime.ts).               *)
EXTENDS Naturals

CONSTANTS Entries, Links,   \* the entries of the image; those that are symbolic links
          Readers,          \* calls of the provider
          Size,             \* of the archive, in chunks
          MaxGenerations, MaxChanges  \* bounds

ArchiveAssumption == Size \in Nat

VARIABLES
  generation, phase,        \* the runtime's newest generation and how far it is
  alive,                    \* its workers run
  resolved,                 \* generations whose handshake has answered, unheard so far
  active,                   \* activeEndpoint: a generation, or 0
  load, download, result,   \* a load_src: its step, RUST_SRC_ARCHIVE_DOWNLOAD, its answer
  todo, mounted,            \* entries to be mounted still; the slot has a mount
  tree,                     \* what the file system has at each entry's path
  change, raced, changes,   \* a program's change, checked and to be made; entries that
                            \* one checked before the mount has changed since
  call, owner, answer, children, entry  \* a reader: its step, its endpoint's generation...

pageVars == <<generation, phase, alive, resolved, active>>
loadVars == <<load, download, result, todo, mounted>>
treeVars == <<tree, change, raced, changes>>
callVars == <<call, owner, answer, children, entry>>
sourceVars == <<pageVars, loadVars, treeVars, callVars>>

NoChange == [kind |-> "none"]
NoDownload == Size + 1
Fresh == [e \in Entries |-> "absent"]

Init ==
  /\ generation = 0 /\ phase = "none" /\ alive = FALSE /\ resolved = {} /\ active = 0
  /\ load = "idle" /\ download = NoDownload /\ result = "none" /\ todo = {} /\ mounted = FALSE
  /\ tree = Fresh /\ change = NoChange /\ raced = {} /\ changes = 0
  /\ call = [r \in Readers |-> "idle"] /\ owner = [r \in Readers |-> 0]
  /\ answer = [r \in Readers |-> "none"] /\ children = [r \in Readers |-> {}]
  /\ entry \in [Readers -> Entries]

(* --- generations ----------------------------------------------------------- *)

\* A start of the runtime: a guest with an empty tree.
Create ==
  /\ phase \in {"none", "cleared"} /\ generation < MaxGenerations
  /\ generation' = generation + 1 /\ phase' = "initializing" /\ alive' = TRUE
  /\ load' = "idle" /\ download' = NoDownload /\ result' = "none" /\ todo' = {}
  /\ mounted' = FALSE /\ tree' = Fresh /\ change' = NoChange /\ raced' = {}
  /\ UNCHANGED <<resolved, active, changes, callVars>>

\* The handshake's initialize() resolves; what awaits it runs later.
HandshakeAnswers ==
  /\ phase = "initializing" /\ generation \notin resolved
  /\ resolved' = resolved \union {generation}
  /\ UNCHANGED <<generation, phase, alive, active, loadVars, treeVars, callVars>>

Registered(g) == g = generation /\ phase # "cleared"

\* The wrapped initialize() goes on: also when dispose() came first, but only while
\* the registrations of the generation are there.
Activate(g) ==
  /\ g \in resolved /\ resolved' = resolved \ {g}
  /\ active' = IF Registered(g) THEN g ELSE active
  /\ phase' = IF g = generation /\ phase = "initializing" THEN "ready" ELSE phase
  /\ UNCHANGED <<generation, alive, loadVars, treeVars, callVars>>

Cleared == active' = IF active = generation THEN 0 ELSE active

\* dispose() of the wrapped handshake.
DisposeHandshake ==
  /\ phase \in {"initializing", "ready"} /\ phase' = "disposing" /\ Cleared
  /\ UNCHANGED <<generation, alive, resolved, loadVars, treeVars, callVars>>

\* The utility worker is terminated: what it was asked is never answered.
Terminate ==
  /\ phase = "disposing" /\ alive /\ alive' = FALSE
  /\ UNCHANGED <<generation, phase, resolved, active, loadVars, treeVars, callVars>>

\* clearRegistrations(), the last of a disposal.
ClearRegistrations ==
  /\ phase = "disposing" /\ ~alive /\ phase' = "cleared" /\ Cleared
  /\ UNCHANGED <<generation, alive, resolved, loadVars, treeVars, callVars>>

(* --- the image in the guest ------------------------------------------------ *)

\* Mounting holds the slot's lock: whoever asks for the mount waits.
Unlocked == load # "mounting"

\* load_src: sysroot_start_fetch() drops what a former load has left behind, then the
\* archive's length is known and its buffer reserved, or the load fails.
LoadSource ==
  /\ alive /\ load = "idle"
  /\ \/ load' = "reading" /\ download' = 0 /\ UNCHANGED result
     \/ result' = "failed" /\ download' = NoDownload /\ UNCHANGED load
  /\ UNCHANGED <<todo, mounted, pageVars, treeVars, callVars>>

Read ==
  /\ alive /\ load = "reading" /\ download < Size /\ download' = download + 1
  /\ UNCHANGED <<load, result, todo, mounted, pageVars, treeVars, callVars>>

\* The reader is cancelled or its stream ends: sysroot_rust_src_mount_abort().
ReadFails ==
  /\ alive /\ load = "reading" /\ download < Size
  /\ load' = "idle" /\ download' = NoDownload /\ result' = "failed"
  /\ UNCHANGED <<todo, mounted, pageVars, treeVars, callVars>>

\* sysroot_rust_src_mount_finish(): the buffer is taken; a second mount is the first.
Finish ==
  /\ alive /\ load = "reading" /\ download = Size /\ download' = NoDownload
  /\ IF mounted THEN load' = "idle" /\ result' = "ok" /\ UNCHANGED todo
                ELSE load' = "mounting" /\ todo' = Entries /\ UNCHANGED result
  /\ UNCHANGED <<mounted, pageVars, treeVars, callVars>>

\* ensure_placeholder_file() empties a file that is there and takes it over; a link
\* is made, and a path that is something else refused.
Fits(e) == IF e \in Links THEN tree[e] = "absent" ELSE tree[e] # "link"

MountEntry(e) ==
  /\ alive /\ load = "mounting" /\ e \in todo /\ Fits(e)
  /\ tree' = [tree EXCEPT ![e] = IF e \in Links THEN "link" ELSE "empty"]
  /\ todo' = todo \ {e}
  /\ UNCHANGED <<load, download, result, mounted, change, raced, changes, pageVars, callVars>>

\* An entry that does not fit, or an image that cannot be read: the entries before
\* it stay in the tree, and the slot empty.
MountFails ==
  /\ alive /\ load = "mounting" /\ load' = "idle" /\ result' = "failed" /\ todo' = {}
  /\ UNCHANGED <<download, mounted, pageVars, treeVars, callVars>>

Mounted ==
  /\ alive /\ load = "mounting" /\ todo = {} /\ mounted' = TRUE /\ load' = "idle" /\ result' = "ok"
  /\ UNCHANGED <<download, todo, pageVars, treeVars, callVars>>

(* --- programs of the guest ------------------------------------------------- *)

\* A path or descriptor operation, or a file that the editor writes, looks for the
\* mount, which it asks for once...
Check(e, kind) ==
  /\ alive /\ change = NoChange /\ Unlocked /\ changes < MaxChanges
  /\ ~mounted
  /\ change' = [kind |-> kind, at |-> e, early |-> ~mounted] /\ changes' = changes + 1
  /\ UNCHANGED <<tree, raced, pageVars, loadVars, callVars>>

\* ...and then makes its change, whatever has been mounted since.
Change ==
  LET e == change.at IN
  /\ alive /\ change # NoChange /\ change' = NoChange
  /\ \/ change.kind = "write" /\ tree[e] # "link" /\ tree' = [tree EXCEPT ![e] = "user"]
     \/ change.kind = "write" /\ tree[e] = "link" /\ UNCHANGED tree
     \/ change.kind = "unlink" /\ tree' = [tree EXCEPT ![e] = "absent"]
  /\ raced' = IF change.early /\ (load = "mounting" \/ mounted) THEN raced \union {e} ELSE raced
  /\ UNCHANGED <<changes, pageVars, loadVars, callVars>>

(* --- the editor's calls ---------------------------------------------------- *)

To(r, s) == call' = [call EXCEPT ![r] = s]
Ends(r, a) == To(r, "done") /\ answer' = [answer EXCEPT ![r] = a]

\* stat(), readFile() or readdir() of the provider for a path in the namespace.
Ask(r, kind) ==
  /\ call[r] = "idle"
  /\ IF active = 0 THEN Ends(r, "Unavailable") /\ UNCHANGED owner
     ELSE To(r, kind) /\ owner' = [owner EXCEPT ![r] = active] /\ UNCHANGED answer
  /\ UNCHANGED <<children, entry, pageVars, loadVars, treeVars>>

\* The worker is in one call at a time, with the rpcs it makes.
Serves(r) == /\ alive /\ owner[r] = generation /\ Unlocked
             /\ \A q \in Readers \ {r} : call[q] \notin {"sized", "listed"}

\* readStat(): a link is neither a file nor a directory.
Stat(r) ==
  /\ call[r] = "stat" /\ Serves(r)
  /\ Ends(r, IF ~mounted THEN "NotMounted" ELSE IF entry[r] \in Links THEN "Invalid" ELSE "ok")
  /\ UNCHANGED <<owner, children, entry, pageVars, loadVars, treeVars>>

\* The size of a file, or of a listing, is asked for first...
Probe(r) ==
  /\ call[r] \in {"read", "list"} /\ Serves(r)
  /\ IF ~mounted THEN Ends(r, "NotMounted")
     ELSE IF call[r] = "list" THEN To(r, "listed") /\ UNCHANGED answer
     ELSE IF entry[r] \in Links THEN Ends(r, "Invalid")
     ELSE To(r, "sized") /\ UNCHANGED answer
  /\ UNCHANGED <<owner, children, entry, pageVars, loadVars, treeVars>>

\* ...and then its bytes, which must be as many.
ReadWhole(r) ==
  /\ call[r] = "sized" /\ Serves(r) /\ Ends(r, IF mounted THEN "ok" ELSE "NotMounted")
  /\ UNCHANGED <<owner, children, entry, pageVars, loadVars, treeVars>>

\* readdir() of the provider then asks the same endpoint for the kind of each entry.
ListWhole(r) ==
  /\ call[r] = "listed" /\ Serves(r)
  /\ IF mounted THEN To(r, "kinds") /\ children' = [children EXCEPT ![r] = Entries] /\ UNCHANGED answer
                ELSE Ends(r, "NotMounted") /\ UNCHANGED children
  /\ UNCHANGED <<owner, entry, pageVars, loadVars, treeVars>>

\* A defect: each entry is asked of the endpoint that is active by then.
KindOfActive(r, e) ==
  /\ call[r] = "kinds" /\ e \in children[r] /\ active # 0 /\ active = generation /\ alive /\ Unlocked
  /\ owner' = [owner EXCEPT ![r] = active]
  /\ IF ~mounted \/ e \in Links THEN Ends(r, IF mounted THEN "Invalid" ELSE "NotMounted") /\ UNCHANGED children
     ELSE /\ children' = [children EXCEPT ![r] = @ \ {e}]
          /\ IF children[r] = {e} THEN Ends(r, "ok") ELSE UNCHANGED <<call, answer>>
  /\ UNCHANGED <<entry, pageVars, loadVars, treeVars>>

Kind(r, e) ==
  /\ call[r] = "kinds" /\ e \in children[r] /\ Serves(r)
  /\ IF e \in Links THEN Ends(r, "Invalid") /\ UNCHANGED children
     ELSE /\ children' = [children EXCEPT ![r] = @ \ {e}]
          /\ IF children[r] = {e} THEN Ends(r, "ok") ELSE UNCHANGED <<call, answer>>
  /\ UNCHANGED <<owner, entry, pageVars, loadVars, treeVars>>

Next ==
  \/ Create \/ HandshakeAnswers \/ DisposeHandshake \/ Terminate \/ ClearRegistrations
  \/ \E g \in 1..MaxGenerations : Activate(g)
  \/ LoadSource \/ Read \/ ReadFails \/ Finish \/ MountFails \/ Mounted \/ Change
  \/ \E e \in Entries : MountEntry(e) \/ Check(e, "write") \/ Check(e, "unlink")
  \/ \E r \in Readers :
       \/ \E kind \in {"stat", "read", "list"} : Ask(r, kind)
       \/ Stat(r) \/ Probe(r) \/ ReadWhole(r) \/ ListWhole(r) \/ \E e \in Entries : Kind(r, e)

Spec == Init /\ [][Next]_sourceVars

(* --- properties ------------------------------------------------------------ *)

TypeOK ==
  /\ phase \in {"none", "initializing", "ready", "disposing", "cleared"}
  /\ resolved \subseteq 1..generation /\ active \in 0..generation
  /\ load \in {"idle", "reading", "mounting"} /\ download \in 0..NoDownload
  /\ (load = "reading" => download <= Size) /\ (load # "reading" => download = NoDownload)
  /\ todo \subseteq Entries /\ (load # "mounting" => todo = {})
  /\ tree \in [Entries -> {"absent", "user", "empty", "link"}]
  /\ call \in [Readers -> {"idle", "stat", "read", "list", "sized", "listed", "kinds", "done"}]
  /\ owner \in [Readers -> 0..generation] /\ raced \subseteq Entries

\* What is mounted is the image, whole: every entry has its place in the tree, whatever
\* a load that failed or a program left there, unless a program changes it that had
\* asked for the mount before there was one (lib.rs:2454 and the checks like it let go
\* of the lock before the change).
MountedWhole ==
  mounted => \A e \in Entries \ raced : tree[e] = IF e \in Links THEN "link" ELSE "empty"

\* A file or listing of which the size was told is there when its bytes are asked for,
\* and the kinds of its entries are asked of the generation that listed them: neither a
\* second load nor a new runtime comes in between (rust_src_vfs_rpc.ts:163-166,
\* 179-189, workspace_file_provider.ts:177-186).
AnswersStand ==
  [][\A r \in Readers : call[r] \in {"sized", "listed", "kinds"} => answer'[r] # "NotMounted"]_sourceVars

\* The endpoint that the editor uses is never that of a generation whose registrations
\* are gone, however late its handshake goes on (production_runtime.ts:372-394).
NoDeadEndpoint == active # 0 => active = generation /\ phase # "cleared"

=============================================================================
