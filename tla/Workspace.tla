------------------------------- MODULE Workspace -------------------------------
(* The page's one tree of the workspace (workspace_fs.ts): the editor's file      *)
(* service changes it and is told (workspace_file_provider.ts), the WASI host      *)
(* changes the same nodes for programs of the guest and tells nobody, and the      *)
(* synchronisation of a document writes it silently and then sends the text to     *)
(* the running guest, which keeps a tree of its own (workspace_sync.ts, and        *)
(* EVENT_TYPE_WRITE_FILE of vfs/src/lib.rs).                                       *)
(*                                                                                 *)
(* Names are in two levels: a path is a sequence of one or two of them.  A call    *)
(* that the code refuses with a WorkspaceFsError changes nothing and is no step.   *)
EXTENDS Naturals, Sequences

CONSTANTS Names, Document,      \* the path of the document
          MaxNodes,             \* bound: the inodes the page makes
          MaxWrites, MaxSteps   \* bounds: texts of the document, steps of programs

WorkspaceAssumption == /\ Document \in {<<n, m>> : n, m \in Names}
                       /\ MaxNodes \in Nat /\ MaxWrites \in Nat

Root == 0
Nodes == 1..MaxNodes
Nothing == MaxNodes + 1
Directory == SubSeq(Document, 1, 1)
\* What the guest has at a path: nothing, a text of the document, a program's file or
\* a directory.
Absent == 0
Foreign == MaxWrites + 1
Dir == MaxWrites + 2
Paths == {<<n>> : n \in Names} \union {<<n, m>> : n, m \in Names}
Inodes == Nodes \union {Root}

VARIABLES
  kind,                 \* [Inodes -> {"free", "file", "dir"}]
  entries,              \* [Inodes -> [Names -> Nodes \union {Nothing}]]
  data,                 \* [Inodes -> Nat]: which write the bytes are of
  handle,               \* the inode that a program of the guest has open
  removed,              \* inodes that were deleted or replaced
  known, quiet,         \* paths the editor has been told of; those nobody told it of
  guest,                \* the running guest's tree, at the document and its directory
  wire, settled, writes,  \* texts on their way; the last that was answered; a counter
  other, guestSteps     \* a program changed the guest's tree since the last text; counter

treeVars == <<kind, entries, data, removed>>
guestVars == <<guest, wire, settled, writes, other>>
workspaceVars == <<treeVars, handle, known, quiet, guestVars, guestSteps>>

Node(p) ==
  LET up == entries[Root][p[1]] IN
  IF Len(p) = 1 THEN up ELSE IF up # Nothing THEN entries[up][p[2]] ELSE Nothing
Parent(p) == IF Len(p) = 1 THEN Root ELSE entries[Root][p[1]]
Name(p) == p[Len(p)]
IsDirectory(i) == i # Nothing /\ kind[i] = "dir"
Present == {p \in Paths : Node(p) # Nothing}
Under(p) == {q \in Paths : SubSeq(q, 1, IF Len(q) < Len(p) THEN Len(q) ELSE Len(p)) = p}
Empty == [n \in Names |-> Nothing]
IsEmpty(i) == entries[i] = Empty
HasFree == \E i \in Nodes : kind[i] = "free"
Free == CHOOSE i \in Nodes : kind[i] = "free"
Put(p, i) == entries' = [entries EXCEPT ![Parent(p)][Name(p)] = i]

Init ==
  /\ kind = [i \in Inodes |-> IF i = Root THEN "dir" ELSE "free"]
  /\ entries = [i \in Inodes |-> Empty] /\ data = [i \in Inodes |-> 0]
  /\ handle = Nothing /\ removed = {} /\ known = {} /\ quiet = {}
  /\ guest = [p \in {Directory, Document} |-> Absent] /\ wire = << >> /\ settled = 0 /\ writes = 0
  /\ other = FALSE /\ guestSteps = 0

(* --- what the editor is told ----------------------------------------------- *)

\* A directory that is added is looked into.
Added(p) == /\ known' = (known \ Under(p)) \union {q \in Under(p) : q \in Present'}
            /\ quiet' = quiet \ Under(p)
Deleted(p) == known' = known \ Under(p) /\ quiet' = quiet \ Under(p)
\* A change of the tree that is not told.
Untold == /\ quiet' = quiet \union {p \in Paths : (p \in Present) # (p \in Present')}
          /\ UNCHANGED known

(* --- the tree's operations ------------------------------------------------- *)

\* writeFile(), where the options allow it: an existing file keeps its inode.
Bytes(p, w) ==
  /\ IsDirectory(Parent(p)) /\ ~IsDirectory(Node(p))
  /\ IF Node(p) # Nothing THEN data' = [data EXCEPT ![Node(p)] = w] /\ UNCHANGED <<kind, entries>>
     ELSE /\ HasFree /\ kind' = [kind EXCEPT ![Free] = "file"]
          /\ Put(p, Free) /\ data' = [data EXCEPT ![Free] = w]

EditorWrites(p) ==
  /\ Bytes(p, 0) /\ Added(p) /\ UNCHANGED <<removed, handle, guestVars, guestSteps>>

MakeDirectory(p) ==
  /\ IsDirectory(Parent(p)) /\ Node(p) = Nothing /\ HasFree
  /\ kind' = [kind EXCEPT ![Free] = "dir"] /\ Put(p, Free) /\ Added(p)
  /\ UNCHANGED <<data, removed, handle, guestVars, guestSteps>>

Inside(i) == {i} \union IF IsDirectory(i) THEN {entries[i][n] : n \in Names} \ {Nothing} ELSE {}

\* delete(), of an empty directory or recursively.
Delete(p) ==
  /\ IsDirectory(Parent(p)) /\ Node(p) # Nothing
  /\ Put(p, Nothing) /\ removed' = removed \union Inside(Node(p)) /\ Deleted(p)
  /\ UNCHANGED <<kind, data, handle, guestVars, guestSteps>>

\* Bound: a directory with entries stays at the first level.
Movable(p, q) == Len(q) = 1 \/ ~IsDirectory(Node(p)) \/ IsEmpty(Node(p))
\* A file replaces a file, a directory an empty directory.
Replaces(p, q) ==
  Node(q) # Nothing => kind[Node(q)] = kind[Node(p)] /\ (IsDirectory(Node(q)) => IsEmpty(Node(q)))

Moves(p, q) ==
  /\ entries' = [[entries EXCEPT ![Parent(q)][Name(q)] = Node(p)] EXCEPT ![Parent(p)][Name(p)] = Nothing]
  /\ removed' = removed \union ({Node(q)} \ {Nothing})
  /\ known' = (known \ (Under(p) \union Under(q))) \union {r \in Under(q) : r \in Present'}
  /\ quiet' = quiet \ (Under(p) \union Under(q))
  /\ UNCHANGED <<kind, data, handle, guestVars, guestSteps>>

\* A defect: a directory is moved into itself.
RenameAnywhere(p, q) ==
  /\ IsDirectory(Parent(p)) /\ IsDirectory(Parent(q)) /\ Node(p) # Nothing /\ q # p
  /\ Movable(p, q) /\ Replaces(p, q) /\ Moves(p, q)

Rename(p, q) ==
  /\ IsDirectory(Parent(p)) /\ IsDirectory(Parent(q)) /\ Node(p) # Nothing /\ q \notin Under(p)
  /\ Movable(p, q) /\ Replaces(p, q) /\ Moves(p, q)

(* --- programs, through the WASI host --------------------------------------- *)

ProgramStep == guestSteps < MaxSteps /\ guestSteps' = guestSteps + 1

ProgramOpens(p) ==
  /\ ProgramStep /\ IsDirectory(Parent(p)) /\ ~IsDirectory(Node(p))
  /\ IF Node(p) # Nothing THEN handle' = Node(p) /\ UNCHANGED <<kind, entries>>
     ELSE HasFree /\ handle' = Free /\ kind' = [kind EXCEPT ![Free] = "file"] /\ Put(p, Free)
  /\ Untold /\ UNCHANGED <<data, removed, guestVars>>

\* The open file is written, wherever it is by now.
ProgramWrites ==
  /\ ProgramStep /\ handle # Nothing /\ data' = [data EXCEPT ![handle] = 0]
  /\ UNCHANGED <<kind, entries, removed, handle, known, quiet, guestVars>>

ProgramUnlinks(p) ==
  /\ ProgramStep /\ IsDirectory(Parent(p)) /\ Node(p) # Nothing /\ ~IsDirectory(Node(p))
  /\ Put(p, Nothing) /\ removed' = removed \union {Node(p)}
  /\ Untold /\ UNCHANGED <<kind, data, handle, guestVars>>

(* --- the document ---------------------------------------------------------- *)

\* The writer of createWorkspaceVfsWriter(): the page's tree, untold, then the text to
\* the guest.
WriteDocument ==
  /\ writes < MaxWrites /\ writes' = writes + 1
  /\ Bytes(Document, writes + 1) /\ Untold /\ wire' = Append(wire, writes + 1)
  /\ UNCHANGED <<removed, handle, guest, settled, other, guestSteps>>

\* The guest's directory of the document is a file, or the document a directory: the
\* text is dropped without a word.
Blocked == guest[Directory] \notin {Absent, Dir} \/ guest[Document] = Dir

\* EVENT_TYPE_WRITE_FILE.
Received(w) ==
  /\ guest' = IF Blocked THEN guest
              ELSE [guest EXCEPT ![Document] = w, ![Directory] = Dir]
  /\ wire' = Tail(wire) /\ settled' = w /\ other' = FALSE

Receive ==
  /\ wire # << >> /\ Received(Head(wire))
  /\ UNCHANGED <<treeVars, handle, known, quiet, writes, guestSteps>>

\* The call fails: the page's tree has the text, the guest has not.
ReceiveFails ==
  /\ wire # << >> /\ wire' = Tail(wire)
  /\ UNCHANGED <<treeVars, handle, known, quiet, guest, settled, writes, other, guestSteps>>

\* A program changes the guest's own tree.
ProgramChanges ==
  /\ ProgramStep /\ other' = TRUE
  /\ \E d, x \in {Absent, Dir, Foreign} :
       /\ d # Dir => x = Absent
       /\ guest' = [guest EXCEPT ![Directory] = d, ![Document] = x]
  /\ UNCHANGED <<treeVars, handle, known, quiet, wire, settled, writes>>

Next ==
  \/ \E p \in Paths : EditorWrites(p) \/ MakeDirectory(p) \/ Delete(p) \/ ProgramOpens(p) \/ ProgramUnlinks(p)
  \/ \E p, q \in Paths : Rename(p, q)
  \/ ProgramWrites \/ WriteDocument \/ Receive \/ ReceiveFails \/ ProgramChanges

Spec == Init /\ [][Next]_workspaceVars

(* --- properties ------------------------------------------------------------ *)

TypeOK ==
  /\ kind \in [Inodes -> {"free", "file", "dir"}] /\ kind[Root] = "dir"
  /\ entries \in [Inodes -> [Names -> Nodes \union {Nothing}]]
  /\ data \in [Inodes -> 0..MaxWrites] /\ handle \in Nodes \union {Nothing}
  /\ removed \subseteq Nodes /\ known \subseteq Paths /\ quiet \subseteq Paths
  /\ wire \in Seq(1..MaxWrites) /\ settled \in 0..writes

\* No sequence of operations loses a file or makes it appear twice: what was made and
\* neither deleted nor replaced is at exactly one path (workspace_fs.ts:159-212).
NothingIsLost ==
  \A i \in Nodes : /\ kind[i] # "free" /\ i \notin removed => \E p \in Paths : Node(p) = i
                   /\ \A p, q \in Paths : Node(p) = i /\ Node(q) = i => p = q

\* From the events alone the editor knows which paths there are, but for those that the
\* document's writer or a program changed (workspace_fs.ts:154-163, 174, 208-211).
EventsTellTheTree == \A p \in Paths \ quiet : p \in known <=> p \in Present

\* When the newest text of the document was answered, the guest has that text, unless a
\* program of the guest changed its tree since or is in the way
\* (workspace_sync.ts:14-24, lib.rs:807-888).
SettledArrived ==
  wire = << >> /\ writes > 0 /\ settled = writes /\ ~other => Blocked \/ guest[Document] = writes

=============================================================================
