------------------------------- MODULE FileSync -------------------------------
(* filesystem_sync.rs: the guest's VFS and the host's file tree are two copies of *)
(* the project.  Before a child runs, the host is made a mirror of the VFS; after *)
(* it has run, what it changed on the host is brought into the VFS, which other   *)
(* sessions have gone on editing in the meantime, one checked mutation at a time. *)
(*                                                                                *)
(* A tree gives every path its entry.  "big" stands for whatever makes a snapshot *)
(* fail: a file over the byte limit, a type or a name that is not supported.      *)
EXTENDS Naturals, FiniteSets

CONSTANTS Paths,
          Ancestors,      \* [Paths -> SUBSET Paths], the proper ones, without the root
          Excluded,       \* the paths under EXCLUDED_ROOTS
          Sysroot,        \* those of them under the root "sysroot"
          Runtimes,       \* what runtime_exclusions_from_child() may give, sets of paths
          MaxEntries,     \* SyncLimits.max_entries
          Hosts,          \* the host's trees at the start of the first guest
          MaxRuns, MaxWrites, MaxEdits  \* bounds: runs, the child's writes, the editor's

VARIABLES vfs, host, \* the two trees
          at,        \* "off", "idle", "child", "import", "applying", "checked"
          excluded,  \* the paths of should_exclude() in this run
          base,      \* the SyncBaseline the export returned
          cur, want, \* the snapshots of apply_vfs_snapshot_rechecked()
          expected, conflicts, todo, next, \* its progress; next is between check and write
          outcome,   \* of the last call: "none", "imported", "failed"
          start,     \* both trees when the child was started
          edited,    \* the editor's last entry for the paths it wrote since then, or "-"
          unseen,    \* the paths of edits no check can see: see Edit
          runs, writes, edits

applyVars == <<cur, want, expected, conflicts, todo, next>>
ghostVars == <<start, edited, unseen>>
boundVars == <<runs, writes, edits>>
fileVars == <<vfs, host, at, excluded, base, applyVars, outcome, ghostVars, boundVars>>

Files == {"a", "b", "big"}
Entries == {"none", "dir"} \cup Files
Trees == [Paths -> Entries]
Children(p) == {q \in Paths : p \in Ancestors[q]}
Depth(p) == Cardinality(Ancestors[p])
WellFormed(t) == \A p \in Paths : t[p] # "none" => \A a \in Ancestors[p] : t[a] = "dir"
Empty == [p \in Paths |-> "none"]

\* Paths are finite, what is under an excluded path is excluded, "sysroot" is at the top, and
\* the host's file system is one.
PathsAssumption ==
  /\ Ancestors \in [Paths -> SUBSET Paths] /\ Sysroot \subseteq Excluded
  /\ \A p \in Paths : /\ p \notin Ancestors[p] /\ IsFiniteSet(Ancestors[p])
                      /\ \A a \in Ancestors[p] : Ancestors[a] \subseteq Ancestors[p]
  /\ \A X \in Runtimes \cup {Excluded, Sysroot} :
       X \subseteq Paths /\ \A p \in Paths : Ancestors[p] \cap X # {} => p \in X
  /\ \A p \in Sysroot : Ancestors[p] \subseteq Sysroot
  /\ Hosts \subseteq Trees /\ \A t \in Hosts : WellFormed(t)

\* SyncBaseline: the entries that are not excluded, and what they must leave standing.
Snapshot(t, X) == [entries |-> [p \in Paths |-> IF p \in X THEN "none" ELSE t[p]],
                   keeps |-> {p \in Paths \ X : \E q \in Children(p) \cap X : t[q] # "none"}]
NoSnapshot == Snapshot(Empty, {})
Size(t) == Cardinality({p \in Paths : t[p] # "none"})
TooMuch(s) == Size(s.entries) > MaxEntries \/ \E p \in Paths : s.entries[p] = "big"

\* EXCLUDED_ROOTS with runtime_exclusions_from_child().
Exclusions == {Excluded \cup X : X \in Runtimes}
\* has_ancestor_or_descendant().
Related(p, S) == p \in S \/ Ancestors[p] \cap S # {} \/ Children(p) \cap S # {}
\* preserves_excluded_state() and blocked_excluded_replacements().
Kept(c, w) == c.keeps \cup w.keeps
Blocked(c, w) == {p \in Kept(c, w) : w.entries[p] \in Files /\ c.entries[p] # w.entries[p]}

(* --- what makes one tree of the other --------------------------------------- *)

\* A defect: the host's files are overwritten, what is there besides is not removed.
RemovalsNever(c, w) == {}

\* The removals, directories and files of an apply, in the order they are done in.
Removals(c, w) ==
  {[kind |-> 1, path |-> p] : p \in {p \in Paths : c.entries[p] # "none"
     /\ ~(c.entries[p] = "dir" /\ p \in Kept(c, w))
     /\ (w.entries[p] = "none" \/ (w.entries[p] = "dir") # (c.entries[p] = "dir"))}}
NewDirs(c, w) == {[kind |-> 2, path |-> p] :
                    p \in {p \in Paths : w.entries[p] = "dir" /\ c.entries[p] # "dir"}}
NewFiles(c, w) == {[kind |-> 3, path |-> p] :
                     p \in {p \in Paths : w.entries[p] \in Files /\ c.entries[p] # w.entries[p]
                                          /\ p \notin Kept(c, w)}}
Work(c, w) == Removals(c, w) \cup NewDirs(c, w) \cup NewFiles(c, w)
Before(v, u) == \/ v.kind < u.kind
                \/ v.kind = 1 /\ u.kind = 1 /\ Depth(v.path) > Depth(u.path)
                \/ v.kind = 2 /\ u.kind = 2 /\ Depth(v.path) < Depth(u.path)
\* The tree t after the steps of D, a part of the work that leaves out no earlier step.
Applied(t, w, D) == [p \in Paths |->
  IF \E u \in D : u.path = p /\ u.kind # 1 THEN w.entries[p]
  ELSE IF \E u \in D : u.path = p THEN "none" ELSE t[p]]
Prefixes(W) == {D \in SUBSET W : \A u \in D, v \in W : Before(v, u) => v \in D}

\* reconcile_diff_with_limits(): what the child changed, where the VFS did not change.
Differ(s, t) == {p \in Paths : s.entries[p] # t.entries[p]}
Contested(b, c, v) == {p \in Differ(v, b) : Related(p, Differ(b, c))}
Reconciled(b, c, v) ==
  LET taken == {p \in Differ(b, c) : ~Related(p, Contested(b, c, v))}
  IN [v EXCEPT !.entries = [p \in Paths |->
        IF p \in taken THEN c.entries[p]
        ELSE IF Ancestors[p] \cap taken # {} THEN "none" ELSE v.entries[p]]]

(* --- the guest ------------------------------------------------------------- *)

Init == /\ vfs = Empty /\ at = "off" /\ excluded = Excluded /\ base = NoSnapshot
        /\ host \in Hosts
        /\ cur = NoSnapshot /\ want = NoSnapshot /\ expected = Empty /\ conflicts = {}
        /\ todo = {} /\ next = {} /\ outcome = "none" /\ start = <<Empty, Empty>>
        /\ edited = [p \in Paths |-> "-"] /\ unseen = {} /\ runs = 0 /\ writes = 0 /\ edits = 0

\* import_host_authoritative() into a new VFS; when the host's snapshot is refused, the
\* guest goes on without its files.  import_host_sysroot() has its own, larger limit.
Authoritative == IF TooMuch(Snapshot(host, Excluded)) THEN Empty
                 ELSE Snapshot(host, Excluded).entries
WithSysroot(t) == [p \in Paths |-> IF p \in Sysroot THEN host[p] ELSE t[p]]

\* main().
Boot ==
  /\ at = "off" /\ at' = "idle" /\ vfs' = WithSysroot(Authoritative)
  /\ UNCHANGED <<host, excluded, base, applyVars, outcome, ghostVars, boundVars>>

\* The guest is lost with its VFS; the host's files are not.
Crash == /\ at # "off" /\ at' = "off" /\ vfs' = Empty /\ runs < MaxRuns
         /\ base' = NoSnapshot /\ cur' = NoSnapshot /\ want' = NoSnapshot /\ expected' = Empty
         /\ conflicts' = {} /\ todo' = {} /\ next' = {} /\ outcome' = "none"
         /\ edited' = [p \in Paths |-> "-"] /\ unseen' = {}
         /\ UNCHANGED <<host, excluded, start, boundVars>>

ExportRefused(source, there) ==
  TooMuch(source) \/ TooMuch(there) \/ Blocked(there, source) # {}

\* sync_vfs_to_host(), at the start of run_wasi_child().
Export(X) ==
  LET source == Snapshot(vfs, X)
      there == Snapshot(host, X)
  IN /\ at = "idle" /\ runs < MaxRuns /\ runs' = runs + 1 /\ excluded' = X
     /\ IF ExportRefused(source, there)
        THEN at' = "idle" /\ outcome' = "failed" /\ UNCHANGED <<host, base, ghostVars>>
        ELSE /\ at' = "child" /\ outcome' = "none" /\ base' = source
             /\ host' = Applied(host, source, Work(there, source))
             /\ start' = <<vfs, host'>> /\ edited' = [p \in Paths |-> "-"] /\ unseen' = {}
     /\ UNCHANGED <<vfs, applyVars, writes, edits>>
\* The host fails on the way: a part of the work is done, and the child is not started.
ExportFails(X) ==
  LET source == Snapshot(vfs, X)
      there == Snapshot(host, X)
  IN /\ at = "idle" /\ runs < MaxRuns /\ runs' = runs + 1 /\ excluded' = X
     /\ ~ExportRefused(source, there)
     /\ \E D \in Prefixes(Work(there, source)) : host' = Applied(host, source, D)
     /\ outcome' = "failed"
     /\ UNCHANGED <<vfs, at, base, applyVars, ghostVars, writes, edits>>

\* What a program does to the tree t: a file is written, a directory made or a branch removed.
Written(t, p, e) == [q \in Paths |-> IF q = p THEN e
                                    ELSE IF p \in Ancestors[q] THEN "none" ELSE t[q]]
MayWrite(t, p, e) == /\ \A a \in Ancestors[p] : t[a] = "dir"
                     /\ t[p] # e /\ (t[p] = "dir" => e = "none") /\ (e = "dir" => t[p] = "none")

ChildWrites(p, e) ==
  /\ at = "child" /\ writes < MaxWrites /\ writes' = writes + 1
  /\ MayWrite(host, p, e) /\ host' = Written(host, p, e)
  /\ UNCHANGED <<vfs, at, excluded, base, applyVars, outcome, ghostVars, runs, edits>>

\* Another session edits the VFS, at any time.  An edit is unseen when it falls between the
\* check of its branch and the mutation, or puts back what the import compares with.
Compared(p) == IF at \in {"applying", "checked"} THEN expected[p] ELSE base.entries[p]
Edit(p, e) ==
  /\ at # "off" /\ edits < MaxEdits /\ edits' = edits + 1
  /\ MayWrite(vfs, p, e) /\ vfs' = Written(vfs, p, e)
  /\ edited' = [q \in Paths |-> IF vfs'[q] # vfs[q] THEN vfs'[q] ELSE edited[q]]
  /\ unseen' = unseen \cup {q \in Paths : /\ vfs'[q] # vfs[q]
                                         /\ \/ vfs'[q] = Compared(q)
                                            \/ \E u \in next : Related(p, {u.path})}
  /\ UNCHANGED <<host, at, excluded, base, applyVars, outcome, start, runs, writes>>

\* The child has ended without grace: nothing is imported.
ChildFails == /\ at = "child" /\ at' = "idle" /\ outcome' = "failed" /\ host' = start[2]
              /\ UNCHANGED <<vfs, excluded, base, applyVars, ghostVars, boundVars>>
ChildEnds == /\ at = "child" /\ at' = "import"
             /\ UNCHANGED <<vfs, host, excluded, base, applyVars, outcome, ghostVars, boundVars>>

(* --- sync_host_to_vfs ------------------------------------------------------ *)

Live == Snapshot(vfs, excluded)
Import ==
  LET child == Snapshot(host, excluded)
      live == Live
      tree == Reconciled(base, child, live)
  IN /\ at = "import"
     /\ IF TooMuch(child) \/ TooMuch(live) \/ Size(tree.entries) > MaxEntries
        THEN at' = "idle" /\ outcome' = "failed" /\ UNCHANGED applyVars
        ELSE /\ at' = "applying" /\ cur' = live /\ want' = tree /\ expected' = live.entries
             /\ conflicts' = Contested(base, child, live) \cup Blocked(live, tree)
             /\ todo' = Work(live, tree) /\ next' = {} /\ UNCHANGED outcome
     /\ UNCHANGED <<vfs, host, excluded, base, ghostVars, boundVars>>

\* A defect: only the path is looked at, and only whether it is taken.
AffectedIfTaken(u) == {p \in {u.path} : expected[p] = "none" /\ vfs[p] # "none"}

\* snapshot_vfs_branch(): the path, its ancestors and, for a directory to remove, what is
\* under it.  affected_differences(): what is no longer as expected, excluded state included.
Deep(u) == u.kind = 1 /\ cur.entries[u.path] = "dir"
Branch(u) == {u.path} \cup Ancestors[u.path] \cup (IF Deep(u) THEN Children(u.path) ELSE {})
Affected(u) == {p \in Branch(u) : \/ expected[p] # Live.entries[p]
                                  \/ /\ Deep(u) /\ p \notin Ancestors[u.path]
                                     /\ (p \in cur.keeps) # (p \in Live.keeps)}

\* The next path of the work is left alone, or found to have changed, or found to be free.
Check(u) ==
  /\ at = "applying" /\ u \in todo /\ \A v \in todo : ~Before(v, u)
  /\ \/ /\ Related(u.path, conflicts)
        /\ todo' = todo \ {u} /\ UNCHANGED <<at, conflicts, next>>
     \/ /\ ~Related(u.path, conflicts) /\ Affected(u) # {}
        /\ todo' = todo \ {u} /\ conflicts' = conflicts \cup Affected(u)
        /\ UNCHANGED <<at, next>>
     \/ /\ ~Related(u.path, conflicts) /\ Affected(u) = {}
        /\ at' = "checked" /\ next' = {u} /\ UNCHANGED <<todo, conflicts>>
  /\ UNCHANGED <<vfs, host, excluded, base, cur, want, expected, outcome, ghostVars, boundVars>>

\* The mutation of a path that was found to be free: no lock is held since.  The VFS has
\* no parent for it, or no place, only when an edit came between.
Possible(u) ==
  /\ \A a \in Ancestors[u.path] : vfs[a] = "dir"
  /\ u.kind = 1 => /\ (vfs[u.path] = "dir") = (cur.entries[u.path] = "dir") /\ vfs[u.path] # "none"
                   /\ \A q \in Children(u.path) : vfs[q] = "none"
  /\ u.kind = 2 => vfs[u.path] = "none"
  /\ u.kind = 3 => IF expected[u.path] \in Files THEN vfs[u.path] \in Files
                                                ELSE vfs[u.path] = "none"
Mutate ==
  /\ at = "checked" /\ next' = {}
  /\ \E u \in next :
       IF Possible(u)
       THEN /\ vfs' = [vfs EXCEPT ![u.path] = IF u.kind = 1 THEN "none" ELSE want.entries[u.path]]
            /\ expected' = [expected EXCEPT ![u.path] = vfs'[u.path]]
            /\ todo' = todo \ {u} /\ at' = "applying" /\ UNCHANGED outcome
       ELSE at' = "idle" /\ outcome' = "failed" /\ todo' = {} /\ UNCHANGED <<vfs, expected>>
  /\ UNCHANGED <<host, excluded, base, cur, want, conflicts, ghostVars, boundVars>>

Imported == /\ at = "applying" /\ todo = {} /\ at' = "idle" /\ outcome' = "imported"
            /\ UNCHANGED <<vfs, host, excluded, base, applyVars, ghostVars, boundVars>>

Next == \/ Boot \/ Crash \/ ChildFails \/ ChildEnds \/ Import \/ Mutate \/ Imported
        \/ \E X \in Exclusions : Export(X) \/ ExportFails(X)
        \/ \E p \in Paths, e \in Entries : ChildWrites(p, e) \/ (e # "big" /\ Edit(p, e))
        \/ \E u \in todo : Check(u)

Spec == Init /\ [][Next]_fileVars

(* --- properties ------------------------------------------------------------ *)

\* What is where, and both trees are trees: no step leaves an entry without its directory
\* (the guest's and the host's calls refuse it, so an order of the work that needs one
\* would end every import in an error).
TypeOK == /\ vfs \in Trees /\ host \in Trees /\ WellFormed(vfs) /\ WellFormed(host)
          /\ at \in {"off", "idle", "child", "import", "applying", "checked"}
          /\ excluded \subseteq Paths /\ conflicts \subseteq Paths /\ unseen \subseteq Paths
          /\ Cardinality(next) <= 1 /\ outcome \in {"none", "imported", "failed"}
          /\ edited \in [Paths -> Entries \cup {"-"}]

\* Whatever the runs before left on the host, a part of a failed export or a child's
\* files of another run, a child is started on a mirror of the VFS: outside what is
\* excluded the host has every entry of the VFS, and no other than a directory that
\* holds excluded files of its own (sync_vfs_to_host).
ChildSeesTheVfs ==
  at \in {"child", "import", "applying", "checked"} => \A p \in Paths \ excluded :
    start[2][p] # start[1][p] =>
      /\ start[1][p] = "none" /\ start[2][p] = "dir"
      /\ \E q \in Children(p) \cap excluded : start[2][q] # "none"

\* An edit that a check can see is never lost to an import: the VFS keeps what the editor
\* wrote last, over every order of edits, snapshots, checks and mutations
\* (reconcile_diff_with_limits, apply_vfs_snapshot_rechecked).
EditsSurvive ==
  at # "off" => \A p \in Paths \ unseen : edited[p] # "-" => vfs[p] = edited[p]

\* An import that reports no conflict has brought the child's tree over: outside what is
\* excluded the VFS has what the host has, but for removed directories that hold excluded
\* files of the VFS, and for what the editor wrote (sync_host_to_vfs).
ReportIsComplete ==
  outcome = "imported" /\ at = "idle" /\ conflicts = {} => \A p \in Paths \ excluded :
    vfs[p] = host[p] \/ edited[p] # "-" \/ (p \in cur.keeps /\ host[p] = "none")

\* An import touches what the child or the editor touched and nothing else; what is
\* excluded it leaves alone, whatever directories the child removed around it.  A
\* directory that stayed on the host for its excluded files is made in the VFS again.
OthersUntouched ==
  at \in {"applying", "checked"} \/ (outcome = "imported" /\ at = "idle") =>
    \A p \in Paths : edited[p] = "-" /\ vfs[p] # start[1][p] =>
      p \notin excluded /\ (host[p] # start[2][p] \/ (start[1][p] = "none" /\ vfs[p] = "dir"))
================================================================================
