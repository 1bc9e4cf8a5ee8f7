------------------------------- MODULE Workbench -------------------------------
(* The page around a runtime: the panes of terminals with their tabs, which are    *)
(* added, split, dragged and closed (App.tsx), and the mounting of the page anew   *)
(* (index.tsx, runtime_entrypoint.ts), which writes the models of the editor to    *)
(* the workspace, one after the other until one is refused, waits for the flush at *)
(* most for a time, disposes of the runtime and creates the next.                  *)
(*                                                                                 *)
(* A pane is a record of its tabs and the one that is shown; panes are a sequence. *)
EXTENDS Integers, Sequences, FiniteSets, SequencesExt

CONSTANTS MaxSession, MaxPanes, MaxText, MaxMounts,  \* bounds
          MaxModels                                  \* the models of the editor are 1..MaxModels
BoundsAssumption == {MaxSession, MaxPanes, MaxText, MaxMounts, MaxModels} \subseteq Nat

VARIABLES
  panes, nextPane, nextSession, dragged,  \* the signals of App
  closed, stale,          \* sessions whose tab was closed; one that a drop has brought back
  page,                   \* what is mounted: see TypeOK
  runtime,                \* the runtime of the page, of which only the phase counts here
  remounts,               \* remounts that wait for the one under way
  text, saved,            \* what the models hold, and what of it the workspace has
  refused,                \* models whose path the workspace cannot write now
  queued,                 \* models of which the document sync has a write to come
  taken,                  \* models whose file others have changed since the last preparation
  prepared,               \* how many models the preparation of this remount has written
  readOnly, failed,       \* the editor is closed; the preparation failed
  mounts                  \* a counter

paneVars == <<panes, nextPane, nextSession, dragged, closed, stale>>
textVars == <<text, saved, refused, queued, taken>>
turnVars == <<remounts, mounts>>
mountVars == <<page, runtime, prepared, readOnly, failed, turnVars, textVars>>
workbenchVars == <<paneVars, mountVars>>

Models == 1..MaxModels
Other == -1         \* the file is gone, or has what somebody else wrote
NoEditor == -1      \* the remount found no editor to prepare
NoTab == -1
NoDrag == [pane |-> 0, session |-> NoTab]
OnePane == <<[id |-> 1, tabs |-> <<0>>, active |-> 0]>>

Init ==
  /\ panes = OnePane /\ nextPane = 2 /\ nextSession = 1 /\ dragged = NoDrag
  /\ closed = {} /\ stale = {}
  /\ page = "opening" /\ runtime = "created" /\ remounts = 0 /\ mounts = 0
  /\ text = [m \in Models |-> 0] /\ refused \in SUBSET (Models \ {1}) /\ queued = {} /\ taken = {}
  /\ saved = [m \in Models |-> IF m \in refused THEN Other ELSE 0]
  /\ prepared = NoEditor /\ readOnly = TRUE /\ failed = FALSE

(* --- panes ----------------------------------------------------------------- *)

Shown == page \in {"opening", "app", "flushing"}
\* The buttons are enabled: controlsDisabled() is false.
Controls == Shown /\ runtime = "ready"
Has(pane, s) == \E i \in DOMAIN pane.tabs : pane.tabs[i] = s
\* Array.filter(): what is at these places of a sequence, in its order.
Rank(places, i) == Cardinality({j \in places : j <= i})
Nth(places, k) == CHOOSE i \in places : Rank(places, i) = k
Only(seq, places) == [k \in 1..Cardinality(places) |-> seq[Nth(places, k)]]
Without(pane, s) ==
  LET tabs == Only(pane.tabs, {k \in DOMAIN pane.tabs : pane.tabs[k] # s}) IN
  [pane EXCEPT !.tabs = tabs,
               !.active = IF @ # s THEN @ ELSE IF tabs = << >> THEN NoTab ELSE Last(tabs)]
With(pane, s) == [pane EXCEPT !.tabs = Append(@, s), !.active = s]
\* An empty pane goes, unless it is the first.
Kept(ps) == Only(ps, {i \in DOMAIN ps : ps[i].tabs # << >> \/ ps[i].id = panes[1].id})

\* addTerminalToPane(), of a button that is enabled.
Add(id) ==
  /\ Controls /\ nextSession <= MaxSession /\ nextSession' = nextSession + 1
  /\ panes' = [j \in DOMAIN panes |->
                 IF panes[j].id = id THEN With(panes[j], nextSession) ELSE panes[j]]
  /\ UNCHANGED <<nextPane, dragged, closed, stale, mountVars>>

\* splitPane(): a pane of one new session behind the pane.
Split(i) ==
  /\ Controls /\ nextSession <= MaxSession /\ nextPane <= MaxPanes
  /\ nextSession' = nextSession + 1 /\ nextPane' = nextPane + 1
  /\ panes' = InsertAt(panes, i + 1, [id |-> nextPane, tabs |-> <<nextSession>>, active |-> nextSession])
  /\ UNCHANGED <<dragged, closed, stale, mountVars>>

\* removeTerminal(): the first session has no such button.
Close(i, s) ==
  /\ Shown /\ s # 0 /\ Has(panes[i], s) /\ closed' = closed \union {s}
  /\ panes' = Kept([j \in DOMAIN panes |->
                      IF panes[j].id = panes[i].id THEN Without(panes[j], s) ELSE panes[j]])
  /\ UNCHANGED <<nextPane, nextSession, dragged, stale, mountVars>>

Activate(i, s) ==
  /\ Shown /\ Has(panes[i], s) /\ panes' = [panes EXCEPT ![i].active = s]
  /\ UNCHANGED <<nextPane, nextSession, dragged, closed, stale, mountVars>>

DragStart(i, s) ==
  /\ Shown /\ Has(panes[i], s) /\ dragged' = [pane |-> panes[i].id, session |-> s]
  /\ UNCHANGED <<panes, nextPane, nextSession, closed, stale, mountVars>>

\* onDrop() of a pane, whatever is dropped there: a drag that ended elsewhere is not
\* forgotten, and its tab may have been closed meanwhile.
Drop(i) ==
  /\ Shown /\ dragged # NoDrag /\ dragged.pane # panes[i].id /\ dragged' = NoDrag
  /\ panes' = Kept([j \in DOMAIN panes |->
                      CASE panes[j].id = dragged.pane -> Without(panes[j], dragged.session)
                        [] panes[j].id = panes[i].id -> With(panes[j], dragged.session)
                        [] OTHER -> panes[j]])
  /\ stale' = IF dragged.session \in closed THEN stale \union {dragged.session} ELSE stale
  /\ UNCHANGED <<nextPane, nextSession, closed, mountVars>>

(* --- mounting anew --------------------------------------------------------- *)

\* The document sync, if there is one for the model, will write the text in its time.
Type(m) ==
  /\ page \in {"app", "flushing"} /\ ~readOnly /\ text[m] < MaxText
  /\ text' = [text EXCEPT ![m] = @ + 1]
  /\ queued' \in {queued, queued \union {m}}
  /\ UNCHANGED <<page, runtime, prepared, readOnly, failed, turnVars, saved, refused, taken, paneVars>>

\* The document sync writes the file in the workspace: an older text with more to come, the
\* text itself, or a text that failed before and is retried behind a newer one
\* (what breaks FlushedTextIsLatest of DocumentSync).
Synced(m) ==
  /\ page \in {"app", "flushing", "disposing"} /\ m \in queued /\ m \notin refused
  /\ \E t \in 0..text[m] :
       /\ saved' = [saved EXCEPT ![m] = t]
       /\ \/ UNCHANGED <<queued, taken>>
          \/ t = text[m] /\ queued' = queued \ {m} /\ UNCHANGED taken
          \/ queued' = queued \ {m} /\ taken' = taken \union {m}
  /\ UNCHANGED <<page, runtime, prepared, readOnly, failed, turnVars, text, refused, paneVars>>

\* A program or a command of the editor overwrites or removes the file, or its directory:
\* then the workspace refuses to write it, until there is a directory again.
Taken(m) ==
  /\ page \in {"opening", "app", "flushing", "disposing"}
  /\ saved' = [saved EXCEPT ![m] = Other] /\ taken' = taken \union {m}
  /\ refused' \in {refused, refused \union {m}}
  /\ UNCHANGED <<page, runtime, prepared, readOnly, failed, turnVars, text, queued, paneVars>>

Given(m) ==
  /\ page \in {"opening", "app", "flushing", "disposing"} /\ refused' = refused \ {m}
  /\ UNCHANGED <<page, runtime, prepared, readOnly, failed, turnVars, text, saved, queued, taken, paneVars>>

\* remountRuntime(): one after the other.
Remount ==
  /\ mounts + remounts < MaxMounts /\ remounts' = remounts + 1
  /\ UNCHANGED <<page, runtime, prepared, readOnly, failed, mounts, textVars, paneVars>>

Turn == remounts > 0 /\ remounts' = remounts - 1 /\ mounts' = mounts + 1

\* The app goes with its panes.
Unmount(to) == page' = to /\ panes' = OnePane /\ nextPane' = 2 /\ nextSession' = 1
               /\ dragged' = NoDrag /\ closed' = {} /\ stale' = {}

\* The models are written in the order they were made in, up to the first that is refused:
\* this fails the preparation. A runtime that is ready is asked for its flush, if all were
\* written; otherwise the app goes at once.
Preparation(closes) ==
  /\ page = "app" /\ Turn /\ readOnly' = closes /\ taken' = {}
  /\ \E n \in 0..MaxModels :
       /\ 1..n \intersect refused = {} /\ (n < MaxModels => n + 1 \in refused)
       /\ prepared' = n /\ failed' = (n < MaxModels)
       /\ saved' = [m \in Models |-> IF m <= n THEN text[m] ELSE saved[m]]
       /\ IF n = MaxModels /\ runtime = "ready" THEN page' = "flushing" /\ UNCHANGED paneVars
                                                ELSE Unmount("disposing")
  /\ UNCHANGED <<runtime, text, refused, queued>>

\* A defect: what is typed while the flush is awaited is taken, and lost.
PrepareOpen == Preparation(readOnly)

\* The preparation that the mounted editor has registered makes it read-only first.
Prepare == Preparation(TRUE)

\* An app whose editor is not mounted yet has nothing to prepare, nor has the page that
\* shows a failure.
Unprepared ==
  /\ page \in {"opening", "failure", "reload"} /\ Turn /\ prepared' = NoEditor /\ failed' = FALSE
  /\ CASE page = "opening" -> Unmount("disposing")
       [] page = "failure" -> page' = "creating" /\ UNCHANGED paneVars
       [] page = "reload"  -> UNCHANGED <<page, paneVars>>
  /\ UNCHANGED <<runtime, readOnly, textVars>>

\* The flush has seen the writes of the document sync through.
Flushed ==
  /\ page = "flushing" /\ queued = {} /\ Unmount("disposing")
  /\ UNCHANGED <<runtime, prepared, readOnly, failed, turnVars, textVars>>

\* The flush fails or its time is over: the runtime is disposed of all the same, and a
\* failure shown.
FlushFails ==
  /\ page = "flushing" /\ Unmount("disposing") /\ failed' = TRUE
  /\ UNCHANGED <<runtime, prepared, readOnly, turnVars, textVars>>

\* dispose() of a runtime that is quarantined already leaves it so.
Disposed ==
  /\ page = "disposing" /\ runtime # "quarantined" /\ runtime' = "disposed"
  /\ page' = IF failed THEN "failure" ELSE "creating"
  /\ UNCHANGED <<prepared, readOnly, failed, turnVars, textVars, paneVars>>

\* The runtime is quarantined: whatever comes next, the page must be reloaded.
Quarantined ==
  /\ page = "disposing" /\ runtime # "disposed" /\ runtime' = "quarantined" /\ page' = "reload"
  /\ UNCHANGED <<prepared, readOnly, failed, turnVars, textVars, paneVars>>

\* mountRuntimeApplication(): a new runtime, and the app rendered.
Created ==
  /\ page = "creating" /\ runtime' = "created" /\ page' = "opening"
  /\ UNCHANGED <<prepared, readOnly, failed, turnVars, textVars, paneVars>>

\* createRuntime() or the rendering fails; a runtime that was made is disposed of, which
\* may quarantine it.
CreationFails ==
  /\ page = "creating"
  /\ \/ page' = "failure" /\ UNCHANGED runtime
     \/ page' = "reload" /\ runtime' = "quarantined"
  /\ UNCHANGED <<prepared, readOnly, failed, turnVars, textVars, paneVars>>

\* handleMount(): the editor shows the models that Monaco has kept, and starts the runtime,
\* which will have a document sync of its own.
EditorMounted ==
  /\ page = "opening" /\ page' = "app" /\ readOnly' = FALSE /\ runtime' = "starting"
  /\ queued' = {}
  /\ UNCHANGED <<prepared, failed, turnVars, text, saved, refused, taken, paneVars>>

Started ==
  /\ Shown /\ runtime = "starting" /\ runtime' = "ready"
  /\ UNCHANGED <<page, prepared, readOnly, failed, turnVars, textVars, paneVars>>

\* A fatal error: the runtime disposes of itself below the app.
RuntimeFails ==
  /\ Shown /\ runtime \in {"starting", "ready"} /\ runtime' \in {"disposed", "quarantined"}
  /\ UNCHANGED <<page, prepared, readOnly, failed, turnVars, textVars, paneVars>>

\* What is done to the panes neither reads nor changes the texts, and the reverse.
PaneNext ==
  \/ \E i \in DOMAIN panes : Add(panes[i].id) \/ Split(i) \/ Drop(i)
  \/ \E i \in DOMAIN panes, s \in 0..MaxSession : Close(i, s) \/ Activate(i, s) \/ DragStart(i, s)

TextNext == \E m \in Models : Type(m) \/ Synced(m) \/ Taken(m) \/ Given(m)

MountNext ==
  \/ Remount \/ Prepare \/ Unprepared \/ Flushed \/ FlushFails \/ Disposed \/ Quarantined
  \/ Created \/ CreationFails \/ EditorMounted \/ Started \/ RuntimeFails

Next == PaneNext \/ TextNext \/ MountNext

Spec == Init /\ [][Next]_workbenchVars

(* --- properties ------------------------------------------------------------ *)

TypeOK ==
  /\ page \in {"opening", "app", "flushing", "disposing", "creating", "failure", "reload"}
  /\ runtime \in {"created", "starting", "ready", "disposed", "quarantined"}
  /\ closed \subseteq 1..MaxSession /\ stale \subseteq closed
  /\ \A i \in DOMAIN panes : panes[i].tabs \in Seq(0..MaxSession) /\ panes[i].active \in NoTab..MaxSession
  /\ text \in [Models -> 0..MaxText] /\ saved \in [Models -> Other..MaxText]
  /\ {refused, queued, taken} \subseteq SUBSET Models /\ prepared \in NoEditor..MaxModels
  /\ {readOnly, failed} \subseteq BOOLEAN

Places(s) == {p \in (DOMAIN panes) \X (1..(MaxSession + 1)) :
                p[2] \in DOMAIN panes[p[1]].tabs /\ panes[p[1]].tabs[p[2]] = s}

\* However tabs are added, split off, dragged and closed, every open session has one tab
\* and a closed one none, a pane with tabs shows one of its own, and there always is a
\* pane; but a tab that was closed after its drag was abandoned may come back with the
\* next drop, for only a drop forgets what was dragged (App.tsx:349-403).
PanesSound ==
  /\ panes # << >> /\ \A i, j \in DOMAIN panes : panes[i].id = panes[j].id => i = j
  /\ \A s \in 0..(nextSession - 1) :
       /\ s \notin closed => Cardinality(Places(s)) = 1
       /\ s \in closed \ stale => Places(s) = {}
       /\ Cardinality(Places(s)) <= 1
  /\ \A i \in DOMAIN panes :
       IF panes[i].tabs = << >> THEN panes[i].active = NoTab ELSE Has(panes[i], panes[i].active)

\* Nothing that was typed is lost in silence when the page is mounted anew. From the moment
\* the editor is left until the next one is mounted, the workspace has the text of every
\* model that the preparation came to, unless somebody else has changed the file since or,
\* without a flush, an older text of the document sync still comes. And
\* a runtime is only created when the one before it was disposed of and the preparation came
\* to every model and its flush did not fail; otherwise the failure is shown first, and it is
\* from there that a runtime is asked for (App.tsx:242-262, index.tsx:122-167).
NothingTypedIsLost ==
  /\ page # "app" => \A m \in (1..prepared) \ (taken \union queued) : saved[m] = text[m]
  /\ page = "creating" => runtime = "disposed" /\ ~failed /\ prepared \in {NoEditor, MaxModels}

=============================================================================
