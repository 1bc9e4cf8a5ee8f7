------------------------------ MODULE PageProofs ------------------------------
(* Proofs about the components of the page and of the transfers of its utility   *)
(* worker: the terminal's gestures, the sources of Rust's library, the download  *)
(* of a module in parts, the calls of the command service, the HTTP bridge,      *)
(* the tree of the workspace, the output of a terminal session, the panes of the *)
(* page and its mounting anew.                                                   *)
(* MCPage explores them one after the other; an invariant of each is kept by its *)
(* own steps and by those of the others, which do not touch its variables.       *)
EXTENDS MCPage, Integers, FunctionTheorems, FiniteSetTheorems, SequenceTheorems,
        WellFoundedInduction, TLAPS

-----------------------------------------------------------------------------
(* The gestures of the terminal (TerminalGestures).                         *)

GestureFlags == /\ installed \in BOOLEAN /\ touching \in BOOLEAN /\ scrolled \in BOOLEAN
                /\ keyboardAtStart \in BOOLEAN /\ focused \in BOOLEAN /\ keyboard \in BOOLEAN
GestureKinds == /\ mode \in {"idle", "pending", "scrolling", "selecting"}
                /\ lastKind \in {"none", "scroll", "other"}
GestureNumbers ==
  /\ startY \in Gestures!Positions /\ lastY \in Gestures!Positions
  /\ distance \in Gestures!Positions /\ elapsed \in 0..(TapTime + 1)
  /\ scrollTop \in Int /\ scrollTopAtStart \in Int
  /\ longPress \in Gestures!NoTime..LongPress /\ copyButton \in 0..MaxGestures
  /\ copying \in Gestures!NoTime..1
  /\ suppressFocus \in 0..Block /\ blockEvents \in 0..Block /\ lateFocus \in 0..Block
  /\ gestures \in 0..MaxGestures

\* Until a scroll is recognised the area is where it was.
NotScrolledYet == mode = "pending" => scrollTop = scrollTopAtStart
\* After a scroll the terminal has no focus, and the suppression of it outlasts what the
\* browser may still do.
FocusStaysAway ==
  installed /\ lastKind = "scroll" =>
    ~focused /\ (lateFocus = 0 \/ lateFocus < suppressFocus)

GestureInv == /\ GestureFlags /\ GestureKinds /\ GestureNumbers
              /\ Gestures!LongPressIsOwn /\ NotScrolledYet /\ Gestures!ScrollFollowsFinger
              /\ FocusStaysAway

LEMMA GestureFacts ==
  /\ MaxY \in Nat /\ Tolerance \in Nat /\ TapDistance \in Nat /\ ScrollDistance \in Nat
  /\ Tolerance < ScrollDistance /\ LongPress \in Nat /\ TapTime \in Nat
  /\ MaxGestures \in Nat /\ Block \in Nat /\ Block > 0
  /\ Gestures!NoTime = -1 /\ Gestures!Positions = 0..MaxY
BY PageAssumption
DEF PageAssumption, Gestures!DistanceAssumption, Gestures!NoTime, Gestures!Positions

LEMMA GestureTyped == GestureInv => Gestures!TypeOK
BY DEF GestureInv, GestureFlags, GestureKinds, GestureNumbers, Gestures!TypeOK

LEMMA GestureInit == Gestures!Init => GestureInv
<1> SUFFICES ASSUME Gestures!Init PROVE GestureInv
  OBVIOUS
<1> USE GestureFacts DEF Gestures!Init
<1>1. GestureFlags /\ GestureKinds
  BY DEF GestureFlags, GestureKinds
<1>2. GestureNumbers
  BY DEF GestureNumbers
<1>3. Gestures!LongPressIsOwn
  BY DEF Gestures!LongPressIsOwn
<1>4. NotScrolledYet /\ Gestures!ScrollFollowsFinger /\ FocusStaysAway
  BY DEF NotScrolledYet, Gestures!ScrollFollowsFinger, FocusStaysAway
<1> QED BY <1>1, <1>2, <1>3, <1>4 DEF GestureInv

LEMMA WayFacts ==
  ASSUME NEW y \in Gestures!Positions, NEW s \in Gestures!Positions,
         NEW d \in Gestures!Positions
  PROVE  /\ Gestures!Larger(d, Gestures!Abs(y - s)) \in Gestures!Positions
         /\ Gestures!Larger(d, Gestures!Abs(y - s)) >= d
BY GestureFacts DEF Gestures!Larger, Gestures!Abs

LEMMA GestureStarts ==
  ASSUME GestureInv, NEW y \in Gestures!Positions, Gestures!StartGesture(y)
  PROVE  GestureInv'
<1> USE GestureFacts DEF GestureInv, Gestures!StartGesture
<1>1. GestureFlags'
  BY DEF GestureFlags
<1>2. GestureKinds'
  BY DEF GestureKinds
<1>3. GestureNumbers'
  BY DEF GestureNumbers
<1>4. Gestures!LongPressIsOwn' /\ Gestures!ScrollFollowsFinger' /\ FocusStaysAway'
  BY DEF Gestures!LongPressIsOwn, Gestures!ScrollFollowsFinger, FocusStaysAway
<1>5. NotScrolledYet'
  BY DEF NotScrolledYet
<1> QED BY <1>1, <1>2, <1>3, <1>4, <1>5

LEMMA GestureMoves ==
  ASSUME GestureInv, NEW y \in Gestures!Positions, Gestures!MoveGesture(y)
  PROVE  GestureInv'
<1> USE GestureFacts DEF GestureInv
<1>a. /\ touching /\ distance' = Gestures!Larger(distance, Gestures!Abs(y - startY))
      /\ longPress' = IF distance' > Tolerance THEN Gestures!NoTime ELSE longPress
      /\ UNCHANGED <<installed, touching, startY, elapsed, scrollTopAtStart, keyboardAtStart,
                     copyButton, copying, focused, keyboard, suppressFocus, blockEvents,
                     lateFocus, gestures, lastKind>>
  BY DEF Gestures!MoveGesture
<1>b. distance' \in Gestures!Positions
  BY <1>a, WayFacts DEF GestureNumbers
<1>c. \/ /\ mode = "pending" /\ distance' >= ScrollDistance /\ mode' = "scrolling"
         /\ scrolled' = TRUE /\ lastY' = y /\ scrollTop' = scrollTop + (startY - y)
      \/ /\ mode = "scrolling" /\ mode' = mode
         /\ scrolled' = TRUE /\ lastY' = y /\ scrollTop' = scrollTop + (lastY - y)
      \/ /\ ~ (mode = "pending" /\ distance' >= ScrollDistance) /\ mode # "scrolling"
         /\ UNCHANGED <<mode, scrolled, lastY, scrollTop>>
  BY DEF Gestures!MoveGesture
<1>1. GestureFlags'
  BY <1>a, <1>c DEF GestureFlags
<1>2. GestureKinds'
  BY <1>a, <1>c DEF GestureKinds
<1>3. GestureNumbers'
  BY <1>a, <1>b, <1>c DEF GestureNumbers
<1>4. Gestures!LongPressIsOwn'
  BY <1>a, <1>b, <1>c DEF Gestures!LongPressIsOwn
<1>5. NotScrolledYet' /\ FocusStaysAway'
  BY <1>a, <1>c DEF NotScrolledYet, FocusStaysAway
<1>6. Gestures!ScrollFollowsFinger'
  BY <1>a, <1>c DEF Gestures!ScrollFollowsFinger, NotScrolledYet, GestureNumbers
<1> QED BY <1>1, <1>2, <1>3, <1>4, <1>5, <1>6

LEMMA GestureFinishes ==
  ASSUME GestureInv, NEW y \in Gestures!Positions, NEW c \in BOOLEAN,
         Gestures!FinishGesture(y, c)
  PROVE  GestureInv'
<1> USE GestureFacts DEF GestureInv
<1>a. /\ longPress' = Gestures!NoTime /\ blockEvents' = Block /\ touching' = FALSE
      /\ mode' = "idle" /\ elapsed' = 0 /\ distance' = 0 /\ scrollTopAtStart' = 0
      /\ scrolled' = FALSE /\ keyboardAtStart' = FALSE /\ lateFocus' = Block - 1
      /\ UNCHANGED <<installed, startY, lastY, scrollTop, copyButton, copying, gestures>>
  BY DEF Gestures!FinishGesture, Gestures!Cleared
<1>b. \/ suppressFocus' = Block /\ focused' = FALSE /\ keyboard' = FALSE
      \/ suppressFocus' = 0 /\ focused' = TRUE /\ UNCHANGED keyboard
      \/ UNCHANGED <<suppressFocus, focused, keyboard>>
  BY DEF Gestures!FinishGesture
<1>c. lastKind' \in {"other", "scroll"}
  BY DEF Gestures!FinishGesture
<1>d. lastKind' = "scroll" => suppressFocus' = Block /\ focused' = FALSE
  <2> SUFFICES ASSUME lastKind' = "scroll" PROVE suppressFocus' = Block /\ focused' = FALSE
    OBVIOUS
  <2>1. /\ ~keyboardAtStart
        /\ ~ (Gestures!DistanceAt(y) < ScrollDistance /\ scrollTop = scrollTopAtStart)
    BY DEF Gestures!FinishGesture
  <2>2. Gestures!DistanceAt(y) \in Gestures!Positions
    BY WayFacts DEF Gestures!DistanceAt, GestureNumbers
  <2>3. Gestures!DidScroll(y)
    BY <2>1, <2>2 DEF Gestures!DidScroll
  <2> QED BY <2>1, <2>3 DEF Gestures!FinishGesture
<1>1. GestureFlags'
  BY <1>a, <1>b DEF GestureFlags
<1>2. GestureKinds'
  BY <1>a, <1>c DEF GestureKinds
<1>3. GestureNumbers'
  <2>1. suppressFocus' \in 0..Block /\ lateFocus' \in 0..Block
    BY <1>a, <1>b DEF GestureNumbers
  <2> QED BY <1>a, <2>1 DEF GestureNumbers
<1>4. Gestures!LongPressIsOwn' /\ NotScrolledYet' /\ Gestures!ScrollFollowsFinger'
  BY <1>a DEF Gestures!LongPressIsOwn, NotScrolledYet, Gestures!ScrollFollowsFinger
<1>5. FocusStaysAway'
  <2>1. lateFocus' < Block
    BY <1>a
  <2> QED BY <1>d, <2>1 DEF FocusStaysAway
<1> QED BY <1>1, <1>2, <1>3, <1>4, <1>5

LEMMA GestureTicks == GestureInv /\ Gestures!Tick => GestureInv'
<1> SUFFICES ASSUME GestureInv, Gestures!Tick PROVE GestureInv'
  OBVIOUS
<1> USE GestureFacts DEF GestureInv
<1>a. /\ longPress # 0 /\ copying # 0
      /\ elapsed' = elapsed \/ (elapsed' = elapsed + 1 /\ elapsed <= TapTime)
      /\ longPress' = IF longPress > 0 THEN longPress - 1 ELSE longPress
      /\ copying' = IF copying > 0 THEN copying - 1 ELSE copying
      /\ suppressFocus' = IF suppressFocus > 0 THEN suppressFocus - 1 ELSE suppressFocus
      /\ blockEvents' = IF blockEvents > 0 THEN blockEvents - 1 ELSE blockEvents
      /\ lateFocus' = IF lateFocus > 0 THEN lateFocus - 1 ELSE lateFocus
      /\ UNCHANGED <<installed, touching, mode, startY, lastY, distance, scrollTop,
                     scrollTopAtStart, scrolled, keyboardAtStart, copyButton, focused,
                     keyboard, gestures, lastKind>>
  BY DEF Gestures!Tick, Gestures!Down
<1>b. /\ longPress \in -1..LongPress /\ copying \in -1..1 /\ suppressFocus \in 0..Block
      /\ blockEvents \in 0..Block /\ lateFocus \in 0..Block /\ elapsed \in 0..(TapTime + 1)
  BY DEF GestureNumbers
<1>c. /\ longPress' \in -1..LongPress
      /\ copying' \in -1..1
      /\ suppressFocus' \in 0..Block
      /\ blockEvents' \in 0..Block
      /\ lateFocus' \in 0..Block
      /\ elapsed' \in 0..(TapTime + 1)
  <2>1. longPress' \in -1..LongPress
    BY <1>a, <1>b
  <2>2. copying' \in -1..1
    BY <1>a, <1>b
  <2>3. suppressFocus' \in 0..Block /\ blockEvents' \in 0..Block /\ lateFocus' \in 0..Block
    BY <1>a, <1>b
  <2>4. elapsed' \in 0..(TapTime + 1)
    BY <1>a, <1>b
  <2> QED BY <2>1, <2>2, <2>3, <2>4
<1>d. longPress = -1 => longPress' = -1
  BY <1>a, <1>b
<1>e. /\ lateFocus < suppressFocus => lateFocus' = 0 \/ lateFocus' < suppressFocus'
      /\ lateFocus = 0 => lateFocus' = 0
  BY <1>a, <1>b
<1>1. GestureFlags' /\ GestureKinds'
  BY <1>a DEF GestureFlags, GestureKinds
<1>2. GestureNumbers'
  BY <1>a, <1>c DEF GestureNumbers
<1>3. Gestures!LongPressIsOwn' /\ NotScrolledYet' /\ Gestures!ScrollFollowsFinger'
  <2>1. Gestures!LongPressIsOwn'
    BY <1>a, <1>d DEF Gestures!LongPressIsOwn
  <2>2. NotScrolledYet'
    BY <1>a DEF NotScrolledYet
  <2>3. Gestures!ScrollFollowsFinger'
    BY <1>a DEF Gestures!ScrollFollowsFinger
  <2> QED BY <2>1, <2>2, <2>3
<1>4. FocusStaysAway'
  BY <1>a, <1>e DEF FocusStaysAway
<1> QED BY <1>1, <1>2, <1>3, <1>4

LEMMA GestureStep == GestureInv /\ [Gestures!Next]_(Gestures!gestureVars) => GestureInv'
<1> SUFFICES ASSUME GestureInv, [Gestures!Next]_(Gestures!gestureVars) PROVE GestureInv'
  OBVIOUS
<1> USE GestureFacts
<1>1. CASE Gestures!LongPressFires
  BY <1>1
  DEF Gestures!LongPressFires, GestureInv, GestureFlags, GestureKinds, GestureNumbers,
      Gestures!LongPressIsOwn, NotScrolledYet, Gestures!ScrollFollowsFinger, FocusStaysAway
<1>2. CASE Gestures!FocusIn
  BY <1>2
  DEF Gestures!FocusIn, Gestures!finger, GestureInv, GestureFlags, GestureKinds,
      GestureNumbers, Gestures!LongPressIsOwn, NotScrolledYet, Gestures!ScrollFollowsFinger,
      FocusStaysAway
<1>3. CASE Gestures!Keyboard
  BY <1>3
  DEF Gestures!Keyboard, Gestures!finger, GestureInv, GestureFlags, GestureKinds,
      GestureNumbers, Gestures!LongPressIsOwn, NotScrolledYet, Gestures!ScrollFollowsFinger,
      FocusStaysAway
<1>4. CASE Gestures!Copy \/ Gestures!RemoveCopyButton
  <2>1. /\ copying' \in Gestures!NoTime..1 /\ copyButton' \in 0..MaxGestures
        /\ UNCHANGED <<installed, touching, mode, startY, lastY, distance, elapsed,
                       scrollTop, scrollTopAtStart, scrolled, keyboardAtStart, longPress,
                       focused, keyboard, suppressFocus, blockEvents, lateFocus, gestures,
                       lastKind>>
    BY <1>4, SMTT(30)
    DEF Gestures!Copy, Gestures!RemoveCopyButton, Gestures!finger, GestureInv, GestureNumbers
  <2>2. GestureFlags' /\ GestureKinds'
    BY <2>1 DEF GestureInv, GestureFlags, GestureKinds
  <2>3. GestureNumbers'
    BY <2>1 DEF GestureInv, GestureNumbers
  <2>4. Gestures!LongPressIsOwn' /\ NotScrolledYet' /\ Gestures!ScrollFollowsFinger'
        /\ FocusStaysAway'
    BY <2>1 DEF GestureInv, Gestures!LongPressIsOwn, NotScrolledYet,
                Gestures!ScrollFollowsFinger, FocusStaysAway
  <2> QED BY <2>2, <2>3, <2>4 DEF GestureInv
<1>5. CASE Gestures!Uninstall
  <2>1. /\ longPress' = Gestures!NoTime /\ copyButton' = 0 /\ installed' = FALSE
        /\ UNCHANGED <<touching, mode, startY, lastY, distance, elapsed, scrollTop,
                       scrollTopAtStart, scrolled, keyboardAtStart, copying, focused,
                       keyboard, suppressFocus, blockEvents, lateFocus, gestures, lastKind>>
    BY <1>5 DEF Gestures!Uninstall, Gestures!Cleared, Gestures!finger
  <2>2. GestureFlags' /\ GestureKinds'
    BY <2>1 DEF GestureInv, GestureFlags, GestureKinds
  <2>3. GestureNumbers'
    BY <2>1 DEF GestureInv, GestureNumbers
  <2>4. Gestures!LongPressIsOwn' /\ NotScrolledYet' /\ Gestures!ScrollFollowsFinger'
        /\ FocusStaysAway'
    BY <2>1 DEF GestureInv, Gestures!LongPressIsOwn, NotScrolledYet,
                Gestures!ScrollFollowsFinger, FocusStaysAway
  <2> QED BY <2>2, <2>3, <2>4 DEF GestureInv
<1>6. CASE UNCHANGED Gestures!gestureVars
  BY <1>6
  DEF Gestures!gestureVars, GestureInv, GestureFlags, GestureKinds, GestureNumbers,
      Gestures!LongPressIsOwn, NotScrolledYet, Gestures!ScrollFollowsFinger, FocusStaysAway
<1> QED
  BY <1>1, <1>2, <1>3, <1>4, <1>5, <1>6, GestureStarts, GestureMoves, GestureFinishes,
     GestureTicks
  DEF Gestures!Next

LEMMA StepOfGestures == [Next]_vars => [Gestures!Next]_(Gestures!gestureVars)
  BY DEF Next, vars, gestureVars, Gestures!gestureVars, HttpStep, DownloadStep, TerminalStep,
         CommandsStep, GesturesStep, PageStep, FilesStep, SourceStep

\* A scroll opens no keyboard and keeps the text under the finger, and the timer of a long
\* press is that of the finger that is down, for any distances and durations.
THEOREM GesturesAreSound == Spec => []GesturesSound
<1>1. Init => GestureInv
  BY GestureInit DEF Init
<1>2. GestureInv /\ [Next]_vars => GestureInv'
  BY GestureStep, StepOfGestures
<1>3. GestureInv => GesturesSound
  BY GestureTyped
  DEF GesturesSound, GestureInv, FocusStaysAway, Gestures!ScrollKeepsKeyboardClosed
<1> QED BY <1>1, <1>2, <1>3, PTL DEF Spec

-----------------------------------------------------------------------------
(* The sources of Rust's library (RustSource).                              *)

\* What the tree has at an entry's path when the image is mounted there.
MountOf(e) == IF e \in Links THEN "link" ELSE "empty"
Steps == {"idle", "stat", "read", "list", "sized", "listed", "kinds", "done"}
Replies == {"none", "Unavailable", "NotMounted", "Invalid", "ok"}

SourceTypes == /\ Source!TypeOK
               /\ generation \in Nat
               /\ mounted \in BOOLEAN
               /\ answer \in [Readers -> Replies]
\* No generation was there before the first.
Unborn == phase = "none" <=> generation = 0
\* A change that is still to be made was checked before the mount was there.
ChangesAreEarly == change # Source!NoChange => change.at \in Entries /\ change.early
\* A mount is made once, and what it has made so far is in place.
MountSoFar ==
  load = "mounting" => /\ ~mounted
                       /\ \A e \in Entries \ (todo \union raced) : tree[e] = MountOf(e)
WholeMount == mounted => \A e \in Entries \ raced : tree[e] = MountOf(e)
\* A call that was told a size or a listing asks a guest that has the mount, or one that
\* is gone; and a call that is under way has no answer yet.
CallsOfMounts ==
  \A r \in Readers :
    call[r] \in {"sized", "listed", "kinds"} /\ owner[r] = generation => mounted
Unanswered == \A r \in Readers : call[r] # "done" => answer[r] = "none"

SourceInv == /\ SourceTypes /\ Unborn /\ Source!NoDeadEndpoint /\ ChangesAreEarly
             /\ MountSoFar /\ WholeMount /\ CallsOfMounts /\ Unanswered

LEMMA SourceFacts == ImageSize \in Nat /\ Source!NoDownload = ImageSize + 1
BY PageAssumption DEF PageAssumption, Source!ArchiveAssumption, Source!NoDownload

LEMMA SourceInit == Source!Init => SourceInv
<1> SUFFICES ASSUME Source!Init PROVE SourceInv
  OBVIOUS
<1> USE SourceFacts DEF Source!Init
<1>1. SourceTypes
  <2>1. /\ resolved \subseteq 1..generation
        /\ sourceActive \in 0..generation
        /\ owner \in [Readers -> 0..generation]
        /\ generation \in Nat
    OBVIOUS
  <2>2. download \in 0..Source!NoDownload
    OBVIOUS
  <2>3. tree \in [Entries -> {"absent", "user", "empty", "link"}]
    BY DEF Source!Fresh
  <2> QED BY <2>1, <2>2, <2>3 DEF SourceTypes, Source!TypeOK, Replies
<1>2. Unborn /\ Source!NoDeadEndpoint /\ ChangesAreEarly /\ MountSoFar /\ WholeMount
  BY DEF Unborn, Source!NoDeadEndpoint, ChangesAreEarly, MountSoFar, WholeMount
<1>3. CallsOfMounts /\ Unanswered
  BY DEF CallsOfMounts, Unanswered
<1> QED BY <1>1, <1>2, <1>3 DEF SourceInv

\* The steps of generations.
LEMMA GenerationSteps ==
  ASSUME SourceInv,
         \/ Source!Create \/ Source!HandshakeAnswers \/ Source!DisposeHandshake
         \/ Source!Terminate \/ Source!ClearRegistrations
         \/ \E g \in 1..MaxGenerations : Source!Activate(g)
  PROVE  SourceInv'
<1> USE SourceFacts DEF SourceInv
<1>1. CASE Source!Create
  <2> USE DEF Source!Create, Source!callVars
  <2>1. sourceActive = 0 /\ generation' = generation + 1 /\ generation \in Nat
    BY <1>1 DEF Unborn, Source!NoDeadEndpoint, SourceTypes, Source!TypeOK
  <2>2. SourceTypes'
    <3>1. /\ resolved' \subseteq 1..generation'
          /\ sourceActive' \in 0..generation'
          /\ owner' \in [Readers -> 0..generation']
          /\ generation' \in Nat
      BY <1>1, <2>1 DEF SourceTypes, Source!TypeOK
    <3>2. download' \in 0..Source!NoDownload
      BY <1>1
    <3>3. tree' \in [Entries -> {"absent", "user", "empty", "link"}]
      BY <1>1 DEF Source!Fresh
    <3> QED BY <1>1, <3>1, <3>2, <3>3 DEF SourceTypes, Source!TypeOK
  <2>3. (Unborn /\ Source!NoDeadEndpoint /\ ChangesAreEarly)'
    BY <1>1, <2>1 DEF Unborn, Source!NoDeadEndpoint, ChangesAreEarly
  <2>4. (MountSoFar /\ WholeMount)'
    BY <1>1 DEF MountSoFar, WholeMount
  <2>5. CallsOfMounts' /\ Unanswered'
    BY <1>1, <2>1 DEF CallsOfMounts, Unanswered, SourceTypes, Source!TypeOK
  <2> QED BY <2>2, <2>3, <2>4, <2>5
<1>2. CASE ~Source!Create
  <2>1. UNCHANGED <<generation, Source!loadVars, Source!treeVars, Source!callVars>>
    BY <1>2
    DEF Source!HandshakeAnswers, Source!DisposeHandshake, Source!Terminate,
        Source!ClearRegistrations, Source!Activate
  <2>2. /\ sourceActive' \in {0, sourceActive, generation}
        /\ sourceActive' # 0 => sourceActive' = generation /\ phase' # "cleared"
        /\ phase' = phase \/ (phase' \in {"ready", "disposing", "cleared"} /\ phase # "none")
    <3>1. phase = "none" => resolved = {}
      BY DEF Unborn, SourceTypes, Source!TypeOK
    <3> QED BY <1>2, <3>1
            DEF Source!HandshakeAnswers, Source!DisposeHandshake, Source!Terminate,
                Source!ClearRegistrations, Source!Activate, Source!Cleared,
                Source!Registered, Source!NoDeadEndpoint
  <2>3. resolved' \subseteq 1..generation
    <3>1. CASE Source!HandshakeAnswers
      <4>1. generation \in 1..generation
        BY <3>1 DEF Source!HandshakeAnswers, Unborn, SourceTypes
      <4> QED BY <3>1, <4>1 DEF Source!HandshakeAnswers, SourceTypes, Source!TypeOK
    <3>2. CASE ~Source!HandshakeAnswers
      BY <1>2, <3>2
      DEF Source!DisposeHandshake, Source!Terminate, Source!ClearRegistrations,
          Source!Activate, SourceTypes, Source!TypeOK
    <3> QED BY <3>1, <3>2
  <2>4. SourceTypes'
    <3>1. /\ generation' = generation /\ generation \in Nat
          /\ sourceActive' \in 0..generation
          /\ phase' \in {"none", "initializing", "ready", "disposing", "cleared"}
      BY <2>1, <2>2 DEF SourceTypes, Source!TypeOK
    <3> QED BY <2>1, <2>3, <3>1
            DEF SourceTypes, Source!TypeOK, Source!loadVars, Source!treeVars,
                Source!callVars
  <2>5. (Unborn /\ Source!NoDeadEndpoint /\ ChangesAreEarly)'
    BY <2>1, <2>2 DEF Unborn, Source!NoDeadEndpoint, ChangesAreEarly, Source!treeVars
  <2>6. (MountSoFar /\ WholeMount)'
    BY <2>1 DEF MountSoFar, WholeMount, Source!loadVars, Source!treeVars
  <2>7. CallsOfMounts' /\ Unanswered'
    BY <2>1 DEF CallsOfMounts, Unanswered, Source!loadVars, Source!callVars
  <2> QED BY <2>4, <2>5, <2>6, <2>7
<1> QED BY <1>1, <1>2

\* The steps of a load and of the mount.
LEMMA LoadSteps ==
  ASSUME SourceInv,
         \/ Source!LoadSource \/ Source!Read \/ Source!ReadFails \/ Source!Finish
         \/ Source!MountFails \/ Source!Mounted
         \/ \E e \in Entries : Source!MountEntry(e)
  PROVE  SourceInv'
<1> USE SourceFacts DEF SourceInv
<1>a. UNCHANGED <<generation, phase, alive, resolved, sourceActive, change, raced, changes,
                  call, owner, answer, children, entry>>
  BY DEF Source!LoadSource, Source!Read, Source!ReadFails, Source!Finish,
         Source!MountFails, Source!Mounted, Source!MountEntry, Source!pageVars,
         Source!treeVars, Source!callVars
<1>b. /\ mounted => mounted'
      /\ mounted' \in BOOLEAN
  BY DEF Source!LoadSource, Source!Read, Source!ReadFails, Source!Finish,
         Source!MountFails, Source!Mounted, Source!MountEntry, SourceTypes
<1>c. /\ load' \in {"idle", "reading", "mounting"} /\ download' \in 0..Source!NoDownload
      /\ (load' = "reading" => download' <= ImageSize)
      /\ (load' # "reading" => download' = Source!NoDownload)
      /\ todo' \subseteq Entries /\ (load' # "mounting" => todo' = {})
      /\ tree' \in [Entries -> {"absent", "user", "empty", "link"}]
  BY DEF Source!LoadSource, Source!Read, Source!ReadFails, Source!Finish,
         Source!MountFails, Source!Mounted, Source!MountEntry, Source!treeVars,
         SourceTypes, Source!TypeOK
<1>1. SourceTypes'
  BY <1>a, <1>b, <1>c DEF SourceTypes, Source!TypeOK
<1>2. (Unborn /\ Source!NoDeadEndpoint /\ ChangesAreEarly)'
  BY <1>a DEF Unborn, Source!NoDeadEndpoint, ChangesAreEarly
<1>3. MountSoFar' /\ WholeMount'
  <2>1. CASE Source!LoadSource \/ Source!Read \/ Source!ReadFails \/ Source!MountFails
    BY <2>1
    DEF Source!LoadSource, Source!Read, Source!ReadFails, Source!MountFails,
        MountSoFar, WholeMount, Source!treeVars
  <2>2. CASE Source!Finish
    BY <2>2 DEF Source!Finish, MountSoFar, WholeMount, Source!treeVars
  <2>3. CASE Source!Mounted
    BY <2>3 DEF Source!Mounted, MountSoFar, WholeMount, Source!treeVars
  <2>4. ASSUME NEW e \in Entries, Source!MountEntry(e) PROVE MountSoFar' /\ WholeMount'
    BY <2>4
    DEF Source!MountEntry, MountSoFar, WholeMount, MountOf, SourceTypes, Source!TypeOK
  <2> QED BY <2>1, <2>2, <2>3, <2>4
<1>4. CallsOfMounts' /\ Unanswered'
  BY <1>a, <1>b DEF CallsOfMounts, Unanswered
<1> QED BY <1>1, <1>2, <1>3, <1>4

\* The steps of programs.
LEMMA ProgramSteps ==
  ASSUME SourceInv,
         \/ Source!Change
         \/ \E e \in Entries : Source!Check(e, "write") \/ Source!Check(e, "unlink")
  PROVE  SourceInv'
<1> USE SourceFacts DEF SourceInv
<1>a. UNCHANGED <<Source!pageVars, Source!loadVars, Source!callVars>>
  BY DEF Source!Change, Source!Check
<1>b. /\ tree' \in [Entries -> {"absent", "user", "empty", "link"}]
      /\ raced' \subseteq Entries
      /\ change' # Source!NoChange => change'.at \in Entries /\ change'.early
  <2>1. CASE Source!Change
    <3>1. change.at \in Entries
      BY <2>1 DEF Source!Change, ChangesAreEarly
    <3> QED BY <2>1, <3>1 DEF Source!Change, SourceTypes, Source!TypeOK
  <2>2. CASE ~Source!Change
    <3> PICK e \in Entries : Source!Check(e, "write") \/ Source!Check(e, "unlink")
      BY <2>2
    <3>1. change'.at = e /\ change'.early = ~mounted /\ ~mounted /\ UNCHANGED <<tree, raced>>
      BY DEF Source!Check
    <3> QED BY <3>1 DEF SourceTypes, Source!TypeOK
  <2> QED BY <2>1, <2>2
<1>c. load = "mounting" \/ mounted =>
        /\ raced \subseteq raced'
        /\ \A e \in Entries \ raced' : tree'[e] = tree[e]
  <2>1. CASE Source!Change
    <3>1. change.at \in Entries /\ change.early
      BY <2>1 DEF Source!Change, ChangesAreEarly
    <3> QED BY <2>1, <3>1 DEF Source!Change, SourceTypes, Source!TypeOK
  <2>2. CASE ~Source!Change
    BY <2>2 DEF Source!Check
  <2> QED BY <2>1, <2>2
<1>1. SourceTypes'
  BY <1>a, <1>b
  DEF SourceTypes, Source!TypeOK, Source!pageVars, Source!loadVars, Source!callVars
<1>2. (Unborn /\ Source!NoDeadEndpoint /\ ChangesAreEarly)'
  BY <1>a, <1>b DEF Unborn, Source!NoDeadEndpoint, ChangesAreEarly, Source!pageVars
<1>3. MountSoFar' /\ WholeMount'
  BY <1>a, <1>c DEF MountSoFar, WholeMount, Source!loadVars
<1>4. CallsOfMounts' /\ Unanswered'
  BY <1>a DEF CallsOfMounts, Unanswered, Source!pageVars, Source!loadVars, Source!callVars
<1> QED BY <1>1, <1>2, <1>3, <1>4

\* The steps of a reader, which also answer nothing as if there were no mount once a size
\* or a listing was told.
LEMMA ReaderSteps ==
  ASSUME SourceInv, NEW r \in Readers,
         \/ \E k \in {"stat", "read", "list"} : Source!Ask(r, k)
         \/ Source!Stat(r) \/ Source!Probe(r) \/ Source!ReadWhole(r) \/ Source!ListWhole(r)
         \/ \E e \in Entries : Source!Kind(r, e)
  PROVE  /\ SourceInv'
         /\ call[r] \in {"sized", "listed", "kinds"} => answer'[r] # "NotMounted"
         /\ \A q \in Readers \ {r} : answer'[q] = answer[q]
<1> USE SourceFacts DEF SourceInv
<1>a. UNCHANGED <<Source!pageVars, Source!loadVars, Source!treeVars>>
  BY DEF Source!Ask, Source!Stat, Source!Probe, Source!ReadWhole, Source!ListWhole,
         Source!Kind
<1>t. /\ call \in [Readers -> Steps] /\ owner \in [Readers -> 0..generation]
      /\ answer \in [Readers -> Replies] /\ sourceActive \in 0..generation
  BY DEF SourceTypes, Source!TypeOK, Steps
<1>b. \E s \in Steps, a \in Replies, o \in 0..generation :
        /\ call' = [call EXCEPT ![r] = s]
        /\ owner' = [owner EXCEPT ![r] = o]
        /\ answer' = [answer EXCEPT ![r] = a]
        /\ s # "done" => a = answer[r] /\ call[r] # "done"
        /\ s \in {"sized", "listed", "kinds"} => o = owner[r] /\ (o = generation => mounted)
        /\ call[r] \in {"sized", "listed", "kinds"} => a # "NotMounted"
  <2>1. CASE \E k \in {"stat", "read", "list"} : Source!Ask(r, k)
    <3> PICK k \in {"stat", "read", "list"} : Source!Ask(r, k)
      BY <2>1
    <3>1. CASE sourceActive = 0
      <4>1. /\ call' = [call EXCEPT ![r] = "done"]
            /\ owner' = [owner EXCEPT ![r] = owner[r]]
            /\ answer' = [answer EXCEPT ![r] = "Unavailable"]
        BY <3>1, <1>t DEF Source!Ask, Source!Ends, Source!To
      <4> QED BY <4>1, <1>t DEF Steps, Replies, Source!Ask
    <3>2. CASE sourceActive # 0
      <4>1. /\ call' = [call EXCEPT ![r] = k]
            /\ owner' = [owner EXCEPT ![r] = sourceActive]
            /\ answer' = [answer EXCEPT ![r] = answer[r]]
            /\ call[r] = "idle"
        BY <3>2, <1>t DEF Source!Ask, Source!Ends, Source!To
      <4> QED BY <4>1, <1>t DEF Steps, Replies
    <3> QED BY <3>1, <3>2
  <2>2. CASE Source!Stat(r)
    <3>1. \E a \in Replies :
            /\ call' = [call EXCEPT ![r] = "done"]
            /\ owner' = [owner EXCEPT ![r] = owner[r]]
            /\ answer' = [answer EXCEPT ![r] = a]
            /\ call[r] = "stat"
      BY <2>2, <1>t DEF Source!Stat, Source!Ends, Source!To, Replies
    <3> QED BY <3>1, <1>t DEF Steps
  <2>3. CASE Source!Probe(r)
    <3>1. call[r] \in {"read", "list"}
      BY <2>3 DEF Source!Probe
    <3>2. CASE \/ ~mounted
               \/ call[r] # "list" /\ entry[r] \in Links
      <4>1. \E a \in Replies :
              /\ call' = [call EXCEPT ![r] = "done"]
              /\ owner' = [owner EXCEPT ![r] = owner[r]]
              /\ answer' = [answer EXCEPT ![r] = a]
        BY <2>3, <3>2, <1>t DEF Source!Probe, Source!Ends, Source!To, Replies
      <4> QED BY <3>1, <4>1, <1>t DEF Steps
    <3>3. CASE mounted /\ ~ (call[r] # "list" /\ entry[r] \in Links)
      <4>1. PICK s \in {"sized", "listed"} :
              /\ call' = [call EXCEPT ![r] = s]
              /\ owner' = [owner EXCEPT ![r] = owner[r]]
              /\ answer' = [answer EXCEPT ![r] = answer[r]]
        BY <2>3, <3>3, <1>t DEF Source!Probe, Source!Ends, Source!To
      <4>2. s \in Steps /\ answer[r] \in Replies /\ owner[r] \in 0..generation
        BY <1>t DEF Steps
      <4> QED BY <3>1, <3>3, <4>1, <4>2
    <3> QED BY <3>2, <3>3
  <2>4. CASE Source!ReadWhole(r)
    <3>1. mounted
      BY <2>4 DEF Source!ReadWhole, Source!Serves, CallsOfMounts
    <3>2. /\ call' = [call EXCEPT ![r] = "done"]
          /\ owner' = [owner EXCEPT ![r] = owner[r]]
          /\ answer' = [answer EXCEPT ![r] = "ok"]
      BY <2>4, <3>1, <1>t DEF Source!ReadWhole, Source!Ends, Source!To
    <3> QED BY <3>2, <1>t DEF Steps, Replies
  <2>5. CASE Source!ListWhole(r)
    <3>1. mounted /\ call[r] = "listed"
      BY <2>5 DEF Source!ListWhole, Source!Serves, CallsOfMounts
    <3>2. /\ call' = [call EXCEPT ![r] = "kinds"]
          /\ owner' = [owner EXCEPT ![r] = owner[r]]
          /\ answer' = [answer EXCEPT ![r] = answer[r]]
      BY <2>5, <3>1, <1>t DEF Source!ListWhole, Source!Ends, Source!To
    <3>3. answer[r] = "none"
      BY <3>1 DEF Unanswered
    <3> QED BY <3>1, <3>2, <3>3, <1>t DEF Steps, Replies
  <2>6. ASSUME NEW e \in Entries, Source!Kind(r, e)
        PROVE  \/ \E a \in {"Invalid", "ok"} :
                    /\ call' = [call EXCEPT ![r] = "done"]
                    /\ owner' = [owner EXCEPT ![r] = owner[r]]
                    /\ answer' = [answer EXCEPT ![r] = a]
               \/ /\ call' = [call EXCEPT ![r] = "kinds"] /\ call[r] = "kinds" /\ mounted
                  /\ owner' = [owner EXCEPT ![r] = owner[r]]
                  /\ answer' = [answer EXCEPT ![r] = answer[r]] /\ answer[r] = "none"
    <3>1. call[r] = "kinds" /\ mounted /\ answer[r] = "none"
      BY <2>6 DEF Source!Kind, Source!Serves, CallsOfMounts, Unanswered
    <3>2. UNCHANGED owner /\ owner' = [owner EXCEPT ![r] = owner[r]]
      BY <2>6, <1>t DEF Source!Kind
    <3>3. CASE e \in Links \/ children[r] = {e}
      BY <2>6, <3>2, <3>3 DEF Source!Kind, Source!Ends, Source!To
    <3>4. CASE ~ (e \in Links \/ children[r] = {e})
      BY <2>6, <3>1, <3>2, <3>4, <1>t DEF Source!Kind
    <3> QED BY <3>3, <3>4
  <2>7. CASE \E e \in Entries : Source!Kind(r, e)
    BY <2>6, <2>7, <1>t DEF Steps, Replies
  <2> QED BY <2>1, <2>2, <2>3, <2>4, <2>5, <2>7
<1>c. PICK s \in Steps, a \in Replies, o \in 0..generation :
        /\ call' = [call EXCEPT ![r] = s]
        /\ owner' = [owner EXCEPT ![r] = o]
        /\ answer' = [answer EXCEPT ![r] = a]
        /\ s # "done" => a = answer[r] /\ call[r] # "done"
        /\ s \in {"sized", "listed", "kinds"} => o = owner[r] /\ (o = generation => mounted)
        /\ call[r] \in {"sized", "listed", "kinds"} => a # "NotMounted"
  BY <1>b
<1>d. generation' = generation /\ mounted' = mounted
  BY <1>a DEF Source!pageVars, Source!loadVars
<1>1. SourceTypes'
  <2>1. /\ call' \in [Readers -> Steps] /\ owner' \in [Readers -> 0..generation']
        /\ answer' \in [Readers -> Replies]
    BY <1>c, <1>d, <1>t
  <2> QED BY <1>a, <2>1
          DEF SourceTypes, Source!TypeOK, Source!pageVars, Source!loadVars, Source!treeVars,
              Steps
<1>2. (Unborn /\ Source!NoDeadEndpoint /\ ChangesAreEarly)'
  BY <1>a DEF Unborn, Source!NoDeadEndpoint, ChangesAreEarly, Source!pageVars,
              Source!treeVars
<1>3. MountSoFar' /\ WholeMount'
  BY <1>a DEF MountSoFar, WholeMount, Source!loadVars, Source!treeVars
<1>4. CallsOfMounts' /\ Unanswered'
  BY <1>c, <1>d, <1>t DEF CallsOfMounts, Unanswered
<1>5. call[r] \in {"sized", "listed", "kinds"} => answer'[r] # "NotMounted"
  BY <1>c, <1>t
<1>6. \A q \in Readers \ {r} : answer'[q] = answer[q]
  BY <1>c, <1>t
<1> QED BY <1>1, <1>2, <1>3, <1>4, <1>5, <1>6

LEMMA SourceKeeps ==
  SourceInv /\ [Source!Next]_(Source!sourceVars) =>
    /\ SourceInv'
    /\ [\A r \in Readers :
          call[r] \in {"sized", "listed", "kinds"} => answer'[r] # "NotMounted"
       ]_(Source!sourceVars)
<1> SUFFICES ASSUME SourceInv, [Source!Next]_(Source!sourceVars)
             PROVE  /\ SourceInv'
                    /\ \/ \A r \in Readers : call[r] \in {"sized", "listed", "kinds"} =>
                                               answer'[r] # "NotMounted"
                       \/ UNCHANGED Source!sourceVars
  OBVIOUS
<1>a. \A r \in Readers : call[r] \in {"sized", "listed", "kinds"} => answer[r] # "NotMounted"
  BY DEF SourceInv, Unanswered
<1>b. UNCHANGED answer => \A r \in Readers : call[r] \in {"sized", "listed", "kinds"} =>
                                               answer'[r] # "NotMounted"
  BY <1>a
<1>1. CASE \/ Source!Create \/ Source!HandshakeAnswers \/ Source!DisposeHandshake
           \/ Source!Terminate \/ Source!ClearRegistrations
           \/ \E g \in 1..MaxGenerations : Source!Activate(g)
  <2>1. SourceInv'
    BY <1>1, GenerationSteps
  <2>2. UNCHANGED answer
    BY <1>1
    DEF Source!Create, Source!HandshakeAnswers, Source!DisposeHandshake, Source!Terminate,
        Source!ClearRegistrations, Source!Activate, Source!callVars
  <2> QED BY <2>1, <2>2, <1>b
<1>2. CASE \/ Source!LoadSource \/ Source!Read \/ Source!ReadFails \/ Source!Finish
           \/ Source!MountFails \/ Source!Mounted
           \/ \E e \in Entries : Source!MountEntry(e)
  <2>1. SourceInv'
    BY <1>2, LoadSteps
  <2>2. UNCHANGED answer
    BY <1>2
    DEF Source!LoadSource, Source!Read, Source!ReadFails, Source!Finish,
        Source!MountFails, Source!Mounted, Source!MountEntry, Source!callVars
  <2> QED BY <2>1, <2>2, <1>b
<1>3. CASE \/ Source!Change
           \/ \E e \in Entries : Source!Check(e, "write") \/ Source!Check(e, "unlink")
  <2>1. SourceInv'
    BY <1>3, ProgramSteps
  <2>2. UNCHANGED answer
    BY <1>3 DEF Source!Change, Source!Check, Source!callVars
  <2> QED BY <2>1, <2>2, <1>b
<1>4. ASSUME NEW r \in Readers,
             \/ \E k \in {"stat", "read", "list"} : Source!Ask(r, k)
             \/ Source!Stat(r) \/ Source!Probe(r) \/ Source!ReadWhole(r)
             \/ Source!ListWhole(r)
             \/ \E e \in Entries : Source!Kind(r, e)
      PROVE  /\ SourceInv'
             /\ \A q \in Readers : call[q] \in {"sized", "listed", "kinds"} =>
                                     answer'[q] # "NotMounted"
  <2>1. /\ SourceInv'
        /\ call[r] \in {"sized", "listed", "kinds"} => answer'[r] # "NotMounted"
        /\ \A q \in Readers \ {r} : answer'[q] = answer[q]
    BY <1>4, ReaderSteps
  <2> QED BY <2>1, <1>a
<1>5. CASE UNCHANGED Source!sourceVars
  <2>1. SourceInv'
    BY <1>5
    DEF Source!sourceVars, Source!pageVars, Source!loadVars, Source!treeVars,
        Source!callVars, SourceInv, SourceTypes, Source!TypeOK, Unborn,
        Source!NoDeadEndpoint, ChangesAreEarly, MountSoFar, WholeMount, CallsOfMounts,
        Unanswered
  <2> QED BY <2>1, <1>5
<1> QED BY <1>1, <1>2, <1>3, <1>4, <1>5 DEF Source!Next

LEMMA StepOfSource == [Next]_vars => [Source!Next]_(Source!sourceVars)
  BY DEF Next, vars, sourceVars, Source!sourceVars, Source!pageVars, Source!loadVars,
         Source!treeVars, Source!callVars, HttpStep, DownloadStep, TerminalStep,
         CommandsStep, GesturesStep, PageStep, FilesStep, SourceStep

\* For any image, readers and generations: what is mounted is whole, no endpoint of a
\* generation that is gone is asked, and an answer of the guest goes on as it began.
THEOREM SourceIsSound == Spec => SourceSound
<1>1. Init => SourceInv
  BY SourceInit DEF Init
<1>2. SourceInv /\ [Next]_vars =>
        /\ SourceInv'
        /\ [\A r \in Readers :
              call[r] \in {"sized", "listed", "kinds"} => answer'[r] # "NotMounted"
           ]_(Source!sourceVars)
  BY SourceKeeps, StepOfSource
<1>3. SourceInv =>
        (part = "source" => Source!TypeOK /\ Source!MountedWhole /\ Source!NoDeadEndpoint)
  BY DEF SourceInv, SourceTypes, WholeMount, MountOf, Source!MountedWhole
<1> QED BY <1>1, <1>2, <1>3, PTL DEF Spec, SourceSound, Source!AnswersStand

-----------------------------------------------------------------------------
(* A download in parts (PartDownload).                                      *)

DownloadParts == DOMAIN PartSize
Mains == {"idle", "done", "failed", "manifest", "streaming", "flushing", "compiled"}
Pumps == {"matching", "fetching", "reading", "writing", "failing", "ended"}

DownloadTypes ==
  /\ main \in Mains
  /\ cache \in [DownloadParts -> Download!Cached]
  /\ undeleted \subseteq DownloadParts
  /\ pump \in [DownloadParts -> Pumps]
  /\ fromCache \in [DownloadParts -> BOOLEAN]
  /\ ready \in [DownloadParts -> BOOLEAN]
  /\ put \in [DownloadParts -> {"none", "pending", "settled"}]
DownloadCounts ==
  /\ current \in 1..(Len(PartSize) + 1)
  /\ body \in [DownloadParts -> Nat]
  /\ loaded \in [DownloadParts -> Nat]
  /\ queue \in [DownloadParts -> Nat]
  /\ emitted \in [DownloadParts -> Nat]

\* What was read of a part is with the stream, but for a chunk too many; a part that is
\* ready was read whole and is read no more.
Counted(p) ==
  /\ loaded[p] <= PartSize[p] + 1
  /\ emitted[p] + queue[p] = IF loaded[p] <= PartSize[p] THEN loaded[p] ELSE PartSize[p]
  /\ pump[p] \in {"matching", "fetching"} => loaded[p] = 0
  /\ pump[p] = "reading" => loaded[p] <= PartSize[p]
  /\ pump[p] = "writing" => loaded[p] = PartSize[p]
  /\ ready[p] => loaded[p] = PartSize[p] /\ pump[p] \in {"writing", "ended"}
\* A write to the cache goes on beside the pump and never after it.
WritesBeside(p) ==
  /\ put[p] = "pending" => pump[p] \in {"reading", "writing", "failing"}
  /\ pump[p] \in {"matching", "fetching"} => ~fromCache[p] /\ put[p] = "none"
  /\ pump[p] = "reading" /\ fromCache[p] =>
       /\ cache[p] \in {"whole", "cut"} /\ put[p] = "none"
       /\ cache[p] = "cut" => body[p] + loaded[p] < PartSize[p]
\* What the cache has of a part, as far as it could be deleted there.
KeptWell(p) ==
  p \notin undeleted =>
    /\ pump[p] \in {"fetching", "reading"} /\ ~fromCache[p] => cache[p] = "none"
    /\ pump[p] = "writing" => cache[p] \in {"none", "whole"}
    /\ pump[p] = "ended" /\ (fromCache[p] \/ put[p] # "none") => cache[p] \in {"none", "whole"}
\* The stream is at one part: those before it are out, of those after it there is nothing.
EmittedInTurn ==
  \A p \in DownloadParts : /\ p < current => emitted[p] = PartSize[p]
                           /\ p > current => emitted[p] = 0
FlushedLast == main \in {"flushing", "compiled"} => current = Len(PartSize) + 1

DownloadInv ==
  /\ DownloadTypes /\ DownloadCounts /\ EmittedInTurn /\ FlushedLast
  /\ \A p \in DownloadParts : Counted(p) /\ WritesBeside(p) /\ KeptWell(p)

LEMMA DownloadFacts ==
  /\ PartSize \in Seq(Nat) /\ Len(PartSize) \in Nat /\ Len(PartSize) > 0
  /\ DownloadParts = 1..Len(PartSize) /\ Download!Parts = DownloadParts
  /\ \A p \in DownloadParts : PartSize[p] \in Nat /\ PartSize[p] > 0
  /\ Download!Last = Len(PartSize)
<1>1. PartSize \in Seq(Nat) /\ PartSize # << >> /\ \A p \in DownloadParts : PartSize[p] > 0
  BY PageAssumption
  DEF PageAssumption, Download!SizeAssumption, Download!Parts, DownloadParts
<1> QED BY <1>1 DEF Download!Parts, DownloadParts, Download!Last

LEMMA DownloadInit == Init => DownloadInv
<1> SUFFICES ASSUME Init PROVE DownloadInv
  OBVIOUS
<1> USE DownloadFacts
<1>1. Download!Init
  BY DEF Init
<1>2. DownloadTypes
  BY <1>1 DEF Download!Init, DownloadTypes, Mains, Pumps
<1>3. DownloadCounts
  BY <1>1 DEF Download!Init, DownloadCounts, Download!Zero
<1>4. EmittedInTurn /\ FlushedLast
  BY <1>1 DEF Download!Init, EmittedInTurn, FlushedLast, Download!Zero
<1>5. \A p \in DownloadParts : Counted(p)
  BY <1>1 DEF Download!Init, Counted, Download!Zero
<1>6. \A p \in DownloadParts : WritesBeside(p) /\ KeptWell(p)
  BY <1>1 DEF Download!Init, WritesBeside, KeptWell
<1> QED BY <1>2, <1>3, <1>4, <1>5, <1>6 DEF DownloadInv

\* A step of the pump of part p leaves the other parts alone.
LEMMA PumpTypes ==
  ASSUME DownloadInv, NEW p \in DownloadParts, Download!PumpStep(p)
  PROVE  /\ UNCHANGED <<main, current, emitted>>
         /\ DownloadTypes'
         /\ DownloadCounts'
         /\ \A q \in DownloadParts \ {p} :
              /\ pump'[q] = pump[q] /\ fromCache'[q] = fromCache[q] /\ ready'[q] = ready[q]
              /\ put'[q] = put[q] /\ cache'[q] = cache[q] /\ body'[q] = body[q]
              /\ loaded'[q] = loaded[q] /\ queue'[q] = queue[q]
              /\ q \in undeleted' <=> q \in undeleted
<1> USE DownloadFacts DEF DownloadInv
<1>t. DownloadTypes /\ DownloadCounts
  OBVIOUS
<1>1. CASE Download!FromCache(p)
  <2>1. PICK b \in Nat : body' = [body EXCEPT ![p] = b]
    <3>1. CASE cache[p] = "whole"
      BY <1>1, <3>1 DEF Download!FromCache
    <3>2. CASE cache[p] # "whole"
      <4>1. PICK b \in 0..(PartSize[p] - 1) : body' = [body EXCEPT ![p] = b]
        BY <1>1, <3>2 DEF Download!FromCache
      <4>2. PartSize[p] \in Nat
        OBVIOUS
      <4>3. b \in Nat
        BY <4>2
      <4> QED BY <4>1, <4>3
    <3> QED BY <3>1, <3>2
  <2> QED BY <1>1, <2>1, <1>t
          DEF Download!FromCache, Download!Elsewhere, Download!mainVars, DownloadTypes,
              DownloadCounts, Pumps
<1>2. CASE Download!NotCached(p)
  BY <1>2, <1>t
  DEF Download!NotCached, Download!Elsewhere, Download!mainVars, DownloadTypes,
      DownloadCounts, Pumps, Download!Cached
<1>3. CASE Download!NoResponse(p) \/ Download!WrongLength(p) \/ Download!BodyBreaks(p)
  BY <1>3, <1>t
  DEF Download!NoResponse, Download!WrongLength, Download!BodyBreaks, Download!Fails,
      Download!Fail, Download!Elsewhere, Download!mainVars, DownloadTypes, DownloadCounts,
      Pumps
<1>4. CASE Download!Chunk(p)
  <2>1. /\ body' = [body EXCEPT ![p] = body[p] - 1] /\ body[p] > 0
        /\ loaded' = [loaded EXCEPT ![p] = loaded[p] + 1]
        /\ queue' = queue \/ queue' = [queue EXCEPT ![p] = queue[p] + 1]
        /\ pump' = pump \/ pump' = [pump EXCEPT ![p] = "failing"]
        /\ UNCHANGED <<main, current, emitted, fromCache, ready, put, cache, undeleted>>
    BY <1>4, <1>t
    DEF Download!Chunk, Download!Fails, Download!mainVars, DownloadCounts
  <2>2. DownloadTypes'
    BY <2>1, <1>t DEF DownloadTypes, Pumps
  <2>3. body[p] - 1 \in Nat /\ loaded[p] + 1 \in Nat /\ queue[p] + 1 \in Nat
    <3>1. body[p] \in Nat /\ loaded[p] \in Nat /\ queue[p] \in Nat
      BY <1>t DEF DownloadCounts
    <3>2. body[p] > 0
      BY <2>1
    <3> HIDE DownloadFacts
    <3> QED BY <3>1, <3>2
  <2>4. DownloadCounts'
    BY <2>1, <2>3, <1>t DEF DownloadCounts
  <2> QED BY <2>1, <2>2, <2>4, <1>t, SMTT(30) DEF DownloadTypes, DownloadCounts
<1>5. CASE Download!BodyEnds(p)
  <2>1. /\ ready' = ready \/ ready' = [ready EXCEPT ![p] = TRUE]
        /\ pump' = [pump EXCEPT ![p] = "writing"] \/ pump' = [pump EXCEPT ![p] = "failing"]
        /\ UNCHANGED <<main, current, emitted, fromCache, body, loaded, queue, put, cache,
                       undeleted>>
    BY <1>5 DEF Download!BodyEnds, Download!Fails, Download!Elsewhere, Download!mainVars
  <2>2. DownloadTypes'
    BY <2>1, <1>t DEF DownloadTypes, Pumps
  <2>3. DownloadCounts'
    BY <2>1, <1>t DEF DownloadCounts
  <2> QED BY <2>1, <2>2, <2>3, <1>t DEF DownloadTypes
<1>6. CASE Download!PutSettles(p)
  <2>1. /\ put' = [put EXCEPT ![p] = "settled"]
        /\ \E c \in Download!Cached : cache' = [cache EXCEPT ![p] = c]
        /\ UNCHANGED <<main, current, emitted, pump, fromCache, body, loaded, queue, ready,
                       undeleted>>
    <3>1. UNCHANGED cache => cache' = [cache EXCEPT ![p] = cache[p]] /\ cache[p] \in Download!Cached
      BY <1>t DEF DownloadTypes
    <3> QED BY <1>6, <3>1
            DEF Download!PutSettles, Download!Elsewhere, Download!mainVars, Download!Cached
  <2>2. DownloadTypes'
    BY <2>1, <1>t DEF DownloadTypes
  <2>3. DownloadCounts'
    BY <2>1, <1>t DEF DownloadCounts
  <2> QED BY <2>1, <2>2, <2>3, <1>t DEF DownloadTypes
<1>7. CASE Download!PumpEnds(p)
  BY <1>7, <1>t
  DEF Download!PumpEnds, Download!Elsewhere, Download!mainVars, DownloadTypes,
      DownloadCounts, Pumps, Download!Cached
<1>8. ASSUME NEW b \in 0..(PartSize[p] + 1), Download!Response(p, b)
      PROVE  /\ pump' = [pump EXCEPT ![p] = "reading"] /\ body' = [body EXCEPT ![p] = b]
             /\ put' = [put EXCEPT ![p] = "pending"] /\ b \in Nat
             /\ UNCHANGED <<main, current, emitted, fromCache, loaded, queue, ready, cache,
                            undeleted>>
  BY <1>8 DEF Download!Response, Download!Elsewhere, Download!mainVars
<1>9. CASE \E b \in 0..(PartSize[p] + 1) : Download!Response(p, b)
  <2> PICK b \in Nat :
             /\ pump' = [pump EXCEPT ![p] = "reading"] /\ body' = [body EXCEPT ![p] = b]
             /\ put' = [put EXCEPT ![p] = "pending"]
             /\ UNCHANGED <<main, current, emitted, fromCache, loaded, queue, ready, cache,
                            undeleted>>
    BY <1>8, <1>9
  <2> QED BY <1>t DEF DownloadTypes, DownloadCounts, Pumps
<1> QED BY <1>1, <1>2, <1>3, <1>4, <1>5, <1>6, <1>7, <1>9 DEF Download!PumpStep

\* The part itself is counted right and kept well.
LEMMA PumpKeepsPart ==
  ASSUME DownloadInv, NEW p \in DownloadParts, Download!PumpStep(p)
  PROVE  Counted(p)' /\ WritesBeside(p)' /\ KeptWell(p)'
<1> USE DownloadFacts
<1>t. DownloadTypes /\ DownloadCounts /\ Counted(p) /\ WritesBeside(p) /\ KeptWell(p)
  BY DEF DownloadInv
<1>n. /\ loaded[p] \in Nat /\ body[p] \in Nat /\ queue[p] \in Nat /\ emitted[p] \in Nat
      /\ PartSize[p] \in Nat /\ emitted' = emitted
  BY <1>t, PumpTypes DEF DownloadCounts
<1>1. CASE Download!FromCache(p)
  <2>0. /\ pump[p] = "matching" /\ pump'[p] = "reading" /\ fromCache'[p]
        /\ cache[p] = "whole" \/ (cache[p] = "cut" /\ body'[p] \in 0..(PartSize[p] - 1))
        /\ UNCHANGED <<loaded, queue, ready, put, cache, undeleted>>
    BY <1>1, <1>t DEF Download!FromCache, DownloadTypes, DownloadCounts
  <2>1. loaded[p] = 0 /\ put[p] = "none"
    BY <2>0, <1>t DEF Counted, WritesBeside
  <2>2. Counted(p)'
    BY <2>0, <2>1, <1>t, <1>n DEF Counted
  <2>3. WritesBeside(p)'
    BY <2>0, <2>1, <1>n DEF WritesBeside
  <2>4. KeptWell(p)'
    BY <2>0, <2>1 DEF KeptWell
  <2> QED BY <2>2, <2>3, <2>4
<1>2. CASE Download!NotCached(p)
  <2>0. /\ pump[p] = "matching" /\ pump'[p] = "fetching"
        /\ cache'[p] = "none" \/ p \in undeleted'
        /\ UNCHANGED <<fromCache, body, loaded, queue, ready, put>>
    BY <1>2, <1>t DEF Download!NotCached, DownloadTypes
  <2> QED BY <2>0, <1>t, <1>n DEF Counted, WritesBeside, KeptWell
<1>3. CASE Download!NoResponse(p)
  <2>0. /\ pump[p] = "fetching" /\ pump'[p] = "ended"
        /\ UNCHANGED <<fromCache, body, loaded, queue, ready, put, cache, undeleted>>
    BY <1>3, <1>t DEF Download!NoResponse, DownloadTypes
  <2> QED BY <2>0, <1>t, <1>n DEF Counted, WritesBeside, KeptWell
<1>4. CASE Download!WrongLength(p) \/ Download!BodyBreaks(p)
  <2>0. /\ pump[p] \in {"fetching", "reading"} /\ pump'[p] = "failing"
        /\ UNCHANGED <<fromCache, body, loaded, queue, ready, put, cache, undeleted>>
    BY <1>4, <1>t
    DEF Download!WrongLength, Download!BodyBreaks, Download!Fails, DownloadTypes
  <2> QED BY <2>0, <1>t, <1>n DEF Counted, WritesBeside, KeptWell
<1>5. CASE Download!Chunk(p)
  <2>0. /\ pump[p] = "reading" /\ body[p] > 0
        /\ body'[p] = body[p] - 1 /\ loaded'[p] = loaded[p] + 1
        /\ UNCHANGED <<fromCache, ready, put, cache, undeleted>>
    BY <1>5, <1>t DEF Download!Chunk, DownloadCounts
  <2>1. \/ loaded[p] + 1 > PartSize[p] /\ pump'[p] = "failing" /\ queue'[p] = queue[p]
        \/ loaded[p] + 1 <= PartSize[p] /\ pump'[p] = "reading" /\ queue'[p] = queue[p] + 1
    BY <1>5, <1>t, <1>n, SMTT(30) DEF Download!Chunk, Download!Fails, DownloadTypes, DownloadCounts
  <2> HIDE DownloadFacts
  <2>2. Counted(p)'
    BY <2>0, <2>1, <1>t, <1>n DEF Counted
  <2>3. WritesBeside(p)'
    BY <2>0, <2>1, <1>t, <1>n DEF WritesBeside
  <2>4. KeptWell(p)'
    BY <2>0, <2>1, <1>t DEF KeptWell
  <2> QED BY <2>2, <2>3, <2>4
<1>6. CASE Download!BodyEnds(p)
  <2>0. /\ pump[p] = "reading"
        /\ UNCHANGED <<fromCache, body, loaded, queue, put, cache, undeleted>>
        /\ \/ body[p] = 0 /\ loaded[p] = PartSize[p] /\ pump'[p] = "writing"
           \/ pump'[p] = "failing" /\ ready' = ready
    BY <1>6, <1>t DEF Download!BodyEnds, Download!Fails, DownloadTypes
  <2>1. Counted(p)'
    BY <2>0, <1>t, <1>n DEF Counted
  <2>2. WritesBeside(p)'
    BY <2>0, <1>t, <1>n DEF WritesBeside
  <2>3. KeptWell(p)'
    BY <2>0, <1>t, <1>n DEF KeptWell, WritesBeside
  <2> QED BY <2>1, <2>2, <2>3
<1>7. CASE Download!PutSettles(p)
  <2>0. /\ put[p] = "pending" /\ put'[p] = "settled"
        /\ pump[p] \in {"writing", "failing", "ended"}
        /\ UNCHANGED <<pump, fromCache, body, loaded, queue, ready, undeleted>>
        /\ loaded[p] = PartSize[p] => cache'[p] \in {cache[p], "whole"}
    BY <1>7, <1>t DEF Download!PutSettles, DownloadTypes
  <2> QED BY <2>0, <1>t, <1>n DEF Counted, WritesBeside, KeptWell
<1>8. CASE Download!PumpEnds(p)
  <2>0. /\ pump[p] \in {"writing", "failing"} /\ put[p] # "pending" /\ pump'[p] = "ended"
        /\ UNCHANGED <<fromCache, body, loaded, queue, ready, put>>
        /\ \/ pump[p] = "writing" /\ UNCHANGED <<cache, undeleted>>
           \/ cache'[p] = "none" \/ p \in undeleted'
    BY <1>8, <1>t DEF Download!PumpEnds, DownloadTypes
  <2> QED BY <2>0, <1>t, <1>n DEF Counted, WritesBeside, KeptWell
<1>9. CASE \E b \in 0..(PartSize[p] + 1) : Download!Response(p, b)
  <2>0. /\ pump[p] = "fetching" /\ pump'[p] = "reading" /\ put'[p] = "pending"
        /\ UNCHANGED <<fromCache, loaded, queue, ready, cache, undeleted>>
    BY <1>9, <1>t DEF Download!Response, DownloadTypes
  <2>1. loaded[p] = 0 /\ ~fromCache[p]
    BY <2>0, <1>t DEF Counted, WritesBeside
  <2>2. Counted(p)'
    BY <2>0, <2>1, <1>t, <1>n DEF Counted
  <2>3. WritesBeside(p)' /\ KeptWell(p)'
    BY <2>0, <2>1, <1>t DEF WritesBeside, KeptWell
  <2> QED BY <2>2, <2>3
<1> QED
  BY <1>1, <1>2, <1>3, <1>4, <1>5, <1>6, <1>7, <1>8, <1>9 DEF Download!PumpStep


\* A step of the page, of the stream's consumer, of its progress or of its end.
LEMMA MainKeeps ==
  ASSUME DownloadInv,
         \/ Download!Begin \/ Download!ManifestFails \/ Download!MainStep
         \/ Download!Cancel \/ Download!Progress \/ Download!Abort
  PROVE  DownloadInv'
<1> USE DownloadFacts
<1>t. /\ DownloadTypes /\ DownloadCounts /\ EmittedInTurn /\ FlushedLast
      /\ \A p \in DownloadParts : Counted(p) /\ WritesBeside(p) /\ KeptWell(p)
  BY DEF DownloadInv
<1>1. CASE Download!Open /\ ~module
  <2>0. /\ main' = "streaming" /\ UNCHANGED <<cache, undeleted>>
        /\ pump' = [p \in DownloadParts |-> "matching"]
        /\ fromCache' = [p \in DownloadParts |-> FALSE]
        /\ ready' = [p \in DownloadParts |-> FALSE]
        /\ put' = [p \in DownloadParts |-> "none"]
        /\ body' = [p \in DownloadParts |-> 0] /\ loaded' = [p \in DownloadParts |-> 0]
        /\ queue' = [p \in DownloadParts |-> 0] /\ emitted' = [p \in DownloadParts |-> 0]
        /\ current' = 1
    BY <1>1 DEF Download!Open, Download!Zero
  <2>1. DownloadTypes'
    BY <2>0, <1>t DEF DownloadTypes, Mains, Pumps
  <2>2. DownloadCounts'
    BY <2>0 DEF DownloadCounts
  <2>3. EmittedInTurn' /\ FlushedLast'
    BY <2>0 DEF EmittedInTurn, FlushedLast
  <2>4. ASSUME NEW p \in DownloadParts PROVE Counted(p)' /\ WritesBeside(p)' /\ KeptWell(p)'
    BY <2>0 DEF Counted, WritesBeside, KeptWell
  <2> QED BY <2>1, <2>2, <2>3, <2>4 DEF DownloadInv
<1>2. CASE /\ Download!Pull /\ ~failed /\ current <= Len(PartSize) /\ queue[current] > 0
  <2>a. /\ current \in DownloadParts /\ current \in Nat
        /\ queue[current] \in Nat /\ emitted[current] \in Nat
    <3>1. current \in DownloadParts
      BY <1>2, <1>t DEF DownloadCounts
    <3>2. current \in Nat
      BY <1>t DEF DownloadCounts
    <3>3. queue[current] \in Nat /\ emitted[current] \in Nat
      BY <3>1, <1>t DEF DownloadCounts
    <3> QED BY <3>1, <3>2, <3>3
  <2>0. /\ queue' = [queue EXCEPT ![current] = queue[current] - 1]
        /\ emitted' = [emitted EXCEPT ![current] = emitted[current] + 1]
        /\ UNCHANGED <<main, current, pump, fromCache, body, loaded, ready, put, cache,
                       undeleted>>
    BY <1>2, <2>a DEF Download!Pull
  <2>1. current \in DownloadParts /\ queue[current] - 1 \in Nat
        /\ emitted[current] + 1 \in Nat
    <3> HIDE DownloadFacts
    <3> QED BY <1>2, <2>a
  <2>2. DownloadTypes' /\ FlushedLast'
    BY <2>0, <1>t DEF DownloadTypes, FlushedLast
  <2>3. DownloadCounts'
    BY <2>0, <2>1, <1>t DEF DownloadCounts
  <2>4. EmittedInTurn'
    BY <2>0, <2>1, <1>t DEF EmittedInTurn, DownloadCounts
  <2>5. ASSUME NEW p \in DownloadParts PROVE Counted(p)' /\ WritesBeside(p)' /\ KeptWell(p)'
    <3>1. emitted'[p] + queue'[p] = emitted[p] + queue[p]
      BY <2>0, <2>1, <1>t, SMTT(30) DEF DownloadCounts
    <3> QED BY <2>0, <3>1, <1>t DEF Counted, WritesBeside, KeptWell
  <2> QED BY <2>2, <2>3, <2>4, <2>5 DEF DownloadInv
<1>3. CASE /\ Download!Pull /\ ~failed /\ current <= Len(PartSize) /\ queue[current] = 0
           /\ ready[current]
  <2>0. /\ current' = current + 1
        /\ UNCHANGED <<main, queue, emitted, pump, fromCache, body, loaded, ready, put, cache,
                       undeleted>>
    BY <1>3, <1>t DEF Download!Pull, DownloadCounts
  <2>1. main = "streaming"
    BY <1>3 DEF Download!Pull
  <2>2. current \in DownloadParts /\ current' \in 1..(Len(PartSize) + 1)
    BY <1>3, <2>0, <1>t DEF DownloadCounts
  <2>3. emitted[current] = PartSize[current]
    <3>1. /\ emitted[current] \in Nat /\ loaded[current] \in Nat
          /\ PartSize[current] \in Nat
      BY <2>2, <1>t DEF DownloadCounts
    <3>2. Counted(current)
      BY <2>2, <1>t
    <3> HIDE DownloadFacts
    <3> QED BY <1>3, <3>1, <3>2 DEF Counted
  <2>4. DownloadTypes' /\ DownloadCounts' /\ FlushedLast'
    BY <2>0, <2>1, <2>2, <1>t DEF DownloadTypes, DownloadCounts, FlushedLast
  <2>5. EmittedInTurn'
    BY <2>0, <2>2, <2>3, <1>t DEF EmittedInTurn, DownloadCounts
  <2>6. ASSUME NEW p \in DownloadParts PROVE Counted(p)' /\ WritesBeside(p)' /\ KeptWell(p)'
    BY <2>0, <1>t DEF Counted, WritesBeside, KeptWell
  <2> QED BY <2>4, <2>5, <2>6 DEF DownloadInv
<1>4. CASE /\ ~ (Download!Open /\ ~module)
           /\ ~ (Download!Pull /\ ~failed /\ current <= Len(PartSize) /\ queue[current] > 0)
           /\ ~ (/\ Download!Pull /\ ~failed /\ current <= Len(PartSize)
                 /\ queue[current] = 0 /\ ready[current])
  <2>0. /\ UNCHANGED <<pump, fromCache, body, loaded, queue, ready, put, cache, undeleted,
                       current, emitted>>
        /\ main' \in Mains
        /\ main' \in {"flushing", "compiled"} =>
             main \in {"flushing", "compiled"} \/ current > Len(PartSize)
    <3>1. CASE Download!Begin \/ Download!ManifestFails \/ Download!Open
      BY <3>1, <1>4
      DEF Download!Begin, Download!ManifestFails, Download!Open, Download!streamVars, Mains
    <3>2. CASE Download!Pull
      BY <3>2, <1>4, <1>t DEF Download!Pull, Mains, DownloadTypes
    <3>3. CASE Download!Flush \/ Download!Compiled
      BY <3>3 DEF Download!Flush, Download!Compiled, Download!streamVars, Mains
    <3>4. CASE Download!Cancel \/ Download!Progress \/ Download!Abort
      BY <3>4, <1>t
      DEF Download!Cancel, Download!Progress, Download!Abort, Download!Fail,
          Download!Cancelled, Download!streamVars, Download!mainVars, Mains, DownloadTypes
    <3> QED BY <3>1, <3>2, <3>3, <3>4 DEF Download!MainStep
  <2>1. DownloadTypes' /\ DownloadCounts' /\ EmittedInTurn'
    BY <2>0, <1>t DEF DownloadTypes, DownloadCounts, EmittedInTurn
  <2>2. FlushedLast'
    BY <2>0, <1>t DEF FlushedLast, DownloadCounts
  <2>3. ASSUME NEW p \in DownloadParts PROVE Counted(p)' /\ WritesBeside(p)' /\ KeptWell(p)'
    BY <2>0, <1>t DEF Counted, WritesBeside, KeptWell
  <2> QED BY <2>1, <2>2, <2>3 DEF DownloadInv
<1> QED BY <1>1, <1>2, <1>3, <1>4

LEMMA DownloadKeeps ==
  DownloadInv /\ [Download!Next]_(Download!partVars) => DownloadInv'
<1> SUFFICES ASSUME DownloadInv, [Download!Next]_(Download!partVars) PROVE DownloadInv'
  OBVIOUS
<1>1. ASSUME NEW p \in DownloadParts, Download!PumpStep(p) PROVE DownloadInv'
  <2>1. /\ UNCHANGED <<main, current, emitted>> /\ DownloadTypes' /\ DownloadCounts'
        /\ \A q \in DownloadParts \ {p} :
             /\ pump'[q] = pump[q] /\ fromCache'[q] = fromCache[q] /\ ready'[q] = ready[q]
             /\ put'[q] = put[q] /\ cache'[q] = cache[q] /\ body'[q] = body[q]
             /\ loaded'[q] = loaded[q] /\ queue'[q] = queue[q]
             /\ q \in undeleted' <=> q \in undeleted
    BY <1>1, PumpTypes
  <2>2. EmittedInTurn' /\ FlushedLast'
    BY <2>1 DEF DownloadInv, EmittedInTurn, FlushedLast
  <2>3. ASSUME NEW q \in DownloadParts, q # p
        PROVE  Counted(q)' /\ WritesBeside(q)' /\ KeptWell(q)'
    BY <2>1, <2>3 DEF DownloadInv, Counted, WritesBeside, KeptWell
  <2>4. Counted(p)' /\ WritesBeside(p)' /\ KeptWell(p)'
    BY <1>1, PumpKeepsPart
  <2> QED BY <2>1, <2>2, <2>3, <2>4 DEF DownloadInv
<1>2. CASE UNCHANGED Download!partVars
  BY <1>2
  DEF Download!partVars, Download!mainVars, Download!streamVars, Download!progressVars,
      DownloadInv, DownloadTypes, DownloadCounts, EmittedInTurn, FlushedLast, Counted,
      WritesBeside, KeptWell
<1> QED BY <1>1, <1>2, MainKeeps, DownloadFacts DEF Download!Next

LEMMA StepOfDownload == [Next]_vars => [Download!Next]_(Download!partVars)
  BY DEF Next, vars, downloadVars, Download!partVars, Download!mainVars,
         Download!streamVars, Download!progressVars, HttpStep, DownloadStep, TerminalStep,
         CommandsStep, GesturesStep, PageStep, FilesStep, SourceStep

LEMMA DownloadInvSays == DownloadInv => DownloadSound
<1> SUFFICES ASSUME DownloadInv
             PROVE  Download!TypeOK /\ Download!BytesInOrder /\ Download!NoBadPartIsKept
  BY DEF DownloadSound
<1> USE DownloadFacts
<1>t. /\ DownloadTypes /\ DownloadCounts /\ EmittedInTurn /\ FlushedLast
      /\ \A p \in DownloadParts : Counted(p) /\ WritesBeside(p) /\ KeptWell(p)
  BY DEF DownloadInv
<1>1. Download!TypeOK
  <2>1. ASSUME NEW p \in DownloadParts
        PROVE  emitted[p] + queue[p] <= loaded[p] /\ loaded[p] <= PartSize[p] + 1
    <3>1. /\ emitted[p] \in Nat /\ loaded[p] \in Nat /\ queue[p] \in Nat
          /\ PartSize[p] \in Nat
      BY <1>t DEF DownloadCounts
    <3>2. Counted(p)
      BY <1>t
    <3> HIDE DownloadFacts
    <3> QED BY <3>1, <3>2 DEF Counted
  <2> QED BY <2>1, <1>t
          DEF Download!TypeOK, Download!Ended, DownloadTypes, DownloadCounts, Mains, Pumps
<1>2. Download!BytesInOrder
  <2>1. ASSUME NEW p \in DownloadParts, NEW q \in DownloadParts, p < q, emitted[q] > 0
        PROVE  emitted[p] = PartSize[p]
    <3>1. q <= current
      BY <2>1, <1>t DEF EmittedInTurn, DownloadCounts
    <3>2. p < current
      BY <2>1, <3>1, <1>t DEF DownloadCounts
    <3> QED BY <3>2, <1>t DEF EmittedInTurn
  <2>2. ASSUME main = "compiled" PROVE emitted = PartSize
    <3>1. \A p \in DownloadParts : emitted[p] = PartSize[p]
      BY <2>2, <1>t DEF EmittedInTurn, FlushedLast
    <3>2. emitted = [p \in DownloadParts |-> emitted[p]]
      BY <1>t DEF DownloadCounts
    <3>3. PartSize = [p \in DownloadParts |-> PartSize[p]]
      OBVIOUS
    <3> QED BY <3>1, <3>2, <3>3
  <2> QED BY <2>1, <2>2 DEF Download!BytesInOrder
<1>3. Download!NoBadPartIsKept
  BY <1>t DEF Download!NoBadPartIsKept, KeptWell
<1> QED BY <1>1, <1>2, <1>3

\* However many parts a module has and however long they are, it is put together in their
\* order, and no cut or wrong part stays in the cache unless its deletion failed.
THEOREM DownloadIsSound == Spec => []DownloadSound
<1>1. DownloadInv /\ [Next]_vars => DownloadInv'
  BY DownloadKeeps, StepOfDownload
<1> QED BY <1>1, DownloadInit, DownloadInvSays, PTL DEF Spec

-----------------------------------------------------------------------------
(* The calls of the command service (RuntimeCommands).                      *)

CallKinds == {"run", "download"}
CallStates == {"flush", "queued", "ask", "tell", "type", "done", "refused", "rejected"}
Call == [kind : CallKinds, at : CallStates]

CommandFlags ==
  /\ commandsAborted \in BOOLEAN /\ disposed \in BOOLEAN /\ allDone \in BOOLEAN
  /\ readyPending \in BOOLEAN /\ commandsReady \in BOOLEAN /\ running \in BOOLEAN
CommandChannels ==
  /\ opening \in 0..5
  /\ open \subseteq {"waiter", "waiterRef", "terminalRef", "inputStringRef"}
CallTypes == calls \in Seq(Call) /\ Len(calls) \in 0..MaxCalls
LineTypes == lines \in Seq(1..MaxCalls)

\* Before its services are constructed a generation has neither calls nor lines; a failed
\* construction, and a disposal, is an abort and leaves no channel.
NothingEarly ==
  /\ opening # 5 => calls = << >> /\ lines = << >>
  /\ opening = 0 => commandsAborted /\ open = {}
  /\ disposed => commandsAborted /\ open = {}
KindsOfStates ==
  \A c \in DOMAIN calls : /\ calls[c].at \in {"flush", "ask", "tell"} => calls[c].kind = "run"
                          /\ calls[c].at = "queued" => calls[c].kind = "download"
AbortEndsCalls == commandsAborted => \A c \in DOMAIN calls : ~Commands!Active(c)
\* The run that is under way, if there is one, is the one that the runtime is busy with.
Underway(c) == calls[c].kind = "run" /\ Commands!Active(c)
OneRun ==
  /\ \A b, c \in DOMAIN calls : Underway(b) /\ Underway(c) => b = c
  /\ ~commandsAborted => (running <=> \E c \in DOMAIN calls : Underway(c))
\* What has been typed belongs to a call that has come so far, and the downloads before a
\* typed one are over.
LinesOfCalls ==
  \A i \in DOMAIN lines :
    /\ lines[i] \in DOMAIN calls
    /\ calls[lines[i]].at \in {"type", "done", "refused", "rejected"}
    /\ calls[lines[i]].kind = "download" =>
         \A b \in DOMAIN calls : b < lines[i] /\ calls[b].kind = "download" =>
                                   ~Commands!Active(b)

CommandInv == /\ CommandFlags /\ CommandChannels /\ CallTypes /\ LineTypes /\ NothingEarly
              /\ KindsOfStates /\ AbortEndsCalls /\ OneRun /\ LinesOfCalls
              /\ Commands!DownloadsInTurn

LEMMA CommandFacts ==
  /\ MaxCalls \in Nat
  /\ Len(Commands!Channels) = 4
  /\ Commands!Channels[1] = "waiter" /\ Commands!Channels[2] = "waiterRef"
  /\ Commands!Channels[3] = "terminalRef" /\ Commands!Channels[4] = "inputStringRef"
  /\ Commands!Under = {"flush", "queued", "ask", "tell", "type"}
  /\ Commands!Over = {"done", "refused", "rejected"}
  /\ CallStates = Commands!Under \cup Commands!Over
BY PageAssumption
DEF PageAssumption, Commands!CallsAssumption, Commands!Channels, Commands!Under,
    Commands!Over, CallStates

LEMMA AppendedCall ==
  ASSUME NEW S, NEW s \in Seq(S), NEW e \in S
  PROVE  /\ Append(s, e) \in Seq(S) /\ Len(Append(s, e)) = Len(s) + 1
         /\ DOMAIN Append(s, e) = DOMAIN s \cup {Len(s) + 1}
         /\ DOMAIN s = 1..Len(s) /\ Len(s) \in Nat
         /\ \A i \in DOMAIN s : Append(s, e)[i] = s[i] /\ i < Len(s) + 1
         /\ Append(s, e)[Len(s) + 1] = e
<1>1. /\ Append(s, e) \in Seq(S) /\ Len(Append(s, e)) = Len(s) + 1 /\ Len(s) \in Nat
      /\ DOMAIN s = 1..Len(s) /\ DOMAIN Append(s, e) = 1..(Len(s) + 1)
  OBVIOUS
<1>2. \A i \in 1..Len(s) : Append(s, e)[i] = s[i]
  OBVIOUS
<1>3. Append(s, e)[Len(s) + 1] = e
  OBVIOUS
<1> QED BY <1>1, <1>2, <1>3

LEMMA CommandInit == Commands!Init => CommandInv
<1> SUFFICES ASSUME Commands!Init PROVE CommandInv
  OBVIOUS
<1> USE CommandFacts DEF Commands!Init
<1>1. CommandFlags /\ CommandChannels
  <2>1. CommandFlags
    BY DEF CommandFlags
  <2>2. CommandChannels
    BY DEF CommandChannels
  <2> QED BY <2>1, <2>2
<1>2. CallTypes /\ LineTypes /\ NothingEarly
  BY DEF CallTypes, LineTypes, NothingEarly
<1>3. DOMAIN calls = {} /\ DOMAIN lines = {}
  OBVIOUS
<1>4. KindsOfStates /\ AbortEndsCalls /\ OneRun /\ LinesOfCalls /\ Commands!DownloadsInTurn
  BY <1>3
  DEF KindsOfStates, AbortEndsCalls, OneRun, LinesOfCalls, Commands!DownloadsInTurn
<1> QED BY <1>1, <1>2, <1>4 DEF CommandInv

\* The construction, its failure and the disposal.
LEMMA ConstructionSteps ==
  ASSUME CommandInv,
         Commands!Open \/ Commands!OpenFails \/ Commands!ParserReady \/ Commands!Dispose
  PROVE  CommandInv'
<1> USE CommandFacts
<1>0. UNCHANGED <<calls, lines, running>>
  BY DEF Commands!Open, Commands!OpenFails, Commands!ParserReady, Commands!Dispose
<1>1. CommandFlags'
  BY DEF CommandInv, CommandFlags, Commands!Open, Commands!OpenFails, Commands!ParserReady,
         Commands!Dispose
<1>2. commandsAborted => commandsAborted'
  BY DEF Commands!Open, Commands!OpenFails, Commands!ParserReady, Commands!Dispose
<1>3. CommandChannels' /\ NothingEarly'
  <2>1. CASE Commands!Open
    <3>1. opening \in 1..4 /\ ~commandsAborted /\ opening' = opening + 1
          /\ open' = open \cup {Commands!Channels[opening]}
          /\ UNCHANGED <<commandsAborted, disposed>>
      BY <2>1 DEF Commands!Open, CommandInv, NothingEarly, CommandChannels
    <3>2. Commands!Channels[opening] \in {"waiter", "waiterRef", "terminalRef", "inputStringRef"}
      BY <3>1
    <3>3. CommandChannels'
      <4>1. opening' \in 0..5
        BY <3>1
      <4>2. open' \subseteq {"waiter", "waiterRef", "terminalRef", "inputStringRef"}
        BY <3>1, <3>2 DEF CommandInv, CommandChannels
      <4> QED BY <4>1, <4>2 DEF CommandChannels
    <3>4. opening # 5 /\ opening' # 0 /\ ~disposed
      BY <3>1 DEF CommandInv, NothingEarly
    <3>5. NothingEarly'
      BY <1>0, <3>1, <3>4 DEF CommandInv, NothingEarly
    <3> QED BY <3>3, <3>5
  <2>2. CASE Commands!OpenFails
    <3>1. opening # 5 /\ opening' = 0 /\ commandsAborted' /\ open' = {}
      BY <2>2 DEF Commands!OpenFails
    <3> QED BY <1>0, <3>1 DEF CommandInv, NothingEarly, CommandChannels
  <2>3. CASE Commands!ParserReady \/ Commands!Dispose
    <3>1. /\ UNCHANGED <<opening, commandsAborted>>
          /\ \/ UNCHANGED <<open, disposed>>
             \/ commandsAborted /\ open' = {}
      BY <2>3 DEF Commands!ParserReady, Commands!Dispose
    <3>2. CommandChannels'
      BY <3>1 DEF CommandInv, CommandChannels
    <3>3. NothingEarly'
      BY <1>0, <3>1 DEF CommandInv, NothingEarly
    <3> QED BY <3>2, <3>3
  <2> QED BY <2>1, <2>2, <2>3
<1>4. CallTypes' /\ LineTypes' /\ KindsOfStates' /\ LinesOfCalls' /\ Commands!DownloadsInTurn'
  BY <1>0
  DEF CommandInv, CallTypes, LineTypes, KindsOfStates, LinesOfCalls, Commands!DownloadsInTurn,
      Commands!Active
<1>5. CASE ~Commands!OpenFails
  <2>1. UNCHANGED commandsAborted
    BY <1>5 DEF Commands!Open, Commands!ParserReady, Commands!Dispose
  <2>2. AbortEndsCalls' /\ OneRun'
    BY <1>0, <2>1 DEF CommandInv, AbortEndsCalls, OneRun, Underway, Commands!Active
  <2> QED BY <1>1, <1>3, <1>4, <2>2 DEF CommandInv
<1>6. CASE Commands!OpenFails
  <2>1. calls = << >> /\ commandsAborted'
    BY <1>6 DEF Commands!OpenFails, CommandInv, NothingEarly
  <2>2. AbortEndsCalls' /\ OneRun'
    BY <1>0, <2>1 DEF AbortEndsCalls, OneRun, Underway
  <2> QED BY <1>1, <1>3, <1>4, <2>2 DEF CommandInv
<1> QED BY <1>5, <1>6

\* A new call: a run, while no other is under way, or a download behind the others.
LEMMA NewCallSteps ==
  ASSUME CommandInv, Commands!Run \/ Commands!Download
  PROVE  CommandInv'
<1> USE CommandFacts
<1> PICK n \in Nat : n = Len(calls) + 1
  <2>1. Len(calls) \in Nat
    BY DEF CommandInv, CallTypes
  <2> QED BY <2>1
<1>0. /\ opening = 5 /\ ~commandsAborted /\ n \in 1..MaxCalls
      /\ UNCHANGED <<opening, open, commandsAborted, disposed, allDone, readyPending,
                     commandsReady, lines>>
      /\ \/ /\ ~running /\ running' = TRUE
            /\ calls' = Append(calls, [kind |-> "run", at |-> "flush"])
         \/ /\ running' = running
            /\ calls' = Append(calls, [kind |-> "download", at |-> "queued"])
  BY DEF Commands!Run, Commands!Download, Commands!Constructed, Commands!Add, CommandInv,
         CallTypes
<1>1. /\ calls' \in Seq(Call) /\ Len(calls') = n /\ DOMAIN calls' = DOMAIN calls \cup {n}
      /\ DOMAIN calls = 1..Len(calls) /\ Len(calls) \in Nat
      /\ \A b \in DOMAIN calls : calls'[b] = calls[b] /\ b < n
      /\ \/ /\ ~running /\ running' = TRUE
            /\ calls'[n].kind = "run" /\ calls'[n].at = "flush"
         \/ /\ running' = running
            /\ calls'[n].kind = "download" /\ calls'[n].at = "queued"
  <2>1. [kind |-> "run", at |-> "flush"] \in Call /\ [kind |-> "download", at |-> "queued"] \in Call
    BY DEF Call, CallKinds, CallStates
  <2>2. calls \in Seq(Call)
    BY DEF CommandInv, CallTypes
  <2> HIDE DEF Call
  <2>3. CASE /\ ~running /\ running' = TRUE
             /\ calls' = Append(calls, [kind |-> "run", at |-> "flush"])
    <3> DEFINE e == [kind |-> "run", at |-> "flush"]
    <3>1. e \in Call /\ calls' = Append(calls, e) /\ e.kind = "run" /\ e.at = "flush"
      BY <2>1, <2>3
    <3> HIDE DEF e
    <3>2. /\ calls' \in Seq(Call) /\ Len(calls') = n /\ DOMAIN calls' = DOMAIN calls \cup {n}
          /\ DOMAIN calls = 1..Len(calls) /\ Len(calls) \in Nat
          /\ \A b \in DOMAIN calls : calls'[b] = calls[b] /\ b < n
          /\ calls'[n] = e
      BY <2>2, <3>1, AppendedCall
    <3> QED BY <2>3, <3>1, <3>2
  <2>4. CASE /\ running' = running
             /\ calls' = Append(calls, [kind |-> "download", at |-> "queued"])
    <3> DEFINE e == [kind |-> "download", at |-> "queued"]
    <3>1. /\ e \in Call /\ calls' = Append(calls, e)
          /\ e.kind = "download" /\ e.at = "queued"
      BY <2>1, <2>4
    <3> HIDE DEF e
    <3> QED BY <2>2, <2>4, <3>1, AppendedCall
  <2> QED BY <1>0, <2>3, <2>4
<1>2. CommandFlags' /\ CommandChannels' /\ LineTypes' /\ NothingEarly'
  BY <1>0
  DEF CommandInv, CommandFlags, CommandChannels, LineTypes, NothingEarly
<1>3. CallTypes'
  BY <1>0, <1>1 DEF CallTypes
<1>4. KindsOfStates'
  BY <1>1 DEF CommandInv, KindsOfStates
<1>5. AbortEndsCalls'
  BY <1>0 DEF AbortEndsCalls
<1>6. OneRun'
  <2>1. \A b \in DOMAIN calls : Underway(b)' <=> Underway(b)
    BY <1>1 DEF Underway, Commands!Active
  <2>2. /\ Underway(n)' => running' /\ ~running
        /\ running' /\ ~running => Underway(n)'
    <3>1. CASE ~running /\ running' = TRUE /\ calls'[n].kind = "run" /\ calls'[n].at = "flush"
      BY <3>1 DEF Underway, Commands!Active
    <3>2. CASE running' = running /\ calls'[n].kind = "download"
      BY <3>2 DEF Underway
    <3> QED BY <1>1, <3>1, <3>2
  <2>3. running <=> \E c \in DOMAIN calls : Underway(c)
    BY <1>0 DEF CommandInv, OneRun
  <2>4. \A b, c \in DOMAIN calls : Underway(b) /\ Underway(c) => b = c
    BY DEF CommandInv, OneRun
  <2>5. running => running'
    BY <1>1
  <2>6. \A c \in DOMAIN calls' : c = n \/ c \in DOMAIN calls
    BY <1>1
  <2>7. DOMAIN calls \subseteq DOMAIN calls' /\ n \in DOMAIN calls'
    BY <1>1
  <2>8. ASSUME NEW b \in DOMAIN calls', NEW c \in DOMAIN calls', Underway(b)', Underway(c)'
        PROVE  b = c
    <3>1. CASE b = n /\ c = n
      BY <3>1
    <3>2. CASE b \in DOMAIN calls /\ c \in DOMAIN calls
      BY <2>1, <2>4, <2>8, <3>2
    <3>3. CASE b = n /\ c \in DOMAIN calls
      BY <2>1, <2>2, <2>3, <2>8, <3>3
    <3>4. CASE c = n /\ b \in DOMAIN calls
      BY <2>1, <2>2, <2>3, <2>8, <3>4
    <3> QED BY <2>6, <3>1, <3>2, <3>3, <3>4
  <2>9. running' <=> \E c \in DOMAIN calls' : Underway(c)'
    <3>1. ASSUME NEW c \in DOMAIN calls', Underway(c)' PROVE running'
      BY <2>1, <2>2, <2>3, <2>5, <2>6, <3>1
    <3>2. ASSUME running' PROVE \E c \in DOMAIN calls' : Underway(c)'
      BY <2>1, <2>2, <2>3, <2>7, <3>2
    <3>3. running' \in BOOLEAN
      BY <1>1 DEF CommandInv, CommandFlags
    <3> QED BY <3>1, <3>2, <3>3
  <2> QED BY <2>8, <2>9 DEF OneRun
<1>7. LinesOfCalls' /\ Commands!DownloadsInTurn'
  <2>1. \A i \in DOMAIN lines : lines[i] \in DOMAIN calls
    BY DEF CommandInv, LinesOfCalls
  <2>2. \A b \in DOMAIN calls : Commands!Active(b)' <=> Commands!Active(b)
    BY <1>1 DEF Commands!Active
  <2>3. LinesOfCalls'
    BY <1>0, <1>1, <2>1, <2>2 DEF CommandInv, LinesOfCalls
  <2>4. Commands!DownloadsInTurn'
    BY <1>0, <1>1, <2>1, <2>2 DEF CommandInv, Commands!DownloadsInTurn
  <2> QED BY <2>3, <2>4
<1> QED BY <1>2, <1>3, <1>4, <1>5, <1>6, <1>7 DEF CommandInv

\* The abort of the generation ends every call.
LEMMA CommandAborts == CommandInv /\ Commands!Abort => CommandInv'
<1> SUFFICES ASSUME CommandInv, Commands!Abort PROVE CommandInv'
  OBVIOUS
<1> USE CommandFacts
<1>0. /\ opening = 5 /\ commandsAborted' = TRUE
      /\ UNCHANGED <<opening, open, disposed, allDone, readyPending, commandsReady, running,
                     lines>>
      /\ calls' = [c \in DOMAIN calls |->
                     IF calls[c].at \in Commands!Under THEN [calls[c] EXCEPT !.at = "rejected"]
                                                       ELSE calls[c]]
  BY DEF Commands!Abort, Commands!Constructed
<1>1. calls \in Seq(Call)
  BY DEF CommandInv, CallTypes
<1>2. \A c \in DOMAIN calls : calls[c] \in Call
  <2> HIDE DEF Call
  <2>1. DOMAIN calls = 1..Len(calls)
    BY <1>1
  <2> QED BY <1>1, <2>1, ElementOfSeq
<1>3. \A c \in DOMAIN calls :
        /\ calls'[c] \in Call /\ calls'[c].kind = calls[c].kind
        /\ calls'[c].at \notin Commands!Under
        /\ calls[c].at \notin Commands!Under => calls'[c].at = calls[c].at
        /\ calls[c].at \in Commands!Under => calls'[c].at = "rejected"
  BY <1>0, <1>2 DEF Call, CallKinds, CallStates
<1>4. /\ DOMAIN calls' = DOMAIN calls /\ calls' \in Seq(Call) /\ Len(calls') = Len(calls)
  <2>1. DOMAIN calls' = 1..Len(calls) /\ DOMAIN calls = 1..Len(calls) /\ Len(calls) \in Nat
    BY <1>0, <1>1
  <2>2. calls' \in [1..Len(calls) -> Call]
    BY <1>0, <1>3, <2>1
  <2> HIDE DEF Call
  <2>3. calls' \in Seq(Call) /\ Len(calls') = Len(calls)
    BY <2>1, <2>2, SeqDef, LenProperties
  <2> QED BY <2>1, <2>3
<1>5. CommandFlags' /\ CommandChannels' /\ LineTypes' /\ NothingEarly'
  BY <1>0
  DEF CommandInv, CommandFlags, CommandChannels, LineTypes, NothingEarly
<1>6. CallTypes'
  BY <1>4 DEF CommandInv, CallTypes
<1>7. KindsOfStates' /\ AbortEndsCalls'
  BY <1>3, <1>4 DEF CommandInv, KindsOfStates, AbortEndsCalls, Commands!Active
<1>8. OneRun'
  BY <1>0, <1>3, <1>4 DEF OneRun, Underway, Commands!Active
<1>9. LinesOfCalls'
  BY <1>0, <1>3, <1>4 DEF CommandInv, LinesOfCalls, Commands!Active
<1>10. Commands!DownloadsInTurn'
  <2>1. \A i \in DOMAIN lines : lines[i] \in DOMAIN calls
    BY DEF CommandInv, LinesOfCalls
  <2> QED BY <1>0, <1>3, <1>4, <2>1 DEF CommandInv, Commands!DownloadsInTurn, Commands!Active
<1> QED BY <1>5, <1>6, <1>7, <1>8, <1>9, <1>10 DEF CommandInv

\* A call goes on, or is typed, or ends.
LEMMA CallGoesOn ==
  ASSUME CommandInv, NEW c \in DOMAIN calls, Commands!CallStep(c)
  PROVE  /\ calls[c].at \in Commands!Under
         /\ UNCHANGED <<opening, open, commandsAborted, disposed, allDone, readyPending>>
         /\ commandsReady' \in BOOLEAN
         /\ DOMAIN calls' = DOMAIN calls /\ calls' \in Seq(Call) /\ Len(calls') = Len(calls)
         /\ \A b \in DOMAIN calls : /\ calls'[b].kind = calls[b].kind
                                    /\ b # c => calls'[b] = calls[b]
         /\ \/ /\ calls'[c].at = "ask" \/ calls'[c].at = "tell"
               /\ calls[c].kind = "run" /\ UNCHANGED <<running, lines>>
               /\ calls[c].at # "type"
            \/ /\ calls'[c].at = "type" /\ lines' = Append(lines, c) /\ UNCHANGED running
               /\ calls[c].at # "type"
               /\ calls[c].kind = "download" =>
                    /\ calls[c].at = "queued"
                    /\ \A b \in DOMAIN calls :
                         b < c /\ calls[b].kind = "download" => calls[b].at \in Commands!Over
            \/ /\ calls'[c].at \in Commands!Over /\ UNCHANGED lines
               /\ running' = (running /\ calls[c].kind # "run")
<1> USE CommandFacts
<1>1. calls \in Seq(Call) /\ calls[c] \in Call
  BY ElementOfSeq DEF CommandInv, CallTypes
<1>2. KindsOfStates /\ CommandFlags
  BY DEF CommandInv
<1>3. /\ calls[c].at \in Commands!Under
      /\ UNCHANGED <<opening, open, commandsAborted, disposed, allDone, readyPending>>
      /\ commandsReady' \in BOOLEAN
  BY <1>2
  DEF Commands!CallStep, Commands!Flushed, Commands!FlushFails, Commands!Asked,
      Commands!Told, Commands!Typed, Commands!ProxyFails, Commands!DownloadTurn,
      Commands!Ends, Commands!Move, Commands!Types, CommandFlags
<1>4. \E a \in {"ask", "tell", "type"} \cup Commands!Over :
        /\ calls' = [calls EXCEPT ![c].at = a]
        /\ \/ /\ a = "ask" \/ a = "tell"
              /\ calls[c].kind = "run" /\ UNCHANGED <<running, lines>>
              /\ calls[c].at # "type"
           \/ /\ a = "type" /\ lines' = Append(lines, c) /\ UNCHANGED running
              /\ calls[c].at # "type"
              /\ calls[c].kind = "download" =>
                   /\ calls[c].at = "queued"
                   /\ \A b \in DOMAIN calls :
                        b < c /\ calls[b].kind = "download" => calls[b].at \in Commands!Over
           \/ /\ a \in Commands!Over /\ UNCHANGED lines
              /\ running' = (running /\ calls[c].kind # "run")
  <2>1. CASE Commands!Flushed(c)
    BY <1>2, <2>1
    DEF Commands!Flushed, Commands!Types, Commands!Move, KindsOfStates
  <2>2. CASE \/ Commands!FlushFails(c) \/ Commands!Told(c) \/ Commands!Typed(c)
             \/ Commands!ProxyFails(c)
    BY <2>2
    DEF Commands!FlushFails, Commands!Told, Commands!Typed, Commands!ProxyFails,
        Commands!Ends, Commands!Move
  <2>3. CASE Commands!Asked(c)
    BY <1>2, <2>3
    DEF Commands!Asked, Commands!Types, Commands!Move, KindsOfStates
  <2>4. CASE Commands!DownloadTurn(c)
    <3>1. DOMAIN calls = 1..Len(calls) /\ Len(calls) \in Nat
      BY <1>1 DEF Call
    <3>2. \A b \in DOMAIN calls : b < c => b \in 1..(c - 1)
      BY <3>1
    <3> QED BY <2>4, <3>2 DEF Commands!DownloadTurn, Commands!Types, Commands!Move
  <2> QED BY <2>1, <2>2, <2>3, <2>4 DEF Commands!CallStep
<1>5. ASSUME NEW a \in {"ask", "tell", "type"} \cup Commands!Over,
             calls' = [calls EXCEPT ![c].at = a]
      PROVE  /\ DOMAIN calls' = DOMAIN calls /\ calls' \in Seq(Call)
             /\ Len(calls') = Len(calls)
             /\ calls'[c].at = a
             /\ \A b \in DOMAIN calls : /\ calls'[b].kind = calls[b].kind
                                        /\ b # c => calls'[b] = calls[b]
  <2> DEFINE e == [calls[c] EXCEPT !.at = a]
  <2>1. e \in Call /\ e.at = a /\ e.kind = calls[c].kind
    BY <1>1 DEF Call, CallKinds, CallStates
  <2>2. calls' = [calls EXCEPT ![c] = e]
    BY <1>5
  <2> HIDE DEF e, Call
  <2>3. calls' \in Seq(Call) /\ Len(calls') = Len(calls) /\ DOMAIN calls' = DOMAIN calls
    BY <1>1, <2>1, <2>2, ExceptSeq
  <2> QED BY <2>1, <2>2, <2>3
<1> QED BY <1>3, <1>4, <1>5

LEMMA CallSteps ==
  ASSUME CommandInv, NEW c \in DOMAIN calls, Commands!CallStep(c)
  PROVE  CommandInv'
<1> USE CommandFacts
<1>0. /\ calls[c].at \in Commands!Under
      /\ UNCHANGED <<opening, open, commandsAborted, disposed, allDone, readyPending>>
      /\ commandsReady' \in BOOLEAN
      /\ DOMAIN calls' = DOMAIN calls /\ calls' \in Seq(Call) /\ Len(calls') = Len(calls)
      /\ \A b \in DOMAIN calls : /\ calls'[b].kind = calls[b].kind
                                 /\ b # c => calls'[b] = calls[b]
  BY CallGoesOn
<1>1. \/ /\ calls'[c].at = "ask" \/ calls'[c].at = "tell"
         /\ calls[c].kind = "run" /\ UNCHANGED <<running, lines>>
         /\ calls[c].at # "type"
      \/ /\ calls'[c].at = "type" /\ lines' = Append(lines, c) /\ UNCHANGED running
         /\ calls[c].at # "type"
         /\ calls[c].kind = "download" =>
              /\ calls[c].at = "queued"
              /\ \A b \in DOMAIN calls :
                   b < c /\ calls[b].kind = "download" => calls[b].at \in Commands!Over
      \/ /\ calls'[c].at \in Commands!Over /\ UNCHANGED lines
         /\ running' = (running /\ calls[c].kind # "run")
  BY CallGoesOn
<1>a. ~commandsAborted /\ opening = 5 /\ ~disposed
  <2>1. calls # << >>
    <3>1. calls = << >> => DOMAIN calls = {}
      OBVIOUS
    <3> QED BY <3>1
  <2> QED BY <1>0, <2>1
          DEF CommandInv, AbortEndsCalls, NothingEarly, Commands!Active, CommandChannels
<1>b. c \in 1..MaxCalls /\ DOMAIN calls = 1..Len(calls) /\ Len(calls) \in Nat
  BY DEF CommandInv, CallTypes
<1>2. CommandFlags' /\ CommandChannels'
  <2>1. running' \in BOOLEAN
    BY <1>1 DEF CommandInv, CommandFlags
  <2> QED BY <1>0, <2>1 DEF CommandInv, CommandFlags, CommandChannels
<1>3. CallTypes'
  BY <1>0 DEF CommandInv, CallTypes
<1>l. /\ lines' \in Seq(1..MaxCalls)
      /\ \/ lines' = lines
         \/ /\ calls'[c].at = "type" /\ DOMAIN lines' = DOMAIN lines \cup {Len(lines) + 1}
            /\ DOMAIN lines = 1..Len(lines) /\ Len(lines) \in Nat
            /\ \A i \in DOMAIN lines : lines'[i] = lines[i]
            /\ lines'[Len(lines) + 1] = c
  <2>1. lines \in Seq(1..MaxCalls)
    BY DEF CommandInv, LineTypes
  <2>2. CASE lines' = lines
    BY <2>1, <2>2
  <2>3. CASE lines' # lines
    <3>1. calls'[c].at = "type" /\ lines' = Append(lines, c)
      BY <1>1, <2>3
    <3> QED BY <2>1, <3>1, <1>b
  <2> QED BY <2>2, <2>3
<1>4. LineTypes'
  BY <1>l DEF LineTypes
<1>5. NothingEarly'
  BY <1>0, <1>a DEF NothingEarly
<1>6. KindsOfStates'
  <2>1. calls'[c].at # "queued" /\ calls'[c].at # "flush"
        /\ (calls'[c].at \in {"ask", "tell"} => calls[c].kind = "run")
    BY <1>1
  <2> QED BY <1>0, <2>1 DEF CommandInv, KindsOfStates
<1>7. AbortEndsCalls'
  BY <1>0, <1>a DEF AbortEndsCalls
<1>c. \A b \in DOMAIN calls :
        /\ calls[b].at \in Commands!Over => calls'[b].at \in Commands!Over
        /\ ~Commands!Active(b) => ~Commands!Active(b)'
        /\ b # c => (Commands!Active(b)' <=> Commands!Active(b))
  BY <1>0 DEF Commands!Active
<1>8. OneRun'
  <2>1. Commands!Active(c) /\ (Commands!Active(c)' <=> calls'[c].at \notin Commands!Over)
    BY <1>0, <1>1 DEF Commands!Active
  <2>2. \A b \in DOMAIN calls : Underway(b)' => Underway(b)
    BY <1>0, <1>c, <2>1 DEF Underway
  <2>3. \A b \in DOMAIN calls : b # c => (Underway(b)' <=> Underway(b))
    BY <1>0, <1>c DEF Underway
  <2>4. Underway(c) <=> calls[c].kind = "run"
    BY <2>1 DEF Underway
  <2>5. Underway(c)' <=> calls[c].kind = "run" /\ calls'[c].at \notin Commands!Over
    BY <1>0, <2>1 DEF Underway
  <2>6. /\ \A a, b \in DOMAIN calls : Underway(a) /\ Underway(b) => a = b
        /\ running <=> \E b \in DOMAIN calls : Underway(b)
    BY <1>a DEF CommandInv, OneRun
  <2>7. \A a, b \in DOMAIN calls' : Underway(a)' /\ Underway(b)' => a = b
    BY <1>0, <2>2, <2>6
  <2>8. running' <=> \E b \in DOMAIN calls' : Underway(b)'
    <3>1. CASE calls'[c].at \notin Commands!Over
      <4>1. running' = running
        BY <1>1, <3>1
      <4>2. \A b \in DOMAIN calls : Underway(b)' <=> Underway(b)
        BY <2>3, <2>4, <2>5, <3>1
      <4> QED BY <1>0, <2>6, <4>1, <4>2
    <3>2. CASE calls'[c].at \in Commands!Over
      <4>1. running' <=> running /\ calls[c].kind # "run"
        BY <1>1, <3>2 DEF CommandInv, CommandFlags
      <4>2. CASE calls[c].kind = "run"
        BY <1>0, <2>2, <2>4, <2>5, <2>6, <3>2, <4>1, <4>2
      <4>3. CASE calls[c].kind # "run"
        BY <1>0, <2>3, <2>4, <2>5, <2>6, <4>1, <4>3
      <4> QED BY <4>2, <4>3
    <3> QED BY <3>1, <3>2
  <2> QED BY <2>7, <2>8 DEF OneRun
<1>d. \A i \in DOMAIN lines :
        /\ lines[i] \in DOMAIN calls
        /\ calls[lines[i]].at \in {"type", "done", "refused", "rejected"}
        /\ calls'[lines[i]].at \in {"type", "done", "refused", "rejected"}
        /\ calls'[lines[i]].kind = calls[lines[i]].kind
        /\ calls[lines[i]].kind = "download" =>
             \A b \in DOMAIN calls : b < lines[i] /\ calls[b].kind = "download" =>
                                       ~Commands!Active(b)
  <2> SUFFICES ASSUME NEW i \in DOMAIN lines
               PROVE  /\ lines[i] \in DOMAIN calls
                      /\ calls[lines[i]].at \in {"type", "done", "refused", "rejected"}
                      /\ calls'[lines[i]].at \in {"type", "done", "refused", "rejected"}
                      /\ calls'[lines[i]].kind = calls[lines[i]].kind
                      /\ calls[lines[i]].kind = "download" =>
                           \A b \in DOMAIN calls :
                             b < lines[i] /\ calls[b].kind = "download" => ~Commands!Active(b)
    OBVIOUS
  <2>1. /\ lines[i] \in DOMAIN calls
        /\ calls[lines[i]].at \in {"type", "done", "refused", "rejected"}
        /\ calls[lines[i]].kind = "download" =>
             \A b \in DOMAIN calls : b < lines[i] /\ calls[b].kind = "download" =>
                                       ~Commands!Active(b)
    BY DEF CommandInv, LinesOfCalls
  <2>2. lines[i] = c => calls[c].kind = "download" \/ calls[c].at = "type"
    BY <1>0, <2>1
  <2>3. calls'[lines[i]].at \in {"type", "done", "refused", "rejected"}
    <3>1. CASE lines[i] = c
      <4>1. calls[c].at = "type"
        BY <1>0, <2>1, <3>1
      <4> QED BY <1>1, <3>1, <4>1
    <3>2. CASE lines[i] # c
      BY <1>0, <2>1, <3>2
    <3> QED BY <3>1, <3>2
  <2> QED BY <1>0, <2>1, <2>3
<1>e. lines' # lines =>
        /\ calls'[c].at = "type" /\ calls'[c].kind = calls[c].kind
        /\ calls[c].at # "type" /\ calls[c].at \notin Commands!Over
        /\ calls[c].kind = "download" =>
             \A b \in DOMAIN calls :
               b < c /\ calls[b].kind = "download" => ~Commands!Active(b)
  <2> SUFFICES ASSUME lines' # lines
               PROVE  /\ calls'[c].at = "type" /\ calls'[c].kind = calls[c].kind
                      /\ calls[c].at # "type" /\ calls[c].at \notin Commands!Over
                      /\ calls[c].kind = "download" =>
                           \A b \in DOMAIN calls :
                             b < c /\ calls[b].kind = "download" => ~Commands!Active(b)
    OBVIOUS
  <2>1. /\ calls'[c].at = "type" /\ calls[c].at # "type"
        /\ calls[c].kind = "download" =>
             \A b \in DOMAIN calls :
               b < c /\ calls[b].kind = "download" => calls[b].at \in Commands!Over
    BY <1>1
  <2> QED BY <1>0, <2>1 DEF Commands!Active
<1>9. LinesOfCalls'
  <2> SUFFICES ASSUME NEW i \in DOMAIN lines'
               PROVE  /\ lines'[i] \in DOMAIN calls'
                      /\ calls'[lines'[i]].at \in {"type", "done", "refused", "rejected"}
                      /\ calls'[lines'[i]].kind = "download" =>
                           \A b \in DOMAIN calls' :
                             b < lines'[i] /\ calls'[b].kind = "download" =>
                               ~Commands!Active(b)'
    BY DEF LinesOfCalls
  <2>1. CASE i \in DOMAIN lines /\ lines'[i] = lines[i]
    BY <1>0, <1>c, <1>d, <2>1
  <2>2. CASE lines' # lines /\ lines'[i] = c
    BY <1>0, <1>c, <1>e, <2>2
  <2> QED BY <1>l, <2>1, <2>2
<1>10. Commands!DownloadsInTurn'
  <2> SUFFICES ASSUME NEW i \in DOMAIN lines', NEW j \in DOMAIN lines', i < j,
                      calls'[lines'[i]].kind = "download",
                      calls'[lines'[j]].kind = "download"
               PROVE  /\ lines'[i] < lines'[j]
                      /\ calls'[lines'[i]].at \notin Commands!Under
    BY DEF Commands!DownloadsInTurn, Commands!Active
  <2>1. CASE lines' = lines
    <3>1. i \in DOMAIN lines /\ j \in DOMAIN lines /\ lines'[i] = lines[i] /\ lines'[j] = lines[j]
      BY <2>1
    <3> QED BY <1>c, <1>d, <3>1 DEF CommandInv, Commands!DownloadsInTurn, Commands!Active
  <2>2. CASE lines' # lines /\ j \in DOMAIN lines
    <3>1. i \in DOMAIN lines /\ lines'[i] = lines[i] /\ lines'[j] = lines[j]
      BY <1>l, <2>2, SMTT(30)
    <3>2. calls[lines[i]].kind = "download" /\ calls[lines[j]].kind = "download"
      BY <1>d, <2>2, <3>1
    <3>3. lines[i] < lines[j] /\ ~Commands!Active(lines[i])
      BY <2>2, <3>1, <3>2 DEF CommandInv, Commands!DownloadsInTurn
    <3>4. calls'[lines[i]].at \notin Commands!Under
      BY <1>c, <1>d, <3>1, <3>3 DEF Commands!Active
    <3> QED BY <3>1, <3>3, <3>4
  <2>3. CASE lines' # lines /\ j \notin DOMAIN lines
    <3>1. i \in DOMAIN lines /\ lines'[i] = lines[i] /\ lines'[j] = c
      BY <1>l, <2>3
    <3>2. lines[i] \in DOMAIN calls /\ lines[i] # c /\ calls[lines[i]].kind = "download"
      BY <1>d, <1>e, <2>3, <3>1 DEF Commands!Active
    <3>3. calls[c].kind = "download" /\ Commands!Active(c)
      BY <1>0, <3>1 DEF Commands!Active
    <3>4. ~ (c < lines[i])
      BY <1>d, <3>1, <3>2, <3>3
    <3>5. lines[i] < c
      BY <1>b, <3>2, <3>4
    <3>6. ~Commands!Active(lines[i])
      BY <1>e, <2>3, <3>2, <3>3, <3>5
    <3> QED BY <1>c, <3>1, <3>2, <3>5, <3>6 DEF Commands!Active
  <2> QED BY <2>1, <2>2, <2>3
<1> QED BY <1>2, <1>3, <1>4, <1>5, <1>6, <1>7, <1>8, <1>9, <1>10 DEF CommandInv

LEMMA CommandKeeps ==
  CommandInv /\ [Commands!Next]_(Commands!commandVars) => CommandInv'
<1> SUFFICES ASSUME CommandInv, [Commands!Next]_(Commands!commandVars) PROVE CommandInv'
  OBVIOUS
<1>1. CASE UNCHANGED Commands!commandVars
  BY <1>1
  DEF Commands!commandVars, CommandInv, CommandFlags, CommandChannels, CallTypes, LineTypes,
      NothingEarly, KindsOfStates, AbortEndsCalls, OneRun, Underway, LinesOfCalls,
      Commands!DownloadsInTurn, Commands!Active
<1> QED BY <1>1, ConstructionSteps, NewCallSteps, CommandAborts, CallSteps
        DEF Commands!Next

LEMMA StepOfCommands == [Next]_vars => [Commands!Next]_(Commands!commandVars)
  BY DEF Next, vars, commandVars, Commands!commandVars, HttpStep, DownloadStep,
         TerminalStep, CommandsStep, GesturesStep, PageStep, FilesStep, SourceStep

LEMMA CommandInvSays == CommandInv => CommandsSound
<1> SUFFICES ASSUME CommandInv
             PROVE  /\ Commands!TypeOK /\ Commands!DownloadsInTurn
                    /\ Commands!BusyWhileRunning /\ Commands!NothingLeft
  BY DEF CommandsSound
<1> USE CommandFacts
<1>1. Commands!TypeOK
  <2>1. open \subseteq {Commands!Channels[i] : i \in 1..Len(Commands!Channels)}
    <3>1. \A x \in {"waiter", "waiterRef", "terminalRef", "inputStringRef"} :
            \E i \in 1..4 : x = Commands!Channels[i]
      OBVIOUS
    <3> QED BY <3>1 DEF CommandInv, CommandChannels
  <2>2. Call = [kind : {"run", "download"}, at : Commands!Under \cup Commands!Over]
    BY DEF Call, CallKinds
  <2>3. {commandsAborted, disposed, allDone, readyPending, commandsReady, running}
          \subseteq BOOLEAN
    BY DEF CommandInv, CommandFlags
  <2>4. opening \in 0..(Len(Commands!Channels) + 1)
    BY DEF CommandInv, CommandChannels
  <2> QED BY <2>1, <2>2, <2>3, <2>4
          DEF Commands!TypeOK, CommandInv, CallTypes, LineTypes
<1>2. Commands!BusyWhileRunning
  <2> DEFINE runs == {c \in DOMAIN calls : calls[c].kind = "run" /\ Commands!Active(c)}
  <2>1. \A b, c \in runs : b = c
    BY DEF CommandInv, OneRun, Underway
  <2>2. Cardinality(runs) <= 1
    <3>1. CASE runs = {}
      BY <3>1, FS_EmptySet
    <3>2. CASE runs # {}
      <4>1. PICK b \in runs : TRUE
        BY <3>2
      <4>2. runs = {b}
        BY <2>1, <4>1
      <4> QED BY <4>2, FS_Singleton
    <3> QED BY <3>1, <3>2
  <2>3. ~commandsAborted => (running <=> runs # {})
    BY DEF CommandInv, OneRun, Underway
  <2>4. Commands!Cardinality(runs) = Cardinality(runs)
    BY DEF Commands!Cardinality, Cardinality
  <2> QED BY <2>2, <2>3, <2>4 DEF Commands!BusyWhileRunning
<1>3. Commands!NothingLeft
  BY DEF CommandInv, NothingEarly, AbortEndsCalls, Commands!NothingLeft
<1> QED BY <1>1, <1>2, <1>3 DEF CommandInv

\* For any number of clicks: downloads are typed in turn, the runtime is busy just while a
\* run is under way, and a generation that failed or is disposed of leaves nothing.
THEOREM CommandsAreSound == Spec => []CommandsSound
<1>1. Init => CommandInv
  BY CommandInit DEF Init
<1>2. CommandInv /\ [Next]_vars => CommandInv'
  BY CommandKeeps, StepOfCommands
<1> QED BY <1>1, <1>2, CommandInvSays, PTL DEF Spec

-----------------------------------------------------------------------------
(* The HTTP bridge (HttpBridge).                                            *)

HttpParts == {"headers", "body", "error"}
Fetching == {"waiting", "told", "ending", "dropping"} \cup HttpParts
Telling == Fetching \ {"waiting"}
GuestStates == {"idle", "ok", "failed"} \cup Fetching
Request == [at : {"none", "fetching", "reading"}, id : Nat, total : Nat, sent : Nat]

\* The id of the thread's request or response.
HttpId(t) == IF guest[t] = "waiting" THEN request[t].id ELSE got[t].id

HttpTypes ==
  /\ guest \in [Threads -> GuestStates] /\ request \in [Threads -> Request]
  /\ nextRequestId \in Nat /\ nextRequestId > 0
  /\ aborted \in BOOLEAN /\ disposal \in {"none", "settling", "disposed"}
GotTypes ==
  /\ DOMAIN got = Threads
  /\ \A t \in Threads : /\ got[t].id \in 0..(nextRequestId - 1)
                        /\ got[t].lens \in [HttpParts -> Nat]
                        /\ got[t].read \in [HttpParts -> Nat]
IdsOnce == nextRequestId <= Cardinality({t \in Threads : guest[t] # "idle"}) + 1
WaitsForRequest == \A t \in Threads : request[t].at # "none" <=> guest[t] = "waiting"
IdsBelow ==
  \A t \in Threads : guest[t] \in Fetching => HttpId(t) \in 1..(nextRequestId - 1)
IdsApart ==
  \A t, u \in Threads :
    guest[t] \in Fetching /\ guest[u] \in Fetching /\ HttpId(t) = HttpId(u) => t = u
ResponsesBelow == DOMAIN responses \subseteq 1..(nextRequestId - 1)
ResponsesOfThreads ==
  ~aborted => DOMAIN responses = {got[t].id : t \in {u \in Threads : guest[u] \in Telling}}
\* A part is read in full before the next one, and never further.
PartsRead(t) ==
  /\ \A p \in HttpParts : got[t].read[p] <= got[t].lens[p]
  /\ guest[t] \in {"body", "error", "ending", "ok"} =>
       got[t].read["headers"] = got[t].lens["headers"]
  /\ guest[t] \in {"error", "ending", "ok"} => got[t].read["body"] = got[t].lens["body"]
  /\ guest[t] \in {"ending", "ok"} => got[t].read["error"] = got[t].lens["error"]
  /\ guest[t] = "ok" => got[t].lens["error"] = 0
DisposedEmpty ==
  /\ disposal # "none" => aborted
  /\ disposal = "disposed" => /\ responses = << >>
                              /\ \A t \in Threads : guest[t] # "waiting"

HttpInv == /\ HttpTypes /\ GotTypes /\ IdsOnce /\ WaitsForRequest /\ IdsBelow /\ IdsApart
           /\ ResponsesBelow /\ ResponsesOfThreads /\ DisposedEmpty
           /\ \A t \in Threads : PartsRead(t)

LEMMA HttpFacts ==
  /\ IsFiniteSet(Threads) /\ MaxBody \in Nat /\ MaxChunk \in Nat /\ MaxChunk > 0
  /\ Bodies \subseteq Nat /\ Http!Parts = HttpParts
<1>1. Http!IsFiniteSet(Threads) <=> IsFiniteSet(Threads)
  BY DEF Http!IsFiniteSet, IsFiniteSet
<1> QED BY <1>1, PageAssumption
        DEF PageAssumption, Http!BridgeAssumption, Http!Parts, HttpParts

LEMMA LeastOfTwo ==
  ASSUME NEW a \in Int, NEW b \in Int
  PROVE  /\ Http!Least({a, b}) \in {a, b}
         /\ Http!Least({a, b}) <= a /\ Http!Least({a, b}) <= b
<1>1. \E n \in {a, b} : \A m \in {a, b} : n <= m
  OBVIOUS
<1> QED BY <1>1 DEF Http!Least

LEMMA HttpInit == Http!Init => HttpInv
<1> SUFFICES ASSUME Http!Init PROVE HttpInv
  OBVIOUS
<1> USE HttpFacts DEF Http!Init
<1>1. HttpTypes /\ WaitsForRequest
  <2>1. Http!Idle \in Request /\ Http!Idle.at = "none"
    BY DEF Http!Idle, Request
  <2>2. guest \in [Threads -> GuestStates] /\ request \in [Threads -> Request]
    BY <2>1 DEF GuestStates
  <2>3. WaitsForRequest
    BY <2>1 DEF WaitsForRequest
  <2>4. nextRequestId \in Nat /\ nextRequestId > 0
    OBVIOUS
  <2>5. aborted \in BOOLEAN /\ disposal \in {"none", "settling", "disposed"}
    OBVIOUS
  <2> QED BY <2>2, <2>3, <2>4, <2>5 DEF HttpTypes
<1>2. GotTypes
  BY DEF GotTypes, Http!Nothing, HttpParts
<1>3. IdsOnce
  <2>1. {t \in Threads : guest[t] # "idle"} = {}
    OBVIOUS
  <2> HIDE DEF Http!Init
  <2>2. nextRequestId = 1
    BY DEF Http!Init
  <2> QED BY <2>1, <2>2, FS_EmptySet DEF IdsOnce
<1>4. IdsBelow /\ IdsApart
  BY DEF IdsBelow, IdsApart, Fetching, HttpParts
<1>5. ResponsesBelow /\ ResponsesOfThreads
  <2>1. DOMAIN responses = {}
    OBVIOUS
  <2> QED BY <2>1 DEF ResponsesBelow, ResponsesOfThreads, Telling, Fetching, HttpParts
<1>6. DisposedEmpty
  BY DEF DisposedEmpty
<1>7. \A t \in Threads : PartsRead(t)
  BY DEF PartsRead, Http!Nothing, HttpParts
<1> QED BY <1>1, <1>2, <1>3, <1>4, <1>5, <1>6, <1>7 DEF HttpInv

-----------------------------------------------------------------------------
(* What a step of thread t does.                                            *)

OthersStay(t) ==
  /\ UNCHANGED <<aborted, disposal>>
  /\ guest' \in [Threads -> GuestStates] /\ request' \in [Threads -> Request]
  /\ DOMAIN got' = Threads
  /\ \A u \in Threads \ {t} :
       guest'[u] = guest[u] /\ request'[u] = request[u] /\ got'[u] = got[u]

\* The request fails for the guest without a response.
GivesUp(t) ==
  /\ guest[t] \in {"idle", "waiting"} /\ guest'[t] = "failed"
  /\ request'[t] \in Request /\ request'[t].at = "none"
  /\ UNCHANGED <<responses, got, nextRequestId>>
Asks(t) ==
  /\ guest[t] = "idle" /\ guest'[t] = "waiting" /\ ~aborted
  /\ request'[t] \in Request /\ request'[t].at = "fetching" /\ request'[t].id = nextRequestId
  /\ nextRequestId' = nextRequestId + 1 /\ UNCHANGED <<responses, got>>
GoesOn(t) ==
  /\ guest[t] = "waiting" /\ guest'[t] = "waiting"
  /\ request'[t] \in Request /\ request'[t].at # "none" /\ request'[t].id = request[t].id
  /\ UNCHANGED <<responses, got, nextRequestId>>
IsTold(t) ==
  /\ ~aborted /\ guest'[t] = "told" /\ request'[t] \in Request /\ request'[t].at = "none"
  /\ \/ guest[t] = "waiting" /\ nextRequestId' = nextRequestId /\ got'[t].id = request[t].id
     \/ guest[t] = "idle" /\ nextRequestId' = nextRequestId + 1 /\ got'[t].id = nextRequestId
  /\ DOMAIN responses' = DOMAIN responses \cup {got'[t].id}
  /\ got'[t].lens \in [HttpParts -> Nat] /\ got'[t].read = [p \in HttpParts |-> 0]
  /\ request[t].at = "reading" => got'[t].lens["body"] \in {0, request[t].total}
Reads(t) ==
  /\ guest[t] \in Telling /\ guest'[t] \in Telling \ {"told"}
  /\ got'[t].id = got[t].id /\ got'[t].lens = got[t].lens
  /\ got'[t].read \in [HttpParts -> Nat]
  /\ DOMAIN responses' = DOMAIN responses /\ (aborted => responses' = responses)
  /\ PartsRead(t)'
  /\ UNCHANGED <<request, nextRequestId>>
Finishes(t) ==
  /\ guest[t] \in Telling /\ guest'[t] \in {"ok", "failed"} /\ PartsRead(t)'
  /\ IF aborted THEN responses' = responses
                ELSE DOMAIN responses' = DOMAIN responses \ {got[t].id}
  /\ UNCHANGED <<request, got, nextRequestId>>

LEMMA LengthsFacts ==
  ASSUME NEW h \in Nat, NEW b \in Nat, NEW e \in Nat
  PROVE  Http!Lengths(h, b, e) \in [HttpParts -> Nat] /\ Http!Lengths(h, b, e)["body"] = b
BY DEF Http!Lengths, HttpParts

\* A response is kept and the guest told.
IsKept(t, i, lens) ==
  /\ guest'[t] = "told" /\ guest' \in [Threads -> GuestStates] /\ DOMAIN got' = Threads
  /\ got'[t].id = i /\ got'[t].read = [p \in HttpParts |-> 0] /\ got'[t].lens = lens
  /\ \A u \in Threads \ {t} : guest'[u] = guest[u] /\ got'[u] = got[u]
  /\ DOMAIN responses' = DOMAIN responses \cup {i}
LEMMA KeepFacts ==
  ASSUME HttpInv, NEW t \in Threads, NEW i, NEW lens \in [HttpParts -> Nat],
         Http!Keep(t, i, lens)
  PROVE  IsKept(t, i, lens)
BY HttpFacts
DEF HttpInv, HttpTypes, GotTypes, Http!Keep, Http!Stored, Http!Nothing, GuestStates, Fetching,
    IsKept

LEMMA IdleIsRequest == Http!Idle \in Request /\ Http!Idle.at = "none"
BY DEF Http!Idle, Request

LEMMA StartsAre ==
  ASSUME HttpInv, NEW t \in Threads, Http!Start(t) \/ Http!StartMalformed(t)
  PROVE  OthersStay(t) /\ (GivesUp(t) \/ Asks(t) \/ IsTold(t))
<1>t. /\ guest \in [Threads -> GuestStates] /\ request \in [Threads -> Request]
      /\ nextRequestId \in Nat /\ DOMAIN got = Threads
      /\ guest[t] = "idle" => request[t].at = "none"
  BY DEF HttpInv, HttpTypes, GotTypes, WaitsForRequest
<1>1. CASE Http!Start(t) /\ (aborted \/ Http!Full)
  <2>1. /\ guest' = [guest EXCEPT ![t] = "failed"] /\ guest[t] = "idle"
        /\ UNCHANGED <<request, responses, got, nextRequestId, aborted, disposal>>
    BY <1>1 DEF Http!Start, Http!StartFails
  <2> QED BY <2>1, <1>t DEF OthersStay, GivesUp, GuestStates
<1>2. CASE Http!Start(t) /\ ~ (aborted \/ Http!Full)
  <2> DEFINE r == [Http!Idle EXCEPT !.at = "fetching", !.id = nextRequestId]
  <2>1. /\ guest' = [guest EXCEPT ![t] = "waiting"] /\ guest[t] = "idle" /\ ~aborted
        /\ request' = [request EXCEPT ![t] = r] /\ nextRequestId' = nextRequestId + 1
        /\ UNCHANGED <<responses, got, aborted, disposal>>
    BY <1>2 DEF Http!Start
  <2>2. r \in Request /\ r.at = "fetching" /\ r.id = nextRequestId
    BY <1>t DEF Http!Idle, Request
  <2> HIDE DEF r
  <2> QED BY <2>1, <2>2, <1>t DEF OthersStay, Asks, GuestStates, Fetching
<1>3. CASE Http!StartMalformed(t)
  <2>1. /\ guest[t] = "idle" /\ ~aborted /\ nextRequestId' = nextRequestId + 1
        /\ Http!Keep(t, nextRequestId, Http!Lengths(0, 0, 1))
        /\ UNCHANGED <<request, aborted, disposal>>
    BY <1>3 DEF Http!StartMalformed
  <2>2. Http!Lengths(0, 0, 1) \in [HttpParts -> Nat]
    BY LengthsFacts
  <2>3. IsKept(t, nextRequestId, Http!Lengths(0, 0, 1))
    BY <2>1, <2>2, KeepFacts
  <2> QED BY <2>1, <2>2, <2>3, <1>t DEF OthersStay, IsTold, IsKept
<1> QED BY <1>1, <1>2, <1>3

LEMMA ErrorIs ==
  ASSUME HttpInv, NEW t \in Threads, guest[t] = "waiting", Http!Errs(t),
         UNCHANGED <<nextRequestId, aborted, disposal>>
  PROVE  OthersStay(t) /\ (GivesUp(t) \/ IsTold(t))
<1>t. /\ guest \in [Threads -> GuestStates] /\ request \in [Threads -> Request]
      /\ nextRequestId \in Nat /\ DOMAIN got = Threads
  BY DEF HttpInv, HttpTypes, GotTypes
<1>1. request' = [request EXCEPT ![t] = Http!Idle]
  BY DEF Http!Errs, Http!Settled
<1>2. CASE aborted
  <2>1. guest' = [guest EXCEPT ![t] = "failed"] /\ UNCHANGED <<responses, got>>
    BY <1>2 DEF Http!Errs, Http!StartFails
  <2> QED BY <1>1, <2>1, <1>t, IdleIsRequest DEF OthersStay, GivesUp, GuestStates
<1>3. CASE ~aborted
  <2>1. Http!Keep(t, request[t].id, Http!Lengths(0, 0, 1))
    BY <1>3 DEF Http!Errs
  <2>2. Http!Lengths(0, 0, 1) \in [HttpParts -> Nat] /\ Http!Lengths(0, 0, 1)["body"] = 0
    BY LengthsFacts
  <2>3. IsKept(t, request[t].id, Http!Lengths(0, 0, 1))
    BY <2>1, <2>2, KeepFacts
  <2> QED BY <1>1, <1>3, <2>2, <2>3, <1>t, IdleIsRequest DEF OthersStay, IsTold, IsKept
<1> QED BY <1>2, <1>3

LEMMA NetworkIs ==
  ASSUME HttpInv, NEW t \in Threads, Http!Network(t)
  PROVE  OthersStay(t) /\ (GivesUp(t) \/ IsTold(t) \/ GoesOn(t))
<1> USE HttpFacts
<1>t. /\ guest \in [Threads -> GuestStates] /\ request \in [Threads -> Request]
      /\ nextRequestId \in Nat /\ DOMAIN got = Threads
  BY DEF HttpInv, HttpTypes, GotTypes
<1>r. /\ request[t].at \in {"none", "fetching", "reading"} /\ request[t].id \in Nat
      /\ request[t].total \in Nat /\ request[t].sent \in Nat
  BY <1>t DEF Request
<1>0. /\ request[t].at # "none" /\ guest[t] = "waiting"
      /\ UNCHANGED <<nextRequestId, aborted, disposal>>
  BY DEF HttpInv, WaitsForRequest, Http!Network, Http!FetchResolves, Http!FetchFails,
         Http!ReadStream, Http!StreamEnds
<1>1. CASE Http!Errs(t)
  BY <1>0, <1>1, ErrorIs
<1>2. CASE /\ UNCHANGED <<guest, responses, got>>
           /\ \E r \in Request : /\ request' = [request EXCEPT ![t] = r]
                                 /\ r.at # "none" /\ r.id = request[t].id
  BY <1>0, <1>2, <1>t DEF OthersStay, GoesOn
<1>3. CASE \E n \in Nat : /\ Http!Settled(t) /\ ~aborted
                          /\ Http!Keep(t, request[t].id, Http!Lengths(1, n, 0))
                          /\ n \in {0, request[t].total}
  <2> PICK n \in Nat : /\ Http!Settled(t) /\ ~aborted
                       /\ Http!Keep(t, request[t].id, Http!Lengths(1, n, 0))
                       /\ n \in {0, request[t].total}
    BY <1>3
  <2>1. Http!Lengths(1, n, 0) \in [HttpParts -> Nat] /\ Http!Lengths(1, n, 0)["body"] = n
    BY LengthsFacts
  <2>k. Http!Keep(t, request[t].id, Http!Lengths(1, n, 0))
    OBVIOUS
  <2>2. request' = [request EXCEPT ![t] = Http!Idle]
    BY DEF Http!Settled
  <2>3. IsKept(t, request[t].id, Http!Lengths(1, n, 0))
    BY <2>1, <2>k, KeepFacts
  <2> QED BY <1>0, <2>1, <2>2, <2>3, <1>t, IdleIsRequest DEF OthersStay, IsTold, IsKept
<1>4. CASE Http!FetchResolves(t)
  <2> PICK total \in Bodies, declared \in BOOLEAN :
             IF declared /\ total > MaxBody THEN Http!Errs(t)
             ELSE IF total = 0
             THEN Http!Settled(t) /\ Http!Keep(t, request[t].id, Http!Lengths(1, 0, 0))
             ELSE /\ request' = [request EXCEPT ![t].at = "reading", ![t].total = total]
                  /\ UNCHANGED <<guest, responses, got>>
    BY <1>4 DEF Http!FetchResolves
  <2>0. ~aborted
    BY <1>4 DEF Http!FetchResolves
  <2>1. CASE declared /\ total > MaxBody
    BY <1>1, <2>1
  <2>2. CASE ~ (declared /\ total > MaxBody) /\ total = 0
    BY <1>3, <2>0, <2>2
  <2>3. CASE ~ (declared /\ total > MaxBody) /\ total # 0
    <3> DEFINE r == [request[t] EXCEPT !.at = "reading", !.total = total]
    <3>0. total \in Nat /\ request[t] \in Request
      BY <1>t
    <3>1. r \in Request /\ r.at # "none" /\ r.id = request[t].id
      <4> HIDE HttpFacts
      <4> QED BY <3>0 DEF Request
    <3>2. request' = [request EXCEPT ![t] = r] /\ UNCHANGED <<guest, responses, got>>
      BY <2>3, <1>t
    <3> HIDE DEF r
    <3> QED BY <1>2, <3>1, <3>2
  <2> QED BY <2>1, <2>2, <2>3
<1>5. CASE Http!FetchFails(t)
  BY <1>1, <1>5 DEF Http!FetchFails
<1>6. CASE Http!ReadStream(t)
  <2> PICK n \in 1..(request[t].total - request[t].sent) :
             IF n > MaxBody - request[t].sent THEN Http!Errs(t)
             ELSE /\ request' = [request EXCEPT ![t].sent = @ + n]
                  /\ UNCHANGED <<guest, responses, got>>
    BY <1>6 DEF Http!ReadStream
  <2>1. CASE n > MaxBody - request[t].sent
    BY <1>1, <2>1
  <2>2. CASE ~ (n > MaxBody - request[t].sent)
    <3> DEFINE r == [request[t] EXCEPT !.sent = request[t].sent + n]
    <3>1. request[t].sent + n \in Nat
      BY <1>r
    <3>2. r \in Request /\ r.at = request[t].at /\ r.id = request[t].id
      BY <1>t, <3>1 DEF Request
    <3>3. request' = [request EXCEPT ![t] = r] /\ UNCHANGED <<guest, responses, got>>
      BY <2>2, <1>t
    <3> HIDE DEF r
    <3> QED BY <1>0, <1>2, <3>2, <3>3
  <2> QED BY <2>1, <2>2
<1>7. CASE Http!StreamEnds(t)
  <2>1. CASE aborted
    BY <1>1, <1>7, <2>1 DEF Http!StreamEnds
  <2>2. CASE ~aborted
    <3>1. /\ Http!Settled(t) /\ request[t].sent = request[t].total
          /\ Http!Keep(t, request[t].id, Http!Lengths(1, request[t].sent, 0))
      BY <1>7, <2>2 DEF Http!StreamEnds
    <3> QED BY <1>3, <1>r, <2>2, <3>1
  <2> QED BY <2>1, <2>2
<1> QED BY <1>4, <1>5, <1>6, <1>7 DEF Http!Network

LEMMA GuestIs ==
  ASSUME HttpInv, NEW t \in Threads, Http!Guest(t)
  PROVE  OthersStay(t) /\ (Reads(t) \/ Finishes(t))
<1> USE HttpFacts
<1>t. /\ guest \in [Threads -> GuestStates] /\ request \in [Threads -> Request]
      /\ nextRequestId \in Nat /\ DOMAIN got = Threads
      /\ got[t].lens \in [HttpParts -> Nat] /\ got[t].read \in [HttpParts -> Nat]
      /\ PartsRead(t)
  BY DEF HttpInv, HttpTypes, GotTypes
<1>0. UNCHANGED <<request, nextRequestId, aborted, disposal>>
  BY DEF Http!Guest, Http!Allocated, Http!Unusable, Http!ReadChunk, Http!End
<1>1. CASE Http!Allocated(t) \/ Http!Unusable(t)
  <2>1. /\ guest[t] = "told" /\ UNCHANGED <<got, responses>>
        /\ \E g \in {"headers", "dropping"} : guest' = [guest EXCEPT ![t] = g]
    BY <1>1 DEF Http!Allocated, Http!Unusable
  <2> QED BY <1>0, <1>t, <2>1
          DEF OthersStay, Reads, PartsRead, Telling, Fetching, HttpParts, GuestStates
<1>2. CASE Http!ReadChunk(t)
  <2> DEFINE wanted == Http!Least({MaxChunk, got[t].lens[guest[t]] - got[t].read[guest[t]]})
  <2>0. guest[t] \in HttpParts
    BY <1>2 DEF Http!ReadChunk
  <2>1. got[t].lens[guest[t]] \in Nat /\ got[t].read[guest[t]] \in Nat
        /\ got[t].read[guest[t]] <= got[t].lens[guest[t]]
    BY <1>t, <2>0 DEF PartsRead
  <2>2. /\ wanted \in Nat
        /\ wanted = 0 => got[t].read[guest[t]] = got[t].lens[guest[t]]
        /\ got[t].read[guest[t]] + wanted <= got[t].lens[guest[t]]
    <3> DEFINE left == got[t].lens[guest[t]] - got[t].read[guest[t]]
    <3>1. left \in Nat
      BY <2>1
    <3>2. wanted \in {MaxChunk, left} /\ wanted <= MaxChunk /\ wanted <= left
      <4> HIDE DEF left
      <4>1. left \in Int /\ MaxChunk \in Int
        BY <3>1
      <4> QED BY <4>1, LeastOfTwo DEF left
    <3> HIDE DEF wanted
    <3> QED BY <2>1, <3>1, <3>2
  <2> HIDE DEF wanted
  <2>3. CASE wanted = 0
    <3>1. /\ guest' = [guest EXCEPT ![t] = Http!NextPart[guest[t]]]
          /\ UNCHANGED <<responses, got>>
      BY <1>2, <2>3 DEF Http!ReadChunk, wanted
    <3>2. /\ guest[t] = "headers" => Http!NextPart[guest[t]] = "body"
          /\ guest[t] = "body" => Http!NextPart[guest[t]] = "error"
          /\ guest[t] = "error" => Http!NextPart[guest[t]] = "ending"
      BY DEF Http!NextPart
    <3>3. /\ guest[t] = "headers" => guest'[t] = "body"
          /\ guest[t] = "body" => guest'[t] = "error"
          /\ guest[t] = "error" => guest'[t] = "ending"
          /\ guest'[t] \in {"body", "error", "ending"}
      BY <1>t, <2>0, <3>1, <3>2 DEF HttpParts
    <3>4. PartsRead(t)'
      BY <1>t, <2>0, <2>2, <2>3, <3>1, <3>3 DEF PartsRead, HttpParts
    <3> QED BY <1>0, <1>t, <2>0, <3>1, <3>3, <3>4 DEF OthersStay, Reads, Telling, Fetching, HttpParts, GuestStates
  <2>4. CASE wanted # 0 /\ (aborted \/ got[t].id \notin DOMAIN responses)
    <3>1. guest' = [guest EXCEPT ![t] = "dropping"] /\ UNCHANGED <<responses, got>>
      BY <1>2, <2>4 DEF Http!ReadChunk, wanted
    <3> QED BY <1>0, <1>t, <2>0, <3>1
            DEF OthersStay, Reads, PartsRead, Telling, Fetching, HttpParts, GuestStates
  <2>5. CASE wanted # 0 /\ ~ (aborted \/ got[t].id \notin DOMAIN responses)
    <3>1. DOMAIN responses' = DOMAIN responses /\ ~aborted
      BY <1>2, <2>5 DEF Http!ReadChunk, wanted
    <3>2. CASE guest' = [guest EXCEPT ![t] = "dropping"] /\ UNCHANGED got
      BY <1>0, <1>t, <2>0, <3>1, <3>2
      DEF OthersStay, Reads, PartsRead, Telling, Fetching, HttpParts, GuestStates
    <3>3. CASE /\ got' = [got EXCEPT ![t].read[guest[t]] = @ + wanted]
               /\ UNCHANGED guest
      <4> DEFINE r == [got[t].read EXCEPT ![guest[t]] = got[t].read[guest[t]] + wanted]
      <4>1. r \in [HttpParts -> Nat] /\ \A p \in HttpParts : r[p] <= got[t].lens[p]
        <5>1. got[t].read[guest[t]] + wanted \in Nat
          BY <2>1, <2>2
        <5> QED BY <1>t, <2>0, <2>2, <5>1 DEF PartsRead
      <4>2. \A p \in HttpParts : p # guest[t] => r[p] = got[t].read[p]
        BY <1>t
      <4>3. /\ DOMAIN got' = Threads /\ got'[t].id = got[t].id
            /\ got'[t].lens = got[t].lens /\ got'[t].read = r
            /\ \A u \in Threads \ {t} : got'[u] = got[u]
        BY <1>t, <3>3
      <4> HIDE DEF r
      <4>4. PartsRead(t)'
        BY <1>t, <2>0, <3>3, <4>1, <4>2, <4>3 DEF PartsRead, HttpParts
      <4> QED BY <1>0, <1>t, <2>0, <3>1, <3>3, <4>1, <4>3, <4>4
              DEF OthersStay, Reads, Telling, Fetching, HttpParts, GuestStates
    <3> QED BY <1>2, <2>5, <3>2, <3>3 DEF Http!ReadChunk, wanted
  <2> QED BY <2>3, <2>4, <2>5
<1>3. CASE Http!End(t)
  <2>0. guest[t] \in {"ending", "dropping"} /\ UNCHANGED got
    BY <1>3 DEF Http!End
  <2>1. CASE aborted \/ got[t].id \notin DOMAIN responses
    <3>1. guest' = [guest EXCEPT ![t] = "failed"] /\ UNCHANGED responses
      BY <1>3, <2>1 DEF Http!End
    <3>2. PartsRead(t)' /\ guest'[t] = "failed"
      BY <1>t, <2>0, <3>1 DEF PartsRead
    <3>3. got[t].id \notin DOMAIN responses => DOMAIN responses = DOMAIN responses \ {got[t].id}
      OBVIOUS
    <3> QED BY <1>0, <1>t, <2>0, <2>1, <3>1, <3>2, <3>3
            DEF OthersStay, Finishes, Telling, Fetching, HttpParts, GuestStates
  <2>2. CASE ~ (aborted \/ got[t].id \notin DOMAIN responses)
    <3>1. /\ guest' = [guest EXCEPT ![t] = Http!Outcome(t)]
          /\ DOMAIN responses' = DOMAIN responses \ {got[t].id}
      BY <1>3, <2>2 DEF Http!End, Http!Dropped
    <3>2. /\ guest'[t] \in {"ok", "failed"}
          /\ guest'[t] = "ok" => guest[t] = "ending" /\ got[t].lens["error"] = 0
      BY <1>t, <3>1 DEF Http!Outcome
    <3>3. PartsRead(t)'
      BY <1>t, <2>0, <3>2 DEF PartsRead
    <3> QED BY <1>0, <1>t, <2>0, <2>2, <3>1, <3>2, <3>3
            DEF OthersStay, Finishes, Telling, Fetching, HttpParts, GuestStates
  <2> QED BY <2>1, <2>2
<1> QED BY <1>1, <1>2, <1>3 DEF Http!Guest


-----------------------------------------------------------------------------
(* Such a step keeps the invariant.                                         *)

\* Whose id is whose, after the step.
LEMMA IdsAfter ==
  ASSUME HttpInv, NEW t \in Threads, OthersStay(t),
         \/ GivesUp(t) \/ Asks(t) \/ GoesOn(t) \/ IsTold(t) \/ Reads(t) \/ Finishes(t)
  PROVE  IdsBelow' /\ IdsApart'
<1> DEFINE after(u) == IF guest'[u] = "waiting" THEN request'[u].id ELSE got'[u].id
<1>t. /\ guest \in [Threads -> GuestStates] /\ nextRequestId \in Nat /\ nextRequestId > 0
      /\ \A u \in Threads : /\ guest[u] \in Fetching => HttpId(u) \in 1..(nextRequestId - 1)
                            /\ got[u].id \in 0..(nextRequestId - 1)
  BY DEF HttpInv, HttpTypes, GotTypes, IdsBelow
<1>1. \A u \in Threads \ {t} :
        /\ guest'[u] = guest[u]
        /\ after(u) = HttpId(u)
  BY DEF OthersStay, HttpId
<1>2. \/ guest'[t] \notin Fetching /\ nextRequestId' = nextRequestId
      \/ /\ guest[t] \in Fetching /\ guest'[t] \in Fetching /\ after(t) = HttpId(t)
         /\ nextRequestId' = nextRequestId
      \/ after(t) = nextRequestId /\ nextRequestId' = nextRequestId + 1
  BY DEF GivesUp, Asks, GoesOn, IsTold, Reads, Finishes, HttpId, Fetching, Telling, HttpParts
<1>3. \A u \in Threads : guest'[u] \in Fetching => after(u) \in 1..(nextRequestId' - 1)
  BY <1>t, <1>1, <1>2
<1>4. ASSUME NEW u \in Threads, NEW v \in Threads, guest'[u] \in Fetching,
             guest'[v] \in Fetching, after(u) = after(v)
      PROVE  u = v
  <2>1. \A x, y \in Threads :
          guest[x] \in Fetching /\ guest[y] \in Fetching /\ HttpId(x) = HttpId(y) => x = y
    BY DEF HttpInv, IdsApart
  <2> HIDE DEF after
  <2>2. CASE u # t /\ v # t
    BY <1>1, <1>4, <2>1, <2>2
  <2>3. ASSUME NEW x \in Threads \ {t}, guest'[x] \in Fetching, guest'[t] \in Fetching,
               after(x) = after(t)
        PROVE  FALSE
    <3>1. guest[x] \in Fetching /\ HttpId(x) = after(t) /\ HttpId(x) \in 1..(nextRequestId - 1)
      BY <1>t, <1>1, <2>3
    <3>2. after(t) # nextRequestId
      BY <1>t, <3>1
    <3>3. guest[t] \in Fetching /\ after(t) = HttpId(t)
      BY <1>2, <2>3, <3>2
    <3> QED BY <2>1, <3>1, <3>3
  <2> QED BY <1>4, <2>2, <2>3
<1>5. \A u \in Threads : HttpId(u)' = after(u)
  BY DEF HttpId
<1> QED BY <1>3, <1>4, <1>5 DEF IdsBelow, IdsApart

LEMMA StartedGrows ==
  ASSUME HttpInv, NEW t \in Threads, OthersStay(t),
         \/ GivesUp(t) \/ Asks(t) \/ GoesOn(t) \/ IsTold(t) \/ Reads(t) \/ Finishes(t)
  PROVE  IdsOnce'
<1> DEFINE S == {u \in Threads : guest[u] # "idle"}
           T == {u \in Threads : guest'[u] # "idle"}
<1>1. IsFiniteSet(S) /\ IsFiniteSet(T) /\ Cardinality(S) \in Nat /\ Cardinality(T) \in Nat
  <2>1. S \subseteq Threads /\ T \subseteq Threads
    OBVIOUS
  <2> HIDE DEF S, T
  <2> QED BY <2>1, HttpFacts, FS_Subset, FS_CardinalityType
<1>2. nextRequestId <= Cardinality(S) + 1 /\ nextRequestId \in Nat
  BY DEF HttpInv, HttpTypes, IdsOnce
<1>3. CASE guest[t] # "idle" /\ nextRequestId' = nextRequestId
  <2>1. S \subseteq T
    <3>1. guest'[t] # "idle"
      BY <1>3 DEF GivesUp, Asks, GoesOn, IsTold, Reads, Finishes, Telling, Fetching, HttpParts
    <3> QED BY <3>1 DEF OthersStay
  <2>2. Cardinality(S) <= Cardinality(T)
    <3> HIDE DEF S, T
    <3> QED BY <1>1, <2>1, FS_Subset
  <2> HIDE DEF S, T
  <2>3. nextRequestId' <= Cardinality(T) + 1
    BY <1>1, <1>2, <1>3, <2>2
  <2> QED BY <2>3 DEF IdsOnce, T
<1>4. CASE guest[t] = "idle"
  <2>1. guest'[t] # "idle" /\ nextRequestId' <= nextRequestId + 1
    BY <1>2, <1>4 DEF GivesUp, Asks, GoesOn, IsTold, Reads, Finishes, Telling, Fetching, HttpParts
  <2>2. T = S \cup {t} /\ t \notin S
    BY <1>4, <2>1 DEF OthersStay
  <2>3. Cardinality(T) = Cardinality(S) + 1
    <3> HIDE DEF S, T
    <3> QED BY <1>1, <2>2, FS_AddElement
  <2>n. nextRequestId' \in Int
    BY <1>2 DEF GivesUp, Asks, GoesOn, IsTold, Reads, Finishes
  <2> HIDE DEF S, T
  <2>4. nextRequestId' <= Cardinality(T) + 1
    BY <1>1, <1>2, <2>1, <2>3, <2>n
  <2> QED BY <2>4 DEF IdsOnce, T
<1> QED BY <1>3, <1>4 DEF GivesUp, Asks, GoesOn, IsTold, Reads, Finishes

LEMMA HttpKeepsAt ==
  ASSUME HttpInv, NEW t \in Threads, OthersStay(t),
         \/ GivesUp(t) \/ Asks(t) \/ GoesOn(t) \/ IsTold(t) \/ Reads(t) \/ Finishes(t)
  PROVE  HttpInv'
<1>t. /\ HttpTypes /\ GotTypes /\ WaitsForRequest /\ IdsBelow /\ IdsApart /\ ResponsesBelow
      /\ ResponsesOfThreads /\ DisposedEmpty /\ \A u \in Threads : PartsRead(u)
  BY DEF HttpInv
<1>o. /\ UNCHANGED <<aborted, disposal>>
      /\ guest' \in [Threads -> GuestStates] /\ request' \in [Threads -> Request]
      /\ DOMAIN got' = Threads
      /\ \A u \in Threads \ {t} :
           guest'[u] = guest[u] /\ request'[u] = request[u] /\ got'[u] = got[u]
  BY DEF OthersStay
<1>n. nextRequestId' \in {nextRequestId, nextRequestId + 1} /\ nextRequestId \in Nat
      /\ nextRequestId > 0
  BY <1>t DEF HttpTypes, GivesUp, Asks, GoesOn, IsTold, Reads, Finishes
<1>1. HttpTypes'
  BY <1>t, <1>o, <1>n DEF HttpTypes
<1>2. GotTypes'
  <2>1. /\ got'[t].id \in 0..(nextRequestId' - 1)
        /\ got'[t].lens \in [HttpParts -> Nat] /\ got'[t].read \in [HttpParts -> Nat]
    <3>1. CASE IsTold(t)
      <4>1. guest[t] = "waiting" => request[t].id \in 1..(nextRequestId - 1)
        BY <1>t DEF IdsBelow, HttpId, Fetching
      <4> QED BY <1>n, <3>1, <4>1 DEF IsTold
    <3>2. CASE ~IsTold(t)
      BY <1>t, <1>n, <3>2 DEF GotTypes, GivesUp, Asks, GoesOn, Reads, Finishes
    <3> QED BY <3>1, <3>2
  <2>2. \A u \in Threads \ {t} : got[u].id \in 0..(nextRequestId' - 1)
    BY <1>t, <1>n DEF GotTypes
  <2> QED BY <1>t, <1>o, <2>1, <2>2 DEF GotTypes
<1>3. WaitsForRequest'
  <2>1. request'[t].at # "none" <=> guest'[t] = "waiting"
    BY <1>t DEF WaitsForRequest, GivesUp, Asks, GoesOn, IsTold, Reads, Finishes, Telling, Fetching,
                HttpParts
  <2> QED BY <1>t, <1>o, <2>1 DEF WaitsForRequest
<1>4. IdsBelow' /\ IdsApart' /\ IdsOnce'
  BY IdsAfter, StartedGrows
<1>5. ResponsesBelow'
  <2>1. CASE IsTold(t)
    <3>1. got'[t].id \in 1..(nextRequestId' - 1)
      <4>1. guest[t] = "waiting" => request[t].id \in 1..(nextRequestId - 1)
        BY <1>t DEF IdsBelow, HttpId, Fetching
      <4> QED BY <1>n, <2>1, <4>1 DEF IsTold
    <3>2. DOMAIN responses' = DOMAIN responses \cup {got'[t].id}
      BY <2>1 DEF IsTold
    <3> QED BY <1>t, <1>n, <3>1, <3>2 DEF ResponsesBelow
  <2>2. CASE ~IsTold(t)
    <3>1. DOMAIN responses' \subseteq DOMAIN responses
      BY <2>2 DEF GivesUp, Asks, GoesOn, Reads, Finishes
    <3> QED BY <1>t, <1>n, <3>1 DEF ResponsesBelow
  <2> QED BY <2>1, <2>2
<1>6. ResponsesOfThreads'
  <2> SUFFICES ASSUME ~aborted'
               PROVE  DOMAIN responses' =
                        {got'[u].id : u \in {v \in Threads : guest'[v] \in Telling}}
    BY DEF ResponsesOfThreads
  <2>1. DOMAIN responses = {got[u].id : u \in {v \in Threads : guest[v] \in Telling}} /\ ~aborted
    BY <1>t, <1>o DEF ResponsesOfThreads
  <2>2. CASE GivesUp(t) \/ Asks(t) \/ GoesOn(t)
    <3>1. /\ guest[t] \notin Telling /\ guest'[t] \notin Telling /\ UNCHANGED <<responses, got>>
      BY <2>2 DEF GivesUp, Asks, GoesOn, Telling, Fetching, HttpParts
    <3> QED BY <1>o, <2>1, <3>1
  <2>3. CASE IsTold(t)
    <3>1. /\ guest[t] \notin Telling /\ guest'[t] \in Telling
          /\ DOMAIN responses' = DOMAIN responses \cup {got'[t].id}
      BY <2>3 DEF IsTold, Telling, Fetching, HttpParts
    <3> QED BY <1>o, <2>1, <3>1
  <2>4. CASE Reads(t)
    <3>1. /\ guest[t] \in Telling /\ guest'[t] \in Telling /\ got'[t].id = got[t].id
          /\ DOMAIN responses' = DOMAIN responses
      BY <2>4 DEF Reads
    <3> QED BY <1>o, <2>1, <3>1
  <2>5. CASE Finishes(t)
    <3>1. /\ guest[t] \in Telling /\ guest'[t] \notin Telling /\ got' = got
          /\ DOMAIN responses' = DOMAIN responses \ {got[t].id}
      BY <2>1, <2>5 DEF Finishes, Telling, Fetching, HttpParts
    <3>2. \A u \in Threads \ {t} : guest[u] \in Telling => got[u].id # got[t].id
      BY <1>t, <3>1 DEF IdsApart, HttpId, Telling
    <3> QED BY <1>o, <2>1, <3>1, <3>2
  <2> QED BY <2>2, <2>3, <2>4, <2>5
<1>7. DisposedEmpty'
  <2>1. aborted => UNCHANGED responses /\ (guest'[t] = "waiting" => guest[t] = "waiting")
    BY DEF GivesUp, Asks, GoesOn, IsTold, Reads, Finishes, Telling, Fetching, HttpParts
  <2> QED BY <1>t, <1>o, <2>1 DEF DisposedEmpty
<1>8. \A u \in Threads : PartsRead(u)'
  <2>1. \A u \in Threads \ {t} : PartsRead(u)'
    BY <1>t, <1>o DEF PartsRead
  <2>2. PartsRead(t)'
    <3>1. CASE GivesUp(t) \/ Asks(t) \/ GoesOn(t)
      BY <1>t, <3>1 DEF PartsRead, GivesUp, Asks, GoesOn
    <3>2. CASE IsTold(t)
      BY <3>2 DEF PartsRead, IsTold, HttpParts
    <3>3. CASE Reads(t) \/ Finishes(t)
      BY <3>3 DEF Reads, Finishes
    <3> QED BY <3>1, <3>2, <3>3
  <2> QED BY <2>1, <2>2
<1> QED BY <1>1, <1>2, <1>3, <1>4, <1>5, <1>6, <1>7, <1>8 DEF HttpInv

HttpStepSound ==
  \A t \in Threads :
    /\ guest'[t] = "ok" => got[t].read = got[t].lens /\ got[t].lens.error = 0
    /\ request[t].at = "reading" /\ guest'[t] = "told" =>
         got'[t].lens.body \in {0, request[t].total}

LEMMA WholeNow ==
  ASSUME HttpInv, NEW t \in Threads
  PROVE  /\ guest[t] = "ok" => got[t].read = got[t].lens /\ got[t].lens.error = 0
         /\ ~ (request[t].at = "reading" /\ guest[t] = "told")
<1>1. PartsRead(t) /\ got[t].lens \in [HttpParts -> Nat] /\ got[t].read \in [HttpParts -> Nat]
  BY DEF HttpInv, GotTypes
<1>2. ASSUME guest[t] = "ok" PROVE got[t].read = got[t].lens /\ got[t].lens.error = 0
  <2>1. \A p \in HttpParts : got[t].read[p] = got[t].lens[p]
    BY <1>1, <1>2 DEF PartsRead, HttpParts
  <2>2. got[t].lens.error = 0
    BY <1>1, <1>2 DEF PartsRead
  <2> QED BY <1>1, <2>1, <2>2
<1>3. ~ (request[t].at = "reading" /\ guest[t] = "told")
  BY DEF HttpInv, WaitsForRequest
<1> QED BY <1>2, <1>3

LEMMA HttpKeeps ==
  HttpInv /\ [Http!Next]_(Http!httpVars) => HttpInv' /\ [HttpStepSound]_(Http!httpVars)
<1> SUFFICES ASSUME HttpInv, [Http!Next]_(Http!httpVars)
             PROVE  HttpInv' /\ (HttpStepSound \/ UNCHANGED Http!httpVars)
  OBVIOUS
<1>1. ASSUME NEW t \in Threads,
             \/ Http!Start(t) \/ Http!StartMalformed(t) \/ Http!Network(t) \/ Http!Guest(t)
      PROVE  HttpInv' /\ HttpStepSound
  <2>1. /\ OthersStay(t)
        /\ \/ GivesUp(t) \/ Asks(t) \/ GoesOn(t) \/ IsTold(t) \/ Reads(t) \/ Finishes(t)
    BY <1>1, StartsAre, NetworkIs, GuestIs
  <2>2. HttpInv'
    BY <2>1, HttpKeepsAt
  <2>3. ASSUME NEW u \in Threads
        PROVE  /\ guest'[u] = "ok" => got[u].read = got[u].lens /\ got[u].lens.error = 0
               /\ request[u].at = "reading" /\ guest'[u] = "told" =>
                    got'[u].lens.body \in {0, request[u].total}
    <3>1. CASE u # t
      <4>1. guest'[u] = guest[u]
        BY <2>1, <3>1 DEF OthersStay
      <4> QED BY <4>1, WholeNow
    <3>2. CASE u = t
      <4>1. guest'[t] = "ok" => got'[t].read = got'[t].lens /\ got'[t].lens.error = 0
        <5>1. /\ PartsRead(t)'
              /\ got'[t].lens \in [HttpParts -> Nat] /\ got'[t].read \in [HttpParts -> Nat]
          BY <2>2 DEF HttpInv, GotTypes
        <5> SUFFICES ASSUME guest'[t] = "ok"
                     PROVE  got'[t].read = got'[t].lens /\ got'[t].lens.error = 0
          OBVIOUS
        <5>2. \A p \in HttpParts : got'[t].read[p] = got'[t].lens[p]
          BY <5>1 DEF PartsRead, HttpParts
        <5>3. got'[t].lens.error = 0
          BY <5>1 DEF PartsRead
        <5> QED BY <5>1, <5>2, <5>3
      <4>2. guest'[t] = "ok" => got' = got
        BY <2>1 DEF GivesUp, Asks, GoesOn, IsTold, Reads, Finishes, Telling, Fetching, HttpParts
      <4>3. request[t].at = "reading" /\ guest'[t] = "told" =>
              got'[t].lens.body \in {0, request[t].total}
        BY <2>1 DEF GivesUp, Asks, GoesOn, IsTold, Reads, Finishes, Telling, Fetching, HttpParts
      <4> QED BY <3>2, <4>1, <4>2, <4>3
    <3> QED BY <3>1, <3>2
  <2> QED BY <2>2, <2>3 DEF HttpStepSound
<1>2. CASE Http!Abort \/ Http!Dispose \/ Http!Disposed
  <2>1. /\ UNCHANGED <<guest, request, nextRequestId, got>> /\ aborted' \in BOOLEAN
        /\ disposal' \in {"none", "settling", "disposed"} /\ (aborted => aborted')
        /\ responses' = responses \/ (responses' = << >> /\ disposal = "settling")
        /\ aborted' # aborted => aborted'
    BY <1>2 DEF Http!Abort, Http!Dispose, Http!Disposed, HttpInv, HttpTypes
  <2>2. HttpTypes' /\ GotTypes' /\ IdsOnce' /\ WaitsForRequest' /\ IdsBelow' /\ IdsApart'
    BY <2>1 DEF HttpInv, HttpTypes, GotTypes, IdsOnce, WaitsForRequest, IdsBelow, IdsApart, HttpId
  <2>3. DOMAIN responses' \subseteq DOMAIN responses
    <3>1. responses' = << >> => DOMAIN responses' = {}
      OBVIOUS
    <3> QED BY <2>1, <3>1
  <2>4. ResponsesBelow'
    BY <2>1, <2>3 DEF HttpInv, ResponsesBelow
  <2>5. ResponsesOfThreads'
    BY <2>1 DEF HttpInv, ResponsesOfThreads, DisposedEmpty
  <2>6. DisposedEmpty'
    <3>1. CASE Http!Abort \/ Http!Dispose
      BY <3>1 DEF Http!Abort, Http!Dispose, HttpInv, DisposedEmpty
    <3>2. CASE Http!Disposed
      <4>1. \A t \in Threads : guest[t] # "waiting"
        BY <3>2 DEF Http!Disposed, Http!Pending, HttpInv, WaitsForRequest
      <4> QED BY <3>2, <4>1 DEF Http!Disposed, HttpInv, DisposedEmpty
    <3> QED BY <1>2, <3>1, <3>2
  <2>7. \A t \in Threads : PartsRead(t)'
    BY <2>1 DEF HttpInv, PartsRead
  <2>8. HttpStepSound
    BY <2>1, WholeNow DEF HttpStepSound
  <2> QED BY <2>2, <2>4, <2>5, <2>6, <2>7, <2>8 DEF HttpInv
<1>3. CASE UNCHANGED Http!httpVars
  BY <1>3
  DEF Http!httpVars, HttpInv, HttpTypes, GotTypes, IdsOnce, WaitsForRequest, IdsBelow,
      IdsApart, HttpId, ResponsesBelow, ResponsesOfThreads, DisposedEmpty, PartsRead
<1> QED BY <1>1, <1>2, <1>3 DEF Http!Next

LEMMA StepOfHttp == [Next]_vars => [Http!Next]_(Http!httpVars)
  BY DEF Next, vars, httpVars, Http!httpVars, HttpStep, DownloadStep, TerminalStep,
         CommandsStep, GesturesStep, PageStep, FilesStep, SourceStep

LEMMA HttpInvSays ==
  HttpInv => Http!TypeOK /\ Http!EveryResponseIsEnded /\ Http!NothingAfterDispose
<1> SUFFICES ASSUME HttpInv
             PROVE  Http!TypeOK /\ Http!EveryResponseIsEnded /\ Http!NothingAfterDispose
  OBVIOUS
<1> USE HttpFacts
<1>t. HttpTypes /\ GotTypes /\ ResponsesBelow /\ IdsOnce
  BY DEF HttpInv
<1>c. Http!Cardinality(Threads) = Cardinality(Threads)
  BY DEF Http!Cardinality, Cardinality
<1>1. nextRequestId <= Cardinality(Threads) + 1 /\ Cardinality(Threads) \in Nat
  <2> DEFINE S == {t \in Threads : guest[t] # "idle"}
  <2>1. S \subseteq Threads
    OBVIOUS
  <2> HIDE DEF S
  <2>2. /\ Cardinality(S) <= Cardinality(Threads) /\ Cardinality(S) \in Nat
        /\ Cardinality(Threads) \in Nat
    BY <2>1, FS_Subset, FS_CardinalityType
  <2>3. nextRequestId <= Cardinality(S) + 1 /\ nextRequestId \in Nat
    BY <1>t DEF IdsOnce, HttpTypes, S
  <2> QED BY <2>2, <2>3
<1>2. Http!TypeOK
  <2>1. guest \in [Threads -> {"idle", "waiting", "told", "ending", "dropping", "ok", "failed"}
                                \cup Http!Parts]
    BY <1>t DEF HttpTypes, GuestStates, Fetching, HttpParts
  <2>2. \A t \in Threads : request[t].at \in {"none", "fetching", "reading"}
    BY <1>t DEF HttpTypes, Request
  <2>3. \A i \in DOMAIN responses : i \in 1..Cardinality(Threads)
    BY <1>t, <1>1 DEF ResponsesBelow, HttpTypes
  <2>4. nextRequestId \in 1..(Cardinality(Threads) + 1)
    BY <1>t, <1>1 DEF HttpTypes
  <2>5. \A t \in Threads : got[t].id \in 0..Cardinality(Threads)
    BY <1>t, <1>1 DEF GotTypes, HttpTypes
  <2> QED BY <1>t, <1>c, <2>1, <2>2, <2>3, <2>4, <2>5 DEF Http!TypeOK, HttpTypes
<1>3. Http!EveryResponseIsEnded
  <2>1. Telling = {"told", "ending", "dropping"} \cup Http!Parts
    BY DEF Telling, Fetching, HttpParts
  <2> QED BY <2>1 DEF HttpInv, ResponsesOfThreads, Http!EveryResponseIsEnded
<1>4. Http!NothingAfterDispose
  BY DEF HttpInv, DisposedEmpty, WaitsForRequest, Http!NothingAfterDispose, Http!Pending
<1> QED BY <1>2, <1>3, <1>4

\* For any threads, limits and bodies: every retained response has a thread that will end
\* it, a fetch that succeeds has read a whole response, and a disposal leaves nothing.
THEOREM HttpIsSound == Spec => HttpSound
<1>1. Init => HttpInv
  BY HttpInit DEF Init
<1>2. HttpInv /\ [Next]_vars => HttpInv' /\ [HttpStepSound]_(Http!httpVars)
  BY HttpKeeps, StepOfHttp
<1>3. HttpInv =>
        (part = "http" =>
           Http!TypeOK /\ Http!EveryResponseIsEnded /\ Http!NothingAfterDispose)
  BY HttpInvSays
<1> QED BY <1>1, <1>2, <1>3, PTL DEF Spec, HttpSound, Http!WholeResponses, HttpStepSound

-----------------------------------------------------------------------------
(* The page's tree of the workspace (Workspace).                            *)

\* Nothing is below a node that is no directory, nor below a second level.
LeafNodes ==
  \A i \in Files!Nodes : kind[i] # "dir" => \A n \in Names : entries[i][n] = Files!Nothing
Shallow ==
  \A n, m, k \in Names :
    entries[0][n] # Files!Nothing /\ entries[entries[0][n]][m] # Files!Nothing =>
      entries[entries[entries[0][n]][m]][k] = Files!Nothing
\* A free node is nowhere, and no node is in two places, not even a removed one.
FreeNodes ==
  \A i \in Files!Nodes : kind[i] = "free" =>
    i \notin removed /\ \A m \in Files!Inodes, n \in Names : entries[m][n] # i
OneSlot ==
  \A i, j \in Files!Inodes, n, m \in Names :
    entries[i][n] = entries[j][m] /\ entries[i][n] # Files!Nothing => i = j /\ n = m
\* What is neither free nor removed can be reached.
Reached(i) ==
  \/ \E n \in Names : entries[0][n] = i
  \/ \E n, m \in Names : entries[0][n] # Files!Nothing /\ entries[entries[0][n]][m] = i
Placed == \A i \in Files!Nodes : kind[i] # "free" /\ i \notin removed => Reached(i)

TreeTypes ==
  /\ kind \in [Files!Inodes -> {"free", "file", "dir"}] /\ kind[0] = "dir"
  /\ entries \in [Files!Inodes -> [Names -> Files!Nodes \union {Files!Nothing}]]
  /\ data \in [Files!Inodes -> 0..MaxDocumentWrites]
  /\ handle \in Files!Nodes \union {Files!Nothing}
  /\ removed \subseteq Files!Nodes
TreeInv == TreeTypes /\ LeafNodes /\ Shallow /\ FreeNodes /\ OneSlot /\ Placed

\* The beginnings of a sequence.
LEMMA FirstOf ==
  ASSUME NEW S, NEW s \in Seq(S), Len(s) >= 1
  PROVE  SubSeq(s, 1, 1) = <<s[1]>>
<1>1. SubSeq(s, 1, 1) \in Seq(S) /\ Len(SubSeq(s, 1, 1)) = 1 /\ SubSeq(s, 1, 1)[1] = s[1]
  OBVIOUS
<1>2. <<s[1]>> \in Seq(S) /\ Len(<<s[1]>>) = 1 /\ <<s[1]>>[1] = s[1]
  OBVIOUS
<1>3. \A i \in 1..Len(SubSeq(s, 1, 1)) : SubSeq(s, 1, 1)[i] = <<s[1]>>[i]
  BY <1>1, <1>2
<1> QED BY <1>1, <1>2, <1>3, SeqEqual, Zenon

LEMMA AllOf ==
  ASSUME NEW S, NEW s \in Seq(S)
  PROVE  SubSeq(s, 1, Len(s)) = s
<1>1. /\ SubSeq(s, 1, Len(s)) \in Seq(S) /\ Len(SubSeq(s, 1, Len(s))) = Len(s)
      /\ \A i \in 1..Len(s) : SubSeq(s, 1, Len(s))[i] = s[i]
  OBVIOUS
<1> QED BY <1>1, SeqEqual

LEMMA FilesFacts ==
  /\ MaxNodes \in Nat /\ MaxDocumentWrites \in Nat
  /\ Files!Nothing = MaxNodes + 1 /\ Files!Root = 0 /\ Files!Nodes = 1..MaxNodes
  /\ Files!Inodes = Files!Nodes \union {0} /\ Files!Nothing \notin Files!Inodes
  /\ 0 \notin Files!Nodes
  /\ \E n, m \in Names : Document = <<n, m>> /\ Files!Directory = <<n>>
<1>1. Files!WorkspaceAssumption
  BY PageAssumption DEF PageAssumption
<1>2. PICK n \in Names, m \in Names : Document = <<n, m>>
  BY <1>1 DEF Files!WorkspaceAssumption
<1>3. Files!Directory = <<n>>
  <2>1. Document \in Seq(Names) /\ Len(Document) = 2 /\ Document[1] = n
    BY <1>2
  <2> QED BY <2>1, FirstOf DEF Files!Directory
<1> QED BY <1>1, <1>2, <1>3 DEF Files!WorkspaceAssumption, Files!Nothing, Files!Root, Files!Nodes, Files!Inodes

LEMMA PathIs ==
  ASSUME NEW p \in Files!Paths
  PROVE  \/ p[1] \in Names /\ p = <<p[1]>> /\ Len(p) = 1
         \/ p[1] \in Names /\ p[2] \in Names /\ p = <<p[1], p[2]>> /\ Len(p) = 2
  BY DEF Files!Paths

LEMMA PathsAre == \A n, m \in Names : <<n>> \in Files!Paths /\ <<n, m>> \in Files!Paths
  BY DEF Files!Paths

LEMMA UnderIs ==
  ASSUME NEW p \in Files!Paths, NEW q \in Files!Paths
  PROVE  q \in Files!Under(p) <=> q = p \/ (Len(p) = 1 /\ Len(q) = 2 /\ q[1] = p[1])
<1>0. p \in Seq(Names) /\ q \in Seq(Names)
  <2>1. \A n, m \in Names : <<n>> \in Seq(Names) /\ <<n, m>> \in Seq(Names)
    OBVIOUS
  <2> QED BY <2>1, PathIs
<1>1. CASE Len(q) < Len(p)
  <2>1. Len(q) = 1 /\ Len(p) = 2
    BY <1>1, PathIs
  <2>2. Len(SubSeq(q, 1, 1)) = 1
    BY <1>0, <2>1
  <2>3. SubSeq(q, 1, 1) # p
    BY <2>1, <2>2
  <2>4. (IF Len(q) < Len(p) THEN Len(q) ELSE Len(p)) = 1
    BY <2>1
  <2>5. q \in Files!Under(p) => SubSeq(q, 1, 1) = p
    BY <2>4 DEF Files!Under
  <2> QED BY <2>1, <2>3, <2>5
<1>2. CASE Len(p) = 1
  <2>1. SubSeq(q, 1, 1) = <<q[1]>>
    BY <1>0, FirstOf, PathIs
  <2>2. q[1] \in Names /\ p = <<p[1]>> /\ p[1] \in Names
    BY <1>2, PathIs
  <2>3. <<q[1]>> = <<p[1]>> <=> q[1] = p[1]
    BY <2>2
  <2>4. Len(q) = 1 => (q = p <=> q[1] = p[1])
    BY <2>2, PathIs
  <2>5. ~(Len(q) < Len(p)) /\ Len(q) \in {1, 2}
    BY <1>2, PathIs
  <2>6. q \in Files!Under(p) <=> SubSeq(q, 1, 1) = p
    BY <1>2, <2>5 DEF Files!Under
  <2>7. Len(q) = 2 => q # p
    BY <1>2
  <2> QED BY <1>2, <2>1, <2>2, <2>3, <2>4, <2>5, <2>6, <2>7
<1>3. CASE Len(p) = 2 /\ Len(q) = 2
  <2>1. SubSeq(q, 1, 2) = q
    BY <1>0, <1>3, AllOf
  <2> QED BY <1>3, <2>1 DEF Files!Under
<1> QED BY <1>1, <1>2, <1>3, PathIs

LEMMA NodeIs ==
  /\ \A n \in Names : /\ Files!Node(<<n>>) = entries[0][n]
                      /\ Files!Parent(<<n>>) = 0 /\ Files!Name(<<n>>) = n
  /\ \A n, m \in Names :
       /\ Files!Node(<<n, m>>) = IF entries[0][n] # Files!Nothing THEN entries[entries[0][n]][m]
                                 ELSE Files!Nothing
       /\ Files!Parent(<<n, m>>) = entries[0][n] /\ Files!Name(<<n, m>>) = m
  BY DEF Files!Node, Files!Parent, Files!Name, Files!Root

LEMMA NodeIsNext ==
  /\ \A n \in Names : Files!Node(<<n>>)' = entries'[0][n]
  /\ \A n, m \in Names :
       Files!Node(<<n, m>>)' =
         IF entries'[0][n] # Files!Nothing THEN entries'[entries'[0][n]][m] ELSE Files!Nothing
  BY DEF Files!Node, Files!Root, Files!Nothing

\* A slot of the tree is changed.
LEMMA SlotChanges ==
  ASSUME TreeTypes, NEW a \in Files!Inodes, NEW x \in Names, NEW v,
         entries' = [entries EXCEPT ![a][x] = v]
  PROVE  \A i \in Files!Inodes, n \in Names :
           entries'[i][n] = IF i = a /\ n = x THEN v ELSE entries[i][n]
  BY DEF TreeTypes

\* A path in a directory is a slot of it, and the directory is the root or in the root.
TopLevel(i) == i = 0 \/ \E n \in Names : entries[0][n] = i

LEMMA SlotOf ==
  ASSUME TreeTypes, NEW p \in Files!Paths, Files!IsDirectory(Files!Parent(p))
  PROVE  /\ Files!Parent(p) \in Files!Inodes /\ Files!Name(p) \in Names
         /\ kind[Files!Parent(p)] = "dir" /\ TopLevel(Files!Parent(p))
         /\ Files!Node(p) = entries[Files!Parent(p)][Files!Name(p)]
         /\ Files!Node(p) \in Files!Nodes \union {Files!Nothing}
         /\ Len(p) = 1 => Files!Parent(p) = 0
         /\ Len(p) = 2 => Files!Parent(p) # 0
<1>1. CASE p[1] \in Names /\ p = <<p[1]>> /\ Len(p) = 1
  <2>1. Files!Node(p) = entries[0][p[1]] /\ Files!Parent(p) = 0 /\ Files!Name(p) = p[1]
    BY <1>1, NodeIs
  <2> QED BY <1>1, <2>1, FilesFacts DEF TreeTypes, TopLevel
<1>2. CASE p[1] \in Names /\ p[2] \in Names /\ p = <<p[1], p[2]>> /\ Len(p) = 2
  <2>1. /\ Files!Node(p) = IF entries[0][p[1]] # Files!Nothing THEN entries[entries[0][p[1]]][p[2]]
                           ELSE Files!Nothing
        /\ Files!Parent(p) = entries[0][p[1]] /\ Files!Name(p) = p[2]
    BY <1>2, NodeIs
  <2>2. entries[0][p[1]] # Files!Nothing /\ kind[entries[0][p[1]]] = "dir"
    BY <2>1 DEF Files!IsDirectory
  <2>3. entries[0][p[1]] \in Files!Nodes
    BY <1>2, <2>2, FilesFacts DEF TreeTypes
  <2> QED BY <1>2, <2>1, <2>2, <2>3, FilesFacts DEF TreeTypes, TopLevel
<1> QED BY <1>1, <1>2, PathIs

\* Entries lead to nodes.
LEMMA EntryIs ==
  ASSUME TreeTypes
  PROVE  \A i \in Files!Inodes, n \in Names :
           entries[i][n] = Files!Nothing \/ entries[i][n] \in Files!Nodes
  BY DEF TreeTypes

\* A free node is put where there was none.
LEMMA Adds ==
  ASSUME TreeInv, NEW a \in Files!Inodes, NEW x \in Names, kind[a] = "dir", TopLevel(a),
         entries[a][x] = Files!Nothing, NEW f \in Files!Nodes, kind[f] = "free",
         NEW k \in {"file", "dir"}, kind' = [kind EXCEPT ![f] = k],
         entries' = [entries EXCEPT ![a][x] = f], removed' = removed,
         data' \in [Files!Inodes -> 0..MaxDocumentWrites],
         handle' \in Files!Nodes \union {Files!Nothing}
  PROVE  TreeInv' /\ \A n \in Names : entries'[f][n] = Files!Nothing
<1> USE DEF TreeInv
<1>1. /\ \A i \in Files!Inodes, n \in Names :
           entries'[i][n] = IF i = a /\ n = x THEN f ELSE entries[i][n]
      /\ \A i \in Files!Inodes : kind'[i] = IF i = f THEN k ELSE kind[i]
  BY SlotChanges DEF TreeTypes
<1>2. f \in Files!Inodes /\ a # f /\ f # Files!Nothing /\ f # 0 /\ 0 \in Files!Inodes
  BY FilesFacts
<1>3. TreeTypes'
  BY <1>2 DEF TreeTypes
<1>4. \A n \in Names : entries[f][n] = Files!Nothing /\ entries'[f][n] = Files!Nothing
  BY <1>1, <1>2 DEF LeafNodes
<1>5. \A i \in Files!Inodes, n \in Names : entries[i][n] # f
  BY DEF FreeNodes
<1>6. LeafNodes'
  BY <1>1, <1>2, <1>4, FilesFacts DEF LeafNodes
<1>7. Shallow'
  <2> SUFFICES ASSUME NEW n \in Names, NEW m \in Names, NEW j \in Names,
                      entries'[0][n] # Files!Nothing, entries'[entries'[0][n]][m] # Files!Nothing
               PROVE  entries'[entries'[entries'[0][n]][m]][j] = Files!Nothing
    BY DEF Shallow
  <2> DEFINE u == entries'[0][n]
             w == entries'[u][m]
  <2>1. u \in Files!Nodes
    BY <1>2, <1>3 DEF TreeTypes
  <2>2. w \in Files!Nodes
    BY <1>2, <1>3, <2>1, FilesFacts, SMTT(30) DEF TreeTypes
  <2>0. u = entries'[0][n] /\ w = entries'[u][m]
    OBVIOUS
  <2> HIDE DEF u, w
  <2> SUFFICES entries'[w][j] = Files!Nothing
    BY <2>0
  <2>3. CASE w = f
    BY <1>4, <2>3
  <2>4. CASE w # f
    <3>1. u # f /\ entries[u][m] = w
      BY <1>1, <1>4, <2>0, <2>1, <2>2, <2>4, FilesFacts, SMTT(30)
    <3>2. entries[0][n] = u
      BY <1>1, <1>2, <2>0, <3>1
    <3>3. entries[w][j] = Files!Nothing
      BY <2>1, <2>2, <3>1, <3>2, FilesFacts DEF Shallow
    <3>4. w # a
      BY <2>1, <2>2, <3>1, <3>2, FilesFacts DEF TopLevel, OneSlot
    <3> QED BY <1>1, <2>2, <3>3, <3>4, FilesFacts
  <2> QED BY <2>3, <2>4
<1>8. FreeNodes'
  BY <1>1, <1>2, <1>5 DEF FreeNodes
<1>9. OneSlot'
  BY <1>1, <1>5 DEF OneSlot
<1>10. Placed'
  <2>1. \A i \in Files!Inodes, n \in Names : entries[i][n] # Files!Nothing =>
          entries'[i][n] = entries[i][n]
    BY <1>1
  <2>2. \A n \in Names : entries[0][n] # Files!Nothing => entries[0][n] \in Files!Inodes
    BY <1>2, FilesFacts DEF TreeTypes
  <2>3. ASSUME NEW i \in Files!Nodes, Reached(i) PROVE Reached(i)'
    <3>1. i # Files!Nothing
      BY FilesFacts
    <3>2. CASE \E n \in Names : entries[0][n] = i
      <4>1. PICK n \in Names : entries[0][n] = i
        BY <3>2
      <4>2. entries'[0][n] = i
        BY <1>2, <2>1, <3>1, <4>1
      <4> QED BY <4>2 DEF Reached
    <3>3. CASE \E n, m \in Names : entries[0][n] # Files!Nothing /\ entries[entries[0][n]][m] = i
      <4>1. PICK n \in Names, m \in Names :
              entries[0][n] # Files!Nothing /\ entries[entries[0][n]][m] = i
        BY <3>3
      <4>2. entries'[0][n] = entries[0][n]
        BY <1>2, <2>1, <4>1
      <4>3. entries'[entries[0][n]][m] = i
        BY <2>1, <2>2, <3>1, <4>1
      <4> QED BY <4>1, <4>2, <4>3 DEF Reached
    <3> QED BY <2>3, <3>2, <3>3 DEF Reached
  <2>4. Reached(f)'
    BY <1>1, <1>2, <2>1, <2>2, FilesFacts DEF Reached, TopLevel
  <2> QED BY <1>1, <2>3, <2>4, FilesFacts DEF Placed
<1> QED BY <1>3, <1>4, <1>6, <1>7, <1>8, <1>9, <1>10

\* A node is taken out of its slot, and is removed with what is in it.
LEMMA Removes ==
  ASSUME TreeInv, NEW a \in Files!Inodes, NEW x \in Names, kind[a] = "dir", TopLevel(a),
         entries[a][x] # Files!Nothing, kind' = kind,
         entries' = [entries EXCEPT ![a][x] = Files!Nothing], NEW R,
         \A n \in Names : entries[entries[a][x]][n] # Files!Nothing =>
                             entries[entries[a][x]][n] \in R,
         entries[a][x] \in R, R \subseteq Files!Nodes, removed' = removed \union R,
         \A i \in R : kind[i] # "free",
         data' = data, handle' = handle
  PROVE  TreeInv'
<1> USE DEF TreeInv
<1>1. \A i \in Files!Inodes, n \in Names :
        entries'[i][n] = IF i = a /\ n = x THEN Files!Nothing ELSE entries[i][n]
  BY SlotChanges DEF TreeTypes
<1>2. TreeTypes'
  BY DEF TreeTypes
<1>3. LeafNodes'
  BY <1>1, FilesFacts DEF LeafNodes
<1>4. Shallow'
  <2>1. \A i \in Files!Inodes, n \in Names : entries'[i][n] # Files!Nothing =>
          entries'[i][n] = entries[i][n] /\ entries[i][n] \in Files!Inodes
    BY <1>1, EntryIs, FilesFacts
  <2>2. \A n, m, j \in Names :
          entries[0][n] # Files!Nothing /\ entries[entries[0][n]][m] # Files!Nothing =>
            entries'[entries[entries[0][n]][m]][j] = Files!Nothing
    <3> SUFFICES ASSUME NEW n \in Names, NEW m \in Names, NEW j \in Names,
                        entries[0][n] # Files!Nothing,
                        entries[entries[0][n]][m] # Files!Nothing
                 PROVE  entries'[entries[entries[0][n]][m]][j] = Files!Nothing
      OBVIOUS
    <3>1. PICK u \in Files!Inodes : u = entries[0][n]
      BY EntryIs, FilesFacts
    <3>2. PICK w \in Files!Inodes : w = entries[u][m]
      BY <3>1, EntryIs, FilesFacts
    <3>3. entries[w][j] = Files!Nothing
      BY <3>1, <3>2 DEF Shallow
    <3> QED BY <1>1, <3>1, <3>2, <3>3
  <2> QED BY <2>1, <2>2, FilesFacts DEF Shallow
<1>5. FreeNodes' /\ OneSlot'
  BY <1>1, FilesFacts DEF FreeNodes, OneSlot
<1>6. Placed'
  <2> SUFFICES ASSUME NEW i \in Files!Nodes, kind[i] # "free", i \notin removed, i \notin R
               PROVE  Reached(i)'
    BY DEF Placed
  <2>1. CASE \E n \in Names : entries[0][n] = i
    BY <1>1, <2>1, FilesFacts DEF Reached
  <2>2. ASSUME NEW n \in Names, NEW m \in Names, entries[0][n] # Files!Nothing,
               entries[entries[0][n]][m] = i
        PROVE  Reached(i)'
    <3>1. (entries[0][n] \in Files!Inodes /\ entries[0][n] # entries[a][x]) \/ i \in R
      BY <2>2, EntryIs, FilesFacts
    <3>2. entries'[0][n] = entries[0][n]
      BY <1>1, <3>1, FilesFacts
    <3>3. entries'[entries[0][n]][m] = i
      BY <1>1, <2>2, <3>1, FilesFacts, EntryIs
    <3> QED BY <2>2, <3>2, <3>3 DEF Reached
  <2> QED BY <2>1, <2>2 DEF Placed, Reached
<1> QED BY <1>2, <1>3, <1>4, <1>5, <1>6

\* A node goes from one slot to another, whose node is removed.
LEMMA MovesNode ==
  ASSUME TreeInv, NEW a \in Files!Inodes, NEW x \in Names, TopLevel(a),
         NEW b \in Files!Inodes, NEW y \in Names, kind[b] = "dir", TopLevel(b),
         NEW u \in Files!Nodes, u = entries[a][x], NEW v, v = entries[b][y], v # u,
         b # u,
         b = 0 \/ \A n \in Names : entries[u][n] = Files!Nothing,
         v # Files!Nothing => \A n \in Names : entries[v][n] = Files!Nothing,
         kind' = kind, data' = data, handle' = handle,
         entries' \in [Files!Inodes -> [Names -> Files!Nodes \union {Files!Nothing}]],
         \A i \in Files!Inodes, n \in Names :
           entries'[i][n] = IF i = a /\ n = x THEN Files!Nothing
                            ELSE IF i = b /\ n = y THEN u ELSE entries[i][n],
         removed' = removed \union ({v} \ {Files!Nothing})
  PROVE  TreeInv'
<1> USE DEF TreeInv
<1>0. /\ 0 \in Files!Inodes /\ u \in Files!Inodes /\ u # Files!Nothing /\ u # 0
      /\ ~(a = b /\ x = y)
      /\ v # Files!Nothing => v \in Files!Nodes
  BY FilesFacts, EntryIs
<1>1. \A i \in Files!Inodes, n \in Names :
        entries'[i][n] = IF i = a /\ n = x THEN Files!Nothing
                         ELSE IF i = b /\ n = y THEN u ELSE entries[i][n]
  OBVIOUS
<1>2. TreeTypes'
  BY <1>0 DEF TreeTypes
<1>3. LeafNodes'
  <2> SUFFICES ASSUME NEW i \in Files!Nodes, kind[i] # "dir", NEW n \in Names
               PROVE  entries'[i][n] = Files!Nothing
    BY DEF LeafNodes
  <2>1. i \in Files!Inodes /\ i # b /\ entries[i][n] = Files!Nothing
    BY FilesFacts DEF LeafNodes
  <2> QED BY <1>1, <2>1
<1>4. OneSlot'
  BY <1>0, <1>1 DEF OneSlot
<1>5. \A i \in Files!Nodes, j \in Files!Inodes, n \in Names :
        entries[j][n] = i => kind[i] # "free"
  BY DEF FreeNodes
<1>6. FreeNodes'
  <2> SUFFICES ASSUME NEW i \in Files!Nodes, kind[i] = "free"
               PROVE  i \notin removed' /\ \A m \in Files!Inodes, n \in Names : entries'[m][n] # i
    BY DEF FreeNodes
  <2>1. i # u /\ i # v /\ i # Files!Nothing
    BY <1>0, <1>5, FilesFacts
  <2>2. i \notin removed
    BY DEF FreeNodes
  <2> QED BY <1>1, <1>5, <2>1, <2>2
<1>7. Shallow'
  <2> SUFFICES ASSUME NEW n \in Names, NEW m \in Names, NEW j \in Names,
                      entries'[0][n] # Files!Nothing, entries'[entries'[0][n]][m] # Files!Nothing
               PROVE  entries'[entries'[entries'[0][n]][m]][j] = Files!Nothing
    BY DEF Shallow
  <2>1. PICK s \in Files!Nodes : s = entries'[0][n]
    BY <1>0, <1>2 DEF TreeTypes
  <2>2. PICK t \in Files!Nodes : t = entries'[s][m]
    BY <1>0, <1>2, <2>1, FilesFacts DEF TreeTypes
  <2>3. s \in Files!Inodes /\ t \in Files!Inodes /\ s # 0 /\ t # 0 /\ s # Files!Nothing
        /\ t # Files!Nothing
    BY FilesFacts
  <2>4. CASE b = 0 /\ n = y
    <3>1. s = u
      BY <1>1, <1>0, <2>1, <2>3, <2>4
    <3>2. t = entries[u][m]
      BY <1>1, <2>2, <2>3, <2>4, <3>1
    <3>3. a = 0
      <4> SUFFICES ASSUME NEW k \in Names, a = entries[0][k] PROVE FALSE
        BY DEF TopLevel
      <4>1. entries[0][k] # Files!Nothing /\ entries[entries[0][k]][x] # Files!Nothing
        BY <1>0, FilesFacts
      <4>2. entries[entries[entries[0][k]][x]][m] = Files!Nothing
        BY <4>1, SMTT(30) DEF Shallow
      <4> QED BY <2>3, <3>2, <4>2
    <3>4. entries[t][j] = Files!Nothing
      BY <1>0, <2>3, <3>2, <3>3 DEF Shallow
    <3> QED BY <1>1, <2>1, <2>2, <2>3, <2>4, <3>4
  <2>5. CASE ~(b = 0 /\ n = y)
    <3>1. s = entries[0][n]
      BY <1>0, <1>1, <2>1, <2>3, <2>5
    <3>2. CASE s = b /\ m = y
      <4>1. t = u /\ b # 0
        BY <1>1, <2>2, <2>3, <3>2
      <4> QED BY <1>0, <1>1, <2>1, <2>2, <2>3, <4>1
    <3>3. CASE ~(s = b /\ m = y)
      <4>1. t = entries[s][m]
        BY <1>1, <2>2, <2>3, <3>3
      <4>2. entries[t][j] = Files!Nothing
        BY <2>3, <3>1, <4>1 DEF Shallow
      <4>3. t # b
        BY <1>0, <2>3, <3>1, <4>1 DEF TopLevel, OneSlot
      <4> QED BY <1>1, <2>1, <2>2, <2>3, <4>2, <4>3
    <3> QED BY <3>2, <3>3
  <2> QED BY <2>4, <2>5
<1>8. Placed'
  <2> SUFFICES ASSUME NEW i \in Files!Nodes, kind[i] # "free", i \notin removed, i # v
               PROVE  Reached(i)'
    BY FilesFacts DEF Placed
  <2>1. CASE i = u
    <3>1. CASE b = 0
      BY <1>0, <1>1, <2>1, <3>1 DEF Reached
    <3>2. CASE b # 0
      <4>1. PICK k \in Names : entries[0][k] = b
        BY <3>2 DEF TopLevel
      <4>2. entries'[0][k] = b
        BY <1>0, <1>1, <3>2, <4>1
      <4>3. entries'[b][y] = u
        BY <1>0, <1>1
      <4> QED BY <2>1, <4>2, <4>3, FilesFacts DEF Reached
    <3> QED BY <3>1, <3>2
  <2>2. ASSUME NEW n \in Names, entries[0][n] = i, i # u PROVE Reached(i)'
    BY <1>0, <1>1, <2>2 DEF Reached
  <2>3. ASSUME NEW n \in Names, NEW m \in Names, NEW s \in Files!Nodes, s = entries[0][n],
               entries[s][m] = i, i # u
        PROVE  Reached(i)'
    <3>1. entries'[s][m] = i /\ s \in Files!Inodes /\ s # Files!Nothing /\ i # Files!Nothing
      BY <1>1, <2>3, FilesFacts, SMTT(30)
    <3>2. CASE a = 0 /\ n = x
      <4>1. s = u /\ b = 0
        BY <2>3, <3>1, <3>2
      <4>2. entries'[0][y] = s
        BY <1>0, <1>1, <4>1
      <4> QED BY <3>1, <4>2 DEF Reached
    <3>3. CASE b = 0 /\ n = y
      BY <2>3, <3>1, <3>3
    <3>4. CASE ~(a = 0 /\ n = x) /\ ~(b = 0 /\ n = y)
      <4>1. entries'[0][n] = s
        BY <1>0, <1>1, <2>3, <3>4
      <4> QED BY <3>1, <4>1 DEF Reached
    <3> QED BY <3>2, <3>3, <3>4
  <2>4. \A n \in Names : entries[0][n] # Files!Nothing => entries[0][n] \in Files!Nodes
    BY <1>0, EntryIs
  <2>5. Reached(i)
    BY DEF Placed
  <2> QED BY <2>1, <2>2, <2>3, <2>4, <2>5 DEF Reached
<1> QED BY <1>2, <1>3, <1>4, <1>6, <1>7, <1>8

\* Changing the slot of a path changes what is at the paths under it, and only that.
LEMMA OtherNodes ==
  ASSUME TreeInv, NEW p \in Files!Paths, Files!IsDirectory(Files!Parent(p)), NEW v,
         entries' = [entries EXCEPT ![Files!Parent(p)][Files!Name(p)] = v]
  PROVE  \A q \in Files!Paths : q \notin Files!Under(p) => Files!Node(q)' = Files!Node(q)
<1>1. /\ Files!Parent(p) \in Files!Inodes /\ Files!Name(p) \in Names
      /\ Len(p) = 1 => Files!Parent(p) = 0
      /\ Len(p) = 2 => Files!Parent(p) # 0
  BY SlotOf DEF TreeInv
<1>2. \A i \in Files!Inodes, n \in Names :
        entries'[i][n] = IF i = Files!Parent(p) /\ n = Files!Name(p) THEN v ELSE entries[i][n]
  <2>1. PICK a \in Files!Inodes, x \in Names : a = Files!Parent(p) /\ x = Files!Name(p)
    BY <1>1
  <2>2. entries' = [entries EXCEPT ![a][x] = v]
    BY <2>1
  <2>3. \A i \in Files!Inodes, n \in Names :
          entries'[i][n] = IF i = a /\ n = x THEN v ELSE entries[i][n]
    BY <2>2 DEF TreeInv, TreeTypes
  <2> QED BY <2>1, <2>3
<1> SUFFICES ASSUME NEW q \in Files!Paths, q \notin Files!Under(p)
             PROVE  Files!Node(q)' = Files!Node(q)
  OBVIOUS
<1>3. CASE p[1] \in Names /\ p = <<p[1]>> /\ Len(p) = 1
  <2>1. q[1] # p[1]
    BY <1>3, PathIs, UnderIs
  <2>2. Files!Parent(p) = 0 /\ Files!Name(p) = p[1]
    BY <1>3, NodeIs
  <2>3. q[1] \in Names /\ entries'[0][q[1]] = entries[0][q[1]]
    BY <1>2, <2>1, <2>2, PathIs, FilesFacts
  <2>4. CASE q = <<q[1]>>
    BY <2>3, <2>4, NodeIs, NodeIsNext
  <2>5. CASE q[2] \in Names /\ q = <<q[1], q[2]>>
    <3>1. /\ Files!Node(q) = IF entries[0][q[1]] # Files!Nothing THEN entries[entries[0][q[1]]][q[2]]
                             ELSE Files!Nothing
          /\ Files!Node(q)' = IF entries'[0][q[1]] # Files!Nothing
                              THEN entries'[entries'[0][q[1]]][q[2]] ELSE Files!Nothing
      BY <2>3, <2>5, NodeIs, NodeIsNext
    <3>2. CASE entries[0][q[1]] = Files!Nothing
      BY <2>3, <3>1, <3>2
    <3>3. CASE entries[0][q[1]] # Files!Nothing
      <4>1. PICK s \in Files!Nodes : s = entries[0][q[1]]
        BY <2>3, <3>3, EntryIs, FilesFacts DEF TreeInv
      <4>2. entries'[s][q[2]] = entries[s][q[2]]
        BY <1>2, <2>2, <2>5, <4>1, FilesFacts
      <4> QED BY <2>3, <3>1, <4>1, <4>2
    <3> QED BY <3>2, <3>3
  <2> QED BY <2>4, <2>5, PathIs
<1>4. CASE p[1] \in Names /\ p[2] \in Names /\ p = <<p[1], p[2]>> /\ Len(p) = 2
  <2>1. Files!Parent(p) = entries[0][p[1]] /\ Files!Name(p) = p[2] /\ Files!Parent(p) # 0
    BY <1>1, <1>4, NodeIs
  <2>2. \A n \in Names : entries'[0][n] = entries[0][n]
    BY <1>2, <2>1, FilesFacts
  <2>3. CASE q[1] \in Names /\ q = <<q[1]>>
    BY <2>2, <2>3, NodeIs, NodeIsNext
  <2>4. CASE q[1] \in Names /\ q[2] \in Names /\ q = <<q[1], q[2]>>
    <3>1. /\ Files!Node(q) = IF entries[0][q[1]] # Files!Nothing THEN entries[entries[0][q[1]]][q[2]]
                             ELSE Files!Nothing
          /\ Files!Node(q)' = IF entries'[0][q[1]] # Files!Nothing
                              THEN entries'[entries'[0][q[1]]][q[2]] ELSE Files!Nothing
      BY <2>4, NodeIs, NodeIsNext
    <3>2. CASE entries[0][q[1]] = Files!Nothing
      BY <2>2, <2>4, <3>1, <3>2
    <3>3. CASE entries[0][q[1]] # Files!Nothing
      <4>1. PICK s \in Files!Nodes : s = entries[0][q[1]]
        BY <2>4, <3>3, EntryIs, FilesFacts DEF TreeInv
      <4>2. q # p
        BY UnderIs
      <4>3. ~(s = Files!Parent(p) /\ q[2] = p[2])
        <5>1. SUFFICES ASSUME s = Files!Parent(p), q[2] = p[2] PROVE FALSE
          OBVIOUS
        <5>2. q[1] = p[1]
          BY <1>4, <2>1, <2>4, <4>1, <5>1, FilesFacts, ZenonT(30) DEF TreeInv, OneSlot
        <5> QED BY <1>4, <2>4, <4>2, <5>1, <5>2
      <4>4. entries'[s][q[2]] = entries[s][q[2]]
        BY <1>2, <2>1, <2>4, <4>1, <4>3, FilesFacts
      <4> QED BY <2>2, <2>4, <3>1, <4>1, <4>4
    <3> QED BY <3>2, <3>3
  <2> QED BY <2>3, <2>4, PathIs
<1> QED BY <1>3, <1>4, PathIs

LEMMA FreeIs ==
  ASSUME Files!HasFree
  PROVE  Files!Free \in Files!Nodes /\ kind[Files!Free] = "free"
  BY DEF Files!HasFree, Files!Free

\* A new file or directory is made at a path where there is nothing.
LEMMA Creates ==
  ASSUME TreeInv, NEW p \in Files!Paths, Files!IsDirectory(Files!Parent(p)),
         Files!Node(p) = Files!Nothing, Files!HasFree, NEW k \in {"file", "dir"},
         kind' = [kind EXCEPT ![Files!Free] = k], Files!Put(p, Files!Free), removed' = removed,
         data' \in [Files!Inodes -> 0..MaxDocumentWrites],
         handle' \in Files!Nodes \union {Files!Nothing}
  PROVE  /\ TreeInv'
         /\ \A q \in Files!Paths : q \notin Files!Under(p) => Files!Node(q)' = Files!Node(q)
<1>1. /\ Files!Parent(p) \in Files!Inodes /\ Files!Name(p) \in Names
      /\ kind[Files!Parent(p)] = "dir" /\ TopLevel(Files!Parent(p))
      /\ entries[Files!Parent(p)][Files!Name(p)] = Files!Nothing
  BY SlotOf DEF TreeInv
<1>2. Files!Free \in Files!Nodes /\ kind[Files!Free] = "free"
  BY FreeIs
<1>3. entries' = [entries EXCEPT ![Files!Parent(p)][Files!Name(p)] = Files!Free]
  BY DEF Files!Put
<1>4. TreeInv'
  BY <1>1, <1>2, <1>3, Adds
<1> QED BY <1>1, <1>3, <1>4, OtherNodes DEF TreeInv

\* What is at a path goes, with what is below it.
LEMMA Unlinks ==
  ASSUME TreeInv, NEW p \in Files!Paths, Files!IsDirectory(Files!Parent(p)),
         Files!Node(p) # Files!Nothing, Files!Put(p, Files!Nothing),
         kind' = kind, data' = data, handle' = handle,
         removed' = removed \union Files!Inside(Files!Node(p))
  PROVE  /\ TreeInv'
         /\ \A q \in Files!Paths : q \notin Files!Under(p) => Files!Node(q)' = Files!Node(q)
         /\ \A q \in Files!Under(p) : q \in Files!Paths => Files!Node(q)' = Files!Nothing
<1>1. /\ Files!Parent(p) \in Files!Inodes /\ Files!Name(p) \in Names
      /\ kind[Files!Parent(p)] = "dir" /\ TopLevel(Files!Parent(p))
      /\ Files!Node(p) = entries[Files!Parent(p)][Files!Name(p)]
      /\ Files!Node(p) \in Files!Nodes
      /\ Len(p) = 1 => Files!Parent(p) = 0
  BY SlotOf, FilesFacts DEF TreeInv
<1>2. entries' = [entries EXCEPT ![Files!Parent(p)][Files!Name(p)] = Files!Nothing]
  BY DEF Files!Put
<1> DEFINE i == Files!Node(p)
           R == Files!Inside(i)
<1>3. /\ \A n \in Names : entries[i][n] # Files!Nothing => entries[i][n] \in R
      /\ i \in R /\ R \subseteq Files!Nodes /\ \A j \in R : kind[j] # "free"
  <2> HIDE DEF i
  <2>1. i \in Files!Nodes /\ i \in Files!Inodes /\ i # Files!Nothing
    BY <1>1, FilesFacts DEF i
  <2>2. \A j \in Files!Nodes : kind[j] = "free" =>
          j # i /\ \A n \in Names : entries[i][n] # j
    BY <1>1, <2>1 DEF TreeInv, FreeNodes, i
  <2>3. ~Files!IsDirectory(i) => \A n \in Names : entries[i][n] = Files!Nothing
    BY <2>1 DEF TreeInv, LeafNodes, Files!IsDirectory
  <2>4. \A n \in Names : entries[i][n] = Files!Nothing \/ entries[i][n] \in Files!Nodes
    BY <2>1, EntryIs DEF TreeInv
  <2>5. \A j : j \in R <=> j = i \/ (Files!IsDirectory(i) /\
            \E n \in Names : entries[i][n] = j /\ j # Files!Nothing)
    BY DEF R, Files!Inside
  <2> HIDE DEF R
  <2> QED BY <2>1, <2>2, <2>3, <2>4, <2>5
<1>4. TreeInv'
  <2> HIDE DEF R
  <2>1. PICK a \in Files!Inodes, x \in Names : a = Files!Parent(p) /\ x = Files!Name(p)
    BY <1>1
  <2>2. /\ kind[a] = "dir" /\ TopLevel(a) /\ entries[a][x] # Files!Nothing /\ entries[a][x] = i
        /\ entries' = [entries EXCEPT ![a][x] = Files!Nothing]
        /\ removed' = removed \union R
    BY <1>1, <1>2, <2>1, FilesFacts DEF R
  <2> HIDE DEF i
  <2> QED BY <1>3, <2>2, Removes
<1>5. \A q \in Files!Paths : q \notin Files!Under(p) => Files!Node(q)' = Files!Node(q)
  BY <1>2, OtherNodes
<1>6. ASSUME NEW q \in Files!Paths, q \in Files!Under(p) PROVE Files!Node(q)' = Files!Nothing
  <2>1. entries'[Files!Parent(p)][Files!Name(p)] = Files!Nothing
    BY <1>1, <1>2 DEF TreeInv, TreeTypes
  <2>2. CASE Len(p) = 1
    <3>1. p = <<p[1]>> /\ p[1] \in Names
      BY <2>2, PathIs
    <3>2. Files!Parent(p) = 0 /\ Files!Name(p) = p[1] /\ q[1] = p[1]
      BY <1>6, <3>1, NodeIs, UnderIs
    <3> QED BY <2>1, <3>1, <3>2, PathIs, NodeIsNext
  <2>3. CASE Len(p) = 2
    <3>1. p = <<p[1], p[2]>> /\ p[1] \in Names /\ p[2] \in Names /\ q = p
      BY <1>6, <2>3, PathIs, UnderIs
    <3>2. Files!Parent(p) = entries[0][p[1]] /\ Files!Name(p) = p[2] /\ Files!Parent(p) # 0
      BY <2>3, <3>1, NodeIs, SlotOf DEF TreeInv
    <3>3. entries'[0][p[1]] = entries[0][p[1]]
      BY <1>1, <1>2, <3>1, <3>2, FilesFacts DEF TreeInv, TreeTypes
    <3> QED BY <2>1, <3>1, <3>2, <3>3, NodeIsNext
  <2> QED BY <2>2, <2>3, PathIs
<1> QED BY <1>4, <1>5, <1>6

\* A slot is one path's.
LEMMA OnePath ==
  ASSUME TreeInv, NEW p \in Files!Paths, NEW q \in Files!Paths,
         Files!IsDirectory(Files!Parent(p)),
         Files!Parent(p) = Files!Parent(q), Files!Name(p) = Files!Name(q)
  PROVE  p = q
<1>1. CASE Len(p) = 1 /\ Len(q) = 1
  <2>1. p = <<p[1]>> /\ q = <<q[1]>> /\ p[1] \in Names /\ q[1] \in Names
    BY <1>1, PathIs
  <2>2. Files!Name(p) = p[1] /\ Files!Name(q) = q[1]
    BY <2>1, NodeIs
  <2> QED BY <2>1, <2>2
<1>2. CASE Len(p) = 2 /\ Len(q) = 2
  <2>1. /\ p = <<p[1], p[2]>> /\ p[1] \in Names /\ p[2] \in Names
        /\ q = <<q[1], q[2]>> /\ q[1] \in Names /\ q[2] \in Names
    BY <1>2, PathIs
  <2>2. /\ Files!Name(p) = p[2] /\ Files!Name(q) = q[2]
        /\ Files!Parent(p) = entries[0][p[1]] /\ Files!Parent(q) = entries[0][q[1]]
    BY <2>1, NodeIs
  <2>3. p[1] = q[1]
    BY <2>1, <2>2, FilesFacts, ZenonT(30) DEF TreeInv, OneSlot, Files!IsDirectory
  <2> QED BY <2>1, <2>2, <2>3
<1>3. Files!IsDirectory(Files!Parent(q))
  OBVIOUS
<1> QED BY <1>1, <1>2, <1>3, PathIs, SlotOf DEF TreeInv

LEMMA Renames ==
  ASSUME TreeInv, NEW p \in Files!Paths, NEW q \in Files!Paths, Files!Rename(p, q)
  PROVE  /\ TreeInv'
         /\ \A r \in Files!Paths :
              /\ r \notin Files!Under(p) \union Files!Under(q) => Files!Node(r)' = Files!Node(r)
              /\ r \in Files!Under(p) /\ r \notin Files!Under(q) => Files!Node(r)' = Files!Nothing
<1>0. /\ Files!IsDirectory(Files!Parent(p)) /\ Files!IsDirectory(Files!Parent(q))
      /\ Files!Node(p) # Files!Nothing /\ q \notin Files!Under(p)
      /\ Files!Movable(p, q) /\ Files!Replaces(p, q)
      /\ kind' = kind /\ data' = data /\ handle' = handle
      /\ removed' = removed \union ({Files!Node(q)} \ {Files!Nothing})
  BY DEF Files!Rename, Files!Moves
<1>1. PICK a \in Files!Inodes, x \in Names, u \in Files!Nodes :
        a = Files!Parent(p) /\ x = Files!Name(p) /\ u = Files!Node(p) /\ u = entries[a][x]
  BY <1>0, SlotOf DEF TreeInv
<1>2. PICK b \in Files!Inodes, y \in Names, v \in Files!Nodes \union {Files!Nothing} :
        b = Files!Parent(q) /\ y = Files!Name(q) /\ v = Files!Node(q) /\ v = entries[b][y]
  BY <1>0, SlotOf DEF TreeInv
<1>3. /\ TopLevel(a) /\ TopLevel(b) /\ kind[a] = "dir" /\ kind[b] = "dir"
      /\ (Len(p) = 1 <=> a = 0) /\ (Len(q) = 1 <=> b = 0)
  BY <1>0, <1>1, <1>2, SlotOf, PathIs DEF TreeInv
<1>4. ~(a = b /\ x = y)
  BY <1>0, <1>1, <1>2, OnePath, UnderIs
<1>5. v # u
  BY <1>1, <1>2, <1>4, FilesFacts DEF TreeInv, OneSlot
<1>6. b # u
  <2> SUFFICES ASSUME b = u PROVE FALSE
    OBVIOUS
  <2>1. b # 0 /\ Len(q) = 2
    BY <1>3, FilesFacts, PathIs
  <2>2. q[1] \in Names /\ q[2] \in Names /\ q = <<q[1], q[2]>>
    BY <2>1, PathIs
  <2>3. b = entries[0][q[1]]
    BY <1>2, <2>2, NodeIs
  <2>4. a = 0 /\ x = q[1]
    BY <1>1, <2>2, <2>3, FilesFacts DEF TreeInv, OneSlot
  <2>5. Len(p) = 1 /\ p = <<p[1]>> /\ p[1] \in Names
    BY <1>3, <2>4, PathIs
  <2>6. p[1] = q[1]
    BY <1>1, <2>4, <2>5, NodeIs
  <2> QED BY <1>0, <2>1, <2>5, <2>6, UnderIs
<1>7. u \in Files!Inodes /\ u # Files!Nothing /\ 0 \in Files!Inodes /\ Files!Nothing \notin Files!Inodes
  BY FilesFacts
<1>8. b = 0 \/ \A n \in Names : entries[u][n] = Files!Nothing
  BY <1>0, <1>1, <1>3, <1>7, FilesFacts
  DEF Files!Movable, Files!IsDirectory, Files!IsEmpty, Files!Empty, TreeInv, LeafNodes
<1>9. v # Files!Nothing => \A n \in Names : entries[v][n] = Files!Nothing
  <2> SUFFICES ASSUME v # Files!Nothing PROVE \A n \in Names : entries[v][n] = Files!Nothing
    OBVIOUS
  <2>1. Files!IsDirectory(v) => Files!IsEmpty(v)
    BY <1>0, <1>2 DEF Files!Replaces
  <2>2. CASE kind[v] = "dir"
    BY <2>1, <2>2 DEF Files!IsDirectory, Files!IsEmpty, Files!Empty
  <2>3. CASE kind[v] # "dir"
    BY <2>3 DEF TreeInv, LeafNodes
  <2> QED BY <2>2, <2>3
<1>10. entries' = [[entries EXCEPT ![b][y] = u] EXCEPT ![a][x] = Files!Nothing]
  BY <1>1, <1>2 DEF Files!Rename, Files!Moves
<1>11. /\ entries' \in [Files!Inodes -> [Names -> Files!Nodes \union {Files!Nothing}]]
       /\ \A i \in Files!Inodes, n \in Names :
            entries'[i][n] = IF i = a /\ n = x THEN Files!Nothing
                             ELSE IF i = b /\ n = y THEN u ELSE entries[i][n]
  BY <1>10 DEF TreeInv, TreeTypes
<1>12. TreeInv'
  <2>1. removed' = removed \union ({v} \ {Files!Nothing})
    BY <1>0, <1>2
  <2> QED BY <1>0, <1>1, <1>2, <1>3, <1>5, <1>6, <1>8, <1>9, <1>11, <2>1, MovesNode
<1>13. v # a
  BY <1>1, <1>7, <1>9
<1>14. \A n \in Names : /\ a = 0 /\ x = n <=> p = <<n>>
                        /\ b = 0 /\ y = n <=> q = <<n>>
  <2>1. ASSUME NEW r \in Files!Paths, NEW n \in Names
        PROVE  Len(r) = 1 /\ Files!Name(r) = n <=> r = <<n>>
    BY PathIs, NodeIs
  <2> QED BY <1>1, <1>2, <1>3, <2>1
<1>15. \A n, m \in Names : entries[0][n] # Files!Nothing =>
         /\ a = entries[0][n] /\ x = m => p = <<n, m>>
         /\ b = entries[0][n] /\ y = m => q = <<n, m>>
  <2> SUFFICES ASSUME NEW n \in Names, NEW m \in Names, entries[0][n] # Files!Nothing
               PROVE  /\ a = entries[0][n] /\ x = m => p = <<n, m>>
                      /\ b = entries[0][n] /\ y = m => q = <<n, m>>
    OBVIOUS
  <2>1. <<n, m>> \in Files!Paths /\ Files!Parent(<<n, m>>) = entries[0][n] /\ Files!Name(<<n, m>>) = m
    BY PathsAre, NodeIs
  <2> QED BY <1>0, <1>1, <1>2, <2>1, OnePath
<1>16. ASSUME NEW r \in Files!Paths, r \notin Files!Under(p), r \notin Files!Under(q)
       PROVE  Files!Node(r)' = Files!Node(r)
  <2>1. r[1] \in Names /\ r # p /\ r # q /\ (Len(r) = 2 => p # <<r[1]>> /\ q # <<r[1]>>)
        /\ (Len(r) = 1 => r = <<r[1]>>)
    BY <1>16, UnderIs, PathIs
  <2>2. p # <<r[1]>> /\ q # <<r[1]>>
    BY <2>1, PathIs
  <2>3. entries'[0][r[1]] = entries[0][r[1]]
    BY <1>7, <1>11, <1>14, <2>1, <2>2
  <2>4. CASE r = <<r[1]>>
    BY <2>1, <2>3, <2>4, NodeIs, NodeIsNext
  <2>5. CASE r[2] \in Names /\ r = <<r[1], r[2]>>
    <3>1. /\ Files!Node(r) = IF entries[0][r[1]] # Files!Nothing THEN entries[entries[0][r[1]]][r[2]]
                             ELSE Files!Nothing
          /\ Files!Node(r)' = IF entries'[0][r[1]] # Files!Nothing
                              THEN entries'[entries'[0][r[1]]][r[2]] ELSE Files!Nothing
      BY <2>1, <2>5, NodeIs, NodeIsNext
    <3>2. CASE entries[0][r[1]] = Files!Nothing
      BY <2>3, <3>1, <3>2
    <3>3. CASE entries[0][r[1]] # Files!Nothing
      <4>1. PICK s \in Files!Inodes : s = entries[0][r[1]]
        BY <1>7, <2>1, <3>3, EntryIs, FilesFacts DEF TreeInv
      <4>2. ~(s = a /\ r[2] = x) /\ ~(s = b /\ r[2] = y)
        BY <1>15, <2>1, <2>5, <3>3, <4>1
      <4>3. entries'[s][r[2]] = entries[s][r[2]]
        BY <1>11, <2>5, <4>2
      <4> QED BY <2>3, <3>1, <4>1, <4>3
    <3> QED BY <3>2, <3>3
  <2> QED BY <2>4, <2>5, PathIs
<1>17. ASSUME NEW r \in Files!Paths, r \in Files!Under(p), r \notin Files!Under(q)
       PROVE  Files!Node(r)' = Files!Nothing
  <2>1. CASE p[1] \in Names /\ p = <<p[1]>> /\ Len(p) = 1
    <3>1. r[1] = p[1]
      BY <1>17, <2>1, UnderIs
    <3>2. entries'[0][p[1]] = Files!Nothing
      BY <1>7, <1>11, <1>14, <2>1
    <3> QED BY <2>1, <3>1, <3>2, PathIs, NodeIsNext
  <2>2. CASE p[1] \in Names /\ p[2] \in Names /\ p = <<p[1], p[2]>> /\ Len(p) = 2
    <3>1. r = p /\ a = entries[0][p[1]] /\ x = p[2] /\ a # 0
      BY <1>1, <1>3, <1>17, <2>2, UnderIs, NodeIs
    <3>2. ~(b = 0 /\ y = p[1])
      BY <1>2, <1>13, <2>2, <3>1
    <3>3. entries'[0][p[1]] = entries[0][p[1]]
      BY <1>7, <1>11, <2>2, <3>1, <3>2
    <3>4. entries'[a][x] = Files!Nothing
      BY <1>11
    <3> QED BY <1>7, <2>2, <3>1, <3>3, <3>4, NodeIsNext
  <2> QED BY <2>1, <2>2, PathIs
<1> QED BY <1>12, <1>16, <1>17

\* The tree is left as it is.
LEMMA TreeStays ==
  ASSUME TreeInv, kind' = kind, entries' = entries, removed' = removed,
         data' \in [Files!Inodes -> 0..MaxDocumentWrites],
         handle' \in Files!Nodes \union {Files!Nothing}
  PROVE  TreeInv' /\ \A q \in Files!Paths : Files!Node(q)' = Files!Node(q)
<1>1. TreeTypes' /\ LeafNodes' /\ Shallow' /\ FreeNodes' /\ OneSlot'
  BY DEF TreeInv, TreeTypes, LeafNodes, Shallow, FreeNodes, OneSlot
<1>2. Placed'
  BY DEF TreeInv, Placed, Reached
<1>3. \A q \in Files!Paths : Files!Node(q)' = Files!Node(q)
  BY DEF Files!Node
<1> QED BY <1>1, <1>2, <1>3 DEF TreeInv

\* writeFile() changes what is at its path, and nothing else.
LEMMA BytesWrites ==
  ASSUME TreeInv, NEW p \in Files!Paths, NEW w \in 0..MaxDocumentWrites, Files!Bytes(p, w),
         removed' = removed, handle' = handle
  PROVE  /\ TreeInv'
         /\ \A q \in Files!Paths : q \notin Files!Under(p) => Files!Node(q)' = Files!Node(q)
<1>1. Files!IsDirectory(Files!Parent(p))
  BY DEF Files!Bytes
<1>2. handle' \in Files!Nodes \union {Files!Nothing}
  BY DEF TreeInv, TreeTypes
<1>3. CASE Files!Node(p) # Files!Nothing
  <2>1. kind' = kind /\ entries' = entries /\ data' = [data EXCEPT ![Files!Node(p)] = w]
    BY <1>3 DEF Files!Bytes
  <2>2. data' \in [Files!Inodes -> 0..MaxDocumentWrites]
    BY <2>1 DEF TreeInv, TreeTypes
  <2> QED BY <1>2, <2>1, <2>2, TreeStays
<1>4. CASE Files!Node(p) = Files!Nothing
  <2>1. /\ Files!HasFree /\ kind' = [kind EXCEPT ![Files!Free] = "file"]
        /\ Files!Put(p, Files!Free) /\ data' = [data EXCEPT ![Files!Free] = w]
    BY <1>4 DEF Files!Bytes
  <2>2. data' \in [Files!Inodes -> 0..MaxDocumentWrites]
    BY <2>1 DEF TreeInv, TreeTypes
  <2> QED BY <1>1, <1>2, <1>4, <2>1, <2>2, Creates
<1> QED BY <1>3, <1>4

\* What the editor is told of.
Told == known \subseteq Files!Paths /\ quiet \subseteq Files!Paths /\ Files!EventsTellTheTree

LEMMA PresentIs ==
  /\ \A q \in Files!Paths : q \in Files!Present <=> Files!Node(q) # Files!Nothing
  /\ \A q \in Files!Paths : q \in Files!Present' <=> Files!Node(q)' # Files!Nothing
  /\ Files!Present \subseteq Files!Paths /\ Files!Present' \subseteq Files!Paths
  /\ \A p : Files!Under(p) \subseteq Files!Paths
  BY DEF Files!Present, Files!Under, Files!Nothing, Files!Paths

LEMMA ToldAdded ==
  ASSUME Told, NEW p \in Files!Paths, Files!Added(p),
         \A q \in Files!Paths : q \notin Files!Under(p) => Files!Node(q)' = Files!Node(q)
  PROVE  Told'
  BY PresentIs DEF Told, Files!Added, Files!EventsTellTheTree, Files!Paths

LEMMA ToldDeleted ==
  ASSUME Told, NEW p \in Files!Paths, Files!Deleted(p),
         \A q \in Files!Paths : q \notin Files!Under(p) => Files!Node(q)' = Files!Node(q),
         \A q \in Files!Under(p) : q \in Files!Paths => Files!Node(q)' = Files!Nothing
  PROVE  Told'
  BY PresentIs DEF Told, Files!Deleted, Files!EventsTellTheTree, Files!Paths

LEMMA ToldMoves ==
  ASSUME Told, NEW p \in Files!Paths, NEW q \in Files!Paths, Files!Moves(p, q),
         \A r \in Files!Paths :
           /\ r \notin Files!Under(p) \union Files!Under(q) => Files!Node(r)' = Files!Node(r)
           /\ r \in Files!Under(p) /\ r \notin Files!Under(q) => Files!Node(r)' = Files!Nothing
  PROVE  Told'
<1>1. /\ known' = (known \ (Files!Under(p) \union Files!Under(q)))
                   \union {r \in Files!Under(q) : r \in Files!Present'}
      /\ quiet' = quiet \ (Files!Under(p) \union Files!Under(q))
  BY DEF Files!Moves
<1> QED BY <1>1, PresentIs DEF Told, Files!EventsTellTheTree, Files!Paths

LEMMA ToldUntold ==
  ASSUME Told, Files!Untold
  PROVE  Told'
  BY PresentIs DEF Told, Files!Untold, Files!EventsTellTheTree, Files!Paths

LEMMA ToldStays ==
  ASSUME Told, known' = known, quiet' = quiet,
         \A q \in Files!Paths : Files!Node(q)' = Files!Node(q)
  PROVE  Told'
  BY PresentIs DEF Told, Files!EventsTellTheTree, Files!Paths

\* The texts of the document arrive in the order they were written.
TextsInv ==
  /\ writes \in 0..MaxDocumentWrites /\ settled \in 0..writes
  /\ wire \in Seq(1..MaxDocumentWrites)
  /\ \A i \in 1..Len(wire) : settled < wire[i] /\ wire[i] <= writes
  /\ \A i, j \in 1..Len(wire) : i < j => wire[i] < wire[j]
  /\ DOMAIN workspaceGuest = {Files!Directory, Document}
  /\ Files!SettledArrived

LEMMA TextsStay ==
  ASSUME TextsInv, UNCHANGED <<workspaceGuest, wire, settled, writes, other>>
  PROVE  TextsInv'
  BY DEF TextsInv, Files!SettledArrived, Files!Blocked, Files!Absent, Files!Dir, Files!Directory

LEMMA TextWritten ==
  ASSUME TextsInv, Files!WriteDocument
  PROVE  TextsInv'
<1>1. /\ writes < MaxDocumentWrites /\ writes' = writes + 1 /\ wire' = Append(wire, writes + 1)
      /\ workspaceGuest' = workspaceGuest /\ settled' = settled
  BY DEF Files!WriteDocument
<1>2. MaxDocumentWrites \in Nat
  BY FilesFacts
<1>3. wire' \in Seq(1..MaxDocumentWrites) /\ wire' # << >>
  BY <1>1, <1>2 DEF TextsInv
<1>4. /\ Len(wire') = Len(wire) + 1 /\ wire'[Len(wire) + 1] = writes + 1
      /\ \A i \in 1..Len(wire) : wire'[i] = wire[i]
  BY <1>1, <1>2 DEF TextsInv
<1> QED BY <1>1, <1>2, <1>3, <1>4 DEF TextsInv, Files!SettledArrived, Files!Directory

LEMMA TextTaken ==
  ASSUME TextsInv, wire # << >>, wire' = Tail(wire), writes' = writes
  PROVE  /\ wire' \in Seq(1..MaxDocumentWrites)
         /\ \A i, j \in 1..Len(wire') : i < j => wire'[i] < wire'[j]
         /\ \A i \in 1..Len(wire') : Head(wire) < wire'[i] /\ wire'[i] <= writes
         /\ settled < Head(wire) /\ Head(wire) <= writes /\ Head(wire) \in 1..MaxDocumentWrites
<1>1. /\ Len(wire) \in Nat \ {0} /\ wire' \in Seq(1..MaxDocumentWrites)
      /\ Len(wire') = Len(wire) - 1
      /\ \A i \in 1..Len(wire') : wire'[i] = wire[i + 1]
      /\ Head(wire) = wire[1]
  BY DEF TextsInv
<1>2. \A i \in 1..Len(wire') : i + 1 \in 1..Len(wire) /\ 1 < i + 1
  BY <1>1
<1>3. 1 \in 1..Len(wire)
  BY <1>1
<1>4. wire[1] \in 1..MaxDocumentWrites
  <2>1. wire \in Seq(1..MaxDocumentWrites)
    BY DEF TextsInv
  <2> QED BY <1>3, <2>1, ElementOfSeq
<1> QED BY <1>1, <1>2, <1>3, <1>4 DEF TextsInv

LEMMA TextReceived ==
  ASSUME TextsInv, Files!Receive
  PROVE  TextsInv'
<1> DEFINE w == Head(wire)
<1>1. /\ wire # << >> /\ wire' = Tail(wire) /\ writes' = writes /\ settled' = w
      /\ workspaceGuest' = IF Files!Blocked THEN workspaceGuest
                          ELSE [workspaceGuest EXCEPT ![Document] = w, ![Files!Directory] = Files!Dir]
  BY DEF Files!Receive, Files!Received
<1>2. /\ wire' \in Seq(1..MaxDocumentWrites)
      /\ \A i, j \in 1..Len(wire') : i < j => wire'[i] < wire'[j]
      /\ \A i \in 1..Len(wire') : w < wire'[i] /\ wire'[i] <= writes
      /\ w <= writes /\ w \in 1..MaxDocumentWrites
  BY <1>1, TextTaken
<1>3. Document # Files!Directory /\ Files!Directory' = Files!Directory
  <2>1. PICK n \in Names, m \in Names : Document = <<n, m>> /\ Files!Directory = <<n>>
    BY FilesFacts
  <2> QED BY <2>1 DEF Files!Directory
<1> HIDE DEF w
<1>4. Files!Blocked \/ workspaceGuest'[Document] = w
  BY <1>1, <1>3 DEF TextsInv
<1>5. Files!Blocked => Files!Blocked'
  BY <1>1, <1>3 DEF Files!Blocked, Files!Absent, Files!Dir
<1>6. Files!SettledArrived'
  BY <1>1, <1>4, <1>5 DEF Files!SettledArrived
<1>7. DOMAIN workspaceGuest' = {Files!Directory, Document}
  BY <1>1 DEF TextsInv
<1> QED BY <1>1, <1>2, <1>3, <1>6, <1>7, FilesFacts DEF TextsInv

LEMMA TextFails ==
  ASSUME TextsInv, Files!ReceiveFails
  PROVE  TextsInv'
<1>1. /\ wire # << >> /\ wire' = Tail(wire) /\ writes' = writes /\ settled' = settled
      /\ workspaceGuest' = workspaceGuest
  BY DEF Files!ReceiveFails
<1>2. /\ wire' \in Seq(1..MaxDocumentWrites)
      /\ \A i, j \in 1..Len(wire') : i < j => wire'[i] < wire'[j]
      /\ \A i \in 1..Len(wire') : Head(wire) < wire'[i] /\ wire'[i] <= writes
      /\ settled < Head(wire) /\ Head(wire) <= writes /\ Head(wire) \in 1..MaxDocumentWrites
  BY <1>1, TextTaken
<1>3. settled \in Int /\ writes \in Int
  BY FilesFacts DEF TextsInv
<1>4. settled < writes /\ \A i \in 1..Len(wire') : settled < wire'[i]
  <2>1. \A i \in 1..Len(wire') : wire'[i] \in 1..MaxDocumentWrites
    BY <1>2, ElementOfSeq
  <2>2. \A i \in 1..Len(wire') : wire'[i] \in Int
    BY <2>1
  <2>3. Head(wire) \in Int
    BY <1>2
  <2> QED BY <1>2, <1>3, <2>2, <2>3
<1>5. Files!SettledArrived'
  BY <1>1, <1>3, <1>4 DEF Files!SettledArrived
<1> QED BY <1>1, <1>2, <1>4, <1>5 DEF TextsInv, Files!Directory

LEMMA TextsChanged ==
  ASSUME TextsInv, Files!ProgramChanges
  PROVE  TextsInv'
<1>1. wire' = wire /\ writes' = writes /\ settled' = settled /\ other' = TRUE
      /\ DOMAIN workspaceGuest' = DOMAIN workspaceGuest
  BY DEF Files!ProgramChanges
<1>2. Files!SettledArrived'
  BY <1>1 DEF Files!SettledArrived
<1> QED BY <1>1, <1>2 DEF TextsInv, Files!Directory

FilesInv == TreeInv /\ Told /\ TextsInv

LEMMA FilesInitially ==
  ASSUME Files!Init
  PROVE  FilesInv
<1>1. TreeInv
  BY FilesFacts
  DEF Files!Init, TreeInv, TreeTypes, LeafNodes, Shallow, FreeNodes, OneSlot, Placed,
      Files!Empty, Files!Root
<1>2. Told
  <2>1. \A q \in Files!Paths : Files!Node(q) = Files!Nothing
    <3>1. \A n \in Names : entries[0][n] = Files!Nothing
      BY FilesFacts DEF Files!Init, Files!Empty
    <3> QED BY <3>1, PathIs, NodeIs
  <2> QED BY <2>1, PresentIs DEF Files!Init, Told, Files!EventsTellTheTree
<1>3. TextsInv
  BY FilesFacts DEF Files!Init, TextsInv, Files!SettledArrived
<1> QED BY <1>1, <1>2, <1>3 DEF FilesInv

LEMMA FilesStay ==
  ASSUME FilesInv, UNCHANGED Files!workspaceVars
  PROVE  FilesInv'
<1>1. /\ kind' = kind /\ entries' = entries /\ removed' = removed /\ data' = data /\ handle' = handle
      /\ known' = known /\ quiet' = quiet
      /\ UNCHANGED <<workspaceGuest, wire, settled, writes, other>>
  BY DEF Files!workspaceVars, Files!treeVars, Files!guestVars
<1>2. TreeInv' /\ \A q \in Files!Paths : Files!Node(q)' = Files!Node(q)
  BY <1>1, TreeStays DEF FilesInv, TreeInv, TreeTypes
<1> QED BY <1>1, <1>2, ToldStays, TextsStay DEF FilesInv

LEMMA FilesKept ==
  ASSUME FilesInv, Files!Next
  PROVE  FilesInv'
<1> USE DEF FilesInv
<1>0. handle \in Files!Nodes \union {Files!Nothing} /\ data \in [Files!Inodes -> 0..MaxDocumentWrites]
      /\ 0 \in 0..MaxDocumentWrites
  BY FilesFacts DEF TreeInv, TreeTypes
<1>1. ASSUME NEW p \in Files!Paths, Files!EditorWrites(p) PROVE FilesInv'
  <2>1. /\ Files!Bytes(p, 0) /\ Files!Added(p) /\ removed' = removed /\ handle' = handle
        /\ UNCHANGED <<workspaceGuest, wire, settled, writes, other>>
    BY <1>1 DEF Files!EditorWrites, Files!guestVars
  <2> QED BY <1>0, <2>1, BytesWrites, ToldAdded, TextsStay
<1>2. ASSUME NEW p \in Files!Paths, Files!MakeDirectory(p) PROVE FilesInv'
  <2>1. /\ Files!IsDirectory(Files!Parent(p)) /\ Files!Node(p) = Files!Nothing /\ Files!HasFree
        /\ kind' = [kind EXCEPT ![Files!Free] = "dir"] /\ Files!Put(p, Files!Free) /\ Files!Added(p)
        /\ data' = data /\ removed' = removed /\ handle' = handle
        /\ UNCHANGED <<workspaceGuest, wire, settled, writes, other>>
    BY <1>2 DEF Files!MakeDirectory, Files!guestVars
  <2>2. /\ TreeInv'
        /\ \A q \in Files!Paths : q \notin Files!Under(p) => Files!Node(q)' = Files!Node(q)
    BY <1>0, <2>1, Creates
  <2> QED BY <2>1, <2>2, ToldAdded, TextsStay
<1>3. ASSUME NEW p \in Files!Paths, Files!Delete(p) PROVE FilesInv'
  <2>1. /\ Files!IsDirectory(Files!Parent(p)) /\ Files!Node(p) # Files!Nothing
        /\ Files!Put(p, Files!Nothing) /\ Files!Deleted(p)
        /\ removed' = removed \union Files!Inside(Files!Node(p))
        /\ kind' = kind /\ data' = data /\ handle' = handle
        /\ UNCHANGED <<workspaceGuest, wire, settled, writes, other>>
    BY <1>3 DEF Files!Delete, Files!guestVars
  <2>2. /\ TreeInv'
        /\ \A q \in Files!Paths : q \notin Files!Under(p) => Files!Node(q)' = Files!Node(q)
        /\ \A q \in Files!Under(p) : q \in Files!Paths => Files!Node(q)' = Files!Nothing
    BY <2>1, Unlinks
  <2> QED BY <2>1, <2>2, ToldDeleted, TextsStay
<1>4. ASSUME NEW p \in Files!Paths, Files!ProgramOpens(p) PROVE FilesInv'
  <2>1. /\ Files!IsDirectory(Files!Parent(p)) /\ ~Files!IsDirectory(Files!Node(p))
        /\ Files!Untold /\ data' = data /\ removed' = removed
        /\ UNCHANGED <<workspaceGuest, wire, settled, writes, other>>
    BY <1>4 DEF Files!ProgramOpens, Files!guestVars
  <2>2. TreeInv'
    <3>1. CASE Files!Node(p) # Files!Nothing
      <4>1. handle' = Files!Node(p) /\ kind' = kind /\ entries' = entries
        BY <1>4, <3>1 DEF Files!ProgramOpens
      <4>2. handle' \in Files!Nodes \union {Files!Nothing}
        BY <2>1, <4>1, SlotOf DEF TreeInv
      <4> QED BY <1>0, <2>1, <4>1, <4>2, TreeStays
    <3>2. CASE Files!Node(p) = Files!Nothing
      <4>1. /\ Files!HasFree /\ handle' = Files!Free
            /\ kind' = [kind EXCEPT ![Files!Free] = "file"] /\ Files!Put(p, Files!Free)
        BY <1>4, <3>2 DEF Files!ProgramOpens
      <4>2. handle' \in Files!Nodes \union {Files!Nothing}
        BY <4>1, FreeIs
      <4> QED BY <1>0, <2>1, <3>2, <4>1, <4>2, Creates
    <3> QED BY <3>1, <3>2
  <2> QED BY <2>1, <2>2, ToldUntold, TextsStay
<1>5. ASSUME NEW p \in Files!Paths, Files!ProgramUnlinks(p) PROVE FilesInv'
  <2>1. /\ Files!IsDirectory(Files!Parent(p)) /\ Files!Node(p) # Files!Nothing
        /\ Files!Put(p, Files!Nothing) /\ ~Files!IsDirectory(Files!Node(p))
        /\ removed' = removed \union {Files!Node(p)} /\ Files!Untold
        /\ kind' = kind /\ data' = data /\ handle' = handle
        /\ UNCHANGED <<workspaceGuest, wire, settled, writes, other>>
    BY <1>5 DEF Files!ProgramUnlinks, Files!guestVars
  <2>2. Files!Inside(Files!Node(p)) = {Files!Node(p)}
    BY <2>1 DEF Files!Inside
  <2>3. TreeInv'
    BY <2>1, <2>2, Unlinks
  <2> QED BY <2>1, <2>3, ToldUntold, TextsStay
<1>6. ASSUME NEW p \in Files!Paths, NEW q \in Files!Paths, Files!Rename(p, q) PROVE FilesInv'
  <2>1. Files!Moves(p, q) /\ UNCHANGED <<workspaceGuest, wire, settled, writes, other>>
    BY <1>6 DEF Files!Rename, Files!Moves, Files!guestVars
  <2>2. /\ TreeInv'
        /\ \A r \in Files!Paths :
             /\ r \notin Files!Under(p) \union Files!Under(q) => Files!Node(r)' = Files!Node(r)
             /\ r \in Files!Under(p) /\ r \notin Files!Under(q) => Files!Node(r)' = Files!Nothing
    BY <1>6, Renames
  <2> QED BY <2>1, <2>2, ToldMoves, TextsStay
<1>7. ASSUME Files!ProgramWrites PROVE FilesInv'
  <2>1. /\ data' = [data EXCEPT ![handle] = 0] /\ kind' = kind /\ entries' = entries
        /\ removed' = removed /\ handle' = handle /\ known' = known /\ quiet' = quiet
        /\ UNCHANGED <<workspaceGuest, wire, settled, writes, other>>
    BY <1>7 DEF Files!ProgramWrites, Files!guestVars
  <2>2. data' \in [Files!Inodes -> 0..MaxDocumentWrites]
    BY <1>0, <2>1
  <2>3. TreeInv' /\ \A q \in Files!Paths : Files!Node(q)' = Files!Node(q)
    BY <1>0, <2>1, <2>2, TreeStays
  <2> QED BY <2>1, <2>3, ToldStays, TextsStay
<1>8. ASSUME Files!WriteDocument PROVE FilesInv'
  <2>1. /\ Files!Bytes(Document, writes + 1) /\ Files!Untold /\ removed' = removed /\ handle' = handle
        /\ writes < MaxDocumentWrites
    BY <1>8 DEF Files!WriteDocument
  <2>2. Document \in Files!Paths
    BY FilesFacts, PathsAre
  <2>3. writes + 1 \in 0..MaxDocumentWrites
    BY <2>1, FilesFacts DEF TextsInv
  <2>4. TreeInv'
    BY <2>1, <2>2, <2>3, BytesWrites
  <2> QED BY <1>8, <2>1, <2>4, ToldUntold, TextWritten
<1>9. ASSUME \/ Files!Receive \/ Files!ReceiveFails \/ Files!ProgramChanges
      PROVE  FilesInv'
  <2>1. /\ kind' = kind /\ entries' = entries /\ removed' = removed /\ data' = data
        /\ handle' = handle /\ known' = known /\ quiet' = quiet
    BY <1>9 DEF Files!Receive, Files!ReceiveFails, Files!ProgramChanges, Files!treeVars
  <2>2. TreeInv' /\ \A q \in Files!Paths : Files!Node(q)' = Files!Node(q)
    BY <1>0, <2>1, TreeStays
  <2>3. TextsInv'
    BY <1>9, TextReceived, TextFails, TextsChanged
  <2> QED BY <2>1, <2>2, <2>3, ToldStays
<1> QED BY <1>1, <1>2, <1>3, <1>4, <1>5, <1>6, <1>7, <1>8, <1>9 DEF Files!Next

LEMMA NothingLost ==
  ASSUME TreeInv
  PROVE  Files!NothingIsLost
<1>1. ASSUME NEW i \in Files!Nodes, kind[i] # "free", i \notin removed
      PROVE  \E p \in Files!Paths : Files!Node(p) = i
  <2>1. CASE \E n \in Names : entries[0][n] = i
    BY <2>1, NodeIs, PathsAre
  <2>2. ASSUME NEW n \in Names, NEW m \in Names, entries[0][n] # Files!Nothing,
               entries[entries[0][n]][m] = i
        PROVE  \E p \in Files!Paths : Files!Node(p) = i
    <3>1. Files!Node(<<n, m>>) = i /\ <<n, m>> \in Files!Paths
      BY <2>2, NodeIs, PathsAre
    <3> QED BY <3>1
  <2> QED BY <1>1, <2>1, <2>2 DEF TreeInv, Placed, Reached
<1>2. ASSUME NEW i \in Files!Nodes, NEW p \in Files!Paths, NEW q \in Files!Paths,
             Files!Node(p) = i, Files!Node(q) = i
      PROVE  p = q
  <2>1. ASSUME NEW r \in Files!Paths, Files!Node(r) = i
        PROVE  Files!IsDirectory(Files!Parent(r))
    <3>1. CASE r[1] \in Names /\ r = <<r[1]>>
      BY <3>1, NodeIs, FilesFacts DEF TreeInv, TreeTypes, Files!IsDirectory
    <3>2. CASE r[1] \in Names /\ r[2] \in Names /\ r = <<r[1], r[2]>>
      <4>1. Files!Parent(r) = entries[0][r[1]]
        BY <3>2, NodeIs
      <4>2. entries[0][r[1]] # Files!Nothing /\ entries[entries[0][r[1]]][r[2]] = i
        BY <2>1, <3>2, NodeIs, FilesFacts
      <4>3. PICK s \in Files!Nodes : s = entries[0][r[1]]
        BY <3>2, <4>2, EntryIs, FilesFacts DEF TreeInv
      <4>4. kind[s] = "dir"
        BY <3>2, <4>2, <4>3, FilesFacts DEF TreeInv, LeafNodes
      <4> QED BY <4>1, <4>2, <4>3, <4>4 DEF Files!IsDirectory
    <3> QED BY <3>1, <3>2, PathIs
  <2>2. /\ Files!IsDirectory(Files!Parent(p)) /\ Files!IsDirectory(Files!Parent(q))
    BY <1>2, <2>1
  <2>3. PICK a \in Files!Inodes, x \in Names :
          a = Files!Parent(p) /\ x = Files!Name(p) /\ entries[a][x] = i
    BY <1>2, <2>2, SlotOf DEF TreeInv
  <2>4. PICK b \in Files!Inodes, y \in Names :
          b = Files!Parent(q) /\ y = Files!Name(q) /\ entries[b][y] = i
    BY <1>2, <2>2, SlotOf DEF TreeInv
  <2>5. a = b /\ x = y
    BY <2>3, <2>4, FilesFacts DEF TreeInv, OneSlot
  <2> QED BY <2>2, <2>3, <2>4, <2>5, OnePath
<1> QED BY <1>1, <1>2 DEF Files!NothingIsLost

LEMMA FilesSound ==
  ASSUME FilesInv
  PROVE  /\ Files!TypeOK /\ Files!NothingIsLost /\ Files!EventsTellTheTree
         /\ Files!SettledArrived
<1>1. Files!TypeOK
  BY FilesFacts DEF FilesInv, TreeInv, TreeTypes, Told, TextsInv, Files!TypeOK
<1> QED BY <1>1, NothingLost DEF FilesInv, Told, TextsInv

LEMMA StepOfFiles == [Next]_vars => [Files!Next]_(Files!workspaceVars)
  BY DEF Next, vars, workspaceVars, Files!workspaceVars, Files!treeVars, Files!guestVars,
         HttpStep, DownloadStep, TerminalStep, CommandsStep, GesturesStep, PageStep, FilesStep,
         SourceStep

\* For any names, numbers of nodes and texts: no file of the page's tree is lost or in two
\* places, the events tell the editor what there is, and a text that was answered is in the
\* guest.
THEOREM WorkspaceIsSound == Spec => []WorkspaceSound
<1>1. Init => FilesInv
  BY FilesInitially DEF Init
<1>2. FilesInv /\ [Next]_vars => FilesInv'
  BY FilesKept, FilesStay, StepOfFiles
<1>3. FilesInv => WorkspaceSound
  BY FilesSound DEF WorkspaceSound
<1> QED BY <1>1, <1>2, <1>3, PTL DEF Spec


-----------------------------------------------------------------------------
(* The output of a terminal session (TerminalService).                      *)

\* A set of natural numbers that is not empty has a least one.
LEMMA LeastNatural ==
  ASSUME NEW T \in SUBSET Nat, T # {}
  PROVE  \E x \in T : \A y \in T : x <= y
<1> DEFINE R == OpToRel(<, Nat)
<1>1. \E x \in T : \A y \in T : ~ (<<y, x>> \in R)
  <2>1. IsWellFoundedOn(R, Nat)
    BY NatLessThanWellFounded, Zenon
  <2> HIDE DEF R
  <2> QED
    BY <2>1, WFMin, Zenon
<1>2. ASSUME NEW x \in Nat, NEW y \in Nat, y < x PROVE <<y, x>> \in R
  BY <1>2 DEF OpToRel
<1> HIDE DEF R
<1>3. PICK x \in T : \A y \in T : ~ (<<y, x>> \in R)
  BY <1>1
<1>4. ASSUME NEW y \in T PROVE x <= y
  <2>1. ~(y < x)
    BY <1>2, <1>3
  <2> QED
    BY <2>1
<1> QED
  BY <1>3, <1>4

\* Characters that follow each other, up to the last one before a count.
EndsAt(s, e) == \A i \in DOMAIN s : s[i] = e - Len(s) + i

LEMMA EndsConcat ==
  ASSUME NEW S \in SUBSET Nat, NEW s \in Seq(S), NEW t \in Seq(S), NEW e \in Int,
         EndsAt(s, e), EndsAt(t, e + Len(t))
  PROVE  s \o t \in Seq(S) /\ EndsAt(s \o t, e + Len(t))
<1>1. /\ s \o t \in Seq(S) /\ Len(s \o t) = Len(s) + Len(t)
      /\ Len(s) \in Nat /\ Len(t) \in Nat
      /\ DOMAIN s = 1..Len(s) /\ DOMAIN t = 1..Len(t) /\ DOMAIN (s \o t) = 1..Len(s \o t)
      /\ \A i \in 1..Len(s) : (s \o t)[i] = s[i]
      /\ \A i \in 1..Len(s \o t) : ~(i <= Len(s)) =>
           i - Len(s) \in 1..Len(t) /\ (s \o t)[i] = t[i - Len(s)]
  OBVIOUS
<1> DEFINE u == s \o t
<1> HIDE DEF u
<1>2. ASSUME NEW i \in DOMAIN u PROVE u[i] = (e + Len(t)) - Len(u) + i
  <2>1. CASE i <= Len(s)
    BY <1>1, <1>2, <2>1 DEF EndsAt, u
  <2>2. CASE ~(i <= Len(s))
    BY <1>1, <1>2, <2>2 DEF EndsAt, u
  <2> QED BY <2>1, <2>2
<1> QED BY <1>1, <1>2 DEF EndsAt, u

LEMMA RestIs ==
  ASSUME NEW S, NEW s \in Seq(S), NEW k \in 0..Len(s)
  PROVE  /\ Terminal!Rest(s, k) \in Seq(S) /\ Len(Terminal!Rest(s, k)) = Len(s) - k
         /\ \A i \in 1..(Len(s) - k) : Terminal!Rest(s, k)[i] = s[k + i]
         /\ SubSeq(s, 1, k) \in Seq(S) /\ Len(SubSeq(s, 1, k)) = k
         /\ \A i \in 1..k : SubSeq(s, 1, k)[i] = s[i]
<1>1. Len(s) \in Nat
  OBVIOUS
<1>2. /\ SubSeq(s, k + 1, Len(s)) \in Seq(S) /\ Len(SubSeq(s, k + 1, Len(s))) = Len(s) - k
      /\ \A i \in 1..(Len(s) - k) : SubSeq(s, k + 1, Len(s))[i] = s[k + i]
  BY <1>1, SubSeqProperties
<1>3. /\ SubSeq(s, 1, k) \in Seq(S) /\ Len(SubSeq(s, 1, k)) = k
      /\ \A i \in 1..k : SubSeq(s, 1, k)[i] = s[i]
  BY <1>1, SubSeqProperties
<1> QED BY <1>2, <1>3 DEF Terminal!Rest

LEMMA EndsRest ==
  ASSUME NEW S \in SUBSET Nat, NEW s \in Seq(S), NEW k \in 0..Len(s), NEW e \in Int, EndsAt(s, e)
  PROVE  EndsAt(Terminal!Rest(s, k), e)
<1> DEFINE r == Terminal!Rest(s, k)
<1>1. r \in Seq(S) /\ Len(r) = Len(s) - k /\ \A i \in 1..(Len(s) - k) : r[i] = s[k + i]
  BY RestIs
<1>2. DOMAIN r = 1..(Len(s) - k) /\ Len(s) \in Nat /\ DOMAIN s = 1..Len(s)
  BY <1>1
<1> HIDE DEF r
<1>3. ASSUME NEW i \in DOMAIN r PROVE r[i] = e - Len(r) + i
  <2>1. i \in 1..(Len(s) - k) /\ k + i \in DOMAIN s
    BY <1>2
  <2>2. r[i] = s[k + i] /\ s[k + i] = e - Len(s) + (k + i)
    BY <1>1, <2>1 DEF EndsAt
  <2> QED BY <1>1, <1>2, <2>1, <2>2
<1> QED BY <1>3 DEF EndsAt, r

\* The places of the characters that take two bytes.
Wide(s) == {i \in 1..Len(s) : Terminal!Width(s[i]) = 2}

LEMMA WideIs ==
  ASSUME NEW S, NEW s \in Seq(S)
  PROVE  /\ IsFiniteSet(Wide(s)) /\ Cardinality(Wide(s)) \in Nat
         /\ Terminal!Utf8Length(s) = Len(s) + Cardinality(Wide(s))
         /\ Terminal!Utf8Length(s) \in Nat
<1>1. Len(s) \in Nat /\ DOMAIN s = 1..Len(s)
  OBVIOUS
<1>2. IsFiniteSet(1..Len(s))
  BY <1>1, FS_Interval
<1>3. IsFiniteSet(Wide(s)) /\ Cardinality(Wide(s)) \in Nat
  BY <1>2, FS_Subset, FS_CardinalityType DEF Wide
<1>4. Terminal!Utf8Length(s) = Len(s) + Terminal!Cardinality(Wide(s))
  BY <1>1 DEF Terminal!Utf8Length, Wide
<1>5. Terminal!Cardinality(Wide(s)) = Cardinality(Wide(s))
  BY DEF Terminal!Cardinality, Cardinality
<1> QED BY <1>1, <1>3, <1>4, <1>5

\* The bytes of what is put together are those of its parts.
LEMMA LengthConcat ==
  ASSUME NEW S, NEW s \in Seq(S), NEW t \in Seq(S), NEW u \in Seq(S),
         Len(u) = Len(s) + Len(t), \A i \in 1..Len(s) : u[i] = s[i],
         \A i \in 1..Len(t) : u[Len(s) + i] = t[i]
  PROVE  Terminal!Utf8Length(u) = Terminal!Utf8Length(s) + Terminal!Utf8Length(t)
<1>1. Len(s) \in Nat /\ Len(t) \in Nat
  OBVIOUS
<1> DEFINE T == {i \in (Len(s) + 1)..(Len(s) + Len(t)) : Terminal!Width(u[i]) = 2}
           f == [i \in Wide(t) |-> Len(s) + i]
<1>2. Wide(u) = Wide(s) \union T /\ Wide(s) \cap T = {}
  <2>1. \A i : i \in 1..Len(u) <=> i \in 1..Len(s) \/ i \in (Len(s) + 1)..(Len(s) + Len(t))
    BY <1>1
  <2>2. \A i : ~(i \in 1..Len(s) /\ i \in (Len(s) + 1)..(Len(s) + Len(t)))
    BY <1>1
  <2>3. \A i \in 1..Len(s) : Terminal!Width(u[i]) = Terminal!Width(s[i])
    OBVIOUS
  <2> QED BY <2>1, <2>2, <2>3 DEF Wide
<1>3. IsFiniteSet(T)
  <2>1. IsFiniteSet((Len(s) + 1)..(Len(s) + Len(t)))
    BY <1>1, FS_Interval
  <2> QED BY <2>1, FS_Subset
<1>4. f \in Bijection(Wide(t), T)
  <2>1. ASSUME NEW i \in Wide(t) PROVE f[i] \in T /\ f[i] = Len(s) + i
    <3>1. i \in 1..Len(t) /\ Terminal!Width(t[i]) = 2
      BY DEF Wide
    <3>2. Len(s) + i \in (Len(s) + 1)..(Len(s) + Len(t)) /\ u[Len(s) + i] = t[i]
      BY <1>1, <3>1
    <3> QED BY <3>1, <3>2
  <2>2. ASSUME NEW j \in T PROVE \E i \in Wide(t) : f[i] = j
    <3>1. j \in (Len(s) + 1)..(Len(s) + Len(t)) /\ Terminal!Width(u[j]) = 2
      OBVIOUS
    <3>2. PICK i \in 1..Len(t) : j = Len(s) + i
      <4>1. j - Len(s) \in 1..Len(t) /\ j = Len(s) + (j - Len(s))
        BY <1>1, <3>1
      <4> QED BY <4>1
    <3>3. i \in Wide(t)
      BY <3>1, <3>2 DEF Wide
    <3> QED BY <3>2, <3>3
  <2>3. \A i, j \in Wide(t) : f[i] = f[j] => i = j
    BY <1>1 DEF Wide
  <2>4. f \in [Wide(t) -> T]
    BY <2>1
  <2> HIDE DEF f, T
  <2> QED BY <2>2, <2>3, <2>4, Fun_IsBij
<1>5. Cardinality(T) = Cardinality(Wide(t))
  <2>1. IsFiniteSet(Wide(t))
    BY WideIs
  <2> HIDE DEF T, f
  <2> QED BY <1>4, <2>1, FS_Bijection, Zenon DEF ExistsBijection
<1> HIDE DEF T, f
<1>6. Cardinality(Wide(u)) = Cardinality(Wide(s)) + Cardinality(T)
  <2>1. IsFiniteSet(Wide(s)) /\ Cardinality(Wide(s)) \in Nat
    BY WideIs
  <2>2. Cardinality(Wide(s) \cap T) = 0
    BY <1>2, FS_EmptySet
  <2>3. Cardinality(T) \in Nat
    BY <1>3, FS_CardinalityType
  <2>4. Cardinality(Wide(s) \union T)
          = Cardinality(Wide(s)) + Cardinality(T) - Cardinality(Wide(s) \cap T)
    BY <1>3, <2>1, FS_Union
  <2> QED BY <1>2, <2>1, <2>2, <2>3, <2>4
<1>7. /\ Terminal!Utf8Length(s) = Len(s) + Cardinality(Wide(s))
      /\ Terminal!Utf8Length(t) = Len(t) + Cardinality(Wide(t))
      /\ Terminal!Utf8Length(u) = Len(u) + Cardinality(Wide(u))
      /\ Cardinality(Wide(s)) \in Nat /\ Cardinality(Wide(t)) \in Nat
  BY WideIs
<1> QED BY <1>1, <1>5, <1>6, <1>7

LEMMA LengthRest ==
  ASSUME NEW S, NEW s \in Seq(S), NEW k \in 0..Len(s)
  PROVE  /\ Terminal!Utf8Length(s) = Terminal!Utf8Length(SubSeq(s, 1, k))
                                       + Terminal!Utf8Length(Terminal!Rest(s, k))
         /\ Terminal!Utf8Length(SubSeq(s, 1, k)) \in Nat
         /\ Terminal!Utf8Length(Terminal!Rest(s, k)) \in Nat
<1>1. PICK a \in Seq(S), b \in Seq(S) : a = SubSeq(s, 1, k) /\ b = Terminal!Rest(s, k)
  BY RestIs
<1>2. /\ Len(a) = k /\ \A i \in 1..k : a[i] = s[i]
      /\ Len(b) = Len(s) - k /\ \A i \in 1..(Len(s) - k) : b[i] = s[k + i]
  BY <1>1, RestIs
<1>3. Len(s) = Len(a) + Len(b) /\ Len(s) \in Nat
  BY <1>2
<1>4. Terminal!Utf8Length(s) = Terminal!Utf8Length(a) + Terminal!Utf8Length(b)
  <2>1. \A i \in 1..Len(a) : s[i] = a[i]
    BY <1>2
  <2>2. \A i \in 1..Len(b) : s[Len(a) + i] = b[i]
    BY <1>2
  <2> QED BY <1>3, <2>1, <2>2, LengthConcat
<1> QED BY <1>1, <1>4, WideIs

LEMMA LengthBoth ==
  ASSUME NEW S, NEW s \in Seq(S), NEW t \in Seq(S)
  PROVE  Terminal!Utf8Length(s \o t) = Terminal!Utf8Length(s) + Terminal!Utf8Length(t)
<1>1. PICK u \in Seq(S) : u = s \o t
  BY ConcatProperties
<1>2. /\ Len(u) = Len(s) + Len(t) /\ \A i \in 1..Len(s) : u[i] = s[i]
      /\ \A i \in 1..Len(t) : u[Len(s) + i] = t[i]
  BY <1>1, ConcatProperties
<1>3. Terminal!Utf8Length(u) = Terminal!Utf8Length(s) + Terminal!Utf8Length(t)
  BY <1>2, LengthConcat
<1> QED BY <1>1, <1>3

\* The prefix that takes enough bytes, where there is one.
LEMMA PrefixIs ==
  ASSUME NEW S, NEW s \in Seq(S), NEW n \in Nat, n <= Terminal!Utf8Length(s)
  PROVE  /\ Terminal!Prefix(s, n) \in 0..Len(s)
         /\ Terminal!Utf8Length(SubSeq(s, 1, Terminal!Prefix(s, n))) >= n
<1> DEFINE T == {k \in 0..Len(s) : Terminal!Utf8Length(SubSeq(s, 1, k)) >= n}
<1>1. Len(s) \in Nat /\ SubSeq(s, 1, Len(s)) = s
  <2>1. /\ SubSeq(s, 1, Len(s)) \in Seq(S) /\ Len(SubSeq(s, 1, Len(s))) = Len(s)
        /\ \A i \in 1..Len(s) : SubSeq(s, 1, Len(s))[i] = s[i]
    OBVIOUS
  <2> QED BY <2>1, SeqEqual
<1>2. Len(s) \in T /\ T \in SUBSET Nat
  <2>1. Terminal!Utf8Length(s) \in Nat
    BY WideIs
  <2>2. Terminal!Utf8Length(SubSeq(s, 1, Len(s))) >= n /\ Len(s) \in 0..Len(s)
    <3>1. Terminal!Utf8Length(s) >= n
      BY <2>1
    <3>2. Len(s) \in 0..Len(s)
      BY <1>1
    <3> QED BY <1>1, <3>1, <3>2, Zenon
  <2> QED BY <1>1, <2>2
<1>3. PICK k \in T : \A j \in T : k <= j
  BY <1>2, LeastNatural
<1>4. /\ k \in 0..Len(s) /\ Terminal!Utf8Length(SubSeq(s, 1, k)) >= n
      /\ \A j \in 0..(k - 1) : Terminal!Utf8Length(SubSeq(s, 1, j)) < n
  <2>1. ASSUME NEW j \in 0..(k - 1) PROVE Terminal!Utf8Length(SubSeq(s, 1, j)) < n
    <3>1. j \in 0..Len(s) /\ ~(k <= j)
      BY <1>1
    <3>2. ~(Terminal!Utf8Length(SubSeq(s, 1, j)) >= n)
      BY <1>3, <3>1
    <3>3. Terminal!Utf8Length(SubSeq(s, 1, j)) \in Nat
      BY <3>1, RestIs, WideIs
    <3> QED BY <3>2, <3>3
  <2> QED BY <2>1
<1> HIDE DEF T
<1> QED BY <1>4 DEF Terminal!Prefix

\* appendBounded() keeps what is newest, whole characters of it, within the limit.
LEMMA BoundedIs ==
  ASSUME NEW S \in SUBSET Nat, NEW s \in Seq(S), NEW v \in Seq(S), NEW e \in Int, Limit \in Nat,
         EndsAt(s, e), EndsAt(v, e + Len(v)), Terminal!Utf8Length(s) <= Limit, NEW b,
         b = Terminal!AppendBounded(s, Terminal!Utf8Length(s), v)
  PROVE  /\ b.value \in Seq(S) /\ EndsAt(b.value, e + Len(v))
         /\ b.bytes = Terminal!Utf8Length(b.value) /\ b.bytes <= Limit
<1> DEFINE m == Terminal!Utf8Length(s)
           n == Terminal!Utf8Length(v)
<1>1. m \in Nat /\ n \in Nat /\ m <= Limit /\ Len(v) \in Nat /\ Len(s) \in Nat
  BY WideIs
<1>2. CASE n >= Limit
  <2> DEFINE k == Terminal!Prefix(v, n - Limit)
             r == Terminal!Rest(v, k)
  <2>1. b.value = r /\ b.bytes = Terminal!Utf8Length(r)
    BY <1>2 DEF Terminal!AppendBounded
  <2>2. k \in 0..Len(v) /\ Terminal!Utf8Length(SubSeq(v, 1, k)) >= n - Limit
    <3>1. n - Limit \in Nat /\ n - Limit <= n
      BY <1>1, <1>2
    <3> HIDE DEF n
    <3> QED BY <3>1, PrefixIs DEF n
  <2> HIDE DEF k
  <2>3. r \in Seq(S) /\ EndsAt(r, e + Len(v))
    <3>1. e + Len(v) \in Int
      BY <1>1
    <3> QED BY <2>2, <3>1, RestIs, EndsRest
  <2>4. n = Terminal!Utf8Length(SubSeq(v, 1, k)) + Terminal!Utf8Length(r)
    BY <2>2, LengthRest
  <2>5. Terminal!Utf8Length(r) \in Nat /\ Terminal!Utf8Length(SubSeq(v, 1, k)) \in Nat
    BY <2>2, LengthRest
  <2> HIDE DEF n, r
  <2> QED BY <1>1, <2>1, <2>2, <2>3, <2>4, <2>5
<1>3. CASE ~(n >= Limit) /\ m + n <= Limit
  <2>1. b.value = s \o v /\ b.bytes = m + n
    BY <1>3 DEF Terminal!AppendBounded
  <2>2. s \o v \in Seq(S) /\ EndsAt(s \o v, e + Len(v))
    BY EndsConcat
  <2>3. Terminal!Utf8Length(s \o v) = m + n
    BY LengthBoth
  <2> QED BY <1>3, <2>1, <2>2, <2>3
<1>4. CASE ~(n >= Limit) /\ ~(m + n <= Limit)
  <2> DEFINE k == Terminal!Prefix(s, m + n - Limit)
             r == Terminal!Rest(s, k)
  <2>1. b.value = r \o v /\ b.bytes = m - Terminal!Utf8Length(SubSeq(s, 1, k)) + n
    BY <1>4 DEF Terminal!AppendBounded
  <2>2. k \in 0..Len(s) /\ Terminal!Utf8Length(SubSeq(s, 1, k)) >= m + n - Limit
    <3>1. m + n - Limit \in Nat /\ m + n - Limit <= m
      BY <1>1, <1>4
    <3> HIDE DEF m, n
    <3> QED BY <3>1, PrefixIs DEF m
  <2> HIDE DEF k
  <2>3. r \in Seq(S) /\ EndsAt(r, e)
    BY <2>2, RestIs, EndsRest
  <2>4. m = Terminal!Utf8Length(SubSeq(s, 1, k)) + Terminal!Utf8Length(r)
    BY <2>2, LengthRest
  <2>5. Terminal!Utf8Length(r) \in Nat /\ Terminal!Utf8Length(SubSeq(s, 1, k)) \in Nat
    BY <2>2, LengthRest
  <2> HIDE DEF r
  <2>6. r \o v \in Seq(S) /\ EndsAt(r \o v, e + Len(v))
    BY <2>3, EndsConcat
  <2>7. Terminal!Utf8Length(r \o v) = Terminal!Utf8Length(r) + n
    BY <2>3, LengthBoth
  <2> DEFINE x == Terminal!Utf8Length(SubSeq(s, 1, k))
             y == Terminal!Utf8Length(r)
  <2>8. x \in Nat /\ y \in Nat /\ m = x + y /\ x >= m + n - Limit /\ b.bytes = m - x + n
        /\ Terminal!Utf8Length(b.value) = y + n
    BY <2>1, <2>2, <2>4, <2>5, <2>7
  <2> HIDE DEF m, n, x, y
  <2>9. b.bytes = Terminal!Utf8Length(b.value) /\ b.bytes <= Limit
    BY <1>1, <2>8
  <2> QED BY <2>1, <2>6, <2>9
<1> QED BY <1>2, <1>3, <1>4

Chars == 1..MaxChars
LastOf(s) == s[Len(s)]

LEMMA TerminalFacts ==
  /\ Limit \in Nat /\ MaxChars \in Nat /\ MaxTokens \in Nat /\ MaxDepth \in Nat
  /\ Chars \in SUBSET Nat
  BY PageAssumption DEF PageAssumption, Terminal!TerminalAssumption, Chars

Frames == [op : {"write", "replay", "drain"}, view : Views, token : Nat, id : Nat]
AttachFrame(i) == i \in 1..Len(stack) /\ stack[i].op # "write"

TerminalTypes ==
  /\ active \in BOOLEAN /\ decoder \in {"clean", "half"} /\ written \in 0..MaxChars
  /\ holders \in Seq({"attaching", "held", "unmounted", "disposed"})
  /\ Len(holders) <= MaxTokens
  /\ latest \in [Views -> Nat] /\ shown \in [Views -> Seq(Chars)]
  /\ stack \in Seq(Frames) /\ Len(stack) <= MaxDepth
HistoryInv ==
  /\ history \in Seq(Chars) /\ EndsAt(history, written)
  /\ historyBytes = Terminal!Utf8Length(history) /\ historyBytes <= Limit
\* The calls of attach() under way are told apart by their ids.
FramesApart ==
  /\ \A i : AttachFrame(i) => stack[i].id \in 1..Len(holders)
  /\ \A i, j : AttachFrame(i) /\ AttachFrame(j) /\ stack[i].id = stack[j].id => i = j
\* The view has been given all, by its latest attachment, which is not being attached any more.
ViewInv ==
  view # None =>
    /\ view \in [token : 1..Len(holders), view : Views]
    /\ EndsAt(shown[view.view], written)
    /\ latest[view.view] = view.token /\ holders[view.token] # "disposed"
    /\ \A i : AttachFrame(i) => stack[i].id # view.token
    /\ attaching # None => attaching.view # view.view
\* What waits follows one after the other, up to what was written last.
Chain(p) ==
  /\ \A j \in 1..Len(p) : Len(p[j]) > 0 /\ EndsAt(p[j], LastOf(p[j]))
  /\ \A j \in 1..Len(p) : j < Len(p) => p[j + 1][1] = LastOf(p[j]) + 1
  /\ p # <<>> => LastOf(p[Len(p)]) = written
AttachingInv ==
  attaching # None =>
    /\ attaching \in [token : 1..Len(holders), id : 1..Len(holders), view : Views,
                      pending : Seq(Seq(Chars))]
    /\ latest[attaching.view] = attaching.token /\ holders[attaching.token] # "disposed"
    /\ \A i : AttachFrame(i) /\ stack[i].id = attaching.token => attaching.id = attaching.token
    /\ Chain(attaching.pending)
\* What its view was given ends where what waits begins.
GivenInv ==
  \A i : AttachFrame(i) /\ attaching # None /\ attaching.id = stack[i].id =>
    /\ stack[i].view = attaching.view
    /\ stack[i].op = "drain" =>
         attaching.pending # <<>> /\ EndsAt(shown[attaching.view], LastOf(attaching.pending[1]))
    /\ stack[i].op = "replay" =>
         EndsAt(shown[attaching.view],
                IF attaching.pending = <<>> THEN written ELSE attaching.pending[1][1] - 1)

TerminalInv == /\ TerminalTypes /\ HistoryInv /\ FramesApart /\ ViewInv /\ AttachingInv
               /\ GivenInv

\* What was written is one character after the other.
LEMMA ValueIs ==
  ASSUME NEW n \in Nat, NEW e \in Nat, e + n <= MaxChars, NEW v, v = [i \in 1..n |-> e + i]
  PROVE  v \in Seq(Chars) /\ Len(v) = n /\ EndsAt(v, e + n) /\ (v = <<>> <=> n = 0)
         /\ \A i \in 1..n : v[i] = e + i
<1>1. \A i \in 1..n : e + i \in Chars
  BY TerminalFacts DEF Chars
<1>2. v \in [1..n -> Chars]
  BY <1>1
<1>3. v \in Seq(Chars) /\ Len(v) = n /\ DOMAIN v = 1..n
  <2>1. v \in Seq(Chars)
    BY <1>2, SeqDef
  <2>2. DOMAIN v = 1..n
    BY <1>2
  <2> QED BY <2>1, <2>2, LenProperties
<1>4. \A i \in 1..n : v[i] = e + i
  OBVIOUS
<1>5. EndsAt(v, e + n)
  BY <1>3, <1>4 DEF EndsAt
<1>6. v = <<>> <=> n = 0
  BY <1>3
<1> QED BY <1>3, <1>4, <1>5, <1>6

LEMMA FrontIs ==
  ASSUME NEW S, NEW s \in Seq(S), s # <<>>
  PROVE  /\ Terminal!Front(s) \in Seq(S) /\ Len(Terminal!Front(s)) = Len(s) - 1
         /\ \A i \in 1..(Len(s) - 1) : Terminal!Front(s)[i] = s[i]
         /\ Len(s) \in Nat \ {0}
<1>1. Len(s) \in Nat \ {0}
  OBVIOUS
<1>2. Len(s) - 1 \in 0..Len(s)
  BY <1>1
<1> QED BY <1>1, <1>2, RestIs, ZenonT(30) DEF Terminal!Front

\* The innermost write returns.
LEMMA StackShrinks ==
  ASSUME TerminalTypes, FramesApart, stack # <<>>, stack' = Terminal!Front(stack),
         holders' \in Seq({"attaching", "held", "unmounted", "disposed"}),
         Len(holders') = Len(holders)
  PROVE  /\ stack' \in Seq(Frames) /\ Len(stack') <= MaxDepth /\ FramesApart'
         /\ \A i : AttachFrame(i)' =>
              AttachFrame(i) /\ stack'[i] = stack[i] /\ i # Len(stack)
<1>1. /\ stack \in Seq(Frames) /\ Len(stack) \in Nat \ {0} /\ Len(stack) <= MaxDepth
      /\ stack' \in Seq(Frames) /\ Len(stack') = Len(stack) - 1
      /\ \A i \in 1..Len(stack') : stack'[i] = stack[i]
  BY FrontIs DEF TerminalTypes
<1>2. Len(stack') <= MaxDepth
  BY <1>1, TerminalFacts
<1>3. \A i : AttachFrame(i)' => AttachFrame(i) /\ stack'[i] = stack[i] /\ i # Len(stack)
  BY <1>1 DEF AttachFrame
<1>4. FramesApart'
  BY <1>3 DEF FramesApart
<1> QED BY <1>1, <1>2, <1>3, <1>4

\* A write begins.
LEMMA StackGrows ==
  ASSUME TerminalTypes, NEW f \in Frames, stack' = Append(stack, f), Len(stack) < MaxDepth
  PROVE  /\ stack' \in Seq(Frames) /\ Len(stack') <= MaxDepth /\ Len(stack') = Len(stack) + 1
         /\ \A i : AttachFrame(i)' =>
              \/ AttachFrame(i) /\ stack'[i] = stack[i]
              \/ i = Len(stack) + 1 /\ stack'[i] = f /\ f.op # "write"
<1>1. /\ stack \in Seq(Frames) /\ Len(stack) \in Nat
      /\ stack' \in Seq(Frames) /\ Len(stack') = Len(stack) + 1
      /\ \A i \in 1..Len(stack) : stack'[i] = stack[i]
      /\ stack'[Len(stack) + 1] = f
  BY DEF TerminalTypes
<1>2. Len(stack') <= MaxDepth
  BY <1>1, TerminalFacts
<1>3. ASSUME NEW i, AttachFrame(i)'
      PROVE  \/ AttachFrame(i) /\ stack'[i] = stack[i]
             \/ i = Len(stack) + 1 /\ stack'[i] = f /\ f.op # "write"
  <2>1. i \in 1..(Len(stack) + 1) /\ stack'[i].op # "write"
    BY <1>1, <1>3 DEF AttachFrame
  <2>2. CASE i \in 1..Len(stack)
    BY <1>1, <2>1, <2>2 DEF AttachFrame
  <2>3. CASE i = Len(stack) + 1
    BY <1>1, <2>1, <2>3
  <2> QED BY <1>1, <2>1, <2>2, <2>3
<1> QED BY <1>1, <1>2, <1>3

\* A piece is added to what waits.
LEMMA ChainAppends ==
  ASSUME NEW p \in Seq(Seq(Chars)), Chain(p), NEW n \in Nat \ {0}, written \in Nat,
         written' = written + n, NEW v \in Seq(Chars), Len(v) = n, EndsAt(v, written + n)
  PROVE  /\ Append(p, v) \in Seq(Seq(Chars)) /\ Chain(Append(p, v))'
         /\ Append(p, v) # <<>>
         /\ p # <<>> => Append(p, v)[1] = p[1]
         /\ p = <<>> => Append(p, v)[1] = v
         /\ v[1] = written + 1
<1> DEFINE q == Append(p, v)
<1>1. /\ Len(p) \in Nat /\ q \in Seq(Seq(Chars)) /\ Len(q) = Len(p) + 1
      /\ \A j \in 1..Len(p) : q[j] = p[j]
      /\ q[Len(p) + 1] = v
  OBVIOUS
<1>2. /\ DOMAIN v = 1..n /\ v[1] = written + 1 /\ LastOf(v) = written + n
  BY DEF EndsAt, LastOf
<1>3. p = <<>> <=> Len(p) = 0
  BY EmptySeq
<1> HIDE DEF q
<1>4. q # <<>>
  BY <1>1
<1>5. ASSUME NEW j \in 1..Len(q) PROVE Len(q[j]) > 0 /\ EndsAt(q[j], LastOf(q[j]))
  <2>1. CASE j \in 1..Len(p)
    BY <1>1, <2>1 DEF Chain
  <2>2. CASE j = Len(p) + 1
    BY <1>1, <1>2, <2>2
  <2> QED BY <1>1, <2>1, <2>2
<1>6. ASSUME NEW j \in 1..Len(q), j < Len(q) PROVE q[j + 1][1] = LastOf(q[j]) + 1
  <2>1. j \in 1..Len(p)
    BY <1>1, <1>6
  <2>2. CASE j < Len(p)
    <3>1. j + 1 \in 1..Len(p)
      BY <1>1, <2>1, <2>2
    <3> QED BY <1>1, <2>1, <2>2, <3>1 DEF Chain
  <2>3. CASE j = Len(p)
    <3>1. LastOf(p[j]) = written
      BY <1>1, <1>3, <2>1, <2>3 DEF Chain
    <3> QED BY <1>1, <1>2, <2>1, <2>3, <3>1
  <2> QED BY <1>1, <2>1, <2>2, <2>3
<1>7. LastOf(q[Len(q)]) = written + n
  BY <1>1, <1>2
<1>8. Chain(q)'
  BY <1>5, <1>6, <1>7 DEF Chain, q
<1> QED BY <1>1, <1>2, <1>3, <1>4, <1>8 DEF q

LEMMA ChainDrops ==
  ASSUME NEW p \in Seq(Seq(Chars)), Chain(p), p # <<>>, written' = written
  PROVE  /\ Tail(p) \in Seq(Seq(Chars)) /\ Chain(Tail(p))'
         /\ Tail(p) # <<>> => Tail(p)[1][1] = LastOf(p[1]) + 1
         /\ Tail(p) = <<>> => LastOf(p[1]) = written
<1> DEFINE q == Tail(p)
<1>1. /\ Len(p) \in Nat \ {0} /\ q \in Seq(Seq(Chars)) /\ Len(q) = Len(p) - 1
      /\ \A j \in 1..Len(q) : q[j] = p[j + 1]
  OBVIOUS
<1>2. q = <<>> <=> Len(q) = 0
  BY <1>1, EmptySeq
<1> HIDE DEF q
<1>3. \A j \in 1..Len(q) : j + 1 \in 1..Len(p)
  BY <1>1
<1>4. \A j \in 1..Len(q) : Len(q[j]) > 0 /\ EndsAt(q[j], LastOf(q[j]))
  BY <1>1, <1>3 DEF Chain
<1>5. ASSUME NEW j \in 1..Len(q), j < Len(q) PROVE q[j + 1][1] = LastOf(q[j]) + 1
  <2>1. j + 1 \in 1..Len(q) /\ j + 1 \in 1..Len(p) /\ j + 1 < Len(p)
    BY <1>1, <1>5, SMTT(30)
  <2>2. p[(j + 1) + 1][1] = LastOf(p[j + 1]) + 1
    BY <2>1 DEF Chain
  <2> QED BY <1>1, <2>1, <2>2
<1>6. q # <<>> => LastOf(q[Len(q)]) = written
  <2> SUFFICES ASSUME q # <<>> PROVE LastOf(q[Len(q)]) = written
    OBVIOUS
  <2>1. Len(q) \in 1..Len(q) /\ Len(q) + 1 = Len(p)
    BY <1>1, <1>2
  <2> QED BY <1>1, <2>1 DEF Chain
<1>7. 1 \in 1..Len(p)
  BY <1>1
<1>8. q # <<>> => q[1][1] = LastOf(p[1]) + 1
  <2> SUFFICES ASSUME q # <<>> PROVE q[1][1] = LastOf(p[1]) + 1
    OBVIOUS
  <2>1. 1 \in 1..Len(q) /\ 1 < Len(p)
    BY <1>1, <1>2
  <2>2. q[1] = p[1 + 1] /\ p[1 + 1][1] = LastOf(p[1]) + 1
    BY <1>1, <1>7, <2>1 DEF Chain
  <2> QED BY <2>2
<1>9. q = <<>> => LastOf(p[1]) = written
  <2> SUFFICES ASSUME q = <<>> PROVE LastOf(p[1]) = written
    OBVIOUS
  <2>1. Len(p) = 1
    BY <1>1, <1>2
  <2> QED BY <2>1 DEF Chain
<1>10. Chain(q)'
  BY <1>4, <1>5, <1>6 DEF Chain, q
<1> QED BY <1>1, <1>8, <1>9, <1>10 DEF q

\* The head of what waits is given.
LEMMA ChainGives ==
  ASSUME NEW p \in Seq(Seq(Chars)), Chain(p), p # <<>>, NEW s \in Seq(Chars),
         EndsAt(s, p[1][1] - 1)
  PROVE  s \o p[1] \in Seq(Chars) /\ EndsAt(s \o p[1], LastOf(p[1]))
<1>1. 1 \in 1..Len(p) /\ p[1] \in Seq(Chars)
  OBVIOUS
<1>2. Len(p[1]) > 0 /\ EndsAt(p[1], LastOf(p[1]))
  BY <1>1 DEF Chain
<1>3. PICK v \in Seq(Chars) : v = p[1]
  BY <1>1
<1>4. Len(v) \in Nat \ {0} /\ DOMAIN v = 1..Len(v)
  BY <1>2, <1>3
<1>5. v[1] \in Nat /\ LastOf(v) \in Nat
  BY <1>4, TerminalFacts DEF LastOf, Chars
<1>6. v[1] = LastOf(v) - Len(v) + 1
  <2>1. EndsAt(v, LastOf(v))
    BY <1>2, <1>3
  <2>2. 1 \in DOMAIN v
    BY <1>4
  <2> QED BY <2>1, <2>2 DEF EndsAt
<1>7. LastOf(v) = (v[1] - 1) + Len(v)
  BY <1>4, <1>5, <1>6
<1>8. v[1] - 1 \in Int
  BY <1>5
<1> QED BY <1>2, <1>3, <1>7, <1>8, TerminalFacts, EndsConcat

Silent ==
  \A v \in Views : shown'[v] # shown[v] => active /\ holders'[latest'[v]] # "disposed"
HolderStates == {"attaching", "held", "unmounted", "disposed"}
\* Of the calls of attach() under way none is new.
FramesFewer == \A i : AttachFrame(i)' => AttachFrame(i) /\ stack'[i] = stack[i]

LEMMA TerminalInitially ==
  ASSUME Terminal!Init
  PROVE  TerminalInv
<1>1. /\ active = TRUE /\ decoder = "clean" /\ history = <<>> /\ historyBytes = 0
      /\ view = None /\ attaching = None /\ stack = <<>> /\ holders = <<>> /\ written = 0
      /\ shown = [v \in Views |-> <<>>] /\ latest = [v \in Views |-> 0]
  BY DEF Terminal!Init
<1>2. Terminal!Utf8Length(<<>>) = 0
  <2>1. Wide(<<>>) = {}
    BY EmptySeq DEF Wide
  <2>2. <<>> \in Seq(Nat) /\ Len(<<>>) = 0
    BY EmptySeq
  <2>3. Terminal!Utf8Length(<<>>) = Len(<<>>) + Cardinality(Wide(<<>>))
    BY <2>2, WideIs
  <2> QED BY <2>1, <2>2, <2>3, FS_EmptySet
<1>3. HistoryInv
  BY <1>1, <1>2, TerminalFacts DEF HistoryInv, EndsAt
<1>4. TerminalTypes
  BY <1>1, TerminalFacts DEF TerminalTypes
<1>5. \A i : ~AttachFrame(i)
  BY <1>1 DEF AttachFrame
<1> QED BY <1>1, <1>3, <1>4, <1>5
        DEF TerminalInv, FramesApart, ViewInv, AttachingInv, GivenInv

LEMMA AttachingIs ==
  ASSUME AttachingInv, attaching # None
  PROVE  \E t \in 1..Len(holders), d \in 1..Len(holders), v \in Views, p \in Seq(Seq(Chars)) :
           /\ attaching = [token |-> t, id |-> d, view |-> v, pending |-> p]
           /\ latest[v] = t /\ holders[t] # "disposed" /\ Chain(p)
           /\ \A i : AttachFrame(i) /\ stack[i].id = t => d = t
  BY DEF AttachingInv

\* Nothing is given, attached or written.
LEMMA TerminalSame ==
  ASSUME TerminalInv, active' \in BOOLEAN, decoder' \in {"clean", "half"},
         UNCHANGED <<history, historyBytes, view, attaching, stack, shown, latest, holders, written>>
  PROVE  TerminalInv' /\ Silent
<1>1. TerminalTypes' /\ HistoryInv' /\ FramesApart' /\ ViewInv' /\ Silent
  BY DEF TerminalInv, TerminalTypes, HistoryInv, FramesApart, ViewInv, AttachFrame, EndsAt, Silent
<1>2. AttachingInv' /\ GivenInv'
  BY DEF TerminalInv, AttachingInv, GivenInv, AttachFrame, EndsAt, Chain, LastOf, Chars
<1> QED BY <1>1, <1>2 DEF TerminalInv

\* What is attached, and what is being attached, can only go when its frames, or those of
\* others, do, or become other attachments' holders.
LEMMA TerminalLess ==
  ASSUME TerminalInv, UNCHANGED <<decoder, history, historyBytes, shown, latest, written>>,
         active' \in BOOLEAN,
         view' \in {view, None}, attaching' \in {attaching, None},
         holders' \in Seq(HolderStates), Len(holders') = Len(holders),
         stack' \in Seq(Frames), Len(stack') <= MaxDepth, FramesApart', FramesFewer,
         view' # None => holders'[view.token] # "disposed",
         attaching' # None => holders'[attaching.token] # "disposed"
  PROVE  TerminalInv' /\ Silent
<1>1. TerminalTypes' /\ HistoryInv' /\ Silent
  BY DEF TerminalInv, TerminalTypes, HistoryInv, EndsAt, Silent, HolderStates
<1>2. ViewInv'
  BY DEF TerminalInv, ViewInv, FramesFewer, EndsAt
<1>3. AttachingInv'
  BY DEF TerminalInv, AttachingInv, FramesFewer, EndsAt, Chain, LastOf, Chars
<1>4. GivenInv'
  BY DEF TerminalInv, GivenInv, FramesFewer, EndsAt, LastOf
<1> QED BY <1>1, <1>2, <1>3, <1>4 DEF TerminalInv

LEMMA DecodedIs ==
  ASSUME NEW h \in {"clean", "half"}, NEW c \in Terminal!Chunks
  PROVE  /\ Terminal!Decoded(h, c).chars \in Nat
         /\ Terminal!Decoded(h, c).held \in {"clean", "half"}
  BY DEF Terminal!Decoded, Terminal!Chunks

LEMMA WriteKeeps ==
  ASSUME TerminalInv, NEW chunk \in Terminal!Chunks, Terminal!Write(chunk)
  PROVE  TerminalInv' /\ Silent
<1>0. /\ TerminalTypes /\ HistoryInv /\ FramesApart /\ ViewInv /\ AttachingInv /\ GivenInv
      /\ written \in Nat /\ Chars \in SUBSET Nat
  BY TerminalFacts DEF TerminalInv, TerminalTypes
<1>a. PICK n \in Nat : n = Terminal!Decoded(decoder, chunk).chars
  BY <1>0, DecodedIs DEF TerminalTypes
<1>1. PICK v : v = [i \in 1..n |-> written + i]
  OBVIOUS
<1>2. PICK b : b = Terminal!AppendBounded(history, historyBytes, v)
  OBVIOUS
<1>3. /\ active /\ Len(stack) < MaxDepth /\ written + n <= MaxChars /\ written' = written + n
      /\ decoder' \in {"clean", "half"}
      /\ IF v = <<>>
           THEN UNCHANGED <<history, historyBytes, attaching, stack, shown>>
           ELSE /\ history' = b.value /\ historyBytes' = b.bytes
                /\ attaching' = IF attaching = None THEN None
                                ELSE [attaching EXCEPT !.pending = Append(@, v)]
                /\ IF view = None THEN UNCHANGED <<stack, shown>>
                   ELSE /\ Terminal!Give(view.view, v)
                        /\ stack' = Append(stack, Terminal!Frame("write", view.view, view.token, 0))
      /\ UNCHANGED <<active, view, latest, holders>>
  BY <1>0, <1>a, <1>1, <1>2, DecodedIs DEF Terminal!Write, TerminalTypes
<1>4. /\ v \in Seq(Chars) /\ Len(v) = n /\ EndsAt(v, written + n) /\ (v = <<>> <=> n = 0)
      /\ EndsAt(v, written + Len(v))
  <2>1. v \in Seq(Chars) /\ Len(v) = n /\ EndsAt(v, written + n) /\ (v = <<>> <=> n = 0)
    BY <1>0, <1>1, <1>3, ValueIs
  <2> QED BY <2>1
<1>5. CASE v = <<>>
  <2>1. written' = written /\ active' \in BOOLEAN
    BY <1>0, <1>3, <1>4, <1>5 DEF TerminalTypes
  <2> QED BY <1>3, <1>5, <2>1, TerminalSame
<1>6. CASE v # <<>>
  <2>0. n \in Nat \ {0}
    BY <1>4, <1>6
  <2>1. /\ history' = b.value /\ historyBytes' = b.bytes
        /\ attaching' = IF attaching = None THEN None
                        ELSE [attaching EXCEPT !.pending = Append(@, v)]
        /\ IF view = None THEN UNCHANGED <<stack, shown>>
           ELSE /\ Terminal!Give(view.view, v)
                /\ stack' = Append(stack, Terminal!Frame("write", view.view, view.token, 0))
    BY <1>3, <1>6
  <2>2. HistoryInv'
    <3>1. /\ b.value \in Seq(Chars) /\ EndsAt(b.value, written + Len(v))
          /\ b.bytes = Terminal!Utf8Length(b.value) /\ b.bytes <= Limit
      <4>1. /\ history \in Seq(Chars) /\ EndsAt(history, written)
            /\ Terminal!Utf8Length(history) <= Limit
            /\ b = Terminal!AppendBounded(history, Terminal!Utf8Length(history), v)
        BY <1>0, <1>2 DEF HistoryInv
      <4>2. Limit \in Nat /\ written \in Int
        BY <1>0, TerminalFacts
      <4>3. PICK e \in Int, s \in Seq(Chars) :
              /\ e = written /\ v \in Seq(Chars) /\ Chars \in SUBSET Nat /\ EndsAt(s, e) /\ EndsAt(v, e + Len(v))
              /\ Terminal!Utf8Length(s) <= Limit
              /\ b = Terminal!AppendBounded(s, Terminal!Utf8Length(s), v)
        BY <1>0, <1>4, <4>1, <4>2
      <4>4. /\ b.value \in Seq(Chars) /\ EndsAt(b.value, e + Len(v))
            /\ b.bytes = Terminal!Utf8Length(b.value) /\ b.bytes <= Limit
        BY <4>2, <4>3, BoundedIs
      <4> QED BY <4>3, <4>4
    <3> QED BY <1>3, <1>4, <2>1, <3>1 DEF HistoryInv, EndsAt, Chars
  <2>3. /\ stack' \in Seq(Frames) /\ Len(stack') <= MaxDepth /\ FramesFewer
    <3>1. CASE view = None
      BY <1>0, <2>1, <3>1 DEF TerminalTypes, FramesFewer, AttachFrame
    <3>2. CASE view # None
      <4>1. PICK f \in Frames : /\ f = Terminal!Frame("write", view.view, view.token, 0)
                                /\ f.op = "write"
        <5>1. PICK t \in 1..Len(holders), w \in Views : view.token = t /\ view.view = w
          BY <1>0, <3>2 DEF ViewInv
        <5>2. Len(holders) \in Nat
          BY <1>0 DEF TerminalTypes
        <5>3. t \in Nat
          BY <5>2
        <5>4. [op |-> "write", view |-> w, token |-> t, id |-> 0] \in Frames
          BY <5>3 DEF Frames
        <5> QED BY <5>1, <5>4 DEF Terminal!Frame
      <4> QED BY <1>0, <1>3, <2>1, <3>2, <4>1, StackGrows DEF FramesFewer
    <3> QED BY <3>1, <3>2
  <2>4. /\ shown' \in [Views -> Seq(Chars)]
        /\ \A u \in Views : shown'[u] = IF view # None /\ u = view.view THEN shown[u] \o v
                                        ELSE shown[u]
    <3>1. CASE view = None
      BY <1>0, <2>1, <3>1 DEF TerminalTypes
    <3>2. CASE view # None
      <4>1. PICK w \in Views : w = view.view
        BY <1>0, <3>2 DEF ViewInv
      <4>2. shown' = [shown EXCEPT ![w] = shown[w] \o v]
        BY <2>1, <3>2, <4>1 DEF Terminal!Give
      <4>3. shown \in [Views -> Seq(Chars)] /\ shown[w] \o v \in Seq(Chars)
        BY <1>0, <1>4, ConcatProperties DEF TerminalTypes
      <4> QED BY <3>2, <4>1, <4>2, <4>3
    <3> QED BY <3>1, <3>2
  <2>5. TerminalTypes'
    BY <1>0, <1>3, <2>3, <2>4, TerminalFacts DEF TerminalTypes, Chars
  <2>6. FramesApart'
    BY <1>0, <1>3, <2>3 DEF FramesApart, FramesFewer
  <2>7. attaching' # None => /\ attaching # None /\ attaching'.view = attaching.view
    BY <1>0, <2>1, AttachingIs
  <2>8. ViewInv'
    <3> SUFFICES ASSUME view # None PROVE ViewInv'
      BY <1>3 DEF ViewInv
    <3>1. PICK w \in Views : w = view.view
      BY <1>0 DEF ViewInv
    <3>2. EndsAt(shown[w] \o v, written + n)
      <4>1. EndsAt(shown[w], written) /\ shown[w] \in Seq(Chars)
        BY <1>0, <3>1 DEF ViewInv, TerminalTypes
      <4>2. EndsAt(shown[w] \o v, written + Len(v))
        <5>1. PICK e \in Int, s \in Seq(Chars) :
                e = written /\ s = shown[w] /\ EndsAt(s, e) /\ EndsAt(v, e + Len(v))
          BY <1>0, <1>4, <4>1
        <5>2. EndsAt(s \o v, e + Len(v))
          BY <1>0, <1>4, <5>1, EndsConcat
        <5> QED BY <5>1, <5>2
      <4> QED BY <1>4, <4>2
    <3>3. EndsAt(shown[w], written)'
      BY <1>3, <2>4, <3>1, <3>2 DEF EndsAt
    <3> QED BY <1>0, <1>3, <2>3, <2>7, <3>1, <3>3 DEF ViewInv, FramesFewer
  <2>9. AttachingInv' /\ GivenInv'
    <3>1. CASE attaching = None
      BY <2>1, <3>1 DEF AttachingInv, GivenInv
    <3>2. CASE attaching # None
      <4>1. PICK t \in 1..Len(holders), d \in 1..Len(holders), u \in Views, p \in Seq(Seq(Chars)) :
              /\ attaching = [token |-> t, id |-> d, view |-> u, pending |-> p]
              /\ latest[u] = t /\ holders[t] # "disposed" /\ Chain(p)
              /\ \A i : AttachFrame(i) /\ stack[i].id = t => d = t
        BY <1>0, <3>2, AttachingIs
      <4>2. PICK q \in Seq(Seq(Chars)) :
              /\ q = Append(p, v) /\ Chain(q)' /\ q # <<>>
              /\ p # <<>> => q[1] = p[1]
              /\ p = <<>> => q[1] = v
              /\ v[1] = written + 1
        BY <1>0, <1>3, <1>4, <2>0, <4>1, ChainAppends
      <4>3. attaching' = [token |-> t, id |-> d, view |-> u, pending |-> q]
        BY <2>1, <3>2, <4>1, <4>2
      <4>4. AttachingInv'
        BY <1>3, <2>3, <4>1, <4>2, <4>3 DEF AttachingInv, FramesFewer
      <4>5. shown'[u] = shown[u]
        BY <1>0, <2>4, <3>2, <4>1 DEF ViewInv
      <4>6. ASSUME NEW i, AttachFrame(i)', d = stack'[i].id
            PROVE  /\ stack'[i].view = u
                   /\ stack'[i].op = "drain" => EndsAt(shown'[u], LastOf(q[1]))
                   /\ stack'[i].op = "replay" => EndsAt(shown'[u], q[1][1] - 1)
        <5>1. AttachFrame(i) /\ stack'[i] = stack[i] /\ stack[i].id = d
          BY <2>3, <4>6 DEF FramesFewer
        <5>2. /\ stack[i].view = u
              /\ stack[i].op = "drain" => p # <<>> /\ EndsAt(shown[u], LastOf(p[1]))
              /\ stack[i].op = "replay" =>
                   EndsAt(shown[u], IF p = <<>> THEN written ELSE p[1][1] - 1)
          BY <1>0, <3>2, <4>1, <5>1 DEF GivenInv
        <5>3. p = <<>> => q[1][1] - 1 = written
          BY <1>0, <4>2
        <5> QED BY <4>2, <4>5, <5>1, <5>2, <5>3
      <4>7. GivenInv'
        BY <4>2, <4>3, <4>6 DEF GivenInv, EndsAt, LastOf
      <4> QED BY <4>4, <4>7
    <3> QED BY <3>1, <3>2
  <2>10. Silent
    BY <1>0, <1>3, <2>4 DEF Silent, ViewInv
  <2> QED BY <2>2, <2>5, <2>6, <2>8, <2>9, <2>10 DEF TerminalInv
<1> QED BY <1>5, <1>6

LEMMA HolderChanges ==
  ASSUME holders \in Seq(HolderStates), NEW k \in 1..Len(holders), NEW h \in HolderStates,
         holders' = [holders EXCEPT ![k] = h]
  PROVE  /\ holders' \in Seq(HolderStates) /\ Len(holders') = Len(holders)
         /\ \A j \in 1..Len(holders) : holders'[j] = IF j = k THEN h ELSE holders[j]
  BY ExceptSeq

LEMMA HolderAdded ==
  ASSUME TerminalTypes, Len(holders) < MaxTokens, NEW h \in HolderStates,
         holders' = Append(holders, h)
  PROVE  /\ holders' \in Seq(HolderStates) /\ Len(holders') = Len(holders) + 1
         /\ Len(holders') <= MaxTokens /\ Len(holders) \in Nat
         /\ \A j \in 1..Len(holders) : holders'[j] = holders[j] /\ j \in 1..Len(holders')
         /\ holders'[Terminal!NewToken] = h /\ Terminal!NewToken = Len(holders) + 1
         /\ Terminal!NewToken \in 1..Len(holders') /\ Terminal!NewToken \notin 1..Len(holders)
<1>1. /\ holders \in Seq(HolderStates) /\ Len(holders) \in Nat /\ MaxTokens \in Nat
  BY TerminalFacts DEF TerminalTypes, HolderStates
<1>2. /\ holders' \in Seq(HolderStates) /\ Len(holders') = Len(holders) + 1
      /\ \A j \in 1..Len(holders) : holders'[j] = holders[j]
      /\ holders'[Len(holders) + 1] = h
  BY <1>1
<1>3. Terminal!NewToken = Len(holders) + 1
  BY <1>1 DEF Terminal!NewToken
<1> QED BY <1>1, <1>2, <1>3

\* The innermost call.
LEMMA TopIs ==
  ASSUME TerminalTypes, FramesApart, stack # <<>>
  PROVE  /\ Len(stack) \in 1..Len(stack) /\ Terminal!Top = stack[Len(stack)]
         /\ Terminal!Top \in Frames
         /\ Terminal!Top.op # "write" => AttachFrame(Len(stack)) /\ Terminal!Top.id \in 1..Len(holders)
<1>1. Len(stack) \in 1..Len(stack) /\ Terminal!Top = stack[Len(stack)]
  BY EmptySeq DEF TerminalTypes, Terminal!Top
<1> QED BY <1>1, ElementOfSeq DEF TerminalTypes, FramesApart, AttachFrame

LEMMA EndsKeep ==
  ASSUME TerminalInv, stack # <<>>, stack' = Terminal!Front(stack),
         UNCHANGED <<active, decoder, history, historyBytes, shown, latest, written>>,
         view' \in {view, None}, attaching' \in {attaching, None},
         holders' \in Seq(HolderStates), Len(holders') = Len(holders),
         view' # None => holders'[view.token] # "disposed",
         attaching' # None => holders'[attaching.token] # "disposed"
  PROVE  TerminalInv' /\ Silent
<1>1. /\ stack' \in Seq(Frames) /\ Len(stack') <= MaxDepth /\ FramesApart' /\ FramesFewer
  BY StackShrinks DEF TerminalInv, FramesFewer, HolderStates
<1>2. active' \in BOOLEAN
  BY DEF TerminalInv, TerminalTypes
<1> QED BY <1>1, <1>2, TerminalLess

LEMMA ReturnKeeps ==
  ASSUME TerminalInv, Terminal!WriteReturns \/ Terminal!Superseded
  PROVE  TerminalInv' /\ Silent
<1>0. /\ TerminalTypes /\ FramesApart /\ ViewInv /\ AttachingInv
      /\ holders \in Seq(HolderStates)
  BY DEF TerminalInv, TerminalTypes, HolderStates
<1>1. CASE Terminal!WriteReturns
  <2>1. /\ stack # <<>> /\ stack' = Terminal!Front(stack) /\ view' = view /\ attaching' = attaching
        /\ holders' = holders
        /\ UNCHANGED <<active, decoder, history, historyBytes, shown, latest, written>>
    BY <1>1 DEF Terminal!WriteReturns
  <2>2. /\ view' # None => holders'[view.token] # "disposed"
        /\ attaching' # None => holders'[attaching.token] # "disposed"
    BY <1>0, <2>1 DEF ViewInv, AttachingInv
  <2> QED BY <1>0, <2>1, <2>2, EndsKeep
<1>2. CASE Terminal!Superseded
  <2>1. /\ stack # <<>> /\ stack' = Terminal!Front(stack) /\ view' = view /\ attaching' = attaching
        /\ Terminal!Top.op # "write" /\ holders' = [holders EXCEPT ![Terminal!Top.id] = "held"]
        /\ UNCHANGED <<active, decoder, history, historyBytes, shown, latest, written>>
    BY <1>2 DEF Terminal!Superseded
  <2>2. /\ holders' \in Seq(HolderStates) /\ Len(holders') = Len(holders)
        /\ \A j \in 1..Len(holders) : holders[j] # "disposed" => holders'[j] # "disposed"
    BY <1>0, <2>1, TopIs, HolderChanges DEF HolderStates
  <2>3. /\ view' # None => holders'[view.token] # "disposed"
        /\ attaching' # None => holders'[attaching.token] # "disposed"
    BY <1>0, <2>1, <2>2 DEF ViewInv, AttachingInv
  <2> QED BY <2>1, <2>2, <2>3, EndsKeep
<1> QED BY <1>1, <1>2

LEMMA ThrowKeeps ==
  ASSUME TerminalInv, Terminal!Throw
  PROVE  TerminalInv' /\ Silent
<1>0. /\ TerminalTypes /\ FramesApart /\ ViewInv /\ AttachingInv
      /\ holders \in Seq(HolderStates)
  BY DEF TerminalInv, TerminalTypes, HolderStates
<1>1. /\ stack # <<>> /\ stack' = Terminal!Front(stack)
      /\ UNCHANGED <<active, decoder, history, historyBytes, shown, latest, written>>
  BY DEF Terminal!Throw
<1>2. CASE Terminal!Top.op = "write"
  <2>1. view' \in {view, None} /\ attaching' = attaching /\ holders' = holders
    BY <1>2 DEF Terminal!Throw
  <2>2. /\ view' # None => holders'[view.token] # "disposed"
        /\ attaching' # None => holders'[attaching.token] # "disposed"
    BY <1>0, <2>1 DEF ViewInv, AttachingInv
  <2> QED BY <1>0, <1>1, <2>1, <2>2, EndsKeep
<1>3. CASE Terminal!Top.op # "write"
  <2>1. /\ view' = view /\ attaching' = (IF Terminal!Mine(Terminal!Top.id) THEN None ELSE attaching)
        /\ holders' = [holders EXCEPT ![Terminal!Top.id] = "disposed"]
    BY <1>3 DEF Terminal!Throw
  <2>2. PICK k \in 1..Len(holders) : k = Terminal!Top.id /\ AttachFrame(Len(stack))
                                     /\ stack[Len(stack)].id = k
    BY <1>0, <1>1, <1>3, TopIs
  <2>3. /\ holders' \in Seq(HolderStates) /\ Len(holders') = Len(holders)
        /\ \A j \in 1..Len(holders) : j # k => holders'[j] = holders[j]
    BY <1>0, <2>1, <2>2, HolderChanges DEF HolderStates
  <2>4. view' # None => holders'[view.token] # "disposed"
    BY <1>0, <2>1, <2>2, <2>3 DEF ViewInv
  <2>5. attaching' # None => holders'[attaching.token] # "disposed"
    BY <1>0, <2>1, <2>2, <2>3 DEF AttachingInv, Terminal!Mine
  <2> QED BY <1>1, <2>1, <2>3, <2>4, <2>5, EndsKeep
<1> QED BY <1>2, <1>3

LEMMA DetachKeeps ==
  ASSUME TerminalInv, NEW t \in DOMAIN holders,
         Terminal!DisposeAttachment(t) \/ Terminal!Unmount(t) \/ Terminal!MountSettles(t)
  PROVE  TerminalInv' /\ Silent
<1>0. /\ TerminalTypes /\ FramesApart /\ ViewInv /\ AttachingInv
      /\ holders \in Seq(HolderStates) /\ t \in 1..Len(holders)
      /\ stack \in Seq(Frames) /\ Len(stack) <= MaxDepth
  BY DEF TerminalInv, TerminalTypes, HolderStates
<1>1. /\ UNCHANGED <<active, decoder, history, historyBytes, stack, shown, latest, written>>
      /\ active' \in BOOLEAN
  BY <1>0 DEF Terminal!DisposeAttachment, Terminal!Unmount, Terminal!MountSettles, TerminalTypes
<1>2. FramesFewer
  BY <1>1 DEF FramesFewer, AttachFrame
<1>3. PICK h \in HolderStates :
        /\ holders' = [holders EXCEPT ![t] = h]
        /\ h = "disposed" => Terminal!Detached(t)
        /\ h # "disposed" => view' = view /\ attaching' = attaching
  BY DEF Terminal!DisposeAttachment, Terminal!Unmount, Terminal!MountSettles, HolderStates
<1>4. /\ holders' \in Seq(HolderStates) /\ Len(holders') = Len(holders)
      /\ \A j \in 1..Len(holders) : holders'[j] = IF j = t THEN h ELSE holders[j]
  BY <1>0, <1>3, HolderChanges
<1>5. FramesApart'
  BY <1>0, <1>1, <1>4 DEF FramesApart, AttachFrame
<1>6. /\ view' \in {view, None} /\ attaching' \in {attaching, None}
      /\ view' # None => view.token # t \/ h # "disposed"
      /\ attaching' # None => attaching.token # t \/ h # "disposed"
  BY <1>3 DEF Terminal!Detached
<1>7. view' # None => holders'[view.token] # "disposed"
  BY <1>0, <1>4, <1>6 DEF ViewInv
<1>8. attaching' # None => holders'[attaching.token] # "disposed"
  BY <1>0, <1>4, <1>6 DEF AttachingInv
<1> QED BY <1>0, <1>1, <1>2, <1>4, <1>5, <1>6, <1>7, <1>8, TerminalLess

LEMMA PublishKeeps ==
  ASSUME TerminalInv, Terminal!Publish
  PROVE  TerminalInv' /\ Silent
<1>0. /\ TerminalTypes /\ HistoryInv /\ FramesApart /\ ViewInv /\ AttachingInv /\ GivenInv
      /\ holders \in Seq(HolderStates)
  BY DEF TerminalInv, TerminalTypes, HolderStates
<1>1. /\ stack # <<>> /\ Terminal!Top.op # "write" /\ stack' = Terminal!Front(stack)
      /\ attaching # None /\ attaching.id = Terminal!Top.id /\ Terminal!Pending = <<>>
      /\ view' = [token |-> attaching.token, view |-> Terminal!Top.view] /\ attaching' = None
      /\ holders' = [holders EXCEPT ![Terminal!Top.id] = "held"]
      /\ UNCHANGED <<active, decoder, history, historyBytes, shown, latest, written>>
  BY DEF Terminal!Publish, Terminal!Mine
<1>2. PICK t \in 1..Len(holders), d \in 1..Len(holders), u \in Views, p \in Seq(Seq(Chars)) :
        /\ attaching = [token |-> t, id |-> d, view |-> u, pending |-> p]
        /\ latest[u] = t /\ holders[t] # "disposed" /\ Chain(p)
        /\ \A i : AttachFrame(i) /\ stack[i].id = t => d = t
  BY <1>0, <1>1, AttachingIs
<1>3. /\ AttachFrame(Len(stack)) /\ stack[Len(stack)].id = d /\ Terminal!Top = stack[Len(stack)]
  BY <1>0, <1>1, <1>2, TopIs
<1>4. /\ Terminal!Top.view = u
      /\ Terminal!Top.op = "drain" => p # <<>> /\ EndsAt(shown[u], LastOf(p[1]))
      /\ Terminal!Top.op = "replay" =>
           EndsAt(shown[u], IF p = <<>> THEN written ELSE p[1][1] - 1)
  BY <1>0, <1>1, <1>2, <1>3 DEF GivenInv
<1>5. EndsAt(shown[u], written)
  <2>1. Terminal!Top.op \in {"drain", "replay"}
    BY <1>0, <1>1, TopIs DEF Frames
  <2>2. CASE Terminal!Top.op = "drain"
    <3>1. Tail(p) = <<>> /\ p # <<>>
      BY <1>1, <1>2, <1>4, <2>2 DEF Terminal!Pending
    <3>2. LastOf(p[1]) = written
      BY <1>1, <1>2, <3>1, ChainDrops
    <3> QED BY <1>4, <2>2, <3>2
  <2>3. CASE Terminal!Top.op = "replay"
    <3>1. p = <<>>
      BY <1>1, <1>2, <2>3 DEF Terminal!Pending
    <3> QED BY <1>4, <2>3, <3>1
  <2> QED BY <2>1, <2>2, <2>3
<1>6. /\ holders' \in Seq(HolderStates) /\ Len(holders') = Len(holders)
      /\ holders'[t] # "disposed"
  BY <1>0, <1>1, <1>2, HolderChanges DEF HolderStates
<1>7. /\ stack' \in Seq(Frames) /\ Len(stack') <= MaxDepth /\ FramesApart'
      /\ \A i : AttachFrame(i)' => AttachFrame(i) /\ stack'[i] = stack[i] /\ i # Len(stack)
  BY <1>0, <1>1, <1>6, StackShrinks DEF HolderStates
<1>8. TerminalTypes' /\ HistoryInv' /\ Silent
  BY <1>0, <1>1, <1>6, <1>7 DEF TerminalTypes, HistoryInv, EndsAt, Silent, HolderStates
<1>9. ASSUME NEW i, AttachFrame(i)' PROVE stack'[i].id # t
  BY <1>0, <1>2, <1>3, <1>7, <1>9 DEF FramesApart
<1>10. ViewInv'
  <2>1. view' = [token |-> t, view |-> u]
    BY <1>1, <1>2, <1>4
  <2> QED BY <1>1, <1>2, <1>5, <1>6, <1>9, <2>1 DEF ViewInv, EndsAt
<1>11. AttachingInv' /\ GivenInv'
  BY <1>1 DEF AttachingInv, GivenInv
<1> QED BY <1>7, <1>8, <1>10, <1>11 DEF TerminalInv

LEMMA FrameDrains ==
  ASSUME NEW g \in Frames
  PROVE  /\ [g EXCEPT !.op = "drain"] \in Frames /\ [g EXCEPT !.op = "drain"].op = "drain"
         /\ [g EXCEPT !.op = "drain"].id = g.id /\ [g EXCEPT !.op = "drain"].view = g.view
  BY DEF Frames

LEMMA DrainKeeps ==
  ASSUME TerminalInv, Terminal!Drain
  PROVE  TerminalInv' /\ Silent
<1>0. /\ TerminalTypes /\ HistoryInv /\ FramesApart /\ ViewInv /\ AttachingInv /\ GivenInv
      /\ written \in Nat
  BY DEF TerminalInv, TerminalTypes
<1>1. /\ stack # <<>> /\ Terminal!Top.op # "write" /\ active
      /\ attaching # None /\ attaching.id = Terminal!Top.id /\ Terminal!Pending # <<>>
      /\ attaching' = [attaching EXCEPT !.pending = Terminal!Pending]
      /\ Terminal!Give(Terminal!Top.view, Head(Terminal!Pending))
      /\ stack' = [stack EXCEPT ![Len(stack)].op = "drain"]
      /\ UNCHANGED <<active, decoder, history, historyBytes, view, latest, holders, written>>
  BY DEF Terminal!Drain, Terminal!Mine
<1>2. PICK t \in 1..Len(holders), d \in 1..Len(holders), u \in Views, p \in Seq(Seq(Chars)) :
        /\ attaching = [token |-> t, id |-> d, view |-> u, pending |-> p]
        /\ latest[u] = t /\ holders[t] # "disposed" /\ Chain(p)
        /\ \A i : AttachFrame(i) /\ stack[i].id = t => d = t
  BY <1>0, <1>1, AttachingIs
<1>3. /\ AttachFrame(Len(stack)) /\ stack[Len(stack)].id = d /\ Terminal!Top = stack[Len(stack)]
      /\ Terminal!Top \in Frames /\ Len(stack) \in 1..Len(stack)
  BY <1>0, <1>1, <1>2, TopIs
<1>4. /\ Terminal!Top.view = u
      /\ Terminal!Top.op = "drain" => p # <<>> /\ EndsAt(shown[u], LastOf(p[1]))
      /\ Terminal!Top.op = "replay" =>
           EndsAt(shown[u], IF p = <<>> THEN written ELSE p[1][1] - 1)
  BY <1>0, <1>1, <1>2, <1>3 DEF GivenInv
<1>5. PICK q \in Seq(Seq(Chars)) :
        q = Terminal!Pending /\ Chain(q) /\ Chain(q)' /\ q # <<>> /\ EndsAt(shown[u], q[1][1] - 1)
  <2>1. Terminal!Top.op \in {"drain", "replay"}
    BY <1>1, <1>3 DEF Frames
  <2>2. CASE Terminal!Top.op = "drain"
    <3>1. p # <<>> /\ Terminal!Pending = Tail(p) /\ Tail(p) # <<>>
      BY <1>1, <1>2, <1>4, <2>2 DEF Terminal!Pending
    <3>2. Tail(p) \in Seq(Seq(Chars)) /\ Chain(Tail(p))' /\ Tail(p)[1][1] = LastOf(p[1]) + 1
      BY <1>1, <1>2, <3>1, ChainDrops
    <3>3. LastOf(p[1]) \in Nat
      <4>1. PICK v \in Seq(Chars) : v = p[1] /\ Len(v) > 0
        BY <1>2, <3>1 DEF Chain
      <4>2. Len(v) \in 1..Len(v)
        BY <4>1
      <4> QED BY <4>1, <4>2, ElementOfSeq, TerminalFacts DEF LastOf
    <3>4. EndsAt(shown[u], Tail(p)[1][1] - 1)
      <4>1. Tail(p)[1][1] - 1 = LastOf(p[1])
        <5>1. PICK x \in Nat : x = LastOf(p[1])
          BY <3>3
        <5>2. Tail(p)[1][1] = x + 1
          BY <3>2, <5>1
        <5>3. (x + 1) - 1 = x
          OBVIOUS
        <5> QED BY <5>1, <5>2, <5>3
      <4> QED BY <1>4, <2>2, <4>1
    <3>5. Chain(Tail(p))
      BY <1>1, <3>2 DEF Chain
    <3> QED BY <3>1, <3>2, <3>4, <3>5
  <2>3. CASE Terminal!Top.op = "replay"
    <3>1. Terminal!Pending = p /\ p # <<>>
      BY <1>1, <1>2, <2>3 DEF Terminal!Pending
    <3>2. Chain(p)'
      BY <1>1, <1>2 DEF Chain
    <3> QED BY <1>2, <1>4, <2>3, <3>1, <3>2
  <2> QED BY <2>1, <2>2, <2>3
<1>6. PICK s \in Seq(Chars) : s = shown[u]
  BY <1>0 DEF TerminalTypes
<1>7. s \o q[1] \in Seq(Chars) /\ EndsAt(s \o q[1], LastOf(q[1]))
  BY <1>5, <1>6, ChainGives
<1>8. /\ shown' \in [Views -> Seq(Chars)] /\ shown'[u] = s \o q[1]
      /\ \A v \in Views : v # u => shown'[v] = shown[v]
  <2>1. Head(q) = q[1]
    OBVIOUS
  <2>2. shown' = [shown EXCEPT ![u] = s \o q[1]]
    BY <1>1, <1>4, <1>5, <1>6, <2>1 DEF Terminal!Give
  <2> QED BY <1>0, <1>7, <2>2 DEF TerminalTypes
<1>9. attaching' = [token |-> t, id |-> d, view |-> u, pending |-> q]
  BY <1>1, <1>2, <1>5
<1>10. /\ stack' \in Seq(Frames) /\ Len(stack') = Len(stack)
       /\ \A i \in 1..Len(stack) : /\ stack'[i].id = stack[i].id /\ stack'[i].view = stack[i].view
                                   /\ stack'[i].op = IF i = Len(stack) THEN "drain" ELSE stack[i].op
  <2>1. PICK k \in 1..Len(stack) : k = Len(stack)
    BY <1>3
  <2>2. PICK f \in Frames : /\ f = [stack[k] EXCEPT !.op = "drain"] /\ f.op = "drain"
                            /\ f.id = stack[k].id /\ f.view = stack[k].view
    <3>1. PICK g \in Frames : g = stack[k]
      BY <1>3, <2>1
    <3> QED BY <3>1, FrameDrains
  <2>3. stack' = [stack EXCEPT ![k] = f]
    BY <1>1, <2>1, <2>2
  <2>4. /\ stack' \in Seq(Frames) /\ Len(stack') = Len(stack)
        /\ \A i \in 1..Len(stack) : stack'[i] = IF i = k THEN f ELSE stack[i]
    BY <1>0, <2>3, ExceptSeq DEF TerminalTypes
  <2> QED BY <2>1, <2>2, <2>4
<1>11. \A i : AttachFrame(i)' => AttachFrame(i) /\ stack'[i].id = stack[i].id
  BY <1>3, <1>10 DEF AttachFrame
<1>12. TerminalTypes' /\ HistoryInv' /\ FramesApart'
  BY <1>0, <1>1, <1>8, <1>10, <1>11 DEF TerminalTypes, HistoryInv, EndsAt, FramesApart
<1>13. ViewInv'
  BY <1>0, <1>1, <1>2, <1>8, <1>9, <1>11, ZenonT(30) DEF ViewInv, EndsAt
<1>14. AttachingInv'
  BY <1>1, <1>2, <1>5, <1>9, <1>11 DEF AttachingInv
<1>15. ASSUME NEW i, AttachFrame(i)', d = stack'[i].id
       PROVE  i = Len(stack) /\ stack'[i].view = u /\ stack'[i].op = "drain"
  <2>1. i = Len(stack)
    BY <1>0, <1>3, <1>11, <1>15 DEF FramesApart
  <2> QED BY <1>3, <1>4, <1>10, <2>1
<1>16. GivenInv'
  <2>1. EndsAt(shown'[u], LastOf(q[1]))
    BY <1>7, <1>8
  <2> QED BY <1>5, <1>9, <1>15, <2>1 DEF GivenInv, EndsAt, LastOf
<1>17. Silent
  BY <1>1, <1>2, <1>8 DEF Silent
<1> QED BY <1>12, <1>13, <1>14, <1>16, <1>17 DEF TerminalInv

LEMMA AttachKeeps ==
  ASSUME TerminalInv, NEW v \in Views, Terminal!Attach(v)
  PROVE  TerminalInv' /\ Silent
<1>0. /\ TerminalTypes /\ HistoryInv /\ FramesApart /\ ViewInv /\ AttachingInv /\ GivenInv
      /\ written \in Nat
  BY DEF TerminalInv, TerminalTypes
<1>1. /\ active /\ Len(stack) < MaxDepth /\ Len(holders) < MaxTokens
      /\ latest' = [latest EXCEPT ![v] = Terminal!NewToken]
      /\ UNCHANGED <<active, decoder, history, historyBytes, written>>
  BY DEF Terminal!Attach
<1>2. PICK h \in HolderStates : h # "disposed" /\ holders' = Append(holders, h)
  BY DEF Terminal!Attach, HolderStates
<1> DEFINE N == Terminal!NewToken
<1>3. /\ holders' \in Seq(HolderStates) /\ Len(holders') = Len(holders) + 1
      /\ Len(holders') <= MaxTokens /\ Len(holders) \in Nat
      /\ \A j \in 1..Len(holders) : holders'[j] = holders[j] /\ j \in 1..Len(holders')
      /\ holders'[N] = h /\ N \in 1..Len(holders') /\ N \notin 1..Len(holders) /\ N \in Nat
  BY <1>0, <1>1, <1>2, HolderAdded
<1> HIDE DEF N
<1>4. /\ latest' \in [Views -> Nat] /\ latest'[v] = N
      /\ \A u \in Views : u # v => latest'[u] = latest[u]
  BY <1>0, <1>1, <1>3 DEF TerminalTypes, N
<1>5. HistoryInv'
  BY <1>0, <1>1 DEF HistoryInv, EndsAt
<1>6. ASSUME stack' = stack, shown' = shown
      PROVE  TerminalTypes' /\ FramesApart' /\ Silent /\ FramesFewer
             /\ \A i : AttachFrame(i)' => stack'[i].id # N
  <2>1. FramesFewer
    BY <1>6 DEF FramesFewer, AttachFrame
  <2>2. TerminalTypes' /\ Silent
    BY <1>0, <1>1, <1>3, <1>4, <1>6 DEF TerminalTypes, Silent, HolderStates
  <2>3. FramesApart'
    BY <1>0, <1>3, <2>1 DEF FramesApart, FramesFewer
  <2>4. \A i : AttachFrame(i)' => stack'[i].id # N
    BY <1>0, <1>3, <2>1 DEF FramesApart, FramesFewer
  <2> QED BY <2>1, <2>2, <2>3, <2>4
<1>7. CASE attaching # None /\ attaching.view = v
  <2>1. /\ attaching' = [attaching EXCEPT !.token = N]
        /\ view' = view /\ stack' = stack /\ shown' = shown
    BY <1>7 DEF Terminal!Attach, N
  <2>2. PICK t \in 1..Len(holders), d \in 1..Len(holders), u \in Views, p \in Seq(Seq(Chars)) :
          /\ attaching = [token |-> t, id |-> d, view |-> u, pending |-> p]
          /\ Chain(p)
    BY <1>0, <1>7, AttachingIs
  <2>3. attaching' = [token |-> N, id |-> d, view |-> v, pending |-> p]
    BY <1>7, <2>1, <2>2
  <2>4. /\ TerminalTypes' /\ FramesApart' /\ Silent /\ FramesFewer
        /\ \A i : AttachFrame(i)' => stack'[i].id # N
    BY <1>6, <2>1
  <2>5. ViewInv'
    BY <1>0, <1>1, <1>3, <1>4, <1>7, <2>1, <2>2, <2>3, <2>4 DEF ViewInv, FramesFewer, EndsAt
  <2>6. Chain(p)'
    BY <1>1, <2>2 DEF Chain
  <2>7. AttachingInv'
    BY <1>2, <1>3, <1>4, <2>2, <2>3, <2>4, <2>6 DEF AttachingInv
  <2>8. GivenInv'
    BY <1>0, <1>1, <1>7, <2>1, <2>2, <2>3, <2>4 DEF GivenInv, FramesFewer, EndsAt, LastOf
  <2> QED BY <1>5, <2>4, <2>5, <2>7, <2>8 DEF TerminalInv
<1>8. CASE ~(attaching # None /\ attaching.view = v) /\ view # None /\ view.view = v
  <2>1. /\ attaching' = None /\ view' = [token |-> N, view |-> v] /\ stack' = stack /\ shown' = shown
    BY <1>8 DEF Terminal!Attach, N
  <2>2. /\ TerminalTypes' /\ FramesApart' /\ Silent /\ FramesFewer
        /\ \A i : AttachFrame(i)' => stack'[i].id # N
    BY <1>6, <2>1
  <2>3. EndsAt(shown[v], written)
    BY <1>0, <1>8 DEF ViewInv
  <2>4. ViewInv'
    BY <1>1, <1>2, <1>3, <1>4, <2>1, <2>2, <2>3 DEF ViewInv, EndsAt
  <2>5. AttachingInv' /\ GivenInv'
    BY <2>1 DEF AttachingInv, GivenInv
  <2> QED BY <1>5, <2>2, <2>4, <2>5 DEF TerminalInv
<1>9. CASE ~(attaching # None /\ attaching.view = v) /\ ~(view # None /\ view.view = v)
  <2>1. /\ attaching' = [token |-> N, id |-> N, view |-> v, pending |-> <<>>]
        /\ shown' = [shown EXCEPT ![v] = history]
        /\ stack' = Append(stack, Terminal!Frame("replay", v, N, N)) /\ view' = view
    BY <1>9 DEF Terminal!Attach, N
  <2>2. PICK f \in Frames : /\ f = Terminal!Frame("replay", v, N, N)
                            /\ f.op = "replay" /\ f.view = v /\ f.id = N
    <3>1. [op |-> "replay", view |-> v, token |-> N, id |-> N] \in Frames
      BY <1>3 DEF Frames
    <3> QED BY <3>1 DEF Terminal!Frame
  <2>3. /\ stack' \in Seq(Frames) /\ Len(stack') <= MaxDepth /\ Len(stack') = Len(stack) + 1
        /\ \A i : AttachFrame(i)' => \/ AttachFrame(i) /\ stack'[i] = stack[i]
                                     \/ i = Len(stack) + 1 /\ stack'[i] = f
    BY <1>0, <1>1, <2>1, <2>2, StackGrows
  <2>4. \A i : AttachFrame(i) => stack[i].id \in 1..Len(holders) /\ stack[i].id # N
    BY <1>0, <1>3 DEF FramesApart
  <2>5. FramesApart'
    BY <1>0, <1>3, <2>2, <2>3, <2>4 DEF FramesApart
  <2>6. /\ shown' \in [Views -> Seq(Chars)] /\ shown'[v] = history
        /\ \A u \in Views : u # v => shown'[u] = shown[u]
    BY <1>0, <2>1 DEF TerminalTypes, HistoryInv
  <2>7. TerminalTypes'
    BY <1>0, <1>1, <1>3, <1>4, <2>3, <2>6 DEF TerminalTypes, HolderStates
  <2>8. ViewInv'
    <3> SUFFICES ASSUME view # None PROVE ViewInv'
      BY <2>1 DEF ViewInv
    <3>1. PICK t \in 1..Len(holders), w \in Views :
            /\ view = [token |-> t, view |-> w] /\ w # v
            /\ EndsAt(shown[w], written) /\ latest[w] = t /\ holders[t] # "disposed"
            /\ \A i : AttachFrame(i) => stack[i].id # t
      BY <1>0, <1>9 DEF ViewInv
    <3>2. \A i : AttachFrame(i)' => stack'[i].id # t
      BY <1>3, <2>2, <2>3, <3>1
    <3>3. EndsAt(shown[w], written)'
      BY <1>1, <2>6, <3>1 DEF EndsAt
    <3> QED BY <1>3, <1>4, <2>1, <3>1, <3>2, <3>3 DEF ViewInv
  <2>9. AttachingInv'
    <3>1. <<>> \in Seq(Seq(Chars)) /\ Chain(<<>>)'
      BY EmptySeq DEF Chain
    <3>2. attaching' \in [token : 1..Len(holders'), id : 1..Len(holders'), view : Views,
                          pending : Seq(Seq(Chars))]
      BY <1>3, <2>1, <3>1
    <3> QED BY <1>2, <1>3, <1>4, <2>1, <2>2, <2>3, <2>4, <3>1, <3>2 DEF AttachingInv
  <2>10. GivenInv'
    <3>1. ASSUME NEW i, AttachFrame(i)', N = stack'[i].id
          PROVE  stack'[i] = f
      BY <2>3, <2>4, <3>1
    <3>2. EndsAt(shown'[v], written')
      BY <1>0, <1>1, <2>6 DEF HistoryInv
    <3> QED BY <2>1, <2>2, <3>1, <3>2 DEF GivenInv, EndsAt
  <2>11. Silent
    BY <1>1, <1>2, <1>3, <1>4, <2>6 DEF Silent
  <2> QED BY <1>5, <2>5, <2>7, <2>8, <2>9, <2>10, <2>11 DEF TerminalInv
<1> QED BY <1>7, <1>8, <1>9

LEMMA TerminalKeeps ==
  ASSUME TerminalInv, [Terminal!Next]_(Terminal!terminalVars)
  PROVE  TerminalInv' /\ [Silent]_(Terminal!terminalVars)
<1>1. CASE UNCHANGED Terminal!terminalVars
  <2>1. /\ UNCHANGED <<history, historyBytes, view, attaching, stack, shown, latest, holders, written>>
        /\ active' = active /\ decoder' = decoder
    BY <1>1 DEF Terminal!terminalVars
  <2> QED BY <1>1, <2>1, TerminalSame DEF TerminalInv, TerminalTypes
<1>2. ASSUME Terminal!Dispose PROVE TerminalInv' /\ Silent
  <2>1. /\ UNCHANGED <<history, historyBytes, view, attaching, stack, shown, latest, holders, written>>
        /\ active' \in BOOLEAN /\ decoder' = decoder
    BY <1>2 DEF Terminal!Dispose
  <2> QED BY <2>1, TerminalSame DEF TerminalInv, TerminalTypes
<1> QED BY <1>1, <1>2, WriteKeeps, AttachKeeps, ReturnKeeps, DrainKeeps, PublishKeeps, ThrowKeeps,
           DetachKeeps
        DEF Terminal!Next

LEMMA TerminalSays ==
  TerminalInv => Terminal!TypeOK /\ Terminal!ViewFollowsOutput /\ Terminal!HistoryBounded
<1> SUFFICES ASSUME TerminalInv
             PROVE  Terminal!TypeOK /\ Terminal!ViewFollowsOutput /\ Terminal!HistoryBounded
  OBVIOUS
<1>0. /\ TerminalTypes /\ HistoryInv /\ ViewInv /\ AttachingInv
  BY DEF TerminalInv
<1>1. \A j \in 1..Len(holders) : j \in 1..MaxTokens
  BY <1>0, TerminalFacts DEF TerminalTypes
<1>2. view = None \/ view \in [token : 1..MaxTokens, view : Views]
  BY <1>0, <1>1 DEF ViewInv
<1>3. \A t \in DOMAIN holders : holders[t] \in {"attaching", "held", "unmounted", "disposed"}
  BY <1>0 DEF TerminalTypes
<1>4. attaching = None \/ attaching.view \in Views
  BY <1>0, AttachingIs
<1>5. Terminal!TypeOK
  BY <1>0, <1>2, <1>3, <1>4 DEF Terminal!TypeOK, TerminalTypes, HistoryInv, Chars
<1>6. Terminal!ViewFollowsOutput
  BY <1>0 DEF ViewInv, EndsAt, Terminal!ViewFollowsOutput
<1> QED BY <1>0, <1>5, <1>6 DEF Terminal!HistoryBounded, HistoryInv

LEMMA StepOfTerminal == [Next]_vars => [Terminal!Next]_(Terminal!terminalVars)
  BY DEF Next, vars, terminalVars, Terminal!terminalVars, HttpStep, DownloadStep, TerminalStep,
         CommandsStep, GesturesStep, PageStep, FilesStep, SourceStep

\* For any views, limit, characters and nesting of calls: the attached view was given all the
\* output since the history it began with, the history stays within its limit, and a view
\* whose attachment is disposed of is given nothing.
THEOREM TerminalIsSound == Spec => TerminalSound
<1>1. Init => TerminalInv
  BY TerminalInitially DEF Init
<1>2. TerminalInv /\ [Next]_vars => TerminalInv' /\ [Silent]_(Terminal!terminalVars)
  BY TerminalKeeps, StepOfTerminal
<1>3. TerminalInv =>
        (part = "terminal" =>
           Terminal!TypeOK /\ Terminal!ViewFollowsOutput /\ Terminal!HistoryBounded)
  BY TerminalSays
<1> QED BY <1>1, <1>2, <1>3, PTL DEF Spec, TerminalSound, Terminal!DetachedIsSilent, Silent

-----------------------------------------------------------------------------
(* The panes and their tabs (Workbench).                                    *)

LEMMA RankIs ==
  ASSUME NEW places, NEW i
  PROVE  /\ Page!Cardinality(places) = Cardinality(places)
         /\ Page!Rank(places, i) = Cardinality({j \in places : j <= i})
<1>1. \A S : Page!Cardinality(S) = Cardinality(S)
  BY DEF Page!Cardinality, Cardinality
<1> QED BY <1>1 DEF Page!Rank

LEMMA RankBounds ==
  ASSUME NEW n \in Nat, NEW places \in SUBSET (1..n)
  PROVE  /\ IsFiniteSet(places) /\ Cardinality(places) \in Nat
         /\ \A i \in places : Page!Rank(places, i) \in 1..Cardinality(places)
<1>1. IsFiniteSet(places) /\ Cardinality(places) \in Nat
  <2>1. IsFiniteSet(1..n)
    BY FS_Interval
  <2>2. IsFiniteSet(places)
    BY <2>1, FS_Subset
  <2> QED BY <2>2, FS_CardinalityType
<1>2. ASSUME NEW i \in places PROVE Page!Rank(places, i) \in 1..Cardinality(places)
  <2> DEFINE upTo == {j \in places : j <= i}
  <2>1. IsFiniteSet(upTo) /\ Cardinality(upTo) <= Cardinality(places)
    BY <1>1, FS_Subset
  <2>2. Cardinality(upTo) \in Nat /\ Cardinality(upTo) # 0
    <3>1. i \in upTo
      OBVIOUS
    <3> HIDE DEF upTo
    <3> QED BY <2>1, <3>1, FS_EmptySet, FS_CardinalityType
  <2>3. Page!Rank(places, i) = Cardinality(upTo)
    BY RankIs
  <2> HIDE DEF upTo
  <2> QED BY <1>1, <2>1, <2>2, <2>3
<1> QED BY <1>1, <1>2

\* The ranks of some places are the numbers from 1 to as many as there are.
LEMMA RankIsBijection ==
  ASSUME NEW n \in Nat, NEW places \in SUBSET (1..n)
  PROVE  /\ \A k \in 1..Cardinality(places) :
              Page!Nth(places, k) \in places /\ Page!Rank(places, Page!Nth(places, k)) = k
         /\ \A i \in places : Page!Nth(places, Page!Rank(places, i)) = i
<1> DEFINE c == Cardinality(places)
           rank == [i \in places |-> Page!Rank(places, i)]
<1>0. IsFiniteSet(places) /\ c \in Nat /\ rank \in [places -> 1..c]
  BY RankBounds
<1>1. ASSUME NEW i \in places, NEW j \in places, i < j
      PROVE  Page!Rank(places, i) # Page!Rank(places, j)
  <2> DEFINE below == {m \in places : m <= i}
             upTo == {m \in places : m <= j}
  <2>1. IsFiniteSet(upTo) /\ below \in SUBSET upTo /\ j \in upTo /\ j \notin below
    <3>1. upTo \in SUBSET places
      OBVIOUS
    <3>2. IsFiniteSet(upTo)
      BY <1>0, <3>1, FS_Subset
    <3>3. i \in Nat /\ j \in Nat /\ \A m \in places : m \in Nat
      OBVIOUS
    <3>4. below \in SUBSET upTo
      <4>1. \A m \in places : m <= i => m <= j
        BY <1>1, <3>3
      <4> QED BY <4>1, Zenon
    <3>5. j \in upTo /\ j \notin below
      BY <1>1, <3>3
    <3> QED BY <3>2, <3>4, <3>5
  <2>2. Cardinality(upTo) # Cardinality(below)
    <3> HIDE DEF below, upTo
    <3> QED BY <2>1, FS_Subset
  <2>3. Page!Rank(places, i) = Cardinality(below) /\ Page!Rank(places, j) = Cardinality(upTo)
    BY RankIs
  <2> HIDE DEF below, upTo
  <2> QED BY <2>2, <2>3
<1>2. \A i, j \in places : Page!Rank(places, i) = Page!Rank(places, j) => i = j
  <2> SUFFICES ASSUME NEW i \in places, NEW j \in places, i # j
               PROVE  Page!Rank(places, i) # Page!Rank(places, j)
    OBVIOUS
  <2>1. i < j \/ j < i
    OBVIOUS
  <2> QED BY <2>1, <1>1
<1>3. rank \in Injection(places, 1..c)
  <2>1. \A i, j \in places : rank[i] = rank[j] => i = j
    BY <1>2
  <2> HIDE DEF rank
  <2> QED BY <1>0, <2>1 DEF Injection, IsInjective
<1>4. IsFiniteSet(1..c) /\ Cardinality(1..c) = c
  BY <1>0, FS_Interval
<1>5. rank \in Surjection(places, 1..c)
  BY <1>3, <1>4, FS_Injection
<1>6. \A k \in 1..c : \E i \in places : Page!Rank(places, i) = k
  BY <1>5 DEF Surjection
<1>7. ASSUME NEW k \in 1..c
      PROVE  Page!Nth(places, k) \in places /\ Page!Rank(places, Page!Nth(places, k)) = k
  BY <1>6 DEF Page!Nth
<1>8. ASSUME NEW i \in places PROVE Page!Nth(places, Page!Rank(places, i)) = i
  BY <1>0, <1>2, <1>7
<1> QED BY <1>7, <1>8

\* A filtered sequence has what was at the places and nothing else, each once.
LEMMA OnlyFacts ==
  ASSUME NEW S, NEW seq \in Seq(S), NEW places \in SUBSET (DOMAIN seq)
  PROVE  LET some == Page!Only(seq, places) IN
         /\ some \in Seq(S) /\ Len(some) \in Nat /\ DOMAIN some = 1..Len(some)
         /\ \A k \in DOMAIN some : Page!Nth(places, k) \in places
                                   /\ some[k] = seq[Page!Nth(places, k)]
         /\ \A k, l \in DOMAIN some : Page!Nth(places, k) = Page!Nth(places, l) => k = l
         /\ \A i \in places : \E k \in DOMAIN some : Page!Nth(places, k) = i
<1> DEFINE c == Cardinality(places)
           some == Page!Only(seq, places)
<1>1. DOMAIN seq = 1..Len(seq) /\ Len(seq) \in Nat
  OBVIOUS
<1>2. /\ c \in Nat /\ \A i \in places : Page!Rank(places, i) \in 1..c
      /\ \A k \in 1..c : Page!Nth(places, k) \in places /\ Page!Rank(places, Page!Nth(places, k)) = k
      /\ \A i \in places : Page!Nth(places, Page!Rank(places, i)) = i
  BY <1>1, RankBounds, RankIsBijection
<1>3. some = [k \in 1..c |-> seq[Page!Nth(places, k)]]
  BY RankIs DEF Page!Only
<1>4. some \in [1..c -> S]
  <2>1. \A k \in 1..c : seq[Page!Nth(places, k)] \in S
    BY <1>2, ElementOfSeq, <1>1
  <2> QED BY <1>3, <2>1
<1>5. some \in Seq(S) /\ Len(some) = c /\ DOMAIN some = 1..c
  BY <1>2, <1>4
<1> HIDE DEF c, some
<1>6. \A k \in DOMAIN some : Page!Nth(places, k) \in places /\ some[k] = seq[Page!Nth(places, k)]
  BY <1>2, <1>3, <1>5
<1>7. \A k, l \in DOMAIN some : Page!Nth(places, k) = Page!Nth(places, l) => k = l
  BY <1>2, <1>5
<1>8. \A i \in places : \E k \in DOMAIN some : Page!Nth(places, k) = i
  BY <1>2, <1>5
<1> QED BY <1>2, <1>5, <1>6, <1>7, <1>8 DEF some

PaneRecords == [id : Nat \ {0}, tabs : Seq(Nat), active : Int]

\* What a pane always is: its tabs differ, and it shows one of them.
ShowsOwn(pane) ==
  IF pane.tabs = << >> THEN pane.active = Page!NoTab ELSE Page!Has(pane, pane.active)
PaneSound(pane) ==
  /\ pane \in PaneRecords /\ ShowsOwn(pane)
  /\ \A k, l \in DOMAIN pane.tabs : pane.tabs[k] = pane.tabs[l] => k = l
InOnePane(ps) == \A i, j \in DOMAIN ps : \A s \in Nat :
                   Page!Has(ps[i], s) /\ Page!Has(ps[j], s) => i = j
IdsDiffer(ps) == \A i, j \in DOMAIN ps : ps[i].id = ps[j].id => i = j
AllSound(ps) ==
  /\ ps \in Seq(PaneRecords) /\ ps # << >> /\ \A i \in DOMAIN ps : PaneSound(ps[i])
  /\ InOnePane(ps) /\ IdsDiffer(ps)
Holds(ps, s) == \E i \in DOMAIN ps : Page!Has(ps[i], s)

LEMMA WithoutFacts ==
  ASSUME NEW pane, PaneSound(pane), NEW s \in Nat
  PROVE  LET w == Page!Without(pane, s) IN
         /\ PaneSound(w) /\ w.id = pane.id
         /\ \A x : Page!Has(w, x) <=> Page!Has(pane, x) /\ x # s
<1> DEFINE places == {k \in DOMAIN pane.tabs : pane.tabs[k] # s}
           tabs == Page!Only(pane.tabs, places)
           front == IF pane.active # s THEN pane.active
                     ELSE IF tabs = << >> THEN Page!NoTab ELSE tabs[Len(tabs)]
           w == Page!Without(pane, s)
<1>1. pane \in PaneRecords /\ pane.tabs \in Seq(Nat)
  BY DEF PaneSound, PaneRecords
<1>2. /\ tabs \in Seq(Nat) /\ Len(tabs) \in Nat /\ DOMAIN tabs = 1..Len(tabs)
      /\ \A k \in DOMAIN tabs : Page!Nth(places, k) \in places /\ tabs[k] = pane.tabs[Page!Nth(places, k)]
      /\ \A k, l \in DOMAIN tabs : Page!Nth(places, k) = Page!Nth(places, l) => k = l
      /\ \A i \in places : \E k \in DOMAIN tabs : Page!Nth(places, k) = i
  <2>1. places \in SUBSET (DOMAIN pane.tabs)
    OBVIOUS
  <2>2. tabs = Page!Only(pane.tabs, places)
    OBVIOUS
  <2> HIDE DEF places, tabs
  <2> QED BY <1>1, <2>1, <2>2, OnlyFacts
<1>3. w = [pane EXCEPT !.tabs = tabs, !.active = front]
  BY DEF Page!Without, Page!Last
<1>0. \A k \in DOMAIN pane.tabs : k \in places <=> pane.tabs[k] # s
  OBVIOUS
<1>00. places \subseteq DOMAIN pane.tabs
  OBVIOUS
<1> HIDE DEF places, tabs
<1>4. front \in Int
  BY <1>1, <1>2 DEF PaneRecords, Page!NoTab
<1>5. w \in PaneRecords /\ w.id = pane.id /\ w.tabs = tabs /\ w.active = front
  BY <1>1, <1>2, <1>3, <1>4 DEF PaneRecords
<1>6. \A x : Page!Has(w, x) <=> Page!Has(pane, x) /\ x # s
  BY <1>0, <1>00, <1>2, <1>5 DEF Page!Has
<1>7. \A k, l \in DOMAIN tabs : tabs[k] = tabs[l] => k = l
  BY <1>00, <1>2 DEF PaneSound
<1>8. ShowsOwn(w)
  <2>1. CASE pane.tabs = << >>
    BY <2>1, <1>00, <1>2, <1>5 DEF PaneSound, ShowsOwn, Page!NoTab
  <2>2. CASE pane.tabs # << >> /\ pane.active # s
    <3>1. Page!Has(pane, pane.active)
      BY <2>2 DEF PaneSound, ShowsOwn
    <3>2. Page!Has(w, w.active)
      BY <3>1, <2>2, <1>5, <1>6
    <3> QED BY <3>2, <1>5 DEF ShowsOwn, Page!Has
  <2>3. CASE pane.active = s /\ tabs = << >>
    BY <2>3, <1>5 DEF ShowsOwn
  <2>4. CASE pane.active = s /\ tabs # << >>
    <3>1. Len(tabs) \in DOMAIN tabs /\ w.active = tabs[Len(tabs)]
      BY <2>4, <1>2, <1>5
    <3> QED BY <3>1, <2>4, <1>5 DEF ShowsOwn, Page!Has
  <2> QED BY <2>1, <2>2, <2>3, <2>4
<1> HIDE DEF front, w
<1> QED BY <1>5, <1>6, <1>7, <1>8 DEF PaneSound, w

LEMMA WithFacts ==
  ASSUME NEW pane, PaneSound(pane), NEW s \in Nat, ~Page!Has(pane, s)
  PROVE  LET w == Page!With(pane, s) IN
         /\ PaneSound(w) /\ w.id = pane.id
         /\ \A x : Page!Has(w, x) <=> Page!Has(pane, x) \/ x = s
<1> DEFINE tabs == Append(pane.tabs, s)
           w == Page!With(pane, s)
<1> HIDE DEF w
<1>1. pane \in PaneRecords /\ pane.tabs \in Seq(Nat)
  BY DEF PaneSound, PaneRecords
<1>2. /\ tabs \in Seq(Nat) /\ tabs # << >> /\ DOMAIN tabs = 1..(Len(pane.tabs) + 1)
      /\ \A k \in DOMAIN pane.tabs : k \in DOMAIN tabs /\ tabs[k] = pane.tabs[k]
      /\ Len(pane.tabs) + 1 \in DOMAIN tabs /\ tabs[Len(pane.tabs) + 1] = s
      /\ \A k \in DOMAIN tabs : k \in DOMAIN pane.tabs \/ k = Len(pane.tabs) + 1
  BY <1>1, AppendProperties
<1>3. w = [pane EXCEPT !.tabs = tabs, !.active = s]
  BY DEF Page!With, w
<1> HIDE DEF tabs
<1>4. w \in PaneRecords /\ w.id = pane.id /\ w.tabs = tabs /\ w.active = s
  <2>1. tabs \in Seq(Nat) /\ s \in Int
    BY <1>2
  <2> QED BY <1>1, <1>3, <2>1 DEF PaneRecords
<1>5. \A x : Page!Has(w, x) <=> Page!Has(pane, x) \/ x = s
  BY <1>2, <1>4 DEF Page!Has
<1>6. \A k, l \in DOMAIN tabs : tabs[k] = tabs[l] => k = l
  BY <1>2 DEF PaneSound, Page!Has
<1>7. ShowsOwn(w)
  BY <1>2, <1>4, <1>5 DEF ShowsOwn
<1> QED BY <1>4, <1>5, <1>6, <1>7 DEF PaneSound, w

\* Only a pane without tabs goes, and never the first.
LEMMA KeptFacts ==
  ASSUME NEW ps, AllSound(ps), \E i \in DOMAIN ps : ps[i].id = panes[1].id
  PROVE  LET kept == Page!Kept(ps) IN
         /\ AllSound(kept)
         /\ \A k \in DOMAIN kept : \E i \in DOMAIN ps : kept[k] = ps[i]
         /\ \A s : Holds(kept, s) <=> Holds(ps, s)
<1> DEFINE places == {i \in DOMAIN ps : ps[i].tabs # << >> \/ ps[i].id = panes[1].id}
           kept == Page!Kept(ps)
<1>1. ps \in Seq(PaneRecords)
  BY DEF AllSound
<1>2. kept = Page!Only(ps, places)
  BY DEF Page!Kept
<1>3. /\ kept \in Seq(PaneRecords) /\ Len(kept) \in Nat /\ DOMAIN kept = 1..Len(kept)
      /\ \A k \in DOMAIN kept : Page!Nth(places, k) \in places /\ kept[k] = ps[Page!Nth(places, k)]
      /\ \A k, l \in DOMAIN kept : Page!Nth(places, k) = Page!Nth(places, l) => k = l
      /\ \A i \in places : \E k \in DOMAIN kept : Page!Nth(places, k) = i
  <2>1. places \in SUBSET (DOMAIN ps)
    OBVIOUS
  <2> HIDE DEF places, kept
  <2> QED BY <1>1, <1>2, <2>1, OnlyFacts
<1>4. places \in SUBSET (DOMAIN ps) /\ places # {}
      /\ \A i \in DOMAIN ps \ places : ps[i].tabs = << >>
  OBVIOUS
<1> HIDE DEF places, kept
<1>5. \A s : Holds(kept, s) <=> Holds(ps, s)
  BY <1>3, <1>4 DEF Holds, Page!Has
<1>6. kept # << >>
  BY <1>3, <1>4
<1>7. InOnePane(kept)
  BY <1>3, <1>4 DEF InOnePane, AllSound
<1>8. IdsDiffer(kept)
  BY <1>3, <1>4 DEF IdsDiffer, AllSound
<1>9. \A k \in DOMAIN kept : PaneSound(kept[k])
  BY <1>3, <1>4 DEF AllSound
<1> QED BY <1>3, <1>4, <1>5, <1>6, <1>7, <1>8, <1>9 DEF AllSound, kept

PanesInv ==
  /\ AllSound(panes)
  /\ nextPane \in Nat /\ nextSession \in Nat /\ nextSession > 0 /\ nextSession <= MaxSession + 1
  /\ \A i \in DOMAIN panes : panes[i].id < nextPane
  /\ \A s : Holds(panes, s) => s \in 0..(nextSession - 1)
  /\ \A s \in 0..(nextSession - 1) : s \notin closed => Holds(panes, s)
  /\ \A s \in closed \ stale : ~Holds(panes, s)
  /\ closed \subseteq 1..(nextSession - 1) /\ stale \subseteq closed
\* What is dragged is a session of the pane that it was dragged from, or of none.
DragKnown ==
  dragged # Page!NoDrag =>
    /\ dragged.pane \in Nat /\ dragged.pane < nextPane /\ dragged.session \in 0..(nextSession - 1)
    /\ \A i \in DOMAIN panes : Page!Has(panes[i], dragged.session) => panes[i].id = dragged.pane

LEMMA OnePaneFacts ==
  /\ AllSound(Page!OnePane) /\ \A i \in DOMAIN Page!OnePane : Page!OnePane[i].id < 2
  /\ \A s : Holds(Page!OnePane, s) <=> s = 0
  /\ MaxSession \in Nat
<1> DEFINE first == [id |-> 1, tabs |-> <<0>>, active |-> 0]
<1>1. first \in PaneRecords /\ first.id = 1 /\ first.tabs = <<0>> /\ first.active = 0
  BY DEF PaneRecords
<1>2. Page!OnePane = <<first>>
  BY DEF Page!OnePane
<1>3. \A s : Page!Has(first, s) <=> s = 0
  BY <1>1 DEF Page!Has
<1> HIDE DEF first
<1>4. PaneSound(first)
  BY <1>1, <1>3 DEF PaneSound, ShowsOwn
<1>5. /\ Page!OnePane \in Seq(PaneRecords) /\ Page!OnePane # << >>
      /\ DOMAIN Page!OnePane = {1} /\ Page!OnePane[1] = first
  BY <1>1, <1>2
<1>6. AllSound(Page!OnePane)
  BY <1>4, <1>5 DEF AllSound, InOnePane, IdsDiffer
<1>7. \A s : Holds(Page!OnePane, s) <=> s = 0
  BY <1>3, <1>5 DEF Holds
<1>8. MaxSession \in Nat
  BY PageAssumption DEF PageAssumption, Page!BoundsAssumption
<1> QED BY <1>1, <1>5, <1>6, <1>7, <1>8

LEMMA PanesStart ==
  ASSUME panes = Page!OnePane, nextPane = 2, nextSession = 1, dragged = Page!NoDrag,
         closed = {}, stale = {}
  PROVE  PanesInv /\ DragKnown
BY OnePaneFacts DEF PanesInv, DragKnown

\* Panes that are changed one by one.
LEMMA ChangedOneByOne ==
  ASSUME AllSound(panes), NEW q, q = [j \in DOMAIN panes |-> q[j]],
         \A j \in DOMAIN panes : PaneSound(q[j]) /\ q[j].id = panes[j].id, InOnePane(q)
  PROVE  AllSound(q) /\ DOMAIN q = DOMAIN panes /\ 1 \in DOMAIN q
<1>1. panes \in Seq(PaneRecords) /\ panes # << >>
  BY DEF AllSound
<1>2. DOMAIN panes = 1..Len(panes) /\ Len(panes) \in Nat /\ Len(panes) # 0
  BY <1>1
<1>3. DOMAIN q = DOMAIN panes
  OBVIOUS
<1>4. \A j \in DOMAIN panes : q[j] \in PaneRecords
  BY DEF PaneSound
<1>5. q \in Seq(PaneRecords) /\ Len(q) = Len(panes)
  BY <1>2, <1>3, <1>4
<1>6. q # << >>
  BY <1>2, <1>5
<1>7. IdsDiffer(q)
  BY <1>3 DEF AllSound, IdsDiffer
<1> QED BY <1>2, <1>3, <1>5, <1>6, <1>7 DEF AllSound

LEMMA AddKeeps ==
  ASSUME PanesInv, DragKnown, NEW i \in DOMAIN panes, Page!Add(panes[i].id)
  PROVE  PanesInv' /\ DragKnown'
<1> DEFINE n == nextSession
           q == [j \in DOMAIN panes |->
                   IF panes[j].id = panes[i].id THEN Page!With(panes[j], n) ELSE panes[j]]
<1>1. panes' = q /\ n <= MaxSession /\ nextSession' = n + 1
      /\ UNCHANGED <<nextPane, dragged, closed, stale>>
  BY DEF Page!Add
<1>2. n \in Nat /\ n > 0 /\ AllSound(panes) /\ ~Holds(panes, n) /\ MaxSession \in Nat
  BY PageAssumption DEF PanesInv, PageAssumption, Page!BoundsAssumption
<1>3. \A j \in DOMAIN panes : PaneSound(panes[j]) /\ ~Page!Has(panes[j], n)
  BY <1>2 DEF AllSound, Holds
<1>4. \A j \in DOMAIN panes : LET w == Page!With(panes[j], n) IN
        PaneSound(w) /\ w.id = panes[j].id
        /\ \A x : Page!Has(w, x) <=> Page!Has(panes[j], x) \/ x = n
  BY <1>2, <1>3, WithFacts
<1>5. \A j \in DOMAIN panes :
        /\ PaneSound(q[j]) /\ q[j].id = panes[j].id
        /\ \A x : Page!Has(q[j], x) <=> Page!Has(panes[j], x) \/ (x = n /\ panes[j].id = panes[i].id)
  BY <1>3, <1>4
<1>6. q = [j \in DOMAIN panes |-> q[j]] /\ DOMAIN q = DOMAIN panes
  OBVIOUS
<1> HIDE DEF q, n
<1>7. \A j, k \in DOMAIN panes : panes[j].id = panes[i].id /\ panes[k].id = panes[i].id => j = k
  BY <1>2 DEF AllSound, IdsDiffer
<1>8. InOnePane(q)
  BY <1>2, <1>3, <1>5, <1>6, <1>7 DEF InOnePane, AllSound
<1>9. AllSound(q)
  BY <1>2, <1>5, <1>6, <1>8, ChangedOneByOne
<1>10. \A s : Holds(q, s) <=> Holds(panes, s) \/ s = n
  BY <1>5, <1>6 DEF Holds
<1>11. PanesInv'
  <2>1. AllSound(panes') /\ nextPane' \in Nat /\ nextSession' \in Nat /\ nextSession' > 0
        /\ nextSession' <= MaxSession + 1
    BY <1>1, <1>2, <1>9 DEF PanesInv
  <2>2. \A j \in DOMAIN panes' : panes'[j].id < nextPane'
    BY <1>1, <1>5, <1>6 DEF PanesInv
  <2>3. \A s : Holds(panes', s) => s \in 0..(nextSession' - 1)
    BY <1>1, <1>2, <1>10 DEF PanesInv, n
  <2>4. \A s \in 0..(nextSession' - 1) : s \notin closed' => Holds(panes', s)
    BY <1>1, <1>2, <1>10 DEF PanesInv, n
  <2>5. closed \subseteq 1..(n - 1) /\ n \notin closed
    BY <1>2 DEF PanesInv, n
  <2>6. \A s \in closed' \ stale' : ~Holds(panes', s)
    BY <1>1, <1>10, <2>5 DEF PanesInv
  <2>7. closed' \subseteq 1..(nextSession' - 1) /\ stale' \subseteq closed'
    BY <1>1, <1>2, <2>5 DEF PanesInv
  <2> QED BY <2>1, <2>2, <2>3, <2>4, <2>6, <2>7, <1>1 DEF PanesInv, Holds, AllSound, InOnePane, IdsDiffer
<1>12. DragKnown'
  <2> SUFFICES ASSUME dragged # Page!NoDrag PROVE DragKnown'
    BY <1>1 DEF DragKnown
  <2>1. /\ dragged.pane \in Nat /\ dragged.pane < nextPane /\ dragged.session \in 0..(n - 1)
        /\ \A j \in DOMAIN panes : Page!Has(panes[j], dragged.session) => panes[j].id = dragged.pane
    BY DEF DragKnown, n
  <2>2. dragged.session # n /\ dragged.session \in 0..(nextSession' - 1)
    BY <1>1, <1>2, <2>1
  <2>3. \A j \in DOMAIN q : Page!Has(q[j], dragged.session) => q[j].id = dragged.pane
    BY <1>5, <1>6, <2>1, <2>2
  <2> QED BY <1>1, <2>1, <2>2, <2>3 DEF DragKnown, Page!Has
<1> QED BY <1>11, <1>12

LEMMA InsertAtIs ==
  ASSUME NEW s, NEW k, NEW e
  PROVE  Page!InsertAt(s, k, e) = SubSeq(s, 1, k - 1) \o <<e>> \o SubSeq(s, k, Len(s))
BY DEF Page!InsertAt

LEMMA SplitKeeps ==
  ASSUME PanesInv, DragKnown, NEW i \in DOMAIN panes, Page!Split(i)
  PROVE  PanesInv' /\ DragKnown'
<1> DEFINE n == nextSession
           new == [id |-> nextPane, tabs |-> <<n>>, active |-> n]
           q == Page!InsertAt(panes, i + 1, new)
           from(k) == IF k <= i THEN k ELSE k - 1
<1>1. panes' = q /\ n <= MaxSession /\ nextSession' = n + 1 /\ nextPane' = nextPane + 1
      /\ UNCHANGED <<dragged, closed, stale>>
  BY DEF Page!Split
<1>2. n \in Nat /\ n > 0 /\ AllSound(panes) /\ ~Holds(panes, n) /\ MaxSession \in Nat
      /\ nextPane \in Nat
  BY PageAssumption DEF PanesInv, PageAssumption, Page!BoundsAssumption
<1>3. panes \in Seq(PaneRecords) /\ DOMAIN panes = 1..Len(panes) /\ Len(panes) \in Nat
      /\ i \in 1..Len(panes) /\ nextPane # 0
  BY <1>2 DEF AllSound, PanesInv, PaneSound, PaneRecords
<1>4. /\ new \in PaneRecords /\ new.id = nextPane /\ \A x : Page!Has(new, x) <=> x = n
      /\ PaneSound(new)
  <2>1. new.id = nextPane /\ new.tabs = <<n>> /\ new.active = n
    OBVIOUS
  <2>2. new \in PaneRecords
    BY <1>2, <1>3 DEF PaneRecords
  <2> HIDE DEF new
  <2>3. \A x : Page!Has(new, x) <=> x = n
    BY <2>1 DEF Page!Has
  <2> QED BY <2>1, <2>2, <2>3 DEF PaneSound, ShowsOwn
<1> HIDE DEF new, n
<1>5. /\ q \in Seq(PaneRecords) /\ Len(q) = Len(panes) + 1
      /\ \A k \in 1..(Len(panes) + 1) :
           q[k] = IF k = i + 1 THEN new ELSE panes[from(k)]
  <2> DEFINE before == SubSeq(panes, 1, i)
             after == SubSeq(panes, i + 1, Len(panes))
  <2>1. q = before \o <<new>> \o after
    <3>1. (i + 1) - 1 = i
      BY <1>3
    <3>2. \A k, e : Page!InsertAt(panes, k, e)
                    = SubSeq(panes, 1, k - 1) \o <<e>> \o SubSeq(panes, k, Len(panes))
      BY InsertAtIs
    <3> HIDE DEF before, after, q
    <3>3. q = SubSeq(panes, 1, (i + 1) - 1) \o <<new>> \o SubSeq(panes, i + 1, Len(panes))
      BY <3>2 DEF q
    <3> QED BY <3>1, <3>3 DEF before, after
  <2>2. before \in Seq(PaneRecords) /\ Len(before) = i /\ \A k \in 1..i : before[k] = panes[k]
    BY <1>3, SubSeqProperties
  <2>3. after \in Seq(PaneRecords) /\ Len(after) = Len(panes) - i
        /\ \A k \in 1..(Len(panes) - i) : after[k] = panes[i + k]
    BY <1>3, SubSeqProperties
  <2>4. <<new>> \in Seq(PaneRecords) /\ Len(<<new>>) = 1 /\ <<new>>[1] = new
    BY <1>4
  <2> DEFINE first == before \o <<new>>
  <2> HIDE DEF before, after, q
  <2>5. first \in Seq(PaneRecords) /\ Len(first) = i + 1
        /\ \A k \in 1..(i + 1) : first[k] = IF k <= i THEN panes[k] ELSE new
    BY <1>3, <2>2, <2>4, ConcatProperties
  <2>6. q = first \o after
    BY <2>1
  <2> HIDE DEF first
  <2>7. q \in Seq(PaneRecords) /\ Len(q) = Len(panes) + 1
        /\ \A k \in 1..(Len(panes) + 1) :
             q[k] = IF k <= i + 1 THEN first[k] ELSE after[k - (i + 1)]
    <3>1. Len(first) + Len(after) = Len(panes) + 1
      BY <1>3, <2>3, <2>5
    <3>2. first \in Seq(PaneRecords) /\ after \in Seq(PaneRecords) /\ Len(first) = i + 1
      BY <2>3, <2>5
    <3> QED BY <2>6, <3>1, <3>2, ConcatProperties
  <2>8. ASSUME NEW k \in 1..(Len(panes) + 1)
        PROVE  q[k] = IF k = i + 1 THEN new ELSE panes[from(k)]
    <3>1. CASE k <= i + 1
      BY <1>3, <2>5, <2>7, <3>1
    <3>2. CASE k > i + 1
      <4>1. k - (i + 1) \in 1..(Len(panes) - i) /\ i + (k - (i + 1)) = k - 1
            /\ k # i + 1 /\ ~(k <= i + 1) /\ from(k) = k - 1
        BY <1>3, <3>2
      <4>2. after[k - (i + 1)] = panes[i + (k - (i + 1))]
        BY <2>3, <4>1
      <4>3. q[k] = after[k - (i + 1)]
        BY <2>7, <4>1
      <4> HIDE DEF from
      <4> QED BY <4>1, <4>2, <4>3
    <3> QED BY <1>3, <3>1, <3>2
  <2> QED BY <2>7, <2>8
<1> HIDE DEF q
<1>6. DOMAIN q = 1..(Len(panes) + 1) /\ i + 1 \in DOMAIN q /\ q # << >>
      /\ (\A k \in DOMAIN q : k # i + 1 => from(k) \in DOMAIN panes)
      /\ (\A k, l \in DOMAIN q : k # i + 1 /\ l # i + 1 /\ from(k) = from(l) => k = l)
      /\ \A j \in DOMAIN panes : \E k \in DOMAIN q : q[k] = panes[j]
  <2>1. DOMAIN q = 1..(Len(panes) + 1) /\ q # << >>
    BY <1>3, <1>5
  <2>2. ASSUME NEW j \in DOMAIN panes
        PROVE  \E k \in DOMAIN q : q[k] = panes[j]
    <3>1. CASE j <= i
      <4>1. j \in DOMAIN q /\ j # i + 1 /\ from(j) = j
        BY <1>3, <2>1, <3>1
      <4>2. q[j] = panes[j]
        BY <1>5, <2>1, <4>1
      <4> QED BY <4>1, <4>2
    <3>2. CASE j > i
      <4>1. j + 1 \in DOMAIN q /\ j + 1 # i + 1 /\ from(j + 1) = j
        BY <1>3, <2>1, <3>2
      <4>2. q[j + 1] = panes[j]
        BY <1>5, <2>1, <4>1
      <4> QED BY <4>1, <4>2
    <3> QED BY <1>3, <3>1, <3>2
  <2> QED BY <1>3, <2>1, <2>2
<1> HIDE DEF from
<1>7. \A k \in DOMAIN q : q[k] = IF k = i + 1 THEN new ELSE panes[from(k)]
  BY <1>5, <1>6
<1>8. \A s : Holds(q, s) <=> Holds(panes, s) \/ s = n
  <2>1. ASSUME NEW s, Holds(q, s) PROVE Holds(panes, s) \/ s = n
    BY <1>4, <1>6, <1>7, <2>1 DEF Holds
  <2>2. ASSUME NEW s, Holds(panes, s) PROVE Holds(q, s)
    <3>1. PICK j \in DOMAIN panes : Page!Has(panes[j], s)
      BY <2>2 DEF Holds
    <3>2. PICK k \in DOMAIN q : q[k] = panes[j]
      BY <1>6
    <3> QED BY <3>1, <3>2 DEF Holds
  <2>3. Holds(q, n)
    BY <1>4, <1>6, <1>7 DEF Holds
  <2> QED BY <2>1, <2>2, <2>3
<1>9. \A j \in DOMAIN panes : ~Page!Has(panes[j], n) /\ panes[j].id < nextPane /\ panes[j].id \in Nat
  BY <1>2 DEF Holds, PanesInv, AllSound, PaneSound, PaneRecords
<1>10. AllSound(q)
  <2>1. \A k \in DOMAIN q : PaneSound(q[k])
    BY <1>2, <1>4, <1>6, <1>7 DEF AllSound
  <2>2. InOnePane(q)
    <3> SUFFICES ASSUME NEW k \in DOMAIN q, NEW l \in DOMAIN q, NEW s \in Nat,
                        Page!Has(q[k], s), Page!Has(q[l], s)
                 PROVE  k = l
      BY DEF InOnePane
    <3>1. ASSUME NEW m \in DOMAIN q, Page!Has(q[m], s)
          PROVE  IF m = i + 1 THEN s = n
                 ELSE from(m) \in DOMAIN panes /\ Page!Has(panes[from(m)], s) /\ s # n
      BY <1>4, <1>6, <1>7, <1>9, <3>1
    <3>2. CASE k = i + 1 \/ l = i + 1
      BY <3>1, <3>2
    <3>3. CASE k # i + 1 /\ l # i + 1
      <4>1. from(k) \in DOMAIN panes /\ from(l) \in DOMAIN panes
            /\ Page!Has(panes[from(k)], s) /\ Page!Has(panes[from(l)], s)
        BY <3>1, <3>3
      <4>2. from(k) = from(l)
        BY <1>2, <4>1 DEF AllSound, InOnePane
      <4> QED BY <1>6, <3>3, <4>2
    <3> QED BY <3>2, <3>3
  <2>3. IdsDiffer(q)
    <3> SUFFICES ASSUME NEW k \in DOMAIN q, NEW l \in DOMAIN q, q[k].id = q[l].id
                 PROVE  k = l
      BY DEF IdsDiffer
    <3>1. ASSUME NEW m \in DOMAIN q
          PROVE  IF m = i + 1 THEN q[m].id = nextPane
                 ELSE /\ from(m) \in DOMAIN panes /\ q[m].id = panes[from(m)].id
                      /\ q[m].id # nextPane
      <4>1. CASE m = i + 1
        BY <1>4, <1>7, <4>1
      <4>2. CASE m # i + 1
        BY <1>2, <1>6, <1>7, <1>9, <4>2
      <4> QED BY <4>1, <4>2
    <3>2. CASE k = i + 1 \/ l = i + 1
      BY <3>1, <3>2
    <3>3. CASE k # i + 1 /\ l # i + 1
      <4>1. /\ from(k) \in DOMAIN panes /\ from(l) \in DOMAIN panes
            /\ panes[from(k)].id = panes[from(l)].id
        BY <3>1, <3>3
      <4>2. from(k) = from(l)
        BY <1>2, <4>1 DEF AllSound, IdsDiffer
      <4> QED BY <1>6, <3>3, <4>2
    <3> QED BY <3>2, <3>3
  <2> QED BY <1>5, <1>6, <2>1, <2>2, <2>3 DEF AllSound
<1>11. PanesInv'
  <2>1. AllSound(panes') /\ nextPane' \in Nat /\ nextSession' \in Nat /\ nextSession' > 0
        /\ nextSession' <= MaxSession + 1
    BY <1>1, <1>2, <1>10
  <2>2. \A k \in DOMAIN panes' : panes'[k].id < nextPane'
    BY <1>1, <1>2, <1>4, <1>6, <1>7, <1>9
  <2>3. \A s : Holds(panes', s) => s \in 0..(nextSession' - 1)
    BY <1>1, <1>2, <1>8 DEF PanesInv, n
  <2>4. \A s \in 0..(nextSession' - 1) : s \notin closed' => Holds(panes', s)
    BY <1>1, <1>2, <1>8 DEF PanesInv, n
  <2>5. closed \subseteq 1..(n - 1) /\ n \notin closed
    BY <1>2 DEF PanesInv, n
  <2>6. \A s \in closed' \ stale' : ~Holds(panes', s)
    BY <1>1, <1>8, <2>5 DEF PanesInv
  <2>7. closed' \subseteq 1..(nextSession' - 1) /\ stale' \subseteq closed'
    BY <1>1, <1>2, <2>5 DEF PanesInv
  <2> QED BY <2>1, <2>2, <2>3, <2>4, <2>6, <2>7, <1>1 DEF PanesInv, Holds, AllSound, InOnePane, IdsDiffer
<1>12. DragKnown'
  <2> SUFFICES ASSUME dragged # Page!NoDrag PROVE DragKnown'
    BY <1>1 DEF DragKnown
  <2>1. /\ dragged.pane \in Nat /\ dragged.pane < nextPane /\ dragged.session \in 0..(n - 1)
        /\ \A j \in DOMAIN panes : Page!Has(panes[j], dragged.session) => panes[j].id = dragged.pane
    BY DEF DragKnown, n
  <2>2. dragged.session # n /\ dragged.session \in 0..(nextSession' - 1)
        /\ dragged.pane < nextPane'
    BY <1>1, <1>2, <2>1
  <2>3. \A k \in DOMAIN q : Page!Has(q[k], dragged.session) => q[k].id = dragged.pane
    BY <1>4, <1>6, <1>7, <2>1, <2>2
  <2> QED BY <1>1, <2>1, <2>2, <2>3 DEF DragKnown, Page!Has
<1> QED BY <1>11, <1>12

LEMMA CloseKeeps ==
  ASSUME PanesInv, DragKnown, NEW i \in DOMAIN panes, NEW s \in 0..MaxSession, Page!Close(i, s)
  PROVE  PanesInv' /\ DragKnown'
<1> DEFINE q == [j \in DOMAIN panes |->
                   IF panes[j].id = panes[i].id THEN Page!Without(panes[j], s) ELSE panes[j]]
<1>1. panes' = Page!Kept(q) /\ closed' = closed \cup {s} /\ s # 0 /\ Page!Has(panes[i], s)
      /\ UNCHANGED <<nextPane, nextSession, dragged, stale>>
  BY DEF Page!Close
<1>2. AllSound(panes) /\ MaxSession \in Nat /\ s \in Nat
  BY PageAssumption DEF PanesInv, PageAssumption, Page!BoundsAssumption
<1>3. \A j \in DOMAIN panes : PaneSound(panes[j])
  BY <1>2 DEF AllSound
<1>4. \A j \in DOMAIN panes : LET w == Page!Without(panes[j], s) IN
        PaneSound(w) /\ w.id = panes[j].id
        /\ \A x : Page!Has(w, x) <=> Page!Has(panes[j], x) /\ x # s
  BY <1>2, <1>3, WithoutFacts
<1>5. \A j \in DOMAIN panes : panes[j].id = panes[i].id <=> j = i
  BY <1>2 DEF AllSound, IdsDiffer
<1>6. \A j \in DOMAIN panes :
        /\ PaneSound(q[j]) /\ q[j].id = panes[j].id
        /\ \A x : Page!Has(q[j], x) <=> Page!Has(panes[j], x) /\ ~(x = s /\ j = i)
  BY <1>3, <1>4, <1>5
<1>7. q = [j \in DOMAIN panes |-> q[j]] /\ DOMAIN q = DOMAIN panes
  OBVIOUS
<1> HIDE DEF q
<1>8. InOnePane(q)
  BY <1>2, <1>6, <1>7 DEF InOnePane, AllSound
<1>9. AllSound(q) /\ \E j \in DOMAIN q : q[j].id = panes[1].id
  BY <1>2, <1>6, <1>7, <1>8, ChangedOneByOne
<1>10. \A x : Holds(q, x) <=> Holds(panes, x) /\ x # s
  BY <1>1, <1>2, <1>6, <1>7 DEF Holds, AllSound, InOnePane
<1> DEFINE kept == Page!Kept(q)
<1>11. AllSound(kept) /\ (\A k \in DOMAIN kept : \E j \in DOMAIN q : kept[k] = q[j])
       /\ \A x : Holds(kept, x) <=> Holds(q, x)
  BY <1>9, KeptFacts
<1> HIDE DEF kept
<1>12. PanesInv'
  <2>0. panes' = kept
    BY <1>1 DEF kept
  <2>1. AllSound(panes') /\ nextPane' \in Nat /\ nextSession' \in Nat /\ nextSession' > 0
        /\ nextSession' <= MaxSession + 1
    BY <1>1, <1>11, <2>0 DEF PanesInv
  <2>2. \A k \in DOMAIN panes' : panes'[k].id < nextPane'
    BY <1>1, <1>6, <1>7, <1>11, <2>0 DEF PanesInv
  <2>3. \A x : Holds(panes', x) => x \in 0..(nextSession' - 1)
    BY <1>1, <1>10, <1>11, <2>0 DEF PanesInv
  <2>4. \A x \in 0..(nextSession' - 1) : x \notin closed' => Holds(panes', x)
    BY <1>1, <1>10, <1>11, <2>0 DEF PanesInv
  <2>5. s \in 1..(nextSession - 1)
    <3>1. Holds(panes, s)
      BY <1>1 DEF Holds
    <3> QED BY <1>1, <1>2, <3>1 DEF PanesInv
  <2>6. \A x \in closed' \ stale' : ~Holds(panes', x)
    BY <1>1, <1>10, <1>11, <2>0 DEF PanesInv
  <2>7. closed' \subseteq 1..(nextSession' - 1) /\ stale' \subseteq closed'
    BY <1>1, <2>5 DEF PanesInv
  <2> QED BY <2>1, <2>2, <2>3, <2>4, <2>6, <2>7, <1>1 DEF PanesInv, Holds, AllSound, InOnePane, IdsDiffer
<1>13. DragKnown'
  <2> SUFFICES ASSUME dragged # Page!NoDrag PROVE DragKnown'
    BY <1>1 DEF DragKnown
  <2>1. \A j \in DOMAIN q : Page!Has(q[j], dragged.session) => q[j].id = dragged.pane
    BY <1>6, <1>7 DEF DragKnown
  <2>2. \A k \in DOMAIN kept : Page!Has(kept[k], dragged.session) => kept[k].id = dragged.pane
    BY <1>11, <2>1
  <2> QED BY <1>1, <2>2 DEF DragKnown, Page!Has, kept
<1> QED BY <1>12, <1>13

LEMMA DropKeeps ==
  ASSUME PanesInv, DragKnown, NEW i \in DOMAIN panes, Page!Drop(i)
  PROVE  PanesInv' /\ DragKnown'
<1> DEFINE s == dragged.session
           q == [j \in DOMAIN panes |->
                   CASE panes[j].id = dragged.pane -> Page!Without(panes[j], s)
                     [] panes[j].id = panes[i].id -> Page!With(panes[j], s)
                     [] OTHER -> panes[j]]
           kept == Page!Kept(q)
<1>1. /\ panes' = kept /\ dragged # Page!NoDrag /\ dragged' = Page!NoDrag
      /\ dragged.pane # panes[i].id
      /\ stale' = IF s \in closed THEN stale \cup {s} ELSE stale
      /\ UNCHANGED <<nextPane, nextSession, closed>>
  BY DEF Page!Drop
<1>2. AllSound(panes) /\ s \in 0..(nextSession - 1) /\ s \in Nat
      /\ \A j \in DOMAIN panes : Page!Has(panes[j], s) => panes[j].id = dragged.pane
  BY <1>1 DEF PanesInv, DragKnown
<1> HIDE DEF s
<1>3. \A j \in DOMAIN panes : PaneSound(panes[j])
  BY <1>2 DEF AllSound
<1>4. \A j \in DOMAIN panes : LET w == Page!Without(panes[j], s) IN
        PaneSound(w) /\ w.id = panes[j].id
        /\ \A x : Page!Has(w, x) <=> Page!Has(panes[j], x) /\ x # s
  BY <1>2, <1>3, WithoutFacts
<1>5. \A j \in DOMAIN panes : ~Page!Has(panes[j], s) =>
        LET w == Page!With(panes[j], s) IN
        PaneSound(w) /\ w.id = panes[j].id
        /\ \A x : Page!Has(w, x) <=> Page!Has(panes[j], x) \/ x = s
  BY <1>2, <1>3, WithFacts
<1>6. \A j \in DOMAIN panes : panes[j].id = panes[i].id <=> j = i
  BY <1>2 DEF AllSound, IdsDiffer
<1>7. ~Page!Has(panes[i], s) /\ panes[i].id # dragged.pane
  BY <1>1, <1>2
<1>8. ASSUME NEW j \in DOMAIN panes
      PROVE  /\ PaneSound(q[j]) /\ q[j].id = panes[j].id
             /\ \A x : Page!Has(q[j], x) <=> (Page!Has(panes[j], x) /\ x # s) \/ (x = s /\ j = i)
  <2>1. CASE panes[j].id = dragged.pane
    <3>1. q[j] = Page!Without(panes[j], s) /\ j # i
      BY <2>1, <1>7
    <3> HIDE DEF q
    <3> QED BY <3>1, <1>4
  <2>2. CASE j = i
    <3>1. q[j] = Page!With(panes[j], s)
      BY <2>2, <1>7
    <3> HIDE DEF q
    <3> QED BY <2>2, <3>1, <1>5, <1>7
  <2>3. CASE panes[j].id # dragged.pane /\ j # i
    <3>1. q[j] = panes[j]
      BY <2>3, <1>6
    <3>2. ~Page!Has(panes[j], s)
      BY <2>3, <1>2
    <3> HIDE DEF q
    <3> QED BY <2>3, <3>1, <3>2, <1>3
  <2> QED BY <2>1, <2>2, <2>3
<1>9. q = [j \in DOMAIN panes |-> q[j]] /\ DOMAIN q = DOMAIN panes
  OBVIOUS
<1> HIDE DEF q
<1>10. InOnePane(q)
  BY <1>2, <1>8, <1>9 DEF InOnePane, AllSound
<1>11. AllSound(q) /\ \E j \in DOMAIN q : q[j].id = panes[1].id
  BY <1>2, <1>8, <1>9, <1>10, ChangedOneByOne
<1>12. \A x : Holds(q, x) <=> Holds(panes, x) \/ x = s
  BY <1>8, <1>9 DEF Holds
<1>13. AllSound(kept) /\ (\A k \in DOMAIN kept : \E j \in DOMAIN q : kept[k] = q[j])
       /\ \A x : Holds(kept, x) <=> Holds(q, x)
  BY <1>11, KeptFacts
<1> HIDE DEF kept
<1>14. PanesInv'
  <2>1. AllSound(panes') /\ nextPane' \in Nat /\ nextSession' \in Nat /\ nextSession' > 0
        /\ nextSession' <= MaxSession + 1
    BY <1>1, <1>13 DEF PanesInv
  <2>2. \A k \in DOMAIN panes' : panes'[k].id < nextPane'
    BY <1>1, <1>8, <1>9, <1>13 DEF PanesInv
  <2>3. \A x : Holds(panes', x) => x \in 0..(nextSession' - 1)
    BY <1>1, <1>2, <1>12, <1>13 DEF PanesInv
  <2>4. \A x \in 0..(nextSession' - 1) : x \notin closed' => Holds(panes', x)
    BY <1>1, <1>12, <1>13 DEF PanesInv
  <2>5. stale' = stale \cup {s} \/ (s \notin closed /\ stale' = stale)
    BY <1>1
  <2>6. \A x \in closed' \ stale' : ~Holds(panes', x)
    BY <1>1, <1>12, <1>13, <2>5 DEF PanesInv
  <2>7. closed' \subseteq 1..(nextSession' - 1) /\ stale' \subseteq closed'
    BY <1>1 DEF PanesInv
  <2> QED BY <2>1, <2>2, <2>3, <2>4, <2>6, <2>7, <1>1 DEF PanesInv, Holds, AllSound, InOnePane, IdsDiffer
<1> QED BY <1>1, <1>14 DEF DragKnown

LEMMA ShowingIs ==
  ASSUME NEW pane \in PaneRecords, NEW s \in Int
  PROVE  LET w == [pane EXCEPT !.active = s] IN
         w \in PaneRecords /\ w.id = pane.id /\ w.tabs = pane.tabs /\ w.active = s
BY DEF PaneRecords

LEMMA ShowKeeps ==
  ASSUME PanesInv, DragKnown, NEW i \in DOMAIN panes, NEW s \in 0..MaxSession,
         Page!Activate(i, s) \/ Page!DragStart(i, s)
  PROVE  PanesInv' /\ DragKnown'
<1>0. AllSound(panes) /\ Page!Has(panes[i], s) /\ Holds(panes, s)
  BY DEF PanesInv, Page!Activate, Page!DragStart, Holds
<1>1. CASE Page!Activate(i, s)
  <2> DEFINE q == [panes EXCEPT ![i].active = s]
  <2>1. panes' = q /\ UNCHANGED <<nextPane, nextSession, dragged, closed, stale>>
    BY <1>1 DEF Page!Activate
  <2>2. panes \in Seq(PaneRecords) /\ s \in Nat /\ \A j \in DOMAIN panes : PaneSound(panes[j])
    BY <1>0, PageAssumption DEF AllSound, PageAssumption, Page!BoundsAssumption
  <2>3. DOMAIN q = DOMAIN panes /\ q = [j \in DOMAIN panes |-> q[j]]
        /\ \A j \in DOMAIN panes : q[j] = IF j = i THEN [panes[i] EXCEPT !.active = s] ELSE panes[j]
    BY <2>2
  <2> DEFINE shownPane == [panes[i] EXCEPT !.active = s]
  <2>4. panes[i] \in PaneRecords
    BY <2>2 DEF PaneSound
  <2>5. shownPane \in PaneRecords /\ shownPane.id = panes[i].id /\ shownPane.tabs = panes[i].tabs
        /\ shownPane.active = s
    <3>1. s \in Int
      BY <2>2
    <3> QED BY <2>4, <3>1, ShowingIs
  <2> HIDE DEF shownPane, q
  <2>6. \A x : Page!Has(shownPane, x) <=> Page!Has(panes[i], x)
    BY <2>5 DEF Page!Has
  <2>7. PaneSound(shownPane)
    BY <1>0, <2>2, <2>5, <2>6 DEF PaneSound, ShowsOwn, Page!Has
  <2>8. \A j \in DOMAIN panes : /\ PaneSound(q[j]) /\ q[j].id = panes[j].id
                                /\ \A x : Page!Has(q[j], x) <=> Page!Has(panes[j], x)
    BY <2>2, <2>3, <2>5, <2>6, <2>7 DEF shownPane
  <2>9. InOnePane(q)
    BY <1>0, <2>3, <2>8 DEF InOnePane, AllSound
  <2>10. AllSound(q)
    BY <1>0, <2>3, <2>8, <2>9, ChangedOneByOne
  <2>11. \A x : Holds(q, x) <=> Holds(panes, x)
    BY <2>3, <2>8 DEF Holds
  <2>12. PanesInv'
    <3>1. AllSound(panes') /\ \A x : Holds(panes', x) <=> Holds(panes, x)
      BY <2>1, <2>10, <2>11
    <3>2. \A j \in DOMAIN panes' : panes'[j].id < nextPane'
      BY <2>1, <2>3, <2>8 DEF PanesInv
    <3>3. /\ \A x : Holds(panes', x) => x \in 0..(nextSession' - 1)
          /\ \A x \in 0..(nextSession' - 1) : x \notin closed' => Holds(panes', x)
          /\ \A x \in closed' \ stale' : ~Holds(panes', x)
      BY <2>1, <3>1 DEF PanesInv
    <3> QED BY <2>1, <3>1, <3>2, <3>3 DEF PanesInv, Holds, AllSound, InOnePane, IdsDiffer
  <2>13. DragKnown'
    <3> SUFFICES ASSUME dragged # Page!NoDrag PROVE DragKnown'
      BY <2>1 DEF DragKnown
    <3>1. \A j \in DOMAIN q : Page!Has(q[j], dragged.session) => q[j].id = dragged.pane
      BY <2>3, <2>8 DEF DragKnown
    <3> QED BY <2>1, <3>1 DEF DragKnown, Page!Has
  <2> QED BY <2>12, <2>13
<1>2. CASE Page!DragStart(i, s)
  <2>1. dragged' = [pane |-> panes[i].id, session |-> s]
        /\ UNCHANGED <<panes, nextPane, nextSession, closed, stale>>
    BY <1>2 DEF Page!DragStart
  <2>2. PanesInv'
    BY <2>1 DEF PanesInv, Holds, AllSound, InOnePane, IdsDiffer
  <2>3. s \in 0..(nextSession - 1) /\ s \in Nat
    BY <1>0 DEF PanesInv
  <2>4. \A j \in DOMAIN panes : Page!Has(panes[j], s) => panes[j].id = panes[i].id
    BY <1>0, <2>3 DEF AllSound, InOnePane
  <2>5. panes[i].id \in Nat /\ panes[i].id < nextPane
    BY <1>0 DEF AllSound, PaneSound, PaneRecords, PanesInv
  <2>6. dragged'.pane = panes[i].id /\ dragged'.session = s
    BY <2>1
  <2> QED BY <2>1, <2>2, <2>3, <2>4, <2>5, <2>6 DEF DragKnown, Page!Has
<1> QED BY <1>1, <1>2

LEMMA PanesKeep ==
  ASSUME PanesInv, DragKnown, [Page!Next]_(Page!workbenchVars)
  PROVE  PanesInv' /\ DragKnown'
<1>1. ASSUME UNCHANGED Page!paneVars PROVE PanesInv' /\ DragKnown'
  BY <1>1 DEF Page!paneVars, PanesInv, DragKnown, Holds, AllSound, InOnePane, IdsDiffer, Page!Has
<1>2. CASE UNCHANGED Page!workbenchVars
  BY <1>1, <1>2 DEF Page!workbenchVars
<1>3. ASSUME NEW i \in DOMAIN panes, Page!Add(panes[i].id) \/ Page!Split(i) \/ Page!Drop(i)
      PROVE  PanesInv' /\ DragKnown'
  BY <1>3, AddKeeps, SplitKeeps, DropKeeps
<1>4. ASSUME NEW i \in DOMAIN panes, NEW s \in 0..MaxSession,
             Page!Close(i, s) \/ Page!Activate(i, s) \/ Page!DragStart(i, s)
      PROVE  PanesInv' /\ DragKnown'
  BY <1>4, CloseKeeps, ShowKeeps
<1>5. ASSUME NEW to, Page!Unmount(to) PROVE PanesInv' /\ DragKnown'
  <2>1. /\ panes' = Page!OnePane /\ nextPane' = 2 /\ nextSession' = 1 /\ dragged' = Page!NoDrag
        /\ closed' = {} /\ stale' = {}
    BY <1>5 DEF Page!Unmount
  <2> QED BY <2>1, OnePaneFacts DEF PanesInv, DragKnown, Holds, AllSound, InOnePane, IdsDiffer
<1>6. CASE Page!Prepare
  <2>1. UNCHANGED Page!paneVars \/ Page!Unmount("disposing")
    BY <1>6 DEF Page!Prepare, Page!Preparation
  <2> QED BY <1>1, <1>5, <2>1
<1>7. CASE Page!Unprepared
  <2>1. UNCHANGED Page!paneVars \/ Page!Unmount("disposing")
    BY <1>7 DEF Page!Unprepared
  <2> QED BY <1>1, <1>5, <2>1
<1>8. CASE Page!Flushed \/ Page!FlushFails
  <2>1. Page!Unmount("disposing")
    BY <1>8 DEF Page!Flushed, Page!FlushFails
  <2> QED BY <1>5, <2>1
<1>9. CASE \/ Page!TextNext \/ Page!Remount \/ Page!Disposed \/ Page!Quarantined \/ Page!Created
           \/ Page!CreationFails \/ Page!EditorMounted \/ Page!Started \/ Page!RuntimeFails
  BY <1>1, <1>9 DEF Page!TextNext, Page!Type, Page!Synced, Page!Taken, Page!Given, Page!Remount,
                    Page!Disposed, Page!Quarantined, Page!Created, Page!CreationFails,
                    Page!EditorMounted, Page!Started, Page!RuntimeFails
<1> QED BY <1>2, <1>3, <1>4, <1>6, <1>7, <1>8, <1>9 DEF Page!Next, Page!PaneNext, Page!MountNext

LEMMA IsSequence ==
  ASSUME NEW S, NEW n \in Nat, NEW f \in [1..n -> S]
  PROVE  f \in Seq(S)
OBVIOUS

LEMMA CountUpTo ==
  ASSUME NEW n \in Nat
  PROVE  /\ IsFiniteSet(1..n) /\ Cardinality(1..n) = n
         /\ IsFiniteSet(0..(n - 1)) /\ Cardinality(0..(n - 1)) = n
<1>1. \A a, b \in Int : IsFiniteSet(a..b) /\ Cardinality(a..b) = IF a > b THEN 0 ELSE b - a + 1
  BY FS_Interval
<1>2. 1 \in Int /\ n \in Int /\ 0 \in Int /\ n - 1 \in Int
  OBVIOUS
<1>3. IsFiniteSet(1..n) /\ Cardinality(1..n) = IF 1 > n THEN 0 ELSE n - 1 + 1
  BY <1>1, <1>2
<1>4. IsFiniteSet(0..(n - 1)) /\ Cardinality(0..(n - 1)) = IF 0 > n - 1 THEN 0 ELSE (n - 1) - 0 + 1
  BY <1>1, <1>2
<1> QED BY <1>3, <1>4

LEMMA AtMostOne ==
  ASSUME NEW P, \A p, q \in P : p = q
  PROVE  Cardinality(P) = IF P = {} THEN 0 ELSE 1
<1>1. CASE P = {}
  BY <1>1, FS_EmptySet
<1>2. CASE P # {}
  <2>1. PICK p : p \in P
    BY <1>2
  <2>2. P = {p}
    BY <2>1
  <2> QED BY <1>2, <2>2, FS_Singleton, Zenon
<1> QED BY <1>1, <1>2

LEMMA TabsBounded ==
  ASSUME PanesInv, NEW i \in DOMAIN panes
  PROVE  /\ panes[i].tabs \in Seq(0..MaxSession) /\ Len(panes[i].tabs) <= MaxSession + 1
         /\ panes[i].active \in Page!NoTab..MaxSession
<1> DEFINE tabs == panes[i].tabs
<1>1. /\ AllSound(panes) /\ nextSession \in Nat /\ nextSession <= MaxSession + 1
      /\ MaxSession \in Nat
  BY PageAssumption DEF PanesInv, PageAssumption, Page!BoundsAssumption
<1>2. tabs \in Seq(Nat) /\ \A k, l \in DOMAIN tabs : tabs[k] = tabs[l] => k = l
  BY <1>1 DEF AllSound, PaneSound, PaneRecords
<1>3. \A k \in DOMAIN tabs : tabs[k] \in 0..(nextSession - 1)
  BY <1>1 DEF PanesInv, Holds, Page!Has
<1>4. panes[i].active = Page!NoTab \/ \E k \in DOMAIN tabs : tabs[k] = panes[i].active
  BY <1>1 DEF AllSound, PaneSound, ShowsOwn, Page!Has
<1> HIDE DEF tabs
<1>5. DOMAIN tabs = 1..Len(tabs) /\ Len(tabs) \in Nat /\ tabs = [k \in 1..Len(tabs) |-> tabs[k]]
  BY <1>2
<1>6. tabs \in [1..Len(tabs) -> 0..(nextSession - 1)]
  BY <1>3, <1>5
<1>7. tabs \in Injection(1..Len(tabs), 0..(nextSession - 1))
  BY <1>2, <1>5, <1>6 DEF Injection, IsInjective
<1>8. Cardinality(1..Len(tabs)) <= Cardinality(0..(nextSession - 1))
  BY <1>1, <1>7, CountUpTo, FS_Injection
<1>9. Len(tabs) <= MaxSession + 1
  BY <1>1, <1>5, <1>8, CountUpTo
<1>10. 0..(nextSession - 1) \subseteq 0..MaxSession
  BY <1>1
<1>11. tabs \in Seq(0..MaxSession)
  <2>1. tabs \in [1..Len(tabs) -> 0..MaxSession]
    BY <1>6, <1>10
  <2>2. Len(tabs) \in Nat
    BY <1>5
  <2> QED BY <2>1, <2>2, IsSequence
<1>12. panes[i].active \in Page!NoTab..MaxSession
  BY <1>1, <1>3, <1>4, <1>10 DEF Page!NoTab
<1> QED BY <1>9, <1>11, <1>12 DEF tabs

\* What the invariant says of the tabs as they are counted by PanesSound.
LEMMA PanesSay == PanesInv => Page!PanesSound
<1> SUFFICES ASSUME PanesInv PROVE Page!PanesSound
  OBVIOUS
<1>1. /\ AllSound(panes) /\ nextSession \in Nat /\ nextSession <= MaxSession + 1
      /\ MaxSession \in Nat
  BY PageAssumption DEF PanesInv, PageAssumption, Page!BoundsAssumption
<1>2. panes # << >> /\ \A i, j \in DOMAIN panes : panes[i].id = panes[j].id => i = j
  BY <1>1 DEF AllSound, IdsDiffer
<1>3. \A i \in DOMAIN panes :
        IF panes[i].tabs = << >> THEN panes[i].active = Page!NoTab
        ELSE Page!Has(panes[i], panes[i].active)
  BY <1>1 DEF AllSound, PaneSound, ShowsOwn
<1>4. ASSUME NEW i \in DOMAIN panes PROVE DOMAIN panes[i].tabs \subseteq 1..(MaxSession + 1)
  <2>1. panes[i].tabs \in Seq(0..MaxSession) /\ Len(panes[i].tabs) <= MaxSession + 1
    BY TabsBounded
  <2>2. DOMAIN panes[i].tabs = 1..Len(panes[i].tabs) /\ Len(panes[i].tabs) \in Nat
    BY <2>1
  <2> QED BY <1>1, <2>1, <2>2
<1>5. ASSUME NEW s \in 0..(nextSession - 1)
      PROVE  /\ s \notin closed => Page!Cardinality(Page!Places(s)) = 1
             /\ s \in closed \ stale => Page!Places(s) = {}
             /\ Page!Cardinality(Page!Places(s)) <= 1
  <2> DEFINE P == Page!Places(s)
  <2>1. \A p : p \in P <=> /\ p \in (DOMAIN panes) \X (1..(MaxSession + 1))
                           /\ p[2] \in DOMAIN panes[p[1]].tabs /\ panes[p[1]].tabs[p[2]] = s
    BY DEF Page!Places
  <2> HIDE DEF P
  <2>2. \A p \in P : /\ p = <<p[1], p[2]>> /\ p[1] \in DOMAIN panes
                     /\ p[2] \in DOMAIN panes[p[1]].tabs
                     /\ panes[p[1]].tabs[p[2]] = s /\ Page!Has(panes[p[1]], s)
    BY <2>1 DEF Page!Has
  <2>3. \A p, q \in P : p = q
    <3> SUFFICES ASSUME NEW p \in P, NEW q \in P PROVE p = q
      OBVIOUS
    <3>1. p[1] = q[1]
      BY <1>1, <2>2 DEF AllSound, InOnePane
    <3>2. p[2] = q[2]
      BY <1>1, <2>2, <3>1 DEF AllSound, PaneSound
    <3> QED BY <2>2, <3>1, <3>2
  <2>5. Page!Cardinality(P) = Cardinality(P)
    BY RankIs
  <2>6. Cardinality(P) <= 1 /\ (P # {} => Cardinality(P) = 1)
    BY <2>3, AtMostOne
  <2>7. Holds(panes, s) => P # {}
    <3> SUFFICES ASSUME Holds(panes, s) PROVE P # {}
      OBVIOUS
    <3>1. PICK i \in DOMAIN panes : \E k \in DOMAIN panes[i].tabs : panes[i].tabs[k] = s
      BY DEF Holds, Page!Has
    <3>2. PICK k \in DOMAIN panes[i].tabs : panes[i].tabs[k] = s
      BY <3>1
    <3>3. k \in 1..(MaxSession + 1)
      BY <1>4, <3>2
    <3>4. <<i, k>> \in P
      BY <2>1, <3>2, <3>3
    <3> QED BY <3>4
  <2>8. ~Holds(panes, s) => P = {}
    BY <2>2 DEF Holds
  <2> QED BY <2>5, <2>6, <2>7, <2>8 DEF PanesInv, P
<1> QED BY <1>2, <1>3, <1>5 DEF Page!PanesSound

-----------------------------------------------------------------------------
(* The mounting of the page anew (Workbench).                               *)

\* What a page has of texts, wherever it is.
TextTypes ==
  /\ text \in [Page!Models -> 0..MaxText] /\ saved \in [Page!Models -> Page!Other..MaxText]
  /\ refused \subseteq Page!Models /\ queued \subseteq Page!Models /\ taken \subseteq Page!Models

\* Between two editors nothing is typed, and what the preparation came to is in the workspace
\* unless others or an older write came after it.
TextsStand ==
  /\ page # "app" => readOnly = TRUE
  /\ page # "app" => \A m \in (1..prepared) \ (taken \union queued) : saved[m] = text[m]

\* A preparation that has failed, or did not come to every model, is followed by the page that
\* shows the failure; a runtime that was disposed of stays so until the next.
MountSteps ==
  /\ page \in {"opening", "app", "flushing", "disposing", "creating", "failure", "reload"}
  /\ runtime \in {"created", "starting", "ready", "disposed", "quarantined"}
  /\ prepared \in Page!NoEditor..MaxModels /\ readOnly \in BOOLEAN /\ mountFailed \in BOOLEAN
  /\ page = "flushing" => prepared = MaxModels /\ mountFailed = FALSE
  /\ page \in {"disposing", "creating"} /\ mountFailed = FALSE => prepared \in {Page!NoEditor, MaxModels}
  /\ page = "creating" => runtime = "disposed" /\ mountFailed = FALSE
  /\ page = "failure" => runtime = "disposed"

MountInv == TextTypes /\ TextsStand /\ MountSteps

LEMMA TextStepKeeps ==
  ASSUME MountInv, Page!TextNext
  PROVE  MountInv'
<1>1. PICK m \in Page!Models : Page!Type(m) \/ Page!Synced(m) \/ Page!Taken(m) \/ Page!Given(m)
  BY DEF Page!TextNext
<1>2. MaxText \in Nat
  BY PageAssumption DEF PageAssumption, Page!BoundsAssumption
<1>3. UNCHANGED <<page, runtime, prepared, readOnly, mountFailed>>
  BY <1>1 DEF Page!Type, Page!Synced, Page!Taken, Page!Given
<1>4. MountSteps'
  BY <1>3 DEF MountInv, MountSteps
<1>5. CASE Page!Type(m)
  <2>1. /\ text' = [text EXCEPT ![m] = @ + 1] /\ text[m] < MaxText /\ ~readOnly
        /\ queued' \in {queued, queued \union {m}} /\ UNCHANGED <<saved, refused, taken>>
    BY <1>5 DEF Page!Type
  <2>2. text[m] + 1 \in 0..MaxText
    BY <1>2, <2>1 DEF MountInv, TextTypes
  <2>3. TextTypes'
    BY <2>1, <2>2 DEF MountInv, TextTypes
  <2> QED BY <1>3, <1>4, <2>1, <2>3 DEF MountInv, TextsStand
<1>6. CASE Page!Synced(m)
  <2>1. PICK t \in 0..text[m] :
          /\ saved' = [saved EXCEPT ![m] = t]
          /\ \/ UNCHANGED <<queued, taken>>
             \/ t = text[m] /\ queued' = queued \ {m} /\ UNCHANGED taken
             \/ queued' = queued \ {m} /\ taken' = taken \union {m}
    BY <1>6 DEF Page!Synced
  <2>2. m \in queued /\ UNCHANGED <<text, refused>>
    BY <1>6 DEF Page!Synced
  <2>3. t \in Page!Other..MaxText
    BY <1>2 DEF MountInv, TextTypes, Page!Other
  <2>4. TextTypes'
    BY <2>1, <2>2, <2>3 DEF MountInv, TextTypes
  <2>5. \A k \in 1..prepared : k \notin taken' \union queued' /\ k # m
                           => k \notin taken \union queued /\ saved'[k] = saved[k]
    BY <2>1 DEF MountInv, TextTypes
  <2>6. m \notin taken' \union queued' => saved'[m] = text'[m]
    BY <2>1, <2>2 DEF MountInv, TextTypes
  <2> QED BY <1>3, <1>4, <2>2, <2>4, <2>5, <2>6 DEF MountInv, TextsStand
<1>7. CASE Page!Taken(m)
  <2>1. /\ saved' = [saved EXCEPT ![m] = Page!Other] /\ taken' = taken \union {m}
        /\ refused' \in {refused, refused \union {m}} /\ UNCHANGED <<text, queued>>
    BY <1>7 DEF Page!Taken
  <2>2. Page!Other \in Page!Other..MaxText
    BY <1>2 DEF Page!Other
  <2>3. TextTypes'
    BY <2>1, <2>2 DEF MountInv, TextTypes
  <2> QED BY <1>3, <1>4, <2>1, <2>3 DEF MountInv, TextsStand, TextTypes
<1>8. CASE Page!Given(m)
  BY <1>3, <1>4, <1>8 DEF Page!Given, MountInv, TextsStand, TextTypes
<1> QED BY <1>1, <1>5, <1>6, <1>7, <1>8

LEMMA PrepareKeeps ==
  ASSUME MountInv, Page!Prepare
  PROVE  MountInv'
<1>1. MaxText \in Nat /\ MaxModels \in Nat
  BY PageAssumption DEF PageAssumption, Page!BoundsAssumption
<1>2. PICK n \in 0..MaxModels :
        /\ prepared' = n /\ mountFailed' = (n < MaxModels)
        /\ saved' = [m \in Page!Models |-> IF m <= n THEN text[m] ELSE saved[m]]
        /\ IF n = MaxModels /\ runtime = "ready" THEN page' = "flushing" ELSE page' = "disposing"
  BY DEF Page!Prepare, Page!Preparation, Page!Unmount
<1>3. readOnly' = TRUE /\ taken' = {} /\ UNCHANGED <<runtime, text, refused, queued>>
  BY DEF Page!Prepare, Page!Preparation
<1>4. TextTypes'
  <2>1. \A m \in Page!Models : text[m] \in Page!Other..MaxText /\ saved[m] \in Page!Other..MaxText
    BY <1>1 DEF MountInv, TextTypes, Page!Other
  <2>2. saved' \in [Page!Models -> Page!Other..MaxText]
    BY <1>2, <2>1
  <2> QED BY <1>3, <2>2 DEF MountInv, TextTypes
<1>5. TextsStand'
  <2>1. \A m \in 1..n : m \in Page!Models /\ m <= n
    BY <1>1 DEF Page!Models
  <2>2. \A m \in 1..n : saved'[m] = text[m]
    BY <1>2, <2>1
  <2> QED BY <1>2, <1>3, <2>2 DEF TextsStand
<1>6. MountSteps'
  <2>1. /\ prepared' \in Page!NoEditor..MaxModels /\ readOnly' \in BOOLEAN
        /\ mountFailed' \in BOOLEAN
    BY <1>1, <1>2, <1>3 DEF Page!NoEditor
  <2>2. runtime' \in {"created", "starting", "ready", "disposed", "quarantined"}
    BY <1>3 DEF MountInv, MountSteps
  <2>3. CASE page' = "flushing"
    <3>1. n = MaxModels /\ prepared' = MaxModels
      BY <1>2, <2>3, Zenon
    <3>2. (n < MaxModels) = FALSE
      BY <1>1, <3>1
    <3>3. mountFailed' = FALSE
      BY <1>2, <3>2, Zenon
    <3> QED BY <2>1, <2>2, <2>3, <3>1, <3>3 DEF MountSteps
  <2>4. CASE page' = "disposing"
    <3>1. n < MaxModels \/ n = MaxModels
      BY <1>1
    <3>2. mountFailed' = FALSE => prepared' = MaxModels
      BY <1>2, <3>1, Zenon
    <3> QED BY <2>1, <2>2, <2>4, <3>2 DEF MountSteps
  <2> QED BY <1>2, <2>3, <2>4
<1> QED BY <1>4, <1>5, <1>6 DEF MountInv

LEMMA MountKeeps ==
  ASSUME MountInv, [Page!Next]_(Page!workbenchVars)
  PROVE  MountInv'
<1> USE DEF MountInv, TextTypes, TextsStand, MountSteps
<1>1. CASE UNCHANGED Page!workbenchVars
  BY <1>1 DEF Page!workbenchVars, Page!mountVars, Page!textVars
<1>2. CASE Page!PaneNext
  <2>1. UNCHANGED Page!mountVars
    BY <1>2 DEF Page!PaneNext, Page!Add, Page!Split, Page!Drop, Page!Close, Page!Activate,
                Page!DragStart
  <2> QED BY <2>1 DEF Page!mountVars, Page!textVars
<1>3. CASE Page!Remount
  BY <1>3 DEF Page!Remount, Page!textVars
<1>4. CASE Page!Unprepared
  <2>1. /\ page \in {"opening", "failure", "reload"} /\ prepared' = Page!NoEditor /\ mountFailed' = FALSE
        /\ UNCHANGED <<runtime, readOnly, text, saved, refused, queued, taken>>
    BY <1>4 DEF Page!Unprepared, Page!textVars
  <2>2. \/ page = "opening" /\ page' = "disposing"
        \/ page = "failure" /\ page' = "creating"
        \/ page = "reload" /\ page' = "reload"
    BY <1>4 DEF Page!Unprepared, Page!Unmount
  <2>3. \A m \in 1..prepared' : FALSE
    BY <2>1 DEF Page!NoEditor
  <2>4. MaxModels \in Nat
    BY PageAssumption DEF PageAssumption, Page!BoundsAssumption
  <2>5. prepared' \in Page!NoEditor..MaxModels
    BY <2>1, <2>4 DEF Page!NoEditor
  <2> QED BY <2>1, <2>2, <2>3, <2>5
<1>5. CASE Page!Flushed \/ Page!FlushFails
  BY <1>5 DEF Page!Flushed, Page!FlushFails, Page!Unmount, Page!textVars
<1>6. CASE Page!Disposed \/ Page!Quarantined
  BY <1>6 DEF Page!Disposed, Page!Quarantined, Page!textVars
<1>7. CASE Page!Created \/ Page!CreationFails
  BY <1>7 DEF Page!Created, Page!CreationFails, Page!textVars
<1>8. CASE Page!EditorMounted
  BY <1>8 DEF Page!EditorMounted
<1>9. CASE Page!Started \/ Page!RuntimeFails
  BY <1>9 DEF Page!Started, Page!RuntimeFails, Page!Shown, Page!textVars
<1> QED BY <1>1, <1>2, <1>3, <1>4, <1>5, <1>6, <1>7, <1>8, <1>9, TextStepKeeps, PrepareKeeps
        DEF Page!Next, Page!MountNext

LEMMA MountSays == MountInv => Page!NothingTypedIsLost
  BY DEF MountInv, TextsStand, MountSteps, Page!NothingTypedIsLost

LEMMA StepOfPage == [Next]_vars => [Page!Next]_(Page!workbenchVars)
  BY DEF Next, vars, pageVars, Page!workbenchVars, Page!paneVars, Page!mountVars, Page!textVars,
         Page!turnVars, Page!Next, HttpStep, DownloadStep, TerminalStep, CommandsStep,
         GesturesStep, PageStep, FilesStep, SourceStep

LEMMA MountStart == Page!Init => MountInv
<1> SUFFICES ASSUME Page!Init PROVE MountInv
  OBVIOUS
<1>1. MaxText \in Nat /\ MaxModels \in Nat
  BY PageAssumption DEF PageAssumption, Page!BoundsAssumption
<1>2. 0 \in 0..MaxText /\ 0 \in Page!Other..MaxText /\ Page!Other \in Page!Other..MaxText
  BY <1>1 DEF Page!Other
<1>3. TextTypes
  BY <1>2 DEF Page!Init, TextTypes
<1>4. prepared = Page!NoEditor /\ prepared \in Page!NoEditor..MaxModels /\ \A m \in 1..prepared : FALSE
  BY <1>1 DEF Page!Init, Page!NoEditor
<1>5. TextsStand
  BY <1>4 DEF Page!Init, TextsStand
<1>6. MountSteps
  BY <1>4 DEF Page!Init, MountSteps
<1> QED BY <1>3, <1>5, <1>6 DEF MountInv

\* However often the page is mounted anew, whatever the workspace refuses, others write and the
\* runtime does, what the preparation came to is in the workspace until the next editor, and a
\* runtime is created only after the one before it was disposed of and every model was written
\* and flushed, or after the failure was shown.
THEOREM RemountLosesNothing == Page!Spec => []Page!NothingTypedIsLost
<1>1. Page!Init => MountInv
  BY MountStart
<1>2. MountInv /\ [Page!Next]_(Page!workbenchVars) => MountInv'
  BY MountKeeps
<1>3. MountInv => Page!NothingTypedIsLost
  BY MountSays
<1> QED BY <1>1, <1>2, <1>3, PTL DEF Page!Spec

\* However tabs are added, split off, dragged and closed, and the page is mounted anew, an
\* open session has exactly one tab, a closed one none unless a stale drag brings it back,
\* a pane shows a tab of its own, and nothing that was typed is lost in silence.
THEOREM PageIsSound == Spec => []PageSound
<1>1. Init => PanesInv /\ DragKnown /\ MountInv
  BY PanesStart, MountStart DEF Init, Page!Init
<1>2. PanesInv /\ DragKnown /\ MountInv /\ [Next]_vars => (PanesInv /\ DragKnown /\ MountInv)'
  BY PanesKeep, MountKeeps, StepOfPage
<1>3. PanesInv /\ MountInv => PageSound
  <2> SUFFICES ASSUME PanesInv, MountInv PROVE PageSound
    OBVIOUS
  <2>1. Page!PanesSound /\ Page!NothingTypedIsLost
    BY PanesSay, MountSays
  <2>2. Page!TypeOK
    <3>1. \A i \in DOMAIN panes : panes[i].tabs \in Seq(0..MaxSession)
                                  /\ panes[i].active \in Page!NoTab..MaxSession
      BY TabsBounded
    <3>2. closed \subseteq 1..MaxSession /\ stale \subseteq closed
      <4>1. nextSession \in Nat /\ nextSession <= MaxSession + 1 /\ MaxSession \in Nat
        BY PageAssumption DEF PanesInv, PageAssumption, Page!BoundsAssumption
      <4>2. 1..(nextSession - 1) \subseteq 1..MaxSession
        BY <4>1
      <4> QED BY <4>2 DEF PanesInv
    <3> QED BY <3>1, <3>2 DEF Page!TypeOK, MountInv, MountSteps, TextTypes
  <2> QED BY <2>1, <2>2 DEF PageSound
<1> QED BY <1>1, <1>2, <1>3, PTL DEF Spec
=============================================================================
