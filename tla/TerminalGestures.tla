--------------------------- MODULE TerminalGestures ---------------------------
(* installMobileTerminalGestures() of mobile_terminal_gestures.ts: one finger     *)
(* taps, scrolls or selects, and only a tap may open the keyboard, although the   *)
(* browser and xterm.js focus the terminal by themselves a while after the        *)
(* finger has left.                                                               *)
(*                                                                                *)
(* Positions are one-dimensional, in steps that tell the three distances of the   *)
(* module apart; times are what is left of each timer.  The scroll area is taken  *)
(* to be longer than any gesture.                                                 *)
EXTENDS Integers

CONSTANTS MaxY,                       \* the finger is at 0..MaxY
          Tolerance, TapDistance, ScrollDistance, \* LONG_PRESS_MOVE, TAP_MAX, SCROLL_START
          LongPress, TapTime, Block,  \* durations; Block is the one of both suppressions
          MaxGestures

DistanceAssumption == /\ {MaxY, Tolerance, TapDistance, ScrollDistance} \subseteq Nat
                      /\ Tolerance <= TapDistance /\ TapDistance < ScrollDistance
                      /\ {LongPress, TapTime, MaxGestures} \subseteq Nat
                      /\ TapTime < LongPress /\ Block \in Nat \ {0}

VARIABLES installed,
          touching,     \* activeId is set
          mode, startY, lastY, distance, \* gestureMode, ..., maxDistanceFromStart
          elapsed,      \* since startedAt, up to TapTime + 1
          scrollTop, scrollTopAtStart, scrolled,
          keyboardAtStart,  \* keyboardWasOpenAtStart
          longPress,    \* what is left of the timer, NoTime when it is not set
          copyButton,   \* 0 or the gesture that showed it
          copying,      \* a copy under way: what is left until removeCopyButton()
          focused, keyboard,  \* of the terminal's textarea
          suppressFocus, blockEvents,  \* left until ...Until
          lateFocus,    \* how long the browser may still focus the textarea
          gestures, lastKind  \* how many there were, and what the last one was

gestureVars == <<installed, touching, mode, startY, lastY, distance, elapsed, scrollTop,
                 scrollTopAtStart, scrolled, keyboardAtStart, longPress, copyButton, copying,
                 focused, keyboard, suppressFocus, blockEvents, lateFocus, gestures, lastKind>>
finger == <<touching, mode, startY, lastY, distance, elapsed, scrollTopAtStart, scrolled,
            keyboardAtStart>>

NoTime == 0 - 1
Positions == 0..MaxY
Abs(n) == IF n < 0 THEN 0 - n ELSE n
Larger(a, b) == IF a > b THEN a ELSE b

Init == /\ installed = TRUE /\ touching = FALSE /\ mode = "idle" /\ startY = 0 /\ lastY = 0
        /\ distance = 0 /\ elapsed = 0 /\ scrollTop = 0 /\ scrollTopAtStart = 0
        /\ scrolled = FALSE /\ keyboardAtStart = FALSE /\ longPress = NoTime
        /\ copyButton = 0 /\ copying = NoTime /\ focused = FALSE /\ keyboard = FALSE
        /\ suppressFocus = 0 /\ blockEvents = 0 /\ lateFocus = 0 /\ gestures = 0
        /\ lastKind = "none"

(* --- the gesture ----------------------------------------------------------- *)

\* startGesture(): a finger comes down, and none is followed yet.
StartGesture(y) ==
  /\ installed /\ ~touching /\ gestures < MaxGestures
  /\ touching' = TRUE /\ mode' = "pending" /\ startY' = y /\ lastY' = y
  /\ distance' = 0 /\ elapsed' = 0 /\ scrollTopAtStart' = scrollTop /\ scrolled' = FALSE
  /\ keyboardAtStart' = (focused /\ keyboard)
  /\ longPress' = LongPress /\ copyButton' = 0 /\ blockEvents' = Block
  /\ gestures' = gestures + 1 /\ lastKind' = "none"
  /\ UNCHANGED <<installed, scrollTop, copying, focused, keyboard, suppressFocus, lateFocus>>

\* moveGesture(): a move beyond the tolerance is no long press, and one that is
\* long enough scrolls, by the whole way from the start.
MoveGesture(y) ==
  /\ installed /\ touching /\ y # lastY
  /\ distance' = Larger(distance, Abs(y - startY))
  /\ longPress' = IF distance' > Tolerance THEN NoTime ELSE longPress
  /\ IF mode = "pending" /\ distance' >= ScrollDistance
     THEN /\ mode' = "scrolling" /\ scrolled' = TRUE /\ lastY' = y
          /\ scrollTop' = scrollTop + (startY - y)
     ELSE IF mode = "scrolling"
     THEN /\ scrolled' = TRUE /\ lastY' = y /\ scrollTop' = scrollTop + (lastY - y)
          /\ UNCHANGED mode
     ELSE UNCHANGED <<mode, scrolled, lastY, scrollTop>> \* extendSelectionTo(), or too short
  /\ UNCHANGED <<installed, touching, startY, elapsed, scrollTopAtStart, keyboardAtStart,
                 copyButton, copying, focused, keyboard, suppressFocus, blockEvents, lateFocus,
                 gestures, lastKind>>

\* The timer of beginLongPress(): a word is selected, if there is one.
LongPressFires ==
  /\ longPress = 0 /\ longPress' = NoTime
  /\ \/ /\ touching /\ mode = "pending" /\ distance <= Tolerance
        /\ mode' = "selecting" /\ copyButton' = gestures
     \/ UNCHANGED <<mode, copyButton>>
  /\ UNCHANGED <<installed, touching, startY, lastY, distance, elapsed, scrollTop,
                 scrollTopAtStart, scrolled, keyboardAtStart, copying, focused, keyboard,
                 suppressFocus, blockEvents, lateFocus, gestures, lastKind>>

\* Mutant: only the moves that were reported count.
DidScrollReported(y) == mode = "scrolling" \/ scrolled \/ scrollTop # scrollTopAtStart

\* What finishGesture() makes of the finger that has left at y: moves may have been
\* thinned out, so the last position counts as well.
DistanceAt(y) == Larger(distance, Abs(y - startY))
DidScroll(y) == \/ mode = "scrolling" \/ scrolled \/ scrollTop # scrollTopAtStart
                \/ DistanceAt(y) >= ScrollDistance
IsTap(y, cancelled) == /\ ~cancelled /\ ~DidScroll(y) /\ mode = "pending"
                       /\ elapsed <= TapTime /\ DistanceAt(y) <= TapDistance

\* clearLongPressTimer()
Cleared(timer) == NoTime

FinishGesture(y, cancelled) ==
  /\ installed /\ touching
  /\ longPress' = Cleared(longPress) /\ blockEvents' = Block
  /\ IF DidScroll(y) /\ ~keyboardAtStart
     THEN suppressFocus' = Block /\ focused' = FALSE /\ keyboard' = FALSE
     ELSE IF IsTap(y, cancelled)
     THEN suppressFocus' = 0 /\ focused' = TRUE /\ UNCHANGED keyboard
     ELSE UNCHANGED <<suppressFocus, focused, keyboard>>
  /\ touching' = FALSE /\ mode' = "idle" /\ elapsed' = 0 /\ distance' = 0
  /\ scrollTopAtStart' = 0 /\ scrolled' = FALSE /\ keyboardAtStart' = FALSE
  /\ lateFocus' = Block - 1
  /\ lastKind' = IF DistanceAt(y) < ScrollDistance /\ scrollTop = scrollTopAtStart THEN "other"
                 ELSE IF keyboardAtStart THEN "other" ELSE "scroll"
  /\ UNCHANGED <<installed, startY, lastY, scrollTop, copyButton, copying, gestures>>

(* --- the browser and the button -------------------------------------------- *)

\* The browser or xterm.js focuses the textarea, some time after the gesture:
\* handleFocusIn() takes the focus away again.
FocusIn ==
  /\ lateFocus > 0 /\ ~touching /\ ~focused /\ lateFocus' = 0
  /\ focused' = ~(installed /\ suppressFocus > 0)
  /\ UNCHANGED <<installed, finger, scrollTop, longPress, copyButton, copying, keyboard,
                 suppressFocus, blockEvents, gestures, lastKind>>

\* The keyboard follows the focus; the user may put it away.
Keyboard ==
  /\ focused /\ keyboard' = ~keyboard
  /\ UNCHANGED <<installed, finger, scrollTop, longPress, copyButton, copying, focused,
                 suppressFocus, blockEvents, lateFocus, gestures, lastKind>>

\* The button is clicked; the clipboard takes its time, then the button is removed.
Copy ==
  /\ copyButton # 0 /\ copying = NoTime /\ copying' \in 0..1
  /\ UNCHANGED <<installed, finger, scrollTop, longPress, copyButton, focused, keyboard,
                 suppressFocus, blockEvents, lateFocus, gestures, lastKind>>

RemoveCopyButton ==
  /\ copying = 0 /\ copying' = NoTime /\ copyButton' = 0
  /\ UNCHANGED <<installed, finger, scrollTop, longPress, focused, keyboard, suppressFocus,
                 blockEvents, lateFocus, gestures, lastKind>>

\* What the installation returned, called when the terminal is unmounted.
Uninstall ==
  /\ installed /\ installed' = FALSE /\ longPress' = Cleared(longPress) /\ copyButton' = 0
  /\ UNCHANGED <<finger, scrollTop, copying, focused, keyboard, suppressFocus, blockEvents,
                 lateFocus, gestures, lastKind>>

Down(n) == IF n > 0 THEN n - 1 ELSE n
\* A timer that is due fires before time goes on.
Tick ==
  /\ longPress # 0 /\ copying # 0
  /\ elapsed' = IF touching /\ elapsed <= TapTime THEN elapsed + 1 ELSE elapsed
  /\ longPress' = Down(longPress) /\ copying' = Down(copying)
  /\ suppressFocus' = Down(suppressFocus) /\ blockEvents' = Down(blockEvents)
  /\ lateFocus' = Down(lateFocus)
  /\ UNCHANGED <<installed, touching, mode, startY, lastY, distance, scrollTop, scrollTopAtStart,
                 scrolled, keyboardAtStart, copyButton, focused, keyboard, gestures, lastKind>>

\* The handlers of the events pass on what the followed finger does; a second finger,
\* a mouse and, while blockEvents runs, the compatibility events change nothing.
Next == \/ \E y \in Positions : \/ StartGesture(y) \/ MoveGesture(y)
                                \/ \E c \in BOOLEAN : FinishGesture(y, c)
        \/ LongPressFires \/ FocusIn \/ Keyboard \/ Copy \/ RemoveCopyButton \/ Uninstall \/ Tick

Spec == Init /\ [][Next]_gestureVars

(* --- properties ------------------------------------------------------------ *)

TypeOK ==
  /\ {installed, touching, scrolled, keyboardAtStart, focused, keyboard} \subseteq BOOLEAN
  /\ mode \in {"idle", "pending", "scrolling", "selecting"}
  /\ startY \in Positions /\ lastY \in Positions /\ distance \in Positions
  /\ elapsed \in 0..(TapTime + 1) /\ scrollTop \in Int /\ scrollTopAtStart \in Int
  /\ longPress \in NoTime..LongPress /\ copyButton \in 0..MaxGestures /\ copying \in NoTime..1
  /\ suppressFocus \in 0..Block /\ blockEvents \in 0..Block /\ lateFocus \in 0..Block
  /\ gestures \in 0..MaxGestures /\ lastKind \in {"none", "scroll", "other"}

\* A finger that has moved as far as a scroll, reported on the way or not, opens no
\* keyboard, neither by itself nor by the focus that comes late: until the next
\* gesture the terminal stays without focus (mobile_terminal_gestures.ts:443-481).
ScrollKeepsKeyboardClosed == (installed /\ lastKind = "scroll") => ~focused

\* The timer of a long press belongs to the finger that is down and has not moved:
\* the one of an earlier gesture would select for a later one
\* (mobile_terminal_gestures.ts:350-367, 399-401, 441).
LongPressIsOwn == longPress # NoTime => touching /\ mode = "pending" /\ distance <= Tolerance

\* The text stays under the finger: the area has been scrolled by the way of the
\* finger, the part before the scroll was recognised included
\* (mobile_terminal_gestures.ts:408-433).
ScrollFollowsFinger == mode = "scrolling" => scrollTop - scrollTopAtStart = startY - lastY

=============================================================================
