------------------------------ MODULE Selection ------------------------------
(***************************************************************************)
(* Selecting text in the terminal: SelectionOwner of                       *)
(* ui/mixins/selection_owner.h as AnsiTerminal uses it. The UI thread gets *)
(* the mouse and the keys, the timer's thread scrolls while the mouse is   *)
(* dragged outside, and the reader scrolls lines into the history, gives   *)
(* the mouse to the application, and switches to the alternate mode. What  *)
(* the two threads want from the UI is scheduled. Coordinates are columns  *)
(* and rows from 0, in the widget or in its contents: the history and the  *)
(* screen below. A row is known by a number; of its cells there is told    *)
(* whether anything is written there and whether it separates words.       *)
(***************************************************************************)
EXTENDS Integers, Sequences, SequencesExt, FiniteSets, FiniteSetsExt

CONSTANTS Width, Height, MaxHistoryRows,
          Modes,           \* of the mouse: some of "Off", "Normal", "ButtonEvent", "All"
          WordSeparators,  \* the pairs <<row, column>> where one is written
          Beyond,          \* where the mouse may be dragged to outside of the widget
          Lines,           \* pairs: how much of a row is written, whether that ends the line
          MaxInputs, MaxLines, MaxModes  \* bounds: of the user, and of the reader

ASSUME SizesAssumption == /\ {Width, Height} \subseteq Nat \ {0}
                          /\ MaxHistoryRows \in Nat
                          /\ Lines \subseteq (0..Width) \X BOOLEAN

VARIABLES
  history,     \* historyRows_
  screen,      \* of state_
  other,       \* of stateBackup_
  alternate,   \* alternateMode_
  switching,   \* whether the reader is in the middle of a switch of the mode
  offset,      \* the row of scrollOffset()
  follows,     \* scrollToTerminal_
  selection,   \* selection_, and on: a history variable, the mode when it was made
  from,        \* selectionStart_
  timer,       \* autoScrollTimer_: whether it runs, and the rows of autoScrollIncrement_
  events,      \* what is scheduled for the widget
  mode,        \* mouseMode_
  buttons,     \* that are pressed
  clicks,      \* how many quick clicks there were in a row, at most 2
  click,       \* the click that the release of the button is, or "none"
  clipboard, primary, \* the texts last given to the renderer: sequences of cells
  status,      \* "running", or why it goes on no more: "outside", "undefined", "endless"
  drag,        \* history variable: the cells the drag began at and came to
  count        \* bounds: [inputs, lines, modes]

contents == <<history, screen, other, alternate, switching>>
scroll == <<offset, follows>>
selecting == <<selection, from, timer>>
mouse == <<mode, buttons, clicks, click>>
texts == <<clipboard, primary>>
vars == <<contents, scroll, selecting, events, mouse, texts, status, drag, count>>

\* A row of the screen: its cells up to len are written, and the last of them
\* ends the line if ends is TRUE.
Row(id) == [id |-> id, len |-> 0, ends |-> FALSE]

Nowhere == <<-1, -1>>
NoSelection == [start |-> <<0, 0>>, end |-> <<0, 0>>, on |-> FALSE]
NoDrag == [pressed |-> Nowhere, last |-> Nowhere, kept |-> FALSE, on |-> FALSE, during |-> FALSE]

Init == /\ history = << >>
        /\ screen = [j \in 1..Height |-> Row(j)]
        /\ other = [j \in 1..Height |-> Row(Height + j)]
        /\ alternate = FALSE
        /\ switching = FALSE
        /\ offset = 0
        /\ follows = TRUE
        /\ selection = NoSelection
        /\ from = Nowhere
        /\ timer = [on |-> FALSE, by |-> 0]
        /\ events = << >>
        /\ mode = "Off"
        /\ buttons = {}
        /\ clicks = 0
        /\ click = "none"
        /\ clipboard = << >>
        /\ primary = << >>
        /\ status = "running"
        /\ drag = NoDrag
        /\ count = [inputs |-> 0, lines |-> 0, modes |-> 0]

-----------------------------------------------------------------------------
(* Contents *)

\* terminalBufferTop()
Top == IF alternate THEN 0 ELSE Len(history)

Contents == IF alternate THEN screen ELSE history \o screen

\* The cells there are in a row: one of the history is cut at the line's end.
Cells(y) == IF y < Top /\ Contents[y + 1].ends THEN Contents[y + 1].len ELSE Width

\* cellAt() returns nullptr, or a cell.
IsCell(p) == /\ p[2] \in 0..(Len(Contents) - 1)
             /\ p[1] \in 0..(Cells(p[2]) - 1)

\* The cell as it can be told from others.
CellAt(p) == <<Contents[p[2] + 1].id, p[1] + 1>>

Written(p) == IsCell(p) /\ p[1] < Contents[p[2] + 1].len

IsLineEnd(p) == /\ IsCell(p)
                /\ Contents[p[2] + 1].ends
                /\ p[1] + 1 = Contents[p[2] + 1].len

InWord(p) == Written(p) /\ CellAt(p) \notin WordSeparators

PrevCell(p) == IF p[1] = 0 THEN <<Width - 1, p[2] - 1>> ELSE <<p[1] - 1, p[2]>>
NextCell(p) == IF p[1] = Width - 1 THEN <<0, p[2] + 1>> ELSE <<p[1] + 1, p[2]>>

\* All places, the order in which text is read, and all of them in that order.
Grid == (0..(Width - 1)) \X (0..(Len(Contents) - 1))
Before(p, q) == p[2] < q[2] \/ (p[2] = q[2] /\ p[1] < q[1])
Places == [k \in 1..(Width * Len(Contents)) |-> <<(k - 1) % Width, (k - 1) \div Width>>]

\* What is written in some of them.
TextAt(places) ==
  FlattenSeq([k \in DOMAIN Places |->
                IF Places[k] \in places /\ Written(Places[k]) THEN <<CellAt(Places[k])>>
                ELSE << >>])

-----------------------------------------------------------------------------
(* Selection *)

IsEmpty(s) == s.start[2] = s.end[2]

\* Mutant: the cell the drag began at is selected also of a drag backwards.
Create_Inclusive(start, end) ==
  LET back == Before(end, start) IN
  [start |-> IF back THEN end ELSE start,
   end |-> IF back THEN <<start[1] + 1, start[2] + 1>> ELSE <<end[1] + 1, end[2] + 1>>,
   on |-> alternate]

\* Selection::Create(): what was the start is not selected if the end is
\* before it, and the end of the result is exclusive.
Create(start, end) ==
  LET back == Before(end, start) IN
  [start |-> IF back THEN end ELSE start,
   end |-> IF back THEN <<start[1], start[2] + 1>> ELSE <<end[1] + 1, end[2] + 1>>,
   on |-> alternate]

\* The columns of row y that getSelectionContents() copies.
Columns(s, y) ==
  (IF y = s.start[2] THEN s.start[1] ELSE 0)
    ..(Min({IF y < s.end[2] - 1 THEN Width ELSE s.end[1], Cells(y)}) - 1)

\* There are rows that are not there, of which row() asserts that they are.
ReadsOutside(s) == s.end[2] > Len(Contents)

\* getSelectionContents(): what is written in the cells, row by row.
Copied(s) ==
  TextAt({p \in Grid : /\ p[2] \in s.start[2]..(s.end[2] - 1)
                       /\ p[1] \in Columns(s, p[2])})

\* bufferLock_ is there to be taken: the reader, who has it while it reads, is
\* not in the middle of a switch.
Unlocked == ~ switching

\* A text is given to the renderer: setClipboard() or setSelection(). The lock is
\* taken to read it.
Give(s, toClipboard) ==
  /\ Unlocked
  /\ IF ReadsOutside(s) THEN status' = "outside" /\ UNCHANGED texts
     ELSE /\ clipboard' = IF toClipboard THEN Copied(s) ELSE clipboard
          /\ primary' = IF toClipboard THEN primary ELSE Copied(s)
          /\ UNCHANGED status

\* clearSelection(). No widget is ever registered with the renderer as the
\* owner of the selection, which therefore is not told.
ClearSelection == selection' = NoSelection /\ from' = Nowhere

-----------------------------------------------------------------------------
(* Scrolling *)

\* setScrollOffset(), which takes the lock to count the rows.
SetScrollOffset(y) == Unlocked /\ offset' = y /\ follows' = (y = Len(history))

\* scrollBy(), within the contents.
ScrolledBy(rows) == Max({0, Min({offset + rows, Top})})

\* startAutoScroll(): down also when the mouse only left to a side.
AutoScrollFor(p) == IF p \in (0..(Width - 1)) \X (0..(Height - 1))
                      THEN [timer EXCEPT !.on = FALSE]
                      ELSE [on |-> TRUE, by |-> IF p[2] < 0 THEN -1 ELSE 1]

-----------------------------------------------------------------------------
(* The user *)

Inside == (0..(Width - 1)) \X (0..(Height - 1))
Around == Inside \cup Beyond
InContents(p) == <<p[1], p[2] + offset>>

Event == /\ status = "running"
         /\ click = "none"
         /\ UNCHANGED <<contents, events, mode>>

\* The release of a button does not count: there are as many as were pressed.
Input == /\ Event
         /\ count.inputs < MaxInputs
         /\ count' = [count EXCEPT !.inputs = @ + 1]

Pressed(p) == [pressed |-> IF IsCell(p) THEN CellAt(p) ELSE Nowhere,
               last |-> Nowhere, kept |-> IsCell(p), on |-> alternate, during |-> switching]

\* SelectionOwner::mouseDown(): without modifiers a selection is begun, or copied.
SelectionMouseDown(button, p, plain) ==
  IF plain /\ button = "Left"
    THEN /\ selection' = NoSelection
         /\ from' = InContents(p)
         /\ drag' = Pressed(InContents(p))
         /\ UNCHANGED <<texts, status>>
  ELSE IF plain /\ button = "Right" /\ ~ IsEmpty(selection)
    THEN Give(selection, TRUE) /\ ClearSelection /\ UNCHANGED drag
  ELSE UNCHANGED <<selection, from, texts, status, drag>>

\* mouseDown() of the terminal: the button goes to the application, if that has
\* the mouse. Only then the lock is taken.
MouseDown(button, p, plain) ==
  /\ Input
  /\ button \notin buttons
  /\ buttons' = buttons \cup {button}
  /\ UNCHANGED <<scroll, timer, clicks, click>>
  /\ IF mode = "Off" THEN SelectionMouseDown(button, p, plain)
     ELSE Unlocked /\ UNCHANGED <<selection, from, texts, status, drag>>

\* Whether the move goes to the application.
Reported(p) == /\ mode = "All" \/ (mode = "ButtonEvent" /\ buttons # {})
               /\ p \in Inside
               /\ InContents(p)[2] >= Top

\* contentsSize() is what is selected at most.
Clamped(p) == <<Max({0, Min({Width - 1, p[1]})}), Max({0, Min({Len(Contents) - 1, p[2]})})>>

\* SelectionOwner::mouseMove()
SelectionMouseMove(p) ==
  IF from = Nowhere THEN UNCHANGED <<selection, timer, drag>>
  ELSE LET end == Clamped(InContents(p)) IN
       /\ selection' = Create(from, end)
       /\ timer' = AutoScrollFor(p)
       /\ drag' = [drag EXCEPT !.last = IF IsCell(end) THEN CellAt(end) ELSE Nowhere,
                               !.kept = @ /\ IsCell(end)]

\* mouseMove() of the terminal. Outside of the widget it is told of only while
\* it has the mouse. The lock is taken to look for a link.
MouseMove(p) ==
  /\ Input
  /\ Unlocked
  /\ p \in Inside \/ buttons # {}
  /\ UNCHANGED <<scroll, from, buttons, clicks, click, texts, status>>
  /\ IF Reported(p) THEN UNCHANGED <<selection, timer, drag>> ELSE SelectionMouseMove(p)

\* What the release of the last button is, if it was quick.
ClickOf(quick) == IF ~ quick \/ clicks = 0 THEN "none"
                  ELSE IF clicks = 1 THEN "double" ELSE "triple"

\* SelectionOwner::mouseUp(). A drag does not end if a modifier is held.
SelectionMouseUp(button, plain) ==
  IF plain /\ button = "Left"
    THEN /\ timer' = [timer EXCEPT !.on = FALSE]
         /\ from' = Nowhere
         /\ IF IsEmpty(selection) THEN UNCHANGED <<texts, status>>
            ELSE Give(selection, FALSE)
         /\ UNCHANGED selection
  ELSE UNCHANGED <<selecting, texts, status>>

\* mouseUp() of the terminal, and emitMouseClicks(). Nor does a drag end if the
\* application has taken the mouse by now.
MouseUp(button, plain, quick) ==
  LET last == buttons = {button} IN
  /\ Event
  /\ button \in buttons
  /\ buttons' = buttons \ {button}
  /\ clicks' = IF last /\ quick /\ button = "Left" THEN (clicks + 1) % 3 ELSE 0
  /\ click' = IF last /\ button = "Left" THEN ClickOf(quick) ELSE "none"
  /\ UNCHANGED <<scroll, drag, count>>
  /\ IF mode = "Off" THEN SelectionMouseUp(button, plain)
     ELSE Unlocked /\ UNCHANGED <<selecting, texts, status>>

\* mouseWheel(), by three rows in the history.
MouseWheel(rows) ==
  /\ Input
  /\ ~ alternate /\ history # << >>
  /\ SetScrollOffset(ScrolledBy(rows))
  /\ UNCHANGED <<selecting, buttons, clicks, click, texts, status, drag>>

\* SelectionOwner::keyDown(): the shortcut copies a selection and clears it.
SelectionKeyDown == Give(selection, TRUE) /\ ClearSelection /\ UNCHANGED scroll

\* keyDown() of the terminal: any other key scrolls to the prompt.
KeyDown(copies) ==
  /\ Input
  /\ UNCHANGED <<timer, buttons, clicks, click, drag>>
  /\ IF copies /\ ~ IsEmpty(selection) THEN SelectionKeyDown
     ELSE /\ IF alternate THEN UNCHANGED scroll ELSE SetScrollOffset(Len(history))
          /\ UNCHANGED <<selection, from, texts, status>>

-----------------------------------------------------------------------------
(* Double and triple clicks *)

\* From p to the next cell, or back to the one before, for as long as that is in
\* a word: where the loop ends.
Farthest(p, onwards) ==
  LET step(q) == IF onwards THEN NextCell(q) ELSE PrevCell(q)
      reach[k \in 0..(Width * Len(Contents))] ==
        IF k = 0 THEN p
        ELSE LET q == reach[k - 1] IN IF InWord(step(q)) THEN step(q) ELSE q
  IN reach[Width * Len(Contents)]

\* setSelection(Selection): it is given to the renderer at once.
SelectAtOnce(s) ==
  /\ selection' = s
  /\ from' = Nowhere
  /\ Give(s, FALSE)

\* selectWord(). In the history cellAt() looks at a column left of the first.
SelectWord(p) ==
  IF p[1] < 0 /\ p[2] \in 0..(Top - 1)
    THEN status' = "undefined" /\ UNCHANGED <<selection, from, texts>>
  ELSE IF ~ InWord(p) THEN UNCHANGED <<selection, from, texts, status>>
  ELSE SelectAtOnce(Create(Farthest(p, FALSE), Farthest(p, TRUE)))

\* selectLine(): back to behind a line's end, and on to the next one or the
\* end of the screen, which a cell that is not above it never comes to.
SelectLine(p) ==
  LET begin == <<0, p[2]>>
      ends == {q \in Grid : IsLineEnd(q)}
      above == {q[2] : q \in {e \in ends : e[2] < p[2]}}
      on == {q \in ends : q[2] >= p[2]}
      start == IF above = {} THEN <<0, 0>> ELSE <<0, Max(above) + 1>>
      end == IF on = {} THEN <<Width - 1, Len(Contents) - 1>>
             ELSE CHOOSE q \in on : \A r \in on : ~ Before(r, q)
  IN IF p[2] \in 0..(Len(Contents) - 1) THEN SelectAtOnce(Create(start, end))
     ELSE status' = "endless" /\ UNCHANGED <<selection, from, texts>>

\* If the application does not have the mouse by now.
MouseDoubleClick(p) == IF mode = "Off" THEN SelectWord(p)
                       ELSE UNCHANGED <<selection, from, texts, status>>

MouseTripleClick(p) == IF mode = "Off" THEN SelectLine(p)
                       ELSE UNCHANGED <<selection, from, texts, status>>

\* The renderer passes the click on to the widget, where the button was released.
\* mouseCaptured() takes the lock.
MouseClick(p) ==
  /\ status = "running"
  /\ Unlocked
  /\ click # "none"
  /\ click' = "none"
  /\ UNCHANGED <<contents, scroll, timer, events, mode, buttons, clicks, drag, count>>
  /\ IF click = "double" THEN MouseDoubleClick(InContents(p))
     ELSE MouseTripleClick(InContents(p))

-----------------------------------------------------------------------------
(* The thread of the timer, and what is scheduled *)

Scheduled(event) == events' = Append(events, event)

\* The handler of the timer. Bound: one scroll is scheduled at a time.
AutoScrollTick ==
  /\ status = "running"
  /\ timer.on
  /\ ~ Contains(events, "autoscroll")
  /\ Scheduled("autoscroll")
  /\ UNCHANGED <<contents, scroll, selecting, mouse, texts, status, drag, count>>

\* Mutant: the timer is not stopped at the end of the contents.
StoppedAt_Never(y) == timer

\* The timer stops where the contents end.
StoppedAt(y) == [timer EXCEPT !.on = @ /\ y # offset]

\* The first event is run, when no event of the mouse is.
RunEvent ==
  /\ status = "running"
  /\ click = "none"
  /\ events # << >>
  /\ events' = Tail(events)
  /\ UNCHANGED <<contents, mouse, texts, status, drag, count>>
  /\ CASE Head(events) = "autoscroll" ->
            /\ SetScrollOffset(ScrolledBy(timer.by))
            /\ timer' = StoppedAt(ScrolledBy(timer.by))
            /\ UNCHANGED <<selection, from>>
       [] Head(events) = "clear" ->
            ClearSelection /\ UNCHANGED <<scroll, timer>>
       [] Head(events) = "scroll" ->
            SetScrollOffset(Len(history)) /\ UNCHANGED selecting
       [] OTHER ->
            SetScrollOffset(IF alternate THEN 0 ELSE Len(history)) /\ UNCHANGED selecting

-----------------------------------------------------------------------------
(* The reader *)

\* It has the lock while it parses, also in the middle of a switch.
Reads == /\ status = "running"
         /\ UNCHANGED <<scroll, selecting, buttons, clicks, click, texts, status>>

Rows == {history[j].id : j \in DOMAIN history} \cup {screen[j].id : j \in DOMAIN screen}
          \cup {other[j].id : j \in DOMAIN other}
NewRow == Row(Max(Rows) + 1)

\* The last row is written, its line is ended or goes on, and the rows scroll:
\* the first one into the history, if that is kept, and one that is too old
\* out of it.
ParseLine(len, ends) ==
  LET rows == [screen EXCEPT ![Height] = [@ EXCEPT !.len = len, !.ends = ends]]
      h == Append(history, Head(rows))
  IN /\ Reads
     /\ ~ switching
     /\ count.lines < MaxLines
     /\ count' = [count EXCEPT !.lines = @ + 1]
     /\ screen' = Append(Tail(rows), NewRow)
     /\ UNCHANGED <<other, alternate, switching, mode>>
     /\ drag' = [drag EXCEPT !.kept = @ /\ ~ alternate /\ Len(h) <= MaxHistoryRows]
     /\ IF alternate THEN UNCHANGED <<history, events>>
        ELSE /\ history' = IF Len(h) > MaxHistoryRows THEN Tail(h) ELSE h
             /\ IF follows THEN Scheduled("scroll") ELSE UNCHANGED events

\* CSI ? 1000, 1002 and 1003
SetMouseMode(m) ==
  /\ Reads
  /\ ~ switching
  /\ m # mode
  /\ mode' = m
  /\ count.modes < MaxModes
  /\ count' = [count EXCEPT !.modes = @ + 1]
  /\ UNCHANGED <<contents, events, drag>>

\* Mutant: the selection is not cleared.
ScheduleClear_Not == UNCHANGED events

ScheduleClear == Scheduled("clear")

\* CSI ? 1049 begins: the selection is to be cleared by the UI, which needs no
\* lock for it and may do so before the screens are swapped, or later.
SetAlternateMode ==
  /\ Reads
  /\ ~ switching
  /\ count.modes < MaxModes
  /\ count' = [count EXCEPT !.modes = @ + 1]
  /\ switching' = TRUE
  /\ ScheduleClear
  /\ UNCHANGED <<history, screen, other, alternate, mode, drag>>

\* The rest of it: the screens are swapped, and the scrolling is scheduled.
SwapScreens ==
  /\ Reads
  /\ switching
  /\ switching' = FALSE
  /\ alternate' = ~ alternate
  /\ other' = screen
  /\ screen' = IF alternate THEN other
               ELSE [j \in 1..Height |-> Row(Max(Rows) + j)]
  /\ Scheduled("scrollTo")
  /\ drag' = [drag EXCEPT !.kept = FALSE]
  /\ UNCHANGED <<history, mode, count>>

-----------------------------------------------------------------------------
User == \/ \E button \in {"Left", "Right"}, plain \in BOOLEAN :
             \/ \E p \in Inside : MouseDown(button, p, plain)
             \/ \E quick \in BOOLEAN : MouseUp(button, plain, quick)
        \/ \E p \in Around : MouseMove(p) \/ MouseClick(p)
        \/ \E rows \in {-3, 3} : MouseWheel(rows)
        \/ \E copies \in BOOLEAN : KeyDown(copies)

Reader == \/ \E line \in Lines : ParseLine(line[1], line[2])
          \/ \E m \in Modes : SetMouseMode(m)
          \/ SetAlternateMode
          \/ SwapScreens

Next == User \/ AutoScrollTick \/ RunEvent \/ Reader

\* The timer's thread and the loop of the UI go on, and so does the reader in the
\* middle of a switch; a click follows the release of the button in the handler
\* of one event of the window.
Spec == /\ Init /\ [][Next]_vars
        /\ WF_vars(AutoScrollTick)
        /\ WF_vars(RunEvent)
        /\ WF_vars(\E p \in Around : MouseClick(p))
        /\ WF_vars(SwapScreens)
-----------------------------------------------------------------------------
(* Properties *)

\* Where in the contents the cell is.
PlaceOf(cell) == CHOOSE p \in Grid : CellAt(p) = cell

\* What is written from the cell the drag began at to the one it came to,
\* without the former if the drag was backwards.
Dragged ==
  LET a == PlaceOf(drag.pressed)
      b == PlaceOf(drag.last)
  IN TextAt({p \in Grid : IF Before(b, a) THEN ~ Before(p, b) /\ Before(p, a)
                          ELSE ~ Before(p, a) /\ ~ Before(b, p)})

\* Select and paste: however the screen scrolls below the mouse, by lines that
\* come, the wheel or the timer, what a drag gives to others is the text from
\* the character under the mouse when the button was pressed to the one it
\* last moved to. Not so if rows went from a full history or from the alternate
\* screen: then other text has come under the selection.
DraggedCopied ==
  [][/\ from # Nowhere /\ from' = Nowhere /\ click = "none"
     /\ drag.kept /\ drag.last # Nowhere
     /\ primary' # primary
     => primary' = Dragged]_vars

\* Once the UI has cleared what the reader scheduled for clearing, before or after
\* the screens were swapped, nothing is selected on this screen that was selected
\* on the other, and no drag goes on that was begun there; but for a drag that is
\* begun in the middle of the switch.
OnThisScreen ==
  status = "running" /\ ~ Contains(events, "clear") =>
    /\ IsEmpty(selection) \/ selection.on = alternate
    /\ from = Nowhere \/ drag.on = alternate \/ drag.during

\* A terminal does not go on to scroll by itself: also when a drag is given up
\* with the mouse outside (the selection is copied by a key, the mode is
\* switched, the application takes the mouse, a modifier is held), the timer
\* is stopped in the end.
AutoScrollEnds == []<>(~ timer.on \/ status # "running")
=============================================================================
