----------------------------- MODULE Hyperlinks -----------------------------
(***************************************************************************)
(* Links in the terminal: the reader thread finds addresses in the output  *)
(* (see UrlMatcher), or is told of them by OSC 8, and attaches a Hyperlink *)
(* to their cells (see SpecialObjects); cells scroll out, are overwritten  *)
(* and deleted; the mouse highlights the link under it, and a click opens  *)
(* it. Both threads act under bufferLock_. Of the screen the model keeps   *)
(* what links depend on: characters, objects and the cursor. The scroll    *)
(* region is the whole screen and the size does not change.                *)
(***************************************************************************)
EXTENDS SpecialObjects, UrlMatcher, FiniteSetsExt, Integers

CONSTANTS Width, Height,   \* of the buffer
          MaxHistoryRows,
          Words,           \* pieces of text, sequences of characters
          Urls,            \* that OSC 8 may name
          Halves,          \* bound: the places detachFromAllCells() may see
          MaxInputs        \* bound: how much output is received

ASSUME ScreenAssumption ==
  /\ Width \in Nat \ {0} /\ Height \in Nat \ {0}
  /\ MaxHistoryRows \in Nat
  /\ \A word \in Words : word \in Seq(Range(word))
  /\ Halves \subseteq SUBSET (0..(Width * Height - 1))

VARIABLES
  rows,        \* of the buffer of state_, cells with the character and the object
  backup,      \* that of stateBackup_: its rows and cursor
  alternate,   \* alternateMode_
  history,     \* historyRows_, kept whole
  cursor,      \* <<x, y>>, x = Width behind a full line
  matcher,     \* urlMatcher_
  heap,        \* the special objects
  inProgress,  \* inProgressHyperlink_
  active,      \* activeHyperlink_
  status,      \* "running", or "undefined": see DetachFromAllCells
  opened,      \* the address onHyperlinkOpen or onHyperlinkCopy was given, since the mouse moved
  hovered,     \* history variable: the address of active when the mouse came to it
  cut,         \* history variable: OSC 8 came in the middle of what is matched
  mixed,       \* history variable: the objects that became links of such a match
  inputs       \* bound: how many there were

vars == <<rows, backup, alternate, history, cursor, matcher, heap, inProgress, active, status,
          opened, hovered, cut, mixed, inputs>>

BlankRow == [i \in 1..Width |-> Cell]
None == << >>   \* no address

Init == /\ rows = [j \in 1..Height |-> BlankRow]
        /\ backup = [rows |-> rows, x |-> 0, y |-> 0]
        /\ alternate = FALSE
        /\ history = << >>
        /\ cursor = <<0, 0>>
        /\ matcher = Ready
        /\ heap = [o \in Objects |-> Free]
        /\ inProgress = NoObject
        /\ active = NoObject
        /\ status = "running"
        /\ opened = None
        /\ hovered = None
        /\ cut = FALSE
        /\ mixed = {}
        /\ inputs = 0

-----------------------------------------------------------------------------
(* Operators take and return what the reader changes under the lock. *)

Now == [rows |-> rows, backup |-> backup, alternate |-> alternate, history |-> history,
        x |-> cursor[1], y |-> cursor[2], matcher |-> matcher, heap |-> heap,
        link |-> inProgress, status |-> status, cut |-> cut, mixed |-> mixed]

\* addHistoryRow(). The oldest row may have to go.
AddHistoryRow(t, row) ==
  LET h == Append(t.history, row) IN
  IF Len(h) <= MaxHistoryRows THEN [t EXCEPT !.history = h]
  ELSE [t EXCEPT !.history = Tail(h), !.heap = DeleteCells(@, Head(h))]

\* deleteLines() of one line and the whole screen: in the normal mode its copy
\* goes to the history. The line is filled with blanks.
DeleteLine(t) ==
  LET u == IF t.alternate THEN t
           ELSE AddHistoryRow([t EXCEPT !.heap = CopyCells(@, t.rows[1])], t.rows[1])
  IN [u EXCEPT !.heap = FillCells(@, t.rows[1]), !.rows = Append(Tail(@), BlankRow)]

\* updateCursorPosition()
UpdateCursorPosition(t) ==
  IF t.x < Width THEN t
  ELSE LET u == [t EXCEPT !.x = 0, !.y = Min({@ + 1, Height - 1})] IN
       IF t.y + 1 = Height THEN DeleteLine(u) ELSE u

\* The cell k places before the cursor.
Place(t, k) == t.y * Width + t.x - k
RowOf(place) == (place \div Width) + 1
ColumnOf(place) == (place % Width) + 1
CellAt(t, place) == t.rows[RowOf(place)][ColumnOf(place)]

SetObject(t, place, o) ==
  [t EXCEPT !.heap = Assign(@, CellAt(t, place).so, o),
            !.rows[RowOf(place)][ColumnOf(place)].so = o]

Places == 0..(Width * Height - 1)

\* The entries of Objects_: the cells with an object.
Entries(t) == SelectSeq(FlattenSeq(t.history \o t.rows \o t.backup.rows),
                        LAMBDA cell : cell.so # NoObject)

\* detachFromAllCells(). The loop over Objects_ steps twice and sees every
\* second entry only; with an odd number of them it steps over the end. Objects_
\* is an unordered map: the entries seen are any half of them, of the cells of
\* o those in half, if that can be.
DetachFromAllCells(t, o, half) ==
  LET cells == {p \in Places : CellAt(t, p).so = o}
      many == Len(Entries(t)) \div 2
      possible(S) == Cardinality(S) <= many /\ Cardinality(cells \ S) <= many
      seen == cells \cap (IF possible(cells \cap half) THEN half
                          ELSE CHOOSE S \in SUBSET cells : possible(S))
  IN IF Len(Entries(t)) % 2 = 1 THEN [t EXCEPT !.status = "undefined"]
     ELSE FoldSet(LAMBDA p, u : SetObject(u, p, NoObject), t, seen)

\* detectHyperlink(). The cells before the cursor, as many as matched, become
\* a link and their characters its address; is there not enough of them, the
\* beginning scrolled out, and the link is given up.
DetectHyperlink(t, c, half) ==
  LET size == MatchSize(t.matcher, c)
      next == [t EXCEPT !.matcher = Transition(@, c),
                        !.cut = @ /\ Transition(t.matcher, c).size > 0]
      found == Min({size, Place(t, 0)})
      o == NewAddress(t.heap)
      linked == FoldLeft(LAMBDA u, k : SetObject(u, Place(t, k), o),
                         [next EXCEPT !.heap = New(@, o, None),
                                      !.mixed = IF t.cut THEN @ \cup {o} ELSE @ \ {o}],
                         [k \in 1..found |-> k])
      url == [i \in 1..size |-> CellAt(t, Place(t, size + 1 - i)).c]
      done == IF found < size THEN DetachFromAllCells(linked, o, half)
              ELSE [linked EXCEPT !.heap[o].url = url]
  IN IF t.link # NoObject THEN t
     ELSE IF size = 0 THEN next
     ELSE [done EXCEPT !.heap = Detach(@, o)]

\* parseCodepoint()
ParseCodepoint(t, c, half) ==
  LET u == UpdateCursorPosition(DetectHyperlink(t, c, half))
      place == Place(u, 0)
      blank == SetObject(u, place, NoObject)
      cell == IF u.link = NoObject THEN blank ELSE SetObject(blank, place, u.link)
  IN [cell EXCEPT !.rows[RowOf(place)][ColumnOf(place)].c = c, !.x = @ + 1]

\* Mutant: a control sequence does not end an address.
ResetHyperlinkDetection_Not(t, half) == t

\* resetHyperlinkDetection()
ResetHyperlinkDetection(t, half) == DetectHyperlink(t, " ", half)

-----------------------------------------------------------------------------
(* The reader thread: received() under bufferLock_ *)

Becomes(t) == /\ rows' = t.rows
              /\ backup' = t.backup
              /\ alternate' = t.alternate
              /\ history' = t.history
              /\ cursor' = <<t.x, t.y>>
              /\ matcher' = t.matcher
              /\ heap' = t.heap
              /\ inProgress' = t.link
              /\ status' = t.status
              /\ cut' = t.cut
              /\ mixed' = t.mixed
              /\ UNCHANGED <<active, opened, hovered>>

Input == /\ status = "running"
         /\ inputs < MaxInputs
         /\ inputs' = inputs + 1

Receive(word, half) ==
  /\ Input
  /\ Becomes(FoldLeft(LAMBDA t, c : IF t.status = "running" THEN ParseCodepoint(t, c, half) ELSE t,
                      Now, word))

\* parseLF()
ParseLF(half) ==
  LET t == ResetHyperlinkDetection(Now, half)
      u == IF t.y + 1 = Height THEN DeleteLine(t) ELSE [t EXCEPT !.y = @ + 1]
  IN Input /\ Becomes(UpdateCursorPosition(u))

\* CSI H
MoveHome(half) ==
  Input /\ Becomes([ResetHyperlinkDetection(Now, half) EXCEPT !.x = 0, !.y = 0])

\* CSI 2 J
EraseDisplay(half) ==
  LET t == ResetHyperlinkDetection(Now, half) IN
  /\ Input
  /\ Becomes([t EXCEPT !.rows = [j \in 1..Height |-> BlankRow],
                       !.heap = FillCells(@, FlattenSeq(t.rows))])

\* OSC 8 with an address, or without one. A link that was not ended is given
\* up by the next. The detection is not reset: it halts while there is a link
\* in progress and goes on where it was.
HyperlinkSequence(url) ==
  LET o == NewAddress(heap) IN
  /\ Input
  /\ Becomes(IF url = None THEN [Now EXCEPT !.heap = Assign(@, inProgress, NoObject), !.link = NoObject]
             ELSE [Now EXCEPT !.heap = Detach(New(@, o, url), inProgress), !.link = o,
                              !.cut = @ \/ matcher.size > 0])

\* CSI ? 1049 h or l: the states are swapped, and that of the alternate mode
\* is reset when it is entered.
SetAlternateMode(value, half) ==
  LET t == ResetHyperlinkDetection(Now, half)
      u == [t EXCEPT !.heap = Assign(@, t.link, NoObject), !.link = NoObject]
      swapped == [u EXCEPT !.rows = u.backup.rows, !.x = u.backup.x, !.y = u.backup.y,
                           !.backup = [rows |-> u.rows, x |-> u.x, y |-> u.y],
                           !.alternate = value]
  IN /\ Input
     /\ Becomes(IF value = alternate THEN u
                ELSE IF ~ value THEN swapped
                ELSE [swapped EXCEPT !.heap = FillCells(@, FlattenSeq(swapped.rows)),
                                     !.rows = [j \in 1..Height |-> BlankRow],
                                     !.x = 0, !.y = 0])

-----------------------------------------------------------------------------
(* The UI thread *)

UIOnly == /\ status = "running"
          /\ UNCHANGED <<rows, backup, alternate, history, cursor, matcher, inProgress, status,
                         cut, mixed, inputs>>

\* The contents the mouse may be over: in the normal mode the history above
\* the screen.
Contents == IF alternate THEN rows ELSE history \o rows

\* All that is kept.
All == history \o rows \o backup.rows

\* Mutant: the link that was highlighted stays so.
Deactivated_Not(h, o) == h

Deactivated(h, o) == IF o = NoObject THEN h ELSE [h EXCEPT ![o].active = FALSE]

Activated(h, o) == IF o = NoObject THEN h ELSE [h EXCEPT ![o].active = TRUE]

\* mouseMove() over a cell with the object over.
MouseMove(over) ==
  /\ over # active
  /\ UIOnly
  /\ heap' = LET h == Assign(Deactivated(heap, active), active, over) IN Activated(h, over)
  /\ active' = over
  /\ opened' = None
  /\ hovered' = IF over = NoObject THEN None ELSE heap[over].url

\* mouseOut()
MouseOut ==
  /\ active # NoObject
  /\ UIOnly
  /\ heap' = Assign(Deactivated(heap, active), active, NoObject)
  /\ active' = NoObject
  /\ opened' = None
  /\ hovered' = None

\* mouseClick()
MouseClick ==
  /\ active # NoObject
  /\ UIOnly
  /\ opened' = heap[active].url
  /\ UNCHANGED <<heap, active, hovered>>

-----------------------------------------------------------------------------
Reader == \/ \E half \in Halves : \/ \E word \in Words : Receive(word, half)
                                 \/ \E value \in BOOLEAN : SetAlternateMode(value, half)
                                 \/ ParseLF(half) \/ MoveHome(half) \/ EraseDisplay(half)
          \/ \E url \in Urls \cup {None} : HyperlinkSequence(url)

UI == \/ \E j \in DOMAIN Contents, i \in 1..Width : MouseMove(Contents[j][i].so)
      \/ MouseOut
      \/ MouseClick

Next == Reader \/ UI

Spec == Init /\ [][Next]_vars
-----------------------------------------------------------------------------
(* Properties *)

\* What decides whether a link is deleted under the cells or the mouse that
\* still refer to it, or never: however cells are copied to the history, taken
\* over by other links, overwritten and deleted while the mouse is on them, a
\* link has as many references as are counted, and is live exactly while it
\* has one.
ReferencesCounted ==
  status = "running" =>
    \A o \in Objects :
      /\ heap[o].refs = References(All, <<inProgress, active>>, o)
      /\ heap[o].live <=> heap[o].refs > 0

\* The characters of the cells of a link, from the top of the history on.
TextOf(o) ==
  LET cells == FlattenSeq(All)
  IN FlattenSeq([k \in DOMAIN cells |-> IF cells[k].so = o THEN <<cells[k].c>> ELSE << >>])

IsSubsequence(s, t) ==
  FoldLeft(LAMBDA n, c : IF n < Len(s) /\ s[n + 1] = c THEN n + 1 ELSE n, 0, t) = Len(s)

\* A link that was found in the text leads where the text says: its address is
\* one, the whole of what was printed, and the cells that still have the link,
\* after others were scrolled out or overwritten, show characters of it in
\* order: also when its letters come in pieces, around lines, links of OSC 8
\* and modes. Not so a text with OSC 8 in its middle, which resets nothing
\* although "any sequence other than SGR ones should" (ansi_terminal.h:417): then
\* the link may have no address. A link without one is also what
\* detachFromAllCells() leaves.
LinkedAsShown ==
  status = "running" =>
    \A o \in Objects \ mixed :
      heap[o].live /\ heap[o].url \notin Urls \cup {None} =>
        IsUrl(heap[o].url) /\ IsSubsequence(TextOf(o), heap[o].url)

\* What a click opens is what the mouse came to and highlights, also when the
\* application has overwritten it, or its cells have another link by now; no
\* other link is highlighted.
OpensHighlighted ==
  status = "running" =>
    /\ \A o \in Objects : heap[o].active <=> o = active
    /\ active # NoObject => heap[active].url = hovered
    /\ opened \in {None, hovered}
=============================================================================
