------------------------------ MODULE Terminal ------------------------------
(***************************************************************************)
(* AnsiTerminal of ui-terminal/ansi_terminal.{h,cpp}: the screens of the   *)
(* normal and the alternate mode, the history, and what the output of the  *)
(* application does to them. The reader thread parses output and the UI    *)
(* thread resizes the terminal, both under bufferLock_ (see PriorityLock): *)
(* as received() may end its chunk after any character, its inputs are     *)
(* actions. Characters are numbered in the order they are received, 0 is   *)
(* the blank; attributes of cells, mouse, links, titles are left out.      *)
(* Coordinates are those of the code: columns and rows from 0.             *)
(***************************************************************************)
EXTENDS Integers, Sequences, SequencesExt, FiniteSets, FiniteSetsExt

CONSTANTS
  InitialSize,     \* of the buffers, before the terminal is first laid out: 80 by 25
  Sizes,           \* the sizes the terminal may be given, <<width, height>>
  MaxHistoryRows,  \* the configured value of maxHistoryRows_
  TabWidth,        \* 8
  Escapes,         \* the escape sequences the application may send
  MaxText, MaxControls, MaxEscapes, MaxResizes, \* bounds: how many of each,
  MaxCommands,                                  \* of controls and escapes together,
  MaxInputs                                     \* and of the first three together

ASSUME SizesAssumption ==
  /\ Sizes \cup {InitialSize} \subseteq (Nat \ {0}) \X (Nat \ {0})
  /\ MaxHistoryRows \in Nat /\ TabWidth \in Nat \ {0} /\ MaxText \in Nat

VARIABLES
  screens,  \* the two States: state_ is that of mode, stateBackup_ the other
  mode,     \* alternateMode_: "normal" or "alternate"
  history,  \* historyRows_
  maxRows,  \* maxHistoryRows_
  rect,     \* the size of the widget
  status,   \* "running", or why the reader cannot go on: see Outside, Endless
  count     \* bounds: [text, controls, escapes, resizes]

vars == <<screens, mode, history, maxRows, rect, status, count>>

\* A Cell: its codepoint, and END_OF_LINE of its unused bits.
Blank == [c |-> 0, eol |-> FALSE]

\* The rows and columns of a State's buffer.
Height(s) == Len(s.rows)
Width(s) == Len(s.rows[1])
Inside(s, x, y) == x \in 0..(Width(s) - 1) /\ y \in 0..(Height(s) - 1)

BlankRow(width) == [i \in 1..width |-> Blank]
BlankRows(size) == [j \in 1..size[2] |-> BlankRow(size[1])]

\* A State: the buffer and its cursor (x, y), scrollStart and scrollEnd,
\* lastCharacter_ and cursorStack_.
NewState(size) == [rows |-> BlankRows(size), x |-> 0, y |-> 0,
                   scrollStart |-> 0, scrollEnd |-> size[2],
                   last |-> <<-1, -1>>, stack |-> << >>]

Init == /\ screens = [m \in {"normal", "alternate"} |-> NewState(InitialSize)]
        /\ mode = "normal"
        /\ history = << >>
        /\ maxRows = 0
        /\ rect = <<0, 0>>
        /\ status = "running"
        /\ count = [text |-> 0, controls |-> 0, escapes |-> 0, resizes |-> 0]

-----------------------------------------------------------------------------
(* Operators take and return a terminal under lock: its state_, its history *)
(* and its status.                                                          *)

Now == [s |-> screens[mode], h |-> history, status |-> status]

\* Memory outside of the buffer is read, written or moved: what follows is
\* undefined.
Outside(t) == [t EXCEPT !.status = "outside"]

\* A loop that does not end.
Endless(t) == [t EXCEPT !.status = "endless"]

Running(t) == t.status = "running"

\* The history after its oldest rows are dropped.
Trimmed(h, max) == IF Len(h) > max THEN SubSeq(h, Len(h) - max + 1, Len(h)) ELSE h

\* Mutant: nothing is dropped.
AddHistoryRow_Unbounded(h, row, width, max) ==
  Append(h, row)

\* The row cut in pieces no longer than width.
Pieces(row, width) ==
  IF Len(row) <= width THEN <<row>>
  ELSE [k \in 1..((Len(row) + width - 1) \div width) |->
          SubSeq(row, (k - 1) * width + 1, Min({k * width, Len(row)}))]

\* addHistoryRow(), for a width that is not 0.
AddHistoryRow(h, row, width, max) == Trimmed(h \o Pieces(row, width), max)

Visible(row) == {i \in DOMAIN row : row[i].eol \/ row[i].c # 0}

\* copyRow(): a row is kept up to its end of line. The loop over a row that
\* has neither end of line nor anything visible ends at x[-1], and what is
\* there decides: garbage tells whether it looks like an end of line.
CopyRow(row, garbage) ==
  IF Visible(row) = {} THEN (IF garbage THEN << >> ELSE row)
  ELSE LET last == Max(Visible(row)) IN
       IF row[last].eol THEN SubSeq(row, 1, last) ELSE row

\* Buffer::deleteLine(), with bottom exclusive.
DeleteLine(rows, top, bottom) ==
  [j \in DOMAIN rows |-> IF j = bottom THEN BlankRow(Len(rows[1]))
                         ELSE IF j \in (top + 1)..(bottom - 1) THEN rows[j + 1]
                         ELSE rows[j]]

\* Buffer::insertLine()
InsertLine(rows, top, bottom) ==
  [j \in DOMAIN rows |-> IF j = top + 1 THEN BlankRow(Len(rows[1]))
                         ELSE IF j \in (top + 2)..bottom THEN rows[j - 1]
                         ELSE rows[j]]

\* Lines from top to bottom exist; else memmove is given a negative size.
IsRegion(s, top, bottom) == 0 <= top /\ top < bottom /\ bottom <= Height(s)

\* Mutant: lines of the alternate screen are kept, too.
KeepsHistory_Always == maxRows # 0

KeepsHistory == mode = "normal" /\ maxRows # 0

\* One round of deleteLines(): the line goes to the history. A widget that
\* has no width yet cannot take it: addHistoryRow() cuts nothing off for ever.
DeleteOneLine(t, top, bottom, garbage) ==
  LET row == CopyRow(t.s.rows[top + 1], garbage) IN
  IF ~ Running(t) THEN t
  ELSE IF ~ IsRegion(t.s, top, bottom) THEN Outside(t)
  ELSE IF KeepsHistory /\ rect[1] = 0 /\ row # << >> THEN Endless(t)
  ELSE [t EXCEPT !.s.rows = DeleteLine(@, top, bottom),
                 !.h = IF KeepsHistory THEN AddHistoryRow(@, row, rect[1], maxRows) ELSE @]

\* deleteLines(), garbage being that of each line.
DeleteLines(t, lines, top, bottom, garbage) ==
  FoldLeft(LAMBDA u, i : DeleteOneLine(u, top, bottom, garbage[i]), t,
           [i \in 1..lines |-> i])

InsertLines(t, lines, top, bottom) ==
  IF lines = 0 THEN t
  ELSE IF ~ IsRegion(t.s, top, bottom) THEN Outside(t)
  ELSE [t EXCEPT !.s.rows = FoldLeft(LAMBDA rows, i : InsertLine(rows, top, bottom),
                                     @, [i \in 1..lines |-> i])]

Min2(a, b) == IF a < b THEN a ELSE b

\* updateCursorPosition(): a cursor right of the buffer moves on to the next
\* lines, and the region is scrolled if it comes to be just below it.
UpdateCursorPosition(t, garbage) ==
  LET w == Width(t.s)
      wraps == IF t.s.x < 0 THEN 0 ELSE t.s.x \div w
      scrolls == t.s.y < t.s.scrollEnd /\ t.s.scrollEnd <= t.s.y + wraps
      scrolled == IF scrolls
                    THEN DeleteOneLine(t, t.s.scrollStart, t.s.scrollEnd, garbage)
                    ELSE t
      x == t.s.x - wraps * w
      y == Min2(t.s.y + wraps, Height(t.s) - 1)
  IN [scrolled EXCEPT !.s.x = x, !.s.y = y, !.s.last = <<x, y>>]

\* Buffer::at(cursor) = cell, and the cursor moves on.
Write(t, cell) ==
  IF ~ Running(t) THEN t
  ELSE IF ~ Inside(t.s, t.s.x, t.s.y) THEN Outside(t)
  ELSE [t EXCEPT !.s.rows[t.s.y + 1][t.s.x + 1] = cell, !.s.x = @ + 1]

MarkLineEnd(t) ==
  LET x == t.s.last[1]  y == t.s.last[2] IN
  IF x < 0 THEN t
  ELSE IF ~ Inside(t.s, x, y) THEN Outside(t)
  ELSE [t EXCEPT !.s.rows[y + 1][x + 1].eol = TRUE]

\* canvas.fill(): the given cells, as far as they are there, become blank.
Fill(s, cells) ==
  [s EXCEPT !.rows = [j \in DOMAIN @ |-> [i \in DOMAIN @[j] |->
                        IF <<i - 1, j - 1>> \in cells THEN Blank ELSE @[j][i]]]]

Becomes(t) == /\ screens' = [screens EXCEPT ![mode] = t.s]
              /\ history' = t.h
              /\ status' = t.status

Bounded(what, max) == /\ status = "running"
                      /\ count[what] < max
                      /\ what # "resizes" =>
                           count.text + count.controls + count.escapes < MaxInputs
                      /\ what \in {"controls", "escapes"} =>
                           count.controls + count.escapes < MaxCommands
                      /\ count' = [count EXCEPT ![what] = @ + 1]

-----------------------------------------------------------------------------
(* Text and control characters *)

ParseCodepoint(garbage) ==
  /\ Bounded("text", MaxText)
  /\ Becomes(Write(UpdateCursorPosition(Now, garbage),
                   [c |-> count.text + 1, eol |-> FALSE]))
  /\ UNCHANGED <<mode, maxRows, rect>>

Control == Bounded("controls", MaxControls) /\ UNCHANGED <<mode, maxRows, rect>>

\* Mutant: the line is scrolled but not put into the history.
ParseLF_NoHistory(garbage) ==
  LET marked == MarkLineEnd(Now)
      atEnd == marked.s.y + 1 = marked.s.scrollEnd
      moved == IF atEnd
                 THEN [marked EXCEPT !.s.rows = DeleteLine(@, marked.s.scrollStart,
                                                             marked.s.scrollEnd)]
                 ELSE [marked EXCEPT !.s.y = @ + 1]
  IN /\ Control
     /\ Becomes(IF Running(moved) THEN UpdateCursorPosition(moved, garbage[2]) ELSE moved)

\* The region is scrolled instead of leaving it; a cursor right of the buffer
\* goes to the next line then, which may scroll once more.
ParseLF(garbage) ==
  LET marked == MarkLineEnd(Now)
      atEnd == marked.s.y + 1 = marked.s.scrollEnd
      moved == IF atEnd THEN DeleteOneLine(marked, marked.s.scrollStart,
                                           marked.s.scrollEnd, garbage[1])
               ELSE [marked EXCEPT !.s.y = @ + 1]
  IN /\ Control
     /\ Becomes(IF Running(moved) THEN UpdateCursorPosition(moved, garbage[2]) ELSE moved)

ParseCR == Control /\ Becomes([Now EXCEPT !.s.x = 0])

ParseBackspace ==
  LET s == screens[mode] IN
  /\ Control
  /\ Becomes([Now EXCEPT !.s.x = IF s.x = 0 THEN Width(s) - 1 ELSE s.x - 1,
                         !.s.y = IF s.x = 0 /\ s.y > 0 THEN s.y - 1 ELSE s.y])

\* The remainder has the sign of the column, which CHA and BS can make negative.
ParseTab(garbage) ==
  LET t == UpdateCursorPosition(Now, garbage)
      past == IF t.s.x < 0 THEN -((-t.s.x) % TabWidth) ELSE t.s.x % TabWidth
  IN Control /\ Becomes([t EXCEPT !.s.x = @ + TabWidth - past])

-----------------------------------------------------------------------------
(* Escape sequences *)

Escape(name) == /\ name \in Escapes
                /\ Bounded("escapes", MaxEscapes)
                /\ UNCHANGED <<maxRows, rect>>

\* CUU, CUD, CUF, CUB, CHA, CUP: the buffer's size is not looked at. Column 0
\* of CUP means 1, that of CHA leaves the cursor left of the buffer.
MoveCursor(n) ==
  /\ \/ Escape("CUU") /\ Becomes([Now EXCEPT !.s.y = Max({0, @ - n})])
     \/ Escape("CUD") /\ Becomes([Now EXCEPT !.s.y = @ + n])
     \/ Escape("CUF") /\ Becomes([Now EXCEPT !.s.x = @ + n])
     \/ Escape("CUB") /\ Becomes([Now EXCEPT !.s.x = Max({0, @ - n})])
     \/ Escape("CHA") /\ Becomes([Now EXCEPT !.s.x = n - 1])
     \/ Escape("CUP") /\ \E m \in {1, 3} :
          Becomes([Now EXCEPT !.s.x = m - 1, !.s.y = Max({n, 1}) - 1])
  /\ UNCHANGED mode

\* VPA
LinePosition(n) == /\ Escape("VPA")
                   /\ Becomes([Now EXCEPT !.s.y = Min2(Max({n, 1}), Height(screens[mode])) - 1])
                   /\ UNCHANGED mode

Place(s, x, y) == y * Width(s) + x

Cells(s) == (0..(Width(s) - 1)) \X (0..(Height(s) - 1))

\* The cell p is the one of the cursor, or comes after it; or before it.
FromCursor(s, p) == p[2] > s.y \/ (p[2] = s.y /\ p[1] >= s.x)
UpToCursor(s, p) == p[2] < s.y \/ (p[2] = s.y /\ p[1] <= s.x)

\* ED and EL, from the cursor on, up to it, or all of the display or line.
Erase(what, arg, garbage) ==
  LET t == IF arg = 2 /\ what = "ED" THEN Now ELSE UpdateCursorPosition(Now, garbage)
      s == t.s
      cells == {p \in Cells(s) :
                  /\ what = "EL" => p[2] = s.y
                  /\ arg = 0 => FromCursor(s, p)
                  /\ arg = 1 => UpToCursor(s, p)}
  IN /\ Escape(what)
     /\ Becomes([t EXCEPT !.s = Fill(s, cells)])
     /\ UNCHANGED mode

\* ECH
EraseCharacters(n, garbage) ==
  LET t == UpdateCursorPosition(Now, garbage)
      s == t.s
      from == Place(s, s.x, s.y)
  IN /\ Escape("ECH")
     /\ Becomes([t EXCEPT !.s = Fill(s, {p \in Cells(s) : FromCursor(s, p) /\
                                   Place(s, p[1], p[2]) \in from..(from + n - 1)})])
     /\ UNCHANGED mode

\* A cell read through the buffer's at() has lost its end of line.
Plain(cell) == [cell EXCEPT !.eol = FALSE]

\* DCH: the cells to the right move n to the left, and the last n of the line
\* become blank, even those before the cursor. With more than the line the
\* unsigned difference wraps; left of the buffer the unsigned column does, too,
\* and no cell moves.
DeleteCharacters(n) ==
  LET s == screens[mode]
      w == Width(s)
      nothing == \/ n = 0 /\ s.x \notin 0..(w - 1)
                 \/ n > w /\ s.x \in (w - n)..(-1)
  IN
  /\ Escape("DCH")
  /\ Becomes(
       IF nothing THEN Now
       ELSE IF n > w \/ ~ Inside(s, 0, s.y) THEN Outside(Now)
       ELSE [Now EXCEPT !.s.rows[s.y + 1] =
               [i \in 1..w |-> IF i > w - n THEN Blank
                               ELSE IF 0 <= s.x /\ s.x < i THEN Plain(@[i + n])
                               ELSE @[i]]])
  /\ UNCHANGED mode

\* ICH: with more than fit to the right, cells after the line are written; left
\* of the buffer, and with none at its first column, cells before it.
InsertCharacters(n) ==
  LET s == screens[mode]
      w == Width(s)
      nothing == s.x + n >= w /\ (s.x < 0 \/ n = 0)
  IN
  /\ Escape("ICH")
  /\ Becomes(
       IF nothing THEN Now
       ELSE IF s.x < 0 \/ s.x + n \notin 1..w \/ ~ Inside(s, 0, s.y) THEN Outside(Now)
       ELSE [Now EXCEPT !.s.rows[s.y + 1] =
               [i \in 1..w |-> IF i > s.x + n THEN Plain(@[i - n])
                               ELSE IF i > s.x THEN Blank
                               ELSE @[i]]])
  /\ UNCHANGED mode

\* REP
RepeatCharacter(n) ==
  LET s == screens[mode] IN
  /\ Escape("REP")
  /\ Becomes(
       IF s.x = 0 \/ s.x + n >= Width(s) THEN Now
       ELSE IF ~ Inside(s, s.x - 1, s.y) THEN Outside(Now)
       ELSE [Now EXCEPT !.s.x = @ + n,
                        !.s.rows[s.y + 1] = [i \in DOMAIN @ |->
                           IF i \in s.x..(s.x + n) THEN Plain(@[s.x]) ELSE @[i]]])
  /\ UNCHANGED mode

\* IL, DL and SD from the line of the cursor on, SU in the whole region.
ScrollLines(n, garbage) ==
  LET s == screens[mode] IN
  /\ \/ Escape("IL") /\ Becomes(InsertLines(Now, n, s.y, s.scrollEnd))
     \/ Escape("SD") /\ Becomes(InsertLines(Now, n, s.y, s.scrollEnd))
     \/ Escape("DL") /\ Becomes(DeleteLines(Now, n, s.y, s.scrollEnd, garbage))
     \/ Escape("SU") /\ Becomes(DeleteLines(Now, n, s.scrollStart, s.scrollEnd, garbage))
  /\ UNCHANGED mode

\* RI
ReverseIndex ==
  LET s == screens[mode] IN
  /\ Escape("RI")
  /\ Becomes(IF s.y = s.scrollStart THEN InsertLines(Now, 1, s.scrollStart, s.scrollEnd)
             ELSE [Now EXCEPT !.s.y = @ - 1])
  /\ UNCHANGED mode

\* DECSTBM: both have to be lines of the buffer, in whatever order. With the
\* bottom above the top the region is empty, or less, until it is set again.
SetScrollRegion(top, bottom) ==
  /\ Escape("DECSTBM")
  /\ Becomes(IF top > Height(screens[mode]) \/ bottom > Height(screens[mode]) THEN Now
             ELSE [Now EXCEPT !.s.scrollStart = top - 1, !.s.scrollEnd = bottom,
                              !.s.x = 0, !.s.y = 0])
  /\ UNCHANGED mode

SaveCursor == /\ Escape("DECSC")
              /\ Becomes([Now EXCEPT !.s.stack = Append(@, <<screens[mode].x, screens[mode].y>>)])
              /\ UNCHANGED mode

\* Of a cursor that was saved below the buffer it is the column that is set.
RestoreCursor ==
  LET s == screens[mode]
      saved == Last(s.stack)
      x == IF saved[2] >= Height(s) THEN Height(s) - 1 ELSE Min2(saved[1], Width(s) - 1)
  IN /\ Escape("DECRC")
     /\ Becomes(IF s.stack = << >> THEN Now
                ELSE [Now EXCEPT !.s.stack = Front(@), !.s.x = x, !.s.y = saved[2]])
     /\ UNCHANGED mode

\* Mode 47 or 1049 is set or reset: the screens are swapped, and the one of
\* the alternate mode is cleared when it is entered.
SetAlternateMode(value) ==
  /\ Escape("1049")
  /\ mode' = value
  /\ screens' = IF value # mode /\ value = "alternate"
                  THEN [screens EXCEPT !["alternate"] =
                          [rows |-> BlankRows(<<Width(@), Height(@)>>), x |-> 0, y |-> 0,
                           scrollStart |-> 0, scrollEnd |-> Height(@),
                           last |-> <<1, 1>>, stack |-> @.stack]]
                  ELSE screens
  /\ UNCHANGED <<history, status>>

-----------------------------------------------------------------------------
(* The UI thread *)

\* A row, up to an end of line with only blanks after it.
UpToLineEnd(row) ==
  LET ends == {i \in DOMAIN row : /\ row[i].eol
                                  /\ \A j \in (i + 1)..Len(row) : row[j].c = 0}
  IN IF ends = {} THEN row ELSE SubSeq(row, 1, Min(ends))

\* Mutant: a row that follows one without an end of line replaces it.
JoinRow_Forgets(lines, row, garbage) ==
  LET line == row
      ended == IF line = << >> THEN garbage ELSE Last(line).eol
  IN [rows |-> IF lines.open THEN Append(Front(lines.rows), line) ELSE Append(lines.rows, line),
      open |-> ~ ended]

\* Rows are joined until one ends a line; is that asked of nothing, row[-1]
\* is looked at.
JoinRow(lines, row, garbage) ==
  LET line == IF lines.open THEN Last(lines.rows) \o row ELSE row
      ended == IF line = << >> THEN garbage ELSE Last(line).eol
  IN [rows |-> IF lines.open THEN Append(Front(lines.rows), line) ELSE Append(lines.rows, line),
      open |-> ~ ended]

LogicalLines(rows, garbage) ==
  FoldLeft(LAMBDA lines, row : JoinRow(lines, row, garbage),
           [rows |-> << >>, open |-> FALSE], rows)

Wrapped(lines, width) == FlattenSeq([k \in DOMAIN lines |-> Pieces(lines[k], width)])

\* resizeHistory()
ResizeHistory(h, width, max, garbage) ==
  Trimmed(Wrapped(LogicalLines(h, garbage).rows, width), max)

\* getCursorRowWrappedStart(): the row after the last one above the cursor
\* that has an end of line. It also looks behind the end of each row.
LineStart(s) ==
  LET ends == {j \in 1..Min2(s.y, Height(s)) : \E i \in DOMAIN s.rows[j] : s.rows[j][i].eol}
  IN IF ends = {} THEN 0 ELSE Max(ends)

Padded(row, width) == [i \in 1..width |-> IF i <= Len(row) THEN row[i] ELSE Blank]

WholeRegion(s, height) == [s EXCEPT !.scrollStart = 0, !.scrollEnd = height]

\* Buffer::resize() copies the rows above stop to a blank buffer, wrapping
\* their lines anew; rows that do not fit scroll out at the top, and are
\* returned as out. The cursor is left behind the last character.
Resized(s, size, stop) ==
  LET w == size[1]  h == size[2]
      lines == LogicalLines([j \in 1..stop |-> UpToLineEnd(s.rows[j])], FALSE)
      wrapped == Wrapped(lines.rows, w)
      rows == [j \in DOMAIN wrapped |-> Padded(wrapped[j], w)]
      x == IF lines.open THEN Len(Last(lines.rows)) % w ELSE 0
      y == IF x = 0 THEN Len(rows) ELSE Len(rows) - 1
      gone == Max({0, y + 1 - h})
  IN [s |-> [s EXCEPT !.rows = [j \in 1..h |-> IF j + gone \in DOMAIN rows
                                                 THEN rows[j + gone] ELSE BlankRow(w)],
                      !.x = x, !.y = y - gone],
      out |-> SubSeq(rows, 1, gone)]

\* The rows evicted from the normal screen go to the history.
Evicted(h, out) == Trimmed(h \o out, maxRows)

\* Which rows of a screen a resize may copy.
Stops(m) == LineStart(screens[m])..Max({0, screens[m].y})

\* resize(). A buffer that has the size already is not copied.
Resize(size) ==
  LET bufferSize == <<Width(screens["normal"]), Height(screens["normal"])>> IN
  /\ Bounded("resizes", MaxResizes)
  /\ rect # size
  /\ rect' = size
  /\ \E garbage \in {\E j \in DOMAIN history : history[j] = << >>, FALSE} :
       LET h == ResizeHistory(history, size[1], maxRows, garbage) IN
       IF bufferSize = size
         THEN /\ history' = h
              /\ screens' = [m \in DOMAIN screens |-> WholeRegion(screens[m], size[2])]
              /\ UNCHANGED status
         ELSE IF \E m \in DOMAIN screens : screens[m].y > Height(screens[m])
         THEN status' = "outside" /\ history' = h /\ UNCHANGED screens
         ELSE \E stop \in [normal : Stops("normal"), alternate : Stops("alternate")] :
                /\ LET new == [m \in DOMAIN screens |-> Resized(screens[m], size, stop[m])]
                   IN /\ screens' = [m \in DOMAIN screens |-> WholeRegion(new[m].s, size[2])]
                      /\ history' = Evicted(h, new["normal"].out)
                /\ UNCHANGED status
  /\ UNCHANGED <<mode, maxRows>>

\* setMaxHistoryRows(), when the session is configured.
SetMaxHistoryRows == /\ status = "running"
                     /\ maxRows # MaxHistoryRows
                     /\ maxRows' = MaxHistoryRows
                     /\ history' = Trimmed(history, MaxHistoryRows)
                     /\ UNCHANGED <<screens, mode, rect, status, count>>

-----------------------------------------------------------------------------
\* What copyRow() may find, if it is called at all.
Garbage == IF KeepsHistory THEN BOOLEAN ELSE {FALSE}

Reader ==
  \/ \E g \in Garbage : \/ ParseCodepoint(g) \/ ParseTab(g)
                        \/ \E arg \in 0..2 : Erase("ED", arg, g) \/ Erase("EL", arg, g)
                        \/ EraseCharacters(3, g) \/ ScrollLines(1, <<g>>)
  \/ \E g \in [1..2 -> Garbage] : ParseLF(g) \/ ScrollLines(2, g)
  \/ ParseCR \/ ParseBackspace
  \/ \E n \in 0..2 : MoveCursor(n)
  \/ \E n \in {1, 2} : LinePosition(n) \/ DeleteCharacters(n) \/ InsertCharacters(n)
  \/ RepeatCharacter(1)
  \/ ReverseIndex \/ SaveCursor \/ RestoreCursor
  \/ \E top, bottom \in 1..(InitialSize[2] + 1) : SetScrollRegion(top, bottom)
  \/ \E value \in {"normal", "alternate"} : SetAlternateMode(value)

UI == SetMaxHistoryRows \/ \E size \in Sizes : Resize(size)

Next == Reader \/ UI

Spec == Init /\ [][Next]_vars
-----------------------------------------------------------------------------
(* Properties *)

\* What paint() and cellAt() rely on under the lock, whatever the reader and
\* resizes have done: the screens are rectangular, of the size of the widget once
\* it has one, and the first and the last line of their regions are lines of
\* theirs, in whichever order DECSTBM has left them; and however lines come into
\* the history (scrolled out, cut out of a longer line, evicted by a resize),
\* there are no more than configured, none wider than the widget.
BuffersFit ==
  /\ \A m \in DOMAIN screens :
       LET s == screens[m] IN
       /\ \A j \in DOMAIN s.rows : s.rows[j] \in
                                     [1..Width(s) -> [c : 0..MaxText, eol : BOOLEAN]]
       /\ status = "running" /\ rect # <<0, 0>> => <<Width(s), Height(s)>> = rect
       /\ s.scrollStart \in 0..(Height(s) - 1) /\ s.scrollEnd \in 1..Height(s)
  /\ Len(history) <= maxRows
  /\ \A j \in DOMAIN history : Len(history[j]) <= rect[1]

\* The cells that are no blanks.
VisibleOf(rows) ==
  LET cells == FlattenSeq(rows)
  IN FlattenSeq([i \in DOMAIN cells |-> IF cells[i].c # 0 THEN <<cells[i]>> ELSE << >>])

Codes(cells) == [i \in DOMAIN cells |-> cells[i].c]

\* The characters of the history and of the normal screen below it.
Text == Codes(VisibleOf(history \o screens["normal"].rows))

\* A step of the reader's that is not an escape sequence.
TextStep == /\ count' # count
            /\ count'.escapes = count.escapes /\ count'.resizes = count.resizes

\* How many characters the step has received.
Written == count'.text - count.text

\* What both sequences have comes in the same order, and only once in after.
InOrder(before, after) ==
  \A i, j \in DOMAIN after :
    i < j /\ {after[i], after[j]} \subseteq Range(before) =>
      \E k, l \in DOMAIN before : k < l /\ before[k] = after[i] /\ before[l] = after[j]

\* The output of a program that only writes text: wherever line feeds, full
\* lines and the scroll region make lines move, what leaves the screen at the
\* top is in the history and in order; only the oldest rows of a history that
\* is full are lost, and the character that a new one is written over.
ScrollKeepsText ==
  [][/\ TextStep /\ status' = "running"
     /\ KeepsHistory /\ screens["normal"].scrollStart = 0
     => \A before \in {Text}, after \in {Text'} : IsInjective(before) =>
          /\ InOrder(before, after)
          /\ Len(history') < maxRows =>
               Cardinality(Range(before) \ Range(after)) <= Written]_vars

\* A resize rewraps the history and the lines above the one of the cursor:
\* their characters and line ends all stay and stay in order, on the normal
\* screen also while the alternate one is shown; only the oldest rows of a
\* history that is full are lost.
ResizeKeepsText ==
  [][count'.resizes # count.resizes /\ status' = "running" =>
       LET s == screens["normal"]
           after == VisibleOf(history' \o screens'["normal"].rows)
       IN \E stop \in LineStart(s)..Height(s) :
            LET before == VisibleOf(history \o SubSeq(s.rows, 1, stop)) IN
            /\ IsSuffix(after, before)
            /\ Len(history') < maxRows => after = before]_vars

\* What runs in the alternate mode, whatever it sends, leaves the screen and
\* the history that will be back after it as they are; only a resize, or the
\* configuration, may change them.
AlternateKeepsNormal ==
  [][mode = "alternate" /\ count' # count /\ count'.resizes = count.resizes => UNCHANGED <<screens["normal"], history>>]_vars
=============================================================================
