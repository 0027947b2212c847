--------------------------- MODULE TerminalProofs ---------------------------
(***************************************************************************)
(* Proofs about Terminal: whatever the application sends and whatever size *)
(* the terminal is given, its buffers and its history keep their shape.    *)
(* They hold for every size, history limit and length of the output.       *)
(***************************************************************************)
EXTENDS Terminal, SequenceLemmas, FiniteSetTheorems, TLAPS

\* The two screens.
Modes == {"normal", "alternate"}

\* A Cell of the buffer: a blank, or one of the characters received so far.
Cell == [c : {0} \cup (1..count.text), eol : BOOLEAN]

\* Rows of a history, which have any length.
Lines == Seq(Cell)

\* Widths and heights.
Numbers == Nat \ {0}

\* A State whose buffer is one of those. The cursor may be anywhere, also left of
\* the buffer.
Shape(buffers) == [rows : buffers, x : Int, y : Int, scrollStart : Int, scrollEnd : Int,
                   last : Int \X Int, stack : Seq(Int \X Int)]

\* The rows of a buffer, all of one width.
Buffers(size) == [1..size[2] -> [1..size[1] -> Cell]]

\* The region starts and ends at lines of the buffer, in whatever order.
States(size) ==
  {s \in Shape(Buffers(size)) :
     s.scrollStart \in 0..(size[2] - 1) /\ s.scrollEnd \in 1..size[2]}

\* Rows of a history no wider than that, and no more of them.
Histories(width, max) ==
  {h \in Seq(Lines) : /\ Len(h) <= max
                          /\ \A j \in DOMAIN h : Len(h[j]) <= width}

\* What the size of a screen says of its buffer.
LEMMA SizeFacts ==
  ASSUME NEW size \in Numbers \X Numbers, NEW s \in States(size)
  PROVE  /\ Height(s) = size[2] /\ Width(s) = size[1]
         /\ s.rows \in Buffers(size) /\ s.rows \in Seq(Seq(Cell))
         /\ DOMAIN s.rows = 1..size[2] /\ size[1] \in Numbers /\ size[2] \in Numbers
         /\ s.scrollStart \in 0..(Height(s) - 1) /\ s.scrollEnd \in 1..Height(s)
<1>1. size[1] \in Nat /\ size[1] # 0 /\ size[2] \in Nat /\ size[2] # 0
  BY DEF Numbers
<1>2. s.rows \in Buffers(size)
  BY DEF States, Shape
<1>3. s.rows \in Seq([1..size[1] -> Cell]) /\ Len(s.rows) = size[2]
  BY <1>1, <1>2 DEF Buffers
<1>4. s.rows[1] \in [1..size[1] -> Cell]
  BY <1>1, <1>2 DEF Buffers
<1>5. Len(s.rows[1]) = size[1]
  BY <1>1, <1>4
<1>6. [1..size[1] -> Cell] \subseteq Seq(Cell)
  BY <1>1
<1>7. s.rows \in Seq(Seq(Cell))
  BY <1>3, <1>6
<1>. QED
  BY <1>1, <1>2, <1>3, <1>5, <1>7 DEF Height, Width, States, Shape, Numbers

\* A blank is a cell.
LEMMA BlankCell == Blank \in Cell
BY DEF Blank, Cell

\* What copyRow() takes for the history is a row of cells.
LEMMA CopyRowType ==
  ASSUME NEW w \in Nat, NEW row \in [1..w -> Cell], NEW garbage \in BOOLEAN
  PROVE  CopyRow(row, garbage) \in Seq(Cell)
<1>1. row \in Seq(Cell) /\ Len(row) = w /\ DOMAIN row = 1..w
  OBVIOUS
<1>2. CASE Visible(row) = {}
  BY <1>1, <1>2 DEF CopyRow
<1>3. CASE Visible(row) # {}
  <2>1. Visible(row) \subseteq 0..w /\ Visible(row) \subseteq 1..w
    BY <1>1 DEF Visible
  <2>2. Max(Visible(row)) \in 1..w
    BY <1>3, <2>1, GreatestNumber
  <2>3. SubSeq(row, 1, Max(Visible(row))) \in Seq(Cell)
    BY <1>1, <2>2, SubSeqFacts
  <2>. QED
    BY <1>1, <1>3, <2>3 DEF CopyRow
<1>. QED
  BY <1>2, <1>3

\* A line is cut in pieces of its cells that are no wider than asked for.
LEMMA PiecesType ==
  ASSUME NEW S, NEW row \in Seq(S), NEW width \in Nat, width # 0 \/ row = << >>
  PROVE  /\ Pieces(row, width) \in Seq(Seq(S))
         /\ \A k \in DOMAIN Pieces(row, width) : Len(Pieces(row, width)[k]) <= width
<1>1. Len(row) \in Nat
  OBVIOUS
<1>2. CASE Len(row) <= width
  BY <1>2 DEF Pieces
<1>3. CASE ~ (Len(row) <= width)
  <2>. DEFINE n == (Len(row) + width - 1) \div width
              piece(k) == SubSeq(row, (k - 1) * width + 1, Min({k * width, Len(row)}))
  <2>1. width # 0
    BY <1>1, <1>3
  <2>2. n \in Nat
    BY <1>1, <2>1
  <2>3. ASSUME NEW k \in 1..n
        PROVE  piece(k) \in Seq(S) /\ Len(piece(k)) <= width
    <3>. DEFINE from == (k - 1) * width + 1
                to == Min({k * width, Len(row)})
    <3>0. k \in Int /\ 1 <= k
      BY <2>2
    <3>1. (k - 1) * width \in Nat /\ k * width \in Int /\ k * width = (k - 1) * width + width
      BY <3>0
    <3>2. to \in Int /\ to <= Len(row) /\ to <= k * width
      BY <1>1, <3>1, TwoNumbers
    <3>3. from \in Int /\ 1 <= from /\ (to - from) + 1 <= width
      BY <3>1, <3>2
    <3>. HIDE DEF from, to
    <3>4. SubSeq(row, from, to) \in Seq(S) /\ Len(SubSeq(row, from, to)) <= width
      BY <3>2, <3>3, SubSeqFacts
    <3>. QED
      BY <3>4 DEF from, to
  <2>. HIDE DEF n, piece
  <2>4. Pieces(row, width) = [k \in 1..n |-> piece(k)]
    BY <1>3 DEF Pieces, n, piece
  <2>. QED
    BY <2>2, <2>3, <2>4
<1>. QED
  BY <1>2, <1>3

\* The newest rows stay, no more than asked for.
LEMMA TrimmedFacts ==
  ASSUME NEW S, NEW max \in Nat, NEW h \in Seq(S)
  PROVE  /\ Trimmed(h, max) \in Seq(S)
         /\ Len(Trimmed(h, max)) <= max
         /\ \A j \in DOMAIN Trimmed(h, max) :
              \E i \in DOMAIN h : Trimmed(h, max)[j] = h[i]
<1>1. Len(h) \in Nat /\ DOMAIN h = 1..Len(h)
  OBVIOUS
<1>2. CASE Len(h) <= max
  BY <1>1, <1>2 DEF Trimmed
<1>3. CASE Len(h) > max
  <2>. DEFINE m == Len(h) - max + 1
              t == SubSeq(h, m, Len(h))
  <2>1. m \in Int /\ 1 <= m /\ m <= Len(h) + 1 /\ (Len(h) - m) + 1 = max
    BY <1>1, <1>3
  <2>. HIDE DEF m
  <2>2. /\ t \in Seq(S) /\ DOMAIN t = 1..((Len(h) - m) + 1)
        /\ \A k \in DOMAIN t : (m + k) - 1 \in m..Len(h) /\ t[k] = h[(m + k) - 1]
    BY <1>1, <2>1, SubSeqFacts
  <2>. HIDE DEF t
  <2>3. Len(t) = max
    BY <2>1, <2>2
  <2>4. \A k \in DOMAIN t : (m + k) - 1 \in DOMAIN h /\ t[k] = h[(m + k) - 1]
    <3>1. \A j \in m..Len(h) : j \in DOMAIN h
      BY <1>1, <2>1
    <3>. QED
      BY <2>2, <3>1
  <2>5. Trimmed(h, max) = t
    BY <1>3 DEF Trimmed, m, t
  <2>. QED
    BY <2>2, <2>3, <2>4, <2>5
<1>. QED
  BY <1>1, <1>2, <1>3

\* A history of rows that fit the width, trimmed, is a history.
LEMMA TrimmedType ==
  ASSUME NEW width \in Nat, NEW max \in Nat, NEW h \in Seq(Lines),
         \A j \in DOMAIN h : Len(h[j]) <= width
  PROVE  Trimmed(h, max) \in Histories(width, max)
<1>. DEFINE t == Trimmed(h, max)
<1>1. h \in Seq(Lines) /\ max \in Nat
  OBVIOUS
<1>2. t \in Seq(Lines)
  BY ONLY <1>1, TrimmedFacts
<1>3. Len(t) <= max
  BY ONLY <1>1, TrimmedFacts
<1>4. \A j \in DOMAIN t : \E i \in DOMAIN h : t[j] = h[i]
  BY ONLY <1>1, TrimmedFacts
<1>. HIDE DEF t
<1>5. \A j \in DOMAIN t : Len(t[j]) <= width
  BY <1>4
<1>. QED
  BY <1>2, <1>3, <1>5 DEF Histories, t

\* More rows that fit are added to a history.
LEMMA ExtendedType ==
  ASSUME NEW width \in Nat, NEW max \in Nat, NEW h \in Histories(width, max),
         NEW more \in Seq(Lines), \A j \in DOMAIN more : Len(more[j]) <= width
  PROVE  Trimmed(h \o more, max) \in Histories(width, max)
<1>. DEFINE hm == h \o more
<1>1. h \in Seq(Lines) /\ \A k \in DOMAIN h : Len(h[k]) <= width
  BY DEF Histories
<1>2. /\ hm \in Seq(Lines) /\ DOMAIN hm = 1..(Len(h) + Len(more))
      /\ DOMAIN h = 1..Len(h) /\ DOMAIN more = 1..Len(more) /\ Len(h) \in Nat /\ Len(more) \in Nat
      /\ \A i \in 1..Len(h) : hm[i] = h[i]
      /\ \A i \in (Len(h) + 1)..(Len(h) + Len(more)) :
           i - Len(h) \in 1..Len(more) /\ hm[i] = more[i - Len(h)]
  BY <1>1, ConcatFacts
<1>. HIDE DEF hm
<1>3. ASSUME NEW k \in DOMAIN hm PROVE Len(hm[k]) <= width
  <2>1. CASE k \in 1..Len(h)
    BY <1>1, <1>2, <2>1
  <2>2. CASE k \notin 1..Len(h)
    <3>1. k \in (Len(h) + 1)..(Len(h) + Len(more))
      BY <1>2, <2>2
    <3>2. k - Len(h) \in DOMAIN more /\ hm[k] = more[k - Len(h)]
      BY <1>2, <3>1
    <3>. QED
      BY <3>2
  <2>. QED
    BY <2>1, <2>2
<1>4. Trimmed(hm, max) \in Histories(width, max)
  BY <1>2, <1>3, TrimmedType
<1>. QED
  BY <1>4 DEF hm

\* A row of any length is cut and added to a history.
LEMMA AddHistoryRowType ==
  ASSUME NEW width \in Nat, NEW max \in Nat, NEW h \in Histories(width, max),
         NEW row \in Lines, width # 0 \/ row = << >>
  PROVE  AddHistoryRow(h, row, width, max) \in Histories(width, max)
<1>1. /\ Pieces(row, width) \in Seq(Lines)
      /\ \A k \in DOMAIN Pieces(row, width) : Len(Pieces(row, width)[k]) <= width
  BY PiecesType DEF Lines
<1>. QED
  BY <1>1, ExtendedType DEF AddHistoryRow

-----------------------------------------------------------------------------
(* The terminal under lock, and lines that are scrolled *)

\* Why the reader goes on or cannot.
Statuses == {"running", "outside", "endless"}

\* A terminal under lock whose buffer has that size; what runs in the alternate
\* mode has not touched its history.
Terminals(size) ==
  {t \in [s : States(size), h : Histories(rect[1], maxRows), status : Statuses] :
     mode = "alternate" => t.h = history}

Good(t, size) == t \in Terminals(size)

\* The widget's width and the history's limit are numbers.
Sized == rect[1] \in Nat /\ maxRows \in Nat

\* Lines that move up, or down, leave a buffer of the same size.
LEMMA DeleteLineType ==
  ASSUME NEW size \in Numbers \X Numbers, NEW rows \in Buffers(size),
         NEW top \in Int, NEW bottom \in Int, 0 <= top, top < bottom, bottom <= size[2]
  PROVE  /\ DeleteLine(rows, top, bottom) \in Buffers(size)
         /\ InsertLine(rows, top, bottom) \in Buffers(size)
<1>1. size[1] \in Nat /\ size[1] # 0 /\ size[2] \in Nat /\ size[2] # 0
  BY DEF Numbers
<1>2. rows[1] \in [1..size[1] -> Cell] /\ Len(rows[1]) = size[1]
  BY <1>1 DEF Buffers
<1>3. BlankRow(Len(rows[1])) \in [1..size[1] -> Cell]
  BY <1>2, BlankCell DEF BlankRow
<1>4. \A j \in 1..size[2] : rows[j] \in [1..size[1] -> Cell]
  BY DEF Buffers
<1>5. \A j \in (top + 1)..(bottom - 1) : j + 1 \in 1..size[2]
  BY <1>1
<1>6. \A j \in (top + 2)..bottom : j - 1 \in 1..size[2]
  BY <1>1
<1>7. DeleteLine(rows, top, bottom) \in Buffers(size)
  BY <1>3, <1>4, <1>5 DEF DeleteLine, Buffers
<1>8. InsertLine(rows, top, bottom) \in Buffers(size)
  BY <1>3, <1>4, <1>6 DEF InsertLine, Buffers
<1>. QED
  BY <1>7, <1>8

\* Other rows, or another cursor, on the same screen.
LEMMA RowsGood ==
  ASSUME NEW size \in Numbers \X Numbers, NEW t, Good(t, size),
         NEW rows \in Buffers(size)
  PROVE  Good([t EXCEPT !.s.rows = rows], size)
<1>. DEFINE s == [t.s EXCEPT !.rows = rows]
            u == [t EXCEPT !.s.rows = rows]
<1>1. s \in States(size)
  BY DEF Good, Terminals, States, Shape
<1>2. u = [t EXCEPT !.s = s] /\ u.h = t.h
  BY DEF Good, Terminals, States
<1>. HIDE DEF s, u
<1>. QED
  BY <1>1, <1>2 DEF Good, Terminals, u

\* The cursor is elsewhere.
LEMMA CursorGood ==
  ASSUME NEW size \in Numbers \X Numbers, NEW t, Good(t, size), NEW x \in Int, NEW y \in Int
  PROVE  /\ Good([t EXCEPT !.s.x = x], size)
         /\ Good([t EXCEPT !.s.y = y], size)
         /\ Good([t EXCEPT !.s.x = x, !.s.y = y], size)
<1>1. [t EXCEPT !.s.x = x] = [t EXCEPT !.s = [t.s EXCEPT !.x = x]]
  BY DEF Good, Terminals
<1>2. [t EXCEPT !.s.y = y] = [t EXCEPT !.s = [t.s EXCEPT !.y = y]]
  BY DEF Good, Terminals
<1>3. [t EXCEPT !.s.x = x, !.s.y = y] = [t EXCEPT !.s = [t.s EXCEPT !.x = x, !.y = y]]
  BY DEF Good, Terminals
<1>4. /\ [t.s EXCEPT !.x = x] \in States(size) /\ [t.s EXCEPT !.y = y] \in States(size)
      /\ [t.s EXCEPT !.x = x, !.y = y] \in States(size)
  BY DEF Good, Terminals, States, Shape
<1>. QED
  BY <1>1, <1>2, <1>3, <1>4 DEF Good, Terminals

\* The reader stops.
LEMMA StatusGood ==
  ASSUME NEW size, NEW t, Good(t, size)
  PROVE  Good(Outside(t), size) /\ Good(Endless(t), size)
<1>1. ASSUME NEW why \in Statuses PROVE Good([t EXCEPT !.status = why], size)
  BY DEF Good, Terminals
<1>. QED
  BY <1>1 DEF Outside, Endless, Statuses

\* A line is scrolled out, into the history in the normal mode.
LEMMA DeleteOneLineGood ==
  ASSUME NEW size \in Numbers \X Numbers, NEW t, Good(t, size), Sized,
         NEW top \in Int, NEW bottom \in Int, NEW garbage \in BOOLEAN
  PROVE  Good(DeleteOneLine(t, top, bottom, garbage), size)
<1>. DEFINE row == CopyRow(t.s.rows[top + 1], garbage)
            rows == DeleteLine(t.s.rows, top, bottom)
            h == IF KeepsHistory THEN AddHistoryRow(t.h, row, rect[1], maxRows) ELSE t.h
            u == [t EXCEPT !.s.rows = rows]
            v == [t EXCEPT !.s.rows = rows, !.h = h]
<1>1. t.s \in States(size) /\ t.h \in Histories(rect[1], maxRows)
  BY DEF Good, Terminals
<1>2. Good(t, size) /\ Good(Outside(t), size) /\ Good(Endless(t), size)
  BY StatusGood
<1>3. ASSUME IsRegion(t.s, top, bottom), ~ (KeepsHistory /\ rect[1] = 0 /\ row # << >>)
      PROVE  Good(v, size)
  <2>1. /\ 0 <= top /\ top < bottom /\ bottom <= size[2] /\ size[1] \in Nat /\ size[2] \in Nat
        /\ t.s.rows \in Buffers(size)
    BY <1>1, <1>3, SizeFacts DEF IsRegion, Numbers
  <2>2. rows \in Buffers(size)
    BY <2>1, DeleteLineType
  <2>3. row \in Lines
    <3>1. top + 1 \in 1..size[2]
      BY <2>1
    <3>2. t.s.rows[top + 1] \in [1..size[1] -> Cell]
      BY <2>1, <3>1 DEF Buffers
    <3>. QED
      BY <2>1, <3>2, CopyRowType DEF Lines
  <2>. HIDE DEF row, rows
  <2>4. h \in Histories(rect[1], maxRows)
    <3>1. CASE KeepsHistory
      BY <1>1, <1>3, <2>3, <3>1, AddHistoryRowType DEF Sized
    <3>2. CASE ~ KeepsHistory
      BY <1>1, <3>2
    <3>. QED
      BY <3>1, <3>2
  <2>5. mode = "alternate" => h = history
    BY DEF KeepsHistory, Good, Terminals
  <2>. HIDE DEF h
  <2>6. Good(u, size)
    BY <2>2, RowsGood
  <2>7. v = [u EXCEPT !.h = h]
    BY DEF Good, Terminals
  <2>. HIDE DEF u, v
  <2>. QED
    BY <2>4, <2>5, <2>6, <2>7 DEF Good, Terminals
<1>. HIDE DEF row, rows, h, u
<1>4. DeleteOneLine(t, top, bottom, garbage) \in {t, Outside(t), Endless(t), v}
  BY DEF DeleteOneLine, row, rows, h
<1>5. DeleteOneLine(t, top, bottom, garbage) = v => \/ Good(v, size) \/ DeleteOneLine(t, top, bottom, garbage) \in {t, Outside(t), Endless(t)}
  BY <1>3 DEF DeleteOneLine, row, rows, h
<1>. HIDE DEF v
<1>. QED
  BY <1>2, <1>4, <1>5

\* Lines are scrolled out one after the other.
LEMMA DeleteLinesGood ==
  ASSUME NEW size \in Numbers \X Numbers, NEW t, Good(t, size), Sized,
         NEW lines \in Nat, NEW top \in Int, NEW bottom \in Int, NEW garbage \in [1..lines -> BOOLEAN]
  PROVE  Good(DeleteLines(t, lines, top, bottom, garbage), size)
<1>. DEFINE X == Terminals(size)
            n == [i \in 1..lines |-> i]
            step == [i \in 1..lines |-> [u \in X |-> DeleteOneLine(u, top, bottom, garbage[i])]]
            Iter(f) == f = [S \in SUBSET (DOMAIN n) |->
                              IF S = {} THEN t
                              ELSE DeleteOneLine(f[S \ {Max(S)}], top, bottom, garbage[n[Max(S)]])]
            iter == CHOOSE f : Iter(f)
<1>1. DeleteLines(t, lines, top, bottom, garbage) = iter[DOMAIN n]
  BY DEF DeleteLines, FoldLeft, MapThenFoldSet
<1>2. DOMAIN n = 1..lines /\ \A i \in 1..lines : n[i] = i
  OBVIOUS
<1>. HIDE DEF n
<1>3. t \in X /\ \A u \in X : \A i \in 1..lines : DeleteOneLine(u, top, bottom, garbage[i]) \in X
  BY DeleteOneLineGood DEF Good
<1>. HIDE DEF X
<1>4. \A S \in SUBSET (1..lines) : S # {} => Max(S) \in S
  <2>. SUFFICES ASSUME NEW S \in SUBSET (1..lines), S # {} PROVE Max(S) \in S
    OBVIOUS
  <2>1. S \subseteq 0..lines
    OBVIOUS
  <2>. QED
    BY <2>1, GreatestNumber
<1>5. Iter(iter)
  <2>1. step \in [1..lines -> [X -> X]]
    BY <1>3
  <2>2. PICK f : FoldsTo(f, X, t, step, lines)
    BY <1>3, <2>1, FoldExists
  <2>3. \A S \in SUBSET (1..lines) :
          f[S] = IF S = {} THEN t ELSE DeleteOneLine(f[S \ {Max(S)}], top, bottom, garbage[n[Max(S)]])
    <3>. SUFFICES ASSUME NEW S \in SUBSET (1..lines)
                  PROVE f[S] = IF S = {} THEN t ELSE DeleteOneLine(f[S \ {Max(S)}], top, bottom, garbage[n[Max(S)]])
      OBVIOUS
    <3>1. f[S] = IF S = {} THEN t ELSE step[Max(S)][f[S \ {Max(S)}]]
      BY <2>2 DEF FoldsTo
    <3>2. S # {} => Max(S) \in 1..lines /\ n[Max(S)] = Max(S)
      BY <1>2, <1>4
    <3>3. f[S \ {Max(S)}] \in X
      BY <2>2 DEF FoldsTo
    <3>. QED
      BY <3>1, <3>2, <3>3
  <2>4. f = [S \in SUBSET (1..lines) |-> f[S]]
    BY <2>2 DEF FoldsTo
  <2>5. Iter(f)
    BY <1>2, <2>3, <2>4
  <2>. HIDE DEF Iter
  <2>. QED
    BY <2>5
<1>. HIDE DEF iter, step
<1>6. \A S \in SUBSET (1..lines) :
        iter[S] = IF S = {} THEN t ELSE DeleteOneLine(iter[S \ {Max(S)}], top, bottom, garbage[n[Max(S)]])
  BY <1>2, <1>5
<1>. HIDE DEF Iter
<1>7. iter[{}] \in X
  BY <1>3, <1>6
<1>8. ASSUME NEW k \in 1..lines, iter[1..(k - 1)] \in X
      PROVE  iter[1..k] \in X
  <2>0. k \in Nat \ {0}
    OBVIOUS
  <2>1. 1..k # {} /\ Max(1..k) = k /\ (1..k) \ {k} = 1..(k - 1)
    BY <2>0, LastOfMany
  <2>3. 1..k \in SUBSET (1..lines)
    OBVIOUS
  <2>2. iter[1..k] = DeleteOneLine(iter[1..(k - 1)], top, bottom, garbage[k])
    BY <1>2, <1>6, <2>1, <2>3
  <2>. QED
    BY <1>3, <1>8, <2>2
<1>9. iter[1..lines] \in X
  BY <1>7, <1>8, FoldKeeps
<1>. QED
  BY <1>1, <1>2, <1>9 DEF Good, X

\* Lines are scrolled in one after the other.
LEMMA InsertLinesGood ==
  ASSUME NEW size \in Numbers \X Numbers, NEW t, Good(t, size),
         NEW lines \in Nat, NEW top \in Int, NEW bottom \in Int
  PROVE  Good(InsertLines(t, lines, top, bottom), size)
<1>. DEFINE X == Buffers(size)
            a == t.s.rows
            n == [i \in 1..lines |-> i]
            step == [i \in 1..lines |-> [u \in X |-> InsertLine(u, top, bottom)]]
            Iter(f) == f = [S \in SUBSET (DOMAIN n) |->
                              IF S = {} THEN a
                              ELSE InsertLine(f[S \ {Max(S)}], top, bottom)]
            iter == CHOOSE f : Iter(f)
<1>0. CASE lines = 0 \/ ~ IsRegion(t.s, top, bottom)
  BY <1>0, StatusGood DEF InsertLines
<1>01. CASE lines # 0 /\ IsRegion(t.s, top, bottom)
  <2>0. t.s \in States(size)
    BY DEF Good, Terminals
  <2>1. InsertLines(t, lines, top, bottom) = [t EXCEPT !.s.rows = iter[DOMAIN n]]
    BY <1>01 DEF InsertLines, FoldLeft, MapThenFoldSet
  <2>2. DOMAIN n = 1..lines
    OBVIOUS
  <2>. HIDE DEF n, step
  <2>3. a \in X /\ \A u \in X : InsertLine(u, top, bottom) \in X
    <3>1. a \in X /\ 0 <= top /\ top < bottom /\ bottom <= size[2]
      BY <1>01, <2>0, SizeFacts DEF IsRegion
    <3>. QED
      BY <3>1, DeleteLineType
  <2>. HIDE DEF X, a
  <2>4. \A S \in SUBSET (1..lines) : S # {} => Max(S) \in S
    <3>. SUFFICES ASSUME NEW S \in SUBSET (1..lines), S # {} PROVE Max(S) \in S
      OBVIOUS
    <3>1. S \subseteq 0..lines
      OBVIOUS
    <3>. QED
      BY <3>1, GreatestNumber
  <2>5. Iter(iter)
    <3>1. step \in [1..lines -> [X -> X]]
      BY <2>3 DEF step
    <3>2. PICK f : FoldsTo(f, X, a, step, lines)
      BY <2>3, <3>1, FoldExists
    <3>3. \A S \in SUBSET (1..lines) :
            f[S] = IF S = {} THEN a ELSE InsertLine(f[S \ {Max(S)}], top, bottom)
      <4>. SUFFICES ASSUME NEW S \in SUBSET (1..lines)
                    PROVE  f[S] = IF S = {} THEN a ELSE InsertLine(f[S \ {Max(S)}], top, bottom)
        OBVIOUS
      <4>1. f[S] = IF S = {} THEN a ELSE step[Max(S)][f[S \ {Max(S)}]]
        BY <3>2 DEF FoldsTo
      <4>2. S # {} => Max(S) \in 1..lines
        BY <2>4
      <4>3. f[S \ {Max(S)}] \in X
        BY <3>2 DEF FoldsTo
      <4>. QED
        BY <4>1, <4>2, <4>3 DEF step
    <3>4. f = [S \in SUBSET (1..lines) |-> f[S]]
      BY <3>2 DEF FoldsTo
    <3>5. Iter(f)
      BY <2>2, <3>3, <3>4
    <3>. HIDE DEF Iter
    <3>. QED
      BY <3>5
  <2>. HIDE DEF iter
  <2>6. \A S \in SUBSET (1..lines) :
          iter[S] = IF S = {} THEN a ELSE InsertLine(iter[S \ {Max(S)}], top, bottom)
    BY <2>2, <2>5
  <2>. HIDE DEF Iter
  <2>7. iter[{}] \in X
    BY <2>3, <2>6
  <2>8. ASSUME NEW k \in 1..lines, iter[1..(k - 1)] \in X
        PROVE  iter[1..k] \in X
    <3>0. k \in Nat \ {0}
      OBVIOUS
    <3>1. 1..k # {} /\ Max(1..k) = k /\ (1..k) \ {k} = 1..(k - 1)
      BY <3>0, LastOfMany
    <3>2. 1..k \in SUBSET (1..lines)
      OBVIOUS
    <3>3. iter[1..k] = InsertLine(iter[1..(k - 1)], top, bottom)
      BY <2>6, <3>1, <3>2
    <3>. QED
      BY <2>3, <2>8, <3>3
  <2>9. iter[1..lines] \in X
    BY <2>7, <2>8, FoldKeeps
  <2>. QED
    BY <2>1, <2>2, <2>9, RowsGood DEF X
<1>. QED
  BY <1>0, <1>01

-----------------------------------------------------------------------------
(* The history and the screens of another size *)

\* Lines that are being joined: the last one is there to be continued.
Joined == {l \in [rows : Seq(Lines), open : BOOLEAN] : l.open => l.rows # << >>}

\* One more row joins the lines: it continues the last or begins another.
LEMMA JoinRowType ==
  ASSUME NEW l \in Joined, NEW row \in Lines, NEW garbage \in BOOLEAN
  PROVE  JoinRow(l, row, garbage) \in Joined
<1>. DEFINE line == IF l.open THEN Last(l.rows) \o row ELSE row
            ended == IF line = << >> THEN garbage ELSE Last(line).eol
            rows == IF l.open THEN Append(Front(l.rows), line) ELSE Append(l.rows, line)
<1>1. l.rows \in Seq(Lines) /\ l.open \in BOOLEAN /\ (l.open => l.rows # << >>)
  BY DEF Joined
<1>2. l.open => Last(l.rows) \in Lines /\ Front(l.rows) \in Seq(Lines)
  <2>. SUFFICES ASSUME l.open PROVE Last(l.rows) \in Lines /\ Front(l.rows) \in Seq(Lines)
    OBVIOUS
  <2>1. Len(l.rows) \in Nat /\ Len(l.rows) # 0 /\ DOMAIN l.rows = 1..Len(l.rows)
    BY <1>1
  <2>2. Last(l.rows) \in Lines
    BY <1>1, <2>1 DEF Last
  <2>3. SubSeq(l.rows, 1, Len(l.rows) - 1) \in Seq(Lines)
    BY <1>1, <2>1, SubSeqFacts
  <2>. QED
    BY <2>2, <2>3 DEF Front
<1>3. line \in Lines
  <2>1. l.open => Last(l.rows) \o row \in Lines
    BY <1>2, ConcatFacts DEF Lines
  <2>. QED
    BY <2>1
<1>. HIDE DEF line
<1>4. ended \in BOOLEAN
  <2>1. CASE line = << >>
    BY <2>1
  <2>2. CASE line # << >>
    <3>1. line \in Seq(Cell) /\ Len(line) \in Nat /\ Len(line) # 0 /\ DOMAIN line = 1..Len(line)
      BY <1>3, <2>2 DEF Lines
    <3>2. Last(line) \in Cell
      BY <3>1 DEF Last
    <3>. QED
      BY <2>2, <3>2 DEF Cell
  <2>. QED
    BY <2>1, <2>2
<1>5. rows \in Seq(Lines) /\ rows # << >>
  <2>1. ASSUME NEW f \in Seq(Lines)
        PROVE  Append(f, line) \in Seq(Lines) /\ Append(f, line) # << >>
    <3>1. Append(f, line) \in Seq(Lines) /\ Len(Append(f, line)) = Len(f) + 1 /\ Len(f) \in Nat
      BY <1>3
    <3>. QED
      BY <3>1
  <2>2. l.open => Front(l.rows) \in Seq(Lines)
    BY <1>2
  <2>. QED
    BY <1>1, <2>1, <2>2
<1>6. JoinRow(l, row, garbage) = [rows |-> rows, open |-> ~ ended]
  BY DEF JoinRow, line
<1>. HIDE DEF rows, ended
<1>. QED
  BY <1>4, <1>5, <1>6 DEF Joined

\* One row after the other joins the lines.
LEMMA LogicalLinesUnrolled ==
  ASSUME NEW rows \in Seq(Lines), NEW garbage \in BOOLEAN
  PROVE  \E r \in [0..Len(rows) -> Joined] :
           /\ r[0] = [rows |-> << >>, open |-> FALSE]
           /\ \A k \in 1..Len(rows) : r[k] = JoinRow(r[k - 1], rows[k], garbage)
           /\ LogicalLines(rows, garbage) = r[Len(rows)]
<1>. DEFINE m == Len(rows)
            a == [rows |-> << >>, open |-> FALSE]
            step == [i \in 1..m |-> [u \in Joined |-> JoinRow(u, rows[i], garbage)]]
            Iter(f) == f = [S \in SUBSET (DOMAIN rows) |->
                              IF S = {} THEN a
                              ELSE JoinRow(f[S \ {Max(S)}], rows[Max(S)], garbage)]
            iter == CHOOSE f : Iter(f)
<1>1. LogicalLines(rows, garbage) = iter[DOMAIN rows]
  BY DEF LogicalLines, FoldLeft, MapThenFoldSet
<1>2. DOMAIN rows = 1..m /\ m \in Nat /\ \A i \in 1..m : rows[i] \in Lines
  OBVIOUS
<1>. HIDE DEF m
<1>3. a \in Joined
  BY DEF Joined
<1>. HIDE DEF a
<1>4. \A u \in Joined : \A i \in 1..m : JoinRow(u, rows[i], garbage) \in Joined
  BY <1>2, JoinRowType
<1>5. \A S \in SUBSET (1..m) : S # {} => Max(S) \in 1..m
  <2>. SUFFICES ASSUME NEW S \in SUBSET (1..m), S # {} PROVE Max(S) \in 1..m
    OBVIOUS
  <2>1. S \subseteq 0..m
    OBVIOUS
  <2>. QED
    BY <1>2, <2>1, GreatestNumber
<1>6. step \in [1..m -> [Joined -> Joined]]
  BY <1>4
<1>7. \A i \in 1..m : \A u \in Joined : step[i][u] = JoinRow(u, rows[i], garbage)
  OBVIOUS
<1>. HIDE DEF step
<1>8. Iter(iter)
  <2>2. PICK f : FoldsTo(f, Joined, a, step, m)
    BY <1>2, <1>3, <1>6, FoldExists
  <2>3. \A S \in SUBSET (1..m) :
          f[S] = IF S = {} THEN a ELSE JoinRow(f[S \ {Max(S)}], rows[Max(S)], garbage)
    <3>. SUFFICES ASSUME NEW S \in SUBSET (1..m)
                  PROVE  f[S] = IF S = {} THEN a ELSE JoinRow(f[S \ {Max(S)}], rows[Max(S)], garbage)
      OBVIOUS
    <3>1. f[S] = IF S = {} THEN a ELSE step[Max(S)][f[S \ {Max(S)}]]
      BY <2>2 DEF FoldsTo
    <3>3. f[S \ {Max(S)}] \in Joined
      BY <2>2 DEF FoldsTo
    <3>. QED
      BY <1>5, <1>7, <3>1, <3>3
  <2>4. f = [S \in SUBSET (1..m) |-> f[S]]
    BY <2>2 DEF FoldsTo
  <2>5. Iter(f)
    BY <1>2, <2>3, <2>4
  <2>. HIDE DEF Iter
  <2>. QED
    BY <2>5
<1>. HIDE DEF iter
<1>9. \A S \in SUBSET (1..m) :
        iter[S] = IF S = {} THEN a ELSE JoinRow(iter[S \ {Max(S)}], rows[Max(S)], garbage)
  BY <1>2, <1>8
<1>. HIDE DEF Iter
<1>10. FoldsOn(iter, Joined, a, step, m)
  <2>1. iter[{}] = a
    BY <1>9
  <2>2. \A S \in SUBSET (1..m) :
          S # {} /\ iter[S \ {Max(S)}] \in Joined => iter[S] = step[Max(S)][iter[S \ {Max(S)}]]
    BY <1>5, <1>9, <1>7
  <2>. QED
    BY <1>3, <1>6, <2>1, <2>2 DEF FoldsOn
<1>11. PICK r \in [0..m -> Joined] :
         r[0] = a /\ (\A k \in 1..m : r[k] = step[k][r[k - 1]]) /\ iter[1..m] = r[m]
  BY <1>2, <1>10, FoldUnrolled
<1>12. \A k \in 1..m : r[k] = JoinRow(r[k - 1], rows[k], garbage)
  <2>1. \A k \in 1..m : r[k - 1] \in Joined
    <3>1. \A k \in 1..m : k - 1 \in 0..m
      BY <1>2
    <3>. QED
      BY <1>11, <3>1
  <2>. QED
    BY <1>7, <1>11, <2>1
<1>13. r[0] = [rows |-> << >>, open |-> FALSE]
  BY <1>11 DEF a
<1>. QED
  BY <1>1, <1>2, <1>11, <1>12, <1>13 DEF m

\* The rows of a history are joined, one after the other, to the lines they came from.
LEMMA LogicalLinesType ==
  ASSUME NEW rows \in Seq(Lines), NEW garbage \in BOOLEAN
  PROVE  LogicalLines(rows, garbage) \in Joined
<1>1. PICK r \in [0..Len(rows) -> Joined] : LogicalLines(rows, garbage) = r[Len(rows)]
  BY LogicalLinesUnrolled
<1>2. Len(rows) \in 0..Len(rows)
  OBVIOUS
<1>. QED
  BY <1>1, <1>2

\* Lines wrapped anew fit the width.
LEMMA WrappedType ==
  ASSUME NEW lines \in Seq(Lines), NEW width \in Numbers
  PROVE  /\ Wrapped(lines, width) \in Seq(Lines)
         /\ \A j \in DOMAIN Wrapped(lines, width) : Len(Wrapped(lines, width)[j]) <= width
<1>. DEFINE n == Len(lines)
            pieces == [k \in DOMAIN lines |-> Pieces(lines[k], width)]
            w == FlattenSeq(pieces)
<1>1. n \in Nat /\ DOMAIN lines = 1..n /\ \A k \in 1..n : lines[k] \in Lines
  OBVIOUS
<1>2. width \in Nat /\ width # 0
  BY DEF Numbers
<1>3. \A k \in 1..n : /\ Pieces(lines[k], width) \in Seq(Lines)
                      /\ \A j \in DOMAIN Pieces(lines[k], width) :
                           Len(Pieces(lines[k], width)[j]) <= width
  BY <1>1, <1>2, PiecesType DEF Lines
<1>. HIDE DEF n
<1>4. pieces \in [1..n -> Seq(Lines)] /\ DOMAIN pieces = 1..n
  BY <1>1, <1>3
<1>5. /\ pieces \in Seq(Seq(Lines))
      /\ \A k \in 1..n : \A j \in DOMAIN pieces[k] : Len(pieces[k][j]) <= width
  <2>1. pieces \in Seq(Seq(Lines))
    BY <1>1, <1>4
  <2>. QED
    BY <1>1, <1>3, <2>1
<1>. HIDE DEF pieces
<1>6. w \in Seq(Lines) /\ Range(w) = UNION {Range(pieces[i]) : i \in DOMAIN pieces}
  BY <1>5, FlattenSeqRange
<1>. HIDE DEF w
<1>7. ASSUME NEW j \in DOMAIN w PROVE Len(w[j]) <= width
  <2>1. w[j] \in Range(w)
    BY DEF Range
  <2>2. PICK i \in DOMAIN pieces : w[j] \in Range(pieces[i])
    BY <1>6, <2>1
  <2>3. PICK k \in DOMAIN pieces[i] : w[j] = pieces[i][k]
    BY <2>2 DEF Range
  <2>. QED
    BY <1>4, <1>5, <2>2, <2>3
<1>. QED
  BY <1>6, <1>7 DEF Wrapped, w, pieces

\* The history of another width has rows that fit it.
LEMMA ResizeHistoryType ==
  ASSUME NEW h \in Seq(Lines), NEW width \in Numbers, NEW max \in Nat, NEW garbage \in BOOLEAN
  PROVE  ResizeHistory(h, width, max, garbage) \in Histories(width, max)
<1>. DEFINE lines == LogicalLines(h, garbage).rows
<1>1. lines \in Seq(Lines) /\ width \in Nat
  BY LogicalLinesType DEF Joined, Numbers
<1>. HIDE DEF lines
<1>2. /\ Wrapped(lines, width) \in Seq(Lines)
      /\ \A j \in DOMAIN Wrapped(lines, width) : Len(Wrapped(lines, width)[j]) <= width
  BY <1>1, WrappedType
<1>3. Trimmed(Wrapped(lines, width), max) \in Histories(width, max)
  BY <1>1, <1>2, TrimmedType
<1>. QED
  BY <1>3 DEF ResizeHistory, lines

\* The region becomes all of the screen.
LEMMA WholeRegionShape ==
  ASSUME NEW buffers, NEW s \in Shape(buffers), NEW height \in Int
  PROVE  /\ WholeRegion(s, height) \in Shape(buffers)
         /\ WholeRegion(s, height).scrollStart = 0 /\ WholeRegion(s, height).scrollEnd = height
<1>1. 0 \in Int
  OBVIOUS
<1>. QED
  BY <1>1, Zenon DEF WholeRegion, Shape

\* The line of the cursor starts at a row.
LEMMA LineStartType ==
  ASSUME NEW size \in Numbers \X Numbers, NEW s \in States(size)
  PROVE  LineStart(s) \in Nat
<1>. DEFINE ends == {j \in 1..Min2(s.y, Height(s)) :
                       \E i \in DOMAIN s.rows[j] : s.rows[j][i].eol}
<1>1. Height(s) \in Nat /\ s.y \in Int
  BY SizeFacts DEF States, Shape, Numbers
<1>2. ends \subseteq 0..Height(s)
  BY <1>1 DEF Min2
<1>. HIDE DEF ends
<1>3. ends # {} => Max(ends) \in ends
  BY <1>1, <1>2, GreatestNumber
<1>. QED
  BY <1>1, <1>2, <1>3 DEF LineStart, ends

\* A row up to its end of line is a row.
LEMMA UpToLineEndType ==
  ASSUME NEW w \in Nat, NEW row \in [1..w -> Cell]
  PROVE  UpToLineEnd(row) \in Lines
<1>. DEFINE ends == {i \in DOMAIN row : /\ row[i].eol
                                        /\ \A j \in (i + 1)..Len(row) : row[j].c = 0}
<1>1. row \in Seq(Cell) /\ Len(row) = w /\ ends \subseteq 1..w
  OBVIOUS
<1>2. UpToLineEnd(row) = IF ends = {} THEN row ELSE SubSeq(row, 1, Min(ends))
  BY DEF UpToLineEnd
<1>. HIDE DEF ends
<1>3. ends # {} => Min(ends) \in 1..w
  <2>1. ends \subseteq Nat
    BY <1>1
  <2>. QED
    BY <1>1, <2>1, SmallestNumber
<1>4. ends # {} => SubSeq(row, 1, Min(ends)) \in Seq(Cell)
  BY <1>1, <1>3, SubSeqFacts
<1>. QED
  BY <1>1, <1>2, <1>4 DEF Lines

\* A resized screen has the new size, what it evicts is as wide as it.
LEMMA ResizedType ==
  ASSUME NEW size \in Numbers \X Numbers, NEW s \in States(size),
         NEW new \in Numbers \X Numbers, NEW stop \in Nat, stop <= size[2]
  PROVE  LET u == Resized(s, new, stop) IN
         /\ WholeRegion(u.s, new[2]) \in States(new)
         /\ u.out \in Seq(Lines)
         /\ \A j \in DOMAIN u.out : Len(u.out[j]) <= new[1]
<1>. DEFINE w == new[1]
            h == new[2]
            top == [j \in 1..stop |-> UpToLineEnd(s.rows[j])]
            lines == LogicalLines(top, FALSE)
            wrapped == Wrapped(lines.rows, w)
            rows == [j \in DOMAIN wrapped |-> Padded(wrapped[j], w)]
            x == IF lines.open THEN Len(Last(lines.rows)) % w ELSE 0
            y == IF x = 0 THEN Len(rows) ELSE Len(rows) - 1
            gone == Max({0, y + 1 - h})
            buffer == [j \in 1..h |-> IF j + gone \in DOMAIN rows THEN rows[j + gone] ELSE BlankRow(w)]
            out == SubSeq(rows, 1, gone)
            t == [s EXCEPT !.rows = buffer, !.x = x, !.y = y - gone]
<1>1. /\ w \in Nat /\ w # 0 /\ h \in Nat /\ h # 0 /\ size[1] \in Nat /\ size[2] \in Nat
      /\ s.rows \in Buffers(size)
  BY SizeFacts DEF Numbers
<1>2. top \in Seq(Lines)
  <2>1. \A j \in 1..stop : UpToLineEnd(s.rows[j]) \in Lines
    <3>. SUFFICES ASSUME NEW j \in 1..stop PROVE UpToLineEnd(s.rows[j]) \in Lines
      OBVIOUS
    <3>0. j \in 1..size[2]
      BY <1>1
    <3>1. s.rows[j] \in [1..size[1] -> Cell]
      BY <1>1, <3>0 DEF Buffers
    <3>. QED
      BY <1>1, <3>1, UpToLineEndType
  <2>2. top \in [1..stop -> Lines]
    BY <2>1
  <2>. HIDE DEF top
  <2>. QED
    BY <2>2
<1>. HIDE DEF top
<1>3. lines.rows \in Seq(Lines) /\ lines.open \in BOOLEAN /\ (lines.open => lines.rows # << >>)
  BY <1>2, LogicalLinesType DEF Joined
<1>. HIDE DEF lines
<1>4. wrapped \in Seq(Lines)
  BY <1>3, WrappedType
<1>. HIDE DEF wrapped
<1>5. /\ rows \in Seq([1..w -> Cell]) /\ rows \in Seq(Lines) /\ Len(rows) \in Nat
      /\ DOMAIN rows = 1..Len(rows) /\ \A j \in DOMAIN rows : rows[j] \in [1..w -> Cell]
  <2>1. \A j \in DOMAIN wrapped : Padded(wrapped[j], w) \in [1..w -> Cell]
    <3>. SUFFICES ASSUME NEW j \in DOMAIN wrapped PROVE Padded(wrapped[j], w) \in [1..w -> Cell]
      OBVIOUS
    <3>1. wrapped[j] \in Seq(Cell) /\ Len(wrapped[j]) \in Nat
      BY <1>4 DEF Lines
    <3>2. \A i \in 1..w : i <= Len(wrapped[j]) => wrapped[j][i] \in Cell
      BY <3>1
    <3>. QED
      BY <3>2, BlankCell DEF Padded
  <2>2. rows \in [1..Len(wrapped) -> [1..w -> Cell]] /\ Len(wrapped) \in Nat
    BY <1>4, <2>1
  <2>3. [1..w -> Cell] \subseteq Lines
    BY <1>1 DEF Lines
  <2>. HIDE DEF rows
  <2>. QED
    BY <2>2, <2>3
<1>. HIDE DEF rows
<1>6. x \in Nat
  <2>1. lines.open => Len(Last(lines.rows)) \in Nat
    <3>. SUFFICES ASSUME lines.open PROVE Len(Last(lines.rows)) \in Nat
      OBVIOUS
    <3>1. Len(lines.rows) \in Nat /\ Len(lines.rows) # 0 /\ DOMAIN lines.rows = 1..Len(lines.rows)
      BY <1>3
    <3>2. Last(lines.rows) \in Seq(Cell)
      BY <1>3, <3>1 DEF Last, Lines
    <3>. QED
      BY <3>2
  <2>. QED
    BY <1>1, <2>1
<1>. HIDE DEF x
<1>7. y \in Int /\ y <= Len(rows) /\ Len(rows) <= y + 1
  BY <1>5
<1>. HIDE DEF y
<1>8. gone \in Nat /\ gone <= Len(rows)
  <2>. DEFINE over == y + 1 - h
  <2>1. over \in Int /\ 0 \in Int /\ over <= Len(rows)
    BY <1>1, <1>5, <1>7
  <2>. HIDE DEF over
  <2>2. Max({0, over}) = IF 0 >= over THEN 0 ELSE over
    BY <2>1, TwoNumbers
  <2>3. gone = Max({0, over})
    BY DEF over
  <2>. QED
    BY <1>5, <2>1, <2>2, <2>3
<1>. HIDE DEF gone
<1>9. buffer \in [1..h -> [1..w -> Cell]]
  <2>1. BlankRow(w) \in [1..w -> Cell]
    BY BlankCell DEF BlankRow
  <2>. QED
    BY <1>5, <2>1
<1>10. /\ out \in Seq(Lines)
       /\ \A j \in DOMAIN out : Len(out[j]) <= w
  <2>1. 1 \in Int /\ gone \in Int /\ 1 <= 1
    BY <1>8
  <2>2. out \in Seq(Lines) /\ \A k \in DOMAIN out : (1 + k) - 1 \in 1..gone /\ out[k] = rows[(1 + k) - 1]
    BY <1>5, <1>8, <2>1, SubSeqFacts
  <2>. HIDE DEF out
  <2>3. ASSUME NEW j \in DOMAIN out PROVE Len(out[j]) <= w
    <3>1. (1 + j) - 1 \in DOMAIN rows /\ out[j] = rows[(1 + j) - 1]
      BY <1>5, <1>8, <2>2
    <3>2. out[j] \in [1..w -> Cell]
      BY <1>5, <3>1
    <3>. QED
      BY <1>1, <3>2
  <2>. QED
    BY <2>2, <2>3
<1>. HIDE DEF buffer, out
<1>11. WholeRegion(t, h) \in States(new)
  <2>1. x \in Int /\ y - gone \in Int
    BY <1>6, <1>7, <1>8
  <2>2. t \in Shape(Buffers(new))
    BY <1>6, <1>9, <2>1 DEF States, Shape, Buffers
  <2>. HIDE DEF t
  <2>3. /\ WholeRegion(t, h) \in Shape(Buffers(new))
        /\ WholeRegion(t, h).scrollStart = 0 /\ WholeRegion(t, h).scrollEnd = h
    <3>1. h \in Int
      BY <1>1
    <3>. QED
      BY <2>2, <3>1, WholeRegionShape
  <2>. QED
    BY <1>1, <2>3 DEF States
<1>12. Resized(s, new, stop) = [s |-> t, out |-> out]
  BY DEF Resized, top, lines, wrapped, rows, x, y, gone, buffer, out
<1>. HIDE DEF t
<1>. QED
  BY <1>10, <1>11, <1>12

\* Another region on the same screen.
LEMMA WholeRegionType ==
  ASSUME NEW size \in Numbers \X Numbers, NEW s \in States(size)
  PROVE  WholeRegion(s, size[2]) \in States(size)
<1>1. size[2] \in Int /\ 0 < size[2]
  BY DEF Numbers
<1>2. s \in Shape(Buffers(size))
  BY DEF States
<1>3. /\ WholeRegion(s, size[2]) \in Shape(Buffers(size))
      /\ WholeRegion(s, size[2]).scrollStart = 0 /\ WholeRegion(s, size[2]).scrollEnd = size[2]
  BY <1>1, <1>2, WholeRegionShape
<1>. QED
  BY <1>1, <1>3 DEF States

\* Rows evicted by a resize are added to the history.
LEMMA EvictedType ==
  ASSUME NEW width \in Nat, maxRows \in Nat, NEW h \in Histories(width, maxRows),
         NEW out \in Seq(Lines), \A j \in DOMAIN out : Len(out[j]) <= width
  PROVE  Evicted(h, out) \in Histories(width, maxRows)
BY ExtendedType DEF Evicted

-----------------------------------------------------------------------------
(* The cursor, characters and cells *)

\* Another State of the same size.
LEMMA StateGood ==
  ASSUME NEW size \in Numbers \X Numbers, NEW t, Good(t, size), NEW s \in States(size)
  PROVE  Good([t EXCEPT !.s = s], size)
BY DEF Good, Terminals

\* Its parts are what they have to be.
LEMMA GoodFacts ==
  ASSUME NEW size \in Numbers \X Numbers, NEW t, Good(t, size)
  PROVE  /\ t.s \in States(size) /\ t.s.rows \in Buffers(size)
         /\ t.s.x \in Int /\ t.s.y \in Int /\ t.s.last \in Int \X Int
         /\ t.s.scrollStart \in Int /\ t.s.scrollEnd \in Int /\ t.s.stack \in Seq(Int \X Int)
         /\ Width(t.s) = size[1] /\ Height(t.s) = size[2]
         /\ size[1] \in Nat /\ size[1] # 0 /\ size[2] \in Nat /\ size[2] # 0
         /\ DOMAIN t.s.rows = 1..size[2]
<1>1. t.s \in States(size)
  BY DEF Good, Terminals
<1>2. /\ t.s.rows \in Buffers(size) /\ t.s.x \in Int /\ t.s.y \in Int /\ t.s.last \in Int \X Int
      /\ t.s.scrollStart \in Int /\ t.s.scrollEnd \in Int /\ t.s.stack \in Seq(Int \X Int)
  BY <1>1 DEF States, Shape
<1>. QED
  BY <1>1, <1>2, SizeFacts DEF Numbers

\* A row of the buffer as copyRow() takes it.
LEMMA CopiedRow ==
  ASSUME NEW size \in Numbers \X Numbers, NEW b \in Buffers(size), NEW j \in 1..size[2],
         NEW row \in [1..size[1] -> Cell]
  PROVE  [b EXCEPT ![j] = row] \in Buffers(size)
BY DEF Buffers

\* To the next tab stop.
LEMMA Remainder ==
  ASSUME NEW x \in Nat, NEW w \in Nat, w # 0
  PROVE  x \div w \in Int /\ x - (x \div w) * w \in Nat
OBVIOUS

\* Wherever the cursor is, it is brought back to the screen, or the reader stops.
LEMMA UpdateCursorPositionGood ==
  ASSUME NEW size \in Numbers \X Numbers, NEW t, Good(t, size), Sized, NEW garbage \in BOOLEAN
  PROVE  Good(UpdateCursorPosition(t, garbage), size)
<1>. DEFINE w == Width(t.s)
            wraps == IF t.s.x < 0 THEN 0 ELSE t.s.x \div w
            scrolls == t.s.y < t.s.scrollEnd /\ t.s.scrollEnd <= t.s.y + wraps
            scrolled == IF scrolls THEN DeleteOneLine(t, t.s.scrollStart, t.s.scrollEnd, garbage) ELSE t
            x == t.s.x - wraps * w
            y == Min2(t.s.y + wraps, Height(t.s) - 1)
            u == [scrolled EXCEPT !.s.x = x, !.s.y = y, !.s.last = <<x, y>>]
<1>1. w \in Nat /\ w # 0
  BY GoodFacts
<1>2. wraps \in Int /\ x \in Int
  <2>1. t.s.x \in Int
    BY GoodFacts
  <2>2. CASE t.s.x < 0
    BY <1>1, <2>1, <2>2
  <2>3. CASE ~ (t.s.x < 0)
    <3>1. wraps = t.s.x \div w /\ t.s.x \in Nat
      BY <2>1, <2>3
    <3>2. wraps \in Int /\ t.s.x - wraps * w \in Nat
      BY <1>1, <3>1, Remainder
    <3>. QED
      BY <3>2
  <2>. QED
    BY <2>2, <2>3
<1>3. Good(scrolled, size)
  BY GoodFacts, DeleteOneLineGood
<1>. HIDE DEF wraps, scrolled
<1>4. x \in Int /\ y \in Int
  BY <1>1, <1>2, GoodFacts DEF Min2
<1>. HIDE DEF x, y
<1>. DEFINE s == [scrolled.s EXCEPT !.x = x, !.y = y, !.last = <<x, y>>]
<1>5. s \in States(size)
  <2>1. scrolled.s \in States(size)
    BY <1>3, GoodFacts
  <2>. QED
    <3>. DEFINE last == <<x, y>>
    <3>1. last \in Int \X Int
      BY <1>4
    <3>. HIDE DEF last
    <3>2. [scrolled.s EXCEPT !.x = x, !.y = y, !.last = last] \in States(size)
      BY <1>4, <2>1, <3>1 DEF States, Shape
    <3>. QED
      BY <3>2 DEF last
<1>6. u = [scrolled EXCEPT !.s = s]
  BY <1>3 DEF Good, Terminals
<1>. HIDE DEF s
<1>7. Good(u, size)
  BY <1>3, <1>5, <1>6, StateGood
<1>. QED
  BY <1>7 DEF UpdateCursorPosition, x, y, scrolled, wraps

\* A cell is written where the cursor is, or nothing if the reader stopped.
LEMMA WriteGood ==
  ASSUME NEW size \in Numbers \X Numbers, NEW t, Good(t, size), NEW cell \in Cell
  PROVE  Good(Write(t, cell), size)
<1>. DEFINE i == t.s.x + 1
            j == t.s.y + 1
            row == [t.s.rows[j] EXCEPT ![i] = cell]
            rows == [t.s.rows EXCEPT ![j] = row]
            u == [t EXCEPT !.s.rows = rows]
            v == [t EXCEPT !.s.rows[t.s.y + 1][t.s.x + 1] = cell, !.s.x = @ + 1]
<1>1. ASSUME Inside(t.s, t.s.x, t.s.y) PROVE Good(v, size)
  <2>1. j \in 1..size[2] /\ i \in Nat
    BY <1>1, GoodFacts DEF Inside
  <2>2. row \in [1..size[1] -> Cell]
    BY <2>1, GoodFacts DEF Buffers
  <2>. HIDE DEF row
  <2>3. rows \in Buffers(size)
    BY <2>1, <2>2, GoodFacts, CopiedRow
  <2>. HIDE DEF rows
  <2>4. Good(u, size)
    BY <2>3, RowsGood
  <2>5. v = [u EXCEPT !.s.x = i]
    BY GoodFacts DEF Good, Terminals, States, Shape, rows, row
  <2>6. t.s.y \in Int /\ i \in Int
    BY GoodFacts
  <2>. HIDE DEF u, v, i
  <2>. QED
    BY <2>1, <2>4, <2>5, <2>6, CursorGood
<1>. HIDE DEF v
<1>2. Write(t, cell) = v => Inside(t.s, t.s.x, t.s.y) \/ Write(t, cell) \in {t, Outside(t)}
  BY DEF Write
<1>3. Write(t, cell) \in {t, Outside(t), v}
  BY DEF Write, v
<1>. QED
  BY <1>1, <1>2, <1>3, StatusGood

\* The end of line is put at the cell before the cursor.
LEMMA MarkLineEndGood ==
  ASSUME NEW size \in Numbers \X Numbers, NEW t, Good(t, size)
  PROVE  Good(MarkLineEnd(t), size)
<1>. DEFINE x == t.s.last[1]
            y == t.s.last[2]
            i == x + 1
            j == y + 1
            cell == [t.s.rows[j][i] EXCEPT !.eol = TRUE]
            row == [t.s.rows[j] EXCEPT ![i] = cell]
            rows == [t.s.rows EXCEPT ![j] = row]
            u == [t EXCEPT !.s.rows = rows]
            v == [t EXCEPT !.s.rows[y + 1][x + 1].eol = TRUE]
<1>1. ASSUME Inside(t.s, x, y) PROVE Good(v, size)
  <2>1. j \in 1..size[2] /\ i \in 1..size[1]
    <3>1. x \in Int /\ y \in Int
      BY GoodFacts
    <3>. HIDE DEF x, y
    <3>2. /\ Width(t.s) = size[1] /\ Height(t.s) = size[2] /\ size[1] \in Nat /\ size[2] \in Nat
          /\ x \in 0..(Width(t.s) - 1) /\ y \in 0..(Height(t.s) - 1)
      BY <1>1, GoodFacts DEF Inside
    <3>. QED
      BY <3>1, <3>2
  <2>2. t.s.rows[j] \in [1..size[1] -> Cell]
    BY <2>1, GoodFacts DEF Buffers
  <2>3. cell \in Cell
    BY <2>1, <2>2 DEF Cell
  <2>. HIDE DEF cell
  <2>4. row \in [1..size[1] -> Cell]
    BY <2>2, <2>3
  <2>. HIDE DEF row
  <2>5. rows \in Buffers(size)
    BY <2>1, <2>4, GoodFacts, CopiedRow
  <2>. HIDE DEF rows
  <2>6. Good(u, size)
    BY <2>5, RowsGood
  <2>7. v = u
    BY DEF rows, row, cell
  <2>. QED
    BY <2>6, <2>7
<1>. HIDE DEF v
<1>2. MarkLineEnd(t) = v => Inside(t.s, x, y) \/ MarkLineEnd(t) \in {t, Outside(t)}
  BY DEF MarkLineEnd
<1>3. MarkLineEnd(t) \in {t, Outside(t), v}
  BY DEF MarkLineEnd, v
<1>. QED
  BY <1>1, <1>2, <1>3, StatusGood

\* Cells of the buffer become blank.
LEMMA FillType ==
  ASSUME NEW size \in Numbers \X Numbers, NEW s \in States(size), NEW cells
  PROVE  Fill(s, cells) \in States(size)
<1>. DEFINE rows == [j \in DOMAIN s.rows |-> [i \in DOMAIN s.rows[j] |->
                        IF <<i - 1, j - 1>> \in cells THEN Blank ELSE s.rows[j][i]]]
<1>1. s.rows \in Buffers(size)
  BY DEF States, Shape
<1>2. rows \in Buffers(size)
  BY <1>1, BlankCell DEF Buffers
<1>3. Fill(s, cells) = [s EXCEPT !.rows = rows]
  BY DEF Fill
<1>. HIDE DEF rows
<1>. QED
  BY <1>2, <1>3 DEF States, Shape

-----------------------------------------------------------------------------
(* The inductive invariant, and what the reader does to it *)

\* Both screens have one size, which is the widget's once it has one.
Sound(size) ==
  /\ size \in Numbers \X Numbers
  /\ screens \in [Modes -> States(size)]
  /\ status = "running" /\ rect # <<0, 0>> => size = rect

\* What is counted. Only the characters need their bound: it numbers them.
Counts == [text : 0..MaxText, controls : Nat, escapes : Nat, resizes : Nat]

\* The inductive invariant. It says nothing of where cursors are: escape sequences
\* leave them left of the line and below the screen.
TerminalInv ==
  /\ mode \in Modes
  /\ \E size : Sound(size)
  /\ history \in Histories(rect[1], maxRows)
  /\ rect \in Sizes \cup {<<0, 0>>}
  /\ maxRows \in {0, MaxHistoryRows}
  /\ status \in Statuses
  /\ count \in Counts

\* The invariant says the width and the limit are numbers.
LEMMA InvSized == ASSUME TerminalInv PROVE Sized
<1>1. rect[1] \in Nat
  BY SizesAssumption DEF TerminalInv
<1>. QED
  BY <1>1, SizesAssumption DEF TerminalInv, Sized

\* A step begins with the screen that is shown.
LEMMA NowGood ==
  ASSUME TerminalInv, NEW size, Sound(size)
  PROVE  Good(Now, size) /\ Now.s = screens[mode] /\ size \in Numbers \X Numbers
BY DEF TerminalInv, Sound, Now, Good, Terminals

\* What fits stays fitting when more characters have been received.
LEMMA CellsGrow ==
  ASSUME NEW size, NEW width, NEW max, count.text \in Nat, count'.text \in Nat, count.text <= count'.text
  PROVE  /\ States(size) \subseteq States(size)'
         /\ Histories(width, max) \subseteq Histories(width, max)'
<1>1. Cell \subseteq Cell'
  BY DEF Cell
<1>2. \A n \in Nat : [1..n -> Cell] \subseteq [1..n -> Cell']
  BY <1>1
<1>3. Seq(Cell) \subseteq Seq(Cell')
  BY <1>1
<1>4. Seq(Seq(Cell)) \subseteq Seq(Seq(Cell'))
  BY <1>3
<1>5. Histories(width, max) \subseteq Histories(width, max)'
  BY <1>4 DEF Histories, Lines
<1>6. Buffers(size) \subseteq Buffers(size)'
  BY <1>1 DEF Buffers
<1>7. States(size) \subseteq States(size)'
  BY <1>6 DEF States, Shape
<1>. QED
  BY <1>5, <1>7

\* As long as no more are received, it stays as it is.
LEMMA CellsSame ==
  ASSUME NEW size, NEW width, NEW max, count'.text = count.text
  PROVE  /\ States(size)' = States(size)
         /\ Histories(width, max)' = Histories(width, max)
<1>1. Cell' = Cell
  BY DEF Cell
<1>. QED
  BY <1>1 DEF Histories, Lines, States, Shape, Buffers

\* What every step of the reader does but for the swap of the screens.
LEMMA ReaderStep ==
  ASSUME TerminalInv, NEW size, Sound(size), NEW t,
         t.s \in States(size)', t.h \in Histories(rect[1], maxRows)', t.status \in Statuses,
         mode = "alternate" => t.h = history, Becomes(t), status = "running",
         count' \in Counts, count.text <= count'.text, UNCHANGED <<mode, maxRows, rect>>
  PROVE  /\ TerminalInv'
         /\ mode = "alternate" => UNCHANGED <<screens["normal"], history>>
<1>0. count.text \in Nat /\ count'.text \in Nat
  BY DEF TerminalInv, Counts
<1>1. screens' = [screens EXCEPT ![mode] = t.s] /\ history' = t.h /\ status' = t.status
  BY DEF Becomes
<1>2. States(size) \subseteq States(size)'
  BY <1>0, CellsGrow
<1>3. screens' \in [Modes -> States(size)']
  BY <1>1, <1>2 DEF Sound, TerminalInv
<1>4. Sound(size)'
  BY <1>3 DEF Sound
<1>6. TerminalInv'
  BY <1>1, <1>4 DEF TerminalInv
<1>7. mode = "alternate" => screens'["normal"] = screens["normal"]
  BY <1>1 DEF Sound, Modes
<1>. QED
  BY <1>1, <1>6, <1>7

\* What is counted stays within its bound, and only a character or a resize counts
\* as one.
LEMMA BoundedFacts ==
  ASSUME TerminalInv
  PROVE  /\ count.text \in Nat
         /\ Bounded("text", MaxText) => /\ count' \in Counts /\ status = "running"
                                       /\ count'.text = count.text + 1
         /\ \A what \in {"controls", "escapes", "resizes"} : \A max :
              Bounded(what, max) => /\ count' \in Counts /\ status = "running"
                                    /\ count'.text = count.text
         /\ \A max : Bounded("resizes", max) => count'.resizes # count.resizes
<1>1. count \in Counts /\ count.text \in Nat
  BY SizesAssumption DEF TerminalInv, Counts
<1>2. Bounded("text", MaxText) => count.text + 1 \in 0..MaxText
  BY <1>1, SizesAssumption DEF Bounded, Counts
<1>3. Bounded("text", MaxText) => /\ count' \in Counts /\ status = "running"
                                 /\ count'.text = count.text + 1
  BY <1>1, <1>2 DEF Bounded, Counts
<1>4. ASSUME NEW what \in {"controls", "escapes", "resizes"}, NEW max, Bounded(what, max)
      PROVE  count' \in Counts /\ status = "running" /\ count'.text = count.text
  BY <1>1, <1>4 DEF Bounded, Counts
<1>5. ASSUME NEW max, Bounded("resizes", max) PROVE count'.resizes # count.resizes
  BY <1>1, <1>5 DEF Bounded, Counts
<1>. QED
  BY <1>1, <1>3, <1>4, <1>5

\* A step of the reader keeps the invariant, and the normal screen.
ReaderKeeps == /\ TerminalInv'
               /\ mode = "alternate" => UNCHANGED <<screens["normal"], history>>

\* A cell among others of its kind.
LEMMA CellWritten ==
  ASSUME NEW C, NEW size, NEW b \in [1..size[2] -> [1..size[1] -> C]],
         NEW j \in 1..size[2], NEW i \in 1..size[1], NEW cell \in C
  PROVE  [b EXCEPT ![j] = [b[j] EXCEPT ![i] = cell]] \in [1..size[2] -> [1..size[1] -> C]]
OBVIOUS

\* A character: the cell it is written to is one of those received now.
LEMMA TextGood ==
  ASSUME TerminalInv, NEW size, Sound(size), NEW garbage \in BOOLEAN, ParseCodepoint(garbage)
  PROVE  ReaderKeeps
<1>. DEFINE cell == [c |-> count.text + 1, eol |-> FALSE]
            t == UpdateCursorPosition(Now, garbage)
            u == Write(t, cell)
            i == t.s.x + 1
            j == t.s.y + 1
            rows == [t.s.rows EXCEPT ![j] = [t.s.rows[j] EXCEPT ![i] = cell]]
<1>1. /\ count.text \in Nat /\ count'.text = count.text + 1 /\ count' \in Counts
      /\ status = "running" /\ UNCHANGED <<mode, maxRows, rect>> /\ Becomes(u)
  BY BoundedFacts DEF ParseCodepoint
<1>2. Good(t, size) /\ size \in Numbers \X Numbers
  BY NowGood, InvSized, UpdateCursorPositionGood
<1>3. cell \in Cell'
  BY <1>1 DEF Cell
<1>. HIDE DEF t, cell
<1>4. /\ States(size) \subseteq States(size)'
      /\ t.h \in Histories(rect[1], maxRows)'
  <2>0. rect' = rect /\ maxRows' = maxRows /\ count'.text \in Nat /\ count.text <= count'.text
    BY <1>1
  <2>1. /\ States(size) \subseteq States(size)'
        /\ \A w, m : Histories(w, m) \subseteq Histories(w, m)'
    BY <1>1, <2>0, CellsGrow
  <2>2. Histories(rect[1], maxRows) \subseteq Histories(rect[1], maxRows)'
    BY <2>0, <2>1
  <2>. QED
    BY <1>2, <2>1, <2>2 DEF Good, Terminals
<1>5. t.s \in States(size)' /\ t.status \in Statuses /\ (mode = "alternate" => t.h = history)
  BY <1>2, <1>4 DEF Good, Terminals
<1>6. u.s \in States(size)' /\ u.h = t.h /\ u.status \in Statuses
  <2>1. CASE u \in {t, Outside(t)}
    BY <1>2, <1>5, <2>1 DEF Outside, Good, Terminals, Statuses
  <2>2. CASE u \notin {t, Outside(t)}
    <3>1. Inside(t.s, t.s.x, t.s.y)
      BY <2>2 DEF Write
    <3>2. j \in 1..size[2] /\ i \in 1..size[1]
      BY <1>2, <3>1, GoodFacts DEF Inside
    <3>3. t.s.rows \in [1..size[2] -> [1..size[1] -> Cell']]
      BY <1>5 DEF States, Shape, Buffers
    <3>4. rows \in [1..size[2] -> [1..size[1] -> Cell']]
      BY <1>3, <3>2, <3>3, CellWritten
    <3>5. u.s = [t.s EXCEPT !.rows = rows, !.x = i] /\ u.h = t.h /\ u.status = t.status
      BY <1>2, <2>2 DEF Write, Good, Terminals, States, Shape
    <3>6. t.s.x + 1 \in Int
      BY <1>2, GoodFacts
    <3>. HIDE DEF rows, u, j
    <3>7. [t.s EXCEPT !.rows = rows, !.x = i] \in States(size)'
      BY <1>5, <3>4, <3>6 DEF States, Shape, Buffers
    <3>. QED
      BY <1>5, <3>5, <3>7
  <2>. QED
    BY <2>1, <2>2
<1>. HIDE DEF u
<1>7. count.text <= count'.text
  BY <1>1
<1>. QED
  BY <1>1, <1>4, <1>5, <1>6, <1>7, ReaderStep DEF ReaderKeeps

\* A line feed marks the end of the line and may scroll.
LEMMA LineFeedGood ==
  ASSUME TerminalInv, NEW size, Sound(size), NEW garbage \in [1..2 -> BOOLEAN], ParseLF(garbage)
  PROVE  \E t : Good(t, size) /\ Becomes(t)
<1>. DEFINE marked == MarkLineEnd(Now)
            scrolled == DeleteOneLine(marked, marked.s.scrollStart, marked.s.scrollEnd, garbage[1])
            down == [marked EXCEPT !.s.y = marked.s.y + 1]
            atEnd == marked.s.y + 1 = marked.s.scrollEnd
            moved == IF atEnd THEN scrolled ELSE down
            t == IF Running(moved) THEN UpdateCursorPosition(moved, garbage[2]) ELSE moved
<1>1. Good(marked, size) /\ size \in Numbers \X Numbers /\ Sized
  BY NowGood, MarkLineEndGood, InvSized
<1>2. Becomes(t)
  BY DEF ParseLF
<1>. HIDE DEF marked
<1>3. garbage[1] \in BOOLEAN /\ garbage[2] \in BOOLEAN
  OBVIOUS
<1>4. Good(scrolled, size)
  BY <1>1, <1>3, GoodFacts, DeleteOneLineGood
<1>5. Good(down, size)
  <2>1. marked.s.y + 1 \in Int /\ marked.s.x \in Int
    BY <1>1, GoodFacts
  <2>. QED
    BY <1>1, <2>1, CursorGood
<1>. HIDE DEF scrolled, down, atEnd
<1>6. Good(moved, size)
  BY <1>4, <1>5
<1>. HIDE DEF moved
<1>7. Good(t, size)
  BY <1>1, <1>3, <1>6, UpdateCursorPositionGood
<1>. QED
  BY <1>2, <1>7

\* Carriage return, backspace and tab.
LEMMA ControlsGood ==
  ASSUME TerminalInv, NEW size, Sound(size), NEW garbage \in BOOLEAN,
         ParseCR \/ ParseBackspace \/ ParseTab(garbage)
  PROVE  \E t : Good(t, size) /\ Becomes(t)
<1>0. Good(Now, size) /\ Now.s = screens[mode] /\ size \in Numbers \X Numbers /\ Sized
  BY NowGood, InvSized
<1>1. CASE ParseCR
  <2>1. 0 \in Int /\ Now.s.y \in Int
    BY <1>0, GoodFacts
  <2>2. Good([Now EXCEPT !.s.x = 0], size)
    BY <1>0, <2>1, CursorGood, Zenon
  <2>. QED
    BY <1>1, <2>2 DEF ParseCR
<1>2. CASE ParseBackspace
  <2>. DEFINE s == screens[mode]
              x == IF s.x = 0 THEN Width(s) - 1 ELSE s.x - 1
              y == IF s.x = 0 /\ s.y > 0 THEN s.y - 1 ELSE s.y
  <2>1. x \in Int /\ y \in Int
    BY <1>0, GoodFacts
  <2>2. Becomes([Now EXCEPT !.s.x = x, !.s.y = y])
    BY <1>2 DEF ParseBackspace
  <2>. HIDE DEF x, y
  <2>3. Good([Now EXCEPT !.s.x = x, !.s.y = y], size)
    BY <1>0, <2>1, CursorGood
  <2>. QED
    BY <2>2, <2>3
<1>3. CASE ParseTab(garbage)
  <2>. DEFINE t == UpdateCursorPosition(Now, garbage)
              past == IF t.s.x < 0 THEN -((-t.s.x) % TabWidth) ELSE t.s.x % TabWidth
              x == t.s.x + TabWidth - past
  <2>1. Good(t, size)
    BY <1>0, UpdateCursorPositionGood
  <2>2. Becomes([t EXCEPT !.s.x = x])
    BY <1>3 DEF ParseTab
  <2>. HIDE DEF t
  <2>3. x \in Int
    BY <1>0, <2>1, GoodFacts, SizesAssumption
  <2>4. t.s.y \in Int
    BY <1>0, <2>1, GoodFacts
  <2>. HIDE DEF x
  <2>5. Good([t EXCEPT !.s.x = x], size)
    BY <1>0, <2>1, <2>3, <2>4, CursorGood
  <2>. QED
    BY <2>2, <2>5
<1>. QED
  BY <1>1, <1>2, <1>3

\* What a step may make of the terminal.
Steps(size) == \E t : Good(t, size) /\ Becomes(t)

\* The cursor moves, to wherever it is told.
LEMMA MovesGood ==
  ASSUME TerminalInv, NEW size, Sound(size), NEW n \in Nat, MoveCursor(n) \/ LinePosition(n)
  PROVE  Steps(size)
<1>0. Good(Now, size) /\ Now.s = screens[mode] /\ size \in Numbers \X Numbers
  BY NowGood
<1>1. Now.s.x \in Int /\ Now.s.y \in Int /\ Height(Now.s) \in Int
  BY <1>0, GoodFacts
<1>2. ASSUME NEW x \in Int, Becomes([Now EXCEPT !.s.x = x]) PROVE Steps(size)
  BY <1>0, <1>1, <1>2, CursorGood DEF Steps
<1>3. ASSUME NEW y \in Int, Becomes([Now EXCEPT !.s.y = y]) PROVE Steps(size)
  BY <1>0, <1>1, <1>3, CursorGood DEF Steps
<1>4. ASSUME NEW x \in Int, NEW y \in Int, Becomes([Now EXCEPT !.s.x = x, !.s.y = y]) PROVE Steps(size)
  BY <1>0, <1>4, CursorGood DEF Steps
<1>5. ASSUME NEW i \in Int PROVE Max({0, i - n}) \in Int
  <2>1. 0 \in Int /\ i - n \in Int
    OBVIOUS
  <2>. QED
    BY <2>1, TwoNumbers
<1>8. Max({n, 1}) \in Int
  <2>1. n \in Int /\ 1 \in Int
    OBVIOUS
  <2>. QED
    BY <2>1, TwoNumbers
<1>6. CASE MoveCursor(n)
  <2>1. CASE Becomes([Now EXCEPT !.s.y = Max({0, Now.s.y - n})])
    BY <1>1, <1>3, <1>5, <2>1
  <2>2. CASE Becomes([Now EXCEPT !.s.y = Now.s.y + n])
    BY <1>1, <1>3, <2>2
  <2>3. CASE Becomes([Now EXCEPT !.s.x = Now.s.x + n])
    BY <1>1, <1>2, <2>3
  <2>4. CASE Becomes([Now EXCEPT !.s.x = Max({0, Now.s.x - n})])
    BY <1>1, <1>2, <1>5, <2>4
  <2>5. CASE Becomes([Now EXCEPT !.s.x = n - 1])
    BY <1>1, <1>2, <2>5
  <2>6. CASE \E m \in {1, 3} : Becomes([Now EXCEPT !.s.x = m - 1, !.s.y = Max({n, 1}) - 1])
    <3>1. PICK m \in {1, 3} : Becomes([Now EXCEPT !.s.x = m - 1, !.s.y = Max({n, 1}) - 1])
      BY <2>6
    <3>2. m - 1 \in Int /\ Max({n, 1}) - 1 \in Int
      BY <1>8
    <3>. QED
      BY <1>4, <3>1, <3>2
  <2>. QED
    BY <1>6, <2>1, <2>2, <2>3, <2>4, <2>5, <2>6 DEF MoveCursor
<1>7. CASE LinePosition(n)
  <2>1. Min2(Max({n, 1}), Height(screens[mode])) - 1 \in Int
    BY <1>0, <1>1, <1>8 DEF Min2
  <2>. QED
    BY <1>3, <1>7, <2>1 DEF LinePosition
<1>. QED
  BY <1>6, <1>7

\* Cells are erased.
LEMMA EraseGood ==
  ASSUME TerminalInv, NEW size, Sound(size), NEW garbage \in BOOLEAN, NEW what, NEW arg, NEW n,
         Erase(what, arg, garbage) \/ EraseCharacters(n, garbage)
  PROVE  Steps(size)
<1>0. Good(Now, size) /\ size \in Numbers \X Numbers /\ Sized
  BY NowGood, InvSized
<1>1. ASSUME NEW t, Good(t, size), NEW cells PROVE Good([t EXCEPT !.s = Fill(t.s, cells)], size)
  <2>1. Fill(t.s, cells) \in States(size)
    BY <1>0, <1>1, GoodFacts, FillType
  <2>. QED
    BY <1>0, <1>1, <2>1, StateGood
<1>2. Good(UpdateCursorPosition(Now, garbage), size)
  BY <1>0, UpdateCursorPositionGood
<1>3. CASE Erase(what, arg, garbage)
  <2>. DEFINE t == IF arg = 2 /\ what = "ED" THEN Now ELSE UpdateCursorPosition(Now, garbage)
              s == t.s
              cells == {p \in Cells(s) :
                  /\ what = "EL" => p[2] = s.y
                  /\ arg = 0 => FromCursor(s, p)
                  /\ arg = 1 => UpToCursor(s, p)}
  <2>1. Good(t, size)
    BY <1>0, <1>2
  <2>2. Becomes([t EXCEPT !.s = Fill(t.s, cells)])
    BY <1>3 DEF Erase
  <2>. HIDE DEF t, cells
  <2>. QED
    BY <1>1, <2>1, <2>2 DEF Steps
<1>4. CASE EraseCharacters(n, garbage)
  <2>. DEFINE t == UpdateCursorPosition(Now, garbage)
              s == t.s
              from == Place(s, s.x, s.y)
              cells == {p \in Cells(s) : FromCursor(s, p) /\
                                          Place(s, p[1], p[2]) \in from..(from + n - 1)}
  <2>1. Becomes([t EXCEPT !.s = Fill(t.s, cells)])
    BY <1>4 DEF EraseCharacters
  <2>. HIDE DEF cells
  <2>. QED
    BY <1>1, <1>2, <2>1 DEF Steps
<1>. QED
  BY <1>3, <1>4

\* A line with other cells.
LEMMA LineGood ==
  ASSUME NEW size \in Numbers \X Numbers, NEW t, Good(t, size), NEW y \in Int, Inside(t.s, 0, y),
         NEW row \in [1..size[1] -> Cell]
  PROVE  Good([t EXCEPT !.s.rows[y + 1] = row], size)
<1>. DEFINE rows == [t.s.rows EXCEPT ![y + 1] = row]
<1>1. y + 1 \in 1..size[2]
  BY GoodFacts DEF Inside
<1>2. rows \in Buffers(size)
  BY <1>1, GoodFacts, CopiedRow
<1>3. [t EXCEPT !.s.rows[y + 1] = row] = [t EXCEPT !.s.rows = rows]
  OBVIOUS
<1>. HIDE DEF rows
<1>. QED
  BY <1>2, <1>3, RowsGood

\* The line of a cursor that is on the screen.
LEMMA LineFacts ==
  ASSUME NEW size \in Numbers \X Numbers, NEW t, Good(t, size), NEW x \in Int, NEW y \in Int, Inside(t.s, x, y)
  PROVE  t.s.rows[y + 1] \in [1..size[1] -> Cell] /\ y + 1 \in 1..size[2] /\ x + 1 \in 1..size[1]
<1>1. y + 1 \in 1..size[2] /\ x + 1 \in 1..size[1]
  BY GoodFacts DEF Inside
<1>. QED
  BY <1>1, GoodFacts DEF Buffers

\* A cell without its end of line.
LEMMA PlainCell == ASSUME NEW cell \in Cell PROVE Plain(cell) \in Cell
BY DEF Plain, Cell

\* Characters of the line are deleted, inserted and repeated.
LEMMA CharactersGood ==
  ASSUME TerminalInv, NEW size, Sound(size), NEW n \in Nat,
         DeleteCharacters(n) \/ InsertCharacters(n) \/ RepeatCharacter(n)
  PROVE  Steps(size)
<1>. DEFINE s == screens[mode]
            w == Width(s)
<1>0. Good(Now, size) /\ Now.s = s /\ size \in Numbers \X Numbers
  BY NowGood
<1>1. s.x \in Int /\ s.y \in Int /\ w = size[1] /\ size[1] \in Nat /\ size[1] # 0
  BY <1>0, GoodFacts
<1>2. Good(Outside(Now), size)
  BY <1>0, StatusGood
<1>. DEFINE line == s.rows[s.y + 1]
<1>3. ASSUME Inside(s, 0, s.y) PROVE line \in [1..size[1] -> Cell]
  <2>1. 0 \in Int
    OBVIOUS
  <2>. QED
    BY <1>0, <1>1, <1>3, <2>1, LineFacts
<1>4. CASE DeleteCharacters(n)
  <2>. DEFINE row == [i \in 1..w |-> IF i > w - n THEN Blank
                                     ELSE IF 0 <= s.x /\ s.x < i THEN Plain(line[i + n])
                                     ELSE line[i]]
              nothing == \/ n = 0 /\ s.x \notin 0..(w - 1)
                         \/ n > w /\ s.x \in (w - n)..(-1)
  <2>1. Becomes(IF nothing THEN Now
                ELSE IF n > w \/ ~ Inside(s, 0, s.y) THEN Outside(Now)
                ELSE [Now EXCEPT !.s.rows[s.y + 1] = row])
    BY <1>0, <1>4 DEF DeleteCharacters
  <2>2. ASSUME Inside(s, 0, s.y) PROVE row \in [1..size[1] -> Cell]
    <3>1. \A i \in 1..w : (i > w - n => Blank \in Cell) /\ (~ (i > w - n) => i + n \in 1..size[1])
      BY <1>1, BlankCell
    <3>. QED
      BY <1>1, <1>3, <2>2, <3>1, PlainCell
  <2>. HIDE DEF row, nothing
  <2>3. ASSUME Inside(s, 0, s.y) PROVE Good([Now EXCEPT !.s.rows[s.y + 1] = row], size)
    BY <1>0, <1>1, <2>2, <2>3, LineGood
  <2>. QED
    BY <1>0, <1>2, <2>1, <2>3 DEF Steps
<1>5. CASE InsertCharacters(n)
  <2>. DEFINE row == [i \in 1..w |-> IF i > s.x + n THEN Plain(line[i - n])
                                     ELSE IF i > s.x THEN Blank
                                     ELSE line[i]]
              nothing == s.x + n >= w /\ (s.x < 0 \/ n = 0)
              outside == s.x < 0 \/ s.x + n \notin 1..w \/ ~ Inside(s, 0, s.y)
  <2>1. Becomes(IF nothing THEN Now ELSE IF outside THEN Outside(Now)
                ELSE [Now EXCEPT !.s.rows[s.y + 1] = row])
    BY <1>0, <1>5 DEF InsertCharacters
  <2>2. ASSUME Inside(s, 0, s.y), 0 <= s.x PROVE row \in [1..size[1] -> Cell]
    <3>1. \A i \in 1..w : i > s.x + n => i - n \in 1..size[1]
      BY <1>1, <2>2
    <3>. QED
      BY <1>1, <1>3, <2>2, <3>1, PlainCell, BlankCell
  <2>. HIDE DEF row, nothing
  <2>3. ASSUME ~ outside PROVE Good([Now EXCEPT !.s.rows[s.y + 1] = row], size)
    <3>1. Inside(s, 0, s.y) /\ 0 <= s.x
      BY <1>1, <2>3
    <3>. QED
      BY <1>0, <1>1, <2>2, <3>1, LineGood
  <2>. HIDE DEF outside
  <2>. QED
    BY <1>0, <1>2, <2>1, <2>3 DEF Steps
<1>6. CASE RepeatCharacter(n)
  <2>. DEFINE row == [i \in DOMAIN line |-> IF i \in s.x..(s.x + n) THEN Plain(line[s.x]) ELSE line[i]]
              t == [Now EXCEPT !.s.x = s.x + n, !.s.rows[s.y + 1] = row]
              u == [Now EXCEPT !.s.rows[s.y + 1] = row]
  <2>1. Becomes(IF s.x = 0 \/ s.x + n >= Width(s) THEN Now
                ELSE IF ~ Inside(s, s.x - 1, s.y) THEN Outside(Now) ELSE t)
    BY <1>0, <1>6 DEF RepeatCharacter
  <2>2. ASSUME s.x # 0, Inside(s, s.x - 1, s.y) PROVE Good(t, size)
    <3>1. Inside(s, 0, s.y) /\ s.x \in 1..size[1]
      BY <1>0, <1>1, <2>2, GoodFacts DEF Inside
    <3>2. row \in [1..size[1] -> Cell]
      BY <1>3, <3>1, PlainCell
    <3>. HIDE DEF row
    <3>3. Good(u, size)
      BY <1>0, <1>1, <3>1, <3>2, LineGood
    <3>4. t = [u EXCEPT !.s.x = s.x + n]
      BY <1>0 DEF Good, Terminals, States, Shape
    <3>5. s.x + n \in Int
      BY <1>1
    <3>. HIDE DEF t, u
    <3>. QED
      BY <1>0, <1>1, <3>3, <3>4, <3>5, CursorGood
  <2>. HIDE DEF t
  <2>. QED
    BY <1>0, <1>2, <2>1, <2>2 DEF Steps
<1>. QED
  BY <1>4, <1>5, <1>6

\* Lines are scrolled in the region.
LEMMA ScrollsGood ==
  ASSUME TerminalInv, NEW size, Sound(size), NEW n \in Nat, NEW garbage \in [1..n -> BOOLEAN],
         ScrollLines(n, garbage) \/ ReverseIndex
  PROVE  Steps(size)
<1>. DEFINE s == screens[mode]
<1>0. Good(Now, size) /\ Now.s = s /\ size \in Numbers \X Numbers /\ Sized
  BY NowGood, InvSized
<1>1. s.x \in Int /\ s.y \in Int /\ s.scrollStart \in Int /\ s.scrollEnd \in Int
  BY <1>0, GoodFacts
<1>. HIDE DEF s
<1>2. ASSUME NEW lines \in Nat, NEW top \in Int
      PROVE  Good(InsertLines(Now, lines, top, s.scrollEnd), size)
  BY <1>0, <1>1, InsertLinesGood
<1>3. ASSUME NEW top \in Int PROVE Good(DeleteLines(Now, n, top, s.scrollEnd, garbage), size)
  BY <1>0, <1>1, DeleteLinesGood
<1>4. CASE ScrollLines(n, garbage)
  <2>1. \/ Becomes(InsertLines(Now, n, s.y, s.scrollEnd))
        \/ Becomes(DeleteLines(Now, n, s.y, s.scrollEnd, garbage))
        \/ Becomes(DeleteLines(Now, n, s.scrollStart, s.scrollEnd, garbage))
    BY <1>4 DEF ScrollLines, s
  <2>. QED
    BY <1>1, <1>2, <1>3, <2>1 DEF Steps
<1>5. CASE ReverseIndex
  <2>1. \/ Becomes(InsertLines(Now, 1, s.scrollStart, s.scrollEnd))
        \/ Becomes([Now EXCEPT !.s.y = s.y - 1])
    BY <1>0, <1>5 DEF ReverseIndex, s
  <2>2. s.y - 1 \in Int /\ 1 \in Nat
    BY <1>1
  <2>3. Good([Now EXCEPT !.s.y = s.y - 1], size)
    BY <1>0, <1>1, <2>2, CursorGood
  <2>4. Good(InsertLines(Now, 1, s.scrollStart, s.scrollEnd), size)
    BY <1>1, <1>2, <2>2
  <2>. QED
    BY <2>1, <2>3, <2>4 DEF Steps
<1>. QED
  BY <1>4, <1>5

\* Another region, of lines of the screen.
LEMMA RegionGood ==
  ASSUME TerminalInv, NEW size, Sound(size), NEW top \in Nat \ {0}, NEW bottom \in Nat \ {0},
         SetScrollRegion(top, bottom)
  PROVE  Steps(size)
<1>0. Good(Now, size) /\ Now.s = screens[mode] /\ size \in Numbers \X Numbers
  BY NowGood
<1>. DEFINE s == [Now.s EXCEPT !.scrollStart = top - 1, !.scrollEnd = bottom, !.x = 0, !.y = 0]
            t == [Now EXCEPT !.s.scrollStart = top - 1, !.s.scrollEnd = bottom, !.s.x = 0, !.s.y = 0]
<1>1. Becomes(IF top > Height(Now.s) \/ bottom > Height(Now.s) THEN Now ELSE t)
  BY <1>0 DEF SetScrollRegion
<1>2. Now.s \in Shape(Buffers(size)) /\ Height(Now.s) = size[2] /\ size[2] \in Nat
  BY <1>0, GoodFacts DEF States
<1>3. s \in Shape(Buffers(size)) /\ s.scrollStart = top - 1 /\ s.scrollEnd = bottom
  <2>1. 0 \in Nat /\ 0 \in Int /\ top - 1 \in Int /\ bottom \in Int
    OBVIOUS
  <2>. QED
    BY <1>2, <2>1, Zenon DEF Shape
<1>4. t = [Now EXCEPT !.s = s]
  BY DEF Now
<1>. HIDE DEF s, t
<1>5. ASSUME ~ (top > Height(Now.s) \/ bottom > Height(Now.s)) PROVE Good(t, size)
  <2>1. s \in States(size)
    BY <1>2, <1>3, <1>5 DEF States
  <2>. QED
    BY <1>0, <1>4, <2>1, StateGood
<1>. QED
  BY <1>0, <1>1, <1>5 DEF Steps

\* The cursor is saved and restored.
LEMMA StackGood ==
  ASSUME TerminalInv, NEW size, Sound(size), SaveCursor \/ RestoreCursor
  PROVE  Steps(size)
<1>. DEFINE s == screens[mode]
<1>0. Good(Now, size) /\ Now.s = s /\ size \in Numbers \X Numbers
  BY NowGood
<1>1. /\ s \in States(size) /\ s.x \in Int /\ s.y \in Int /\ s.stack \in Seq(Int \X Int)
      /\ Width(s) = size[1] /\ Height(s) = size[2] /\ size[1] \in Numbers /\ size[2] \in Numbers
  BY <1>0, GoodFacts DEF Numbers
<1>. HIDE DEF s
<1>2. CASE SaveCursor
  <2>. DEFINE stack == Append(s.stack, <<s.x, s.y>>)
              u == [s EXCEPT !.stack = stack]
              t == [Now EXCEPT !.s.stack = stack]
  <2>1. Becomes(t)
    BY <1>0, <1>2 DEF SaveCursor, s
  <2>2. stack \in Seq(Int \X Int)
    BY <1>1
  <2>. HIDE DEF stack
  <2>3. u \in States(size)
    BY <1>1, <2>2 DEF States, Shape
  <2>4. t = [Now EXCEPT !.s = u]
    BY <1>0
  <2>. HIDE DEF u, t
  <2>. QED
    BY <1>0, <2>1, <2>3, <2>4, StateGood DEF Steps
<1>3. CASE RestoreCursor
  <2>. DEFINE saved == Last(s.stack)
              x == IF saved[2] >= Height(s) THEN Height(s) - 1 ELSE Min2(saved[1], Width(s) - 1)
              y == saved[2]
              stack == Front(s.stack)
              u == [s EXCEPT !.stack = stack, !.x = x, !.y = y]
              t == [Now EXCEPT !.s.stack = stack, !.s.x = x, !.s.y = y]
  <2>1. Becomes(IF s.stack = << >> THEN Now ELSE t)
    BY <1>0, <1>3 DEF RestoreCursor, s
  <2>2. ASSUME s.stack # << >> PROVE Good(t, size)
    <3>1. Len(s.stack) \in Nat /\ Len(s.stack) # 0 /\ DOMAIN s.stack = 1..Len(s.stack)
      BY <1>1, <2>2
    <3>2. saved \in Int \X Int
      BY <1>1, <3>1 DEF Last
    <3>3. stack \in Seq(Int \X Int)
      <4>1. SubSeq(s.stack, 1, Len(s.stack) - 1) \in Seq(Int \X Int)
        BY <1>1, <3>1, SubSeqFacts
      <4>. QED
        BY <4>1 DEF Front
    <3>. HIDE DEF saved, stack
    <3>4. saved[1] \in Int /\ saved[2] \in Int
      BY <3>2
    <3>5. x \in Int /\ y \in Int
      BY <1>1, <3>4 DEF Min2, Numbers
    <3>. HIDE DEF x, y
    <3>6. u \in States(size)
      BY <1>1, <3>3, <3>5 DEF States, Shape
    <3>7. t = [Now EXCEPT !.s = u]
      BY <1>0, <1>1 DEF States, Shape
    <3>. HIDE DEF u, t
    <3>. QED
      BY <1>0, <3>6, <3>7, StateGood
  <2>. HIDE DEF t
  <2>. QED
    BY <1>0, <2>1, <2>2 DEF Steps
<1>. QED
  BY <1>2, <1>3

\* A blank buffer.
LEMMA BlankRowsType ==
  ASSUME NEW size \in Numbers \X Numbers
  PROVE  BlankRows(size) \in Buffers(size)
BY BlankCell DEF BlankRows, BlankRow, Buffers

\* The swap of the screens clears at most the alternate one.
LEMMA AlternateStep ==
  ASSUME TerminalInv, NEW value \in Modes, SetAlternateMode(value)
  PROVE  /\ TerminalInv'
         /\ UNCHANGED <<screens["normal"], history>>
<1>1. PICK size : Sound(size)
  BY DEF TerminalInv
<1>. DEFINE s == screens["alternate"]
            cleared == [rows |-> BlankRows(<<Width(s), Height(s)>>), x |-> 0, y |-> 0,
                        scrollStart |-> 0, scrollEnd |-> Height(s),
                        last |-> <<1, 1>>, stack |-> s.stack]
<1>2. size \in Numbers \X Numbers /\ s \in States(size)
  BY <1>1 DEF Sound, Modes
<1>3. Width(s) = size[1] /\ Height(s) = size[2] /\ size[2] \in Nat /\ size[2] # 0
  BY <1>2, SizeFacts DEF Numbers
<1>4. s.stack \in Seq(Int \X Int)
  BY <1>2 DEF States, Shape
<1>5. screens' \in {screens, [screens EXCEPT !["alternate"] = cleared]}
  BY DEF SetAlternateMode
<1>. HIDE DEF s
<1>6. cleared \in States(size)
  <2>1. size = <<size[1], size[2]>>
    BY <1>2
  <2>2. BlankRows(<<Width(s), Height(s)>>) \in Buffers(size)
    BY <1>2, <1>3, <2>1, BlankRowsType
  <2>3. 0 \in Nat /\ 0 \in Int /\ Height(s) \in Int /\ <<1, 1>> \in Int \X Int
    BY <1>3
  <2>4. cleared \in Shape(Buffers(size))
    BY <1>4, <2>2, <2>3 DEF Shape
  <2>5. cleared.scrollStart = 0 /\ cleared.scrollEnd = Height(s)
    OBVIOUS
  <2>. HIDE DEF cleared
  <2>. QED
    BY <1>3, <2>4, <2>5 DEF States
<1>. HIDE DEF cleared
<1>7. screens \in [Modes -> States(size)]
  BY <1>1 DEF Sound
<1>8. screens' \in [Modes -> States(size)] /\ screens'["normal"] = screens["normal"]
  BY <1>5, <1>6, <1>7 DEF Modes
<1>9. UNCHANGED <<maxRows, rect, history, status>> /\ mode' = value
  BY DEF SetAlternateMode, Escape
<1>10. count' \in Counts /\ count'.text = count.text
  BY BoundedFacts DEF SetAlternateMode, Escape
<1>11. States(size)' = States(size) /\ \A w, m : Histories(w, m)' = Histories(w, m)
  BY <1>10, CellsSame
<1>12. Sound(size)'
  BY <1>1, <1>8, <1>9, <1>11 DEF Sound
<1>13. (history \in Histories(rect[1], maxRows))'
  <2>1. history \in Histories(rect[1], maxRows)
    BY DEF TerminalInv
  <2>. QED
    BY <1>9, <1>11, <2>1
<1>. QED
  BY <1>8, <1>9, <1>10, <1>12, <1>13 DEF TerminalInv

\* Every action of the reader.
LEMMA ReaderInv ==
  ASSUME TerminalInv, Reader
  PROVE  ReaderKeeps
<1>1. PICK size : Sound(size)
  BY DEF TerminalInv
<1>2. Garbage \subseteq BOOLEAN
  BY DEF Garbage
<1>3. ASSUME Steps(size), status = "running", count' \in Counts, count'.text = count.text,
             UNCHANGED <<mode, maxRows, rect>>
      PROVE  ReaderKeeps
  <2>1. PICK t : Good(t, size) /\ Becomes(t)
    BY <1>3 DEF Steps
  <2>2. /\ count.text \in Nat /\ count'.text \in Nat /\ count.text <= count'.text
        /\ rect' = rect /\ maxRows' = maxRows
    BY <1>3, BoundedFacts
  <2>5. /\ States(size) \subseteq States(size)'
        /\ \A w, m : Histories(w, m) \subseteq Histories(w, m)'
    BY <2>2, CellsGrow
  <2>3. Histories(rect[1], maxRows) \subseteq Histories(rect[1], maxRows)'
    BY <2>2, <2>5
  <2>4. /\ t.s \in States(size)' /\ t.h \in Histories(rect[1], maxRows)' /\ t.status \in Statuses
        /\ (mode = "alternate" => t.h = history)
    BY <2>1, <2>3, <2>5 DEF Good, Terminals
  <2>. QED
    BY <1>1, <1>3, <2>1, <2>2, <2>4, ReaderStep DEF ReaderKeeps
<1>4. ASSUME NEW g \in BOOLEAN, ParseCodepoint(g) PROVE ReaderKeeps
  BY <1>1, <1>4, TextGood
<1>5. ASSUME NEW g \in BOOLEAN, ParseCR \/ ParseBackspace \/ ParseTab(g) PROVE ReaderKeeps
  <2>1. Steps(size)
    BY <1>1, <1>5, ControlsGood DEF Steps
  <2>2. Control
    BY <1>5 DEF ParseCR, ParseBackspace, ParseTab
  <2>. QED
    BY <1>3, <2>1, <2>2, BoundedFacts DEF Control
<1>6. ASSUME NEW g \in [1..2 -> BOOLEAN], ParseLF(g) PROVE ReaderKeeps
  <2>1. Steps(size)
    BY <1>1, <1>6, LineFeedGood DEF Steps
  <2>2. Control
    BY <1>6 DEF ParseLF
  <2>. QED
    BY <1>3, <2>1, <2>2, BoundedFacts DEF Control
<1>7. ASSUME NEW name, Escape(name), UNCHANGED mode, Steps(size) PROVE ReaderKeeps
  BY <1>3, <1>7, BoundedFacts DEF Escape
<1>8. ASSUME NEW g \in BOOLEAN, NEW what, NEW arg, NEW n, Erase(what, arg, g) \/ EraseCharacters(n, g)
      PROVE  ReaderKeeps
  <2>1. Steps(size)
    BY <1>1, <1>8, EraseGood
  <2>. QED
    BY <1>7, <1>8, <2>1 DEF Erase, EraseCharacters
<1>9. ASSUME NEW n \in Nat, NEW g \in [1..n -> BOOLEAN], ScrollLines(n, g) \/ ReverseIndex PROVE ReaderKeeps
  <2>1. Steps(size)
    BY <1>1, <1>9, ScrollsGood
  <2>. QED
    BY <1>7, <1>9, <2>1 DEF ScrollLines, ReverseIndex
<1>10. ASSUME NEW n \in Nat, MoveCursor(n) \/ LinePosition(n) PROVE ReaderKeeps
  <2>1. Steps(size)
    BY <1>1, <1>10, MovesGood
  <2>. QED
    BY <1>7, <1>10, <2>1 DEF MoveCursor, LinePosition
<1>11. ASSUME NEW n \in Nat, DeleteCharacters(n) \/ InsertCharacters(n) \/ RepeatCharacter(n) PROVE ReaderKeeps
  <2>1. Steps(size)
    BY <1>1, <1>11, CharactersGood
  <2>. QED
    BY <1>7, <1>11, <2>1 DEF DeleteCharacters, InsertCharacters, RepeatCharacter
<1>12. ASSUME NEW top \in Nat \ {0}, NEW bottom \in Nat \ {0}, SetScrollRegion(top, bottom) PROVE ReaderKeeps
  <2>1. Steps(size)
    BY <1>1, <1>12, RegionGood
  <2>. QED
    BY <1>7, <1>12, <2>1 DEF SetScrollRegion
<1>13. ASSUME SaveCursor \/ RestoreCursor PROVE ReaderKeeps
  <2>1. Steps(size)
    BY <1>1, <1>13, StackGood
  <2>. QED
    BY <1>7, <1>13, <2>1 DEF SaveCursor, RestoreCursor
<1>14. ASSUME NEW value \in Modes, SetAlternateMode(value) PROVE ReaderKeeps
  BY <1>14, AlternateStep DEF ReaderKeeps
<1>15. CASE \E g \in Garbage : \/ ParseCodepoint(g) \/ ParseTab(g)
                               \/ \E arg \in 0..2 : Erase("ED", arg, g) \/ Erase("EL", arg, g)
                               \/ EraseCharacters(3, g) \/ ScrollLines(1, <<g>>)
  <2>1. PICK g \in Garbage : \/ ParseCodepoint(g) \/ ParseTab(g)
                             \/ \E arg \in 0..2 : Erase("ED", arg, g) \/ Erase("EL", arg, g)
                             \/ EraseCharacters(3, g) \/ ScrollLines(1, <<g>>)
    BY <1>15
  <2>2. g \in BOOLEAN /\ <<g>> \in [1..1 -> BOOLEAN] /\ 1 \in Nat
    BY <1>2
  <2>3. CASE ScrollLines(1, <<g>>)
    BY <1>9, <2>2, <2>3
  <2>. QED
    BY <1>4, <1>5, <1>8, <2>1, <2>2, <2>3
<1>16. CASE \E g \in [1..2 -> Garbage] : ParseLF(g) \/ ScrollLines(2, g)
  <2>1. PICK g \in [1..2 -> Garbage] : ParseLF(g) \/ ScrollLines(2, g)
    BY <1>16
  <2>2. g \in [1..2 -> BOOLEAN] /\ 2 \in Nat
    BY <1>2
  <2>. QED
    BY <1>6, <1>9, <2>1, <2>2
<1>17. CASE \/ \E n \in 0..2 : MoveCursor(n)
            \/ \E n \in {1, 2} : LinePosition(n) \/ DeleteCharacters(n) \/ InsertCharacters(n)
  BY <1>10, <1>11, <1>17
<1>18. CASE \E top, bottom \in 1..(InitialSize[2] + 1) : SetScrollRegion(top, bottom)
  <2>1. PICK top \in 1..(InitialSize[2] + 1) : \E bottom \in 1..(InitialSize[2] + 1) : SetScrollRegion(top, bottom)
    BY <1>18
  <2>2. PICK bottom \in 1..(InitialSize[2] + 1) : SetScrollRegion(top, bottom)
    BY <2>1
  <2>3. InitialSize[2] \in Nat
    BY SizesAssumption
  <2>4. top \in Nat \ {0} /\ bottom \in Nat \ {0}
    BY <2>1, <2>2, <2>3
  <2>. QED
    BY <1>12, <2>2, <2>4
<1>19. CASE RepeatCharacter(1)
  BY <1>11, <1>19
<1>20. CASE ReverseIndex
  <2>1. << >> \in [1..0 -> BOOLEAN] /\ 0 \in Nat
    OBVIOUS
  <2>. QED
    BY <1>9, <1>20, <2>1
<1>21. CASE ParseCR \/ ParseBackspace
  BY <1>5, <1>21
<1>22. CASE \E value \in {"normal", "alternate"} : SetAlternateMode(value)
  BY <1>14, <1>22 DEF Modes
<1>. QED
  BY <1>13, <1>15, <1>16, <1>17, <1>18, <1>19, <1>20, <1>21, <1>22 DEF Reader

\* A resize of the widget: a screen that has the size already only gets its region
\* back, another is copied, unless the cursor is below it.
LEMMA ResizeInv ==
  ASSUME TerminalInv, NEW size \in Sizes, Resize(size)
  PROVE  TerminalInv'
<1>1. PICK old : Sound(old)
  BY DEF TerminalInv
<1>2. /\ size \in Numbers \X Numbers /\ size[1] \in Numbers /\ size[2] \in Numbers /\ size[1] \in Nat
      /\ old \in Numbers \X Numbers /\ old[1] \in Nat /\ old[2] \in Nat
  BY <1>1, SizesAssumption DEF Sound, Numbers
<1>3. /\ rect' = size /\ maxRows' = maxRows /\ mode' = mode /\ status = "running"
      /\ count' \in Counts /\ count'.text = count.text
  BY BoundedFacts DEF Resize
<1>14. \A z : States(z)' = States(z) /\ \A w, m : Histories(w, m)' = Histories(w, m)
  BY <1>3, CellsSame
<1>4. maxRows \in Nat
  BY InvSized DEF Sized
<1>. DEFINE h(garbage) == ResizeHistory(history, size[1], maxRows, garbage)
<1>5. ASSUME NEW garbage \in BOOLEAN PROVE h(garbage) \in Histories(size[1], maxRows)
  <2>1. history \in Seq(Lines)
    BY DEF TerminalInv, Histories
  <2>. QED
    BY <1>2, <1>4, <2>1, ResizeHistoryType
<1>6. PICK garbage \in BOOLEAN :
        LET hg == h(garbage) IN
         IF <<Width(screens["normal"]), Height(screens["normal"])>> = size
         THEN /\ history' = hg
              /\ screens' = [m \in DOMAIN screens |-> WholeRegion(screens[m], size[2])]
              /\ UNCHANGED status
         ELSE IF \E m \in DOMAIN screens : screens[m].y > Height(screens[m])
         THEN status' = "outside" /\ history' = hg /\ UNCHANGED screens
         ELSE \E stop \in [normal : Stops("normal"), alternate : Stops("alternate")] :
                /\ LET new == [m \in DOMAIN screens |-> Resized(screens[m], size, stop[m])]
                   IN /\ screens' = [m \in DOMAIN screens |-> WholeRegion(new[m].s, size[2])]
                      /\ history' = Evicted(hg, new["normal"].out)
                /\ UNCHANGED status
  BY DEF Resize
<1>. DEFINE hg == h(garbage)
<1>7. hg \in Histories(size[1], maxRows)
  BY <1>5
<1>. HIDE DEF h, hg
<1>8. /\ screens \in [Modes -> States(old)] /\ DOMAIN screens = Modes
      /\ \A m \in Modes : screens[m] \in States(old) /\ Width(screens[m]) = old[1] /\ Height(screens[m]) = old[2]
  BY <1>1, <1>2, SizeFacts DEF Sound
<1>9. "normal" \in Modes /\ "alternate" \in Modes
  BY DEF Modes
<1>10. ASSUME NEW s \in [Modes -> States(size)], screens' = s, history' \in Histories(size[1], maxRows),
              status' \in Statuses
       PROVE  TerminalInv'
  <2>1. Sound(size)'
    BY <1>2, <1>3, <1>10, <1>14 DEF Sound
  <2>2. (history \in Histories(rect[1], maxRows))'
    BY <1>3, <1>10, <1>14
  <2>. QED
    BY <1>3, <1>10, <2>1, <2>2 DEF TerminalInv
<1>11. CASE <<Width(screens["normal"]), Height(screens["normal"])>> = size
  <2>1. old = size
    BY <1>2, <1>8, <1>9, <1>11
  <2>2. [m \in Modes |-> WholeRegion(screens[m], size[2])] \in [Modes -> States(size)]
    BY <1>2, <1>8, <2>1, WholeRegionType
  <2>3. /\ history' = hg /\ status' = status
        /\ screens' = [m \in Modes |-> WholeRegion(screens[m], size[2])]
    BY <1>6, <1>8, <1>11 DEF hg
  <2>. QED
    BY <1>7, <1>10, <2>2, <2>3 DEF TerminalInv
<1>12. CASE /\ <<Width(screens["normal"]), Height(screens["normal"])>> # size
            /\ \E m \in DOMAIN screens : screens[m].y > Height(screens[m])
  <2>1. status' = "outside" /\ history' = hg /\ screens' = screens
    BY <1>6, <1>12 DEF hg
  <2>2. Sound(old)'
    BY <1>1, <1>14, <2>1 DEF Sound
  <2>3. (history \in Histories(rect[1], maxRows))'
    BY <1>3, <1>7, <1>14, <2>1
  <2>. QED
    BY <1>3, <2>1, <2>2, <2>3 DEF TerminalInv, Statuses
<1>13. CASE /\ <<Width(screens["normal"]), Height(screens["normal"])>> # size
            /\ ~ \E m \in DOMAIN screens : screens[m].y > Height(screens[m])
  <2>1. PICK stop \in [normal : Stops("normal"), alternate : Stops("alternate")] :
          LET new == [m \in DOMAIN screens |-> Resized(screens[m], size, stop[m])] IN
          /\ screens' = [m \in DOMAIN screens |-> WholeRegion(new[m].s, size[2])]
          /\ history' = Evicted(hg, new["normal"].out)
          /\ status' = status
    BY <1>6, <1>13 DEF hg
  <2>. DEFINE new == [m \in Modes |-> Resized(screens[m], size, stop[m])]
  <2>2. ASSUME NEW m \in Modes
        PROVE  /\ WholeRegion(new[m].s, size[2]) \in States(size)
               /\ new[m].out \in Seq(Lines)
               /\ \A j \in DOMAIN new[m].out : Len(new[m].out[j]) <= size[1]
    <3>1. stop[m] \in Stops(m)
      BY DEF Modes
    <3>2. screens[m] \in States(old) /\ screens[m].y \in Int /\ screens[m].y <= old[2]
      BY <1>8, <1>13, <1>2 DEF States, Shape
    <3>3. LineStart(screens[m]) \in Nat
      BY <1>2, <3>2, LineStartType
    <3>4. Max({0, screens[m].y}) \in Nat /\ Max({0, screens[m].y}) <= old[2]
      <4>1. 0 \in Int
        OBVIOUS
      <4>2. Max({0, screens[m].y}) = IF 0 >= screens[m].y THEN 0 ELSE screens[m].y
        BY <3>2, <4>1, TwoNumbers
      <4>. QED
        BY <1>2, <3>2, <4>2
    <3>5. stop[m] \in Nat /\ stop[m] <= old[2]
      BY <1>2, <3>1, <3>3, <3>4 DEF Stops
    <3>6. LET u == Resized(screens[m], size, stop[m]) IN
          /\ WholeRegion(u.s, size[2]) \in States(size)
          /\ u.out \in Seq(Lines)
          /\ \A j \in DOMAIN u.out : Len(u.out[j]) <= size[1]
      BY <1>2, <3>2, <3>5, ResizedType
    <3>. QED
      BY <3>6
  <2>3. /\ screens' = [m \in Modes |-> WholeRegion(new[m].s, size[2])]
        /\ history' = Evicted(hg, new["normal"].out)
        /\ status' = status
    BY <1>8, <2>1
  <2>. HIDE DEF new
  <2>4. [m \in Modes |-> WholeRegion(new[m].s, size[2])] \in [Modes -> States(size)]
    BY <2>2
  <2>5. Evicted(hg, new["normal"].out) \in Histories(size[1], maxRows)
    BY <1>2, <1>4, <1>7, <1>9, <2>2, EvictedType
  <2>. QED
    BY <1>10, <2>3, <2>4, <2>5 DEF TerminalInv
<1>. QED
  BY <1>11, <1>12, <1>13

-----------------------------------------------------------------------------
(* The text that a resize keeps *)

\* The cells of a row that are no blanks.
Seen(cell) == IF cell.c # 0 THEN <<cell>> ELSE << >>
Marked(cells) == [i \in DOMAIN cells |-> Seen(cells[i])]
SeenOf(cells) == FlattenSeq(Marked(cells))

\* A cell of a row is in the text or is not.
LEMMA MarkedCells ==
  ASSUME NEW S, NEW cells \in Seq(S)
  PROVE  /\ Marked(cells) \in Seq(Seq(S)) /\ Len(Marked(cells)) = Len(cells) /\ Len(cells) \in Nat
         /\ \A i \in 1..Len(cells) : cells[i] \in S /\ Marked(cells)[i] = Seen(cells[i])
         /\ SeenOf(cells) \in Seq(S)
<1>1. cells \in Seq(S) /\ Len(cells) \in Nat /\ DOMAIN cells = 1..Len(cells)
      /\ \A i \in 1..Len(cells) : cells[i] \in S
  OBVIOUS
<1>2. \A cell \in S : Seen(cell) \in Seq(S)
  BY DEF Seen
<1>. DEFINE m == Marked(cells)
<1>3. m \in [1..Len(cells) -> Seq(S)] /\ \A i \in 1..Len(cells) : m[i] = Seen(cells[i])
  BY <1>1, <1>2 DEF Marked
<1>. HIDE DEF m
<1>4. m \in Seq(Seq(S)) /\ Len(m) = Len(cells)
  BY <1>1, <1>3
<1>5. FlattenSeq(m) \in Seq(S)
  BY <1>4, FlattenSeqRange
<1>. QED
  BY <1>1, <1>3, <1>4, <1>5 DEF SeenOf, m

\* The text of two rows joined.
LEMMA SeenOfBoth ==
  ASSUME NEW S, NEW a \in Seq(S), NEW b \in Seq(S)
  PROVE  /\ Cat(a, b) \in Seq(S)
         /\ SeenOf(Cat(a, b)) = Cat(SeenOf(a), SeenOf(b))
<1>. DEFINE c == Cat(a, b)
            x == Marked(a)
            y == Marked(b)
            z == Marked(c)
            xy == Cat(x, y)
<1>1. /\ c \in Seq(S) /\ Len(c) = Len(a) + Len(b)
      /\ \A i \in 1..Len(a) : c[i] = a[i]
      /\ \A i \in (Len(a) + 1)..(Len(a) + Len(b)) : c[i] = b[i - Len(a)] /\ i - Len(a) \in 1..Len(b)
  BY DEF Cat
<1>. HIDE DEF c
<1>2. /\ x \in Seq(Seq(S)) /\ y \in Seq(Seq(S)) /\ z \in Seq(Seq(S))
      /\ Len(x) = Len(a) /\ Len(y) = Len(b) /\ Len(z) = Len(a) + Len(b)
      /\ Len(a) \in Nat /\ Len(b) \in Nat
      /\ \A i \in 1..Len(a) : x[i] = Seen(a[i])
      /\ \A i \in 1..Len(b) : y[i] = Seen(b[i])
      /\ \A i \in 1..(Len(a) + Len(b)) : z[i] = Seen(c[i])
  BY <1>1, MarkedCells
<1>. HIDE DEF x, y, z
<1>3. /\ xy \in Seq(Seq(S)) /\ Len(xy) = Len(a) + Len(b)
      /\ \A i \in 1..Len(a) : xy[i] = x[i]
      /\ \A i \in (Len(a) + 1)..(Len(a) + Len(b)) : xy[i] = y[i - Len(a)]
  <2>. DEFINE T == Seq(S)
  <2>0. x \in Seq(T) /\ y \in Seq(T)
    BY <1>2
  <2>. HIDE DEF T
  <2>1. /\ Cat(x, y) \in Seq(T) /\ Len(Cat(x, y)) = Len(x) + Len(y)
        /\ \A i \in 1..(Len(x) + Len(y)) :
             Cat(x, y)[i] = IF i <= Len(x) THEN x[i] ELSE y[i - Len(x)]
    BY <2>0, CatValues
  <2>. HIDE DEF xy
  <2>2. xy = Cat(x, y)
    BY DEF xy
  <2>3. \A i \in (Len(a) + 1)..(Len(a) + Len(b)) : i \in 1..(Len(a) + Len(b)) /\ ~ (i <= Len(a))
    BY <1>2
  <2>4. \A i \in 1..Len(a) : i \in 1..(Len(a) + Len(b)) /\ i <= Len(a)
    BY <1>2
  <2>. QED
    BY <1>2, <2>1, <2>2, <2>3, <2>4 DEF T
<1>. HIDE DEF xy
<1>4. \A i \in 1..(Len(a) + Len(b)) : z[i] = xy[i]
  <2>. SUFFICES ASSUME NEW i \in 1..(Len(a) + Len(b)) PROVE z[i] = xy[i]
    OBVIOUS
  <2>1. CASE i \in 1..Len(a)
    BY <1>1, <1>2, <1>3, <2>1
  <2>2. CASE i \notin 1..Len(a)
    <3>1. i \in (Len(a) + 1)..(Len(a) + Len(b))
      BY <1>2, <2>2
    <3>. QED
      BY <1>1, <1>2, <1>3, <3>1
  <2>. QED
    BY <2>1, <2>2
<1>5. z = xy
  <2>1. z = [i \in 1..(Len(a) + Len(b)) |-> z[i]] /\ xy = [i \in 1..(Len(a) + Len(b)) |-> xy[i]]
    BY <1>2, <1>3
  <2>. QED
    BY <1>4, <2>1
<1>6. FlattenSeq(Cat(x, y)) = Cat(FlattenSeq(x), FlattenSeq(y))
  BY <1>2, FlattenConcat
<1>. QED
  BY <1>1, <1>5, <1>6 DEF SeenOf, c, x, y, z, xy

\* The same of cells of the terminal.
LEMMA MarkedType ==
  ASSUME NEW cells \in Lines
  PROVE  /\ Marked(cells) \in Seq(Lines) /\ Len(Marked(cells)) = Len(cells) /\ Len(cells) \in Nat
         /\ \A i \in 1..Len(cells) : cells[i] \in Cell /\ Marked(cells)[i] = Seen(cells[i])
         /\ SeenOf(cells) \in Lines
BY MarkedCells DEF Lines

LEMMA SeenJoined ==
  ASSUME NEW a \in Lines, NEW b \in Lines
  PROVE  /\ Cat(a, b) \in Lines
         /\ SeenOf(Cat(a, b)) = Cat(SeenOf(a), SeenOf(b))
BY SeenOfBoth DEF Lines

\* Blanks have no text.
LEMMA BlanksUnseen ==
  ASSUME NEW cells \in Lines, \A i \in DOMAIN cells : cells[i].c = 0
  PROVE  SeenOf(cells) = << >>
<1>. DEFINE n == Len(cells)
            m == Marked(cells)
<1>1. m \in Seq(Seq(Cell)) /\ Len(m) = n /\ n \in Nat /\ DOMAIN cells = 1..n
  BY MarkedType DEF Lines
<1>2. \A i \in 1..n : m[i] = << >>
  BY <1>1, MarkedType DEF Seen
<1>. HIDE DEF n, m
<1>3. PICK f \in [0..Len(m) -> Seq(Cell)] :
        /\ f[0] = << >>
        /\ \A i \in 1..Len(m) : f[i] = Cat(f[i - 1], m[i])
        /\ FlattenSeq(m) = f[Len(m)]
  BY <1>1, FlattenUnrolled
<1>. DEFINE T == {i \in 0..n : f[i] = << >>}
<1>4. 0 \in T
  BY <1>1, <1>3
<1>5. \A k \in 1..n : k - 1 \in T => k \in T
  <2>1. Cat(<< >>, << >>) = << >>
    <3>1. << >> \in Seq(Cell)
      OBVIOUS
    <3>. QED
      BY <3>1, CatFacts
  <2>2. \A k \in 1..n : k \in 0..n
    BY <1>1
  <2>. QED
    BY <1>1, <1>2, <1>3, <2>1, <2>2
<1>. HIDE DEF T
<1>6. n \in T
  BY ONLY <1>1, <1>4, <1>5, StepByStep
<1>. QED
  BY <1>1, <1>3, <1>6 DEF SeenOf, T, m

\* The text of rows is that of each, one after the other.
LEMMA VisibleUnrolled ==
  ASSUME NEW rows \in Seq(Lines)
  PROVE  \E v \in [0..Len(rows) -> Lines] :
           /\ v[0] = << >>
           /\ \A i \in 1..Len(rows) : v[i] = Cat(v[i - 1], SeenOf(rows[i]))
           /\ VisibleOf(rows) = v[Len(rows)]
<1>. DEFINE n == Len(rows)
<1>1. rows \in Seq(Seq(Cell)) /\ n \in Nat /\ \A i \in 1..n : rows[i] \in Lines
  BY DEF Lines
<1>2. PICK f \in [0..n -> Seq(Cell)] :
        /\ f[0] = << >>
        /\ \A i \in 1..n : f[i] = Cat(f[i - 1], rows[i])
        /\ FlattenSeq(rows) = f[n]
  BY <1>1, FlattenUnrolled
<1>. HIDE DEF n
<1>. DEFINE v == [i \in 0..n |-> SeenOf(f[i])]
<1>3. \A i \in 0..n : f[i] \in Lines
  BY <1>2 DEF Lines
<1>4. \A i \in 0..n : v[i] = SeenOf(f[i]) /\ SeenOf(f[i]) \in Lines
  BY <1>3, MarkedType
<1>5. v[0] = << >>
  <2>1. << >> \in Lines /\ DOMAIN << >> = {} /\ 0 \in 0..n
    BY <1>1 DEF Lines
  <2>2. SeenOf(<< >>) = << >>
    BY <2>1, BlanksUnseen
  <2>. QED
    BY <1>2, <1>4, <2>1, <2>2
<1>6. ASSUME NEW i \in 1..n PROVE v[i] = Cat(v[i - 1], SeenOf(rows[i]))
  <2>1. i \in 0..n /\ i - 1 \in 0..n
    BY <1>1
  <2>2. f[i - 1] \in Lines /\ rows[i] \in Lines /\ f[i] = Cat(f[i - 1], rows[i])
    BY <1>1, <1>2, <1>3, <2>1
  <2>3. SeenOf(Cat(f[i - 1], rows[i])) = Cat(SeenOf(f[i - 1]), SeenOf(rows[i]))
    BY <2>2, SeenJoined
  <2>. HIDE DEF v
  <2>. QED
    BY <1>4, <2>1, <2>2, <2>3
<1>7. VisibleOf(rows) = v[n]
  <2>1. VisibleOf(rows) = SeenOf(FlattenSeq(rows))
    BY DEF VisibleOf, SeenOf, Marked, Seen
  <2>2. n \in 0..n
    BY <1>1
  <2>. HIDE DEF v
  <2>. QED
    BY <1>2, <1>4, <2>1, <2>2
<1>8. v \in [0..n -> Lines]
  BY <1>4
<1>. HIDE DEF v
<1>. QED
  BY <1>5, <1>6, <1>7, <1>8 DEF n

\* Text is a row of cells, and depends on the cells alone.
LEMMA VisibleCells ==
  ASSUME NEW S, NEW rows \in Seq(Seq(S))
  PROVE  /\ VisibleOf(rows) \in Seq(S)
         /\ FlattenSeq(rows) \in Seq(S) /\ VisibleOf(rows) = SeenOf(FlattenSeq(rows))
<1>1. VisibleOf(rows) = SeenOf(FlattenSeq(rows))
  BY DEF VisibleOf, SeenOf, Marked, Seen
<1>2. FlattenSeq(rows) \in Seq(S)
  BY FlattenSeqRange
<1>. QED
  BY <1>1, <1>2, MarkedCells

\* The text of rows above others comes before theirs.
LEMMA VisibleOfBoth ==
  ASSUME NEW S, NEW a \in Seq(Seq(S)), NEW b \in Seq(Seq(S))
  PROVE  /\ Cat(a, b) \in Seq(Seq(S))
         /\ VisibleOf(Cat(a, b)) = Cat(VisibleOf(a), VisibleOf(b))
<1>1. FlattenSeq(Cat(a, b)) = Cat(FlattenSeq(a), FlattenSeq(b))
  BY FlattenConcat
<1>2. FlattenSeq(a) \in Seq(S) /\ FlattenSeq(b) \in Seq(S)
  BY VisibleCells
<1>3. SeenOf(Cat(FlattenSeq(a), FlattenSeq(b))) = Cat(SeenOf(FlattenSeq(a)), SeenOf(FlattenSeq(b)))
  BY <1>2, SeenOfBoth
<1>4. Cat(a, b) \in Seq(Seq(S))
  BY CatFacts
<1>. QED
  BY <1>1, <1>3, <1>4, VisibleCells

\* The same of rows of the terminal.
LEMMA VisibleFacts ==
  ASSUME NEW rows \in Seq(Lines)
  PROVE  /\ VisibleOf(rows) \in Lines
         /\ FlattenSeq(rows) \in Lines /\ VisibleOf(rows) = SeenOf(FlattenSeq(rows))
BY VisibleCells DEF Lines

LEMMA VisibleJoined ==
  ASSUME NEW a \in Seq(Lines), NEW b \in Seq(Lines)
  PROVE  /\ Cat(a, b) \in Seq(Lines)
         /\ VisibleOf(Cat(a, b)) = Cat(VisibleOf(a), VisibleOf(b))
BY VisibleOfBoth DEF Lines

\* Rows with the same text each.
LEMMA SameVisible ==
  ASSUME NEW a \in Seq(Lines), NEW b \in Seq(Lines), Len(a) = Len(b),
         \A i \in 1..Len(a) : SeenOf(a[i]) = SeenOf(b[i])
  PROVE  VisibleOf(a) = VisibleOf(b)
<1>. DEFINE n == Len(a)
<1>1. n \in Nat
  OBVIOUS
<1>2. PICK f \in [0..n -> Lines] :
        /\ f[0] = << >>
        /\ \A i \in 1..n : f[i] = Cat(f[i - 1], SeenOf(a[i]))
        /\ VisibleOf(a) = f[n]
  BY VisibleUnrolled
<1>3. PICK g \in [0..n -> Lines] :
        /\ g[0] = << >>
        /\ \A i \in 1..n : g[i] = Cat(g[i - 1], SeenOf(b[i]))
        /\ VisibleOf(b) = g[n]
  BY VisibleUnrolled
<1>. DEFINE T == {i \in 0..n : f[i] = g[i]}
<1>4. \A i \in 1..n : SeenOf(a[i]) = SeenOf(b[i])
  OBVIOUS
<1>. HIDE DEF n
<1>5. 0 \in T
  BY <1>1, <1>2, <1>3
<1>6. \A k \in 1..n : k - 1 \in T => k \in T
  <2>1. \A k \in 1..n : k \in 0..n
    BY <1>1
  <2>. QED
    BY <1>2, <1>3, <1>4, <2>1
<1>. HIDE DEF T
<1>7. n \in T
  BY ONLY <1>1, <1>5, <1>6, StepByStep
<1>. QED
  BY <1>2, <1>3, <1>7 DEF T

\* Blank rows have no text.
LEMMA BlankRowsUnseen ==
  ASSUME NEW rows \in Seq(Lines), \A j \in DOMAIN rows : \A i \in DOMAIN rows[j] : rows[j][i].c = 0
  PROVE  VisibleOf(rows) = << >>
<1>. DEFINE cells == FlattenSeq(rows)
<1>1. /\ cells \in Lines
      /\ Range(cells) = UNION {Range(rows[i]) : i \in DOMAIN rows}
  BY FlattenSeqRange DEF Lines
<1>. HIDE DEF cells
<1>2. ASSUME NEW i \in DOMAIN cells PROVE cells[i].c = 0
  <2>1. cells[i] \in Range(cells)
    BY DEF Range
  <2>2. PICK j \in DOMAIN rows : cells[i] \in Range(rows[j])
    BY <1>1, <2>1
  <2>3. PICK k \in DOMAIN rows[j] : cells[i] = rows[j][k]
    BY <2>2 DEF Range
  <2>. QED
    BY <2>2, <2>3
<1>3. SeenOf(cells) = << >>
  BY <1>1, <1>2, BlanksUnseen
<1>. QED
  BY <1>3, VisibleFacts DEF cells

\* A line that was cut is put together again.
LEMMA PiecesJoined ==
  ASSUME NEW row \in Lines, NEW width \in Numbers
  PROVE  FlattenSeq(Pieces(row, width)) = row
<1>1. width \in Nat /\ width # 0 /\ row \in Seq(Cell) /\ Len(row) \in Nat
  BY DEF Numbers, Lines
<1>2. CASE Len(row) <= width
  <2>1. Pieces(row, width) = <<row>>
    BY <1>2 DEF Pieces
  <2>. QED
    BY <1>1, <2>1, FlattenFew
<1>3. CASE ~ (Len(row) <= width)
  <2>. DEFINE n == (Len(row) + width - 1) \div width
              p == Pieces(row, width)
              up(k) == Min({k * width, Len(row)})
              head(k) == SubSeq(row, 1, up(k))
              piece(k) == SubSeq(row, (k - 1) * width + 1, up(k))
  <2>1. n \in Nat /\ n # 0 /\ n * width >= Len(row) /\ (n - 1) * width < Len(row)
    BY <1>1, <1>3
  <2>2. p = [k \in 1..n |-> piece(k)]
    BY <1>3 DEF Pieces
  <2>3. p \in Seq(Seq(Cell))
    BY <1>1, PiecesType
  <2>. HIDE DEF n, p
  <2>4. Len(p) = n
    BY <2>1, <2>2, <2>3
  <2>5. PICK f \in [0..n -> Seq(Cell)] :
          f[0] = << >> /\ (\A k \in 1..n : f[k] = Cat(f[k - 1], p[k])) /\ FlattenSeq(p) = f[n]
    BY <2>3, <2>4, FlattenUnrolled
  <2>. DEFINE T == {k \in 0..n : f[k] = head(k)}
  <2>6. 0 \in T
    <3>1. up(0) = 0
      <4>1. 0 * width = 0 /\ 0 \in Int /\ 0 <= Len(row) /\ Len(row) \in Int
        BY <1>1
      <4>. QED
        BY <4>1, TwoNumbers
    <3>2. SubSeq(row, 1, 0) = << >>
      BY <1>1
    <3>3. head(0) = SubSeq(row, 1, 0)
      BY <3>1
    <3>4. 0 \in 0..n
      BY <2>1
    <3>. HIDE DEF head
    <3>. QED
      BY <2>5, <3>2, <3>3, <3>4
  <2>7. ASSUME NEW k \in 1..n, k - 1 \in T PROVE k \in T
    <3>. DEFINE a == (k - 1) * width
                b == up(k)
    <3>1. a \in Nat /\ a <= (n - 1) * width /\ k * width = a + width /\ k \in Nat /\ n - 1 \in Nat
      <4>1. k - 1 \in Nat /\ k - 1 <= n - 1 /\ k \in Nat /\ n - 1 \in Nat
        BY <2>1
      <4>2. (k - 1) * width <= (n - 1) * width
        BY <1>1, <4>1
      <4>. QED
        BY <1>1, <4>1, <4>2
    <3>2. (n - 1) * width \in Nat
      BY <1>1, <3>1
    <3>. HIDE DEF a
    <3>3. a < Len(row)
      BY <1>1, <2>1, <3>1, <3>2
    <3>4. b = IF a + width <= Len(row) THEN a + width ELSE Len(row)
      <4>. DEFINE c == a + width
                  l == Len(row)
      <4>3. c \in Int /\ l \in Int /\ k * width = c
        BY <1>1, <3>1
      <4>4. b = Min({k * width, l})
        OBVIOUS
      <4>. HIDE DEF b, c, l
      <4>1. c \in Int /\ l \in Int /\ b = Min({c, l})
        BY <4>3, <4>4
      <4>2. Min({c, l}) = IF c <= l THEN c ELSE l
        BY <4>1, TwoNumbers
      <4>. QED
        BY <4>1, <4>2 DEF c, l
    <3>5. up(k - 1) = a
      <4>1. up(k - 1) = Min({a, Len(row)})
        BY DEF a
      <4>. QED
        BY <1>1, <3>1, <3>3, <4>1, TwoNumbers
    <3>. HIDE DEF b
    <3>6. b \in Nat /\ a <= b /\ b <= Len(row)
      BY <1>1, <3>1, <3>3, <3>4
    <3>7. Cat(SubSeq(row, 1, a), SubSeq(row, a + 1, b)) = SubSeq(row, 1, b)
      <4>1. /\ SubSeq(row, 1, a) = [i \in 1..a |-> row[i]]
            /\ SubSeq(row, 1, b) = [i \in 1..b |-> row[i]]
            /\ SubSeq(row, a + 1, b) = [i \in 1..(b - a) |-> row[i + a]]
        BY <1>1, <3>1, <3>6
      <4>. QED
        BY <1>1, <3>1, <3>6 DEF Cat
    <3>8. f[k - 1] = SubSeq(row, 1, a)
      BY <2>7, <3>5
    <3>9. p[k] = SubSeq(row, a + 1, b)
      BY <2>2 DEF a, b
    <3>10. f[k] = SubSeq(row, 1, b)
      BY <2>5, <3>7, <3>8, <3>9
    <3>11. k \in 0..n
      BY <2>1
    <3>. QED
      BY <3>10, <3>11 DEF b
  <2>. HIDE DEF T
  <2>8. n \in T
    <3>1. n \in Nat
      BY <2>1
    <3>. QED
      BY ONLY <3>1, <2>6, <2>7, StepByStep
  <2>9. up(n) = Len(row)
    <3>. DEFINE c == n * width
                l == Len(row)
    <3>1. c \in Int /\ l \in Int /\ up(n) = Min({c, l}) /\ c >= l
      BY <1>1, <2>1
    <3>. HIDE DEF up, c, l
    <3>2. Min({c, l}) = IF c <= l THEN c ELSE l
      BY <3>1, TwoNumbers
    <3>. QED
      BY <3>1, <3>2 DEF l
  <2>10. SubSeq(row, 1, Len(row)) = row
    BY <1>1
  <2>. QED
    BY <2>5, <2>8, <2>9, <2>10 DEF T, p
<1>. QED
  BY <1>2, <1>3

\* Lines that are wrapped are the same cells in the same order.
LEMMA WrappedText ==
  ASSUME NEW lines \in Seq(Lines), NEW width \in Numbers
  PROVE  FlattenSeq(Wrapped(lines, width)) = FlattenSeq(lines)
<1>. DEFINE n == Len(lines)
            p == [k \in DOMAIN lines |-> Pieces(lines[k], width)]
<1>1. n \in Nat /\ DOMAIN lines = 1..n /\ lines \in Seq(Seq(Cell)) /\ \A k \in 1..n : lines[k] \in Lines
  BY DEF Lines
<1>2. width \in Nat /\ width # 0
  BY DEF Numbers
<1>3. \A k \in 1..n : Pieces(lines[k], width) \in Seq(Lines)
  BY <1>1, <1>2, PiecesType DEF Lines
<1>. HIDE DEF n
<1>4. p \in [1..n -> Seq(Lines)] /\ \A k \in 1..n : p[k] = Pieces(lines[k], width)
  BY <1>1, <1>3
<1>. HIDE DEF p
<1>5. p \in Seq(Seq(Lines)) /\ Len(p) = n
  BY <1>1, <1>4
<1>6. PICK f \in [0..n -> Seq(Lines)] :
        f[0] = << >> /\ (\A k \in 1..n : f[k] = Cat(f[k - 1], p[k])) /\ FlattenSeq(p) = f[n]
  BY <1>5, FlattenUnrolled
<1>7. PICK g \in [0..n -> Seq(Cell)] :
        g[0] = << >> /\ (\A k \in 1..n : g[k] = Cat(g[k - 1], lines[k])) /\ FlattenSeq(lines) = g[n]
  BY <1>1, FlattenUnrolled DEF n
<1>. DEFINE T == {k \in 0..n : FlattenSeq(f[k]) = g[k]}
<1>8. 0 \in T
  <2>1. FlattenSeq(<< >>) = << >>
    BY DEF FlattenSeq
  <2>. QED
    BY <1>1, <1>6, <1>7, <2>1
<1>9. ASSUME NEW k \in 1..n, k - 1 \in T PROVE k \in T
  <2>1. k \in 0..n /\ k - 1 \in 0..n
    BY <1>1
  <2>2. f[k - 1] \in Seq(Lines) /\ p[k] \in Seq(Lines)
    BY <1>4, <1>6, <2>1
  <2>3. FlattenSeq(Cat(f[k - 1], p[k])) = Cat(FlattenSeq(f[k - 1]), FlattenSeq(p[k]))
    BY <2>2, FlattenConcat DEF Lines
  <2>4. FlattenSeq(p[k]) = lines[k]
    BY <1>1, <1>4, PiecesJoined
  <2>5. FlattenSeq(f[k - 1]) = g[k - 1]
    BY <1>9
  <2>. QED
    BY <1>6, <1>7, <2>1, <2>3, <2>4, <2>5
<1>. HIDE DEF T
<1>10. n \in T
  BY ONLY <1>1, <1>8, <1>9, StepByStep
<1>. QED
  BY <1>6, <1>7, <1>10 DEF T, Wrapped, p

\* A row that joins the lines adds its cells after theirs.
LEMMA JoinRowText ==
  ASSUME NEW l \in Joined, NEW row \in Lines, NEW garbage \in BOOLEAN
  PROVE  FlattenSeq(JoinRow(l, row, garbage).rows) = Cat(FlattenSeq(l.rows), row)
<1>1. l.rows \in Seq(Lines) /\ l.open \in BOOLEAN /\ (l.open => l.rows # << >>)
  BY DEF Joined
<1>2. CASE ~ l.open
  <2>1. JoinRow(l, row, garbage).rows = Append(l.rows, row)
    BY <1>2 DEF JoinRow
  <2>. QED
    BY <1>1, <2>1, FlattenAppend DEF Lines
<1>3. CASE l.open
  <2>. DEFINE front == Front(l.rows)
              last == Last(l.rows)
  <2>1. Len(l.rows) \in Nat /\ Len(l.rows) # 0 /\ DOMAIN l.rows = 1..Len(l.rows)
    BY <1>1, <1>3
  <2>2. last \in Lines
    BY <1>1, <2>1 DEF Last
  <2>3. front \in Seq(Lines)
    <3>1. SubSeq(l.rows, 1, Len(l.rows) - 1) \in Seq(Lines)
      BY <1>1, <2>1, SubSeqFacts
    <3>. QED
      BY <3>1 DEF Front
  <2>4. l.rows = Append(front, last)
    <3>. DEFINE n == Len(l.rows)
    <3>1. /\ n \in Nat /\ n # 0 /\ l.rows = [i \in 1..n |-> l.rows[i]]
      BY <1>1, <2>1
    <3>2. front = [i \in 1..(n - 1) |-> l.rows[i]] /\ last = l.rows[n]
      BY <1>1, <2>1 DEF Front, Last
    <3>3. Append(front, last) = [i \in 1..n |-> IF i = n THEN last ELSE front[i]]
      BY <2>3, <3>1, <3>2
    <3>4. \A i \in 1..n : i = n \/ i \in 1..(n - 1)
      BY <3>1
    <3>. HIDE DEF n, front, last
    <3>5. \A i \in 1..n : (IF i = n THEN last ELSE front[i]) = l.rows[i]
      BY <3>2, <3>4
    <3>. QED
      BY <3>1, <3>3, <3>5
  <2>5. JoinRow(l, row, garbage).rows = Append(front, Cat(last, row))
    BY <1>3 DEF JoinRow, Cat
  <2>. HIDE DEF front, last
  <2>6. Cat(last, row) \in Lines
    BY <2>2, CatFacts DEF Lines
  <2>7. FlattenSeq(Append(front, Cat(last, row))) = Cat(FlattenSeq(front), Cat(last, row))
    BY <2>3, <2>6, FlattenAppend DEF Lines
  <2>8. FlattenSeq(Append(front, last)) = Cat(FlattenSeq(front), last)
    BY <2>2, <2>3, FlattenAppend DEF Lines
  <2>9. FlattenSeq(front) \in Seq(Cell) /\ last \in Seq(Cell) /\ row \in Seq(Cell)
    BY <2>2, <2>3, VisibleFacts DEF Lines
  <2>10. Cat(Cat(FlattenSeq(front), last), row) = Cat(FlattenSeq(front), Cat(last, row))
    BY <2>9, CatAssociates
  <2>. QED
    BY <2>4, <2>5, <2>7, <2>8, <2>10
<1>. QED
  BY <1>1, <1>2, <1>3

\* The lines that rows are joined to are the same cells in the same order.
LEMMA LogicalLinesText ==
  ASSUME NEW rows \in Seq(Lines), NEW garbage \in BOOLEAN
  PROVE  FlattenSeq(LogicalLines(rows, garbage).rows) = FlattenSeq(rows)
<1>. DEFINE n == Len(rows)
<1>1. n \in Nat /\ rows \in Seq(Seq(Cell)) /\ \A k \in 1..n : rows[k] \in Lines
  BY DEF Lines
<1>2. PICK r \in [0..n -> Joined] :
        /\ r[0] = [rows |-> << >>, open |-> FALSE]
        /\ \A k \in 1..n : r[k] = JoinRow(r[k - 1], rows[k], garbage)
        /\ LogicalLines(rows, garbage) = r[n]
  BY LogicalLinesUnrolled
<1>3. PICK g \in [0..n -> Seq(Cell)] :
        g[0] = << >> /\ (\A k \in 1..n : g[k] = Cat(g[k - 1], rows[k])) /\ FlattenSeq(rows) = g[n]
  BY <1>1, FlattenUnrolled
<1>. HIDE DEF n
<1>. DEFINE T == {k \in 0..n : FlattenSeq(r[k].rows) = g[k]}
<1>4. 0 \in T
  <2>1. FlattenSeq(<< >>) = << >>
    BY DEF FlattenSeq
  <2>2. r[0].rows = << >>
    BY <1>2
  <2>. QED
    BY <1>1, <1>3, <2>1, <2>2
<1>5. ASSUME NEW k \in 1..n, k - 1 \in T PROVE k \in T
  <2>1. k \in 0..n /\ k - 1 \in 0..n
    BY <1>1
  <2>2. r[k - 1] \in Joined /\ rows[k] \in Lines
    BY <1>1, <1>2, <2>1
  <2>3. FlattenSeq(JoinRow(r[k - 1], rows[k], garbage).rows) = Cat(FlattenSeq(r[k - 1].rows), rows[k])
    BY <2>2, JoinRowText
  <2>4. FlattenSeq(r[k - 1].rows) = g[k - 1]
    BY <1>5
  <2>5. r[k] = JoinRow(r[k - 1], rows[k], garbage) /\ g[k] = Cat(g[k - 1], rows[k])
    BY <1>2, <1>3
  <2>. QED
    BY <2>1, <2>3, <2>4, <2>5
<1>. HIDE DEF T
<1>6. n \in T
  BY ONLY <1>1, <1>4, <1>5, StepByStep
<1>. QED
  BY <1>2, <1>3, <1>6 DEF T

\* A row loses no text with the blanks at its end.
LEMMA CutText ==
  ASSUME NEW w \in Nat, NEW row \in [1..w -> Cell], NEW k \in 1..w,
         \A j \in (k + 1)..w : row[j].c = 0
  PROVE  SeenOf(SubSeq(row, 1, k)) = SeenOf(row)
<1>. DEFINE b == SubSeq(row, k + 1, Len(row))
<1>1. row \in Seq(Cell) /\ Len(row) = w /\ k \in 0..Len(row)
  OBVIOUS
<1>4. /\ SubSeq(row, 1, k) \in Lines /\ b \in Lines /\ Len(b) = w - k
      /\ \A i \in 1..(w - k) : b[i] = row[k + i]
      /\ row = Cat(SubSeq(row, 1, k), b)
  BY <1>1, SplitFacts DEF Lines
<1>. HIDE DEF b
<1>5. \A i \in DOMAIN b : b[i].c = 0
  <2>. SUFFICES ASSUME NEW i \in DOMAIN b PROVE b[i].c = 0
    OBVIOUS
  <2>1. i \in 1..(w - k)
    BY <1>1, <1>4 DEF Lines
  <2>2. k + i \in (k + 1)..w
    BY <2>1
  <2>. QED
    BY <1>4, <2>1, <2>2
<1>6. SeenOf(b) = << >>
  BY <1>4, <1>5, BlanksUnseen
<1>7. SeenOf(Cat(SubSeq(row, 1, k), b)) = Cat(SeenOf(SubSeq(row, 1, k)), SeenOf(b))
  BY <1>4, SeenJoined
<1>8. SeenOf(SubSeq(row, 1, k)) \in Seq(Cell)
  BY <1>4, MarkedType DEF Lines
<1>9. Cat(SeenOf(SubSeq(row, 1, k)), << >>) = SeenOf(SubSeq(row, 1, k))
  BY <1>8, CatFacts
<1>. QED
  BY <1>4, <1>6, <1>7, <1>9

\* What is copied of a row has its text.
LEMMA UpToLineEndText ==
  ASSUME NEW w \in Nat, NEW row \in [1..w -> Cell]
  PROVE  SeenOf(UpToLineEnd(row)) = SeenOf(row)
<1>. DEFINE ends == {i \in DOMAIN row : /\ row[i].eol
                                        /\ \A j \in (i + 1)..Len(row) : row[j].c = 0}
            k == Min(ends)
<1>1. row \in Seq(Cell) /\ Len(row) = w /\ ends \subseteq 1..w
  OBVIOUS
<1>2. UpToLineEnd(row) = IF ends = {} THEN row ELSE SubSeq(row, 1, k)
  BY DEF UpToLineEnd
<1>3. ASSUME ends # {} PROVE SeenOf(SubSeq(row, 1, k)) = SeenOf(row)
  <2>1. k \in ends
    <3>1. ends \subseteq Nat
      BY <1>1
    <3>. HIDE DEF ends
    <3>. QED
      BY <1>3, <3>1, SmallestNumber
  <2>2. k \in 1..w /\ \A j \in (k + 1)..w : row[j].c = 0
    BY <1>1, <2>1
  <2>. HIDE DEF ends, k
  <2>. QED
    BY <2>2, CutText
<1>. HIDE DEF ends, k
<1>. QED
  BY <1>2, <1>3

\* A row of a blank buffer that a shorter row is copied to.
LEMMA PaddedText ==
  ASSUME NEW w \in Nat, NEW row \in Lines, Len(row) <= w
  PROVE  Padded(row, w) \in Lines /\ SeenOf(Padded(row, w)) = SeenOf(row)
<1>. DEFINE n == Len(row)
            m == w - n
            b == BlankRow(m)
            p == Padded(row, w)
<1>1. n \in Nat /\ row \in Seq(Cell) /\ m \in Nat /\ n + m = w /\ \A i \in 1..n : row[i] \in Cell
  BY DEF Lines
<1>. HIDE DEF m
<1>2. b = [i \in 1..m |-> Blank]
  BY DEF BlankRow
<1>4. p = [i \in 1..w |-> IF i <= n THEN row[i] ELSE Blank]
  BY DEF Padded
<1>. HIDE DEF n, b, p
<1>3. b \in Lines /\ Len(b) = m /\ DOMAIN b = 1..m /\ \A i \in 1..m : b[i] = Blank
  <2>1. Blank \in Cell
    BY BlankCell
  <2>. QED
    BY <1>1, <1>2, <2>1 DEF Lines
<1>5. p \in Lines
  BY <1>1, <1>4, BlankCell DEF Lines
<1>6. /\ Cat(row, b) \in Seq(Cell) /\ Len(Cat(row, b)) = n + m
      /\ \A i \in 1..(n + m) : Cat(row, b)[i] = IF i <= n THEN row[i] ELSE b[i - n]
  <2>1. Len(row) = n
    BY DEF n
  <2>2. row \in Seq(Cell) /\ b \in Seq(Cell)
    BY <1>1, <1>3 DEF Lines
  <2>. QED
    BY <1>3, <2>1, <2>2, CatValues
<1>7. \A i \in 1..w : (IF i <= n THEN row[i] ELSE b[i - n]) = (IF i <= n THEN row[i] ELSE Blank)
  <2>. SUFFICES ASSUME NEW i \in 1..w, ~ (i <= n) PROVE b[i - n] = Blank
    OBVIOUS
  <2>1. i - n \in 1..m
    BY <1>1
  <2>. QED
    BY <1>3, <2>1
<1>8. p = Cat(row, b)
  <2>1. p \in Seq(Cell) /\ Len(p) = w /\ Len(Cat(row, b)) = w
    BY <1>1, <1>4, <1>5, <1>6 DEF Lines
  <2>2. \A i \in 1..w : p[i] = Cat(row, b)[i]
    BY <1>1, <1>4, <1>6, <1>7
  <2>. QED
    BY <1>6, <2>1, <2>2, SameSequence
<1>9. SeenOf(b) = << >>
  BY <1>3, BlanksUnseen DEF Blank
<1>10. SeenOf(Cat(row, b)) = Cat(SeenOf(row), SeenOf(b))
  BY <1>3, SeenJoined
<1>11. Cat(SeenOf(row), << >>) = SeenOf(row)
  <2>1. SeenOf(row) \in Seq(Cell)
    BY MarkedType DEF Lines
  <2>. QED
    BY <2>1, CatFacts
<1>. QED
  BY <1>5, <1>8, <1>9, <1>10, <1>11 DEF p

\* Trimming takes rows off the top, and none while there is room.
LEMMA TrimmedText ==
  ASSUME NEW S, NEW max \in Nat, NEW h \in Seq(S)
  PROVE  \E old \in Seq(S) : /\ h = Cat(old, Trimmed(h, max))
                             /\ Len(Trimmed(h, max)) < max => old = << >>
<1>1. Len(h) \in Nat
  OBVIOUS
<1>2. CASE Len(h) > max
  <2>. DEFINE k == Len(h) - max
  <2>1. k \in 0..Len(h) /\ Len(h) - k = max
    BY <1>1, <1>2
  <2>2. Trimmed(h, max) = SubSeq(h, k + 1, Len(h))
    BY <1>1, <1>2 DEF Trimmed
  <2>. HIDE DEF k
  <2>. DEFINE old == SubSeq(h, 1, k)
  <2>3. old \in Seq(S) /\ h = Cat(old, Trimmed(h, max)) /\ Len(Trimmed(h, max)) = max
    BY <2>1, <2>2, SplitFacts
  <2>. HIDE DEF old
  <2>. QED
    BY <2>3
<1>3. CASE ~ (Len(h) > max)
  <2>1. Trimmed(h, max) = h /\ << >> \in Seq(S)
    BY <1>3 DEF Trimmed
  <2>2. h = Cat(<< >>, h)
    BY <2>1, CatFacts
  <2>. QED
    BY <2>1, <2>2
<1>. QED
  BY <1>2, <1>3

\* What a screen and the history have of the rows that a resize copies.
LEMMA ResizedText ==
  ASSUME NEW size \in Numbers \X Numbers, NEW s \in States(size),
         NEW new \in Numbers \X Numbers, NEW stop \in Nat, stop <= size[2]
  PROVE  LET u == Resized(s, new, stop) IN
         /\ u.out \in Seq(Lines) /\ u.s.rows \in Seq(Lines)
         /\ VisibleOf(Cat(u.out, u.s.rows)) = VisibleOf(SubSeq(s.rows, 1, stop))
<1>. DEFINE w == new[1]
            h == new[2]
            old == SubSeq(s.rows, 1, stop)
            top == [j \in 1..stop |-> UpToLineEnd(s.rows[j])]
            lines == LogicalLines(top, FALSE)
            wrapped == Wrapped(lines.rows, w)
            rows == [j \in DOMAIN wrapped |-> Padded(wrapped[j], w)]
            x == IF lines.open THEN Len(Last(lines.rows)) % w ELSE 0
            y == IF x = 0 THEN Len(rows) ELSE Len(rows) - 1
            gone == Max({0, y + 1 - h})
            buffer == [j \in 1..h |-> IF j + gone \in DOMAIN rows THEN rows[j + gone] ELSE BlankRow(w)]
            out == SubSeq(rows, 1, gone)
            t == [s EXCEPT !.rows = buffer, !.x = x, !.y = y - gone]
<1>1. /\ w \in Nat /\ w # 0 /\ w \in Numbers /\ h \in Nat /\ h # 0 /\ size[1] \in Nat /\ size[2] \in Nat
      /\ s.rows \in Buffers(size) /\ s.rows \in Seq(Lines) /\ Len(s.rows) = size[2]
  BY SizeFacts DEF Numbers, Lines, Height
<1>2. old \in Seq(Lines) /\ Len(old) = stop /\ \A j \in 1..stop : old[j] = s.rows[j]
  <2>1. stop \in 0..Len(s.rows)
    BY <1>1
  <2>. QED
    BY <1>1, <2>1, SplitFacts
<1>3. ASSUME NEW j \in 1..stop
      PROVE  UpToLineEnd(s.rows[j]) \in Lines /\ SeenOf(UpToLineEnd(s.rows[j])) = SeenOf(s.rows[j])
  <2>1. j \in 1..size[2]
    BY <1>1
  <2>2. s.rows[j] \in [1..size[1] -> Cell]
    BY <1>1, <2>1 DEF Buffers
  <2>. QED
    BY <1>1, <2>2, UpToLineEndType, UpToLineEndText
<1>. HIDE DEF old
<1>4. top \in Seq(Lines) /\ VisibleOf(top) = VisibleOf(old)
  <2>1. top \in [1..stop -> Lines] /\ \A j \in 1..stop : top[j] = UpToLineEnd(s.rows[j])
    BY <1>3
  <2>. HIDE DEF top
  <2>2. top \in Seq(Lines) /\ Len(top) = stop
    BY <2>1
  <2>3. \A j \in 1..stop : SeenOf(top[j]) = SeenOf(old[j])
    BY <1>2, <1>3, <2>1
  <2>. QED
    BY <1>2, <2>2, <2>3, SameVisible
<1>. HIDE DEF top
<1>5. lines.rows \in Seq(Lines) /\ VisibleOf(lines.rows) = VisibleOf(top)
  <2>1. lines.rows \in Seq(Lines)
    BY <1>4, LogicalLinesType DEF Joined
  <2>2. FlattenSeq(lines.rows) = FlattenSeq(top)
    BY <1>4, LogicalLinesText
  <2>. QED
    BY <1>4, <2>1, <2>2, VisibleFacts
<1>. HIDE DEF lines
<1>6. /\ wrapped \in Seq(Lines) /\ VisibleOf(wrapped) = VisibleOf(lines.rows)
      /\ \A j \in DOMAIN wrapped : Len(wrapped[j]) <= w
  <2>1. wrapped \in Seq(Lines) /\ \A j \in DOMAIN wrapped : Len(wrapped[j]) <= w
    BY <1>1, <1>5, WrappedType
  <2>2. FlattenSeq(wrapped) = FlattenSeq(lines.rows)
    BY <1>1, <1>5, WrappedText
  <2>. QED
    BY <1>5, <2>1, <2>2, VisibleFacts
<1>. HIDE DEF wrapped
<1>7. rows \in Seq(Lines) /\ VisibleOf(rows) = VisibleOf(wrapped)
  <2>1. \A j \in DOMAIN wrapped : /\ Padded(wrapped[j], w) \in Lines
                                  /\ SeenOf(Padded(wrapped[j], w)) = SeenOf(wrapped[j])
    BY <1>1, <1>6, PaddedText
  <2>2. DOMAIN wrapped = 1..Len(wrapped) /\ Len(wrapped) \in Nat
    BY <1>6
  <2>3. rows \in [1..Len(wrapped) -> Lines] /\ \A j \in 1..Len(wrapped) : rows[j] = Padded(wrapped[j], w)
    BY <2>1, <2>2
  <2>. HIDE DEF rows
  <2>4. rows \in Seq(Lines) /\ Len(rows) = Len(wrapped)
    BY <2>2, <2>3
  <2>5. \A j \in 1..Len(wrapped) : SeenOf(wrapped[j]) = SeenOf(rows[j])
    BY <2>1, <2>2, <2>3
  <2>. QED
    BY <1>6, <2>4, <2>5, SameVisible
<1>. HIDE DEF rows
<1>8. y \in Int /\ y <= Len(rows) /\ Len(rows) <= y + 1 /\ Len(rows) \in Nat
  BY <1>7
<1>. HIDE DEF x, y
<1>9. gone \in 0..Len(rows) /\ Len(rows) - gone <= h
  <2>. DEFINE over == y + 1 - h
  <2>1. over \in Int /\ 0 \in Int /\ over <= Len(rows) /\ Len(rows) <= over + h
    BY <1>1, <1>8
  <2>. HIDE DEF over
  <2>2. Max({0, over}) = IF 0 >= over THEN 0 ELSE over
    BY <2>1, TwoNumbers
  <2>3. gone = Max({0, over})
    BY DEF over
  <2>. HIDE DEF gone
  <2>. QED
    BY <1>1, <1>8, <2>1, <2>2, <2>3
<1>. HIDE DEF gone
<1>. DEFINE n == Len(rows) - gone
            rest == SubSeq(rows, gone + 1, Len(rows))
            blanks == [j \in 1..(h - n) |-> BlankRow(w)]
<1>10. /\ out \in Seq(Lines) /\ rest \in Seq(Lines) /\ Len(rest) = n
       /\ \A j \in 1..n : rest[j] = rows[gone + j]
       /\ rows = Cat(out, rest)
  BY <1>7, <1>9, SplitFacts
<1>11. n \in Nat /\ h - n \in Nat /\ gone \in Nat /\ gone + n = Len(rows)
  BY <1>1, <1>8, <1>9
<1>12. DOMAIN rows = 1..(gone + n)
  BY <1>7, <1>11
<1>. HIDE DEF out, rest, n
<1>13. BlankRow(w) \in Lines /\ \A i \in DOMAIN BlankRow(w) : BlankRow(w)[i].c = 0
  <2>1. w \in Nat /\ Blank \in Cell /\ BlankRow(w) = [i \in 1..w |-> Blank]
    BY <1>1, BlankCell DEF BlankRow
  <2>. HIDE DEF w
  <2>2. BlankRow(w) \in Lines
    BY <2>1 DEF Lines
  <2>3. \A i \in DOMAIN BlankRow(w) : BlankRow(w)[i].c = 0
    BY DEF BlankRow, Blank
  <2>. QED
    BY <2>2, <2>3
<1>14. blanks \in Seq(Lines) /\ Len(blanks) = h - n /\ \A j \in 1..(h - n) : blanks[j] = BlankRow(w)
  BY <1>11, <1>13
<1>15. VisibleOf(blanks) = << >>
  <2>1. DOMAIN blanks = 1..(h - n)
    OBVIOUS
  <2>. HIDE DEF blanks
  <2>. QED
    BY <1>13, <1>14, <2>1, BlankRowsUnseen
<1>. HIDE DEF blanks
<1>16. buffer \in Seq(Lines) /\ buffer = Cat(rest, blanks)
  <2>1. \A j \in 1..h : j + gone \in DOMAIN rows <=> j <= n
    BY <1>1, <1>11, <1>12
  <2>2. \A j \in 1..h : IF j <= n THEN j \in 1..n /\ gone + j = j + gone ELSE j - n \in 1..(h - n)
    BY <1>1, <1>11
  <2>3. /\ Cat(rest, blanks) \in Seq(Lines) /\ Len(Cat(rest, blanks)) = n + (h - n)
        /\ \A j \in 1..(n + (h - n)) :
             Cat(rest, blanks)[j] = IF j <= n THEN rest[j] ELSE blanks[j - n]
    <3>1. /\ Cat(rest, blanks) \in Seq(Lines) /\ Len(Cat(rest, blanks)) = Len(rest) + Len(blanks)
          /\ \A j \in 1..(Len(rest) + Len(blanks)) :
               Cat(rest, blanks)[j] = IF j <= Len(rest) THEN rest[j] ELSE blanks[j - Len(rest)]
      BY <1>10, <1>14, CatValues
    <3>. QED
      BY <1>10, <1>14, <3>1
  <2>4. n + (h - n) = h
    BY <1>1, <1>11
  <2>5. \A j \in 1..h : buffer[j] = IF j <= n THEN rows[j + gone] ELSE BlankRow(w)
    BY <2>1
  <2>6. \A j \in 1..h : buffer[j] = Cat(rest, blanks)[j]
    <3>. SUFFICES ASSUME NEW j \in 1..h PROVE buffer[j] = Cat(rest, blanks)[j]
      OBVIOUS
    <3>0. j \in 1..(n + (h - n))
      BY <2>4
    <3>1. CASE j <= n
      <4>1. buffer[j] = rows[gone + j] /\ Cat(rest, blanks)[j] = rest[j] /\ j \in 1..n
        BY <2>2, <2>3, <2>5, <3>0, <3>1
      <4>. QED
        BY <1>10, <4>1
    <3>2. CASE ~ (j <= n)
      <4>1. /\ buffer[j] = BlankRow(w) /\ Cat(rest, blanks)[j] = blanks[j - n]
            /\ j - n \in 1..(h - n)
        BY <2>2, <2>3, <2>5, <3>0, <3>2
      <4>. QED
        BY <1>14, <4>1
    <3>. QED
      BY <3>1, <3>2
  <2>7. DOMAIN buffer = 1..h /\ buffer = [j \in 1..h |-> buffer[j]]
    OBVIOUS
  <2>. HIDE DEF buffer
  <2>8. \A j \in 1..h : Cat(rest, blanks)[j] \in Lines
    BY <2>3, <2>4
  <2>9. buffer \in [1..h -> Lines]
    BY <2>6, <2>7, <2>8
  <2>10. buffer \in Seq(Lines) /\ Len(buffer) = h
    BY <1>1, <2>9
  <2>. QED
    BY <2>3, <2>4, <2>6, <2>10, SameSequence
<1>. HIDE DEF buffer
<1>17. VisibleOf(buffer) = VisibleOf(rest)
  <2>1. VisibleOf(Cat(rest, blanks)) = Cat(VisibleOf(rest), VisibleOf(blanks))
    BY <1>10, <1>14, VisibleJoined
  <2>2. Cat(VisibleOf(rest), << >>) = VisibleOf(rest)
    <3>1. VisibleOf(rest) \in Seq(Cell)
      BY <1>10, VisibleFacts DEF Lines
    <3>. QED
      BY <3>1, CatFacts
  <2>. QED
    BY <1>15, <1>16, <2>1, <2>2
<1>18. VisibleOf(Cat(out, buffer)) = VisibleOf(Cat(out, rest))
  BY <1>10, <1>16, <1>17, VisibleJoined
<1>19. Resized(s, new, stop) = [s |-> t, out |-> out]
  BY DEF Resized, top, lines, wrapped, rows, x, y, gone, buffer, out
<1>20. t.rows = buffer
  BY DEF States, Shape
<1>. HIDE DEF t
<1>21. VisibleOf(Cat(out, buffer)) = VisibleOf(old)
  BY <1>4, <1>5, <1>6, <1>7, <1>10, <1>18
<1>. QED
  BY <1>10, <1>16, <1>19, <1>20, <1>21 DEF old

\* The history of another width, whole or its newest rows.
LEMMA ResizeHistoryText ==
  ASSUME NEW h \in Seq(Lines), NEW width \in Numbers, NEW max \in Nat, NEW garbage \in BOOLEAN
  PROVE  \E lost \in Seq(Lines) :
           /\ VisibleOf(h) = Cat(VisibleOf(lost), VisibleOf(ResizeHistory(h, width, max, garbage)))
           /\ Len(ResizeHistory(h, width, max, garbage)) < max => VisibleOf(lost) = << >>
<1>. DEFINE lines == LogicalLines(h, garbage).rows
            wrapped == Wrapped(lines, width)
            kept == Trimmed(wrapped, max)
<1>1. lines \in Seq(Lines) /\ FlattenSeq(lines) = FlattenSeq(h)
  BY LogicalLinesType, LogicalLinesText DEF Joined
<1>. HIDE DEF lines
<1>2. wrapped \in Seq(Lines) /\ FlattenSeq(wrapped) = FlattenSeq(lines)
  BY <1>1, WrappedType, WrappedText
<1>. HIDE DEF wrapped
<1>3. VisibleOf(wrapped) = VisibleOf(h)
  BY <1>1, <1>2, VisibleFacts
<1>4. PICK lost \in Seq(Lines) : wrapped = Cat(lost, kept) /\ (Len(kept) < max => lost = << >>)
  BY <1>2, TrimmedText
<1>5. kept \in Seq(Lines)
  BY <1>2, TrimmedFacts
<1>6. kept = ResizeHistory(h, width, max, garbage)
  BY DEF ResizeHistory, wrapped, lines
<1>. HIDE DEF kept
<1>7. VisibleOf(Cat(lost, kept)) = Cat(VisibleOf(lost), VisibleOf(kept))
  BY <1>4, <1>5, VisibleJoined
<1>8. Len(kept) < max => VisibleOf(lost) = << >>
  <2>1. << >> \in Seq(Lines) /\ DOMAIN << >> = {}
    OBVIOUS
  <2>2. VisibleOf(<< >>) = << >>
    BY <2>1, BlankRowsUnseen
  <2>. QED
    BY <1>4, <2>2
<1>. QED
  BY <1>3, <1>4, <1>6, <1>7, <1>8

\* What a resize leaves of the text that was in the history and on the screen.
TextKept(before, after) ==
  /\ IsSuffix(after, before)
  /\ Len(history') < maxRows => after = before

\* The text of the history and of rows below it after a resize. The rows that are
\* evicted come between the two.
LEMMA RewrappedText ==
  ASSUME NEW width \in Numbers, maxRows \in Nat, NEW garbage \in BOOLEAN, history \in Seq(Lines),
         NEW old \in Seq(Lines), NEW out \in Seq(Lines), NEW rows \in Seq(Lines),
         VisibleOf(Cat(out, rows)) = VisibleOf(old),
         history' = Trimmed(Cat(ResizeHistory(history, width, maxRows, garbage), out), maxRows)
  PROVE  TextKept(VisibleOf(Cat(history, old)), VisibleOf(Cat(history', rows)))
<1>. DEFINE h == ResizeHistory(history, width, maxRows, garbage)
            ho == Cat(h, out)
<1>1. h \in Seq(Lines)
  BY ResizeHistoryType DEF Histories
<1>2. PICK lost \in Seq(Lines) :
        /\ VisibleOf(history) = Cat(VisibleOf(lost), VisibleOf(h))
        /\ Len(h) < maxRows => VisibleOf(lost) = << >>
  BY ResizeHistoryText
<1>. HIDE DEF h
<1>3. ho \in Seq(Lines) /\ Len(ho) = Len(h) + Len(out) /\ Len(h) \in Nat /\ Len(out) \in Nat
  <2>1. ho \in Seq(Lines) /\ Len(ho) = Len(h) + Len(out)
    BY <1>1, CatValues
  <2>2. Len(h) \in Nat /\ Len(out) \in Nat
    BY <1>1
  <2>. QED
    BY <2>1, <2>2
<1>. HIDE DEF ho
<1>4. history' = Trimmed(ho, maxRows)
  BY DEF ho, h
<1>5. PICK gone \in Seq(Lines) : ho = Cat(gone, history') /\ (Len(history') < maxRows => gone = << >>)
  BY <1>3, <1>4, TrimmedText
<1>6. history' \in Seq(Lines)
  BY <1>3, <1>4, TrimmedFacts
<1>. DEFINE a == VisibleOf(lost)
            b == VisibleOf(gone)
            c == VisibleOf(history')
            d == VisibleOf(rows)
            e == VisibleOf(h)
            f == VisibleOf(out)
            g == VisibleOf(old)
<1>7. /\ a \in Seq(Cell) /\ b \in Seq(Cell) /\ c \in Seq(Cell) /\ d \in Seq(Cell)
      /\ e \in Seq(Cell) /\ f \in Seq(Cell) /\ g \in Seq(Cell)
  BY <1>1, <1>2, <1>5, <1>6, VisibleFacts DEF Lines
<1>8. VisibleOf(Cat(history', rows)) = Cat(c, d)
  BY <1>6, VisibleJoined
<1>9. VisibleOf(Cat(history, old)) = Cat(Cat(a, e), g)
  BY <1>2, VisibleJoined
<1>10. g = Cat(f, d)
  BY VisibleJoined
<1>11. Cat(e, f) = Cat(b, c)
  <2>1. VisibleOf(ho) = Cat(e, f)
    BY <1>1, VisibleJoined DEF ho
  <2>2. VisibleOf(ho) = Cat(b, c)
    BY <1>5, <1>6, VisibleJoined
  <2>. QED
    BY <2>1, <2>2
<1>12. Len(history') < maxRows => a = << >> /\ b = << >>
  <2>. SUFFICES ASSUME Len(history') < maxRows PROVE a = << >> /\ b = << >>
    OBVIOUS
  <2>1. gone = << >>
    BY <1>5
  <2>2. ho = history'
    BY <1>5, <1>6, <2>1, CatFacts
  <2>3. Len(h) < maxRows
    BY <1>3, <2>2
  <2>4. << >> \in Seq(Lines) /\ DOMAIN << >> = {}
    OBVIOUS
  <2>5. VisibleOf(<< >>) = << >>
    BY <2>4, BlankRowsUnseen
  <2>. QED
    BY <1>2, <2>1, <2>3, <2>5
<1>. HIDE DEF a, b, c, d, e, f, g
<1>13. Cat(Cat(a, e), g) = Cat(Cat(a, b), Cat(c, d))
  <2>1. Cat(Cat(a, e), Cat(f, d)) = Cat(a, Cat(e, Cat(f, d)))
    BY <1>7, CatFacts, CatAssociates
  <2>2. Cat(e, Cat(f, d)) = Cat(Cat(e, f), d)
    BY <1>7, CatAssociates
  <2>3. Cat(Cat(b, c), d) = Cat(b, Cat(c, d))
    BY <1>7, CatAssociates
  <2>4. Cat(a, Cat(b, Cat(c, d))) = Cat(Cat(a, b), Cat(c, d))
    BY <1>7, CatFacts, CatAssociates
  <2>. QED
    BY <1>10, <1>11, <2>1, <2>2, <2>3, <2>4
<1>14. Cat(a, b) \in Seq(Cell) /\ Cat(c, d) \in Seq(Cell)
  BY <1>7, CatFacts
<1>15. IsSuffix(Cat(c, d), Cat(Cat(a, b), Cat(c, d)))
  BY <1>14, ConcatSuffix
<1>16. a = << >> /\ b = << >> => Cat(Cat(a, b), Cat(c, d)) = Cat(c, d)
  BY <1>7, <1>14, CatFacts
<1>. QED
  BY <1>8, <1>9, <1>12, <1>13, <1>15, <1>16 DEF TextKept

\* The line of the cursor does not start below the screen.
LEMMA LineStartBound ==
  ASSUME NEW size \in Numbers \X Numbers, NEW s \in States(size)
  PROVE  LineStart(s) <= Height(s)
<1>. DEFINE ends == {j \in 1..Min2(s.y, Height(s)) :
                       \E i \in DOMAIN s.rows[j] : s.rows[j][i].eol}
<1>1. Height(s) \in Nat /\ s.y \in Int
  BY SizeFacts DEF States, Shape, Numbers
<1>2. ends \subseteq 0..Height(s)
  BY <1>1 DEF Min2
<1>. HIDE DEF ends
<1>3. ends # {} => Max(ends) \in ends
  BY <1>1, <1>2, GreatestNumber
<1>6. ends # {} => Max(ends) \in 0..Height(s)
  BY <1>2, <1>3
<1>4. (ends # {} => Max(ends) <= Height(s)) /\ 0 <= Height(s)
  <2>. DEFINE n == Height(s)
              m == Max(ends)
  <2>1. n \in Nat /\ (ends # {} => m \in 0..n)
    BY <1>1, <1>6
  <2>. HIDE DEF n, m
  <2>2. (ends # {} => m <= n) /\ 0 <= n
    BY <2>1
  <2>. QED
    BY <2>2 DEF n, m
<1>5. LineStart(s) = IF ends = {} THEN 0 ELSE Max(ends)
  BY DEF LineStart, ends
<1>. QED
  BY <1>4, <1>5

\* Only the UI resizes.
LEMMA ReaderCounts ==
  ASSUME TerminalInv, Reader
  PROVE  count'.resizes = count.resizes
<1>1. ASSUME NEW what \in {"text", "controls", "escapes"}, NEW max, Bounded(what, max)
      PROVE  count'.resizes = count.resizes
  <2>1. count \in Counts
    BY DEF TerminalInv
  <2>. QED
    BY <1>1, <2>1 DEF Bounded, Counts
<1>. DEFINE Same == count'.resizes = count.resizes
<1>2. ASSUME NEW name, Escape(name) PROVE Same
  BY <1>1, <1>2 DEF Escape
<1>3. ASSUME Control PROVE Same
  BY <1>1, <1>3 DEF Control
<1>. HIDE DEF Same
<1>4. ASSUME NEW g, ParseCodepoint(g) \/ ParseTab(g) \/ ParseLF(g) \/ ParseCR \/ ParseBackspace
      PROVE  Same
  <2>1. ParseCodepoint(g) => Same
    BY <1>1 DEF ParseCodepoint, Same
  <2>2. ParseTab(g) => Same
    BY <1>3 DEF ParseTab
  <2>3. ParseLF(g) => Same
    BY <1>3 DEF ParseLF
  <2>4. ParseCR \/ ParseBackspace => Same
    BY <1>3 DEF ParseCR, ParseBackspace
  <2>. QED
    BY <1>4, <2>1, <2>2, <2>3, <2>4
<1>5. ASSUME NEW g, NEW n, NEW arg, NEW what,
             Erase(what, arg, g) \/ EraseCharacters(n, g) \/ ScrollLines(n, g)
      PROVE  Same
  <2>1. Erase(what, arg, g) => Same
    BY <1>2 DEF Erase
  <2>2. EraseCharacters(n, g) => Same
    BY <1>2 DEF EraseCharacters
  <2>3. ScrollLines(n, g) => Same
    BY <1>2 DEF ScrollLines
  <2>. QED
    BY <1>5, <2>1, <2>2, <2>3
<1>6. ASSUME NEW n, MoveCursor(n) \/ LinePosition(n) \/ DeleteCharacters(n) \/ InsertCharacters(n)
                    \/ RepeatCharacter(n)
      PROVE  Same
  <2>1. MoveCursor(n) => Same
    BY <1>2 DEF MoveCursor
  <2>2. LinePosition(n) => Same
    BY <1>2 DEF LinePosition
  <2>3. DeleteCharacters(n) => Same
    BY <1>2 DEF DeleteCharacters
  <2>4. InsertCharacters(n) => Same
    BY <1>2 DEF InsertCharacters
  <2>5. RepeatCharacter(n) => Same
    BY <1>2 DEF RepeatCharacter
  <2>. QED
    BY <1>6, <2>1, <2>2, <2>3, <2>4, <2>5
<1>7. ReverseIndex => Same
  BY <1>2 DEF ReverseIndex
<1>8. SaveCursor => Same
  BY <1>2 DEF SaveCursor
<1>9. RestoreCursor => Same
  BY <1>2 DEF RestoreCursor
<1>10. ASSUME NEW a, NEW b, SetScrollRegion(a, b) PROVE Same
  BY <1>2, <1>10 DEF SetScrollRegion
<1>11. ASSUME NEW value, SetAlternateMode(value) PROVE Same
  BY <1>2, <1>11 DEF SetAlternateMode
<1>12. Same
  BY <1>4, <1>5, <1>6, <1>7, <1>8, <1>9, <1>10, <1>11 DEF Reader
<1>. QED
  BY <1>12 DEF Same

\* A resize keeps the text of the history and of the rows of the normal screen
\* that it copies, of all of them if the screen has the size already.
LEMMA ResizeText ==
  ASSUME TerminalInv, NEW size \in Sizes, Resize(size), status' = "running"
  PROVE  LET s == screens["normal"] IN
         \E stop \in LineStart(s)..Height(s) :
           TextKept(VisibleOf(Cat(history, SubSeq(s.rows, 1, stop))),
                    VisibleOf(Cat(history', screens'["normal"].rows)))
<1>1. PICK old : Sound(old)
  BY DEF TerminalInv
<1>2. /\ size \in Numbers \X Numbers /\ size[1] \in Numbers /\ size[2] \in Numbers /\ size[1] \in Nat
      /\ old \in Numbers \X Numbers /\ old[1] \in Nat /\ old[2] \in Nat /\ old[2] # 0
  BY <1>1, SizesAssumption DEF Sound, Numbers
<1>3. maxRows \in Nat /\ history \in Seq(Lines)
  BY InvSized DEF Sized, TerminalInv, Histories
<1>. DEFINE s == screens["normal"]
<1>4. PICK garbage \in BOOLEAN :
        LET hg == ResizeHistory(history, size[1], maxRows, garbage) IN
         IF <<Width(s), Height(s)>> = size
         THEN /\ history' = hg
              /\ screens' = [m \in DOMAIN screens |-> WholeRegion(screens[m], size[2])]
              /\ UNCHANGED status
         ELSE IF \E m \in DOMAIN screens : screens[m].y > Height(screens[m])
         THEN status' = "outside" /\ history' = hg /\ UNCHANGED screens
         ELSE \E stop \in [normal : Stops("normal"), alternate : Stops("alternate")] :
                /\ LET new == [m \in DOMAIN screens |-> Resized(screens[m], size, stop[m])]
                   IN /\ screens' = [m \in DOMAIN screens |-> WholeRegion(new[m].s, size[2])]
                      /\ history' = Evicted(hg, new["normal"].out)
                /\ UNCHANGED status
  BY DEF Resize
<1>. DEFINE hg == ResizeHistory(history, size[1], maxRows, garbage)
<1>5. hg \in Seq(Lines) /\ Len(hg) <= maxRows
  BY <1>2, <1>3, ResizeHistoryType DEF Histories
<1>6. /\ DOMAIN screens = Modes /\ s \in States(old) /\ Width(s) = old[1] /\ Height(s) = old[2]
      /\ s.rows \in Seq(Lines) /\ Len(s.rows) = old[2] /\ s.y \in Int
  BY <1>1, <1>2, SizeFacts DEF Sound, Modes, Height, Lines, States, Shape
<1>7. "normal" \in Modes /\ LineStart(s) \in Nat
  BY <1>2, <1>6, LineStartType DEF Modes
<1>8. \A u, n : WholeRegion(u, n).rows = u.rows
  BY DEF WholeRegion
<1>9. CASE <<Width(s), Height(s)>> = size
  <2>1. history' = hg /\ screens' = [m \in Modes |-> WholeRegion(screens[m], size[2])]
    BY <1>4, <1>6, <1>9
  <2>2. screens'["normal"].rows = s.rows
    BY <1>7, <1>8, <2>1
  <2>3. SubSeq(s.rows, 1, old[2]) = s.rows
    BY <1>6
  <2>. DEFINE none == << >>
  <2>4. none \in Seq(Lines) /\ Cat(none, s.rows) = s.rows /\ Cat(hg, none) = hg
    <3>1. none \in Seq(Lines)
      OBVIOUS
    <3>. QED
      BY <1>5, <1>6, <3>1, CatFacts
  <2>. HIDE DEF none
  <2>5. hg = Trimmed(Cat(hg, none), maxRows)
    BY <1>3, <1>5, <2>4 DEF Trimmed
  <2>6. TextKept(VisibleOf(Cat(history, s.rows)), VisibleOf(Cat(history', s.rows)))
    BY <1>2, <1>3, <1>6, <2>1, <2>4, <2>5, RewrappedText
  <2>7. old[2] \in LineStart(s)..Height(s)
    BY <1>2, <1>6, <1>7, LineStartBound
  <2>. QED
    BY <2>2, <2>3, <2>6, <2>7
<1>10. CASE <<Width(s), Height(s)>> # size
  <2>1. ~ \E m \in DOMAIN screens : screens[m].y > Height(screens[m])
    BY <1>4, <1>10
  <2>2. PICK stop \in [normal : Stops("normal"), alternate : Stops("alternate")] :
          LET new == [m \in DOMAIN screens |-> Resized(screens[m], size, stop[m])] IN
          /\ screens' = [m \in DOMAIN screens |-> WholeRegion(new[m].s, size[2])]
          /\ history' = Evicted(hg, new["normal"].out)
    BY <1>4, <1>10, <2>1
  <2>. DEFINE k == stop["normal"]
              u == Resized(s, size, k)
  <2>3. k \in LineStart(s)..Height(s) /\ k \in Nat /\ k <= old[2]
    <3>1. k \in LineStart(s)..Max({0, s.y})
      BY DEF Stops
    <3>2. s.y <= old[2]
      BY <1>6, <1>7, <2>1
    <3>3. Max({0, s.y}) = IF 0 >= s.y THEN 0 ELSE s.y
      <4>1. 0 \in Int
        OBVIOUS
      <4>. QED
        BY <1>6, <4>1, TwoNumbers
    <3>. QED
      BY <1>2, <1>6, <1>7, <3>1, <3>2, <3>3
  <2>4. screens'["normal"].rows = u.s.rows /\ history' = Trimmed(Cat(hg, u.out), maxRows)
    BY <1>6, <1>7, <1>8, <2>2 DEF Evicted, Cat
  <2>. HIDE DEF k
  <2>5. /\ u.out \in Seq(Lines) /\ u.s.rows \in Seq(Lines)
        /\ VisibleOf(Cat(u.out, u.s.rows)) = VisibleOf(SubSeq(s.rows, 1, k))
    BY <1>2, <1>6, <2>3, ResizedText
  <2>6. SubSeq(s.rows, 1, k) \in Seq(Lines)
    BY <1>6, <2>3, SplitFacts
  <2>. HIDE DEF u
  <2>7. TextKept(VisibleOf(Cat(history, SubSeq(s.rows, 1, k))),
                 VisibleOf(Cat(history', u.s.rows)))
    BY <1>2, <1>3, <2>4, <2>5, <2>6, RewrappedText
  <2>. QED
    BY <2>3, <2>4, <2>7
<1>. QED
  BY <1>9, <1>10

-----------------------------------------------------------------------------
(* The text that scrolls *)

\* What there is to see of a terminal under lock: its history, then its screen.
Shown(t) == VisibleOf(Cat(t.h, t.s.rows))

\* From t to u lines may have been scrolled into the history, and the oldest rows
\* of a history that is full are lost.
Scrolled(t, u) ==
  \E old \in Lines : /\ Shown(t) = Cat(old, Shown(u))
                     /\ Len(u.h) < maxRows => old = << >> /\ Len(t.h) < maxRows

\* A buffer is a sequence of rows.
LEMMA BufferRows ==
  ASSUME NEW w \in Nat, NEW h \in Nat, NEW rows \in [1..h -> [1..w -> Cell]]
  PROVE  rows \in Seq(Lines) /\ Len(rows) = h /\ DOMAIN rows = 1..h
<1>. DEFINE L == Lines
<1>1. [1..w -> Cell] \subseteq L
  BY DEF Lines
<1>. HIDE DEF L
<1>2. rows \in [1..h -> L]
  BY <1>1
<1>3. rows \in Seq(L) /\ Len(rows) = h
  BY <1>2
<1>. QED
  BY <1>2, <1>3 DEF L

\* The rows of a terminal.
LEMMA RowsFacts ==
  ASSUME NEW size \in Numbers \X Numbers, NEW t, Good(t, size)
  PROVE  /\ t.h \in Seq(Lines) /\ t.s.rows \in Seq(Lines) /\ Len(t.s.rows) = size[2]
         /\ \A j \in 1..size[2] : t.s.rows[j] \in [1..size[1] -> Cell]
         /\ Shown(t) \in Lines
<1>1. t.s.rows \in Buffers(size) /\ size[1] \in Nat /\ size[2] \in Nat
  BY GoodFacts
<1>2. \A j \in 1..size[2] : t.s.rows[j] \in [1..size[1] -> Cell]
  BY <1>1 DEF Buffers
<1>4. t.s.rows \in Seq(Lines) /\ Len(t.s.rows) = size[2]
  <2>. DEFINE rows == t.s.rows
              w == size[1]
              h == size[2]
  <2>1. w \in Nat /\ h \in Nat /\ rows \in [1..h -> [1..w -> Cell]]
    BY <1>1 DEF Buffers
  <2>. HIDE DEF rows, w, h
  <2>2. rows \in Seq(Lines) /\ Len(rows) = h
    BY <2>1, BufferRows
  <2>. QED
    BY <2>2 DEF rows, h
<1>5. t.h \in Seq(Lines)
  BY DEF Good, Terminals, Histories
<1>6. Shown(t) \in Lines
  <2>1. Cat(t.h, t.s.rows) \in Seq(Lines)
    BY <1>4, <1>5, VisibleJoined
  <2>. QED
    BY <2>1, VisibleFacts DEF Shown
<1>. QED
  BY <1>2, <1>4, <1>5, <1>6

\* Where neither the history nor the screen changes nothing scrolls.
LEMMA ScrolledNot ==
  ASSUME NEW t, NEW u, Shown(t) \in Lines, u.h = t.h, u.s.rows = t.s.rows
  PROVE  Scrolled(t, u) /\ Shown(u) \in Lines
<1>1. Shown(u) = Shown(t) /\ << >> \in Lines
  BY DEF Shown, Lines
<1>2. Shown(t) = Cat(<< >>, Shown(u))
  <2>1. Shown(u) \in Seq(Cell) /\ << >> \in Seq(Cell)
    BY <1>1 DEF Lines
  <2>. QED
    BY <1>1, <2>1, CatFacts
<1>. QED
  BY <1>1, <1>2 DEF Scrolled

\* Lines scroll, then others.
LEMMA ScrolledTwice ==
  ASSUME NEW t, NEW u, NEW v, Shown(v) \in Lines, Scrolled(t, u), Scrolled(u, v)
  PROVE  Scrolled(t, v)
<1>1. PICK a \in Lines : /\ Shown(t) = Cat(a, Shown(u))
                         /\ Len(u.h) < maxRows => a = << >> /\ Len(t.h) < maxRows
  BY DEF Scrolled
<1>2. PICK b \in Lines : /\ Shown(u) = Cat(b, Shown(v))
                         /\ Len(v.h) < maxRows => b = << >> /\ Len(u.h) < maxRows
  BY DEF Scrolled
<1>3. a \in Seq(Cell) /\ b \in Seq(Cell) /\ Shown(v) \in Seq(Cell)
  BY DEF Lines
<1>4. Cat(a, b) \in Lines /\ Shown(t) = Cat(Cat(a, b), Shown(v))
  <2>1. Cat(a, b) \in Seq(Cell) /\ Cat(Cat(a, b), Shown(v)) = Cat(a, Cat(b, Shown(v)))
    BY <1>3, CatFacts, CatAssociates
  <2>. QED
    BY <1>1, <1>2, <2>1 DEF Lines
<1>5. Len(v.h) < maxRows => Cat(a, b) = << >> /\ Len(t.h) < maxRows
  <2>1. Cat(<< >>, << >>) = << >>
    <3>1. << >> \in Seq(Cell)
      OBVIOUS
    <3>. QED
      BY <3>1, CatFacts
  <2>. QED
    BY <1>1, <1>2, <2>1
<1>. QED
  BY <1>4, <1>5 DEF Scrolled

\* copyRow() takes all that can be seen of a row.
LEMMA CopyRowText ==
  ASSUME NEW w \in Nat, NEW row \in [1..w -> Cell], NEW garbage \in BOOLEAN
  PROVE  CopyRow(row, garbage) \in Lines /\ SeenOf(CopyRow(row, garbage)) = SeenOf(row)
<1>1. row \in Lines /\ DOMAIN row = 1..w /\ << >> \in Lines
  BY DEF Lines
<1>2. CopyRow(row, garbage) \in Lines
  BY CopyRowType DEF Lines
<1>3. CASE Visible(row) = {}
  <2>1. \A i \in DOMAIN row : row[i].c = 0
    BY <1>3 DEF Visible
  <2>2. SeenOf(row) = << >>
    BY <1>1, <2>1, BlanksUnseen
  <2>3. SeenOf(<< >>) = << >>
    BY <1>1, BlanksUnseen
  <2>. QED
    BY <1>2, <1>3, <2>2, <2>3 DEF CopyRow
<1>4. CASE Visible(row) # {}
  <2>. DEFINE k == Max(Visible(row))
  <2>1. Visible(row) \subseteq 0..w /\ Visible(row) \subseteq 1..w
    BY <1>1 DEF Visible
  <2>2. k \in Visible(row) /\ \A i \in Visible(row) : i <= k
    BY <1>4, <2>1, GreatestNumber
  <2>. HIDE DEF k
  <2>3. k \in 1..w
    BY <2>1, <2>2
  <2>4. \A i \in (k + 1)..w : row[i].c = 0
    <3>. SUFFICES ASSUME NEW i \in (k + 1)..w PROVE row[i].c = 0
      OBVIOUS
    <3>1. i \in 1..w /\ ~ (i <= k)
      BY <2>3
    <3>2. i \notin Visible(row)
      BY <2>2, <3>1
    <3>. QED
      BY <1>1, <3>1, <3>2 DEF Visible
  <2>5. SeenOf(SubSeq(row, 1, k)) = SeenOf(row)
    BY <2>3, <2>4, CutText
  <2>. QED
    BY <1>2, <1>4, <2>5 DEF CopyRow, k
<1>. QED
  BY <1>3, <1>4

\* A row that is added to the history comes after all of it, cut or not; the rows
\* that are dropped for it are the oldest.
LEMMA AddHistoryRowText ==
  ASSUME NEW width \in Nat, NEW max \in Nat, NEW h \in Seq(Lines), NEW row \in Lines,
         width # 0 \/ row = << >>
  PROVE  LET g == AddHistoryRow(h, row, width, max) IN
         /\ g \in Seq(Lines)
         /\ \E old \in Seq(Lines) :
              /\ Cat(VisibleOf(h), SeenOf(row)) = Cat(VisibleOf(old), VisibleOf(g))
              /\ Len(g) < max => old = << >> /\ Len(h) < max
<1>. DEFINE p == Pieces(row, width)
            hp == Cat(h, p)
            g == Trimmed(hp, max)
<1>1. p \in Seq(Lines)
  BY PiecesType DEF Lines
<1>2. FlattenSeq(p) = row
  <2>1. CASE width # 0
    BY <2>1, PiecesJoined DEF Numbers
  <2>2. CASE width = 0
    <3>1. row = << >> /\ << >> \in Seq(Cell) /\ Len(row) <= width
      BY <2>2
    <3>2. p = <<row>>
      BY <3>1 DEF Pieces
    <3>. QED
      BY <3>1, <3>2, FlattenFew
  <2>. QED
    BY <2>1, <2>2
<1>. HIDE DEF p
<1>3. hp \in Seq(Lines) /\ VisibleOf(hp) = Cat(VisibleOf(h), SeenOf(row))
  BY <1>1, <1>2, VisibleJoined, VisibleFacts
<1>4. Len(hp) = Len(h) + Len(p) /\ Len(h) \in Nat /\ Len(p) \in Nat
  BY <1>1, ConcatFacts DEF Cat
<1>. HIDE DEF hp
<1>5. PICK old \in Seq(Lines) : hp = Cat(old, g) /\ (Len(g) < max => old = << >>)
  BY <1>3, TrimmedText
<1>6. g \in Seq(Lines)
  BY <1>3, TrimmedFacts
<1>. HIDE DEF g
<1>7. VisibleOf(hp) = Cat(VisibleOf(old), VisibleOf(g))
  BY <1>5, <1>6, VisibleJoined
<1>8. Len(g) < max => Len(h) < max
  <2>. SUFFICES ASSUME Len(g) < max PROVE Len(h) < max
    OBVIOUS
  <2>1. hp = g
    <3>1. old = << >>
      BY <1>5
    <3>2. Cat(<< >>, g) = g
      BY <1>6, CatFacts
    <3>. QED
      BY <1>5, <3>1, <3>2
  <2>2. Len(h) <= Len(g)
    BY <1>4, <2>1
  <2>3. Len(g) \in Nat
    BY <1>6
  <2>. QED
    BY <1>4, <2>2, <2>3
<1>9. AddHistoryRow(h, row, width, max) = g
  BY DEF AddHistoryRow, g, hp, p, Cat
<1>. QED
  BY <1>3, <1>5, <1>6, <1>7, <1>8, <1>9

\* The line at the top is all that can be seen of the screen before the others.
LEMMA DeleteLineText ==
  ASSUME NEW size \in Numbers \X Numbers, NEW rows \in Buffers(size),
         NEW bottom \in 1..size[2]
  PROVE  /\ rows[1] \in Lines
         /\ DeleteLine(rows, 0, bottom) \in Seq(Lines)
         /\ VisibleOf(rows) = Cat(SeenOf(rows[1]), VisibleOf(DeleteLine(rows, 0, bottom)))
<1>. DEFINE n == size[2]
            new == DeleteLine(rows, 0, bottom)
            blank == BlankRow(Len(rows[1]))
            x == SubSeq(rows, 2, n)
            m == SubSeq(x, 1, bottom - 1)
            r == SubSeq(x, bottom, n - 1)
            gap == <<blank>>
            mb == Cat(m, gap)
            mbr == Cat(mb, r)
<1>1. /\ size[1] \in Nat /\ n \in Nat /\ n # 0 /\ bottom \in Nat /\ bottom >= 1 /\ bottom <= n
      /\ 1 \in 1..n
  BY DEF Numbers
<1>2. [1..size[1] -> Cell] \subseteq Lines
  BY <1>1 DEF Lines
<1>3. rows \in Seq(Lines) /\ Len(rows) = n /\ rows[1] \in [1..size[1] -> Cell] /\ DOMAIN rows = 1..n
  BY <1>1, BufferRows DEF Buffers
<1>4. new \in Seq(Lines) /\ Len(new) = n
  <2>1. new \in Buffers(size)
    BY <1>1, DeleteLineType
  <2>. HIDE DEF new
  <2>2. n \in Nat /\ size[1] \in Nat /\ new \in [1..n -> [1..size[1] -> Cell]]
    BY <1>1, <2>1 DEF Buffers
  <2>. HIDE DEF n
  <2>. QED
    BY <2>2, BufferRows
<1>5. /\ blank \in Lines /\ DOMAIN blank = 1..size[1]
      /\ \A i \in DOMAIN blank : blank[i].c = 0
  <2>1. Len(rows[1]) = size[1]
    BY <1>1, <1>3
  <2>. QED
    BY <1>1, <1>2, <2>1, BlankCell DEF BlankRow, Blank
<1>6. \A j \in 1..n : new[j] = IF j = bottom THEN blank
                               ELSE IF j < bottom THEN rows[j + 1] ELSE rows[j]
  <2>1. \A j \in 1..n : j \in (0 + 1)..(bottom - 1) <=> j < bottom
    BY <1>1
  <2>. QED
    BY <1>3, <2>1 DEF DeleteLine
<1>. HIDE DEF new, blank, n
<1>7. /\ x \in Seq(Lines) /\ Len(x) = n - 1 /\ \A i \in 1..(n - 1) : x[i] = rows[1 + i]
      /\ rows = Cat(SubSeq(rows, 1, 1), x)
  <2>1. 1 \in 0..Len(rows)
    BY <1>1, <1>3
  <2>. HIDE DEF x
  <2>2. x = SubSeq(rows, 1 + 1, Len(rows))
    BY <1>3 DEF x
  <2>. QED
    BY <1>3, <2>1, <2>2, SplitFacts
<1>8. SubSeq(rows, 1, 1) = <<rows[1]>>
  <2>. DEFINE one == SubSeq(rows, 1, 1)
              L == Lines
              e == rows[1]
  <2>1. rows \in Seq(L) /\ 1 \in 0..Len(rows) /\ e \in L
    BY <1>1, <1>2, <1>3
  <2>. HIDE DEF L
  <2>2. one \in Seq(L) /\ Len(one) = 1 /\ \A i \in 1..1 : one[i] = rows[i]
    BY <2>1, SplitFacts
  <2>. HIDE DEF one
  <2>3. one[1] = e
    BY <2>2
  <2>. HIDE DEF e
  <2>4. <<e>> \in Seq(L) /\ Len(<<e>>) = 1 /\ <<e>>[1] = e /\ \A i \in 1..1 : one[i] = <<e>>[i]
    BY <2>1, <2>3
  <2>5. one = <<e>>
    BY <2>2, <2>4, SameSequence
  <2>. QED
    BY <2>5 DEF one, e
<1>. HIDE DEF x
<1>9. /\ m \in Seq(Lines) /\ Len(m) = bottom - 1 /\ \A i \in 1..(bottom - 1) : m[i] = x[i]
      /\ r \in Seq(Lines) /\ Len(r) = n - bottom /\ \A i \in 1..(n - bottom) : r[i] = x[(bottom - 1) + i]
      /\ x = Cat(m, r)
  <2>. DEFINE k == bottom - 1
  <2>1. k \in 0..Len(x) /\ Len(x) - k = n - bottom
    BY <1>1, <1>7
  <2>2. m = SubSeq(x, 1, k) /\ r = SubSeq(x, k + 1, Len(x))
    BY <1>1, <1>7
  <2>. HIDE DEF k, m, r
  <2>3. /\ m \in Seq(Lines) /\ Len(m) = k /\ \A i \in 1..k : m[i] = x[i]
        /\ r \in Seq(Lines) /\ Len(r) = n - bottom /\ \A i \in 1..(n - bottom) : r[i] = x[k + i]
        /\ x = Cat(m, r)
    BY <1>7, <2>1, <2>2, SplitFacts
  <2>. QED
    BY <2>3 DEF k
<1>. HIDE DEF m, r
<1>10. gap \in Seq(Lines) /\ Len(gap) = 1 /\ gap[1] = blank /\ DOMAIN gap = 1..1
  BY <1>5
<1>. HIDE DEF gap
<1>11. new = mbr
  <2>1. /\ mbr \in Seq(Lines) /\ Len(mbr) = (bottom - 1) + 1 + (n - bottom)
        /\ \A i \in 1..(bottom - 1) : mbr[i] = m[i]
        /\ \A i \in 1..1 : mbr[(bottom - 1) + i] = gap[i]
        /\ \A i \in 1..(n - bottom) : mbr[(bottom - 1) + 1 + i] = r[i]
    <3>1. m \in Seq(Lines) /\ gap \in Seq(Lines) /\ r \in Seq(Lines)
      BY <1>9, <1>10
    <3>2. Cat(Cat(m, gap), r) \in Seq(Lines) /\ Parts(Cat(Cat(m, gap), r), m, gap, r)
      BY ONLY <3>1, ThreeParts
    <3>. HIDE DEF mbr
    <3>3. mbr \in Seq(Lines) /\ Parts(mbr, m, gap, r)
      BY <3>2 DEF mbr
    <3>. QED
      BY <1>9, <1>10, <3>3 DEF Parts
  <2>. HIDE DEF mbr
  <2>2. Len(mbr) = n
    BY <1>1, <2>1
  <2>3. ASSUME NEW j \in 1..n PROVE new[j] = mbr[j]
    <3>1. CASE j < bottom
      <4>1. j \in 1..(bottom - 1) /\ j \in 1..(n - 1) /\ 1 + j = j + 1 /\ j # bottom
        BY <1>1, <3>1
      <4>2. new[j] = rows[j + 1]
        BY <1>6, <3>1, <4>1
      <4>3. mbr[j] = m[j] /\ m[j] = x[j]
        BY <1>9, <2>1, <4>1
      <4>4. x[j] = rows[j + 1]
        BY <1>7, <4>1
      <4>. QED
        BY <4>2, <4>3, <4>4
    <3>2. CASE j = bottom
      <4>1. (bottom - 1) + 1 = j /\ 1 \in 1..1
        BY <1>1, <3>2
      <4>2. mbr[(bottom - 1) + 1] = gap[1]
        BY <2>1, <4>1
      <4>. QED
        BY <1>6, <1>10, <3>2, <4>1, <4>2
    <3>3. CASE j > bottom
      <4>. DEFINE i == j - bottom
      <4>1. /\ i \in 1..(n - bottom) /\ (bottom - 1) + 1 + i = j
            /\ (bottom - 1) + i \in 1..(n - 1) /\ 1 + ((bottom - 1) + i) = j
            /\ j # bottom /\ ~ (j < bottom)
        BY <1>1, <3>3
      <4>. HIDE DEF i
      <4>2. mbr[j] = r[i]
        BY <2>1, <4>1
      <4>3. r[i] = x[(bottom - 1) + i]
        BY <1>9, <4>1
      <4>4. x[(bottom - 1) + i] = rows[j]
        BY <1>7, <4>1
      <4>. QED
        BY <1>6, <4>1, <4>2, <4>3, <4>4
    <3>. QED
      BY <1>1, <3>1, <3>2, <3>3
  <2>. QED
    BY <1>4, <2>1, <2>2, <2>3, SameSequence
<1>12. VisibleOf(new) = VisibleOf(x)
  <2>1. mb \in Seq(Lines) /\ VisibleOf(mb) = Cat(VisibleOf(m), VisibleOf(gap))
    <3>1. mb = Cat(m, gap) /\ m \in Seq(Lines) /\ gap \in Seq(Lines)
      BY <1>9, <1>10
    <3>. QED
      BY ONLY <3>1, VisibleJoined
  <2>2. VisibleOf(gap) = << >>
    <3>1. \A j \in DOMAIN gap : gap[j] = blank
      BY <1>10
    <3>2. \A j \in DOMAIN gap : \A i \in DOMAIN gap[j] : gap[j][i].c = 0
      BY <1>5, <3>1
    <3>. QED
      BY <1>10, <3>2, BlankRowsUnseen
  <2>3. Cat(VisibleOf(m), << >>) = VisibleOf(m)
    <3>1. VisibleOf(m) \in Seq(Cell)
      BY <1>9, VisibleFacts DEF Lines
    <3>. QED
      BY <3>1, CatFacts
  <2>. HIDE DEF mb
  <2>4. VisibleOf(mbr) = Cat(VisibleOf(m), VisibleOf(r))
    BY <1>9, <2>1, <2>2, <2>3, VisibleJoined
  <2>. QED
    BY <1>9, <1>11, <2>4, VisibleJoined
<1>13. VisibleOf(rows) = Cat(SeenOf(rows[1]), VisibleOf(x))
  <2>1. rows[1] \in Seq(Cell) /\ rows[1] \in Lines /\ <<rows[1]>> \in Seq(Lines)
    BY <1>2, <1>3 DEF Lines
  <2>2. FlattenSeq(<<rows[1]>>) = rows[1]
    BY <2>1, FlattenFew
  <2>3. VisibleOf(<<rows[1]>>) = SeenOf(rows[1])
    BY <2>1, <2>2, VisibleFacts
  <2>4. VisibleOf(Cat(<<rows[1]>>, x)) = Cat(VisibleOf(<<rows[1]>>), VisibleOf(x))
    BY <1>7, <2>1, VisibleJoined
  <2>. QED
    BY <1>7, <1>8, <2>3, <2>4
<1>. QED
  BY <1>2, <1>3, <1>4, <1>12, <1>13 DEF new

\* A line that is scrolled off the top of the screen of the normal mode is in the
\* history, below all that was there, and nothing else changes.
LEMMA DeleteOneLineText ==
  ASSUME NEW size \in Numbers \X Numbers, NEW t, Good(t, size), Sized,
         NEW bottom \in Int, NEW garbage \in BOOLEAN, KeepsHistory
  PROVE  LET u == DeleteOneLine(t, 0, bottom, garbage) IN
         /\ Scrolled(t, u) /\ Shown(u) \in Lines
         /\ u.s.scrollStart = t.s.scrollStart
<1>. DEFINE u == DeleteOneLine(t, 0, bottom, garbage)
            row == CopyRow(t.s.rows[0 + 1], garbage)
            rows == DeleteLine(t.s.rows, 0, bottom)
            h == AddHistoryRow(t.h, row, rect[1], maxRows)
            v == [t EXCEPT !.s.rows = rows, !.h = h]
<1>0. Shown(t) \in Lines
  BY RowsFacts
<1>1. CASE ~ (Running(t) /\ IsRegion(t.s, 0, bottom) /\ ~ (rect[1] = 0 /\ row # << >>))
  <2>1. u \in {t, Outside(t), Endless(t)}
    BY <1>1 DEF DeleteOneLine
  <2>2. u.h = t.h /\ u.s = t.s
    BY <2>1 DEF Outside, Endless, Good, Terminals
  <2>. HIDE DEF u
  <2>3. Scrolled(t, u) /\ Shown(u) \in Lines
    BY <1>0, <2>2, ScrolledNot
  <2>. QED
    BY <2>2, <2>3 DEF u
<1>2. CASE Running(t) /\ IsRegion(t.s, 0, bottom) /\ ~ (rect[1] = 0 /\ row # << >>)
  <2>1. u = v
    BY <1>2 DEF DeleteOneLine
  <2>2. bottom \in 1..size[2] /\ t.s.rows \in Buffers(size) /\ size[1] \in Nat /\ 1 \in 1..size[2]
    BY <1>2, GoodFacts DEF IsRegion
  <2>3. /\ v.s.rows = rows /\ v.h = h /\ v.s.scrollStart = t.s.scrollStart
    BY DEF Good, Terminals, States, Shape
  <2>4. /\ rows \in Seq(Lines) /\ t.s.rows[1] \in Lines
        /\ VisibleOf(t.s.rows) = Cat(SeenOf(t.s.rows[1]), VisibleOf(rows))
    BY <2>2, DeleteLineText
  <2>5. row \in Lines /\ SeenOf(row) = SeenOf(t.s.rows[1])
    <3>1. t.s.rows[1] \in [1..size[1] -> Cell]
      BY <2>2 DEF Buffers
    <3>2. row = CopyRow(t.s.rows[1], garbage)
      OBVIOUS
    <3>. HIDE DEF row
    <3>. QED
      BY <2>2, <3>1, <3>2, CopyRowText
  <2>6. t.h \in Seq(Lines) /\ t.s.rows \in Seq(Lines) /\ rect[1] \in Nat /\ maxRows \in Nat
    BY RowsFacts DEF Sized
  <2>. HIDE DEF row, rows
  <2>7. /\ h \in Seq(Lines)
        /\ \E old \in Seq(Lines) :
             /\ Cat(VisibleOf(t.h), SeenOf(row)) = Cat(VisibleOf(old), VisibleOf(h))
             /\ Len(h) < maxRows => old = << >> /\ Len(t.h) < maxRows
    BY <1>2, <2>5, <2>6, AddHistoryRowText
  <2>. HIDE DEF h
  <2>8. PICK old \in Seq(Lines) :
             /\ Cat(VisibleOf(t.h), SeenOf(row)) = Cat(VisibleOf(old), VisibleOf(h))
             /\ Len(h) < maxRows => old = << >> /\ Len(t.h) < maxRows
    BY <2>7
  <2>. DEFINE a == VisibleOf(t.h)
              b == SeenOf(row)
              c == VisibleOf(rows)
              d == VisibleOf(old)
              e == VisibleOf(h)
  <2>9. a \in Seq(Cell) /\ b \in Seq(Cell) /\ c \in Seq(Cell) /\ d \in Seq(Cell) /\ e \in Seq(Cell)
    BY <2>4, <2>5, <2>6, <2>7, VisibleFacts, MarkedType DEF Lines
  <2>10. Shown(t) = Cat(a, Cat(b, c))
    BY <2>4, <2>5, <2>6, VisibleJoined DEF Shown
  <2>11. Shown(u) = Cat(e, c) /\ Shown(u) \in Lines
    <3>1. VisibleOf(Cat(h, rows)) = Cat(e, c) /\ Cat(h, rows) \in Seq(Lines)
      BY <2>4, <2>7, VisibleJoined
    <3>2. Shown(u) = VisibleOf(Cat(h, rows))
      BY <2>1, <2>3 DEF Shown
    <3>. QED
      BY <3>1, <3>2, VisibleFacts
  <2>12. Cat(a, b) = Cat(d, e)
    BY <2>8
  <2>. HIDE DEF a, b, c, d, e, u, v
  <2>13. Shown(t) = Cat(d, Shown(u))
    <3>1. Cat(Cat(a, b), c) = Cat(a, Cat(b, c)) /\ Cat(Cat(d, e), c) = Cat(d, Cat(e, c))
      BY <2>9, CatAssociates
    <3>. QED
      BY <2>10, <2>11, <2>12, <3>1
  <2>14. Len(u.h) < maxRows => d = << >> /\ Len(t.h) < maxRows
    <3>1. ASSUME old = << >> PROVE d = << >>
      <4>1. << >> \in Seq(Lines) /\ DOMAIN << >> = {}
        OBVIOUS
      <4>2. VisibleOf(<< >>) = << >>
        BY <4>1, BlankRowsUnseen
      <4>. QED
        BY <3>1, <4>2 DEF d
    <3>2. u.h = h
      BY <2>1, <2>3
    <3>. QED
      BY <2>8, <3>1, <3>2
  <2>15. d \in Lines
    BY <2>9 DEF Lines
  <2>. QED
    BY <2>1, <2>3, <2>11, <2>13, <2>14, <2>15 DEF Scrolled, u
<1>. QED
  BY <1>1, <1>2

\* Before a character is written lines may scroll.
LEMMA UpdateCursorText ==
  ASSUME NEW size \in Numbers \X Numbers, NEW t, Good(t, size), Sized,
         NEW garbage \in BOOLEAN, KeepsHistory, t.s.scrollStart = 0
  PROVE  LET u == UpdateCursorPosition(t, garbage) IN
         Scrolled(t, u) /\ Shown(u) \in Lines
<1>. DEFINE w == Width(t.s)
            wraps == IF t.s.x < 0 THEN 0 ELSE t.s.x \div w
            scrolls == t.s.y < t.s.scrollEnd /\ t.s.scrollEnd <= t.s.y + wraps
            scrolled == IF scrolls THEN DeleteOneLine(t, t.s.scrollStart, t.s.scrollEnd, garbage) ELSE t
            x == t.s.x - wraps * w
            y == Min2(t.s.y + wraps, Height(t.s) - 1)
            u == [scrolled EXCEPT !.s.x = x, !.s.y = y, !.s.last = <<x, y>>]
<1>0. Shown(t) \in Lines /\ t.s.scrollEnd \in Int
  BY RowsFacts, GoodFacts
<1>1. Scrolled(t, scrolled) /\ Shown(scrolled) \in Lines /\ Good(scrolled, size)
  <2>1. CASE scrolls
    <3>. DEFINE v == DeleteOneLine(t, 0, t.s.scrollEnd, garbage)
    <3>1. scrolled = v /\ 0 \in Int
      BY <2>1
    <3>2. Scrolled(t, v) /\ Shown(v) \in Lines
      BY <1>0, DeleteOneLineText
    <3>3. Good(v, size)
      BY <1>0, <3>1, DeleteOneLineGood
    <3>. QED
      BY <3>1, <3>2, <3>3
  <2>2. CASE ~ scrolls
    <3>1. Scrolled(t, t)
      BY <1>0, ScrolledNot
    <3>. QED
      BY <1>0, <2>2, <3>1
  <2>. QED
    BY <2>1, <2>2
<1>2. UpdateCursorPosition(t, garbage) = u
  BY DEF UpdateCursorPosition
<1>. HIDE DEF scrolled, x, y
<1>3. u.h = scrolled.h /\ u.s.rows = scrolled.s.rows
  BY <1>1 DEF Good, Terminals, States, Shape
<1>. HIDE DEF u
<1>4. Shown(u) = Shown(scrolled)
  BY <1>3 DEF Shown
<1>5. Scrolled(t, u)
  BY <1>1, <1>3, <1>4 DEF Scrolled
<1>. QED
  BY <1>1, <1>2, <1>4, <1>5

\* What there is to see when a cell is replaced: the same before it and after it.
AroundCell(S, top, rows, j, i) ==
  \E p, q \in Seq(S) :
    /\ \A cell \in S :
         VisibleOf(Cat(top, [rows EXCEPT ![j] = [rows[j] EXCEPT ![i] = cell]]))
           = Cat(Cat(p, Seen(cell)), q)
    /\ VisibleOf(Cat(top, rows)) = Cat(Cat(p, Seen(rows[j][i])), q)

\* It is so for every cell of a buffer below other rows.
LEMMA CellText ==
  ASSUME NEW S, NEW top \in Seq(Seq(S)), NEW w \in Nat, NEW h \in Nat,
         NEW rows \in [1..h -> [1..w -> S]], NEW j \in 1..h, NEW i \in 1..w
  PROVE  AroundCell(S, top, rows, j, i)
<1>. DEFINE R == Seq(S)
            row == rows[j]
<1>1. row \in Seq(S) /\ Len(row) = w /\ row[i] \in S
  OBVIOUS
<1>2. rows \in Seq(R) /\ Len(rows) = h
  <2>1. [1..w -> S] \subseteq R
    OBVIOUS
  <2>. HIDE DEF R
  <2>2. rows \in [1..h -> R]
    BY <2>1
  <2>. QED
    BY <2>2
<1>3. PICK a, b \in Seq(R) :
        /\ \A e \in R : [rows EXCEPT ![j] = e] = Cat(Cat(a, <<e>>), b)
        /\ rows = Cat(Cat(a, <<rows[j]>>), b)
  <2>. DEFINE b == rows
  <2>. HIDE DEF R
  <2>1. b \in Seq(R) /\ j \in 1..Len(b)
    BY <1>2
  <2>. HIDE DEF b
  <2>2. \E x, y \in Seq(R) :
          /\ \A e \in R : [b EXCEPT ![j] = e] = Cat(Cat(x, <<e>>), y)
          /\ b = Cat(Cat(x, <<b[j]>>), y)
    BY ONLY <2>1, Replaced
  <2>. QED
    BY <2>2 DEF b
<1>4. PICK c, d \in Seq(S) :
        /\ \A e \in S : [row EXCEPT ![i] = e] = Cat(Cat(c, <<e>>), d)
        /\ row = Cat(Cat(c, <<row[i]>>), d)
  <2>. HIDE DEF row
  <2>1. row \in Seq(S) /\ i \in 1..Len(row)
    BY <1>1
  <2>. QED
    BY ONLY <2>1, Replaced
<1>. DEFINE vt == VisibleOf(top)
            va == VisibleOf(a)
            vb == VisibleOf(b)
            vc == SeenOf(c)
            vd == SeenOf(d)
            p == Cat(vt, Cat(va, vc))
            q == Cat(vd, vb)
<1>5. a \in Seq(Seq(S)) /\ b \in Seq(Seq(S))
  OBVIOUS
<1>6. vt \in Seq(S) /\ va \in Seq(S) /\ vb \in Seq(S) /\ vc \in Seq(S) /\ vd \in Seq(S)
  BY <1>5, VisibleCells, MarkedCells
<1>7. ASSUME NEW cell \in S
      PROVE  VisibleOf(Cat(top, [rows EXCEPT ![j] = [row EXCEPT ![i] = cell]]))
               = Cat(Cat(p, Seen(cell)), q)
  <2>. DEFINE one == <<cell>>
              e == [row EXCEPT ![i] = cell]
              only == <<e>>
              n == [rows EXCEPT ![j] = e]
              see == Seen(cell)
  <2>1. one \in Seq(S) /\ Len(one) = 1 /\ one[1] = cell /\ DOMAIN one = 1..1
    OBVIOUS
  <2>2. see \in Seq(S)
    BY DEF Seen
  <2>3. SeenOf(one) = see
    <3>1. Marked(one) = <<see>>
      BY DEF Marked
    <3>2. FlattenSeq(<<see>>) = see
      BY <2>2, FlattenFew
    <3>. QED
      BY <3>1, <3>2 DEF SeenOf
  <2>4. e \in Seq(S) /\ e = Cat(Cat(c, one), d)
    <3>. HIDE DEF row
    <3>1. e \in Seq(S)
      BY <1>1
    <3>2. e = Cat(Cat(c, <<cell>>), d)
      BY <1>4
    <3>. QED
      BY <3>1, <3>2
  <2>. HIDE DEF one, e, see, row
  <2>5. SeenOf(e) = Cat(Cat(vc, see), vd)
    <3>1. Cat(c, one) \in Seq(S) /\ SeenOf(Cat(c, one)) = Cat(vc, see)
      BY <2>1, <2>3, SeenOfBoth
    <3>. QED
      BY <2>4, <3>1, SeenOfBoth
  <2>6. only \in Seq(Seq(S)) /\ VisibleOf(only) = SeenOf(e)
    <3>1. only \in Seq(Seq(S))
      BY <2>4
    <3>2. FlattenSeq(only) = e
      BY <2>4, FlattenFew
    <3>. QED
      BY <3>1, <3>2, VisibleCells
  <2>7. n = Cat(Cat(a, only), b)
    BY <1>3, <2>4
  <2>. HIDE DEF only, n, vt, va, vb, vc, vd
  <2>8. /\ n \in Seq(Seq(S)) /\ VisibleOf(n) = Cat(Cat(va, SeenOf(e)), vb)
    <3>1. Cat(a, only) \in Seq(Seq(S)) /\ VisibleOf(Cat(a, only)) = Cat(va, SeenOf(e))
      BY <1>5, <2>6, VisibleOfBoth DEF va
    <3>. QED
      BY <1>5, <2>7, <3>1, VisibleOfBoth DEF vb
  <2>9. VisibleOf(Cat(top, n)) = Cat(vt, Cat(Cat(va, Cat(Cat(vc, see), vd)), vb))
    BY <2>5, <2>8, VisibleOfBoth DEF vt
  <2>10. Cat(vt, Cat(Cat(va, Cat(Cat(vc, see), vd)), vb)) = Cat(Cat(p, see), q)
    <3>. DEFINE x == Cat(va, vc)
                y == Cat(vd, vb)
                xs == Cat(x, see)
    <3>1. Cat(va, Cat(Cat(vc, see), vd)) = Cat(xs, vd)
      BY <1>6, <2>2, CatInside
    <3>2. x \in Seq(S) /\ y \in Seq(S)
      BY <1>6, CatFacts
    <3>. HIDE DEF x, y
    <3>3. xs \in Seq(S)
      BY <2>2, <3>2, CatFacts
    <3>. HIDE DEF xs
    <3>4. Cat(Cat(xs, vd), vb) = Cat(xs, y)
      BY <1>6, <3>3, CatAssociates DEF y
    <3>5. Cat(vt, Cat(Cat(x, see), y)) = Cat(Cat(Cat(vt, x), see), y)
      BY <1>6, <2>2, <3>2, CatInside
    <3>. QED
      BY <3>1, <3>4, <3>5 DEF x, y, xs
  <2>. QED
    BY <2>9, <2>10 DEF n, e, see
<1>8. p \in Seq(S) /\ q \in Seq(S)
  <2>. HIDE DEF vt, va, vb, vc, vd
  <2>1. Cat(va, vc) \in Seq(S)
    BY <1>6, CatFacts
  <2>. QED
    BY <1>6, <2>1, CatFacts
<1>. HIDE DEF p, q
<1>9. VisibleOf(Cat(top, rows)) = Cat(Cat(p, Seen(row[i])), q)
  <2>1. [row EXCEPT ![i] = row[i]] = row /\ [rows EXCEPT ![j] = row] = rows
    OBVIOUS
  <2>. HIDE DEF row
  <2>. QED
    BY <1>1, <1>7, <2>1
<1>. QED
  BY <1>7, <1>8, <1>9 DEF AroundCell

\* The characters of cells.
LEMMA CodesFacts ==
  ASSUME NEW S, \A e \in S : e.c \in Nat, NEW a \in Seq(S)
  PROVE  /\ Codes(a) \in Seq(Nat) /\ Len(Codes(a)) = Len(a)
         /\ \A i \in 1..Len(a) : Codes(a)[i] = a[i].c
<1>1. DOMAIN a = 1..Len(a) /\ Len(a) \in Nat /\ \A i \in 1..Len(a) : a[i].c \in Nat
  OBVIOUS
<1>2. Codes(a) = [i \in 1..Len(a) |-> a[i].c]
  BY <1>1 DEF Codes
<1>. QED
  BY <1>1, <1>2

LEMMA CodesJoined ==
  ASSUME NEW S, \A e \in S : e.c \in Nat, NEW a \in Seq(S), NEW b \in Seq(S)
  PROVE  /\ Cat(a, b) \in Seq(S) /\ Codes(Cat(a, b)) = Cat(Codes(a), Codes(b))
<1>. DEFINE c == Cat(a, b)
            x == Codes(a)
            y == Codes(b)
            z == Codes(c)
            xy == Cat(x, y)
<1>0. Len(a) \in Nat /\ Len(b) \in Nat
  OBVIOUS
<1>1. c \in Seq(S) /\ Both(c, a, b)
  BY TwoParts
<1>. HIDE DEF c
<1>2. /\ x \in Seq(Nat) /\ Len(x) = Len(a) /\ \A i \in 1..Len(a) : x[i] = a[i].c
      /\ y \in Seq(Nat) /\ Len(y) = Len(b) /\ \A i \in 1..Len(b) : y[i] = b[i].c
      /\ z \in Seq(Nat) /\ Len(z) = Len(c) /\ \A i \in 1..Len(c) : z[i] = c[i].c
  BY <1>1, CodesFacts
<1>. HIDE DEF x, y, z
<1>3. xy \in Seq(Nat) /\ Both(xy, x, y)
  BY <1>2, TwoParts
<1>. HIDE DEF xy
<1>4. Len(z) = Len(a) + Len(b) /\ Len(xy) = Len(a) + Len(b)
  BY <1>0, <1>1, <1>2, <1>3 DEF Both
<1>5. ASSUME NEW i \in 1..(Len(a) + Len(b)) PROVE z[i] = xy[i]
  <2>1. CASE i <= Len(a)
    <3>1. i \in 1..Len(a) /\ i \in 1..Len(c)
      BY <1>0, <1>2, <1>4, <2>1
    <3>. QED
      BY <1>1, <1>2, <1>3, <3>1 DEF Both
  <2>2. CASE ~ (i <= Len(a))
    <3>. DEFINE k == i - Len(a)
    <3>1. k \in 1..Len(b) /\ i \in 1..Len(c) /\ Len(a) + k = i
      BY <1>0, <1>2, <1>4, <2>2
    <3>. HIDE DEF k
    <3>2. c[Len(a) + k] = b[k] /\ xy[Len(a) + k] = y[k]
      BY <1>1, <1>2, <1>3, <3>1 DEF Both
    <3>. QED
      BY <1>2, <3>1, <3>2
  <2>. QED
    BY <2>1, <2>2
<1>6. z = xy
  BY <1>2, <1>3, <1>4, <1>5, SameSequence
<1>. QED
  BY <1>1, <1>6 DEF c, x, y, z, xy

\* The code of what can be seen of a cell.
LEMMA SeenCodes ==
  ASSUME NEW S, \A e \in S : e.c \in Nat, NEW cell \in S
  PROVE  /\ Codes(Seen(cell)) \in Seq(Nat) /\ Len(Codes(Seen(cell))) <= 1
         /\ Codes(Seen(cell)) = IF cell.c = 0 THEN << >> ELSE <<cell.c>>
<1>1. cell.c \in Nat
  OBVIOUS
<1>2. CASE cell.c = 0
  <2>1. Seen(cell) = << >>
    BY <1>2 DEF Seen
  <2>2. << >> \in Seq(S) /\ Len(<< >>) = 0
    OBVIOUS
  <2>3. Codes(<< >>) \in Seq(Nat) /\ Len(Codes(<< >>)) = 0
    BY <2>2, CodesFacts
  <2>4. \A l \in Seq(Nat) : Len(l) = 0 => l = << >>
    OBVIOUS
  <2>. QED
    BY <1>2, <2>1, <2>3, <2>4
<1>3. CASE cell.c # 0
  <2>1. Seen(cell) = <<cell>>
    BY <1>3 DEF Seen
  <2>. DEFINE one == <<cell>>
              n == cell.c
              l == <<n>>
  <2>2. one \in Seq(S) /\ Len(one) = 1 /\ one[1].c = n
    OBVIOUS
  <2>. HIDE DEF one
  <2>3. Codes(one) \in Seq(Nat) /\ Len(Codes(one)) = 1 /\ Codes(one)[1] = n
    BY <2>2, CodesFacts
  <2>4. n \in Nat
    BY <1>1
  <2>. HIDE DEF n
  <2>5. l \in Seq(Nat) /\ Len(l) = 1 /\ l[1] = n
    BY <2>4
  <2>. HIDE DEF l
  <2>6. \A i \in 1..1 : Codes(one)[i] = l[i]
    BY <2>3, <2>5
  <2>7. Codes(one) = l
    BY <2>3, <2>5, <2>6, SameSequence
  <2>8. Seen(cell) = one
    BY <2>1 DEF one
  <2>9. l = <<cell.c>>
    BY DEF l, n
  <2>10. Codes(Seen(cell)) \in Seq(Nat) /\ Len(Codes(Seen(cell))) <= 1
    <3>1. Codes(one) \in Seq(Nat) /\ Len(Codes(one)) <= 1
      BY <2>3
    <3>. QED
      BY ONLY <2>8, <3>1
  <2>11. Codes(Seen(cell)) = <<cell.c>>
    BY <2>7, <2>8, <2>9
  <2>. QED
    BY <1>3, <2>10, <2>11
<1>. QED
  BY <1>2, <1>3

\* A mark at the end of a line is no character.
LEMMA MarkLineEndText ==
  ASSUME count.text \in Nat, NEW size \in Numbers \X Numbers, NEW t, Good(t, size)
  PROVE  LET u == MarkLineEnd(t) IN
         /\ Codes(Shown(u)) = Codes(Shown(t)) /\ u.h = t.h /\ u.s.scrollStart = t.s.scrollStart
<1>. DEFINE x == t.s.last[1]
            y == t.s.last[2]
            i == x + 1
            j == y + 1
            old == t.s.rows[j][i]
            cell == [old EXCEPT !.eol = TRUE]
            rows == [t.s.rows EXCEPT ![j] = [t.s.rows[j] EXCEPT ![i] = cell]]
            u == MarkLineEnd(t)
            v == [t EXCEPT !.s.rows[y + 1][x + 1].eol = TRUE]
<1>1. CASE x < 0 \/ ~ Inside(t.s, x, y)
  <2>1. u \in {t, Outside(t)}
    BY <1>1 DEF MarkLineEnd
  <2>2. u.h = t.h /\ u.s = t.s
    BY <2>1 DEF Outside, Good, Terminals
  <2>. HIDE DEF u
  <2>3. Codes(Shown(u)) = Codes(Shown(t))
    BY <2>2 DEF Shown
  <2>. QED
    BY <2>2, <2>3 DEF u
<1>2. CASE ~ (x < 0) /\ Inside(t.s, x, y)
  <2>1. u = v
    BY <1>2 DEF MarkLineEnd
  <2>2. j \in 1..size[2] /\ i \in 1..size[1]
    <3>1. x \in Int /\ y \in Int
      BY GoodFacts
    <3>. HIDE DEF x, y
    <3>2. /\ Width(t.s) = size[1] /\ Height(t.s) = size[2] /\ size[1] \in Nat /\ size[2] \in Nat
          /\ x \in 0..(Width(t.s) - 1) /\ y \in 0..(Height(t.s) - 1)
      BY <1>2, GoodFacts DEF Inside
    <3>. QED
      BY <3>1, <3>2
  <2>3. v = [t EXCEPT !.s.rows = rows]
    OBVIOUS
  <2>4. v.h = t.h /\ v.s.scrollStart = t.s.scrollStart /\ v.s.rows = rows
    <3>. HIDE DEF rows, v
    <3>. QED
      BY <2>3 DEF Good, Terminals, States, Shape
  <2>5. /\ t.s.rows \in [1..size[2] -> [1..size[1] -> Cell]]
        /\ size[1] \in Nat /\ size[2] \in Nat
    BY GoodFacts DEF Buffers
  <2>6. old \in Cell
    BY <2>2, <2>5
  <2>7. cell \in Cell /\ cell.c = old.c
    <3>. HIDE DEF old
    <3>. QED
      BY <2>6 DEF Cell
  <2>8. t.h \in Seq(Seq(Cell))
    BY RowsFacts DEF Lines
  <2>. HIDE DEF i, j, cell
  <2>9. PICK p, q \in Seq(Cell) :
          /\ \A e \in Cell :
               VisibleOf(Cat(t.h, [t.s.rows EXCEPT ![j] = [t.s.rows[j] EXCEPT ![i] = e]]))
                 = Cat(Cat(p, Seen(e)), q)
          /\ VisibleOf(Cat(t.h, t.s.rows)) = Cat(Cat(p, Seen(t.s.rows[j][i])), q)
    <3>. DEFINE b == t.s.rows
                top == t.h
                w == size[1]
                h == size[2]
    <3>1. top \in Seq(Seq(Cell)) /\ b \in [1..h -> [1..w -> Cell]] /\ w \in Nat /\ h \in Nat
      BY <2>5, <2>8
    <3>2. j \in 1..h /\ i \in 1..w
      BY <2>2
    <3>. HIDE DEF b, top, w, h
    <3>3. AroundCell(Cell, top, b, j, i)
      BY ONLY <3>1, <3>2, CellText
    <3>. QED
      BY <3>3 DEF b, top, AroundCell
  <2>10. VisibleOf(Cat(t.h, rows)) = Cat(Cat(p, Seen(cell)), q)
    BY <2>7, <2>9
  <2>. HIDE DEF old, rows, u, v
  <2>11. Shown(u) = Cat(Cat(p, Seen(cell)), q) /\ Shown(t) = Cat(Cat(p, Seen(old)), q)
    BY <2>1, <2>4, <2>9, <2>10 DEF Shown, old
  <2>12. \A e \in Cell : e.c \in Nat
    BY DEF Cell
  <2>13. ASSUME NEW e \in Cell
         PROVE  Codes(Cat(Cat(p, Seen(e)), q)) = Cat(Cat(Codes(p), Codes(Seen(e))), Codes(q))
    <3>1. Seen(e) \in Seq(Cell)
      BY DEF Seen
    <3>2. Cat(p, Seen(e)) \in Seq(Cell) /\ Codes(Cat(p, Seen(e))) = Cat(Codes(p), Codes(Seen(e)))
      BY <2>12, <3>1, CodesJoined
    <3>. QED
      BY <2>12, <3>2, CodesJoined
  <2>14. Codes(Seen(cell)) = Codes(Seen(old))
    BY <2>6, <2>7, <2>12, SeenCodes
  <2>15. Codes(Shown(u)) = Codes(Shown(t))
    BY <2>6, <2>7, <2>11, <2>13, <2>14
  <2>. QED
    BY <2>1, <2>4, <2>15 DEF u
<1>. QED
  BY <1>1, <1>2

\* How the text of before is that of after: the oldest is lost, and within the rest n
\* is in the place of m, which has at most that many characters, while none of n have
\* been there.
Replaces(before, after, written, fits) ==
  \E old, p, m, n, q \in Seq(Nat) :
    /\ before = Cat(old, Cat(Cat(p, m), q)) /\ after = Cat(Cat(p, n), q)
    /\ Len(m) <= written
    /\ \A i \in DOMAIN n : n[i] \notin Range(before)
    /\ fits => old = << >>

\* Then order is kept, and no more is lost from a history that is not full.
LEMMA ReplacesInOrder ==
  ASSUME NEW before, NEW after, NEW written \in {0, 1}, NEW fits \in BOOLEAN,
         Replaces(before, after, written, fits)
  PROVE  /\ InOrder(before, after)
         /\ fits => Cardinality(Range(before) \ Range(after)) <= written
<1>1. PICK old, p, m, n, q \in Seq(Nat) :
        /\ before = Cat(old, Cat(Cat(p, m), q)) /\ after = Cat(Cat(p, n), q)
        /\ Len(m) <= written
        /\ \A i \in DOMAIN n : n[i] \notin Range(before)
        /\ fits => old = << >>
  BY DEF Replaces
<1>. DEFINE rest == Cat(Cat(p, m), q)
            o == Len(old)
            a == Len(p)
            b == Len(m)
            c == Len(n)
            d == Len(q)
<1>2. rest \in Seq(Nat) /\ Parts(rest, p, m, q)
  BY ThreeParts
<1>3. after \in Seq(Nat) /\ Parts(after, p, n, q)
  BY <1>1, ThreeParts
<1>. HIDE DEF rest
<1>4. before \in Seq(Nat) /\ Both(before, old, rest)
  BY <1>1, <1>2, TwoParts DEF rest
<1>5. o \in Nat /\ a \in Nat /\ b \in Nat /\ c \in Nat /\ d \in Nat
  OBVIOUS
<1>. HIDE DEF o, a, b, c, d
<1>6. /\ Len(rest) = a + b + d /\ Len(after) = a + c + d /\ Len(before) = o + (a + b + d)
      /\ DOMAIN after = 1..(a + c + d) /\ DOMAIN before = 1..(o + (a + b + d))
  <2>1. Len(rest) = a + b + d /\ Len(after) = a + c + d
    BY <1>2, <1>3 DEF Parts, a, b, c, d
  <2>2. Len(before) = o + (a + b + d)
    BY <1>4, <2>1 DEF Both, o
  <2>. QED
    BY <1>3, <1>4, <2>1, <2>2
<1>7. /\ \A i \in 1..a : before[o + i] = p[i] /\ after[i] = p[i]
      /\ \A i \in 1..b : before[o + (a + i)] = m[i]
      /\ \A i \in 1..c : after[a + i] = n[i]
      /\ \A i \in 1..d : before[o + (a + b + i)] = q[i] /\ after[a + c + i] = q[i]
  <2>1. \A k \in 1..(a + b + d) : before[o + k] = rest[k]
    BY <1>4, <1>6 DEF Both, o
  <2>2. /\ \A i \in 1..a : i \in 1..(a + b + d)
        /\ \A i \in 1..b : a + i \in 1..(a + b + d)
        /\ \A i \in 1..d : a + b + i \in 1..(a + b + d)
    BY <1>5
  <2>3. /\ \A i \in 1..a : rest[i] = p[i] /\ after[i] = p[i]
        /\ \A i \in 1..b : rest[a + i] = m[i]
        /\ \A i \in 1..c : after[a + i] = n[i]
        /\ \A i \in 1..d : rest[a + b + i] = q[i] /\ after[a + c + i] = q[i]
    BY <1>2, <1>3 DEF Parts, a, b, c, d
  <2>. QED
    BY <2>1, <2>2, <2>3
<1>. DEFINE Spot(i) == IF i <= a THEN o + i ELSE o + (a + b + (i - (a + c)))
<1>8. ASSUME NEW i \in DOMAIN after, after[i] \in Range(before)
      PROVE  /\ Spot(i) \in DOMAIN before /\ before[Spot(i)] = after[i]
             /\ i <= a \/ i > a + c
  <2>1. i \in 1..(a + c + d)
    BY <1>6
  <2>2. CASE i <= a
    <3>1. i \in 1..a /\ o + i \in 1..(o + (a + b + d))
      BY <1>5, <2>1, <2>2
    <3>. QED
      BY <1>6, <1>7, <2>2, <3>1
  <2>3. CASE i > a /\ i <= a + c
    <3>. DEFINE k == i - a
    <3>1. k \in 1..c /\ a + k = i
      BY <1>5, <2>1, <2>3
    <3>2. k \in DOMAIN n
      BY <3>1 DEF c
    <3>. HIDE DEF k
    <3>3. n[k] = after[i]
      BY <1>7, <3>1
    <3>. QED
      BY <1>1, <1>8, <3>2, <3>3
  <2>4. CASE i > a + c
    <3>. DEFINE k == i - (a + c)
    <3>. HIDE DEF Spot
    <3>0. i \in Nat /\ i <= a + c + d /\ i > a + c
      BY <1>5, <2>1, <2>4
    <3>1. /\ k \in 1..d /\ a + c + k = i /\ ~ (i <= a)
          /\ o + (a + b + k) \in 1..(o + (a + b + d))
      <4>1. k \in Nat /\ 1 <= k /\ k <= d /\ a + c + k = i /\ ~ (i <= a)
        BY <1>5, <3>0
      <4>. HIDE DEF k
      <4>2. k \in 1..d
        BY <1>5, <4>1
      <4>3. o + (a + b + k) \in Nat /\ 1 <= o + (a + b + k) /\ o + (a + b + k) <= o + (a + b + d)
        BY <1>5, <4>1
      <4>. QED
        BY <1>5, <4>1, <4>2, <4>3
    <3>2. Spot(i) = o + (a + b + k)
      BY <3>1 DEF Spot
    <3>. HIDE DEF k
    <3>3. before[o + (a + b + k)] = q[k] /\ after[a + c + k] = q[k]
      BY <1>7, <3>1
    <3>. QED
      BY <1>6, <2>4, <3>1, <3>2, <3>3
  <2>. QED
    BY <1>5, <2>1, <2>2, <2>3, <2>4
<1>9. ASSUME NEW i \in DOMAIN after, NEW j \in DOMAIN after, i < j,
             after[i] \in Range(before), after[j] \in Range(before)
      PROVE  Spot(i) < Spot(j)
  <2>1. i \in Nat /\ j \in Nat
    BY <1>5, <1>6
  <2>2. (i <= a \/ i > a + c) /\ (j <= a \/ j > a + c)
    BY <1>8, <1>9
  <2>. QED
    BY <1>5, <1>9, <2>1, <2>2
<1>10. InOrder(before, after)
  <2>. HIDE DEF Spot
  <2>. QED
    BY <1>8, <1>9 DEF InOrder
<1>11. ASSUME fits PROVE Cardinality(Range(before) \ Range(after)) <= written
  <2>1. o = 0
    <3>1. old = << >>
      BY <1>1, <1>11
    <3>. QED
      BY <3>1 DEF o
  <2>2. ASSUME NEW e \in Range(before) \ Range(after) PROVE b = 1 /\ e = m[1]
    <3>1. PICK k \in 1..(a + b + d) : e = before[k]
      BY <1>5, <1>6, <2>1, <2>2 DEF Range
    <3>2. \A i \in DOMAIN after : e # after[i]
      BY <2>2 DEF Range
    <3>3. k \notin 1..a
      <4>. SUFFICES ASSUME k \in 1..a PROVE FALSE
        OBVIOUS
      <4>1. before[o + k] = after[k] /\ o + k = k /\ k \in 1..(a + c + d)
        BY <1>5, <1>7, <2>1
      <4>. QED
        BY <1>6, <3>1, <3>2, <4>1
    <3>4. ~ (k > a + b)
      <4>. SUFFICES ASSUME k > a + b PROVE FALSE
        OBVIOUS
      <4>. DEFINE l == k - (a + b)
      <4>1. l \in 1..d /\ o + (a + b + l) = k /\ a + c + l \in 1..(a + c + d)
        BY <1>5, <2>1
      <4>. HIDE DEF l
      <4>2. before[k] = after[a + c + l]
        BY <1>7, <4>1
      <4>. QED
        BY <1>6, <3>1, <3>2, <4>1, <4>2
    <3>5. b <= 1
      BY <1>1, <1>5 DEF b
    <3>6. b = 1 /\ k = a + 1 /\ o + (a + 1) = k /\ 1 \in 1..b
      BY <1>5, <2>1, <3>3, <3>4, <3>5
    <3>7. before[o + (a + 1)] = m[1]
      BY <1>7, <3>6
    <3>. QED
      BY <3>1, <3>6, <3>7
  <2>. DEFINE lost == Range(before) \ Range(after)
  <2>3. CASE lost = {}
    <3>1. Cardinality({}) = 0
      BY FS_EmptySet
    <3>2. 0 <= written
      OBVIOUS
    <3>. HIDE DEF lost
    <3>. QED
      BY <2>3, <3>1, <3>2 DEF lost
  <2>4. CASE lost # {}
    <3>1. lost = {m[1]} /\ b = 1
      BY <2>2, <2>4
    <3>2. Cardinality(lost) = 1
      BY <3>1, FS_Singleton
    <3>3. written = 1
      BY <1>1, <3>1 DEF b
    <3>. QED
      BY <3>2, <3>3
  <2>. QED
    BY <2>3, <2>4
<1>. QED
  BY <1>10, <1>11

\* Lines that scroll replace nothing.
LEMMA ScrolledText ==
  ASSUME count.text \in Nat, NEW t, NEW u, Shown(u) \in Lines, Scrolled(t, u)
  PROVE  Replaces(Codes(Shown(t)), Codes(Shown(u)), 0, Len(u.h) < maxRows)
<1>1. PICK a \in Lines : /\ Shown(t) = Cat(a, Shown(u))
                         /\ Len(u.h) < maxRows => a = << >> /\ Len(t.h) < maxRows
  BY DEF Scrolled
<1>. DEFINE old == Codes(a)
            p == Codes(Shown(u))
            none == << >>
<1>2. \A e \in Cell : e.c \in Nat
  BY DEF Cell
<1>3. a \in Seq(Cell) /\ Shown(u) \in Seq(Cell)
  BY DEF Lines
<1>4. old \in Seq(Nat) /\ p \in Seq(Nat) /\ none \in Seq(Nat)
  BY <1>2, <1>3, CodesFacts
<1>5. Codes(Shown(t)) = Cat(old, p)
  BY <1>1, <1>2, <1>3, CodesJoined
<1>6. Len(u.h) < maxRows => old = << >>
  <2>. SUFFICES ASSUME Len(u.h) < maxRows PROVE old = << >>
    OBVIOUS
  <2>1. a = << >>
    BY <1>1
  <2>2. Len(old) = 0
    BY <1>2, <1>3, <2>1, CodesFacts
  <2>. HIDE DEF old
  <2>. QED
    BY <1>4, <2>2
<1>7. Len(none) <= 0 /\ DOMAIN none = {}
  OBVIOUS
<1>. HIDE DEF old, p, none
<1>8. Cat(Cat(p, none), none) = p
  BY <1>4, CatFacts DEF none
<1>9. \E o, b, m, n, q \in Seq(Nat) :
        /\ Codes(Shown(t)) = Cat(o, Cat(Cat(b, m), q)) /\ p = Cat(Cat(b, n), q)
        /\ Len(m) <= 0
        /\ \A i \in DOMAIN n : n[i] \notin Range(Codes(Shown(t)))
        /\ Len(u.h) < maxRows => o = << >>
  <2>1. /\ Codes(Shown(t)) = Cat(old, Cat(Cat(p, none), none)) /\ p = Cat(Cat(p, none), none)
        /\ Len(none) <= 0
        /\ \A i \in DOMAIN none : none[i] \notin Range(Codes(Shown(t)))
        /\ Len(u.h) < maxRows => old = << >>
    BY <1>5, <1>6, <1>7, <1>8
  <2>. QED
    BY <1>4, <2>1
<1>. QED
  BY <1>9 DEF Replaces, p

\* Any number in a cell.
NumberedCell == [c : Nat, eol : BOOLEAN]

\* A new character is in the place of what was there.
LEMMA WrittenText ==
  ASSUME count.text \in Nat, NEW size \in Numbers \X Numbers, NEW t, NEW u, Good(u, size),
         Shown(t) \in Lines, Shown(u) \in Lines, Scrolled(t, u),
         Running(Write(u, [c |-> count.text + 1, eol |-> FALSE]))
  PROVE  LET v == Write(u, [c |-> count.text + 1, eol |-> FALSE]) IN
         Replaces(Codes(Shown(t)), Codes(Shown(v)), 1, Len(v.h) < maxRows)
<1>. DEFINE new == count.text + 1
            cell == [c |-> new, eol |-> FALSE]
            v == Write(u, cell)
            i == u.s.x + 1
            j == u.s.y + 1
            was == u.s.rows[j][i]
            rows == [u.s.rows EXCEPT ![j] = [u.s.rows[j] EXCEPT ![i] = cell]]
            S == NumberedCell
<1>1. Running(u) /\ Inside(u.s, u.s.x, u.s.y)
  BY DEF Write, Running, Outside, Good, Terminals
<1>2. j \in 1..size[2] /\ i \in 1..size[1]
  BY <1>1, GoodFacts DEF Inside
<1>3. v.h = u.h /\ v.s.rows = rows
  <2>1. v = [u EXCEPT !.s.rows[u.s.y + 1][u.s.x + 1] = cell, !.s.x = @ + 1]
    BY <1>1 DEF Write
  <2>2. v = [u EXCEPT !.s = [u.s EXCEPT !.rows = rows, !.x = i]]
    BY <2>1 DEF Good, Terminals, States, Shape
  <2>. HIDE DEF v, rows
  <2>. QED
    BY <2>2 DEF Good, Terminals, States, Shape
<1>4. cell \in S /\ cell.c = new /\ new # 0 /\ Cell \subseteq S /\ \A e \in S : e.c \in Nat
  BY DEF NumberedCell, Cell
<1>5. /\ u.s.rows \in [1..size[2] -> [1..size[1] -> Cell]]
      /\ size[1] \in Nat /\ size[2] \in Nat
  BY GoodFacts DEF Buffers
<1>6. was \in S
  BY <1>2, <1>4, <1>5
<1>. HIDE DEF S, cell, new, i, j
<1>7. AroundCell(S, u.h, u.s.rows, j, i)
  <2>. DEFINE b == u.s.rows
              top == u.h
              w == size[1]
              h == size[2]
  <2>1. [1..w -> Cell] \subseteq [1..w -> S] /\ Seq(Seq(Cell)) \subseteq Seq(Seq(S))
    <3>1. Seq(Cell) \subseteq Seq(S)
      BY <1>4
    <3>2. [1..w -> Cell] \subseteq [1..w -> S]
      BY <1>4
    <3>. QED
      BY <3>1, <3>2
  <2>2. top \in Seq(Seq(S))
    BY <2>1, RowsFacts DEF Lines
  <2>3. b \in [1..h -> [1..w -> S]] /\ w \in Nat /\ h \in Nat /\ j \in 1..h /\ i \in 1..w
    BY <1>2, <1>5, <2>1
  <2>. HIDE DEF b, top, w, h
  <2>4. AroundCell(S, top, b, j, i)
    BY ONLY <2>2, <2>3, CellText
  <2>. QED
    BY <2>4 DEF b, top
<1>8. PICK x, y \in Seq(S) :
        /\ \A e \in S :
             VisibleOf(Cat(u.h, [u.s.rows EXCEPT ![j] = [u.s.rows[j] EXCEPT ![i] = e]]))
               = Cat(Cat(x, Seen(e)), y)
        /\ VisibleOf(Cat(u.h, u.s.rows)) = Cat(Cat(x, Seen(u.s.rows[j][i])), y)
  BY <1>7 DEF AroundCell
<1>9. VisibleOf(Cat(u.h, rows)) = Cat(Cat(x, Seen(cell)), y)
  BY <1>4, <1>8
<1>. HIDE DEF was, rows, v
<1>10. Shown(v) = Cat(Cat(x, Seen(cell)), y) /\ Shown(u) = Cat(Cat(x, Seen(was)), y)
  BY <1>3, <1>8, <1>9 DEF Shown, was
<1>. DEFINE p == Codes(x)
            q == Codes(y)
            m == Codes(Seen(was))
            n == Codes(Seen(cell))
<1>11. ASSUME NEW e \in S
       PROVE  /\ Codes(Cat(Cat(x, Seen(e)), y)) = Cat(Cat(p, Codes(Seen(e))), q)
              /\ Cat(Cat(x, Seen(e)), y) \in Seq(S)
  <2>1. Seen(e) \in Seq(S)
    BY DEF Seen
  <2>2. Cat(x, Seen(e)) \in Seq(S) /\ Codes(Cat(x, Seen(e))) = Cat(p, Codes(Seen(e)))
    BY <1>4, <2>1, CodesJoined
  <2>. HIDE DEF p, q
  <2>. QED
    BY <1>4, <2>2, CodesJoined DEF q
<1>12. PICK a \in Lines : /\ Shown(t) = Cat(a, Shown(u))
                          /\ Len(u.h) < maxRows => a = << >> /\ Len(t.h) < maxRows
  BY DEF Scrolled
<1>. DEFINE old == Codes(a)
            before == Codes(Shown(t))
<1>13. \A e \in Cell : e.c \in Nat /\ e.c <= count.text
  BY DEF Cell
<1>14. a \in Seq(Cell) /\ Shown(u) \in Seq(Cell) /\ Shown(t) \in Seq(Cell)
  BY DEF Lines
<1>15. before = Cat(old, Cat(Cat(p, m), q))
  <2>1. before = Cat(old, Codes(Shown(u)))
    BY <1>12, <1>13, <1>14, CodesJoined
  <2>2. Codes(Shown(u)) = Cat(Cat(p, m), q)
    BY <1>6, <1>10, <1>11
  <2>. QED
    BY <2>1, <2>2
<1>16. Codes(Shown(v)) = Cat(Cat(p, n), q)
  BY <1>4, <1>10, <1>11
<1>17. p \in Seq(Nat) /\ q \in Seq(Nat)
  BY <1>4, CodesFacts
<1>18. m \in Seq(Nat) /\ Len(m) <= 1
  BY <1>4, <1>6, SeenCodes
<1>19. n \in Seq(Nat) /\ n = <<new>>
  BY <1>4, SeenCodes
<1>20. old \in Seq(Nat)
  BY <1>13, <1>14, CodesFacts
<1>21. \A k \in DOMAIN n : n[k] \notin Range(before)
  <2>1. before \in Seq(Nat) /\ \A k \in DOMAIN before : before[k] <= count.text
    <3>1. /\ before \in Seq(Nat) /\ Len(before) = Len(Shown(t))
          /\ \A k \in 1..Len(Shown(t)) : before[k] = Shown(t)[k].c
      BY <1>13, <1>14, CodesFacts
    <3>. HIDE DEF before
    <3>2. DOMAIN before = 1..Len(Shown(t))
      BY <3>1
    <3>3. \A k \in 1..Len(Shown(t)) : Shown(t)[k] \in Cell
      BY <1>14
    <3>. QED
      BY <1>13, <3>1, <3>2, <3>3
  <2>2. new \notin Range(before)
    <3>. HIDE DEF before
    <3>1. ~ (new <= count.text)
      BY DEF new
    <3>. QED
      BY <2>1, <3>1 DEF Range
  <2>3. \A k \in DOMAIN n : n[k] = new
    <3>. HIDE DEF n
    <3>. QED
      BY <1>19
  <2>. QED
    BY <2>2, <2>3
<1>22. Len(v.h) < maxRows => old = << >>
  <2>. SUFFICES ASSUME Len(v.h) < maxRows PROVE old = << >>
    OBVIOUS
  <2>1. a = << >>
    BY <1>3, <1>12
  <2>2. Len(old) = 0
    BY <1>13, <1>14, <2>1, CodesFacts
  <2>. HIDE DEF old
  <2>. QED
    BY <1>20, <2>2
<1>. HIDE DEF old, p, m, n, q, before
<1>23. Replaces(before, Codes(Shown(v)), 1, Len(v.h) < maxRows)
  BY <1>15, <1>16, <1>17, <1>18, <1>19, <1>20, <1>21, <1>22 DEF Replaces
<1>. QED
  BY <1>23 DEF before, v, cell, new

\* What the reader does that is no escape sequence.
LEMMA TextSteps ==
  ASSUME TerminalInv, Reader, count'.escapes = count.escapes
  PROVE  \/ \E g \in Garbage : ParseCodepoint(g) \/ ParseTab(g)
         \/ \E g \in [1..2 -> Garbage] : ParseLF(g)
         \/ ParseCR \/ ParseBackspace
<1>1. ASSUME NEW name, Escape(name) PROVE FALSE
  <2>1. count \in Counts /\ count'.escapes = count.escapes + 1
    BY <1>1 DEF TerminalInv, Escape, Bounded, Counts
  <2>. QED
    BY <2>1 DEF Counts
<1>2. ASSUME NEW g, NEW n, NEW arg, NEW what,
             Erase(what, arg, g) \/ EraseCharacters(n, g) \/ ScrollLines(n, g)
      PROVE  FALSE
  <2>1. ~ Erase(what, arg, g)
    BY <1>1 DEF Erase
  <2>2. ~ EraseCharacters(n, g)
    BY <1>1 DEF EraseCharacters
  <2>3. ~ ScrollLines(n, g)
    BY <1>1 DEF ScrollLines
  <2>. QED
    BY <1>2, <2>1, <2>2, <2>3
<1>3. ASSUME NEW n, MoveCursor(n) \/ LinePosition(n) \/ DeleteCharacters(n) \/ InsertCharacters(n)
                    \/ RepeatCharacter(n)
      PROVE  FALSE
  <2>1. ~ MoveCursor(n)
    BY <1>1 DEF MoveCursor
  <2>2. ~ LinePosition(n)
    BY <1>1 DEF LinePosition
  <2>3. ~ DeleteCharacters(n)
    BY <1>1 DEF DeleteCharacters
  <2>4. ~ InsertCharacters(n)
    BY <1>1 DEF InsertCharacters
  <2>5. ~ RepeatCharacter(n)
    BY <1>1 DEF RepeatCharacter
  <2>. QED
    BY <1>3, <2>1, <2>2, <2>3, <2>4, <2>5
<1>4. ~ ReverseIndex /\ ~ SaveCursor /\ ~ RestoreCursor
  BY <1>1 DEF ReverseIndex, SaveCursor, RestoreCursor
<1>5. ASSUME NEW a, NEW b PROVE ~ SetScrollRegion(a, b)
  BY <1>1 DEF SetScrollRegion
<1>6. ASSUME NEW value PROVE ~ SetAlternateMode(value)
  BY <1>1 DEF SetAlternateMode
<1>. QED
  BY <1>2, <1>3, <1>4, <1>5, <1>6 DEF Reader

\* Text and control characters scroll the text of the normal screen up into the
\* history, and put at most the one new character in the place of another.
LEMMA ReaderText ==
  ASSUME TerminalInv, Reader, count'.escapes = count.escapes, status' = "running",
         KeepsHistory, screens["normal"].scrollStart = 0
  PROVE  Written \in {0, 1} /\ Replaces(Text, Text', Written, Len(history') < maxRows)
<1>1. PICK size : Sound(size)
  BY DEF TerminalInv
<1>. DEFINE t == Now
<1>2. Good(t, size) /\ size \in Numbers \X Numbers /\ t.s = screens["normal"] /\ t.h = history
  BY <1>1, NowGood DEF KeepsHistory, Now
<1>3. mode = "normal" /\ DOMAIN screens = Modes /\ Sized /\ count.text \in Nat
  BY <1>1, InvSized, BoundedFacts DEF KeepsHistory, Sound
<1>4. Text = Codes(Shown(t)) /\ Shown(t) \in Lines
  BY <1>2, RowsFacts DEF Text, Shown, Cat
<1>5. ASSUME NEW u, Becomes(u)
      PROVE  /\ Text' = Codes(Shown(u)) /\ history' = u.h /\ Running(u)
  <2>1. screens' = [screens EXCEPT ![mode] = u.s] /\ history' = u.h /\ u.status = "running"
    BY <1>5 DEF Becomes
  <2>2. screens'["normal"] = u.s
    BY <1>3, <2>1 DEF Modes
  <2>. QED
    BY <2>1, <2>2 DEF Text, Shown, Cat, Running
<1>. HIDE DEF t
<1>6. ASSUME NEW u, Becomes(u), Scrolled(t, u), Shown(u) \in Lines, count'.text = count.text
      PROVE  Written \in {0, 1} /\ Replaces(Text, Text', Written, Len(history') < maxRows)
  <2>1. Written = 0
    BY <1>3, <1>6 DEF Written
  <2>. QED
    BY <1>3, <1>4, <1>5, <1>6, <2>1, ScrolledText
<1>7. Garbage = BOOLEAN
  BY DEF Garbage
<1>8. ASSUME NEW g \in BOOLEAN
      PROVE  LET u == UpdateCursorPosition(t, g) IN
             Scrolled(t, u) /\ Shown(u) \in Lines /\ Good(u, size)
  BY <1>2, <1>3, UpdateCursorText, UpdateCursorPositionGood
<1>9. ASSUME NEW g \in BOOLEAN, ParseCodepoint(g)
      PROVE  Written \in {0, 1} /\ Replaces(Text, Text', Written, Len(history') < maxRows)
  <2>. DEFINE u == UpdateCursorPosition(t, g)
              v == Write(u, [c |-> count.text + 1, eol |-> FALSE])
  <2>1. Becomes(v) /\ count'.text = count.text + 1
    BY <1>9, BoundedFacts DEF ParseCodepoint, t
  <2>2. Scrolled(t, u) /\ Shown(u) \in Lines /\ Good(u, size)
    BY <1>8
  <2>. HIDE DEF u
  <2>3. Text' = Codes(Shown(v)) /\ history' = v.h /\ Running(v)
    BY <1>5, <2>1
  <2>4. Replaces(Codes(Shown(t)), Codes(Shown(v)), 1, Len(v.h) < maxRows)
    BY <1>2, <1>3, <1>4, <2>2, <2>3, WrittenText
  <2>5. Written = 1
    BY <1>3, <2>1 DEF Written
  <2>. QED
    BY <1>4, <2>3, <2>4, <2>5
<1>10. ASSUME Control PROVE count'.text = count.text
  BY <1>10, BoundedFacts DEF Control
<1>11. ASSUME NEW g \in BOOLEAN, ParseTab(g)
       PROVE  Written \in {0, 1} /\ Replaces(Text, Text', Written, Len(history') < maxRows)
  <2>. DEFINE u == UpdateCursorPosition(t, g)
              past == IF u.s.x < 0 THEN -((-u.s.x) % TabWidth) ELSE u.s.x % TabWidth
              v == [u EXCEPT !.s.x = @ + TabWidth - past]
  <2>1. Becomes(v) /\ Control
    BY <1>11 DEF ParseTab, t
  <2>2. Scrolled(t, u) /\ Shown(u) \in Lines /\ Good(u, size)
    BY <1>8
  <2>. HIDE DEF u
  <2>3. v.h = u.h /\ v.s.rows = u.s.rows
    BY <2>2 DEF Good, Terminals, States, Shape
  <2>. HIDE DEF v
  <2>4. Scrolled(u, v) /\ Shown(v) \in Lines
    BY <2>2, <2>3, ScrolledNot
  <2>5. Scrolled(t, v)
    BY <2>2, <2>4, ScrolledTwice
  <2>. QED
    BY <1>6, <1>10, <2>1, <2>4, <2>5
<1>12. ASSUME NEW g \in [1..2 -> BOOLEAN], ParseLF(g)
       PROVE  Written \in {0, 1} /\ Replaces(Text, Text', Written, Len(history') < maxRows)
  <2>. DEFINE marked == MarkLineEnd(t)
              scrolled == DeleteOneLine(marked, marked.s.scrollStart, marked.s.scrollEnd, g[1])
              down == [marked EXCEPT !.s.y = marked.s.y + 1]
              atEnd == marked.s.y + 1 = marked.s.scrollEnd
              moved == IF atEnd THEN scrolled ELSE down
              v == IF Running(moved) THEN UpdateCursorPosition(moved, g[2]) ELSE moved
  <2>1. Becomes(v) /\ Control
    BY <1>12 DEF ParseLF, t
  <2>2. /\ Good(marked, size) /\ Codes(Shown(marked)) = Codes(Shown(t)) /\ marked.h = t.h
        /\ marked.s.scrollStart = 0
    BY <1>2, <1>3, MarkLineEndGood, MarkLineEndText
  <2>. HIDE DEF marked
  <2>3. Shown(marked) \in Lines /\ marked.s.scrollEnd \in Int
    BY <1>2, <2>2, RowsFacts, GoodFacts
  <2>4. g[1] \in BOOLEAN /\ g[2] \in BOOLEAN
    OBVIOUS
  <2>5. /\ Scrolled(marked, scrolled) /\ Shown(scrolled) \in Lines /\ Good(scrolled, size)
        /\ scrolled.s.scrollStart = 0
    <3>. DEFINE w == DeleteOneLine(marked, 0, marked.s.scrollEnd, g[1])
    <3>1. scrolled = w /\ 0 \in Int
      BY <2>2
    <3>2. Scrolled(marked, w) /\ Shown(w) \in Lines /\ w.s.scrollStart = 0
      BY <1>2, <1>3, <2>2, <2>3, <2>4, DeleteOneLineText
    <3>3. Good(w, size)
      BY <1>2, <1>3, <2>2, <2>3, <2>4, <3>1, DeleteOneLineGood
    <3>. QED
      BY <3>1, <3>2, <3>3
  <2>6. /\ Scrolled(marked, down) /\ Shown(down) \in Lines /\ Good(down, size)
        /\ down.s.scrollStart = 0
    <3>1. marked.s.y + 1 \in Int /\ marked.s.x \in Int
      BY <1>2, <2>2, GoodFacts
    <3>2. Good(down, size)
      BY <1>2, <2>2, <3>1, CursorGood
    <3>3. down.h = marked.h /\ down.s.rows = marked.s.rows /\ down.s.scrollStart = 0
      BY <2>2 DEF Good, Terminals, States, Shape
    <3>. HIDE DEF down
    <3>. QED
      BY <2>3, <3>2, <3>3, ScrolledNot
  <2>. HIDE DEF scrolled, down, atEnd
  <2>7. /\ Scrolled(marked, moved) /\ Shown(moved) \in Lines /\ Good(moved, size)
        /\ moved.s.scrollStart = 0
    BY <2>5, <2>6
  <2>. HIDE DEF moved
  <2>8. Scrolled(moved, v) /\ Shown(v) \in Lines
    <3>. DEFINE w == UpdateCursorPosition(moved, g[2])
    <3>1. Scrolled(moved, w) /\ Shown(w) \in Lines
      BY <1>2, <1>3, <2>4, <2>7, UpdateCursorText
    <3>2. Scrolled(moved, moved)
      BY <2>7, ScrolledNot
    <3>. HIDE DEF w
    <3>3. v = IF Running(moved) THEN w ELSE moved
      BY DEF w
    <3>. QED
      BY <2>7, <3>1, <3>2, <3>3
  <2>. HIDE DEF v
  <2>9. Scrolled(marked, v)
    BY <2>7, <2>8, ScrolledTwice
  <2>10. Written = 0
    BY <1>3, <1>10, <2>1 DEF Written
  <2>11. Replaces(Codes(Shown(marked)), Codes(Shown(v)), 0, Len(v.h) < maxRows)
    BY <1>3, <2>8, <2>9, ScrolledText
  <2>. QED
    BY <1>4, <1>5, <2>1, <2>2, <2>10, <2>11
<1>13. ASSUME ParseCR \/ ParseBackspace
       PROVE  Written \in {0, 1} /\ Replaces(Text, Text', Written, Len(history') < maxRows)
  <2>1. ASSUME NEW v, v.h = t.h, v.s.rows = t.s.rows, Becomes(v), Control
        PROVE  Written \in {0, 1} /\ Replaces(Text, Text', Written, Len(history') < maxRows)
    <3>1. Scrolled(t, v) /\ Shown(v) \in Lines
      BY <1>4, <2>1, ScrolledNot
    <3>. QED
      BY <1>6, <1>10, <2>1, <3>1
  <2>2. CASE ParseCR
    <3>. DEFINE v == [t EXCEPT !.s.x = 0]
    <3>1. Becomes(v) /\ Control
      BY <2>2 DEF ParseCR, t
    <3>2. v.h = t.h /\ v.s.rows = t.s.rows
      BY <1>2 DEF Good, Terminals, States, Shape
    <3>. HIDE DEF v
    <3>. QED
      BY <2>1, <3>1, <3>2
  <2>3. CASE ParseBackspace
    <3>. DEFINE s == screens[mode]
                v == [t EXCEPT !.s.x = IF s.x = 0 THEN Width(s) - 1 ELSE s.x - 1,
                               !.s.y = IF s.x = 0 /\ s.y > 0 THEN s.y - 1 ELSE s.y]
    <3>1. Becomes(v) /\ Control
      BY <2>3 DEF ParseBackspace, t
    <3>2. v.h = t.h /\ v.s.rows = t.s.rows
      BY <1>2 DEF Good, Terminals, States, Shape
    <3>. HIDE DEF v
    <3>. QED
      BY <2>1, <3>1, <3>2
  <2>. QED
    BY <1>13, <2>2, <2>3
<1>. QED
  BY <1>7, <1>9, <1>11, <1>12, <1>13, TextSteps

-----------------------------------------------------------------------------
(* The theorems *)

\* The terminal before it is laid out.
LEMMA InitInv == Init => TerminalInv
<1>. SUFFICES ASSUME Init PROVE TerminalInv
  OBVIOUS
<1>1. InitialSize \in Numbers \X Numbers /\ InitialSize[2] \in Nat \ {0}
  BY SizesAssumption DEF Numbers
<1>2. BlankRows(InitialSize) \in Buffers(InitialSize)
  BY <1>1, BlankRowsType
<1>. DEFINE rows == BlankRows(InitialSize)
            s == [rows |-> rows, x |-> 0, y |-> 0, scrollStart |-> 0, scrollEnd |-> InitialSize[2],
                  last |-> <<-1, -1>>, stack |-> << >>]
<1>3. s \in States(InitialSize)
  <2>. HIDE DEF rows
  <2>1. /\ 0 \in Nat /\ 0 \in Int /\ InitialSize[2] \in Int /\ <<-1, -1>> \in Int \X Int
        /\ << >> \in Seq(Int \X Int)
    BY <1>1
  <2>2. rows \in Buffers(InitialSize)
    BY <1>2 DEF rows
  <2>3. s \in Shape(Buffers(InitialSize))
    BY <2>1, <2>2, Zenon DEF Shape
  <2>. QED
    BY <1>1, <2>3 DEF States
<1>. HIDE DEF rows
<1>4. screens = [m \in Modes |-> s]
  BY DEF Init, NewState, Modes, rows
<1>. HIDE DEF s
<1>5. screens \in [Modes -> States(InitialSize)]
  BY <1>3, <1>4
<1>6. Sound(InitialSize)
  BY <1>1, <1>5 DEF Sound, Init
<1>7. history \in Histories(rect[1], maxRows)
  <2>1. << >> \in Seq(Lines) /\ DOMAIN << >> = {} /\ Len(<< >>) = 0
    OBVIOUS
  <2>. QED
    BY <2>1 DEF Init, Histories
<1>8. count \in Counts
  BY SizesAssumption DEF Init, Counts
<1>. QED
  BY <1>6, <1>7, <1>8 DEF TerminalInv, Init, Modes, Statuses

\* The history is given another limit.
LEMMA LimitInv ==
  ASSUME TerminalInv, SetMaxHistoryRows
  PROVE  TerminalInv'
<1>1. /\ history \in Seq(Lines) /\ \A j \in DOMAIN history : Len(history[j]) <= rect[1]
  BY DEF TerminalInv, Histories
<1>2. rect[1] \in Nat /\ MaxHistoryRows \in Nat
  BY InvSized, SizesAssumption DEF Sized
<1>3. history' \in Histories(rect[1], maxRows')
  BY <1>1, <1>2, TrimmedType DEF SetMaxHistoryRows
<1>4. \A z : States(z)' = States(z) /\ \A w, m : Histories(w, m)' = Histories(w, m)
  <2>1. count'.text = count.text
    BY DEF SetMaxHistoryRows
  <2>. QED
    BY <2>1, CellsSame
<1>5. (\E size : Sound(size))'
  BY <1>4 DEF TerminalInv, SetMaxHistoryRows, Sound
<1>6. (history \in Histories(rect[1], maxRows))'
  BY <1>3, <1>4 DEF SetMaxHistoryRows
<1>. QED
  BY <1>5, <1>6 DEF TerminalInv, SetMaxHistoryRows

\* A step of something else.
LEMMA UnchangedInv ==
  ASSUME TerminalInv, UNCHANGED vars
  PROVE  TerminalInv'
<1>1. count'.text = count.text
  BY DEF vars
<1>2. \A z : States(z)' = States(z) /\ \A w, m : Histories(w, m)' = Histories(w, m)
  BY <1>1, CellsSame
<1>3. (\E size : Sound(size))'
  BY <1>2 DEF TerminalInv, Sound, vars
<1>4. (history \in Histories(rect[1], maxRows))'
  BY <1>2 DEF TerminalInv, vars
<1>. QED
  BY <1>3, <1>4 DEF TerminalInv, vars

\* Whatever the application sends and however the widget is resized, the screens
\* are rectangles of cells of one size, both ends of their regions are lines of
\* theirs, though not always in order, and the history has no more rows than
\* configured and none wider than the widget. Nothing is said of the cursor.
THEOREM TerminalInvariant == Spec => []TerminalInv
<1>1. ASSUME TerminalInv, [Next]_vars PROVE TerminalInv'
  <2>1. CASE Reader
    BY <1>1, <2>1, ReaderInv DEF ReaderKeeps
  <2>2. CASE SetMaxHistoryRows
    BY <1>1, <2>2, LimitInv
  <2>3. CASE \E size \in Sizes : Resize(size)
    BY <1>1, <2>3, ResizeInv
  <2>4. CASE UNCHANGED vars
    BY <1>1, <2>4, UnchangedInv
  <2>. QED
    BY <1>1, <2>1, <2>2, <2>3, <2>4 DEF Next, UI
<1>. QED
  BY <1>1, InitInv, PTL DEF Spec

\* What paint() and cellAt() take for granted of the buffers and the history
\* under the lock holds after every chunk of output and every resize.
THEOREM TheBuffersFit == Spec => []BuffersFit
<1>1. ASSUME TerminalInv PROVE BuffersFit
  <2>1. PICK size : Sound(size)
    BY <1>1 DEF TerminalInv
  <2>2. size \in Numbers \X Numbers /\ DOMAIN screens = Modes /\ size = <<size[1], size[2]>>
    BY <2>1 DEF Sound
  <2>3. ASSUME NEW m \in Modes
        PROVE  LET s == screens[m] IN
               /\ \A j \in DOMAIN s.rows : s.rows[j] \in
                                             [1..Width(s) -> [c : 0..MaxText, eol : BOOLEAN]]
               /\ status = "running" /\ rect # <<0, 0>> => <<Width(s), Height(s)>> = rect
               /\ s.scrollStart \in 0..(Height(s) - 1) /\ s.scrollEnd \in 1..Height(s)
    <3>. DEFINE s == screens[m]
    <3>1. s \in States(size)
      BY <2>1 DEF Sound
    <3>. HIDE DEF s
    <3>2. /\ Height(s) = size[2] /\ Width(s) = size[1] /\ s.rows \in Buffers(size)
          /\ s.scrollStart \in 0..(Height(s) - 1) /\ s.scrollEnd \in 1..Height(s)
      BY <2>2, <3>1, SizeFacts
    <3>5. Cell \subseteq [c : 0..MaxText, eol : BOOLEAN]
      BY <1>1, SizesAssumption DEF TerminalInv, Counts, Cell
    <3>3. \A j \in DOMAIN s.rows : s.rows[j] \in [1..Width(s) -> [c : 0..MaxText, eol : BOOLEAN]]
      BY <3>2, <3>5 DEF Buffers
    <3>4. status = "running" /\ rect # <<0, 0>> => <<Width(s), Height(s)>> = rect
      BY <2>1, <2>2, <3>2 DEF Sound
    <3>. QED
      BY <3>2, <3>3, <3>4 DEF s
  <2>4. Len(history) <= maxRows /\ \A j \in DOMAIN history : Len(history[j]) <= rect[1]
    BY <1>1 DEF TerminalInv, Histories
  <2>. QED
    BY <2>2, <2>3, <2>4 DEF BuffersFit
<1>. QED
  BY <1>1, TerminalInvariant, PTL

\* No output in the alternate mode changes the normal screen or the history: the
\* screen that DECSET 1049 swaps back, and all that has been scrolled out of it,
\* is what the application found.
THEOREM NormalIsKept == Spec => AlternateKeepsNormal
<1>. DEFINE Keeps == mode = "alternate" /\ count' # count /\ count'.resizes = count.resizes
                     => UNCHANGED <<screens["normal"], history>>
<1>1. ASSUME TerminalInv, [Next]_vars PROVE Keeps
  <2>1. CASE Reader
    BY <1>1, <2>1, ReaderInv DEF ReaderKeeps
  <2>2. CASE SetMaxHistoryRows
    BY <2>2 DEF SetMaxHistoryRows
  <2>3. CASE \E size \in Sizes : Resize(size)
    <3>1. PICK size \in Sizes : Resize(size)
      BY <2>3
    <3>2. Bounded("resizes", MaxResizes)
      BY <3>1 DEF Resize
    <3>. QED
      BY <1>1, <3>2, BoundedFacts
  <2>4. CASE UNCHANGED vars
    BY <2>4 DEF vars
  <2>. QED
    BY <1>1, <2>1, <2>2, <2>3, <2>4 DEF Next, UI
<1>. QED
  BY <1>1, TerminalInvariant, PTL DEF Spec, AlternateKeepsNormal

\* However lines are cut, joined, padded, evicted and trimmed on the way, a resize
\* keeps every character of the history and of the rows it copies, in order; only
\* the oldest rows of a history that is full are lost.
THEOREM TextSurvivesResize == Spec => ResizeKeepsText
<1>. DEFINE Keeps == count'.resizes # count.resizes /\ status' = "running" =>
                       LET s == screens["normal"]
                           after == VisibleOf(history' \o screens'["normal"].rows)
                       IN \E stop \in LineStart(s)..Height(s) :
                            LET before == VisibleOf(history \o SubSeq(s.rows, 1, stop)) IN
                            /\ IsSuffix(after, before)
                            /\ Len(history') < maxRows => after = before
<1>1. ASSUME TerminalInv, [Next]_vars PROVE Keeps
  <2>. SUFFICES ASSUME count'.resizes # count.resizes, status' = "running" PROVE Keeps
    OBVIOUS
  <2>1. CASE Reader
    BY <1>1, <2>1, ReaderCounts
  <2>2. CASE SetMaxHistoryRows
    BY <2>2 DEF SetMaxHistoryRows
  <2>3. CASE \E size \in Sizes : Resize(size)
    BY <1>1, <2>3, ResizeText DEF TextKept, Cat
  <2>4. CASE UNCHANGED vars
    BY <2>4 DEF vars
  <2>. QED
    BY <1>1, <2>1, <2>2, <2>3, <2>4 DEF Next, UI
<1>. QED
  BY <1>1, TerminalInvariant, PTL DEF Spec, ResizeKeepsText

\* What an application writes, wherever it wraps, feeds lines or scrolls, moves up
\* into the history and stays in order; of a history that is not full nothing is
\* lost but the character that a new one is written over. It is so because every
\* line that deleteLines() takes off the top is, cut or not, the next one of the
\* history, and no character has been in the terminal before it is received: their
\* numbers are bounded by the count of those received.
THEOREM TextSurvivesScrolling == Spec => ScrollKeepsText
<1>. DEFINE Keeps ==
       /\ TextStep /\ status' = "running"
       /\ KeepsHistory /\ screens["normal"].scrollStart = 0
       => \A before \in {Text}, after \in {Text'} : IsInjective(before) =>
            /\ InOrder(before, after)
            /\ Len(history') < maxRows =>
                 Cardinality(Range(before) \ Range(after)) <= Written
<1>1. ASSUME TerminalInv, [Next]_vars PROVE Keeps
  <2>. SUFFICES ASSUME TextStep, status' = "running", KeepsHistory,
                       screens["normal"].scrollStart = 0
                PROVE  /\ InOrder(Text, Text')
                       /\ Len(history') < maxRows =>
                            Cardinality(Range(Text) \ Range(Text')) <= Written
    OBVIOUS
  <2>1. count' # count /\ count'.escapes = count.escapes /\ count'.resizes = count.resizes
    BY DEF TextStep
  <2>2. CASE Reader
    <3>1. Written \in {0, 1} /\ Replaces(Text, Text', Written, Len(history') < maxRows)
      BY <1>1, <2>1, <2>2, ReaderText
    <3>. DEFINE fits == Len(history') < maxRows
    <3>2. fits \in BOOLEAN
      OBVIOUS
    <3>. QED
      BY <3>1, <3>2, ReplacesInOrder
  <2>3. CASE SetMaxHistoryRows
    BY <2>1, <2>3 DEF SetMaxHistoryRows
  <2>4. CASE \E size \in Sizes : Resize(size)
    <3>1. Bounded("resizes", MaxResizes)
      BY <2>4 DEF Resize
    <3>. QED
      BY <1>1, <2>1, <3>1, BoundedFacts
  <2>5. CASE UNCHANGED vars
    BY <2>1, <2>5 DEF vars
  <2>. QED
    BY <1>1, <2>2, <2>3, <2>4, <2>5 DEF Next, UI
<1>. QED
  BY <1>1, TerminalInvariant, PTL DEF Spec, ScrollKeepsText
=============================================================================
