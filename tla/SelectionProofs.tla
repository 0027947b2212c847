--------------------------- MODULE SelectionProofs ---------------------------
(***************************************************************************)
(* Proofs about Selection, for screens of any size, any limit of the       *)
(* history, any words and any number of inputs and lines: nothing of the   *)
(* other screen stays selected, and what a drag copies is the text between *)
(* the characters it went from and to.                                     *)
(***************************************************************************)
EXTENDS Selection, SequenceLemmas, TLAPS

-----------------------------------------------------------------------------
(* The inductive invariant *)

RowRecords == [id : Nat, len : 0..Width, ends : BOOLEAN]

\* The numbers of rows are bounded, so there always is a new one.
RowsInv == /\ history \in Seq(RowRecords) /\ alternate \in BOOLEAN /\ switching \in BOOLEAN
           /\ {screen, other} \subseteq Seq(RowRecords)
           /\ Len(screen) = Height /\ Len(other) = Height
           /\ \E n \in Nat : Rows \subseteq 0..n

EventsInv == events \in Seq({"autoscroll", "clear", "scroll", "scrollTo"})

DragType == drag \in [pressed : Int \X Int, last : Int \X Int, kept : BOOLEAN, on : BOOLEAN, during : BOOLEAN]

\* No two rows have the same number, so that a cell is found again by it.
Differ(s) == \A i, j \in DOMAIN s : s[i].id = s[j].id => i = j
Apart(s, t) == \A i \in DOMAIN s, j \in DOMAIN t : s[i].id # t[j].id

RowsDiffer == /\ Differ(history) /\ Differ(screen) /\ Differ(other)
              /\ Apart(history, screen) /\ Apart(history, other) /\ Apart(screen, other)

\* As long as the rows of a drag are there, what is selected goes from the cell it
\* began at to the one it came to.
DragInv ==
  from # Nowhere /\ drag.kept =>
    /\ from \in Grid
    /\ CellAt(from) = drag.pressed
    /\ drag.last # Nowhere =>
         \E end \in Grid : CellAt(end) = drag.last /\ selection = Create(from, end)

\* Until the UI clears it, a selection of the screen that was left is to be cleared.
\* In the middle of a switch what it has cleared stays so, as nothing can be
\* selected without the lock; but a drag can be begun.
Here == /\ IsEmpty(selection) \/ (selection.on = alternate /\ ~ switching)
        /\ from = Nowhere \/ drag.during \/ (drag.on = alternate /\ ~ switching)

SwitchInv == Contains(events, "clear") \/ Here

SelectionInv == RowsInv /\ EventsInv /\ DragType /\ RowsDiffer /\ DragInv /\ SwitchInv

-----------------------------------------------------------------------------
(* Contents and the cells in them *)

LEMMA ContentsFacts ==
  ASSUME RowsInv
  PROVE  /\ Contents \in Seq(RowRecords) /\ Top \in 0..Len(Contents) /\ Len(Contents) \in Nat \ {0}
         /\ DOMAIN Contents = 1..Len(Contents)
BY SizesAssumption DEF RowsInv, Contents, Top

\* Rows of the contents differ, as all rows do.
LEMMA ContentsDiffer ==
  ASSUME RowsInv, RowsDiffer
  PROVE  Differ(Contents)
<1>1. CASE alternate
  BY <1>1 DEF Contents, RowsDiffer
<1>2. CASE ~ alternate
  <2>1. /\ history \in Seq(RowRecords) /\ screen \in Seq(RowRecords)
        /\ Contents = history \o screen
    BY <1>2 DEF RowsInv, Contents
  <2>2. /\ Len(Contents) = Len(history) + Len(screen)
        /\ DOMAIN Contents = 1..Len(Contents)
        /\ DOMAIN history = 1..Len(history) /\ DOMAIN screen = 1..Len(screen)
        /\ Len(history) \in Nat /\ Len(screen) \in Nat
        /\ \A i \in 1..Len(history) : Contents[i] = history[i]
        /\ \A i \in (Len(history) + 1)..(Len(history) + Len(screen)) :
             i - Len(history) \in 1..Len(screen) /\ Contents[i] = screen[i - Len(history)]
    BY <2>1, ConcatFacts
  <2>. SUFFICES ASSUME NEW i \in DOMAIN Contents, NEW j \in DOMAIN Contents,
                       Contents[i].id = Contents[j].id
                PROVE  i = j
    BY DEF Differ
  <2>3. /\ i \in 1..Len(history) \/ i \in (Len(history) + 1)..(Len(history) + Len(screen))
        /\ j \in 1..Len(history) \/ j \in (Len(history) + 1)..(Len(history) + Len(screen))
    BY <2>2
  <2>. QED
    BY <2>2, <2>3 DEF RowsDiffer, Differ, Apart
<1>. QED
  BY <1>1, <1>2

\* A cell that is there is a place, and told by two numbers.
LEMMA CellFacts ==
  ASSUME RowsInv, NEW x, NEW y, IsCell(<<x, y>>)
  PROVE  <<x, y>> \in Grid /\ CellAt(<<x, y>>) \in Int \X Int
<1>1. y \in 0..(Len(Contents) - 1) /\ x \in 0..(Cells(y) - 1)
  BY DEF IsCell
<1>2. y + 1 \in 1..Len(Contents) /\ y \in Int
  BY <1>1, ContentsFacts
<1>3. Contents[y + 1] \in RowRecords
  BY <1>2, ContentsFacts
<1>4. Cells(y) \in 0..Width
  BY <1>3, SizesAssumption DEF Cells, RowRecords
<1>5. x \in 0..(Width - 1)
  BY <1>1, <1>4, SizesAssumption
<1>6. Contents[y + 1].id \in Int /\ x + 1 \in Int
  BY <1>3, <1>5 DEF RowRecords
<1>. QED
  BY <1>1, <1>5, <1>6 DEF Grid, CellAt

\* From the numbers the place is found.
LEMMA PlaceFound ==
  ASSUME RowsInv, RowsDiffer, NEW p \in Grid
  PROVE  PlaceOf(CellAt(p)) = p
<1>1. ASSUME NEW q \in Grid, CellAt(q) = CellAt(p) PROVE q = p
  <2>1. /\ p = <<p[1], p[2]>> /\ q = <<q[1], q[2]>>
        /\ {p[1], q[1], p[2], q[2]} \subseteq Int
        /\ {p[2], q[2]} \subseteq 0..(Len(Contents) - 1)
    BY ContentsFacts, SizesAssumption DEF Grid
  <2>2. p[2] + 1 \in DOMAIN Contents /\ q[2] + 1 \in DOMAIN Contents
    BY <2>1, ContentsFacts
  <2>3. Contents[p[2] + 1].id = Contents[q[2] + 1].id /\ p[1] + 1 = q[1] + 1
    BY <1>1 DEF CellAt
  <2>4. p[2] + 1 = q[2] + 1
    BY <2>2, <2>3, ContentsDiffer DEF Differ
  <2>. QED
    BY <2>1, <2>3, <2>4
<1>. QED
  BY <1>1 DEF PlaceOf

\* The text is that of the cells where something is written.
LEMMA SameText ==
  ASSUME NEW A, NEW B, \A k \in DOMAIN Places : Written(Places[k]) => (Places[k] \in A <=> Places[k] \in B)
  PROVE  TextAt(A) = TextAt(B)
<1>1. \A k \in DOMAIN Places : (Places[k] \in A /\ Written(Places[k])) <=> (Places[k] \in B /\ Written(Places[k]))
  OBVIOUS
<1>2. [k \in DOMAIN Places |-> IF Places[k] \in A /\ Written(Places[k]) THEN <<CellAt(Places[k])>> ELSE << >>]
        = [k \in DOMAIN Places |-> IF Places[k] \in B /\ Written(Places[k]) THEN <<CellAt(Places[k])>> ELSE << >>]
  BY <1>1
<1>. QED
  BY <1>2 DEF TextAt

\* The rows and columns that getSelectionContents() goes through are the cells
\* between the two in the order of reading.
LEMMA CopiedBetween ==
  ASSUME RowsInv, NEW a \in Grid, NEW b \in Grid
  PROVE  Copied(Create(a, b))
           = TextAt({p \in Grid : IF Before(b, a) THEN ~ Before(p, b) /\ Before(p, a)
                                  ELSE ~ Before(p, a) /\ ~ Before(b, p)})
<1>. DEFINE s == Create(a, b)
            S == {p \in Grid : /\ p[2] \in s.start[2]..(s.end[2] - 1)
                               /\ p[1] \in Columns(s, p[2])}
            T == {p \in Grid : IF Before(b, a) THEN ~ Before(p, b) /\ Before(p, a)
                               ELSE ~ Before(p, a) /\ ~ Before(b, p)}
<1>1. ASSUME NEW p \in Grid, Written(p) PROVE p \in S <=> p \in T
  <2>1. /\ p[1] \in 0..(Width - 1) /\ a[1] \in 0..(Width - 1) /\ b[1] \in 0..(Width - 1)
        /\ p[2] \in Nat /\ a[2] \in Nat /\ b[2] \in Nat /\ Width \in Nat
    BY ContentsFacts, SizesAssumption DEF Grid
  <2>2. p[1] < Cells(p[2]) /\ Cells(p[2]) \in Int
    <3>1. p[2] + 1 \in 1..Len(Contents)
      BY ContentsFacts DEF Grid
    <3>2. Contents[p[2] + 1] \in RowRecords
      BY <3>1, ContentsFacts
    <3>3. Cells(p[2]) \in Int
      BY <3>2, SizesAssumption DEF Cells, RowRecords
    <3>4. p[1] \in 0..(Cells(p[2]) - 1)
      BY <1>1 DEF Written, IsCell
    <3>. QED
      BY <3>3, <3>4
  <2>. DEFINE last == IF p[2] < s.end[2] - 1 THEN Width ELSE s.end[1]
  <2>3. CASE Before(b, a)
    <3>1. s.start = b /\ s.end[1] = a[1] /\ s.end[2] = a[2] + 1
      BY <2>3 DEF Create
    <3>2. last = (IF p[2] < a[2] THEN Width ELSE a[1]) /\ last \in Int
      BY <2>1, <3>1
    <3>3. Min({last, Cells(p[2])}) = IF last <= Cells(p[2]) THEN last ELSE Cells(p[2])
      BY <2>2, <3>2, TwoNumbers
    <3>4. p[1] \in Columns(s, p[2]) <=> (p[2] = b[2] => b[1] <= p[1]) /\ p[1] < last
      <4>. HIDE DEF last
      <4>1. Columns(s, p[2]) = (IF p[2] = b[2] THEN b[1] ELSE 0)..(Min({last, Cells(p[2])}) - 1)
        BY <3>1 DEF Columns, last
      <4>. QED
        BY <2>1, <2>2, <3>2, <3>3, <4>1
    <3>5. p \in S <=> /\ b[2] <= p[2] /\ p[2] <= a[2]
                      /\ p[2] = b[2] => b[1] <= p[1]
                      /\ p[1] < last
      BY <2>1, <3>1, <3>4
    <3>6. p \in T <=> ~ Before(p, b) /\ Before(p, a)
      BY <2>3
    <3>. HIDE DEF S, T, last
    <3>. QED
      BY <2>1, <2>3, <3>2, <3>5, <3>6 DEF Before
  <2>4. CASE ~ Before(b, a)
    <3>1. s.start = a /\ s.end[1] = b[1] + 1 /\ s.end[2] = b[2] + 1
      BY <2>4 DEF Create
    <3>2. last = (IF p[2] < b[2] THEN Width ELSE b[1] + 1) /\ last \in Int
      BY <2>1, <3>1
    <3>3. Min({last, Cells(p[2])}) = IF last <= Cells(p[2]) THEN last ELSE Cells(p[2])
      BY <2>2, <3>2, TwoNumbers
    <3>4. p[1] \in Columns(s, p[2]) <=> (p[2] = a[2] => a[1] <= p[1]) /\ p[1] < last
      <4>. HIDE DEF last
      <4>1. Columns(s, p[2]) = (IF p[2] = a[2] THEN a[1] ELSE 0)..(Min({last, Cells(p[2])}) - 1)
        BY <3>1 DEF Columns, last
      <4>. QED
        BY <2>1, <2>2, <3>2, <3>3, <4>1
    <3>5. p \in S <=> /\ a[2] <= p[2] /\ p[2] <= b[2]
                      /\ p[2] = a[2] => a[1] <= p[1]
                      /\ p[1] < last
      BY <2>1, <3>1, <3>4
    <3>6. p \in T <=> ~ Before(p, a) /\ ~ Before(b, p)
      BY <2>4
    <3>. HIDE DEF S, T, last
    <3>. QED
      BY <2>1, <2>4, <3>2, <3>5, <3>6 DEF Before
  <2>. QED
    BY <2>3, <2>4
<1>2. S \subseteq Grid /\ T \subseteq Grid
  OBVIOUS
<1>. HIDE DEF S, T
<1>3. TextAt(S) = TextAt(T)
  BY <1>1, <1>2, SameText
<1>. QED
  BY <1>3 DEF S, T, Copied

-----------------------------------------------------------------------------
(* What a step does to the selection *)

\* A drag begins in a cell ...
Begins == \E x, y : /\ from' = <<x, y>> /\ drag' = Pressed(<<x, y>>)
                    /\ selection' = NoSelection

\* ... and comes to another ...
Comes == \E x, y : /\ Unlocked
                   /\ from # Nowhere /\ from' = from
                   /\ selection' = Create(from, <<x, y>>)
                   /\ drag' = [drag EXCEPT !.last = IF IsCell(<<x, y>>) THEN CellAt(<<x, y>>) ELSE Nowhere,
                                           !.kept = @ /\ IsCell(<<x, y>>)]

\* ... until it ends, with what is selected then or something on this screen.
Ends == /\ from' = Nowhere /\ UNCHANGED drag
        /\ selection' \in {selection, NoSelection} \/ (Unlocked /\ selection'.on = alternate)

Selects == UNCHANGED <<selection, from, drag>> \/ Begins \/ Comes \/ Ends

LEMMA SelectsKeeps ==
  ASSUME RowsInv, DragType, DragInv, Selects, UNCHANGED contents
  PROVE  DragType' /\ DragInv' /\ (Here => Here')
<1>1. /\ Grid' = Grid /\ alternate' = alternate /\ switching' = switching
      /\ \A p : CellAt(p)' = CellAt(p)
  BY DEF contents, Grid, CellAt, Contents
<1>2. ASSUME NEW a, NEW b PROVE Create(a, b)' = Create(a, b) /\ Create(a, b).on = alternate
  BY <1>1 DEF Create
<1>3. CASE UNCHANGED <<selection, from, drag>>
  <2>1. DragInv'
    BY <1>1, <1>2, <1>3 DEF DragInv
  <2>. QED
    BY <1>1, <1>3, <2>1 DEF DragType, Here, IsEmpty
<1>4. CASE Begins
  <2>1. PICK x, y : /\ from' = <<x, y>> /\ drag' = Pressed(<<x, y>>)
                    /\ selection' = NoSelection
    BY <1>4 DEF Begins
  <2>2. /\ drag'.kept = IsCell(<<x, y>>) /\ drag'.last = Nowhere
        /\ drag'.on = alternate /\ drag'.during = switching
        /\ IsCell(<<x, y>>) => drag'.pressed = CellAt(<<x, y>>)
    BY <2>1 DEF Pressed
  <2>3. DragType'
    <3>1. (IF IsCell(<<x, y>>) THEN CellAt(<<x, y>>) ELSE Nowhere) \in Int \X Int /\ Nowhere \in Int \X Int
      BY CellFacts DEF Nowhere
    <3>2. IsCell(<<x, y>>) \in BOOLEAN /\ alternate \in BOOLEAN /\ switching \in BOOLEAN
      BY DEF IsCell, RowsInv
    <3>. QED
      BY <2>1, <3>1, <3>2 DEF Pressed, DragType
  <2>4. DragInv'
    BY <1>1, <2>1, <2>2, CellFacts DEF DragInv
  <2>5. Here'
    BY <1>1, <2>1, <2>2 DEF Here, IsEmpty, NoSelection
  <2>. QED
    BY <2>3, <2>4, <2>5
<1>5. CASE Comes
  <2>1. PICK x, y : /\ Unlocked
                    /\ from # Nowhere /\ from' = from
                    /\ selection' = Create(from, <<x, y>>)
                    /\ drag' = [drag EXCEPT !.last = IF IsCell(<<x, y>>) THEN CellAt(<<x, y>>) ELSE Nowhere,
                                            !.kept = @ /\ IsCell(<<x, y>>)]
    BY <1>5 DEF Comes
  <2>2. /\ drag'.kept = (drag.kept /\ IsCell(<<x, y>>))
        /\ drag'.last = (IF IsCell(<<x, y>>) THEN CellAt(<<x, y>>) ELSE Nowhere)
        /\ drag'.pressed = drag.pressed /\ drag'.on = drag.on /\ drag'.during = drag.during
    BY <2>1 DEF DragType
  <2>3. DragType'
    <3>1. drag'.last \in Int \X Int
      BY <2>2, CellFacts DEF Nowhere
    <3>2. drag'.kept \in BOOLEAN
      BY <2>2 DEF IsCell
    <3>. QED
      BY <2>1, <3>1, <3>2 DEF DragType
  <2>4. DragInv'
    <3>. SUFFICES ASSUME drag'.kept
                  PROVE  /\ from' \in Grid' /\ CellAt(from)' = drag'.pressed
                         /\ \E end \in Grid' : CellAt(end)' = drag'.last /\ selection' = Create(from, end)'
      BY DEF DragInv
    <3>1. IsCell(<<x, y>>) /\ drag.kept
      BY <2>2
    <3>2. <<x, y>> \in Grid' /\ CellAt(<<x, y>>)' = drag'.last
      BY <1>1, <2>2, <3>1, CellFacts
    <3>3. selection' = Create(from, <<x, y>>)'
      BY <1>1, <2>1 DEF Create
    <3>. QED
      BY <1>1, <2>1, <2>2, <3>1, <3>2, <3>3 DEF DragInv
  <2>5. Here => Here'
    BY <1>1, <1>2, <2>1, <2>2 DEF Here, Unlocked
  <2>. QED
    BY <2>3, <2>4, <2>5
<1>6. CASE Ends
  <2>1. from' = Nowhere /\ UNCHANGED drag
    BY <1>6 DEF Ends
  <2>2. Here => Here'
    BY <1>1, <1>6 DEF Ends, Here, IsEmpty, NoSelection, Unlocked
  <2>. QED
    BY <2>1, <2>2 DEF DragType, DragInv
<1>. QED
  BY <1>3, <1>4, <1>5, <1>6 DEF Selects

LEMMA MouseDownSelects ==
  ASSUME NEW button, NEW p, NEW plain, MouseDown(button, p, plain)
  PROVE  Selects /\ UNCHANGED <<contents, events>>
<1>1. UNCHANGED <<contents, events>>
  BY DEF MouseDown, Input, Event
<1>2. CASE mode # "Off"
  BY <1>1, <1>2 DEF MouseDown, Selects
<1>3. CASE mode = "Off"
  <2>1. SelectionMouseDown(button, p, plain)
    BY <1>3 DEF MouseDown
  <2>2. CASE plain /\ button = "Left"
    <3>1. from' = InContents(p) /\ drag' = Pressed(InContents(p)) /\ selection' = NoSelection
      BY <2>1, <2>2 DEF SelectionMouseDown
    <3>. QED
      BY <1>1, <3>1 DEF Selects, Begins, InContents
  <2>3. CASE ~ (plain /\ button = "Left")
    BY <1>1, <2>1, <2>3 DEF SelectionMouseDown, ClearSelection, Selects, Ends
  <2>. QED
    BY <2>2, <2>3
<1>. QED
  BY <1>2, <1>3

LEMMA MouseUpSelects ==
  ASSUME NEW button, NEW plain, NEW quick, MouseUp(button, plain, quick)
  PROVE  Selects /\ UNCHANGED <<contents, events>>
<1>1. UNCHANGED <<contents, events, drag>>
  BY DEF MouseUp, Event
<1>2. UNCHANGED <<selection, from>> \/ (from' = Nowhere /\ selection' = selection)
  BY DEF MouseUp, SelectionMouseUp, selecting
<1>. QED
  BY <1>1, <1>2 DEF Selects, Ends

LEMMA MouseMoveSelects ==
  ASSUME NEW p, MouseMove(p)
  PROVE  Selects /\ UNCHANGED <<contents, events>>
<1>1. UNCHANGED <<contents, events, from>>
  BY DEF MouseMove, Input, Event
<1>2. CASE Reported(p) \/ from = Nowhere
  BY <1>1, <1>2 DEF MouseMove, SelectionMouseMove, Selects
<1>3. CASE ~ Reported(p) /\ from # Nowhere
  <2>. DEFINE end == Clamped(InContents(p))
  <2>1. /\ selection' = Create(from, end)
        /\ drag' = [drag EXCEPT !.last = IF IsCell(end) THEN CellAt(end) ELSE Nowhere,
                                !.kept = @ /\ IsCell(end)]
    BY <1>3 DEF MouseMove, SelectionMouseMove
  <2>2. \E x, y : end = <<x, y>>
    <3>1. end = <<Max({0, Min({Width - 1, InContents(p)[1]})}), Max({0, Min({Len(Contents) - 1, InContents(p)[2]})})>>
      BY DEF Clamped
    <3>. HIDE DEF end
    <3>. QED
      BY <3>1
  <2>. HIDE DEF end
  <2>4. Unlocked
    BY DEF MouseMove
  <2>3. Comes
    <3>1. PICK x, y : end = <<x, y>>
      BY <2>2
    <3>. QED
      BY <1>1, <1>3, <2>1, <2>4, <3>1, Zenon DEF Comes
  <2>. QED
    BY <1>1, <2>3 DEF Selects
<1>. QED
  BY <1>2, <1>3

LEMMA KeyDownSelects ==
  ASSUME NEW copies, KeyDown(copies)
  PROVE  Selects /\ UNCHANGED <<contents, events>>
<1>1. UNCHANGED <<contents, events, drag>>
  BY DEF KeyDown, Input, Event
<1>2. UNCHANGED <<selection, from>> \/ (selection' = NoSelection /\ from' = Nowhere)
  BY DEF KeyDown, SelectionKeyDown, ClearSelection
<1>. QED
  BY <1>1, <1>2 DEF Selects, Ends

LEMMA MouseClickSelects ==
  ASSUME NEW p, MouseClick(p)
  PROVE  Selects /\ UNCHANGED <<contents, events>>
<1>1. UNCHANGED <<contents, events, drag>>
  BY DEF MouseClick
<1>2. \A a, b : Create(a, b).on = alternate
  BY DEF Create
<1>3. ASSUME NEW q, SelectWord(q) \/ SelectLine(q)
      PROVE  UNCHANGED <<selection, from>> \/ (from' = Nowhere /\ selection'.on = alternate)
  <2>1. UNCHANGED <<selection, from>> \/ \E a, b : SelectAtOnce(Create(a, b))
    BY <1>3, Zenon DEF SelectWord, SelectLine
  <2>. QED
    BY <1>2, <2>1, Zenon DEF SelectAtOnce
<1>4. Unlocked /\ (UNCHANGED <<selection, from>> \/ (from' = Nowhere /\ selection'.on = alternate))
  BY <1>3 DEF MouseClick, MouseDoubleClick, MouseTripleClick
<1>. QED
  BY <1>1, <1>4 DEF Selects, Ends

LEMMA UserSelects == ASSUME User PROVE Selects /\ UNCHANGED <<contents, events>>
<1>1. ASSUME NEW rows, MouseWheel(rows) PROVE Selects /\ UNCHANGED <<contents, events>>
  BY <1>1 DEF MouseWheel, Input, Event, selecting, Selects
<1>. QED
  BY <1>1, MouseDownSelects, MouseUpSelects, MouseMoveSelects, MouseClickSelects, KeyDownSelects DEF User

-----------------------------------------------------------------------------
(* What is scheduled *)

\* The clearing of a selection stays scheduled until it is done.
LEMMA ScheduledMore ==
  ASSUME EventsInv, NEW e \in {"autoscroll", "clear", "scroll", "scrollTo"}, Scheduled(e)
  PROVE  /\ EventsInv' /\ (Contains(events, "clear") => Contains(events, "clear")')
         /\ e = "clear" => Contains(events, "clear")'
<1>. DEFINE S == {"autoscroll", "clear", "scroll", "scrollTo"}
<1>1. events \in Seq(S) /\ Len(events) \in Nat
  BY DEF EventsInv
<1>2. /\ events' \in Seq(S) /\ Len(events') = Len(events) + 1
      /\ \A i \in 1..Len(events) : i \in 1..Len(events') /\ events'[i] = events[i]
      /\ Len(events) + 1 \in 1..Len(events') /\ events'[Len(events) + 1] = e
  BY <1>1 DEF Scheduled
<1>. QED
  BY <1>2 DEF EventsInv, Contains

LEMMA ScheduledLess ==
  ASSUME EventsInv, events # << >>, events' = Tail(events)
  PROVE  /\ EventsInv'
         /\ Contains(events, "clear") => Contains(events, "clear")' \/ Head(events) = "clear"
<1>. DEFINE S == {"autoscroll", "clear", "scroll", "scrollTo"}
<1>1. events \in Seq(S) /\ Len(events) \in Nat
  BY DEF EventsInv
<1>2. /\ events' \in Seq(S) /\ Len(events') = Len(events) - 1 /\ Head(events) = events[1]
      /\ \A i \in 1..(Len(events) - 1) : events'[i] = events[i + 1]
  BY <1>1
<1>3. ASSUME NEW i \in 1..Len(events), events[i] = "clear"
      PROVE  Contains(events, "clear")' \/ Head(events) = "clear"
  <2>1. CASE i = 1
    BY <1>1, <1>2, <1>3, <2>1
  <2>2. CASE i # 1
    <3>1. i - 1 \in 1..(Len(events) - 1) /\ (i - 1) + 1 = i
      BY <1>1, <2>2
    <3>2. events'[i - 1] = "clear" /\ i - 1 \in 1..Len(events')
      BY <1>2, <1>3, <3>1
    <3>. QED
      BY <3>2 DEF Contains
  <2>. QED
    BY <2>1, <2>2
<1>. QED
  BY <1>2, <1>3 DEF EventsInv, Contains

-----------------------------------------------------------------------------
(* The reader *)

LEMMA GreatestRow ==
  ASSUME RowsInv
  PROVE  /\ Max(Rows) \in Nat
         /\ \A i \in DOMAIN history : history[i].id <= Max(Rows)
         /\ \A i \in DOMAIN screen : screen[i].id <= Max(Rows)
         /\ \A i \in DOMAIN other : other[i].id <= Max(Rows)
<1>1. PICK n \in Nat : Rows \subseteq 0..n
  BY DEF RowsInv
<1>2. 1 \in DOMAIN screen
  BY SizesAssumption DEF RowsInv
<1>3. Rows # {}
  BY <1>2 DEF Rows
<1>4. Max(Rows) \in Rows /\ \A m \in Rows : m <= Max(Rows)
  BY <1>1, <1>3, GreatestNumber
<1>. QED
  BY <1>1, <1>4 DEF Rows

\* Rows that are numbered up to n.
UpTo(s, n) == \A i \in DOMAIN s : s[i].id <= n

LEMMA RowsUpTo ==
  ASSUME NEW n \in Nat, history \in Seq(RowRecords), screen \in Seq(RowRecords), other \in Seq(RowRecords),
         UpTo(history, n), UpTo(screen, n), UpTo(other, n)
  PROVE  Rows \subseteq 0..n
<1>1. \A s \in Seq(RowRecords) : UpTo(s, n) => \A i \in DOMAIN s : s[i].id \in 0..n
  <2>. SUFFICES ASSUME NEW s \in Seq(RowRecords), UpTo(s, n), NEW i \in DOMAIN s PROVE s[i].id \in 0..n
    OBVIOUS
  <2>1. s[i] \in RowRecords
    OBVIOUS
  <2>. QED
    BY <2>1 DEF UpTo, RowRecords
<1>. QED
  BY <1>1 DEF Rows

LEMMA RestOfRows ==
  ASSUME NEW h \in Seq(RowRecords), h # << >>
  PROVE  /\ Tail(h) \in Seq(RowRecords)
         /\ Differ(h) => Differ(Tail(h))
         /\ \A t : Apart(h, t) => Apart(Tail(h), t)
         /\ \A n : UpTo(h, n) => UpTo(Tail(h), n)
<1>1. /\ Tail(h) \in Seq(RowRecords) /\ DOMAIN Tail(h) = 1..(Len(h) - 1) /\ DOMAIN h = 1..Len(h)
      /\ Len(h) \in Nat /\ \A i \in 1..(Len(h) - 1) : i + 1 \in 1..Len(h) /\ Tail(h)[i] = h[i + 1]
  OBVIOUS
<1>2. ASSUME Differ(h) PROVE Differ(Tail(h))
  <2>. SUFFICES ASSUME NEW i \in 1..(Len(h) - 1), NEW j \in 1..(Len(h) - 1), h[i + 1].id = h[j + 1].id
                PROVE  i = j
    BY <1>1 DEF Differ
  <2>1. i + 1 = j + 1
    BY <1>1, <1>2 DEF Differ
  <2>. QED
    BY <2>1
<1>. QED
  BY <1>1, <1>2 DEF Apart, UpTo

\* What was dragged over stays where it is as long as no row above it goes.
LEMMA DragStays ==
  ASSUME RowsInv, DragInv, UNCHANGED <<from, selection, alternate>>,
         drag'.kept => drag.kept, drag'.pressed = drag.pressed, drag'.last = drag.last,
         Len(Contents)' \in Nat, Len(Contents) <= Len(Contents)',
         \A i \in 1..Len(Contents) : Contents'[i].id = Contents[i].id
  PROVE  DragInv'
<1>1. ASSUME NEW p \in Grid PROVE p \in Grid' /\ CellAt(p)' = CellAt(p)
  <2>1. p[2] + 1 \in 1..Len(Contents) /\ p \in Grid'
    BY ContentsFacts DEF Grid
  <2>. QED
    BY <2>1 DEF CellAt
<1>2. \A a, b : Create(a, b)' = Create(a, b)
  BY DEF Create
<1>. QED
  BY <1>1, <1>2 DEF DragInv

\* A line is written and the rows scroll.
LEMMA ParseLineKeeps ==
  ASSUME SelectionInv, NEW line \in Lines, ParseLine(line[1], line[2])
  PROVE  SelectionInv'
<1>. DEFINE rows == [screen EXCEPT ![Height] = [@ EXCEPT !.len = line[1], !.ends = line[2]]]
            h == Append(history, Head(rows))
            N == Max(Rows) + 1
            new == screen'
<1>1. /\ screen' = Append(Tail(rows), NewRow)
      /\ UNCHANGED <<other, alternate, switching>> /\ UNCHANGED <<selection, from>>
      /\ drag' = [drag EXCEPT !.kept = @ /\ ~ alternate /\ Len(h) <= MaxHistoryRows]
      /\ IF alternate THEN UNCHANGED <<history, events>>
         ELSE /\ history' = IF Len(h) > MaxHistoryRows THEN Tail(h) ELSE h
              /\ IF follows THEN Scheduled("scroll") ELSE UNCHANGED events
  BY DEF ParseLine, Reads, selecting
<1>2. /\ history \in Seq(RowRecords) /\ screen \in Seq(RowRecords) /\ other \in Seq(RowRecords)
      /\ Len(screen) = Height /\ Len(other) = Height /\ Height \in Nat \ {0} /\ Len(history) \in Nat
      /\ alternate \in BOOLEAN /\ DOMAIN screen = 1..Height
  BY SizesAssumption DEF SelectionInv, RowsInv
<1>3. /\ rows \in Seq(RowRecords) /\ Len(rows) = Height
      /\ \A j \in 1..Height : rows[j].id = screen[j].id
  <2>1. line[1] \in 0..Width /\ line[2] \in BOOLEAN
    BY SizesAssumption
  <2>2. screen[Height] \in RowRecords
    BY <1>2
  <2>. DEFINE last == [screen[Height] EXCEPT !.len = line[1], !.ends = line[2]]
  <2>3. last \in RowRecords /\ last.id = screen[Height].id
    BY <2>1, <2>2 DEF RowRecords
  <2>. HIDE DEF last
  <2>4. rows = [screen EXCEPT ![Height] = last]
    BY DEF last
  <2>. HIDE DEF rows
  <2>. QED
    BY <1>2, <2>3, <2>4
<1>4. NewRow \in RowRecords /\ NewRow.id = N /\ N \in Nat /\ Max(Rows) \in Nat
  BY GreatestRow, SizesAssumption DEF SelectionInv, NewRow, Row, RowRecords
<1>5. UpTo(history, N) /\ UpTo(screen, N) /\ UpTo(other, N)
  <2>1. \A s \in {history, screen, other} : \A i \in DOMAIN s : s[i] \in RowRecords
    BY <1>2
  <2>2. \A s \in {history, screen, other} : \A i \in DOMAIN s : s[i].id \in Nat
    BY <2>1 DEF RowRecords
  <2>. QED
    BY <1>4, <2>2, GreatestRow DEF SelectionInv, UpTo
<1>. HIDE DEF rows, N
<1>6. /\ new \in Seq(RowRecords) /\ Len(new) = Height /\ DOMAIN new = 1..Height
      /\ new[Height] = NewRow
      /\ \A j \in 1..(Height - 1) : j + 1 \in 1..Height /\ new[j] = rows[j + 1]
  <2>1. /\ Tail(rows) \in Seq(RowRecords) /\ Len(Tail(rows)) = Height - 1
        /\ \A j \in 1..(Height - 1) : j + 1 \in 1..Height /\ Tail(rows)[j] = rows[j + 1]
    BY <1>2, <1>3
  <2>. DEFINE t == Tail(rows)
  <2>. HIDE DEF t
  <2>2. t \in Seq(RowRecords) /\ Len(t) = Height - 1
    BY <2>1 DEF t
  <2>3. /\ Append(t, NewRow) \in Seq(RowRecords) /\ Len(Append(t, NewRow)) = Height
        /\ Append(t, NewRow)[Height] = NewRow
        /\ \A j \in 1..(Height - 1) : Append(t, NewRow)[j] = t[j]
    BY <1>2, <1>4, <2>2
  <2>. QED
    BY <1>1, <1>2, <2>1, <2>3 DEF t
<1>. HIDE DEF new
<1>7. /\ h \in Seq(RowRecords) /\ Len(h) = Len(history) + 1 /\ h # << >> /\ DOMAIN h = 1..(Len(history) + 1)
      /\ h[Len(history) + 1] = rows[1] /\ rows[1].id = screen[1].id
      /\ \A i \in 1..Len(history) : h[i] = history[i]
  <2>1. Head(rows) = rows[1] /\ rows[1] \in RowRecords /\ 1 \in 1..Height
    BY <1>2, <1>3
  <2>. DEFINE r == Head(rows)
  <2>2. r \in RowRecords
    BY <2>1
  <2>. HIDE DEF r
  <2>3. /\ Append(history, r) \in Seq(RowRecords) /\ Len(Append(history, r)) = Len(history) + 1
        /\ Append(history, r)[Len(history) + 1] = r
        /\ \A i \in 1..Len(history) : Append(history, r)[i] = history[i]
    BY <1>2, <2>2
  <2>4. Append(history, r) # << >>
    BY <1>2, <2>3
  <2>. QED
    BY <1>2, <1>3, <2>1, <2>3, <2>4 DEF r
<1>. HIDE DEF h
<1>8. /\ Differ(history) /\ Differ(screen) /\ Differ(other)
      /\ Apart(history, screen) /\ Apart(history, other) /\ Apart(screen, other)
      /\ DOMAIN history = 1..Len(history) /\ DOMAIN other = 1..Height
  BY <1>2 DEF SelectionInv, RowsDiffer
<1>9. /\ \A i \in DOMAIN history : history[i].id # N
      /\ \A i \in DOMAIN screen : screen[i].id # N
      /\ \A i \in DOMAIN other : other[i].id # N
  <2>1. \A s \in {history, screen, other} : \A i \in DOMAIN s : s[i] \in RowRecords
    BY <1>2
  <2>2. \A s \in {history, screen, other} : \A i \in DOMAIN s : s[i].id \in Nat
    BY <2>1 DEF RowRecords
  <2>. QED
    BY <1>4, <2>2, GreatestRow DEF SelectionInv, N
<1>10. \A j \in 1..Height : (j < Height /\ j + 1 \in 1..Height /\ new[j].id = screen[j + 1].id)
                             \/ (j = Height /\ new[j].id = N)
  <2>. SUFFICES ASSUME NEW j \in 1..Height, j # Height
                PROVE  j < Height /\ j + 1 \in 1..Height /\ new[j].id = screen[j + 1].id
    BY <1>2, <1>4, <1>6
  <2>1. j \in 1..(Height - 1) /\ j < Height /\ j + 1 \in 1..Height
    BY <1>2
  <2>2. new[j] = rows[j + 1]
    BY ONLY <1>6, <2>1
  <2>3. rows[j + 1].id = screen[j + 1].id
    BY ONLY <1>3, <2>1
  <2>. QED
    BY ONLY <2>1, <2>2, <2>3
<1>11. /\ Differ(new) /\ Apart(new, other) /\ UpTo(new, N)
       /\ Apart(history, new)
  <2>1. Differ(new)
    <3>. SUFFICES ASSUME NEW i \in 1..Height, NEW j \in 1..Height, new[i].id = new[j].id
                  PROVE  i = j
      BY <1>6 DEF Differ
    <3>1. CASE i < Height /\ j < Height
      <4>1. /\ i + 1 \in 1..Height /\ j + 1 \in 1..Height /\ screen[i + 1].id = screen[j + 1].id
        BY <1>2, <1>10, <3>1
      <4>2. i + 1 = j + 1
        BY <1>2, <1>8, <4>1 DEF Differ
      <4>. QED
        BY <4>2
    <3>2. CASE i < Height /\ j = Height
      BY <1>2, <1>9, <1>10, <3>2
    <3>3. CASE i = Height /\ j < Height
      <4>1. new[i].id = N /\ new[j].id = screen[j + 1].id /\ j + 1 \in DOMAIN screen
        BY <1>2, <1>10, <3>3
      <4>. QED
        BY <1>9, <4>1
    <3>. QED
      BY <1>2, <3>1, <3>2, <3>3
  <2>2. ASSUME NEW j \in 1..Height
        PROVE  /\ new[j].id <= N
               /\ \A i \in DOMAIN other : new[j].id # other[i].id
               /\ \A i \in DOMAIN history : history[i].id # new[j].id
    <3>1. CASE j = Height
      BY <1>2, <1>4, <1>9, <1>10, <3>1
    <3>2. CASE j < Height
      <4>1. j + 1 \in DOMAIN screen /\ new[j].id = screen[j + 1].id
        BY <1>2, <1>10, <3>2
      <4>2. screen[j + 1].id <= N
        BY <1>5, <4>1 DEF UpTo
      <4>3. \A i \in DOMAIN other : screen[j + 1].id # other[i].id
        BY <1>8, <4>1 DEF Apart
      <4>4. \A i \in DOMAIN history : history[i].id # screen[j + 1].id
        BY <1>8, <4>1 DEF Apart
      <4>. QED
        BY <4>1, <4>2, <4>3, <4>4
    <3>. QED
      BY <1>2, <3>1, <3>2
  <2>. QED
    BY <1>6, <2>1, <2>2 DEF Apart, UpTo
<1>12. \A i \in 1..(Len(history) + 1) : (i \in 1..Len(history) /\ h[i].id = history[i].id)
                                        \/ (i = Len(history) + 1 /\ h[i].id = screen[1].id)
  BY <1>2, <1>7
<1>13. /\ Differ(h) /\ Apart(h, other) /\ UpTo(h, N) /\ Apart(h, new) /\ 1 \in DOMAIN screen
  <2>1. 1 \in DOMAIN screen
    BY <1>2
  <2>2. Differ(h)
    <3>. SUFFICES ASSUME NEW i \in 1..(Len(history) + 1), NEW j \in 1..(Len(history) + 1), h[i].id = h[j].id
                  PROVE  i = j
      BY <1>7 DEF Differ
    <3>. QED
      BY <1>2, <1>8, <1>12, <2>1 DEF Differ, Apart
  <2>3. Apart(h, other)
    BY <1>7, <1>8, <1>12, <2>1 DEF Apart
  <2>4. UpTo(h, N)
    BY <1>5, <1>7, <1>8, <1>12, <2>1 DEF UpTo
  <2>5. ASSUME NEW i \in 1..(Len(history) + 1), NEW j \in 1..Height PROVE h[i].id # new[j].id
    <3>1. CASE i \in 1..Len(history)
      <4>1. h[i].id = history[i].id /\ i \in DOMAIN history
        BY <1>2, <1>8, <1>12, <3>1
      <4>2. j \in DOMAIN new
        BY ONLY <1>6
      <4>. QED
        BY ONLY <1>11, <4>1, <4>2 DEF Apart
    <3>2. CASE i = Len(history) + 1
      <4>1. h[i].id = screen[1].id
        BY <1>7, <3>2
      <4>2. CASE j = Height
        BY <1>9, <1>10, <2>1, <4>1, <4>2, <1>2
      <4>3. CASE j # Height
        <5>1. j + 1 \in DOMAIN screen /\ j + 1 # 1 /\ new[j].id = screen[j + 1].id
          BY <1>2, <1>10, <4>3
        <5>. QED
          BY <1>8, <2>1, <4>1, <5>1 DEF Differ
      <4>. QED
        BY <4>2, <4>3
    <3>. QED
      BY <1>2, <3>1, <3>2
  <2>6. Apart(h, new)
    BY <1>6, <1>7, <2>5 DEF Apart
  <2>. QED
    BY <2>1, <2>2, <2>3, <2>4, <2>6
<1>14. /\ history' \in Seq(RowRecords) /\ Differ(history') /\ Apart(history', other)
       /\ UpTo(history', N) /\ Apart(history', new)
  <2>1. history' \in {history, h, Tail(h)}
    BY <1>1, <1>2
  <2>2. CASE history' = history
    BY <1>2, <1>5, <1>8, <1>11, <2>2
  <2>3. CASE history' = h
    BY <1>7, <1>13, <2>3
  <2>4. CASE history' = Tail(h)
    BY <1>7, <1>13, <2>4, RestOfRows
  <2>. QED
    BY <2>1, <2>2, <2>3, <2>4
<1>15. RowsInv'
  <2>1. Rows' \subseteq 0..N
    <3>1. UpTo(history', N) /\ UpTo(new, N) /\ UpTo(other', N) /\ other' \in Seq(RowRecords)
      BY <1>1, <1>2, <1>5, <1>11, <1>14
    <3>. DEFINE a == history'
                b == new
                c == other'
    <3>2. \A s \in {a, b, c} : \A i \in DOMAIN s : s[i] \in RowRecords /\ s[i].id <= N
      BY <1>6, <1>14, <3>1 DEF UpTo
    <3>3. \A s \in {a, b, c} : \A i \in DOMAIN s : s[i].id \in 0..N
      BY <1>4, <3>2 DEF RowRecords
    <3>. QED
      BY <3>3 DEF Rows, new
  <2>2. switching' \in BOOLEAN
    BY <1>1 DEF SelectionInv, RowsInv
  <2>. QED
    BY <1>1, <1>2, <1>4, <1>6, <1>14, <2>1, <2>2 DEF RowsInv, new
<1>16. RowsDiffer'
  BY <1>1, <1>8, <1>11, <1>14 DEF RowsDiffer, new
<1>17. /\ DragType' /\ drag'.pressed = drag.pressed /\ drag'.last = drag.last /\ drag'.on = drag.on
       /\ drag'.during = drag.during
       /\ drag'.kept = (drag.kept /\ ~ alternate /\ Len(h) <= MaxHistoryRows)
  BY <1>1, <1>2, <1>7, SizesAssumption DEF SelectionInv, DragType
<1>18. DragInv'
  <2>1. CASE ~ drag'.kept
    BY <2>1 DEF DragInv
  <2>2. CASE drag'.kept
    <3>1. drag.kept /\ ~ alternate /\ Len(h) <= MaxHistoryRows
      BY <1>17, <2>2
    <3>2. history' = h /\ Contents = history \o screen /\ Contents' = h \o new
      <4>1. Len(h) \in Nat /\ ~ (Len(h) > MaxHistoryRows)
        BY <1>2, <1>7, <3>1, SizesAssumption
      <4>2. history' = h /\ ~ alternate'
        BY <1>1, <3>1, <4>1
      <4>. QED
        BY <3>1, <4>2 DEF Contents, new
    <3>3. /\ Len(Contents) = Len(history) + Height
          /\ \A i \in 1..Len(history) : Contents[i] = history[i]
          /\ \A i \in (Len(history) + 1)..(Len(history) + Height) : Contents[i] = screen[i - Len(history)]
      <4>1. /\ Len(history \o screen) = Len(history) + Len(screen)
            /\ \A i \in 1..Len(history) : (history \o screen)[i] = history[i]
            /\ \A i \in (Len(history) + 1)..(Len(history) + Len(screen)) :
                 (history \o screen)[i] = screen[i - Len(history)]
        <5>1. history \in Seq(RowRecords) /\ screen \in Seq(RowRecords)
          BY <1>2
        <5>. QED
          BY ONLY <5>1, ConcatFacts
      <4>. QED
        BY <1>2, <3>2, <4>1
    <3>. DEFINE all == Contents'
    <3>4. new \in Seq(RowRecords) /\ Len(new) = Height /\ all = h \o new
      BY <1>6, <3>2
    <3>. HIDE DEF all
    <3>5. /\ Len(all) = (Len(history) + 1) + Height
          /\ \A i \in 1..(Len(history) + 1) : all[i] = h[i]
          /\ \A i \in ((Len(history) + 1) + 1)..((Len(history) + 1) + Height) : all[i] = new[i - (Len(history) + 1)]
      <4>1. /\ Len(h \o new) = Len(h) + Len(new)
            /\ \A i \in 1..Len(h) : (h \o new)[i] = h[i]
            /\ \A i \in (Len(h) + 1)..(Len(h) + Len(new)) : (h \o new)[i] = new[i - Len(h)]
        <5>1. h \in Seq(RowRecords) /\ new \in Seq(RowRecords)
          BY <1>7, <3>4
        <5>. QED
          BY ONLY <5>1, ConcatFacts
      <4>. QED
        BY <1>2, <1>7, <3>4, <4>1
    <3>6. ASSUME NEW i \in 1..Len(Contents) PROVE all[i].id = Contents[i].id
      <4>1. CASE i \in 1..Len(history)
        <5>1. i \in 1..(Len(history) + 1)
          BY <1>2, <4>1
        <5>. QED
          BY <1>7, <3>3, <3>5, <4>1, <5>1
      <4>2. CASE i = Len(history) + 1
        <5>1. i \in 1..(Len(history) + 1) /\ i \in (Len(history) + 1)..(Len(history) + Height) /\ i - Len(history) = 1
          BY <1>2, <4>2
        <5>. QED
          BY <1>7, <3>3, <3>5, <4>2, <5>1
      <4>3. CASE i \in (Len(history) + 2)..(Len(history) + Height)
        <5>. DEFINE k == i - Len(history)
        <5>1. /\ i \in ((Len(history) + 1) + 1)..((Len(history) + 1) + Height)
              /\ i \in (Len(history) + 1)..(Len(history) + Height)
              /\ i - (Len(history) + 1) = k - 1 /\ k - 1 \in 1..Height /\ k - 1 # Height /\ (k - 1) + 1 = k
          BY <1>2, <4>3
        <5>. HIDE DEF k
        <5>2. new[k - 1].id = screen[(k - 1) + 1].id
          BY <1>2, <1>10, <5>1
        <5>. QED
          BY <3>3, <3>5, <5>1, <5>2 DEF k
      <4>. QED
        BY <1>2, <3>3, <4>1, <4>2, <4>3
    <3>7. Len(all) \in Nat /\ Len(Contents) <= Len(all)
      BY <1>2, <3>3, <3>5
    <3>. QED
      BY <1>1, <1>17, <3>1, <3>6, <3>7, DragStays DEF SelectionInv, all
  <2>. QED
    BY <1>17, <2>1, <2>2 DEF DragType
<1>19. EventsInv' /\ (Contains(events, "clear") => Contains(events, "clear")')
  <2>1. UNCHANGED events \/ Scheduled("scroll")
    BY <1>1
  <2>2. CASE UNCHANGED events
    BY <2>2 DEF SelectionInv, EventsInv
  <2>3. CASE Scheduled("scroll")
    <3>1. EventsInv /\ "scroll" \in {"autoscroll", "scroll"}
      BY DEF SelectionInv
    <3>. QED
      BY <2>3, <3>1, ScheduledMore
  <2>. QED
    BY <2>1, <2>2, <2>3
<1>20. SwitchInv'
  <2>1. Here => Here'
    BY <1>1, <1>17 DEF Here, IsEmpty
  <2>. QED
    BY <1>19, <2>1 DEF SelectionInv, SwitchInv
<1>. QED
  BY <1>15, <1>16, <1>17, <1>18, <1>19, <1>20 DEF SelectionInv

\* The contents are still those before the switch.
LEMMA SetAlternateModeKeeps ==
  ASSUME SelectionInv, SetAlternateMode
  PROVE  SelectionInv'
<1>1. /\ UNCHANGED <<history, screen, other, alternate>> /\ switching' = TRUE
      /\ UNCHANGED <<selection, from, drag>> /\ Scheduled("clear")
  BY DEF SetAlternateMode, ScheduleClear, Reads, selecting
<1>2. EventsInv' /\ Contains(events, "clear")'
  BY <1>1, ScheduledMore DEF SelectionInv
<1>3. Rows' = Rows /\ Grid' = Grid /\ \A p : CellAt(p)' = CellAt(p)
  BY <1>1 DEF Rows, Grid, CellAt, Contents
<1>4. RowsInv' /\ RowsDiffer'
  BY <1>1, <1>3 DEF SelectionInv, RowsInv, RowsDiffer
<1>5. \A a, b : Create(a, b)' = Create(a, b)
  BY <1>1 DEF Create
<1>6. DragType' /\ DragInv'
  BY <1>1, <1>3, <1>5 DEF SelectionInv, DragType, DragInv
<1>. QED
  BY <1>2, <1>4, <1>6 DEF SelectionInv, SwitchInv

\* The screens are swapped, or the alternate one is new.
LEMMA SwapScreensKeeps ==
  ASSUME SelectionInv, SwapScreens
  PROVE  SelectionInv'
<1>. DEFINE M == Max(Rows)
            fresh == [j \in 1..Height |-> Row(M + j)]
            new == screen'
<1>1. /\ alternate' = ~ alternate /\ other' = screen /\ history' = history
      /\ new = IF alternate THEN other ELSE fresh
      /\ Scheduled("scrollTo") /\ switching /\ switching' = FALSE
      /\ drag' = [drag EXCEPT !.kept = FALSE] /\ UNCHANGED <<selection, from>>
  BY DEF SwapScreens, Reads, selecting
<1>2. /\ history \in Seq(RowRecords) /\ screen \in Seq(RowRecords) /\ other \in Seq(RowRecords)
      /\ Len(screen) = Height /\ Len(other) = Height /\ Height \in Nat \ {0}
      /\ alternate \in BOOLEAN
      /\ DOMAIN screen = 1..Height /\ DOMAIN other = 1..Height /\ DOMAIN history = 1..Len(history)
  BY SizesAssumption DEF SelectionInv, RowsInv
<1>3. /\ M \in Nat /\ \A s \in {history, screen, other} : \A i \in DOMAIN s : s[i] \in RowRecords /\ s[i].id <= M
  BY <1>2, GreatestRow DEF SelectionInv
<1>4. \A s \in {history, screen, other} : \A i \in DOMAIN s : s[i].id \in 0..M
  BY <1>3 DEF RowRecords
<1>. HIDE DEF M, new
<1>5. /\ fresh \in Seq(RowRecords) /\ Len(fresh) = Height /\ DOMAIN fresh = 1..Height
      /\ \A j \in 1..Height : fresh[j].id = M + j
  <2>1. \A j \in 1..Height : Row(M + j) \in RowRecords /\ Row(M + j).id = M + j
    BY <1>3, SizesAssumption DEF Row, RowRecords
  <2>. QED
    BY <1>2, <2>1
<1>. HIDE DEF fresh
<1>6. /\ Differ(history) /\ Differ(screen) /\ Differ(other)
      /\ Apart(history, screen) /\ Apart(history, other) /\ Apart(screen, other)
  BY DEF SelectionInv, RowsDiffer
<1>7. /\ new \in Seq(RowRecords) /\ Len(new) = Height
      /\ Differ(new) /\ Apart(history, new) /\ Apart(new, screen)
      /\ \A j \in DOMAIN new : new[j].id \in 0..(M + Height)
  <2>1. CASE alternate
    <3>1. new = other
      BY <1>1, <2>1
    <3>2. Apart(other, screen)
      BY <1>6 DEF Apart
    <3>3. \A j \in DOMAIN other : other[j].id \in 0..(M + Height)
      BY <1>2, <1>3, <1>4
    <3>. QED
      BY <1>2, <1>6, <3>1, <3>2, <3>3
  <2>2. CASE ~ alternate
    <3>1. new = fresh
      BY <1>1, <2>2
    <3>2. Differ(fresh)
      BY <1>2, <1>3, <1>5 DEF Differ
    <3>3. ASSUME NEW j \in 1..Height, NEW s \in {history, screen, other}, NEW i \in DOMAIN s
          PROVE  fresh[j].id # s[i].id /\ fresh[j].id \in 0..(M + Height)
      <4>1. s[i].id \in 0..M /\ fresh[j].id = M + j
        BY <1>4, <1>5
      <4>. QED
        BY <1>2, <1>3, <4>1
    <3>4. Apart(history, fresh) /\ Apart(fresh, screen)
      BY <1>5, <3>3 DEF Apart
    <3>5. \A j \in 1..Height : fresh[j].id \in 0..(M + Height)
      BY <1>2, <1>3, <1>5
    <3>. QED
      BY <1>5, <3>1, <3>2, <3>4, <3>5
  <2>. QED
    BY <1>2, <2>1, <2>2
<1>8. RowsDiffer'
  BY <1>1, <1>6, <1>7 DEF RowsDiffer, new
<1>9. RowsInv'
  <2>1. M + Height \in Nat /\ \A s \in {history, screen, new} : \A i \in DOMAIN s : s[i].id \in 0..(M + Height)
    BY <1>2, <1>3, <1>4, <1>7
  <2>2. Rows' \subseteq 0..(M + Height)
    BY <1>1, <2>1 DEF Rows, new
  <2>. QED
    BY <1>1, <1>2, <1>7, <2>1, <2>2 DEF RowsInv, new
<1>10. DragType' /\ drag'.kept = FALSE /\ drag'.during = drag.during
  BY <1>1 DEF SelectionInv, DragType
<1>11. EventsInv' /\ (Contains(events, "clear") => Contains(events, "clear")')
  BY <1>1, ScheduledMore DEF SelectionInv
<1>12. Here => Here'
  BY <1>1, <1>10 DEF Here, IsEmpty
<1>. QED
  BY <1>8, <1>9, <1>10, <1>11, <1>12 DEF SelectionInv, DragInv, SwitchInv

-----------------------------------------------------------------------------
(* Every step *)

LEMMA ContentsKept == ASSUME SelectionInv, UNCHANGED contents PROVE RowsInv' /\ RowsDiffer'
<1>1. Rows' = Rows
  BY DEF contents, Rows
<1>2. RowsInv'
  BY <1>1 DEF SelectionInv, RowsInv, contents
<1>3. RowsDiffer'
  BY DEF SelectionInv, RowsDiffer, contents
<1>. QED
  BY <1>2, <1>3

\* Of a step that leaves the contents alone there is left to see what it does
\* to what is scheduled.
LEMMA SelectsHolds ==
  ASSUME SelectionInv, Selects, UNCHANGED contents, EventsInv',
         Contains(events, "clear") => Contains(events, "clear")' \/ Here'
  PROVE  SelectionInv'
<1>1. DragType' /\ DragInv' /\ (Here => Here')
  BY SelectsKeeps DEF SelectionInv
<1>2. SwitchInv'
  BY <1>1 DEF SelectionInv, SwitchInv
<1>. QED
  BY <1>1, <1>2, ContentsKept DEF SelectionInv

LEMMA InitHolds == Init => SelectionInv
<1>. SUFFICES ASSUME Init PROVE SelectionInv
  OBVIOUS
<1>1. \A id \in Nat : Row(id) \in RowRecords /\ Row(id).id = id
  BY SizesAssumption DEF Row, RowRecords
<1>2. /\ screen = [j \in 1..Height |-> Row(j)] /\ other = [j \in 1..Height |-> Row(Height + j)]
      /\ history = << >> /\ alternate = FALSE /\ switching = FALSE /\ Height \in Nat
      /\ events = << >> /\ drag = NoDrag /\ from = Nowhere /\ selection = NoSelection
  BY SizesAssumption DEF Init
<1>3. /\ \A j \in 1..Height : screen[j] \in RowRecords /\ other[j] \in RowRecords
      /\ \A j \in 1..Height : screen[j].id = j /\ other[j].id = Height + j
  BY <1>1, <1>2
<1>4. /\ screen \in Seq(RowRecords) /\ other \in Seq(RowRecords) /\ history \in Seq(RowRecords)
      /\ Len(screen) = Height /\ Len(other) = Height
      /\ DOMAIN screen = 1..Height /\ DOMAIN other = 1..Height /\ DOMAIN history = {}
  <2>. DEFINE f == [j \in 1..Height |-> Row(j)]
              g == [j \in 1..Height |-> Row(Height + j)]
  <2>1. f \in Seq(RowRecords) /\ Len(f) = Height /\ DOMAIN f = 1..Height
    BY <1>1, <1>2
  <2>2. g \in Seq(RowRecords) /\ Len(g) = Height /\ DOMAIN g = 1..Height
    BY <1>1, <1>2
  <2>3. history \in Seq(RowRecords) /\ DOMAIN history = {}
    BY <1>2
  <2>. QED
    BY <1>2, <2>1, <2>2, <2>3
<1>5. Rows \subseteq 0..(Height + Height)
  <2>1. \A j \in 1..Height : j \in 0..(Height + Height) /\ Height + j \in 0..(Height + Height)
    BY <1>2
  <2>2. \A j \in 1..Height : screen[j].id \in 0..(Height + Height) /\ other[j].id \in 0..(Height + Height)
    BY <1>3, <2>1
  <2>. QED
    BY <1>4, <2>2 DEF Rows
<1>6. RowsInv
  <2>1. Height + Height \in Nat
    BY <1>2
  <2>. QED
    BY <1>2, <1>4, <1>5, <2>1 DEF RowsInv
<1>7. RowsDiffer
  BY <1>2, <1>3, <1>4 DEF RowsDiffer, Differ, Apart
<1>8. EventsInv
  BY <1>2 DEF EventsInv
<1>9. DragType /\ DragInv
  BY <1>2 DEF DragType, DragInv, NoDrag, Nowhere
<1>10. SwitchInv
  BY <1>2 DEF SwitchInv, Here, IsEmpty, NoSelection
<1>. QED
  BY <1>6, <1>7, <1>8, <1>9, <1>10 DEF SelectionInv

LEMMA RunEventKeeps == ASSUME SelectionInv, RunEvent PROVE SelectionInv'
<1>1. /\ events # << >> /\ events' = Tail(events) /\ UNCHANGED contents /\ UNCHANGED drag
      /\ IF Head(events) = "clear" THEN selection' = NoSelection /\ from' = Nowhere
         ELSE UNCHANGED <<selection, from>>
  BY DEF RunEvent, ClearSelection, selecting
<1>2. Selects
  BY <1>1 DEF Selects, Ends
<1>3. Head(events) = "clear" => Here'
  BY <1>1 DEF Here, IsEmpty, NoSelection
<1>. QED
  BY <1>1, <1>2, <1>3, ScheduledLess, SelectsHolds DEF SelectionInv

LEMMA StepHolds == SelectionInv /\ [Next]_vars => SelectionInv'
<1>. SUFFICES ASSUME SelectionInv, [Next]_vars PROVE SelectionInv'
  OBVIOUS
<1>1. EventsInv
  BY DEF SelectionInv
<1>2. CASE UNCHANGED <<selection, from, drag>> /\ UNCHANGED contents /\ UNCHANGED events
  BY <1>1, <1>2, SelectsHolds DEF Selects, EventsInv
<1>3. CASE User
  <2>1. Selects /\ UNCHANGED contents /\ UNCHANGED events
    BY <1>3, UserSelects
  <2>. QED
    BY <1>1, <2>1, SelectsHolds DEF EventsInv
<1>4. CASE AutoScrollTick
  <2>1. Scheduled("autoscroll") /\ UNCHANGED contents /\ Selects
    BY <1>4 DEF AutoScrollTick, Selects, selecting
  <2>. QED
    BY <1>1, <2>1, ScheduledMore, SelectsHolds
<1>5. CASE RunEvent
  BY <1>5, RunEventKeeps
<1>6. ASSUME NEW line \in Lines, ParseLine(line[1], line[2]) PROVE SelectionInv'
  BY <1>6, ParseLineKeeps
<1>7. ASSUME NEW m \in Modes, SetMouseMode(m) PROVE SelectionInv'
  BY <1>2, <1>7 DEF SetMouseMode, Reads, selecting
<1>8. CASE SetAlternateMode
  BY <1>8, SetAlternateModeKeeps
<1>10. CASE SwapScreens
  BY <1>10, SwapScreensKeeps
<1>9. CASE UNCHANGED vars
  BY <1>2, <1>9 DEF vars, selecting
<1>. QED
  BY <1>3, <1>4, <1>5, <1>6, <1>7, <1>8, <1>9, <1>10 DEF Next, Reader

\* The inductive invariant: rows are told apart by their numbers, a drag knows the
\* cells it went from and to, and what the switch of the mode left is to be cleared.
THEOREM SelectionInvariant == Spec => []SelectionInv
BY InitHolds, StepHolds, PTL DEF Spec

\* Once what the switch of the mode scheduled for clearing has been cleared, before
\* or after the swap, nothing of the screen that was left is selected on the other,
\* and a drag that goes on was begun on this screen or in the middle of the switch,
\* whatever the user does in between and whatever else is scheduled.
THEOREM NothingOfTheOther == Spec => []OnThisScreen
<1>1. SelectionInv => OnThisScreen
  BY DEF SelectionInv, SwitchInv, Here, OnThisScreen
<1>. QED
  BY <1>1, SelectionInvariant, PTL

\* What is given to others when a drag ends.
LEMMA DragCopies ==
  ASSUME SelectionInv, Next, from # Nowhere, from' = Nowhere, click = "none",
         drag.kept, drag.last # Nowhere, primary' # primary
  PROVE  primary' = Dragged
<1>1. primary' = Copied(selection)
  <2>1. CASE User
    <3>1. ASSUME NEW button, NEW p, NEW plain, MouseDown(button, p, plain) PROVE primary' = primary
      BY <3>1 DEF MouseDown, SelectionMouseDown, Give, texts
    <3>2. ASSUME NEW button, NEW plain, NEW quick, MouseUp(button, plain, quick)
          PROVE  primary' \in {primary, Copied(selection)}
      BY <3>2 DEF MouseUp, SelectionMouseUp, Give, texts
    <3>3. ASSUME NEW p, MouseMove(p) \/ MouseClick(p) PROVE primary' = primary
      BY <3>3 DEF MouseMove, MouseClick, texts
    <3>4. ASSUME NEW rows, MouseWheel(rows) PROVE primary' = primary
      BY <3>4 DEF MouseWheel, texts
    <3>5. ASSUME NEW copies, KeyDown(copies) PROVE primary' = primary
      BY <3>5 DEF KeyDown, SelectionKeyDown, Give, texts
    <3>. QED
      BY <2>1, <3>1, <3>2, <3>3, <3>4, <3>5 DEF User
  <2>2. CASE AutoScrollTick \/ RunEvent
    BY <2>2 DEF AutoScrollTick, RunEvent, texts
  <2>3. CASE Reader
    BY <2>3 DEF Reader, ParseLine, SetMouseMode, SetAlternateMode, SwapScreens, Reads, texts
  <2>. QED
    BY <2>1, <2>2, <2>3 DEF Next
<1>2. /\ RowsInv /\ RowsDiffer /\ from \in Grid /\ CellAt(from) = drag.pressed
  BY DEF SelectionInv, DragInv
<1>3. PICK end \in Grid : CellAt(end) = drag.last /\ selection = Create(from, end)
  BY DEF SelectionInv, DragInv
<1>4. PlaceOf(drag.pressed) = from /\ PlaceOf(drag.last) = end
  BY <1>2, <1>3, PlaceFound
<1>5. Copied(Create(from, end)) = Dragged
  BY <1>2, <1>4, CopiedBetween DEF Dragged
<1>. QED
  BY <1>1, <1>3, <1>5

\* Select and paste: whatever is written, scrolled or moved during a drag, what is given
\* to others at its end is the text from the character under the mouse when the button
\* was pressed to the one it last moved to, as long as the rows in between are there.
THEOREM DragsCopy == Spec => DraggedCopied
<1>1. SelectionInv /\ [Next]_vars =>
        [/\ from # Nowhere /\ from' = Nowhere /\ click = "none"
         /\ drag.kept /\ drag.last # Nowhere
         /\ primary' # primary
         => primary' = Dragged]_vars
  BY DragCopies
<1>. QED
  BY <1>1, SelectionInvariant, PTL DEF Spec, DraggedCopied
=============================================================================
