------------------------------ MODULE Layouts -------------------------------
(***************************************************************************)
(* Layouts: ui/layout.cpp, and move(), resize() and relayout() of          *)
(* ui/widget.cpp with what Label, Button and AnsiTerminal override.        *)
(***************************************************************************)
EXTENDS Painting, SequencesExt

CONSTANTS
  LayoutOf,    \* of each widget: [kind |-> "none", "maximized", "row" or
               \* "column", h |-> HorizontalAlign, v |-> VerticalAlign]
  Hints,       \* of each widget: the hints for its width and height, a Size
  ButtonWidth, \* the length of the text of a button
  MaxHistory   \* maxHistoryRows_ of the terminals

-----------------------------------------------------------------------------
(* Visible areas *)

RECURSIVE PlaceIn(_, _, _, _), PlaceAll(_, _, _, _)

\* updateVisibleArea(parentArea, renderer).
PlaceIn(s, w, parentArea, renderer) ==
  LET t == [s EXCEPT !.attached[w] = renderer, !.area[w] = Clip(parentArea, s.rect[w])]
  IN  PlaceAll(t, t.kids[w], Scrolled(t.area[w], t.scroll[w]), renderer)

PlaceAll(s, ws, area, renderer) ==
  IF ws = << >> THEN s ELSE PlaceAll(PlaceIn(s, Head(ws), area, renderer), Tail(ws), area, renderer)

IsRoot(s, w) == ParentOf(s, w) = NoWidget /\ s.attached[w]

\* updateVisibleArea(). The renderer of the parent counts, the own is passed on.
UpdateVisibleArea(s, w) ==
  LET p == ParentOf(s, w) IN
  CASE IsRoot(s, w) -> PlaceIn(s, w, Area(Origin, RectOfSize(s.size)), TRUE)
    [] p # NoWidget /\ s.attached[p] ->
         PlaceIn(s, w, Scrolled(s.area[p], s.scroll[p]), s.attached[w])
    [] OTHER -> s

\* Widget::setScrollOffset(); only rows are scrolled here.
SetScrollOffset(s, w, y) ==
  IF s.scroll[w] = Point(0, y) THEN s
  ELSE Repaint(UpdateVisibleArea([s EXCEPT !.scroll[w] = Point(0, y)], w), w)
\* AnsiTerminal::setScrollOffset().
ScrollTerminal(s, w, y) ==
  LET t == SetScrollOffset(s, w, y) IN [t EXCEPT !.follows[w] = (y = s.history[w])]

-----------------------------------------------------------------------------
(* The size a widget would have, and the lines of a label *)

\* Label::getAutosizeHint() also formats the text.
Format(s, w) ==
  TextMetrics(s.text[w], IF Hints[w].w = AutoSize \/ w \notin Wraps THEN NoWordWrap
                         ELSE Max({1, s.rect[w].w}))

Formatted(s, w) == IF Kind[w] = "label" THEN [s EXCEPT !.format[w] = Format(s, w)] ELSE s

ShownKids(s, w) == SelectSeq(s.kids[w], LAMBDA k : s.visible[k])

\* getAutosizeHint().
AutosizeHint(s, w) ==
  LET own == SizeOf(s.rect[w])
      kids == FoldLeft(LAMBDA r, k : Union(r, s.rect[k]), RectOfSize(Size(0, 0)), ShownKids(s, w))
      fits == CASE Kind[w] = "label" ->
                     Size(Max({0} \cup {l.width : l \in ToSet(s.format[w])}), Len(s.format[w]))
                [] OTHER -> SizeOf(kids)
  IN  IF Kind[w] = "button" THEN Size(ButtonWidth, 1)
      ELSE Size(IF Hints[w].w = AutoSize THEN fits.w ELSE own.w,
                IF Hints[w].h = AutoSize THEN fits.h ELSE own.h)

\* Mutant: nothing counts as covered.
CalculateOverlay_Not(s, w) == s

\* calculateOverlay() of the layouts.
CalculateOverlay(s, w) ==
  LET kids == s.kids[w]
      covers(i) == FoldLeft(LAMBDA r, k : Union(r, s.rect[k]), RectOfSize(Size(0, 0)),
                            Reverse(SubSeq(kids, i + 1, Len(kids))))
      overlaid(i) ==
        CASE LayoutOf[w].kind = "none" -> ~EmptyRect(Intersection(covers(i), s.rect[kids[i]]))
          [] LayoutOf[w].kind = "maximized" ->
               IF s.visible[kids[i]] THEN \E j \in (i + 1)..Len(kids) : s.visible[kids[j]]
               ELSE s.overlaid[kids[i]]
          [] OTHER -> FALSE
      over(flags) == [k \in DOMAIN s.overlaid |->
                        IF \E i \in DOMAIN kids : kids[i] = k
                        THEN flags[CHOOSE i \in DOMAIN kids : kids[i] = k] ELSE s.overlaid[k]]
  IN  [s EXCEPT !.overlaid = over([i \in DOMAIN kids |-> overlaid(i)])]

-----------------------------------------------------------------------------
(* Layouts and relayout() *)

\* These call each other, all of them through Call.
RECURSIVE Call(_, _, _, _)
Relayout(s, w) == Call("relayout", s, w, Origin)
Resize(s, w, size) == Call("resize", s, w, size)
MoveTo(s, w, p) == Call("move", s, w, p)

\* Layout::resize().
FitKid(s, k, size) ==
  IF SizeOf(s.rect[k]) = size
  THEN IF AutoSize \in {Hints[k].w, Hints[k].h} THEN Relayout(s, k) ELSE s
  ELSE Resize(s, k, size)

\* move().
WidgetMove(s, w, p) ==
  IF TopLeft(s.rect[w]) = p THEN s
  ELSE LET t == [s EXCEPT !.rect[w] = Rect(p, SizeOf(@))]
       IN  IF ParentOf(s, w) = NoWidget THEN t ELSE Relayout(t, ParentOf(s, w))

\* Layout::Maximized.
Maximize(s, w) ==
  LET all == s.rect[w]
      middle(t, k) == MoveTo(t, k, Point(Aligned(0, all.w, t.rect[k].w, "center"),
                                         Aligned(0, all.h, t.rect[k].h, "middle")))
      one(t, k) ==
        middle(FitKid(t, k, Size(Dimension(Hints[k].w, t.rect[k].w, all.w, all.w),
                                 Dimension(Hints[k].h, t.rect[k].h, all.h, all.h))), k)
  IN  FoldLeft(one, s, ShownKids(s, w))

\* Layout::Row along "w" and Layout::Column along "h": first the children that
\* know their size, then those that share the rest, then all are put in order,
\* the invisible ones too.
LineUp(s, w, along, across, alignAlong, alignAcross) ==
  LET total == s.rect[w][along]
      wide == s.rect[w][across]
      fit(t, k, m) ==
        FitKid(t, k, [x \in {"w", "h"} |->
          IF x = along THEN m ELSE Dimension(Hints[k][across], t.rect[k][across], wide, wide)])
      \* one more child has its size: what is left, and for how many
      fitted(a, k, t, m) == [s |-> t, n |-> a.n - 1, left |-> a.left - m,
                             used |-> a.used + t.rect[k][along]]
      known(a, k) ==
        LET counted(t) == fitted(a, k, t, t.rect[k][along])
        IN  counted(fit(a.s, k, Dimension(Hints[k][along], a.s.rect[k][along], 0, total)))
      share(a, k, m) == fitted(a, k, fit(a.s, k, IF a.n > 1 THEN m ELSE a.left), m)
      place(a, k) ==
        LET moved(t) == [s |-> t, at |-> a.at + t.rect[k][along]]
            c == Aligned(0, wide, a.s.rect[k][across], alignAcross)
        IN  moved(MoveTo(a.s, k, IF along = "w" THEN Point(a.at, c) ELSE Point(c, a.at)))
      third(a) == FoldLeft(place, [s |-> a.s, at |-> Aligned(0, total, a.used, alignAlong)], s.kids[w]).s
      second(a, sharing) ==
        LET each == Quotient(a.left, Max({1, Len(sharing)})) IN
        third(FoldLeft(LAMBDA b, k : share(b, k, each), [a EXCEPT !.n = Len(sharing)], sharing))
      first(kids) ==
        second(FoldLeft(known, [s |-> s, n |-> 0, left |-> total, used |-> 0],
                        SelectSeq(kids, LAMBDA k : Hints[k][along] # AutoLayout)),
               SelectSeq(kids, LAMBDA k : Hints[k][along] = AutoLayout))
  IN  first(ShownKids(s, w))

\* layout() of the widget's layout.
LayoutKids(s, w) ==
  LET l == LayoutOf[w] IN
  CASE l.kind = "none" -> s
    [] l.kind = "maximized" -> Maximize(s, w)
    [] OTHER -> LET row == l.kind = "row" IN
                LineUp(s, w, IF row THEN "w" ELSE "h", IF row THEN "h" ELSE "w",
                       IF row THEN l.h ELSE l.v, IF row THEN l.v ELSE l.h)

\* Widget::relayout().
WidgetRelayout(s, w) ==
  LET done(t) == [t EXCEPT !.relayouting = @ \ {w}]
      p == ParentOf(s, w)
      show(t) == IF (p # NoWidget /\ p \notin t.relayouting) \/ IsRoot(t, w)
                 THEN Repaint(UpdateVisibleArea(t, w), w) ELSE t
      fit(t, size) == IF size # SizeOf(t.rect[w]) THEN Resize(done(t), w, size)
                      ELSE done(show(CalculateOverlay(t, w)))
      after(t) == fit(t, AutosizeHint(t, w))
  IN  IF w \in s.relayouting THEN s
      ELSE after(Formatted(LayoutKids([s EXCEPT !.relayouting = @ \cup {w}], w), w))

\* Widget::resize(). The parent is not relayouted twice for one change.
WidgetResize(s, w, size) ==
  LET p == ParentOf(s, w)
      alone == p \in {NoWidget} \cup s.relayouting
      above(t) == IF ~alone /\ SizeOf(t.rect[w]) = size THEN Relayout(t, p) ELSE t
      held == IF alone THEN {} ELSE {p}
      placed == [s EXCEPT !.rect[w] = Rect(TopLeft(@), size), !.relayouting = @ \cup held]
      freed(t) == [t EXCEPT !.relayouting = @ \ held]
  IN  IF SizeOf(s.rect[w]) = size THEN s ELSE above(freed(Relayout(placed, w)))

\* AnsiTerminal::resize(): rows that no longer fit go into the history, and a
\* terminal that shows its end goes on to show it.
TerminalResize(s, w, size) ==
  LET lost == Max({0, s.rect[w].h - size.h})
      follow(t) == IF t.follows[w] THEN ScrollTerminal(t, w, t.history[w]) ELSE t
      after(t) == Unlock(follow([t EXCEPT !.history[w] = Min({MaxHistory, @ + lost})]), w)
  IN  IF SizeOf(s.rect[w]) = size THEN s ELSE after(WidgetResize([s EXCEPT !.lock = @ \cup {w}], w, size))

\* What the operators above call.
Call(what, s, w, to) ==
  CASE what = "relayout" -> WidgetRelayout(s, w)
    [] what = "move" -> WidgetMove(s, w, to)
    [] what = "resize" -> IF Kind[w] = "terminal" THEN TerminalResize(s, w, to) ELSE WidgetResize(s, w, to)
=============================================================================
