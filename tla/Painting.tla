------------------------------ MODULE Painting ------------------------------
(***************************************************************************)
(* Painting of widgets on the buffer of the renderer: repaint(), paint()   *)
(* and allowRepaintRequest() of ui/widget.cpp, paint() and                 *)
(* paintAndRender() of ui/renderer.cpp, the canvas of ui/canvas.cpp, and   *)
(* what the widgets of ui/widgets and AnsiTerminal draw.                   *)
(* All of it works on the state s of the tree, a record with the fields    *)
(* that WidgetTree lists. A cell of the buffer is the sequence of what was *)
(* drawn on it since it was last filled with an opaque color: the widget,  *)
(* the layer (background, text or border) and what it is.                  *)
(***************************************************************************)
EXTENDS Geometry, FiniteSets

CONSTANTS
  Widgets,     \* the widgets of the program
  Root,        \* the root of the renderer
  Kind,        \* of each: "panel", "pager", "label", "button" or "terminal"
  Opaque,      \* the widgets with an opaque background ...
  Shaded,      \* ... and those with one that lets something through
  Bordered,    \* the widgets with a border
  Wraps,       \* the labels with wordWrap_
  Fps          \* fps_ of the renderer: 0 paints at once

NoWidget == "nullptr"

ParentOf(s, w) == s.parent[w]

RECURSIVE Ancestors(_, _)
\* w and the widgets above it, from below.
Ancestors(s, w) == IF w = NoWidget THEN << >> ELSE <<w>> \o Ancestors(s, ParentOf(s, w))

CommonParent(s, v, w) ==
  LET first(up, both) ==
        IF both = {} THEN NoWidget ELSE up[CHOOSE i \in both : \A j \in both : i <= j]
      common(up, others) == first(up, {i \in DOMAIN up : \E j \in DOMAIN others : others[j] = up[i]})
  IN  common(Ancestors(s, v), Ancestors(s, w))

-----------------------------------------------------------------------------
(* The lines of a text, of which the characters are "x", a separator " "   *)
(* and the line end "n". A line that is too long goes back to its last     *)
(* separator; without one all of it is skipped.                            *)

NoWordWrap == -1

TextLine(text, i, wrapAt) ==
  LET e == Len(text) + 1
      ends == {j \in i..e : j = e \/ text[j] = "n"}
      stop == CHOOSE j \in ends : \A k \in ends : j <= k
      full == i + wrapAt
      seps == {j \in (i + 1)..(IF full < e THEN full ELSE e - 1) : text[j] # "x"}
      sep == CHOOSE j \in seps : \A k \in seps : j >= k
  IN  CASE wrapAt = NoWordWrap \/ stop < full ->
             [from |-> i, to |-> stop, width |-> stop - i,
              next |-> IF stop = e THEN e ELSE stop + 1]
        [] seps # {} -> [from |-> i, to |-> sep, width |-> sep - i - 1, next |-> sep + 1]
        [] OTHER -> [from |-> i, to |-> i, width |-> 0, next |-> full]

TextMetrics(text, wrapAt) ==
  LET rest[i \in 1..(Len(text) + 1)] ==
        IF i = Len(text) + 1 THEN << >>
        ELSE LET l == TextLine(text, i, wrapAt) IN <<l>> \o rest[l.next]
  IN  rest[1]

-----------------------------------------------------------------------------
(* The canvas *)

\* fill() of a whole canvas with the widget's background.
Fill(s, w) ==
  LET filled == Reached(s.area[w], RectOfSize(SizeOf(s.rect[w])))
      cell(c) == CASE w \in Opaque -> << <<w, "background", TRUE>> >>
                   [] w \in Shaded -> Append(s.buffer[c], <<w, "background", FALSE>>)
                   [] OTHER -> s.buffer[c]
  IN  [s EXCEPT !.buffer = [c \in DOMAIN @ |-> IF c \in filled THEN cell(c) ELSE @[c]],
                !.outside = @ \/ ~(filled \subseteq DOMAIN s.buffer)]

\* Something of w drawn on those of its cells, in its own coordinates, that are
\* backed by the buffer, one thing for each.
Drawn(s, w, layer, what) ==
  [s EXCEPT !.buffer = [c \in DOMAIN @ |->
     LET p == Behind(c, s.area[w].offset) IN
     IF c \in CellsOf(BufferRect(s.area[w])) /\ p \in DOMAIN what
     THEN Append(@[c], <<w, layer, what[p]>>) ELSE @[c]]]

\* Cells are stored over what was there.
Stored(s, w, what) ==
  [s EXCEPT !.buffer = [c \in DOMAIN @ |->
     LET p == Behind(c, s.area[w].offset) IN
     IF c \in CellsOf(BufferRect(s.area[w])) /\ p \in DOMAIN what
     THEN << <<w, "text", what[p]>> >> ELSE @[c]]]

\* setBorder() around a canvas.
Border(s, w) ==
  LET r == RectOfSize(SizeOf(s.rect[w]))
      edge == {p \in CellsOf(r) : p.x \in {0, r.w - 1} \/ p.y \in {0, r.h - 1}}
  IN  IF w \in Bordered THEN Drawn(s, w, "border", [p \in edge |-> TRUE]) ELSE s

-----------------------------------------------------------------------------
(* What the kinds of widgets draw on their canvas *)

\* Label::paint(), top and left.
PaintLabel(s, w) ==
  LET lines == s.format[w]
      cells == {p \in CellsOf(RectOfSize(SizeOf(s.rect[w]))) :
                  p.y < Len(lines) /\ p.x < lines[p.y + 1].to - lines[p.y + 1].from}
  IN  Drawn(s, w, "text", [p \in cells |-> <<s.text[w], lines[p.y + 1].from + p.x>>])

\* Button::paint().
PaintButton(s, w) ==
  Drawn(s, w, "text", [p \in CellsOf(RectOfSize(SizeOf(s.rect[w]))) |-> s.focus = w])

\* AnsiTerminal::paint(): the rows of the history and the terminal's buffer below
\* them, scrolled.
PaintTerminal(s, w) ==
  Stored(s, w, [p \in CellsOf(RectOfSize(SizeOf(s.rect[w]))) |->
                  <<s.output[w], p.y + s.scroll[w].y - s.history[w], s.focus = w>>])

RECURSIVE PaintAll(_, _), Paint(_, _)

PaintAll(s, ws) == IF ws = << >> THEN s ELSE PaintAll(Paint(s, Head(ws)), Tail(ws))

\* paint(Canvas &) of w.
PaintContents(s, w) ==
  LET kids == s.kids[w] IN
  CASE Kind[w] = "panel" -> PaintAll(s, SelectSeq(kids, LAMBDA k : s.visible[k]))
    [] Kind[w] = "pager" -> IF kids = << >> THEN s ELSE Paint(s, kids[Len(kids)])
    [] Kind[w] = "label" -> PaintLabel(s, w)
    [] Kind[w] = "button" -> PaintButton(s, w)
    [] Kind[w] = "terminal" -> PaintTerminal(s, w)

\* Mutant: the request is not taken as met.
Paint_KeepsPending(s, w) == IF w \in s.lock THEN s ELSE Border(PaintContents(Fill(s, w), w), w)

\* Widget::paint().
Paint(s, w) ==
  IF w \in s.lock THEN s
  ELSE Border(PaintContents(Fill([s EXCEPT !.pending[w] = FALSE], w), w), w)

-----------------------------------------------------------------------------
(* Requests *)

\* render() of the window: it sends itself an Expose event.
Render(s) == [s EXCEPT !.exposed = TRUE]

\* paintAndRender().
PaintAndRender(s) ==
  LET w == s.renderWidget IN
  IF w = NoWidget THEN s
  ELSE [Render(Paint(s, w)) EXCEPT !.renderWidget = NoWidget,
                                   !.stray = IF w = Root THEN FALSE ELSE @ \/ w \notin Opaque]

\* Mutant: the frame is not waited for.
RendererPaint_AtOnce(s, w) ==
  PaintAndRender([s EXCEPT !.renderWidget = IF @ = NoWidget THEN w ELSE CommonParent(s, @, w)])

\* Renderer::paint().
RendererPaint(s, w) ==
  LET wait(t) == IF Fps = 0 THEN PaintAndRender(t) ELSE t
  IN  wait([s EXCEPT !.renderWidget = IF @ = NoWidget THEN w ELSE CommonParent(s, @, w)])

RECURSIVE Repaint(_, _), RequestRepaint(_, _), AllowRepaintRequest(_, _, _)

\* allowRepaintRequest() of w for a request of its child: what it answers, and
\* the state after it.
AllowRepaintRequest(s, w, child) ==
  CASE s.pending[w] -> [allowed |-> FALSE, state |-> s]
    [] ~s.pending[w] /\ (s.overlaid[child] \/ w \in Bordered) ->
         [allowed |-> FALSE, state |-> Repaint(s, w)]
    [] OTHER -> IF ParentOf(s, w) # NoWidget THEN AllowRepaintRequest(s, ParentOf(s, w), w)
                ELSE [allowed |-> TRUE, state |-> s]

\* requestRepaint().
RequestRepaint(s, w) ==
  LET p == ParentOf(s, w)
      after(a) == IF a.allowed /\ s.attached[w] THEN RendererPaint(a.state, w) ELSE a.state
  IN  IF p # NoWidget /\ w \notin Opaque THEN Repaint(s, p)
      ELSE after(IF p = NoWidget THEN [allowed |-> TRUE, state |-> s] ELSE AllowRepaintRequest(s, p, w))

\* repaint().
Repaint(s, w) == IF s.pending[w] THEN s ELSE RequestRepaint([s EXCEPT !.pending[w] = TRUE], w)

\* scheduleRepaint(): schedule() drops the events of a widget without renderer.
ScheduleRepaint(s, w) ==
  IF s.pending[w] THEN s
  ELSE [s EXCEPT !.pending[w] = TRUE,
                 !.events = IF s.attached[w] THEN Append(@, [of |-> w, what |-> "repaint"]) ELSE @]

\* unlocking by ~Lock().
Unlock(s, w) == LET t == [s EXCEPT !.lock = @ \ {w}]
                IN  IF s.pending[w] THEN RequestRepaint(t, w) ELSE t
=============================================================================
