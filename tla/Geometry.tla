------------------------------ MODULE Geometry ------------------------------
(***************************************************************************)
(* Points, rectangles, size hints and visible areas: ui/geometry.h,        *)
(* SizeHint and calculateDimension() of ui/layout.h, Canvas::VisibleArea   *)
(* of ui/canvas.h, and the lines of a label (Canvas::GetTextLine).         *)
(***************************************************************************)
EXTENDS Integers, Sequences

LOCAL Least(a, b) == IF a < b THEN a ELSE b
LOCAL Most(a, b) == IF a > b THEN a ELSE b

\* Division of C++: towards zero.
Quotient(a, b) == IF a >= 0 THEN a \div b ELSE -((-a) \div b)

Point(x, y) == [x |-> x, y |-> y]
Size(w, h) == [w |-> w, h |-> h]
Origin == Point(0, 0)

Moved(p, q) == Point(p.x + q.x, p.y + q.y)
Behind(p, q) == Point(p.x - q.x, p.y - q.y)

\* A rectangle has a position and a size.
Rect(p, size) == [x |-> p.x, y |-> p.y, w |-> size.w, h |-> size.h]
RectOfSize(size) == Rect(Origin, size)
TopLeft(r) == Point(r.x, r.y)
SizeOf(r) == Size(r.w, r.h)
Shift(r, p) == Rect(Moved(TopLeft(r), p), SizeOf(r))

\* The constructor with noSwap: nothing when the corners are the wrong way round.
Between(p, q) == Rect(p, IF p.x <= q.x /\ p.y <= q.y THEN Size(q.x - p.x, q.y - p.y)
                         ELSE Size(0, 0))

EmptyRect(r) == r.w = 0 \/ r.h = 0

Intersection(a, b) ==
  Between(Point(Most(a.x, b.x), Most(a.y, b.y)),
          Point(Least(a.x + a.w, b.x + b.w), Least(a.y + a.h, b.y + b.h)))

Union(a, b) ==
  Between(Point(Least(a.x, b.x), Least(a.y, b.y)),
          Point(Most(a.x + a.w, b.x + b.w), Most(a.y + a.h, b.y + b.h)))

\* The points p with r.contains(p). A negative size contains nothing.
CellsOf(r) == {Point(x, y) : x \in r.x..(r.x + r.w - 1), y \in r.y..(r.y + r.h - 1)}

\* The place of something of the given length on an axis that starts at from.
Aligned(from, length, of, align) ==
  CASE align \in {"left", "top"} -> from
    [] align \in {"center", "middle"} -> from + Quotient(length - of, 2)
    [] align \in {"right", "bottom"} -> from + length - of

-----------------------------------------------------------------------------
(* Sizes asked for by a widget: a hint or a percentage *)

Manual == -1
AutoLayout == -2
AutoSize == -3

Dimension(hint, current, auto, available) ==
  CASE hint \in {Manual, AutoSize} -> current
    [] hint = AutoLayout -> auto
    [] OTHER -> Quotient(available * hint, 100)

-----------------------------------------------------------------------------
(* Where a widget is in the buffer: the place of its [0,0] and the part of *)
(* it that the buffer backs, in its own coordinates.                       *)

Area(offset, rect) == [offset |-> offset, rect |-> rect]
NoArea == Area(Origin, RectOfSize(Size(0, 0)))
BufferRect(a) == Shift(a.rect, a.offset)
Clip(a, r) == Area(Moved(a.offset, TopLeft(r)),
                   Shift(Intersection(a.rect, r), Behind(Origin, TopLeft(r))))
Scrolled(a, p) == Area(Behind(a.offset, p), Shift(a.rect, p))

\* The cells of the buffer that an operation on the rectangle r of a canvas with
\* the visible area a comes to.
Reached(a, r) == CellsOf(Shift(Intersection(r, a.rect), a.offset))
=============================================================================
