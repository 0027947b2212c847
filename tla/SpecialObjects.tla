--------------------------- MODULE SpecialObjects ---------------------------
(***************************************************************************)
(* Canvas::SpecialObject of ui/canvas.h and Hyperlink, the only kind there *)
(* is: objects that cells of a canvas and pointers refer to, and that are  *)
(* deleted with the last reference, which each assignment of a cell counts *)
(* by hand. The module has no next-state relation: its operators take the  *)
(* objects, indexed by their addresses, to what they are afterwards. What  *)
(* Objects_ says of the address of a cell is kept in the cell as so; the   *)
(* bit of the codepoint is set exactly when that is an object. An object   *)
(* is used under MObjects_, so each operator is atomic.                    *)
(***************************************************************************)
EXTENDS Naturals, Sequences, SequencesExt, FiniteSets

CONSTANTS Objects,   \* the addresses special objects may be allocated at
          NoObject   \* nullptr

ASSUME ObjectsAssumption == NoObject \notin Objects

\* refCount_, url_ and active_ of a Hyperlink; nothing is allocated at an
\* address while the object there is not live.
Free == [live |-> FALSE, refs |-> 0, url |-> << >>, active |-> FALSE]

\* A Canvas::Cell, of which c is the codepoint.
Cell == [c |-> " ", so |-> NoObject]

\* new Hyperlink, whose first reference is a Ptr; an address is used again.
NewAddress(heap) == CHOOSE o \in Objects : ~ heap[o].live
New(heap, o, url) == [heap EXCEPT ![o] = [Free EXCEPT !.live = TRUE, !.refs = 1, !.url = url]]

\* One reference more.
Attach(heap, o) == IF o = NoObject THEN heap ELSE [heap EXCEPT ![o].refs = @ + 1]

\* One reference less, and the object is deleted with the last.
Detach(heap, o) ==
  IF o = NoObject THEN heap
  ELSE IF heap[o].refs = 1 THEN [heap EXCEPT ![o] = Free]
  ELSE [heap EXCEPT ![o].refs = @ - 1]

\* Mutant: the new reference is not counted.
Assign_Uncounted(heap, old, new) ==
  IF old = new THEN heap ELSE Detach(heap, old)

\* operator = of a Ptr or a Cell, and attachSpecialObject(): what is assigned
\* over goes first, unless it is the same.
Assign(heap, old, new) ==
  IF old = new THEN heap ELSE Attach(Detach(heap, old), new)

\* The cells of a row are copied to cells that had no object, are assigned a
\* cell without one, or are deleted.
CopyCells(heap, row) == FoldLeft(LAMBDA h, cell : Attach(h, cell.so), heap, row)
FillCells(heap, row) == FoldLeft(LAMBDA h, cell : Detach(h, cell.so), heap, row)
DeleteCells(heap, row) == FoldLeft(LAMBDA h, cell : Detach(h, cell.so), heap, row)

\* How many references there really are, from cells and from pointers.
References(rows, pointers, o) ==
  Cardinality({p \in (DOMAIN rows) \X (DOMAIN rows[1]) : rows[p[1]][p[2]].so = o})
    + Cardinality({i \in DOMAIN pointers : pointers[i] = o})
=============================================================================
