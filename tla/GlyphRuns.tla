----------------------------- MODULE GlyphRuns -----------------------------
(***************************************************************************)
(* How a native window draws the buffer of the renderer: render() of       *)
(* RendererWindow (terminalpp/window.h) and the drawing functions of       *)
(* X11Window (terminalpp/x11/x11_window.h). Cells of the same looks that   *)
(* follow each other are drawn together, as a run of glyphs. A cell of the *)
(* buffer is a sequence of <<widget, layer, what>>, as in Painting; the    *)
(* cursor, decorations, blinking text and characters of two columns are    *)
(* left out.                                                               *)
(***************************************************************************)
EXTENDS Geometry, SequencesExt

CONSTANT NoGlyph   \* the widgets that write characters their font does not have

InLayer(cell, layers) == SelectSeq(cell, LAMBDA d : d[2] \in layers)

\* The codepoint of a cell, its font and colors, and its border.
Codepoint(cell) == InLayer(cell, {"text"})
Looks(cell) == LET of(layer) == LET ds == InLayer(cell, {layer})
                                IN  IF ds = << >> THEN "default" ELSE Last(ds)[1]
               IN  [fg |-> of("text"), bg |-> of("background")]
BorderOf(cell) == InLayer(cell, {"border"})

\* What is seen where a cell is drawn.
Seen(cell) == [codepoint |-> Codepoint(cell), looks |-> Looks(cell), border |-> BorderOf(cell)]

-----------------------------------------------------------------------------
(* A run starts at col, row; text is text_; looks is state_; longest is the *)
(* length text_ needed.                                                    *)

InitializeGlyphRun(r, col, row) == [r EXCEPT !.text = << >>, !.col = col, !.row = row]

\* The background, then the text.
DrawGlyphRun(r) ==
  LET at(i) == Point(r.col + i - 1, r.row)
      run == [p \in {at(i) : i \in DOMAIN r.text} |->
                [codepoint |-> r.text[p.x - r.col + 1], looks |-> r.looks, border |-> << >>]]
  IN  [r EXCEPT !.drawn = run @@ @, !.longest = IF Len(r.text) > @ THEN Len(r.text) ELSE @]

\* A character that the font does not have is drawn with another font, alone.
AddGlyph(r, cell, col) ==
  LET alone == [InitializeGlyphRun(DrawGlyphRun(r), col, r.row) EXCEPT !.text = <<Codepoint(cell)>>]
  IN  IF Looks(cell).fg \in NoGlyph THEN InitializeGlyphRun(DrawGlyphRun(alone), col + 1, r.row)
      ELSE [r EXCEPT !.text = Append(@, Codepoint(cell))]

\* The body of the loop over the columns.
DrawCell(r, cell, col) ==
  AddGlyph(IF r.looks = Looks(cell) THEN r
           ELSE [InitializeGlyphRun(DrawGlyphRun(r), col, r.row) EXCEPT !.looks = Looks(cell)], cell, col)

DrawRow(r, buffer, width, row) ==
  DrawGlyphRun(FoldLeft(LAMBDA q, x : DrawCell(q, buffer[Point(x, row)], x),
                        InitializeGlyphRun(r, 0, row), [i \in 1..width |-> i - 1]))

\* drawBorder() of every cell that has one.
DrawBorders(drawn, buffer) == [p \in DOMAIN drawn |-> [drawn[p] EXCEPT !.border = BorderOf(buffer[p])]]

\* render(): what is drawn at each point, and the longest run of it.
RenderWindow(buffer, size) ==
  LET start == [text |-> << >>, col |-> 0, row |-> 0, looks |-> Looks(buffer[Origin]),
                drawn |-> << >>, longest |-> 0]
      done == FoldLeft(LAMBDA r, y : DrawRow(r, buffer, size.w, y), start, [i \in 1..size.h |-> i - 1])
  IN  [drawn |-> DrawBorders(done.drawn, buffer), longest |-> done.longest]
=============================================================================
