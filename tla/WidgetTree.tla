----------------------------- MODULE WidgetTree -----------------------------
(***************************************************************************)
(* The tree of widgets of a window as it is laid out and painted:          *)
(* attach() and detach() of ui/widget.cpp, Pager, ModalPane and Window of  *)
(* ui/widgets, setRoot() and resize() of ui/renderer.cpp. The UI thread    *)
(* does one thing at a time; the readers of the terminals schedule         *)
(* repaints and scrolls, and the frame thread schedules paintAndRender().  *)
(* Who has the focus is modelled in TerminalWindow; here it only changes   *)
(* what a button looks like.                                               *)
(***************************************************************************)
EXTENDS Layouts, GlyphRuns

CONSTANTS
  Assembly,    \* what the constructors attach, in order: <<parent, child>> to the
               \* front, <<parent, child, "back">> to the back
  Hidden,      \* the widgets made invisible when they are constructed
  Pager, Pane, \* the pager of the terminals, the modal pane
  Pages,       \* the terminals that may be in the pager
  Dialogs,     \* the dialogs; each is shown once, as a new one is made each time
  ButtonOf,    \* the button of each dialog
  Texts,       \* the texts of labels; the first is the one they start with
  Sizes,       \* the sizes of the window; the first is the one it starts with
  MaxChanges   \* bound: what users and readers do

VARIABLES
  ui,          \* parent, kids, visible, rect, overlaid, relayouting, scroll of the
               \* widgets; attached (renderer_) and area; pending (pendingRepaint_)
               \* and lock; text and format of labels; output, history and follows
               \* (scrollToTerminal_) of terminals; size, buffer, renderWidget and
               \* focus of the renderer; events of its queue; exposed: an Expose event
               \* waits; shown: what the window shows; glyphs: the size of text_;
               \* stray: history, a widget that is not opaque has been painted
               \* without its parent; outside: history, a widget was painted
               \* beyond the buffer
  changes      \* bound

vars == <<ui, changes>>

Blank(size) == [c \in CellsOf(RectOfSize(size)) |-> << >>]

Buttons == {ButtonOf[d] : d \in Dialogs}

-----------------------------------------------------------------------------
(* The tree *)

\* attach() and attachBack(): a child of this parent comes to the front or back.
AttachAt(s, p, c, back) ==
  LET others == SelectSeq(s.kids[p], LAMBDA k : k # c)
  IN  Relayout([s EXCEPT !.kids[p] = IF back THEN <<c>> \o others ELSE Append(others, c),
                         !.parent[c] = p], p)
Attach(s, p, c) == AttachAt(s, p, c, FALSE)

\* setVisible().
SetVisible(s, w, value) ==
  LET t == [s EXCEPT !.visible[w] = value] IN
  IF s.visible[w] = value \/ ParentOf(s, w) = NoWidget THEN t ELSE Relayout(t, ParentOf(s, w))

\* setKeyboardFocus() in a window that has the focus.
SetFocus(s, b) ==
  IF s.focus = b THEN s
  ELSE LET t == IF s.focus = NoWidget THEN s ELSE ScheduleRepaint(s, s.focus)
           u == [t EXCEPT !.focus = b]
       IN  IF b = NoWidget THEN u ELSE Repaint(u, b)

Below(s, w) == {k \in Widgets : w \in ToSet(Ancestors(s, k))}

\* nextKeyboardFocus() while the pane is modal.
NextFocus(s) == LET bs == {b \in Buttons : s.attached[b] /\ Pane \in ToSet(Ancestors(s, b))}
                IN  IF bs = {} THEN NoWidget ELSE CHOOSE b \in bs : TRUE

\* detachTree(): what is detached is blocked from painting until it is painted
\* with its parent.
DetachTree(s, w) ==
  LET gone == Below(s, w)
      t == [s EXCEPT !.pending = [k \in Widgets |-> k \in gone \/ @[k]],
                     !.renderWidget = IF @ \in gone THEN NoWidget ELSE @,
                     !.focus = IF @ \in gone THEN NoWidget ELSE @,
                     !.events = SelectSeq(@, LAMBDA e : e.of \notin gone),
                     !.attached = [k \in Widgets |-> k \notin gone /\ @[k]],
                     !.area = [k \in Widgets |-> IF k \in gone THEN NoArea ELSE @[k]]]
      refocus(u) == IF u.focus = NoWidget THEN SetFocus(u, NextFocus(u)) ELSE u
  IN  refocus(t)

\* detach(). parent_ of the child is not reset.
Detach(s, p, c) ==
  LET t == [s EXCEPT !.kids[p] = SelectSeq(@, LAMBDA k : k # c)]
  IN  Relayout(IF t.attached[p] THEN DetachTree(t, c) ELSE t, p)

\* Renderer::setRoot() of a renderer without a root.
SetRoot(s) ==
  LET t == [s EXCEPT !.attached[Root] = TRUE, !.pending[Root] = FALSE]
  IN  IF SizeOf(t.rect[Root]) # t.size THEN Resize(t, Root, t.size) ELSE Relayout(t, Root)

\* Renderer::resize(). The buffer is made anew.
ResizeRenderer(s, size) ==
  IF s.size = size THEN s
  ELSE Resize([s EXCEPT !.size = size, !.buffer = Blank(size)], Root, size)

\* X11Window::resize() makes text_ as long as a row.
ResizeNative(s, size) == ResizeRenderer([s EXCEPT !.glyphs = size.w], size)

\* X11Window::windowResized(): nothing is drawn on the new pixmap.
WindowResized(s, size) == ResizeNative([s EXCEPT !.shown = << >>], size)

-----------------------------------------------------------------------------
(* The widgets before they are attached, and the window made of them *)

Each(value) == [w \in Widgets |-> value]

Made == [parent |-> Each(NoWidget), kids |-> Each(<< >>), visible |-> [w \in Widgets |-> w \notin Hidden],
         rect |-> Each(RectOfSize(Size(0, 0))), overlaid |-> Each(FALSE), relayouting |-> {},
         scroll |-> Each(Origin), attached |-> Each(FALSE), area |-> Each(NoArea),
         pending |-> Each(TRUE), lock |-> {}, text |-> Each(Texts[1]), format |-> Each(<< >>),
         output |-> Each(0), history |-> Each(0), follows |-> Each(TRUE),
         size |-> Sizes[1], buffer |-> Blank(Sizes[1]), renderWidget |-> NoWidget,
         exposed |-> FALSE, shown |-> << >>, glyphs |-> Sizes[1].w,
         focus |-> NoWidget, events |-> << >>, stray |-> FALSE, outside |-> FALSE]

Assemble(s, e) == AttachAt(s, e[1], e[2], Len(e) = 3)

Init == /\ ui = SetRoot(FoldLeft(Assemble, Made, Assembly))
        /\ changes = 0

Change(s) == /\ changes < MaxChanges
             /\ changes' = changes + 1
             /\ ui' = s

-----------------------------------------------------------------------------
(* What readers do *)

\* received(): the terminal has more to show, in a new row of its history or not;
\* a terminal that shows its end is scrolled by an event.
Output(t) ==
  /\ ui.attached[t]
  /\ \E row \in {0, 1} :
       /\ row + ui.history[t] <= MaxHistory
       /\ LET s == [ui EXCEPT !.output[t] = @ + 1, !.history[t] = @ + row,
                              !.events = IF row = 1 /\ ui.follows[t]
                                         THEN Append(@, [of |-> t, what |-> "scroll"]) ELSE @]
          IN  Change(ScheduleRepaint(s, t))

(* What the UI thread does *)

\* Label::setText().
SetText(l) == /\ ui.attached[l]
              /\ \E i \in DOMAIN Texts :
                   /\ Texts[i] # ui.text[l]
                   /\ Change(Relayout([ui EXCEPT !.text[l] = Texts[i]], l))

\* A terminal is scrolled by the user.
ScrollBy(t) == /\ ui.attached[t]
               /\ \E y \in 0..ui.history[t] : /\ y # ui.scroll[t].y
                                              /\ Change(ScrollTerminal(ui, t, y))

\* activePage().
ActivePage(s) == IF s.kids[Pager] = << >> THEN NoWidget ELSE Last(s.kids[Pager])

\* Pager::setActivePage().
SetActivePage(p) ==
  LET old == ActivePage(ui)
      s == IF old = NoWidget THEN ui ELSE SetVisible(ui, old, FALSE)
  IN  /\ p # old
      /\ ui.parent[p] = NoWidget \/ p \in ToSet(ui.kids[Pager])
      /\ Change(SetVisible(Attach(s, Pager, p), p, TRUE))

\* Pager::removePage().
RemovePage(p) == /\ p \in ToSet(ui.kids[Pager])
                 /\ Change(Detach(ui, Pager, p))

\* ModalPane::attach(): the first dialog makes the pane visible and modal.
ShowModal(d) ==
  LET shown(s) == IF Len(s.kids[Pane]) = 1 THEN SetFocus(SetVisible(s, Pane, TRUE), NextFocus(s)) ELSE s
  IN  /\ ui.parent[d] = NoWidget
      /\ Change(shown(Attach(ui, Pane, d)))

\* Dismissable::dismiss() and ModalPane::detach(): the focus goes back to the
\* page when no dialog is left.
Dismiss(d) ==
  LET gone(s) == IF s.kids[Pane] # << >> THEN s
                 ELSE SetVisible(SetFocus(s, ActivePage(s)), Pane, FALSE)
  IN  /\ d \in ToSet(ui.kids[Pane])
      /\ Change(gone(Detach(ui, Pane, d)))

\* Dialog::keyDown() of Tab.
FocusNext == \E b \in Buttons : /\ ui.attached[b] /\ ui.focus # b
                                /\ Change(SetFocus(ui, b))

\* A ConfigureNotify of another size.
ResizeWindow == \E i \in DOMAIN Sizes : /\ Sizes[i] # ui.size
                                        /\ Change(WindowResized(ui, Sizes[i]))

\* An event of the queue.
RunEvent == /\ ui.events # << >>
            /\ LET e == Head(ui.events)
                   s == [ui EXCEPT !.events = Tail(@)]
               IN  ui' = CASE e.what = "repaint" -> RequestRepaint(s, e.of)
                           [] e.what = "scroll" -> ScrollTerminal(s, e.of, s.history[e.of])
                           [] e.what = "blink" -> RendererPaint(s, Root)
            /\ UNCHANGED changes

\* The event of the frame thread.
Frame == /\ ui.renderWidget # NoWidget
         /\ ui' = PaintAndRender(ui)
         /\ UNCHANGED changes

\* The Expose event: the window draws the whole buffer.
Expose == /\ ui.exposed
          /\ LET render == RenderWindow(ui.buffer, ui.size)
             IN  ui' = [ui EXCEPT !.exposed = FALSE, !.shown = render.drawn,
                                  !.outside = @ \/ render.longest > ui.glyphs]
          /\ UNCHANGED changes

\* The blinker thread repaints the window.
Blink == Change([ui EXCEPT !.events = Append(@, [of |-> Root, what |-> "blink"])])

Next == \/ \E t \in Pages : Output(t) \/ ScrollBy(t) \/ SetActivePage(t) \/ RemovePage(t)
        \/ \E l \in Widgets : Kind[l] = "label" /\ SetText(l)
        \/ \E d \in Dialogs : ShowModal(d) \/ Dismiss(d)
        \/ FocusNext
        \/ ResizeWindow
        \/ RunEvent
        \/ Frame
        \/ Expose
        \/ Blink

Spec == Init /\ [][Next]_vars

-----------------------------------------------------------------------------
(* Properties *)

\* No event and no frame is due.
Idle == ui.events = << >> /\ ui.renderWidget = NoWidget /\ ~ui.exposed

\* When no event and no frame is due, the window shows what painting the whole
\* tree would show, every cell in its own looks (RendererWindow::render()): no
\* change of a text, a size, a focus, a page, a scroll offset or a dialog, and
\* no output of a terminal, is left unpainted or painted over (requestRepaint(),
\* allowRepaintRequest() and calculateOverlay() between them).
\* It needs that no translucent widget has been painted by itself since the last
\* full paint: the common parent of two requests of one frame may be the modal
\* pane, although requests of such widgets go to their parents (widget.cpp:331).
ShownWhenIdle ==
  Idle /\ ~ui.stray =>
    LET painted == Paint([ui EXCEPT !.buffer = Blank(ui.size)], Root).buffer
    IN  ui.shown = [c \in DOMAIN painted |-> Seen(painted[c])]

RECURSIVE AreasBelow(_, _)
AreasBelow(w, area) ==
  /\ ui.attached[w]
  /\ ui.area[w] = Clip(area, ui.rect[w])
  /\ \A i \in DOMAIN ui.kids[w] : AreasBelow(ui.kids[w][i], Scrolled(ui.area[w], ui.scroll[w]))

\* After every operation the visible area of each widget of the tree is the one
\* its and its ancestors' rectangles and scroll offsets give, and nothing is left
\* in the middle of a relayout: painting uses the areas without asking
\* (updateVisibleArea() is left to the top of a relayout). So nothing is painted
\* outside the buffer ("ASSERT(Rect{size_}.contains(p))", canvas.h:866), however
\* late the paint comes, and no run of glyphs is longer than text_.
AreasFresh == /\ ui.relayouting = {}
              /\ AreasBelow(Root, Area(Origin, RectOfSize(ui.size)))
              /\ ~ui.outside

\* Whether a paint of the root comes to w.
Painted(w) == /\ ui.attached[w]
              /\ \A i \in DOMAIN Ancestors(ui, w) : LET a == Ancestors(ui, w)[i] IN
                   \/ a = Root
                   \/ ui.parent[a] = Pager /\ ActivePage(ui) = a
                   \/ ui.parent[a] # Pager /\ ui.visible[a]

\* When no event and no frame is due, no widget that could be painted still waits
\* for its repaint: repaint() returns at once while pendingRepaint_ is set, so a
\* flag left behind would stop the widget from ever being painted again.
NoneForgotten == Idle => \A w \in Widgets : Painted(w) => ~ui.pending[w]
=============================================================================
