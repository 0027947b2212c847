------------------------------ MODULE Renderer ------------------------------
(***************************************************************************)
(* The widget tree of a window and what ui::Renderer refers to in it: the  *)
(* modal root, the keyboard focus, the mouse focus and the widget that     *)
(* waits for the clipboard. Widgets call renderer functions from within    *)
(* handlers that these functions call, so each function is an operator     *)
(* from one state r of the window to the next; TerminalWindow makes        *)
(* actions of them.                                                        *)
(***************************************************************************)
EXTENDS Integers, Sequences, FiniteSets, SequencesExt

CONSTANTS Widgets,    \* every widget that may be part of the tree
          Parent,     \* the one it is attached to, if it is; NoWidget for the root
          Root,       \* root_
          Focusable,  \* the widgets with focusable()
          NoWidget    \* nullptr

ASSUME TreeAssumption == /\ Root \in Widgets /\ NoWidget \notin Widgets
                         /\ Parent \in [Widgets -> Widgets \cup {NoWidget}]
                         /\ \A w \in Widgets : Parent[w] = NoWidget <=> w = Root
                         /\ Focusable \subseteq Widgets

\* The widgets are a finite tree: no parents lead round in a circle.
ASSUME RootedAssumption ==
  /\ IsFiniteSet(Widgets)
  /\ \A ws \in SUBSET Widgets : ws # {} => \E w \in ws : Parent[w] \notin ws

\* A window: children_ of each widget; the widgets with a renderer_; those that
\* are visible_; modalRoot_, nonModalFocus_, keyboardFocus_, focusIn_,
\* keyDownFocus_, mouseFocus_, the number of mouse buttons held down,
\* lastMouseClickTarget_, clipboardRequestTarget_ and selectionRequestTarget_; and
\* as history, the widgets that were told that they have the focus, or the mouse,
\* and not yet that they have it no more, those that were told what they had been
\* told already, and whether setKeyboardFocus was called on nullptr.
Windows(MaxButtons) ==
  [children : [Widgets -> Seq(Widgets)], attached : SUBSET Widgets,
   visible : SUBSET Widgets, modalRoot : Widgets \cup {NoWidget},
   nonModalFocus : Focusable \cup {NoWidget}, focus : Focusable \cup {NoWidget},
   focusIn : BOOLEAN, keyDown : Focusable \cup {NoWidget},
   mouse : Widgets \cup {NoWidget}, buttons : 0..MaxButtons,
   clicked : Widgets \cup {NoWidget},
   clipboard : Widgets \cup {NoWidget}, selection : Widgets \cup {NoWidget},
   told : SUBSET Widgets, hovered : SUBSET Widgets, again : SUBSET Widgets,
   nullCall : BOOLEAN]

-----------------------------------------------------------------------------
(* The tree *)

\* The widget and all above it; parent_ is never cleared.
Above == LET above[w \in Widgets] ==
               {w} \cup (IF Parent[w] = NoWidget THEN {} ELSE above[Parent[w]])
         IN above

IsDominatedBy(w, top) == w # NoWidget /\ top \in Above[w]

\* The lowest widget above both.
CommonParent(v, w) == CHOOSE c \in Above[v] \cap Above[w] :
                        \A d \in Above[v] \cap Above[w] : d \in Above[c]

\* The subtree of each widget, in the order in which nextWidget() visits it.
Preorder(r) ==
  LET order[w \in Widgets] ==
        <<w>> \o FlattenSeq([i \in DOMAIN r.children[w] |-> order[r.children[w][i]]])
  IN order

Subtree(r, w) == Range(Preorder(r)[w])

-----------------------------------------------------------------------------
(* Keyboard focus *)

\* IsAvailable() on all from w up to top, as asked by nextWidget(); no widget
\* is ever disabled.
Available(r, w, top) == {v \in Above[w] : top \in Above[v]} \subseteq r.visible

\* What may be focused is below the modal root.
Candidates(r) == {w \in Focusable \cap r.attached : IsDominatedBy(w, r.modalRoot)}

First(order, ws) == IF ws = {} THEN NoWidget
                    ELSE order[CHOOSE i \in DOMAIN order :
                                 /\ order[i] \in ws
                                 /\ \A j \in 1..(i - 1) : order[j] \notin ws]

\* The candidates that follow the focused widget in the given order.
Following(order, focus, ws) ==
  {w \in ws : \E i, j \in DOMAIN order : i < j /\ order[i] = focus /\ order[j] = w}

\* Mutant: the search leaves the modal root.
NextKeyboardFocus_Anywhere(r) ==
  LET order == Preorder(r)[Root]
      next == Following(order, r.focus, Focusable \cap r.attached)
  IN First(order, IF next # {} THEN next ELSE Focusable \cap r.attached)

\* nextKeyboardFocus(): what follows the focused widget, else from the start.
NextKeyboardFocus(r) ==
  LET order == Preorder(r)[Root]
      next == {w \in Following(order, r.focus, Candidates(r)) :
                 Available(r, w, CommonParent(r.focus, w))}
  IN First(order, IF next # {} THEN next
                  ELSE {w \in Candidates(r) : Available(r, w, r.modalRoot)})

\* prevKeyboardFocus(): prevWidget() only looks at the widget itself.
PrevKeyboardFocus(r) ==
  LET order == Reverse(Preorder(r)[Root])
      shown == Candidates(r) \cap r.visible
      prev == Following(order, r.focus, shown)
  IN First(order, IF prev # {} THEN prev ELSE shown)

\* focusOut() and focusIn() of a widget.
TellOut(r, w) == [r EXCEPT !.told = @ \ {w}, !.again = @ \cup ({w} \ (r.told \cup {NoWidget}))]

TellIn(r, w) == [r EXCEPT !.told = @ \cup ({w} \ {NoWidget}), !.again = @ \cup ({w} \cap r.told)]

\* setKeyboardFocus(); isDominatedBy() of nullptr is undefined.
SetKeyboardFocus(r, w) ==
  IF w = r.focus THEN r
  ELSE IF w = NoWidget THEN [r EXCEPT !.nullCall = TRUE]
  ELSE IF ~ IsDominatedBy(w, r.modalRoot) THEN r
  ELSE [(IF r.focusIn THEN TellIn(TellOut(r, r.focus), w) ELSE r) EXCEPT !.focus = w]

FocusIn(r) == [TellIn(r, r.focus) EXCEPT !.focusIn = TRUE]

FocusOut(r) == [TellOut(r, r.focus) EXCEPT !.focusIn = FALSE]

\* keyDown(), before the key is passed on.
KeyDown(r) == [r EXCEPT !.keyDown = r.focus]

\* keyChar(): only the widget that got the key gets its character.
KeyChar(r) == IF r.focus = r.keyDown THEN [r EXCEPT !.keyDown = NoWidget] ELSE r

-----------------------------------------------------------------------------
(* Attaching and detaching *)

\* The references that widgetDetached() voids: not keyDownFocus_, and not
\* lastMouseClickTarget_.
Voided(ref, ws) == IF ref \in ws THEN NoWidget ELSE ref

\* Mutant: only the widget itself is told, and voided.
DetachWidget_Shallow(r, w) ==
  LET ws == Subtree(r, w) IN
  [r EXCEPT !.focus = Voided(@, ws), !.told = @ \ (ws \cap {r.focus}),
            !.again = @ \cup ((ws \cap {r.focus}) \ r.told),
            !.mouse = Voided(@, {w}), !.hovered = @ \ ({w} \cap {r.mouse}),
            !.clipboard = Voided(@, {w}), !.selection = Voided(@, {w}),
            !.attached = @ \ ws]

\* detachWidget() of w and all below it, with widgetDetached() of each: what has
\* the focus is told that it goes also when the window has none.
DetachWidget(r, w) ==
  LET ws == Subtree(r, w) IN
  [r EXCEPT !.focus = Voided(@, ws), !.told = @ \ (ws \cap {r.focus}),
            !.again = @ \cup ((ws \cap {r.focus}) \ r.told),
            !.mouse = Voided(@, ws), !.hovered = @ \ (ws \cap {r.mouse}),
            !.clipboard = Voided(@, ws), !.selection = Voided(@, ws),
            !.attached = @ \ ws]

\* detachTree(), of another widget than the root.
DetachTree(r, w) ==
  LET s == DetachWidget(r, w) IN
  IF s.focus = NoWidget THEN SetKeyboardFocus(s, NextKeyboardFocus(s)) ELSE s

\* Widget::detach()
Detach(r, w) ==
  DetachTree([r EXCEPT !.children[Parent[w]] = RemoveFirst(@, w)], w)

\* Widget::attach(): relayout() gives the renderer to all of the subtree. It is
\* new: if it was here before, then as other widgets at the same addresses.
Attach(r, w) ==
  LET s == [r EXCEPT !.children[Parent[w]] = Append(@, w)] IN
  [s EXCEPT !.attached = @ \cup Subtree(s, w), !.again = @ \ Subtree(s, w)]

\* setRoot(nullptr)
ClearRoot(r) == [DetachWidget(r, Root) EXCEPT !.modalRoot = NoWidget]

-----------------------------------------------------------------------------
(* Modal root *)

\* Mutant: a focus saved before is kept.
SetModalRoot_Once(r, w) ==
  LET s == [r EXCEPT !.modalRoot = w] IN
  IF w = r.modalRoot THEN r
  ELSE IF w = Root
    THEN SetKeyboardFocus(s, IF r.nonModalFocus # NoWidget THEN r.nonModalFocus
                                                           ELSE NextKeyboardFocus(s))
    ELSE LET t == [s EXCEPT !.nonModalFocus = IF @ = NoWidget THEN r.focus ELSE @]
         IN SetKeyboardFocus(t, NextKeyboardFocus(t))

\* setModalRoot(): leaving the root saves the focus, coming back restores it.
SetModalRoot(r, w) ==
  LET s == [r EXCEPT !.modalRoot = w] IN
  IF w = r.modalRoot THEN r
  ELSE IF w = Root
    THEN SetKeyboardFocus(s, IF r.nonModalFocus # NoWidget THEN r.nonModalFocus
                                                           ELSE NextKeyboardFocus(s))
    ELSE LET t == [s EXCEPT !.nonModalFocus = r.focus]
         IN SetKeyboardFocus(t, NextKeyboardFocus(t))

\* ModalPane::attach() with setAsModalRoot()
AttachModal(r, pane, w) ==
  LET s == Attach(r, w) IN
  IF s.modalRoot = pane THEN s
  ELSE SetModalRoot([s EXCEPT !.visible = @ \cup {pane}], pane)

\* Mutant: the first dialog that goes ends the modal state.
DetachModal_First(r, pane, w) ==
  [SetModalRoot(Detach(r, w), Root) EXCEPT !.visible = @ \ {pane}]

\* ModalPane::detach(): when the last dialog has gone, back to the root.
DetachModal(r, pane, w) ==
  LET s == Detach(r, w) IN
  IF s.children[pane] # << >> THEN s
  ELSE [SetModalRoot(s, Root) EXCEPT !.visible = @ \ {pane}]

-----------------------------------------------------------------------------
(* Mouse *)

\* What getMouseTarget() may find: a widget below the modal root. It does not ask
\* for visibility, but the contents of the window are in front of a hidden pane.
MouseTargets(r) == {w \in r.attached : /\ IsDominatedBy(w, r.modalRoot)
                                       /\ Available(r, w, r.modalRoot)}

\* Mutant: the widget that the mouse leaves is not told.
UpdateMouseFocus_Untold(r, target) ==
  IF (r.buttons > 0 /\ r.mouse # NoWidget) \/ r.mouse = target THEN r
  ELSE [r EXCEPT !.mouse = target, !.hovered = @ \cup {target}]

\* updateMouseFocus(): while a button is held the mouse is captured.
UpdateMouseFocus(r, target) ==
  IF (r.buttons > 0 /\ r.mouse # NoWidget) \/ r.mouse = target THEN r
  ELSE [r EXCEPT !.mouse = target, !.hovered = (@ \ {r.mouse}) \cup {target},
                 !.again = @ \cup ({target} \cap r.hovered)]

\* mouseOut(): the mouse leaves the window.
MouseOut(r) == [r EXCEPT !.mouse = NoWidget, !.hovered = @ \ {r.mouse}, !.buttons = 0]

\* mouseDown(): a second button ends a sequence of clicks.
MouseDown(r, target) ==
  [UpdateMouseFocus(r, target) EXCEPT !.buttons = @ + 1,
                                      !.clicked = IF r.buttons = 0 THEN @ ELSE NoWidget]

\* mouseUp(), up to the click; it asserts that some widget has the mouse.
MouseUp(r) == [r EXCEPT !.buttons = @ - 1,
                        !.clicked = IF r.buttons = 1 THEN @ ELSE NoWidget]

\* The end of emitMouseClicks(), after a single click; a third one in time starts
\* the sequence anew.
Clicked(r) == [r EXCEPT !.clicked = r.mouse]

ClickedThrice(r) == [r EXCEPT !.clicked = IF r.clicked = r.mouse THEN NoWidget ELSE @]
=============================================================================
