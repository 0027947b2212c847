------------------------ MODULE TerminalWindowProofs ------------------------
(***************************************************************************)
(* Proofs about Renderer and TerminalWindow, for any widgets.              *)
(***************************************************************************)
EXTENDS TerminalWindow, SequenceLemmas, FiniteSetTheorems, TLAPS

Fields == {"children", "attached", "visible", "modalRoot", "nonModalFocus", "focus", "focusIn",
           "keyDown", "mouse", "buttons", "clicked", "clipboard", "selection",
           "told", "hovered", "again", "nullCall"}

\* In the state s of a window, the widget that has the focus is the one that was
\* told so, and so is the one that has the mouse; and no widget that is attached
\* was told anything twice.
Told(s) == /\ DOMAIN s = Fields
           /\ s.told = IF s.focusIn THEN {s.focus} \ {NoWidget} ELSE {}
           /\ s.hovered = {s.mouse} \ {NoWidget}
           /\ s.again \cap s.attached = {}

-----------------------------------------------------------------------------
(* The functions of the renderer, from the innermost to those that call them *)

LEMMA SetKeyboardFocusTold == ASSUME NEW s, NEW w, Told(s) PROVE Told(SetKeyboardFocus(s, w))
<1>. SUFFICES ASSUME w # s.focus, w # NoWidget, IsDominatedBy(w, s.modalRoot)
              PROVE  Told([(IF s.focusIn THEN TellIn(TellOut(s, s.focus), w) ELSE s) EXCEPT !.focus = w])
  BY DEF Told, Fields, SetKeyboardFocus
<1>1. CASE ~ s.focusIn
  BY <1>1 DEF Told, Fields
<1>2. CASE s.focusIn
  <2>. DEFINE t == TellOut(s, s.focus)
              u == TellIn(t, w)
  <2>1. /\ DOMAIN t = Fields /\ t.told = {} /\ t.again = s.again /\ t.attached = s.attached
        /\ t.hovered = s.hovered /\ t.mouse = s.mouse /\ t.focusIn = s.focusIn
    BY <1>2 DEF Told, Fields, TellOut
  <2>. HIDE DEF t
  <2>2. /\ DOMAIN u = Fields /\ u.told = {w} /\ u.again = s.again /\ u.attached = s.attached
        /\ u.hovered = s.hovered /\ u.mouse = s.mouse /\ u.focusIn = s.focusIn
    BY <2>1 DEF Fields, TellIn
  <2>. HIDE DEF u
  <2>3. Told([u EXCEPT !.focus = w])
    BY <1>2, <2>2 DEF Told, Fields
  <2>. QED
    BY <1>2, <2>3 DEF t, u
<1>. QED
  BY <1>1, <1>2

LEMMA DetachWidgetTold == ASSUME NEW s, NEW w, Told(s) PROVE Told(DetachWidget(s, w))
<1>. DEFINE ws == Subtree(s, w)
            t == DetachWidget(s, w)
<1>1. \A ref : IF ref \in ws THEN Voided(ref, ws) = NoWidget ELSE Voided(ref, ws) = ref
  BY DEF Voided
<1>. HIDE DEF ws
<1>2. /\ DOMAIN t = Fields /\ t.focus = Voided(s.focus, ws) /\ t.told = s.told \ (ws \cap {s.focus})
      /\ t.mouse = Voided(s.mouse, ws) /\ t.hovered = s.hovered \ (ws \cap {s.mouse})
      /\ t.again = s.again \cup ((ws \cap {s.focus}) \ s.told) /\ t.attached = s.attached \ ws
      /\ t.focusIn = s.focusIn
  BY DEF Told, Fields, DetachWidget, ws
<1>. HIDE DEF t
<1>3. t.again \cap t.attached = {}
  BY <1>2 DEF Told
<1>. QED
  BY <1>1, <1>2, <1>3 DEF Told, t

LEMMA DetachTold == ASSUME NEW s, NEW w, Told(s) PROVE Told(Detach(s, w))
<1>. DEFINE t == [s EXCEPT !.children[Parent[w]] = RemoveFirst(s.children[Parent[w]], w)]
<1>1. Told(t)
  BY DEF Told, Fields
<1>2. Told(DetachWidget(t, w))
  BY <1>1, DetachWidgetTold
<1>3. Told(DetachTree(t, w))
  BY <1>2, SetKeyboardFocusTold DEF DetachTree
<1>. QED
  BY <1>3 DEF Detach

LEMMA AttachTold == ASSUME NEW s, NEW w, Told(s) PROVE Told(Attach(s, w))
BY DEF Told, Fields, Attach

LEMMA ClearRootTold == ASSUME NEW s, Told(s) PROVE Told(ClearRoot(s))
BY DetachWidgetTold DEF Told, Fields, ClearRoot

LEMMA SetModalRootTold == ASSUME NEW s, NEW w, Told(s) PROVE Told(SetModalRoot(s, w))
<1>1. Told([s EXCEPT !.modalRoot = w])
  BY DEF Told, Fields
<1>2. Told([[s EXCEPT !.modalRoot = w] EXCEPT !.nonModalFocus = s.focus])
  BY DEF Told, Fields
<1>. QED
  BY <1>1, <1>2, SetKeyboardFocusTold DEF SetModalRoot

LEMMA AttachModalTold == ASSUME NEW s, NEW p, NEW w, Told(s) PROVE Told(AttachModal(s, p, w))
<1>. DEFINE t == Attach(s, w)
<1>1. Told(t)
  BY AttachTold
<1>. HIDE DEF t
<1>2. Told([t EXCEPT !.visible = @ \cup {p}])
  BY <1>1 DEF Told, Fields
<1>. QED
  BY <1>1, <1>2, SetModalRootTold DEF AttachModal, t

LEMMA DetachModalTold == ASSUME NEW s, NEW p, NEW w, Told(s) PROVE Told(DetachModal(s, p, w))
<1>. DEFINE t == Detach(s, w)
            u == SetModalRoot(t, Root)
<1>1. Told(t)
  BY DetachTold
<1>2. Told(u)
  BY <1>1, SetModalRootTold
<1>. HIDE DEF u
<1>3. Told([u EXCEPT !.visible = @ \ {p}])
  BY <1>2 DEF Told, Fields
<1>. QED
  BY <1>1, <1>3 DEF DetachModal, u

LEMMA MouseTold ==
  ASSUME NEW s, Told(s), NEW target, target # NoWidget
  PROVE  Told(UpdateMouseFocus(s, target)) /\ Told(MouseDown(s, target))
<1>. DEFINE t == UpdateMouseFocus(s, target)
<1>1. Told(t)
  BY DEF Told, Fields, UpdateMouseFocus
<1>. HIDE DEF t
<1>2. Told([t EXCEPT !.buttons = @ + 1,
                     !.clicked = IF s.buttons = 0 THEN @ ELSE NoWidget])
  BY <1>1 DEF Told, Fields
<1>. QED
  BY <1>1, <1>2 DEF MouseDown, t

LEMMA MouseUpTold ==
  ASSUME NEW s, Told(s)
  PROVE  /\ Told(MouseUp(s)) /\ Told(MouseOut(s))
         /\ Told(Clicked(MouseUp(s))) /\ Told(ClickedThrice(MouseUp(s)))
         /\ Told([MouseUp(s) EXCEPT !.clicked = NoWidget])
<1>1. Told(MouseUp(s)) /\ Told(MouseOut(s))
  BY DEF Told, Fields, MouseUp, MouseOut
<1>2. ASSUME NEW u, Told(u)
      PROVE  Told(Clicked(u)) /\ Told(ClickedThrice(u)) /\ Told([u EXCEPT !.clicked = NoWidget])
  BY <1>2 DEF Told, Fields, Clicked, ClickedThrice
<1>. QED
  BY <1>1, <1>2

LEMMA WindowFocusTold ==
  ASSUME NEW s, Told(s) PROVE Told(IF s.focusIn THEN FocusOut(s) ELSE FocusIn(s))
<1>1. ASSUME s.focusIn PROVE Told(FocusOut(s))
  <2>. DEFINE t == TellOut(s, s.focus)
  <2>1. /\ DOMAIN t = Fields /\ t.told = {} /\ t.again = s.again /\ t.attached = s.attached
        /\ t.hovered = s.hovered /\ t.mouse = s.mouse
    BY <1>1 DEF Told, Fields, TellOut
  <2>. HIDE DEF t
  <2>2. Told([t EXCEPT !.focusIn = FALSE])
    BY <2>1 DEF Told, Fields
  <2>. QED
    BY <2>2 DEF t, FocusOut
<1>2. ASSUME ~ s.focusIn PROVE Told(FocusIn(s))
  <2>. DEFINE t == TellIn(s, s.focus)
  <2>1. /\ DOMAIN t = Fields /\ t.told = {s.focus} \ {NoWidget} /\ t.again = s.again
        /\ t.attached = s.attached /\ t.hovered = s.hovered /\ t.mouse = s.mouse /\ t.focus = s.focus
    BY <1>2 DEF Told, Fields, TellIn
  <2>. HIDE DEF t
  <2>2. Told([t EXCEPT !.focusIn = TRUE])
    BY <2>1 DEF Told, Fields
  <2>. QED
    BY <2>2 DEF t, FocusIn
<1>. QED
  BY <1>1, <1>2

LEMMA KeysTold ==
  ASSUME NEW s, Told(s) PROVE Told(KeyDown(s)) /\ Told(KeyChar(s))
BY DEF Told, Fields, KeyDown, KeyChar

-----------------------------------------------------------------------------
(* The window *)

\* The pending paste may be cancelled, and a clipboard's answer taken, first.
LEMMA AnsweredTold ==
  ASSUME Told(r)
  PROVE  /\ Told(Cancelled(r))
         /\ Told([r EXCEPT !.clipboard = NoWidget]) /\ Told([r EXCEPT !.selection = NoWidget])
         /\ Told(KeyDown(r)) /\ Told(Cancelled(KeyDown(r)))
         /\ Told([KeyDown(r) EXCEPT !.clipboard = Term])
<1>1. Told(Cancelled(r))
  BY DetachModalTold DEF Cancelled
<1>2. Told(KeyDown(r))
  BY KeysTold
<1>3. Told(Cancelled(KeyDown(r)))
  BY <1>2, DetachModalTold DEF Cancelled
<1>. QED
  BY <1>1, <1>2, <1>3 DEF Told, Fields

LEMMA ToldStep == ASSUME Told(r), [Next]_vars PROVE Told(r)'
<1>1. CASE CreateTerminal \/ ChildEnds \/ UNCHANGED vars
  BY <1>1 DEF CreateTerminal, ChildEnds, vars, Told
<1>2. CASE StartSession
  BY <1>2, AttachTold, SetKeyboardFocusTold DEF StartSession
<1>3. CASE ShowOther \/ KeyAbout
  BY <1>3, AttachModalTold, KeysTold DEF ShowOther, KeyAbout, ShowModal
<1>4. ASSUME NEW s, Told(s), TerminalPaste(s) PROVE Told(r)'
  <2>1. Told(Cancelled(s))
    BY <1>4, DetachModalTold DEF Cancelled
  <2>. QED
    BY <1>4, <2>1, AttachModalTold DEF TerminalPaste, ShowModal
<1>5. CASE PasteClipboard \/ PasteSelection
  BY <1>4, <1>5, AnsweredTold DEF PasteClipboard, PasteSelection
<1>6. CASE RequestClose \/ SessionPTYTerminated \/ KeyToWindow
  <2>1. /\ Told(ClearRoot(r)) /\ Told(ClearRoot(Detach(Cancelled(r), Term)))
        /\ Told(ClearRoot(Detach(Cancelled(KeyDown(r)), Term)))
    BY AnsweredTold, ClearRootTold, DetachTold
  <2>. QED
    BY <1>6, <2>1 DEF RequestClose, SessionPTYTerminated, KeyToWindow, CloseSession, Close
<1>7. CASE WaitForKey
  BY <1>7, SetKeyboardFocusTold DEF WaitForKey
<1>8. CASE WindowFocus
  BY <1>8, WindowFocusTold DEF WindowFocus
<1>9. CASE KeyPaste
  BY <1>9, AnsweredTold DEF KeyPaste
<1>10. CASE KeyDismiss
  BY <1>10, DetachModalTold, KeysTold DEF KeyDismiss, Dismiss
<1>11. CASE KeyTab \/ KeyOther \/ TypeChar
  BY <1>11, SetKeyboardFocusTold, KeysTold DEF KeyTab, KeyOther, TypeChar
<1>12. \A target \in Targets : target # NoWidget
  BY DEF Targets, MouseTargets, IsDominatedBy
<1>13. ASSUME NEW target \in Targets, PointAt(target) PROVE Told(r)'
  BY <1>12, <1>13, MouseTold DEF PointAt
<1>14. CASE LeaveWindow \/ Release
  <2>1. r' \in {MouseOut(r), MouseUp(r), Clicked(MouseUp(r)), ClickedThrice(MouseUp(r))}
    BY <1>14 DEF LeaveWindow, Release
  <2>. QED
    BY <2>1, MouseUpTold
<1>15. ASSUME NEW target \in Targets, NEW wheel \in BOOLEAN, Press(target, wheel) PROVE Told(r)'
  <2>. DEFINE s == MouseDown(r, target)
  <2>1. Told(s)
    BY <1>12, MouseTold
  <2>. HIDE DEF s
  <2>2. Told([s EXCEPT !.selection = Term])
    BY <2>1 DEF Told, Fields
  <2>. QED
    BY <1>15, <2>1, <2>2 DEF Press, s
<1>16. CASE Click
  <2>1. Told([MouseUp(r) EXCEPT !.clicked = NoWidget])
    BY MouseUpTold
  <2>. QED
    BY <1>16, <2>1, DetachModalTold DEF Click, Dismiss
<1>. QED
  BY <1>1, <1>2, <1>3, <1>5, <1>6, <1>7, <1>8, <1>9, <1>10, <1>11, <1>13, <1>14, <1>15, <1>16 DEF Next

\* Whatever is attached, detached, focused, pointed at and pressed, in whatever
\* tree of widgets: those that were told last that they have the focus or the mouse
\* are the one that has it, and no widget in the window is told anything twice.
THEOREM ToldInTurn == Spec => []OneIsTold
<1>1. Init => Told(r)
  BY DEF Init, Told, Fields
<1>2. Told(r) /\ [Next]_vars => Told(r)'
  BY ToldStep
<1>3. Told(r) => OneIsTold
  BY DEF Told, OneIsTold
<1>. QED
  BY <1>1, <1>2, <1>3, PTL DEF Spec

-----------------------------------------------------------------------------
(* The tree of the widgets *)

\* The recursive function Above is one: RootedAssumption excludes cycles.
LEMMA AboveEquation ==
  ASSUME NEW w \in Widgets
  PROVE  Above[w] = {w} \cup (IF Parent[w] = NoWidget THEN {} ELSE Above[Parent[w]])
<1>. DEFINE Closed(S, x) == x \in S /\ \A u \in S : Parent[u] \in S \cup {NoWidget}
            closure == [x \in Widgets |-> {v \in Widgets : \A S \in SUBSET Widgets : Closed(S, x) => v \in S}]
            Eq(f) == f = [x \in Widgets |-> {x} \cup (IF Parent[x] = NoWidget THEN {} ELSE f[Parent[x]])]
<1>1. ASSUME NEW x \in Widgets
      PROVE  closure[x] = {x} \cup (IF Parent[x] = NoWidget THEN {} ELSE closure[Parent[x]])
  <2>. DEFINE p == Parent[x]
  <2>1. CASE p = NoWidget
    <3>1. Closed({x}, x)
      BY <2>1
    <3>2. {x} \in SUBSET Widgets
      OBVIOUS
    <3>3. \A v \in closure[x] : v \in {x}
      <4>. HIDE DEF Closed
      <4>. QED
        BY <3>1, <3>2
    <3>4. x \in closure[x]
      OBVIOUS
    <3>. HIDE DEF closure
    <3>. QED
      BY <2>1, <3>3, <3>4
  <2>2. CASE p # NoWidget
    <3>1. p \in Widgets
      BY <2>2, TreeAssumption
    <3>2. ASSUME NEW v \in closure[x], v # x PROVE v \in closure[p]
      <4>. SUFFICES ASSUME NEW S \in SUBSET Widgets, Closed(S, p) PROVE v \in S
        BY <3>1
      <4>1. Closed(S \cup {x}, x)
        OBVIOUS
      <4>2. S \cup {x} \in SUBSET Widgets
        OBVIOUS
      <4>. HIDE DEF Closed
      <4>. QED
        BY <3>2, <4>1, <4>2
    <3>3. ASSUME NEW v \in closure[p] PROVE v \in closure[x]
      <4>. SUFFICES ASSUME NEW S \in SUBSET Widgets, Closed(S, x) PROVE v \in S
        BY <3>1
      <4>1. Closed(S, p)
        BY <2>2
      <4>. HIDE DEF Closed
      <4>. QED
        BY <3>1, <4>1
    <3>4. x \in closure[x]
      OBVIOUS
    <3>. HIDE DEF closure
    <3>. QED
      BY <2>2, <3>2, <3>3, <3>4
  <2>. QED
    BY <2>1, <2>2
<1>2. Eq(closure)
  <2>1. closure = [x \in Widgets |-> closure[x]]
    OBVIOUS
  <2>. HIDE DEF closure
  <2>. QED
    BY <1>1, <2>1
<1>. HIDE DEF closure
<1>3. Above = CHOOSE f : Eq(f)
  BY DEF Above
<1>4. Eq(Above)
  BY <1>2, <1>3
<1>. QED
  BY <1>4

\* The widgets above w lead to the root.
LEMMA AboveFacts ==
  ASSUME NEW w \in Widgets
  PROVE  /\ w \in Above[w] /\ Root \in Above[w] /\ Above[w] \subseteq Widgets
         /\ w # Root => Parent[w] \in Widgets /\ Above[w] = {w} \cup Above[Parent[w]]
         /\ \A v \in Above[w] : Above[v] \subseteq Above[w]
<1>. DEFINE ws == {x \in Widgets : ~ /\ Root \in Above[x] /\ Above[x] \subseteq Widgets
                                     /\ \A v \in Above[x] : Above[v] \subseteq Above[x]}
<1>1. ws = {}
  <2>. SUFFICES ASSUME ws # {} PROVE FALSE
    OBVIOUS
  <2>1. PICK x \in ws : Parent[x] \notin ws
    BY RootedAssumption
  <2>2. CASE Parent[x] = NoWidget
    BY <2>1, <2>2, AboveEquation, TreeAssumption
  <2>3. CASE Parent[x] # NoWidget
    <3>1. Parent[x] \in Widgets /\ Above[x] = {x} \cup Above[Parent[x]]
      BY <2>3, AboveEquation, TreeAssumption
    <3>. QED
      BY <2>1, <3>1
  <2>. QED
    BY <2>2, <2>3
<1>. HIDE DEF ws
<1>2. w \notin ws
  BY <1>1
<1>3. w \in Above[w]
  BY AboveEquation
<1>4. w # Root => Parent[w] \in Widgets /\ Above[w] = {w} \cup Above[Parent[w]]
  BY AboveEquation, TreeAssumption
<1>. QED
  BY <1>2, <1>3, <1>4 DEF ws

\* No widget is above its parent.
LEMMA ParentNotBelow ==
  ASSUME NEW w \in Widgets \ {Root}
  PROVE  w \notin Above[Parent[w]]
<1>. SUFFICES ASSUME w \in Above[Parent[w]] PROVE FALSE
  OBVIOUS
<1>. DEFINE ws == {v \in Above[Parent[w]] : w \in Above[v]}
<1>0. Parent[w] \in Widgets
  BY AboveFacts
<1>1. ws \in SUBSET Widgets /\ Parent[w] \in ws
  BY <1>0, AboveFacts
<1>2. PICK u \in ws : Parent[u] \notin ws
  BY <1>1, RootedAssumption
<1>3. u # w /\ u \in Widgets /\ w \in Above[u] /\ u \in Above[Parent[w]]
  BY <1>1, <1>2
<1>4. u # Root
  BY <1>3, AboveEquation, TreeAssumption
<1>5. Parent[u] \in Widgets /\ w \in Above[Parent[u]] /\ Parent[u] \in Above[u]
  BY <1>3, <1>4, AboveFacts
<1>6. Parent[u] \in Above[Parent[w]]
  BY <1>0, <1>3, <1>5, AboveFacts
<1>. QED
  BY <1>2, <1>5, <1>6

\* The children of a widget are those of its widgets that it is the parent of.
Tree(s) == /\ s.children \in [Widgets -> Seq(Widgets)]
           /\ \A w \in Widgets : IsInjective(s.children[w])
           /\ \A w \in Widgets : \A v \in Range(s.children[w]) : Parent[v] = w

\* How many widgets are not above w.
Rank(w) == Cardinality(Widgets) - Cardinality(Above[w])

\* The rank decreases from a parent to its children: what is shown of all widgets
\* below w is shown by taking a counterexample of least rank.
LEMMA RankFacts ==
  ASSUME NEW w \in Widgets
  PROVE  /\ Rank(w) \in Nat
         /\ w # Root => Rank(w) < Rank(Parent[w])
<1>1. /\ IsFiniteSet(Above[w]) /\ Cardinality(Above[w]) \in Nat
      /\ Cardinality(Widgets) \in Nat /\ Cardinality(Above[w]) <= Cardinality(Widgets)
  BY AboveFacts, RootedAssumption, FS_Subset, FS_CardinalityType
<1>2. ASSUME w # Root PROVE Cardinality(Above[w]) = Cardinality(Above[Parent[w]]) + 1
  <2>1. /\ Parent[w] \in Widgets /\ Above[w] = Above[Parent[w]] \cup {w}
        /\ w \notin Above[Parent[w]] /\ Above[Parent[w]] \subseteq Widgets
    BY <1>2, AboveFacts, ParentNotBelow
  <2>2. IsFiniteSet(Above[Parent[w]])
    BY <2>1, RootedAssumption, FS_Subset
  <2>. QED
    BY <2>1, <2>2, FS_AddElement
<1>3. ASSUME w # Root PROVE Cardinality(Above[Parent[w]]) \in Nat
  BY <1>3, AboveFacts, RootedAssumption, FS_Subset, FS_CardinalityType
<1>. QED
  BY <1>1, <1>2, <1>3 DEF Rank

\* What order is in Preorder(s), of the widgets with rank below n.
Visits(f, s, n) ==
  f = [w \in {v \in Widgets : Rank(v) < n} |->
         <<w>> \o FlattenSeq([i \in DOMAIN s.children[w] |-> f[s.children[w][i]]])]

\* A child of w has w for its parent, and the lower rank.
LEMMA ChildFacts ==
  ASSUME NEW s, Tree(s), NEW w \in Widgets, NEW i \in DOMAIN s.children[w]
  PROVE  /\ s.children[w][i] \in Widgets \ {Root}
         /\ s.children[w][i] \in Range(s.children[w])
         /\ Parent[s.children[w][i]] = w
         /\ Rank(s.children[w][i]) < Rank(w) /\ Rank(s.children[w][i]) \in Nat
<1>1. s.children[w] \in Seq(Widgets)
  BY DEF Tree
<1>2. s.children[w][i] \in Widgets
  BY <1>1
<1>3. s.children[w][i] \in Range(s.children[w])
  BY DEF Range
<1>4. Parent[s.children[w][i]] = w
  BY <1>3 DEF Tree
<1>5. s.children[w][i] # Root
  BY <1>2, <1>4, TreeAssumption
<1>. QED
  BY <1>2, <1>3, <1>4, <1>5, RankFacts

\* The recursive function in Preorder(s) exists: there is no least rank without.
LEMMA VisitsExists ==
  ASSUME NEW s, Tree(s), NEW n \in Nat
  PROVE  \E f : Visits(f, s, n)
<1>. DEFINE T == {k \in Nat : ~ \E f : Visits(f, s, k)}
<1>. SUFFICES ASSUME T # {} PROVE FALSE
  OBVIOUS
<1>0. T \subseteq Nat
  OBVIOUS
<1>1. PICK k \in T : \A m \in T : k <= m
  <2>. HIDE DEF T
  <2>. QED
    BY <1>0, LeastNumber
<1>2. k # 0
  <2>1. {v \in Widgets : Rank(v) < 0} = {}
    BY RankFacts
  <2>. DEFINE e == [w \in {v \in Widgets : Rank(v) < 0} |-> << >>]
  <2>2. Visits(e, s, 0)
    <3>1. DOMAIN e = {}
      BY <2>1
    <3>. QED
      BY <2>1, <3>1 DEF Visits
  <2>. HIDE DEF e
  <2>. QED
    BY <2>2
<1>3. k - 1 \in Nat /\ k - 1 \notin T /\ k \in Nat
  BY <1>0, <1>1, <1>2
<1>4. PICK f : Visits(f, s, k - 1)
  BY <1>3
<1>. DEFINE W(m) == {v \in Widgets : Rank(v) < m}
            body(h, w) == <<w>> \o FlattenSeq([i \in DOMAIN s.children[w] |-> h[s.children[w][i]]])
            g == [w \in W(k) |-> body(f, w)]
<1>5. \A w \in W(k - 1) : f[w] = body(f, w)
  BY <1>4 DEF Visits
<1>6. \A w \in W(k - 1) : w \in W(k) /\ g[w] = f[w]
  <2>. SUFFICES ASSUME NEW w \in W(k - 1) PROVE w \in W(k) /\ g[w] = f[w]
    OBVIOUS
  <2>1. w \in W(k)
    BY <1>3, RankFacts
  <2>2. g[w] = body(f, w)
    BY <2>1
  <2>. QED
    BY <1>5, <2>1, <2>2
<1>. HIDE DEF g
<1>7. \A w \in W(k) : body(g, w) = body(f, w)
  <2>. SUFFICES ASSUME NEW w \in W(k) PROVE body(g, w) = body(f, w)
    OBVIOUS
  <2>1. \A i \in DOMAIN s.children[w] : s.children[w][i] \in W(k - 1)
    BY <1>3, ChildFacts, RankFacts
  <2>2. \A i \in DOMAIN s.children[w] : g[s.children[w][i]] = f[s.children[w][i]]
    BY <1>6, <2>1
  <2>3. [i \in DOMAIN s.children[w] |-> g[s.children[w][i]]]
          = [i \in DOMAIN s.children[w] |-> f[s.children[w][i]]]
    BY <2>2
  <2>. QED
    BY <2>3
<1>8. g = [w \in W(k) |-> body(g, w)]
  <2>1. g = [w \in W(k) |-> body(f, w)]
    BY DEF g
  <2>. HIDE DEF body
  <2>. QED
    BY <1>7, <2>1
<1>9. Visits(g, s, k)
  BY <1>8 DEF Visits
<1>. QED
  BY <1>1, <1>9

\* Preorder(s) satisfies its equation.
LEMMA PreorderEquation ==
  ASSUME NEW s, Tree(s), NEW w \in Widgets
  PROVE  Preorder(s)[w]
           = <<w>> \o FlattenSeq([i \in DOMAIN s.children[w] |-> Preorder(s)[s.children[w][i]]])
<1>. DEFINE Eq(f) == f = [x \in Widgets |->
              <<x>> \o FlattenSeq([i \in DOMAIN s.children[x] |-> f[s.children[x][i]]])]
            n == Cardinality(Widgets) + 1
<1>1. n \in Nat
  BY RootedAssumption, FS_CardinalityType
<1>2. {v \in Widgets : Rank(v) < n} = Widgets
  <2>. SUFFICES ASSUME NEW v \in Widgets PROVE Rank(v) < n
    OBVIOUS
  <2>1. IsFiniteSet(Above[v]) /\ Cardinality(Above[v]) \in Nat /\ Cardinality(Widgets) \in Nat
    BY AboveFacts, RootedAssumption, FS_Subset, FS_CardinalityType
  <2>. QED
    BY <2>1 DEF Rank
<1>3. PICK f : Visits(f, s, n)
  <2>. HIDE DEF n
  <2>. QED
    BY <1>1, VisitsExists
<1>. HIDE DEF n
<1>4. Eq(f)
  BY <1>2, <1>3 DEF Visits
<1>5. Preorder(s) = CHOOSE g : Eq(g)
  BY DEF Preorder
<1>6. Eq(Preorder(s))
  <2>. HIDE DEF Eq
  <2>. QED
    BY <1>4, <1>5
<1>. DEFINE p == Preorder(s)
<1>7. Eq(p)
  BY <1>6
<1>. HIDE DEF p
<1>8. p[w] = <<w>> \o FlattenSeq([i \in DOMAIN s.children[w] |-> p[s.children[w][i]]])
  BY <1>7
<1>. QED
  BY <1>8 DEF p

\* A set of widgets that is not empty has one of the least rank.
LEMMA LowestWidget ==
  ASSUME NEW T \in SUBSET Widgets, T # {}
  PROVE  \E w \in T : \A v \in T : Rank(w) <= Rank(v)
<1>. DEFINE ranks == {Rank(w) : w \in T}
<1>1. ranks \subseteq Nat /\ ranks # {}
  BY RankFacts
<1>. HIDE DEF ranks
<1>2. PICK n \in ranks : \A m \in ranks : n <= m
  BY <1>1, LeastNumber
<1>. QED
  BY <1>2 DEF ranks

\* A preorder is a sequence of widgets.
LEMMA PreorderType ==
  ASSUME NEW s, Tree(s), NEW w \in Widgets
  PROVE  Preorder(s)[w] \in Seq(Widgets)
<1>. DEFINE T == {x \in Widgets : Preorder(s)[x] \notin Seq(Widgets)}
<1>1. T = {}
  <2>. SUFFICES ASSUME T # {} PROVE FALSE
    OBVIOUS
  <2>0. T \in SUBSET Widgets
    OBVIOUS
  <2>. HIDE DEF T
  <2>1. PICK x \in T : \A v \in T : Rank(x) <= Rank(v)
    BY <2>0, LowestWidget
  <2>2. x \in Widgets /\ Rank(x) \in Nat
    BY <2>0, <2>1, RankFacts
  <2>. DEFINE seqs == [i \in DOMAIN s.children[x] |-> Preorder(s)[s.children[x][i]]]
  <2>3. ASSUME NEW i \in DOMAIN s.children[x] PROVE Preorder(s)[s.children[x][i]] \in Seq(Widgets)
    <3>1. s.children[x][i] \in Widgets /\ s.children[x][i] \notin T
      BY <2>1, <2>2, ChildFacts
    <3>. QED
      BY <3>1 DEF T
  <2>4. s.children[x] \in Seq(Widgets)
    BY <2>2 DEF Tree
  <2>5. seqs \in Seq(Seq(Widgets))
    <3>1. DOMAIN s.children[x] = 1..Len(s.children[x]) /\ Len(s.children[x]) \in Nat
      BY <2>4
    <3>. QED
      BY <2>3, <3>1
  <2>. HIDE DEF seqs
  <2>6. FlattenSeq(seqs) \in Seq(Widgets)
    BY <2>5, FlattenSeqRange
  <2>7. Preorder(s)[x] = <<x>> \o FlattenSeq(seqs)
    BY <2>2, PreorderEquation DEF seqs
  <2>8. Preorder(s)[x] \in Seq(Widgets)
    BY <2>2, <2>6, <2>7
  <2>. QED
    BY <2>1, <2>8 DEF T
<1>. HIDE DEF T
<1>2. w \notin T
  BY <1>1
<1>. QED
  BY <1>2 DEF T

\* A subtree is the widget itself and the subtrees of its children.
LEMMA SubtreeEquation ==
  ASSUME NEW s, Tree(s), NEW w \in Widgets
  PROVE  Subtree(s, w) = {w} \cup UNION {Subtree(s, c) : c \in Range(s.children[w])}
<1>. DEFINE seqs == [i \in DOMAIN s.children[w] |-> Preorder(s)[s.children[w][i]]]
<1>1. s.children[w] \in Seq(Widgets)
  BY DEF Tree
<1>2. seqs \in Seq(Seq(Widgets))
  <2>1. DOMAIN s.children[w] = 1..Len(s.children[w]) /\ Len(s.children[w]) \in Nat
    BY <1>1
  <2>2. \A i \in DOMAIN s.children[w] : Preorder(s)[s.children[w][i]] \in Seq(Widgets)
    BY ChildFacts, PreorderType
  <2>. QED
    BY <2>1, <2>2
<1>3. DOMAIN seqs = DOMAIN s.children[w]
      /\ \A i \in DOMAIN s.children[w] : Range(seqs[i]) = Subtree(s, s.children[w][i])
  BY DEF Subtree
<1>4. Preorder(s)[w] = <<w>> \o FlattenSeq(seqs)
  BY PreorderEquation
<1>. HIDE DEF seqs
<1>5. /\ FlattenSeq(seqs) \in Seq(Widgets)
      /\ Range(FlattenSeq(seqs)) = UNION {Range(seqs[i]) : i \in DOMAIN seqs}
  BY <1>2, FlattenSeqRange
<1>6. Range(Preorder(s)[w]) = {w} \cup Range(FlattenSeq(seqs))
  <2>1. <<w>> \in Seq(Widgets) /\ Range(<<w>>) = {w}
    BY DEF Range
  <2>. QED
    BY <1>4, <1>5, <2>1, RangeConcat
<1>7. UNION {Range(seqs[i]) : i \in DOMAIN seqs} = UNION {Subtree(s, c) : c \in Range(s.children[w])}
  BY <1>3 DEF Range
<1>. QED
  BY <1>5, <1>6, <1>7 DEF Subtree

\* What is in a subtree is below its top, and so is what is attached to that.
LEMMA SubtreeFacts ==
  ASSUME NEW s, Tree(s), NEW w \in Widgets, NEW v \in Subtree(s, w)
  PROVE  /\ v \in Widgets /\ w \in Above[v]
         /\ Range(s.children[v]) \subseteq Subtree(s, w)
         /\ v # w => Parent[v] \in Subtree(s, w) /\ v \in Range(s.children[Parent[v]])
<1>. DEFINE Good(x, u) == /\ u \in Widgets /\ x \in Above[u]
                          /\ Range(s.children[u]) \subseteq Subtree(s, x)
                          /\ u # x => /\ Parent[u] \in Subtree(s, x)
                                      /\ u \in Range(s.children[Parent[u]])
            T == {x \in Widgets : \E u \in Subtree(s, x) : ~ Good(x, u)}
<1>1. T = {}
  <2>. SUFFICES ASSUME T # {} PROVE FALSE
    OBVIOUS
  <2>0. T \in SUBSET Widgets
    OBVIOUS
  <2>. HIDE DEF T
  <2>1. PICK x \in T : \A u \in T : Rank(x) <= Rank(u)
    BY <2>0, LowestWidget
  <2>2. x \in Widgets /\ Rank(x) \in Nat
    BY <2>0, <2>1, RankFacts
  <2>3. PICK u \in Subtree(s, x) : ~ Good(x, u)
    BY <2>1 DEF T
  <2>4. \A c \in Range(s.children[x]) : c \in Widgets \ {Root} /\ Parent[c] = x /\ c \notin T
    <3>. SUFFICES ASSUME NEW i \in DOMAIN s.children[x]
                  PROVE  /\ s.children[x][i] \in Widgets \ {Root}
                         /\ Parent[s.children[x][i]] = x
                         /\ s.children[x][i] \notin T
      BY DEF Range
    <3>. QED
      BY <2>1, <2>2, ChildFacts
  <2>5. Subtree(s, x) = {x} \cup UNION {Subtree(s, c) : c \in Range(s.children[x])}
    BY <2>2, SubtreeEquation
  <2>6. \A c \in Range(s.children[x]) : c \in Subtree(s, c) /\ c \in Subtree(s, x)
    BY <2>4, <2>5, SubtreeEquation
  <2>7. CASE u = x
    <3>1. x \in Above[x]
      BY <2>2, AboveFacts
    <3>. QED
      BY <2>2, <2>3, <2>6, <2>7, <3>1
  <2>8. CASE u # x
    <3>1. PICK c \in Range(s.children[x]) : u \in Subtree(s, c)
      BY <2>3, <2>5, <2>8
    <3>2. Good(c, u) /\ c \in Widgets \ {Root} /\ Parent[c] = x /\ Subtree(s, c) \subseteq Subtree(s, x)
      BY <2>4, <2>5, <3>1 DEF T
    <3>3. x \in Above[c]
      BY <2>2, <3>2, AboveFacts
    <3>4. x \in Above[u]
      BY <3>2, <3>3, AboveFacts
    <3>5. CASE u = c
      BY <2>2, <2>3, <2>5, <3>1, <3>2, <3>4, <3>5
    <3>6. CASE u # c
      BY <2>3, <3>2, <3>4, <3>6
    <3>. QED
      BY <3>5, <3>6
  <2>. QED
    BY <2>7, <2>8
<1>. HIDE DEF T
<1>2. w \notin T
  BY <1>1
<1>3. Good(w, v)
  BY <1>2 DEF T
<1>. QED
  BY <1>3

\* All that is linked to a widget is in its subtree.
LEMMA LinkedInSubtree ==
  ASSUME NEW s, Tree(s), NEW w \in Widgets, NEW X \in SUBSET Widgets,
         \A v \in X : v # w => v # Root /\ Parent[v] \in X /\ v \in Range(s.children[Parent[v]])
  PROVE  X \subseteq Subtree(s, w)
<1>. DEFINE T == X \ Subtree(s, w)
<1>. SUFFICES ASSUME T # {} PROVE FALSE
  OBVIOUS
<1>0. T \in SUBSET Widgets
  OBVIOUS
<1>1. PICK v \in T : Parent[v] \notin T
  BY <1>0, RootedAssumption
<1>2. v # w
  BY SubtreeEquation
<1>3. Parent[v] \in Subtree(s, w) /\ v \in Range(s.children[Parent[v]])
  BY <1>1, <1>2
<1>4. v \in Subtree(s, w)
  BY <1>3, SubtreeFacts
<1>. QED
  BY <1>1, <1>4

-----------------------------------------------------------------------------
(* Windows without dangling references *)

\* What has a renderer is linked to the root, and all below it has one.
Rooted(s) ==
  /\ \A w \in s.attached : Range(s.children[w]) \subseteq s.attached
  /\ \A w \in s.attached \ {Root} : /\ Parent[w] \in s.attached
                                    /\ w \in Range(s.children[Parent[w]])

\* A window whose tree is one, of which no reference dangles.
Sound(s, m) ==
  /\ s \in Windows(m)
  /\ Tree(s)
  /\ Rooted(s)
  /\ {s.focus, s.mouse, s.clipboard, s.selection} \subseteq s.attached \cup {NoWidget}
  /\ ~ s.nullCall

\* What t is but for its focus, and who was told of it, it has from s.
Refocused(s, t) ==
  /\ t.children = s.children /\ t.attached = s.attached /\ t.visible = s.visible
  /\ t.modalRoot = s.modalRoot /\ t.nonModalFocus = s.nonModalFocus

\* What t is but for what its widgets were told, it has from s.
Unspoken(s, t) ==
  /\ Refocused(s, t) /\ t.focus = s.focus /\ t.mouse = s.mouse
  /\ t.clipboard = s.clipboard /\ t.selection = s.selection /\ t.nullCall = s.nullCall

\* What is attached and below w is in the subtree of w; what is above it is attached.
LEMMA RootedBelow ==
  ASSUME NEW s, Tree(s), Rooted(s), s.attached \subseteq Widgets, NEW w \in Widgets
  PROVE  /\ {v \in s.attached : w \in Above[v]} \subseteq Subtree(s, w)
         /\ \A v \in s.attached : Above[v] \subseteq s.attached
<1>. DEFINE X == {v \in s.attached : w \in Above[v]}
<1>1. X \in SUBSET Widgets
  OBVIOUS
<1>2. ASSUME NEW v \in X, v # w
      PROVE  v # Root /\ Parent[v] \in X /\ v \in Range(s.children[Parent[v]])
  <2>1. v \in Widgets
    OBVIOUS
  <2>2. v # Root
    BY <1>2, AboveEquation, TreeAssumption
  <2>3. Parent[v] \in s.attached /\ v \in Range(s.children[Parent[v]])
    BY <2>2 DEF Rooted
  <2>4. w \in Above[Parent[v]]
    BY <1>2, <2>1, <2>2, AboveFacts
  <2>. QED
    BY <2>2, <2>3, <2>4
<1>. HIDE DEF X
<1>3. X \subseteq Subtree(s, w)
  BY <1>1, <1>2, LinkedInSubtree
<1>. DEFINE T == {v \in s.attached : ~ (Above[v] \subseteq s.attached)}
<1>4. T = {}
  <2>. SUFFICES ASSUME T # {} PROVE FALSE
    OBVIOUS
  <2>0. T \in SUBSET Widgets
    OBVIOUS
  <2>1. PICK v \in T : Parent[v] \notin T
    BY <2>0, RootedAssumption
  <2>2. CASE v = Root
    BY <2>1, <2>2, AboveEquation, TreeAssumption
  <2>3. CASE v # Root
    <3>1. Parent[v] \in s.attached /\ v \in Widgets
      BY <2>1, <2>3 DEF Rooted
    <3>2. Above[v] = {v} \cup Above[Parent[v]]
      BY <2>3, <3>1, AboveFacts
    <3>. QED
      BY <2>1, <3>1, <3>2
  <2>. QED
    BY <2>2, <2>3
<1>. QED
  BY <1>3, <1>4 DEF X

-----------------------------------------------------------------------------
(* Keyboard focus *)

\* The search finds one of those that it searches for, if there is one.
LEMMA FirstFacts ==
  ASSUME NEW S, NEW order \in Seq(S), NEW ws, ws # {}, ws \subseteq Range(order)
  PROVE  First(order, ws) \in ws
<1>. DEFINE I == {i \in DOMAIN order : order[i] \in ws}
<1>0. DOMAIN order = 1..Len(order) /\ Len(order) \in Nat
  OBVIOUS
<1>1. I \subseteq Nat /\ I # {}
  BY <1>0 DEF Range
<1>. HIDE DEF I
<1>2. PICK i \in I : \A j \in I : i <= j
  BY <1>1, LeastNumber
<1>3. /\ i \in DOMAIN order /\ order[i] \in ws
      /\ \A j \in 1..(i - 1) : order[j] \notin ws
  BY <1>0, <1>1, <1>2 DEF I
<1>. DEFINE P(k) == order[k] \in ws /\ \A j \in 1..(k - 1) : order[j] \notin ws
            k == CHOOSE x \in DOMAIN order : P(x)
<1>4. k \in DOMAIN order /\ P(k)
  <2>. HIDE DEF P
  <2>1. P(i)
    BY <1>3 DEF P
  <2>. QED
    BY <1>3, <2>1
<1>. QED
  BY <1>4 DEF First

\* The searches for the next focus visit all that is attached.
LEMMA OrderFacts ==
  ASSUME NEW s, Tree(s), Rooted(s), s.attached \subseteq Widgets
  PROVE  Preorder(s)[Root] \in Seq(Widgets) /\ s.attached \subseteq Range(Preorder(s)[Root])
<1>1. Root \in Widgets
  BY TreeAssumption
<1>2. \A v \in s.attached : Root \in Above[v]
  BY AboveFacts
<1>. QED
  BY <1>1, <1>2, PreorderType, RootedBelow DEF Subtree

\* What the searches for the next focus find may be focused, and they find something
\* if anything may be.
LEMMA NextFacts ==
  ASSUME NEW s, Tree(s), Rooted(s), s.attached \subseteq Widgets
  PROVE  /\ NextKeyboardFocus(s) \in Candidates(s) \cup {NoWidget}
         /\ (\E w \in Candidates(s) : Available(s, w, s.modalRoot))
               => NextKeyboardFocus(s) \in Candidates(s)
<1>. DEFINE order == Preorder(s)[Root]
            next == {w \in Following(order, s.focus, Candidates(s)) :
                       Available(s, w, CommonParent(s.focus, w))}
            all == {w \in Candidates(s) : Available(s, w, s.modalRoot)}
            ws == IF next # {} THEN next ELSE all
<1>1. order \in Seq(Widgets) /\ s.attached \subseteq Range(order)
  BY OrderFacts
<1>2. next \subseteq Candidates(s) /\ all \subseteq Candidates(s) /\ Candidates(s) \subseteq s.attached
  BY DEF Following, Candidates
<1>3. NextKeyboardFocus(s) = First(order, ws)
  BY DEF NextKeyboardFocus
<1>4. (\E w \in Candidates(s) : Available(s, w, s.modalRoot)) => all # {}
  OBVIOUS
<1>. HIDE DEF order, next, all
<1>5. ws \subseteq Range(order) /\ ws \subseteq Candidates(s) /\ (all # {} => ws # {})
  BY <1>1, <1>2
<1>. HIDE DEF ws
<1>6. ws # {} => First(order, ws) \in ws
  BY <1>1, <1>5, FirstFacts
<1>7. ws = {} => First(order, ws) = NoWidget
  BY DEF First
<1>. QED
  BY <1>3, <1>4, <1>5, <1>6, <1>7

\* The same of the search backwards.
LEMMA PrevFacts ==
  ASSUME NEW s, Tree(s), Rooted(s), s.attached \subseteq Widgets
  PROVE  Candidates(s) \cap s.visible # {} => PrevKeyboardFocus(s) \in Candidates(s)
<1>. DEFINE order == Reverse(Preorder(s)[Root])
            shown == Candidates(s) \cap s.visible
            prev == Following(order, s.focus, shown)
            ws == IF prev # {} THEN prev ELSE shown
<1>1. order \in Seq(Widgets) /\ s.attached \subseteq Range(order)
  BY OrderFacts, ReverseFacts
<1>2. prev \subseteq shown /\ shown \subseteq s.attached
  BY DEF Following, Candidates
<1>3. PrevKeyboardFocus(s) = First(order, ws)
  BY DEF PrevKeyboardFocus
<1>. HIDE DEF order, prev
<1>4. ws \subseteq Range(order) /\ ws \subseteq Candidates(s) /\ (shown # {} => ws # {})
  BY <1>1, <1>2
<1>. HIDE DEF ws
<1>5. ws # {} => First(order, ws) \in ws
  BY <1>1, <1>4, FirstFacts
<1>. QED
  BY <1>3, <1>4, <1>5

\* setKeyboardFocus() of an attached widget, or of nullptr when nothing has the focus.
\* One of the renderer's references is set to another widget, or to none.
LEMMA ReferenceSet ==
  ASSUME NEW m, NEW s \in Windows(m), NEW ref \in Widgets \cup {NoWidget}
  PROVE  /\ [s EXCEPT !.modalRoot = ref] \in Windows(m)
         /\ [s EXCEPT !.clipboard = ref] \in Windows(m)
         /\ [s EXCEPT !.selection = ref] \in Windows(m)
<1>. DEFINE A == Widgets \cup {NoWidget}
            B == Focusable \cup {NoWidget}
            C == [Widgets -> Seq(Widgets)]
            D == SUBSET Widgets
            W == [children : C, attached : D, visible : D, modalRoot : A, nonModalFocus : B,
                  focus : B, focusIn : BOOLEAN, keyDown : B, mouse : A, buttons : 0..m,
                  clicked : A, clipboard : A, selection : A, told : D, hovered : D, again : D,
                  nullCall : BOOLEAN]
<1>1. W = Windows(m)
  BY DEF Windows
<1>2. s \in W /\ ref \in A
  BY <1>1
<1>. HIDE DEF A, B, C, D
<1>3. /\ [s EXCEPT !.modalRoot = ref] \in W /\ [s EXCEPT !.clipboard = ref] \in W
      /\ [s EXCEPT !.selection = ref] \in W
  BY <1>2
<1>. QED
  BY <1>1, <1>3

\* The same of the focus that is saved.
LEMMA SavedFocusSet ==
  ASSUME NEW m, NEW s \in Windows(m), NEW ref \in Focusable \cup {NoWidget}
  PROVE  [s EXCEPT !.nonModalFocus = ref] \in Windows(m)
<1>. DEFINE A == Widgets \cup {NoWidget}
            B == Focusable \cup {NoWidget}
            C == [Widgets -> Seq(Widgets)]
            D == SUBSET Widgets
            W == [children : C, attached : D, visible : D, modalRoot : A, nonModalFocus : B,
                  focus : B, focusIn : BOOLEAN, keyDown : B, mouse : A, buttons : 0..m,
                  clicked : A, clipboard : A, selection : A, told : D, hovered : D, again : D,
                  nullCall : BOOLEAN]
<1>1. W = Windows(m)
  BY DEF Windows
<1>2. s \in W /\ ref \in B
  BY <1>1
<1>. HIDE DEF A, B, C, D
<1>3. [s EXCEPT !.nonModalFocus = ref] \in W
  BY <1>2
<1>. QED
  BY <1>1, <1>3

\* focusIn() and focusOut() of a widget change what the widgets were told, no more.
LEMMA TellFacts ==
  ASSUME NEW m, NEW s \in Windows(m), NEW w \in Widgets \cup {NoWidget}
  PROVE  /\ TellIn(s, w) \in Windows(m) /\ Unspoken(s, TellIn(s, w))
         /\ TellOut(s, w) \in Windows(m) /\ Unspoken(s, TellOut(s, w))
<1>1. s.told \in SUBSET Widgets /\ s.again \in SUBSET Widgets
  BY DEF Windows
<1>. DEFINE a == s.told \cup ({w} \ {NoWidget})
            b == s.again \cup ({w} \cap s.told)
            c == s.told \ {w}
            d == s.again \cup ({w} \ (s.told \cup {NoWidget}))
<1>2. a \in SUBSET Widgets /\ b \in SUBSET Widgets /\ c \in SUBSET Widgets /\ d \in SUBSET Widgets
  BY <1>1
<1>3. TellIn(s, w) = [s EXCEPT !.told = a, !.again = b]
  BY DEF TellIn
<1>4. TellOut(s, w) = [s EXCEPT !.told = c, !.again = d]
  BY DEF TellOut
<1>. HIDE DEF a, b, c, d
<1>5. ASSUME NEW x \in SUBSET Widgets, NEW y \in SUBSET Widgets, NEW t,
             t = [s EXCEPT !.told = x, !.again = y]
      PROVE  t \in Windows(m) /\ Unspoken(s, t)
  BY <1>5 DEF Windows, Unspoken, Refocused
<1>. QED
  BY <1>2, <1>3, <1>4, <1>5

LEMMA SetKeyboardFocusSound ==
  ASSUME NEW m, NEW s, Sound(s, m), NEW w,
         \/ w \in s.attached \cap Focusable
         \/ w = NoWidget /\ s.focus = NoWidget
  PROVE  /\ Sound(SetKeyboardFocus(s, w), m)
         /\ Refocused(s, SetKeyboardFocus(s, w))
         /\ SetKeyboardFocus(s, w).focus = IF w # NoWidget /\ IsDominatedBy(w, s.modalRoot) THEN w ELSE s.focus
<1>. DEFINE t == SetKeyboardFocus(s, w)
<1>0. s \in Windows(m) /\ w # s.focus => w \in Widgets /\ w # NoWidget /\ w \in Focusable /\ w \in s.attached
  BY TreeAssumption DEF Sound, Windows
<1>1. CASE w = s.focus \/ ~ IsDominatedBy(w, s.modalRoot)
  <2>1. t = s
    BY <1>0, <1>1 DEF SetKeyboardFocus, Sound
  <2>2. w # s.focus => ~ IsDominatedBy(w, s.modalRoot)
    BY <1>1
  <2>. HIDE DEF t
  <2>3. t.focus = IF w # NoWidget /\ IsDominatedBy(w, s.modalRoot) THEN w ELSE s.focus
    BY <2>1, <2>2
  <2>4. Refocused(s, t) /\ Sound(t, m)
    BY <2>1 DEF Refocused
  <2>. QED
    BY <2>3, <2>4 DEF t
<1>2. CASE w # s.focus /\ IsDominatedBy(w, s.modalRoot)
  <2>0. s \in Windows(m)
    BY DEF Sound
  <2>1. w \in Widgets /\ w # NoWidget /\ w \in Focusable /\ w \in s.attached
    BY <1>0, <1>2, <2>0
  <2>. DEFINE u == IF s.focusIn THEN TellIn(TellOut(s, s.focus), w) ELSE s
  <2>2. t = [u EXCEPT !.focus = w]
    BY <1>2, <2>1 DEF SetKeyboardFocus
  <2>10. /\ u \in Windows(m) /\ u.mouse = s.mouse /\ u.clipboard = s.clipboard
         /\ u.selection = s.selection /\ u.nullCall = s.nullCall /\ Refocused(s, u)
    <3>. DEFINE v == TellOut(s, s.focus)
    <3>1. s.focus \in Widgets \cup {NoWidget}
      BY <2>0, TreeAssumption DEF Windows
    <3>2. v \in Windows(m) /\ Unspoken(s, v)
      BY <2>0, <3>1, TellFacts
    <3>. HIDE DEF v
    <3>3. TellIn(v, w) \in Windows(m) /\ Unspoken(v, TellIn(v, w))
      BY <2>1, <3>2, TellFacts
    <3>4. CASE s.focusIn
      <4>1. u = TellIn(v, w)
        BY <3>4 DEF v
      <4>. HIDE DEF u
      <4>. QED
        BY <3>2, <3>3, <4>1 DEF Unspoken, Refocused
    <3>5. CASE ~ s.focusIn
      <4>1. u = s
        BY <3>5
      <4>. HIDE DEF u
      <4>. QED
        BY <2>0, <4>1 DEF Refocused
    <3>. QED
      BY <3>4, <3>5
  <2>. HIDE DEF t, u
  <2>3. t \in Windows(m)
    BY <2>1, <2>2, <2>10 DEF Windows
  <2>4. /\ t.focus = w /\ t.mouse = s.mouse /\ t.clipboard = s.clipboard
        /\ t.selection = s.selection /\ t.nullCall = s.nullCall /\ Refocused(s, t)
    BY <2>2, <2>10 DEF Windows, Refocused
  <2>5. Sound(t, m)
    BY <2>1, <2>3, <2>4 DEF Sound, Tree, Rooted, Refocused
  <2>. QED
    BY <1>2, <2>1, <2>4, <2>5 DEF t
<1>. QED
  BY <1>1, <1>2

-----------------------------------------------------------------------------
(* Attaching and detaching *)

\* detachWidget() of w, which its parent has given up: what is below w goes.
LEMMA DetachWidgetSound ==
  ASSUME NEW m, NEW s, Sound(s, m), NEW w \in s.attached \ {Root}
  PROVE  LET s1 == [s EXCEPT !.children[Parent[w]] = RemoveFirst(@, w)]
             t == DetachWidget(s1, w)
         IN  /\ Sound(t, m)
             /\ t.children = [s.children EXCEPT ![Parent[w]] = RemoveFirst(s.children[Parent[w]], w)]
             /\ t.attached = {v \in s.attached : w \notin Above[v]}
             /\ t.visible = s.visible /\ t.modalRoot = s.modalRoot
             /\ t.nonModalFocus = s.nonModalFocus
             /\ t.focus = IF s.focus \in {v \in s.attached : w \in Above[v]} THEN NoWidget ELSE s.focus
<1>. DEFINE p == Parent[w]
            kids == [s.children EXCEPT ![p] = RemoveFirst(s.children[p], w)]
            s1 == [s EXCEPT !.children = kids]
            ws == Subtree(s1, w)
            t == DetachWidget(s1, w)
            B == {v \in s.attached : w \in Above[v]}
<1>1. s \in Windows(m) /\ Tree(s) /\ Rooted(s) /\ s.attached \subseteq Widgets
  BY DEF Sound, Windows
<1>2. w \in Widgets \ {Root} /\ p \in Widgets
  BY <1>1, AboveFacts
<1>3. /\ RemoveFirst(s.children[p], w) \in Seq(Widgets)
      /\ IsInjective(RemoveFirst(s.children[p], w))
      /\ Range(RemoveFirst(s.children[p], w)) = Range(s.children[p]) \ {w}
  BY <1>1, <1>2, RemoveFirstFacts DEF Tree
<1>4. /\ kids \in [Widgets -> Seq(Widgets)]
      /\ \A v \in Widgets : IsInjective(kids[v])
      /\ \A v \in Widgets : Range(kids[v]) = Range(s.children[v]) \ {w}
  <2>0. s.children \in [Widgets -> Seq(Widgets)]
    BY <1>1 DEF Tree
  <2>1. /\ kids \in [Widgets -> Seq(Widgets)]
        /\ \A v \in Widgets \ {p} : kids[v] = s.children[v]
        /\ kids[p] = RemoveFirst(s.children[p], w)
    BY <1>2, <1>3, <2>0
  <2>2. ASSUME NEW v \in Widgets \ {p} PROVE w \notin Range(s.children[v])
    BY <1>1 DEF Tree
  <2>. HIDE DEF kids
  <2>3. \A v \in Widgets : IsInjective(s.children[v])
    BY <1>1 DEF Tree
  <2>. HIDE DEF p
  <2>4. ASSUME NEW v \in Widgets
        PROVE  IsInjective(kids[v]) /\ Range(kids[v]) = Range(s.children[v]) \ {w}
    <3>1. CASE v = p
      BY <1>3, <2>1, <3>1
    <3>2. CASE v # p
      <4>1. v \in Widgets \ {p}
        BY <3>2
      <4>2. kids[v] = s.children[v] /\ w \notin Range(s.children[v])
        BY <2>1, <2>2, <4>1
      <4>. QED
        BY <2>3, <4>2
    <3>. QED
      BY <3>1, <3>2
  <2>. QED
    BY <2>1, <2>4
<1>. HIDE DEF kids
<1>5. /\ s1.children = kids /\ s1.focus = s.focus /\ s1.told = s.told /\ s1.mouse = s.mouse
      /\ s1.hovered = s.hovered /\ s1.clipboard = s.clipboard /\ s1.selection = s.selection
      /\ s1.attached = s.attached /\ s1.again = s.again
  BY <1>1 DEF Windows
<1>6. s1 \in Windows(m)
  BY <1>1, <1>4 DEF Windows
<1>7. Tree(s1)
  BY <1>1, <1>4, <1>5 DEF Tree
<1>8. t = [s1 EXCEPT !.focus = Voided(s.focus, ws), !.told = s.told \ (ws \cap {s.focus}),
                    !.again = s.again \cup ((ws \cap {s.focus}) \ s.told),
                    !.mouse = Voided(s.mouse, ws), !.hovered = s.hovered \ (ws \cap {s.mouse}),
                    !.clipboard = Voided(s.clipboard, ws), !.selection = Voided(s.selection, ws),
                    !.attached = s.attached \ ws]
  BY <1>5 DEF DetachWidget
<1>9. ws \cap s.attached = B
  <2>1. \A v \in ws : w \in Above[v]
    BY <1>2, <1>7, SubtreeFacts
  <2>2. B \subseteq ws
    <3>1. B \in SUBSET Widgets
      BY <1>1
    <3>2. ASSUME NEW v \in B, v # w
          PROVE  v # Root /\ Parent[v] \in B /\ v \in Range(s1.children[Parent[v]])
      <4>1. v # Root
        BY <1>2, <3>2, AboveEquation, TreeAssumption
      <4>2. v \in Widgets /\ Parent[v] \in s.attached /\ v \in Range(s.children[Parent[v]])
        BY <1>1, <4>1 DEF Rooted
      <4>3. w \in Above[Parent[v]]
        BY <3>2, <4>1, <4>2, AboveFacts
      <4>4. v \in Range(kids[Parent[v]])
        BY <1>1, <1>4, <3>2, <4>2
      <4>. QED
        BY <1>5, <4>1, <4>2, <4>3, <4>4
    <3>. HIDE DEF B
    <3>. QED
      BY <1>2, <1>7, <3>1, <3>2, LinkedInSubtree
  <2>. QED
    BY <2>1, <2>2
<1>10. w \in B
  BY <1>2, AboveFacts
<1>. HIDE DEF s1, ws
<1>11. \A ref : IF ref \in ws THEN Voided(ref, ws) = NoWidget ELSE Voided(ref, ws) = ref
  BY DEF Voided
<1>. HIDE DEF t
<1>12. t \in Windows(m)
  <2>1. /\ s1.focus \in Focusable \cup {NoWidget}
        /\ {s1.mouse, s1.clipboard, s1.selection} \subseteq Widgets \cup {NoWidget}
        /\ s1.told \subseteq Widgets /\ s1.hovered \subseteq Widgets
        /\ s1.again \subseteq Widgets /\ Focusable \subseteq Widgets /\ NoWidget \notin ws
        /\ s1.attached \subseteq Widgets
    <3>1. ws \subseteq Widgets
      BY <1>2, <1>7, SubtreeFacts DEF ws
    <3>. QED
      BY <1>6, <3>1, TreeAssumption DEF Windows
  <2>2. /\ Voided(s.focus, ws) \in Focusable \cup {NoWidget}
        /\ Voided(s.mouse, ws) \in Widgets \cup {NoWidget}
        /\ Voided(s.clipboard, ws) \in Widgets \cup {NoWidget}
        /\ Voided(s.selection, ws) \in Widgets \cup {NoWidget}
    BY <1>5, <1>11, <2>1
  <2>3. s.told \ (ws \cap {s.focus}) \in SUBSET Widgets
        /\ s.again \cup ((ws \cap {s.focus}) \ s.told) \in SUBSET Widgets
        /\ s.hovered \ (ws \cap {s.mouse}) \in SUBSET Widgets
        /\ s.attached \ ws \in SUBSET Widgets
    BY <1>5, <2>1
  <2>. QED
    BY <1>6, <1>8, <2>2, <2>3 DEF Windows
<1>13. /\ t.children = kids /\ t.attached = s.attached \ B
       /\ t.focus = Voided(s.focus, ws) /\ t.mouse = Voided(s.mouse, ws)
       /\ t.clipboard = Voided(s.clipboard, ws) /\ t.selection = Voided(s.selection, ws)
       /\ t.nullCall = s1.nullCall /\ t.visible = s1.visible /\ t.modalRoot = s1.modalRoot
       /\ t.nonModalFocus = s1.nonModalFocus
  BY <1>5, <1>6, <1>8, <1>9 DEF Windows
<1>14. s1.nullCall = s.nullCall /\ s1.visible = s.visible /\ s1.modalRoot = s.modalRoot
       /\ s1.nonModalFocus = s.nonModalFocus
  BY <1>1 DEF s1, Windows
<1>15. {t.focus, t.mouse, t.clipboard, t.selection} \subseteq t.attached \cup {NoWidget}
  BY <1>9, <1>11, <1>13 DEF Sound
<1>16. Tree(t)
  BY <1>5, <1>7, <1>13 DEF Tree
<1>17. Rooted(t)
  <2>1. ASSUME NEW u \in t.attached, NEW c \in Range(t.children[u]) PROVE c \in t.attached
    <3>1. u \in s.attached /\ u \in Widgets /\ c \in Range(s.children[u]) /\ c # w
      BY <1>1, <1>4, <1>13
    <3>2. c \in s.attached /\ Parent[c] = u
      BY <1>1, <3>1 DEF Rooted, Tree
    <3>3. c \notin ws
      <4>. SUFFICES ASSUME c \in ws PROVE FALSE
        OBVIOUS
      <4>1. Parent[c] \in ws
        BY <1>2, <1>7, <3>1, SubtreeFacts DEF ws
      <4>. QED
        BY <1>9, <1>13, <3>1, <3>2, <4>1
    <3>. QED
      BY <1>9, <1>13, <3>2, <3>3
  <2>2. ASSUME NEW v \in t.attached \ {Root}
        PROVE  Parent[v] \in t.attached /\ v \in Range(t.children[Parent[v]])
    <3>1. /\ v \in s.attached /\ v \in Widgets /\ v # w /\ v \notin ws
          /\ Parent[v] \in s.attached /\ v \in Range(s.children[Parent[v]])
      BY <1>1, <1>9, <1>10, <1>13 DEF Rooted
    <3>2. v \in Range(kids[Parent[v]])
      BY <1>1, <1>4, <3>1
    <3>3. Parent[v] \notin ws
      <4>. SUFFICES ASSUME Parent[v] \in ws PROVE FALSE
        OBVIOUS
      <4>1. Range(s1.children[Parent[v]]) \subseteq ws
        BY <1>2, <1>7, SubtreeFacts DEF ws
      <4>. QED
        BY <1>5, <3>1, <3>2, <4>1
    <3>. QED
      BY <1>9, <1>13, <3>1, <3>2, <3>3
  <2>. QED
    BY <2>1, <2>2 DEF Rooted
<1>18. Sound(t, m)
  BY <1>12, <1>13, <1>14, <1>15, <1>16, <1>17 DEF Sound
<1>19. t.focus = IF s.focus \in B THEN NoWidget ELSE s.focus
  BY <1>9, <1>11, <1>13, TreeAssumption DEF Sound
<1>20. t.attached = {v \in s.attached : w \notin Above[v]}
  BY <1>13
<1>21. s1 = [s EXCEPT !.children[Parent[w]] = RemoveFirst(@, w)]
  BY DEF s1, kids
<1>. QED
  BY <1>13, <1>14, <1>18, <1>19, <1>20, <1>21 DEF t, kids

\* Widget::detach(): a focus that goes with the widget goes to another, if there is one.
LEMMA DetachSound ==
  ASSUME NEW m, NEW s, Sound(s, m), NEW w \in s.attached \ {Root}
  PROVE  LET t == Detach(s, w) IN
         /\ Sound(t, m)
         /\ t.children = [s.children EXCEPT ![Parent[w]] = RemoveFirst(s.children[Parent[w]], w)]
         /\ t.attached = {v \in s.attached : w \notin Above[v]}
         /\ t.visible = s.visible /\ t.modalRoot = s.modalRoot
         /\ t.nonModalFocus = s.nonModalFocus
         /\ s.focus \in t.attached => t.focus = s.focus
         /\ s.focus \notin t.attached => t.focus \in Candidates(t) \cup {NoWidget}
         /\ s.focus \notin t.attached /\ (\E c \in Candidates(t) : Available(t, c, t.modalRoot))
              => t.focus \in Candidates(t)
<1>. DEFINE u == DetachWidget([s EXCEPT !.children[Parent[w]] = RemoveFirst(@, w)], w)
            n == NextKeyboardFocus(u)
            t == Detach(s, w)
<1>1. /\ Sound(u, m)
      /\ u.children = [s.children EXCEPT ![Parent[w]] = RemoveFirst(s.children[Parent[w]], w)]
      /\ u.attached = {v \in s.attached : w \notin Above[v]}
      /\ u.visible = s.visible /\ u.modalRoot = s.modalRoot
      /\ u.nonModalFocus = s.nonModalFocus
      /\ u.focus = IF s.focus \in {v \in s.attached : w \in Above[v]} THEN NoWidget ELSE s.focus
  BY DetachWidgetSound
<1>2. t = IF u.focus = NoWidget THEN SetKeyboardFocus(u, n) ELSE u
  BY DEF Detach, DetachTree
<1>. HIDE DEF u, n
<1>3. s.focus \in u.attached => s.focus # NoWidget /\ u.focus = s.focus
  <2>1. s.attached \subseteq Widgets
    BY DEF Sound, Windows
  <2>. QED
    BY <1>1, <2>1, TreeAssumption
<1>4. s.focus \notin u.attached => u.focus = NoWidget
  BY <1>1 DEF Sound
<1>5. n \in Candidates(u) \cup {NoWidget}
      /\ ((\E c \in Candidates(u) : Available(u, c, u.modalRoot)) => n \in Candidates(u))
  BY <1>1, NextFacts DEF n, Sound, Windows
<1>6. \A c \in Candidates(u) : c \in u.attached \cap Focusable /\ IsDominatedBy(c, u.modalRoot) /\ c # NoWidget
  BY DEF Candidates, IsDominatedBy
<1>7. CASE u.focus # NoWidget
  <2>1. t = u
    BY <1>2, <1>7
  <2>. HIDE DEF t
  <2>2. s.focus \in u.attached
    BY <1>4, <1>7
  <2>. QED
    BY <1>1, <1>3, <2>1, <2>2 DEF t
<1>8. CASE u.focus = NoWidget
  <2>1. t = SetKeyboardFocus(u, n)
    BY <1>2, <1>8
  <2>. HIDE DEF t
  <2>2. /\ Sound(t, m) /\ Refocused(u, t)
        /\ t.focus = IF n # NoWidget /\ IsDominatedBy(n, u.modalRoot) THEN n ELSE u.focus
    BY <1>1, <1>5, <1>6, <1>8, <2>1, SetKeyboardFocusSound
  <2>3. t.focus = n
    BY <1>5, <1>6, <1>8, <2>2
  <2>4. Candidates(t) = Candidates(u) /\ \A c : Available(t, c, t.modalRoot) = Available(u, c, u.modalRoot)
    BY <2>2 DEF Refocused, Candidates, Available
  <2>5. s.focus \notin u.attached
    BY <1>3, <1>8
  <2>. QED
    BY <1>1, <1>5, <2>2, <2>3, <2>4, <2>5 DEF t, Refocused
<1>. QED
  BY <1>7, <1>8

\* Widget::attach(): what is attached with w is below w.
LEMMA AttachSound ==
  ASSUME NEW m, NEW s, Sound(s, m), NEW w \in Widgets \ {Root},
         w \notin s.attached, Parent[w] \in s.attached
  PROVE  LET t == Attach(s, w) IN
         /\ Sound(t, m)
         /\ t.children = [s.children EXCEPT ![Parent[w]] = Append(s.children[Parent[w]], w)]
         /\ s.attached \cup {w} \subseteq t.attached
         /\ \A v \in t.attached \ s.attached : w \in Above[v]
         /\ t.visible = s.visible /\ t.modalRoot = s.modalRoot
         /\ t.nonModalFocus = s.nonModalFocus /\ t.focus = s.focus
<1>. DEFINE p == Parent[w]
            kids == [s.children EXCEPT ![p] = Append(s.children[p], w)]
            s1 == [s EXCEPT !.children = kids]
            ws == Subtree(s1, w)
            t == Attach(s, w)
<1>1. s \in Windows(m) /\ Tree(s) /\ Rooted(s) /\ s.attached \subseteq Widgets /\ p \in Widgets
  BY DEF Sound, Windows
<1>2. w \notin Range(s.children[p])
  BY <1>1 DEF Rooted
<1>3. /\ Append(s.children[p], w) \in Seq(Widgets)
      /\ IsInjective(Append(s.children[p], w))
      /\ Range(Append(s.children[p], w)) = Range(s.children[p]) \cup {w}
  BY <1>1, <1>2, AppendFacts DEF Tree
<1>4. /\ kids \in [Widgets -> Seq(Widgets)]
      /\ \A v \in Widgets : IsInjective(kids[v])
      /\ \A v \in Widgets : Range(kids[v]) = Range(s.children[v]) \cup (IF v = p THEN {w} ELSE {})
  <2>0. s.children \in [Widgets -> Seq(Widgets)] /\ \A v \in Widgets : IsInjective(s.children[v])
    BY <1>1 DEF Tree
  <2>1. /\ kids \in [Widgets -> Seq(Widgets)]
        /\ \A v \in Widgets \ {p} : kids[v] = s.children[v]
        /\ kids[p] = Append(s.children[p], w)
    BY <1>1, <1>3, <2>0
  <2>. HIDE DEF kids, p
  <2>2. ASSUME NEW v \in Widgets
        PROVE  /\ IsInjective(kids[v])
               /\ Range(kids[v]) = Range(s.children[v]) \cup (IF v = p THEN {w} ELSE {})
    <3>1. CASE v = p
      BY <1>3, <2>1, <3>1
    <3>2. CASE v # p
      <4>1. v \in Widgets \ {p}
        BY <3>2
      <4>2. kids[v] = s.children[v]
        BY <2>1, <4>1
      <4>. QED
        BY <2>0, <3>2, <4>2
    <3>. QED
      BY <3>1, <3>2
  <2>. QED
    BY <2>1, <2>2
<1>. HIDE DEF kids
<1>5. /\ s1.children = kids /\ s1.attached = s.attached
      /\ s1.focus = s.focus /\ s1.mouse = s.mouse /\ s1.clipboard = s.clipboard
      /\ s1.selection = s.selection /\ s1.nullCall = s.nullCall
      /\ s1.visible = s.visible /\ s1.modalRoot = s.modalRoot
      /\ s1.nonModalFocus = s.nonModalFocus
  BY <1>1 DEF Windows
<1>6. s1 \in Windows(m)
  BY <1>1, <1>4 DEF Windows
<1>7. Tree(s1)
  BY <1>1, <1>4, <1>5 DEF Tree
<1>8. \A v \in ws : v \in Widgets /\ w \in Above[v]
  BY <1>7, SubtreeFacts
<1>9. w \in ws
  BY <1>7, SubtreeEquation
<1>10. t = [s1 EXCEPT !.attached = s.attached \cup ws, !.again = s.again \ ws]
  <2>1. s1.again = s.again
    BY <1>1 DEF Windows
  <2>. QED
    BY <1>5, <2>1 DEF Attach, kids
<1>11. \A v \in ws : /\ Range(s1.children[v]) \subseteq ws
                     /\ v # w => Parent[v] \in ws /\ v \in Range(s1.children[Parent[v]])
  BY <1>7, SubtreeFacts
<1>. HIDE DEF s1, ws, t
<1>12. t \in Windows(m)
  <2>1. s.attached \cup ws \in SUBSET Widgets /\ s.again \ ws \in SUBSET Widgets
    BY <1>1, <1>8 DEF Windows
  <2>. QED
    BY <1>6, <1>10, <2>1 DEF Windows
<1>13. /\ t.children = kids /\ t.attached = s.attached \cup ws
       /\ t.focus = s.focus /\ t.mouse = s.mouse /\ t.clipboard = s.clipboard
       /\ t.selection = s.selection /\ t.nullCall = s.nullCall
       /\ t.visible = s.visible /\ t.modalRoot = s.modalRoot
       /\ t.nonModalFocus = s.nonModalFocus
  BY <1>5, <1>6, <1>10 DEF Windows
<1>14. Tree(t)
  BY <1>5, <1>7, <1>13 DEF Tree
<1>15. Rooted(t)
  <2>1. ASSUME NEW u \in t.attached, NEW c \in Range(t.children[u]) PROVE c \in t.attached
    <3>1. CASE u \in ws
      BY <1>5, <1>11, <1>13, <3>1
    <3>2. CASE u \in s.attached
      <4>1. c \in Range(s.children[u]) \cup {w}
        BY <1>1, <1>4, <1>13, <3>2
      <4>. QED
        BY <1>1, <1>9, <1>13, <3>2, <4>1 DEF Rooted
    <3>. QED
      BY <1>13, <3>1, <3>2
  <2>2. ASSUME NEW v \in t.attached \ {Root}
        PROVE  Parent[v] \in t.attached /\ v \in Range(t.children[Parent[v]])
    <3>1. CASE v = w
      <4>1. w \in Range(kids[p]) /\ p \in s.attached
        BY <1>1, <1>4
      <4>. QED
        BY <1>13, <3>1, <4>1
    <3>2. CASE v \in ws /\ v # w
      BY <1>5, <1>11, <1>13, <3>2
    <3>3. CASE v \in s.attached
      <4>1. Parent[v] \in s.attached /\ v \in Range(s.children[Parent[v]])
        BY <1>1, <3>3 DEF Rooted
      <4>2. v \in Range(kids[Parent[v]])
        BY <1>1, <1>4, <4>1
      <4>. QED
        BY <1>13, <4>1, <4>2
    <3>. QED
      BY <1>13, <3>1, <3>2, <3>3
  <2>. QED
    BY <2>1, <2>2 DEF Rooted
<1>16. Sound(t, m)
  BY <1>12, <1>13, <1>14, <1>15 DEF Sound
<1>17. \A v \in t.attached \ s.attached : w \in Above[v]
  BY <1>8, <1>13
<1>. QED
  BY <1>9, <1>13, <1>16, <1>17 DEF t, kids

\* setRoot(nullptr) leaves nothing attached, and no reference to anything.
LEMMA ClearRootSound ==
  ASSUME NEW m, NEW s, Sound(s, m)
  PROVE  LET t == ClearRoot(s) IN
         Sound(t, m) /\ t.attached = {} /\ t.focus = NoWidget /\ t.modalRoot = NoWidget
<1>. DEFINE ws == Subtree(s, Root)
            u == DetachWidget(s, Root)
            t == ClearRoot(s)
<1>1. s \in Windows(m) /\ Tree(s) /\ Rooted(s) /\ s.attached \subseteq Widgets
  BY DEF Sound, Windows
<1>2. s.attached \subseteq ws
  <2>1. Root \in Widgets /\ \A v \in s.attached : Root \in Above[v]
    BY <1>1, AboveFacts, TreeAssumption
  <2>. QED
    BY <1>1, <2>1, RootedBelow
<1>3. u = [s EXCEPT !.focus = Voided(s.focus, ws), !.told = s.told \ (ws \cap {s.focus}),
                    !.again = s.again \cup ((ws \cap {s.focus}) \ s.told),
                    !.mouse = Voided(s.mouse, ws), !.hovered = s.hovered \ (ws \cap {s.mouse}),
                    !.clipboard = Voided(s.clipboard, ws), !.selection = Voided(s.selection, ws),
                    !.attached = s.attached \ ws]
  BY DEF DetachWidget
<1>. HIDE DEF ws
<1>4. \A ref \in s.attached \cup {NoWidget} : Voided(ref, ws) = NoWidget
  BY <1>2 DEF Voided
<1>5. u = [s EXCEPT !.focus = NoWidget, !.told = s.told \ (ws \cap {s.focus}),
                    !.again = s.again \cup ((ws \cap {s.focus}) \ s.told),
                    !.mouse = NoWidget, !.hovered = s.hovered \ (ws \cap {s.mouse}),
                    !.clipboard = NoWidget, !.selection = NoWidget, !.attached = {}]
  <2>1. s.attached \ ws = {}
    BY <1>2
  <2>2. /\ Voided(s.focus, ws) = NoWidget /\ Voided(s.mouse, ws) = NoWidget
        /\ Voided(s.clipboard, ws) = NoWidget /\ Voided(s.selection, ws) = NoWidget
    BY <1>4 DEF Sound
  <2>. QED
    BY <1>3, <2>1, <2>2
<1>6. t = [u EXCEPT !.modalRoot = NoWidget]
  BY DEF ClearRoot
<1>. HIDE DEF t, u
<1>7. u \in Windows(m)
  <2>1. s.told \ (ws \cap {s.focus}) \in SUBSET Widgets
        /\ s.hovered \ (ws \cap {s.mouse}) \in SUBSET Widgets
    BY <1>1 DEF Windows
  <2>2. s.again \cup ((ws \cap {s.focus}) \ s.told) \in SUBSET Widgets
    <3>1. s.again \in SUBSET Widgets /\ s.focus \in s.attached \cup {NoWidget}
      BY <1>1 DEF Sound, Windows
    <3>2. NoWidget \notin ws
      <4>1. ws \subseteq Widgets
        BY <1>1, SubtreeFacts, TreeAssumption DEF ws
      <4>. QED
        BY <4>1, TreeAssumption
    <3>. QED
      BY <1>1, <3>1, <3>2
  <2>. QED
    BY <1>1, <1>5, <2>1, <2>2 DEF Windows
<1>8. t \in Windows(m)
  BY <1>6, <1>7 DEF Windows
<1>9. /\ t.children = u.children /\ t.focus = u.focus /\ t.mouse = u.mouse /\ t.attached = u.attached
      /\ t.clipboard = u.clipboard /\ t.selection = u.selection /\ t.nullCall = u.nullCall
      /\ t.modalRoot = NoWidget
  BY <1>6, <1>7 DEF Windows
<1>10. /\ u.children = s.children /\ u.focus = NoWidget /\ u.mouse = NoWidget /\ u.attached = {}
       /\ u.clipboard = NoWidget /\ u.selection = NoWidget /\ u.nullCall = s.nullCall
  BY <1>1, <1>5 DEF Windows
<1>. QED
  BY <1>1, <1>8, <1>9, <1>10 DEF Sound, Tree, Rooted, t

-----------------------------------------------------------------------------
(* The window, its pane and its dialogs *)

\* A window that has not been closed.
Alive(s) ==
  /\ Sound(s, MaxMouse)
  /\ {Root, Pager, Pane} \subseteq s.attached
  /\ \A d \in Dialogs : s.children[d] = Buttons[d]
  /\ Range(s.children[Pane]) \subseteq Dialogs

Plain(s) == s.modalRoot = Root /\ s.children[Pane] = << >> /\ s.visible = Widgets \ {Pane}

Modal(s) == /\ s.modalRoot = Pane /\ s.children[Pane] # << >> /\ s.visible = Widgets
            /\ s.nonModalFocus \in s.attached /\ Pane \notin Above[s.nonModalFocus]

\* A window with its session.
Shown(s) == /\ Alive(s)
            /\ Term \in s.attached
            /\ Plain(s) \/ Modal(s)
            /\ s.focus # NoWidget /\ IsDominatedBy(s.focus, s.modalRoot)

\* Where the parts of the window are in its tree.
LEMMA WindowFacts ==
  /\ {Root, Pager, Term, Pane} \cup Dialogs \subseteq Widgets
  /\ Root \notin {Pager, Term, Pane} \cup Dialogs /\ Pane \notin {Pager, Term} \cup Dialogs
  /\ Term \notin Dialogs /\ Pager \notin Dialogs
  /\ Above[Root] = {Root} /\ Above[Pane] = {Pane, Root} /\ Above[Pager] = {Pager, Root}
  /\ Above[Term] = {Term, Pager, Root}
  /\ \A d \in Dialogs : /\ Above[d] = {d, Pane, Root}
                        /\ \A b \in Range(Buttons[d]) : b \in Focusable /\ Parent[b] = d
  /\ PasteDialog # AboutBox /\ PasteDialog # OtherDialog
<1>1. /\ {Root, Pager, Term, Pane} \cup Dialogs \subseteq Widgets
      /\ Root \notin {Pager, Term, Pane} \cup Dialogs /\ Pane \notin {Pager, Term} \cup Dialogs
      /\ Term \notin Dialogs /\ Pager \notin Dialogs
  BY TreeAssumption, WindowAssumption
<1>2. Above[Root] = {Root}
  BY <1>1, AboveEquation, TreeAssumption
<1>3. Above[Pane] = {Pane, Root} /\ Above[Pager] = {Pager, Root}
  BY <1>1, <1>2, AboveEquation, TreeAssumption, WindowAssumption
<1>4. Above[Term] = {Term, Pager, Root}
  BY <1>1, <1>3, AboveEquation, TreeAssumption, WindowAssumption
<1>5. ASSUME NEW d \in Dialogs
      PROVE  /\ Above[d] = {d, Pane, Root}
             /\ \A b \in Range(Buttons[d]) : b \in Focusable /\ Parent[b] = d
  <2>1. Above[d] = {d, Pane, Root}
    BY <1>1, <1>3, AboveEquation, TreeAssumption, WindowAssumption
  <2>2. Buttons[d] \in Seq(Focusable)
    BY WindowAssumption
  <2>3. \A b \in Range(Buttons[d]) : b \in Focusable
    BY <2>2 DEF Range
  <2>. QED
    BY <2>1, <2>3, WindowAssumption
<1>6. PasteDialog # AboutBox /\ PasteDialog # OtherDialog
  <2>. SUFFICES ASSUME PasteDialog = AboutBox \/ PasteDialog = OtherDialog PROVE FALSE
    OBVIOUS
  <2>1. Cardinality(Dialogs) = 3
    BY WindowAssumption
  <2>2. PICK a : \E b : Dialogs = {a} \cup {b}
    BY DEF Dialogs
  <2>3. PICK b : Dialogs = {a} \cup {b}
    BY <2>2
  <2>4. IsFiniteSet({a}) /\ Cardinality({a}) = 1
    BY FS_Singleton
  <2>5. Cardinality({a} \cup {b}) \in {1, 2}
    BY <2>4, FS_AddElement
  <2>. QED
    BY <2>1, <2>3, <2>5
<1>. QED
  BY <1>1, <1>2, <1>3, <1>4, <1>5, <1>6

\* While no dialog is shown, nothing of the window but the pane itself is in the pane.
LEMMA NothingInPane ==
  ASSUME NEW s, Alive(s), s.children[Pane] = << >>, NEW w \in s.attached, Pane \in Above[w]
  PROVE  w = Pane
<1>1. s.attached \subseteq Widgets /\ Tree(s) /\ Rooted(s)
  BY DEF Alive, Sound, Windows
<1>2. w \in Subtree(s, Pane)
  BY <1>1, WindowFacts, RootedBelow
<1>3. Range(s.children[Pane]) = {}
  BY DEF Range
<1>4. Subtree(s, Pane) = {Pane}
  BY <1>1, <1>3, WindowFacts, SubtreeEquation
<1>. QED
  BY <1>2, <1>4

\* What has the focus of a window without dialogs is not in the pane.
LEMMA PlainFocus ==
  ASSUME NEW s, Shown(s), Plain(s)
  PROVE  s.focus \in s.attached /\ s.focus \in Focusable /\ Pane \notin Above[s.focus]
<1>1. s.focus \in s.attached /\ s.focus \in Focusable
  BY DEF Shown, Alive, Sound, Windows
<1>2. s.focus # Pane
  BY <1>1, WindowAssumption
<1>. QED
  BY <1>1, <1>2, NothingInPane DEF Shown, Plain

\* There is always something that may have the focus.
LEMMA SomethingToFocus ==
  ASSUME NEW s, Alive(s),
         \/ Plain(s)
         \/ s.modalRoot = Pane /\ s.children[Pane] # << >> /\ s.visible = Widgets
  PROVE  \E c \in Candidates(s) : Available(s, c, s.modalRoot)
<1>1. s.attached \subseteq Widgets /\ Tree(s) /\ Rooted(s) /\ {Root, Pager, Pane} \subseteq s.attached
  BY DEF Alive, Sound, Windows
<1>2. CASE Plain(s)
  <2>1. Root \in Candidates(s)
    BY <1>1, <1>2, WindowFacts, WindowAssumption, TreeAssumption DEF Candidates, IsDominatedBy, Plain
  <2>2. Available(s, Root, s.modalRoot)
    BY <1>2, WindowFacts DEF Available, Plain
  <2>. QED
    BY <2>1, <2>2
<1>3. CASE s.modalRoot = Pane /\ s.children[Pane] # << >> /\ s.visible = Widgets
  <2>1. s.children[Pane] \in Seq(Widgets)
    BY <1>1, WindowFacts DEF Tree
  <2>2. PICK d : d \in Range(s.children[Pane])
    BY <1>3, <2>1, RangeNotEmpty
  <2>3. d \in Dialogs /\ d \in s.attached /\ s.children[d] = Buttons[d]
    BY <1>1, <2>2 DEF Alive, Rooted
  <2>4. PICK b : b \in Range(Buttons[d])
    <3>1. Buttons[d] # << >> /\ Buttons[d] \in Seq(Focusable)
      BY <2>3, WindowAssumption
    <3>. QED
      BY <3>1, RangeNotEmpty
  <2>5. b \in s.attached /\ b \in Focusable /\ Parent[b] = d
    BY <1>1, <2>3, <2>4, WindowFacts DEF Rooted
  <2>6. b \in Widgets /\ b # Root /\ b # NoWidget
    BY <1>1, <2>3, <2>5, WindowFacts, TreeAssumption
  <2>7. Above[b] = {b} \cup Above[d]
    BY <2>5, <2>6, AboveFacts
  <2>8. Pane \in Above[b] /\ Above[b] \subseteq Widgets
    BY <2>3, <2>6, <2>7, WindowFacts, AboveFacts
  <2>9. b \in Candidates(s)
    BY <1>3, <2>5, <2>6, <2>8 DEF Candidates, IsDominatedBy
  <2>10. Available(s, b, s.modalRoot)
    BY <1>3, <2>8 DEF Available
  <2>. QED
    BY <2>9, <2>10
<1>. QED
  BY <1>2, <1>3

\* setKeyboardFocus() in an open window, whether the modal root allows it or not.
LEMMA SetKeyboardFocusShown ==
  ASSUME NEW s, Shown(s), NEW w \in s.attached \cap Focusable
  PROVE  /\ Shown(SetKeyboardFocus(s, w)) /\ Refocused(s, SetKeyboardFocus(s, w))
<1>. DEFINE t == SetKeyboardFocus(s, w)
<1>1. /\ Sound(t, MaxMouse) /\ Refocused(s, t)
      /\ t.focus = IF w # NoWidget /\ IsDominatedBy(w, s.modalRoot) THEN w ELSE s.focus
  BY SetKeyboardFocusSound DEF Shown, Alive
<1>. HIDE DEF t
<1>2. Alive(t)
  BY <1>1 DEF Shown, Alive, Refocused
<1>3. Plain(t) \/ Modal(t)
  BY <1>1 DEF Shown, Refocused, Plain, Modal
<1>4. t.focus # NoWidget /\ IsDominatedBy(t.focus, t.modalRoot) /\ Term \in t.attached
  BY <1>1 DEF Shown, Refocused
<1>. QED
  BY <1>1, <1>2, <1>3, <1>4 DEF Shown, t

\* Leaving the root for the pane: the focus is saved, and something in a dialog gets it.
LEMMA SetModalRootShown ==
  ASSUME NEW s, Alive(s), Term \in s.attached, s.modalRoot = Root, s.visible = Widgets,
         s.children[Pane] # << >>, s.focus \in s.attached, Pane \notin Above[s.focus]
  PROVE  LET t == SetModalRoot(s, Pane) IN
         Shown(t) /\ Modal(t) /\ t.children = s.children /\ t.nonModalFocus = s.focus
<1>. DEFINE u == [[s EXCEPT !.modalRoot = Pane] EXCEPT !.nonModalFocus = s.focus]
            n == NextKeyboardFocus(u)
            t == SetModalRoot(s, Pane)
<1>1. s \in Windows(MaxMouse) /\ Pane \in Widgets /\ Pane # Root /\ s.focus \in Focusable
  BY WindowFacts, TreeAssumption DEF Alive, Sound, Windows
<1>2. t = SetKeyboardFocus(u, n)
  BY <1>1 DEF SetModalRoot
<1>. HIDE DEF t, n
<1>3. u \in Windows(MaxMouse)
  <2>. DEFINE v == [s EXCEPT !.modalRoot = Pane]
  <2>1. v \in Windows(MaxMouse)
    BY ONLY <1>1, ReferenceSet
  <2>2. u = [v EXCEPT !.nonModalFocus = s.focus]
    OBVIOUS
  <2>. HIDE DEF v
  <2>3. [v EXCEPT !.nonModalFocus = s.focus] \in Windows(MaxMouse)
    BY ONLY <1>1, <2>1, SavedFocusSet
  <2>. HIDE DEF u
  <2>. QED
    BY <2>2, <2>3
<1>4. /\ u.children = s.children /\ u.attached = s.attached /\ u.visible = s.visible
      /\ u.focus = s.focus /\ u.mouse = s.mouse /\ u.clipboard = s.clipboard
      /\ u.selection = s.selection /\ u.nullCall = s.nullCall
      /\ u.modalRoot = Pane /\ u.nonModalFocus = s.focus
  BY <1>1 DEF Windows
<1>. HIDE DEF u
<1>5. Sound(u, MaxMouse)
  BY <1>3, <1>4 DEF Alive, Sound, Tree, Rooted
<1>6. Alive(u)
  BY <1>4, <1>5 DEF Alive
<1>7. n \in Candidates(u)
  BY <1>4, <1>5, <1>6, SomethingToFocus, NextFacts DEF n, Sound, Windows
<1>8. n \in u.attached \cap Focusable /\ n # NoWidget /\ IsDominatedBy(n, Pane)
  BY <1>4, <1>7 DEF Candidates, IsDominatedBy
<1>9. Sound(t, MaxMouse) /\ Refocused(u, t) /\ t.focus = n
  BY <1>2, <1>4, <1>5, <1>8, SetKeyboardFocusSound
<1>10. Alive(t) /\ Modal(t)
  BY <1>4, <1>6, <1>9 DEF Alive, Modal, Refocused
<1>. QED
  BY <1>4, <1>8, <1>9, <1>10 DEF t, Shown, Refocused

\* ModalPane::attach() of a dialog that is not shown.
LEMMA AttachModalShown ==
  ASSUME NEW s, Shown(s), NEW d \in Dialogs, d \notin s.attached
  PROVE  LET t == AttachModal(s, Pane, d) IN
         /\ Shown(t) /\ Modal(t)
         /\ Range(t.children[Pane]) = Range(s.children[Pane]) \cup {d}
         /\ t.nonModalFocus = IF s.modalRoot = Pane THEN s.nonModalFocus ELSE s.focus
<1>. DEFINE u == Attach(s, d)
            v == [u EXCEPT !.visible = u.visible \cup {Pane}]
            t == AttachModal(s, Pane, d)
<1>1. Alive(s) /\ Sound(s, MaxMouse) /\ d \in Widgets \ {Root} /\ Parent[d] = Pane /\ Pane \in s.attached
  BY WindowFacts, WindowAssumption DEF Shown, Alive
<1>2. /\ Sound(u, MaxMouse)
      /\ u.children = [s.children EXCEPT ![Pane] = Append(s.children[Pane], d)]
      /\ s.attached \cup {d} \subseteq u.attached
      /\ u.visible = s.visible /\ u.modalRoot = s.modalRoot
      /\ u.nonModalFocus = s.nonModalFocus /\ u.focus = s.focus
  BY <1>1, AttachSound
<1>3. t = IF u.modalRoot = Pane THEN u ELSE SetModalRoot(v, Pane)
  BY DEF AttachModal
<1>. HIDE DEF t, u
<1>4. s.children \in [Widgets -> Seq(Widgets)] /\ IsInjective(s.children[Pane])
      /\ d \notin Range(s.children[Pane]) /\ Pane \in Widgets
  BY <1>1, WindowFacts DEF Sound, Tree, Rooted
<1>5. /\ u.children[Pane] = Append(s.children[Pane], d)
      /\ \A w \in Widgets \ {Pane} : u.children[w] = s.children[w]
  BY <1>2, <1>4
<1>6. Range(u.children[Pane]) = Range(s.children[Pane]) \cup {d} /\ u.children[Pane] # << >>
  BY <1>1, <1>4, <1>5, AppendFacts
<1>7. Alive(u)
  BY <1>1, <1>2, <1>5, <1>6, WindowFacts DEF Alive
<1>8. CASE Modal(s)
  <2>1. t = u
    BY <1>2, <1>3, <1>8 DEF Modal
  <2>2. Modal(u)
    BY <1>2, <1>6, <1>8 DEF Modal
  <2>3. Shown(u)
    BY <1>2, <1>7, <2>2 DEF Shown
  <2>. QED
    BY <1>2, <1>6, <1>8, <2>1, <2>2, <2>3 DEF t, Modal
<1>9. CASE Plain(s)
  <2>1. s.modalRoot = Root /\ Root # Pane
    BY <1>9, WindowFacts DEF Plain
  <2>2. t = SetModalRoot(v, Pane)
    BY <1>2, <1>3, <2>1
  <2>3. s.focus \in s.attached /\ Pane \notin Above[s.focus]
    BY <1>9, PlainFocus
  <2>4. u \in Windows(MaxMouse)
    BY <1>2 DEF Sound
  <2>5. v \in Windows(MaxMouse)
    BY <1>4, <2>4 DEF Windows
  <2>6. /\ v.children = u.children /\ v.attached = u.attached /\ v.visible = u.visible \cup {Pane}
        /\ v.focus = u.focus /\ v.mouse = u.mouse /\ v.clipboard = u.clipboard
        /\ v.selection = u.selection /\ v.nullCall = u.nullCall
        /\ v.modalRoot = u.modalRoot
    BY <2>4 DEF Windows
  <2>. HIDE DEF v
  <2>7. Alive(v)
    BY <1>7, <2>5, <2>6 DEF Alive, Sound, Tree, Rooted
  <2>8. v.visible = Widgets
    BY <1>2, <1>4, <1>9, <2>6 DEF Plain
  <2>9. Term \in v.attached /\ v.focus \in v.attached /\ Pane \notin Above[v.focus]
    BY <1>2, <2>3, <2>6 DEF Shown
  <2>10. Shown(t) /\ Modal(t) /\ t.children = v.children /\ t.nonModalFocus = v.focus
    BY <1>2, <1>6, <2>1, <2>2, <2>6, <2>7, <2>8, <2>9, SetModalRootShown
  <2>. QED
    BY <1>2, <1>6, <2>1, <2>6, <2>10 DEF t
<1>. QED
  BY <1>8, <1>9 DEF Shown

\* ModalPane::detach() of a dialog that is shown.
LEMMA DetachModalShown ==
  ASSUME NEW s, Shown(s), NEW d \in Range(s.children[Pane])
  PROVE  LET t == DetachModal(s, Pane, d) IN
         /\ Shown(t) /\ Modal(s)
         /\ Range(t.children[Pane]) = Range(s.children[Pane]) \ {d}
         /\ t.nonModalFocus = s.nonModalFocus
         /\ d \notin t.attached
         /\ Plain(t) => t.focus = s.nonModalFocus
<1>. DEFINE u == Detach(s, d)
            v == [u EXCEPT !.modalRoot = Root]
            x == SetKeyboardFocus(v, u.nonModalFocus)
            t == DetachModal(s, Pane, d)
<1>1. Alive(s) /\ Sound(s, MaxMouse) /\ d \in Dialogs /\ Pane \in s.attached /\ Pane \in Widgets
  BY WindowFacts DEF Shown, Alive
<1>2. d \in s.attached \ {Root} /\ d \in Widgets /\ Parent[d] = Pane
  BY <1>1, WindowFacts, WindowAssumption DEF Sound, Rooted
<1>3. Modal(s)
  <2>1. s.children[Pane] # << >>
    BY DEF Range
  <2>. QED
    BY <2>1 DEF Shown, Plain
<1>4. /\ Sound(u, MaxMouse)
      /\ u.children = [s.children EXCEPT ![Pane] = RemoveFirst(s.children[Pane], d)]
      /\ u.attached = {w \in s.attached : d \notin Above[w]}
      /\ u.visible = s.visible /\ u.modalRoot = s.modalRoot
      /\ u.nonModalFocus = s.nonModalFocus
      /\ s.focus \in u.attached => u.focus = s.focus
      /\ s.focus \notin u.attached => u.focus \in Candidates(u) \cup {NoWidget}
      /\ s.focus \notin u.attached /\ (\E c \in Candidates(u) : Available(u, c, u.modalRoot))
           => u.focus \in Candidates(u)
  BY <1>1, <1>2, DetachSound
<1>5. t = IF u.children[Pane] # << >> THEN u ELSE [SetModalRoot(u, Root) EXCEPT !.visible = @ \ {Pane}]
  BY DEF DetachModal
<1>. HIDE DEF t, u
<1>6. s.children \in [Widgets -> Seq(Widgets)] /\ IsInjective(s.children[Pane])
  BY <1>1, WindowFacts DEF Sound, Tree
<1>7. /\ u.children[Pane] = RemoveFirst(s.children[Pane], d)
      /\ \A w \in Widgets \ {Pane} : u.children[w] = s.children[w]
  BY <1>1, <1>4, <1>6
<1>8. Range(u.children[Pane]) = Range(s.children[Pane]) \ {d}
  BY <1>1, <1>6, <1>7, RemoveFirstFacts
<1>9. {Root, Pager, Pane, Term} \subseteq u.attached /\ d \notin u.attached
  BY <1>1, <1>2, <1>4, WindowFacts DEF Shown, Alive
<1>10. Alive(u)
  BY <1>1, <1>4, <1>7, <1>8, <1>9, WindowFacts DEF Alive
<1>11. s.nonModalFocus \in u.attached /\ Pane \notin Above[s.nonModalFocus]
  <2>1. s.nonModalFocus \in s.attached /\ s.nonModalFocus \in Widgets
    BY <1>1, <1>3 DEF Modal, Sound, Windows
  <2>2. Pane \notin Above[s.nonModalFocus]
    BY <1>3 DEF Modal
  <2>3. d \notin Above[s.nonModalFocus]
    BY <1>1, <2>1, <2>2, WindowFacts, AboveFacts
  <2>. QED
    BY <1>4, <2>1, <2>2, <2>3
<1>12. CASE u.children[Pane] # << >>
  <2>1. t = u
    BY <1>5, <1>12
  <2>2. Modal(u)
    BY <1>3, <1>4, <1>11, <1>12 DEF Modal
  <2>3. u.focus # NoWidget /\ IsDominatedBy(u.focus, u.modalRoot)
    <3>1. CASE s.focus \in u.attached
      BY <1>4, <3>1 DEF Shown
    <3>2. CASE s.focus \notin u.attached
      <4>1. u.focus \in Candidates(u)
        BY <1>4, <1>10, <2>2, <3>2, SomethingToFocus DEF Modal
      <4>. QED
        BY <4>1 DEF Candidates, IsDominatedBy
    <3>. QED
      BY <3>1, <3>2
  <2>4. Shown(u) /\ ~ Plain(u)
    BY <1>9, <1>10, <1>12, <2>2, <2>3 DEF Shown, Plain
  <2>. QED
    BY <1>3, <1>4, <1>8, <1>9, <2>1, <2>4 DEF t
<1>13. CASE u.children[Pane] = << >>
  <2>1. u \in Windows(MaxMouse) /\ u.modalRoot = Pane /\ Pane # Root /\ u.visible = Widgets
    BY <1>3, <1>4, WindowFacts DEF Modal, Sound
  <2>2. u.nonModalFocus \in u.attached \cap Focusable /\ u.nonModalFocus \in Widgets
        /\ u.nonModalFocus # NoWidget
    BY <1>4, <1>11, <2>1, TreeAssumption DEF Windows
  <2>3. SetModalRoot(u, Root) = x
    BY <2>1, <2>2 DEF SetModalRoot
  <2>4. t = [x EXCEPT !.visible = @ \ {Pane}]
    BY <1>5, <1>13, <2>3
  <2>5. v \in Windows(MaxMouse)
    <3>1. Root \in Widgets \cup {NoWidget}
      BY TreeAssumption
    <3>. QED
      BY <2>1, <3>1, ReferenceSet DEF v
  <2>6. /\ v.children = u.children /\ v.attached = u.attached /\ v.visible = u.visible
        /\ v.focus = u.focus /\ v.mouse = u.mouse /\ v.clipboard = u.clipboard
        /\ v.selection = u.selection /\ v.nullCall = u.nullCall
        /\ v.modalRoot = Root /\ v.nonModalFocus = u.nonModalFocus
    BY <2>1 DEF Windows
  <2>. HIDE DEF v
  <2>7. Sound(v, MaxMouse)
    BY <1>4, <2>5, <2>6 DEF Sound, Tree, Rooted
  <2>8. IsDominatedBy(u.nonModalFocus, Root)
    BY <2>2, AboveFacts DEF IsDominatedBy
  <2>9. Sound(x, MaxMouse) /\ Refocused(v, x) /\ x.focus = u.nonModalFocus
    BY <2>2, <2>6, <2>7, <2>8, SetKeyboardFocusSound
  <2>. HIDE DEF x
  <2>10. x \in Windows(MaxMouse)
    BY <2>9 DEF Sound
  <2>11. t \in Windows(MaxMouse)
    BY <2>4, <2>10 DEF Windows
  <2>12. /\ t.children = x.children /\ t.attached = x.attached /\ t.visible = x.visible \ {Pane}
         /\ t.focus = x.focus /\ t.mouse = x.mouse /\ t.clipboard = x.clipboard
         /\ t.selection = x.selection /\ t.nullCall = x.nullCall
         /\ t.modalRoot = x.modalRoot /\ t.nonModalFocus = x.nonModalFocus
    BY <2>4, <2>10 DEF Windows
  <2>13. Sound(t, MaxMouse)
    BY <2>9, <2>11, <2>12 DEF Sound, Tree, Rooted
  <2>14. /\ t.children = u.children /\ t.attached = u.attached /\ t.visible = Widgets \ {Pane}
         /\ t.focus = s.nonModalFocus /\ t.modalRoot = Root /\ t.nonModalFocus = s.nonModalFocus
    BY <1>4, <2>1, <2>6, <2>9, <2>12 DEF Refocused
  <2>15. Alive(t) /\ Plain(t)
    BY <1>10, <1>13, <2>13, <2>14 DEF Alive, Plain
  <2>16. t.focus # NoWidget /\ IsDominatedBy(t.focus, t.modalRoot)
    BY <1>4, <2>2, <2>8, <2>14
  <2>17. Shown(t)
    BY <1>9, <2>14, <2>15, <2>16 DEF Shown
  <2>. QED
    BY <1>3, <1>8, <1>9, <2>14, <2>17 DEF t
<1>. QED
  BY <1>12, <1>13

\* The inductive invariant. Before its session is there the window has no terminal
\* and no focus; while it is open it is Shown, the paste dialog is in the pane
\* exactly while a paste is pending, and the renderer remembers the focus from
\* before the first dialog; once it is closed nothing is left in it but the tree.
WindowInv ==
  /\ session \in {"none", "created", "running", "ended", "closed"}
  /\ session \in {"none", "created"} =>
       Alive(r) /\ Plain(r) /\ r.focus = NoWidget /\ Term \notin r.attached /\ ~ pasting
  /\ Open => /\ Shown(r)
             /\ pasting <=> PasteDialog \in Range(r.children[Pane])
             /\ Modal(r) => r.nonModalFocus = before
  /\ session = "closed" => Sound(r, MaxMouse) /\ r.focus = NoWidget /\ r.modalRoot = NoWidget

\* What a step of an open window keeps, and what it says of the focus when the
\* window was modal and is not any more.
StaysOpen(t) ==
  /\ Shown(t)
  /\ Range(t.children[Pane]) = Range(r.children[Pane])
  /\ Modal(t) => t.nonModalFocus = before
  /\ Modal(r) => ~ Plain(t)

\* An open window is modal, or its modal root is the root.
LEMMA ModalOrPlain ==
  ASSUME NEW s, Shown(s)
  PROVE  /\ s.modalRoot \notin {Root, NoWidget} <=> Modal(s)
         /\ s.modalRoot = Root <=> Plain(s)
BY WindowFacts, TreeAssumption DEF Shown, Plain, Modal

\* Steps that leave the tree, the focus and the modal root alone.
LEMMA MinorStep ==
  ASSUME WindowInv, Open, NEW t \in Windows(MaxMouse), Refocused(r, t),
         t.focus = r.focus, ~ t.nullCall,
         {t.mouse, t.clipboard, t.selection} \subseteq r.attached \cup {NoWidget}
  PROVE  StaysOpen(t)
<1>1. Shown(r) /\ Alive(r) /\ Sound(r, MaxMouse) /\ (Modal(r) => r.nonModalFocus = before)
  BY DEF WindowInv, Shown, Alive
<1>2. Sound(t, MaxMouse)
  BY <1>1 DEF Sound, Tree, Rooted, Refocused
<1>3. Alive(t)
  BY <1>1, <1>2 DEF Alive, Refocused
<1>4. (Plain(t) <=> Plain(r)) /\ (Modal(t) <=> Modal(r))
  BY DEF Plain, Modal, Refocused
<1>5. Shown(t)
  BY <1>1, <1>3, <1>4 DEF Shown, Refocused
<1>6. Modal(r) => ~ Plain(r)
  BY DEF Modal, Plain
<1>. QED
  BY <1>1, <1>4, <1>5, <1>6 DEF StaysOpen, Refocused

\* updateMouseFocus() touches only the mouse ...
LEMMA MouseMinor ==
  ASSUME NEW s, Sound(s, MaxMouse), NEW target \in s.attached
  PROVE  LET t == UpdateMouseFocus(s, target) IN
         /\ t \in Windows(MaxMouse) /\ Refocused(s, t) /\ t.focus = s.focus /\ ~ t.nullCall
         /\ {t.mouse, t.clipboard, t.selection} \subseteq s.attached \cup {NoWidget}
         /\ t.buttons = s.buttons /\ t.mouse \in {s.mouse, target}
<1>. DEFINE t == UpdateMouseFocus(s, target)
<1>1. s \in Windows(MaxMouse) /\ target \in Widgets
  BY DEF Sound, Windows
<1>2. CASE t = s
  <2>. HIDE DEF t
  <2>. QED
    BY <1>1, <1>2 DEF Sound, Refocused, t
<1>3. CASE t # s
  <2>1. t = [s EXCEPT !.mouse = target, !.hovered = (s.hovered \ {s.mouse}) \cup {target},
                      !.again = s.again \cup ({target} \cap s.hovered)]
    BY <1>3 DEF UpdateMouseFocus
  <2>. HIDE DEF t
  <2>2. t \in Windows(MaxMouse)
    BY <1>1, <2>1 DEF Windows
  <2>3. /\ Refocused(s, t) /\ t.focus = s.focus /\ t.nullCall = s.nullCall /\ t.mouse = target
        /\ t.clipboard = s.clipboard /\ t.selection = s.selection /\ t.buttons = s.buttons
    BY <1>1, <2>1 DEF Windows, Refocused
  <2>. QED
    BY <2>2, <2>3 DEF Sound, t
<1>. QED
  BY <1>2, <1>3

\* ... and so does mouseUp().
LEMMA MouseUpMinor ==
  ASSUME NEW s, Sound(s, MaxMouse), s.buttons > 0,
         NEW t \in {MouseUp(s), Clicked(MouseUp(s)), ClickedThrice(MouseUp(s)),
                    [MouseUp(s) EXCEPT !.clicked = NoWidget]}
  PROVE  /\ t \in Windows(MaxMouse) /\ Refocused(s, t) /\ t.focus = s.focus /\ ~ t.nullCall
         /\ {t.mouse, t.clipboard, t.selection} \subseteq s.attached \cup {NoWidget}
<1>. DEFINE c == IF s.buttons = 1 THEN s.clicked ELSE NoWidget
            u == MouseUp(s)
<1>1. s \in Windows(MaxMouse) /\ MaxMouse \in Nat
  BY WindowAssumption DEF Sound
<1>2. s.buttons - 1 \in 0..MaxMouse /\ c \in Widgets \cup {NoWidget}
  BY <1>1 DEF Windows
<1>3. u = [s EXCEPT !.buttons = s.buttons - 1, !.clicked = c]
  BY DEF MouseUp
<1>. HIDE DEF c, u
<1>4. u \in Windows(MaxMouse)
  BY <1>1, <1>2, <1>3 DEF Windows
<1>5. Unspoken(s, u)
  BY <1>1, <1>3 DEF Windows, Refocused, Unspoken
<1>6. PICK e \in Widgets \cup {NoWidget} : t = [u EXCEPT !.clicked = e]
  <2>1. CASE t = u
    <3>1. t = [u EXCEPT !.clicked = u.clicked] /\ u.clicked \in Widgets \cup {NoWidget}
      BY <1>4, <2>1 DEF Windows
    <3>. QED
      BY <3>1
  <2>2. CASE t = Clicked(u)
    <3>1. u.mouse \in Widgets \cup {NoWidget} /\ t = [u EXCEPT !.clicked = u.mouse]
      BY <1>4, <2>2 DEF Windows, Clicked
    <3>. QED
      BY <3>1
  <2>3. CASE t = ClickedThrice(u)
    <3>. DEFINE e == IF u.clicked = u.mouse THEN NoWidget ELSE u.clicked
    <3>1. e \in Widgets \cup {NoWidget}
      BY <1>4 DEF Windows
    <3>2. t = [u EXCEPT !.clicked = e]
      BY <2>3 DEF ClickedThrice
    <3>. QED
      BY <3>1, <3>2
  <2>4. CASE t = [u EXCEPT !.clicked = NoWidget]
    BY <2>4
  <2>. QED
    BY <2>1, <2>2, <2>3, <2>4 DEF u
<1>7. t \in Windows(MaxMouse) /\ Unspoken(u, t)
  BY <1>4, <1>6 DEF Windows, Refocused, Unspoken
<1>. QED
  BY <1>5, <1>7 DEF Sound, Unspoken, Refocused

\* The user types, points, presses and releases, the window gets the focus or loses it, a
\* clipboard is asked.
LEMMA MinorSteps ==
  ASSUME WindowInv, Open
  PROVE  /\ StaysOpen(IF r.focusIn THEN FocusOut(r) ELSE FocusIn(r))
         /\ \A target \in r.attached :
              /\ StaysOpen(UpdateMouseFocus(r, target))
              /\ r.buttons < MaxMouse => StaysOpen(MouseDown(r, target))
              /\ r.buttons < MaxMouse => StaysOpen([MouseDown(r, target) EXCEPT !.selection = Term])
         /\ StaysOpen(MouseOut(r))
         /\ r.buttons > 0 => /\ StaysOpen(MouseUp(r)) /\ StaysOpen(Clicked(MouseUp(r)))
                              /\ StaysOpen(ClickedThrice(MouseUp(r)))
                              /\ StaysOpen([MouseUp(r) EXCEPT !.clicked = NoWidget])
         /\ StaysOpen(KeyDown(r)) /\ StaysOpen(KeyChar(r))
         /\ StaysOpen([KeyDown(r) EXCEPT !.clipboard = Term])
         /\ StaysOpen([r EXCEPT !.clipboard = NoWidget])
         /\ StaysOpen([r EXCEPT !.selection = NoWidget])
<1>1. /\ Sound(r, MaxMouse) /\ r \in Windows(MaxMouse) /\ r.focus \in Widgets /\ ~ r.nullCall
      /\ {r.focus, r.mouse, r.clipboard, r.selection} \subseteq r.attached \cup {NoWidget}
      /\ Term \in r.attached /\ Term \in Widgets /\ MaxMouse \in Nat
  <2>1. Sound(r, MaxMouse) /\ r.focus # NoWidget /\ Term \in r.attached
    BY DEF WindowInv, Shown, Alive
  <2>2. r \in Windows(MaxMouse)
    BY <2>1 DEF Sound
  <2>3. r.focus \in Widgets
    BY <2>1, <2>2, TreeAssumption DEF Windows
  <2>. QED
    BY <2>1, <2>2, <2>3, WindowFacts, WindowAssumption DEF Sound
<1>2. StaysOpen(IF r.focusIn THEN FocusOut(r) ELSE FocusIn(r))
  <2>. DEFINE u == TellIn(r, r.focus)
              v == TellOut(r, r.focus)
  <2>1. /\ u \in Windows(MaxMouse) /\ Unspoken(r, u)
        /\ v \in Windows(MaxMouse) /\ Unspoken(r, v)
    BY <1>1, TellFacts
  <2>. HIDE DEF u, v
  <2>2. ASSUME NEW t \in Windows(MaxMouse), Unspoken(r, t), NEW b \in BOOLEAN
        PROVE  StaysOpen([t EXCEPT !.focusIn = b])
    <3>. DEFINE a == [t EXCEPT !.focusIn = b]
    <3>1. a \in Windows(MaxMouse)
      BY DEF Windows
    <3>2. Unspoken(t, a)
      BY DEF Windows, Unspoken, Refocused
    <3>. HIDE DEF a
    <3>3. Refocused(r, a) /\ a.focus = r.focus /\ ~ a.nullCall
          /\ {a.mouse, a.clipboard, a.selection} \subseteq r.attached \cup {NoWidget}
      BY <1>1, <2>2, <3>2 DEF Unspoken, Refocused
    <3>4. StaysOpen(a)
      BY <3>1, <3>3, MinorStep
    <3>. QED
      BY <3>4 DEF a
  <2>3. FocusIn(r) = [u EXCEPT !.focusIn = TRUE] /\ FocusOut(r) = [v EXCEPT !.focusIn = FALSE]
    BY DEF FocusIn, FocusOut, u, v
  <2>4. StaysOpen([u EXCEPT !.focusIn = TRUE]) /\ StaysOpen([v EXCEPT !.focusIn = FALSE])
    BY <2>1, <2>2
  <2>. QED
    BY <2>3, <2>4
<1>3. ASSUME NEW target \in r.attached
      PROVE  /\ StaysOpen(UpdateMouseFocus(r, target))
             /\ r.buttons < MaxMouse => StaysOpen(MouseDown(r, target))
             /\ r.buttons < MaxMouse => StaysOpen([MouseDown(r, target) EXCEPT !.selection = Term])
  <2>. DEFINE t == UpdateMouseFocus(r, target)
              c == IF r.buttons = 0 THEN t.clicked ELSE NoWidget
              u == [t EXCEPT !.buttons = t.buttons + 1, !.clicked = c]
              v == [u EXCEPT !.selection = Term]
  <2>1. /\ t \in Windows(MaxMouse) /\ Refocused(r, t) /\ t.focus = r.focus /\ ~ t.nullCall
        /\ {t.mouse, t.clipboard, t.selection} \subseteq r.attached \cup {NoWidget}
        /\ t.buttons = r.buttons
    BY <1>1, MouseMinor
  <2>2. MouseDown(r, target) = u
    BY DEF MouseDown
  <2>. HIDE DEF t
  <2>3. StaysOpen(t)
    BY <2>1, MinorStep
  <2>4. ASSUME r.buttons < MaxMouse PROVE StaysOpen(u) /\ StaysOpen(v)
    <3>1. t.buttons + 1 \in 0..MaxMouse /\ c \in Widgets \cup {NoWidget}
      <4>1. t.buttons \in 0..MaxMouse /\ t.clicked \in Widgets \cup {NoWidget}
        BY ONLY <2>1 DEF Windows
      <4>. QED
        BY ONLY <1>1, <2>1, <2>4, <4>1 DEF c
    <3>. HIDE DEF c
    <3>2. u \in Windows(MaxMouse)
      BY <2>1, <3>1 DEF Windows
    <3>3. /\ Refocused(r, u) /\ u.focus = t.focus /\ u.nullCall = t.nullCall /\ u.mouse = t.mouse
          /\ u.clipboard = t.clipboard /\ u.selection = t.selection
      BY <2>1 DEF Windows, Refocused
    <3>. HIDE DEF u
    <3>4. StaysOpen(u)
      BY <2>1, <3>2, <3>3, MinorStep
    <3>5. v \in Windows(MaxMouse)
      BY <1>1, <3>2 DEF Windows
    <3>6. /\ Refocused(r, v) /\ v.focus = u.focus /\ v.nullCall = u.nullCall /\ v.mouse = u.mouse
          /\ v.clipboard = u.clipboard /\ v.selection = Term
      BY <3>2, <3>3 DEF Windows, Refocused
    <3>. HIDE DEF v
    <3>. QED
      BY <1>1, <2>1, <3>3, <3>4, <3>5, <3>6, MinorStep
  <2>. HIDE DEF u
  <2>. QED
    BY <2>2, <2>3, <2>4 DEF t
<1>4. StaysOpen(MouseOut(r))
  <2>. DEFINE t == MouseOut(r)
  <2>1. t = [r EXCEPT !.mouse = NoWidget, !.hovered = r.hovered \ {r.mouse}, !.buttons = 0]
    BY DEF MouseOut
  <2>. HIDE DEF t
  <2>4. 0 \in 0..MaxMouse /\ r.hovered \ {r.mouse} \in SUBSET Widgets
    BY <1>1 DEF Windows
  <2>2. t \in Windows(MaxMouse)
    BY <1>1, <2>1, <2>4 DEF Windows
  <2>3. /\ Refocused(r, t) /\ t.focus = r.focus /\ t.nullCall = r.nullCall /\ t.mouse = NoWidget
        /\ t.clipboard = r.clipboard /\ t.selection = r.selection
    BY <1>1, <2>1 DEF Windows, Refocused
  <2>. QED
    BY <1>1, <2>2, <2>3, MinorStep DEF t
<1>5. ASSUME r.buttons > 0,
             NEW t \in {MouseUp(r), Clicked(MouseUp(r)), ClickedThrice(MouseUp(r)),
                        [MouseUp(r) EXCEPT !.clicked = NoWidget]}
      PROVE  StaysOpen(t)
  <2>1. /\ t \in Windows(MaxMouse) /\ Refocused(r, t) /\ t.focus = r.focus /\ ~ t.nullCall
        /\ {t.mouse, t.clipboard, t.selection} \subseteq r.attached \cup {NoWidget}
    BY <1>1, <1>5, MouseUpMinor
  <2>. QED
    BY <2>1, MinorStep
<1>7. StaysOpen(KeyDown(r)) /\ StaysOpen(KeyChar(r)) /\ StaysOpen([KeyDown(r) EXCEPT !.clipboard = Term])
  <2>0. r.focus \in Focusable \cup {NoWidget}
    BY <1>1 DEF Windows
  <2>1. ASSUME NEW k \in Focusable \cup {NoWidget}
        PROVE  /\ StaysOpen([r EXCEPT !.keyDown = k])
               /\ StaysOpen([[r EXCEPT !.keyDown = k] EXCEPT !.clipboard = Term])
    <3>. DEFINE t == [r EXCEPT !.keyDown = k]
                u == [t EXCEPT !.clipboard = Term]
    <3>1. t \in Windows(MaxMouse) /\ Unspoken(r, t)
      BY <1>1 DEF Windows, Unspoken, Refocused
    <3>. HIDE DEF t
    <3>2. u \in Windows(MaxMouse)
      BY <1>1, <3>1 DEF Windows
    <3>3. /\ Refocused(r, u) /\ u.focus = r.focus /\ u.nullCall = r.nullCall /\ u.mouse = r.mouse
          /\ u.clipboard = Term /\ u.selection = r.selection
      BY <3>1 DEF Windows, Unspoken, Refocused
    <3>. HIDE DEF u
    <3>4. StaysOpen(t)
      BY <1>1, <3>1, MinorStep DEF Unspoken
    <3>5. StaysOpen(u)
      BY <1>1, <3>2, <3>3, MinorStep
    <3>. QED
      BY <3>4, <3>5 DEF t, u
  <2>2. StaysOpen(KeyDown(r)) /\ StaysOpen([KeyDown(r) EXCEPT !.clipboard = Term])
    BY <2>0, <2>1 DEF KeyDown
  <2>3. StaysOpen(r)
    BY <1>1, MinorStep DEF Refocused
  <2>. QED
    BY <2>1, <2>2, <2>3 DEF KeyChar
<1>6. ASSUME NEW ref \in {Term, NoWidget}
      PROVE  StaysOpen([r EXCEPT !.clipboard = ref]) /\ StaysOpen([r EXCEPT !.selection = ref])
  <2>. DEFINE a == [r EXCEPT !.clipboard = ref]
              b == [r EXCEPT !.selection = ref]
  <2>7. ref \in Widgets \cup {NoWidget}
    BY <1>1, <1>6
  <2>1. a \in Windows(MaxMouse) /\ b \in Windows(MaxMouse)
    BY <1>1, <2>7, ReferenceSet
  <2>2. /\ Refocused(r, a) /\ a.focus = r.focus /\ a.nullCall = r.nullCall /\ a.mouse = r.mouse
        /\ a.clipboard = ref /\ a.selection = r.selection
    BY <1>1 DEF Windows, Refocused
  <2>3. /\ Refocused(r, b) /\ b.focus = r.focus /\ b.nullCall = r.nullCall /\ b.mouse = r.mouse
        /\ b.clipboard = r.clipboard /\ b.selection = ref
    BY <1>1 DEF Windows, Refocused
  <2>. HIDE DEF a, b
  <2>4. ref \in r.attached \cup {NoWidget}
    BY <1>1, <1>6
  <2>5. StaysOpen(a)
    BY <1>1, <2>1, <2>2, <2>4, MinorStep
  <2>6. StaysOpen(b)
    BY <1>1, <2>1, <2>3, <2>4, MinorStep
  <2>. QED
    BY <2>5, <2>6 DEF a, b
<1>. QED
  BY <1>2, <1>3, <1>4, <1>5, <1>6, <1>7

\* The pending paste, if there is one, is cancelled.
LEMMA CancelledShown ==
  ASSUME WindowInv, Open, NEW s, StaysOpen(s)
  PROVE  LET t == Cancelled(s) IN
         /\ Shown(t) /\ PasteDialog \notin t.attached
         /\ Modal(t) => t.nonModalFocus = before
<1>. DEFINE t == Cancelled(s)
<1>1. Shown(s) /\ (Modal(s) => s.nonModalFocus = before)
      /\ (pasting <=> PasteDialog \in Range(s.children[Pane]))
  BY DEF StaysOpen, WindowInv
<1>2. CASE pasting
  <2>1. t = DetachModal(s, Pane, PasteDialog)
    BY <1>2 DEF Cancelled
  <2>. HIDE DEF t
  <2>2. /\ Shown(t) /\ Modal(s) /\ PasteDialog \notin t.attached
        /\ t.nonModalFocus = s.nonModalFocus
    BY <1>1, <1>2, <2>1, DetachModalShown
  <2>. QED
    BY <1>1, <2>2 DEF t
<1>3. CASE ~ pasting
  <2>1. t = s
    BY <1>3 DEF Cancelled
  <2>2. PasteDialog \notin s.attached
    <3>. SUFFICES ASSUME PasteDialog \in s.attached PROVE FALSE
      OBVIOUS
    <3>1. PasteDialog \in s.attached \ {Root} /\ Parent[PasteDialog] = Pane
      BY WindowFacts, WindowAssumption DEF Dialogs
    <3>2. PasteDialog \in Range(s.children[Pane])
      BY <1>1, <3>1 DEF Shown, Alive, Sound, Rooted
    <3>. QED
      BY <1>1, <1>3, <3>2
  <2>. QED
    BY <1>1, <2>1, <2>2
<1>. QED
  BY <1>2, <1>3

\* What a window in which a dialog has just been shown keeps.
LEMMA ShowModalStep ==
  ASSUME WindowInv, Open, UNCHANGED session,
         NEW s, Shown(s), Modal(s) => s.nonModalFocus = before,
         NEW d \in Dialogs, d \notin s.attached, ShowModal(s, d),
         pasting' <=> d = PasteDialog \/ PasteDialog \in Range(s.children[Pane])
  PROVE  WindowInv' /\ r'.modalRoot # Root
<1>1. r' = AttachModal(s, Pane, d) /\ before' = IF s.modalRoot = Pane THEN before ELSE s.focus
  BY DEF ShowModal
<1>2. /\ Shown(r') /\ Modal(r')
      /\ Range(r'.children[Pane]) = Range(s.children[Pane]) \cup {d}
      /\ r'.nonModalFocus = IF s.modalRoot = Pane THEN s.nonModalFocus ELSE s.focus
  BY <1>1, AttachModalShown
<1>3. s.modalRoot = Pane => Modal(s)
  BY WindowFacts DEF Shown, Plain
<1>4. r'.nonModalFocus = before'
  BY <1>1, <1>2, <1>3
<1>5. session' \in {"running", "ended"}
  BY DEF Open
<1>6. Shown(r)' /\ (pasting <=> PasteDialog \in Range(r.children[Pane]))'
  BY <1>2 DEF Shown, Alive, Sound, Plain, Modal, Rooted, Tree
<1>7. r'.modalRoot # Root
  BY <1>2, WindowFacts DEF Modal
<1>. QED
  BY <1>4, <1>5, <1>6, <1>7 DEF WindowInv, Open

\* A dialog is dismissed.
LEMMA DismissStep ==
  ASSUME WindowInv, Open, NEW s, StaysOpen(s),
         NEW d \in Range(s.children[Pane]), Dismiss(s, d)
  PROVE  WindowInv' /\ (Modal(r) /\ r'.modalRoot = Root => r'.focus = before)
<1>1. /\ r' = DetachModal(s, Pane, d) /\ pasting' = (pasting /\ d # PasteDialog)
      /\ session' = session /\ before' = before
  BY DEF Dismiss
<1>2. Shown(s) /\ (Modal(s) => s.nonModalFocus = before)
      /\ (pasting <=> PasteDialog \in Range(s.children[Pane]))
  BY DEF StaysOpen, WindowInv
<1>3. /\ Shown(r') /\ Modal(s)
      /\ Range(r'.children[Pane]) = Range(s.children[Pane]) \ {d}
      /\ r'.nonModalFocus = s.nonModalFocus
      /\ Plain(r') => r'.focus = s.nonModalFocus
  BY <1>1, <1>2, DetachModalShown
<1>4. session' \in {"running", "ended"}
  BY <1>1 DEF Open
<1>5. pasting' <=> PasteDialog \in Range(r'.children[Pane])
  BY <1>1, <1>2, <1>3
<1>6. Shown(r)' /\ (pasting <=> PasteDialog \in Range(r.children[Pane]))'
  BY <1>3, <1>5 DEF Shown, Alive, Sound, Plain, Modal, Rooted, Tree
<1>7. r'.modalRoot = Root => Plain(r')
  BY <1>3, ModalOrPlain
<1>. QED
  BY <1>1, <1>2, <1>3, <1>4, <1>6, <1>7 DEF WindowInv, Open

\* The window is closed, from whatever state of its widgets.
LEMMA CloseStep ==
  ASSUME WindowInv, Open, NEW s, Sound(s, MaxMouse), Close(s)
  PROVE  WindowInv' /\ r'.modalRoot # Root
<1>1. r' = ClearRoot(s) /\ session' = "closed"
  BY DEF Close
<1>2. Sound(r', MaxMouse) /\ r'.focus = NoWidget /\ r'.modalRoot = NoWidget
  BY <1>1, ClearRootSound
<1>3. Sound(r, MaxMouse)'
  BY <1>2 DEF Sound, Tree, Rooted
<1>. QED
  BY <1>1, <1>2, <1>3, TreeAssumption DEF WindowInv, Open

\* The session closes, with its paste that is pending and its terminal.
LEMMA CloseSessionStep ==
  ASSUME WindowInv, Open, NEW s, StaysOpen(s), CloseSession(s)
  PROVE  WindowInv' /\ r'.modalRoot # Root
<1>2. Shown(Cancelled(s))
  BY CancelledShown
<1>3. Sound(Cancelled(s), MaxMouse) /\ Term \in Cancelled(s).attached \ {Root}
  BY <1>2, WindowFacts DEF Shown, Alive
<1>4. Sound(Detach(Cancelled(s), Term), MaxMouse)
  BY <1>3, DetachSound
<1>. QED
  BY <1>4, CloseStep DEF CloseSession

\* A step after which the window is as StaysOpen has it.
LEMMA OpenStep ==
  ASSUME WindowInv, Open, StaysOpen(r'), session' \in {"running", "ended"},
         UNCHANGED <<pasting, before>>
  PROVE  WindowInv' /\ (Modal(r) => r'.modalRoot # Root)
<1>1. Shown(r') /\ (pasting' <=> PasteDialog \in Range(r'.children[Pane]))
      /\ (Modal(r') => r'.nonModalFocus = before')
  BY DEF StaysOpen, WindowInv
<1>2. Modal(r) => r'.modalRoot # Root
  BY ModalOrPlain DEF StaysOpen
<1>3. Shown(r)' /\ (pasting <=> PasteDialog \in Range(r.children[Pane]))'
      /\ (Modal(r) => r.nonModalFocus = before)'
  BY <1>1 DEF Shown, Alive, Sound, Plain, Modal, Rooted, Tree
<1>. QED
  BY <1>2, <1>3 DEF WindowInv, Open

\* The dialog whose button has the focus, or the mouse, is shown.
LEMMA ButtonShown ==
  ASSUME WindowInv, Open, NEW d \in Dialogs, NEW b \in r.attached \cap Range(Buttons[d])
  PROVE  Parent[b] = d /\ d \in Range(r.children[Pane])
<1>1. Sound(r, MaxMouse)
  BY DEF WindowInv, Shown, Alive
<1>2. r.attached \subseteq Widgets /\ Rooted(r)
  BY <1>1 DEF Sound, Windows
<1>3. Parent[b] = d /\ b # Root
  BY WindowFacts, TreeAssumption
<1>4. d \in r.attached \ {Root} /\ Parent[d] = Pane
  BY <1>2, <1>3, WindowFacts, WindowAssumption DEF Rooted
<1>. QED
  BY <1>2, <1>3, <1>4 DEF Rooted

\* The constructor establishes the invariant.
LEMMA WindowInit == Init => WindowInv
<1>. SUFFICES ASSUME Init PROVE WindowInv
  OBVIOUS
<1>. DEFINE kids == [w \in Widgets |-> IF w = Root THEN <<Pager, Pane>>
                                       ELSE IF w \in Dialogs THEN Buttons[w]
                                       ELSE << >>]
<1>1. /\ r.children = kids /\ r.attached = {Root, Pager, Pane} /\ r.visible = Widgets \ {Pane}
      /\ r.modalRoot = Root /\ r.focus = NoWidget /\ r.mouse = NoWidget
      /\ r.clipboard = NoWidget /\ r.selection = NoWidget /\ ~ r.nullCall
      /\ session = "none" /\ pasting = FALSE
  BY DEF Init
<1>2. /\ {Root, Pager, Term, Pane} \cup Dialogs \subseteq Widgets /\ Root \notin Dialogs
      /\ Pane \notin Dialogs /\ Pager \notin Dialogs /\ Pane # Root /\ Pager # Root
      /\ Term \notin {Root, Pager, Pane} /\ Pager # Pane
  BY WindowFacts, WindowAssumption
<1>3. \A d \in Dialogs : /\ Buttons[d] \in Seq(Widgets) /\ IsInjective(Buttons[d])
                         /\ \A b \in Range(Buttons[d]) : Parent[b] = d
  <2>. SUFFICES ASSUME NEW d \in Dialogs
                PROVE  /\ Buttons[d] \in Seq(Widgets) /\ IsInjective(Buttons[d])
                       /\ \A b \in Range(Buttons[d]) : Parent[b] = d
    OBVIOUS
  <2>1. Buttons[d] \in Seq(Focusable) /\ Focusable \subseteq Widgets
    BY WindowAssumption, TreeAssumption
  <2>. QED
    BY <2>1, WindowAssumption
<1>4. /\ <<Pager, Pane>> \in Seq(Widgets) /\ IsInjective(<<Pager, Pane>>)
      /\ Range(<<Pager, Pane>>) = {Pager, Pane}
  BY <1>2 DEF IsInjective, Range
<1>5. /\ << >> \in Seq(Widgets) /\ IsInjective(<< >>) /\ Range(<< >>) = {}
  BY DEF IsInjective, Range
<1>6. kids \in [Widgets -> Seq(Widgets)]
  BY <1>3, <1>4, <1>5
<1>7. /\ kids[Root] = <<Pager, Pane>> /\ kids[Pager] = << >> /\ kids[Pane] = << >>
      /\ \A d \in Dialogs : kids[d] = Buttons[d]
      /\ \A w \in Widgets : w # Root /\ w \notin Dialogs => kids[w] = << >>
  BY <1>2
<1>. HIDE DEF kids
<1>8. ASSUME NEW w \in Widgets
      PROVE  IsInjective(kids[w]) /\ \A v \in Range(kids[w]) : Parent[v] = w
  <2>1. CASE w = Root
    BY <1>4, <1>7, <2>1, WindowAssumption
  <2>2. CASE w \in Dialogs
    BY <1>3, <1>7, <2>2
  <2>3. CASE w # Root /\ w \notin Dialogs
    BY <1>5, <1>7, <2>3
  <2>. QED
    BY <2>1, <2>2, <2>3
<1>9. Tree(r)
  BY <1>1, <1>6, <1>8 DEF Tree
<1>10. Rooted(r)
  <2>1. Parent[Pager] = Root /\ Parent[Pane] = Root
    BY WindowAssumption
  <2>. QED
    BY <1>1, <1>2, <1>4, <1>5, <1>7, <2>1 DEF Rooted
<1>11. r \in Windows(MaxMouse)
  <2>1. 0 \in 0..MaxMouse /\ Root \in Widgets
    BY WindowAssumption, TreeAssumption
  <2>2. /\ Widgets \ {Pane} \in SUBSET Widgets /\ {Root, Pager, Pane} \in SUBSET Widgets
        /\ {} \in SUBSET Widgets
    BY <1>2
  <2>3. r = [children |-> kids, attached |-> {Root, Pager, Pane}, visible |-> Widgets \ {Pane},
             modalRoot |-> Root, nonModalFocus |-> NoWidget,
             focus |-> NoWidget, focusIn |-> FALSE, keyDown |-> NoWidget, mouse |-> NoWidget,
             buttons |-> 0, clicked |-> NoWidget, clipboard |-> NoWidget, selection |-> NoWidget,
             told |-> {}, hovered |-> {}, again |-> {}, nullCall |-> FALSE]
    BY DEF Init, kids
  <2>. QED
    BY <1>6, <2>1, <2>2, <2>3 DEF Windows
<1>12. Sound(r, MaxMouse)
  BY <1>1, <1>9, <1>10, <1>11 DEF Sound
<1>13. Alive(r) /\ Plain(r)
  BY <1>1, <1>5, <1>7, <1>12 DEF Alive, Plain
<1>. QED
  BY <1>1, <1>2, <1>13 DEF WindowInv, Open

\* The session's terminal is attached and gets the focus.
LEMMA StartStep ==
  ASSUME WindowInv, StartSession
  PROVE  WindowInv'
<1>. DEFINE u == Attach(r, Term)
            t == SetKeyboardFocus(u, Term)
<1>1. /\ session = "created" /\ session' = "running" /\ r' = t /\ pasting' = pasting
      /\ Alive(r) /\ Plain(r) /\ r.focus = NoWidget /\ Term \notin r.attached /\ ~ pasting
  BY DEF StartSession, WindowInv
<1>2. /\ Sound(r, MaxMouse) /\ Term \in Widgets \ {Root} /\ Parent[Term] = Pager
      /\ Pager \in r.attached /\ Pane \in Widgets /\ Pager # Pane /\ Pager \notin Dialogs
      /\ Pager \in Widgets
  BY <1>1, WindowFacts, WindowAssumption DEF Alive
<1>3. /\ Sound(u, MaxMouse)
      /\ u.children = [r.children EXCEPT ![Pager] = Append(r.children[Pager], Term)]
      /\ r.attached \cup {Term} \subseteq u.attached
      /\ u.visible = r.visible /\ u.modalRoot = r.modalRoot
      /\ u.focus = r.focus
  BY <1>1, <1>2, AttachSound
<1>. HIDE DEF u
<1>4. \A w \in Widgets \ {Pager} : u.children[w] = r.children[w]
  <2>1. r.children \in [Widgets -> Seq(Widgets)]
    BY <1>2 DEF Sound, Tree
  <2>. QED
    BY <1>3, <2>1
<1>5. Alive(u) /\ Plain(u)
  <2>1. u.children[Pane] = r.children[Pane] /\ \A d \in Dialogs : u.children[d] = r.children[d]
    BY <1>2, <1>4, WindowFacts
  <2>. QED
    BY <1>1, <1>3, <2>1 DEF Alive, Plain
<1>6. Term \in u.attached \cap Focusable
  BY <1>3, WindowAssumption
<1>7. IsDominatedBy(Term, u.modalRoot) /\ Term # NoWidget
  BY <1>2, <1>5, AboveFacts, TreeAssumption DEF IsDominatedBy, Plain
<1>8. Sound(t, MaxMouse) /\ Refocused(u, t) /\ t.focus = Term
  BY <1>3, <1>6, <1>7, SetKeyboardFocusSound
<1>. HIDE DEF t
<1>9. Alive(t) /\ Plain(t)
  BY <1>5, <1>8 DEF Alive, Plain, Refocused
<1>10. Shown(t)
  BY <1>6, <1>7, <1>8, <1>9 DEF Shown, Refocused
<1>11. Shown(r)' /\ Plain(r)' /\ ~ Modal(r)'
  BY <1>1, <1>9, <1>10 DEF Shown, Alive, Sound, Plain, Modal, Rooted, Tree
<1>12. Range(t.children[Pane]) = {}
  BY <1>9 DEF Plain, Range
<1>. QED
  BY <1>1, <1>11, <1>12 DEF WindowInv, Open

\* Neither the invariant nor the focus that returns is lost by any step.
LEMMA WindowStep ==
  ASSUME WindowInv, [Next]_vars
  PROVE  WindowInv' /\ (IsModal /\ r'.modalRoot = Root => r'.focus = before)
<1>. DEFINE Goal == WindowInv' /\ (IsModal /\ r'.modalRoot = Root => r'.focus = before)
<1>0. Open => /\ Shown(r) /\ StaysOpen(r) /\ (IsModal <=> Modal(r))
              /\ r.attached \subseteq Widgets
  <2>. SUFFICES ASSUME Open PROVE /\ Shown(r) /\ StaysOpen(r) /\ (IsModal <=> Modal(r))
                                  /\ r.attached \subseteq Widgets
    OBVIOUS
  <2>1. Shown(r)
    BY DEF WindowInv
  <2>2. Modal(r) => ~ Plain(r)
    BY DEF Modal, Plain
  <2>3. StaysOpen(r)
    BY <2>1, <2>2 DEF StaysOpen, WindowInv
  <2>4. r.attached \subseteq Widgets
    BY <2>1 DEF Shown, Alive, Sound, Windows
  <2>. QED
    BY <2>1, <2>3, <2>4, ModalOrPlain DEF IsModal
<1>00. ASSUME Open, StaysOpen(r'), session' \in {"running", "ended"}, UNCHANGED <<pasting, before>>
       PROVE  Goal
  BY <1>0, <1>00, OpenStep
<1>1. CASE UNCHANGED vars
  <2>1. WindowInv'
    BY <1>1 DEF vars, WindowInv, Open
  <2>2. r' = r
    BY <1>1 DEF vars
  <2>. QED
    BY <2>1, <2>2 DEF IsModal
<1>2. CASE CreateTerminal \/ ChildEnds
  <2>1. /\ r' = r /\ pasting' = pasting /\ before' = before
        /\ \/ session' = session
           \/ session = "none" /\ session' = "created"
    BY <1>2 DEF CreateTerminal, ChildEnds
  <2>2. WindowInv'
    BY <2>1 DEF WindowInv, Open
  <2>. QED
    BY <2>1, <2>2 DEF IsModal
<1>3. CASE StartSession
  <2>1. r.modalRoot = Root
    BY <1>3 DEF StartSession, WindowInv, Plain
  <2>. QED
    BY <1>3, <2>1, StartStep DEF IsModal
<1>4. CASE ShowOther
  <2>1. /\ Open /\ UNCHANGED session /\ pasting' = pasting /\ OtherDialog \in Dialogs
        /\ OtherDialog \notin r.attached /\ ShowModal(r, OtherDialog)
    BY <1>4 DEF ShowOther, Dialogs
  <2>2. pasting' <=> OtherDialog = PasteDialog \/ PasteDialog \in Range(r.children[Pane])
    BY <2>1, WindowFacts DEF WindowInv
  <2>3. Shown(r) /\ (Modal(r) => r.nonModalFocus = before)
    BY <2>1 DEF WindowInv
  <2>. QED
    BY <2>1, <2>2, <2>3, ShowModalStep
<1>5. CASE KeyAbout
  <2>. DEFINE s == KeyDown(r)
  <2>1. /\ Open /\ UNCHANGED session /\ pasting' = pasting /\ AboutBox \in Dialogs
        /\ ~ IsModal /\ ShowModal(s, AboutBox)
    BY <1>5 DEF KeyAbout, Dialogs
  <2>5. /\ StaysOpen(s) /\ s.attached = r.attached /\ s.children = r.children
    <3>1. r \in Windows(MaxMouse)
      BY <1>0, <2>1 DEF Shown, Alive, Sound
    <3>. QED
      BY <2>1, <3>1, MinorSteps DEF KeyDown, Windows
  <2>. HIDE DEF s
  <2>2. pasting' <=> AboutBox = PasteDialog \/ PasteDialog \in Range(s.children[Pane])
    BY <2>1, <2>5, WindowFacts DEF WindowInv
  <2>3. Shown(s) /\ (Modal(s) => s.nonModalFocus = before)
    BY <2>5 DEF StaysOpen
  <2>4. AboutBox \notin s.attached
    <3>1. Plain(r) /\ Alive(r)
      BY <1>0, <2>1 DEF Shown
    <3>2. Pane \in Above[AboutBox] /\ AboutBox # Pane
      BY <2>1, WindowFacts
    <3>. QED
      BY <2>5, <3>1, <3>2, NothingInPane DEF Plain
  <2>. QED
    BY <2>1, <2>2, <2>3, <2>4, ShowModalStep
<1>6. ASSUME Open, NEW s, StaysOpen(s), TerminalPaste(s) PROVE Goal
  <2>1. /\ ShowModal(Cancelled(s), PasteDialog) /\ pasting' = TRUE /\ UNCHANGED session
        /\ PasteDialog \in Dialogs
    BY <1>6 DEF TerminalPaste, Dialogs
  <2>2. /\ Shown(Cancelled(s)) /\ PasteDialog \notin Cancelled(s).attached
        /\ Modal(Cancelled(s)) => Cancelled(s).nonModalFocus = before
    BY <1>6, CancelledShown
  <2>. QED
    BY <1>6, <2>1, <2>2, ShowModalStep
<1>7. CASE PasteClipboard \/ PasteSelection
  BY <1>6, <1>7, MinorSteps DEF PasteClipboard, PasteSelection
<1>8. CASE RequestClose
  BY <1>0, <1>8, CloseStep DEF RequestClose, Shown, Alive
<1>9. CASE SessionPTYTerminated \/ KeyToWindow
  <2>1. Open
    BY <1>9 DEF SessionPTYTerminated, KeyToWindow, Open
  <2>2. StaysOpen(r) /\ StaysOpen(KeyDown(r))
    BY <1>0, <2>1, MinorSteps
  <2>3. CloseSession(r) \/ CloseSession(KeyDown(r))
    BY <1>9 DEF SessionPTYTerminated, KeyToWindow
  <2>. QED
    BY <2>1, <2>2, <2>3, CloseSessionStep
<1>10. CASE WaitForKey
  <2>1. Open /\ r' = SetKeyboardFocus(r, Root) /\ session' = "ended" /\ UNCHANGED <<pasting, before>>
    BY <1>10 DEF WaitForKey
  <2>2. Shown(r) /\ Root \in r.attached \cap Focusable
    BY <1>0, <2>1, WindowAssumption DEF Shown, Alive
  <2>3. Shown(r') /\ Refocused(r, r')
    BY <2>1, <2>2, SetKeyboardFocusShown
  <2>4. StaysOpen(r')
    BY <1>0, <2>1, <2>3 DEF StaysOpen, Refocused, Modal, Plain
  <2>. QED
    BY <1>00, <2>1, <2>4
<1>11. CASE WindowFocus \/ KeyPaste \/ KeyOther \/ TypeChar \/ LeaveWindow \/ Release
  <2>1. Open /\ UNCHANGED rest
    BY <1>11 DEF WindowFocus, KeyPaste, KeyOther, TypeChar, LeaveWindow, Release
  <2>2. StaysOpen(r')
    <3>1. CASE Release
      <4>1. r.buttons > 0 /\ r' \in {MouseUp(r), Clicked(MouseUp(r)), ClickedThrice(MouseUp(r))}
        BY <3>1 DEF Release
      <4>. QED
        BY <2>1, <4>1, MinorSteps
    <3>. QED
      BY <1>11, <2>1, <3>1, MinorSteps DEF WindowFocus, KeyPaste, KeyOther, TypeChar, LeaveWindow
  <2>3. session' \in {"running", "ended"} /\ UNCHANGED <<pasting, before>>
    BY <2>1 DEF rest, Open
  <2>. QED
    BY <1>00, <2>1, <2>2, <2>3
<1>12. ASSUME NEW target \in Targets, NEW wheel \in BOOLEAN, PointAt(target) \/ Press(target, wheel)
       PROVE  Goal
  <2>1. Open /\ UNCHANGED rest /\ target \in r.attached
    BY <1>12 DEF PointAt, Press, Targets, MouseTargets
  <2>2. CASE PointAt(target)
    <3>1. StaysOpen(r')
      BY <2>1, <2>2, MinorSteps DEF PointAt
    <3>2. session' \in {"running", "ended"} /\ UNCHANGED <<pasting, before>>
      BY <2>1 DEF rest, Open
    <3>. QED
      BY <1>00, <2>1, <3>1, <3>2
  <2>3. CASE Press(target, wheel)
    <3>0. /\ r.buttons < MaxMouse
          /\ r' = IF wheel THEN [MouseDown(r, target) EXCEPT !.selection = Term] ELSE MouseDown(r, target)
      BY <2>3 DEF Press
    <3>1. StaysOpen(r')
      BY <2>1, <3>0, MinorSteps
    <3>2. session' \in {"running", "ended"} /\ UNCHANGED <<pasting, before>>
      BY <2>1 DEF rest, Open
    <3>. QED
      BY <1>00, <2>1, <3>1, <3>2
  <2>. QED
    BY <1>12, <2>2, <2>3
<1>13. CASE KeyDismiss
  <2>1. Open /\ InDialog /\ Dismiss(KeyDown(r), Parent[r.focus])
    BY <1>13 DEF KeyDismiss
  <2>2. PICK d \in Dialogs : r.focus \in Range(Buttons[d])
    BY <2>1 DEF InDialog
  <2>3. r.focus \in r.attached
    BY <1>0, <2>1 DEF Shown, Alive, Sound
  <2>4. Parent[r.focus] \in Range(r.children[Pane])
    BY <2>1, <2>2, <2>3, ButtonShown
  <2>5. StaysOpen(KeyDown(r))
    BY <2>1, MinorSteps
  <2>6. Parent[r.focus] \in Range(KeyDown(r).children[Pane])
    BY <2>4, <2>5 DEF StaysOpen
  <2>. QED
    BY <1>0, <2>1, <2>5, <2>6, DismissStep
<1>14. CASE Click
  <2>. DEFINE d == IF r.mouse = AboutBox THEN AboutBox ELSE Parent[r.mouse]
              s == [MouseUp(r) EXCEPT !.clicked = NoWidget]
  <2>1. /\ Open /\ r.buttons = 1 /\ Dismiss(s, d)
        /\ r.mouse \in Dismisses \cup {AboutBox} \cup Range(Buttons[AboutBox])
    BY <1>14 DEF Click, Dismissing
  <2>2. StaysOpen(s)
    BY <2>1, MinorSteps
  <2>. HIDE DEF s
  <2>3. r.mouse \in r.attached
    <3>1. r.mouse \in r.attached \cup {NoWidget}
      BY <1>0, <2>1 DEF Shown, Alive, Sound
    <3>2. r.mouse \in Widgets
      BY <2>1, WindowFacts, WindowAssumption, TreeAssumption DEF Dialogs
    <3>. QED
      BY <3>1, <3>2, TreeAssumption
  <2>4. d \in Range(r.children[Pane])
    <3>1. CASE r.mouse = AboutBox
      <4>1. AboutBox \in r.attached \ {Root} /\ Parent[AboutBox] = Pane
        BY <2>3, <3>1, WindowFacts, WindowAssumption DEF Dialogs
      <4>. QED
        BY <1>0, <2>1, <3>1, <4>1 DEF Shown, Alive, Sound, Rooted
    <3>2. CASE r.mouse # AboutBox
      <4>1. PICK e \in Dialogs : r.mouse \in Range(Buttons[e])
        BY <2>1, <3>2, WindowAssumption DEF Dialogs
      <4>. QED
        BY <2>1, <2>3, <3>2, <4>1, ButtonShown
    <3>. QED
      BY <3>1, <3>2
  <2>5. Range(s.children[Pane]) = Range(r.children[Pane])
    BY <2>2 DEF StaysOpen
  <2>. HIDE DEF d
  <2>. QED
    BY <1>0, <2>1, <2>2, <2>4, <2>5, DismissStep
<1>15. CASE KeyTab
  <2>1. Open /\ InDialog /\ UNCHANGED rest
    BY <1>15 DEF KeyTab
  <2>2. PICK d \in Dialogs : r.focus \in Range(Buttons[d])
    BY <2>1 DEF InDialog
  <2>3. /\ r.focus \in r.attached /\ Alive(r) /\ Tree(r) /\ Rooted(r) /\ r.attached \subseteq Widgets
        /\ r.focus \in Focusable
    BY <1>0, <2>1 DEF Shown, Alive, Sound, Windows
  <2>4. r.children[Pane] # << >>
    <3>1. d \in Range(r.children[Pane])
      BY <2>1, <2>2, <2>3, ButtonShown
    <3>. QED
      BY <3>1 DEF Range
  <2>5. Modal(r) /\ r.visible = Widgets
    BY <1>0, <2>1, <2>4 DEF Shown, Plain, Modal
  <2>6. NextKeyboardFocus(r) \in Candidates(r)
    BY <2>3, <2>5, SomethingToFocus, NextFacts DEF Modal
  <2>7. PrevKeyboardFocus(r) \in Candidates(r)
    <3>1. r.focus \in Candidates(r) \cap r.visible
      BY <1>0, <2>1, <2>3, <2>5 DEF Candidates, Shown
    <3>. QED
      BY <2>3, <3>1, PrevFacts
  <2>8. PICK next \in Candidates(r) : r' = SetKeyboardFocus(KeyDown(r), next)
    BY <1>15, <2>6, <2>7 DEF KeyTab
  <2>9. Shown(r') /\ Refocused(r, r')
    <3>. DEFINE s == KeyDown(r)
    <3>1. Shown(s)
      BY <2>1, MinorSteps DEF StaysOpen
    <3>2. Refocused(r, s)
      <4>1. r \in Windows(MaxMouse)
        BY <1>0, <2>1 DEF Shown, Alive, Sound
      <4>. QED
        BY <4>1 DEF KeyDown, Windows, Refocused
    <3>. HIDE DEF s
    <3>3. next \in s.attached \cap Focusable
      BY <2>8, <3>2 DEF Candidates, Refocused
    <3>4. Shown(SetKeyboardFocus(s, next)) /\ Refocused(s, SetKeyboardFocus(s, next))
      BY <3>1, <3>3, SetKeyboardFocusShown
    <3>. QED
      BY <2>8, <3>2, <3>4 DEF Refocused, s
  <2>10. StaysOpen(r')
    BY <1>0, <2>1, <2>9 DEF StaysOpen, Refocused, Modal, Plain
  <2>11. session' \in {"running", "ended"} /\ UNCHANGED <<pasting, before>>
    BY <2>1 DEF rest, Open
  <2>. QED
    BY <1>00, <2>1, <2>10, <2>11
<1>. QED
  BY <1>1, <1>2, <1>3, <1>4, <1>5, <1>7, <1>8, <1>9, <1>10, <1>11, <1>12, <1>13, <1>14, <1>15 DEF Next

-----------------------------------------------------------------------------
(* The theorems *)

\* Every event, callback and button of the window, in any order, keeps the tree of
\* its widgets one, attached downwards from the root, and its pane, its modal root
\* and its focus in agreement.
THEOREM WindowInvariant == Spec => []WindowInv
<1>1. WindowInv /\ [Next]_vars => WindowInv'
  BY WindowStep
<1>. QED
  BY <1>1, WindowInit, PTL DEF Spec

\* Whatever is detached while it has the focus, the mouse, the clipboard request or
\* the selection, or is remembered for the end of the dialogs: the renderer forgets
\* it in detachWidget(), and no pointer that it follows is left to a widget that is
\* gone. The widgets of the last key and of the last click it only compares.
THEOREM NothingDangles == Spec => []NoDangling
<1>1. WindowInv => NoDangling
  <2>. SUFFICES ASSUME WindowInv PROVE NoDangling
    OBVIOUS
  <2>1. Sound(r, MaxMouse)
    BY DEF WindowInv, Open, Shown, Alive
  <2>2. r.modalRoot \in r.attached \cup {NoWidget}
    BY DEF WindowInv, Open, Shown, Alive, Plain, Modal
  <2>3. IsModal => r.nonModalFocus \in r.attached
    BY DEF WindowInv, Open, IsModal, Shown, Plain, Modal
  <2>. QED
    BY <2>1, <2>2, <2>3 DEF NoDangling, Sound
<1>. QED
  BY <1>1, WindowInvariant, PTL

\* An open window always has a visible focused widget within the modal root, however
\* dialogs, focus requests, Tab and the end of the session follow each other; and
\* setKeyboardFocus() is never given the null pointer that nextKeyboardFocus()
\* returns when nothing can be focused.
THEOREM FocusIsKept == Spec => []FocusKept
<1>1. WindowInv => FocusKept
  <2>. SUFFICES ASSUME WindowInv PROVE FocusKept
    OBVIOUS
  <2>1. ~ r.nullCall
    BY DEF WindowInv, Open, Shown, Alive, Sound
  <2>2. r.focus # NoWidget <=> Open
    BY DEF WindowInv, Open, Shown
  <2>3. ASSUME Open PROVE IsDominatedBy(r.focus, r.modalRoot) /\ Available(r, r.focus, Root)
    <3>1. Shown(r)
      BY <2>3 DEF WindowInv
    <3>2. r.focus \in Widgets
      BY <3>1, TreeAssumption DEF Shown, Alive, Sound, Windows
    <3>3. Above[r.focus] \subseteq Widgets
      BY <3>2, AboveFacts
    <3>4. CASE Modal(r)
      BY <3>3, <3>4, <3>1 DEF Available, Modal, Shown
    <3>5. CASE Plain(r)
      <4>1. Pane \notin Above[r.focus]
        BY <3>1, <3>5, PlainFocus
      <4>. QED
        BY <3>1, <3>3, <3>5, <4>1 DEF Available, Plain, Shown
    <3>. QED
      BY <3>1, <3>4, <3>5 DEF Shown
  <2>. QED
    BY <2>1, <2>2, <2>3 DEF FocusKept
<1>. QED
  BY <1>1, WindowInvariant, PTL

\* The pane counts its dialogs right: ModalPane shows itself and takes the modal root
\* with the first of them, and gives both up with the last, never earlier or later;
\* and at most one of the dialogs is the confirmation of a paste.
THEOREM ModalExactly == Spec => []ModalWhileDialogs
<1>1. WindowInv => ModalWhileDialogs
  <2>. SUFFICES ASSUME WindowInv, Open
                PROVE  /\ IsModal <=> r.children[Pane] # << >>
                       /\ Pane \in r.visible <=> IsModal
                       /\ pasting <=> PasteDialog \in Range(r.children[Pane])
                       /\ IsInjective(r.children[Pane])
    BY DEF ModalWhileDialogs
  <2>1. Shown(r) /\ (pasting <=> PasteDialog \in Range(r.children[Pane])) /\ Pane \in Widgets
    BY WindowFacts DEF WindowInv
  <2>2. IsInjective(r.children[Pane])
    BY <2>1 DEF Shown, Alive, Sound, Tree
  <2>3. (IsModal <=> Modal(r)) /\ (Modal(r) \/ Plain(r))
    BY <2>1, ModalOrPlain DEF IsModal, Shown
  <2>. QED
    BY <2>1, <2>2, <2>3 DEF Modal, Plain
<1>. QED
  BY <1>1, WindowInvariant, PTL

\* The widget that had the focus when the first dialog came has it when the last one
\* goes, however many came between and in whatever order they were dismissed.
THEOREM FocusComesBack == Spec => FocusReturns
<1>1. WindowInv /\ [Next]_vars => [IsModal /\ r'.modalRoot = Root => r'.focus = before]_vars
  BY WindowStep
<1>. QED
  BY <1>1, WindowInvariant, PTL DEF Spec, FocusReturns
=============================================================================
