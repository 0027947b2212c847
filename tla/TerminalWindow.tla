--------------------------- MODULE TerminalWindow ---------------------------
(***************************************************************************)
(* terminalpp's window: TerminalWindow of terminalpp/forms/terminal_window *)
(* with the pager that holds the session's terminal, the modal pane and    *)
(* its dialogs, on top of Renderer. There is one session, as main() makes. *)
(* The reader thread of the terminal notices that the child has ended; the *)
(* user types, points, and focuses the window; clipboards answer late.     *)
(* Every paste asks for confirmation (ConfirmPaste::Always).               *)
(***************************************************************************)
EXTENDS Renderer

CONSTANTS Pager,         \* pager_
          Term,          \* the terminal of the session
          Pane,          \* modalPane_
          PasteDialog,   \* the dialogs that may be in it
          AboutBox,
          OtherDialog,   \* NewVersionDialog, CopyDialog or Dialog::Error
          Buttons,       \* the focusable buttons of each, in the order of the header
          Dismisses,     \* the buttons of which execute() dismisses the dialog
          MaxDialogs,    \* bound: the dialogs shown
          MaxMouse,      \* bound: the mouse buttons held down
          PointedAt      \* bound: the widgets the mouse is pointed at

Dialogs == {PasteDialog, AboutBox, OtherDialog}

ASSUME WindowAssumption ==
  /\ {Pager, Term, Pane} \cup Dialogs \subseteq Widgets
  /\ Pager # Pane /\ Cardinality(Dialogs) = 3
  /\ Parent[Pager] = Root /\ Parent[Pane] = Root
  /\ Parent[Term] = Pager /\ \A d \in Dialogs : Parent[d] = Pane
  /\ Buttons \in [Dialogs -> Seq(Focusable)]
  /\ \A d \in Dialogs : /\ Buttons[d] # << >> /\ IsInjective(Buttons[d])
                        /\ \A b \in Range(Buttons[d]) : Parent[b] = d
  /\ Dismisses \subseteq UNION {Range(Buttons[d]) : d \in Dialogs}
  /\ {Root, Term} \subseteq Focusable /\ Pane \notin Focusable
  /\ MaxDialogs \in Nat /\ MaxMouse \in Nat

VARIABLES
  r,         \* the window's renderer
  waits,     \* renderer.window.waitAfterPtyTerminated of the configuration
  session,   \* "none" before newSession, "created" while the terminal exists but
             \* is not attached, "running", "ended" when it waits for a key
             \* (terminateOnKeyPress), "closed"
  child,     \* the child process: "none", "running" or "ended"
  endEvent,  \* whether the event of ptyTerminated() is scheduled
  pasting,   \* pendingPaste # nullptr
  dialogs,   \* the dialogs shown, for the bound
  before     \* history: what had the focus when the window became modal

vars == <<r, waits, session, child, endEvent, pasting, dialogs, before>>

\* What a step of the renderer leaves alone, if it comes to nothing else.
rest == <<session, child, endEvent, pasting, dialogs, before>>

Open == session \in {"running", "ended"}

IsModal == r.modalRoot \notin {Root, NoWidget}

\* The constructor of TerminalWindow has run.
Init == /\ r = [children |-> [w \in Widgets |-> IF w = Root THEN <<Pager, Pane>>
                                                ELSE IF w \in Dialogs THEN Buttons[w]
                                                ELSE << >>],
                attached |-> {Root, Pager, Pane}, visible |-> Widgets \ {Pane},
                modalRoot |-> Root, nonModalFocus |-> NoWidget,
                focus |-> NoWidget, focusIn |-> FALSE,
                keyDown |-> NoWidget, mouse |-> NoWidget, buttons |-> 0,
                clicked |-> NoWidget, clipboard |-> NoWidget, selection |-> NoWidget,
                told |-> {}, hovered |-> {}, again |-> {}, nullCall |-> FALSE]
        /\ waits \in BOOLEAN
        /\ session = "none"
        /\ child = "none"
        /\ endEvent = FALSE
        /\ pasting = FALSE
        /\ dialogs = 0
        /\ before = NoWidget

-----------------------------------------------------------------------------
(* The session *)

\* newSession(), up to the terminal's constructor, which starts the reader.
CreateTerminal == /\ session = "none"
                  /\ session' = "created"
                  /\ child' = "running"
                  /\ UNCHANGED <<r, endEvent, pasting, dialogs, before>>

\* The reader: Widget::schedule() drops the event of a widget without renderer.
ChildEnds == /\ child = "running"
             /\ child' = "ended"
             /\ endEvent' = (Term \in r.attached)
             /\ UNCHANGED <<r, session, pasting, dialogs, before>>

\* newSession(), from setActivePage() to the end.
StartSession == /\ session = "created"
                /\ session' = "running"
                /\ r' = SetKeyboardFocus(Attach(r, Term), Term)
                /\ UNCHANGED <<child, endEvent, pasting, dialogs, before>>

-----------------------------------------------------------------------------
(* Dialogs *)

\* showModal() of a new dialog, in a window with renderer s.
ShowModal(s, d) ==
  /\ dialogs < MaxDialogs
  /\ dialogs' = dialogs + 1
  /\ r' = AttachModal(s, Pane, d)
  /\ before' = IF s.modalRoot = Pane THEN before ELSE s.focus

\* An event of the version checker, of showError() or of a terminal that wants
\* to set the clipboard.
ShowOther == /\ Open
             /\ OtherDialog \notin r.attached
             /\ ShowModal(r, OtherDialog)
             /\ UNCHANGED <<session, child, endEvent, pasting>>

\* dismiss() of d in a window with renderer s. A PasteDialog's onDismiss handler
\* forgets it.
Dismiss(s, d) == /\ r' = DetachModal(s, Pane, d)
                 /\ pasting' = (pasting /\ d # PasteDialog)
                 /\ UNCHANGED <<session, child, endEvent, dialogs, before>>

\* What is left after a pending paste is cancelled.
Cancelled(s) == IF pasting THEN DetachModal(s, Pane, PasteDialog) ELSE s

\* terminalPaste()
TerminalPaste(s) == /\ ShowModal(Cancelled(s), PasteDialog)
                    /\ pasting' = TRUE
                    /\ UNCHANGED <<session, child, endEvent>>

\* The clipboard's answer, however late: pasteClipboard().
PasteClipboard == /\ Open
                  /\ r.clipboard = Term
                  /\ TerminalPaste([r EXCEPT !.clipboard = NoWidget])

\* The same of the primary selection: pasteSelection().
PasteSelection == /\ Open
                  /\ r.selection = Term
                  /\ TerminalPaste([r EXCEPT !.selection = NoWidget])

-----------------------------------------------------------------------------
(* Closing *)

\* requestClose() and close(), which deletes the widgets.
Close(s) == /\ r' = ClearRoot(s)
            /\ session' = "closed"
            /\ pasting' = FALSE
            /\ endEvent' = FALSE
            /\ UNCHANGED <<child, dialogs, before>>

\* closeSession() of the only session, in a window with renderer s.
CloseSession(s) == Close(Detach(Cancelled(s), Term))

\* The user closes the window.
RequestClose == Open /\ Close(r)

\* sessionPTYTerminated(), run from the event queue: closes the session ...
SessionPTYTerminated == /\ Open /\ endEvent /\ ~ waits
                        /\ CloseSession(r)

\* ... or waits for a key.
WaitForKey == /\ Open /\ endEvent /\ waits
              /\ r' = SetKeyboardFocus(r, Root)
              /\ session' = "ended"
              /\ endEvent' = FALSE
              /\ UNCHANGED <<child, pasting, dialogs, before>>

-----------------------------------------------------------------------------
(* The window's focus and its keys *)

\* The native window gets the focus or loses it.
WindowFocus == /\ Open
               /\ r' = IF r.focusIn THEN FocusOut(r) ELSE FocusIn(r)
               /\ UNCHANGED rest

\* windowKeyDown(): the about box is not shown over a dialog.
KeyAbout == /\ Open /\ r.focusIn
            /\ ~ IsModal
            /\ ShowModal(KeyDown(r), AboutBox)
            /\ UNCHANGED <<session, child, endEvent, pasting>>

\* terminalKeyDown(), SHORTCUT_PASTE
KeyPaste == /\ Open /\ r.focusIn
            /\ r.focus = Term
            /\ r' = [KeyDown(r) EXCEPT !.clipboard = Term]
            /\ UNCHANGED rest

\* TerminalWindow::keyDown(): the window sees keys only while it has the focus,
\* terminals and the modal pane do not let them pass.
KeyToWindow == /\ r.focusIn
               /\ r.focus = Root
               /\ session = "ended"
               /\ CloseSession(KeyDown(r))

\* Keys go to the dialog that the focused button is in.
InDialog == r.focus \in UNION {Range(Buttons[d]) : d \in Dialogs}

\* Esc, or SHORTCUT_PASTE in a PasteDialog; Enter, on a button that dismisses,
\* does the same.
KeyDismiss == /\ Open /\ r.focusIn
              /\ InDialog
              /\ Dismiss(KeyDown(r), Parent[r.focus])

\* Dialog::keyDown(), Tab and Shift-Tab
KeyTab == /\ Open /\ r.focusIn
          /\ InDialog
          /\ \E next \in {NextKeyboardFocus(r), PrevKeyboardFocus(r)} :
               r' = SetKeyboardFocus(KeyDown(r), next)
          /\ UNCHANGED rest

\* Any other key, and the character that may follow a key.
KeyOther == /\ Open /\ r.focusIn
            /\ ~ (session = "ended" /\ r.focus = Root)
            /\ r' = KeyDown(r)
            /\ UNCHANGED rest

TypeChar == /\ Open /\ r.focusIn
            /\ r' = KeyChar(r)
            /\ UNCHANGED rest

-----------------------------------------------------------------------------
(* The mouse *)

\* The terminal covers the pager; the modal root stands for what is outside of all.
Targets == (MouseTargets(r) \ {Pager}) \cap PointedAt

PointAt(target) == /\ Open
                   /\ r' = UpdateMouseFocus(r, target)
                   /\ UNCHANGED rest

LeaveWindow == /\ Open
               /\ r' = MouseOut(r)
               /\ UNCHANGED rest

\* A press of the wheel on the terminal asks for the primary selection.
Press(target, wheel) ==
  LET s == MouseDown(r, target) IN
  /\ Open
  /\ r.buttons < MaxMouse
  /\ wheel => s.mouse = Term
  /\ r' = IF wheel THEN [s EXCEPT !.selection = Term] ELSE s
  /\ UNCHANGED rest

\* What a click dismisses a dialog on: its button, or anything in the about box.
Dismissing == Dismisses \cup {AboutBox} \cup Range(Buttons[AboutBox])

\* mouseUp() of one of several buttons, or of one held too long for a click, or
\* with a click that does not matter, the second or third in time maybe.
Release == /\ Open
           /\ r.buttons > 0
           /\ r' \in {MouseUp(r)} \cup
                    IF r.buttons > 1 THEN {}
                    ELSE {ClickedThrice(MouseUp(r))} \cup
                         IF r.mouse \in Dismissing THEN {} ELSE {Clicked(MouseUp(r))}
           /\ UNCHANGED rest

\* mouseUp() of the only button held, with a click that dismisses a dialog, and
\* leaves nothing that has the mouse.
Click == /\ Open
         /\ r.buttons = 1
         /\ r.mouse \in Dismissing
         /\ Dismiss([MouseUp(r) EXCEPT !.clicked = NoWidget],
                    IF r.mouse = AboutBox THEN AboutBox ELSE Parent[r.mouse])

-----------------------------------------------------------------------------
Next == /\ \/ CreateTerminal \/ ChildEnds \/ StartSession
           \/ ShowOther \/ PasteClipboard \/ PasteSelection
           \/ RequestClose \/ SessionPTYTerminated \/ WaitForKey
           \/ WindowFocus \/ KeyAbout \/ KeyPaste \/ KeyToWindow \/ KeyDismiss \/ KeyTab
           \/ KeyOther \/ TypeChar
           \/ LeaveWindow \/ Release \/ Click
           \/ \E target \in Targets : PointAt(target)
           \/ \E target \in Targets, wheel \in BOOLEAN : Press(target, wheel)
        /\ UNCHANGED waits

Spec == Init /\ [][Next]_vars

-----------------------------------------------------------------------------
(* Properties *)

\* No widget that the renderer calls, or gives to others, is one that was detached,
\* hence maybe deleted, whatever was pressed, pointed at or asked for when it went:
\* what has the focus, the mouse or an open request for the clipboard or the
\* selection, the modal root, and while it is another than the root, what is to get
\* the focus back. keyDownFocus_ and lastMouseClickTarget_, which are compared and
\* never followed, are not among them: they may name a widget that is gone.
NoDangling ==
  /\ r \in Windows(MaxMouse)
  /\ {r.focus, r.mouse, r.clipboard, r.selection, r.modalRoot}
        \subseteq r.attached \cup {NoWidget}
  /\ IsModal => r.nonModalFocus \in r.attached

\* Of an open window some widget has the focus, a visible one of those that the
\* modal root allows: no key is lost, and none reaches the terminal behind a
\* dialog; and a dialog that is shown has something to focus, so that
\* setKeyboardFocus() is never given a null pointer to dereference.
FocusKept ==
  /\ Open => r.focus # NoWidget
  /\ r.focus # NoWidget => /\ IsDominatedBy(r.focus, r.modalRoot)
                           /\ Available(r, r.focus, Root)
  /\ ~ r.nullCall

\* The widgets that were told last that they have the focus, or the mouse, are the
\* one that has it; and while a widget is attached, focusIn() and focusOut() of it
\* alternate, and so do mouseIn() and mouseOut(). Only in being detached it may be
\* told that it has lost the focus when it knows, as the window has lost its own.
OneIsTold == /\ r.told = IF r.focusIn THEN {r.focus} \ {NoWidget} ELSE {}
             /\ r.hovered = {r.mouse} \ {NoWidget}
             /\ r.again \cap r.attached = {}

\* The window is modal, and the pane shown, exactly while there are dialogs. At
\* most one of them confirms a paste, and the session knows of it.
ModalWhileDialogs ==
  Open => /\ IsModal <=> r.children[Pane] # << >>
          /\ Pane \in r.visible <=> IsModal
          /\ pasting <=> PasteDialog \in Range(r.children[Pane])
          /\ IsInjective(r.children[Pane])

\* When the last of the dialogs goes, the focus returns to what had it when the
\* first came, whatever happened between.
FocusReturns == [][IsModal /\ r'.modalRoot = Root => r'.focus = before]_vars
=============================================================================
