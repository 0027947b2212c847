-------------------------- MODULE MCTerminalWindow --------------------------
(* The widgets of terminalpp's window: three dialogs, one with two buttons. *)
EXTENDS TerminalWindow

CONSTANTS root, pager, term, pane, paste, about, other, yes, no, aboutX, otherX

MCButtons == paste :> <<yes, no>> @@ about :> <<aboutX>> @@ other :> <<otherX>>
MCDismisses == {yes, no, aboutX, otherX}
MCFocusable == {root, term} \cup MCDismisses
MCWidgets == {pager, pane, paste, about, other} \cup MCFocusable
MCParent == [w \in MCWidgets |-> CASE w = root -> NoWidget
                                   [] w \in {pager, pane} -> root
                                   [] w = term -> pager
                                   [] w \in {paste, about, other} -> pane
                                   [] w \in {yes, no} -> paste
                                   [] w = aboutX -> about
                                   [] w = otherX -> other]
=============================================================================
