---------------------------- MODULE MCWidgetTree ----------------------------
(* The window of terminalpp with two terminals and two dialogs. *)
EXTENDS WidgetTree

MCKind == [win |-> "panel", main |-> "panel", pager |-> "pager", t1 |-> "terminal",
           t2 |-> "terminal", pane |-> "panel",
           d1 |-> "panel", h1 |-> "panel", l1 |-> "label", b1 |-> "button", x1 |-> "label",
           d2 |-> "panel", b2 |-> "button"]

MCWidgets == DOMAIN MCKind

None == [kind |-> "none", h |-> "left", v |-> "top"]
Row == [kind |-> "row", h |-> "left", v |-> "top"]
Column(v) == [kind |-> "column", h |-> "center", v |-> v]
Maximized == [kind |-> "maximized", h |-> "left", v |-> "top"]

MCLayoutOf == [w \in MCWidgets |->
  CASE w \in {"win", "pager"} -> Maximized
    [] w \in {"main", "d1", "d2"} -> Column("top")
    [] w = "pane" -> Column("bottom")
    [] w = "h1" -> Row
    [] OTHER -> None]

MCHints == [w \in MCWidgets |->
  CASE w \in {"b1", "b2"} -> Size(AutoSize, AutoSize)
    [] w \in {"d1", "d2", "h1", "x1"} -> Size(AutoLayout, AutoSize)
    [] OTHER -> Size(AutoLayout, AutoLayout)]

MCAssembly == << <<"d1", "h1">>, <<"h1", "l1">>, <<"h1", "b1", "back">>, <<"h1", "l1", "back">>,
                 <<"d1", "x1">>, <<"d2", "b2">>,
                 <<"win", "pane">>, <<"main", "pager">>, <<"win", "main", "back">>,
                 <<"pager", "t1">> >>

MCOpaque == {"win", "main", "d1", "h1", "b1", "d2", "b2"}
MCButtonOf == [d \in {"d1", "d2"} |-> IF d = "d1" THEN "b1" ELSE "b2"]
MCTexts == << <<"x", " ", "x">>, <<"x", "n", "x", "x">> >>
MCSizes == <<Size(3, 4), Size(2, 3)>>
=============================================================================
