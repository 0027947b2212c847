------------------------------- MODULE Bypass -------------------------------
(***************************************************************************)
(* The bypass of the Windows pseudoconsole: BypassPTYMaster (tpp-lib/      *)
(* bypass_pty.cpp) writes input and resizes into one pipe, and the program *)
(* tpp-bypass (tpp-bypass/main_bypass.cpp) takes them apart for the        *)
(* pseudoterminal it made. A backtick starts a command and is doubled in   *)
(* what is typed (Quote is its code).                                      *)
(***************************************************************************)
EXTENDS Bytes

Colon == 58
LetterR == 114

\* A bug: a backtick of the input is not doubled.
Send_Plain(input) == input

\* BypassPTYMaster::send(): every backtick is written at the end of one piece and
\* at the start of the next.
Send(input) == FlattenSeq([i \in 1..Len(input) |-> IF input[i] = Quote THEN <<Quote, Quote>> ELSE <<input[i]>>])

\* BypassPTYMaster::resize().
Resize(cols, rows) == <<Quote, LetterR>> \o Decimal(cols) \o <<Colon>> \o Decimal(rows) \o <<Semicolon>>

\* What decodeInput() does with the n bytes it takes: bytes that are written to
\* the pseudoterminal, and its new sizes; it may throw, and read what was not
\* received.
Nothing == [n |-> 0, events |-> << >>, throws |-> FALSE, readsOn |-> FALSE]
Typed(byte) == [op |-> "typed", byte |-> byte]

\* The resize command, of the bytes after "`r". ParseNumber() wants a byte after
\* the number; when there is none after the colon, it looks at what is there.
ResizeCommand(b) ==
  LET cols == Span(Digits, b)
      rows == Span(Digits, Tail(cols.tail))
  IN CASE cols.tail = << >> -> Nothing
       [] cols.tail # << >> /\ cols.tail[1] # Colon -> [Nothing EXCEPT !.throws = TRUE]
       [] cols.tail = <<Colon>> -> [Nothing EXCEPT !.readsOn = TRUE]
       [] OTHER -> IF rows.tail = << >> THEN Nothing
                   ELSE IF rows.tail[1] # Semicolon THEN [Nothing EXCEPT !.throws = TRUE]
                   ELSE [Nothing EXCEPT !.n = Len(b) - Len(rows.tail) + 3,
                           !.events = <<[op |-> "resize", cols |-> Number(cols.head), rows |-> Number(rows.head)]>>]

\* The first byte or command of b.
DecodeOne(b) ==
  CASE b[1] # Quote -> [Nothing EXCEPT !.n = 1, !.events = <<Typed(b[1])>>]
    [] b = <<Quote>> -> Nothing
    [] b[1] = Quote /\ Len(b) > 1 /\ b[2] = Quote -> [Nothing EXCEPT !.n = 2, !.events = <<Typed(Quote)>>]
    [] b[1] = Quote /\ Len(b) > 1 /\ b[2] = LetterR -> ResizeCommand(SubSeq(b, 3, Len(b)))
    [] OTHER -> [Nothing EXCEPT !.throws = TRUE]

\* decodeInput(): what is incomplete is left for later.
RECURSIVE DecodeInput(_)
DecodeInput(b) ==
  LET one == DecodeOne(b)
      others == DecodeInput(SubSeq(b, one.n + 1, Len(b)))
  IN CASE b = << >> -> Nothing
       [] b # << >> /\ one.n = 0 -> one
       [] OTHER -> [others EXCEPT !.n = one.n + @, !.events = one.events \o @]
=============================================================================
