---------------------------- MODULE EscapeParser ----------------------------
(***************************************************************************)
(* How AnsiTerminal cuts its input into units: received() and              *)
(* parseEscapeSequence() of ui-terminal/ansi_terminal.cpp, CSISequence and *)
(* OSCSequence. NextUnit(b) is the first unit of the bytes b: how many     *)
(* bytes it takes, none when it is incomplete, and what is to be done. The *)
(* modules that use it say what doing it means.                            *)
(***************************************************************************)
EXTENDS TppSequence

Incomplete == [n |-> 0, do |-> [op |-> "none"]]
Unit(n, do) == [n |-> n, do |-> do]
Plain(op) == [op |-> op]

-----------------------------------------------------------------------------
(* CSI sequences: ESC [ parameters intermediates final. *)

ParameterBytes == 48..63
IntermediateBytes == 32..47
IsFinalByte(c) == c \in 64..127   \* char is signed

\* The arguments, each with whether it was given. A semicolon belongs to the
\* argument before it, so that nothing follows a last semicolon.
RECURSIVE Arguments(_)
Arguments(s) ==
  LET d == Span(Digits, s) IN
  CASE s = << >> -> << >>
    [] s # << >> /\ s[1] = Semicolon -> <<[value |-> 0, given |-> FALSE]>> \o Arguments(Tail(s))
    [] d.head # << >> -> <<[value |-> Number(d.head), given |-> TRUE]>> \o
                         Arguments(IF d.tail # << >> /\ d.tail[1] = Semicolon THEN Tail(d.tail) ELSE d.tail)
    [] OTHER -> Arguments(Tail(s))

\* CSISequence::Parse() and what parseEscapeSequence() makes of its result: an
\* invalid sequence is skipped, without the byte that cannot end it.
ParseCSI(b) ==
  LET parameters == Span(ParameterBytes, SubSeq(b, 3, Len(b)))
      intermediate == Span(IntermediateBytes, parameters.tail)
      marked == parameters.head # << >> /\ ~IsDigit(parameters.head[1]) /\ parameters.head[1] # Semicolon
      arguments == IF marked THEN Tail(parameters.head) ELSE parameters.head
      size == 2 + Len(parameters.head) + Len(intermediate.head)
  IN IF intermediate.tail = << >> THEN Incomplete
     ELSE LET final == intermediate.tail[1] IN
          IF ~IsFinalByte(final) THEN Unit(size, Plain("none"))
          ELSE IF intermediate.head # << >> \/ \E i \in 1..Len(arguments) :
                                                 ~IsDigit(arguments[i]) /\ arguments[i] # Semicolon
               THEN Unit(size + 1, Plain("none"))
               ELSE Unit(size + 1, [op |-> "csi", first |-> IF marked THEN parameters.head[1] ELSE 0,
                                    args |-> Arguments(arguments), final |-> final])

\* operator << : the text of a sequence.
WriteCSI(first, args, final) ==
  <<ESC, 91>> \o (IF first = 0 THEN << >> ELSE <<first>>)
  \o FlattenSeq([i \in 1..Len(args) |-> (IF args[i].given THEN Decimal(args[i].value) ELSE << >>)
                                        \o (IF i < Len(args) THEN <<Semicolon>> ELSE << >>)])
  \o <<final>>

-----------------------------------------------------------------------------
(* OSC sequences: ESC ] number ; values BEL, or ESC \ in the place of BEL. *)

\* OSCSequence::Parse(): without a number and a semicolon it is invalid, and
\* is skipped to where it ends.
ParseOSC(b) ==
  LET number == Span(Digits, SubSeq(b, 3, Len(b)))
      numbered == number.head # << >> /\ number.tail # << >> /\ number.tail[1] = Semicolon
      start == 3 + Len(number.head) + (IF numbered THEN 1 ELSE 0)
      ends == {i \in start..Len(b) : \/ b[i] = BEL
                                     \/ b[i] = ESC /\ i < Len(b) /\ b[i + 1] = 92}
  IN IF ends = {} THEN Incomplete
     ELSE LET end == CHOOSE i \in ends : \A j \in ends : i <= j
              size == IF b[end] = BEL THEN end ELSE end + 1
          IN IF numbered
             THEN Unit(size, [op |-> "osc", num |-> Number(number.head),
                              values |-> Split(SubSeq(b, start, end - 1), Semicolon)])
             ELSE Unit(size, Plain("none"))

-----------------------------------------------------------------------------
(* Everything else. *)

\* parseTppSequence(): incomplete without its BEL, whatever it is.
ParseTpp(b) ==
  LET end == FindSequenceEnd(b, 4)
      kind == ParseKind(SubSeq(b, 4, end - 1))
  IN IF end > Len(b) THEN Incomplete
     ELSE Unit(end, [op |-> "tpp", kind |-> kind.kind, payload |-> kind.payload])

\* The character set after ( ) * and +; only ( knows the line drawing one.
ParseCharset(b) ==
  CASE Len(b) = 2 -> Incomplete
    [] Len(b) > 2 /\ b[2] = 40 /\ b[3] \in {48, 66} -> Unit(3, [op |-> "charset", lines |-> b[3] = 48])
    [] OTHER -> Unit(3, Plain("none"))

ParseEscapeSequence(b) ==
  CASE Len(b) = 1 -> Incomplete
    [] Len(b) > 1 /\ b[2] = 91 -> ParseCSI(b)
    [] Len(b) > 1 /\ b[2] = 93 -> ParseOSC(b)
    [] Len(b) > 1 /\ b[2] \in {55, 56, 77} ->
         Unit(2, Plain(CASE b[2] = 55 -> "DECSC" [] b[2] = 56 -> "DECRC" [] OTHER -> "RI"))
    [] Len(b) > 1 /\ b[2] = 80 ->
         IF Len(b) = 2 THEN Incomplete
         ELSE IF b[3] = 43 THEN ParseTpp(b) ELSE Unit(2, Plain("none"))
    [] Len(b) > 1 /\ b[2] \in 40..43 -> ParseCharset(b)
    [] Len(b) > 1 /\ b[2] \in {61, 62} -> Unit(2, [op |-> "keypad", application |-> b[2] = 61])
    [] OTHER -> Unit(2, Plain("none"))

\* The switch of received().
NextUnit(b) ==
  CASE b[1] = ESC -> ParseEscapeSequence(b)
    [] b[1] = BEL -> Unit(1, Plain("notification"))
    [] b[1] = TAB -> Unit(1, Plain("TAB"))
    [] b[1] = LF -> Unit(1, Plain("LF"))
    [] b[1] = CR -> Unit(1, Plain("CR"))
    [] b[1] = BACKSPACE -> Unit(1, Plain("BS"))
    [] OTHER -> IF Len(b) < CharSize(b[1]) THEN Incomplete
                ELSE Unit(CharSize(b[1]), [op |-> "text", cp |-> Codepoint(b)])
=============================================================================
