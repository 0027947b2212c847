--------------------------- MODULE MCInputReaders ---------------------------
(***************************************************************************)
(* Streams of up to two tokens, each token the bytes of a unit, or of a    *)
(* few, with what they mean; one that is cut off may follow. Buffers start *)
(* with four bytes and grow three times.                                   *)
(***************************************************************************)
EXTENDS InputReaders

Tok(bytes, means) == [bytes |-> bytes, means |-> means]

Text(cp) == Tok(Utf8(cp), <<[op |-> "text", cp |-> cp]>>)

Args(values) == [i \in 1..Len(values) |-> [value |-> values[i], given |-> TRUE]]
Csi(first, args, final) ==
  Tok(WriteCSI(first, args, final), <<[op |-> "csi", first |-> first, args |-> args, final |-> final]>>)
Query(first, values, final, to) ==
  Tok(WriteCSI(first, Args(values), final), <<[op |-> "reply", to |-> to]>>)
Osc(payload, terminator, means) == Tok(<<ESC, 93>> \o payload \o terminator, means)
Tpp(kind, fields) ==
  LET seq == [kind |-> kind, fields |-> fields]
  IN Tok(OnTheWire(seq), <<[op |-> "tpp", read |-> Read(seq, << >>)]>>)
Bel == <<BEL>>
ST == <<ESC, 92>>

\* A path and a packet with characters that have to be quoted.
Path == <<97, Semicolon>>
Packet == <<BEL, Semicolon, Quote>>

Units ==
  <<Text(97), Text(233), Text(8364), Text(128512),
   Tok(<<LF>>, <<[op |-> "LF"]>>),
   Csi(0, << >>, 109), Csi(0, Args(<<1, 7>>), 109), Csi(0, Args(<<38, 5, 9>>), 109),
   Csi(0, <<[value |-> 0, given |-> FALSE], [value |-> 2, given |-> TRUE]>>, 72),
   Csi(63, Args(<<1049, 1003>>), 104), Csi(63, Args(<<1049>>), 108),
   Query(0, <<6>>, 110, 6), Query(62, << >>, 99, 62),
   Tok(<<ESC, 91, 49, 36, 112>>, << >>),
   Tok(<<ESC, 91, 49, BEL>>, <<[op |-> "notification"]>>),
   Osc(<<48, Semicolon, 116>>, Bel, <<[op |-> "title", text |-> <<116>>]>>),
   Osc(<<56, Semicolon, Semicolon, 117>>, ST, <<[op |-> "link", url |-> <<117>>]>>),
   Osc(<<53, 50, Semicolon, 99, Semicolon>> \o Base64(<<255, 0>>), Bel,
       <<[op |-> "clipboard", text |-> <<255, 0>>]>>),
   Osc(<<120>>, ST, << >>),
   Tpp(Data, <<1, 0, 3, Packet>>), Tpp(OpenFileTransfer, <<<<104>>, Path, 12>>),
   Tok(<<ESC, 40, 48, 113, ESC, 40, 66>>,
       <<[op |-> "charset", lines |-> TRUE], [op |-> "text", cp |-> 9472],
         [op |-> "charset", lines |-> FALSE]>>),
   Tok(<<ESC, 80, 49>>, <<[op |-> "text", cp |-> 49]>>),
   Tok(<<ESC, 77>>, <<[op |-> "RI"]>>)>>

\* Cut off: within CSI, OSC, t++ and a character.
Cuts == <<<< >>, <<ESC>>, <<ESC, 91, 51>>, <<ESC, 93, 48, Semicolon, ESC>>, <<ESC, 80, 43>>, <<226, 130>>>>

\* A title that does not fit.
Long == Osc(<<48, Semicolon>> \o [i \in 1..30 |-> 120], Bel, <<[op |-> "title", text |-> [i \in 1..30 |-> 120]]>>)

\* The numbers of bytes of a unit after which the reader does not wait for the
\* others. A lone ESC is kept, as a t++ sequence may follow.
FragileCuts(side, unit) ==
  CASE side = "renderer" /\ unit[1] = ESC /\ IsPrefix(MouseIntroducer, unit) -> {2}
    [] side = "renderer" /\ unit[1] = ESC /\ unit[2] \in {79, 91} /\ ~IsPrefix(MouseIntroducer, unit) ->
         2..Max({2, Len(unit) - 1})
    [] side = "renderer" /\ unit[1] > 127 -> 1..(Len(unit) - 1)
    [] side = "bypass" -> {k \in 2..Len(unit) : unit[1] = Quote /\ unit[k] = Colon}
    [] OTHER -> {}

Stream(side, tokens, cut) ==
  LET before(n) == FlattenSeq([i \in 1..n |-> tokens[i].bytes])
      starts(n) == Len(before(n - 1))
      bytes == before(Len(tokens)) \o cut
      n == Len(tokens)
  IN [side |-> side, bytes |-> bytes,
      means |-> FlattenSeq([i \in 1..n |-> tokens[i].means]),
      whole |-> cut = << >>,
      starts |-> {starts(i) : i \in 1..(n + 1)} \cup {Len(bytes)},
      fragile |-> IF side = "terminal" THEN {starts(i) : i \in {j \in 1..n : Len(tokens[j].bytes) > 32}}
                  ELSE UNION {{starts(i) + k : k \in FragileCuts(side, tokens[i].bytes)} : i \in 1..n},
      looks |-> << >>]

\* Attributes need more units to go wrong.
Renditions ==
  <<<<Csi(0, Args(<<1, 7>>), 109), Csi(63, Args(<<1049>>), 104), Csi(0, Args(<<1, 7, 38, 5, 300, 3>>), 109),
     Csi(63, Args(<<1049>>), 108), Csi(63, Args(<<1049>>), 104), Csi(0, << >>, 109)>>,
   <<Csi(0, Args(<<7, 1>>), 109), Csi(0, Args(<<7, 48, 2, 1, 2, 3>>), 109), Csi(0, << >>, 109), Text(97)>>>>

\* Every combination of an element of s with one of t.
Combined(F(_, _), s, t) ==
  [i \in 1..(Len(s) * Len(t)) |-> F(s[1 + (i - 1) \div Len(t)], t[1 + ((i - 1) % Len(t))])]

ToTerminal ==
  Combined(LAMBDA a, b : Stream("terminal", <<a, b>>, << >>), Units, Units)
  \o Combined(LAMBDA a, cut : Stream("terminal", <<a>>, cut), Units, Cuts)
  \o [i \in 1..Len(Renditions) |-> Stream("terminal", Renditions[i], << >>)]
  \o <<Stream("terminal", <<Text(97), Long, Text(98)>>, << >>)>>

\* A client is sent answers, and the user may type.
Sent == <<Tpp(Ack, <<WriteTo([kind |-> ViewRemoteFile, fields |-> <<7>>]), 7>>),
          Tpp(TransferStatus, <<7, 10, 0>>), Tpp(Nack, <<Path, <<110>>>>),
          Tok(<<120>>, << >>), Tok(<<ESC, 91, 65>>, << >>)>>

ToClient ==
  LET pairs == Combined(LAMBDA a, b : <<a, b>>, Sent, Sent)
  IN Combined(LAMBDA ab, c : Stream("client", Append(ab, c), << >>), pairs, Sent)
     \o [i \in 1..Len(pairs) |-> Stream("client", pairs[i], <<ESC, 80>>)]

\* Typed at AnsiRenderer: characters, keys and the mouse.
KeyUnit(bytes, code, mods) == Tok(bytes, Report([code |-> code, mods |-> mods]))
CharUnit(cp, code, mods) ==
  Tok(KeyChar(cp), Report([code |-> code, mods |-> mods]) \o <<[op |-> "keyChar", cp |-> cp]>>)
SentKey(code, mods) == KeyUnit(KeyDown([code |-> code, mods |-> mods], "normal"), code, mods)
MouseUnit(bytes, op, mods, button, x, y) ==
  Tok(bytes, <<[op |-> op, mods |-> mods, x |-> x, y |-> y, button |-> button]>>)

ReportUnits ==
  <<CharUnit(97, 65, {}), CharUnit(233, 48, {"Ctrl"}), CharUnit(8364, 48, {"Ctrl"}),
    SentKey(13, {}), SentKey(38, {}), SentKey(65, {"Alt"}), SentKey(120, {"Ctrl", "Shift"}), SentKey(112, {}),
    KeyUnit(KeyDown([code |-> 67, mods |-> {"Ctrl"}], "normal"), 67, {"Ctrl", "Shift"}),
    MouseUnit(MouseDown("Left", {"Shift"}, 0, 11), "mouseDown", {"Shift"}, "Left", 0, 11),
    MouseUnit(MouseUp("Wheel", {"Alt", "Ctrl"}, 99, 2), "mouseUp", {"Alt", "Ctrl"}, "Wheel", 99, 2),
    MouseUnit(MouseMove("Right", {}, 3, 4), "mouseMove", {}, "Right", 3, 4),
    Tok(MouseWheel(1, {}, 1, 1),
        <<[op |-> "mouseWheel", mods |-> {}, x |-> 1, y |-> 1, button |-> "Left", by |-> 1]>>)>>

ToRenderer ==
  Combined(LAMBDA a, b : Stream("renderer", <<a, b>>, << >>), ReportUnits, ReportUnits)
  \o Combined(LAMBDA a, cut : Stream("renderer", <<a>>, cut), ReportUnits, <<<<ESC>>, <<ESC, 80, 43>>>>)
  \o <<Stream("renderer", <<SentKey(38, {}), SentKey(219, {"Alt"})>>, << >>),
        Stream("renderer", <<SentKey(38, {}), Tok(OnTheWire([kind |-> Nack, fields |-> <<Path, Path>>]), << >>)>>, << >>)>>

\* Typed and resized through the bypass.
BypassUnits ==
  <<Tok(Send(<<97>>), <<Typed(97)>>), Tok(Send(<<Quote>>), <<Typed(Quote)>>),
    Tok(Send(<<LetterR>>), <<Typed(LetterR)>>),
    Tok(Resize(80, 5), <<[op |-> "resize", cols |-> 80, rows |-> 5]>>)>>

ToBypass ==
  LET pairs == Combined(LAMBDA a, b : <<a, b>>, BypassUnits, BypassUnits)
  IN Combined(LAMBDA ab, c : Stream("bypass", Append(ab, c), << >>), pairs, BypassUnits)

\* Drawn by AnsiRenderer: two cells, below each other or not.
Fonts == <<{}, {"bold"}, {"bold", "italic"}, {"italic", "underline"}, {"strike", "blink", "underline"}>>
CellOf(font, c) == [fg |-> <<c, 0, 255>>, bg |-> <<255 - c, c, 0>>, font |-> font, cp |-> 97 + c]
DrawnStream(rows) ==
  LET items == Render(rows, 1, 0)
      unit(i) == Tok(Drawn(<<items[i]>>), <<items[i]>>)
  IN [Stream("terminal", [i \in 1..Len(items) |-> unit(i)], << >>) EXCEPT !.looks = FlattenSeq(rows)]

ToDraw ==
  Combined(LAMBDA f, g : DrawnStream(<<<<CellOf(f, 0), CellOf(g, 0), CellOf(f, 1)>>>>), Fonts, Fonts)
  \o [i \in 1..Len(Fonts) |-> DrawnStream(<<<<CellOf({}, 0)>>, <<CellOf(Fonts[i], 1)>>>>)]

MCStreams == ToTerminal \o ToClient \o ToRenderer \o ToBypass \o ToDraw
=============================================================================
