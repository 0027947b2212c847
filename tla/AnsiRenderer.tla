---------------------------- MODULE AnsiRenderer ----------------------------
(***************************************************************************)
(* AnsiRenderer (ui-terminal/ansi_renderer.{h,cpp}) draws widgets inside   *)
(* another terminal: what it writes for the cells of a rectangle, and what *)
(* it makes of the keys and mouse reports it reads back; with the other    *)
(* side of both, the keys and mouse reports that AnsiTerminal writes. Both *)
(* sides take the bytes of keys from ui-terminal/ansi_keys.inc.h, and the  *)
(* renderer finds them with the trie of helpers/fsm.h.                     *)
(***************************************************************************)
EXTENDS EscapeParser, FiniteSets, FiniteSetsExt

Entry(code, mods, bytes) == [key |-> [code |-> code, mods |-> mods], bytes |-> bytes]

-----------------------------------------------------------------------------
(* ansi_keys.inc.h. *)

\* A letter, with the modifiers in the order of the file.
VtKey(c) ==
  LET plain == <<Entry(c, {}, <<c + 32>>), Entry(c, {"Shift"}, <<c>>),
                 Entry(c, {"Ctrl"}, <<c - 64>>), Entry(c, {"Ctrl", "Shift"}, <<c - 64>>)>>
  IN plain \o [i \in 1..4 |-> Entry(c, plain[i].key.mods \cup {"Alt"}, <<ESC>> \o plain[i].bytes)]

VtNum(c) == <<Entry(c, {}, <<c>>), Entry(c, {"Alt"}, <<ESC, c>>)>>

Modifiers == <<{"Shift"}, {"Alt"}, {"Shift", "Alt"}, {"Ctrl"}, {"Ctrl", "Shift"}, {"Ctrl", "Alt"},
               {"Ctrl", "Alt", "Shift"}>>
VtModifiers(code, number, final) ==
  [i \in 1..7 |-> Entry(code, Modifiers[i], <<ESC, 91>> \o Decimal(number) \o <<Semicolon, 49 + i, final>>)]

\* Alt and Shift with the digits, by their characters.
AltShiftDigits == <<41, 33, 64, 35, 36, 37, 94, 38, 42, 40>>

\* Keys of characters: the code, the character and that with Shift.
Punctuation ==
  <<<<192, 96, 126>>, <<189, 45, 95>>, <<187, 61, 43>>, <<219, 91, 123>>, <<221, 93, 125>>, <<220, 92, 124>>,
    <<186, 59, 58>>, <<222, 39, 34>>, <<188, 44, 60>>, <<190, 46, 62>>, <<191, 47, 63>>>>

\* Up, Down, Right, Left, Home and End; F1 to F4; and the keys with a number:
\* PageUp, PageDown, F5 to F12, and, without modifiers, Insert and Delete.
Arrows == <<<<38, 65>>, <<40, 66>>, <<39, 67>>, <<37, 68>>, <<36, 72>>, <<35, 70>>>>
Functions14 == [i \in 1..4 |-> <<111 + i, 79 + i>>]
Numbered == <<<<33, 5>>, <<34, 6>>, <<116, 15>>, <<117, 17>>, <<118, 18>>, <<119, 19>>, <<120, 20>>, <<121, 21>>,
              <<122, 23>>, <<123, 24>>>>
Tilde == 126

\* What F makes of the elements of s, one after another.
Each(F(_), s) == FlattenSeq([i \in 1..Len(s) |-> F(s[i])])

Table ==
  Each(VtKey, [i \in 1..26 |-> 64 + i]) \o Each(VtNum, [i \in 1..10 |-> 47 + i])
  \o <<Entry(48, {"Ctrl"}, << >>)>>   \* "\000", a string without characters
  \o [i \in 1..10 |-> Entry(47 + i, {"Shift", "Alt"}, <<ESC, AltShiftDigits[i]>>)]
  \o Each(LAMBDA p : <<Entry(p[1], {"Alt"}, <<ESC, p[2]>>), Entry(p[1], {"Alt", "Shift"}, <<ESC, p[3]>>)>>, Punctuation)
  \o Each(LAMBDA k : <<Entry(k[1], {}, <<ESC, 91, k[2]>>)>>, Arrows)
  \o Each(LAMBDA k : <<Entry(k[1], {}, <<ESC, 91>> \o Decimal(k[2]) \o <<Tilde>>)>>,
          Numbered \o <<<<45, 2>>, <<46, 3>>>>)
  \o Each(LAMBDA k : <<Entry(k[1], {}, <<ESC, 79, k[2]>>)>>, Functions14)
  \o <<Entry(13, {}, <<CR>>), Entry(9, {}, <<TAB>>), Entry(27, {}, <<ESC>>), Entry(8, {}, <<127>>)>>
  \o Each(LAMBDA k : VtModifiers(k[1], 1, k[2]), Arrows \o Functions14)
  \o Each(LAMBDA k : VtModifiers(k[1], k[2], Tilde), Numbered)
  \o <<Entry(219, {"Ctrl"}, <<ESC>>), Entry(220, {"Ctrl"}, <<28>>), Entry(221, {"Ctrl"}, <<29>>)>>

-----------------------------------------------------------------------------
(* AnsiTerminal: what it writes for the user's input. *)

PrintableKeys == {[code |-> c, mods |-> m] : c \in 65..90, m \in {{}, {"Shift"}}}
                 \cup {[code |-> c, mods |-> {}] : c \in 48..57}

\* keyDown(): what a key that is not printable writes. Application mode changes
\* the second byte of the arrows, when they have no modifiers.
KeyDown(key, cursorMode) ==
  LET entries == SelectSeq(Table, LAMBDA e : e.key = key)
      application == cursorMode = "application" /\ key.mods = {} /\ \E i \in 1..6 : Arrows[i][1] = key.code
  IN CASE entries = << >> \/ key \in PrintableKeys -> << >>
       [] application -> [entries[1].bytes EXCEPT ![2] = 79]
       [] OTHER -> entries[1].bytes

\* keyChar().
KeyChar(cp) == Written(cp)

EncodeMouseButton(button, mods) ==
  (IF "Shift" \in mods THEN 4 ELSE 0) + (IF "Alt" \in mods THEN 8 ELSE 0) + (IF "Ctrl" \in mods THEN 16 ELSE 0)
  + (CASE button = "Left" -> 0 [] button = "Right" -> 1 [] button = "Wheel" -> 2)

\* sendMouseEvent(), in the SGR encoding.
SendMouseEvent(button, x, y, end) ==
  <<ESC, 91, 60>> \o Decimal(button) \o <<Semicolon>> \o Decimal(x + 1) \o <<Semicolon>> \o Decimal(y + 1) \o <<end>>

\* mouseDown(), mouseUp(), mouseMove() after a button, and mouseWheel().
MouseDown(button, mods, x, y) == SendMouseEvent(EncodeMouseButton(button, mods), x, y, 77)
MouseUp(button, mods, x, y) == SendMouseEvent(EncodeMouseButton(button, mods), x, y, 109)
MouseMove(button, mods, x, y) == SendMouseEvent(EncodeMouseButton(button, mods) + 32, x, y, 77)
MouseWheel(by, mods, x, y) ==
  SendMouseEvent(EncodeMouseButton(IF by > 0 THEN "Left" ELSE "Right", mods) + 64, x, y, 77)

-----------------------------------------------------------------------------
(* AnsiRenderer: what it makes of it. *)

MouseIntroducer == <<ESC, 91, 60>>
InvalidKey == [code |-> 0, mods |-> {}]

\* What is put into the trie VtKeys_: of the keys with the same bytes the last
\* one, and the introducer of mouse reports.
InitializeVTKeys ==
  LET table == Table
      last(b) == table[Max({i \in 1..Len(table) : table[i].bytes = b})].key
  IN [b \in {table[i].bytes : i \in 1..Len(table)} |-> last(b)] @@ (MouseIntroducer :> InvalidKey)

\* MatchingFSM::match(): the longest beginning of b that is in the trie vtKeys.
\* The empty one is, by Ctrl and 0, so that there is always one.
Match(vtKeys, b) ==
  LET size == Max({n \in 0..Min({7, Len(b)}) : SubSeq(b, 1, n) \in DOMAIN vtKeys})
  IN [size |-> size, key |-> vtKeys[SubSeq(b, 1, size)]]

\* match() looks at the byte that follows b in the trie whether it was received
\* or not.
ReadsOn(vtKeys, b) == \E k \in DOMAIN vtKeys : IsStrictPrefix(b, k)

Bit(n, value) == (n \div value) % 2 = 1

\* parseSGRMouse(): wheel reports of the second button turn the wheel by two.
ParseSGRMouse(csi) ==
  LET n == csi.args[1].value
      button == CASE Bit(n, 1) -> "Right" [] ~Bit(n, 1) /\ Bit(n, 2) -> "Wheel" [] OTHER -> "Left"
      event(op) == [op |-> op, mods |-> (IF Bit(n, 4) THEN {"Shift"} ELSE {}) \cup (IF Bit(n, 8) THEN {"Alt"} ELSE {})
                                        \cup (IF Bit(n, 16) THEN {"Ctrl"} ELSE {}),
                    x |-> csi.args[2].value - 1, y |-> csi.args[3].value - 1, button |-> button]
  IN CASE csi.first # 60 \/ Len(csi.args) # 3 -> << >>
       [] Bit(n, 64) -> IF button = "Wheel" THEN << >>
                        ELSE <<event("mouseWheel") @@ [by |-> IF button = "Left" THEN 1 ELSE 2]>>
       [] ~Bit(n, 64) /\ Bit(n, 32) -> <<event("mouseMove")>>
       [] csi.final = 77 /\ ~Bit(n, 64) /\ ~Bit(n, 32) -> <<event("mouseDown")>>
       [] csi.final = 109 /\ ~Bit(n, 64) /\ ~Bit(n, 32) -> <<event("mouseUp")>>
       [] OTHER -> << >>

IsPrintable(cp) == cp >= 32 /\ cp # 127

Report(key) == <<[op |-> "keyDown", key |-> key]>>

\* received(): how many of the bytes b it takes, and the events. A key is down
\* before its character is known to be whole: that is early, and the key is down
\* again when the rest is there. readsOn is whether the trie looks past b.
RECURSIVE Received(_, _)
Received(vtKeys, b) ==
  LET match == Match(vtKeys, b)
      csi == ParseCSI(b)
      size == CharSize(b[1])
      cp == Codepoint(b)
      after(n, events) == LET others == Received(vtKeys, SubSeq(b, n + 1, Len(b)))
                          IN [others EXCEPT !.n = n + @, !.events = events \o @, !.readsOn = @ \/ ReadsOn(vtKeys, b)]
      stop(events) == [n |-> 0, events |-> events, early |-> events # << >>, readsOn |-> ReadsOn(vtKeys, b)]
  IN CASE b = << >> -> [n |-> 0, events |-> << >>, early |-> FALSE, readsOn |-> FALSE]
       [] b # << >> /\ match.key = InvalidKey ->
            IF csi.n = 0 THEN stop(<< >>)
            ELSE after(csi.n, IF csi.do.op = "csi" THEN ParseSGRMouse(csi.do) ELSE << >>)
       [] OTHER -> IF size > Len(b) THEN stop(Report(match.key))
                   ELSE after(Max({size, match.size}),
                              Report(match.key) \o IF IsPrintable(cp) THEN <<[op |-> "keyChar", cp |-> cp]>> ELSE << >>)

-----------------------------------------------------------------------------
(* AnsiRenderer: what it draws. *)

Sgr(values) == [op |-> "csi", first |-> 0, args |-> [i \in 1..Len(values) |-> [value |-> values[i], given |-> TRUE]],
                final |-> 109]
SetCursor(x, y) == [Sgr(<<y + 1, x + 1>>) EXCEPT !.final = 72]
Fg24(c) == Sgr(<<38, 2>> \o c.fg)
Bg24(c) == Sgr(<<48, 2>> \o c.bg)

\* The codes that start and end each kind of font, in the order they are written.
FontCodes == <<<<"bold", 1, 22>>, <<"italic", 3, 23>>, <<"underline", 4, 24>>, <<"strike", 9, 29>>, <<"blink", 5, 25>>>>
If(condition, item) == IF condition THEN <<item>> ELSE << >>

\* A bug: what a cell does not have any more is not ended.
Changes_NeverEnds(from, to) ==
  If(from.fg # to.fg, Fg24(to)) \o If(from.bg # to.bg, Bg24(to))
  \o Each(LAMBDA f : If(f[1] \in to.font \ from.font, Sgr(<<f[2]>>)), FontCodes)

\* What is written between two cells.
Changes(from, to) ==
  If(from.fg # to.fg, Fg24(to)) \o If(from.bg # to.bg, Bg24(to))
  \o Each(LAMBDA f : If((f[1] \in from.font) # (f[1] \in to.font), Sgr(<<IF f[1] \in to.font THEN f[2] ELSE f[3]>>)),
          FontCodes)

\* render(): of the rectangle of rows, sequences of cells, whose first cell is
\* at x, y.
Render(rows, x, y) ==
  LET width == Len(rows[1])
      cell(i) == rows[1 + (i - 1) \div width][1 + ((i - 1) % width)]
      line(i) == If((i - 1) % width = 0, SetCursor(x, y + (i - 1) \div width))
      start == <<Sgr(<<0>>), Fg24(cell(1)), Bg24(cell(1))>>
               \o Each(LAMBDA f : If(f[1] \in cell(1).font, Sgr(<<f[2]>>)), FontCodes)
  IN start \o FlattenSeq([i \in 1..(width * Len(rows)) |->
       line(i) \o Changes(cell(IF i = 1 THEN 1 ELSE i - 1), cell(i)) \o <<[op |-> "text", cp |-> cell(i).cp]>>])

\* The bytes of what is drawn.
Drawn(items) == Each(LAMBDA i : IF i.op = "text" THEN Written(i.cp) ELSE WriteCSI(i.first, i.args, i.final), items)
=============================================================================
