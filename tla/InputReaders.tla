---------------------------- MODULE InputReaders ----------------------------
(***************************************************************************)
(* The threads that read a stream of bytes and find units in it: that of   *)
(* PTYBuffer (tpp-lib/pty_buffer.h) for AnsiTerminal, which reads what the *)
(* application writes, that of TerminalClient (tpp-lib/terminal_client.    *)
(* cpp), which reads what the terminal sends to ropen or to AnsiRenderer,  *)
(* and that of tpp-bypass. All receive the stream in chunks of any size    *)
(* and keep what is incomplete at the start of their buffers. Screens are  *)
(* the business of Terminal; here are the rendition attributes, the modes, *)
(* the replies and the repainting.                                         *)
(***************************************************************************)
EXTENDS AnsiRenderer, Bypass

CONSTANTS
  Streams,            \* what may be written, a sequence of [side, bytes, means, whole, starts,
                      \* fragile, looks]
  DefaultBufferSize,  \* PTYBuffer's: 1024
  MaxBufferSize,      \* PTYBuffer's: 1024 * 1024
  ClientBufferSize,   \* TerminalClient's DEFAULT_BUFFER_SIZE: 1024
  BypassBufferSize,   \* bufferSize_ of tpp-bypass: 10240
  MaxLost             \* bound: a reader that lost its place so often is not followed any further

(***************************************************************************)
(* A stream is written to a "terminal", to a "client", to a "renderer" or  *)
(* to the "bypass". Its bytes mean a sequence of outcomes; it is whole     *)
(* unless it stops within a unit; units start after starts bytes. After    *)
(* fragile bytes of it the reader may lose its place: a unit longer than   *)
(* MaxBufferSize starts there, or what follows is not waited for when a    *)
(* chunk ends there. The text of what AnsiRenderer draws shows the cells   *)
(* of looks.                                                               *)
(***************************************************************************)

VARIABLES
  vtKeys,    \* VtKeys_ of AnsiRenderer; nothing for the others
  stream,    \* what is written, one of Streams
  received,  \* how many of its bytes were received
  buffer,    \* the received bytes that are not processed
  at,        \* x of received(): how many of them are
  size,      \* bufferSize
  pc,        \* the reader: "receive", "parse" (with bufferLock_), "tpp", "keep", "ended", "failed" or
             \* "undefined"
  done,      \* history: what was done for the units found, in order
  lost,      \* history: where in the stream a reader lost its place
  repaint,   \* whether a repaint is requested and not made
  drawn,     \* history: how much of done the last painting saw
  term       \* what the terminal's units change, see InitialTerm

vars == <<vtKeys, stream, received, buffer, at, size, pc, done, lost, repaint, drawn, term>>

-----------------------------------------------------------------------------
(* Attributes and modes. *)

Fg == <<"default", 1>>
Bg == <<"default", 2>>
White == <<"white", 0>>

\* A bug: inverse colours stay marked as inverse.
ResetState_Inverse(s) == [s EXCEPT !.fg = Fg, !.bg = Bg, !.font = {}]

\* State::reset(). It leaves bold alone.
ResetState(s) == [s EXCEPT !.fg = Fg, !.bg = Bg, !.font = {}, !.inverse = FALSE]
InitialState == [fg |-> Fg, bg |-> Bg, font |-> {}, inverse |-> FALSE, bold |-> FALSE]

InitialTerm ==
  [states |-> [m \in {"normal", "alternate"} |-> InitialState], mode |-> "normal",
   cursorMode |-> "normal", keypad |-> "normal", lines |-> FALSE, bracketed |-> FALSE,
   mouse |-> "off", encoding |-> "default", visible |-> TRUE]

\* Swapping the colours, when the mode really changes.
SetInverse(s, value) ==
  IF s.inverse = value THEN s ELSE [s EXCEPT !.inverse = value, !.fg = s.bg, !.bg = s.fg]

\* parseSGRExtendedColor(): of the arguments r after 38 or 48; rest is what the
\* loop of parseSGR() goes on with. A wrong colour is white.
ExtendedColor(r) ==
  LET used == CASE r = << >> -> 0 [] r # << >> /\ r[1] = 2 -> 4 [] OTHER -> 2
      valid == /\ r # << >> /\ r[1] \in {2, 5} /\ Len(r) >= used
               /\ \A i \in 2..used : r[i] <= 255
  IN [color |-> IF ~valid THEN White
                ELSE IF r[1] = 5 THEN <<"palette", r[2]>> ELSE <<"rgb", r[2], r[3], r[4]>>,
      rest |-> SubSeq(r, used + 1, Len(r))]

\* One code of parseSGR() that takes no arguments, for the palette of boldIsBright_
\* off and displayBold_ on.
Rendition(s, code) ==
  LET with(f) == [s EXCEPT !.font = @ \cup f]
      without(f) == [s EXCEPT !.font = @ \ f]
  IN CASE code = 0 -> [ResetState(s) EXCEPT !.bold = FALSE]
       [] code = 1 -> [with({"bold"}) EXCEPT !.bold = TRUE]
       [] code = 3 -> with({"italic"})
       [] code = 4 -> with({"underline"})
       [] code = 5 -> with({"blink"})
       [] code = 7 -> SetInverse(s, TRUE)
       [] code = 9 -> with({"strike"})
       [] code = 21 -> [without({"bold"}) EXCEPT !.bold = FALSE]
       [] code = 22 -> [without({"bold", "italic"}) EXCEPT !.bold = FALSE]
       [] code = 23 -> without({"italic"})
       [] code = 24 -> without({"underline"})
       [] code = 25 -> without({"blink"})
       [] code = 27 -> SetInverse(s, FALSE)
       [] code = 29 -> without({"strike"})
       [] code = 39 -> [s EXCEPT !.fg = Fg]
       [] code = 49 -> [s EXCEPT !.bg = Bg]
       [] code \in 30..37 -> [s EXCEPT !.fg = <<"palette", code - 30>>]
       [] code \in 40..47 -> [s EXCEPT !.bg = <<"palette", code - 40>>]
       [] code \in 90..97 -> [s EXCEPT !.fg = <<"palette", code - 82>>]
       [] code \in 100..107 -> [s EXCEPT !.bg = <<"palette", code - 92>>]
       [] OTHER -> s

RECURSIVE SGR(_, _)
SGR(s, codes) ==
  IF codes = << >> THEN s
  ELSE LET extended == ExtendedColor(Tail(codes)) IN
       CASE codes[1] = 38 -> SGR([s EXCEPT !.fg = extended.color], extended.rest)
         [] codes[1] = 48 -> SGR([s EXCEPT !.bg = extended.color], extended.rest)
         [] OTHER -> SGR(Rendition(s, codes[1]), Tail(codes))

\* One identifier of parseCSIGetterOrSetter(). Entering the alternate mode
\* resets its state, leaving it does not change the normal one.
SetMode(t, id, value) ==
  CASE id = 1 -> [t EXCEPT !.cursorMode = IF value THEN "application" ELSE "normal"]
    [] id = 25 -> [t EXCEPT !.visible = value]
    [] id \in {1000, 1002, 1003} ->
         [t EXCEPT !.mouse = IF ~value THEN "off"
                             ELSE CASE id = 1000 -> "normal" [] id = 1002 -> "button" [] OTHER -> "all"]
    [] id = 1006 -> [t EXCEPT !.encoding = IF value THEN "SGR" ELSE "default"]
    [] id = 2004 -> [t EXCEPT !.bracketed = value]
    [] id \in {47, 1049} /\ (t.mode = "alternate") # value ->
         IF value THEN [t EXCEPT !.mode = "alternate", !.states["alternate"] = ResetState(@)]
                  ELSE [t EXCEPT !.mode = "normal"]
    [] OTHER -> t

\* parseCSISequence(), as far as it is not in Terminal: SGR, h and l.
DoCSI(t, do) ==
  LET values == [i \in 1..Len(do.args) |-> do.args[i].value] IN
  CASE do.first = 0 /\ do.final = 109 ->
         [t EXCEPT !.states[t.mode] = SGR(@, IF values = << >> THEN <<0>> ELSE values)]
    [] do.first = 63 /\ do.final \in {104, 108} ->
         FoldLeft(LAMBDA u, id : SetMode(u, id, do.final = 104), t, values)
    [] OTHER -> t

\* What is done for a unit: the next term.
Do(t, do) ==
  CASE do.op = "csi" -> DoCSI(t, do)
    [] do.op = "charset" -> [t EXCEPT !.lines = do.lines]
    [] do.op = "keypad" -> [t EXCEPT !.keypad = IF do.application THEN "application" ELSE "normal"]
    [] OTHER -> t

-----------------------------------------------------------------------------
(* What others see of a unit. *)

\* The codepoint of the cell: LineDrawingChars_.
LineDrawingChars == <<9496, 9488, 9484, 9492, 9532, 0, 0, 9472, 0, 0, 9500, 9508, 9524, 9516, 9474>>
DrawnAs(lines, cp) == IF lines /\ cp \in 106..120 THEN LineDrawingChars[cp - 105] ELSE cp

\* parseOSCSequence(): titles, hyperlinks and the clipboard; with the wrong number
\* of values, nothing.
OutcomeOSC(do) ==
  CASE do.num \in {0, 2} /\ Len(do.values) = 1 -> <<[op |-> "title", text |-> do.values[1]]>>
    [] do.num = 8 /\ Len(do.values) = 2 -> <<[op |-> "link", url |-> do.values[2]]>>
    [] do.num = 52 /\ Len(do.values) = 2 ->
         <<[op |-> "clipboard", text |-> Base64Decode(do.values[2])]>>
    [] do.num = 112 -> <<[op |-> "cursorColor"]>>
    [] OTHER -> << >>

\* The replies: primary and secondary device attributes, status and position.
Replies(do) ==
  LET value == IF do.args = << >> THEN 0 ELSE do.args[1].value IN
  CASE do.first \in {0, 62} /\ do.final = 99 /\ value = 0 -> <<[op |-> "reply", to |-> do.first]>>
    [] do.first = 0 /\ do.final = 110 /\ value \in {5, 6} -> <<[op |-> "reply", to |-> value]>>
    [] OTHER -> <<do>>

\* What is done for a unit, as the rest of the program sees it: the consumer of
\* a t++ sequence reads its fields.
Outcome(t, do) ==
  CASE do.op = "none" -> << >>
    [] do.op = "text" -> <<[op |-> "text", cp |-> DrawnAs(t.lines, do.cp)]>>
    [] do.op = "osc" -> OutcomeOSC(do)
    [] do.op = "csi" -> Replies(do)
    [] do.op = "tpp" /\ do.kind \in Kinds -> <<[op |-> "tpp", read |-> ReadSequence(do.kind, do.payload)]>>
    [] do.op = "tpp" /\ do.kind \notin Kinds -> << >>
    [] OTHER -> <<do>>

-----------------------------------------------------------------------------
(* The readers. *)

Left == Len(stream.bytes) - received

Init == /\ stream \in Range(Streams)
        /\ vtKeys = IF stream.side = "renderer" THEN InitializeVTKeys ELSE << >>
        /\ received = 0
        /\ buffer = << >>
        /\ at = 0
        /\ size = CASE stream.side = "terminal" -> DefaultBufferSize
                      [] stream.side = "bypass" -> BypassBufferSize
                      [] OTHER -> ClientBufferSize
        /\ pc = "receive"
        /\ done = << >>
        /\ lost = {}
        /\ repaint = FALSE
        /\ drawn = 0
        /\ term = InitialTerm

\* pty_->receive(): any part of what is there that the buffer has place for.
Chunks == IF pc = "receive" /\ Cardinality(lost) < MaxLost THEN 1..Min({size - Len(buffer), Left}) ELSE {}
WithChunk(n) == buffer \o SubSeq(stream.bytes, received + 1, received + n)

Receive == /\ stream.side = "terminal"
           /\ \E n \in Chunks : received' = received + n /\ buffer' = WithChunk(n)
           /\ at' = 0
           /\ pc' = "parse"
           /\ UNCHANGED <<vtKeys, stream, size, done, lost, repaint, drawn, term>>

\* The unit at x.
Next1 == NextUnit(SubSeq(buffer, at + 1, Len(buffer)))

Perform(unit) == /\ term' = Do(term, unit.do)
                 /\ done' = done \o Outcome(term, unit.do)
                 /\ at' = at + unit.n
                 /\ pc' = "parse"

\* received(): one unit after another, with the buffer locked.
Parse == /\ pc = "parse" /\ at < Len(buffer)
         /\ Next1.n > 0 /\ Next1.do.op # "tpp"
         /\ Perform(Next1)
         /\ UNCHANGED <<vtKeys, stream, received, buffer, size, lost, repaint, drawn>>

\* The lock is given up while a t++ sequence is processed.
ParseTppSequence ==
  /\ pc = "parse" /\ at < Len(buffer) /\ Next1.n > 0 /\ Next1.do.op = "tpp"
  /\ pc' = "tpp"
  /\ UNCHANGED <<vtKeys, stream, received, buffer, at, size, done, lost, repaint, drawn, term>>

TppSequenceDone ==
  /\ pc = "tpp"
  /\ Perform(Next1)
  /\ UNCHANGED <<vtKeys, stream, received, buffer, size, lost, repaint, drawn>>

\* A bug: the end of the buffer is no reason to paint.
ReturnAll_NoRepaint == /\ pc = "parse" /\ at = Len(buffer)
                       /\ pc' = "keep"
                       /\ UNCHANGED <<vtKeys, stream, received, buffer, at, size, done, lost, repaint, drawn, term>>

\* received() returns: early at an incomplete unit, without a repaint, or at the
\* end of the buffer.
ReturnEarly == /\ pc = "parse" /\ at < Len(buffer) /\ Next1.n = 0
               /\ pc' = "keep"
               /\ UNCHANGED <<vtKeys, stream, received, buffer, at, size, done, lost, repaint, drawn, term>>

ReturnAll == /\ pc = "parse" /\ at = Len(buffer)
             /\ repaint' = TRUE
             /\ pc' = "keep"
             /\ UNCHANGED <<vtKeys, stream, received, buffer, at, size, done, lost, drawn, term>>

\* startPTYReader(): what is left moves to the start of the buffer, which
\* grows when it is full, and is emptied when it may not grow.
Consumed == received - (Len(buffer) - at)

\* A bug: a full buffer is given up before it has its largest size.
Keep_NoGrowth == LET rest == SubSeq(buffer, at + 1, Len(buffer))
                     full == Len(rest) = size
                 IN /\ pc = "keep"
                    /\ buffer' = IF full THEN << >> ELSE rest
                    /\ lost' = IF full THEN lost \cup {Consumed} ELSE lost
                    /\ at' = 0
                    /\ pc' = "receive"
                    /\ UNCHANGED <<vtKeys, stream, received, size, done, repaint, drawn, term>>

Keep == LET rest == SubSeq(buffer, at + 1, Len(buffer))
            full == Len(rest) = size
        IN /\ pc = "keep"
           /\ size' = IF full /\ size < MaxBufferSize THEN 2 * size ELSE size
           /\ buffer' = IF full /\ size >= MaxBufferSize THEN << >> ELSE rest
           /\ lost' = IF full /\ size >= MaxBufferSize THEN lost \cup {Consumed} ELSE lost
           /\ at' = 0
           /\ pc' = "receive"
           /\ UNCHANGED <<vtKeys, stream, received, done, repaint, drawn, term>>

\* TerminalClient::processInput(): every sequence that is whole is given to
\* receivedSequence() and cut out; text is never taken, as received() of Sync
\* returns 0, and waits before the rest.
RECURSIVE ProcessInput(_)
ProcessInput(b) ==
  LET start == FindSequenceStart(b)
      end == FindSequenceEnd(b, start)
      text == SubSeq(b, 1, start - 1)
      kind == ParseKind(SubSeq(b, start + 3, end - 1))
      others == IF end = Len(b) THEN [kept |-> text, found |-> << >>]
                                ELSE ProcessInput(text \o SubSeq(b, end + 1, Len(b)))
  IN IF end > Len(b) THEN [kept |-> b, found |-> << >>]
     ELSE [others EXCEPT !.found = <<[op |-> "tpp", kind |-> kind.kind, payload |-> kind.payload]>> \o @]

\* The reader of a client: its buffer does not grow.
ClientReceive ==
  /\ stream.side = "client"
  /\ \E n \in Chunks :
       /\ received' = received + n
       /\ LET input == ProcessInput(WithChunk(n)) IN
          /\ buffer' = input.kept
          /\ done' = done \o FlattenSeq([i \in 1..Len(input.found) |-> Outcome(term, input.found[i])])
  /\ UNCHANGED <<vtKeys, stream, at, size, pc, lost, repaint, drawn, term>>

\* A reader that takes a part of the bytes b, up to end of the stream, and does
\* what is in it. When it reads on, after what was received, that changes nothing
\* or is taken for a part of the stream. It has lost its place when something is
\* taken or done of a unit that is cut. When it fails, the program ends.
Take(input, b, end, fails) ==
  LET taken == end - Len(b) + input.n IN
  /\ received' = end
  /\ buffer' = SubSeq(b, input.n + 1, Len(b))
  /\ done' = done \o input.events
  /\ lost' = IF input.readsOn \/ input.early \/ taken \notin stream.starts THEN lost \cup {end} ELSE lost
  /\ \/ pc' = IF fails THEN "failed" ELSE "receive"
     \/ input.readsOn /\ pc' = "undefined"
  /\ UNCHANGED <<vtKeys, stream, at, size, repaint, drawn, term>>

\* The reader of AnsiRenderer: what comes before a t++ sequence is given to
\* received(). receivedSequence() is not implemented.
RendererReceive ==
  /\ stream.side = "renderer"
  /\ \E n \in Chunks :
       LET b == WithChunk(n)
           start == FindSequenceStart(b)
           input == Received(vtKeys, SubSeq(b, 1, start - 1))
       IN Take([input EXCEPT !.readsOn = @ /\ start > Len(b)], b, received + n, FindSequenceEnd(b, start) <= Len(b))

\* inputDecoder of tpp-bypass.
BypassReceive ==
  /\ stream.side = "bypass"
  /\ \E n \in Chunks : LET input == DecodeInput(WithChunk(n)) IN
       Take([early |-> FALSE] @@ input, WithChunk(n), received + n, input.throws)

\* The end of the stream; but for PTYBuffer also a buffer without place, as
\* read() then returns 0.
End == /\ pc = "receive"
       /\ \/ Left = 0
          \/ stream.side # "terminal" /\ Len(buffer) = size
       /\ pc' = "ended"
       /\ UNCHANGED <<vtKeys, stream, received, buffer, at, size, done, lost, repaint, drawn, term>>

\* The UI thread paints when it gets bufferLock_.
Paint == /\ repaint /\ pc # "parse"
         /\ repaint' = FALSE
         /\ drawn' = Len(done)
         /\ UNCHANGED <<vtKeys, stream, received, buffer, at, size, pc, done, lost, term>>

Reader == \/ Receive \/ Parse \/ ParseTppSequence \/ TppSequenceDone \/ ReturnEarly \/ ReturnAll
          \/ Keep \/ ClientReceive \/ RendererReceive \/ BypassReceive \/ End

Next == Reader \/ Paint

Spec == Init /\ [][Next]_vars

-----------------------------------------------------------------------------
(* Properties. *)

\* Whatever the chunks in which the stream arrives, what is done is what was
\* meant, in order and once, as long as no buffer was given up: no unit is cut,
\* merged with the next, lost or done twice; and t++ sequences, titles, links
\* and clipboard contents are read as they were written (received(),
\* CSISequence::Parse(), OSCSequence::Parse(), processInput(), Decode()).
DoneAsMeant == lost = {} => IsPrefix(done, stream.means)

\* A reader first loses its place where it has to. PTYBuffer only gives up a buffer
\* that starts with a unit that cannot fit into the largest one; AnsiRenderer takes
\* the beginning of a report for a key only after ESC [ and ESC O, and that of a
\* character for a key, and never cuts a mouse report after ESC [ <; and the bypass
\* only looks at what it did not receive right after the colon of a resize.
LostOnlyWhereFragile == lost # {} => Min(lost) \in stream.fragile

\* When the stream has ended and the requested repaints are made, everything that
\* was written is done and painted, although received() returns without a repaint
\* when the chunk ends within a unit: the chunk that completes the unit is painted
\* with what came before it. A client needs place for its text.
EverythingSeen ==
  pc = "ended" /\ ~repaint /\ stream.whole /\ lost = {} =>
    /\ done # stream.means => stream.side = "client" /\ Len(buffer) = size
    /\ stream.side = "terminal" => drawn = Len(done)

ResetsAttributes(do) == do.op = "csi" /\ do.first = 0 /\ do.args = << >> /\ do.final = 109

\* SGR 0 gives the default attributes whatever came before, inverse colours and
\* bold included; entering the alternate mode gives default attributes to what is
\* drawn there, and nothing done there changes those of the normal mode.
AttributesKept ==
  [][/\ pc = "parse" /\ at' # at /\ ResetsAttributes(Next1.do) =>
          term'.states[term.mode] = InitialState
     /\ term.mode = "normal" /\ term'.mode = "alternate" =>
          [term'.states["alternate"] EXCEPT !.bold = FALSE] = InitialState
     /\ term.mode = "alternate" => term'.states["normal"] = term.states["normal"]]_vars

\* What AnsiRenderer draws looks in the terminal as the cell did: its colours and
\* its font, but for italic, which the terminal also ends with bold (SGR 22); SGR
\* is only written where cells differ (render(), parseSGR()).
DrawnAsIs ==
  [][pc = "parse" /\ at' # at /\ stream.looks # << >> /\ Next1.do.op = "text" =>
       LET shown == term.states[term.mode]
           cell == stream.looks[1 + Cardinality({i \in 1..Len(done) : done[i].op = "text"})]
       IN /\ shown.fg = <<"rgb">> \o cell.fg
          /\ shown.bg = <<"rgb">> \o cell.bg
          /\ shown.font \ {"italic"} = cell.font \ {"italic"}]_vars
=============================================================================
