------------------------------- MODULE Bytes -------------------------------
(***************************************************************************)
(* What the library helpers make of bytes: characters in UTF-8             *)
(* (helpers/char.h), base64 (helpers/base64.h), and numbers and strings in *)
(* t++ sequences (tpp-lib/sequence.{h,cpp}). A string of bytes is a        *)
(* sequence of numbers.                                                    *)
(***************************************************************************)
EXTENDS Integers, Sequences, SequencesExt

NUL == 0
BEL == 7
BACKSPACE == 8
TAB == 9
LF == 10
CR == 13
ESC == 27
Semicolon == 59
Quote == 96

\* The result of a reading function: ok is FALSE when it throws.
Read(value, rest) == [ok |-> TRUE, value |-> value, rest |-> rest]
Throws == [ok |-> FALSE]

-----------------------------------------------------------------------------

Digits == 48..57
Byte == 0..255
IsDigit(c) == c \in Digits
IsHexDigit(c) == IsDigit(c) \/ c \in 65..70 \/ c \in 97..102

HexValue(c) == CASE IsDigit(c) -> c - 48
                 [] c \in 65..70 -> c - 55
                 [] OTHER -> c - 87
ToHexDigit(v) == IF v < 10 THEN 48 + v ELSE 87 + v

\* The longest prefix of s all of whose elements are in S, and what follows.
Span(S, s) ==
  LET stops == {i \in 1..Len(s) : s[i] \notin S}
      n == IF stops = {} THEN Len(s) ELSE (CHOOSE i \in stops : \A j \in stops : i <= j) - 1
  IN [head |-> SubSeq(s, 1, n), tail |-> SubSeq(s, n + 1, Len(s))]

Number(digits) == FoldLeft(LAMBDA n, c : n * 10 + c - 48, 0, digits)

RECURSIVE Decimal(_)
Decimal(n) == IF n < 10 THEN <<48 + n>> ELSE Append(Decimal(n \div 10), 48 + (n % 10))

\* s cut at every separator: one piece more than there are separators.
RECURSIVE Split(_, _)
Split(s, separator) ==
  LET piece == Span(Byte \ {separator}, s) IN
  IF piece.tail = << >> THEN <<piece.head>>
                        ELSE <<piece.head>> \o Split(Tail(piece.tail), separator)

-----------------------------------------------------------------------------
(* Char. *)

\* charSize(), size(): the length a first byte announces. A continuation byte
\* in its place announces two.
CharSize(byte) == CASE byte < 128 -> 1 [] byte \in 128..223 -> 2 [] byte \in 224..239 -> 3
                    [] OTHER -> 4

\* codepoint(): of the bytes of one character. A continuation byte carries six
\* bits, the first byte what its mark leaves.
Six(byte) == byte % 64
Codepoint(b) ==
  CASE CharSize(b[1]) = 1 -> b[1]
    [] CharSize(b[1]) = 2 -> (b[1] % 32) * 64 + Six(b[2])
    [] CharSize(b[1]) = 3 -> (b[1] % 16) * 4096 + Six(b[2]) * 64 + Six(b[3])
    [] OTHER -> (b[1] % 8) * 262144 + Six(b[2]) * 4096 + Six(b[3]) * 64 + Six(b[4])

\* The encoding of a codepoint as Unicode defines it: that of the applications.
Utf8(cp) ==
  LET last == 128 + Six(cp)
      second == 128 + Six(cp \div 64)
      third == 128 + Six(cp \div 4096)
  IN CASE cp < 128 -> <<cp>>
       [] cp \in 128..2047 -> <<192 + cp \div 64, last>>
       [] cp \in 2048..65535 -> <<224 + cp \div 4096, second, last>>
       [] OTHER -> <<240 + cp \div 262144, third, second, last>>

\* fillFromCodepoint(): the four bytes. The first of four is marked 0xe0.
FillFromCodepoint(cp) ==
  IF cp < 65536 THEN Utf8(cp) \o [i \in 1..(4 - Len(Utf8(cp))) |-> 0]
                ELSE <<224 + cp \div 262144>> \o Tail(Utf8(cp))

\* What is written of a character: size() of its bytes.
Written(cp) == LET bytes == FillFromCodepoint(cp) IN SubSeq(bytes, 1, CharSize(bytes[1]))

-----------------------------------------------------------------------------
(* Base64. *)

Base64DecodeCharacter(c) == CASE c \in 65..90 -> c - 65
                              [] c \in 97..122 -> c - 71
                              [] IsDigit(c) -> c + 4
                              [] c = 43 -> 62
                              [] c = 47 -> 63
                              [] c = 61 -> 0

\* All but the last group of four are full; the last one, padded or not, has
\* two to four characters.
RECURSIVE Base64Decode(_)
Base64Decode(s) ==
  LET v(i) == Base64DecodeCharacter(s[i])
      first == v(1) * 4 + v(2) \div 16
      second == (v(2) % 16) * 16 + v(3) \div 4
      third == (v(3) % 4) * 64 + v(4)
      has(i) == Len(s) >= i /\ s[i] # 61
  IN CASE Len(s) > 4 -> <<first, second, third>> \o Base64Decode(SubSeq(s, 5, Len(s)))
       [] Len(s) < 2 -> << >>
       [] OTHER -> <<first>> \o (IF has(3) THEN <<second>> ELSE << >>)
                             \o (IF has(3) /\ has(4) THEN <<third>> ELSE << >>)

\* What an application makes of bytes, with padding.
RECURSIVE Base64(_)
Base64(s) ==
  LET n == Len(s)
      b(i) == IF i <= n THEN s[i] ELSE 0
      values == <<b(1) \div 4, (b(1) % 4) * 16 + b(2) \div 16, (b(2) % 16) * 4 + b(3) \div 64, b(3) % 64>>
      digit(v) == CASE v < 26 -> v + 65 [] v \in 26..51 -> v + 71 [] v \in 52..61 -> v - 4
                    [] v = 62 -> 43 [] OTHER -> 47
  IN IF n = 0 THEN << >>
     ELSE [i \in 1..4 |-> IF i > n + 1 THEN 61 ELSE digit(values[i])] \o Base64(SubSeq(s, 4, n))

-----------------------------------------------------------------------------
(* The fields of t++ sequences. *)

Quoted(c) == <<Quote, ToHexDigit(c \div 16), ToHexDigit(c % 16)>>

\* A bug: the semicolon of a string is not quoted.
WriteString_Semicolon(s) ==
  FlattenSeq([i \in 1..Len(s) |-> IF s[i] \in {NUL, BEL, ESC, Quote} THEN Quoted(s[i]) ELSE <<s[i]>>])

\* WriteString() also quotes the semicolon, which ends a string; Encode(),
\* whose bytes end with the sequence, does not.
WriteString(s) ==
  FlattenSeq([i \in 1..Len(s) |-> IF s[i] \in {NUL, BEL, ESC, Semicolon, Quote}
                                  THEN Quoted(s[i]) ELSE <<s[i]>>])
Encode(s) ==
  FlattenSeq([i \in 1..Len(s) |-> IF s[i] \in {NUL, BEL, ESC, Quote}
                                  THEN Quoted(s[i]) ELSE <<s[i]>>])

\* ReadUnsigned(): a number up to a semicolon or the end.
ReadUnsigned(s) ==
  LET d == Span(Digits, s) IN
  CASE d.tail = << >> -> Read(Number(d.head), << >>)
    [] d.tail # << >> /\ d.tail[1] = Semicolon -> Read(Number(d.head), Tail(d.tail))
    [] OTHER -> Throws

\* Decode(): with DecodeChar() at every step.
RECURSIVE Decode(_)
Decode(s) ==
  CASE s = << >> -> << >>
    [] s # << >> /\ s[1] # Quote -> <<s[1]>> \o Decode(Tail(s))
    [] OTHER -> <<HexValue(s[2]) * 16 + HexValue(s[3])>> \o Decode(SubSeq(s, 4, Len(s)))

\* Whether every quote is followed by two hexadecimal digits.
WellQuoted(s) == \A i \in 1..Len(s) :
  s[i] = Quote => i + 2 <= Len(s) /\ IsHexDigit(s[i + 1]) /\ IsHexDigit(s[i + 2])

\* ReadString(): up to a semicolon or the end.
ReadString(s) ==
  LET piece == Span(Byte \ {Semicolon}, s) IN
  IF WellQuoted(piece.head)
  THEN Read(Decode(piece.head), IF piece.tail = << >> THEN << >> ELSE Tail(piece.tail))
  ELSE Throws
=============================================================================
