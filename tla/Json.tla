-------------------------------- MODULE Json --------------------------------
(***************************************************************************)
(* helpers/json.h: JSON values with comments, how they are written and how *)
(* they are parsed.                                                        *)
(*                                                                         *)
(* A text is a sequence of tokens: each punctuation mark, each digit and   *)
(* each escape letter is a token of its own, and so is what the parser     *)
(* never looks into: a run of blanks "sp", a word. Strings, comments and   *)
(* the keys of objects are sequences of tokens. A double counts tenths:    *)
(* what is smaller is neither read nor written.                            *)
(***************************************************************************)
EXTENDS Integers, Sequences, SequencesExt, TLC

Digits == <<"0", "1", "2", "3", "4", "5", "6", "7", "8", "9">>
HexDigits == Digits \o <<"a", "b", "c", "d", "e", "f">>
Whitespace == {"sp", "tab", "nl"}
\* Tokens of one character.
Marks == Range(HexDigits) \union Whitespace \union
         {"{", "}", "[", "]", ",", ":", "\"", "\\", "'", "/", "*", "-", ".", "x", "n", "=", "#"}

ValueOf(digits, d) == (CHOOSE i \in DOMAIN digits : digits[i] = d) - 1

-----------------------------------------------------------------------------
(* Values *)

\* JSON{Kind}. Only the field of its kind says something about a value.
Empty(kind) == [kind |-> kind, comment |-> << >>, num |-> 0, str |-> << >>,
                items |-> << >>, members |-> << >>]

Null == Empty("null")
Boolean(b) == [Empty("boolean") EXCEPT !.num = IF b THEN 1 ELSE 0]
Integer(n) == [Empty("integer") EXCEPT !.num = n]
Double(tenths) == [Empty("double") EXCEPT !.num = tenths]
Str(s) == [Empty("string") EXCEPT !.str = s]
Array == Empty("array")
Object == Empty("object")

SetComment(j, c) == [j EXCEPT !.comment = c]
HasKey(j, key) == key \in DOMAIN j.members

\* add(), operator[] of a member not there yet, and erase().
Add(j, what) == [j EXCEPT !.items = Append(@, what)]
AddMember(j, key, value) == [j EXCEPT !.members = (key :> value) @@ @]
Member(j, key) == IF HasKey(j, key) THEN j.members[key] ELSE Null
Erase(j, key) == [j EXCEPT !.members = [k \in DOMAIN @ \ {key} |-> @[k]]]

\* operator ==: comments do not count.
RECURSIVE Same(_, _)
Same(a, b) ==
  /\ a.kind = b.kind
  /\ a.num = b.num /\ a.str = b.str
  /\ Len(a.items) = Len(b.items)
  /\ \A i \in DOMAIN a.items : Same(a.items[i], b.items[i])
  /\ DOMAIN a.members = DOMAIN b.members
  /\ \A k \in DOMAIN a.members : Same(a.members[k], b.members[k])

-----------------------------------------------------------------------------
(* Writing *)

\* Mutant: quotes inside are not escaped.
Quote_Plain(s) == <<"\"">> \o s \o <<"\"">>
Quote(s) ==
  <<"\"">> \o FlattenSeq([i \in DOMAIN s |->
     CASE s[i] \in {"\\", "'", "\""} -> <<"\\", s[i]>>
       [] s[i] = "nl" -> <<"\\", "n">>
       [] OTHER -> <<s[i]>>]) \o <<"\"">>

RECURSIVE WriteNumber(_)
WriteNumber(n) ==
  CASE n < 0 -> <<"-">> \o WriteNumber(0 - n)
    [] n < 10 -> <<Digits[n + 1]>>
    [] OTHER -> Append(WriteNumber(n \div 10), Digits[(n % 10) + 1])

\* n in units, to the nearest and of two to the even one.
Rounded(n, unit) ==
  LET q == n \div unit
      rest == 2 * (n % unit)
  IN IF rest > unit \/ (rest = unit /\ q % 2 = 1) THEN q + 1 ELSE q

\* The stream writes six digits and leaves out a fraction of zero. What has more
\* than six before the point gets an exponent, which ParseNumber() does not read.
WriteDouble(tenths) ==
  LET t == IF tenths < 0 THEN 0 - tenths ELSE tenths
      sign == IF tenths < 0 THEN <<"-">> ELSE << >>
      length == Len(WriteNumber(t))
      six == Rounded(t, 10^(length - 6))
      exponent == IF six = 1000000 THEN length - 1 ELSE length - 2
      digits == SubSeq(WriteNumber(six), 1, 6)
      last == CHOOSE i \in 1..6 : digits[i] # "0" /\ \A k \in i + 1..6 : digits[k] = "0"
      whole == WriteNumber(t \div 10)
  IN CASE t < 1000000 -> sign \o whole \o (IF t % 10 = 0 THEN << >> ELSE <<".", Digits[(t % 10) + 1]>>)
       [] t >= 1000000 /\ t < 9999995 -> sign \o WriteNumber(Rounded(t, 10))
       [] OTHER -> sign \o <<digits[1]>> \o (IF last = 1 THEN << >> ELSE <<".">> \o SubSeq(digits, 2, last))
                   \o <<"e", "+", "0", Digits[exponent + 1]>>

\* setw(offset) << "".
Indent(depth) == IF depth = 0 THEN << >> ELSE <<"sp">>

\* Every line but the first is indented once more than it was.
WriteComment(j, depth) ==
  IF j.comment = << >> THEN << >>
  ELSE Indent(depth) \o <<"/", "*", "sp">> \o
       FlattenSeq([i \in DOMAIN j.comment |->
          IF j.comment[i] = "nl" THEN <<"nl", "sp">> ELSE <<j.comment[i]>>]) \o
       <<"nl", "sp", "*", "/", "nl">>

RECURSIVE WriteTo(_, _), WriteMembers(_, _, _)
WriteTo(j, depth) ==
  CASE j.kind = "null" -> <<"null">>
    [] j.kind = "boolean" -> IF j.num = 1 THEN <<"true">> ELSE <<"false">>
    [] j.kind = "integer" -> WriteNumber(j.num)
    [] j.kind = "double" -> WriteDouble(j.num)
    [] j.kind = "string" -> Quote(j.str)
    [] j.kind = "array" ->
         <<"[", "nl">> \o
         FlattenSeq([i \in DOMAIN j.items |->
            WriteComment(j.items[i], depth + 1) \o <<"sp">> \o WriteTo(j.items[i], depth + 1) \o
            (IF i = Len(j.items) THEN << >> ELSE <<",">>) \o <<"nl">>]) \o
         Indent(depth) \o <<"]">>
    [] j.kind = "object" ->
         <<"{", "nl">> \o WriteMembers(j, DOMAIN j.members, depth + 1) \o Indent(depth) \o <<"}">>

\* In the order of the hash table, which is any.
WriteMembers(j, keys, depth) ==
  IF keys = {} THEN << >>
  ELSE LET k == CHOOSE key \in keys : TRUE IN
       WriteComment(j.members[k], depth) \o <<"sp">> \o Quote(k) \o <<"sp", ":", "sp">> \o
       WriteTo(j.members[k], depth) \o (IF keys = {k} THEN << >> ELSE <<",">>) \o <<"nl">> \o
       WriteMembers(j, keys \ {k}, depth)

Write(j) == WriteComment(j, 0) \o WriteTo(j, 0)

-----------------------------------------------------------------------------
(* Parsing. A parser takes the text and where it is in it, and returns what *)
(* it found and where it stopped, or that it threw.                         *)

Found(at, value) == [ok |-> TRUE, at |-> at, value |-> value]
Throws(value) == [ok |-> FALSE, at |-> 0, value |-> value]

\* top(): what is not a token at the end.
Top(t, i) == IF i <= Len(t) THEN t[i] ELSE "eof"

RECURSIVE Past(_, _, _)
Past(t, i, S) == IF Top(t, i) \in S THEN Past(t, i + 1, S) ELSE i

SkipWhitespace(t, i) == Past(t, i, Whitespace)

\* A single character that ends the string is taken for nothing.
Trim(s) ==
  LET start == Past(s, 1, Whitespace)
      ends == {i \in start..Len(s) : s[i] \notin Whitespace}
  IN IF s = << >> \/ (start = Len(s) /\ s[start] \in Marks) THEN << >>
     ELSE SubSeq(s, start, IF ends = {} THEN start - 1
                           ELSE CHOOSE i \in ends : \A k \in ends : k <= i)

Number(digits, base, s) == FoldLeft(LAMBDA n, d : n * base + ValueOf(digits, d), 0, s)

ParseNumber(t, i) ==
  LET sign == IF Top(t, i) = "-" THEN -1 ELSE 1
      first == IF Top(t, i) = "-" THEN i + 1 ELSE i
      stop == Past(t, first, Range(Digits))
      value == Number(Digits, 10, SubSeq(t, first, stop - 1))
      fraction == Past(t, stop + 1, Range(Digits))
      tenths == IF fraction > stop + 1 THEN ValueOf(Digits, t[stop + 1]) ELSE 0
      hexStop == Past(t, i + 2, Range(HexDigits))
  IN CASE stop = first -> Throws(Null)
       [] Top(t, i) = "0" /\ Top(t, i + 1) = "x" ->
            IF hexStop = i + 2 THEN Throws(Null)
            ELSE Found(hexStop, Integer(Number(HexDigits, 16, SubSeq(t, i + 2, hexStop - 1))))
       [] Top(t, stop) = "." -> Found(fraction, Double(sign * (value * 10 + tenths)))
       [] OTHER -> Found(stop, Integer(sign * value))

RECURSIVE StrFrom(_, _, _)
StrFrom(t, i, s) ==
  LET next == Top(t, i + 1) IN
  CASE Top(t, i) = "eof" -> Throws(<< >>)
    [] Top(t, i) = "\"" -> Found(i + 1, s)
    [] Top(t, i) = "\\" /\ next \in {"\\", "'", "\"", "tab"} -> StrFrom(t, i + 2, Append(s, next))
    [] Top(t, i) = "\\" /\ next = "nl" -> StrFrom(t, i + 2, s)
    [] Top(t, i) = "\\" /\ next = "n" -> StrFrom(t, i + 2, Append(s, "nl"))
    [] Top(t, i) = "\\" -> Throws(<< >>)
    [] OTHER -> StrFrom(t, i + 1, Append(s, t[i]))

ParseStr(t, i) == IF Top(t, i) = "\"" THEN StrFrom(t, i + 1, << >>) ELSE Throws(<< >>)

\* parseComment(): to the end of the line, or to the end of the comment. The
\* end of the text ends both.
ParseComment(t, i) ==
  LET eol == Past(t, i + 2, (Range(t) \ {"nl"}))
      ends == {k \in (i + 2)..(Len(t) - 1) : t[k] = "*" /\ t[k + 1] = "/"}
      end == CHOOSE k \in ends : \A m \in ends : k <= m
  IN CASE Top(t, i + 1) = "/" -> Found(eol + 1, Trim(SubSeq(t, i + 2, eol - 1)))
       [] Top(t, i + 1) = "*" -> IF ends = {} THEN Found(Len(t) + 1, << >>)
                                 ELSE Found(end + 2, Trim(SubSeq(t, i + 2, end - 1)))
       [] OTHER -> Throws(<< >>)

\* The comment at i, if there is one.
CommentAt(t, i) == IF Top(t, i) = "/" THEN ParseComment(t, i) ELSE Found(i, << >>)

RECURSIVE ParseElement(_, _), ParseItems(_, _, _), ParseMembers(_, _, _, _)

\* parseJSON().
ParseJSON(t, i) ==
  LET both(c, e) == IF c.ok /\ e.ok THEN Found(e.at, SetComment(e.value, c.value)) ELSE Throws(Null)
      element(c) == both(c, ParseElement(t, c.at))
  IN element(CommentAt(t, SkipWhitespace(t, i)))

\* parseElement() with parseArray() and parseObject() up to what they hold.
ParseElement(t, i) ==
  LET j == SkipWhitespace(t, i)
      inside == SkipWhitespace(t, j + 1)
      s == ParseStr(t, j)
  IN CASE Top(t, j) = "null" -> Found(j + 1, Null)
       [] Top(t, j) = "true" -> Found(j + 1, Boolean(TRUE))
       [] Top(t, j) = "false" -> Found(j + 1, Boolean(FALSE))
       [] Top(t, j) = "\"" -> IF s.ok THEN Found(s.at, Str(s.value)) ELSE Throws(Null)
       [] Top(t, j) = "[" -> IF Top(t, inside) = "]" THEN Found(inside + 1, Array)
                             ELSE ParseItems(t, inside, Array)
       [] Top(t, j) = "{" -> IF Top(t, inside) = "}" THEN Found(inside + 1, Object)
                             ELSE ParseMembers(t, inside, Object, TRUE)
       [] OTHER -> ParseNumber(t, j)

ParseItems(t, i, array) ==
  LET next(e, j) ==
        CASE ~e.ok -> Throws(Null)
          [] e.ok /\ Top(t, j) = "," -> ParseItems(t, SkipWhitespace(t, j + 1), Add(array, e.value))
          [] e.ok /\ Top(t, j) = "]" -> Found(j + 1, Add(array, e.value))
          [] OTHER -> Throws(Null)
      item(e) == next(e, SkipWhitespace(t, e.at))
  IN item(ParseJSON(t, i))

\* parseObjectElement() and what follows it: the comment c, the key k, a colon and
\* the element e. After the first member blanks before a comma are not skipped.
ParseMembers(t, i, object, first) ==
  LET next(more, at, end) ==
        CASE Top(t, at) = "," -> ParseMembers(t, SkipWhitespace(t, at + 1), more, FALSE)
          [] Top(t, at) # "," /\ Top(t, end) = "}" -> Found(end + 1, more)
          [] OTHER -> Throws(Null)
      add(more, at, end) == next(more, IF first THEN at ELSE end, end)
      element(c, k, e) ==
        IF e.ok THEN add(AddMember(object, k.value, SetComment(e.value, c.value)), e.at, SkipWhitespace(t, e.at))
                ELSE Throws(Null)
      colon(c, k, j) ==
        IF HasKey(object, k.value) \/ Top(t, j) # ":" THEN Throws(Null)
        ELSE element(c, k, ParseElement(t, SkipWhitespace(t, j + 1)))
      key(c, k) == IF c.ok /\ k.ok THEN colon(c, k, SkipWhitespace(t, k.at)) ELSE Throws(Null)
      comment(c) == key(c, ParseStr(t, IF Top(t, i) = "/" THEN SkipWhitespace(t, c.at) ELSE i))
  IN comment(CommentAt(t, i))

\* JSON::Parse(): of the whole text.
Parse(t) ==
  LET whole(e) == IF e.ok /\ SkipWhitespace(t, e.at) > Len(t) THEN e ELSE Throws(Null)
  IN whole(ParseJSON(t, 1))

=============================================================================
