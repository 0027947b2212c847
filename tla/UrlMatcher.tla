----------------------------- MODULE UrlMatcher -----------------------------
(***************************************************************************)
(* The recogniser of web addresses of ui-terminal/url_matcher.h: it is     *)
(* given one character at a time and keeps the length of what it matched,  *)
(* never the text. The letters are stood for by a few of each group the    *)
(* code tells apart.                                                       *)
(***************************************************************************)
EXTENDS Naturals, Sequences

Digits == {"0"}
LowerLetters == {"h", "t", "p", "s", "a", "x"}
UpperLetters == {"A", "X"}

DomainLetters == LowerLetters \cup Digits \cup {"-"}
Hexadecimals == Digits \cup {"a", "A"}
AddressLetters == LowerLetters \cup Digits \cup {"-", "~", "_", "."}
ArgsLetters == LowerLetters \cup UpperLetters \cup Digits
                 \cup {"-", "~", "+", "_", "!", "*", "'", "(", ")", "=", "&", "."}
Separators == {" ", ",", "{", "}", "[", "]", "|", ":", ";", "-", "=", "!", "?",
               "\t", "\"", "'"}

\* The states from which the code may return the length of an address.
Valid == {"validDomain", "validPort", "validAddress", "validArguments"}

\* TRANSITION(INPUT, STATE), in the state named first.
Transitions == {
  <<"ready", {"h"}, "h">>, <<"h", {"t"}, "ht">>, <<"ht", {"t"}, "htt">>,
  <<"htt", {"p"}, "http">>, <<"http", {"s"}, "https">>,
  <<"http", {":"}, "protocol1">>, <<"https", {":"}, "protocol1">>,
  <<"protocol1", {"/"}, "protocol2">>, <<"protocol2", {"/"}, "domain1">>,
  <<"domain1", DomainLetters, "validDomain">>,
  <<"domainSeparator", DomainLetters, "validDomain">>,
  <<"port1", Digits, "validPort">>,
  <<"percentEscape1", Hexadecimals, "percentEscape2">>,
  <<"percentEscape2", Hexadecimals, "validArguments">>,
  <<"validDomain", DomainLetters, "validDomain">>,
  <<"validDomain", {"."}, "domainSeparator">>,
  <<"validDomain", {"?"}, "validArguments">>,
  <<"validDomain", {"/"}, "validAddress">>, <<"validDomain", {":"}, "port1">>,
  <<"validPort", Digits, "validPort">>, <<"validPort", {"?"}, "validArguments">>,
  <<"validPort", {"/"}, "validAddress">>,
  <<"validAddress", AddressLetters \cup {"/"}, "validAddress">>,
  <<"validAddress", {"?"}, "validArguments">>, <<"validAddress", {":"}, "port1">>,
  <<"validArguments", ArgsLetters, "validArguments">>,
  <<"validArguments", {"%"}, "percentEscape1">>, <<"validArguments", {":"}, "port1">>}

\* state_ and matchSize_
Ready == [state |-> "ready", size |-> 0]

\* transition(). Only a separator leads out of the state invalid.
Transition(m, c) ==
  LET to == {t[3] : t \in {u \in Transitions : u[1] = m.state /\ c \in u[2]}} IN
  IF to # {} THEN [state |-> CHOOSE state \in to : TRUE, size |-> m.size + 1]
  ELSE [state |-> IF c \in Separators THEN "ready" ELSE "invalid", size |-> 0]

\* The result of next(): the size of an address that c does not continue, or
\* 0. An address that ends in a state that is not valid (a full stop, say,
\* and the space after it) is none.
MatchSize(m, c) ==
  IF m.state \in Valid /\ Transition(m, c).size = 0 THEN m.size ELSE 0

-----------------------------------------------------------------------------
(* What an address is, said without the states *)

\* Where the name of the host begins in a text that begins with a scheme.
HostAt(t) ==
  IF Len(t) >= 8 /\ SubSeq(t, 1, 8) = <<"h", "t", "t", "p", "s", ":", "/", "/">> THEN 9
  ELSE IF Len(t) >= 7 /\ SubSeq(t, 1, 7) = <<"h", "t", "t", "p", ":", "/", "/">> THEN 8
  ELSE 0

IsHostLetter(t, i) == i \in HostAt(t)..Len(t) /\ t[i] \in DomainLetters

\* A scheme and the name of a host, of parts that are not empty; behind it
\* colons only before a number, and each per cent sign with two hexadecimal
\* digits; nothing that cannot be part of an address.
IsUrl(t) ==
  /\ HostAt(t) # 0
  /\ IsHostLetter(t, HostAt(t))
  /\ \A i \in HostAt(t)..Len(t) :
       /\ t[i] \in ArgsLetters \cup AddressLetters \cup {"/", "?", ":", "%"}
       /\ t[i] = ":" => i < Len(t) /\ t[i + 1] \in Digits
       /\ t[i] = "%" => i + 2 <= Len(t) /\ {t[i + 1], t[i + 2]} \subseteq Hexadecimals
       /\ t[i] = "." /\ (\A j \in HostAt(t)..i : t[j] \notin {"/", "?", ":"})
            => IsHostLetter(t, i - 1) /\ IsHostLetter(t, i + 1)
=============================================================================
