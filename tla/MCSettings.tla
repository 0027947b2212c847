---------------------------- MODULE MCSettings ----------------------------
(***************************************************************************)
(* Settings for TLC: two instances, settings as users write them, with     *)
(* errors of every kind, and command lines.                                *)
(***************************************************************************)
EXTENDS Settings

Q(words) == <<"\"">> \o words \o <<"\"">>
Pair(key, value) == Q(<<key>>) \o <<":", "sp">> \o value
Braces(body) == <<"{", "nl", "sp">> \o body \o <<"nl", "}", "nl">>
Version(minor) == Pair("version", <<"{">> \o Pair("version", Q(<<"0", ".", minor, ".", "4">>))
                    \o <<",">> \o Pair("checkChannel", Q(<<"edge">>)) \o <<"}">>)
Session == <<"{">> \o Pair("name", Q(<<"work">>)) \o <<",", "sp">> \o
           Pair("pty", Q(<<"bypass">>)) \o <<",", "sp">> \o
           Pair("command", <<"[">> \o Q(<<"bash">>) \o <<",", "sp">> \o Q(<<"\\", "\"", "x", "\\", "n">>) \o <<"]">>)
           \o <<",", "sp">> \o Pair("palette", <<"{">> \o Pair("defaultBackground", Q(<<"#", "0", "0", "0", "0", "f", "f">>)) \o <<"}">>)
           \o <<"}">>
Fps(value) == Pair("renderer", <<"{">> \o Pair("fps", value) \o <<"}">>)
Spacing(value) == Pair("renderer", <<"{">> \o Pair("font", <<"{">> \o Pair("lineSpacing", value) \o <<"}">>) \o <<"}">>)

\* The user's settings: a session that is the default one, with comments.
Good == Braces(Version("8") \o <<",", "nl", "/", "/", "sp", "mine", "nl">> \o Fps(<<"0", "x", "2", "0">>)
          \o <<",", "nl", "/", "*", "sp", "two", "nl", "lines", "*", "/">> \o
          Pair("sessions", <<"[">> \o Session \o <<"sp", "]">>) \o <<",">> \o Pair("defaultSession", Q(<<"work">>)))
\* A double that has no fraction.
Whole == Braces(Spacing(<<"2", ".", "0">>) \o <<",">> \o
                Pair("application", <<"{">> \o Pair("detectSessionsAtStartup", <<"false">>) \o <<"}">>))
\* Of an older version, with a property of the wrong type, good ones and one that
\* is not known.
Wrong == Braces(Version("7") \o <<",">> \o Pair("renderer", <<"{">> \o Pair("fps", Q(<<"fast">>)) \o <<",">> \o
                  Pair("font", <<"{">> \o Pair("lineSpacing", <<"1", ".", "5">>) \o <<"}">>) \o <<"}">>)
                \o <<",">> \o Pair("colour", <<"null">>))
\* Not JSON: a blank before the first comma.
Broken == Braces(Pair("defaultSession", Q(<<"work">>)) \o <<"sp", ",">> \o Fps(<<"3", "0">>))
\* A comment that holds the end of a comment.
Starred == Braces(<<"/", "/", "sp", "*", "/", "nl">> \o Fps(<<"3", "0">>))
\* A double that is written with an exponent.
Large == Braces(Spacing(<<"1", "2", "3", "4", "5", "6", "7", ".", "5">>))

MCTexts == {Good, Whole, Wrong, Broken, Starred, Large}

MCArguments ==
  {<< >>,
   <<<<"--session">>, <<"work">>, <<"-e">>, <<"vi">>, <<"--fps">>, <<"a", "=", "b">>>>,
   <<<<"--pty">>, <<"bypass">>, <<"--here">>, <<"-c", "=", "1", "2", "0">>>>}

Symmetry == Permutations(Instances)

===========================================================================
