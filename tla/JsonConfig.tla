----------------------------- MODULE JsonConfig -----------------------------
(***************************************************************************)
(* helpers/json_config.h: typed configuration kept in JSON, and the        *)
(* command line that overrides it.                                         *)
(*                                                                         *)
(* A schema says which objects, arrays and properties there are; a node    *)
(* is the state of one of them: whether it was updated, its JSON (of an    *)
(* object and an array the comment alone: the rest is in the nodes below), *)
(* its children and its elements. A path leads to a node by keys and, in   *)
(* an array, by indices.                                                   *)
(***************************************************************************)
EXTENDS Json, FiniteSets

\* The schema of CONFIG_PROPERTY, CONFIG_OBJECT and CONFIG_ARRAY.
Property(type, default) ==
  [kind |-> "property", type |-> type, default |-> default, calculated |-> FALSE]
Calculated(type, default) == [Property(type, default) EXCEPT !.calculated = TRUE]
ObjectOf(kids) ==
  [kind |-> "object", kids |-> [k \in {<<name>> : name \in DOMAIN kids} |-> kids[k[1]]]]
ArrayOf(entry) == [kind |-> "array", entry |-> entry, default |-> Array, calculated |-> FALSE]

Description == <<"description">>

\* JSONConfig{parent}: nothing is known yet, JSON::Object() holds the place.
RECURSIVE New(_)
New(sc) ==
  [updated |-> FALSE, json |-> Object, elements |-> << >>,
   kids |-> IF sc.kind = "object" THEN [k \in DOMAIN sc.kids |-> New(sc.kids[k])] ELSE << >>]

\* The step of a path to the i-th element of an array.
Index(i) == <<"element", ToString(i)>>
Element(n, step) == CHOOSE i \in DOMAIN n.elements : Index(i) = step

RECURSIVE At(_, _), SchemaAt(_, _), Put(_, _, _)
At(n, path) ==
  IF path = << >> THEN n
  ELSE IF n.elements # << >> THEN At(n.elements[Element(n, Head(path))], Tail(path))
  ELSE At(n.kids[Head(path)], Tail(path))
SchemaAt(sc, path) ==
  IF path = << >> THEN sc
  ELSE IF sc.kind = "array" THEN SchemaAt(sc.entry, Tail(path))
  ELSE SchemaAt(sc.kids[Head(path)], Tail(path))
Put(n, path, new) ==
  IF path = << >> THEN new
  ELSE IF n.elements # << >>
       THEN [n EXCEPT !.elements[Element(n, Head(path))] = Put(@, Tail(path), new)]
       ELSE [n EXCEPT !.kids[Head(path)] = Put(@, Tail(path), new)]

-----------------------------------------------------------------------------
(* FromJSON<T>() *)

\* Split(s, separator).
RECURSIVE Split(_, _)
Split(s, separator) ==
  LET cuts == {i \in DOMAIN s : s[i] = separator}
      cut == CHOOSE i \in cuts : \A k \in cuts : i <= k
  IN CASE s = << >> -> << >>
       [] s # << >> /\ cuts = {} -> <<s>>
       [] OTHER -> <<SubSeq(s, 1, cut - 1)>> \o Split(SubSeq(s, cut + 1, Len(s)), separator)

\* Version{}: up to three numbers; the parts that are missing are zero.
VersionNumbers(s) == Split(s, ".")
IsVersion(s) ==
  LET parts == VersionNumbers(s) IN
  Len(parts) <= 3 /\ \A i \in DOMAIN parts : parts[i] # << >> /\ parts[i][1] \in Range(Digits)

\* Color::FromHTML(): RRGGBB or RRGGBBAA, with or without #.
IsColor(s) ==
  LET digits == IF s # << >> /\ s[1] = "#" THEN Tail(s) ELSE s IN
  Len(digits) \in {6, 8} /\ Range(digits) \subseteq Range(HexDigits)

\* Whether a value of the type can be made of the JSON; if not FromJSON throws.
Accepts(type, j) ==
  CASE type = "bool" -> j.kind = "boolean"
    [] type = "int" -> j.kind = "integer"
    [] type = "unsigned" -> j.kind = "integer" /\ j.num >= 0
    [] type = "double" -> j.kind = "double"
    [] type = "string" -> j.kind = "string"
    [] type = "Version" -> j.kind = "string" /\ IsVersion(j.str)
    [] type = "Color" -> j.kind = "string" /\ IsColor(j.str)
    [] type = "FontAttributes" ->
         j.kind = "string" /\ Range(j.str) \subseteq
           {"sp", "bold", "italic", "underline", "strikethrough", "dashed", "blink"}
    [] type = "ConfirmPaste" -> j.kind = "string" /\ j.str \in {<<"never">>, <<"always">>, <<"multiline">>}
    [] type = "AllowClipboardUpdate" -> j.kind = "string" /\ j.str \in {<<"allow">>, <<"deny">>, <<"ask">>}
    [] type = "Command" -> j.kind = "array" /\ \A i \in DOMAIN j.items : j.items[i].kind = "string"
    [] type = "Palette" ->
         j.kind = "array" /\ \A i \in DOMAIN j.items :
           j.items[i].kind = "string" /\ (j.items[i].str = << >> \/ IsColor(j.items[i].str))
    [] type = "Logs" ->
         j.kind = "array" /\ \A i \in DOMAIN j.items :
           j.items[i].kind = "string" /\ j.items[i].str \in
             {<<"FATAL_ERROR">>, <<"EXCEPTION">>, <<"TELEMETRY">>, <<"SEQ_ERROR">>,
              <<"SEQ_UNKNOWN">>, <<"SEQ_WONT_SUPPORT">>}

-----------------------------------------------------------------------------
(* update(), fillMissingValues() and toJSON(). A result is the node and, of *)
(* update(), whether no error was handed to the error handler.              *)

Result(n, clean) == [node |-> n, clean |-> clean]

\* defaultValue().
DefaultValue(sc) == SetComment(sc.default, Description)

RECURSIVE Update(_, _, _)
UpdateProperty(sc, n, j) ==
  IF Accepts(sc.type, j) THEN Result([n EXCEPT !.json = j, !.updated = TRUE], TRUE)
                         ELSE Result(n, FALSE)

UpdateObject(sc, n, j) ==
  LET known == DOMAIN j.members \intersect DOMAIN sc.kids
      kids == [k \in known |-> Update(sc.kids[k], n.kids[k], j.members[k])]
  IN IF j.kind # "object" THEN Result(n, FALSE)
     ELSE Result([n EXCEPT !.updated = TRUE, !.json.comment = j.comment,
                           !.kids = [k \in known |-> kids[k].node] @@ @],
                 known = DOMAIN j.members /\ \A k \in known : kids[k].clean)

\* Array::update(): what was there is gone, but for elements when j is no array.
UpdateArray(sc, n, j) ==
  LET m == [n EXCEPT !.json = Array]
      items == [i \in DOMAIN j.items |-> Update(sc.entry, New(sc.entry), j.items[i])]
  IN IF j.kind # "array" THEN Result(m, FALSE)
     ELSE Result([m EXCEPT !.updated = TRUE, !.json.comment = j.comment,
                           !.elements = [i \in DOMAIN items |-> items[i].node]],
                 \A i \in DOMAIN items : items[i].clean)

Update(sc, n, j) ==
  CASE sc.kind = "property" -> UpdateProperty(sc, n, j)
    [] sc.kind = "object" -> UpdateObject(sc, n, j)
    [] sc.kind = "array" -> UpdateArray(sc, n, j)

\* Mutant: a default takes the place of what was read.
FillOwn_Always(sc, n) ==
  [node |-> [Update(sc, n, DefaultValue(sc)).node EXCEPT !.updated = sc.calculated],
   calculated |-> sc.calculated]

\* With its own default unless updated; calculated says that there is something
\* to be saved.
FillOwn(sc, n) ==
  IF n.updated THEN [node |-> n, calculated |-> FALSE]
  ELSE [node |-> [Update(sc, n, DefaultValue(sc)).node EXCEPT !.updated = sc.calculated],
        calculated |-> sc.calculated]

RECURSIVE FillMissingValues(_, _)
FillKids(sc, n) ==
  LET kids == [k \in DOMAIN n.kids |-> FillMissingValues(sc.kids[k], n.kids[k])]
      any == \E k \in DOMAIN kids : kids[k].calculated
  IN [node |-> [n EXCEPT !.kids = [k \in DOMAIN kids |-> kids[k].node], !.updated = @ \/ any],
      calculated |-> any]

FillElements(sc, own) ==
  LET n == own.node
      elements == [i \in DOMAIN n.elements |-> FillMissingValues(sc.entry, n.elements[i])]
      any == \E i \in DOMAIN elements : elements[i].calculated
  IN [node |-> [n EXCEPT !.elements = [i \in DOMAIN elements |-> elements[i].node],
                         !.updated = @ \/ any],
      calculated |-> own.calculated \/ any]

FillMissingValues(sc, n) ==
  CASE sc.kind = "property" -> FillOwn(sc, n)
    [] sc.kind = "object" -> FillKids(sc, n)
    [] sc.kind = "array" -> FillElements(sc, FillOwn(sc, n))

\* toJSON(updatedOnly = true).
RECURSIVE ToJSON(_, _)
ToJSON(sc, n) ==
  CASE sc.kind = "property" -> n.json
    [] sc.kind = "object" ->
         [Object EXCEPT !.comment = n.json.comment,
                        !.members = [k \in {k \in DOMAIN n.kids : n.kids[k].updated} |->
                                       ToJSON(sc.kids[k], n.kids[k])]]
    [] sc.kind = "array" ->
         [Array EXCEPT !.comment = n.json.comment,
                       !.items = [i \in DOMAIN n.elements |-> ToJSON(sc.entry, n.elements[i])]]

\* set(): with a value that is known to be good.
SetTo(sc, n, j) == FillMissingValues(sc, Update(sc, n, j).node).node

\* Array::addElement().
AddElement(sc, n, j) ==
  [n EXCEPT !.elements = Append(@, SetTo(sc.entry, New(sc.entry), j)), !.updated = TRUE]

\* The properties of which j holds a good value, with their paths.
RECURSIVE GoodValues(_, _)
GoodValues(sc, j) ==
  CASE sc.kind = "property" -> IF Accepts(sc.type, j) THEN {[path |-> << >>, json |-> j]} ELSE {}
    [] sc.kind = "object" ->
         UNION {{[c EXCEPT !.path = <<k>> \o @] : c \in GoodValues(sc.kids[k], j.members[k])} :
                  k \in DOMAIN j.members \intersect DOMAIN sc.kids}
    [] sc.kind = "array" ->
         UNION {{[c EXCEPT !.path = <<Index(i)>> \o @] : c \in GoodValues(sc.entry, j.items[i])} :
                  i \in DOMAIN j.items}

-----------------------------------------------------------------------------
(* The command line. An argument is a string; keyword arguments are a       *)
(* function of their aliases to the path they set and, if they have one,    *)
(* their default value.                                                     *)

NoDefault == <<"no default">>
Keyword(path) == [path |-> path, default |-> NoDefault]
Flag(path, default) == [path |-> path, default |-> default]

\* The state of the parsing: the root, the place, how often each path was set.
Parsing(root, i, seen) == [ok |-> TRUE, root |-> root, at |-> i, seen |-> seen]
Failed(p) == [p EXCEPT !.ok = FALSE]
Times(seen, path) == Cardinality({x \in DOMAIN seen : seen[x] = path})

\* cmdArgUpdate() of each type: the JSON that the string stands for.
CmdArgJSON(type, n, value, index) ==
  CASE type = "string" -> Found(0, Str(value))
    [] type = "Command" -> Found(0, Add(IF index = 0 THEN Array ELSE n.json, Str(value)))
    [] OTHER -> Parse(value)

\* Mutant: every value is the first.
UpdateArgument_First(sc, p, path, value) ==
  LET updated(j, u) == IF j.ok /\ u.clean
                       THEN [p EXCEPT !.root = Put(@, path, u.node), !.seen = Append(@, path)]
                       ELSE Failed(p)
      made(property, n, j) == updated(j, Update(property, n, j.value))
      of(property, n) == made(property, n, CmdArgJSON(property.type, n, value, 0))
  IN of(SchemaAt(sc, path), At(p.root, path))

\* updateArgument() with cmdArgUpdate().
UpdateArgument(sc, p, path, value) ==
  LET index == Times(p.seen, path)
      updated(j, u) == IF j.ok /\ u.clean
                       THEN [p EXCEPT !.root = Put(@, path, u.node), !.seen = Append(@, path)]
                       ELSE Failed(p)
      made(property, n, j) == updated(j, Update(property, n, j.value))
      of(property, n) == IF index = 0 \/ property.type = "Command"
                         THEN made(property, n, CmdArgJSON(property.type, n, value, index))
                         ELSE Failed(p)
  IN of(SchemaAt(sc, path), At(p.root, path))

\* The alias and the value of an argument; the value may be missing.
SplitArgument(keywords, arg) ==
  LET cuts == {i \in DOMAIN arg : arg[i] = "="}
      cut == CHOOSE i \in cuts : \A k \in cuts : i <= k
  IN IF arg \in DOMAIN keywords \/ cuts = {} THEN [name |-> arg, value |-> NoDefault]
     ELSE [name |-> SubSeq(arg, 1, cut - 1), value |-> SubSeq(arg, cut + 1, Len(arg))]

\* parseKeywordArguments() from place p.at on; last takes all that is left.
RECURSIVE ParseKeywords(_, _, _, _, _), TakeRest(_, _, _, _)
TakeRest(sc, p, path, argv) ==
  IF ~p.ok \/ p.at > Len(argv) THEN p
  ELSE TakeRest(sc, [UpdateArgument(sc, p, path, argv[p.at]) EXCEPT !.at = @ + 1], path, argv)

ParseKeywords(sc, keywords, last, p, argv) ==
  LET value(a) == IF a.value = NoDefault THEN keywords[a.name].default ELSE a.value
      \* whose value, and where it ends
      taken(a) == IF a.name \notin DOMAIN keywords THEN [at |-> Len(argv) + 1]
                  ELSE IF value(a) # NoDefault THEN [path |-> keywords[a.name].path, at |-> p.at, value |-> value(a)]
                  ELSE IF p.at = Len(argv) THEN [at |-> Len(argv) + 1]
                  ELSE [path |-> keywords[a.name].path, at |-> p.at + 1, value |-> argv[p.at + 1]]
      rest(path, q) == IF path = last THEN TakeRest(sc, q, last, argv) ELSE q
      set(t) == IF t.at > Len(argv) THEN Failed(p)
                ELSE ParseKeywords(sc, keywords, last,
                       rest(t.path, [UpdateArgument(sc, p, t.path, t.value) EXCEPT !.at = t.at + 1]), argv)
  IN IF ~p.ok \/ p.at > Len(argv) THEN p ELSE set(taken(SplitArgument(keywords, argv[p.at])))

\* parseCommandLine(): the arguments are the only ones updated afterwards.
ParseCommandLine(sc, keywords, last, root, argv) ==
  LET paths == {keywords[a].path : a \in DOMAIN keywords}
      clear(path, r) == Put(r, path, [At(r, path) EXCEPT !.updated = FALSE])
  IN ParseKeywords(sc, keywords, last, Parsing(FoldSet(clear, root, paths), 1, << >>), argv)

=============================================================================
