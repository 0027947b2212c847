------------------------------ MODULE Settings ------------------------------
(***************************************************************************)
(* The settings of terminalpp (terminalpp/config.{h,cpp}): what they are,  *)
(* and how an instance of the terminal reads, completes and saves them     *)
(* when it starts. Several instances may start at the same time; each may  *)
(* be killed at any step. The file is written line by line.                *)
(*                                                                         *)
(* files holds the contents of all files ever made (a file that is renamed *)
(* or removed lives on for who has it open), name the one that is called   *)
(* settings.json, or NoFile, and backups[i] the one renamed to the i-th    *)
(* random name: rand() is never seeded, so that every instance draws the   *)
(* same names in the same order.                                           *)
(***************************************************************************)
EXTENDS JsonConfig

CONSTANTS
  Instances,    \* the instances of the terminal
  Texts,        \* what the user may make of the settings file
  Arguments,    \* the command lines
  MaxStarts, MaxEdits, MaxCrashes,
  LinesAtOnce   \* how many lines become visible together

VARIABLES files, name, backups,
  at,           \* of each instance: where it is in Setup()
  backup,       \* of each instance: the number of the name it will back up under
  saved,        \* of each instance: [file, text, upto] it writes
  config,       \* of each instance: its configuration
  asked,        \* of each instance: its command line
  read,         \* of each instance: how the file looked: [own, ok, clean]
  starts, edits, crashes,
  written,      \* what the user wrote last
  author,       \* who wrote the file last: "user" or "terminal"
  torn,         \* whether since then an instance was killed while it wrote, or two
                \* wrote different texts at the same time
  disturbed,    \* or one read or opened the file while another was writing it
  replaced      \* or a backup took the place of one that had the same name

vars == <<files, name, backups, at, backup, saved, config, asked, read, starts, edits, crashes,
          written, author, torn, disturbed, replaced>>

NoFile == 0
NoName == 0

-----------------------------------------------------------------------------
(* What can be set *)

Text(words) == Str(words)
NoText == Str(<< >>)
HTML(digit, n) == Str(<<"#">> \o [i \in 1..n |-> digit])

VersionSettings ==
  ObjectOf([version |-> Calculated("Version", Text(<<"0", ".", "8", ".", "4">>)),
            checkChannel |-> Property("string", NoText)])

ApplicationSettings ==
  ObjectOf([detectSessionsAtStartup |-> Property("bool", Boolean(TRUE))])

TelemetrySettings ==
  ObjectOf([dir |-> Calculated("string", Text(<<"/tmp/terminalpp/telemetry">>)),
            deleteAtExit |-> Property("bool", Boolean(TRUE)),
            events |-> Property("Logs", Array)])

HyperlinkStyle(foreground) ==
  ObjectOf([foreground |-> Property("Color", foreground),
            background |-> Property("Color", HTML("0", 8)),
            font |-> Property("FontAttributes", Text(<<"underline", "sp", "dashed">>))])

RendererSettings ==
  ObjectOf([fps |-> Property("unsigned", Integer(60)),
            hyperlinks |-> ObjectOf([normal |-> HyperlinkStyle(HTML("0", 8)),
                                     active |-> HyperlinkStyle(HTML("f", 6))]),
            font |-> ObjectOf([family |-> Calculated("string", Text(<<"Monospace">>)),
                               boldFamily |-> Property("string", NoText),
                               doubleWidthFamily |-> Calculated("string", Text(<<"Monospace">>)),
                               doubleWidthBoldFamily |-> Property("string", NoText),
                               size |-> Property("unsigned", Integer(18)),
                               charSpacing |-> Property("double", Double(10)),
                               lineSpacing |-> Property("double", Double(10))]),
            window |-> ObjectOf([cols |-> Property("unsigned", Integer(80)),
                                 rows |-> Property("unsigned", Integer(25)),
                                 fullscreen |-> Property("bool", Boolean(FALSE)),
                                 waitAfterPtyTerminated |-> Property("bool", Boolean(FALSE)),
                                 historyLimit |-> Property("int", Integer(10000))])])

SequencesSettings ==
  ObjectOf([confirmPaste |-> Property("ConfirmPaste", Text(<<"multiline">>)),
            allowClipboardUpdate |-> Property("AllowClipboardUpdate", Text(<<"allow">>)),
            boldIsBright |-> Property("bool", Boolean(TRUE)),
            displayBold |-> Property("bool", Boolean(TRUE)),
            allowOSCHyperlinks |-> Property("bool", Boolean(TRUE)),
            detectHyperlinks |-> Property("bool", Boolean(TRUE)),
            allowCursorChanges |-> Property("bool", Boolean(TRUE))])

PaletteSettings ==
  ObjectOf([colors |-> Property("Palette", Array),
            defaultForeground |-> Property("Color", HTML("f", 6)),
            defaultBackground |-> Property("Color", HTML("0", 6))])

CursorSettings ==
  ObjectOf([codepoint |-> Property("unsigned", Integer(9601)),
            color |-> Property("Color", HTML("f", 6)),
            blink |-> Property("bool", Boolean(TRUE)),
            inactiveColor |-> Property("Color", HTML("0", 6))])

SessionDefaults ==
  ObjectOf([pty |-> Property("string", Text(<<"local">>)),
            palette |-> PaletteSettings, cursor |-> CursorSettings])

SessionSettings ==
  ObjectOf([name |-> Property("string", NoText),
            hidden |-> Property("bool", Boolean(FALSE)),
            pty |-> Property("string", Text(<<"local">>)),
            command |-> Property("Command", Array),
            workingDirectory |-> Property("string", NoText),
            palette |-> PaletteSettings, cursor |-> CursorSettings])

SessionsSchema == ArrayOf(SessionSettings)
DefaultSessionSchema == Property("string", Text(<<"default">>))

Schema ==
  ObjectOf([version |-> VersionSettings, application |-> ApplicationSettings,
            telemetry |-> TelemetrySettings, renderer |-> RendererSettings,
            sequences |-> SequencesSettings,
            remoteFiles |-> ObjectOf([dir |-> Calculated("string", Text(<<"/tmp/terminalpp/remoteFiles">>))]),
            sessionDefaults |-> SessionDefaults,
            defaultSession |-> DefaultSessionSchema,
            sessions |-> SessionsSchema])

-----------------------------------------------------------------------------
(* Reading *)

Path(names) == [i \in DOMAIN names |-> <<names[i]>>]
SessionsPath == Path(<<"sessions">>)
DefaultSessionPath == Path(<<"defaultSession">>)

\* operator () of a property: the JSON its value was made from.
Value(n, names) == At(n, Path(names)).json
Sessions(c) == At(c, SessionsPath).elements
NamesOf(c) == [i \in DOMAIN Sessions(c) |-> Value(Sessions(c)[i], <<"name">>).str]

\* VerifyConfigurationVersion(): unless the settings are of this version the
\* whole group is dropped.
VerifyConfigurationVersion(j) ==
  LET own(v) == /\ v.kind = "string" /\ IsVersion(v.str)
                /\ VersionNumbers(v.str) = VersionNumbers(VersionSettings.kids[<<"version">>].default.str)
  IN CASE j.kind # "object" -> Throws(j)
       [] j.kind = "object" /\ own(Member(Member(j, <<"version">>), <<"version">>)) -> Found(0, j)
       [] OTHER -> Found(0, Erase(j, <<"version">>))

\* The settings of a text; not ok when the text is not JSON, or not an object.
Verified(text) ==
  LET parsed(e) == IF e.ok THEN VerifyConfigurationVersion(e.value) ELSE e
  IN parsed(Parse(text))

\* The login shell, which patchSessions() adds on Unix.
ShellName == <<"Default login shell">>
Shell == AddMember(AddMember(AddMember(SetComment(Object, ShellName),
           <<"name">>, Text(ShellName)), <<"command">>, Add(Array, Text(<<"/bin/sh">>))),
           <<"workingDirectory">>, Text(<<"/home/user">>))

\* addSession().
AddSession(c, session) ==
  IF Member(session, <<"name">>).str \in Range(NamesOf(c)) THEN [changed |-> FALSE, root |-> c]
  ELSE [changed |-> TRUE, root |-> Put(c, SessionsPath, AddElement(SessionsSchema, At(c, SessionsPath), session))]

PatchSessions(c) ==
  LET default(a, n) ==
        IF n.updated THEN a
        ELSE [changed |-> TRUE, root |-> Put(a.root, DefaultSessionPath,
                Update(DefaultSessionSchema, n, SetComment(Text(ShellName), Description)).node)]
      added(a) == default(a, At(a.root, DefaultSessionPath))
  IN IF /\ At(c, SessionsPath).updated /\ At(c, DefaultSessionPath).updated
        /\ Value(c, <<"application", "detectSessionsAtStartup">>).num = 0
     THEN [changed |-> FALSE, root |-> c]
     ELSE added(AddSession(c, Shell))

\* What Setup() makes of the text of the settings: the configuration, whether it
\* could be read, whether it was without error and whether it is to be saved.
Loaded(text) ==
  LET patched(u, f, s) == [ok |-> TRUE, clean |-> u.clean, root |-> s.root,
                           save |-> ~u.clean \/ f.calculated \/ s.changed]
      filled(u, f) == patched(u, f, PatchSessions(f.node))
      updated(sc, u) == filled(u, FillMissingValues(sc, u.node))
      verified(sc, v) == IF v.ok THEN updated(sc, Update(sc, New(sc), v.value))
                         ELSE [ok |-> FALSE, clean |-> FALSE, save |-> TRUE, root |-> New(sc)]
  IN verified(Schema, Verified(text))

\* Without a file.
Defaults ==
  LET of(sc) == PatchSessions(FillMissingValues(sc, Update(sc, New(sc), Object).node).node).root
  IN of(Schema)

-----------------------------------------------------------------------------
(* The command line *)

Keywords(cmd) ==
  LET key(names) == Keyword(Path(names))
      cols == key(<<"renderer", "window", "cols">>)
      rows == key(<<"renderer", "window", "rows">>)
  IN (<<"--fps">> :> key(<<"renderer", "fps">>)) @@
     (<<"--font">> :> key(<<"renderer", "font", "family">>)) @@
     (<<"--font-size">> :> key(<<"renderer", "font", "size">>)) @@
     (<<"--cols">> :> cols) @@ (<<"-c">> :> cols) @@ (<<"--rows">> :> rows) @@ (<<"-r">> :> rows) @@
     (<<"--session">> :> Keyword(DefaultSessionPath)) @@
     (<<"-e">> :> Keyword(cmd \o Path(<<"command">>))) @@
     (<<"--pty">> :> Keyword(cmd \o Path(<<"pty">>))) @@
     (<<"--here">> :> Flag(cmd \o Path(<<"workingDirectory">>), << >>))

\* sessionByName(): the first of the name, 0 if it throws.
SessionByName(c, n) ==
  LET found == {i \in DOMAIN Sessions(c) : NamesOf(c)[i] = n}
  IN IF found = {} THEN 0 ELSE CHOOSE i \in found : \A k \in found : i <= k

OverrideName == <<"command-line-override">>

\* The session that is made of base and of what cmd overrides.
Override(sc, base, cmd) ==
  LET put(c, change) ==
        Put(c, Path(change.names),
            SetTo(SchemaAt(sc, Path(change.names)), At(c, Path(change.names)), change.json))
      given(n) == At(cmd, Path(<<n>>)).updated
      set(n, json) == << [names |-> <<n>>, json |-> json] >>
      copy(n) == IF given(n) THEN set(n, Value(cmd, <<n>>)) ELSE << >>
      pty == IF ~given("pty") /\ given("command") THEN set("pty", Text(<<"local">>)) ELSE copy("pty")
  IN FoldLeft(put, SetTo(sc, New(sc), ToJSON(sc, base)),
              set("hidden", Boolean(TRUE)) \o pty \o copy("command") \o copy("workingDirectory")
                \o set("name", Text(OverrideName)))

\* Config::parseCommandLine(): the configuration with the command line in
\* effect, and whether nothing was thrown.
CommandLine(c, argv) ==
  LET sessions(n) == At(n, SessionsPath)
      add(n, session) == Put(n, SessionsPath, [sessions(n) EXCEPT !.elements = Append(@, session)])
      default(n) == Put(n, DefaultSessionPath,
                        SetTo(DefaultSessionSchema, At(n, DefaultSessionPath), Text(OverrideName)))
      erased(n, i) == [ok |-> TRUE, root |-> Put(n, SessionsPath, [sessions(n) EXCEPT !.elements = RemoveAt(@, i)])]
      overridden(p, i, cmd, base) ==
        CASE \A n \in {"pty", "command", "workingDirectory"} : ~At(cmd, Path(<<n>>)).updated -> erased(p.root, i)
          [] OTHER -> IF base = 0 THEN [ok |-> FALSE, root |-> p.root]
                      ELSE erased(default(add(p.root, Override(SessionSettings, Sessions(p.root)[base], cmd))), i)
      parsed(p, i) ==
        IF p.ok THEN overridden(p, i, Sessions(p.root)[i], SessionByName(p.root, Value(p.root, <<"defaultSession">>).str))
                ELSE [ok |-> FALSE, root |-> p.root]
      cmd == SessionsPath \o <<Index(Len(Sessions(c)) + 1)>>
  IN parsed(ParseCommandLine(Schema, Keywords(cmd), cmd \o Path(<<"command">>),
                             Put(c, SessionsPath, AddElement(SessionsSchema, sessions(c), Object)), argv),
            Len(Sessions(c)) + 1)

-----------------------------------------------------------------------------
(* What the user asked for *)

\* What is read back as it was written: a double is not that has no fraction or
\* more than six digits.
Lasting(c) == ~(c.json.kind = "double" /\ (c.json.num % 10 = 0 \/ c.json.num >= 1000000))

Chosen(text) ==
  LET values(v) == IF v.ok THEN GoodValues(Schema, v.value) ELSE {}
  IN values(Verified(text))

RECURSIVE EndsComment(_)
EndsComment(j) ==
  \/ \E i \in 1..(Len(j.comment) - 1) : j.comment[i] = "*" /\ j.comment[i + 1] = "/"
  \/ \E i \in DOMAIN j.items : EndsComment(j.items[i])
  \/ \E k \in DOMAIN j.members : EndsComment(j.members[k])

\* What the user writes: the values in it that can be used, of those the ones
\* that last, whether it is JSON, and whether it makes the terminal write what
\* it cannot read: a comment that ends the one it is saved in, or an exponent.
Wish(text) ==
  LET of(e, chosen) == [text |-> text, ok |-> e.ok, chosen |-> chosen, lasting |-> {c \in chosen : Lasting(c)},
                        spoils |-> \/ EndsComment(e.value)
                                   \/ \E c \in chosen : c.json.kind = "double" /\ c.json.num >= 9999995]
  IN of(Parse(text), Chosen(text))

-----------------------------------------------------------------------------
(* Setup() *)

NotSaved == [file |-> NoFile, text |-> << >>, upto |-> 0]
NotAsked == [argv |-> << >>, session |-> << >>]
NotRead == [own |-> FALSE, ok |-> TRUE, clean |-> TRUE]

Init ==
  /\ files = << >> /\ name = NoFile /\ backups = << >>
  /\ backup = [p \in Instances |-> NoName]
  /\ at = [p \in Instances |-> "off"]
  /\ saved = [p \in Instances |-> NotSaved]
  /\ config = [p \in Instances |-> New(Schema)]
  /\ asked = [p \in Instances |-> NotAsked]
  /\ read = [p \in Instances |-> NotRead]
  /\ starts = 0 /\ edits = 0 /\ crashes = 0
  /\ written = Wish(<< >>) /\ author = "user"
  /\ torn = FALSE /\ disturbed = FALSE /\ replaced = FALSE

Saving == {"backup", "rename", "open", "write"}
Writing == \E p \in Instances : at[p] = "write" /\ saved[p].file = name
ghosts == <<written, author, torn, replaced, edits>>

\* Read the settings, if there are any, and complete them.
ReadFile(p, l) ==
  /\ config' = [config EXCEPT ![p] = l.root]
  /\ at' = [at EXCEPT ![p] = IF ~l.ok THEN "backup" ELSE IF l.save THEN "open" ELSE "args"]
  /\ disturbed' = (disturbed \/ Writing)
  /\ read' = [read EXCEPT ![p] = [own |-> author = "terminal" /\ ~disturbed' /\ ~torn,
                                  ok |-> l.ok, clean |-> l.clean]]

Read(p) ==
  /\ at[p] = "off" /\ starts < MaxStarts
  /\ starts' = starts + 1
  /\ IF name = NoFile
     THEN /\ config' = [config EXCEPT ![p] = Defaults]
          /\ at' = [at EXCEPT ![p] = "open"]
          /\ UNCHANGED <<read, disturbed>>
     ELSE ReadFile(p, Loaded(files[name]))
  /\ UNCHANGED <<files, name, backups, backup, saved, asked, crashes, ghosts>>

\* MakeUnique(filename): the first random name that no file has now. The user is
\* told of it, which waits for him.
MakeUnique(p) ==
  /\ at[p] = "backup"
  /\ at' = [at EXCEPT ![p] = "rename"]
  /\ backup' = [backup EXCEPT ![p] = Len(backups) + 1]
  /\ UNCHANGED <<files, name, backups, saved, config, asked, read, starts, crashes, disturbed, ghosts>>

\* Mutant: a file that could not be read is overwritten.
Backup_Not(p) ==
  /\ at[p] = "rename"
  /\ at' = [at EXCEPT ![p] = "open"]
  /\ backup' = [backup EXCEPT ![p] = NoName]
  /\ UNCHANGED <<files, name, backups, saved, config, asked, read, starts, crashes, disturbed, ghosts>>

\* Rename(filename, backup): throws when someone else has renamed the file; a
\* file that has the name of the backup by now is replaced.
Backup(p) ==
  /\ at[p] = "rename"
  /\ at' = [at EXCEPT ![p] = IF name = NoFile THEN "failed" ELSE "open"]
  /\ backups' = IF name = NoFile THEN backups
                ELSE [i \in DOMAIN backups \union {backup[p]} |-> IF i = backup[p] THEN name ELSE backups[i]]
  /\ replaced' = (replaced \/ (name # NoFile /\ backup[p] \in DOMAIN backups))
  /\ name' = NoFile
  /\ backup' = [backup EXCEPT ![p] = NoName]
  /\ UNCHANGED <<files, saved, config, asked, read, starts, crashes, disturbed, written, author, torn, edits>>

\* std::ofstream f(filename): the file is made, or it is empty.
Open(p) ==
  LET file == IF name = NoFile THEN Len(files) + 1 ELSE name
      text == Write(ToJSON(Schema, config[p]))
  IN
  /\ at[p] = "open"
  /\ at' = [at EXCEPT ![p] = "write"]
  /\ name' = file
  /\ files' = IF name = NoFile THEN Append(files, << >>) ELSE [files EXCEPT ![name] = << >>]
  /\ saved' = [saved EXCEPT ![p] = [file |-> file, text |-> text, upto |-> 0]]
  /\ disturbed' = (disturbed \/ Writing)
  /\ torn' = (torn \/ \E q \in Instances : at[q] = "write" /\ saved[q].file = name /\ saved[q].text # text)
  /\ UNCHANGED <<backups, backup, config, asked, read, starts, crashes, written, author, replaced, edits>>

\* Where the next lines of a text end.
NextLines(text, from) ==
  LET ends == {i \in from + 1..Len(text) : text[i] = "nl" \/ i = Len(text)}
      enough == {i \in ends : i = Len(text) \/ Cardinality({k \in ends : k <= i}) = LinesAtOnce}
  IN CHOOSE i \in enough : \A k \in enough : i <= k

\* A text with what another has between two places; a gap is filled with zeros.
Overwritten(old, new, from, to) ==
  [i \in 1..(IF Len(old) > to THEN Len(old) ELSE to) |->
     IF i \in from + 1..to THEN new[i] ELSE IF i <= Len(old) THEN old[i] ELSE "nul"]

\* f << config.toJSON(): each std::endl flushes.
WriteLines(p) ==
  LET w == saved[p]
      to == NextLines(w.text, w.upto)
  IN /\ at[p] = "write" /\ w.upto < Len(w.text)
     /\ files' = [files EXCEPT ![w.file] = Overwritten(@, w.text, w.upto, to)]
     /\ saved' = [saved EXCEPT ![p].upto = to]
     /\ UNCHANGED <<name, backups, at, backup, config, asked, read, starts, crashes, disturbed, ghosts>>

Close(p) ==
  /\ at[p] = "write" /\ saved[p].upto = Len(saved[p].text)
  /\ at' = [at EXCEPT ![p] = "args"]
  /\ author' = IF saved[p].file = name THEN "terminal" ELSE author
  /\ saved' = [saved EXCEPT ![p] = NotSaved]
  /\ UNCHANGED <<files, name, backups, backup, config, asked, read, starts, crashes, disturbed,
                 written, torn, replaced, edits>>

\* parseCommandLine(), and what main() does next: the session is looked up.
ParseArguments(p) ==
  \E argv \in Arguments :
    LET parsed(l) ==
          /\ config' = [config EXCEPT ![p] = l.root]
          /\ at' = [at EXCEPT ![p] =
               IF l.ok /\ SessionByName(l.root, Value(l.root, <<"defaultSession">>).str) # 0 THEN "up" ELSE "failed"]
    IN /\ at[p] = "args"
       /\ parsed(CommandLine(config[p], argv))
       /\ asked' = [asked EXCEPT ![p] = [argv |-> argv, session |-> Value(config[p], <<"defaultSession">>).str]]
       /\ UNCHANGED <<files, name, backups, backup, saved, read, starts, crashes, disturbed, ghosts>>

Stopped(p) ==
  /\ at' = [at EXCEPT ![p] = "off"]
  /\ backup' = [backup EXCEPT ![p] = NoName]
  /\ saved' = [saved EXCEPT ![p] = NotSaved]
  /\ config' = [config EXCEPT ![p] = New(Schema)]
  /\ asked' = [asked EXCEPT ![p] = NotAsked]
  /\ read' = [read EXCEPT ![p] = NotRead]

Quit(p) ==
  /\ at[p] \in {"up", "failed"}
  /\ Stopped(p)
  /\ UNCHANGED <<files, name, backups, starts, crashes, disturbed, ghosts>>

Crash(p) ==
  /\ at[p] \in Saving /\ crashes < MaxCrashes
  /\ crashes' = crashes + 1
  /\ torn' = (torn \/ at[p] = "write")
  /\ Stopped(p)
  /\ UNCHANGED <<files, name, backups, starts, disturbed, written, author, replaced, edits>>

\* The user saves the settings from an editor, while no instance is starting.
Edit ==
  /\ edits < MaxEdits
  /\ \A p \in Instances : at[p] \in {"off", "up", "failed"}
  /\ edits' = edits + 1
  /\ \E text \in Texts :
       /\ written' = Wish(text)
       /\ files' = IF name = NoFile THEN Append(files, text) ELSE [files EXCEPT ![name] = text]
       /\ name' = IF name = NoFile THEN Len(files) + 1 ELSE name
  /\ author' = "user" /\ torn' = FALSE /\ disturbed' = FALSE /\ replaced' = FALSE
  /\ UNCHANGED <<backups, at, backup, saved, config, asked, read, starts, crashes>>

Next ==
  \/ Edit
  \/ \E p \in Instances :
       Read(p) \/ MakeUnique(p) \/ Backup(p) \/ Open(p) \/ WriteLines(p) \/ Close(p) \/ ParseArguments(p)
         \/ Quit(p) \/ Crash(p)

Spec == Init /\ [][Next]_vars

-----------------------------------------------------------------------------
(* Properties *)

\* What the user wrote into the settings and can be used is in effect whenever
\* an instance has completed its configuration, in this start and in all later
\* ones, however often the settings are completed and saved in between. The
\* version group of another version is none of it, VerifyConfigurationVersion()
\* drops it with its checkChannel (config.cpp:100), and neither is a double that
\* is not written as it was read (json.h:994).
ChoicesKept ==
  ~torn /\ ~disturbed /\ ~written.spoils =>
    \A p \in Instances : at[p] = "args" =>
      \A c \in written.lasting : Same(At(config[p], c.path).json, c.json)

Kept == (Range(backups) \union {name}) \ {NoFile}

\* As soon as nobody is writing everything the user wrote is in the settings or
\* in a backup: text that cannot be read as it was, else every value that can be
\* used. Two things take it away, an instance that is killed while it writes and
\* one whose backup replaces another's; no other interleaving of instances that
\* start together, are killed, or back up what a third has written does.
NothingLost ==
  ~torn /\ ~replaced /\ written.text # << >> /\ ~written.spoils /\ (\A p \in Instances : at[p] \notin {"open", "write"}) =>
    \E f \in Kept :
      IF written.ok THEN \A c \in written.lasting : \E d \in Chosen(files[f]) : d.path = c.path /\ Same(d.json, c.json)
      ELSE files[f] = written.text

\* The settings that an instance saved are read by the next without complaint;
\* a double that lost its fraction is refused, and a comment that holds the end
\* of a comment, or a double so large that it is written as 1e+06, spoils the file.
TakesOwnFile ==
  \A p \in Instances : read[p].own =>
    /\ read[p].ok \/ written.spoils
    /\ read[p].clean \/ ~read[p].ok \/ written.lasting # written.chosen

\* The session that is opened.
Opened(c) == Sessions(c)[SessionByName(c, Value(c, <<"defaultSession">>).str)]

\* What argv gives for a keyword, or other.
Given(argv, alias, other) ==
  LET places == {i \in DOMAIN argv : argv[i] = alias \/ (Len(argv[i]) > 1 /\ argv[i][1] = alias[1])}
      i == CHOOSE i \in places : TRUE
  IN CASE places = {} -> other
       [] places # {} /\ argv[i] = alias -> argv[i + 1]
       [] OTHER -> SubSeq(argv[i], 3, Len(argv[i]))

\* An instance that is up runs what its command line asks for: with -e exactly
\* the words that follow it, through a local pty unless --pty says otherwise, in
\* a hidden session that looks like the one it is based on; without -e, --pty
\* and --here the session that --session or the settings name, which directory
\* --here gives it left aside. Nothing of it is ever saved.
AsAsked ==
  /\ \A p \in Instances : at[p] = "up" =>
       LET argv == asked[p].argv
           es == {i \in DOMAIN argv : argv[i] = <<"-e">>}
           e == IF es = {} THEN Len(argv) + 1 ELSE CHOOSE i \in es : \A k \in es : i <= k
           own == SubSeq(argv, 1, e - 1)
           s == Opened(config[p])
           b == SessionByName(config[p], Given(own, <<"--session">>, asked[p].session))
           base == Sessions(config[p])[b]
           get(n, x) == Value(n, <<x>>)
       IN /\ es # {} => [i \in DOMAIN get(s, "command").items |-> get(s, "command").items[i].str]
                          = SubSeq(argv, e + 1, Len(argv))
          /\ es = {} /\ b # 0 => Same(get(s, "command"), get(base, "command"))
          /\ Given(own, <<"--pty">>, <<"local">>) # get(s, "pty").str => es = {} /\ Same(get(s, "pty"), get(base, "pty"))
          /\ b # 0 => \A x \in {<<"palette">>, <<"cursor">>} :
               Same(ToJSON(SessionSettings.kids[x], s.kids[x]), ToJSON(SessionSettings.kids[x], base.kids[x]))
          /\ get(s, "hidden").num = 1 \/ s = base
  /\ \A p \in Instances : OverrideName[1] \notin Range(saved[p].text)

=============================================================================
