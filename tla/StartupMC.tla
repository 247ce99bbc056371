------------------------------ MODULE StartupMC ------------------------------
(***************************************************************************)
(* Bounded instance of Startup.  Each case puts values of one group of      *)
(* fields into the two files and the command line: the four related        *)
(* groups with every combination of what a layer may say, every other      *)
(* field with items that its reader takes and items that it refuses, and   *)
(* the ways in which a file does not load.                                 *)
(***************************************************************************)
EXTENDS Startup

W(piece) == <<piece>>

TheBlanks == {<<>>, W(" ")}
TheNumbers == W("0") :> 0 @@ W("2") :> 2 @@ W("3") :> 3 @@ W("13") :> 13
                @@ W("2000") :> 2000 @@ W("70000") :> 70000
TheCommandWords == W("run") :> <<W("run"), W("x")>> @@ W(" ") :> <<>> @@ <<>> :> <<>>
                     @@ W("nul") :> <<W("nul")>> @@ W("=") :> <<W("=")>>
TheNuls == {W("nul")}
TheAssignments == {W("A=1")}
TheFormats == {W("%H")}
TheColors == {W("red"), W("blue")}
TheWrapper == W("startx")
TheLog == W("log")
ThePathsIn(w) == <<w, W("other")>>
TheDirectives(w) ==
  CASE w = W("overlay") -> <<<<"border", W("red")>>, <<"text", W("blue")>>, <<"border", W("blue")>>>>
    [] w = W("flawed") -> <<<<"border", W("x")>>, <<"text", W("red")>>, <<"none", W("red")>>, <<"x">>>>
    [] w = <<>> -> <<>>
    [] OTHER -> <<<<"x">>>>

-----------------------------------------------------------------------------
Dir == [known |-> TRUE, root |-> TRUE, link_root |-> TRUE, open |-> FALSE, sticky |-> FALSE,
        dir |-> TRUE]
Leaf == [Dir EXCEPT !.dir = FALSE]
Temp == [Dir EXCEPT !.open = TRUE, !.sticky = TRUE]

File(kind, toml) ==
  [kind |-> kind, toml |-> toml, root |-> TRUE, open |-> FALSE, resolved |-> TRUE,
   ways |-> {<<Dir, Dir, Leaf>>}]
Toml(doc) == File("toml", doc)
NoFile == File("absent", <<>>)

(* Only one section, with only these keys. *)
One(section, table) == Toml(section :> <<"table", table>>)
(* Every table whose keys have items of these sets, or are left out. *)
Tables(items) ==
  UNION {[keys -> UNION {items[k] : k \in keys}] : keys \in SUBSET DOMAIN items}
Fitting(items) == {t \in Tables(items) : \A k \in DOMAIN t : t[k] \in items[k]}

(* The line that gives these options, every value attached. *)
LineOf(options) ==
  LET names == SetToSeq(DOMAIN options)
  IN [i \in DOMAIN names |->
        Line!Long(names[i], IF options[names[i]] = <<>> THEN None ELSE options[names[i]][1])]

Case(system, explicit, options, logins) ==
  [system |-> system, explicit |-> explicit, same |-> {FALSE},
   lines |-> {LineOf(o @@ "config" :> <<W("explicit")>>) : o \in options}, defs |-> logins,
   edits |-> "closed"]

Bools == {<<"bool", TRUE>>, <<"bool", FALSE>>}
Ints(numbers) == {<<"int", n>> : n \in numbers}
Texts(words) == {<<"string", w>> : w \in words}

NoLogin == <<None, None>>
Logins == {NoLogin, <<2000, None>>, <<5, 1000>>, <<70000, 5>>}

OneOfAll(section, items) == {One(section, t) : t \in Fitting(items)}
Uids == [x \in {"min-uid", "max-uid"} |-> Ints({5, 2000})]
Identity == [issue |-> Bools, greeting |-> Texts({<<>>, W("hi")})]
Remembers == [x \in {"username", "session", "user-session"} |-> Bools]
Keys(numbers) == [x \in {"command", "sessions", "power"} |-> Ints(numbers)]

Options(names) == {[o \in given |-> <<>>] : given \in SUBSET names}

RelatedCases ==
  {Case(OneOfAll("display", Identity), OneOfAll("display", Identity),
        Options({"issue", "no-issue"}) \cup {"greeting" :> <<w>> : w \in {<<>>, W("hello")}}
          \cup {"greeting" :> <<W("hello")>> @@ "issue" :> <<>>}, {NoLogin}),
   Case(OneOfAll("users", Uids), OneOfAll("users", Uids),
        {<<>>, "user-menu-min-uid" :> <<W("70000")>>, "user-menu-max-uid" :> <<W("2")>>,
         "user-menu-min-uid" :> <<W("2")>> @@ "user-menu-max-uid" :> <<W("2000")>>}, Logins),
   Case(OneOfAll("remember", Remembers), OneOfAll("remember", Remembers),
        Options({"no-remember", "remember-session"})
          \cup {"remember-user-session" :> <<>> @@ "no-remember-session" :> <<>>}, {NoLogin}),
   Case(OneOfAll("keybindings", Keys({2, 3})), OneOfAll("keybindings", Keys({3, 12})),
        {<<>>, "kb-power" :> <<W("2")>>,
         "kb-command" :> <<W("3")>> @@ "kb-sessions" :> <<W("2")>>}, {NoLogin})}

SomeItems ==
  Bools \cup Ints({0, 2, 65535, 70000}) \cup {<<"table", <<>>>>}
    \cup Texts({<<>>, W(" "), W("nul"), W("run"), W("top"), W("left"), W("%H"), W("red"),
                W("overlay"), W("flawed"), W("'")})
    \cup {<<"array", <<>>>>, <<"array", <<<<"string", W("A=1")>>, <<"int", 2>>>>>>,
          <<"array", <<<<"string", W("=")>>, <<"string", W("nul")>>>>>>,
          <<"array", <<<<"string", <<>>>>>>>>}

FieldCases ==
  {Case({One(s, k :> i) : i \in SomeItems},
        {One(s, k :> i) : i \in {<<"bool", FALSE>>, <<"int", 3>>} \cup Texts({W("nul"), W("blue")})}, {<<>>}, {NoLogin}) :
     <<s, k>> \in UNION {{s} \X KeysOf[s] : s \in DOMAIN KeysOf}}

CliWords == {<<>>, W(" "), W("nul"), W("run"), W("top"), W("left"), W("%H"), W("red"),
             W("overlay"), W("0"), W("2"), W("70000")}
CliValued ==
  {"cmd", "env", "sessions", "xsessions", "session-wrapper", "xsession-wrapper", "width",
   "title", "greeting", "time-position", "time-format", "battery-position", "refresh-rate",
   "user", "theme", "asterisks-char", "window-padding", "container-padding", "prompt-padding",
   "greet-align", "status-position", "power-shutdown", "power-reboot", "power-suspend",
   "power-hibernate", "ipc-timeout", "kb-command", "kb-sessions", "kb-power", "debug"}
CliPairs ==
  {<<"debug", "no-debug">>, <<"quiet", "no-quiet">>, <<"numlock", "no-numlock">>,
   <<"allow-command-editor", "no-command-editor">>, <<"time", "no-time">>,
   <<"battery", "no-battery">>, <<"user-menu", "no-user-menu">>,
   <<"user-autocomplete", "no-user-autocomplete">>, <<"asterisks", "no-asterisks">>,
   <<"status-reset", "no-status-reset">>, <<"status-command", "no-status-command">>,
   <<"status-sessions", "no-status-sessions">>, <<"status-power", "no-status-power">>,
   <<"status-selection", "no-status-selection">>, <<"status-caps-lock", "no-status-caps-lock">>,
   <<"status-config", "no-status-config">>, <<"power-setsid", "power-no-setsid">>,
   <<"mock", "no-mock">>, <<"default-title", "no-title">>, <<"no-xsession-wrapper", "quiet">>,
   <<"no-user", "quiet">>}

CliCases ==
  {Case({NoFile}, {One("display", "title" :> <<"bool", FALSE>>)},
        {o :> <<w>> @@ p :> <<>> :
           o \in CliValued, w \in CliWords,
           p \in {"quiet", "no-user", "default-title", "no-xsession-wrapper"}}
          \cup UNION {Options({p[1], p[2]}) : p \in CliPairs}, {NoLogin})}

ThemeItems == Texts({W("red"), W("x")}) \cup {<<"bool", FALSE>>}
ThemeFiles ==
  OneOfAll("theme", [c \in {"text", "border"} |-> ThemeItems])
    \cup {One("display", "theme" :> <<"string", W("overlay")>>)}

ThemeCases ==
  {Case(ThemeFiles, ThemeFiles, {"theme" :> <<w>> : w \in {W("overlay"), W("flawed")}} \cup {<<>>},
        {NoLogin})}

Odd == [Toml("display" :> <<"table", "theme" :> <<"string", W("overlay")>>>>
                @@ "theme" :> <<"table", "text" :> <<"bool", FALSE>>>>)
          EXCEPT !.root = FALSE, !.resolved = FALSE,
                 !.ways = {<<Dir, Temp, [Leaf EXCEPT !.link_root = FALSE]>>}]

Documents ==
  {Odd, Toml("nonsense" :> <<"table", <<>>>>), Toml("users" :> <<"int", 2>>),
   Toml("users" :> <<"table", "nonsense" :> <<"int", 2>>>>),
   [Toml(<<>>) EXCEPT !.ways = {<<Temp, Leaf>>, <<[Dir EXCEPT !.open = TRUE], Leaf>>}]}

FilesOfAllKinds ==
  {File(k, <<>>) : k \in Unreadable \cup {"absent", "unreachable", "malformed"}}
    \cup Documents \cup {One("users", "max-uid" :> <<"int", 5>>)}

FileCases ==
  {[Case(FilesOfAllKinds, FilesOfAllKinds, {}, {NoLogin}) EXCEPT
      !.same = BOOLEAN, !.lines = {<<>>, LineOf("config" :> <<W("explicit")>>),
                <<Line!Long("check-config", None), Line!Long("config", W("explicit"))>>}, !.edits = "open"]}

(* Every short line of arguments that are fine, wrong or wrong together.  *)
Arguments ==
  {Line!Long("time", None), Line!Long("time", W("x")), Line!Long("bogus", None),
   Line!Long("width", None), Line!Long("width", W("2")), Line!Long("env", None),
   Line!Long("debug", None), Line!Long("help", None), Line!Long("check-config", None),
   Line!Cluster(<<"d">>), Line!Cluster(<<"t", "z", "c">>), Line!Cluster(<<"v", "v", "w", "0">>),
   Line!Cluster(<<"z">>), Line!Word(W("A=1")), Line!Garbage, Line!End}

Lines ==
  {<<>>} \cup UNION {[1..n -> Arguments] : n \in 1..3}

LineCases ==
  {[Case({NoFile}, {NoFile}, {}, {NoLogin}) EXCEPT !.lines = Lines]}

AllCases == RelatedCases \cup FieldCases \cup CliCases \cup ThemeCases \cup FileCases \cup LineCases
TheEdits == {NoFile, File("malformed", <<>>), Odd, One("users", "min-uid" :> <<"int", 2000>>)}
=============================================================================
