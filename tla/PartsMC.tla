-------------------------------- MODULE PartsMC --------------------------------
(***************************************************************************)
(* The bounded instances of the parts: what a screen, a machine and a disk *)
(* may be.                                                                 *)
(***************************************************************************)
EXTENDS Parts

WrappedLines(columns, width) == IF width = 0 THEN 0 ELSE (columns + width - 1) \div width

-----------------------------------------------------------------------------
(* Screens: each group varies what its part of the frame depends on.       *)

Terminals == {<<0, 0>>, <<4, 1>>, <<9, 2>>, <<9, 3>>, <<5, 4>>, <<9, 5>>, <<9, 6>>, <<9, 7>>,
              <<9, 8>>, <<9, 9>>, <<3, 10>>, <<9, 11>>, <<9, 12>>}

Plain ==
  [width |-> 9, height |-> 9, window_padding |-> 0, padding |-> 0, prompt_padding |-> 1,
   box_width |-> 8, mode |-> "Username", previous |-> "Username", prompt |-> None,
   greeting |-> None, blank |-> FALSE, message |-> None, warning |-> None,
   options |-> 0, selected |-> 0, time |-> "none", time_width |-> 4,
   battery |-> None, side |-> "left", status |-> "hidden", caps |-> None, entries |-> <<>>,
   label |-> 2, spaced |-> TRUE, text |-> <<1, 1>>, at |-> 2, secret |-> "plain", pool |-> <<1>>,
   choosing |-> FALSE, accepts |-> TRUE]

Sized(s, terminal, window, padding, box) ==
  [s EXCEPT !.width = terminal[1], !.height = terminal[2], !.window_padding = window,
            !.padding = padding, !.box_width = box]

Conversation(s) ==
  {s, [s EXCEPT !.mode = "Password", !.previous = "Password", !.prompt = 3, !.label = 3,
                !.secret = "hidden"],
      [s EXCEPT !.mode = "Password", !.previous = "Password", !.accepts = FALSE],
      [s EXCEPT !.mode = "Action", !.previous = "Password", !.accepts = FALSE]}

PromptScreens ==
  UNION {Conversation([Sized(Plain, t, window, padding, 8) EXCEPT
                         !.prompt_padding = gap, !.greeting = greeting, !.blank = (greeting = 1),
                         !.message = message]) :
           t \in Terminals, window \in {0, 1}, padding \in {0, 1, MaxU16}, gap \in {0, 1, MaxU16},
           greeting \in {None, 1, 20}, message \in {None, 5, 30}}

CommandScreens ==
  {[Sized(Plain, t, window, padding, box) EXCEPT
      !.mode = "Command", !.previous = previous, !.warning = warning, !.label = 1,
      !.spaced = FALSE, !.text = <<1, 2, 1>>, !.at = at] :
     t \in Terminals, window \in {0, 1, MaxU16}, padding \in {0, 1}, box \in {0, 4, MaxU16},
     previous \in {"Username", "Password"}, warning \in {None, 9}, at \in 0..3}

MenuScreens ==
  {[Sized(Plain, t, 0, padding, 8) EXCEPT
      !.mode = mode, !.greeting = greeting, !.options = options, !.selected = selected] :
     t \in Terminals, padding \in {0, 1, MaxU16}, mode \in {"Users", "Sessions", "Processing"},
     greeting \in {None, 9}, options \in {0, 1, 5, 30}, selected \in {0, 2, 4, 29}}

(* Fields of narrow and wide graphemes and their masks. *)
FieldScreens ==
  UNION {{[Sized(Plain, <<width, 5>>, 0, 0, 12) EXCEPT !.text = text, !.at = at],
          [Sized(Plain, <<width, 5>>, 0, 0, 12) EXCEPT
             !.text = text, !.at = at, !.mode = "Password", !.previous = "Password",
             !.prompt = 2, !.secret = secret, !.pool = pool]} :
           width \in {3, 4, 6}, text \in UNION {[1..n -> 0..2] : n \in 0..2} \cup {<<2, 1, 2>>},
           at \in 0..3, secret \in {"plain", "masked", "hidden"}, pool \in {<<>>, <<2>>, <<1, 2>>}}

RowScreens ==
  {[Sized(Plain, <<width, height>>, 0, 0, 8) EXCEPT
      !.time = time, !.battery = battery, !.side = side, !.status = status, !.caps = caps,
      !.entries = shown, !.choosing = TRUE] :
     width \in {4, 7, 8, 11, 12}, height \in {1, 2, 8}, time \in {"none", "top", "bottom"},
     battery \in {None, 2, 3}, side \in {"left", "right"}, status \in {"top", "bottom", "hidden"},
     caps \in {None, 3, 7},
     shown \in {<<>>, <<[width |-> 3, priority |-> 0], [width |-> 4, priority |-> 3],
                        [width |-> 2, priority |-> 1], [width |-> 5, priority |-> 2]>>}}

SomeScreens == {s \in FieldScreens : s.at <= Len(s.text)} \cup PromptScreens \cup CommandScreens
                 \cup MenuScreens \cup RowScreens

-----------------------------------------------------------------------------
(* Machines: up to three supplies, of every way to offer a sample or not.  *)

Blank == [named |-> TRUE, type |-> None, status |-> "Discharging",
          energy_now |-> None, energy_full |-> None,
          charge_now |-> None, charge_full |-> None, capacity |-> None]

SupplyKinds ==
  { Blank,
    [Blank EXCEPT !.energy_now = 1, !.energy_full = 3],
    [Blank EXCEPT !.energy_now = 9, !.energy_full = 8, !.status = "Charging"],
    [Blank EXCEPT !.energy_now = 0, !.energy_full = 7, !.named = FALSE, !.type = "Battery"],
    [Blank EXCEPT !.energy_now = 2, !.energy_full = 0, !.charge_now = 5, !.charge_full = 6],
    [Blank EXCEPT !.charge_now = 1, !.charge_full = 9, !.status = "Charging"],
    [Blank EXCEPT !.charge_now = 4, !.capacity = 63],
    [Blank EXCEPT !.energy_full = 5, !.capacity = 240, !.status = "Charging"],
    [Blank EXCEPT !.energy_now = 2, !.energy_full = 0, !.status = "Charging"],
    [Blank EXCEPT !.capacity = 17, !.named = FALSE, !.type = "Mains", !.status = "Charging"] }

-----------------------------------------------------------------------------
(* Disks: two directories of two session files each ...                    *)

Programs == {<<"run">>}
TwoDirectories == {1, 2}
TwoIds == {1, 2}
BothDirectories == <<1, 2>>
LowerDirectory == <<2>>

Line == INSTANCE DesktopEntry

Document(name, exec) ==
  <<Line!Group("Desktop Entry"), Line!Entry("Type", <<"Application">>),
    Line!Entry("Name", name), Line!Entry("Exec", exec)>>
With(document, key, value) == Append(document, Line!Entry(key, value))

Letters ==
  {"tab", "newline", "double", "single", "backslash", "backtick",
   ">", "<", "~", "|", "&", ";", "$", "*", "?", "#", "(", ")", " ", "%", "-", "=", "/"}
    \cup {"a", "c", "d", "f", "i", "k", "m", "n", "o", "p", "s", "t", "u", "x", "A", "F", "U"}
Path(dir, id) == <<"/", "d", " ", "single">>
Name == <<"i", "t", "single", "s">>
Rank(name) ==
  CASE name = None -> 0 [] name = <<>> -> 1 [] name = <<"A">> -> 2 [] name = <<"B">> -> 3
    [] name = Name -> 4

Held ==
  {Absent, Document(<<"A">>, <<"x">>), Document(<<"B">>, <<"x">>),
   With(Document(<<"A">>, <<"x">>), "Hidden", <<"true">>), Document(<<>>, <<"x">>)}

WalkCases ==
  {[disk |-> held, lists |-> {<<>>, <<1>>, <<2, 1>>, <<1, 2, 1>>}, meant |-> Anything] :
     held \in [{1, 2} -> {Unreadable} \cup [{1, 2} -> Held]]}

(* ... and a directory with one file, whose author meant something by it.  *)
OneFile(document, author) ==
  [disk |-> (1 :> (1 :> document @@ 2 :> Absent) @@ 2 :> Unreadable),
   lists |-> {<<1>>}, meant |-> author]

Bare(items)   == [quoted |-> FALSE, blanks |-> 1, items |-> items]
InQuotes(items) == [quoted |-> TRUE, blanks |-> 1, items |-> items]
Text(word)    == [i \in DOMAIN word |-> Line!Char(word[i])]

(* Every way to write a command of one or two short words.                 *)
Characters == {"a", " ", "single", "double", "$", "%", "backslash", "="}
Words == UNION {[1..n -> Characters] : n \in 0..2}
Shorter == UNION {[1..n -> Characters] : n \in 0..1}

Arguments(words, blanks) ==
  {argument \in {[quoted |-> quoted, blanks |-> n, items |-> Text(word)] :
                   quoted \in BOOLEAN, n \in blanks, word \in words} :
     Line!WellWritten(argument)}
Commands ==
  {<<argument>> : argument \in Arguments(Words, {0, 1})}
  \cup {<<a, b>> : a \in Arguments(Shorter, {0}), b \in Arguments(Words, {1, 2})}

WrittenCases ==
  {OneFile(Document(<<"A">>, Line!Writing(author)), author) : author \in Commands}

(* Field codes, by themselves and in the middle of a word, and the error   *)
(* of a command that comes to nothing.                                     *)
X == Bare(<<Line!Char("x")>>)
A == Line!Char("a")
Coded ==
  {<<Bare(<<Line!Code("c")>>)>>, <<Bare(<<Line!Code("f")>>)>>, <<>>,
   <<X, InQuotes(<<>>), Bare(<<Line!Code("F")>>)>>, <<X, Bare(<<Line!Code("U")>>), Bare(<<A>>)>>,
   <<X, Bare(<<Line!Char("%"), Line!Char("i")>>), Bare(<<Line!Code("i")>>)>>,
   <<X, Bare(<<A, Line!Code("f"), Line!Code("c")>>), Bare(<<Line!Code("i")>>)>>}
  \cup {<<X, Bare(<<Line!Code(a), Line!Code(b)>>)>> : a \in {"c", "k", "d"}, b \in {"c", "m", "u"}}
  \cup {<<X, Bare(<<A, Line!Code(a), A>>)>> : a \in {"c", "k", "f", "n"}}
CodeCases ==
  {OneFile(Document(Name, Line!Writing(author)), author) : author \in Coded}
  \cup {OneFile(With(Document(Name, Line!Writing(author)), "Icon", icon), author) :
          author \in Coded, icon \in {<<>>, <<"p", " ">>}}

(* Files that keep the rules of desktop entries.                           *)
Good == Document(<<"A">>, <<"x">>)
FileCases ==
  {OneFile(document, <<[X EXCEPT !.blanks = 0]>>) : document \in
     { Good, <<Line!Comment>> \o Good, With(Good, "NoDisplay", <<"false">>),
       With(Good, "TryExec", <<"run">>),
       Good \o <<Line!Group("Desktop Action b"), Line!Entry("Exec", <<"y">>)>> }}

(* Exec values that break a rule. *)
BrokenExecs ==
  { <<" ">>, <<"x", " ", "a", "%", "F">>, <<"x", " ", "%", "f", "%", "u">>,
    <<"x", " ", "%", "f", " ", "%", "U">>, <<"x", " ", "a", "%", "i">>,
    <<"x", " ", "%", "z">>, <<"x", " ", "%">>, <<"x", " ", "%", " ">>,
    <<"double", "%", "c", "double">>, <<"double", "x">>,
    <<"double", "x", "double", "a">>, <<"x", "double", "a", "double">>,
    <<"double", "x", "$", "double">>, <<"double", "backslash", "a", "double">>,
    <<"double", "backslash">>, <<"x", ";">>, <<"x", "nul">>,
    <<"x", " ", "double", "nonascii", "double">> }

(* Files that break a rule, or hide. *)
Broken(i, line) == [Good EXCEPT ![i] = line]
BrokenFiles ==
  { <<>>, <<Line!Comment>>, Tail(Good), <<Line!Group("Other")>> \o Good,
    Good \o <<Line!Group("Desktop Entry")>>, With(Good, "Exec", <<"y">>),
    Broken(1, [Good[1] EXCEPT !.valid = FALSE]), Broken(4, [Good[4] EXCEPT !.valid = FALSE]),
    Broken(2, Line!Entry("Type", <<"Link">>)), Broken(2, Line!Comment),
    Broken(3, Line!Comment), Broken(4, Line!Comment),
    With(Good, "Hidden", <<"yes">>), With(Good, "Hidden", <<"true">>),
    With(Good, "NoDisplay", <<"true">>), With(Good, "NoDisplay", <<"1">>),
    With(Good, "TryExec", <<"gone">>) }

(* None of them is offered with a guess about the broken part (tokenize,   *)
(* parse_exec, validate_desktop_structure, load_desktop_file).             *)
ASSUME RulesAreKept ==
  \A document \in BrokenFiles \cup {Document(Name, exec) : exec \in BrokenExecs} :
    Line!Load(document, Path(1, 1)) # "shown"

AllCases == WalkCases \cup WrittenCases \cup CodeCases \cup FileCases
=============================================================================
