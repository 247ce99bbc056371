----------------------------- MODULE DesktopEntry -----------------------------
(***************************************************************************)
(* One desktop session file (info.rs: load_desktop_file) and its command   *)
(* (desktop_entry.rs): the structure of the file, the keys that decide     *)
(* whether it is offered, and the way of the Exec value through the        *)
(* quoting rules of desktop entries into a command line for the shell      *)
(* behind greetd.                                                          *)
(*                                                                         *)
(* A document is a sequence of lines: group headers, entries and comments, *)
(* with valid saying that the header, or the key and the value, are well   *)
(* formed.  Texts that are looked into are sequences of characters; quotes *)
(* and the like are written by name ("double", "single", "backslash"), and *)
(* the characters no Exec value may hold are "nul" and "nonascii".         *)
(***************************************************************************)
EXTENDS Naturals, Sequences, SequencesExt

CONSTANTS
  None,
  Executables,   \* the TryExec values that lead to a program
  Alphabet       \* the characters a text may hold

-----------------------------------------------------------------------------
(* tokenize, one character at a time *)

Reserved ==
  {"tab", "newline", "double", "single", "backslash", "backtick",
   ">", "<", "~", "|", "&", ";", "$", "*", "?", "#", "(", ")"}
Escapable == {"double", "backtick", "$", "backslash"}

Push(s, c) == [s EXCEPT !.value = Append(@, c)]
At(s, place) == [s EXCEPT !.at = place]
Finish(s, quoted, place) ==
  [arguments |-> Append(s.arguments, [value |-> s.value, quoted |-> quoted]),
   value |-> <<>>, at |-> place]

InQuotes(s, c) ==
  CASE c = "double" -> Finish(s, TRUE, "closed")
    [] c = "backslash" -> At(s, "escape")
    [] c \in {"$", "backtick"} -> At(s, "bad")
    [] OTHER -> Push(s, c)

OutsideQuotes(s, c) ==
  CASE c = " " /\ s.at = "bare" -> Finish(s, FALSE, "between")
    [] c = " " /\ s.at = "between" -> s
    [] c = "double" /\ s.at = "between" -> At(s, "quoted")
    [] c \in Reserved /\ ~(c = "double" /\ s.at = "between") -> At(s, "bad")
    [] OTHER -> Push(At(s, "bare"), c)

TokenStep(s, c) ==
  CASE s.at = "bad" -> s
    [] s.at = "quoted" -> InQuotes(s, c)
    [] s.at = "escape" -> IF c \in Escapable THEN Push(At(s, "quoted"), c) ELSE At(s, "bad")
    [] s.at = "closed" -> At(s, IF c = " " THEN "between" ELSE "bad")
    [] OTHER -> OutsideQuotes(s, c)

Tokenize(exec) ==
  LET end == FoldLeft(TokenStep, [arguments |-> <<>>, value |-> <<>>, at |-> "between"], exec)
  IN CASE end.at \in {"between", "closed"} -> end.arguments
       [] end.at = "bare" -> Finish(end, FALSE, "between").arguments
       [] OTHER -> None

-----------------------------------------------------------------------------
(* Percent signs and field codes *)

FileCodes == {"f", "u", "F", "U"}
Deprecated == {"d", "D", "n", "N", "v", "m"}

(* What the character behind a percent sign stands for in an argument,     *)
(* None if it may not stand there.                                         *)
Expansion(code, argument, seen, name, file) ==
  LET whole == Len(argument.value) = 2
  IN CASE code = "%" -> <<"%">>
       [] code \in FileCodes /\ ~argument.quoted ->
            IF seen \/ (code \in {"F", "U"} /\ ~whole) THEN None ELSE <<>>
       [] code = "c" /\ ~argument.quoted -> name
       [] code = "k" /\ ~argument.quoted -> file
       [] code \in Deprecated /\ ~argument.quoted -> <<>>
       [] OTHER -> None

(* One character of expand_quoted_percent, or of the loop over a bare one. *)
PercentStep(s, c, argument, name, file) ==
  LET value == Expansion(c, argument, s.seen, name, file)
  IN CASE ~s.ok -> s
       [] s.ok /\ ~s.percent /\ c = "%" -> [s EXCEPT !.percent = TRUE]
       [] s.ok /\ ~s.percent /\ c # "%" -> [s EXCEPT !.out = Append(@, c)]
       [] s.ok /\ s.percent /\ value = None -> [s EXCEPT !.ok = FALSE]
       [] OTHER -> [s EXCEPT !.percent = FALSE, !.out = @ \o value,
                             !.seen = @ \/ (c \in FileCodes /\ ~argument.quoted)]

Expanded(argument, seen, name, file) ==
  LET end == FoldLeft(LAMBDA s, c : PercentStep(s, c, argument, name, file),
                      [out |-> <<>>, percent |-> FALSE, seen |-> seen, ok |-> TRUE],
                      argument.value)
  IN [end EXCEPT !.ok = @ /\ ~end.percent]

IconArguments(icon) ==
  IF icon \in {None, <<>>} THEN <<>> ELSE <<<<"-", "-", "i", "c", "o", "n">>, icon>>

(* Mutation: an argument that came out empty goes, quoted or not. *)
ExpandStepDroppingEmpty(s, argument, name, icon, file) ==
  LET read == Expanded(argument, s.seen, name, file)
  IN CASE ~s.ok -> s
       [] s.ok /\ ~argument.quoted /\ argument.value = <<"%", "i">> ->
            [s EXCEPT !.argv = @ \o IconArguments(icon)]
       [] OTHER ->
            [ok |-> read.ok, seen |-> read.seen,
             argv |-> IF read.out # <<>> THEN Append(s.argv, read.out) ELSE s.argv]

(* An argument of parse_exec, after the ones before it.                    *)
ExpandStep(s, argument, name, icon, file) ==
  LET read == Expanded(argument, s.seen, name, file)
  IN CASE ~s.ok -> s
       [] s.ok /\ ~argument.quoted /\ argument.value = <<"%", "i">> ->
            [s EXCEPT !.argv = @ \o IconArguments(icon)]
       [] OTHER ->
            [ok |-> read.ok, seen |-> read.seen,
             argv |-> IF argument.quoted \/ read.out # <<>> THEN Append(s.argv, read.out)
                      ELSE s.argv]

Runnable(argv) == argv # <<>> /\ argv[1] # <<>> /\ "=" \notin ToSet(argv[1])

(* parse_exec: the arguments, None for an error *)
ParseExec(exec, name, icon, file) ==
  LET arguments == IF ToSet(exec) \cap {"nul", "nonascii"} # {} THEN None ELSE Tokenize(exec)
      all == FoldLeft(LAMBDA s, argument : ExpandStep(s, argument, name, icon, file),
                      [argv |-> <<>>, seen |-> FALSE, ok |-> TRUE], arguments)
  IN IF arguments = None THEN None
     ELSE IF all.ok /\ Runnable(all.argv) THEN all.argv ELSE None

(* shell_join *)
ShellJoin(argv) ==
  LET char(c) == IF c = "single" THEN <<"single", "backslash", "single", "single">> ELSE <<c>>
      quoted(argument) ==
        <<"single">> \o FlattenSeq([i \in DOMAIN argument |-> char(argument[i])]) \o <<"single">>
  IN FlattenSeq([i \in DOMAIN argv |->
                   (IF i = 1 THEN <<>> ELSE <<" ">>) \o quoted(argv[i])])

-----------------------------------------------------------------------------
(* The file *)

Group(name)       == [kind |-> "group", name |-> name, valid |-> TRUE]
Entry(key, value) == [kind |-> "entry", name |-> key, value |-> value, valid |-> TRUE]
Comment           == [kind |-> "comment", valid |-> TRUE]

IsGroup(lines, i) == lines[i].kind = "group"
IsEntry(lines, i) == lines[i].kind = "entry"
GroupsBefore(lines, i) == {j \in 1..(i - 1) : IsGroup(lines, j)}
GroupOf(lines, i) ==
  lines[CHOOSE j \in GroupsBefore(lines, i) : \A k \in GroupsBefore(lines, i) : k <= j].name

(* validate_desktop_structure *)
ValidStructure(lines) ==
  /\ \A i \in DOMAIN lines :
       /\ lines[i].valid
       /\ IsEntry(lines, i) => GroupsBefore(lines, i) # {}
       /\ (IsGroup(lines, i) /\ GroupsBefore(lines, i) = {}) => lines[i].name = "Desktop Entry"
  /\ \A i, j \in DOMAIN lines :
       (i # j /\ lines[i].kind = lines[j].kind /\ lines[i].kind # "comment"
          /\ lines[i].name = lines[j].name) =>
         IsEntry(lines, i) /\ GroupOf(lines, i) # GroupOf(lines, j)

KeyLines(lines, key) ==
  {i \in DOMAIN lines :
     IsEntry(lines, i) /\ lines[i].name = key /\ GroupOf(lines, i) = "Desktop Entry"}

Key(lines, key) ==
  IF KeyLines(lines, key) = {} THEN None
  ELSE lines[CHOOSE i \in KeyLines(lines, key) : TRUE].value

(* desktop_bool *)
IsBool(value) == value \in {None, <<"true">>, <<"false">>}

CommandLine(lines, file) ==
  ParseExec(Key(lines, "Exec"), Key(lines, "Name"), Key(lines, "Icon"), file)

(* load_desktop_file, in its order *)
Load(lines, file) ==
  CASE ~ValidStructure(lines) \/ ~\E i \in DOMAIN lines : IsGroup(lines, i) -> "invalid"
    [] OTHER ->
         IF Key(lines, "Type") # <<"Application">> \/ ~IsBool(Key(lines, "Hidden")) THEN "invalid"
         ELSE IF Key(lines, "Hidden") = <<"true">> THEN "hidden"
         ELSE IF ~IsBool(Key(lines, "NoDisplay")) THEN "invalid"
         ELSE IF Key(lines, "NoDisplay") = <<"true">> THEN "hidden"
         ELSE IF Key(lines, "TryExec") \notin {None} \cup Executables THEN "hidden"
         ELSE IF Key(lines, "Name") \in {None, <<>>} \/ Key(lines, "Exec") = None THEN "invalid"
         ELSE IF CommandLine(lines, file) = None THEN "invalid" ELSE "shown"

-----------------------------------------------------------------------------
(* The shell behind greetd, as far as it goes without an expansion: words  *)
(* of single quotes and escapes.  Anything bare may be reinterpreted.      *)

ShellStep(s, c) ==
  CASE s.at = "bad" -> s
    [] s.at = "quote" -> IF c = "single" THEN [s EXCEPT !.at = "word"] ELSE Push(s, c)
    [] s.at = "escape" -> [Push(s, c) EXCEPT !.at = "word"]
    [] OTHER ->
         CASE c = "single" -> [s EXCEPT !.at = "quote"]
           [] c = "backslash" -> [s EXCEPT !.at = "escape"]
           [] c = " " /\ s.at = "word" ->
                [words |-> Append(s.words, s.value), value |-> <<>>, at |-> "between"]
           [] c = " " /\ s.at = "between" -> s
           [] OTHER -> [s EXCEPT !.at = "bad"]

ShellWords(text) ==
  LET end == FoldLeft(ShellStep, [words |-> <<>>, value |-> <<>>, at |-> "between"], text)
  IN CASE end.at = "word" -> Append(end.words, end.value)
       [] end.at = "between" -> end.words
       [] OTHER -> None

-----------------------------------------------------------------------------
(* What the author of an entry may write, and what it means: an argument   *)
(* has blanks in front and is bare or in double quotes; its items are      *)
(* characters and, if it is bare, field codes.                             *)
Char(c) == [code |-> FALSE, char |-> c]
Code(c) == [code |-> TRUE, char |-> c]

Item == [code : BOOLEAN, char : Alphabet]
Argument == [quoted : BOOLEAN, blanks : Nat, items : Seq(Item)]

Unwritable == {"nul", "nonascii"}
IsFileCode(item) == item.code /\ item.char \in FileCodes

MayStandIn(argument, item) ==
  IF item.code
  THEN /\ ~argument.quoted
       /\ item.char \in FileCodes \cup Deprecated \cup {"c", "k", "i"}
       /\ item.char \in {"F", "U", "i"} => Len(argument.items) = 1
  ELSE item.char \notin Unwritable \cup (IF argument.quoted THEN {} ELSE Reserved \cup {" "})

WellWritten(argument) ==
  /\ \A j \in DOMAIN argument.items : MayStandIn(argument, argument.items[j])
  /\ argument.quoted \/ argument.items # <<>>

(* By the rules of desktop entries: blanks between arguments, and one file *)
(* code at most.                                                           *)
Proper(arguments) ==
  /\ \A i \in DOMAIN arguments : WellWritten(arguments[i]) /\ (i > 1 => arguments[i].blanks > 0)
  /\ \A i, k \in DOMAIN arguments :
       \A j \in DOMAIN arguments[i].items, l \in DOMAIN arguments[k].items :
         (IsFileCode(arguments[i].items[j]) /\ IsFileCode(arguments[k].items[l])) =>
           i = k /\ j = l

Plain(item) == IF item.code \/ item.char = "%" THEN <<"%", item.char>> ELSE <<item.char>>
InDoubleQuotes(item) ==
  IF item.char \in Escapable THEN <<"backslash", item.char>> ELSE Plain(item)

Value(items)  == FlattenSeq([j \in DOMAIN items |-> Plain(items[j])])
Quoted(items) ==
  <<"double">> \o FlattenSeq([j \in DOMAIN items |-> InDoubleQuotes(items[j])]) \o <<"double">>
Written(argument) ==
  [i \in 1..argument.blanks |-> " "]
    \o (IF argument.quoted THEN Quoted(argument.items) ELSE Value(argument.items))

(* The Exec value. *)
Writing(arguments) == FlattenSeq([i \in DOMAIN arguments |-> Written(arguments[i])])

(* A file code stands for no file here, a deprecated one for nothing; an   *)
(* argument that comes to nothing goes, unless it is quoted.               *)
ItemMeaning(item, name, file) ==
  IF ~item.code THEN <<item.char>>
  ELSE IF item.char = "c" THEN name ELSE IF item.char = "k" THEN file ELSE <<>>

Spelled(items, name, file) ==
  FlattenSeq([j \in DOMAIN items |-> ItemMeaning(items[j], name, file)])

ArgumentMeaning(argument, name, icon, file) ==
  LET spelled == Spelled(argument.items, name, file)
  IN IF argument.items = <<Code("i")>> THEN IconArguments(icon)
     ELSE IF argument.quoted \/ spelled # <<>> THEN <<spelled>> ELSE <<>>

(* The command that is to run. *)
Meaning(arguments, name, icon, file) ==
  FlattenSeq([i \in DOMAIN arguments |-> ArgumentMeaning(arguments[i], name, icon, file)])
=============================================================================
