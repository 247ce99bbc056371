------------------------------- MODULE Options -------------------------------
(***************************************************************************)
(* The command line (greeter.rs): recover_options walks the arguments and  *)
(* keeps what getopts will accept, one occurrence of a malformed option    *)
(* being one warning instead of the end of the greeter, and                *)
(* CliInvocation tells from the result what the process is for.            *)
(*                                                                         *)
(* An argument is a record.  Words are sequences of letters; a word that   *)
(* starts with `-` and goes on is an option, of one of the kinds long,     *)
(* cluster and end.                                                        *)
(***************************************************************************)
EXTENDS Naturals, Sequences, SequencesExt

CONSTANT None        \* no value

Long(name, value) == [kind |-> "long", name |-> name, value |-> value]
Cluster(letters)  == [kind |-> "cluster", letters |-> letters]
Word(word)        == [kind |-> "word", word |-> word]
End               == [kind |-> "end"]           \* --
Garbage           == [kind |-> "garbage"]       \* not UTF-8

(* Every argument there can be: names and letters are strings, and a       *)
(* cluster has a letter.                                                   *)
Argument ==
  [kind : {"long"}, name : STRING, value : Seq(STRING) \cup {None}]
    \cup [kind : {"cluster"}, letters : Seq(STRING) \ {<<>>}]
    \cup [kind : {"word"}, word : Seq(STRING)]
    \cup [kind : {"end", "garbage"}]

VARIABLES
  args,       \* the arguments behind the program name
  index,      \* the argument that is looked at
  offset,     \* the letter of a cluster that is looked at, 0 outside of one
  ended,      \* options_ended
  recovered,  \* the options kept, with their values
  ignored,    \* what was warned of: arguments and letters, by position
  action      \* what the process is for, None before the line is read

-----------------------------------------------------------------------------
(* Greeter::options, by what an option takes. *)
Flags ==
  {"help", "version", "check-config", "quiet", "no-quiet", "numlock", "no-numlock", "no-debug",
   "allow-command-editor", "no-command-editor", "no-xsession-wrapper", "default-title",
   "no-title", "issue", "no-issue", "time", "no-time", "battery", "no-battery", "remember",
   "no-remember", "remember-session", "no-remember-session", "remember-user-session",
   "no-remember-user-session", "no-user", "user-menu", "no-user-menu", "user-autocomplete",
   "no-user-autocomplete", "asterisks", "no-asterisks"}
    \cup {"status-reset", "no-status-reset", "status-command", "no-status-command",
          "status-sessions", "no-status-sessions", "status-power", "no-status-power",
          "status-selection", "no-status-selection", "status-caps-lock", "no-status-caps-lock",
          "status-config", "no-status-config", "power-setsid", "power-no-setsid", "mock",
          "no-mock"}

Valued ==
  {"config", "ipc-timeout", "cmd", "env", "sessions", "session-wrapper", "xsessions",
   "xsession-wrapper", "width", "title", "greeting", "time-position", "time-format",
   "battery-position", "refresh-rate", "user", "user-menu-min-uid", "user-menu-max-uid", "theme",
   "asterisks-char", "window-padding", "container-padding", "prompt-padding", "greet-align",
   "status-position", "power-shutdown", "power-reboot", "power-suspend", "power-hibernate",
   "kb-command", "kb-sessions", "kb-power"}

Optional   == {"debug"}
Repeatable == {"env"}
Known      == Flags \cup Valued \cup Optional

Short == [h |-> "help", v |-> "version", q |-> "quiet", d |-> "debug", c |-> "cmd",
          s |-> "sessions", x |-> "xsessions", w |-> "width", i |-> "issue", g |-> "greeting",
          t |-> "time", b |-> "battery", r |-> "remember", u |-> "user"]

ByShort(letter) == IF letter \in DOMAIN Short THEN Short[letter] ELSE None

-----------------------------------------------------------------------------
Start(line) ==
  /\ args = line
  /\ index = 1
  /\ offset = 0
  /\ ended = FALSE
  /\ recovered = <<>>
  /\ ignored = {}
  /\ action = None

Arg == args[index]
AtArgument == action = None /\ index <= Len(args) /\ offset = 0
AtLetter == action = None /\ offset > 0

Following == IF index < Len(args) THEN args[index + 1].kind ELSE "none"

Ignore(positions) == ignored' = ignored \cup positions /\ UNCHANGED recovered

(* Mutation: a repeated option replaces nothing and is kept as well. *)
RetainEach(name, value, positions) ==
  /\ recovered' = Append(recovered, <<name, value>>)
  /\ UNCHANGED ignored

(* retain_option; positions are those of the option and its value. *)
Retain(name, value, positions) ==
  IF name \notin Repeatable /\ \E i \in DOMAIN recovered : recovered[i][1] = name
  THEN Ignore(positions)
  ELSE recovered' = Append(recovered, <<name, value>>) /\ UNCHANGED ignored

Advance(n) == index' = index + n /\ offset' = 0 /\ UNCHANGED <<args, ended, action>>

This == {<<index, 0>>}
ThisAndNext == {<<index, 0>>, <<index + 1, 0>>}

(* Not UTF-8, behind the end of the options, or no option. *)
IgnoreArgument ==
  /\ AtArgument
  /\ Arg.kind \in {"garbage", "word"} \/ ended
  /\ Ignore(This)
  /\ Advance(1)

EndOptions ==
  /\ AtArgument
  /\ Arg.kind = "end"
  /\ ~ended
  /\ ended' = TRUE
  /\ index' = index + 1
  /\ UNCHANGED <<args, offset, recovered, ignored, action>>

(* An option that needs a value and has none attached.  A next argument    *)
(* that is an option stays one; one that is no text is lost with this one. *)
SeparateValue(name, here) ==
  \/ Following = "word" /\ Retain(name, args[index + 1].word, here \cup {<<index + 1, 0>>})
       /\ Advance(2)
  \/ Following = "garbage" /\ Ignore(here \cup {<<index + 1, 0>>}) /\ Advance(2)
  \/ Following \notin {"word", "garbage"} /\ Ignore(here) /\ Advance(1)

LongOption ==
  /\ AtArgument
  /\ Arg.kind = "long"
  /\ ~ended
  /\ \/ /\ \/ Arg.name \notin Known
           \/ Arg.name \in Flags /\ Arg.value # None
        /\ Ignore(This)
        /\ Advance(1)
     \/ /\ \/ Arg.name \in Flags /\ Arg.value = None
           \/ Arg.name \in Optional
           \/ Arg.name \in Valued /\ Arg.value # None
        /\ Retain(Arg.name, Arg.value, This)
        /\ Advance(1)
     \/ /\ Arg.name \in Valued /\ Arg.value = None
        /\ SeparateValue(Arg.name, This)

EnterCluster ==
  /\ AtArgument
  /\ Arg.kind = "cluster"
  /\ ~ended
  /\ offset' = 1
  /\ UNCHANGED <<args, index, ended, recovered, ignored, action>>

LeaveCluster ==
  /\ AtLetter
  /\ offset > Len(Arg.letters)
  /\ UNCHANGED <<recovered, ignored>>
  /\ Advance(1)

(* One letter; one that takes an argument owns the rest of the cluster, or *)
(* the next argument when nothing is left of it.                           *)
ClusterLetter ==
  /\ AtLetter
  /\ offset <= Len(Arg.letters)
  /\ LET name == ByShort(Arg.letters[offset])
         here == {<<index, k>> : k \in offset..Len(Arg.letters)}
     IN \/ /\ name = None \/ name \in Flags
           /\ IF name = None THEN Ignore({<<index, offset>>})
              ELSE Retain(name, None, {<<index, offset>>})
           /\ offset' = offset + 1
           /\ UNCHANGED <<args, index, ended, action>>
        \/ /\ name \in Valued \cup Optional
           /\ offset < Len(Arg.letters)
           /\ Retain(name, SubSeq(Arg.letters, offset + 1, Len(Arg.letters)), here)
           /\ Advance(1)
        \/ /\ name \in Valued
           /\ offset = Len(Arg.letters)
           /\ SeparateValue(name, here)
        \/ /\ name \in Optional
           /\ offset = Len(Arg.letters)
           /\ IF Following \in {"word", "garbage"} THEN SeparateValue(name, here)
              ELSE Retain(name, None, here) /\ Advance(1)

(* Getopts parses what was kept. *)
Given(name) == {i \in DOMAIN recovered : recovered[i][1] = name}

Matches ==
  [name \in {recovered[i][1] : i \in DOMAIN recovered} |->
     LET with == SelectSeq(recovered, LAMBDA r : r[1] = name /\ r[2] # None)
     IN [i \in DOMAIN with |-> with[i][2]]]

(* CliInvocation::parse *)
Decide ==
  /\ action = None
  /\ offset = 0
  /\ index > Len(args)
  /\ action' = CASE Given("help") # {} -> "help"
                 [] Given("help") = {} /\ Given("check-config") # {} -> "check"
                 [] Given("help") \cup Given("check-config") = {} /\ Given("version") # {} ->
                      "version"
                 [] OTHER -> "run"
  /\ UNCHANGED <<args, index, offset, ended, recovered, ignored>>

OptionsNext ==
  \/ IgnoreArgument \/ EndOptions \/ LongOption
  \/ EnterCluster \/ LeaveCluster \/ ClusterLetter \/ Decide

-----------------------------------------------------------------------------
(* Getopts, as far as it goes here: it fails at the first argument that it *)
(* does not take, and a value that looks like an option is a failure too.  *)

(* Where it is: at options, behind the end of them, or nowhere any more.   *)
Getting(at) == [at |-> at, pending |-> None, taken |-> <<>>]
Failed == Getting("failed")
Take(acc, name, value) == [acc EXCEPT !.taken = Append(@, <<name, value>>)]

(* A pending option gets its value, or none if it may do without. *)
Settle(acc, arg) ==
  CASE acc.pending = None -> acc
    [] acc.pending # None /\ arg.kind = "word" ->
         Take([acc EXCEPT !.pending = None], acc.pending, arg.word)
    [] acc.pending \in Optional /\ arg.kind # "word" ->
         Take([acc EXCEPT !.pending = None], acc.pending, None)
    [] OTHER -> Failed

TakeLong(acc, name, value) ==
  IF name \in Optional \/ (name \in Flags /\ value = None) \/ (name \in Valued /\ value # None)
  THEN Take(acc, name, value)
  ELSE IF name \in Valued THEN [acc EXCEPT !.pending = name] ELSE Failed

TakeCluster(acc, letters) ==
  LET owners == {k \in DOMAIN letters : ByShort(letters[k]) \notin Flags}
      first  == IF owners = {} THEN Len(letters) + 1
                ELSE CHOOSE k \in owners : \A other \in owners : k <= other
      flags  == [k \in 1..(first - 1) |-> <<ByShort(letters[k]), None>>]
      after  == [acc EXCEPT !.taken = @ \o flags]
  IN CASE owners = {} -> after
       [] owners # {} /\ ByShort(letters[first]) = None -> Failed
       [] owners # {} /\ ByShort(letters[first]) # None /\ first < Len(letters) ->
            Take(after, ByShort(letters[first]), SubSeq(letters, first + 1, Len(letters)))
       [] OTHER -> [after EXCEPT !.pending = ByShort(letters[first])]

GetoptsStep(before, arg) ==
  LET acc == Settle(before, arg)
      settled == before.pending # None /\ arg.kind = "word"
  IN CASE acc.at = "failed" \/ settled -> acc
       [] acc.at # "failed" /\ ~settled
            /\ (acc.at = "ended" \/ arg.kind \in {"word", "garbage"}) -> Failed
       [] acc.at = "options" /\ ~settled /\ arg.kind = "end" -> [acc EXCEPT !.at = "ended"]
       [] acc.at = "options" /\ ~settled /\ arg.kind = "long" ->
            TakeLong(acc, arg.name, arg.value)
       [] OTHER -> TakeCluster(acc, arg.letters)

Getopts(line) ==
  LET read == FoldLeft(GetoptsStep, Getting("options"), line)
      all  == IF read.pending \in Optional THEN Take(read, read.pending, None) ELSE read
      once == \A i, j \in DOMAIN all.taken :
                (i # j /\ all.taken[i][1] = all.taken[j][1]) => all.taken[i][1] \in Repeatable
  IN IF read.pending \in Valued \/ ~once THEN Failed ELSE all

(* The line without what is at some positions. *)
Without(positions) ==
  LET letters(i) ==
        FlattenSeq([k \in DOMAIN args[i].letters |->
                      IF <<i, k>> \in positions THEN <<>> ELSE <<args[i].letters[k]>>])
      left(i) ==
        CASE <<i, 0>> \in positions -> <<>>
          [] <<i, 0>> \notin positions /\ args[i].kind = "cluster" ->
               IF letters(i) = <<>> THEN <<>> ELSE <<Cluster(letters(i))>>
          [] OTHER -> <<args[i]>>
  IN FlattenSeq([i \in DOMAIN args |-> left(i)])

(* An option and, when it is no text, what stands behind it. *)
Together(i) ==
  {p \in ignored : p[1] = i \/ (p[1] = i + 1 /\ args[i + 1].kind = "garbage")}

(* A line with mistakes is read as if they were not on it.  What is left   *)
(* when everything that was warned of is taken out is a line without a     *)
(* mistake, and its options and their values are the ones kept: no option  *)
(* loses its value to one that was dropped, none takes the value of one.   *)
(* And nothing is dropped for the mistake of another: no option that was   *)
(* warned of could have stayed, alone or with a value that is no text      *)
(* (recover_options, and its caller: a line that does not parse then "can  *)
(* only indicate a bug in the recovery code").                             *)
LineIsRecovered ==
  action # None =>
    LET kept == Getopts(Without(ignored))
    IN /\ kept.at # "failed"
       /\ kept.taken = recovered
       /\ \A i \in {p[1] : p \in ignored} :
            args[i].kind \in {"long", "cluster"} =>
              Getopts(Without(ignored \ Together(i))).at = "failed"
=============================================================================
