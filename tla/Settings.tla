------------------------------- MODULE Settings -------------------------------
(***************************************************************************)
(* The settings of the greeter and the layers that make them (config.rs):  *)
(* what a reader accepts as the value of a field, the layer of a TOML      *)
(* document, the layer of the command line, and how a layer is laid over   *)
(* the settings of the layers below it.                                    *)
(*                                                                         *)
(* A word is the sequence of its pieces.  What the rest of the greeter and *)
(* its libraries make of a word is a constant.  A TOML item is a pair of   *)
(* its type and its value, a table a function from keys to items.          *)
(***************************************************************************)
EXTENDS Integers, Sequences, SequencesExt

CONSTANTS
  None,           \* the value of a reading that gives nothing to the layer
  MaxU16, MaxU32, \* the largest values of the integer types
  MaxIpcTimeout, MaxRefreshRate,
  Blanks,         \* the words without anything but whitespace, <<>> included
  WithNul,        \* the words with a NUL byte
  NumberIn,       \* a function: the words that parse as a number to the number
  Assignments,    \* the words with a `=` behind a key
  TimeFormats,    \* the words that strftime understands
  Colors,         \* the words that name a color
  CommandWords,   \* a function: the words shlex splits to what it splits them to
  PathsIn(_),     \* env::split_paths
  Directives(_),  \* a theme specification cut at `;` and `=`: sequence of sequences
  DefaultWrapper, \* DEFAULT_XSESSION_WRAPPER
  DefaultLog      \* DEFAULT_LOG_FILE

-----------------------------------------------------------------------------
(* Readings: the value, None when the field stays out of the layer, and    *)
(* whether a warning is given.                                             *)
Missing == [value |-> None, warned |-> FALSE]
Bad     == [value |-> None, warned |-> TRUE]
Read(v) == [value |-> v, warned |-> FALSE]

ReadIf(accepted, v) == IF accepted THEN Read(v) ELSE Bad

(* Some(None) in a layer and None in the settings: a field that is cleared. *)
Cleared == <<"cleared">>

(* What a reader makes of the item of a key. *)
Reading(table, key, Means(_)) ==
  IF key \in DOMAIN table THEN Means(table[key]) ELSE Missing

Is(item, type) == item[1] = type

ReadBool(table, key) ==
  Reading(table, key, LAMBDA item : ReadIf(Is(item, "bool"), item[2]))

ReadString(table, key) ==
  Reading(table, key, LAMBDA item : ReadIf(Is(item, "string"), item[2]))

ReadNumber(table, key, min, max) ==
  Reading(table, key, LAMBDA item :
    ReadIf(Is(item, "int") /\ item[2] \in min..max, item[2]))

(* A reader of strings that looks at the word.  Each wrong item, of type   *)
(* or of word, is one warning.                                             *)
ReadWord(table, key, Means(_)) ==
  Reading(table, key, LAMBDA item : IF Is(item, "string") THEN Means(item[2]) ELSE Bad)

OneOf(table, key, words) == ReadWord(table, key, LAMBDA w : ReadIf(w \in words, w))

WidgetPositions == {<<"top">>, <<"bottom">>, <<"hidden">>}
Sides  == {<<"left">>, <<"right">>}
Aligns == {<<"left">>, <<"center">>, <<"right">>}

ReadWidgetPosition(table, key) == OneOf(table, key, WidgetPositions)
ReadHorizontalPosition(table, key) == OneOf(table, key, Sides)

OptionalString(w) == IF w = <<>> THEN Cleared ELSE w
ReadOptionalString(table, key) == ReadWord(table, key, LAMBDA w : Read(OptionalString(w)))

ValidOptionalCommand(w) ==
  IF w \in WithNul THEN Bad
  ELSE Read(IF w \in Blanks THEN Cleared ELSE w)

ReadOptionalCommand(table, key) == ReadWord(table, key, ValidOptionalCommand)

ReadStringOrFalse(table, key) ==
  Reading(table, key, LAMBDA item :
    IF item = <<"bool", FALSE>> THEN Read(Cleared)
    ELSE IF Is(item, "string") THEN ValidOptionalCommand(item[2]) ELSE Bad)

ReadContainerTitle(table) ==
  Reading(table, "title", LAMBDA item :
    IF Is(item, "bool") THEN Read(IF item[2] THEN <<"hostname">> ELSE <<"no title">>)
    ELSE ReadIf(Is(item, "string") /\ item[2] \notin Blanks, <<"custom", item[2]>>))

(* An array keeps its strings and warns of the rest. *)
Strings(items) == SelectSeq(items, LAMBDA item : Is(item, "string"))
Words(items) == [i \in DOMAIN Strings(items) |-> Strings(items)[i][2]]

ReadStrings(table, key) ==
  Reading(table, key, LAMBDA item :
    IF Is(item, "array")
    THEN [value |-> Words(item[2]), warned |-> Strings(item[2]) # item[2]]
    ELSE Bad)

(* Bad entries go one by one; a list of nothing else is no list at all,    *)
(* unlike the empty list, which clears the field.                          *)
ValidEnvironment(words) ==
  LET valid == SelectSeq(words, LAMBDA w : w \in Assignments \ WithNul)
  IN [value |-> IF words = <<>> \/ valid # <<>> THEN valid ELSE None,
      warned |-> valid # words]

ReadEnvironment(table, key) ==
  LET read == ReadStrings(table, key)
  IN IF read.value = None THEN read
     ELSE [ValidEnvironment(read.value) EXCEPT !.warned = @ \/ read.warned]

(* CommandLine::from_argv and CommandLine::parse *)
FromArgv(argv) ==
  ReadIf(argv # <<>> /\ argv[1] # <<>> /\ \A i \in DOMAIN argv : argv[i] \notin WithNul,
         <<"explicit", argv>>)

ParseCommandLine(w) == IF w \in DOMAIN CommandWords THEN FromArgv(CommandWords[w]) ELSE Bad

ReadPowerCommand(table, key) ==
  Reading(table, key, LAMBDA item :
    CASE item = <<"bool", FALSE>> -> Read(<<"disabled">>)
      [] Is(item, "array") ->
           IF Strings(item[2]) = item[2] THEN FromArgv(Words(item[2])) ELSE Bad
      [] Is(item, "string") -> ParseCommandLine(item[2])
      [] OTHER -> Bad)

(* Colors: the components of the theme, and what may be said of one. *)
Components ==
  {"border", "text", "time", "container", "title", "greet", "prompt", "input", "action", "button"}

ReadThemeColor(table, c) ==
  Reading(table, c, LAMBDA item :
    IF item = <<"bool", FALSE>> THEN Read(<<"clear">>)
    ELSE ReadIf(Is(item, "string") /\ item[2] \in Colors, <<"color", item[2]>>))

Understood(directive) ==
  Len(directive) = 2 /\ directive[1] \in Components /\ directive[2] \in Colors

(* The last directive of a component decides, every bad one is a warning.  *)
(* Here a component is either in the layer of the theme or not.            *)
ParseThemeLayer(w) ==
  LET good == SelectSeq(Directives(w), Understood)
  IN [value  |-> [c \in {good[i][1] : i \in DOMAIN good} |->
                    <<"color", good[CHOOSE i \in DOMAIN good :
                                      /\ good[i][1] = c
                                      /\ \A j \in DOMAIN good : good[j][1] = c => j <= i][2]>>],
      warned |-> good # Directives(w)]

-----------------------------------------------------------------------------
(* A layer: the fields it gives, the components of the theme it gives, and *)
(* the fields it warned of.                                                *)

GivenIn(readings) ==
  [f \in {g \in DOMAIN readings : readings[g].value # None} |-> readings[f].value]

WarnedIn(readings) == {f \in DOMAIN readings : readings[f].warned}

(* The sections of a file, key by key. *)
GeneralLayer(t) ==
  [debug |-> ReadBool(t, "debug"), logfile |-> ReadString(t, "log-file"),
   ipc_timeout |-> ReadNumber(t, "ipc-timeout", 1, MaxIpcTimeout),
   quiet |-> ReadBool(t, "quiet"), numlock |-> ReadBool(t, "numlock"),
   mock |-> ReadBool(t, "mock")]

SessionLayer(t) ==
  [command |-> ReadOptionalCommand(t, "command"),
   allow_command_editor |-> ReadBool(t, "allow-command-editor"),
   environment |-> ReadEnvironment(t, "environment"),
   sessions |-> ReadStrings(t, "sessions"), xsessions |-> ReadStrings(t, "xsessions"),
   session_wrapper |-> ReadOptionalCommand(t, "wrapper"),
   xsession_wrapper |-> ReadStringOrFalse(t, "xsession-wrapper")]

DisplayLayer(t) ==
  [width |-> ReadNumber(t, "width", 1, MaxU16), container_title |-> ReadContainerTitle(t),
   issue |-> ReadBool(t, "issue"), greeting |-> ReadOptionalString(t, "greeting"),
   time |-> ReadBool(t, "time"), time_position |-> ReadWidgetPosition(t, "time-position"),
   time_format |-> ReadWord(t, "time-format", LAMBDA w :
                     ReadIf(w \in TimeFormats \cup {<<>>}, OptionalString(w))),
   battery |-> ReadBool(t, "battery"),
   battery_position |-> ReadHorizontalPosition(t, "battery-position"),
   refresh_rate |-> ReadNumber(t, "refresh-rate", 1, MaxRefreshRate)]

(* display.theme *)
OverlayTheme(t) ==
  LET read == ReadWord(t, "theme", ParseThemeLayer)
  IN IF read.value = None THEN [read EXCEPT !.value = <<>>] ELSE read

RememberLayer(t) ==
  [remember |-> ReadBool(t, "username"), remember_session |-> ReadBool(t, "session"),
   remember_user_session |-> ReadBool(t, "user-session")]

UsersLayer(t) ==
  [default_user |-> ReadWord(t, "default", LAMBDA w :
                      ReadIf(w \notin WithNul, OptionalString(w))),
   user_menu |-> ReadBool(t, "menu"), user_autocomplete |-> ReadBool(t, "autocomplete"),
   min_uid |-> ReadNumber(t, "min-uid", 0, MaxU32),
   max_uid |-> ReadNumber(t, "max-uid", 0, MaxU32)]

SecretLayer(t) ==
  [asterisks |-> ReadBool(t, "asterisks"),
   asterisks_chars |-> ReadWord(t, "characters", LAMBDA w : ReadIf(w # <<>>, w))]

LayoutLayer(t) ==
  [window_padding |-> ReadNumber(t, "window-padding", 0, MaxU16),
   container_padding |-> ReadNumber(t, "container-padding", 0, MaxU16 - 1),
   prompt_padding |-> ReadNumber(t, "prompt-padding", 0, MaxU16),
   greet_align |-> OneOf(t, "greet-align", Aligns)]

StatusLayer(t) ==
  [status_position |-> ReadWidgetPosition(t, "position"),
   status_reset |-> ReadBool(t, "reset"), status_command |-> ReadBool(t, "command"),
   status_sessions |-> ReadBool(t, "sessions"), status_power |-> ReadBool(t, "power"),
   status_selection |-> ReadBool(t, "selection"),
   status_caps_lock |-> ReadBool(t, "caps-lock"), status_config |-> ReadBool(t, "config")]

PowerLayer(t) ==
  [power_shutdown |-> ReadPowerCommand(t, "shutdown"),
   power_reboot |-> ReadPowerCommand(t, "reboot"),
   power_suspend |-> ReadPowerCommand(t, "suspend"),
   power_hibernate |-> ReadPowerCommand(t, "hibernate"),
   power_setsid |-> ReadBool(t, "setsid")]

KeybindingLayer(t) ==
  [kb_command |-> ReadNumber(t, "command", 1, 12),
   kb_sessions |-> ReadNumber(t, "sessions", 1, 12),
   kb_power |-> ReadNumber(t, "power", 1, 12)]

ThemeLayer(t) == [c \in Components |-> ReadThemeColor(t, c)]

KeysOf ==
  [general |-> {"debug", "log-file", "ipc-timeout", "quiet", "numlock", "mock"},
   session |-> {"command", "allow-command-editor", "environment", "sessions", "xsessions",
                "wrapper", "xsession-wrapper"},
   display |-> {"width", "title", "issue", "greeting", "time", "time-position", "time-format",
                "battery", "battery-position", "refresh-rate", "theme"},
   remember |-> {"username", "session", "user-session"},
   users |-> {"default", "menu", "autocomplete", "min-uid", "max-uid"},
   secret |-> {"asterisks", "characters"},
   layout |-> {"window-padding", "container-padding", "prompt-padding", "greet-align"},
   status |-> {"position", "reset", "command", "sessions", "power", "selection", "caps-lock",
               "config"},
   power |-> {"shutdown", "reboot", "suspend", "hibernate", "setsid"},
   keybindings |-> {"command", "sessions", "power"},
   theme |-> Components]

(* read_table: a section that is no table is warned of and read as none. *)
HasTable(doc, section) == section \in DOMAIN doc /\ Is(doc[section], "table")
Table(doc, section) == IF HasTable(doc, section) THEN doc[section][2] ELSE <<>>

Unknown(doc) ==
  \/ \E section \in DOMAIN doc :
       section \notin DOMAIN KeysOf \/ ~HasTable(doc, section)
  \/ \E section \in DOMAIN doc \cap DOMAIN KeysOf :
       ~(DOMAIN Table(doc, section) \subseteq KeysOf[section])

(* A [theme] table replaces what display.theme of the same file says, also *)
(* of the components it does not name.                                     *)
TomlLayer(doc) ==
  LET readings ==
        GeneralLayer(Table(doc, "general")) @@ SessionLayer(Table(doc, "session"))
          @@ DisplayLayer(Table(doc, "display")) @@ RememberLayer(Table(doc, "remember"))
          @@ UsersLayer(Table(doc, "users")) @@ SecretLayer(Table(doc, "secret"))
          @@ LayoutLayer(Table(doc, "layout")) @@ StatusLayer(Table(doc, "status"))
          @@ PowerLayer(Table(doc, "power")) @@ KeybindingLayer(Table(doc, "keybindings"))
      overlay == OverlayTheme(Table(doc, "display"))
      colors  == ThemeLayer(Table(doc, "theme"))
  IN [fields |-> GivenIn(readings),
      theme  |-> IF HasTable(doc, "theme") THEN GivenIn(colors) ELSE overlay.value,
      warned |-> WarnedIn(readings)
                   \cup (IF overlay.warned \/ WarnedIn(colors) # {} THEN {"theme"} ELSE {})
                   \cup (IF Unknown(doc) THEN {"unknown"} ELSE {})]

-----------------------------------------------------------------------------
(* The command line: matches is a function from the options that are given *)
(* to the words they are given with.                                       *)

OptStr(matches, name, Means(_)) ==
  IF name \in DOMAIN matches /\ matches[name] # <<>> THEN Means(matches[name][1]) ELSE Missing

CliBool(matches, enable, disable) ==
  [value |-> IF disable \in DOMAIN matches THEN FALSE
             ELSE IF enable \in DOMAIN matches THEN TRUE ELSE None,
   warned |-> {enable, disable} \subseteq DOMAIN matches]

CliNumber(matches, name, min, max) ==
  OptStr(matches, name, LAMBDA w :
    ReadIf(w \in DOMAIN NumberIn /\ NumberIn[w] \in min..max, NumberIn[w]))

CliOneOf(matches, name, words) == OptStr(matches, name, LAMBDA w : ReadIf(w \in words, w))
CliWidgetPosition(matches, name) == CliOneOf(matches, name, WidgetPositions)
CliHorizontalPosition(matches, name) == CliOneOf(matches, name, Sides)
CliPowerCommand(matches, name) == OptStr(matches, name, ParseCommandLine)

CliDefaultUser(matches) ==
  IF "no-user" \in DOMAIN matches
  THEN [value |-> Cleared, warned |-> "user" \in DOMAIN matches]
  ELSE OptStr(matches, "user", LAMBDA w : ReadIf(w \notin Blanks \cup WithNul, w))

(* --no-title before --title before --default-title. *)
CliContainerTitle(matches) ==
  LET said == {"title", "default-title", "no-title"} \cap DOMAIN matches
      read == CASE "no-title" \in said -> Read(<<"no title">>)
                [] "title" \in said /\ "no-title" \notin said ->
                     OptStr(matches, "title",
                            LAMBDA w : ReadIf(w \notin Blanks, <<"custom", w>>))
                [] said = {"default-title"} -> Read(<<"hostname">>)
                [] OTHER -> Missing
  IN [read EXCEPT !.warned = @ \/ \E a, b \in said : a # b]

CliXsessionWrapper(matches) ==
  IF "no-xsession-wrapper" \in DOMAIN matches THEN Read(Cleared)
  ELSE OptStr(matches, "xsession-wrapper", ValidOptionalCommand)

CliReadings(m) ==
  [debug |-> CliBool(m, "debug", "no-debug"), logfile |-> OptStr(m, "debug", Read),
   ipc_timeout |-> CliNumber(m, "ipc-timeout", 1, MaxIpcTimeout),
   quiet |-> CliBool(m, "quiet", "no-quiet"), numlock |-> CliBool(m, "numlock", "no-numlock"),
   command |-> OptStr(m, "cmd", ValidOptionalCommand),
   allow_command_editor |-> CliBool(m, "allow-command-editor", "no-command-editor"),
   environment |-> IF "env" \in DOMAIN m THEN ValidEnvironment(m["env"]) ELSE Missing,
   sessions |-> OptStr(m, "sessions", LAMBDA w : Read(PathsIn(w))),
   xsessions |-> OptStr(m, "xsessions", LAMBDA w : Read(PathsIn(w))),
   session_wrapper |-> OptStr(m, "session-wrapper", ValidOptionalCommand),
   xsession_wrapper |-> CliXsessionWrapper(m), width |-> CliNumber(m, "width", 1, MaxU16),
   container_title |-> CliContainerTitle(m), issue |-> CliBool(m, "issue", "no-issue"),
   greeting |-> OptStr(m, "greeting", Read), time |-> CliBool(m, "time", "no-time"),
   time_position |-> CliWidgetPosition(m, "time-position"),
   time_format |-> OptStr(m, "time-format", LAMBDA w : ReadIf(w \in TimeFormats, w)),
   battery |-> CliBool(m, "battery", "no-battery"),
   battery_position |-> CliHorizontalPosition(m, "battery-position"),
   refresh_rate |-> CliNumber(m, "refresh-rate", 1, MaxRefreshRate),
   remember |-> CliBool(m, "remember", "no-remember"),
   remember_session |-> CliBool(m, "remember-session", "no-remember-session"),
   remember_user_session |-> CliBool(m, "remember-user-session", "no-remember-user-session"),
   default_user |-> CliDefaultUser(m), user_menu |-> CliBool(m, "user-menu", "no-user-menu"),
   user_autocomplete |-> CliBool(m, "user-autocomplete", "no-user-autocomplete"),
   min_uid |-> CliNumber(m, "user-menu-min-uid", 0, MaxU32),
   max_uid |-> CliNumber(m, "user-menu-max-uid", 0, MaxU32),
   asterisks |-> CliBool(m, "asterisks", "no-asterisks"),
   asterisks_chars |-> OptStr(m, "asterisks-char", LAMBDA w : ReadIf(w # <<>>, w)),
   window_padding |-> CliNumber(m, "window-padding", 0, MaxU16),
   container_padding |-> CliNumber(m, "container-padding", 0, MaxU16 - 1),
   prompt_padding |-> CliNumber(m, "prompt-padding", 0, MaxU16),
   greet_align |-> CliOneOf(m, "greet-align", Aligns),
   status_position |-> CliWidgetPosition(m, "status-position"),
   status_reset |-> CliBool(m, "status-reset", "no-status-reset"),
   status_command |-> CliBool(m, "status-command", "no-status-command"),
   status_sessions |-> CliBool(m, "status-sessions", "no-status-sessions"),
   status_power |-> CliBool(m, "status-power", "no-status-power"),
   status_selection |-> CliBool(m, "status-selection", "no-status-selection"),
   status_caps_lock |-> CliBool(m, "status-caps-lock", "no-status-caps-lock"),
   status_config |-> CliBool(m, "status-config", "no-status-config"),
   power_shutdown |-> CliPowerCommand(m, "power-shutdown"),
   power_reboot |-> CliPowerCommand(m, "power-reboot"),
   power_suspend |-> CliPowerCommand(m, "power-suspend"),
   power_hibernate |-> CliPowerCommand(m, "power-hibernate"),
   power_setsid |-> CliBool(m, "power-setsid", "power-no-setsid"),
   mock |-> CliBool(m, "mock", "no-mock"), kb_command |-> CliNumber(m, "kb-command", 1, 12),
   kb_sessions |-> CliNumber(m, "kb-sessions", 1, 12),
   kb_power |-> CliNumber(m, "kb-power", 1, 12)]

CliLayer(matches) ==
  LET theme == OptStr(matches, "theme", ParseThemeLayer)
  IN [fields |-> GivenIn(CliReadings(matches)),
      theme  |-> IF theme.value = None THEN <<>> ELSE theme.value,
      warned |-> WarnedIn(CliReadings(matches)) \cup (IF theme.warned THEN {"theme"} ELSE {})]

-----------------------------------------------------------------------------
(* Settings::default, and the pair that login.defs gives. *)
Defaults(uids) ==
  [debug |-> FALSE, logfile |-> DefaultLog, ipc_timeout |-> 120, quiet |-> FALSE,
   numlock |-> FALSE, command |-> Cleared, allow_command_editor |-> FALSE,
   environment |-> <<>>, sessions |-> <<>>, xsessions |-> <<>>, session_wrapper |-> Cleared,
   xsession_wrapper |-> DefaultWrapper, width |-> 80, container_title |-> <<"hostname">>,
   issue |-> FALSE, greeting |-> Cleared, time |-> FALSE, time_position |-> <<"top">>,
   time_format |-> Cleared, battery |-> FALSE, battery_position |-> <<"left">>,
   refresh_rate |-> 2, remember |-> FALSE, remember_session |-> FALSE,
   remember_user_session |-> FALSE, default_user |-> Cleared, user_menu |-> FALSE,
   user_autocomplete |-> FALSE, min_uid |-> None, max_uid |-> None,
   uid_defaults |-> uids, theme |-> [c \in Components |-> <<"unset">>], asterisks |-> FALSE,
   asterisks_chars |-> <<"*">>, window_padding |-> 0, container_padding |-> 1,
   prompt_padding |-> 1, greet_align |-> <<"center">>, status_position |-> <<"bottom">>,
   status_reset |-> TRUE, status_command |-> TRUE, status_sessions |-> TRUE,
   status_power |-> TRUE, status_selection |-> TRUE, status_caps_lock |-> TRUE,
   status_config |-> TRUE, power_shutdown |-> <<"auto">>, power_reboot |-> <<"auto">>,
   power_suspend |-> <<"auto">>, power_hibernate |-> <<"auto">>, power_setsid |-> TRUE,
   mock |-> FALSE, kb_command |-> 2, kb_sessions |-> 3, kb_power |-> 12]
=============================================================================
