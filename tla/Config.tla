-------------------------------- MODULE Config --------------------------------
(***************************************************************************)
(* The settings in force (config.rs): the system file, the explicit file   *)
(* and the command line are laid over the defaults, leniently when the     *)
(* greeter starts (load_from) and strictly when it reloads or checks       *)
(* (reload).  Files are edited at any time between two reads.  Startup     *)
(* reads the command line first and says which of the two it asks for.     *)
(*                                                                         *)
(* A file is a record: kind says how far reading it comes, toml is its     *)
(* document, ways are the paths to it that are looked at for ownership,    *)
(* each the sequence of its components from the root to the file.          *)
(***************************************************************************)
EXTENDS Settings, FiniteSets

CONSTANTS
  Cases,        \* what a run may start from: the sets of files, of command lines
                \* and of defs, and whether a file is edited; one edit is the bound
  Edits,        \* the contents an edit may give to a file
  MaxReloads,   \* bound: reloads
  LoginDefs     \* the pairs (UID_MIN, UID_MAX) of /etc/login.defs, None if not given

ASSUME LoginAssumption ==
  /\ LoginDefs \subseteq (Nat \cup {None}) \X (Nat \cup {None})
  /\ None \notin Nat
  /\ \A case \in Cases : case.defs \subseteq LoginDefs

VARIABLES
  files,      \* what the system path and the explicit path lead to
  same,       \* same_config_file: both paths are one file
  matches,    \* the options of the command line
  defs,       \* /etc/login.defs
  candidate,  \* the settings that are being put together
  warned,     \* the warnings so far: layer and field
  pc,         \* what is laid over the candidate next
  mode,       \* "start", "check" or "reload"
  live,       \* the settings in force, and the warnings they came with
  outcome,    \* of the last load: None before, "taken" or "rejected"
  edits,      \* of the files: "closed", "open" when one may come, "made"
  reloads

configVars ==
  <<files, same, matches, defs, candidate, warned, pc, mode, live, outcome, edits, reloads>>

-----------------------------------------------------------------------------
(* apply_layer *)

Related ==
  {"issue", "greeting", "min_uid", "max_uid", "remember_session", "remember_user_session",
   "kb_command", "kb_sessions", "kb_power"}

Over(fields, f, below) == IF f \in DOMAIN fields THEN fields[f] ELSE below[f]

(* Mutation: a layer with a theme replaces the theme below it. *)
ApplyPlainThemeAtOnce(s, layer) ==
  [f \in DOMAIN s |->
     IF f = "theme"
     THEN IF layer.theme = <<>> THEN s.theme
          ELSE [c \in DOMAIN s.theme |-> IF c \in DOMAIN layer.theme THEN layer.theme[c] ELSE <<"unset">>]
     ELSE IF f \in Related \cup {"uid_defaults"} THEN s[f] ELSE Over(layer.fields, f, s)]

ApplyPlain(s, layer) ==
  [f \in DOMAIN s |->
     IF f = "theme" THEN [c \in DOMAIN s.theme |-> Over(layer.theme, c, s.theme)]
     ELSE IF f \in Related \cup {"uid_defaults"} THEN s[f] ELSE Over(layer.fields, f, s)]

GivesIssue(fields) == "issue" \in DOMAIN fields /\ fields["issue"] = TRUE
GivesGreeting(fields) == "greeting" \in DOMAIN fields /\ fields["greeting"] # Cleared

ApplyIdentity(s, fields) ==
  [s EXCEPT
     !["greeting"] = IF "greeting" \in DOMAIN fields THEN fields["greeting"]
                     ELSE IF GivesIssue(fields) THEN Cleared ELSE @,
     !["issue"] = IF GivesGreeting(fields) THEN FALSE ELSE Over(fields, "issue", s)]

EffectiveMin(s) == IF s.min_uid = None THEN s.uid_defaults[1] ELSE s.min_uid
EffectiveMax(s) == IF s.max_uid = None THEN s.uid_defaults[2] ELSE s.max_uid

WithFields(s, fields, names) ==
  [f \in DOMAIN s |-> IF f \in names THEN Over(fields, f, s) ELSE s[f]]

UidFields == {"min_uid", "max_uid"}

(* Mutation: only the two bounds of one layer are compared. *)
UidsConflictInLayer(s, fields) ==
  UidFields \subseteq DOMAIN fields /\ fields["min_uid"] > fields["max_uid"]

UidsConflict(s, fields) ==
  LET proposed == WithFields(s, fields, UidFields)
  IN EffectiveMin(proposed) > EffectiveMax(proposed)

ApplyUids(s, fields) ==
  IF UidsConflict(s, fields) THEN s ELSE WithFields(s, fields, UidFields)

SessionFields == {"remember_session", "remember_user_session"}
SessionsConflict(s, fields) ==
  \A f \in SessionFields : Over(fields, f, s) = TRUE

ApplySessions(s, fields) ==
  IF SessionsConflict(s, fields) THEN s ELSE WithFields(s, fields, SessionFields)

NeedsRemember(s) == s.remember_user_session = TRUE /\ s.remember = FALSE

ApplyRemember(s) == IF NeedsRemember(s) THEN [s EXCEPT !["remember"] = TRUE] ELSE s

KeyFields == {"kb_command", "kb_sessions", "kb_power"}
KeysConflict(s, fields) ==
  /\ KeyFields \cap DOMAIN fields # {}
  /\ \E f, g \in KeyFields : f # g /\ Over(fields, f, s) = Over(fields, g, s)

ApplyKeys(s, fields) ==
  IF KeysConflict(s, fields) THEN s ELSE WithFields(s, fields, KeyFields)

(* The four relations, each on what the one before it left. *)
ApplyLayer(s, layer) ==
  LET fields   == layer.fields
      plain    == ApplyPlain(s, layer)
      identity == ApplyIdentity(plain, fields)
      uids     == ApplyUids(identity, fields)
      sessions == ApplyRemember(ApplySessions(uids, fields))
  IN ApplyKeys(sessions, fields)

LayerWarnings(s, layer) ==
  LET fields == layer.fields
      plain  == ApplyPlain(s, layer)
  IN layer.warned
       \cup {w \in {"issue/greeting"} : GivesIssue(fields) /\ GivesGreeting(fields)}
       \cup {w \in {"min_uid/max_uid"} : UidsConflict(plain, fields)}
       \cup {w \in {"session/user-session"} : SessionsConflict(plain, fields)}
       \cup {w \in {"user-session"} : NeedsRemember(ApplySessions(plain, fields))}
       \cup {w \in {"keybindings"} : KeysConflict(plain, fields)}

-----------------------------------------------------------------------------
(* Ownership: a component of a way is known when it can be inspected; root *)
(* is the owner stat sees and link_root the one lstat sees, open says that *)
(* group or others may write.                                              *)

RootOwnedSticky(c) == c.root /\ c.sticky

DirectoryProblem(c) ==
  ~c.known \/ ~c.dir \/ ~c.root \/ (c.open /\ ~RootOwnedSticky(c))

EntryProblem(parent, entry) ==
  parent.known /\ RootOwnedSticky(parent) /\ ~(entry.known /\ entry.link_root)

WayProblem(way) ==
  \E i \in 1..(Len(way) - 1) : DirectoryProblem(way[i]) \/ EntryProblem(way[i], way[i + 1])

TrustWarnings(file) ==
  {w \in {"ownership"} : ~file.root \/ file.open}
    \cup {w \in {"target"} : ~file.resolved}
    \cup {w \in {"path"} : \E way \in file.ways : WayProblem(way)}

-----------------------------------------------------------------------------
(* read_uid_defaults *)
UidDefaults ==
  LET pair == <<IF defs[1] = None THEN 1000 ELSE defs[1],
                IF defs[2] = None THEN 60000 ELSE defs[2]>>
  IN IF pair[1] <= pair[2] THEN pair ELSE <<1000, 60000>>

Content(path) == IF same THEN files["system"] ELSE files[path]

Warn(name, warnings) == warned' = warned \cup {<<name, w>> : w \in warnings}

Lay(name, layer, warnings) ==
  /\ candidate' = ApplyLayer(candidate, layer)
  /\ Warn(name, warnings \cup LayerWarnings(candidate, layer))

(* read_config_file: kept from opening, no regular file, too large, no     *)
(* UTF-8.                                                                  *)
Unreadable == {"denied", "special", "large", "binary"}

(* A file that does not load: startup goes on without it, a reload ends.   *)
FailFile(next) ==
  /\ IF mode = "start" THEN pc' = next /\ UNCHANGED outcome
     ELSE pc' = "done" /\ outcome' = "rejected"
  /\ UNCHANGED candidate

(* load_required *)
LoadRequired(name, file, next) ==
  \/ /\ file.kind \in Unreadable \cup {"absent", "unreachable"}
     /\ Warn(name, {"file"})
     /\ FailFile(next)
  \/ /\ file.kind = "malformed"
     /\ Warn(name, TrustWarnings(file) \cup {"file"})
     /\ FailFile(next)
  \/ /\ file.kind = "toml"
     /\ Lay(name, TomlLayer(file.toml), TrustWarnings(file))
     /\ pc' = next
     /\ UNCHANGED outcome

-----------------------------------------------------------------------------
environment == <<files, same, matches, defs, edits>>

InitCase(case) ==
  /\ \E system \in case.system, explicit \in case.explicit :
       files = [system |-> system, explicit |-> explicit]
  /\ same \in case.same
  /\ defs \in case.defs
  /\ edits = case.edits

Fresh ==
  /\ matches = <<>>
  /\ candidate = Defaults(UidDefaults)
  /\ warned = {}
  /\ pc = "options"
  /\ mode = "start"
  /\ live = None
  /\ outcome = None
  /\ reloads = 0

(* Mutation: the strict way also asks for the optional file. *)
LoadSystemStrictly ==
  /\ pc = "system"
  /\ LET file == Content("system")
     IN \/ /\ file.kind = "absent" /\ mode = "start"
           /\ pc' = "explicit"
           /\ UNCHANGED <<candidate, warned, outcome>>
        \/ (file.kind # "absent" \/ mode = "reload") /\ LoadRequired("system", file, "explicit")
  /\ UNCHANGED <<environment, mode, live, reloads>>

(* load_optional and load_optional_strict *)
LoadSystem ==
  /\ pc = "system"
  /\ LET file == Content("system")
     IN \/ /\ file.kind = "absent"
           /\ pc' = "explicit"
           /\ UNCHANGED <<candidate, warned, outcome>>
        \/ file.kind # "absent" /\ LoadRequired("system", file, "explicit")
  /\ UNCHANGED <<environment, mode, live, reloads>>

SkipExplicit ==
  /\ pc = "explicit"
  /\ same \/ "config" \notin DOMAIN matches
  /\ pc' = "cli"
  /\ UNCHANGED <<environment, candidate, warned, mode, live, outcome, reloads>>

LoadExplicit ==
  /\ pc = "explicit"
  /\ ~same /\ "config" \in DOMAIN matches
  /\ LoadRequired("explicit", Content("explicit"), "cli")
  /\ UNCHANGED <<environment, mode, live, reloads>>

(* The last layer; the settings and their warnings go to the greeter.      *)
ApplyCommandLine ==
  /\ pc = "cli"
  /\ Lay("command line", CliLayer(matches), {})
  /\ live' = [settings |-> candidate', warned |-> warned']
  /\ outcome' = "taken"
  /\ pc' = "done"
  /\ UNCHANGED <<environment, mode, reloads>>

Reload ==
  /\ pc = "done"
  /\ reloads < MaxReloads
  /\ reloads' = reloads + 1
  /\ candidate' = Defaults(UidDefaults)
  /\ warned' = {}
  /\ pc' = "system"
  /\ mode' = "reload"
  /\ outcome' = None
  /\ UNCHANGED <<environment, live>>

EditFile ==
  /\ edits = "open"
  /\ edits' = "made"
  /\ \E path \in DOMAIN files, content \in Edits : files' = [files EXCEPT ![path] = content]
  /\ UNCHANGED <<same, matches, defs, candidate, warned, pc, mode, live, outcome, reloads>>

Load == LoadSystem \/ SkipExplicit \/ LoadExplicit \/ ApplyCommandLine

-----------------------------------------------------------------------------
IdentityHolds(s) == ~(s.issue = TRUE /\ s.greeting # Cleared)
UidsHold(s) == ~(EffectiveMin(s) > EffectiveMax(s))
SessionsHold(s) == ~(\A f \in SessionFields : s[f] = TRUE)
RememberHolds(s) == s.remember_user_session = TRUE => s.remember # FALSE
KeysHold(s) == \A f, g \in KeyFields : f # g => s[f] # s[g]

Consistent(s) ==
  IdentityHolds(s) /\ UidsHold(s) /\ SessionsHold(s) /\ RememberHolds(s) /\ KeysHold(s)

(* However the layers combine, and whatever an edit brings between two     *)
(* reads, the settings that take effect satisfy every relation: the issue  *)
(* and a greeting never both, a UID range that is not empty after its      *)
(* missing ends come from login.defs, one kind of remembered session, and  *)
(* that one only with remembered users, three different keys.  Every field *)
(* of a layer may be valid and the relation broken only together with what *)
(* a lower layer left (apply_layer).                                       *)
RelationsHold ==
  /\ Consistent(candidate)
  /\ live # None => Consistent(live.settings)

(* The layers of the files as they are, highest first. *)
LayersNow ==
  LET file(path, given) ==
        IF given /\ Content(path).kind = "toml" THEN <<TomlLayer(Content(path).toml)>> ELSE <<>>
  IN <<CliLayer(matches)>>
       \o file("explicit", "config" \in DOMAIN matches /\ ~same)
       \o file("system", TRUE)

(* What a layer says of a field, an issue and a greeting excluding another.*)
Speaks(layer, f) ==
  \/ f \in DOMAIN layer.fields
  \/ f = "issue" /\ GivesGreeting(layer.fields)
  \/ f = "greeting" /\ GivesIssue(layer.fields)

Says(layer, f) ==
  CASE f = "issue" /\ GivesGreeting(layer.fields) -> FALSE
    [] f = "greeting" /\ f \notin DOMAIN layer.fields -> Cleared
    [] OTHER -> layer.fields[f]

Prevailing(layers, f) ==
  LET speaking == {i \in DOMAIN layers : Speaks(layers[i], f)}
  IN IF speaking = {} THEN Defaults(UidDefaults)[f] ELSE Says(layers[Min(speaking)], f)

PrevailingColor(layers, c) ==
  LET speaking == {i \in DOMAIN layers : c \in DOMAIN layers[i].theme}
  IN IF speaking = {} THEN <<"unset">> ELSE layers[Min(speaking)].theme[c]

(* The fields that a warning about a relation may have kept a layer from.  *)
Disputed ==
  UNION {IF w[2] = "min_uid/max_uid" THEN UidFields
         ELSE IF w[2] = "session/user-session" THEN SessionFields
         ELSE IF w[2] = "user-session" THEN {"remember"}
         ELSE IF w[2] = "keybindings" THEN KeyFields ELSE {} : w \in live.warned}

(* As long as nobody edits them, the settings are those of the highest     *)
(* layer that gives a valid value, field by field and color by color: the  *)
(* command line over the explicit file over the system file over the       *)
(* defaults.  A value that no reader accepts and a file that does not load *)
(* leave what is below them, only a broken relation, which is warned of,   *)
(* keeps a valid value out, and no layer touches what login.defs gave      *)
(* (load_paths_core, reload_paths_core).                                   *)
HighestValidWins ==
  (edits # "made" /\ pc = "done" /\ live # None) =>
    LET layers == LayersNow
    IN /\ \A f \in DOMAIN live.settings \ (Disputed \cup {"theme", "uid_defaults"}) :
            live.settings[f] = Prevailing(layers, f)
       /\ live.settings.uid_defaults = UidDefaults
       /\ \A c \in Components : live.settings.theme[c] = PrevailingColor(layers, c)

(* README.md:226 promises that "valid fields still take effect", whatever  *)
(* else a file says: a color that display.theme or [theme] of a file gives *)
(* is in force unless the [theme] table of the same file or a higher layer *)
(* says something of the same component (toml_layer).                      *)
EveryColorCounts ==
  (edits # "made" /\ pc = "done" /\ live # None) =>
    LET said(file) == GivenIn(ThemeLayer(Table(file.toml, "theme")))
                        @@ OverlayTheme(Table(file.toml, "display")).value
    IN (Content("system").kind = "toml" /\ "config" \notin DOMAIN matches) =>
         \A c \in DOMAIN said(Content("system")) \ DOMAIN CliLayer(matches).theme :
            live.settings.theme[c] = said(Content("system"))[c]

(* A reload of files that nobody edited does not change the greeter: it    *)
(* ends with the settings and the warnings of the startup, or is rejected, *)
(* and then only for a file that the startup warned of.  The two ways of   *)
(* loading, lenient and strict, differ in nothing else, so that what the   *)
(* configuration check accepts is what a start makes of it (reload_paths_  *)
(* core against load_paths_core).                                          *)
ReloadAgreesWithStart ==
  [][(edits # "made" /\ mode = "reload" /\ pc # "done" /\ pc' = "done") =>
       /\ live' = live
       /\ outcome' = "rejected" => \E w \in live.warned : w[2] = "file"]_configVars
=============================================================================
