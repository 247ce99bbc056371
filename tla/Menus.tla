-------------------------------- MODULE Menus --------------------------------
(***************************************************************************)
(* The screens the user works with: the keyboard handler                   *)
(* (src/keyboard.rs) and the reload of the settings (Greeter::apply_reload *)
(* in src/greeter.rs), with the menus they act on.  Both hold the write    *)
(* lock for as long as they run, so each is one step from record to        *)
(* record.  A chosen session is kept as its index in the menu; a reload    *)
(* may find other entries in another order while a menu is open.           *)
(*                                                                         *)
(* The login conversation itself is the subject of Ipc: here greetd        *)
(* answers as it likes.  Running a power command is the subject of Console.*)
(*                                                                         *)
(*   g.choice     SessionSource                                            *)
(*   g.typed      the command editor's buffer, None when blank             *)
(*   g.secret     is there a response in the password buffer               *)
(*   g.users, g.sessions, g.powers     Menu: options and selected (from 1) *)
(*   g.settings   what the reload compares: the configured command, the    *)
(*                command editor, the user menu, username completion       *)
(* The other fields are those of Greeter.                                  *)
(***************************************************************************)
EXTENDS Greeter, Naturals, Sequences

CONSTANTS
  Sessions,      (* sessions, each named by its identity and its command    *)
  Commands,      (* commands that are configured or typed                   *)
  Powers,        (* power actions                                           *)
  Machines       (* what there is around a greeter: the names that may be   *)
                 (* typed or preselected, the menus that its discovery may  *)
                 (* find, as sequences, and the settings a reload may bring *)

NoRepeat(menu) == \A i, j \in DOMAIN menu : menu[i] = menu[j] => i = j

(* What a SessionSource other than None carries. *)
Chosen == [kind : {"default", "command"}, command : Sources]
            \cup [kind : {"session"}, index : Nat \ {0}]

ASSUME MenusAssumption ==
  /\ Sources = Sessions \cup Commands /\ None \notin Powers \cup Chosen
  /\ \A m \in Machines :
       /\ m.names \subseteq Users
       /\ m.users \subseteq Seq(Users) /\ m.sessions \subseteq Seq(Sessions)
       /\ m.powers \subseteq Seq(Powers)
       /\ \A menu \in m.users \cup m.sessions \cup m.powers : NoRepeat(menu)
       /\ m.settings \subseteq
            [command : Commands \cup {None}, editor : BOOLEAN, menu : BOOLEAN,
             complete : BOOLEAN]

VARIABLES
  g,
  machine,       (* the one this greeter runs on                            *)
  turn           (* flips with every reload, to tell reloads from keys      *)
vars == <<g, machine, turn>>

Name == machine.names \cup {None}

Menu(items) == [options : Seq(items), selected : Nat \ {0}]

(* SessionSource; None is its None. *)
DefaultCommand(command) == [kind |-> "default", command |-> command]
Command(command)        == [kind |-> "command", command |-> command]
Session(index)          == [kind |-> "session", index |-> index]
Choice == {None} \cup Chosen

TypeOK ==
  /\ g.auth \in AuthStates /\ g.mode \in Modes /\ g.prev \in Modes
  /\ g.user \in UserField /\ g.choice \in Choice /\ g.pending \in SourceField
  /\ g.typed \in SourceField /\ g.secret \in BOOLEAN /\ g.settings \in machine.settings
  /\ g.users \in Menu(Users) /\ g.sessions \in Menu(Sessions) /\ g.powers \in Menu(Powers)
  /\ machine \in Machines /\ turn \in BOOLEAN

-----------------------------------------------------------------------------
(* Menus and launch sources *)

Listed(menu)      == {menu.options[i] : i \in DOMAIN menu.options}
Highlighted(menu) == IF menu.selected \in DOMAIN menu.options
                     THEN menu.options[menu.selected] ELSE None
Position(options, item) == CHOOSE i \in DOMAIN options : options[i] = item

(* A menu found again, with the entry selected that was highlighted. *)
Found(options, item) ==
  [options |-> options,
   selected |-> IF \E i \in DOMAIN options : options[i] = item
                THEN Position(options, item) ELSE 1]

(* clamp_menu *)
Clamp(menu) ==
  [menu EXCEPT !.selected = IF menu.options = <<>> THEN 1
                            ELSE IF @ > Len(menu.options) THEN Len(menu.options) ELSE @]

IsKind(choice, kind) == choice # None /\ choice.kind = kind

(* SessionSource::command *)
CommandOf(h) ==
  IF h.choice = None THEN None
  ELSE IF h.choice.kind = "session"
       THEN IF h.choice.index \in DOMAIN h.sessions.options
            THEN h.sessions.options[h.choice.index] ELSE None
       ELSE h.choice.command

(* launch_command *)
Launch(h) ==
  IF IsKind(h.choice, "command") /\ ~h.settings.editor THEN None ELSE CommandOf(h)

(* fallback_session_source *)
Fallback(h) ==
  IF h.settings.command # None THEN DefaultCommand(h.settings.command)
  ELSE IF h.sessions.options = <<>> THEN None ELSE Session(1)

(* restore_cached_selection: None is no entry for it in the cache. *)
Restore(h, selection) ==
  IF selection \in Commands /\ h.settings.editor
  THEN [h EXCEPT !.choice = Command(selection)]
  ELSE IF selection \in Listed(h.sessions)
  THEN [h EXCEPT !.choice = Session(Position(h.sessions.options, selection)),
                 !.sessions.selected = Position(h.sessions.options, selection)]
  ELSE h

(* begin_authentication *)
Begin(h) ==
  IF Launch(h) = None THEN h
  ELSE [h EXCEPT !.auth = "CreatingSession", !.secret = FALSE]

(* reset_local, with scrub *)
Reset(h, soft) == [ResetLocal(h, soft) EXCEPT !.typed = None, !.secret = FALSE]

(* Mutation: the editor is left as it is. *)
CloseOnly(h) == IF h.mode = "Command" THEN [h EXCEPT !.mode = h.prev] ELSE h
(* close_command_editor *)
CloseEditor(h) == [CloseOnly(h) EXCEPT !.typed = None]

(* Ipc::cancel *)
Cancel(h) == IF CanCancel(h.auth) THEN SetAuth(h, "Cancelling") ELSE h

(* select_only_user *)
SelectOnlyUser(h) ==
  IF /\ h.user = None /\ h.settings.menu /\ h.mode = "Username" /\ h.auth = "Idle"
     /\ Len(h.users.options) = 1
  THEN [h EXCEPT !.user = h.users.options[1]] ELSE h

InvalidModal(h) ==
  \/ h.mode = "Users" /\ (~h.settings.menu \/ h.users.options = <<>>)
  \/ h.mode = "Sessions" /\ h.sessions.options = <<>>
  \/ h.mode = "Power" /\ h.powers.options = <<>>
  \/ h.mode = "Command" /\ ~h.settings.editor

(* Mutation: a source that is gone is left for the next start. *)
KeepSource(h) == h
(* normalize_derived_state: the source, then the popup, then the username. *)
NormalizeSource(h) ==
  IF \/ h.choice = None
     \/ IsKind(h.choice, "session") /\ h.choice.index \notin DOMAIN h.sessions.options
  THEN [h EXCEPT !.choice = Fallback(h)] ELSE h
CloseInvalid(h) == IF InvalidModal(h) THEN [h EXCEPT !.mode = SafePreviousMode(h)] ELSE h
NormalizeDerivedState(h) ==
  SelectOnlyUser(CloseInvalid(NormalizeSource(
    [h EXCEPT !.users = Clamp(@), !.sessions = Clamp(@), !.powers = Clamp(@)])))

-----------------------------------------------------------------------------
(* apply_reload, in its order.  A plan holds the settings and what was     *)
(* discovered again, None where nothing that matters to it has changed.    *)
(* Reload shows that a plan is applied to the settings it was prepared     *)
(* from.                                                                   *)

UsersFound(old, new) ==
  (IF new.menu \/ new.complete THEN machine.users ELSE {<<>>})
  \cup (IF new.menu = old.menu /\ new.complete = old.complete THEN {None} ELSE {})

Plan(settings) ==
  UNION {[settings : {new}, users : UsersFound(settings, new),
          sessions : machine.sessions \cup {None}, powers : machine.powers \cup {None},
          default : Name] : new \in machine.settings}

(* Mutation: the name in the field comes before the highlighted one. *)
ReloadUsersByName(h, plan) ==
  IF plan.users = None THEN h
  ELSE [h EXCEPT !.users =
          Found(plan.users, IF h.user \in {plan.users[i] : i \in DOMAIN plan.users}
                            THEN h.user ELSE Highlighted(@))]
ReloadUsers(h, plan) ==
  IF plan.users = None THEN h
  ELSE [h EXCEPT !.users =
          Found(plan.users, IF Highlighted(@) \in {plan.users[i] : i \in DOMAIN plan.users}
                            THEN Highlighted(@) ELSE h.user)]

PrefillUser(h, plan) ==
  IF plan.default # None /\ h.user = None /\ h.mode = "Username" /\ h.auth = "Idle"
  THEN [h EXCEPT !.user = plan.default] ELSE h

ReloadEditor(h) == IF ~h.settings.editor /\ h.mode = "Command" THEN CloseEditor(h) ELSE h

(* Mutation: the index is kept, whatever is behind it now. *)
ReloadSessionsByIndex(h, plan) ==
  IF plan.sessions = None THEN h
  ELSE [h EXCEPT !.sessions = Found(plan.sessions, Highlighted(@))]
ReloadSessions(h, plan) ==
  IF plan.sessions = None THEN h
  ELSE LET found == [h EXCEPT !.sessions = Found(plan.sessions, Highlighted(@))]
       IN  IF ~IsKind(h.choice, "session") THEN found
           ELSE [found EXCEPT !.choice = IF CommandOf(h) \in Listed(found.sessions)
                   THEN Session(Position(plan.sessions, CommandOf(h))) ELSE Fallback(found)]

ReloadCommand(h, old) ==
  IF h.settings.command = old.command THEN h
  ELSE IF h.settings.command # None
  THEN [h EXCEPT !.choice = DefaultCommand(h.settings.command)]
  ELSE IF IsKind(h.choice, "default") THEN [h EXCEPT !.choice = Fallback(h)] ELSE h

DropTypedCommand(h) ==
  IF ~h.settings.editor /\ IsKind(h.choice, "command")
  THEN [h EXCEPT !.choice = Fallback(h)] ELSE h

ReloadPowers(h, plan) ==
  IF plan.powers = None THEN h
  ELSE [h EXCEPT !.powers = Found(plan.powers, Highlighted(@))]

CancelUnlaunchable(h) == IF Launch(h) = None THEN Cancel(h) ELSE h

ApplyReload(h, plan) ==
  LET users    == ReloadUsers([h EXCEPT !.settings = plan.settings], plan)
      editor   == ReloadEditor(PrefillUser(users, plan))
      command  == ReloadCommand(ReloadSessions(editor, plan), h.settings)
      powers   == ReloadPowers(DropTypedCommand(command), plan)
  IN  CancelUnlaunchable(NormalizeDerivedState(powers))

-----------------------------------------------------------------------------
(* Startup: Greeter::new, and the login that run begins with a username    *)
(* that is filled in.                                                      *)
Fresh(settings, users, sessions, powers, user) ==
  [auth |-> "Idle", pending |-> None, mode |-> "Username", prev |-> "Username",
   user |-> user, choice |-> None, typed |-> None, secret |-> FALSE, settings |-> settings,
   users |-> [options |-> users, selected |-> 1],
   sessions |-> [options |-> sessions, selected |-> 1],
   powers |-> [options |-> powers, selected |-> 1]]

Init ==
  /\ turn = FALSE /\ machine \in Machines
  /\ \E settings \in machine.settings, sessions \in machine.sessions, powers \in machine.powers,
        user \in Name, own \in SourceField, global \in SourceField :
       \E users \in IF settings.menu \/ settings.complete THEN machine.users ELSE {<<>>} :
         LET fresh == Fresh(settings, users, sessions, powers, user)
             ready == NormalizeDerivedState(Restore(Restore(
                        [fresh EXCEPT !.choice = Fallback(fresh)], own), global))
         IN  g = IF ready.user = None THEN ready ELSE Begin(ready)

-----------------------------------------------------------------------------
(* The keys.  Escape is looked at before anything else. *)

Escape ==
  /\ g' = IF g.mode = "Command" THEN CloseEditor(g)
          ELSE IF g.mode \in Popups THEN ClosePopup(g)
          ELSE IF CanCancel(g.auth) THEN Cancel(g)
          ELSE IF AcceptsInput(g.auth) THEN Reset(g, FALSE)
          ELSE g
  /\ UNCHANGED <<machine, turn>>

Accepts == AcceptsInput(g.auth) /\ UNCHANGED <<machine, turn>>

(* Characters, deletions and ^U in the field of the current screen. *)
Edit ==
  /\ Accepts
  /\ \/ g.mode = "Username" /\ \E user \in Name : g' = [g EXCEPT !.user = user]
     \/ g.mode = "Password" /\ \E secret \in BOOLEAN : g' = [g EXCEPT !.secret = secret]
     \/ g.mode = "Command" /\ \E typed \in SourceField : g' = [g EXCEPT !.typed = typed]

(* open_command_editor *)
OpenEditor ==
  /\ Accepts /\ g.settings.editor
  /\ g' = [OpenPopup(g, "Command") EXCEPT !.typed = CommandOf(g)]

(* The session and power keys: an open editor is closed first. *)
OpenMenu ==
  /\ Accepts
  /\ \/ g.sessions.options # <<>> /\ g' = OpenPopup(CloseEditor(g), "Sessions")
     \/ g.powers.options # <<>> /\ g' = OpenPopup(CloseEditor(g), "Power")

(* Up and Down *)
Moved(menu) ==
  {[menu EXCEPT !.selected = i] :
     i \in {menu.selected - 1, menu.selected + 1} \cap DOMAIN menu.options}
MoveHighlight ==
  /\ Accepts
  /\ \/ g.mode = "Users" /\ \E menu \in Moved(g.users) : g' = [g EXCEPT !.users = menu]
     \/ g.mode = "Sessions" /\ \E menu \in Moved(g.sessions) : g' = [g EXCEPT !.sessions = menu]
     \/ g.mode = "Power" /\ \E menu \in Moved(g.powers) : g' = [g EXCEPT !.powers = menu]

(* validate_username: the cache may remember a session for the user. *)
Validate(h) == \E selection \in SourceField : g' = Begin(Restore(h, selection))

(* Tab *)
Complete ==
  /\ Accepts /\ g.mode = "Username"
  /\ IF g.settings.complete
     THEN IF g.user \in Listed(g.users) THEN Validate(g)
          ELSE \E user \in Listed(g.users) : g' = [g EXCEPT !.user = user]
     ELSE g.user # None /\ Validate(g)

EnterUsername ==
  /\ Accepts /\ g.mode = "Username"
  /\ IF g.user # None THEN Validate(g)
     ELSE /\ g.settings.menu /\ g.users.options # <<>>
          /\ g' = OpenPopup(g, "Users")

EnterPassword ==
  /\ Accepts /\ g.mode = "Password"
  /\ g' = [g EXCEPT !.auth = "ContinuingAuth", !.secret = FALSE]

EnterCommand ==
  /\ Accepts /\ g.mode = "Command"
  /\ IF g.settings.editor
     THEN /\ g.typed # None
          /\ g' = CloseEditor([g EXCEPT !.sessions.selected = 1, !.choice = Command(g.typed)])
     ELSE g' = CloseEditor(g)

EnterUser ==
  /\ Accepts /\ g.mode = "Users"
  /\ IF Highlighted(g.users) # None
     THEN Validate([ClosePopup(g) EXCEPT !.user = Highlighted(g.users)])
     ELSE g' = ClosePopup(g)

EnterSession ==
  /\ Accepts /\ g.mode = "Sessions"
  /\ g' = IF Highlighted(g.sessions) # None
          THEN [ClosePopup(g) EXCEPT !.choice = Session(g.sessions.selected)]
          ELSE ClosePopup(g)

EnterPower == Accepts /\ g.mode = "Power" /\ g' = ClosePopup(g)

Key == \/ Escape \/ Edit \/ OpenEditor \/ OpenMenu \/ MoveHighlight \/ Complete
       \/ EnterUsername \/ EnterPassword \/ EnterCommand \/ EnterUser \/ EnterSession
       \/ EnterPower

-----------------------------------------------------------------------------
(* What greetd's answers do to the screen (parse_response_with). *)

Awaits == g.auth \in {"CreatingSession", "ContinuingAuth"} /\ UNCHANGED <<machine, turn>>

Prompt ==
  /\ Awaits
  /\ g' = [g EXCEPT !.mode = "Password", !.prev = "Password", !.auth = "AwaitingInput"]

Message ==
  /\ Awaits
  /\ \/ g' = [g EXCEPT !.auth = "ContinuingAuth"]
     \/ g' = [g EXCEPT !.auth = "ContinuingAuth", !.prev = g.mode, !.mode = "Action"]

Authenticated ==
  /\ Awaits
  /\ g' = IF Launch(g) = None THEN Cancel(g)
          ELSE [g EXCEPT !.mode = "Processing", !.auth = "StartingSession", !.pending = Launch(g)]

Answering ==
  g.auth \in {"CreatingSession", "ContinuingAuth", "StartingSession"} /\ UNCHANGED <<machine, turn>>

(* AuthError, and a transport that is tried again (recover). *)
AuthError == Answering /\ g' = SetAuth(Reset(g, TRUE), "CreatingSession")
Error     == Answering /\ g' = Reset(g, FALSE)

(* finish_cancellation *)
FinishCancellation ==
  /\ g.auth = "Cancelling" /\ g' = Reset(g, FALSE) /\ UNCHANGED <<machine, turn>>

Conversation == Prompt \/ Message \/ Authenticated \/ AuthError \/ Error \/ FinishCancellation

Reload ==
  /\ turn' = ~turn /\ UNCHANGED machine
  /\ \E plan \in Plan(g.settings) : g' = ApplyReload(g, plan)

Next == Key \/ Conversation \/ Reload

Spec == Init /\ [][Next]_vars

-----------------------------------------------------------------------------
(* Properties *)

(* What would be launched is there: the index of a chosen session is that  *)
(* of an entry, the configured command is the one configured now, a typed  *)
(* one is allowed, and with anything to launch something is chosen.  And a *)
(* popup on the screen is one the settings allow, with a highlighted entry *)
(* that Enter takes (apply_reload, fallback_session_source,                *)
(* restore_cached_selection, normalize_derived_state, the popup keys).     *)
ChoicesAreUsable ==
  /\ IsKind(g.choice, "session") => g.choice.index \in DOMAIN g.sessions.options
  /\ IsKind(g.choice, "default") => g.choice.command = g.settings.command
  /\ IsKind(g.choice, "command") => g.settings.editor
  /\ g.choice = None => g.sessions.options = <<>> /\ g.settings.command = None
  /\ g.mode = "Users" => g.settings.menu /\ Highlighted(g.users) # None
  /\ g.mode = "Sessions" => Highlighted(g.sessions) # None
  /\ g.mode = "Power" => Highlighted(g.powers) # None
  /\ g.mode = "Command" => g.settings.editor

(* Behind the popups is the screen of the conversation, however they were  *)
(* opened over one another and closed; a secret is in the buffer only      *)
(* while that screen asks for it, or until the cancellation is finished,   *)
(* and a typed command only in the editor (previous_mode,                  *)
(* safe_previous_mode, scrub, close_command_editor).                       *)
ConversationIsShown ==
  /\ AcceptsInput(g.auth) =>
       (IF g.mode \in Popups THEN g.prev ELSE g.mode)
         = IF g.auth = "Idle" THEN "Username" ELSE "Password"
  /\ g.secret => g.auth \in {"AwaitingInput", "Cancelling"}
  /\ g.typed # None => g.mode = "Command"

(* A reload keeps the chosen source, unless it configures another command  *)
(* or takes the source away, also when the menu comes in another order     *)
(* (apply_reload).                                                         *)
SourceStays(new) ==
  CASE IsKind(g.choice, "session") -> CommandOf(g) \in Listed(new.sessions)
    [] IsKind(g.choice, "command") -> new.settings.editor
    [] IsKind(g.choice, "default") -> new.settings.command = g.settings.command
    [] OTHER -> FALSE
ReloadKeepsChoice ==
  [][turn' # turn /\ SourceStays(g')
       /\ g'.settings.command \in {g.settings.command, None}
     => CommandOf(g') = CommandOf(g)]_vars

(* A reload leaves the highlight on the entry the user is about to take    *)
(* with Enter, if there still is such an entry (apply_reload).             *)
HighlightStays ==
  [][turn' # turn =>
       \A menu \in {"users", "sessions", "powers"} :
         Highlighted(g[menu]) \in Listed(g'[menu])
           => Highlighted(g'[menu]) = Highlighted(g[menu])]_vars
=============================================================================
