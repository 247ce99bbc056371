------------------------------ MODULE MenusProofs ------------------------------
(***************************************************************************)
(* Proofs about Menus, for every set of users, sessions, commands and      *)
(* settings: what would be launched and what is highlighted is there and   *)
(* allowed, popups lie over the screen of the conversation, and a reload   *)
(* keeps both.                                                             *)
(*                                                                         *)
(* The invariant is about the record g, and is kept by each of the         *)
(* operators the actions are made of: g is in order (Inv) when its menus   *)
(* are sound, the screens match the conversation (Staged), the choice can  *)
(* be launched (Usable), and the open popup is one that may be open        *)
(* (Allowed).  A reload breaks the last two on the way: what it keeps of   *)
(* them (Repairable) is what normalize_derived_state starts from.          *)
(***************************************************************************)
EXTENDS Menus, TLAPS

(* The settings a greeter may hold, and the type of its record.            *)
Setting == [command : Commands \cup {None}, editor : BOOLEAN, menu : BOOLEAN, complete : BOOLEAN]

State ==
  [auth : AuthStates, pending : SourceField, mode : Modes, prev : Modes, user : UserField,
   choice : Choice, typed : SourceField, secret : BOOLEAN, settings : Setting,
   users : Menu(Users), sessions : Menu(Sessions), powers : Menu(Powers)]

(* A menu without repetitions, whose highlight is on an entry.             *)
Sound(menu) ==
  NoRepeat(menu.options) /\ (menu.options = <<>> \/ menu.selected \in DOMAIN menu.options)
SoundMenus(h) == Sound(h.users) /\ Sound(h.sessions) /\ Sound(h.powers)

(* The screens of the conversation, which popups lie over.                 *)
Screens == {"Username", "Password", "Action"}

(* Where a popup may be open, and what lies behind it. *)
Staged(h) ==
  /\ h.prev \in Screens
  /\ h.auth \in {"CreatingSession", "ContinuingAuth"} => h.mode \in Screens
  /\ h.auth = "StartingSession" => h.mode \notin Popups
  /\ AcceptsInput(h.auth) =>
       (IF h.mode \in Popups THEN h.prev ELSE h.mode)
         = IF h.auth = "Idle" THEN "Username" ELSE "Password"
  /\ h.secret => h.auth \in {"AwaitingInput", "Cancelling"}
  /\ h.typed # None => h.mode = "Command"

(* A choice that the menu and the settings of h back. *)
Backed(choice, h) ==
  /\ IsKind(choice, "default") => choice.command = h.settings.command
  /\ IsKind(choice, "command") => h.settings.editor
Usable(choice, h) ==
  /\ Backed(choice, h)
  /\ IsKind(choice, "session") => choice.index \in DOMAIN h.sessions.options
  /\ choice = None => h.sessions.options = <<>> /\ h.settings.command = None

(* An open popup is allowed, and its menu has entries.                     *)
Allowed(h) ==
  /\ h.mode = "Users" => h.settings.menu /\ h.users.options # <<>>
  /\ h.mode = "Sessions" => h.sessions.options # <<>>
  /\ h.mode = "Power" => h.powers.options # <<>>
  /\ h.mode = "Command" => h.settings.editor

(* Nothing of the conversation has changed.                                *)
SameScreen(h, r) ==
  /\ r.auth = h.auth /\ r.mode = h.mode /\ r.prev = h.prev /\ r.secret = h.secret
  /\ r.typed = h.typed

(* The record is in order; and the settings are ones the machine may have. *)
Inv(h) == h \in State /\ SoundMenus(h) /\ Staged(h) /\ Usable(h.choice, h) /\ Allowed(h)
IInv == Inv(g) /\ g.settings \in machine.settings /\ machine \in Machines /\ turn \in BOOLEAN

-----------------------------------------------------------------------------
(* The place of an item that is in a list is a place where the list holds  *)
(* it.                                                                     *)
LEMMA PositionIs ==
  ASSUME NEW options, NEW item \in {options[i] : i \in DOMAIN options}
  PROVE  Position(options, item) \in DOMAIN options /\ options[Position(options, item)] = item
<1>1. PICK i \in DOMAIN options : options[i] = item
  OBVIOUS
<1> QED
  BY <1>1 DEF Position

(* A menu that is rebuilt around an item has its highlight on an entry,    *)
(* and on the item if it is still there.                                   *)
LEMMA FoundIsSound ==
  ASSUME NEW items, NEW options \in Seq(items), NoRepeat(options), NEW item
  PROVE  /\ Found(options, item) \in Menu(items) /\ Sound(Found(options, item))
         /\ Found(options, item).options = options
         /\ item \in {options[i] : i \in DOMAIN options} => Highlighted(Found(options, item)) = item
<1>1. DOMAIN options = 1..Len(options) /\ Len(options) \in Nat
  OBVIOUS
<1>2. options # <<>> => 1 \in DOMAIN options
  OBVIOUS
<1>3. CASE item \in {options[i] : i \in DOMAIN options}
  <2>1. Position(options, item) \in DOMAIN options /\ options[Position(options, item)] = item
    BY <1>3, PositionIs
  <2>2. Found(options, item) = [options |-> options, selected |-> Position(options, item)]
    BY <1>3 DEF Found
  <2> QED
    BY <1>1, <2>1, <2>2 DEF Menu, Sound, Highlighted
<1>4. CASE item \notin {options[i] : i \in DOMAIN options}
  <2>1. Found(options, item) = [options |-> options, selected |-> 1]
    BY <1>4 DEF Found
  <2> QED
    BY <1>1, <1>2, <1>4, <2>1 DEF Menu, Sound
<1> QED
  BY <1>3, <1>4

(* clamp leaves a menu in order and its highlight where it was.            *)
LEMMA ClampIsSound ==
  ASSUME NEW items, NEW menu \in Menu(items), Sound(menu)
  PROVE  /\ Clamp(menu) \in Menu(items) /\ Sound(Clamp(menu))
         /\ Clamp(menu).options = menu.options
         /\ Highlighted(Clamp(menu)) = Highlighted(menu)
<1>1. menu.options \in Seq(items) /\ menu.selected \in Nat \ {0}
      /\ menu = [options |-> menu.options, selected |-> menu.selected]
  BY DEF Menu
<1>2. CASE menu.options = <<>>
  <2>1. Clamp(menu) = [options |-> menu.options, selected |-> 1]
    BY <1>1, <1>2 DEF Clamp
  <2>2. Highlighted(menu) = None /\ Highlighted(Clamp(menu)) = None
    BY <1>2, <2>1 DEF Highlighted
  <2> QED
    BY <1>1, <1>2, <2>1, <2>2 DEF Menu, Sound
<1>3. CASE menu.options # <<>>
  <2>1. menu.selected \in 1..Len(menu.options)
    BY <1>1, <1>3 DEF Sound
  <2>2. Clamp(menu) = menu
    BY <1>1, <1>3, <2>1 DEF Clamp
  <2> QED
    BY <2>2
<1> QED
  BY <1>2, <1>3

(* What is highlighted is an entry of the menu, and there is one if the    *)
(* menu has any.                                                           *)
LEMMA HighlightIsEntry ==
  ASSUME NEW items, None \notin items, NEW menu \in Menu(items)
  PROVE  /\ Highlighted(menu) # None => menu.options # <<>> /\ Highlighted(menu) \in items
         /\ Sound(menu) /\ menu.options # <<>> => Highlighted(menu) # None
<1>1. \A i \in DOMAIN menu.options : menu.options[i] \in items
  BY DEF Menu
<1> QED
  BY <1>1 DEF Highlighted, Sound

(* None is no source, no item and no kind of choice.                       *)
LEMMA NoneFacts ==
  /\ None \in Choice /\ None \notin Sources /\ None \notin Users /\ None \notin Powers
  /\ None \notin Sessions /\ None \notin Commands
  /\ Commands \subseteq Sources /\ Sessions \subseteq Sources
  /\ ~IsKind(None, "default") /\ ~IsKind(None, "command") /\ ~IsKind(None, "session")
BY MenusAssumption, GreeterAssumption DEF Choice, IsKind

(* The three kinds of a choice exclude one another: the configured         *)
(* command,                                                                *)
LEMMA DefaultFacts ==
  ASSUME NEW command \in Sources
  PROVE  /\ DefaultCommand(command) \in Choice /\ DefaultCommand(command) # None
         /\ IsKind(DefaultCommand(command), "default")
         /\ ~IsKind(DefaultCommand(command), "command")
         /\ ~IsKind(DefaultCommand(command), "session")
         /\ DefaultCommand(command).command = command
<1>1. DefaultCommand(command) \in Chosen
  BY DEF DefaultCommand, Chosen
<1> QED
  BY <1>1, MenusAssumption DEF DefaultCommand, Choice, IsKind

(* ... a typed command,                                                    *)
LEMMA CommandFacts ==
  ASSUME NEW command \in Sources
  PROVE  /\ Command(command) \in Choice /\ Command(command) # None
         /\ IsKind(Command(command), "command")
         /\ ~IsKind(Command(command), "default")
         /\ ~IsKind(Command(command), "session")
         /\ Command(command).command = command
<1>1. Command(command) \in Chosen
  BY DEF Command, Chosen
<1> QED
  BY <1>1, MenusAssumption DEF Command, Choice, IsKind

(* ... and an entry of the menu.                                           *)
LEMMA SessionFacts ==
  ASSUME NEW index \in Nat \ {0}
  PROVE  /\ Session(index) \in Choice /\ Session(index) # None
         /\ IsKind(Session(index), "session")
         /\ ~IsKind(Session(index), "default")
         /\ ~IsKind(Session(index), "command")
         /\ Session(index).index = index
<1>1. Session(index) \in Chosen
  BY DEF Session, Chosen
<1> QED
  BY <1>1, MenusAssumption DEF Session, Choice, IsKind

(* What the fields of a record hold. *)
LEMMA Fields ==
  ASSUME NEW h \in State
  PROVE  /\ h.auth \in AuthStates /\ h.pending \in SourceField /\ h.mode \in Modes
         /\ h.prev \in Modes /\ h.user \in UserField /\ h.choice \in Choice
         /\ h.typed \in SourceField /\ h.secret \in BOOLEAN /\ h.settings \in Setting
         /\ h.users \in Menu(Users) /\ h.sessions \in Menu(Sessions) /\ h.powers \in Menu(Powers)
BY DEF State

(* What would be launched is a source, or nothing is.                      *)
LEMMA CommandOfType ==
  ASSUME NEW h \in State
  PROVE  CommandOf(h) \in SourceField /\ Launch(h) \in SourceField
<1>1. \A i \in DOMAIN h.sessions.options : h.sessions.options[i] \in Sources
  BY Fields, MenusAssumption DEF Menu
<1>2. h.choice # None /\ h.choice.kind # "session" => h.choice.command \in Sources
  BY Fields DEF Choice, Chosen
<1> QED
  BY <1>1, <1>2 DEF CommandOf, Launch, SourceField

(* fallback_session_source chooses something that is there.                *)
LEMMA FallbackIsUsable ==
  ASSUME NEW h \in State
  PROVE  Fallback(h) \in Choice /\ Usable(Fallback(h), h) /\ ~IsKind(Fallback(h), "command")
<1>1. h.settings.command \in Commands \cup {None} /\ h.sessions.options \in Seq(Sessions)
  BY Fields DEF Setting, Menu
<1>3. CASE h.settings.command # None
  <2>1. h.settings.command \in Sources /\ Fallback(h) = DefaultCommand(h.settings.command)
    BY <1>1, <1>3, NoneFacts DEF Fallback
  <2> QED
    BY <2>1, DefaultFacts DEF Usable, Backed
<1>4. CASE h.settings.command = None /\ h.sessions.options # <<>>
  <2>1. 1 \in DOMAIN h.sessions.options /\ 1 \in Nat \ {0} /\ Fallback(h) = Session(1)
    BY <1>1, <1>4 DEF Fallback
  <2> QED
    BY <2>1, SessionFacts DEF Usable, Backed
<1>5. CASE h.settings.command = None /\ h.sessions.options = <<>>
  <2>1. Fallback(h) = None
    BY <1>5 DEF Fallback
  <2> QED
    BY <1>5, <2>1, NoneFacts DEF Usable, Backed
<1> QED
  BY <1>3, <1>4, <1>5

(* A cached source that is still offered becomes the choice; nothing else  *)
(* but the highlight in the menu of sessions moves with it.                *)
LEMMA RestoreKeeps ==
  ASSUME NEW h \in State, SoundMenus(h), Usable(h.choice, h), NEW selection \in SourceField
  PROVE  /\ Restore(h, selection) \in State /\ SoundMenus(Restore(h, selection))
         /\ Usable(Restore(h, selection).choice, Restore(h, selection))
         /\ SameScreen(h, Restore(h, selection))
         /\ Restore(h, selection).settings = h.settings
         /\ Restore(h, selection).users = h.users /\ Restore(h, selection).powers = h.powers
         /\ Restore(h, selection).sessions.options = h.sessions.options
<1> DEFINE r == Restore(h, selection)
<1>1. h.sessions.options \in Seq(Sessions) /\ h.sessions.selected \in Nat \ {0}
      /\ h.sessions = [options |-> h.sessions.options, selected |-> h.sessions.selected]
  BY Fields DEF Menu
<1>2. CASE selection \in Commands /\ h.settings.editor
  <2>1. r = [h EXCEPT !.choice = Command(selection)]
    BY <1>2 DEF Restore
  <2>2. Command(selection) \in Choice /\ Usable(Command(selection), h)
    BY <1>2, NoneFacts, CommandFacts DEF Usable, Backed
  <2>3. r.choice = Command(selection) /\ r.sessions = h.sessions /\ r.settings = h.settings
        /\ r.users = h.users /\ r.powers = h.powers
    BY <2>1 DEF State
  <2>4. r \in State
    BY <2>1, <2>2 DEF State
  <2> QED
    BY <2>1, <2>2, <2>3, <2>4 DEF State, SoundMenus, Usable, Backed, SameScreen
<1>3. CASE ~(selection \in Commands /\ h.settings.editor) /\ selection \in Listed(h.sessions)
  <2> DEFINE i == Position(h.sessions.options, selection)
  <2>1. i \in DOMAIN h.sessions.options
    BY <1>3, PositionIs DEF Listed
  <2>2. i \in Nat \ {0}
    BY <1>1, <2>1
  <2>3. r = [h EXCEPT !.choice = Session(i),
                      !.sessions = [options |-> h.sessions.options, selected |-> i]]
    <3>1. r = [h EXCEPT !.choice = Session(i), !.sessions.selected = i]
      BY <1>3 DEF Restore
    <3>2. [h.sessions EXCEPT !.selected = i] = [options |-> h.sessions.options, selected |-> i]
      BY <1>1
    <3> HIDE DEF r, i
    <3> QED
      BY <3>1, <3>2 DEF State
  <2> HIDE DEF i
  <2>4. Session(i) \in Choice /\ Usable(Session(i), h)
    BY <2>1, <2>2, SessionFacts DEF Usable, Backed
  <2>5. [options |-> h.sessions.options, selected |-> i] \in Menu(Sessions)
    BY <1>1, <2>2 DEF Menu
  <2>6. r.choice = Session(i) /\ r.sessions = [options |-> h.sessions.options, selected |-> i]
        /\ r.settings = h.settings /\ r.users = h.users /\ r.powers = h.powers
    BY <2>3 DEF State
  <2>7. r \in State
    BY <2>3, <2>4, <2>5 DEF State
  <2>8. SoundMenus(r)
    BY <2>1, <2>6 DEF SoundMenus, Sound
  <2> QED
    BY <2>3, <2>4, <2>6, <2>7, <2>8 DEF State, Usable, Backed, SameScreen
<1>4. CASE ~(selection \in Commands /\ h.settings.editor) /\ selection \notin Listed(h.sessions)
  <2>1. r = h
    BY <1>4 DEF Restore
  <2> QED
    BY <2>1 DEF SameScreen
<1> QED
  BY <1>2, <1>3, <1>4

(* A step that leaves the menus, the settings and the choice alone only    *)
(* has to answer for the screens.                                          *)
LEMMA Kept ==
  ASSUME NEW h, Inv(h), NEW r \in State, Staged(r),
         r.users = h.users, r.sessions = h.sessions, r.powers = h.powers,
         r.settings = h.settings, r.choice = h.choice,
         r.mode \in Popups => r.mode = h.mode
  PROVE  Inv(r)
<1>1. SoundMenus(r) /\ Usable(r.choice, r)
  BY DEF Inv, SoundMenus, Usable, Backed
<1>2. Allowed(r)
  BY DEF Inv, Allowed, Popups
<1> QED
  BY <1>1, <1>2 DEF Inv

(* To begin a login keeps the record in order.                             *)
LEMMA BeginKeeps ==
  ASSUME NEW h, Inv(h), h.mode \in Screens
  PROVE  Inv(Begin(h))
<1>1. CASE Launch(h) = None
  BY <1>1 DEF Begin
<1>2. CASE Launch(h) # None
  <2> DEFINE r == [h EXCEPT !.auth = "CreatingSession", !.secret = FALSE]
  <2>1. h \in State /\ Staged(h)
    BY DEF Inv
  <2>2. r \in State
    BY <2>1 DEF State, AuthStates
  <2>3. /\ r.auth = "CreatingSession" /\ r.mode = h.mode /\ r.prev = h.prev /\ ~r.secret
        /\ r.typed = h.typed /\ r.users = h.users /\ r.sessions = h.sessions
        /\ r.powers = h.powers /\ r.settings = h.settings /\ r.choice = h.choice
    BY <2>1 DEF State
  <2>4. Staged(r)
    BY <2>1, <2>3 DEF Staged, Screens, AcceptsInput
  <2>5. Begin(h) = r
    BY <1>2 DEF Begin
  <2> HIDE DEF r
  <2> QED
    BY <2>2, <2>3, <2>4, <2>5, Kept DEF Screens, Popups
<1> QED
  BY <1>1, <1>2

(* A remembered selection is taken only if it can be launched.             *)
LEMMA RestoredInv ==
  ASSUME NEW h, Inv(h), NEW selection \in SourceField
  PROVE  Inv(Restore(h, selection)) /\ Restore(h, selection).mode = h.mode
<1> DEFINE r == Restore(h, selection)
<1>1. h \in State /\ SoundMenus(h) /\ Staged(h) /\ Usable(h.choice, h) /\ Allowed(h)
  BY DEF Inv
<1>2. /\ r \in State /\ SoundMenus(r) /\ Usable(r.choice, r)
      /\ SameScreen(h, r) /\ r.settings = h.settings /\ r.users = h.users
      /\ r.powers = h.powers /\ r.sessions.options = h.sessions.options
  BY <1>1, RestoreKeeps
<1> HIDE DEF r
<1>3. Staged(r) /\ Allowed(r)
  BY <1>1, <1>2 DEF Staged, Allowed, SameScreen
<1> QED
  BY <1>2, <1>3 DEF Inv, SameScreen, r

(* ... so that a validated name may start the login with it.               *)
LEMMA ValidatedInv ==
  ASSUME NEW h, Inv(h), h.mode \in Screens, NEW selection \in SourceField
  PROVE  Inv(Begin(Restore(h, selection)))
BY RestoredInv, BeginKeeps

(* A reset goes back to an empty prompt; a soft one is followed at once by *)
(* the next attempt for the same user.                                     *)
LEMMA ResetKeeps ==
  ASSUME NEW h, Inv(h)
  PROVE  Inv(Reset(h, FALSE)) /\ Inv(SetAuth(Reset(h, TRUE), "CreatingSession"))
<1>1. h \in State
  BY DEF Inv
<1>2. ASSUME NEW soft \in BOOLEAN, NEW auth \in AuthStates,
             auth = IF soft THEN "CreatingSession" ELSE "Idle"
      PROVE  Inv(SetAuth(Reset(h, soft), auth))
  <2> DEFINE r == SetAuth(Reset(h, soft), auth)
  <2>1. r = [h EXCEPT !.auth = auth, !.pending = None, !.mode = IF soft THEN "Password" ELSE "Username",
                      !.prev = IF soft THEN "Password" ELSE "Username",
                      !.user = IF soft THEN @ ELSE None, !.typed = None, !.secret = FALSE]
    BY <1>1 DEF SetAuth, Reset, ResetLocal, State
  <2>2. r \in State
    BY <1>1, <2>1 DEF State, AuthStates, Modes, SourceField, UserField
  <2>3. /\ r.auth = auth /\ r.mode = (IF soft THEN "Password" ELSE "Username")
        /\ r.prev = r.mode /\ ~r.secret /\ r.typed = None
        /\ r.users = h.users /\ r.sessions = h.sessions
        /\ r.powers = h.powers /\ r.settings = h.settings /\ r.choice = h.choice
    BY <1>1, <2>1 DEF State
  <2>4. Staged(r)
    BY <1>2, <2>3 DEF Staged, Screens, Popups, AcceptsInput
  <2> HIDE DEF r
  <2> QED
    BY <2>2, <2>3, <2>4, Kept DEF Popups, r
<1>3. Inv(SetAuth(Reset(h, FALSE), "Idle")) /\ Inv(SetAuth(Reset(h, TRUE), "CreatingSession"))
  BY <1>2 DEF AuthStates
<1>4. SetAuth(Reset(h, FALSE), "Idle") = Reset(h, FALSE)
  BY <1>1 DEF SetAuth, Reset, ResetLocal, State
<1> QED
  BY <1>3, <1>4

(* A cancellation keeps the record in order and touches no menu.           *)
LEMMA CancelKeeps ==
  ASSUME NEW h, Inv(h)
  PROVE  /\ Inv(Cancel(h)) /\ Cancel(h).sessions = h.sessions /\ Cancel(h).choice = h.choice
         /\ Cancel(h).users = h.users /\ Cancel(h).powers = h.powers /\ Cancel(h).settings = h.settings
<1>1. h \in State /\ Staged(h)
  BY DEF Inv
<1>2. CASE CanCancel(h.auth)
  <2> DEFINE r == [h EXCEPT !.auth = "Cancelling", !.pending = None]
  <2>1. r \in State
    BY <1>1 DEF State, AuthStates, SourceField
  <2>2. /\ r.auth = "Cancelling" /\ r.mode = h.mode /\ r.prev = h.prev /\ r.typed = h.typed
        /\ r.users = h.users /\ r.sessions = h.sessions
        /\ r.powers = h.powers /\ r.settings = h.settings /\ r.choice = h.choice
    BY <1>1 DEF State
  <2>3. Staged(r)
    BY <1>1, <2>2 DEF Staged, AcceptsInput
  <2>4. Cancel(h) = r
    BY <1>2 DEF Cancel, SetAuth
  <2> HIDE DEF r
  <2> QED
    BY <2>1, <2>2, <2>3, <2>4, Kept
<1>3. CASE ~CanCancel(h.auth)
  BY <1>3 DEF Cancel
<1> QED
  BY <1>2, <1>3

(* The popups close onto the screen behind them, which is none itself. *)
LEMMA CloseKeeps ==
  ASSUME NEW h, Inv(h)
  PROVE  /\ h.mode \in Popups \ {"Command"} => Inv(ClosePopup(h)) /\ ClosePopup(h).mode \in Screens
         /\ Inv(CloseEditor(h)) /\ CloseEditor(h).mode # "Command"
<1>1. h \in State /\ Staged(h) /\ h.mode \in Modes /\ h.prev \in Screens /\ h.prev \notin Popups
  BY Fields DEF Inv, Staged, Screens, Popups
<1>2. ASSUME NEW typed \in {h.typed, None}, h.mode \in Popups, h.mode = "Command" => typed = None
      PROVE  Inv([h EXCEPT !.mode = h.prev, !.typed = typed])
  <2> DEFINE r == [h EXCEPT !.mode = h.prev, !.typed = typed]
  <2>1. r \in State
    BY <1>1 DEF State, SourceField
  <2>2. /\ r.auth = h.auth /\ r.mode = h.prev /\ r.prev = h.prev /\ r.typed = typed
        /\ r.secret = h.secret /\ r.users = h.users /\ r.sessions = h.sessions
        /\ r.powers = h.powers /\ r.settings = h.settings /\ r.choice = h.choice
    BY <1>1 DEF State
  <2>3. typed = None
    BY <1>1, <1>2 DEF Staged
  <2>4. Staged(r)
    BY <1>1, <1>2, <2>2, <2>3 DEF Staged
  <2> HIDE DEF r
  <2> QED
    BY <1>1, <2>1, <2>2, <2>4, Kept DEF r
<1>3. h.mode \in Popups \ {"Command"} => Inv(ClosePopup(h)) /\ ClosePopup(h).mode \in Screens
  <2> SUFFICES ASSUME h.mode \in Popups \ {"Command"}
               PROVE  Inv(ClosePopup(h)) /\ ClosePopup(h).mode \in Screens
    OBVIOUS
  <2>1. Inv([h EXCEPT !.mode = h.prev, !.typed = h.typed])
    BY <1>2
  <2>2. [h EXCEPT !.mode = h.prev, !.typed = h.typed] = ClosePopup(h)
        /\ ClosePopup(h).mode = h.prev
    BY <1>1 DEF ClosePopup, State
  <2> QED
    BY <1>1, <2>1, <2>2
<1>4. CASE h.mode = "Command"
  <2>1. Inv([h EXCEPT !.mode = h.prev, !.typed = None])
    BY <1>2, <1>4 DEF Popups
  <2>2. CloseEditor(h) = [h EXCEPT !.mode = h.prev, !.typed = None]
        /\ CloseEditor(h).mode = h.prev
    BY <1>1, <1>4 DEF CloseEditor, CloseOnly, State
  <2> QED
    BY <1>1, <1>3, <2>1, <2>2 DEF Screens
<1>5. CASE h.mode # "Command"
  <2>1. h.typed = None
    BY <1>1, <1>5 DEF Staged
  <2>2. CloseEditor(h) = h
    BY <1>1, <1>5, <2>1 DEF CloseEditor, CloseOnly, State
  <2> QED
    BY <1>3, <1>5, <2>2
<1> QED
  BY <1>4, <1>5

(* normalize_derived_state repairs whatever a change has left behind: it   *)
(* keeps what is usable, and every highlight.                              *)
Repairable(h) ==
  /\ h \in State /\ SoundMenus(h) /\ Staged(h) /\ Backed(h.choice, h)
  /\ h.mode = "Command" => h.settings.editor

(* The menus list the same and highlight the same.                         *)
SameMenus(h, r) ==
  /\ r.users.options = h.users.options /\ Highlighted(r.users) = Highlighted(h.users)
  /\ r.sessions.options = h.sessions.options /\ Highlighted(r.sessions) = Highlighted(h.sessions)
  /\ r.powers.options = h.powers.options /\ Highlighted(r.powers) = Highlighted(h.powers)

(* The first of the repairs: the highlights.                               *)
LEMMA ClampedMenus ==
  ASSUME NEW h, Repairable(h),
         NEW r, r = [h EXCEPT !.users = Clamp(@), !.sessions = Clamp(@), !.powers = Clamp(@)]
  PROVE  /\ Repairable(r) /\ SameMenus(h, r) /\ r.choice = h.choice /\ r.settings = h.settings
         /\ r.mode = h.mode
<1>1. h \in State /\ SoundMenus(h) /\ Staged(h) /\ Backed(h.choice, h)
      /\ (h.mode = "Command" => h.settings.editor)
  BY DEF Repairable
<1>2. /\ h.users \in Menu(Users) /\ h.sessions \in Menu(Sessions) /\ h.powers \in Menu(Powers)
      /\ Sound(h.users) /\ Sound(h.sessions) /\ Sound(h.powers)
  BY <1>1, Fields DEF SoundMenus
<1>3. /\ Clamp(h.users) \in Menu(Users) /\ Sound(Clamp(h.users))
      /\ Clamp(h.users).options = h.users.options
      /\ Highlighted(Clamp(h.users)) = Highlighted(h.users)
  BY <1>2, ClampIsSound
<1>4. /\ Clamp(h.sessions) \in Menu(Sessions) /\ Sound(Clamp(h.sessions))
      /\ Clamp(h.sessions).options = h.sessions.options
      /\ Highlighted(Clamp(h.sessions)) = Highlighted(h.sessions)
  BY <1>2, ClampIsSound
<1>5. /\ Clamp(h.powers) \in Menu(Powers) /\ Sound(Clamp(h.powers))
      /\ Clamp(h.powers).options = h.powers.options
      /\ Highlighted(Clamp(h.powers)) = Highlighted(h.powers)
  BY <1>2, ClampIsSound
<1>6. r \in State
  BY <1>1, <1>3, <1>4, <1>5 DEF State
<1>7. /\ r.users = Clamp(h.users) /\ r.sessions = Clamp(h.sessions) /\ r.powers = Clamp(h.powers)
      /\ r.auth = h.auth /\ r.mode = h.mode /\ r.prev = h.prev /\ r.secret = h.secret
      /\ r.typed = h.typed /\ r.settings = h.settings /\ r.choice = h.choice
  BY <1>1 DEF State
<1>8. SoundMenus(r) /\ SameMenus(h, r)
  BY <1>3, <1>4, <1>5, <1>7 DEF SoundMenus, SameMenus
<1>9. Staged(r)
  BY <1>1, <1>7 DEF Staged
<1> QED
  BY <1>1, <1>6, <1>7, <1>8, <1>9 DEF Repairable, Backed

(* The second: a choice that cannot be launched gives way to one that can. *)
LEMMA NormalizedSource ==
  ASSUME NEW h, Repairable(h), NEW r, r = NormalizeSource(h)
  PROVE  /\ Repairable(r) /\ Usable(r.choice, r) /\ SameMenus(h, r) /\ r.settings = h.settings
         /\ r.mode = h.mode
         /\ Usable(h.choice, h) /\ h.choice # None => r.choice = h.choice
<1>1. h \in State /\ SoundMenus(h) /\ Staged(h) /\ Backed(h.choice, h)
      /\ (h.mode = "Command" => h.settings.editor)
  BY DEF Repairable
<1>2. CASE \/ h.choice = None
           \/ IsKind(h.choice, "session") /\ h.choice.index \notin DOMAIN h.sessions.options
  <2>1. r = [h EXCEPT !.choice = Fallback(h)]
    BY <1>2 DEF NormalizeSource
  <2>2. Fallback(h) \in Choice /\ Usable(Fallback(h), h)
    BY <1>1, FallbackIsUsable
  <2>3. r \in State
    BY <1>1, <2>1, <2>2 DEF State
  <2>4. /\ r.choice = Fallback(h) /\ r.users = h.users /\ r.sessions = h.sessions
        /\ r.powers = h.powers /\ r.auth = h.auth /\ r.mode = h.mode /\ r.prev = h.prev
        /\ r.secret = h.secret /\ r.typed = h.typed /\ r.settings = h.settings
    BY <1>1, <2>1 DEF State
  <2>5. Usable(r.choice, r) /\ Backed(r.choice, r)
    BY <2>2, <2>4 DEF Usable, Backed
  <2>6. SoundMenus(r) /\ SameMenus(h, r)
    BY <1>1, <2>4 DEF SoundMenus, SameMenus
  <2>7. Staged(r)
    BY <1>1, <2>4 DEF Staged
  <2>8. ~(Usable(h.choice, h) /\ h.choice # None)
    BY <1>2 DEF Usable
  <2> QED
    BY <1>1, <2>3, <2>4, <2>5, <2>6, <2>7, <2>8 DEF Repairable
<1>3. CASE /\ h.choice # None
           /\ IsKind(h.choice, "session") => h.choice.index \in DOMAIN h.sessions.options
  <2>1. r = h
    BY <1>3 DEF NormalizeSource
  <2>2. Usable(h.choice, h)
    BY <1>1, <1>3 DEF Usable
  <2> QED
    BY <2>1, <2>2 DEF SameMenus
<1> QED
  BY <1>2, <1>3

(* The third: a popup that has lost its menu closes.                       *)
LEMMA ClosedInvalid ==
  ASSUME NEW h, Repairable(h), Usable(h.choice, h), NEW r, r = CloseInvalid(h)
  PROVE  /\ Inv(r) /\ SameMenus(h, r) /\ r.settings = h.settings /\ r.choice = h.choice
         /\ h.mode \in Screens => r.mode = h.mode
<1>1. h \in State /\ SoundMenus(h) /\ Staged(h)
      /\ (h.mode = "Command" => h.settings.editor) /\ h.prev \in Screens /\ h.mode \in Modes
  BY Fields DEF Repairable, Staged
<1>2. CASE InvalidModal(h)
  <2>1. r = [h EXCEPT !.mode = h.prev]
    BY <1>1, <1>2 DEF CloseInvalid, SafePreviousMode, Screens
  <2>2. h.mode \in Popups \ {"Command"} /\ h.prev \notin Popups
    BY <1>1, <1>2 DEF InvalidModal, Popups, Screens
  <2>3. r \in State
    BY <1>1, <2>1 DEF State, Screens, Modes
  <2>4. /\ r.choice = h.choice /\ r.users = h.users /\ r.sessions = h.sessions
        /\ r.powers = h.powers /\ r.auth = h.auth /\ r.mode = h.prev /\ r.prev = h.prev
        /\ r.secret = h.secret /\ r.typed = h.typed /\ r.settings = h.settings
    BY <1>1, <2>1 DEF State
  <2>5. SoundMenus(r) /\ SameMenus(h, r) /\ Usable(r.choice, r)
    BY <1>1, <2>4 DEF SoundMenus, SameMenus, Usable, Backed
  <2>6. Staged(r)
    BY <1>1, <2>2, <2>4 DEF Staged
  <2>7. Allowed(r)
    BY <2>2, <2>4 DEF Allowed, Popups
  <2> QED
    BY <2>2, <2>3, <2>4, <2>5, <2>6, <2>7 DEF Inv, Screens, Popups
<1>3. CASE ~InvalidModal(h)
  <2>1. r = h
    BY <1>3 DEF CloseInvalid
  <2>2. Allowed(h)
    BY <1>1, <1>3, Fields DEF Allowed, InvalidModal, Setting
  <2> QED
    BY <1>1, <2>1, <2>2 DEF Inv, SameMenus
<1> QED
  BY <1>2, <1>3

(* The last: the only user of the menu is selected.                        *)
LEMMA OnlyUserSelected ==
  ASSUME NEW h, Inv(h), NEW r, r = SelectOnlyUser(h)
  PROVE  /\ Inv(r) /\ SameMenus(h, r) /\ r.settings = h.settings /\ r.choice = h.choice
         /\ r.mode = h.mode
<1>1. h \in State /\ Staged(h)
  BY DEF Inv
<1>2. CASE r = h
  BY <1>2 DEF SameMenus
<1>3. CASE r # h
  <2>1. r = [h EXCEPT !.user = h.users.options[1]] /\ Len(h.users.options) = 1
    BY <1>3 DEF SelectOnlyUser
  <2>2. h.users.options[1] \in Users
    BY <1>1, <2>1, Fields DEF Menu
  <2>3. r \in State
    BY <1>1, <2>1, <2>2 DEF State, UserField
  <2>4. /\ r.choice = h.choice /\ r.users = h.users /\ r.sessions = h.sessions
        /\ r.powers = h.powers /\ r.auth = h.auth /\ r.mode = h.mode /\ r.prev = h.prev
        /\ r.secret = h.secret /\ r.typed = h.typed /\ r.settings = h.settings
    BY <1>1, <2>1 DEF State
  <2>5. Staged(r)
    BY <1>1, <2>4 DEF Staged
  <2> QED
    BY <2>3, <2>4, <2>5, Kept DEF SameMenus
<1> QED
  BY <1>2, <1>3

(* All of them put the record in order and keep what was usable.           *)
LEMMA NormalizedInv ==
  ASSUME NEW h, Repairable(h), NEW r, r = NormalizeDerivedState(h)
  PROVE  /\ Inv(r) /\ SameMenus(h, r) /\ r.settings = h.settings
         /\ Usable(h.choice, h) /\ h.choice # None => r.choice = h.choice
         /\ h.mode \in Screens => r.mode = h.mode
<1> DEFINE a == [h EXCEPT !.users = Clamp(@), !.sessions = Clamp(@), !.powers = Clamp(@)]
           b == NormalizeSource(a)
           c == CloseInvalid(b)
<1>1. r = SelectOnlyUser(c)
  BY DEF NormalizeDerivedState
<1>2. /\ Repairable(a) /\ SameMenus(h, a) /\ a.choice = h.choice /\ a.settings = h.settings
      /\ a.mode = h.mode
  BY ClampedMenus
<1> HIDE DEF a
<1>3. /\ Repairable(b) /\ Usable(b.choice, b) /\ SameMenus(a, b) /\ b.settings = a.settings
      /\ b.mode = a.mode
      /\ Usable(a.choice, a) /\ a.choice # None => b.choice = a.choice
  BY <1>2, NormalizedSource
<1> HIDE DEF b
<1>4. /\ Inv(c) /\ SameMenus(b, c) /\ c.settings = b.settings /\ c.choice = b.choice
      /\ b.mode \in Screens => c.mode = b.mode
  BY <1>3, ClosedInvalid
<1> HIDE DEF c
<1>5. /\ Inv(r) /\ SameMenus(c, r) /\ r.settings = c.settings /\ r.choice = c.choice
      /\ r.mode = c.mode
  BY <1>1, <1>4, OnlyUserSelected
<1>6. Usable(h.choice, h) => Usable(a.choice, a)
  BY <1>2 DEF Usable, Backed, SameMenus
<1> QED
  BY <1>2, <1>3, <1>4, <1>5, <1>6 DEF SameMenus

(* What a reload brings: settings of the machine, and menus of it or none. *)
LEMMA PlanFacts ==
  ASSUME machine \in Machines, NEW old, NEW plan \in Plan(old)
  PROVE  /\ plan.settings \in Setting /\ plan.settings \in machine.settings
         /\ plan.users # None => plan.users \in Seq(Users) /\ NoRepeat(plan.users)
         /\ plan.sessions # None => plan.sessions \in Seq(Sessions) /\ NoRepeat(plan.sessions)
         /\ plan.powers # None => plan.powers \in Seq(Powers) /\ NoRepeat(plan.powers)
         /\ plan.default \in UserField
<1>1. PICK new \in machine.settings :
        plan \in [settings : {new}, users : UsersFound(old, new),
                  sessions : machine.sessions \cup {None}, powers : machine.powers \cup {None},
                  default : Name]
  BY DEF Plan
<1>2. /\ plan.settings = new /\ plan.users \in UsersFound(old, new)
      /\ plan.sessions \in machine.sessions \cup {None}
      /\ plan.powers \in machine.powers \cup {None} /\ plan.default \in Name
  BY <1>1
<1>3. /\ machine.names \subseteq Users
      /\ machine.users \subseteq Seq(Users) /\ machine.sessions \subseteq Seq(Sessions)
      /\ machine.powers \subseteq Seq(Powers)
      /\ \A menu \in machine.users \cup machine.sessions \cup machine.powers : NoRepeat(menu)
      /\ machine.settings \subseteq Setting
  BY MenusAssumption DEF Setting
<1>4. plan.users \in machine.users \cup {<<>>, None}
  BY <1>2 DEF UsersFound
<1>5. NoRepeat(<<>>) /\ <<>> \in Seq(Users)
  BY DEF NoRepeat
<1>6. plan.default \in UserField
  BY <1>2, <1>3 DEF Name, UserField
<1> QED
  BY <1>2, <1>3, <1>4, <1>5, <1>6

(* A highlighted entry that is still listed stays highlighted. *)
Stays(menu, new) == Highlighted(menu) \in Listed(new) => Highlighted(new) = Highlighted(menu)

(* Entries that come in another order keep the highlight on its entry.     *)
LEMMA FoundAgain ==
  ASSUME NEW items, NEW menu \in Menu(items), Sound(menu), NEW options,
         options # None => options \in Seq(items) /\ NoRepeat(options),
         NEW item, Highlighted(menu) \in {options[i] : i \in DOMAIN options}
                     => item = Highlighted(menu),
         NEW new, new = IF options = None THEN menu ELSE Found(options, item)
  PROVE  /\ new \in Menu(items) /\ Sound(new) /\ Stays(menu, new)
         /\ options # None => new.options = options
<1>1. CASE options = None
  BY <1>1 DEF Stays
<1>2. CASE options # None
  <2>1. /\ new \in Menu(items) /\ Sound(new) /\ new.options = options
        /\ item \in {options[i] : i \in DOMAIN options} => Highlighted(new) = item
    BY <1>2, FoundIsSound
  <2>2. Stays(menu, new)
    BY <2>1 DEF Stays, Listed
  <2> QED
    BY <1>2, <2>1, <2>2
<1> QED
  BY <1>1, <1>2

(* The user menu, the prefilled name and the editor, under new settings.   *)
LEMMA UsersReloaded ==
  ASSUME machine \in Machines, NEW h, Inv(h), NEW old, NEW plan \in Plan(old),
         NEW c, c = [h EXCEPT !.settings = plan.settings], NEW s, s = ReloadUsers(c, plan)
  PROVE  /\ s \in State /\ SoundMenus(s) /\ Stays(h.users, s.users)
         /\ s.settings = plan.settings /\ SameScreen(h, s) /\ s.choice = h.choice
         /\ s.sessions = h.sessions /\ s.powers = h.powers
<1>1. h \in State /\ SoundMenus(h)
  BY DEF Inv
<1>2. h.users \in Menu(Users) /\ Sound(h.users) /\ Sound(h.sessions) /\ Sound(h.powers)
  BY <1>1, Fields DEF SoundMenus
<1>3. plan.settings \in Setting
      /\ (plan.users # None => plan.users \in Seq(Users) /\ NoRepeat(plan.users))
  BY PlanFacts
<1> DEFINE item == IF Highlighted(h.users) \in {plan.users[i] : i \in DOMAIN plan.users}
                   THEN Highlighted(h.users) ELSE h.user
           new == IF plan.users = None THEN h.users ELSE Found(plan.users, item)
<1>4. s = [h EXCEPT !.settings = plan.settings, !.users = new]
  BY <1>1 DEF ReloadUsers, State
<1>5. Highlighted(h.users) \in {plan.users[i] : i \in DOMAIN plan.users}
        => item = Highlighted(h.users)
  OBVIOUS
<1> HIDE DEF item
<1>6. new \in Menu(Users) /\ Sound(new) /\ Stays(h.users, new)
  BY <1>2, <1>3, <1>5, FoundAgain
<1> HIDE DEF new
<1>7. /\ s \in State /\ s.users = new /\ s.sessions = h.sessions /\ s.powers = h.powers
      /\ s.settings = plan.settings /\ s.choice = h.choice
  BY <1>1, <1>3, <1>4, <1>6 DEF State
<1>8. SameScreen(h, s)
  BY <1>1, <1>4 DEF State, SameScreen
<1> QED
  BY <1>2, <1>6, <1>7, <1>8 DEF SoundMenus

(* The reloaded name of the default user goes into an empty field only,    *)
(* and nothing else changes.                                               *)
LEMMA UserPrefilled ==
  ASSUME NEW h \in State, NEW plan, plan.default \in UserField, NEW s, s = PrefillUser(h, plan)
  PROVE  /\ s \in State /\ SameScreen(h, s) /\ s.settings = h.settings /\ s.choice = h.choice
         /\ s.users = h.users /\ s.sessions = h.sessions /\ s.powers = h.powers
BY DEF PrefillUser, State, UserField, SameScreen

(* An editor that is no longer allowed is closed.                          *)
LEMMA EditorReloaded ==
  ASSUME NEW h \in State, Staged(h), NEW s, s = ReloadEditor(h)
  PROVE  /\ s \in State /\ Staged(s) /\ (s.mode = "Command" => s.settings.editor)
         /\ s.settings = h.settings /\ s.choice = h.choice
         /\ s.users = h.users /\ s.sessions = h.sessions /\ s.powers = h.powers
<1>1. h.prev \in Screens /\ h.settings.editor \in BOOLEAN
  BY Fields DEF Staged, Setting
<1>2. CASE ~h.settings.editor /\ h.mode = "Command"
  <2>1. s = [h EXCEPT !.mode = h.prev, !.typed = None]
    BY <1>2 DEF ReloadEditor, CloseEditor, CloseOnly, State
  <2>2. s \in State
    BY <1>1, <2>1 DEF State, Screens, Modes, SourceField
  <2>3. /\ s.mode = h.prev /\ s.typed = None /\ s.prev = h.prev /\ s.auth = h.auth
        /\ s.secret = h.secret /\ s.settings = h.settings /\ s.choice = h.choice
        /\ s.users = h.users /\ s.sessions = h.sessions /\ s.powers = h.powers
    BY <2>1 DEF State
  <2>4. Staged(s)
    BY <1>1, <1>2, <2>3 DEF Staged, Screens, Popups
  <2> QED
    BY <1>1, <2>2, <2>3, <2>4 DEF Screens
<1>3. CASE ~(~h.settings.editor /\ h.mode = "Command")
  <2>1. s = h
    BY <1>3 DEF ReloadEditor
  <2> QED
    BY <1>1, <1>3, <2>1 DEF State
<1> QED
  BY <1>2, <1>3

(* So far the choice and the menus of sessions and powers are untouched.   *)
LEMMA ScreenReloaded ==
  ASSUME machine \in Machines, NEW h, Inv(h), NEW old, NEW plan \in Plan(old),
         NEW s, s = ReloadEditor(PrefillUser(
                      ReloadUsers([h EXCEPT !.settings = plan.settings], plan), plan))
  PROVE  /\ s \in State /\ SoundMenus(s) /\ Staged(s) /\ Stays(h.users, s.users)
         /\ s.mode = "Command" => s.settings.editor
         /\ s.sessions = h.sessions /\ s.powers = h.powers /\ s.choice = h.choice
         /\ s.settings = plan.settings
<1>c. PICK c : c = [h EXCEPT !.settings = plan.settings]
  OBVIOUS
<1>a. PICK a : a = ReloadUsers(c, plan)
  OBVIOUS
<1>b. PICK b : b = PrefillUser(a, plan)
  OBVIOUS
<1>1. h \in State /\ Staged(h)
  BY DEF Inv
<1>2. /\ a \in State /\ SoundMenus(a) /\ Stays(h.users, a.users)
      /\ a.settings = plan.settings /\ SameScreen(h, a) /\ a.choice = h.choice
      /\ a.sessions = h.sessions /\ a.powers = h.powers
  BY <1>a, <1>c, UsersReloaded
<1>3. /\ b \in State /\ SameScreen(a, b) /\ b.settings = a.settings /\ b.choice = a.choice
      /\ b.users = a.users /\ b.sessions = a.sessions /\ b.powers = a.powers
  BY <1>2, <1>b, PlanFacts, UserPrefilled
<1>6. Staged(b)
  BY <1>1, <1>2, <1>3 DEF Staged, SameScreen
<1>7. /\ s \in State /\ Staged(s) /\ (s.mode = "Command" => s.settings.editor)
      /\ s.settings = b.settings /\ s.choice = b.choice
      /\ s.users = b.users /\ s.sessions = b.sessions /\ s.powers = b.powers
  BY <1>a, <1>b, <1>c, <1>3, <1>6, EditorReloaded
<1> QED
  BY <1>2, <1>3, <1>7 DEF SoundMenus

(* A chosen session is looked up again by its command; if it is gone the   *)
(* fallback of the new settings stands in.                                 *)
LEMMA SessionsReloaded ==
  ASSUME NEW h \in State, SoundMenus(h), NEW plan,
         IsKind(h.choice, "session") => h.choice.index \in DOMAIN h.sessions.options,
         plan.sessions # None => plan.sessions \in Seq(Sessions) /\ NoRepeat(plan.sessions),
         NEW s, s = ReloadSessions(h, plan)
  PROVE  /\ s \in State /\ SoundMenus(s) /\ SameScreen(h, s) /\ s.settings = h.settings
         /\ s.users = h.users /\ s.powers = h.powers /\ Stays(h.sessions, s.sessions)
         /\ IsKind(h.choice, "session") /\ CommandOf(h) \in Listed(s.sessions) =>
              /\ IsKind(s.choice, "session") /\ s.choice.index \in DOMAIN s.sessions.options
              /\ CommandOf(s) = CommandOf(h)
         /\ ~IsKind(h.choice, "session") => s.choice = h.choice
         /\ s.choice # h.choice =>
              /\ ~IsKind(s.choice, "command")
              /\ IsKind(s.choice, "default") => s.choice.command = s.settings.command
<1>1. h.sessions \in Menu(Sessions) /\ Sound(h.sessions) /\ Sound(h.users) /\ Sound(h.powers)
  BY Fields DEF SoundMenus
<1>2. CASE plan.sessions = None
  <2>1. s = h
    BY <1>2 DEF ReloadSessions
  <2> QED
    BY <2>1 DEF SameScreen, Stays
<1>3. CASE plan.sessions # None
  <2>0. PICK new : new = Found(plan.sessions, Highlighted(h.sessions))
    OBVIOUS
  <2>1. new \in Menu(Sessions) /\ Sound(new) /\ Stays(h.sessions, new)
        /\ new.options = plan.sessions
    BY <1>1, <1>3, <2>0, FoundAgain
  <2>2. PICK found : found = [h EXCEPT !.sessions = new]
    OBVIOUS
  <2>3. found \in State
    BY <2>1, <2>2 DEF State
  <2>4. /\ SameScreen(h, found) /\ found.settings = h.settings /\ found.users = h.users
        /\ found.powers = h.powers /\ found.sessions = new /\ found.choice = h.choice
    BY <2>2 DEF State, SameScreen
  <2>5. SoundMenus(found)
    BY <1>1, <2>1, <2>4 DEF SoundMenus
  <2>6. CASE ~IsKind(h.choice, "session")
    <3>1. s = found
      BY <1>3, <2>0, <2>2, <2>6 DEF ReloadSessions
    <3> QED
      BY <2>1, <2>3, <2>4, <2>5, <2>6, <3>1
  <2>7. CASE IsKind(h.choice, "session")
    <3>1. PICK choice : choice = IF CommandOf(h) \in Listed(new)
                                 THEN Session(Position(plan.sessions, CommandOf(h)))
                                 ELSE Fallback(found)
      OBVIOUS
    <3>2. s = [found EXCEPT !.choice = choice]
      BY <1>3, <2>0, <2>2, <2>4, <2>7, <3>1 DEF ReloadSessions
    <3>3. CASE CommandOf(h) \in Listed(new)
      <4>1. PICK i : i = Position(plan.sessions, CommandOf(h))
        OBVIOUS
      <4>2. i \in DOMAIN new.options /\ new.options[i] = CommandOf(h)
        BY <2>1, <3>3, <4>1, PositionIs DEF Listed
      <4>3. i \in Nat \ {0}
        BY <2>1, <4>2 DEF Menu
      <4>4. choice = Session(i)
        BY <3>1, <3>3, <4>1
      <4>5. choice \in Choice /\ choice.index = i /\ choice.kind = "session"
            /\ IsKind(choice, "session") /\ ~IsKind(choice, "default") /\ ~IsKind(choice, "command")
        BY <4>3, <4>4, SessionFacts DEF IsKind
      <4>6. s \in State /\ s.choice = choice /\ s.sessions = new /\ s.settings = h.settings
            /\ s.users = h.users /\ s.powers = h.powers /\ SameScreen(h, s)
        BY <2>3, <2>4, <3>2, <4>5 DEF State, SameScreen
      <4>7. CommandOf(s) = CommandOf(h)
        BY <4>2, <4>4, <4>5, <4>6, SessionFacts, <4>3 DEF CommandOf
      <4>8. SoundMenus(s)
        BY <1>1, <2>1, <4>6 DEF SoundMenus
      <4> QED
        BY <2>1, <2>7, <4>2, <4>5, <4>6, <4>7, <4>8
    <3>4. CASE CommandOf(h) \notin Listed(new)
      <4>1. choice = Fallback(found)
        BY <3>1, <3>4
      <4>2. choice \in Choice /\ Usable(choice, found) /\ ~IsKind(choice, "command")
        BY <2>3, <4>1, FallbackIsUsable
      <4>3. s \in State /\ s.choice = choice /\ s.sessions = new /\ s.settings = h.settings
            /\ s.users = h.users /\ s.powers = h.powers /\ SameScreen(h, s)
        BY <2>3, <2>4, <3>2, <4>2 DEF State, SameScreen
      <4>4. IsKind(choice, "default") => choice.command = s.settings.command
        BY <2>4, <4>2, <4>3 DEF Usable, Backed
      <4>5. SoundMenus(s)
        BY <1>1, <2>1, <4>3 DEF SoundMenus
      <4> QED
        BY <2>1, <2>7, <3>4, <4>2, <4>3, <4>4, <4>5
    <3> QED
      BY <3>3, <3>4
  <2> QED
    BY <2>6, <2>7
<1> QED
  BY <1>2, <1>3

(* Only the choice changes. *)
OnlyChoice(h, r) ==
  /\ SameScreen(h, r) /\ r.settings = h.settings
  /\ r.users = h.users /\ r.sessions = h.sessions /\ r.powers = h.powers

(* Another choice keeps the types and everything else.                     *)
LEMMA OtherChoice ==
  ASSUME NEW h \in State, NEW choice \in Choice, NEW s, s = [h EXCEPT !.choice = choice]
  PROVE  s \in State /\ OnlyChoice(h, s) /\ s.choice = choice
BY DEF State, OnlyChoice, SameScreen

(* A choice of the configured command follows the configuration. *)
LEMMA CommandReloaded ==
  ASSUME NEW h \in State, NEW old, NEW s, s = ReloadCommand(h, old),
         IsKind(h.choice, "default") => h.choice.command \in {old.command, h.settings.command}
  PROVE  /\ s \in State /\ OnlyChoice(h, s)
         /\ IsKind(s.choice, "default") => s.choice.command = s.settings.command
         /\ \/ s.choice = h.choice
            \/ /\ h.settings.command # old.command
               /\ h.settings.command # None \/ IsKind(h.choice, "default")
               /\ ~IsKind(s.choice, "command")
<1>1. h.settings.command \in Commands \cup {None}
  BY Fields DEF Setting
<1>2. OnlyChoice(h, h)
  BY DEF OnlyChoice, SameScreen
<1>3. CASE h.settings.command = old.command
  <2>1. s = h
    BY <1>3 DEF ReloadCommand
  <2> QED
    BY <1>2, <1>3, <2>1
<1>4. CASE h.settings.command # old.command /\ h.settings.command # None
  <2>1. s = [h EXCEPT !.choice = DefaultCommand(h.settings.command)]
    BY <1>4 DEF ReloadCommand
  <2>2. h.settings.command \in Sources
    BY <1>1, <1>4, NoneFacts
  <2>3. PICK choice : choice = DefaultCommand(h.settings.command)
    OBVIOUS
  <2>4. choice \in Choice /\ choice.command = h.settings.command /\ ~IsKind(choice, "command")
    BY <2>2, <2>3, DefaultFacts
  <2>5. s \in State /\ OnlyChoice(h, s) /\ s.choice = choice
    BY <2>1, <2>3, <2>4, OtherChoice
  <2> QED
    BY <1>4, <2>4, <2>5 DEF OnlyChoice
<1>5. CASE h.settings.command # old.command /\ h.settings.command = None
  <2>1. CASE IsKind(h.choice, "default")
    <3>1. s = [h EXCEPT !.choice = Fallback(h)]
      BY <1>5, <2>1 DEF ReloadCommand
    <3>2. PICK choice : choice = Fallback(h)
      OBVIOUS
    <3>3. choice \in Choice /\ Usable(choice, h) /\ ~IsKind(choice, "command")
      BY <3>2, FallbackIsUsable
    <3>4. s \in State /\ OnlyChoice(h, s) /\ s.choice = choice
      BY <3>1, <3>2, <3>3, OtherChoice
    <3> QED
      BY <1>5, <2>1, <3>3, <3>4 DEF OnlyChoice, Usable, Backed
  <2>2. CASE ~IsKind(h.choice, "default")
    <3>1. s = h
      BY <1>5, <2>2 DEF ReloadCommand
    <3> QED
      BY <1>2, <2>2, <3>1
  <2> QED
    BY <2>1, <2>2
<1> QED
  BY <1>3, <1>4, <1>5

(* A typed command gives way where the editor was taken away.              *)
LEMMA TypedCommandDropped ==
  ASSUME NEW h \in State, NEW s, s = DropTypedCommand(h),
         IsKind(h.choice, "default") => h.choice.command = h.settings.command
  PROVE  /\ s \in State /\ OnlyChoice(h, s) /\ Backed(s.choice, s)
         /\ s.choice = h.choice \/ (IsKind(h.choice, "command") /\ ~h.settings.editor)
<1>1. CASE ~h.settings.editor /\ IsKind(h.choice, "command")
  <2>1. s = [h EXCEPT !.choice = Fallback(h)]
    BY <1>1 DEF DropTypedCommand
  <2>2. PICK choice : choice = Fallback(h)
    OBVIOUS
  <2>3. choice \in Choice /\ Usable(choice, h)
    BY <2>2, FallbackIsUsable
  <2>4. s \in State /\ OnlyChoice(h, s) /\ s.choice = choice
    BY <2>1, <2>2, <2>3, OtherChoice
  <2> QED
    BY <1>1, <2>3, <2>4 DEF OnlyChoice, Usable, Backed
<1>2. CASE ~(~h.settings.editor /\ IsKind(h.choice, "command"))
  <2>1. s = h
    BY <1>2 DEF DropTypedCommand
  <2> QED
    BY <1>2, <2>1 DEF OnlyChoice, SameScreen, Backed
<1> QED
  BY <1>1, <1>2

(* The reloaded power menu stays in order, with its highlight.             *)
LEMMA PowersReloaded ==
  ASSUME NEW h \in State, SoundMenus(h), NEW plan,
         plan.powers # None => plan.powers \in Seq(Powers) /\ NoRepeat(plan.powers),
         NEW s, s = ReloadPowers(h, plan)
  PROVE  /\ s \in State /\ SoundMenus(s) /\ SameScreen(h, s) /\ s.settings = h.settings
         /\ s.users = h.users /\ s.sessions = h.sessions /\ Stays(h.powers, s.powers)
         /\ s.choice = h.choice
<1>1. h.powers \in Menu(Powers) /\ Sound(h.sessions) /\ Sound(h.users) /\ Sound(h.powers)
  BY Fields DEF SoundMenus
<1>2. CASE plan.powers = None
  <2>1. s = h
    BY <1>2 DEF ReloadPowers
  <2> QED
    BY <2>1 DEF SameScreen, Stays
<1>3. CASE plan.powers # None
  <2>1. PICK new : new = Found(plan.powers, Highlighted(h.powers))
    OBVIOUS
  <2>2. new \in Menu(Powers) /\ Sound(new) /\ Stays(h.powers, new)
    BY <1>1, <1>3, <2>1, FoundAgain
  <2>3. s = [h EXCEPT !.powers = new]
    BY <1>3, <2>1 DEF ReloadPowers
  <2>4. /\ s \in State /\ SameScreen(h, s) /\ s.settings = h.settings /\ s.users = h.users
        /\ s.powers = new /\ s.sessions = h.sessions /\ s.choice = h.choice
    BY <2>2, <2>3 DEF State, SameScreen
  <2> QED
    BY <1>1, <2>2, <2>4 DEF SoundMenus
<1> QED
  BY <1>2, <1>3

(* What a reload does to a record that is in order: it stays in order, the *)
(* highlights stay, and so does what would be launched, as long as there   *)
(* is such a source and no other command is configured.                    *)
Survives(h, r) ==
  CASE IsKind(h.choice, "session") -> CommandOf(h) \in Listed(r.sessions)
    [] IsKind(h.choice, "command") -> r.settings.editor
    [] IsKind(h.choice, "default") -> r.settings.command = h.settings.command
    [] OTHER -> FALSE

(* A reload keeps the record in order, the highlights, and what would be   *)
(* launched.                                                               *)
LEMMA ReloadedInv ==
  ASSUME machine \in Machines, NEW h, Inv(h), NEW plan \in Plan(h.settings),
         NEW r, r = ApplyReload(h, plan)
  PROVE  /\ Inv(r) /\ r.settings \in machine.settings
         /\ Stays(h.users, r.users) /\ Stays(h.sessions, r.sessions) /\ Stays(h.powers, r.powers)
         /\ Survives(h, r) /\ r.settings.command \in {h.settings.command, None}
              => CommandOf(r) = CommandOf(h)
<1>1. /\ h \in State /\ Usable(h.choice, h) /\ h.choice \in Choice
  BY Fields DEF Inv
<1>2. PICK a : a = ReloadEditor(PrefillUser(
                     ReloadUsers([h EXCEPT !.settings = plan.settings], plan), plan))
  OBVIOUS
<1>3. PICK b : b = ReloadSessions(a, plan)
  OBVIOUS
<1>4. PICK c : c = ReloadCommand(b, h.settings)
  OBVIOUS
<1>5. PICK d : d = DropTypedCommand(c)
  OBVIOUS
<1>6. PICK e : e = ReloadPowers(d, plan)
  OBVIOUS
<1>7. PICK f : f = NormalizeDerivedState(e)
  OBVIOUS
<1>8. r = CancelUnlaunchable(f)
  BY <1>2, <1>3, <1>4, <1>5, <1>6, <1>7 DEF ApplyReload
<1>9. /\ plan.settings \in machine.settings
      /\ plan.sessions # None => plan.sessions \in Seq(Sessions) /\ NoRepeat(plan.sessions)
      /\ plan.powers # None => plan.powers \in Seq(Powers) /\ NoRepeat(plan.powers)
  BY PlanFacts
<1>10. /\ a \in State /\ SoundMenus(a) /\ Staged(a) /\ Stays(h.users, a.users)
       /\ a.mode = "Command" => a.settings.editor
       /\ a.sessions = h.sessions /\ a.powers = h.powers /\ a.choice = h.choice
       /\ a.settings = plan.settings
  BY <1>2, ScreenReloaded
<1>11. IsKind(a.choice, "session") => a.choice.index \in DOMAIN a.sessions.options
  BY <1>1, <1>10 DEF Usable
<1>12. /\ b \in State /\ SoundMenus(b) /\ SameScreen(a, b) /\ b.settings = a.settings
       /\ b.users = a.users /\ b.powers = a.powers /\ Stays(a.sessions, b.sessions)
       /\ IsKind(a.choice, "session") /\ CommandOf(a) \in Listed(b.sessions) =>
            /\ IsKind(b.choice, "session") /\ b.choice.index \in DOMAIN b.sessions.options
            /\ CommandOf(b) = CommandOf(a)
       /\ ~IsKind(a.choice, "session") => b.choice = a.choice
       /\ b.choice # a.choice =>
            /\ ~IsKind(b.choice, "command")
            /\ IsKind(b.choice, "default") => b.choice.command = b.settings.command
  BY <1>3, <1>9, <1>10, <1>11, SessionsReloaded
<1>13. IsKind(b.choice, "default") =>
         b.choice.command \in {h.settings.command, b.settings.command}
  BY <1>1, <1>10, <1>12 DEF Usable, Backed
<1>14. /\ c \in State /\ OnlyChoice(b, c)
       /\ IsKind(c.choice, "default") => c.choice.command = c.settings.command
       /\ \/ c.choice = b.choice
          \/ /\ b.settings.command # h.settings.command
             /\ b.settings.command # None \/ IsKind(b.choice, "default")
             /\ ~IsKind(c.choice, "command")
  BY <1>4, <1>12, <1>13, CommandReloaded
<1>15. /\ d \in State /\ OnlyChoice(c, d) /\ Backed(d.choice, d)
       /\ d.choice = c.choice \/ (IsKind(c.choice, "command") /\ ~c.settings.editor)
  BY <1>5, <1>14, TypedCommandDropped
<1>16. SoundMenus(d)
  BY <1>12, <1>14, <1>15 DEF SoundMenus, OnlyChoice
<1>17. /\ e \in State /\ SoundMenus(e) /\ SameScreen(d, e) /\ e.settings = d.settings
       /\ e.users = d.users /\ e.sessions = d.sessions /\ Stays(d.powers, e.powers)
       /\ e.choice = d.choice
  BY <1>6, <1>9, <1>15, <1>16, PowersReloaded
<1>18. /\ SameScreen(a, e) /\ e.settings = plan.settings /\ e.users = a.users
       /\ e.sessions = b.sessions
  BY <1>10, <1>12, <1>14, <1>15, <1>17 DEF OnlyChoice, SameScreen
<1>19. Repairable(e)
  <2>1. Staged(e)
    BY <1>10, <1>18 DEF Staged, SameScreen
  <2>2. Backed(e.choice, e)
    BY <1>15, <1>17 DEF Backed
  <2> QED
    BY <1>10, <1>17, <1>18, <2>1, <2>2 DEF Repairable, SameScreen
<1>20. /\ Inv(f) /\ SameMenus(e, f) /\ f.settings = e.settings
       /\ Usable(e.choice, e) /\ e.choice # None => f.choice = e.choice
  BY <1>7, <1>19, NormalizedInv
<1>21. /\ Inv(r) /\ r.sessions = f.sessions /\ r.choice = f.choice /\ r.users = f.users
       /\ r.powers = f.powers /\ r.settings = f.settings
  BY <1>8, <1>20, CancelKeeps DEF CancelUnlaunchable
<1>22. /\ Stays(h.users, r.users) /\ Stays(h.sessions, r.sessions) /\ Stays(h.powers, r.powers)
  <2>1. SameMenus(e, r)
    BY <1>20, <1>21 DEF SameMenus
  <2>2. Stays(h.users, e.users) /\ Stays(h.sessions, e.sessions) /\ Stays(h.powers, e.powers)
    BY <1>10, <1>12, <1>14, <1>15, <1>17, <1>18 DEF OnlyChoice
  <2> QED
    BY <2>1, <2>2 DEF SameMenus, Stays, Listed
<1>23. ASSUME Survives(h, r), r.settings.command \in {h.settings.command, None}
       PROVE  CommandOf(r) = CommandOf(h)
  <2>1. /\ r.settings = plan.settings /\ r.sessions.options = b.sessions.options
        /\ b.settings = plan.settings
    BY <1>10, <1>12, <1>18, <1>20, <1>21 DEF SameMenus
  <2>2. CommandOf(a) = CommandOf(h)
    BY <1>10 DEF CommandOf
  <2>3. ASSUME b.choice # None, CommandOf(b) = CommandOf(h),
               ~IsKind(b.choice, "default") \/ b.settings.command = h.settings.command,
               ~IsKind(b.choice, "command") \/ b.settings.editor,
               IsKind(b.choice, "session") => b.choice.index \in DOMAIN b.sessions.options
        PROVE  CommandOf(r) = CommandOf(h)
    <3>1. c.choice = b.choice
      BY <1>14, <1>23, <2>1, <2>3
    <3>2. d.choice = c.choice
      BY <1>14, <1>15, <2>3, <3>1 DEF OnlyChoice
    <3>3. Usable(e.choice, e)
      BY <1>15, <1>17, <1>18, <2>3, <3>1, <3>2 DEF Usable, Backed
    <3>4. r.choice = b.choice
      BY <1>17, <1>20, <1>21, <2>3, <3>1, <3>2, <3>3
    <3> QED
      BY <2>1, <2>3, <3>4 DEF CommandOf
  <2>4. CASE IsKind(h.choice, "session")
    <3>1. CommandOf(a) \in Listed(b.sessions)
      BY <1>23, <2>1, <2>2, <2>4 DEF Survives, Listed, IsKind
    <3>2. /\ IsKind(b.choice, "session") /\ b.choice.index \in DOMAIN b.sessions.options
          /\ CommandOf(b) = CommandOf(h)
      BY <1>10, <1>12, <2>2, <2>4, <3>1
    <3>3. b.choice # None /\ ~IsKind(b.choice, "default") /\ ~IsKind(b.choice, "command")
      BY <3>2 DEF IsKind
    <3> QED
      BY <2>3, <3>2, <3>3
  <2>5. CASE ~IsKind(h.choice, "session")
    <3>1. b.choice = h.choice
      BY <1>10, <1>12, <2>5
    <3>2. h.choice # None /\ (IsKind(h.choice, "command") => r.settings.editor)
          /\ (IsKind(h.choice, "default") => r.settings.command = h.settings.command)
      BY <1>23, <2>5 DEF Survives, IsKind
    <3>3. CommandOf(b) = CommandOf(h)
      BY <2>5, <3>1, <3>2 DEF CommandOf, IsKind
    <3> QED
      BY <2>1, <2>3, <2>5, <3>1, <3>2, <3>3
  <2> QED
    BY <2>4, <2>5
<1> QED
  BY <1>9, <1>18, <1>20, <1>21, <1>22, <1>23

-----------------------------------------------------------------------------
(* Startup and the keys *)

(* Whatever is configured and remembered, the first screen is in order. *)
LEMMA InitInv == Init => IInv
<1> SUFFICES ASSUME Init PROVE IInv
  OBVIOUS
<1>1. PICK settings \in machine.settings, sessions \in machine.sessions, powers \in machine.powers,
           user \in Name, own \in SourceField, global \in SourceField :
        \E users \in IF settings.menu \/ settings.complete THEN machine.users ELSE {<<>>} :
          LET fresh == Fresh(settings, users, sessions, powers, user)
              ready == NormalizeDerivedState(Restore(Restore(
                         [fresh EXCEPT !.choice = Fallback(fresh)], own), global))
          IN  g = IF ready.user = None THEN ready ELSE Begin(ready)
  BY DEF Init
<1>2. PICK users \in IF settings.menu \/ settings.complete THEN machine.users ELSE {<<>>} :
        LET fresh == Fresh(settings, users, sessions, powers, user)
            ready == NormalizeDerivedState(Restore(Restore(
                       [fresh EXCEPT !.choice = Fallback(fresh)], own), global))
        IN  g = IF ready.user = None THEN ready ELSE Begin(ready)
  BY <1>1
<1>3. PICK fresh : fresh = Fresh(settings, users, sessions, powers, user)
  OBVIOUS
<1>4. PICK chosen : chosen = [fresh EXCEPT !.choice = Fallback(fresh)]
  OBVIOUS
<1>5. PICK mine : mine = Restore(chosen, own)
  OBVIOUS
<1>6. PICK restored : restored = Restore(mine, global)
  OBVIOUS
<1>7. PICK ready : ready = NormalizeDerivedState(restored)
  OBVIOUS
<1>8. g = IF ready.user = None THEN ready ELSE Begin(ready)
  BY <1>2, <1>3, <1>4, <1>5, <1>6, <1>7
<1>9. /\ machine \in Machines /\ settings \in Setting /\ user \in UserField
      /\ users \in Seq(Users) /\ sessions \in Seq(Sessions) /\ powers \in Seq(Powers)
      /\ NoRepeat(users) /\ NoRepeat(sessions) /\ NoRepeat(powers)
  <2>1. machine \in Machines
    BY DEF Init
  <2>2. /\ machine.names \subseteq Users
        /\ machine.users \subseteq Seq(Users) /\ machine.sessions \subseteq Seq(Sessions)
        /\ machine.powers \subseteq Seq(Powers)
        /\ \A menu \in machine.users \cup machine.sessions \cup machine.powers : NoRepeat(menu)
        /\ machine.settings \subseteq Setting
    BY <2>1, MenusAssumption DEF Setting
  <2>3. <<>> \in Seq(Users) /\ NoRepeat(<<>>)
    BY DEF NoRepeat
  <2>4. users \in machine.users \cup {<<>>}
    OBVIOUS
  <2> QED
    BY <2>1, <2>2, <2>3, <2>4 DEF Name, UserField
<1>10. \A items : \A options \in Seq(items) : NoRepeat(options) =>
         /\ [options |-> options, selected |-> 1] \in Menu(items)
         /\ Sound([options |-> options, selected |-> 1])
  BY DEF Menu, Sound
<1>11. /\ fresh.auth = "Idle" /\ fresh.mode = "Username" /\ fresh.prev = "Username"
       /\ fresh.typed = None /\ fresh.secret = FALSE /\ fresh.settings = settings
       /\ fresh.users = [options |-> users, selected |-> 1]
       /\ fresh.sessions = [options |-> sessions, selected |-> 1]
       /\ fresh.powers = [options |-> powers, selected |-> 1]
  BY <1>3 DEF Fresh
<1>12. fresh \in State
  <2>1. None \in Choice /\ None \in SourceField
    BY NoneFacts DEF SourceField
  <2>2. /\ [options |-> users, selected |-> 1] \in Menu(Users)
        /\ [options |-> sessions, selected |-> 1] \in Menu(Sessions)
        /\ [options |-> powers, selected |-> 1] \in Menu(Powers)
    BY <1>9, <1>10
  <2> QED
    BY <1>3, <1>9, <2>1, <2>2 DEF Fresh, State, AuthStates, Modes
<1>13. SoundMenus(fresh)
  BY <1>9, <1>10, <1>11 DEF SoundMenus
<1>14. /\ chosen \in State /\ SameScreen(fresh, chosen) /\ chosen.settings = settings
       /\ SoundMenus(chosen) /\ Usable(chosen.choice, chosen)
  <2>1. PICK choice : choice = Fallback(fresh)
    OBVIOUS
  <2>2. choice \in Choice /\ Usable(choice, fresh)
    BY <1>12, <2>1, FallbackIsUsable
  <2>3. /\ chosen \in State /\ SameScreen(fresh, chosen) /\ chosen.settings = settings
        /\ chosen.users = fresh.users /\ chosen.sessions = fresh.sessions
        /\ chosen.powers = fresh.powers /\ chosen.choice = choice
    BY <1>4, <1>11, <1>12, <2>1, <2>2 DEF State, SameScreen
  <2> QED
    BY <1>11, <1>13, <2>2, <2>3 DEF SoundMenus, Usable, Backed
<1>15. /\ mine \in State /\ SameScreen(chosen, mine) /\ mine.settings = settings
       /\ SoundMenus(mine) /\ Usable(mine.choice, mine)
  BY <1>5, <1>14, RestoreKeeps
<1>16. /\ restored \in State /\ SameScreen(mine, restored) /\ restored.settings = settings
       /\ SoundMenus(restored) /\ Usable(restored.choice, restored)
  BY <1>6, <1>15, RestoreKeeps
<1>17. restored.mode = "Username" /\ Repairable(restored)
  <2>1. /\ restored.auth = "Idle" /\ restored.mode = "Username" /\ restored.prev = "Username"
        /\ restored.typed = None /\ restored.secret = FALSE
    BY <1>11, <1>14, <1>15, <1>16 DEF SameScreen
  <2>2. Staged(restored)
    BY <2>1 DEF Staged, Screens, Popups, AcceptsInput
  <2> QED
    BY <1>16, <2>1, <2>2 DEF Repairable, Usable
<1>18. Inv(ready) /\ ready.settings = settings /\ ready.mode \in Screens
  BY <1>7, <1>16, <1>17, NormalizedInv DEF Screens
<1>19. Inv(Begin(ready)) /\ Begin(ready).settings = settings
  <2>1. Inv(Begin(ready)) /\ ready \in State
    BY <1>18, BeginKeeps DEF Inv
  <2> QED
    BY <1>18, <2>1 DEF Begin, State
<1> QED
  BY <1>8, <1>9, <1>18, <1>19 DEF Init, IInv

(* No step but a reload changes the settings. *)
Stepped(h, r) == Inv(r) /\ r.settings = h.settings

(* The moves that several keys and answers share keep the record in order. *)
LEMMA SteppedMoves ==
  ASSUME NEW h, Inv(h)
  PROVE  /\ h.mode \in Screens =>
              \A selection \in SourceField : Stepped(h, Begin(Restore(h, selection)))
         /\ Stepped(h, Reset(h, FALSE)) /\ Stepped(h, SetAuth(Reset(h, TRUE), "CreatingSession"))
         /\ Stepped(h, Cancel(h)) /\ Stepped(h, CloseEditor(h))
         /\ h.mode \in Popups \ {"Command"} => Stepped(h, ClosePopup(h))
<1>1. h \in State /\ SoundMenus(h) /\ Usable(h.choice, h)
  BY DEF Inv
<1>2. ASSUME NEW r \in State PROVE Begin(r).settings = r.settings
  BY <1>2 DEF Begin, State
<1>3. ASSUME NEW selection \in SourceField, h.mode \in Screens
      PROVE  Stepped(h, Begin(Restore(h, selection)))
  <2>1. Restore(h, selection) \in State /\ Restore(h, selection).settings = h.settings
    BY <1>1, RestoreKeeps
  <2> QED
    BY <1>2, <1>3, <2>1, ValidatedInv DEF Stepped
<1>4. /\ Reset(h, FALSE).settings = h.settings
      /\ SetAuth(Reset(h, TRUE), "CreatingSession").settings = h.settings
      /\ CloseEditor(h).settings = h.settings /\ ClosePopup(h).settings = h.settings
  BY <1>1 DEF Reset, ResetLocal, SetAuth, CloseEditor, CloseOnly, ClosePopup, State
<1> QED
  BY <1>3, <1>4, ResetKeeps, CancelKeeps, CloseKeeps DEF Stepped

(* A popup that the settings and the menus allow may open over any screen. *)
LEMMA OpenKeeps ==
  ASSUME NEW h, Inv(h), AcceptsInput(h.auth), NEW popup \in Popups, NEW typed \in SourceField,
         popup = "Users" => h.settings.menu /\ h.users.options # <<>>,
         popup = "Sessions" => h.sessions.options # <<>>,
         popup = "Power" => h.powers.options # <<>>,
         popup = "Command" => h.settings.editor,
         popup # "Command" => typed = None
  PROVE  Stepped(h, [OpenPopup(h, popup) EXCEPT !.typed = typed])
<1>1. h \in State /\ Staged(h) /\ SoundMenus(h) /\ Usable(h.choice, h)
  BY DEF Inv
<1>2. PICK prev : prev = IF h.mode \in Popups THEN h.prev ELSE h.mode
  OBVIOUS
<1>3. prev \in Screens /\ prev = IF h.auth = "Idle" THEN "Username" ELSE "Password"
  BY <1>1, <1>2 DEF Staged, Screens
<1>4. PICK r : r = [OpenPopup(h, popup) EXCEPT !.typed = typed]
  OBVIOUS
<1>5. r = [h EXCEPT !.mode = popup, !.prev = prev, !.typed = typed]
  BY <1>1, <1>2, <1>4 DEF OpenPopup, State
<1>6. r \in State
  BY <1>1, <1>3, <1>5 DEF State, Popups, Modes, Screens
<1>7. /\ r.choice = h.choice /\ r.users = h.users /\ r.sessions = h.sessions
      /\ r.powers = h.powers /\ r.auth = h.auth /\ r.mode = popup /\ r.prev = prev
      /\ r.secret = h.secret /\ r.typed = typed /\ r.settings = h.settings
  BY <1>1, <1>5 DEF State
<1>8. Staged(r)
  BY <1>1, <1>3, <1>7 DEF Staged, AcceptsInput
<1>9. SoundMenus(r) /\ Usable(r.choice, r) /\ Allowed(r)
  BY <1>1, <1>7 DEF SoundMenus, Usable, Backed, Allowed
<1> QED
  BY <1>4, <1>6, <1>7, <1>8, <1>9 DEF Inv, Stepped

(* Escape: a popup closes, an editor closes, or the login is cancelled.    *)
LEMMA EscapeStep ==
  ASSUME Inv(g), Escape
  PROVE  Stepped(g, g')
<1>1. Stepped(g, g)
  BY DEF Stepped
<1> QED
  BY <1>1, SteppedMoves DEF Escape, Popups

(* The keys that open the editor and the menus.                            *)
LEMMA OpenStep ==
  ASSUME Inv(g), OpenEditor \/ OpenMenu
  PROVE  Stepped(g, g')
<1>1. g \in State /\ Staged(g) /\ AcceptsInput(g.auth)
  BY DEF Inv, OpenEditor, OpenMenu, Accepts
<1>2. CASE OpenEditor
  <2>1. g.settings.editor /\ g' = [OpenPopup(g, "Command") EXCEPT !.typed = CommandOf(g)]
    BY <1>2 DEF OpenEditor
  <2>2. CommandOf(g) \in SourceField
    BY <1>1, CommandOfType
  <2> QED
    BY <1>1, <2>1, <2>2, OpenKeeps DEF Popups
<1>3. CASE OpenMenu
  <2>1. PICK h : h = CloseEditor(g)
    OBVIOUS
  <2>2. Inv(h) /\ h.settings = g.settings /\ h.mode # "Command"
    BY <2>1, SteppedMoves, CloseKeeps DEF Stepped
  <2>3. h \in State /\ Staged(h)
    BY <2>2 DEF Inv
  <2>4. h.typed = None
    BY <2>2, <2>3 DEF Staged
  <2>5. AcceptsInput(h.auth) /\ h.sessions = g.sessions /\ h.powers = g.powers
    BY <1>1, <2>1 DEF CloseEditor, CloseOnly, State
  <2>6. PICK popup \in {"Sessions", "Power"} :
          /\ g' = OpenPopup(h, popup)
          /\ popup = "Sessions" => g.sessions.options # <<>>
          /\ popup = "Power" => g.powers.options # <<>>
    BY <1>3, <2>1 DEF OpenMenu
  <2>7. g' = [OpenPopup(h, popup) EXCEPT !.typed = None]
    BY <2>3, <2>4, <2>6 DEF OpenPopup, State
  <2>8. Stepped(h, g')
    BY <2>2, <2>5, <2>6, <2>7, OpenKeeps DEF Popups, SourceField
  <2> QED
    BY <2>2, <2>8 DEF Stepped
<1> QED
  BY <1>2, <1>3

(* Editing a field changes nothing but that field. *)
LEMMA EditStep ==
  ASSUME Inv(g), machine \in Machines, Edit
  PROVE  Stepped(g, g')
<1>1. g \in State /\ Staged(g) /\ AcceptsInput(g.auth)
  BY DEF Inv, Edit, Accepts
<1>2. Name \subseteq UserField
  BY MenusAssumption DEF Name, UserField
<1>3. PICK user \in UserField, typed \in SourceField, secret \in BOOLEAN :
        /\ g' = [g EXCEPT !.user = user, !.typed = typed, !.secret = secret]
        /\ typed = g.typed \/ g.mode = "Command"
        /\ secret = g.secret \/ g.mode = "Password"
  <2>0. g.user \in UserField /\ g.typed \in SourceField /\ g.secret \in BOOLEAN
    BY <1>1, Fields
  <2>1. CASE g.mode = "Username" /\ \E user \in Name : g' = [g EXCEPT !.user = user]
    <3>1. PICK user \in Name : g' = [g EXCEPT !.user = user]
      BY <2>1
    <3>2. g' = [g EXCEPT !.user = user, !.typed = g.typed, !.secret = g.secret]
      BY <1>1, <3>1 DEF State
    <3> QED
      BY <1>2, <2>0, <3>2
  <2>2. CASE g.mode = "Password" /\ \E secret \in BOOLEAN : g' = [g EXCEPT !.secret = secret]
    <3>1. PICK secret \in BOOLEAN : g' = [g EXCEPT !.secret = secret]
      BY <2>2
    <3>2. g' = [g EXCEPT !.user = g.user, !.typed = g.typed, !.secret = secret]
      BY <1>1, <3>1 DEF State
    <3> QED
      BY <2>0, <2>2, <3>2
  <2>3. CASE g.mode = "Command" /\ \E typed \in SourceField : g' = [g EXCEPT !.typed = typed]
    <3>1. PICK typed \in SourceField : g' = [g EXCEPT !.typed = typed]
      BY <2>3
    <3>2. g' = [g EXCEPT !.user = g.user, !.typed = typed, !.secret = g.secret]
      BY <1>1, <3>1 DEF State
    <3> QED
      BY <2>0, <2>3, <3>2
  <2> QED
    BY <2>1, <2>2, <2>3 DEF Edit
<1>4. g' \in State
  BY <1>1, <1>3 DEF State
<1>5. /\ g'.choice = g.choice /\ g'.users = g.users /\ g'.sessions = g.sessions
      /\ g'.powers = g.powers /\ g'.auth = g.auth /\ g'.mode = g.mode /\ g'.prev = g.prev
      /\ g'.secret = secret /\ g'.typed = typed /\ g'.settings = g.settings
  BY <1>1, <1>3 DEF State
<1>6. Staged(g')
  BY <1>1, <1>3, <1>5 DEF Staged, AcceptsInput, Popups
<1> QED
  BY <1>4, <1>5, <1>6, Kept DEF Stepped

(* The highlight moves among the entries. *)
LEMMA MovedIsSound ==
  ASSUME NEW items, NEW menu \in Menu(items), Sound(menu), NEW new \in Moved(menu)
  PROVE  new \in Menu(items) /\ Sound(new) /\ new.options = menu.options
<1>1. menu = [options |-> menu.options, selected |-> menu.selected] /\ menu.options \in Seq(items)
  BY DEF Menu
<1>2. PICK i \in DOMAIN menu.options : new = [menu EXCEPT !.selected = i]
  BY DEF Moved
<1>3. i \in Nat \ {0} /\ new = [options |-> menu.options, selected |-> i]
  BY <1>1, <1>2
<1> QED
  BY <1>1, <1>2, <1>3 DEF Menu, Sound

(* The arrow keys move the highlight within the open menu.                 *)
LEMMA MoveStep ==
  ASSUME Inv(g), MoveHighlight
  PROVE  Stepped(g, g')
<1>1. g \in State /\ SoundMenus(g) /\ Staged(g) /\ Usable(g.choice, g) /\ Allowed(g)
  BY DEF Inv
<1>2. /\ g.users \in Menu(Users) /\ g.sessions \in Menu(Sessions) /\ g.powers \in Menu(Powers)
      /\ Sound(g.users) /\ Sound(g.sessions) /\ Sound(g.powers)
  BY <1>1, Fields DEF SoundMenus
<1>3. \E users \in Menu(Users), sessions \in Menu(Sessions), powers \in Menu(Powers) :
        /\ g' = [g EXCEPT !.users = users, !.sessions = sessions, !.powers = powers]
        /\ Sound(users) /\ Sound(sessions) /\ Sound(powers)
        /\ users.options = g.users.options /\ sessions.options = g.sessions.options
        /\ powers.options = g.powers.options
  <2>1. CASE \E menu \in Moved(g.users) : g' = [g EXCEPT !.users = menu]
    <3>1. PICK menu \in Moved(g.users) : g' = [g EXCEPT !.users = menu]
      BY <2>1
    <3>2. menu \in Menu(Users) /\ Sound(menu) /\ menu.options = g.users.options
      BY <1>2, MovedIsSound
    <3>3. g' = [g EXCEPT !.users = menu, !.sessions = g.sessions, !.powers = g.powers]
      BY <1>1, <3>1 DEF State
    <3> QED
      BY <1>2, <3>2, <3>3
  <2>2. CASE \E menu \in Moved(g.sessions) : g' = [g EXCEPT !.sessions = menu]
    <3>1. PICK menu \in Moved(g.sessions) : g' = [g EXCEPT !.sessions = menu]
      BY <2>2
    <3>2. menu \in Menu(Sessions) /\ Sound(menu) /\ menu.options = g.sessions.options
      BY <1>2, MovedIsSound
    <3>3. g' = [g EXCEPT !.users = g.users, !.sessions = menu, !.powers = g.powers]
      BY <1>1, <3>1 DEF State
    <3> QED
      BY <1>2, <3>2, <3>3
  <2>3. CASE \E menu \in Moved(g.powers) : g' = [g EXCEPT !.powers = menu]
    <3>1. PICK menu \in Moved(g.powers) : g' = [g EXCEPT !.powers = menu]
      BY <2>3
    <3>2. menu \in Menu(Powers) /\ Sound(menu) /\ menu.options = g.powers.options
      BY <1>2, MovedIsSound
    <3>3. g' = [g EXCEPT !.users = g.users, !.sessions = g.sessions, !.powers = menu]
      BY <1>1, <3>1 DEF State
    <3> QED
      BY <1>2, <3>2, <3>3
  <2> QED
    BY <2>1, <2>2, <2>3 DEF MoveHighlight
<1>4. PICK users \in Menu(Users), sessions \in Menu(Sessions), powers \in Menu(Powers) :
        /\ g' = [g EXCEPT !.users = users, !.sessions = sessions, !.powers = powers]
        /\ Sound(users) /\ Sound(sessions) /\ Sound(powers)
        /\ users.options = g.users.options /\ sessions.options = g.sessions.options
        /\ powers.options = g.powers.options
  BY <1>3
<1>5. g' \in State
  BY <1>1, <1>4 DEF State
<1>6. /\ SameScreen(g, g') /\ g'.settings = g.settings /\ g'.choice = g.choice
      /\ g'.users = users /\ g'.sessions = sessions /\ g'.powers = powers
  BY <1>1, <1>4 DEF State, SameScreen
<1>7. Staged(g')
  BY <1>1, <1>6 DEF Staged, SameScreen
<1>8. SoundMenus(g') /\ Usable(g'.choice, g') /\ Allowed(g')
  BY <1>1, <1>4, <1>6 DEF SoundMenus, Usable, Backed, Allowed, SameScreen
<1> QED
  BY <1>5, <1>6, <1>7, <1>8 DEF Inv, Stepped

(* Enter and Tab on the username. *)
LEMMA UsernameStep ==
  ASSUME Inv(g), Complete \/ EnterUsername
  PROVE  Stepped(g, g')
<1>1. /\ g \in State /\ Staged(g) /\ AcceptsInput(g.auth) /\ g.mode = "Username"
      /\ g.mode \in Screens
  BY DEF Inv, Complete, EnterUsername, Accepts, Screens
<1>2. Validate(g) => Stepped(g, g')
  BY <1>1, SteppedMoves DEF Validate
<1>3. CASE Complete
  <2>1. CASE Validate(g)
    BY <1>2, <2>1
  <2>2. CASE ~Validate(g)
    <3>1. PICK user \in Listed(g.users) : g' = [g EXCEPT !.user = user]
      BY <1>3, <2>2 DEF Complete
    <3>2. user \in UserField
      BY <1>1, Fields DEF Listed, Menu, UserField
    <3>3. g' \in State
      BY <1>1, <3>1, <3>2 DEF State
    <3>4. /\ SameScreen(g, g') /\ g'.settings = g.settings /\ g'.choice = g.choice
          /\ g'.users = g.users /\ g'.sessions = g.sessions /\ g'.powers = g.powers
      BY <1>1, <3>1 DEF State, SameScreen
    <3>5. Staged(g')
      BY <1>1, <3>4 DEF Staged, SameScreen
    <3> QED
      BY <3>3, <3>4, <3>5, Kept DEF Stepped, SameScreen
  <2> QED
    BY <2>1, <2>2
<1>4. CASE EnterUsername
  <2>1. CASE g.user # None
    BY <1>2, <1>4, <2>1 DEF EnterUsername
  <2>2. CASE g.user = None
    <3>1. g.settings.menu /\ g.users.options # <<>> /\ g' = OpenPopup(g, "Users")
      BY <1>4, <2>2 DEF EnterUsername
    <3>2. g.typed = None
      BY <1>1 DEF Staged
    <3>3. g' = [OpenPopup(g, "Users") EXCEPT !.typed = None]
      BY <1>1, <3>1, <3>2 DEF OpenPopup, State
    <3> QED
      BY <1>1, <3>1, <3>3, OpenKeeps DEF Popups, SourceField
  <2> QED
    BY <2>1, <2>2
<1> QED
  BY <1>3, <1>4

(* An answer is handed over, and the secret leaves the buffer.             *)
LEMMA PasswordStep ==
  ASSUME Inv(g), EnterPassword
  PROVE  Stepped(g, g')
<1>1. g \in State /\ Staged(g) /\ g.mode = "Password"
  BY DEF Inv, EnterPassword
<1>2. g' = [g EXCEPT !.auth = "ContinuingAuth", !.secret = FALSE]
  BY DEF EnterPassword
<1>3. g' \in State
  BY <1>1, <1>2 DEF State, AuthStates
<1>4. /\ g'.choice = g.choice /\ g'.users = g.users /\ g'.sessions = g.sessions
      /\ g'.powers = g.powers /\ g'.auth = "ContinuingAuth" /\ g'.mode = g.mode
      /\ g'.prev = g.prev /\ g'.secret = FALSE /\ g'.typed = g.typed
      /\ g'.settings = g.settings
  BY <1>1, <1>2 DEF State
<1>5. Staged(g')
  BY <1>1, <1>4 DEF Staged, Screens, AcceptsInput
<1> QED
  BY <1>3, <1>4, <1>5, Kept DEF Stepped

(* A typed command is chosen, and the editor closes.                       *)
LEMMA CommandStep ==
  ASSUME Inv(g), EnterCommand
  PROVE  Stepped(g, g')
<1>1. /\ g \in State /\ Staged(g) /\ SoundMenus(g) /\ Usable(g.choice, g) /\ Allowed(g)
      /\ g.mode = "Command" /\ g.settings.editor
  BY DEF Inv, EnterCommand, Allowed
<1>2. g.typed \in Sources
  BY <1>1, Fields DEF EnterCommand, SourceField
<1>3. PICK command : command = Command(g.typed)
  OBVIOUS
<1>4. command \in Choice /\ Usable(command, g)
  BY <1>1, <1>2, <1>3, CommandFacts DEF Usable, Backed
<1>5. PICK sessions : sessions = [g.sessions EXCEPT !.selected = 1]
  OBVIOUS
<1>6. sessions \in Menu(Sessions) /\ Sound(sessions) /\ sessions.options = g.sessions.options
  <2>1. g.sessions \in Menu(Sessions) /\ Sound(g.sessions)
    BY <1>1, Fields DEF SoundMenus
  <2>2. sessions = [options |-> g.sessions.options, selected |-> 1]
        /\ g.sessions.options \in Seq(Sessions)
    BY <1>5, <2>1 DEF Menu
  <2>3. sessions.options # <<>> => 1 \in DOMAIN sessions.options
    BY <2>2
  <2> QED
    BY <2>1, <2>2, <2>3 DEF Menu, Sound
<1>7. PICK h : h = [g EXCEPT !.sessions.selected = 1, !.choice = Command(g.typed)]
  OBVIOUS
<1>8. h = [g EXCEPT !.sessions = sessions, !.choice = command]
  BY <1>1, <1>3, <1>5, <1>7 DEF State
<1>9. h \in State
  BY <1>1, <1>4, <1>6, <1>8 DEF State
<1>10. /\ SameScreen(g, h) /\ h.settings = g.settings /\ h.choice = command
       /\ h.users = g.users /\ h.sessions = sessions /\ h.powers = g.powers
  BY <1>1, <1>8 DEF State, SameScreen
<1>11. Inv(h)
  <2>1. SoundMenus(h) /\ Usable(h.choice, h) /\ Allowed(h)
    BY <1>1, <1>4, <1>6, <1>10 DEF SoundMenus, Usable, Backed, Allowed, SameScreen
  <2>2. Staged(h)
    BY <1>1, <1>10 DEF Staged, SameScreen
  <2> QED
    BY <1>9, <2>1, <2>2 DEF Inv
<1>12. g' = CloseEditor(h)
  BY <1>1, <1>7 DEF EnterCommand
<1> QED
  BY <1>10, <1>11, <1>12, SteppedMoves DEF Stepped

(* Enter on an entry of a menu closes the popup and takes the entry. *)
LEMMA MenuStep ==
  ASSUME Inv(g), EnterUser \/ EnterSession \/ EnterPower
  PROVE  Stepped(g, g')
<1>1. /\ g \in State /\ SoundMenus(g) /\ g.mode \in Popups \ {"Command"}
  BY DEF Inv, EnterUser, EnterSession, EnterPower, Popups
<1>2. PICK h : h = ClosePopup(g)
  OBVIOUS
<1>3. Inv(h) /\ Stepped(g, h) /\ h.mode \in Screens /\ h.sessions = g.sessions
  BY <1>1, <1>2, CloseKeeps, SteppedMoves DEF ClosePopup, State
<1>4. /\ h \in State /\ SoundMenus(h) /\ Staged(h) /\ Usable(h.choice, h) /\ Allowed(h)
      /\ h.settings = g.settings
  BY <1>3 DEF Inv, Stepped
<1>5. CASE EnterUser /\ Highlighted(g.users) # None
  <2>1. PICK user : user = Highlighted(g.users)
    OBVIOUS
  <2>2. user \in UserField
    BY <1>1, <1>5, <2>1, HighlightIsEntry, NoneFacts, Fields DEF UserField
  <2>3. PICK i : i = [h EXCEPT !.user = user]
    OBVIOUS
  <2>4. i \in State
    BY <1>4, <2>2, <2>3 DEF State
  <2>5. /\ SameScreen(h, i) /\ i.settings = h.settings /\ i.choice = h.choice
        /\ i.users = h.users /\ i.sessions = h.sessions /\ i.powers = h.powers
    BY <1>4, <2>3 DEF State, SameScreen
  <2>6. Staged(i)
    BY <1>4, <2>5 DEF Staged, SameScreen
  <2>7. Inv(i) /\ i.mode \in Screens
    BY <1>3, <2>4, <2>5, <2>6, Kept DEF SameScreen
  <2>8. Validate(i)
    BY <1>2, <1>5, <2>1, <2>3 DEF EnterUser
  <2>9. Stepped(i, g')
    BY <2>7, <2>8, SteppedMoves DEF Validate
  <2> QED
    BY <1>4, <2>5, <2>9 DEF Stepped
<1>6. CASE EnterSession /\ Highlighted(g.sessions) # None
  <2>1. g.sessions.selected \in DOMAIN g.sessions.options /\ g.sessions.selected \in Nat \ {0}
    BY <1>1, <1>6, Fields DEF Highlighted, Menu
  <2>2. PICK choice : choice = Session(g.sessions.selected)
    OBVIOUS
  <2>3. choice \in Choice /\ Usable(choice, h)
    BY <1>3, <2>1, <2>2, SessionFacts DEF Usable, Backed
  <2>4. g' = [h EXCEPT !.choice = choice]
    BY <1>2, <1>6, <2>2 DEF EnterSession
  <2>5. g' \in State /\ OnlyChoice(h, g') /\ g'.choice = choice
    BY <1>4, <2>3, <2>4, OtherChoice
  <2>6. Staged(g') /\ Usable(g'.choice, g') /\ Allowed(g') /\ SoundMenus(g')
    BY <1>4, <2>3, <2>5 DEF Staged, Usable, Backed, Allowed, SoundMenus, OnlyChoice, SameScreen
  <2> QED
    BY <1>4, <2>5, <2>6 DEF Inv, Stepped, OnlyChoice
<1>7. CASE g' = h
  BY <1>3, <1>7
<1> QED
  BY <1>2, <1>5, <1>6, <1>7 DEF EnterUser, EnterSession, EnterPower

-----------------------------------------------------------------------------
(* greetd's answers *)

(* Questions, messages and the success of a login in progress.             *)
LEMMA AnswerStep ==
  ASSUME Inv(g), Prompt \/ Message \/ Authenticated
  PROVE  Stepped(g, g')
<1>1. /\ g \in State /\ Staged(g) /\ g.auth \in {"CreatingSession", "ContinuingAuth"}
      /\ g.mode \in Screens /\ g.secret = FALSE /\ g.typed = None
  <2>1. g \in State /\ Staged(g) /\ g.auth \in {"CreatingSession", "ContinuingAuth"}
    BY DEF Inv, Prompt, Message, Authenticated, Awaits
  <2> QED
    BY <2>1, Fields DEF Staged, Screens
<1>2. Stepped(g, Cancel(g))
  BY SteppedMoves
<1>3. \/ g' = Cancel(g)
      \/ \E auth \in AuthStates, mode \in Modes, prev \in Modes, pending \in SourceField :
           /\ g' = [g EXCEPT !.auth = auth, !.mode = mode, !.prev = prev, !.pending = pending]
           /\ prev \in Screens
           /\ \/ auth = "AwaitingInput" /\ mode = "Password"
              \/ auth = "ContinuingAuth" /\ mode \in Screens
              \/ auth = "StartingSession" /\ mode = "Processing"
  <2>0. /\ g.mode \in Modes /\ g.prev \in Modes /\ g.prev \in Screens /\ g.pending \in SourceField
        /\ Launch(g) \in SourceField
    BY <1>1, Fields, CommandOfType DEF Staged
  <2>1. CASE Prompt
    <3>1. g' = [g EXCEPT !.mode = "Password", !.prev = "Password", !.auth = "AwaitingInput"]
      BY <2>1 DEF Prompt
    <3>2. g' = [g EXCEPT !.auth = "AwaitingInput", !.mode = "Password", !.prev = "Password",
                         !.pending = g.pending]
      BY <1>1, <3>1 DEF State
    <3> QED
      BY <2>0, <3>2 DEF AuthStates, Modes, Screens
  <2>2. CASE Message
    <3>1. \/ g' = [g EXCEPT !.auth = "ContinuingAuth", !.mode = g.mode, !.prev = g.prev,
                            !.pending = g.pending]
          \/ g' = [g EXCEPT !.auth = "ContinuingAuth", !.mode = "Action", !.prev = g.mode,
                            !.pending = g.pending]
      BY <1>1, <2>2 DEF Message, State
    <3> QED
      BY <1>1, <2>0, <3>1 DEF AuthStates, Modes, Screens
  <2>3. CASE Authenticated
    <3>1. CASE Launch(g) = None
      BY <2>3, <3>1 DEF Authenticated
    <3>2. CASE Launch(g) # None
      <4>1. g' = [g EXCEPT !.mode = "Processing", !.auth = "StartingSession",
                           !.pending = Launch(g)]
        BY <2>3, <3>2 DEF Authenticated
      <4>2. g' = [g EXCEPT !.auth = "StartingSession", !.mode = "Processing", !.prev = g.prev,
                           !.pending = Launch(g)]
        BY <1>1, <4>1 DEF State
      <4> QED
        BY <2>0, <4>2 DEF AuthStates, Modes, Screens
    <3> QED
      BY <3>1, <3>2
  <2> QED
    BY <2>1, <2>2, <2>3
<1>4. ASSUME NEW auth \in AuthStates, NEW mode \in Modes, NEW prev \in Modes,
             NEW pending \in SourceField,
             g' = [g EXCEPT !.auth = auth, !.mode = mode, !.prev = prev, !.pending = pending],
             prev \in Screens,
             \/ auth = "AwaitingInput" /\ mode = "Password"
             \/ auth = "ContinuingAuth" /\ mode \in Screens
             \/ auth = "StartingSession" /\ mode = "Processing"
      PROVE  Stepped(g, g')
  <2>1. g' \in State
    BY <1>1, <1>4 DEF State
  <2>2. /\ g'.choice = g.choice /\ g'.users = g.users /\ g'.sessions = g.sessions
        /\ g'.powers = g.powers /\ g'.auth = auth /\ g'.mode = mode
        /\ g'.prev = prev /\ g'.secret = FALSE /\ g'.typed = None
        /\ g'.settings = g.settings
    BY <1>1, <1>4 DEF State
  <2>3. g'.mode \notin Popups
    BY <1>4, <2>2 DEF Screens, Popups
  <2>4. Staged(g')
    BY <1>4, <2>2, <2>3 DEF Staged, AcceptsInput
  <2> QED
    BY <2>1, <2>2, <2>3, <2>4, Kept DEF Stepped
<1> QED
  BY <1>2, <1>3, <1>4

(* Failures and finished cancellations reset the conversation.             *)
LEMMA EndStep ==
  ASSUME Inv(g), AuthError \/ Error \/ FinishCancellation
  PROVE  Stepped(g, g')
BY SteppedMoves DEF AuthError, Error, FinishCancellation

(* Every key and every answer keeps the record in order; so does a reload, *)
(* which may also change the settings.                                     *)
LEMMA StepInv ==
  ASSUME IInv, [Next]_vars
  PROVE  IInv'
<1>1. Inv(g) /\ g.settings \in machine.settings /\ machine \in Machines /\ turn \in BOOLEAN
  BY DEF IInv
<1>2. Stepped(g, g') /\ machine' = machine /\ turn' = turn => IInv'
  BY <1>1 DEF IInv, Stepped
<1>3. CASE Key
  <2>1. machine' = machine /\ turn' = turn
    BY <1>3 DEF Key, Escape, Edit, OpenEditor, OpenMenu, MoveHighlight, Complete, EnterUsername,
                EnterPassword, EnterCommand, EnterUser, EnterSession, EnterPower, Accepts
  <2>2. Stepped(g, g')
    BY <1>1, <1>3, EscapeStep, EditStep, OpenStep, MoveStep, UsernameStep, PasswordStep,
       CommandStep, MenuStep DEF Key
  <2> QED
    BY <1>2, <2>1, <2>2
<1>4. CASE Conversation
  <2>1. machine' = machine /\ turn' = turn
    BY <1>4 DEF Conversation, Prompt, Message, Authenticated, AuthError, Error,
                FinishCancellation, Awaits, Answering
  <2>2. Stepped(g, g')
    BY <1>1, <1>4, AnswerStep, EndStep DEF Conversation
  <2> QED
    BY <1>2, <2>1, <2>2
<1>5. CASE Reload
  <2>1. PICK plan \in Plan(g.settings) : g' = ApplyReload(g, plan)
    BY <1>5 DEF Reload
  <2>2. Inv(g') /\ g'.settings \in machine.settings
    BY <1>1, <2>1, ReloadedInv
  <2>3. machine' = machine /\ turn' \in BOOLEAN
    BY <1>1, <1>5 DEF Reload
  <2> QED
    BY <1>1, <2>2, <2>3 DEF IInv
<1>6. CASE UNCHANGED vars
  BY <1>1, <1>6 DEF IInv, vars
<1> QED
  BY <1>3, <1>4, <1>5, <1>6 DEF Next

(* The record is in order in every state.                                  *)
LEMMA Invariance == Spec => []IInv
BY InitInv, StepInv, PTL DEF Spec

-----------------------------------------------------------------------------
(* Every field of the greeter, the machine and the turn keep their types,  *)
(* for every set of users, sessions, commands and settings.                *)
THEOREM TypeCorrect == Spec => []TypeOK
<1>1. IInv => TypeOK
  <2> SUFFICES ASSUME IInv PROVE TypeOK
    OBVIOUS
  <2>1. g \in State /\ g.settings \in machine.settings /\ machine \in Machines /\ turn \in BOOLEAN
    BY DEF IInv, Inv
  <2> QED
    BY <2>1, Fields DEF TypeOK
<1> QED
  BY <1>1, Invariance, PTL

(* What would be launched is always there and always allowed, and an open  *)
(* popup is allowed and has a highlighted entry, whatever is typed,        *)
(* answered, cancelled and reloaded in between (apply_reload,              *)
(* normalize_derived_state).                                               *)
THEOREM ChoicesHold == Spec => []ChoicesAreUsable
<1>1. IInv => ChoicesAreUsable
  <2> SUFFICES ASSUME IInv PROVE ChoicesAreUsable
    OBVIOUS
  <2>1. g \in State /\ SoundMenus(g) /\ Usable(g.choice, g) /\ Allowed(g)
    BY DEF IInv, Inv
  <2>2. /\ g.users.options # <<>> => Highlighted(g.users) # None
        /\ g.sessions.options # <<>> => Highlighted(g.sessions) # None
        /\ g.powers.options # <<>> => Highlighted(g.powers) # None
    BY <2>1, Fields, HighlightIsEntry, NoneFacts DEF SoundMenus
  <2> QED
    BY <2>1, <2>2 DEF ChoicesAreUsable, Usable, Backed, Allowed
<1> QED
  BY <1>1, Invariance, PTL

(* Behind any stack of popups is the screen of the conversation, and       *)
(* secrets and typed commands do not outlive their prompts (previous_mode, *)
(* scrub, close_command_editor).                                           *)
THEOREM ConversationStays == Spec => []ConversationIsShown
<1>1. IInv => ConversationIsShown
  BY DEF IInv, Inv, Staged, ConversationIsShown
<1> QED
  BY <1>1, Invariance, PTL

(* Only a reload flips the turn. *)
LEMMA ReloadTurns ==
  ASSUME IInv, Next, turn' # turn
  PROVE  /\ Stays(g.users, g'.users) /\ Stays(g.sessions, g'.sessions)
         /\ Stays(g.powers, g'.powers)
         /\ Survives(g, g') /\ g'.settings.command \in {g.settings.command, None}
              => CommandOf(g') = CommandOf(g)
<1>1. Reload
  BY DEF Next, Key, Escape, Edit, OpenEditor, OpenMenu, MoveHighlight, Complete, EnterUsername,
         EnterPassword, EnterCommand, EnterUser, EnterSession, EnterPower, Accepts,
         Conversation, Prompt, Message, Authenticated, AuthError, Error,
         FinishCancellation, Awaits, Answering
<1>2. PICK plan \in Plan(g.settings) : g' = ApplyReload(g, plan)
  BY <1>1 DEF Reload
<1> QED
  BY <1>2, ReloadedInv DEF IInv

(* A reload keeps the chosen source unless the source is gone or another   *)
(* command is configured, in whatever order the menu comes (apply_reload). *)
THEOREM ChoiceSurvives == Spec => ReloadKeepsChoice
<1>1. IInv /\ [Next]_vars =>
        [turn' # turn /\ SourceStays(g') /\ g'.settings.command \in {g.settings.command, None}
           => CommandOf(g') = CommandOf(g)]_vars
  <2> SUFFICES ASSUME IInv, Next, turn' # turn, SourceStays(g'),
                      g'.settings.command \in {g.settings.command, None}
               PROVE  CommandOf(g') = CommandOf(g)
    OBVIOUS
  <2>1. Survives(g, g')
    BY DEF SourceStays, Survives
  <2> QED
    BY <2>1, ReloadTurns
<1> QED
  BY <1>1, Invariance, PTL DEF Spec, ReloadKeepsChoice

(* A reload leaves the highlights on their entries as long as these are    *)
(* listed (apply_reload).                                                  *)
THEOREM HighlightSurvives == Spec => HighlightStays
<1>1. IInv /\ [Next]_vars =>
        [turn' # turn =>
           \A menu \in {"users", "sessions", "powers"} :
             Highlighted(g[menu]) \in Listed(g'[menu])
               => Highlighted(g'[menu]) = Highlighted(g[menu])]_vars
  <2> SUFFICES ASSUME IInv, Next, turn' # turn, NEW menu \in {"users", "sessions", "powers"},
                      Highlighted(g[menu]) \in Listed(g'[menu])
               PROVE  Highlighted(g'[menu]) = Highlighted(g[menu])
    OBVIOUS
  <2> QED
    BY ReloadTurns DEF Stays
<1> QED
  BY <1>1, Invariance, PTL DEF Spec, HighlightStays
=============================================================================
