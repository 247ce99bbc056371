------------------------------- MODULE Greeter -------------------------------
(***************************************************************************)
(* The part of `struct Greeter` that the login conversation reads and      *)
(* writes, as a record g, and the methods that change it, as functions     *)
(* from record to record.  Every caller of these methods holds the write   *)
(* lock of the shared Greeter, so a method is one atomic change.           *)
(*                                                                         *)
(*   g.auth    the AuthState tag (src/ipc.rs)                              *)
(*   g.pending what AuthState::StartingSession carries, None elsewhere     *)
(*   g.mode, g.prev   the screen and the one behind a popup                *)
(*   g.user    the username field, None when empty                         *)
(*   g.source  the launch source launch_command() resolves, None when it   *)
(*             resolves to nothing                                         *)
(*   g.remember   whether the remember settings are on                     *)
(***************************************************************************)
EXTENDS FiniteSets

CONSTANTS
  Users,         (* usernames                                               *)
  Sources,       (* launch sources that resolve to a non-blank command      *)
  Rememberable,  (* the sources a cache entry can name: desktop sessions    *)
                 (* and, with the editor enabled, typed commands            *)
  None           (* nothing: the empty username field, no launch source ... *)

ASSUME GreeterAssumption ==
  /\ None \notin Users
  /\ None \notin Sources
  /\ Rememberable \subseteq Sources

AuthStates == {"Idle", "CreatingSession", "AwaitingInput", "ContinuingAuth",
               "StartingSession", "Cancelling", "Started", "Failed"}

Popups == {"Users", "Sessions", "Command", "Power"}
Modes  == {"Username", "Password", "Action", "Processing"} \cup Popups

(* AuthState::accepts_input, is_waiting, can_cancel, is_live_prestart. *)
AcceptsInput(auth)   == auth \in {"Idle", "AwaitingInput"}
IsWaiting(auth)      == auth \in {"CreatingSession", "ContinuingAuth",
                                  "StartingSession", "Cancelling"}
CanCancel(auth)      == auth \in {"CreatingSession", "AwaitingInput", "ContinuingAuth"}
IsLivePrestart(auth) == CanCancel(auth) \/ auth = "Cancelling"

UserField   == Users \cup {None}
SourceField == Sources \cup {None}

(* PendingSession and CachePolicy, captured together. *)
Pending == [user : UserField, source : Sources, remember : BOOLEAN]

GreeterRecord ==
  [auth : AuthStates, pending : Pending \cup {None}, mode : Modes, prev : Modes,
   user : UserField, source : SourceField, remember : BOOLEAN]

SetAuth(g, auth) == [g EXCEPT !.auth = auth, !.pending = None]

(* Greeter::reset_local: a soft reset keeps the username. *)
ResetLocal(g, soft) ==
  [g EXCEPT !.auth = "Idle",
            !.pending = None,
            !.mode = IF soft THEN "Password" ELSE "Username",
            !.prev = IF soft THEN "Password" ELSE "Username",
            !.user = IF soft THEN @ ELSE None]

(* Greeter::begin_authentication, for a caller that checked CanBegin. *)
CanBegin(g)            == g.source # None
BeginAuthentication(g) == SetAuth(g, "CreatingSession")

(* Response::Success with a launch command: the Processing screen and the  *)
(* immutable snapshot the acknowledgement will be committed from.          *)
BeginStart(g) ==
  [g EXCEPT !.mode = "Processing",
            !.auth = "StartingSession",
            !.pending = [user |-> g.user, source |-> g.source, remember |-> g.remember]]

(* The popup keys: a popup opened over another one keeps the screen behind.*)
OpenPopup(g, popup) ==
  [g EXCEPT !.mode = popup, !.prev = IF g.mode \in Popups THEN @ ELSE g.mode]
ClosePopup(g) == [g EXCEPT !.mode = g.prev]

(* Greeter::safe_previous_mode *)
SafePreviousMode(g) ==
  IF g.prev \in {"Username", "Password", "Action"} THEN g.prev
  ELSE IF g.auth = "AwaitingInput" THEN "Password" ELSE "Username"

(* prefill_user: a preselected username only fills an empty, idle prompt.   *)
(* Mutation: it fills the username field whatever the screen shows.         *)
FillableAnywhere(g, mode) == TRUE
Fillable(g, mode) == g.user = None /\ mode = "Username" /\ g.auth = "Idle"

(* What Greeter::apply_reload may leave behind: any launch source and       *)
(* remember setting, a popup whose menu vanished closed, and the username   *)
(* filled in.                                                               *)
Reloaded(g) ==
  {r \in [auth : {g.auth}, pending : {g.pending}, prev : {g.prev}, source : SourceField,
          remember : BOOLEAN, user : UserField,
          mode : {g.mode} \cup (IF g.mode \in Popups THEN {SafePreviousMode(g), g.prev} ELSE {})] :
     r.user = g.user \/ Fillable(g, r.mode)}

(* The cache entry build_cache_update derives from the snapshot.            *)
CacheEntry(pending) ==
  [user |-> pending.user,
   source |-> IF pending.source \in Rememberable THEN pending.source ELSE None]
CacheEntries == [user : UserField, source : Rememberable \cup {None}]
=============================================================================
