------------------------------- MODULE CacheData -------------------------------
(***************************************************************************)
(* What the remembered state is and how a login changes it: CacheState and *)
(* CacheUpdate of cache.rs.  The state is a function from slots: the last  *)
(* user, the selection of everybody and the selection of each user.        *)
(***************************************************************************)
CONSTANTS
  User,          (* usernames                                               *)
  Selection,     (* remembered selections: desktop entries and commands     *)
  Command,       (* those that are free-form commands                       *)
  Last, Global,  (* the slots last_user and global_selection                *)
  Legacy,        (* what the legacy file of each slot comes to: None for a  *)
                 (* command, an unreadable file, a session not installed    *)
  None,          (* nothing                                                 *)
  Corrupt,       (* a state file that version 1 cannot be read from         *)
  Future         (* a state file of a later version                         *)

Slot == {Last, Global} \cup User
Selections == Slot \ {Last}
Value(slot) == (IF slot = Last THEN User ELSE Selection) \cup {None}
CacheState == {s \in [Slot -> User \cup Selection \cup {None}] :
                 \A t \in Slot : s[t] \in Value(t)}
Default == [t \in Slot |-> None]

(* What the name state.json can stand for: None for no file. *)
Content == CacheState \cup {None, Corrupt, Future}

ASSUME CacheAssumption ==
  /\ Command \subseteq Selection
  /\ Last # Global /\ Last \notin User /\ Global \notin User
  /\ None \notin User /\ None \notin Selection
  /\ None # Corrupt /\ None # Future /\ Corrupt # Future
  /\ {None, Corrupt, Future} \cap CacheState = {}
  /\ Legacy \in CacheState
  /\ \A t \in Slot : Legacy[t] \notin Command

RemoveCommands(state) ==
  [t \in Slot |-> IF t \in Selections /\ state[t] \in Command THEN None ELSE state[t]]

(* An update sets the slots of its domain, then may drop every command. *)
Apply(state, update) ==
  LET set == [t \in Slot |-> IF t \in DOMAIN update.set THEN update.set[t] ELSE state[t]]
  IN  IF update.purge THEN RemoveCommands(set) ELSE set

(* CacheUpdate::successful_login; remember holds the slots the policy keeps. *)
SuccessfulLogin(user, selection, remember, allowCommands) ==
  [set   |-> [t \in remember \cap {Last, Global, user} |->
                IF t = Last THEN user
                ELSE IF selection \in Command /\ ~allowCommands THEN None
                ELSE selection],
   purge |-> ~allowCommands]

PurgeCommands == [set |-> [t \in {} |-> None], purge |-> TRUE]

IsNoop(update) == DOMAIN update.set = {} /\ ~update.purge

Updates ==
  {SuccessfulLogin(u, s, r, a) :
     u \in User, s \in Selection \cup {None}, r \in SUBSET Slot, a \in BOOLEAN}
  \cup {PurgeCommands}

(* The state a commit starts from: whatever cannot be used is replaced. *)
Readable(content) == IF content \in CacheState THEN content ELSE Default

Migrated(files) == [t \in Slot |-> IF t \in files THEN Legacy[t] ELSE None]
=============================================================================
