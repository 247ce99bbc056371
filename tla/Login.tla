-------------------------------- MODULE Login --------------------------------
(***************************************************************************)
(* What the greeter promises about one run: at most one session is opened, *)
(* only an opened session is remembered, and as it was opened, and the     *)
(* greeter reports success only for an opened session.  Connections,       *)
(* prompts, retries and cancellations do not appear.                       *)
(***************************************************************************)
CONSTANTS
  Accounts,      (* who can log in                                          *)
  Launches,      (* what can be launched                                    *)
  Rememberable,  (* the launches an entry can name                          *)
  Nothing

VARIABLES
  opened,        (* the session that runs, Nothing before                   *)
  remembered,    (* what was remembered, Nothing before                     *)
  outcome        (* how the greeter left, "none" before                     *)

loginVars == <<opened, remembered, outcome>>

Entry(session) ==
  [user |-> session.user,
   source |-> IF session.source \in Rememberable THEN session.source ELSE Nothing]

Init == opened = Nothing /\ remembered = Nothing /\ outcome = "none"

Open ==
  /\ opened = Nothing
  /\ \E a \in Accounts, l \in Launches : opened' = [user |-> a, source |-> l]
  /\ UNCHANGED <<remembered, outcome>>

Remember ==
  /\ opened # Nothing /\ remembered = Nothing
  /\ remembered' = Entry(opened)
  /\ UNCHANGED <<opened, outcome>>

Leave(status) ==
  /\ outcome = "none" /\ outcome' = status
  /\ status = "Success" => opened # Nothing
  /\ UNCHANGED <<opened, remembered>>

Next == Open \/ Remember \/ \E s \in {"Success", "Failure", "Cancel", "Error"} : Leave(s)

Spec == Init /\ [][Next]_loginVars
=============================================================================
