-------------------------------- MODULE CacheMC --------------------------------
(***************************************************************************)
(* Cache for TLC: one user, a desktop entry and a free-form command, and   *)
(* the files of the old version for the last user and the user's session.  *)
(***************************************************************************)
EXTENDS Cache, TLC

CONSTANTS alice, desktop, command
MCUser == {alice}
MCSelection == {desktop, command}
MCCommand == {command}
MCLegacy == [t \in Slot |-> IF t = Last THEN alice ELSE IF t = alice THEN desktop ELSE None]
MCPolicy == {{Last, alice}}
AnyGreeter == Permutations(Greeter)
=============================================================================
