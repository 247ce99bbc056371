-------------------------------- MODULE IpcMC --------------------------------
(***************************************************************************)
(* Instances of Ipc for TLC: two users, so that a request of one login can *)
(* meet the screen of another, and two launch sources of which only one    *)
(* can be remembered.                                                      *)
(***************************************************************************)
EXTENDS Ipc, TLC

(* Two users behave alike. *)
AnyUser == Permutations(Users)
=============================================================================
