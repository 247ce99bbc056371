------------------------------- MODULE PowerMC -------------------------------
(***************************************************************************)
(* Instances of Power for TLC: two commands, so that what is left of the   *)
(* first one meets the second.                                             *)
(***************************************************************************)
EXTENDS Power
=============================================================================
