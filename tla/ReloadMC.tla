------------------------------- MODULE ReloadMC -------------------------------
(***************************************************************************)
(* Instances of Reload for TLC: contents that list session directories,    *)
(* contents that do not, and contents that do not parse.                   *)
(***************************************************************************)
EXTENDS Reload
=============================================================================
