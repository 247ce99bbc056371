------------------------------- MODULE ScreenMC -------------------------------
(***************************************************************************)
(* Screen for TLC.                                                         *)
(***************************************************************************)
EXTENDS Screen
=============================================================================
