------------------------------ MODULE ConsoleMC ------------------------------
(***************************************************************************)
(* Instances of Console for TLC.                                           *)
(***************************************************************************)
EXTENDS Console
=============================================================================
