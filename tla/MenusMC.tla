------------------------------- MODULE MenusMC -------------------------------
(***************************************************************************)
(* Menus for TLC: a machine whose sessions and commands can change, and    *)
(* one whose users and power actions can.                                  *)
(***************************************************************************)
EXTENDS Menus

CONSTANTS ann, bob, sway, gnome, shell, htop, halt, reboot

(* Sessions are sorted by a name that an update may change; users are      *)
(* sorted by their user name, so they only come and go.                    *)
Orders(a, b) == {<<>>, <<a>>, <<b>>, <<a, b>>, <<b, a>>}

AllSources == Sessions \cup Commands

(* Sessions and commands that come and go, for one user; and users and     *)
(* power actions that do, with one session.                                *)
Workshop ==
  [names |-> {ann}, sessions |-> Orders(sway, gnome), users |-> {<<ann>>}, powers |-> {<<halt>>},
   settings |-> [command : {None, shell, htop}, editor : BOOLEAN, menu : {TRUE},
                 complete : {FALSE}]]
Lobby ==
  [names |-> {ann, bob}, sessions |-> {<<sway>>},
   users |-> {<<>>, <<ann>>, <<bob>>, <<ann, bob>>}, powers |-> {<<>>, <<reboot>>, <<halt, reboot>>},
   settings |-> [command : {None}, editor : {FALSE}, menu : BOOLEAN, complete : BOOLEAN]]

BothMachines == {Workshop, Lobby}
=============================================================================
