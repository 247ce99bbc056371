------------------------------- MODULE Console -------------------------------
(***************************************************************************)
(* The main loop with a power command in it (src/main.rs): Ipc, composed   *)
(* with the Processing screen that begin_power shows and finish_power      *)
(* takes away.  What happens to the command itself is the subject of       *)
(* Power; here it ends at any time, well or not.                           *)
(***************************************************************************)
EXTENDS Ipc

CONSTANT SourceStays   (* do reloads during a power command leave something *)
                       (* to launch                                         *)

ASSUME ConsoleAssumption == SourceStays \in BOOLEAN

VARIABLES
  power,   (* "none"; "chosen" from the menu; "active" in the supervisor    *)
  saved    (* PowerReturnState::mode                                        *)

powerVars   == <<power, saved>>
consoleVars == <<vars, powerVars>>

ConsoleTypeOK ==
  /\ TypeOK /\ power \in {"none", "chosen", "active"}
  /\ saved \in Modes \cup {None} /\ (saved # None <=> power = "active")

ConsoleInit == Init /\ power = "none" /\ saved = None

(* Enter in the power menu closes it and returns Control::PowerCommand.    *)
ChoosePower ==
  /\ power = "none" /\ Typing /\ g.mode = "Power"
  /\ g' = ClosePopup(g) /\ power' = "chosen"
  /\ UNCHANGED <<queue, generation, saved>>

(* begin_power, in the same iteration of the loop as the key. *)
BeginPower ==
  /\ power = "chosen" /\ power' = "active"
  /\ saved' = g.mode /\ g' = [g EXCEPT !.mode = "Processing"]
  /\ UNCHANGED <<queue, generation, actorVars, greetdVars, mainVars, cache>>

(* finish_power: success leaves the loop without a status, and anything    *)
(* else brings the saved screen back.                                      *)
FinishPower ==
  /\ power = "active" /\ main = "running" /\ power' = "none" /\ saved' = None
  /\ \/ main' = "closing" /\ UNCHANGED g
     \/ main' = main /\ g' = [g EXCEPT !.mode = saved]
  /\ UNCHANGED <<queue, generation, actorVars, greetdVars, controls, shutdown, exit, cache>>

(* While a command is active the keyboard only cancels it.                 *)
OwnKeys == power = "none" /\ Keyboard /\ UNCHANGED powerVars

(* The rest of the loop goes on. *)
Loop ==
  /\ power # "chosen" /\ UNCHANGED powerVars
  /\ \/ Reload /\ (SourceStays /\ power = "active" => g'.source # None)
     \/ TakeControl \/ Terminate \/ ActorEnded \/ StopActor \/ Leave

ConsoleNext ==
  \/ (Actor \/ Greetd \/ Finished) /\ UNCHANGED powerVars
  \/ Loop \/ OwnKeys \/ ChoosePower \/ BeginPower \/ FinishPower

ConsoleSpec == ConsoleInit /\ [][ConsoleNext]_consoleVars

-----------------------------------------------------------------------------
(* Properties *)

(* A password prompt that takes input belongs to a conversation that waits *)
(* for it, not to one that ended while the power command ran: a reload     *)
(* that removes the last launch source cancels it "instead of accepting a  *)
(* password for a session that can no longer be launched" (apply_reload,   *)
(* begin_power, finish_power).                                             *)
PromptIsLive ==
  main = "running" /\ power = "none" /\ g.mode = "Password" /\ AcceptsInput(g.auth)
    => g.auth = "AwaitingInput"
=============================================================================
