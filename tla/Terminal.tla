------------------------------- MODULE Terminal -------------------------------
(***************************************************************************)
(* The terminal modes that outlive a crashed greeter (src/terminal.rs) and *)
(* the part of main and run around them (src/main.rs): termination signals *)
(* are listened to, the guard is armed, raw mode and the alternate screen  *)
(* come up, the loop runs, and whatever ends it, a panic included, takes   *)
(* them down again.  Any step of either may fail.                          *)
(*                                                                         *)
(* A panic restores through SessionGuard's Drop in an unwinding build and  *)
(* through the panic hook in an aborting one; both come to the same steps. *)
(* In an aborting build only panics of the main thread are modelled.  A    *)
(* signal nobody listens to ends the process where it is, and what is on   *)
(* stays on.                                                               *)
(***************************************************************************)
EXTENDS FiniteSets

VARIABLES
  pc,            (* where run is                                            *)
  listening,     (* TerminationSignals: signals no longer kill the process  *)
  active,        (* RealTerminal::active                                    *)
  raw, alternate, hidden,   (* the modes of the terminal                    *)
  failed         (* the steps of restore_terminal that failed               *)

modes == <<raw, alternate, hidden>>
vars  == <<pc, listening, active, modes, failed>>

Restoring == {"disable_raw", "clear", "move_home", "show_cursor", "leave_screen"}

TypeOK ==
  /\ pc \in Restoring \cup {"start", "enter", "enable_raw", "enter_screen", "backend",
                            "running", "leaving", "restore", "gone", "killed"}
  /\ listening \in BOOLEAN /\ active \in BOOLEAN
  /\ raw \in BOOLEAN /\ alternate \in BOOLEAN /\ hidden \in BOOLEAN
  /\ failed \subseteq Restoring

Init ==
  /\ pc = "start" /\ listening = FALSE /\ active = FALSE
  /\ raw = FALSE /\ alternate = FALSE /\ hidden = FALSE /\ failed = {}

-----------------------------------------------------------------------------
(* TerminationSignals::new; its failure ends run before anything changed.  *)
RegisterSignals ==
  /\ pc = "start"
  /\ \/ pc' = "enter" /\ listening' = TRUE
     \/ pc' = "gone" /\ UNCHANGED listening
  /\ UNCHANGED <<active, modes, failed>>

(* TerminalSession::enter: the guard is armed before the first mode.       *)
Arm ==
  /\ pc = "enter" /\ pc' = "enable_raw" /\ active' = TRUE
  /\ UNCHANGED <<listening, modes, failed>>

EnableRaw ==
  /\ pc = "enable_raw"
  /\ \/ pc' = "enter_screen" /\ raw' = TRUE
     \/ pc' = "restore" /\ UNCHANGED raw
  /\ UNCHANGED <<listening, active, alternate, hidden, failed>>

(* Three sequences in one write, which may break off after any of them.    *)
EnterScreen ==
  /\ pc = "enter_screen"
  /\ \/ pc' = "backend" /\ alternate' = TRUE /\ hidden' = TRUE
     \/ pc' = "restore" /\ alternate' \in BOOLEAN
        /\ hidden' \in (IF alternate' THEN BOOLEAN ELSE {FALSE})
  /\ UNCHANGED <<listening, active, raw, failed>>

(* ratatui's Terminal::new *)
Backend ==
  /\ pc = "backend" /\ pc' \in {"running", "restore"}
  /\ UNCHANGED <<listening, active, modes, failed>>

(* An exit, a failed frame, the end of a worker or a signal ends the loop. *)
LoopEnds ==
  /\ pc = "running" /\ pc' = "leaving" /\ UNCHANGED <<listening, active, modes, failed>>

(* The workers are down; the locals of run are dropped.                    *)
RunReturns ==
  /\ pc = "leaving" /\ pc' = "restore" /\ UNCHANGED <<listening, active, modes, failed>>

Panic ==
  /\ pc \in {"enable_raw", "enter_screen", "backend", "running", "leaving"} /\ pc' = "restore"
  /\ UNCHANGED <<listening, active, modes, failed>>

(* A signal nobody listens to: any before TerminationSignals::new, SIGHUP, *)
(* SIGQUIT or SIGKILL afterwards.  SIGINT and SIGTERM end the loop then.   *)
Killed ==
  /\ pc \notin {"gone", "killed"}
  /\ pc' = IF listening THEN "killed" ELSE "gone"
  /\ UNCHANGED <<listening, active, modes, failed>>

(* SessionGuard::restore and RealTerminal::restore *)
Restore ==
  /\ pc = "restore" /\ active' = FALSE
  /\ pc' = IF active THEN "disable_raw" ELSE "gone"
  /\ UNCHANGED <<listening, modes, failed>>

-----------------------------------------------------------------------------
(* restore_terminal: a step that fails is recorded and the next one runs.  *)

Done(step, next) == pc = step /\ pc' = next /\ UNCHANGED failed
Fails(step, next) ==
  /\ pc = step /\ pc' = next /\ failed' = failed \cup {step} /\ UNCHANGED modes

(* Mutation: the first failure ends it. *)
FailsAtOnce(step, next) ==
  /\ pc = step /\ pc' = "gone" /\ failed' = failed \cup {step} /\ UNCHANGED modes
RecordError(step, next) == Fails(step, next)

RestoreStep ==
  /\ \/ Done("disable_raw", "clear") /\ raw' = FALSE /\ UNCHANGED <<alternate, hidden>>
     \/ RecordError("disable_raw", "clear")
     \/ Done("clear", "move_home") /\ UNCHANGED modes
     \/ RecordError("clear", "move_home")
     \/ Done("move_home", "show_cursor") /\ UNCHANGED modes
     \/ RecordError("move_home", "show_cursor")
     \/ Done("show_cursor", "leave_screen") /\ hidden' = FALSE /\ UNCHANGED <<raw, alternate>>
     \/ RecordError("show_cursor", "leave_screen")
     \/ Done("leave_screen", "gone") /\ alternate' = FALSE /\ UNCHANGED <<raw, hidden>>
     \/ RecordError("leave_screen", "gone")
  /\ UNCHANGED <<listening, active>>

Gone == pc \in {"gone", "killed"} /\ UNCHANGED vars

Next ==
  \/ RegisterSignals \/ Arm \/ EnableRaw \/ EnterScreen \/ Backend \/ LoopEnds \/ RunReturns
  \/ Panic \/ Killed \/ Restore \/ RestoreStep \/ Gone

Spec == Init /\ [][Next]_vars

-----------------------------------------------------------------------------
(* A greeter that is gone leaves a usable terminal, however far it came:   *)
(* a mode is left on only when the very step that turns it off failed      *)
(* (initialize_terminal, SessionGuard, restore_terminal).  Nothing is      *)
(* claimed for one that a signal killed which it does not listen to.       *)
TerminalIsUsable ==
  pc = "gone" =>
    /\ raw => "disable_raw" \in failed
    /\ alternate => "leave_screen" \in failed
    /\ hidden => "show_cursor" \in failed
=============================================================================
