------------------------------- MODULE Startup -------------------------------
(***************************************************************************)
(* From the command line to the settings (main.rs): the line is recovered  *)
(* (Options), says whether the process only informs, checks the files or   *)
(* runs, and is then the highest layer of the settings (Config) of the     *)
(* start and of every reload.                                              *)
(***************************************************************************)
EXTENDS Config

VARIABLES
  args, index, offset, ended, recovered, ignored, action,   \* Options
  status      \* of the process, None while it runs

Line == INSTANCE Options

ASSUME LineAssumption ==
  /\ None \notin Line!Known
  /\ \A case \in Cases : case.lines \subseteq Seq(Line!Argument)

lineVars == <<args, index, offset, ended, recovered, ignored, action>>
vars == <<configVars, lineVars, status>>

Init ==
  /\ \E case \in Cases : InitCase(case) /\ \E line \in case.lines : Line!Start(line)
  /\ Fresh
  /\ status = None

ReadLine ==
  /\ Line!OptionsNext
  /\ UNCHANGED <<configVars, status>>

(* handle_information, as far as the line decides *)
Begin ==
  /\ pc = "options"
  /\ action # None
  /\ matches' = Line!Matches
  /\ \/ /\ action \in {"help", "version"}
        /\ pc' = "left"
        /\ status' = "success"
        /\ UNCHANGED mode
     \/ /\ action \in {"check", "run"}
        /\ pc' = "system"
        /\ mode' = IF action = "check" THEN "check" ELSE "start"
        /\ UNCHANGED status
  /\ UNCHANGED <<files, same, defs, candidate, warned, live, outcome, edits, reloads,
                 lineVars>>

LoadSettings == Load /\ UNCHANGED <<lineVars, status>>
EditAFile == EditFile /\ UNCHANGED <<lineVars, status>>
ReloadSettings == action = "run" /\ Reload /\ UNCHANGED <<lineVars, status>>

(* config::check and its exit code *)
FinishCheck ==
  /\ action = "check"
  /\ pc = "done"
  /\ pc' = "left"
  /\ status' = IF ignored = {} /\ outcome = "taken" /\ warned = {} THEN "success" ELSE "failure"
  /\ UNCHANGED <<files, same, matches, defs, candidate, warned, mode, live, outcome, edits, reloads,
                 lineVars>>

Next == ReadLine \/ Begin \/ LoadSettings \/ EditAFile \/ ReloadSettings \/ FinishCheck

Spec == Init /\ [][Next]_vars

LineIsRecovered == Line!LineIsRecovered
=============================================================================
