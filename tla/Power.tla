-------------------------------- MODULE Power --------------------------------
(***************************************************************************)
(* The supervisor of power commands (src/power.rs): the PowerSupervisor of *)
(* the main loop, the worker task run_command that spawns, waits for and   *)
(* terminates one command, and the processes of the command, which exit,   *)
(* fork and ignore signals as they like (external).                        *)
(*                                                                         *)
(* The worker names the command by the number of its first process, which  *)
(* with setsid is also that of its group.  The kernel may give the number  *)
(* to a stranger once nothing of the command bears it.                     *)
(***************************************************************************)
EXTENDS Naturals

CONSTANT MaxCommands   (* bound: commands started in one behaviour *)

ASSUME PowerAssumption == MaxCommands \in Nat

VARIABLES
  main,         (* the main loop                                           *)
  active,       (* PowerSupervisor::active                                 *)
  cancelled,    (* has the cancellation been sent                          *)
  commands,     (* commands started                                        *)
  setsid,       (* PowerRequest::setsid                                    *)
  worker,       (* where run_command is                                    *)
  outcome,      (* what it will return                                     *)
  armed,        (* ProcessGuard::armed                                     *)
  reaped, secured,   (* the locals of terminate                            *)
  child, ok,    (* the first process, and whether it exits with success    *)
  others,       (* do other processes of the command run                   *)
  doomed,       (* has SIGKILL been sent to the running ones               *)
  stranger,     (* does the number name someone else                       *)
  refused, struck    (* histories: a signal was refused, hit a stranger    *)

mainVars    == <<main, active, cancelled, commands, setsid>>
processVars == <<child, ok, others, doomed, stranger, refused, struck>>
localVars   == <<outcome, armed, reaped, secured>>
vars == <<mainVars, worker, localVars, processVars>>

Workers  == {"none", "spawn", "wait", "inspect", "signal", "grace", "group", "probe", "kill",
             "reap", "return", "done"}
Outcomes == {"none", "Success", "Cancelled", "Spawn", "Wait", "Exit", "Timeout", "Aborted"}

TypeOK ==
  /\ main \in {"running", "stopping", "aborting", "left"} /\ worker \in Workers
  /\ outcome \in Outcomes /\ commands \in 0..MaxCommands
  /\ child \in {"none", "running", "exited", "gone"}
  /\ active \in BOOLEAN /\ cancelled \in BOOLEAN /\ setsid \in BOOLEAN /\ armed \in BOOLEAN
  /\ reaped \in BOOLEAN /\ secured \in BOOLEAN /\ ok \in BOOLEAN /\ others \in BOOLEAN
  /\ doomed \in BOOLEAN /\ stranger \in BOOLEAN /\ refused \in BOOLEAN /\ struck \in BOOLEAN
  /\ reaped => child = "gone"

Idle ==
  /\ outcome' = "none" /\ armed' = FALSE /\ reaped' = FALSE /\ secured' = FALSE
  /\ child' = "none" /\ ok' = FALSE /\ others' = FALSE /\ doomed' = FALSE
  /\ stranger' = FALSE /\ refused' = FALSE /\ struck' = FALSE

Init ==
  /\ main = "running" /\ active = FALSE /\ cancelled = FALSE /\ commands = 0
  /\ setsid = FALSE /\ worker = "none" /\ outcome = "none"
  /\ armed = FALSE /\ reaped = FALSE /\ secured = FALSE
  /\ child = "none" /\ ok = FALSE /\ others = FALSE /\ doomed = FALSE
  /\ stranger = FALSE /\ refused = FALSE /\ struck = FALSE

-----------------------------------------------------------------------------
(* The processes and the kernel (external). *)

Outside == UNCHANGED <<mainVars, worker, localVars, refused, struck>>

ChildExits ==
  /\ child = "running" /\ child' = "exited" /\ ok' \in {FALSE, ~doomed}
  /\ Outside /\ UNCHANGED <<others, doomed, stranger>>

OthersChange ==
  /\ others' = ~others /\ (others' => child = "running" /\ ~doomed)
  /\ Outside /\ UNCHANGED <<child, ok, doomed, stranger>>

(* The number is in use as long as a process or the group bears it. *)
InUse == child \in {"running", "exited"} \/ (setsid /\ others)

Reuse ==
  /\ child = "gone" /\ ~InUse /\ ~stranger /\ stranger' = TRUE
  /\ Outside /\ UNCHANGED <<child, ok, others, doomed>>

(* ProcessTarget::signal and exists.  A signal nobody receives succeeds,   *)
(* one that is refused does not.                                           *)
Exists == InUse \/ stranger
Signal(kills, refuse) ==
  /\ refuse => Exists
  /\ struck' = (struck \/ (stranger /\ ~refuse))
  /\ refused' = (refused \/ refuse)
  /\ doomed' = (doomed \/ (kills /\ InUse /\ ~refuse))

-----------------------------------------------------------------------------
(* PowerSupervisor, called by the main loop. *)

(* A second command while one is active is ignored. *)
Start ==
  /\ main = "running" /\ ~active /\ commands < MaxCommands
  /\ active' = TRUE /\ cancelled' = FALSE /\ commands' = commands + 1
  /\ setsid' \in BOOLEAN /\ worker' = "spawn"
  /\ Idle /\ UNCHANGED main

Cancel ==
  /\ main = "running" /\ active /\ ~cancelled /\ cancelled' = TRUE
  /\ UNCHANGED <<main, active, commands, setsid, worker, localVars, processVars>>

(* next and finish_power: the success of a command ends the greeter. *)
TakeOutcome ==
  /\ main = "running" /\ active /\ worker = "done" /\ active' = FALSE
  /\ main' = IF outcome = "Success" THEN "left" ELSE "running"
  /\ UNCHANGED <<cancelled, commands, setsid, worker, localVars, processVars>>

(* shutdown: cancel, wait for the worker, then abort it, wait a little.    *)
Shutdown ==
  /\ main = "running" /\ main' = (IF active THEN "stopping" ELSE "left")
  /\ cancelled' = (cancelled \/ active)
  /\ UNCHANGED <<active, commands, setsid, worker, localVars, processVars>>

Join ==
  /\ main \in {"stopping", "aborting"}
  /\ \/ worker = "done" /\ main' = "left" /\ active' = FALSE
     \/ main = "stopping" /\ main' = "aborting" /\ UNCHANGED active
     \/ main = "aborting" /\ main' = "left" /\ active' = FALSE
  /\ UNCHANGED <<cancelled, commands, setsid, worker, localVars, processVars>>

Supervisor == Start \/ Cancel \/ TakeOutcome \/ Shutdown \/ Join

-----------------------------------------------------------------------------
(* run_command and terminate, from one await or system call to the next.   *)

Spawn ==
  /\ worker = "spawn"
  /\ \/ child' = "running" /\ armed' = TRUE /\ worker' = "wait" /\ UNCHANGED outcome
     \/ outcome' = "Spawn" /\ worker' = "return" /\ UNCHANGED <<child, armed>>
  /\ UNCHANGED <<mainVars, reaped, secured, ok, others, doomed, stranger, refused, struck>>

(* The child's status: a failed leader may leave its group behind.         *)
Status ==
  /\ child = "exited" /\ child' = "gone"
  /\ outcome' = (IF ok THEN "Success" ELSE "Exit")
  /\ IF ~ok /\ setsid THEN worker' = "inspect" /\ reaped' = TRUE /\ UNCHANGED armed
     ELSE worker' = "return" /\ armed' = FALSE /\ UNCHANGED reaped

(* A cancellation, a timeout or an error of wait. *)
GiveUp(reason) ==
  outcome' = reason /\ worker' = "signal" /\ UNCHANGED <<child, armed, reaped>>

Waiting ==
  /\ worker = "wait"
  /\ UNCHANGED <<mainVars, secured, ok, others, doomed, stranger, refused, struck>>
(* Mutation: a command has all the time it wants, and wait never fails. *)
WaitForever ==
  Waiting /\ IF cancelled THEN GiveUp("Cancelled") ELSE Status
(* The select prefers the cancellation. *)
Wait ==
  Waiting /\ IF cancelled THEN GiveUp("Cancelled")
             ELSE Status \/ GiveUp("Wait") \/ GiveUp("Timeout")

Alone == UNCHANGED <<mainVars, processVars>>

Inspect ==
  /\ worker = "inspect"
  /\ \/ Exists /\ worker' = "signal" /\ UNCHANGED armed
     \/ ~Exists /\ worker' = "return" /\ armed' = FALSE
  /\ Alone /\ UNCHANGED <<outcome, reaped, secured>>

Terminate ==
  /\ worker = "signal" /\ \E refuse \in BOOLEAN : Signal(FALSE, refuse)
  /\ worker' = IF reaped THEN "group" ELSE "grace"
  /\ UNCHANGED <<mainVars, localVars, child, ok, others, stranger>>

ReapOr(given_up) ==
  \/ child = "exited" /\ child' = "gone" /\ reaped' = TRUE
  \/ given_up /\ UNCHANGED <<child, reaped>>

GraceUnless(done) ==
  /\ worker = "grace" /\ ReapOr(TRUE)
  /\ IF done THEN worker' = "return" /\ armed' = FALSE
     ELSE worker' = (IF setsid THEN "group" ELSE "probe") /\ UNCHANGED armed
  /\ UNCHANGED <<mainVars, outcome, secured, ok, others, doomed, stranger, refused, struck>>
(* Mutations: the first process is taken for the group; a number that may  *)
(* have a new owner is probed.                                             *)
GraceForLeader == GraceUnless(reaped')
GraceForAll    == GraceUnless(FALSE)
Grace          == GraceUnless(reaped' /\ ~setsid)

GroupGrace ==
  /\ worker = "group" /\ worker' = "probe" /\ Alone /\ UNCHANGED localVars

Probe ==
  /\ worker = "probe"
  /\ \/ Exists /\ worker' = "kill" /\ UNCHANGED secured
     \/ ~Exists /\ worker' = "reap" /\ secured' = TRUE
  /\ Alone /\ UNCHANGED <<outcome, armed, reaped>>

Kill ==
  /\ worker = "kill" /\ worker' = "reap"
  /\ \E refuse \in BOOLEAN : Signal(TRUE, refuse) /\ secured' = ~refuse
  /\ UNCHANGED <<mainVars, outcome, armed, reaped, child, ok, others, stranger>>

Reap ==
  /\ worker = "reap" /\ worker' = "return"
  /\ IF reaped THEN UNCHANGED <<child, reaped>> ELSE ReapOr(TRUE)
  /\ armed' = (armed /\ ~(IF setsid THEN secured ELSE reaped'))
  /\ UNCHANGED <<mainVars, outcome, secured, ok, others, doomed, stranger, refused, struck>>

(* The guard is dropped.  So is the child, whose kill_on_drop adds nothing *)
(* to the guard: a child not reaped has been killed or is guarded.         *)
Drop ==
  /\ worker' = "done" /\ armed' = FALSE
  /\ IF armed THEN \E refuse \in BOOLEAN : Signal(TRUE, refuse)
     ELSE UNCHANGED <<doomed, refused, struck>>
  /\ UNCHANGED <<mainVars, reaped, secured, child, ok, others, stranger>>

Return == worker = "return" /\ Drop /\ UNCHANGED outcome

(* An aborted task is dropped at the await where it is. *)
Abort ==
  /\ main \in {"aborting", "left"} /\ worker \in {"spawn", "wait", "grace", "group", "reap"}
  /\ Drop /\ outcome' = "Aborted"

RunCommand == Spawn \/ Wait \/ Inspect \/ Terminate \/ Grace \/ GroupGrace \/ Probe \/ Kill
              \/ Reap \/ Return \/ Abort

Stopped == main = "left" /\ worker \in {"none", "done"} /\ UNCHANGED vars

Next == Supervisor \/ RunCommand \/ ChildExits \/ OthersChange \/ Reuse \/ Stopped

Spec == Init /\ [][Next]_vars

(* Tokio runs the tasks and their timers, and the main loop takes a result *)
(* that is there.  No process has to end, not even when it is killed.      *)
FairSpec == Spec /\ WF_vars(RunCommand) /\ WF_vars(TakeOutcome) /\ WF_vars(Join)

-----------------------------------------------------------------------------
(* Properties *)

(* Manual page: cancellation and timeout send SIGTERM, then SIGKILL; with  *)
(* session isolation this covers the whole process group.  When the worker *)
(* has ended, by itself or aborted by the shutdown, nothing of a command   *)
(* that did not succeed runs on, unless the kernel refused a signal        *)
(* (terminate, ProcessGuard).                                              *)
CommandIsContained ==
  worker = "done" /\ outcome # "Success" /\ ~refused =>
    (child = "running" \/ (setsid /\ others) => doomed)

(* The number of an individual process is never probed or signalled once   *)
(* it may have a new owner (terminate, ProcessGuard::disarm).              *)
StrangersSpared == struck => setsid

(* A power command ends, even one that ignores every signal, and the       *)
(* prompt comes back or the greeter leaves (COMMAND_TIMEOUT, terminate).   *)
CommandEnds == active ~> ~active
=============================================================================
