----------------------------- MODULE PowerProofs ------------------------------
(***************************************************************************)
(* Power, proved for any number of commands: no process of a command that  *)
(* failed is left behind, and no stranger is signalled on its behalf.      *)
(*                                                                         *)
(* Both follow the guard of the first process.  It is armed from the spawn *)
(* to the end, and disarmed early only where nothing of the command runs   *)
(* or all of it has been killed; and a number that may have a new owner is *)
(* one whose guard is disarmed, unless it is that of a group.              *)
(***************************************************************************)
EXTENDS Power, TLAPS

(* What of the command may still run. *)
Live == child = "running" \/ (setsid /\ others)
Contained == refused \/ (Live => doomed)

(* The worker may still signal, and will unless it finds all at an end. *)
Watching == worker \in {"wait", "inspect", "signal", "grace", "group", "probe", "kill", "reap"}

GuardInv ==
  /\ worker \in {"none", "spawn"} => child = "none"
  /\ child = "none" => ~others
  /\ Watching => armed
  /\ worker = "reap" /\ secured => Contained
  /\ worker = "return" /\ ~armed /\ outcome # "Success" => Contained
  /\ worker = "done" /\ outcome # "Success" => Contained

NumberInv ==
  /\ stranger => child = "gone"
  /\ ~setsid /\ child = "gone" => ~armed /\ worker \in {"return", "done"}
  /\ struck => setsid

IInv == TypeOK /\ GuardInv /\ NumberInv

-----------------------------------------------------------------------------
(* SIGKILL reaches whatever runs, unless it is refused; and a signal       *)
(* strikes a stranger only if there is one.                                *)
LEMMA Killed ==
  ASSUME IInv, NEW refuse \in BOOLEAN, Signal(TRUE, refuse),
         child' = child, others' = others, setsid' = setsid, stranger' = stranger
  PROVE  /\ doomed' \in BOOLEAN /\ refused' \in BOOLEAN /\ struck' \in BOOLEAN
         /\ Contained' /\ (~refuse => (Live' => doomed'))
         /\ struck' => struck \/ stranger
<1>1. doomed' \in BOOLEAN /\ refused' \in BOOLEAN /\ struck' \in BOOLEAN
  BY DEF Signal, IInv, TypeOK
<1>2. Live' => InUse
  BY DEF Live, InUse
<1>3. /\ refuse => refused'
      /\ InUse /\ ~refuse => doomed'
      /\ struck' => struck \/ stranger
  BY DEF Signal
<1> QED
  BY <1>1, <1>2, <1>3 DEF Contained

(* Nothing runs and nothing has been signalled. *)
LEMMA InitInv == Init => IInv
<1> SUFFICES ASSUME Init PROVE IInv
  OBVIOUS
<1>1. TypeOK
  <2>1. commands \in 0..MaxCommands
    BY PowerAssumption DEF Init
  <2> QED
    BY <2>1 DEF Init, TypeOK, Workers, Outcomes
<1>2. GuardInv /\ NumberInv
  BY DEF Init, GuardInv, NumberInv, Watching
<1> QED
  BY <1>1, <1>2 DEF IInv

(* The processes and the kernel do not disturb the guard. *)
LEMMA ProcessStep ==
  ASSUME IInv, ChildExits \/ OthersChange \/ Reuse
  PROVE  IInv'
<1>1. /\ main' = main /\ active' = active /\ cancelled' = cancelled /\ commands' = commands
      /\ setsid' = setsid /\ worker' = worker /\ outcome' = outcome /\ armed' = armed
      /\ reaped' = reaped /\ secured' = secured /\ refused' = refused /\ struck' = struck
      /\ doomed' = doomed
  BY DEF ChildExits, OthersChange, Reuse, Outside, mainVars, localVars
<1> USE DEF IInv
<1>2. CASE ChildExits
  <2>1. /\ child = "running" /\ child' = "exited" /\ others' = others /\ stranger' = stranger
        /\ ok' \in BOOLEAN
    BY <1>2 DEF ChildExits, TypeOK
  <2>2. TypeOK'
    BY <1>1, <2>1 DEF TypeOK
  <2>3. GuardInv' /\ NumberInv'
    BY <1>1, <2>1 DEF GuardInv, NumberInv, Watching, Contained, Live
  <2> QED
    BY <2>2, <2>3
<1>3. CASE OthersChange
  <2>1. /\ child' = child /\ stranger' = stranger /\ ok' = ok
        /\ others' \in BOOLEAN /\ (others' => child = "running" /\ ~doomed)
    BY <1>3 DEF OthersChange
  <2>2. TypeOK'
    BY <1>1, <2>1 DEF TypeOK
  <2>3. Live' => Live
    BY <1>1, <2>1 DEF Live
  <2>4. Contained => Contained'
    BY <1>1, <2>3 DEF Contained
  <2>5. GuardInv' /\ NumberInv'
    BY <1>1, <2>1, <2>4 DEF GuardInv, NumberInv, Watching
  <2> QED
    BY <2>2, <2>5
<1>4. CASE Reuse
  <2>1. /\ child = "gone" /\ child' = child /\ others' = others /\ stranger' = TRUE /\ ok' = ok
    BY <1>4 DEF Reuse
  <2>2. TypeOK'
    BY <1>1, <2>1 DEF TypeOK
  <2>3. GuardInv' /\ NumberInv'
    BY <1>1, <2>1 DEF GuardInv, NumberInv, Watching, Contained, Live
  <2> QED
    BY <2>2, <2>3
<1> QED
  BY <1>2, <1>3, <1>4

(* The main loop begins with a command of which nothing runs yet, and      *)
(* otherwise leaves the worker alone.                                      *)
LEMMA SupervisorStep ==
  ASSUME IInv, Supervisor
  PROVE  IInv'
<1> USE DEF IInv
<1>1. CASE Start
  <2>1. /\ main' = main /\ active' = TRUE /\ cancelled' = FALSE /\ setsid' \in BOOLEAN
        /\ worker' = "spawn" /\ outcome' = "none" /\ armed' = FALSE /\ reaped' = FALSE
        /\ secured' = FALSE /\ child' = "none" /\ ok' = FALSE /\ others' = FALSE
        /\ doomed' = FALSE /\ stranger' = FALSE /\ refused' = FALSE /\ struck' = FALSE
    BY <1>1 DEF Start, Idle
  <2>2. commands' \in 0..MaxCommands
    BY <1>1, PowerAssumption DEF Start, TypeOK
  <2>3. TypeOK'
    BY <2>1, <2>2 DEF TypeOK, Workers, Outcomes
  <2>4. GuardInv' /\ NumberInv'
    BY <2>1 DEF GuardInv, NumberInv, Watching
  <2> QED
    BY <2>3, <2>4
<1>2. CASE Cancel \/ TakeOutcome \/ Shutdown \/ Join
  <2>1. /\ commands' = commands /\ setsid' = setsid /\ worker' = worker /\ outcome' = outcome
        /\ armed' = armed /\ reaped' = reaped /\ secured' = secured /\ child' = child
        /\ ok' = ok /\ others' = others /\ doomed' = doomed /\ stranger' = stranger
        /\ refused' = refused /\ struck' = struck
    BY <1>2 DEF Cancel, TakeOutcome, Shutdown, Join, localVars, processVars
  <2>2. /\ main' \in {"running", "stopping", "aborting", "left"}
        /\ active' \in BOOLEAN /\ cancelled' \in BOOLEAN
    BY <1>2 DEF Cancel, TakeOutcome, Shutdown, Join, TypeOK
  <2>3. TypeOK'
    BY <2>1, <2>2 DEF TypeOK
  <2>4. GuardInv' /\ NumberInv'
    BY <2>1 DEF GuardInv, NumberInv, Watching, Contained, Live
  <2> QED
    BY <2>3, <2>4
<1> QED
  BY <1>1, <1>2 DEF Supervisor

(* The guard is dropped where the task ends: it kills what runs, or finds  *)
(* itself disarmed because nothing does.                                   *)
LEMMA DropStep ==
  ASSUME IInv, Return \/ Abort
  PROVE  IInv'
<1> USE DEF IInv
<1>1. /\ main' = main /\ active' = active /\ cancelled' = cancelled /\ commands' = commands
      /\ setsid' = setsid /\ reaped' = reaped /\ secured' = secured /\ child' = child
      /\ ok' = ok /\ others' = others /\ stranger' = stranger
      /\ worker' = "done" /\ armed' = FALSE
  BY DEF Return, Abort, Drop, mainVars
<1>2. outcome' \in Outcomes /\ (worker = "return" => outcome' = outcome)
  BY DEF Return, Abort, TypeOK, Outcomes
<1>3. worker \in {"spawn", "return"} \/ Watching
  BY DEF Return, Abort, Watching
<1>4. CASE armed
  <2>1. PICK refuse \in BOOLEAN : Signal(TRUE, refuse)
    BY <1>4 DEF Return, Abort, Drop
  <2>2. /\ doomed' \in BOOLEAN /\ refused' \in BOOLEAN /\ struck' \in BOOLEAN
        /\ Contained' /\ (struck' => struck \/ stranger)
    BY <1>1, <2>1, Killed
  <2>3. TypeOK'
    <3>1. worker' \in Workers /\ outcome' \in Outcomes
      BY <1>1, <1>2 DEF Workers
    <3>2. active' \in BOOLEAN /\ cancelled' \in BOOLEAN /\ setsid' \in BOOLEAN /\ armed' \in BOOLEAN
      BY <1>1 DEF TypeOK
    <3>3. reaped' \in BOOLEAN /\ secured' \in BOOLEAN /\ ok' \in BOOLEAN /\ others' \in BOOLEAN
          /\ stranger' \in BOOLEAN /\ (reaped' => child' = "gone")
      BY <1>1 DEF TypeOK
    <3>4. /\ main' \in {"running", "stopping", "aborting", "left"} /\ commands' \in 0..MaxCommands
          /\ child' \in {"none", "running", "exited", "gone"}
      BY <1>1 DEF TypeOK
    <3> QED
      BY <2>2, <3>1, <3>2, <3>3, <3>4 DEF TypeOK
  <2>4. GuardInv' /\ NumberInv'
    BY <1>1, <1>4, <2>2 DEF GuardInv, NumberInv, Watching
  <2> QED
    BY <2>3, <2>4
<1>5. CASE ~armed
  <2>1. doomed' = doomed /\ refused' = refused /\ struck' = struck
    BY <1>5 DEF Return, Abort, Drop
  <2>2. TypeOK'
    <3>1. worker' \in Workers /\ outcome' \in Outcomes
      BY <1>1, <1>2 DEF Workers
    <3>2. doomed' \in BOOLEAN /\ refused' \in BOOLEAN /\ struck' \in BOOLEAN
      BY <2>1 DEF TypeOK
    <3>3. active' \in BOOLEAN /\ cancelled' \in BOOLEAN /\ setsid' \in BOOLEAN /\ armed' \in BOOLEAN
      BY <1>1 DEF TypeOK
    <3>4. reaped' \in BOOLEAN /\ secured' \in BOOLEAN /\ ok' \in BOOLEAN /\ others' \in BOOLEAN
          /\ stranger' \in BOOLEAN /\ (reaped' => child' = "gone")
      BY <1>1 DEF TypeOK
    <3>5. /\ main' \in {"running", "stopping", "aborting", "left"} /\ commands' \in 0..MaxCommands
          /\ child' \in {"none", "running", "exited", "gone"}
      BY <1>1 DEF TypeOK
    <3> QED
      BY <3>1, <3>2, <3>3, <3>4, <3>5 DEF TypeOK
  <2>3. outcome' # "Success" => Contained'
    BY <1>1, <1>2, <1>3, <1>5, <2>1 DEF GuardInv, Contained, Live
  <2>4. GuardInv' /\ NumberInv'
    BY <1>1, <2>1, <2>3 DEF GuardInv, NumberInv, Watching
  <2> QED
    BY <2>2, <2>4
<1> QED
  BY <1>4, <1>5 DEF TypeOK

(* From the spawn to the first signal. *)
LEMMA WaitStep ==
  ASSUME IInv, Spawn \/ Wait \/ Inspect \/ Terminate \/ GroupGrace
  PROVE  IInv'
<1> USE DEF IInv
<1>1. /\ main' = main /\ active' = active /\ cancelled' = cancelled /\ commands' = commands
      /\ setsid' = setsid /\ secured' = secured /\ ok' = ok /\ others' = others
      /\ stranger' = stranger
  BY DEF Spawn, Wait, Waiting, Inspect, Terminate, GroupGrace, Alone, mainVars, localVars, processVars
<1>2. CASE Spawn
  <2>1. /\ reaped' = reaped /\ doomed' = doomed /\ refused' = refused /\ struck' = struck
        /\ worker = "spawn"
        /\ \/ child' = "running" /\ armed' = TRUE /\ worker' = "wait" /\ outcome' = outcome
           \/ outcome' = "Spawn" /\ worker' = "return" /\ child' = child /\ armed' = armed
    BY <1>2 DEF Spawn
  <2>2. child = "none" /\ ~others /\ ~reaped /\ ~stranger
    BY <2>1 DEF GuardInv, NumberInv, TypeOK
  <2>3. TypeOK'
    <3>1. worker' \in Workers /\ outcome' \in Outcomes
          /\ child' \in {"none", "running", "exited", "gone"}
      BY <2>1, <2>2 DEF TypeOK, Workers, Outcomes
    <3>2. armed' \in BOOLEAN /\ reaped' = reaped /\ ~reaped
      BY <2>1, <2>2 DEF TypeOK
    <3>3. reaped' \in BOOLEAN /\ doomed' \in BOOLEAN /\ refused' \in BOOLEAN /\ struck' \in BOOLEAN
      BY <2>1 DEF TypeOK
    <3>4. active' \in BOOLEAN /\ cancelled' \in BOOLEAN /\ setsid' \in BOOLEAN
          /\ secured' \in BOOLEAN /\ ok' \in BOOLEAN /\ others' \in BOOLEAN /\ stranger' \in BOOLEAN
      BY <1>1 DEF TypeOK
    <3>5. main' \in {"running", "stopping", "aborting", "left"} /\ commands' \in 0..MaxCommands
      BY <1>1 DEF TypeOK
    <3> QED
      BY <3>1, <3>2, <3>3, <3>4, <3>5 DEF TypeOK
  <2>4. GuardInv' /\ NumberInv'
    BY <1>1, <2>1, <2>2 DEF GuardInv, NumberInv, Watching, Contained, Live
  <2> QED
    BY <2>3, <2>4
<1>3. CASE Wait
  <2>1. /\ doomed' = doomed /\ refused' = refused /\ struck' = struck /\ worker = "wait"
        /\ \/ Status
           \/ GiveUp("Cancelled") \/ GiveUp("Wait") \/ GiveUp("Timeout")
    BY <1>3 DEF Wait, Waiting
  <2>2. CASE Status
    <3>1. /\ child = "exited" /\ child' = "gone" /\ outcome' \in {"Success", "Exit"}
          /\ (outcome' # "Success" => ~ok)
          /\ \/ ~ok /\ setsid /\ worker' = "inspect" /\ reaped' = TRUE /\ armed' = armed
             \/ ~(~ok /\ setsid) /\ worker' = "return" /\ armed' = FALSE /\ reaped' = reaped
      BY <2>2 DEF Status
    <3>2. TypeOK'
      <4>1. /\ worker' \in Workers /\ outcome' \in Outcomes /\ child' = "gone"
            /\ armed' \in BOOLEAN /\ reaped' \in BOOLEAN
        BY <3>1 DEF TypeOK, Workers, Outcomes
      <4> QED
        BY <1>1, <2>1, <4>1 DEF TypeOK
    <3>3. setsid \/ worker' = "return"
      BY <3>1
    <3>4. worker' = "return" /\ outcome' # "Success" => ~Live'
      BY <1>1, <3>1 DEF Live
    <3>5. GuardInv'
      <4>1. child' = "gone" /\ worker' \in {"inspect", "return"}
        BY <3>1
      <4>2. Watching' => armed'
        <5>1. armed
          BY <2>1 DEF GuardInv, Watching
        <5>2. worker' = "return" \/ armed' = armed
          BY <3>1
        <5> QED
          BY <5>1, <5>2 DEF Watching
      <4>3. worker' = "return" /\ outcome' # "Success" => Contained'
        BY <3>4 DEF Contained
      <4> QED
        BY <4>1, <4>2, <4>3 DEF GuardInv
    <3>6. NumberInv'
      BY <1>1, <2>1, <3>1, <3>3 DEF NumberInv, GuardInv, Watching
    <3> QED
      BY <3>2, <3>5, <3>6
  <2>3. CASE GiveUp("Cancelled") \/ GiveUp("Wait") \/ GiveUp("Timeout")
    <3>1. /\ outcome' \in Outcomes /\ worker' = "signal" /\ child' = child /\ armed' = armed
          /\ reaped' = reaped
      BY <2>3 DEF GiveUp, Outcomes
    <3>2. TypeOK'
      BY <1>1, <2>1, <3>1 DEF TypeOK, Workers
    <3>3. GuardInv' /\ NumberInv'
      BY <1>1, <2>1, <3>1 DEF GuardInv, NumberInv, Watching
    <3> QED
      BY <3>2, <3>3
  <2> QED
    BY <2>1, <2>2, <2>3
<1>4. CASE Inspect
  <2>1. /\ child' = child /\ doomed' = doomed /\ refused' = refused /\ struck' = struck
        /\ outcome' = outcome /\ reaped' = reaped /\ worker = "inspect"
        /\ \/ worker' = "signal" /\ armed' = armed
           \/ ~Exists /\ worker' = "return" /\ armed' = FALSE
    BY <1>4 DEF Inspect, Alone, processVars
  <2>2. TypeOK'
    <3>1. worker' \in Workers /\ armed' \in BOOLEAN
      BY <2>1 DEF TypeOK, Workers
    <3> QED
      BY <1>1, <2>1, <3>1 DEF TypeOK
  <2>3. ~Exists => ~Live
    BY DEF Exists, InUse, Live
  <2>4. Live' => Live
    BY <1>1, <2>1 DEF Live
  <2>5. GuardInv' /\ NumberInv'
    BY <1>1, <2>1, <2>3, <2>4 DEF GuardInv, NumberInv, Watching, Contained
  <2> QED
    BY <2>2, <2>5
<1>5. CASE Terminate
  <2>1. /\ child' = child /\ outcome' = outcome /\ armed' = armed /\ reaped' = reaped
        /\ worker = "signal" /\ worker' \in {"group", "grace"}
    BY <1>5 DEF Terminate, localVars
  <2>2. PICK refuse \in BOOLEAN : Signal(FALSE, refuse)
    BY <1>5 DEF Terminate
  <2>3. /\ doomed' \in BOOLEAN /\ refused' \in BOOLEAN /\ struck' \in BOOLEAN
        /\ (struck' => struck \/ stranger)
    BY <2>2 DEF Signal, TypeOK
  <2>4. TypeOK'
    BY <1>1, <2>1, <2>3 DEF TypeOK, Workers
  <2>5. GuardInv' /\ NumberInv'
    BY <1>1, <2>1, <2>3 DEF GuardInv, NumberInv, Watching
  <2> QED
    BY <2>4, <2>5
<1>6. CASE GroupGrace
  <2>1. /\ child' = child /\ doomed' = doomed /\ refused' = refused /\ struck' = struck
        /\ outcome' = outcome /\ armed' = armed /\ reaped' = reaped
        /\ worker = "group" /\ worker' = "probe"
    BY <1>6 DEF GroupGrace, Alone, processVars, localVars
  <2>2. TypeOK'
    BY <1>1, <2>1 DEF TypeOK, Workers
  <2>3. GuardInv' /\ NumberInv'
    BY <1>1, <2>1 DEF GuardInv, NumberInv, Watching
  <2> QED
    BY <2>2, <2>3
<1> QED
  BY <1>2, <1>3, <1>4, <1>5, <1>6

(* From the grace period to the last reaping. *)
LEMMA KillStep ==
  ASSUME IInv, Grace \/ Probe \/ Kill \/ Reap
  PROVE  IInv'
<1> USE DEF IInv
<1>1. /\ main' = main /\ active' = active /\ cancelled' = cancelled /\ commands' = commands
      /\ setsid' = setsid /\ outcome' = outcome /\ ok' = ok /\ others' = others
      /\ stranger' = stranger
  BY DEF Grace, GraceUnless, Probe, Kill, Reap, Alone, mainVars, processVars
<1>2. armed
  BY DEF Grace, GraceUnless, Probe, Kill, Reap, GuardInv, Watching
<1>3. ~setsid => child # "gone" /\ ~reaped /\ ~stranger
  <2>1. ~setsid => child # "gone"
    BY <1>2 DEF NumberInv
  <2> QED
    BY <2>1 DEF NumberInv, TypeOK
<1>4. CASE Grace
  <2>1. /\ worker = "grace" /\ secured' = secured /\ doomed' = doomed /\ refused' = refused
        /\ struck' = struck /\ worker' \in {"return", "group", "probe"}
        /\ \/ child' = "gone" /\ reaped' = TRUE
           \/ child' = child /\ reaped' = reaped
        /\ \/ reaped' /\ ~setsid /\ worker' = "return" /\ armed' = FALSE
           \/ ~(reaped' /\ ~setsid) /\ worker' \in {"group", "probe"} /\ armed' = armed
    BY <1>4 DEF Grace, GraceUnless, ReapOr
  <2>2. armed' \in BOOLEAN /\ reaped' \in BOOLEAN /\ (reaped' => child' = "gone")
    <3>1. armed' \in BOOLEAN
      BY <2>1 DEF TypeOK
    <3>2. CASE child' = "gone" /\ reaped' = TRUE
      BY <3>1, <3>2
    <3>3. CASE child' = child /\ reaped' = reaped
      BY <3>1, <3>3 DEF TypeOK
    <3> QED
      BY <2>1, <3>2, <3>3
  <2>3. child' = child \/ child' = "gone"
    BY <2>1
  <2>4. TypeOK'
    BY <1>1, <2>1, <2>2, <2>3 DEF TypeOK, Workers
  <2>5. worker' = "return" => ~Live'
    BY <1>1, <2>1, <2>2 DEF Live
  <2>6. Watching' => armed'
    BY <1>2, <2>1 DEF Watching
  <2>7. GuardInv'
    BY <1>1, <2>1, <2>3, <2>5, <2>6 DEF GuardInv, Contained
  <2>8. ~setsid' /\ child' = "gone" => ~armed' /\ worker' = "return"
    BY <1>1, <1>3, <2>1
  <2>9. stranger' => child' = "gone"
    BY <1>1, <2>3 DEF NumberInv
  <2>10. NumberInv'
    BY <1>1, <2>1, <2>8, <2>9 DEF NumberInv
  <2> QED
    BY <2>4, <2>7, <2>10
<1>5. CASE Probe
  <2>1. /\ child' = child /\ doomed' = doomed /\ refused' = refused /\ struck' = struck
        /\ armed' = armed /\ reaped' = reaped /\ worker = "probe"
        /\ \/ worker' = "kill" /\ secured' = secured
           \/ ~Exists /\ worker' = "reap" /\ secured' = TRUE
    BY <1>5 DEF Probe, Alone, processVars
  <2>2. worker' \in Workers /\ secured' \in BOOLEAN
    BY <2>1 DEF TypeOK, Workers
  <2>3. TypeOK'
    BY <1>1, <2>1, <2>2 DEF TypeOK
  <2>4. worker' = "reap" => ~Live'
    BY <1>1, <2>1 DEF Exists, InUse, Live
  <2>5. GuardInv' /\ NumberInv'
    BY <1>1, <1>2, <2>1, <2>4 DEF GuardInv, NumberInv, Watching, Contained
  <2> QED
    BY <2>3, <2>5
<1>6. CASE Kill
  <2>1. /\ child' = child /\ armed' = armed /\ reaped' = reaped /\ worker = "kill"
        /\ worker' = "reap"
    BY <1>6 DEF Kill
  <2>2. PICK refuse \in BOOLEAN : Signal(TRUE, refuse) /\ secured' = ~refuse
    BY <1>6 DEF Kill
  <2>3. /\ doomed' \in BOOLEAN /\ refused' \in BOOLEAN /\ struck' \in BOOLEAN
        /\ Contained' /\ (struck' => struck \/ stranger)
    BY <1>1, <2>1, <2>2, Killed
  <2>4. TypeOK'
    BY <1>1, <2>1, <2>2, <2>3 DEF TypeOK, Workers
  <2>5. GuardInv' /\ NumberInv'
    BY <1>1, <1>2, <1>3, <2>1, <2>3 DEF GuardInv, NumberInv, Watching
  <2> QED
    BY <2>4, <2>5
<1>7. CASE Reap
  <2>1. /\ worker = "reap" /\ worker' = "return" /\ secured' = secured /\ doomed' = doomed
        /\ refused' = refused /\ struck' = struck
        /\ \/ child' = "gone" /\ reaped' = TRUE
           \/ child' = child /\ reaped' = reaped
        /\ armed' = (armed /\ ~(IF setsid THEN secured ELSE reaped'))
    BY <1>7 DEF Reap, ReapOr
  <2>2. armed' \in BOOLEAN /\ reaped' \in BOOLEAN /\ (reaped' => child' = "gone")
    <3>1. armed' \in BOOLEAN
      BY <2>1 DEF TypeOK
    <3>2. CASE child' = "gone" /\ reaped' = TRUE
      BY <3>1, <3>2
    <3>3. CASE child' = child /\ reaped' = reaped
      BY <3>1, <3>3 DEF TypeOK
    <3> QED
      BY <2>1, <3>2, <3>3
  <2>3. child' = child \/ child' = "gone"
    BY <2>1
  <2>4. TypeOK'
    BY <1>1, <2>1, <2>2, <2>3 DEF TypeOK, Workers
  <2>5. ~armed' => IF setsid THEN secured ELSE reaped'
    BY <1>2, <2>1
  <2>6. Live' => Live
    BY <1>1, <2>3 DEF Live
  <2>7. ~armed' => Contained'
    <3>1. CASE setsid /\ secured
      <4>1. Contained
        BY <2>1, <3>1 DEF GuardInv
      <4> QED
        BY <2>1, <2>6, <4>1 DEF Contained
    <3>2. CASE ~setsid /\ reaped'
      BY <1>1, <2>2, <3>2 DEF Contained, Live
    <3> QED
      BY <2>5, <3>1, <3>2
  <2>8. GuardInv'
    BY <1>1, <2>1, <2>3, <2>7 DEF GuardInv, Watching
  <2>9. ~setsid' /\ child' = "gone" => ~armed'
    BY <1>1, <1>3, <2>1
  <2>10. stranger' => child' = "gone"
    BY <1>1, <2>3 DEF NumberInv
  <2>11. NumberInv'
    BY <1>1, <2>1, <2>9, <2>10 DEF NumberInv
  <2> QED
    BY <2>4, <2>8, <2>11
<1> QED
  BY <1>4, <1>5, <1>6, <1>7

(* Every step of the worker, its owner and the processes keeps the guard.  *)
LEMMA Step == IInv /\ [Next]_vars => IInv'
<1> SUFFICES ASSUME IInv, [Next]_vars PROVE IInv'
  OBVIOUS
<1>1. CASE UNCHANGED vars
  <2>1. /\ main' = main /\ active' = active /\ cancelled' = cancelled /\ commands' = commands
        /\ setsid' = setsid /\ worker' = worker /\ outcome' = outcome /\ armed' = armed
        /\ reaped' = reaped /\ secured' = secured /\ child' = child /\ ok' = ok
        /\ others' = others /\ doomed' = doomed /\ stranger' = stranger /\ refused' = refused
        /\ struck' = struck
    BY <1>1 DEF vars, mainVars, localVars, processVars
  <2>2. TypeOK'
    BY <2>1 DEF IInv, TypeOK
  <2>3. GuardInv' /\ NumberInv'
    BY <2>1 DEF IInv, GuardInv, NumberInv, Watching, Contained, Live
  <2> QED
    BY <2>2, <2>3 DEF IInv
<1> QED
  BY <1>1, ProcessStep, SupervisorStep, DropStep, WaitStep, KillStep DEF Next, RunCommand, Stopped

(* The variables keep their types, and a child that was reaped is gone.    *)
THEOREM TypeCorrect == Spec => []TypeOK
<1>1. IInv => TypeOK
  BY DEF IInv
<1> QED
  BY InitInv, Step, <1>1, PTL DEF Spec

(* When the worker of a command that did not succeed is at its end, what   *)
(* it started has ended or has been killed, however the main loop, the     *)
(* processes and the kernel interfered (terminate, ProcessGuard).          *)
THEOREM CommandsAreContained == Spec => []CommandIsContained
<1>1. IInv => CommandIsContained
  BY DEF IInv, GuardInv, Contained, Live, CommandIsContained
<1> QED
  BY InitInv, Step, <1>1, PTL DEF Spec

(* The number of an individual process is never signalled on behalf of a   *)
(* command once the kernel may have reused it (terminate,                  *)
(* ProcessGuard::disarm).                                                  *)
THEOREM NoStrangerIsStruck == Spec => []StrangersSpared
<1>1. IInv => StrangersSpared
  BY DEF IInv, NumberInv, StrangersSpared
<1> QED
  BY InitInv, Step, <1>1, PTL DEF Spec
=============================================================================
