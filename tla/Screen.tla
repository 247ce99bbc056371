-------------------------------- MODULE Screen --------------------------------
(***************************************************************************)
(* Input and drawing: the terminal event worker and its bounded queue      *)
(* (src/event.rs), the battery monitor (src/battery.rs), the redraws the   *)
(* IPC actor asks for (src/ipc.rs) and the main loop that takes the events *)
(* one by one and stops the workers at the end (src/main.rs).              *)
(*                                                                         *)
(* Asking for a redraw never waits: a full queue drops the request.  A key *)
(* and the redraw behind it wait for room.                                 *)
(***************************************************************************)
EXTENDS Naturals, Sequences

CONSTANTS
  Capacity,      (* EVENT_QUEUE_CAPACITY                                    *)
  MaxKeys,       (* bound: keys typed                                       *)
  MaxChanges     (* bound: changes by the IPC actor and by reloads          *)

ASSUME ScreenAssumption == Capacity \in Nat \ {0} /\ MaxKeys \in Nat /\ MaxChanges \in Nat

VARIABLES
  queue,         (* the events: Render, or the number of a key              *)
  worker, typed, (* run_worker, and the keys it has taken from the terminal *)
  main, handled, (* the main loop, and the last key it has handled          *)
  dirty,         (* does the screen differ from the Greeter                 *)
  ipc, changes,  (* the IPC actor: has it changed the Greeter and not asked *)
  battery, enabled, seen, sample, shown
                 (* run_monitor: where it is, the watched setting and       *)
                 (* whether its last change was seen, the reading, and what *)
                 (* the Greeter shows                                       *)

batteryVars == <<battery, enabled, seen, sample, shown>>
workerVars  == <<worker, typed>>
vars == <<queue, workerVars, main, handled, dirty, ipc, changes, batteryVars>>

Render == 0
Event == 0..MaxKeys
Running == main \in {"running", "key", "drawing"}

TypeOK ==
  /\ queue \in Seq(Event) /\ Len(queue) <= Capacity
  /\ worker \in {"starting", "select", "key", "render", "failed", "stopped"} /\ typed \in Event
  /\ main \in {"running", "key", "drawing", "leaving", "closing", "left"} /\ handled \in Event
  /\ dirty \in BOOLEAN /\ ipc \in {"idle", "changed"} /\ changes \in 0..MaxChanges
  /\ battery \in {"select", "reading", "store", "changed", "stopped"}
  /\ enabled \in BOOLEAN /\ seen \in BOOLEAN /\ sample \in BOOLEAN /\ shown \in BOOLEAN

Init ==
  /\ queue = <<>> /\ worker = "starting" /\ typed = 0
  /\ main = "running" /\ handled = 0 /\ dirty = TRUE
  /\ ipc = "idle" /\ changes = 0
  /\ battery = "select" /\ enabled \in BOOLEAN /\ seen = TRUE /\ sample = FALSE /\ shown = FALSE

(* request_render *)
RequestRender == queue' = IF Len(queue) < Capacity THEN Append(queue, Render) ELSE queue

-----------------------------------------------------------------------------
(* The event worker. *)
Working == UNCHANGED <<main, handled, dirty, ipc, changes, batteryVars>>

FirstRender ==
  /\ worker = "starting" /\ worker' = "select" /\ RequestRender
  /\ Working /\ UNCHANGED typed

(* The refresh interval ticks, or the terminal is resized. *)
RefreshTick ==
  /\ worker = "select" /\ main # "closing" /\ RequestRender
  /\ Working /\ UNCHANGED workerVars

ReadKey ==
  /\ worker = "select" /\ main # "closing" /\ typed < MaxKeys
  /\ worker' = "key" /\ typed' = typed + 1
  /\ Working /\ UNCHANGED queue

ReadFails ==
  /\ worker = "select" /\ main # "closing" /\ worker' = "failed"
  /\ Working /\ UNCHANGED <<queue, typed>>

(* Variant to refute: a key that finds the queue full is dropped. *)
TrySendKey ==
  /\ worker = "key" /\ worker' = "render"
  /\ queue' = IF Len(queue) < Capacity THEN Append(queue, typed) ELSE queue
  /\ Working /\ UNCHANGED typed

(* send_required, for the key and for the redraw behind it. *)
SendKey ==
  /\ worker = "key" /\ main # "closing" /\ Len(queue) < Capacity
  /\ queue' = Append(queue, typed) /\ worker' = "render"
  /\ Working /\ UNCHANGED typed

(* Variant to refute: the redraw is requested like any other. *)
TrySendRender ==
  /\ worker = "render" /\ RequestRender /\ worker' = "select"
  /\ Working /\ UNCHANGED typed

SendRender ==
  /\ worker = "render" /\ main # "closing" /\ Len(queue) < Capacity
  /\ queue' = Append(queue, Render) /\ worker' = "select"
  /\ Working /\ UNCHANGED typed

(* Variant to refute: the shutdown is not awaited while the queue is full. *)
StopAtSelect ==
  /\ main = "closing" /\ worker = "select" /\ worker' = "stopped"
  /\ Working /\ UNCHANGED <<queue, typed>>

StopWorker ==
  /\ main = "closing" /\ worker \in {"select", "key", "render"} /\ worker' = "stopped"
  /\ Working /\ UNCHANGED <<queue, typed>>

Worker == FirstRender \/ RefreshTick \/ ReadKey \/ ReadFails \/ SendKey \/ SendRender \/ StopWorker

-----------------------------------------------------------------------------
(* The IPC actor, as far as the screen goes: a change under the lock, and, *)
(* the lock released, a request to draw it.                                *)
ActorChange ==
  /\ ipc = "idle" /\ ipc' = "changed" /\ dirty' = TRUE
  /\ changes < MaxChanges /\ changes' = changes + 1
  /\ UNCHANGED <<queue, workerVars, main, handled, batteryVars>>

ActorRequest ==
  /\ ipc = "changed" /\ ipc' = "idle" /\ RequestRender
  /\ UNCHANGED <<workerVars, main, handled, dirty, changes, batteryVars>>

-----------------------------------------------------------------------------
(* The battery monitor. *)
Monitoring == UNCHANGED <<workerVars, main, handled, ipc, changes, enabled>>

(* The setting changed, or the sample interval ticked; the change has been *)
(* seen before the setting is read.                                        *)
Wake ==
  /\ battery = "select" /\ Running
  /\ seen' = TRUE
  /\ IF enabled THEN battery' = "reading" /\ UNCHANGED sample
     ELSE battery' = "store" /\ sample' = FALSE
  /\ Monitoring /\ UNCHANGED <<queue, dirty, shown>>
SettingChanged == ~seen /\ Wake
SampleTick == seen /\ Wake

(* Variant to refute: the setting is looked at again, and thereby seen. *)
ReadAndSee ==
  /\ battery = "reading" /\ battery' = "store" /\ sample' \in BOOLEAN /\ seen' = TRUE
  /\ Monitoring /\ UNCHANGED <<queue, dirty, shown>>

(* read_battery_info: there is a battery, or not. *)
ReadBattery ==
  /\ battery = "reading" /\ battery' = "store" /\ sample' \in BOOLEAN
  /\ Monitoring /\ UNCHANGED <<queue, dirty, seen, shown>>

StoreBattery ==
  /\ battery = "store" /\ shown' = sample
  /\ IF shown = sample THEN battery' = "select" /\ UNCHANGED dirty
     ELSE battery' = "changed" /\ dirty' = TRUE
  /\ Monitoring /\ UNCHANGED <<queue, seen, sample>>

RequestBattery ==
  /\ battery = "changed" /\ battery' = "select" /\ RequestRender
  /\ Monitoring /\ UNCHANGED <<dirty, seen, sample, shown>>

(* Told to stop it stops in its select; after a second it is aborted.      *)
StopBattery ==
  /\ main = "leaving" /\ battery # "stopped" /\ battery' = "stopped"
  /\ Monitoring /\ UNCHANGED <<queue, dirty, seen, sample, shown>>

Battery == SettingChanged \/ ReadBattery \/ StoreBattery \/ RequestBattery \/ StopBattery

-----------------------------------------------------------------------------
(* The main loop. *)
Looping == UNCHANGED <<workerVars, ipc, battery, sample, shown>>
Setting == UNCHANGED <<changes, enabled, seen>>

(* Events::next_result: the end of the worker comes first. *)
WorkerFailed ==
  /\ main = "running" /\ worker = "failed" /\ main' = "leaving"
  /\ Looping /\ Setting /\ UNCHANGED <<queue, handled, dirty>>

Receive ==
  /\ main = "running" /\ worker # "failed" /\ queue # <<>>
  /\ queue' = Tail(queue)
  /\ IF Head(queue) = Render
     THEN main' = "drawing" /\ UNCHANGED handled
     ELSE main' = "key" /\ handled' = Head(queue)
  /\ Looping /\ Setting /\ UNCHANGED dirty

HandleKey ==
  /\ main = "key" /\ main' = "running" /\ dirty' = TRUE
  /\ Looping /\ Setting /\ UNCHANGED <<queue, handled>>

(* ui::draw reads the Greeter under its lock. *)
Draw ==
  /\ main = "drawing" /\ main' = "running" /\ dirty' = FALSE
  /\ Looping /\ Setting /\ UNCHANGED <<queue, handled>>

(* The cursor blinks, or a branch of the loop draws what it has changed.   *)
DrawNow ==
  /\ main = "running" /\ dirty' = FALSE
  /\ Looping /\ Setting /\ UNCHANGED <<queue, main, handled>>

(* A reload switches the battery on or off and draws. *)
SetEnabled ==
  /\ main = "running" /\ changes < MaxChanges /\ changes' = changes + 1
  /\ enabled' = ~enabled /\ seen' = FALSE /\ dirty' = FALSE
  /\ Looping /\ UNCHANGED <<queue, main, handled>>

Leave ==
  /\ main = "running" /\ main' = "leaving"
  /\ Looping /\ Setting /\ UNCHANGED <<queue, handled, dirty>>

StopEvents ==
  /\ main = "leaving" /\ battery = "stopped" /\ main' = "closing"
  /\ Looping /\ Setting /\ UNCHANGED <<queue, handled, dirty>>

Left ==
  /\ main = "closing" /\ worker \in {"failed", "stopped"} /\ main' = "left"
  /\ Looping /\ Setting /\ UNCHANGED <<queue, handled, dirty>>

Main == WorkerFailed \/ Receive \/ HandleKey \/ Draw \/ DrawNow \/ SetEnabled \/ Leave
        \/ StopEvents \/ Left

Stopped == main = "left" /\ UNCHANGED vars

Next == Worker \/ ActorChange \/ ActorRequest \/ Battery \/ SampleTick \/ Main \/ Stopped

Spec == Init /\ [][Next]_vars

(* The tasks are polled.  No key has to come, nobody has to leave, and the *)
(* intervals are not counted on.                                           *)
Fairness ==
  /\ WF_vars(FirstRender \/ SendKey \/ SendRender \/ StopWorker) /\ WF_vars(ActorRequest)
  /\ WF_vars(Battery)
  /\ WF_vars(Receive \/ HandleKey \/ Draw \/ WorkerFailed) /\ WF_vars(StopEvents \/ Left)
FairSpec == Spec /\ Fairness

-----------------------------------------------------------------------------
(* A change is drawn even when its redraw was dropped: as long as the      *)
(* screen is out of date a redraw is queued, being drawn, or about to be   *)
(* asked for (request_render, send_required).                              *)
DrawIsComing ==
  dirty /\ Running =>
    \/ \E i \in DOMAIN queue : queue[i] = Render
    \/ main = "drawing" \/ ipc = "changed" \/ battery = "changed"
    \/ worker \in {"starting", "render"}

(* No key is lost or overtaken on its way to the keyboard handler          *)
(* (send_required).                                                        *)
KeysInOrder == [][handled' # handled => handled' = handled + 1]_vars

(* A battery display that is switched off goes away, also when a reading   *)
(* is under way (run_monitor, set_enabled).                                *)
BatteryGoesAway == ~enabled ~> ~shown \/ enabled \/ ~Running

(* The event worker stops when it is told to, also with a full queue that  *)
(* nobody reads any more (send_required, EventWorker::shutdown).           *)
ScreenCloses == main = "leaving" ~> main = "left"
=============================================================================
