----------------------------- MODULE ScreenProofs -----------------------------
(***************************************************************************)
(* Screen, proved for every capacity and any number of keys and changes:   *)
(* no change stays undrawn, and keys arrive in the order they were typed.  *)
(*                                                                         *)
(* The first rests on the redraw behind every key: a queue without a       *)
(* redraw in it, when its last key came, leaves the worker about to send   *)
(* one, so a queue that is full and drops a request already holds one or   *)
(* has one coming.  The second relates the keys in the queue to the last   *)
(* one sent and to the last one handled.                                   *)
(***************************************************************************)
EXTENDS Screen, TLAPS

Open == main \notin {"closing", "left"}

RenderQueued == \E i \in 1..Len(queue) : queue[i] = Render

(* The key that is on its way to the queue is not sent yet. *)
Sent == IF worker = "key" THEN typed - 1 ELSE typed

KeysAreFollowed ==
  Open =>
    \A i \in 1..Len(queue) : queue[i] # Render =>
      worker = "render" \/ \E j \in 1..Len(queue) : i < j /\ queue[j] = Render

HandledIsFollowed == main = "key" => worker = "render" \/ RenderQueued

KeysAreSorted ==
  Open =>
    /\ worker = "key" => typed > 0
    /\ \A i \in 1..Len(queue) : queue[i] # Render =>
         /\ queue[i] <= Sent
         /\ \A j \in 1..Len(queue) : queue[j] # Render /\ i < j => queue[i] < queue[j]
         /\ \/ queue[i] = handled + 1
            \/ \E j \in 1..Len(queue) : j < i /\ queue[j] # Render /\ queue[j] = queue[i] - 1
    /\ \/ Sent = handled
       \/ \E i \in 1..Len(queue) : queue[i] # Render /\ queue[i] = Sent

DrawComes ==
  dirty /\ Running =>
    \/ RenderQueued \/ main = "drawing" \/ ipc = "changed" \/ battery = "changed"
    \/ worker \in {"starting", "render"}

IInv == TypeOK /\ KeysAreFollowed /\ HandledIsFollowed /\ KeysAreSorted /\ DrawComes

-----------------------------------------------------------------------------
(* The queue under its two operations. *)
LEMMA Appended ==
  ASSUME queue \in Seq(Event), NEW e \in Event, queue' = Append(queue, e)
  PROVE  /\ queue' \in Seq(Event) /\ Len(queue) \in Nat /\ Len(queue') = Len(queue) + 1
         /\ \A i \in 1..Len(queue) : queue'[i] = queue[i] /\ queue[i] \in Event
         /\ queue'[Len(queue) + 1] = e
  OBVIOUS

(* The first event is taken. *)
LEMMA Dequeued ==
  ASSUME queue \in Seq(Event), queue # <<>>, queue' = Tail(queue)
  PROVE  /\ queue' \in Seq(Event) /\ Len(queue) \in Nat \ {0} /\ Len(queue') = Len(queue) - 1
         /\ \A i \in 1..Len(queue) : queue[i] \in Event
         /\ \A i \in 1..Len(queue') : queue'[i] = queue[i + 1]
         /\ Head(queue) = queue[1]
  OBVIOUS

(* A request that is dropped finds the queue full. *)
LEMMA Requested ==
  ASSUME TypeOK, RequestRender
  PROVE  /\ queue' \in Seq(Event) /\ Len(queue') <= Capacity
         /\ \/ queue' = Append(queue, Render)
            \/ queue' = queue /\ Len(queue) = Capacity
<1>1. Render \in Event
  BY ScreenAssumption DEF Render, Event
<1>2. CASE Len(queue) < Capacity
  <2>1. queue' = Append(queue, Render)
    BY <1>2 DEF RequestRender
  <2> QED
    BY <1>1, <1>2, <2>1, Appended, ScreenAssumption DEF TypeOK
<1>3. CASE ~(Len(queue) < Capacity)
  BY <1>3, ScreenAssumption DEF RequestRender, TypeOK
<1> QED
  BY <1>2, <1>3

(* A redraw that is asked for is in the queue, or behind the key that      *)
(* filled it (request_render).                                             *)
LEMMA RequestedIsComing ==
  ASSUME TypeOK, KeysAreFollowed, Open, RequestRender
  PROVE  RenderQueued' \/ worker = "render"
<1>1. CASE queue' = Append(queue, Render)
  <2>1. Render \in Event
    BY ScreenAssumption DEF Render, Event
  <2>2. /\ Len(queue) \in Nat /\ Len(queue') = Len(queue) + 1
        /\ queue'[Len(queue) + 1] = Render
    BY <1>1, <2>1, Appended DEF TypeOK
  <2> QED
    BY <2>2 DEF RenderQueued
<1>2. CASE queue' = queue /\ Len(queue) = Capacity
  <2>1. 1 \in 1..Len(queue)
    BY <1>2, ScreenAssumption
  <2> QED
    BY <1>2, <2>1 DEF KeysAreFollowed, RenderQueued
<1> QED
  BY <1>1, <1>2, Requested

(* What relates the keys to one another survives a step that leaves them   *)
(* alone.                                                                  *)
LEMMA QueueStays ==
  ASSUME KeysAreFollowed, KeysAreSorted, UNCHANGED <<queue, worker, typed, handled>>,
         Open' => Open
  PROVE  KeysAreFollowed' /\ KeysAreSorted'
<1>1. queue' = queue /\ worker' = worker /\ typed' = typed /\ handled' = handled
  OBVIOUS
<1> QED
  BY <1>1 DEF KeysAreFollowed, KeysAreSorted, Sent

(* A redraw behind the keys follows all of them. *)
LEMMA RenderAppended ==
  ASSUME TypeOK, KeysAreSorted, queue' = Append(queue, Render),
         typed' = typed, handled' = handled, Sent' = Sent, worker' = "key" => worker = "key",
         Open' => Open
  PROVE  KeysAreFollowed' /\ KeysAreSorted' /\ RenderQueued'
<1>1. Render \in Event
  BY ScreenAssumption DEF Render, Event
<1>2. /\ Len(queue) \in Nat /\ Len(queue') = Len(queue) + 1
      /\ \A i \in 1..Len(queue) : queue'[i] = queue[i] /\ queue[i] \in Event
      /\ queue'[Len(queue) + 1] = Render
  BY <1>1, Appended DEF TypeOK
<1>3. KeysAreFollowed' /\ RenderQueued'
  BY <1>2 DEF KeysAreFollowed, RenderQueued
<1>4. SUFFICES ASSUME Open' PROVE KeysAreSorted'
  BY <1>3 DEF KeysAreSorted
<1>5. \A i \in 1..Len(queue') : queue'[i] # Render => i \in 1..Len(queue)
  BY <1>2
<1>6. ASSUME NEW i \in 1..Len(queue'), queue'[i] # Render
      PROVE  /\ queue'[i] <= Sent'
             /\ \A j \in 1..Len(queue') : queue'[j] # Render /\ i < j => queue'[i] < queue'[j]
             /\ \/ queue'[i] = handled' + 1
                \/ \E j \in 1..Len(queue') :
                     j < i /\ queue'[j] # Render /\ queue'[j] = queue'[i] - 1
  BY <1>2, <1>4, <1>5, <1>6 DEF KeysAreSorted
<1>7. \/ Sent' = handled'
      \/ \E i \in 1..Len(queue') : queue'[i] # Render /\ queue'[i] = Sent'
  BY <1>2, <1>4 DEF KeysAreSorted
<1> QED
  BY <1>6, <1>7 DEF KeysAreSorted

(* Both at once, for a redraw that may be dropped. *)
LEMMA RequestKeepsOrder ==
  ASSUME TypeOK, KeysAreFollowed, KeysAreSorted, RequestRender,
         typed' = typed, handled' = handled, Open' => Open,
         \/ worker' = worker
         \/ {worker, worker'} \cap {"key", "render"} = {}
  PROVE  KeysAreFollowed' /\ KeysAreSorted'
<1>1. Sent' = Sent /\ (worker' = "key" => worker = "key")
  BY DEF Sent
<1>2. CASE queue' = Append(queue, Render)
  BY <1>1, <1>2, RenderAppended
<1>3. CASE queue' = queue
  <2>1. KeysAreFollowed'
    BY <1>3 DEF KeysAreFollowed
  <2>2. KeysAreSorted'
    BY <1>1, <1>3 DEF KeysAreSorted
  <2> QED
    BY <2>1, <2>2
<1> QED
  BY <1>2, <1>3, Requested

(* Nothing has been typed, and the worker is about to ask for the first    *)
(* drawing.                                                                *)
LEMMA InitInv == Init => IInv
<1> SUFFICES ASSUME Init PROVE IInv
  OBVIOUS
<1>1. queue \in Seq(Event) /\ Len(queue) = 0
  BY DEF Init
<1>2. TypeOK
  <2>1. queue \in Seq(Event) /\ Len(queue) <= Capacity /\ typed \in Event /\ handled \in Event
        /\ changes \in 0..MaxChanges
    BY <1>1, ScreenAssumption DEF Init, Event
  <2> QED
    BY <2>1 DEF Init, TypeOK
<1>3. KeysAreFollowed /\ KeysAreSorted
  BY <1>1 DEF Init, KeysAreFollowed, KeysAreSorted, Sent
<1>4. HandledIsFollowed /\ DrawComes
  BY DEF Init, HandledIsFollowed, DrawComes
<1> QED
  BY <1>2, <1>3, <1>4 DEF IInv

-----------------------------------------------------------------------------
(* The steps that leave the queue and the keys alone. *)
LEMMA QuietStep ==
  ASSUME IInv,
         \/ ActorChange \/ SettingChanged \/ SampleTick \/ ReadBattery \/ StoreBattery \/ StopBattery
         \/ WorkerFailed \/ HandleKey \/ Draw \/ DrawNow \/ SetEnabled \/ Leave \/ StopEvents \/ Left
         \/ Stopped \/ UNCHANGED vars
  PROVE  IInv'
<1> DEFINE Same == /\ queue' = queue /\ worker' = worker /\ typed' = typed /\ handled' = handled
<1> USE DEF workerVars, batteryVars, vars
<1>1. CASE ActorChange
  <2>1. Same /\ main' = main /\ ipc' = "changed" /\ dirty' = TRUE
    BY <1>1 DEF ActorChange
  <2>2. TypeOK'
    <3>1. changes' \in 0..MaxChanges
      BY <1>1, ScreenAssumption DEF ActorChange, IInv, TypeOK
    <3> QED
      BY <1>1, <2>1, <3>1 DEF ActorChange, IInv, TypeOK
  <2> QED
    BY <2>1, <2>2, QueueStays DEF IInv, Open, HandledIsFollowed, RenderQueued, DrawComes, Running
<1>2. CASE SettingChanged \/ SampleTick \/ ReadBattery
  <2>1. Same /\ main' = main /\ ipc' = ipc /\ dirty' = dirty /\ battery # "changed"
    BY <1>2 DEF SettingChanged, SampleTick, Wake, ReadBattery, Monitoring
  <2>2. /\ battery' \in {"reading", "store"} /\ enabled' = enabled /\ shown' = shown
        /\ changes' = changes /\ (seen' = seen \/ seen' = TRUE)
        /\ (sample' = sample \/ sample' \in BOOLEAN)
    BY <1>2 DEF SettingChanged, SampleTick, Wake, ReadBattery, Monitoring
  <2>3. TypeOK'
    <3>1. enabled' \in BOOLEAN /\ shown' \in BOOLEAN /\ seen' \in BOOLEAN
      BY <2>2 DEF IInv, TypeOK
    <3>2. sample' \in BOOLEAN
      BY <2>2 DEF IInv, TypeOK
    <3> QED
      BY <2>1, <2>2, <3>1, <3>2 DEF IInv, TypeOK
  <2> QED
    BY <2>1, <2>3, QueueStays DEF IInv, Open, HandledIsFollowed, RenderQueued, DrawComes, Running
<1>3. CASE StoreBattery \/ StopBattery
  <2>1. Same /\ main' = main /\ ipc' = ipc
    BY <1>3 DEF StoreBattery, StopBattery, Monitoring
  <2>2. /\ battery' \in {"select", "changed", "stopped"} /\ enabled' = enabled /\ seen' = seen
        /\ changes' = changes /\ sample' = sample
        /\ (shown' = shown \/ shown' = sample) /\ (dirty' = dirty \/ dirty' = TRUE)
    BY <1>3 DEF StoreBattery, StopBattery, Monitoring
  <2>3. shown' \in BOOLEAN /\ dirty' \in BOOLEAN
    BY <2>2, Zenon DEF IInv, TypeOK
  <2>4. TypeOK'
    BY <2>1, <2>2, <2>3 DEF IInv, TypeOK
  <2>5. DrawComes'
    BY <1>3, <2>1 DEF StoreBattery, StopBattery, IInv, RenderQueued, DrawComes, Running
  <2> QED
    BY <2>1, <2>4, <2>5, QueueStays DEF IInv, Open, HandledIsFollowed, RenderQueued
<1>4. CASE WorkerFailed \/ HandleKey \/ Draw \/ DrawNow \/ SetEnabled \/ Leave \/ StopEvents \/ Left
  <2>1. Same /\ ipc' = ipc /\ battery' = battery /\ sample' = sample /\ shown' = shown
    BY <1>4 DEF WorkerFailed, HandleKey, Draw, DrawNow, SetEnabled, Leave, StopEvents, Left, Looping
  <2>2. /\ main' \in {"running", "leaving", "closing", "left"} /\ (Open' => Open)
        /\ dirty' = dirty \/ dirty' \in {TRUE, FALSE}
    BY <1>4 DEF WorkerFailed, HandleKey, Draw, DrawNow, SetEnabled, Leave, StopEvents, Left, Open
  <2>3. \/ enabled' = enabled /\ seen' = seen /\ changes' = changes
        \/ SetEnabled
    BY <1>4 DEF WorkerFailed, HandleKey, Draw, DrawNow, Leave, StopEvents, Left, Setting
  <2>4. enabled' \in BOOLEAN /\ seen' \in BOOLEAN /\ changes' \in 0..MaxChanges
    <3>1. CASE SetEnabled
      <4>1. enabled' = ~enabled /\ seen' = FALSE
        BY <3>1 DEF SetEnabled
      <4>2. changes' \in 0..MaxChanges
        BY <3>1, ScreenAssumption DEF SetEnabled, IInv, TypeOK
      <4> QED
        BY <4>1, <4>2
    <3>2. CASE enabled' = enabled /\ seen' = seen /\ changes' = changes
      BY <3>2 DEF IInv, TypeOK
    <3> QED
      BY <2>3, <3>1, <3>2
  <2>5. TypeOK'
    <3>1. dirty' \in BOOLEAN
      BY <2>2 DEF IInv, TypeOK
    <3> QED
      BY <2>1, <2>2, <2>4, <3>1 DEF IInv, TypeOK
  <2>6. dirty' /\ Running' => main = "key"
    BY <1>4 DEF WorkerFailed, HandleKey, Draw, DrawNow, SetEnabled, Leave, StopEvents, Left, Running
  <2>7. DrawComes' /\ HandledIsFollowed'
    BY <2>1, <2>2, <2>6 DEF IInv, DrawComes, HandledIsFollowed, RenderQueued
  <2> QED
    BY <2>1, <2>2, <2>5, <2>7, QueueStays DEF IInv
<1>5. CASE Stopped \/ UNCHANGED vars
  <2>1. /\ Same /\ main' = main /\ ipc' = ipc /\ dirty' = dirty /\ battery' = battery
        /\ changes' = changes /\ enabled' = enabled /\ seen' = seen /\ sample' = sample
        /\ shown' = shown
    BY <1>5 DEF Stopped
  <2>2. TypeOK' /\ HandledIsFollowed' /\ DrawComes'
    BY <2>1 DEF IInv, TypeOK, HandledIsFollowed, DrawComes, RenderQueued, Running
  <2> QED
    BY <2>1, <2>2, QueueStays DEF IInv, Open
<1> QED
  BY <1>1, <1>2, <1>3, <1>4, <1>5

(* The steps that ask for a redraw without waiting. *)
LEMMA RequestStep ==
  ASSUME IInv, FirstRender \/ RefreshTick \/ ActorRequest \/ RequestBattery
  PROVE  IInv'
<1>1. /\ RequestRender /\ typed' = typed /\ handled' = handled /\ main' = main /\ dirty' = dirty
      /\ changes' = changes /\ enabled' = enabled /\ seen' = seen /\ sample' = sample
      /\ shown' = shown
  BY DEF FirstRender, RefreshTick, ActorRequest, RequestBattery, Working, Monitoring, workerVars,
         batteryVars
<1>2. /\ worker' = worker \/ (worker = "starting" /\ worker' = "select")
      /\ ipc' = ipc \/ ipc' = "idle"
      /\ battery' = battery \/ battery' = "select"
  BY DEF FirstRender, RefreshTick, ActorRequest, RequestBattery, Working, Monitoring, workerVars,
         batteryVars
<1>3. TypeOK'
  BY <1>1, <1>2, Requested DEF IInv, TypeOK
<1>4. KeysAreFollowed' /\ KeysAreSorted'
  BY <1>1, <1>2, RequestKeepsOrder DEF IInv, Open
<1>5. Open => RenderQueued' \/ worker = "render"
  BY <1>1, RequestedIsComing DEF IInv
<1>6. HandledIsFollowed' /\ DrawComes'
  BY <1>1, <1>2, <1>5 DEF HandledIsFollowed, DrawComes, Open, Running
<1> QED
  BY <1>3, <1>4, <1>6 DEF IInv

(* The steps of the worker that read and send keys, or end it. *)
LEMMA WorkerStep ==
  ASSUME IInv, ReadKey \/ ReadFails \/ SendKey \/ SendRender \/ StopWorker
  PROVE  IInv'
<1>1. /\ main' = main /\ handled' = handled /\ dirty' = dirty /\ ipc' = ipc /\ changes' = changes
      /\ battery' = battery /\ enabled' = enabled /\ seen' = seen /\ sample' = sample
      /\ shown' = shown
  BY DEF ReadKey, ReadFails, SendKey, SendRender, StopWorker, Working, batteryVars
<1> USE DEF IInv
<1>2. CASE ReadKey
  <2>1. /\ worker = "select" /\ worker' = "key" /\ typed < MaxKeys /\ typed' = typed + 1
        /\ queue' = queue
    BY <1>2 DEF ReadKey
  <2>2. typed \in Nat /\ typed' \in Event /\ typed' > 0 /\ Sent' = Sent
    BY <2>1, ScreenAssumption DEF TypeOK, Event, Sent
  <2>3. TypeOK'
    BY <1>1, <2>1, <2>2 DEF TypeOK
  <2>4. KeysAreFollowed' /\ HandledIsFollowed' /\ DrawComes'
    BY <1>1, <2>1 DEF KeysAreFollowed, HandledIsFollowed, DrawComes, RenderQueued, Open, Running
  <2>5. KeysAreSorted'
    BY <1>1, <2>1, <2>2 DEF KeysAreSorted, Open
  <2> QED
    BY <2>3, <2>4, <2>5
<1>3. CASE ReadFails
  <2>1. worker = "select" /\ worker' = "failed" /\ typed' = typed /\ queue' = queue
    BY <1>3 DEF ReadFails
  <2>2. TypeOK'
    BY <1>1, <2>1 DEF TypeOK
  <2>3. KeysAreFollowed' /\ HandledIsFollowed' /\ DrawComes'
    BY <1>1, <2>1 DEF KeysAreFollowed, HandledIsFollowed, DrawComes, RenderQueued, Open, Running
  <2>4. KeysAreSorted'
    BY <1>1, <2>1 DEF KeysAreSorted, Open, Sent
  <2> QED
    BY <2>2, <2>3, <2>4
<1>4. CASE SendKey
  <2>1. /\ worker = "key" /\ worker' = "render" /\ typed' = typed /\ Len(queue) < Capacity
        /\ queue' = Append(queue, typed) /\ typed \in Event
    BY <1>4 DEF SendKey, TypeOK
  <2>2. /\ queue' \in Seq(Event) /\ Len(queue) \in Nat /\ Len(queue') = Len(queue) + 1
        /\ \A i \in 1..Len(queue) : queue'[i] = queue[i] /\ queue[i] \in Event
        /\ queue'[Len(queue) + 1] = typed
    BY <2>1, Appended DEF TypeOK
  <2>3. TypeOK'
    BY <1>1, <2>1, <2>2, ScreenAssumption DEF TypeOK
  <2>4. KeysAreFollowed' /\ HandledIsFollowed' /\ DrawComes'
    BY <1>1, <2>1 DEF KeysAreFollowed, HandledIsFollowed, DrawComes
  <2> SUFFICES ASSUME Open PROVE KeysAreSorted'
    BY <1>1, <2>3, <2>4 DEF KeysAreSorted, Open
  <2>5. typed \in Nat /\ handled \in Nat /\ typed > 0 /\ Sent = typed - 1 /\ Sent' = typed
    BY <2>1 DEF KeysAreSorted, Sent, Event, TypeOK
  <2>6. ASSUME NEW i \in 1..Len(queue), queue[i] # Render
        PROVE  /\ queue[i] < typed
               /\ \A j \in 1..Len(queue) : queue[j] # Render /\ i < j => queue[i] < queue[j]
               /\ \/ queue[i] = handled + 1
                  \/ \E j \in 1..Len(queue) :
                       j < i /\ queue[j] # Render /\ queue[j] = queue[i] - 1
    BY <2>1, <2>2, <2>5, <2>6 DEF KeysAreSorted, Event
  <2>7. ASSUME NEW i \in 1..Len(queue'), queue'[i] # Render
        PROVE  /\ queue'[i] <= Sent'
               /\ \A j \in 1..Len(queue') : queue'[j] # Render /\ i < j => queue'[i] < queue'[j]
    <3>1. CASE i \in 1..Len(queue)
      <4>1. ASSUME NEW j \in 1..Len(queue'), queue'[j] # Render, i < j
            PROVE  queue'[i] < queue'[j]
        <5>1. CASE j \in 1..Len(queue)
          BY <2>2, <2>6, <2>7, <3>1, <4>1, <5>1
        <5>2. CASE j = Len(queue) + 1
          BY <2>2, <2>6, <2>7, <3>1, <5>2
        <5> QED
          BY <2>2, <5>1, <5>2
      <4>2. queue'[i] <= Sent'
        BY <2>2, <2>5, <2>6, <2>7, <3>1 DEF Event
      <4> QED
        BY <4>1, <4>2
    <3>2. CASE i = Len(queue) + 1
      BY <2>2, <2>5, <3>2
    <3> QED
      BY <2>2, <3>1, <3>2
  <2>8. ASSUME NEW i \in 1..Len(queue'), queue'[i] # Render
        PROVE  \/ queue'[i] = handled' + 1
               \/ \E j \in 1..Len(queue') :
                    j < i /\ queue'[j] # Render /\ queue'[j] = queue'[i] - 1
    <3>1. CASE i \in 1..Len(queue)
      BY <1>1, <2>2, <2>6, <2>8, <3>1
    <3>2. CASE i = Len(queue) + 1
      <4>1. \/ typed = handled + 1
            \/ \E j \in 1..Len(queue) : queue[j] # Render /\ queue[j] = typed - 1
        BY <2>1, <2>5 DEF KeysAreSorted
      <4> QED
        BY <1>1, <2>2, <3>2, <4>1
    <3> QED
      BY <2>2, <3>1, <3>2
  <2> QED
    BY <2>1, <2>2, <2>5, <2>7, <2>8 DEF KeysAreSorted, Render
<1>5. CASE SendRender
  <2>1. /\ worker = "render" /\ worker' = "select" /\ typed' = typed /\ Len(queue) < Capacity
        /\ queue' = Append(queue, Render) /\ Sent' = Sent /\ (Open' => Open)
    BY <1>1, <1>5 DEF SendRender, Sent, Open
  <2>2. queue' \in Seq(Event) /\ Len(queue) \in Nat /\ Len(queue') = Len(queue) + 1
    BY <2>1, Appended, ScreenAssumption DEF TypeOK, Render, Event
  <2>3. TypeOK'
    BY <1>1, <2>1, <2>2, ScreenAssumption DEF TypeOK
  <2>4. KeysAreFollowed' /\ KeysAreSorted' /\ RenderQueued'
    BY <1>1, <2>1, RenderAppended
  <2> QED
    BY <2>3, <2>4 DEF HandledIsFollowed, DrawComes
<1>6. CASE StopWorker
  <2>1. main = "closing" /\ worker' = "stopped" /\ typed' = typed /\ queue' = queue
    BY <1>6 DEF StopWorker
  <2>2. TypeOK'
    BY <1>1, <2>1 DEF TypeOK
  <2> QED
    BY <1>1, <2>1, <2>2 DEF KeysAreFollowed, KeysAreSorted, HandledIsFollowed, DrawComes, Open, Running
<1> QED
  BY <1>2, <1>3, <1>4, <1>5, <1>6

(* The main loop takes the first event. *)
LEMMA ReceiveStep ==
  ASSUME IInv, Receive
  PROVE  IInv' /\ (handled' # handled => handled' = handled + 1)
<1>1. /\ main = "running" /\ queue # <<>> /\ queue' = Tail(queue)
      /\ worker' = worker /\ typed' = typed /\ dirty' = dirty /\ ipc' = ipc
      /\ battery' = battery /\ sample' = sample /\ shown' = shown
      /\ changes' = changes /\ enabled' = enabled /\ seen' = seen
  BY DEF Receive, Looping, Setting, workerVars
<1>2. /\ queue' \in Seq(Event) /\ Len(queue) \in Nat \ {0} /\ Len(queue') = Len(queue) - 1
      /\ \A i \in 1..Len(queue) : queue[i] \in Event
      /\ \A i \in 1..Len(queue') : queue'[i] = queue[i + 1]
      /\ Head(queue) = queue[1]
  BY <1>1, Dequeued DEF IInv, TypeOK
<1>3. /\ \A i \in 1..Len(queue') : i + 1 \in 1..Len(queue)
      /\ \A i \in 1..Len(queue) : i # 1 => i - 1 \in 1..Len(queue') /\ queue'[i - 1] = queue[i]
  BY <1>2
<1>4. \/ queue[1] = Render /\ main' = "drawing" /\ handled' = handled
      \/ queue[1] # Render /\ main' = "key" /\ handled' = queue[1]
  BY <1>2 DEF Receive
<1>5. Open /\ Open' /\ Sent' = Sent /\ 1 \in 1..Len(queue)
  BY <1>1, <1>2, <1>4 DEF Open, Sent
<1>6. TypeOK'
  BY <1>1, <1>2, <1>4, <1>5, ScreenAssumption DEF IInv, TypeOK
<1>7. KeysAreFollowed'
  <2>1. ASSUME NEW i \in 1..Len(queue'), queue'[i] # Render, worker # "render"
        PROVE  \E j \in 1..Len(queue') : i < j /\ queue'[j] = Render
    <3>1. PICK j \in 1..Len(queue) : i + 1 < j /\ queue[j] = Render
      BY <1>2, <1>3, <1>5, <2>1 DEF IInv, KeysAreFollowed
    <3> QED
      BY <1>2, <1>3, <3>1
  <2> QED
    BY <1>1, <2>1 DEF KeysAreFollowed
<1>8. HandledIsFollowed'
  <2>1. CASE queue[1] # Render /\ worker # "render"
    <3>1. PICK j \in 1..Len(queue) : 1 < j /\ queue[j] = Render
      BY <1>5, <2>1 DEF IInv, KeysAreFollowed
    <3> QED
      BY <1>3, <3>1 DEF HandledIsFollowed, RenderQueued
  <2> QED
    BY <1>1, <1>4, <2>1 DEF HandledIsFollowed
<1>9. DrawComes'
  BY <1>1, <1>4, <1>8 DEF IInv, DrawComes, HandledIsFollowed
<1>10. /\ handled \in Nat /\ typed \in Nat
       /\ \A i \in 1..Len(queue) : queue[i] \in Nat
       /\ queue[1] # Render => queue[1] = handled + 1
  BY <1>2, <1>5 DEF IInv, KeysAreSorted, TypeOK, Event
<1>11. KeysAreSorted'
  <2>1. ASSUME NEW i \in 1..Len(queue'), queue'[i] # Render
        PROVE  /\ queue'[i] <= Sent'
               /\ \A j \in 1..Len(queue') : queue'[j] # Render /\ i < j => queue'[i] < queue'[j]
    BY <1>2, <1>3, <1>5, <2>1 DEF IInv, KeysAreSorted
  <2>2. ASSUME NEW i \in 1..Len(queue'), queue'[i] # Render
        PROVE  \/ queue'[i] = handled' + 1
               \/ \E j \in 1..Len(queue') :
                    j < i /\ queue'[j] # Render /\ queue'[j] = queue'[i] - 1
    <3>1. i + 1 \in 1..Len(queue) /\ queue'[i] = queue[i + 1] /\ queue[i + 1] # Render
      BY <1>2, <1>3, <2>2
    <3>2. queue[1] # Render => queue[i + 1] # handled + 1
      BY <1>5, <1>10, <3>1 DEF IInv, KeysAreSorted
    <3>3. CASE queue[i + 1] = handled + 1
      BY <1>4, <3>1, <3>2, <3>3
    <3>4. CASE queue[i + 1] # handled + 1
      <4>1. PICK j \in 1..Len(queue) :
              j < i + 1 /\ queue[j] # Render /\ queue[j] = queue[i + 1] - 1
        BY <1>5, <3>1, <3>4 DEF IInv, KeysAreSorted
      <4>2. CASE j = 1
        BY <1>4, <1>10, <3>1, <4>1, <4>2
      <4>3. CASE j # 1
        BY <1>2, <1>3, <3>1, <4>1, <4>3
      <4> QED
        BY <4>2, <4>3
    <3> QED
      BY <3>3, <3>4
  <2>3. \/ Sent' = handled'
        \/ \E i \in 1..Len(queue') : queue'[i] # Render /\ queue'[i] = Sent'
    <3>1. CASE Sent = handled
      <4>1. queue[1] = Render
        BY <1>5, <1>10, <3>1 DEF IInv, KeysAreSorted
      <4> QED
        BY <1>4, <1>5, <3>1, <4>1
    <3>2. CASE \E i \in 1..Len(queue) : queue[i] # Render /\ queue[i] = Sent
      <4>1. PICK i \in 1..Len(queue) : queue[i] # Render /\ queue[i] = Sent
        BY <3>2
      <4> QED
        BY <1>3, <1>4, <1>5, <4>1
    <3> QED
      BY <1>5, <3>1, <3>2 DEF IInv, KeysAreSorted
  <2>4. worker' # "key" \/ typed' > 0
    BY <1>1, <1>5 DEF IInv, KeysAreSorted
  <2> QED
    BY <2>1, <2>2, <2>3, <2>4 DEF KeysAreSorted
<1> QED
  BY <1>4, <1>6, <1>7, <1>8, <1>9, <1>10, <1>11 DEF IInv

(* Every step of the tasks and of the main loop keeps the invariant.       *)
LEMMA Step == IInv /\ [Next]_vars => IInv'
  BY QuietStep, RequestStep, WorkerStep, ReceiveStep DEF Next, Worker, Battery, Main

(* The variables keep their types; in particular the queue never holds     *)
(* more than its capacity (request_render, send_required).                 *)
THEOREM TypeCorrect == Spec => []TypeOK
<1>1. IInv => TypeOK
  BY DEF IInv
<1> QED
  BY InitInv, Step, <1>1, PTL DEF Spec

(* A change is drawn even when its redraw was dropped, for every capacity  *)
(* of the queue (request_render, send_required).                           *)
THEOREM ChangesAreDrawn == Spec => []DrawIsComing
<1>1. IInv => DrawIsComing
  <2>1. TypeOK => DOMAIN queue = 1..Len(queue)
    BY DEF TypeOK
  <2> QED
    BY <2>1 DEF IInv, DrawComes, RenderQueued, DrawIsComing
<1> QED
  BY InitInv, Step, <1>1, PTL DEF Spec

(* No key is lost, doubled or overtaken between the terminal and the       *)
(* keyboard handler, however full the queue is (send_required).            *)
THEOREM KeysArriveInOrder == Spec => KeysInOrder
<1>1. IInv /\ [Next]_vars => [handled' # handled => handled' = handled + 1]_vars
  <2> SUFFICES ASSUME IInv, Next, handled' # handled PROVE handled' = handled + 1
    OBVIOUS
  <2>1. Receive
    BY DEF Next, Worker, Battery, Main, FirstRender, RefreshTick, ReadKey, ReadFails, SendKey,
       SendRender, StopWorker, Working, ActorChange, ActorRequest, SettingChanged, SampleTick, Wake,
       ReadBattery, StoreBattery, RequestBattery, StopBattery, Monitoring, WorkerFailed, HandleKey,
       Draw, DrawNow, SetEnabled, Leave, StopEvents, Left, Stopped, vars
  <2> QED
    BY <2>1, ReceiveStep
<1> QED
  BY InitInv, Step, <1>1, PTL DEF Spec, KeysInOrder
=============================================================================
