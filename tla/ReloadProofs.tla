----------------------------- MODULE ReloadProofs -----------------------------
(***************************************************************************)
(* What hot reloading guarantees whatever the files contain and however    *)
(* often they are edited: proofs about Reload.                             *)
(***************************************************************************)
EXTENDS Reload, SequenceTheorems, TLAPS

(* The types, with what a thread holds at its position.                    *)
TypeInv ==
  /\ TypeOK
  /\ mainAt \in Paths
  /\ worker = "reading" => workAt \in Paths
  /\ worker \in {"reading", "prepared", "sending"} => job \in Request
  /\ worker = "sending" => outcome \in Outcomes
  /\ worker = "idle" => job = None

(* Who holds work for the newest revision. *)
InSlot    == slot # None /\ slot.revision = latest
InWorker  == job # None /\ job.revision = latest
InChannel == results # <<>> /\ Head(results).revision = latest

(* No revision is from the future, so that a newly announced one belongs   *)
(* to nobody yet.                                                          *)
RevisionInv ==
  /\ slot # None => slot.revision <= latest
  /\ job # None => job.revision <= latest
  /\ results # <<>> => Head(results).revision <= latest
  /\ main = "putting" \/ ~pending => ~InSlot /\ ~InWorker /\ ~InChannel

(* The newest revision has one holder, and all holders have seen the       *)
(* settings in force.                                                      *)
HolderInv ==
  /\ ~(InSlot /\ InWorker) /\ ~(InSlot /\ InChannel) /\ ~(InWorker /\ InChannel)
  /\ InSlot => slot.snapshot = settings
  /\ InWorker => job.snapshot = settings
  /\ InChannel => Head(results).snapshot = settings

(* No reload is requested before the settings are loaded.                  *)
StartupInv == main \in {"capture", "load"} => ~pending

(* What the session menu and the waiting main loop rely on.                *)
ReloadInv ==
  TypeInv /\ StartupInv /\ RevisionInv /\ HolderInv /\ MenuMatchesSettings /\ PendingIsServed
-----------------------------------------------------------------------------
(* Lemmas *)

(* A channel that takes a result when it is empty never holds two.         *)
LEMMA SendType ==
  ASSUME NEW r \in Result
  PROVE  <<r>> \in Seq(Result) /\ Len(<<r>>) <= 1 /\ <<r>> # <<>> /\ Head(<<r>>) = r
OBVIOUS

(* Taking the one result leaves the channel empty. *)
LEMMA ReceiveType ==
  ASSUME results \in Seq(Result), Len(results) <= 1, results # <<>>
  PROVE  Head(results) \in Result /\ Tail(results) = <<>>
<1>1. Len(results) \in Nat /\ Len(results) # 0
  BY LenProperties, EmptySeq
<1>2. Len(results) = 1
  BY <1>1
<1>3. Tail(results) \in Seq(Result) /\ Len(Tail(results)) = 0
  BY <1>2, HeadTailProperties
<1> QED
  BY <1>3, HeadTailProperties, EmptySeq

(* A layer that is read stays a layer. *)
LEMMA LayerType ==
  ASSUME NEW s \in Layers, NEW p \in Paths, NEW content \in File
  PROVE  [s EXCEPT ![p] = content] \in Layers
BY DEF Layers

(* The menu that layers make is that of a file, or the default. *)
LEMMA MenuType == ASSUME NEW s \in Layers PROVE SessionPaths(s) \in File
<1>1. s[1] \in File /\ s[2] \in File /\ None \in File
  BY DEF Layers, Paths, File
<1> QED
  BY <1>1 DEF SessionPaths

(* The types hold at the start. *)
LEMMA InitType == Init => TypeInv
<1> SUFFICES ASSUME Init PROVE TypeInv
  OBVIOUS
<1>1. files \in Layers /\ NoLayer \in Layers /\ None \in File /\ 0 \in 0..MaxEdits
  BY ReloadAssumption DEF Init, NoLayer, Layers, File
<1>2. used \in [Paths -> SUBSET File]
  BY <1>1 DEF Init, Layers
<1>3. results \in Seq(Result) /\ Len(results) <= 1
  BY DEF Init
<1>4. /\ edits \in 0..MaxEdits /\ sample \in Layers /\ candidate \in Layers /\ known \in Layers
      /\ settings \in Layers /\ menu \in File /\ layers \in Layers
  BY <1>1 DEF Init
<1>5. /\ at \in 1..3 /\ mainAt \in 1..3 /\ workAt \in 1..3 /\ latest \in Nat
      /\ mainAt \in Paths
  BY DEF Init, Paths
<1>7. unseen \in BOOLEAN /\ pending \in BOOLEAN
  BY DEF Init
<1>8. slot \in Request \cup {None} /\ job \in Request \cup {None} /\ outcome \in Outcomes \cup {None}
  BY DEF Init
<1>6. watch = "unborn" /\ main = "capture" /\ worker = "idle" /\ job = None
  BY DEF Init
<1> QED
  BY <1>1, <1>2, <1>3, <1>4, <1>5, <1>6, <1>7, <1>8 DEF TypeInv, TypeOK

(* An edit changes the files alone. *)
LEMMA EditType == TypeInv /\ Edit => TypeInv'
<1> SUFFICES ASSUME TypeInv, Edit PROVE TypeInv'
  OBVIOUS
<1>1. PICK p \in Paths, content \in File :
        /\ files' = [files EXCEPT ![p] = content]
        /\ used' = [used EXCEPT ![p] = @ \cup {content}]
  BY DEF Edit
<1>2. files' \in Layers
  BY <1>1, LayerType DEF TypeInv, TypeOK
<1>3. used' \in [Paths -> SUBSET File]
  BY <1>1 DEF TypeInv, TypeOK
<1>4. edits' \in 0..MaxEdits
  BY ReloadAssumption DEF Edit, TypeInv, TypeOK
<1>5. UNCHANGED <<watchVars, unseen, mainVars, latest, slot, results, workerVars>>
      /\ UNCHANGED mainAt
  BY DEF Edit, mainVars
<1> QED
  BY <1>2, <1>3, <1>4, <1>5 DEF TypeInv, TypeOK, watchVars, mainVars, workerVars

(* The watcher keeps its types. *)
LEMMA WatcherType == TypeInv /\ (Watcher \/ WatcherFails) => TypeInv'
<1> SUFFICES ASSUME TypeInv, Watcher \/ WatcherFails PROVE TypeInv'
  OBVIOUS
<1>1. /\ UNCHANGED <<fileVars, mainVars, latest, slot, results, workerVars>>
  BY DEF Watcher, WatcherFails, SampleFile, Compare, Settle, StopWatching, Watching
<1>2. /\ watch' \in {"unborn", "poll", "settle", "failed", "stopped"} /\ at' \in 1..3
      /\ sample' \in Layers /\ candidate' \in Layers /\ known' \in Layers
      /\ unseen' \in BOOLEAN
  <2>1. CASE SampleFile
    <3>1. sample' \in Layers
      BY <2>1, LayerType DEF SampleFile, TypeInv, TypeOK, Layers
    <3> QED
      BY <2>1, <3>1 DEF SampleFile, TypeInv, TypeOK, Paths
  <2>2. CASE Compare
    BY <2>2 DEF Compare, TypeInv, TypeOK
  <2>3. CASE Settle
    <3>1. watch' \in {"settle", "poll"} /\ at' = 1 /\ sample' = sample
          /\ candidate' \in {sample, candidate} /\ known' \in {sample, known}
      BY <2>3 DEF Settle, TypeInv, TypeOK
    <3>2. unseen' \in BOOLEAN
      <4>1. unseen' = unseen \/ unseen' = (unseen \/ sample # known)
        BY <2>3 DEF Settle
      <4> QED
        BY <4>1 DEF TypeInv, TypeOK
    <3> QED
      BY <3>1, <3>2 DEF TypeInv, TypeOK
  <2>4. CASE StopWatching
    BY <2>4 DEF StopWatching, TypeInv, TypeOK
  <2>5. CASE WatcherFails
    BY <2>5 DEF WatcherFails, TypeInv, TypeOK
  <2> QED
    BY <2>1, <2>2, <2>3, <2>4, <2>5 DEF Watcher
<1> QED
  BY <1>1, <1>2 DEF TypeInv, TypeOK, fileVars, mainVars, workerVars

(* The main thread keeps its types. *)
LEMMA MainThreadType == TypeInv /\ MainThread => TypeInv'
<1> SUFFICES ASSUME TypeInv, MainThread PROVE TypeInv'
  OBVIOUS
<1>1. UNCHANGED <<fileVars, at, sample, candidate, workerVars>>
  BY DEF MainThread, Capture, Load, LoseWatcher, Announce, Put, Receive, Receiving, Leave, DropReloads, Reading,
         Serving, watchVars
<1>2. /\ watch' \in {"unborn", "poll", "settle", "failed", "stopped"} /\ known' \in Layers
      /\ unseen' \in BOOLEAN
      /\ main' \in {"capture", "load", "running", "putting", "leaving", "left"}
      /\ mainAt' \in Paths
      /\ settings' \in Layers /\ menu' \in File
      /\ latest' \in Nat /\ slot' \in Request \cup {None} /\ pending' \in BOOLEAN
      /\ results' \in Seq(Result) /\ Len(results') <= 1
  <2>1. CASE Capture
    <3>1. known' \in Layers
      BY <2>1, LayerType DEF Capture, TypeInv, TypeOK, Layers
    <3> QED
      BY <2>1, <3>1 DEF Capture, Reading, TypeInv, TypeOK, Paths
  <2>2. CASE Load
    <3>1. settings' = [settings EXCEPT ![mainAt] = IF Refused(mainAt, files[mainAt]) THEN None
                                                   ELSE files[mainAt]]
      BY <2>2 DEF Load
    <3>2. (IF Refused(mainAt, files[mainAt]) THEN None ELSE files[mainAt]) \in File
      BY DEF TypeInv, TypeOK, Layers, File
    <3>3. settings' \in Layers
      BY <3>1, <3>2, LayerType DEF TypeInv, TypeOK
    <3>4. SessionPaths(settings') \in File
      BY <3>3, MenuType
    <3> QED
      BY <2>2, <3>3, <3>4 DEF Load, Reading, TypeInv, TypeOK, Paths
  <2>3. CASE Announce
    <3>1. latest' \in Nat /\ unseen' = FALSE /\ main' = "putting"
      BY <2>3 DEF Announce, TypeInv, TypeOK
    <3>2. UNCHANGED <<watch, known, mainAt, settings, menu, slot, pending, results>>
      BY <2>3 DEF Announce, Serving, watchVars
    <3> QED
      BY <3>1, <3>2 DEF TypeInv, TypeOK
  <2>4. CASE Put
    BY <2>4 DEF Put, Serving, watchVars, TypeInv, TypeOK, Request
  <2>5. CASE Receive
    <3>1. Head(results) \in Result /\ results' = <<>>
      BY <2>5, ReceiveType DEF Receive, Receiving, TypeInv, TypeOK
    <3>2. Head(results).outcome.kind = "Ready" => Head(results).outcome.plan \in Layers
      BY <3>1 DEF Result, Outcomes
    <3>3. settings' \in Layers /\ menu' \in File /\ pending' \in BOOLEAN
      <4>1. CASE Head(results).revision = latest /\ Head(results).outcome.kind = "Ready"
        <5>1. /\ settings' = Head(results).outcome.plan /\ pending' = FALSE
              /\ menu' \in {SessionPaths(Head(results).outcome.plan), menu}
          BY <2>5, <4>1 DEF Receive, Apply
        <5>2. SessionPaths(Head(results).outcome.plan) \in File
          BY <3>2, <4>1, MenuType
        <5> QED
          BY <3>2, <4>1, <5>1, <5>2 DEF TypeInv, TypeOK
      <4>2. CASE ~(Head(results).revision = latest /\ Head(results).outcome.kind = "Ready")
        BY <2>5, <4>2 DEF Receive, Receiving, Apply, TypeInv, TypeOK
      <4> QED
        BY <4>1, <4>2
    <3> QED
      BY <2>5, <3>1, <3>3 DEF Receive, Receiving, Serving, watchVars, TypeInv, TypeOK
  <2>6. CASE Leave
    BY <2>6 DEF Leave, Serving, watchVars, TypeInv, TypeOK
  <2>7. CASE DropReloads
    BY <2>7 DEF DropReloads, Serving, watchVars, TypeInv, TypeOK
  <2>8. CASE LoseWatcher
    BY <2>8 DEF LoseWatcher, mainVars, TypeInv, TypeOK
  <2> QED
    BY <2>1, <2>2, <2>3, <2>4, <2>5, <2>6, <2>7, <2>8 DEF MainThread
<1> QED
  BY <1>1, <1>2 DEF TypeInv, TypeOK, fileVars, workerVars, Paths

(* The worker keeps its types. *)
LEMMA WorkerType == TypeInv /\ Worker => TypeInv'
<1> SUFFICES ASSUME TypeInv, Worker PROVE TypeInv'
  OBVIOUS
<1>1. UNCHANGED <<fileVars, watchVars, unseen, mainVars, latest>>
  BY DEF Worker, Take, ReadFile, Check, SendResult, StopWorker, Working
<1>2. /\ worker' \in {"idle", "reading", "prepared", "sending", "stopped"} /\ workAt' \in 1..3
      /\ worker' = "reading" => workAt' \in Paths
      /\ job' \in Request \cup {None} /\ layers' \in Layers /\ outcome' \in Outcomes \cup {None}
      /\ worker' \in {"reading", "prepared", "sending"} => job' \in Request
      /\ worker' = "sending" => outcome' \in Outcomes
      /\ worker' = "idle" => job' = None
      /\ slot' \in Request \cup {None}
      /\ results' \in Seq(Result) /\ Len(results') <= 1
  <2>1. CASE Take
    BY <2>1 DEF Take, TypeInv, TypeOK, Paths, Layers, NoLayer, File
  <2>2. CASE ReadFile
    <3>1. layers' \in Layers
      BY <2>2, LayerType DEF ReadFile, TypeInv, TypeOK, Layers
    <3> QED
      BY <2>2, <3>1 DEF ReadFile, TypeInv, TypeOK, Paths
  <2>3. CASE Check
    <3>1. Prepared \in Outcomes /\ [kind |-> "Failed"] \in Outcomes
      BY DEF Prepared, Outcomes, TypeInv, TypeOK
    <3> QED
      BY <2>3, <3>1 DEF Check, TypeInv, TypeOK
  <2>4. CASE SendResult
    <3>1. [revision |-> job.revision, snapshot |-> job.snapshot, outcome |-> outcome] \in Result
      BY <2>4 DEF SendResult, TypeInv, Request, Result
    <3>2. results' \in Seq(Result) /\ Len(results') <= 1
      BY <2>4, <3>1, SendType DEF SendResult
    <3> QED
      BY <2>4, <3>2 DEF SendResult, TypeInv, TypeOK
  <2>5. CASE StopWorker
    BY <2>5 DEF StopWorker, TypeInv, TypeOK
  <2> QED
    BY <2>1, <2>2, <2>3, <2>4, <2>5 DEF Worker
<1> QED
  BY <1>1, <1>2 DEF TypeInv, TypeOK, fileVars, watchVars, mainVars, Paths

(* Every step keeps the types. *)
LEMMA StepType == TypeInv /\ [Next]_vars => TypeInv'
<1>1. TypeInv /\ UNCHANGED vars => TypeInv'
  BY DEF TypeInv, TypeOK, vars, fileVars, watchVars, mainVars, workerVars
<1> QED
  BY <1>1, EditType, WatcherType, MainThreadType, WorkerType DEF Next, Stopped

(* The types hold for all contents, of well-formed files or not. *)
THEOREM TypeCorrect == Spec => []TypeOK
<1>1. TypeInv => TypeOK
  BY DEF TypeInv
<1> QED
  BY <1>1, InitType, StepType, PTL DEF Spec

(* Edits and the watcher leave the revisions and the settings alone.       *)
LEMMA OthersReload == ReloadInv /\ (Edit \/ Watcher \/ WatcherFails) => ReloadInv'
<1> SUFFICES ASSUME ReloadInv, Edit \/ Watcher \/ WatcherFails PROVE ReloadInv'
  OBVIOUS
<1>1. TypeInv'
  BY EditType, WatcherType DEF ReloadInv
<1>2. UNCHANGED <<mainVars, latest, slot, job, results>>
  BY DEF Edit, Watcher, WatcherFails, SampleFile, Compare, Settle, StopWatching, Watching, workerVars
<1> QED
  BY <1>1, <1>2
  DEF ReloadInv, StartupInv, RevisionInv, HolderInv, MenuMatchesSettings, PendingIsServed, InSlot, InWorker,
      InChannel, mainVars

(* A plan is only applied when it is that of the newest revision, which    *)
(* then has no holder left.                                                *)
LEMMA MainThreadReload == ReloadInv /\ MainThread => ReloadInv'
<1> SUFFICES ASSUME ReloadInv, MainThread PROVE ReloadInv'
  OBVIOUS
<1>1. TypeInv /\ TypeInv'
  BY MainThreadType DEF ReloadInv
<1>2. job' = job
  BY DEF MainThread, Capture, Load, LoseWatcher, Announce, Put, Receive, Receiving, Leave, DropReloads, Reading,
         Serving, workerVars
<1>3. StartupInv' /\ RevisionInv' /\ HolderInv' /\ MenuMatchesSettings' /\ PendingIsServed'
  <2>1. CASE Capture \/ Leave
    <3>1. UNCHANGED <<settings, menu, pending, latest, slot, results>>
          /\ main # "putting" /\ main' \notin {"putting", "running"}
          /\ (main' \in {"capture", "load"} => main = "capture")
      BY <2>1 DEF Capture, Leave, Reading, Serving, watchVars
    <3> QED
      BY <1>2, <3>1 DEF ReloadInv, StartupInv, RevisionInv, HolderInv, MenuMatchesSettings,
                        PendingIsServed, InSlot, InWorker, InChannel
  <2>2. CASE Load
    <3>1. UNCHANGED <<pending, latest, slot, results>> /\ main = "load" /\ main' \in {"load", "running"}
          /\ (main' = "running" => menu' = SessionPaths(settings'))
      BY <2>2 DEF Load, Reading
    <3>2. ~pending /\ ~InSlot /\ ~InWorker /\ ~InChannel
      BY <3>1 DEF ReloadInv, StartupInv, RevisionInv
    <3> QED
      BY <1>2, <3>1, <3>2 DEF ReloadInv, StartupInv, RevisionInv, HolderInv, MenuMatchesSettings,
                              PendingIsServed, InSlot, InWorker, InChannel
  <2>3. CASE Announce
    <3>1. UNCHANGED <<settings, menu, slot, results, pending>> /\ latest' = latest + 1
          /\ main = "running" /\ main' = "putting"
      BY <2>3 DEF Announce, Serving
    <3>2. /\ slot' # None => slot'.revision \in Nat /\ slot'.revision <= latest
          /\ job' # None => job'.revision \in Nat /\ job'.revision <= latest
          /\ results' # <<>> => Head(results').revision \in Nat /\ Head(results').revision <= latest
          /\ latest \in Nat
      BY <1>1, <1>2, <3>1, ReceiveType DEF ReloadInv, RevisionInv, TypeInv, TypeOK, Request, Result
    <3>3. RevisionInv' /\ ~InSlot' /\ ~InWorker' /\ ~InChannel'
      BY <3>1, <3>2 DEF RevisionInv, InSlot, InWorker, InChannel
    <3> QED
      BY <3>1, <3>3 DEF ReloadInv, StartupInv, HolderInv, MenuMatchesSettings, PendingIsServed
  <2>4. CASE Put
    <3>1. UNCHANGED <<settings, menu, results, latest>> /\ main = "putting" /\ main' = "running"
          /\ pending' /\ slot' = [revision |-> latest, snapshot |-> settings]
      BY <2>4 DEF Put, Serving
    <3>2. slot' # None /\ slot'.revision = latest /\ slot'.snapshot = settings /\ latest \in Nat
      BY <1>1, <3>1, NoneAssumption DEF TypeInv, TypeOK, Request
    <3>3. ~InWorker' /\ ~InChannel' /\ InSlot'
      BY <1>2, <3>1, <3>2 DEF ReloadInv, RevisionInv, InSlot, InWorker, InChannel
    <3> QED
      BY <1>2, <3>1, <3>2, <3>3 DEF ReloadInv, StartupInv, RevisionInv, HolderInv,
                                    MenuMatchesSettings, PendingIsServed, InSlot
  <2>5. CASE Receive
    <3>1. Head(results) \in Result /\ results' = <<>> /\ results # <<>>
      BY <1>1, <2>5, ReceiveType DEF Receive, Receiving, TypeInv, TypeOK
    <3>2. UNCHANGED <<latest, slot, main>> /\ main = "running" /\ pending
      BY <2>5 DEF Receive, Receiving, Serving
    <3>3. CASE Head(results).revision = latest
      <4>1. ~InSlot' /\ ~InWorker' /\ ~InChannel' /\ ~pending'
        BY <1>2, <2>5, <3>1, <3>2, <3>3 DEF Receive, ReloadInv, HolderInv, InSlot, InWorker, InChannel
      <4>2. menu' = SessionPaths(settings')
        <5>1. menu = SessionPaths(settings) /\ Head(results).snapshot = settings
          BY <3>1, <3>2, <3>3 DEF ReloadInv, MenuMatchesSettings, HolderInv, InChannel
        <5> QED
          BY <2>5, <3>3, <5>1 DEF Receive, Apply
      <4> QED
        BY <1>2, <3>1, <3>2, <4>1, <4>2 DEF ReloadInv, StartupInv, RevisionInv, HolderInv,
                                            MenuMatchesSettings, PendingIsServed
    <3>4. CASE Head(results).revision # latest
      <4>1. UNCHANGED <<pending, settings, menu>>
        BY <2>5, <3>4 DEF Receive
      <4> QED
        BY <1>2, <3>1, <3>2, <3>4, <4>1 DEF ReloadInv, StartupInv, RevisionInv, HolderInv,
             MenuMatchesSettings, PendingIsServed, InSlot, InWorker, InChannel
    <3> QED
      BY <3>3, <3>4
  <2>6. CASE DropReloads
    <3>1. ~InSlot' /\ ~InChannel' /\ slot' = None /\ results' = <<>> /\ main' = "left"
          /\ UNCHANGED <<settings, menu, latest, pending>>
      BY <2>6 DEF DropReloads, InSlot, InChannel
    <3> QED
      BY <1>2, <3>1 DEF ReloadInv, StartupInv, RevisionInv, HolderInv, MenuMatchesSettings,
                        PendingIsServed, InWorker
  <2>7. CASE LoseWatcher
    <3>1. UNCHANGED <<main, settings, menu, pending, latest, slot, results>>
      BY <2>7 DEF LoseWatcher, mainVars
    <3> QED
      BY <1>2, <3>1 DEF ReloadInv, StartupInv, RevisionInv, HolderInv, MenuMatchesSettings,
                        PendingIsServed, InSlot, InWorker, InChannel
  <2> QED
    BY <2>1, <2>2, <2>3, <2>4, <2>5, <2>6, <2>7 DEF MainThread
<1> QED
  BY <1>1, <1>3 DEF ReloadInv

(* A revision goes from the slot to the worker and on to the channel; only *)
(* a superseded one is dropped on the way.                                 *)
LEMMA WorkerReload == ReloadInv /\ Worker => ReloadInv'
<1> SUFFICES ASSUME ReloadInv, Worker PROVE ReloadInv'
  OBVIOUS
<1>1. TypeInv /\ TypeInv'
  BY WorkerType DEF ReloadInv
<1>2. UNCHANGED <<main, mainAt, settings, menu, pending, latest>>
  BY DEF Worker, Take, ReadFile, Check, SendResult, StopWorker, Working, mainVars
<1>3. RevisionInv' /\ HolderInv' /\ PendingIsServed'
  <2>1. CASE Take
    <3>1. slot # None /\ job' = slot /\ slot' = None /\ results' = results /\ job = None
      BY <1>1, <2>1 DEF Take, TypeInv
    <3> QED
      BY <1>2, <3>1 DEF ReloadInv, RevisionInv, HolderInv, PendingIsServed, InSlot, InWorker, InChannel
  <2>2. CASE ReadFile \/ StopWorker
    <3>1. UNCHANGED <<slot, job, results>>
      BY <2>2 DEF ReadFile, StopWorker
    <3> QED
      BY <1>2, <3>1 DEF ReloadInv, RevisionInv, HolderInv, PendingIsServed, InSlot, InWorker, InChannel
  <2>3. CASE Check
    <3>1. UNCHANGED <<slot, results>> /\ (job' = job \/ (job' = None /\ job.revision # latest))
      BY <2>3 DEF Check
    <3> QED
      BY <1>2, <3>1 DEF ReloadInv, RevisionInv, HolderInv, PendingIsServed, InSlot, InWorker, InChannel
  <2>4. CASE SendResult
    <3>1. /\ UNCHANGED slot /\ job' = None /\ results = <<>> /\ job \in Request
          /\ results' = <<[revision |-> job.revision, snapshot |-> job.snapshot, outcome |-> outcome]>>
      BY <1>1, <2>4 DEF SendResult, TypeInv
    <3>2. results' # <<>> /\ Head(results').revision = job.revision
          /\ Head(results').snapshot = job.snapshot
      BY <3>1
    <3>3. job # None
      BY <3>1, NoneAssumption
    <3> QED
      BY <1>2, <3>1, <3>2, <3>3 DEF ReloadInv, RevisionInv, HolderInv, PendingIsServed, InSlot,
                                    InWorker, InChannel
  <2> QED
    BY <2>1, <2>2, <2>3, <2>4 DEF Worker
<1> QED
  BY <1>1, <1>2, <1>3 DEF ReloadInv, StartupInv, MenuMatchesSettings

(* The inductive invariant holds. *)
LEMMA ReloadInvariant == Spec => []ReloadInv
<1>1. Init => ReloadInv
  BY InitType DEF Init, ReloadInv, StartupInv, RevisionInv, HolderInv, MenuMatchesSettings,
                  PendingIsServed, InSlot, InWorker, InChannel
<1>2. ReloadInv /\ UNCHANGED vars => ReloadInv'
  <2> SUFFICES ASSUME ReloadInv, UNCHANGED vars PROVE ReloadInv'
    OBVIOUS
  <2>1. TypeInv'
    BY StepType DEF ReloadInv
  <2> QED
    BY <2>1 DEF ReloadInv, StartupInv, RevisionInv, HolderInv, MenuMatchesSettings, PendingIsServed,
                InSlot, InWorker, InChannel, vars, mainVars, workerVars
<1>3. ReloadInv /\ [Next]_vars => ReloadInv'
  BY <1>2, OthersReload, MainThreadReload, WorkerReload DEF Next, Stopped
<1> QED
  BY <1>1, <1>3, PTL DEF Spec

(* Dropping superseded results is enough for the menu: a plan, which says  *)
(* only what changed since its snapshot, is never applied to other         *)
(* settings than those of the snapshot.                                    *)
THEOREM MenuIsCurrent == Spec => []MenuMatchesSettings
<1>1. ReloadInv => MenuMatchesSettings
  BY DEF ReloadInv
<1> QED
  BY <1>1, ReloadInvariant, PTL

(* Superseding revisions never leaves the main loop waiting for one that   *)
(* nobody prepares.                                                        *)
THEOREM NoLostRevision == Spec => []PendingIsServed
<1>1. ReloadInv => PendingIsServed
  BY DEF ReloadInv
<1> QED
  BY <1>1, ReloadInvariant, PTL
=============================================================================
