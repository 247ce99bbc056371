-------------------------------- MODULE Reload --------------------------------
(***************************************************************************)
(* Hot reload of the configuration: the watcher thread (src/watcher.rs)    *)
(* that notices changed files, the reload coordinator and its worker       *)
(* thread (src/reload.rs) that read them, and the main loop that requests  *)
(* and applies a reload (src/main.rs, ReloadPlan and apply_reload of       *)
(* src/greeter.rs).  Someone else edits the files at any time.             *)
(*                                                                         *)
(* Two files are active: the optional system file and the explicit one     *)
(* that overrides it.  Of the settings a file can make, the module keeps   *)
(* the session directories, from which the session menu is discovered.     *)
(***************************************************************************)
EXTENDS Integers, Sequences, FiniteSets

CONSTANTS
  Contents,      (* contents of a file that exists                          *)
  Malformed,     (* those that do not parse or validate                     *)
  Listing,       (* those that set the session directories                  *)
  None,          (* no file, no layer, no directories, no request           *)
  Reverts,       (* may an edit bring earlier contents back                 *)
  Panics,        (* may a preparation panic, or the watcher thread fail      *)
  MaxEdits       (* bound: edits explored in one behaviour                  *)

ASSUME ReloadAssumption ==
  /\ None \notin Contents
  /\ Malformed \subseteq Contents /\ Listing \subseteq Contents
  /\ Reverts \in BOOLEAN /\ Panics \in BOOLEAN /\ MaxEdits \in Nat

VARIABLES
  files, used, edits,  (* the files, what each has contained, and a count   *)
  watch, at,           (* the watcher thread, and the next file it samples  *)
  sample, candidate, known,  (* fingerprints                                *)
  unseen,              (* is a published change not seen by the main loop   *)
  main, mainAt,        (* the main thread, and the next file it reads       *)
  settings, menu,      (* the settings in force, and whose menu is shown    *)
  latest, slot, pending, results,  (* the ReloadCoordinator                 *)
  worker, workAt, job, layers, outcome   (* its worker thread               *)

fileVars   == <<files, used, edits>>
watchVars  == <<watch, at, sample, candidate, known>>
mainVars   == <<main, mainAt, settings, menu, pending>>
workerVars == <<worker, workAt, job, layers, outcome>>
vars == <<fileVars, watchVars, unseen, mainVars, latest, slot, results, workerVars>>

Paths   == 1..2                        (* the system file, the explicit one *)
File    == Contents \cup {None}
Layers  == [Paths -> File]
NoLayer == [p \in Paths |-> None]

(* apply_layer: the explicit file has the last word. *)
SessionPaths(s) ==
  IF s[2] \in Listing THEN s[2] ELSE IF s[1] \in Listing THEN s[1] ELSE None

(* A reload refuses malformed files and a missing explicit one. *)
Refused(p, content) == content \in Malformed \/ (p = 2 /\ content = None)
Loadable(s)         == \A p \in Paths : ~Refused(p, s[p])

Request  == [revision : Nat, snapshot : Layers]
Outcomes == [kind : {"Ready"}, plan : Layers] \cup [kind : {"Rejected", "Failed"}]
Result   == [revision : Nat, snapshot : Layers, outcome : Outcomes]

ASSUME NoneAssumption == None \notin Request

TypeOK ==
  /\ files \in Layers /\ used \in [Paths -> SUBSET File] /\ edits \in 0..MaxEdits
  /\ watch \in {"unborn", "poll", "settle", "failed", "stopped"} /\ at \in 1..3
  /\ sample \in Layers /\ candidate \in Layers /\ known \in Layers
  /\ unseen \in BOOLEAN
  /\ main \in {"capture", "load", "running", "putting", "leaving", "left"} /\ mainAt \in 1..3
  /\ settings \in Layers /\ menu \in File
  /\ latest \in Nat /\ slot \in Request \cup {None} /\ pending \in BOOLEAN
  /\ results \in Seq(Result) /\ Len(results) <= 1
  /\ worker \in {"idle", "reading", "prepared", "sending", "stopped"} /\ workAt \in 1..3
  /\ job \in Request \cup {None} /\ layers \in Layers /\ outcome \in Outcomes \cup {None}

Init ==
  /\ files \in Layers /\ used = [p \in Paths |-> {files[p]}] /\ edits = 0
  /\ watch = "unborn" /\ at = 1
  /\ sample = NoLayer /\ candidate = NoLayer /\ known = NoLayer /\ unseen = FALSE
  /\ main = "capture" /\ mainAt = 1 /\ settings = NoLayer /\ menu = None
  /\ latest = 0 /\ slot = None /\ pending = FALSE /\ results = <<>>
  /\ worker = "idle" /\ workAt = 1 /\ job = None /\ layers = NoLayer
  /\ outcome = None

-----------------------------------------------------------------------------
(* Whoever administers the machine (external). *)
Edit ==
  /\ edits < MaxEdits /\ edits' = edits + 1
  /\ \E p \in Paths :
       \E content \in File \ (IF Reverts THEN {files[p]} ELSE used[p]) :
         /\ files' = [files EXCEPT ![p] = content]
         /\ used' = [used EXCEPT ![p] = @ \cup {content}]
  /\ UNCHANGED <<watchVars, unseen, mainVars, latest, slot, results, workerVars>>

-----------------------------------------------------------------------------
(* The watcher thread: watch_files and settle.  Files are read one by one. *)

Watching == UNCHANGED <<fileVars, mainVars, latest, slot, results, workerVars>>

SampleFile ==
  /\ watch \in {"poll", "settle"} /\ at \in Paths
  /\ at = 1 => main \notin {"leaving", "left"}
  /\ sample' = [sample EXCEPT ![at] = files[at]] /\ at' = at + 1
  /\ Watching /\ UNCHANGED <<watch, candidate, known, unseen>>

(* A poll that differs from what is known has to settle. *)
Compare ==
  /\ watch = "poll" /\ at = 3 /\ at' = 1
  /\ IF sample = known
     THEN UNCHANGED <<watch, candidate>>
     ELSE watch' = "settle" /\ candidate' = sample
  /\ Watching /\ UNCHANGED <<sample, known, unseen>>

(* Two equal samples have settled, and so has any sample at the deadline.  *)
Settle ==
  /\ watch = "settle" /\ at = 3 /\ at' = 1
  /\ \/ /\ sample # candidate /\ candidate' = sample
        /\ UNCHANGED <<watch, known, unseen>>
     \/ /\ watch' = "poll" /\ UNCHANGED candidate
        /\ known' = sample /\ unseen' = (unseen \/ sample # known)
  /\ Watching /\ UNCHANGED sample

(* The shutdown message, or its channel closed, ends either wait; a thread *)
(* that has failed is only joined.                                         *)
StopWatching ==
  /\ main \in {"leaving", "left"}
  /\ watch \in {"poll", "settle"} => at = 1
  /\ watch \in {"poll", "settle", "failed"}
  /\ watch' = "stopped"
  /\ Watching /\ UNCHANGED <<at, sample, candidate, known, unseen>>

Watcher == SampleFile \/ Compare \/ Settle \/ StopWatching

(* A panic ends the thread, which says so behind its last change. *)
WatcherFails ==
  /\ Panics /\ watch \in {"poll", "settle"} /\ watch' = "failed"
  /\ Watching /\ UNCHANGED <<at, sample, candidate, known, unseen>>

-----------------------------------------------------------------------------
(* The main thread. *)

Reading == UNCHANGED <<fileVars, at, sample, candidate, unseen, pending, latest, slot, results,
                       workerVars>>

(* ConfigWatcher::capture, then the watcher is spawned, if it can be. *)
Capture ==
  /\ main = "capture" /\ known' = [known EXCEPT ![mainAt] = files[mainAt]]
  /\ IF mainAt < 2 THEN mainAt' = mainAt + 1 /\ UNCHANGED <<main, watch>>
     ELSE /\ mainAt' = 1 /\ main' = "load"
          /\ watch' = "poll" \/ (Panics /\ watch' = "failed")
  /\ Reading /\ UNCHANGED <<settings, menu>>

(* Mutation: the files are fingerprinted after they are loaded. *)
LoadThenCapture ==
  /\ main = "load"
  /\ settings' = [settings EXCEPT ![mainAt] = IF Refused(mainAt, files[mainAt]) THEN None
                                              ELSE files[mainAt]]
  /\ IF mainAt < 2 THEN mainAt' = mainAt + 1 /\ UNCHANGED <<main, menu, known>>
     ELSE /\ mainAt' = 1 /\ main' = "running" /\ menu' = SessionPaths(settings')
          /\ known' = files
  /\ Reading /\ UNCHANGED watch
(* Greeter::new: a file that cannot be loaded is left out, with a warning. *)
Load ==
  /\ main = "load"
  /\ settings' = [settings EXCEPT ![mainAt] = IF Refused(mainAt, files[mainAt]) THEN None
                                              ELSE files[mainAt]]
  /\ IF mainAt < 2 THEN mainAt' = mainAt + 1 /\ UNCHANGED <<main, menu>>
     ELSE mainAt' = 1 /\ main' = "running" /\ menu' = SessionPaths(settings')
  /\ Reading /\ UNCHANGED <<watch, known>>

Serving == UNCHANGED <<fileVars, watchVars, mainAt, workerVars>>

(* WatchOutcome::Stopped comes first: a change not seen by then is dropped *)
(* and the greeter runs on without a watcher.                              *)
LoseWatcher ==
  /\ main = "running" /\ watch = "failed" /\ watch' = "stopped" /\ unseen' = FALSE
  /\ UNCHANGED <<fileVars, at, sample, candidate, known, mainVars, latest, slot, results,
                 workerVars>>

(* WatchOutcome::Changed: ReloadCoordinator::request announces a revision  *)
(* and then replaces what waits in the slot.                               *)
Announce ==
  /\ main = "running" /\ watch # "failed" /\ unseen /\ unseen' = FALSE
  /\ main' = "putting" /\ latest' = latest + 1
  /\ Serving /\ UNCHANGED <<settings, menu, pending, slot, results>>

(* Mutation: a request is only put where none waits. *)
PutIfEmpty ==
  /\ main = "putting" /\ main' = "running" /\ pending' = TRUE
  /\ slot' = IF slot = None THEN [revision |-> latest, snapshot |-> settings] ELSE slot
  /\ Serving /\ UNCHANGED <<unseen, settings, menu, latest, results>>
Put ==
  /\ main = "putting" /\ main' = "running" /\ pending' = TRUE
  /\ slot' = [revision |-> latest, snapshot |-> settings]
  /\ Serving /\ UNCHANGED <<unseen, settings, menu, latest, results>>

(* apply_reload: a menu is replaced only if the plan rediscovered it, and  *)
(* prepare rediscovers what differs from the snapshot it was given.        *)
Apply(result) ==
  IF result.outcome.kind = "Ready"
  THEN LET plan == result.outcome.plan
       IN  /\ settings' = plan
           /\ menu' = IF SessionPaths(plan) # SessionPaths(result.snapshot)
                      THEN SessionPaths(plan) ELSE menu
  ELSE UNCHANGED <<settings, menu>>

Receiving ==
  /\ main = "running" /\ pending /\ results # <<>> /\ results' = Tail(results)
  /\ Serving /\ UNCHANGED <<unseen, main, latest, slot>>

(* ReloadCoordinator::next drops the result of a superseded revision.      *)
(* Mutation: it takes any, and waits on for the latest. *)
ReceiveAny ==
  Receiving /\ pending' = (Head(results).revision # latest) /\ Apply(Head(results))
Receive ==
  /\ Receiving
  /\ IF Head(results).revision = latest
     THEN pending' = FALSE /\ Apply(Head(results))
     ELSE UNCHANGED <<pending, settings, menu>>

(* The end of run: the watcher is told, later the coordinator is dropped.  *)
Leave ==
  /\ main = "running" /\ main' = "leaving"
  /\ Serving /\ UNCHANGED <<unseen, settings, menu, pending, latest, slot, results>>

DropReloads ==
  /\ main = "leaving" /\ main' = "left" /\ slot' = None /\ results' = <<>>
  /\ Serving /\ UNCHANGED <<unseen, settings, menu, pending, latest>>

MainThread == Capture \/ Load \/ LoseWatcher \/ Announce \/ Put \/ Receive \/ Leave \/ DropReloads

-----------------------------------------------------------------------------
(* The worker thread. *)

Working == UNCHANGED <<fileVars, watchVars, unseen, mainVars, latest>>

Take ==
  /\ worker = "idle" /\ slot # None
  /\ job' = slot /\ slot' = None /\ worker' = "reading" /\ workAt' = 1 /\ layers' = NoLayer
  /\ Working /\ UNCHANGED <<results, outcome>>

(* config::reload, up to the first file it refuses. *)
ReadFile ==
  /\ worker = "reading"
  /\ layers' = [layers EXCEPT ![workAt] = files[workAt]] /\ workAt' = workAt + 1
  /\ worker' = IF workAt = 2 \/ Refused(workAt, files[workAt]) THEN "prepared" ELSE "reading"
  /\ Working /\ UNCHANGED <<slot, results, job, outcome>>

(* What prepare returns, or its panic. *)
Prepared ==
  IF \E p \in Paths : p < workAt /\ Refused(p, layers[p])
  THEN [kind |-> "Rejected"] ELSE [kind |-> "Ready", plan |-> layers]

(* The result of a superseded revision is dropped. *)
Check ==
  /\ worker = "prepared"
  /\ \/ /\ job.revision # latest /\ worker' = "idle" /\ job' = None /\ UNCHANGED outcome
     \/ /\ job.revision = latest /\ worker' = "sending" /\ UNCHANGED job
        /\ \/ outcome' = Prepared
           \/ Panics /\ outcome' = [kind |-> "Failed"]
  /\ Working /\ UNCHANGED <<slot, results, workAt, layers>>

(* blocking_send on a channel for one result. *)
SendResult ==
  /\ worker = "sending" /\ main # "left" /\ results = <<>>
  /\ results' = <<[revision |-> job.revision, snapshot |-> job.snapshot, outcome |-> outcome]>>
  /\ worker' = "idle" /\ job' = None /\ outcome' = None
  /\ Working /\ UNCHANGED <<slot, workAt, layers>>

(* Mutation: closing the slot does not wake the worker. *)
StopAfterSend ==
  /\ main = "left" /\ worker' = "stopped" /\ worker = "sending"
  /\ Working /\ UNCHANGED <<slot, results, workAt, job, layers, outcome>>
(* The slot is closed, or the receiver of the results is gone. *)
StopWorker ==
  /\ main = "left" /\ worker' = "stopped" /\ worker \in {"idle", "sending"}
  /\ Working /\ UNCHANGED <<slot, results, workAt, job, layers, outcome>>

Worker == Take \/ ReadFile \/ Check \/ SendResult \/ StopWorker

Stopped ==
  /\ main = "left" /\ watch = "stopped" /\ worker = "stopped" /\ UNCHANGED vars

Next == Edit \/ Watcher \/ WatcherFails \/ MainThread \/ Worker \/ Stopped

Spec == Init /\ [][Next]_vars

(* The threads run.  Nothing makes anyone edit a file or leave.            *)
Fairness ==
  /\ WF_vars(Watcher) /\ WF_vars(Worker)
  /\ WF_vars(Capture \/ Load) /\ WF_vars(LoseWatcher) /\ WF_vars(Announce) /\ WF_vars(Put) /\ WF_vars(Receive)
  /\ WF_vars(DropReloads)
FairSpec == Spec /\ Fairness

-----------------------------------------------------------------------------
(* Properties *)

(* The session menu is the one of the settings in force, although a plan   *)
(* only says what changed since the snapshot it was prepared from          *)
(* (ReloadPlan::prepare, ReloadCoordinator::next).                         *)
MenuMatchesSettings == main \in {"running", "putting"} => menu = SessionPaths(settings)

(* While the main loop waits for a reload, the newest revision is in the   *)
(* slot, with the worker or in the channel (ReloadCoordinator::request,    *)
(* worker).                                                                *)
PendingIsServed ==
  pending /\ main = "running" =>
    \/ slot # None /\ slot.revision = latest
    \/ job # None /\ job.revision = latest
    \/ results # <<>> /\ Head(results).revision = latest

(* The threads end when the main loop is left, and the main loop does not  *)
(* wait for one that has failed (RequestSlot::close, worker, watch_files,  *)
(* ConfigWatcher::shutdown).                                               *)
ThreadsEnd == main = "left" ~> watch = "stopped" /\ worker = "stopped"

(* README: valid updates are applied automatically.  Once nobody edits the *)
(* files any more, the settings in force become those of the files, if     *)
(* these can be loaded; only a preparation that panics drops its update,   *)
(* and only a watcher that fails the later ones (watch_files, settle,      *)
(* worker).                                                                *)
UpdatesAreApplied ==
  [](watch # "failed" /\ (outcome # None => outcome.kind # "Failed"))
    => <>[](main \notin {"leaving", "left"} /\ Loadable(files) => settings = files)
=============================================================================
