--------------------------------- MODULE Cache ---------------------------------
(***************************************************************************)
(* CacheStore of cache.rs: the greeters of a machine share one directory   *)
(* with a lock file, a state file, a temporary file and, before the first  *)
(* use, the files of the old version.  One step is one system call whose   *)
(* effect another greeter, a crash or a power loss can see.                *)
(***************************************************************************)
EXTENDS CacheData, Naturals

CONSTANTS
  Greeter,       (* the greeters (the calls that can run at once)           *)
  Policy,        (* what the logins are asked to remember: sets of slots    *)
  MaxFailures,   (* bound: system calls that fail                           *)
  MaxCrashes     (* bound: greeters that die, and power losses              *)

ASSUME GreeterAssumption == None \notin Greeter
ASSUME PolicyAssumption == Policy \subseteq SUBSET Slot
ASSUME BoundAssumption == MaxFailures \in Nat /\ MaxCrashes \in Nat

VARIABLES
  file,          (* the state file                                          *)
  temp,          (* the temporary file                                      *)
  legacy,        (* each file of the old version                            *)
  lock,          (* who holds the lock                                      *)
  call,          (* what each greeter is doing                              *)
  maybe,         (* the state files a power loss may leave                  *)
  changed,       (* history: the slots a login has set                      *)
  promised,      (* history: the contents written since the last success    *)
  failures, crashes

disk == <<file, temp, legacy, maybe>>
history == <<changed, promised>>
bounds == <<failures, crashes>>
vars == <<disk, lock, call, history, bounds>>

-----------------------------------------------------------------------------
(* A file is its content and whether that content has reached the disk.    *)
File == [data : Content, synced : BOOLEAN]
Saved(content) == [data |-> content, synced |-> TRUE]
Unsaved(content) == [data |-> content, synced |-> FALSE]
NoFile == Saved(None)
AfterLoss(f) == IF f.synced THEN {f} ELSE {f, Unsaved(Corrupt)}

Steps == {"lock", "read", "create", "write", "sync", "rename", "flush", "unlink"}
LoadUpdates == [set : {PurgeCommands.set}, purge : BOOLEAN]
Operation == [load : {TRUE}, update : LoadUpdates] \cup [load : {FALSE}, update : Updates]
NoOperation == [load |-> TRUE, update |-> PurgeCommands]
Off  == [pc |-> "off", op |-> NoOperation, base |-> None, new |-> Default, files |-> {}]
Idle == [Off EXCEPT !.pc = "idle"]

Running(g) == call[g].pc \in Steps
Goto(g, pc) == call' = [call EXCEPT ![g].pc = pc]
Return(g) ==
  /\ call' = [call EXCEPT ![g] = Idle]
  /\ lock' = IF lock = g THEN None ELSE lock
Present == {t \in Slot : legacy[t] = "present"}

Init ==
  /\ file \in {Saved(c) : c \in Content}
  /\ legacy \in {[t \in Slot |-> IF t \in present THEN "present" ELSE "none"] :
                   present \in SUBSET Slot}
  /\ file.data # None => Present = {}
  /\ temp = NoFile /\ maybe = {file} /\ lock = None
  /\ call = [g \in Greeter |-> Off]
  /\ changed = {} /\ promised = {file.data} /\ failures = 0 /\ crashes = 0

-----------------------------------------------------------------------------
Begin(g, load, update) ==
  /\ call' = [call EXCEPT ![g] = [Off EXCEPT !.pc = "lock", !.op = [load |-> load, update |-> update]]]
  /\ UNCHANGED <<disk, lock, history, bounds>>

(* initialize_cache and the reload that loads; no command is kept when the *)
(* editor is not allowed.                                                  *)
Load(g) ==
  /\ call[g].pc \in {"off", "idle"}
  /\ \E allowCommands \in BOOLEAN :
       Begin(g, TRUE, [PurgeCommands EXCEPT !.purge = ~allowCommands])

(* persist_cache, and the reload that purges, of a greeter that has loaded. *)
CommitUpdates ==
  {SuccessfulLogin(u, s, r, a) :
     u \in User, s \in Selection \cup {None}, r \in Policy, a \in BOOLEAN}
  \cup {PurgeCommands}

Commit(g) ==
  /\ call[g].pc = "idle"
  /\ \E update \in CommitUpdates : ~IsNoop(update) /\ Begin(g, FALSE, update)

Acquire(g) ==
  /\ call[g].pc = "lock" /\ lock = None
  /\ lock' = g
  /\ Goto(g, "read")
  /\ UNCHANGED <<disk, history, bounds>>

LockTimeout(g) ==
  /\ call[g].pc = "lock" /\ lock # None
  /\ Return(g)
  /\ UNCHANGED <<disk, history, bounds>>

(* Write what the call wants in place of what it has read. *)
Prepare(g, new, files) ==
  /\ call' = [call EXCEPT ![g].pc = "create", ![g].base = file.data,
                          ![g].new = new, ![g].files = files]
  /\ UNCHANGED lock

(* Variant to refute. *)
CommitFromScratch(g) ==
  IF file.data = Future
  THEN Return(g)
  ELSE Prepare(g, Apply(Default, call[g].op.update), {})

ReadToCommit(g) ==
  IF file.data = Future
  THEN Return(g)
  ELSE Prepare(g, Apply(Readable(file.data), call[g].op.update), {})

ReadToLoad(g) ==
  LET kept == Apply(Readable(file.data), call[g].op.update)
  IN  CASE file.data = None /\ Present # {}        -> Prepare(g, Migrated(Present), Present)
        [] file.data \in CacheState /\ kept # file.data -> Prepare(g, kept, {})
        [] OTHER                                   -> Return(g)

ReadState(g) ==
  /\ call[g].pc = "read"
  /\ IF call[g].op.load THEN ReadToLoad(g) ELSE ReadToCommit(g)
  /\ UNCHANGED <<disk, history, bounds>>

-----------------------------------------------------------------------------
(* write_state: a leftover is unlinked, the name is created exclusively. *)
CreateTemp(g) ==
  /\ call[g].pc = "create"
  /\ temp' = Unsaved(Corrupt)
  /\ Goto(g, "write")
  /\ UNCHANGED <<file, legacy, maybe, lock, history, bounds>>

WriteTemp(g) ==
  /\ call[g].pc = "write" /\ temp # NoFile
  /\ temp' = Unsaved(call[g].new)
  /\ Goto(g, "sync")
  /\ UNCHANGED <<file, legacy, maybe, lock, history, bounds>>

(* Variant to refute. *)
SyncNothing(g) ==
  /\ call[g].pc = "sync"
  /\ Goto(g, "rename")
  /\ UNCHANGED <<disk, lock, history, bounds>>

SyncTemp(g) ==
  /\ call[g].pc = "sync"
  /\ temp' = [temp EXCEPT !.synced = TRUE]
  /\ Goto(g, "rename")
  /\ UNCHANGED <<file, legacy, maybe, lock, history, bounds>>

(* Variant to refute. *)
UnlinkBeforeFlush(g) ==
  /\ call[g].pc = "rename" /\ temp # NoFile
  /\ file' = temp /\ temp' = NoFile
  /\ maybe' = maybe \cup {temp}
  /\ changed' = changed \cup DOMAIN call[g].op.update.set
  /\ promised' = promised \cup {call[g].new}
  /\ Goto(g, IF call[g].files = {} THEN "flush" ELSE "unlink")
  /\ UNCHANGED <<legacy, lock, bounds>>

Rename(g) ==
  /\ call[g].pc = "rename" /\ temp # NoFile
  /\ file' = temp /\ temp' = NoFile
  /\ maybe' = maybe \cup {temp}
  /\ changed' = changed \cup DOMAIN call[g].op.update.set
  /\ promised' = promised \cup {call[g].new}
  /\ Goto(g, "flush")
  /\ UNCHANGED <<legacy, lock, bounds>>

(* fsync of the directory: what it names now is what stays. *)
FlushDirectory ==
  /\ maybe' = {file}
  /\ legacy' = [t \in Slot |-> IF legacy[t] = "unlinked" THEN "removed" ELSE legacy[t]]
  /\ UNCHANGED <<file, temp>>

Flush(g) ==
  /\ call[g].pc = "flush"
  /\ FlushDirectory
  /\ promised' = {file.data}
  /\ IF call[g].files = {} THEN Return(g) ELSE Goto(g, "unlink") /\ UNCHANGED lock
  /\ UNCHANGED <<changed, bounds>>

(* remove_legacy, file by file; one that cannot be unlinked is left. *)
Unlink(g) ==
  /\ call[g].pc = "unlink"
  /\ \E t \in call[g].files :
       /\ call' = [call EXCEPT ![g].files = @ \ {t}]
       /\ \/ legacy' = [legacy EXCEPT ![t] = "unlinked"] /\ UNCHANGED failures
          \/ failures < MaxFailures /\ failures' = failures + 1 /\ UNCHANGED legacy
  /\ UNCHANGED <<file, temp, maybe, lock, history, crashes>>

Cleaned(g) ==
  /\ call[g].pc = "unlink" /\ call[g].files = {}
  /\ FlushDirectory
  /\ Return(g)
  /\ UNCHANGED <<history, bounds>>

(* A system call fails: the temporary file, once created, is unlinked and  *)
(* the call returns; a load reports a warning, a commit an error.          *)
Fail(g) ==
  /\ failures < MaxFailures /\ failures' = failures + 1
  /\ \/ call[g].pc \in {"lock", "read", "create", "write", "sync", "rename", "flush"}
     \/ call[g].pc = "unlink" /\ call[g].files = {}
  /\ temp' = IF call[g].pc \in {"write", "sync", "rename", "flush"} THEN NoFile ELSE temp
  /\ Return(g)
  /\ UNCHANGED <<file, legacy, maybe, history, crashes>>

-----------------------------------------------------------------------------
(* A greeter exits or dies: its lock goes with it, its files stay. *)
Die(g) ==
  /\ call[g].pc # "off"
  /\ crashes < MaxCrashes /\ crashes' = crashes + 1
  /\ call' = [call EXCEPT ![g] = Off]
  /\ lock' = IF lock = g THEN None ELSE lock
  /\ UNCHANGED <<disk, history, failures>>

(* Each name comes back as it was at some time since the last fsync, and a *)
(* file that was not synced with any content.                              *)
PowerLoss ==
  /\ crashes < MaxCrashes /\ crashes' = crashes + 1
  /\ \E f \in maybe : file' \in AfterLoss(f)
  /\ temp' \in {NoFile, Unsaved(Corrupt)}
  /\ \E back \in SUBSET {t \in Slot : legacy[t] = "unlinked"} :
       legacy' = [t \in Slot |-> IF t \in back THEN "present"
                                 ELSE IF legacy[t] = "unlinked" THEN "removed"
                                 ELSE legacy[t]]
  /\ maybe' = {file'}
  /\ call' = [g \in Greeter |-> Off] /\ lock' = None
  /\ UNCHANGED <<history, failures>>

Contend(g) == Acquire(g) \/ LockTimeout(g)
Work(g) ==
  \/ ReadState(g) \/ CreateTemp(g) \/ WriteTemp(g) \/ SyncTemp(g)
  \/ Rename(g) \/ Flush(g) \/ Unlink(g) \/ Cleaned(g)

Next ==
  \/ \E g \in Greeter :
       Load(g) \/ Commit(g) \/ Contend(g) \/ Work(g) \/ Fail(g) \/ Die(g)
  \/ PowerLoss

Spec == Init /\ [][Next]_vars

-----------------------------------------------------------------------------
(* The types of the variables. *)
TypeOK ==
  /\ file \in File /\ temp \in File /\ maybe \subseteq File
  /\ legacy \in [Slot -> {"none", "present", "unlinked", "removed"}]
  /\ lock \in Greeter \cup {None}
  /\ call \in [Greeter -> [pc : Steps \cup {"off", "idle"}, op : Operation, base : Content,
                           new : CacheState, files : SUBSET Slot]]
  /\ changed \subseteq Slot /\ promised \subseteq Content
  /\ failures \in 0..MaxFailures /\ crashes \in 0..MaxCrashes

(* A commit that returned is durable: whatever a power loss restores was   *)
(* written by it or after it.                                              *)
SuccessSurvives == \A f \in maybe : f.synced /\ f.data \in promised

(* A file of the old version goes only when its entry, or what a later     *)
(* login put in its place, survives any power loss.                        *)
LegacyKept ==
  \A t \in Slot : legacy[t] \in {"unlinked", "removed"} =>
    \A f \in maybe : f.data \in CacheState /\ (t \in changed \/ f.data[t] = Legacy[t])

(* Several greeters, failures, crashes and power losses implement a state  *)
(* that changes in one step and rolls back only to what was not flushed.   *)
StoreOf == INSTANCE Store WITH state <- file.data, possible <- {f.data : f \in maybe}
StoreSpec == StoreOf!Spec

(* "Existing username and desktop-session caches are migrated on first     *)
(* use": once a state file is in use, an entry of the old version is in it *)
(* or has been replaced.                                                   *)
FirstUseMigrates ==
  file.data \in CacheState =>
    \A t \in Present : t \in changed \/ file.data[t] = Legacy[t]
=============================================================================
