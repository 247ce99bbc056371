------------------------------ MODULE CacheProofs ------------------------------
(***************************************************************************)
(* Proofs about Cache: whatever fails and whoever dies, what a commit      *)
(* returned is durable, no entry of the old version is lost with its file, *)
(* and the directory implements a store that changes in one step.          *)
(***************************************************************************)
EXTENDS Cache, TLAPS

(* What an update may do: it sets slots to values they can have. *)
UpdateType(update) ==
  /\ DOMAIN update.set \subseteq Slot
  /\ \A t \in DOMAIN update.set : update.set[t] \in Value(t)

LEMMA UpdatesAreTyped ==
  ASSUME NEW update \in Updates \cup LoadUpdates
  PROVE  UpdateType(update)
<1>1. CASE update \in LoadUpdates
  BY <1>1 DEF LoadUpdates, PurgeCommands, UpdateType
<1>2. CASE update = PurgeCommands
  BY <1>2 DEF PurgeCommands, UpdateType
<1>3. ASSUME NEW u \in User, NEW s \in Selection \cup {None}, NEW r \in SUBSET Slot,
             NEW a \in BOOLEAN
      PROVE  UpdateType(SuccessfulLogin(u, s, r, a))
  <2> DEFINE set == SuccessfulLogin(u, s, r, a).set
  <2>1. DOMAIN set = r \cap {Last, Global, u}
    BY DEF SuccessfulLogin
  <2>2. \A t \in DOMAIN set :
          set[t] = IF t = Last THEN u ELSE IF s \in Command /\ ~a THEN None ELSE s
    BY DEF SuccessfulLogin
  <2>3. \A t \in DOMAIN set : set[t] \in Value(t)
    BY <2>2 DEF Value
  <2> QED BY <2>1, <2>3 DEF UpdateType, Slot
<1> QED
  BY <1>1, <1>2, <1>3 DEF Updates

LEMMA DefaultIsState == Default \in CacheState
BY DEF Default, CacheState, Value

LEMMA ReadableIsState ==
  ASSUME NEW content
  PROVE  Readable(content) \in CacheState
BY DefaultIsState DEF Readable

LEMMA RemoveKeepsType ==
  ASSUME NEW state \in CacheState
  PROVE  RemoveCommands(state) \in CacheState
BY DEF RemoveCommands, CacheState, Value

(* Updates keep states states. *)
LEMMA ApplyKeepsType ==
  ASSUME NEW state \in CacheState, NEW update, UpdateType(update)
  PROVE  Apply(state, update) \in CacheState
<1> DEFINE set == [t \in Slot |-> IF t \in DOMAIN update.set THEN update.set[t] ELSE state[t]]
<1>1. \A t \in Slot : set[t] \in Value(t)
  BY DEF UpdateType, CacheState
<1>2. set \in CacheState
  <2>1. \A t \in Slot : set[t] \in User \cup Selection \cup {None}
    BY <1>1 DEF Value
  <2> QED BY <1>1, <2>1 DEF CacheState
<1>3. Apply(state, update) = IF update.purge THEN RemoveCommands(set) ELSE set
  BY DEF Apply
<1> HIDE DEF set
<1> QED BY <1>2, <1>3, RemoveKeepsType

LEMMA MigratedIsState ==
  ASSUME NEW files \in SUBSET Slot
  PROVE  Migrated(files) \in CacheState /\ \A t \in files : Migrated(files)[t] = Legacy[t]
BY CacheAssumption DEF Migrated, CacheState, Value

(* What an update does not set it leaves, unless it is a command. *)
LEMMA ApplyKeepsEntries ==
  ASSUME NEW state \in CacheState, NEW update, NEW t \in Slot,
         t \notin DOMAIN update.set, state[t] = Legacy[t]
  PROVE  Apply(state, update)[t] = Legacy[t]
BY CacheAssumption DEF Apply, RemoveCommands

(* A load that purges nothing changes nothing. *)
LEMMA ApplyNothing ==
  ASSUME NEW state \in CacheState
  PROVE  Apply(state, [PurgeCommands EXCEPT !.purge = FALSE]) = state
BY DEF Apply, PurgeCommands, CacheState

LEMMA SpecialContents ==
  /\ None \in Content /\ Corrupt \in Content /\ Future \in Content /\ CacheState \subseteq Content
  /\ None \notin CacheState
BY CacheAssumption DEF Content

-----------------------------------------------------------------------------
(* The inductive invariant.  Who is past the lock holds it ...              *)
Inside == Steps \ {"lock"}
LockInv == \A g \in Greeter : call[g].pc \in Inside => lock = g

(* ... so that what it read is still there, and what it writes in its       *)
(* place is one update or the migration of what it read ...                 *)
Succeeds(base, new) ==
  \/ base # Future /\ \E u \in Updates : new = Apply(Readable(base), u)
  \/ base = None /\ \E files \in SUBSET Slot : new = Migrated(files)

(* ... and keeps the entries of the old version: those of the files it      *)
(* migrates, and those that the file already stands for.                    *)
Represents(content, t) == content \in CacheState /\ content[t] = Legacy[t]
Writing == {"create", "write", "sync", "rename"}
Keeps(c) ==
  /\ \A t \in c.files : Represents(c.new, t)
  /\ \A t \in Slot \ DOMAIN c.op.update.set :
       Represents(c.base, t) => Represents(c.new, t)

WriterOf(g) ==
  /\ call[g].pc \in Writing =>
       /\ call[g].base = file.data
       /\ Succeeds(call[g].base, call[g].new) /\ Keeps(call[g])
  /\ call[g].pc = "sync" => temp = Unsaved(call[g].new)
  /\ call[g].pc = "rename" => temp = Saved(call[g].new)
  /\ call[g].pc = "flush" => \A t \in call[g].files : Represents(file.data, t)
  /\ call[g].pc = "unlink" =>
       \A f \in maybe : \A t \in call[g].files : Represents(f.data, t)

WriterInv == \A g \in Greeter : WriterOf(g)

FileInv == file \in maybe

IInv == TypeOK /\ LockInv /\ WriterInv /\ FileInv /\ SuccessSurvives /\ LegacyKept

-----------------------------------------------------------------------------
(* Types *)

Calls == [pc : Steps \cup {"off", "idle"}, op : Operation, base : Content,
          new : CacheState, files : SUBSET Slot]

LEMMA RestTypes ==
  /\ NoOperation \in Operation /\ Off \in Calls /\ Idle \in Calls
  /\ Off.pc = "off" /\ Idle.pc = "idle"
<1>1. PurgeCommands \in LoadUpdates
  BY DEF LoadUpdates, PurgeCommands
<1>2. NoOperation \in Operation
  BY <1>1 DEF NoOperation, Operation
<1> QED
  BY <1>2, DefaultIsState, SpecialContents DEF Off, Idle, Calls

LEMMA FileTypes ==
  /\ NoFile \in File /\ Unsaved(Corrupt) \in File
  /\ \A c \in Content : Saved(c) \in File /\ Unsaved(c) \in File
  /\ \A f \in File : /\ f.data \in Content /\ f.synced \in BOOLEAN
                     /\ f = [data |-> f.data, synced |-> f.synced]
                     /\ AfterLoss(f) \subseteq File
                     /\ f.synced => AfterLoss(f) = {f}
<1>1. \A c \in Content : Saved(c) \in File /\ Unsaved(c) \in File
  BY DEF File, Saved, Unsaved
<1>2. NoFile \in File /\ Unsaved(Corrupt) \in File
  BY <1>1, SpecialContents DEF NoFile
<1>3. ASSUME NEW f \in File
      PROVE  /\ f.data \in Content /\ f.synced \in BOOLEAN
             /\ f = [data |-> f.data, synced |-> f.synced]
  BY DEF File
<1>4. ASSUME NEW f \in File
      PROVE  AfterLoss(f) \subseteq File /\ (f.synced => AfterLoss(f) = {f})
  BY <1>2 DEF AfterLoss
<1> QED BY <1>1, <1>2, <1>3, <1>4

(* What a call does to the calls: it goes on, or it returns. *)
LEMMA GotoCalls ==
  ASSUME TypeOK, NEW g \in Greeter, NEW pc \in Steps \cup {"off", "idle"}, Goto(g, pc)
  PROVE  /\ call' \in [Greeter -> Calls]
         /\ call'[g] = [call[g] EXCEPT !.pc = pc]
         /\ \A h \in Greeter \ {g} : call'[h] = call[h]
BY DEF TypeOK, Goto, Calls

LEMMA ReturnCalls ==
  ASSUME TypeOK, NEW g \in Greeter, Return(g)
  PROVE  /\ call' \in [Greeter -> Calls] /\ call'[g] = Idle
         /\ \A h \in Greeter \ {g} : call'[h] = call[h]
         /\ lock' \in Greeter \cup {None} /\ lock' = IF lock = g THEN None ELSE lock
BY RestTypes DEF TypeOK, Return, Calls

LEMMA PrepareCalls ==
  ASSUME TypeOK, NEW g \in Greeter, NEW new \in CacheState, NEW files \in SUBSET Slot,
         Prepare(g, new, files)
  PROVE  /\ call' \in [Greeter -> Calls]
         /\ call'[g] = [call[g] EXCEPT !.pc = "create", !.base = file.data,
                                       !.new = new, !.files = files]
         /\ \A h \in Greeter \ {g} : call'[h] = call[h]
<1>1. file.data \in Content
  BY FileTypes DEF TypeOK
<1>2. call \in [Greeter -> Calls]
  BY DEF TypeOK, Calls
<1>3. [call[g] EXCEPT !.pc = "create", !.base = file.data, !.new = new, !.files = files] \in Calls
  BY <1>1, <1>2 DEF Calls, Steps
<1>4. call' = [call EXCEPT ![g] = [call[g] EXCEPT !.pc = "create", !.base = file.data,
                                                   !.new = new, !.files = files]]
  BY <1>2 DEF Prepare
<1> QED BY <1>2, <1>3, <1>4

LEMMA BeginCalls ==
  ASSUME TypeOK, NEW g \in Greeter, NEW load \in BOOLEAN, NEW update,
         [load |-> load, update |-> update] \in Operation, Begin(g, load, update)
  PROVE  /\ call' \in [Greeter -> Calls] /\ call'[g].pc = "lock"
         /\ \A h \in Greeter \ {g} : call'[h] = call[h]
<1>1. call \in [Greeter -> Calls]
  BY DEF TypeOK, Calls
<1>2. [Off EXCEPT !.pc = "lock", !.op = [load |-> load, update |-> update]] \in Calls
  BY RestTypes DEF Calls, Steps
<1>3. [Off EXCEPT !.pc = "lock", !.op = [load |-> load, update |-> update]].pc = "lock"
  BY DEF Off
<1> QED BY <1>1, <1>2, <1>3 DEF Begin

(* Both kinds of calls begin with an operation. *)
LEMMA LoadBegins ==
  ASSUME NEW g \in Greeter, Load(g)
  PROVE  \E load \in BOOLEAN : \E update :
           [load |-> load, update |-> update] \in Operation /\ Begin(g, load, update)
<1>1. PICK a \in BOOLEAN : Begin(g, TRUE, [PurgeCommands EXCEPT !.purge = ~a])
  BY DEF Load
<1>2. [PurgeCommands EXCEPT !.purge = ~a] \in LoadUpdates
  <2>1. PurgeCommands = [set |-> PurgeCommands.set, purge |-> TRUE]
    BY DEF PurgeCommands
  <2> QED BY <2>1 DEF LoadUpdates
<1> QED BY <1>1, <1>2 DEF Operation

LEMMA CommitBegins ==
  ASSUME NEW g \in Greeter, Commit(g)
  PROVE  \E load \in BOOLEAN : \E update :
           [load |-> load, update |-> update] \in Operation /\ Begin(g, load, update)
<1>1. PICK update \in CommitUpdates : Begin(g, FALSE, update)
  BY DEF Commit
<1>2. update \in Updates
  BY PolicyAssumption DEF CommitUpdates, Updates
<1> QED BY <1>1, <1>2 DEF Operation

-----------------------------------------------------------------------------
(* What a call decides to write after it has read.                          *)
Worth(new, files, update) ==
  /\ new \in CacheState /\ files \in SUBSET Slot
  /\ Succeeds(file.data, new)
  /\ \A t \in files : Represents(new, t)
  /\ \A t \in Slot \ DOMAIN update.set : Represents(file.data, t) => Represents(new, t)

LEMMA UpdateIsWorth ==
  ASSUME NEW update \in Updates, file.data # Future
  PROVE  Worth(Apply(Readable(file.data), update), {}, update)
<1> DEFINE new == Apply(Readable(file.data), update)
<1>1. new \in CacheState
  BY UpdatesAreTyped, ReadableIsState, ApplyKeepsType
<1>2. Succeeds(file.data, new)
  BY DEF Succeeds
<1>3. ASSUME NEW t \in Slot \ DOMAIN update.set, Represents(file.data, t)
      PROVE  Represents(new, t)
  <2>1. Readable(file.data) = file.data /\ file.data \in CacheState /\ file.data[t] = Legacy[t]
    BY <1>3 DEF Readable, Represents
  <2> QED BY <1>1, <2>1, ApplyKeepsEntries DEF Represents
<1> QED BY <1>1, <1>2, <1>3 DEF Worth

LEMMA MigrationIsWorth ==
  ASSUME NEW files \in SUBSET Slot, NEW update, file.data = None
  PROVE  Worth(Migrated(files), files, update)
<1>1. \A t \in Slot : ~Represents(file.data, t)
  BY SpecialContents DEF Represents
<1>2. Succeeds(file.data, Migrated(files))
  BY DEF Succeeds
<1> QED BY <1>1, <1>2, MigratedIsState DEF Worth, Represents

LEMMA ReadDecides ==
  ASSUME TypeOK, NEW g \in Greeter, ReadState(g)
  PROVE  \/ Return(g)
         \/ \E new, files : Worth(new, files, call[g].op.update) /\ Prepare(g, new, files)
<1> DEFINE update == call[g].op.update
<1>1. call[g].op \in Operation
  BY DEF TypeOK
<1>2. CASE ~call[g].op.load
  <2>1. update \in Updates
    BY <1>1, <1>2 DEF Operation
  <2>2. ReadToCommit(g)
    BY <1>2 DEF ReadState
  <2>3. CASE file.data = Future
    BY <2>2, <2>3 DEF ReadToCommit
  <2>4. CASE file.data # Future
    <3>1. Prepare(g, Apply(Readable(file.data), update), {})
      BY <2>2, <2>4 DEF ReadToCommit
    <3> QED BY <2>1, <2>4, <3>1, UpdateIsWorth
  <2> QED BY <2>3, <2>4
<1>3. CASE call[g].op.load
  <2> DEFINE kept == Apply(Readable(file.data), update)
  <2>1. update \in LoadUpdates
    BY <1>1, <1>3 DEF Operation
  <2>2. ReadToLoad(g)
    BY <1>3 DEF ReadState
  <2>3. CASE file.data = None /\ Present # {}
    <3>1. Prepare(g, Migrated(Present), Present)
      BY <2>2, <2>3, SpecialContents DEF ReadToLoad
    <3>2. Present \in SUBSET Slot
      BY DEF Present
    <3> QED BY <2>3, <3>1, <3>2, MigrationIsWorth
  <2>4. CASE /\ ~(file.data = None /\ Present # {})
             /\ file.data \in CacheState /\ kept # file.data
    <3>1. Prepare(g, kept, {})
      BY <2>2, <2>4 DEF ReadToLoad
    <3>2. update.purge
      <4>1. Readable(file.data) = file.data
        BY <2>4 DEF Readable
      <4>2. PurgeCommands = [set |-> PurgeCommands.set, purge |-> TRUE]
        BY DEF PurgeCommands
      <4>3. ~update.purge => update = [PurgeCommands EXCEPT !.purge = FALSE]
        BY <2>1, <4>2 DEF LoadUpdates
      <4> QED BY <2>4, <4>1, <4>3, ApplyNothing
    <3>3. update = PurgeCommands
      <4>1. PurgeCommands = [set |-> PurgeCommands.set, purge |-> TRUE]
        BY DEF PurgeCommands
      <4> QED BY <2>1, <3>2, <4>1 DEF LoadUpdates
    <3>4. update \in Updates
      BY <3>3 DEF Updates
    <3>5. file.data # Future
      BY <2>4, CacheAssumption
    <3> QED BY <3>1, <3>4, <3>5, UpdateIsWorth
  <2>5. CASE ~(file.data = None /\ Present # {})
             /\ ~(file.data \in CacheState /\ kept # file.data)
    BY <2>2, <2>5 DEF ReadToLoad
  <2> QED BY <2>3, <2>4, <2>5
<1> QED BY <1>2, <1>3

-----------------------------------------------------------------------------
(* Who is not at work on the directory has nothing to keep. *)
LEMMA OutsideRests ==
  ASSUME NEW g \in Greeter, call'[g].pc \notin Inside
  PROVE  WriterOf(g)'
BY DEF WriterOf, Writing, Inside, Steps

(* What one greeter does under the lock does not disturb the others, who   *)
(* are not at work.                                                        *)
OthersRest(g) == \A h \in Greeter \ {g} : call'[h] = call[h]
LocksRight(g) ==
  /\ lock' \in Greeter \cup {None}
  /\ call'[g].pc \in Inside => lock' = g
  /\ \A h \in Greeter \ {g} : lock = h => lock' = h

LEMMA LockKeeps ==
  ASSUME LockInv, NEW g \in Greeter, OthersRest(g), LocksRight(g)
  PROVE  LockInv'
BY DEF LockInv, OthersRest, LocksRight

LEMMA OthersAreOutside ==
  ASSUME LockInv, NEW g \in Greeter, call[g].pc \in Inside, OthersRest(g)
  PROVE  \A h \in Greeter \ {g} : call'[h].pc \notin Inside
BY DEF LockInv, OthersRest

LEMMA WritersKeep ==
  ASSUME LockInv, WriterInv, NEW g \in Greeter, OthersRest(g), WriterOf(g)',
         call[g].pc \in Inside \/ UNCHANGED <<file, temp, maybe>>
  PROVE  WriterInv'
<1> SUFFICES ASSUME NEW h \in Greeter PROVE WriterOf(h)'
  BY DEF WriterInv
<1>1. CASE h = g
  BY <1>1
<1>2. CASE h # g /\ call[g].pc \in Inside
  BY <1>2, OthersAreOutside, OutsideRests
<1>3. CASE h # g /\ UNCHANGED <<file, temp, maybe>>
  <2>1. WriterOf(h) /\ call'[h] = call[h]
    BY <1>3 DEF WriterInv, OthersRest
  <2>2. UNCHANGED <<file, temp, maybe>>
    BY <1>3
  <2> QED BY <2>1, <2>2 DEF WriterOf
<1> QED BY <1>1, <1>2, <1>3

(* A step that leaves what is in the directory, but for the temporary file. *)
Calm == UNCHANGED <<file, maybe, legacy, changed, promised>>

LEMMA CalmKeeps ==
  ASSUME IInv, NEW g \in Greeter, Calm, OthersRest(g), LocksRight(g), WriterOf(g)',
         call' \in [Greeter -> Calls], temp' \in File,
         failures' \in 0..MaxFailures, crashes' \in 0..MaxCrashes,
         call[g].pc \in Inside \/ temp' = temp
  PROVE  IInv'
<1>1. TypeOK'
  BY DEF IInv, TypeOK, Calm, Calls, LocksRight
<1>2. LockInv' /\ WriterInv'
  BY LockKeeps, WritersKeep DEF IInv, Calm
<1>3. FileInv' /\ SuccessSurvives' /\ LegacyKept'
  BY DEF IInv, Calm, FileInv, SuccessSurvives, LegacyKept
<1> QED BY <1>1, <1>2, <1>3 DEF IInv

(* Calls that begin, wait for the lock, read, and write the temporary file. *)
LEMMA BeginKeeps ==
  ASSUME IInv, NEW g \in Greeter, Load(g) \/ Commit(g)
  PROVE  IInv' /\ Calm
<1>0. PICK load \in BOOLEAN :
        \E update : [load |-> load, update |-> update] \in Operation /\ Begin(g, load, update)
  BY LoadBegins, CommitBegins
<1>1. PICK update :
        [load |-> load, update |-> update] \in Operation /\ Begin(g, load, update)
  BY <1>0
<1>2. /\ call' \in [Greeter -> Calls] /\ call'[g].pc = "lock" /\ OthersRest(g)
  BY <1>1, BeginCalls DEF IInv, OthersRest
<1>3. Calm /\ UNCHANGED <<temp, lock, failures, crashes>>
  BY <1>1 DEF Begin, Calm, disk, history, bounds
<1>4. LocksRight(g)
  BY <1>2, <1>3 DEF IInv, TypeOK, LocksRight, Inside
<1>5. WriterOf(g)'
  BY <1>2, OutsideRests DEF Inside
<1> QED BY <1>2, <1>3, <1>4, <1>5, CalmKeeps DEF IInv, TypeOK

LEMMA ContendKeeps ==
  ASSUME IInv, NEW g \in Greeter, Contend(g)
  PROVE  IInv' /\ Calm
<1>0. TypeOK /\ lock \in Greeter \cup {None} /\ None \notin Greeter
  BY GreeterAssumption DEF IInv, TypeOK
<1>1. CASE Acquire(g)
  <2>1. /\ call' \in [Greeter -> Calls] /\ call'[g] = [call[g] EXCEPT !.pc = "read"]
        /\ OthersRest(g)
    BY <1>0, <1>1, GotoCalls DEF Acquire, OthersRest, Steps
  <2>2. call'[g].pc = "read"
    BY <1>0, <2>1 DEF TypeOK
  <2>3. Calm /\ UNCHANGED <<temp, failures, crashes>>
    BY <1>1 DEF Acquire, Calm, disk, history, bounds
  <2>4. LocksRight(g)
    BY <1>0, <1>1 DEF Acquire, LocksRight
  <2>5. WriterOf(g)'
    BY <2>2 DEF WriterOf, Writing
  <2> QED BY <2>1, <2>3, <2>4, <2>5, CalmKeeps DEF IInv, TypeOK
<1>2. CASE LockTimeout(g)
  <2>1. /\ call' \in [Greeter -> Calls] /\ call'[g].pc = "idle" /\ OthersRest(g)
        /\ lock' \in Greeter \cup {None} /\ lock' = IF lock = g THEN None ELSE lock
    BY <1>0, <1>2, ReturnCalls, RestTypes DEF LockTimeout, OthersRest
  <2>2. Calm /\ UNCHANGED <<temp, failures, crashes>>
    BY <1>2 DEF LockTimeout, Calm, disk, history, bounds
  <2>3. LocksRight(g)
    BY <2>1 DEF LocksRight, Inside, Steps
  <2>4. WriterOf(g)'
    BY <2>1, OutsideRests DEF Inside, Steps
  <2> QED BY <2>1, <2>2, <2>3, <2>4, CalmKeeps DEF IInv, TypeOK
<1> QED BY <1>1, <1>2 DEF Contend

LEMMA ReadKeeps ==
  ASSUME IInv, NEW g \in Greeter, ReadState(g)
  PROVE  IInv' /\ Calm
<1>0. TypeOK /\ call[g].pc = "read" /\ call[g] \in Calls /\ lock = g
  BY DEF IInv, TypeOK, Calls, ReadState, LockInv, Inside, Steps
<1>1. Calm /\ UNCHANGED <<temp, failures, crashes>>
  BY DEF ReadState, Calm, disk, history, bounds
<1>2. CASE Return(g)
  <2>1. /\ call' \in [Greeter -> Calls] /\ call'[g].pc = "idle" /\ OthersRest(g)
        /\ lock' \in Greeter \cup {None} /\ lock' = IF lock = g THEN None ELSE lock
    BY <1>0, <1>2, ReturnCalls, RestTypes DEF OthersRest
  <2>2. LocksRight(g)
    BY <2>1 DEF LocksRight, Inside, Steps
  <2>3. WriterOf(g)'
    BY <2>1, OutsideRests DEF Inside, Steps
  <2> QED BY <1>1, <2>1, <2>2, <2>3, CalmKeeps DEF IInv, TypeOK
<1>3. ASSUME NEW new, NEW files, Worth(new, files, call[g].op.update), Prepare(g, new, files)
      PROVE  IInv'
  <2>1. new \in CacheState /\ files \in SUBSET Slot
    BY <1>3 DEF Worth
  <2>2. /\ call' \in [Greeter -> Calls] /\ OthersRest(g)
        /\ call'[g] = [call[g] EXCEPT !.pc = "create", !.base = file.data,
                                      !.new = new, !.files = files]
    <3>1. TypeOK /\ Prepare(g, new, files)
      BY <1>0, <1>3
    <3> QED BY <2>1, <3>1, PrepareCalls DEF OthersRest
  <2>3. /\ call'[g].pc = "create" /\ call'[g].base = file.data
        /\ call'[g].new = new /\ call'[g].files = files /\ call'[g].op = call[g].op
    BY <1>0, <2>2 DEF Calls
  <2>4. LocksRight(g)
    BY <1>0, <1>3 DEF LocksRight, Prepare, TypeOK
  <2>5. file' = file
    BY <1>1 DEF Calm
  <2>6. WriterOf(g)'
    BY <1>3, <2>3, <2>5 DEF WriterOf, Writing, Worth, Keeps
  <2> QED BY <1>1, <2>2, <2>4, <2>6, CalmKeeps DEF IInv, TypeOK
<1> QED BY <1>0, <1>1, <1>2, <1>3, ReadDecides

LEMMA WriteKeeps ==
  ASSUME IInv, NEW g \in Greeter, CreateTemp(g) \/ WriteTemp(g) \/ SyncTemp(g)
  PROVE  IInv' /\ Calm
<1>0. /\ TypeOK /\ call[g] \in Calls /\ WriterOf(g) /\ LockInv
      /\ temp \in File /\ call[g].new \in Content
  BY SpecialContents DEF IInv, TypeOK, Calls, WriterInv
<1>1. call[g].pc \in Writing /\ lock = g
  BY <1>0 DEF CreateTemp, WriteTemp, SyncTemp, Writing, LockInv, Inside, Steps
<1>2. Calm /\ UNCHANGED <<lock, failures, crashes>>
  BY DEF CreateTemp, WriteTemp, SyncTemp, Calm, history, bounds
<1>3. PICK pc \in {"write", "sync", "rename"} :
        /\ Goto(g, pc)
        /\ pc = "write" => temp' = Unsaved(Corrupt)
        /\ pc = "sync" => temp' = Unsaved(call[g].new)
        /\ pc = "rename" => call[g].pc = "sync" /\ temp' = [temp EXCEPT !.synced = TRUE]
  BY DEF CreateTemp, WriteTemp, SyncTemp
<1>4. /\ call' \in [Greeter -> Calls] /\ call'[g] = [call[g] EXCEPT !.pc = pc]
      /\ OthersRest(g)
  <2>1. Goto(g, pc) /\ pc \in Steps \cup {"off", "idle"}
    BY <1>3 DEF Steps
  <2> QED BY <1>0, <2>1, GotoCalls DEF OthersRest
<1>5. /\ call'[g].pc = pc /\ call'[g].op = call[g].op /\ call'[g].base = call[g].base
      /\ call'[g].new = call[g].new /\ call'[g].files = call[g].files
  BY <1>0, <1>4 DEF Calls
<1>6. pc = "rename" => temp' = Saved(call[g].new)
  BY <1>0, <1>3 DEF WriterOf, Saved, Unsaved
<1>7. temp' \in File
  BY <1>0, <1>3, <1>6, FileTypes
<1>8. WriterOf(g)'
  <2>1. file' = file
    BY <1>2 DEF Calm
  <2>2. call'[g].pc \in Writing /\ call'[g].pc \notin {"flush", "unlink"}
    BY <1>3, <1>5 DEF Writing
  <2>3. /\ call'[g].base = file'.data
        /\ Succeeds(call'[g].base, call'[g].new) /\ Keeps(call[g])
    BY <1>0, <1>1, <1>5, <2>1 DEF WriterOf
  <2>4. Keeps(call'[g])
    BY <1>5, <2>3 DEF Keeps
  <2>5. /\ call'[g].pc = "sync" => temp' = Unsaved(call'[g].new)
        /\ call'[g].pc = "rename" => temp' = Saved(call'[g].new)
    BY <1>3, <1>5, <1>6
  <2> QED BY <2>2, <2>3, <2>4, <2>5 DEF WriterOf
<1>9. LocksRight(g)
  BY <1>1, <1>2 DEF LocksRight
<1>10. call[g].pc \in Inside
  BY <1>1 DEF Writing, Inside, Steps
<1> QED BY <1>0, <1>2, <1>4, <1>7, <1>8, <1>9, <1>10, CalmKeeps DEF TypeOK

(* A call that fails or a greeter that dies leaves the directory as it is. *)
LEMMA FailKeeps ==
  ASSUME IInv, NEW g \in Greeter, Fail(g)
  PROVE  IInv' /\ Calm
<1>0. TypeOK
  BY DEF IInv
<1>1. Calm /\ UNCHANGED crashes
  BY DEF Fail, Calm, history
<1>2. /\ call' \in [Greeter -> Calls] /\ call'[g].pc = "idle" /\ OthersRest(g)
      /\ lock' \in Greeter \cup {None} /\ lock' = IF lock = g THEN None ELSE lock
  BY <1>0, ReturnCalls, RestTypes DEF Fail, OthersRest
<1>3. LocksRight(g)
  BY <1>2 DEF LocksRight, Inside, Steps
<1>4. WriterOf(g)'
  BY <1>2, OutsideRests DEF Inside, Steps
<1>5. temp' \in File /\ (call[g].pc \in Inside \/ temp' = temp)
  BY <1>0, FileTypes DEF Fail, TypeOK, Inside, Steps
<1>6. failures' \in 0..MaxFailures /\ crashes' \in 0..MaxCrashes
  BY <1>0, <1>1, BoundAssumption DEF Fail, TypeOK
<1> QED BY <1>1, <1>2, <1>3, <1>4, <1>5, <1>6, CalmKeeps

LEMMA DieKeeps ==
  ASSUME IInv, NEW g \in Greeter, Die(g)
  PROVE  IInv' /\ Calm
<1>0. TypeOK
  BY DEF IInv
<1>1. Calm /\ UNCHANGED <<temp, failures>>
  BY DEF Die, Calm, disk, history
<1>2. call' \in [Greeter -> Calls] /\ call'[g].pc = "off" /\ OthersRest(g)
  BY <1>0, RestTypes DEF Die, TypeOK, Calls, OthersRest
<1>3. LocksRight(g)
  BY <1>0, <1>2 DEF Die, TypeOK, LocksRight, Inside, Steps
<1>4. WriterOf(g)'
  BY <1>2, OutsideRests DEF Inside, Steps
<1>5. failures' \in 0..MaxFailures /\ crashes' \in 0..MaxCrashes
  BY <1>0, <1>1, BoundAssumption DEF Die, TypeOK
<1> QED BY <1>0, <1>1, <1>2, <1>3, <1>4, <1>5, CalmKeeps DEF TypeOK

-----------------------------------------------------------------------------
(* The rename puts a whole, synced and worthy file in the place of the old. *)
LEMMA RenameReplaces ==
  ASSUME IInv, NEW g \in Greeter, Rename(g)
  PROVE  /\ lock = g /\ call[g] \in Calls /\ Keeps(call[g])
         /\ call[g].base = file.data /\ Succeeds(file.data, call[g].new)
         /\ temp = Saved(call[g].new) /\ file' = temp /\ maybe' = maybe \cup {temp}
         /\ file'.data = call[g].new /\ file'.synced
<1>1. WriterOf(g) /\ call[g].pc = "rename" /\ call[g] \in Calls
  BY DEF IInv, WriterInv, TypeOK, Calls, Rename
<1>2. lock = g
  BY <1>1 DEF IInv, LockInv, Inside, Steps
<1>3. /\ call[g].base = file.data /\ Succeeds(call[g].base, call[g].new) /\ Keeps(call[g])
      /\ temp = Saved(call[g].new)
  BY <1>1 DEF WriterOf, Writing
<1>4. file' = temp /\ maybe' = maybe \cup {temp}
  BY DEF Rename
<1>5. Saved(call[g].new).data = call[g].new /\ Saved(call[g].new).synced
  BY DEF Saved
<1> QED BY <1>1, <1>2, <1>3, <1>4, <1>5

LEMMA RenameKeeps ==
  ASSUME IInv, NEW g \in Greeter, Rename(g)
  PROVE  IInv'
<1> DEFINE new == call[g].new
           set == DOMAIN call[g].op.update.set
<1>0. /\ TypeOK /\ lock = g /\ call[g] \in Calls /\ Keeps(call[g])
      /\ call[g].base = file.data
      /\ temp = Saved(new) /\ file' = temp /\ maybe' = maybe \cup {temp}
      /\ file'.data = new /\ file'.synced
  BY RenameReplaces DEF IInv
<1>1. /\ UNCHANGED <<legacy, lock, failures, crashes>> /\ temp' = NoFile
      /\ changed' = changed \cup set /\ promised' = promised \cup {new}
  BY DEF Rename, bounds
<1>2. /\ call' \in [Greeter -> Calls] /\ call'[g] = [call[g] EXCEPT !.pc = "flush"]
      /\ OthersRest(g)
  <2>1. Goto(g, "flush") /\ "flush" \in Steps \cup {"off", "idle"}
    BY DEF Rename, Steps
  <2> QED BY <1>0, <2>1, GotoCalls DEF OthersRest
<1>3. call'[g].pc = "flush" /\ call'[g].files = call[g].files
  BY <1>0, <1>2 DEF Calls
<1>4. new \in CacheState /\ new \in Content /\ temp \in File /\ set \subseteq Slot
  <2>1. call[g].op.update \in Updates \cup LoadUpdates
    BY <1>0 DEF Calls, Operation
  <2>2. set \subseteq Slot
    BY <2>1, UpdatesAreTyped DEF UpdateType
  <2> QED BY <1>0, <2>2, SpecialContents, FileTypes DEF Calls
<1>5. TypeOK'
  <2>1. file' \in File /\ temp' \in File /\ maybe' \subseteq File
    BY <1>0, <1>1, <1>4, FileTypes DEF TypeOK
  <2>2. changed' \subseteq Slot /\ promised' \subseteq Content
    BY <1>0, <1>1, <1>4 DEF TypeOK
  <2> QED BY <1>0, <1>1, <1>2, <2>1, <2>2 DEF TypeOK, Calls
<1>6. WriterOf(g)'
  <2>1. \A t \in call'[g].files : Represents(file'.data, t)
    BY <1>0, <1>3 DEF Keeps
  <2> QED BY <1>3, <2>1 DEF WriterOf, Writing
<1>7. LockInv' /\ WriterInv'
  <2>1. LocksRight(g)
    BY <1>0, <1>1 DEF LocksRight, TypeOK
  <2>2. call[g].pc \in Inside
    BY DEF Rename, Inside, Steps
  <2> QED BY <1>2, <1>6, <2>1, <2>2, LockKeeps, WritersKeep DEF IInv
<1>8. FileInv'
  BY <1>0 DEF FileInv
<1>9. SuccessSurvives'
  BY <1>0, <1>1 DEF IInv, SuccessSurvives
<1>10. LegacyKept'
  <2> SUFFICES ASSUME NEW t \in Slot, legacy'[t] \in {"unlinked", "removed"},
                      NEW f \in maybe'
               PROVE  f.data \in CacheState /\ (t \in changed' \/ f.data[t] = Legacy[t])
    BY DEF LegacyKept
  <2>1. \A e \in maybe : e.data \in CacheState /\ (t \in changed \/ e.data[t] = Legacy[t])
    BY <1>1 DEF IInv, LegacyKept
  <2>2. CASE f \in maybe
    BY <1>1, <2>1, <2>2
  <2>3. CASE f = temp
    <3>1. f.data = new
      BY <1>0, <2>3
    <3>2. t \in changed \/ Represents(call[g].base, t)
      BY <1>0, <2>1 DEF IInv, FileInv, Represents
    <3>3. t \in changed' \/ Represents(new, t)
      BY <1>0, <1>1, <3>2 DEF Keeps
    <3> QED BY <1>4, <3>1, <3>3 DEF Represents
  <2> QED BY <1>0, <2>2, <2>3
<1> QED BY <1>5, <1>7, <1>8, <1>9, <1>10 DEF IInv

(* After an fsync of the directory only its present content is possible.   *)
LEMMA FlushedFiles ==
  ASSUME IInv, FlushDirectory, changed' = changed
  PROVE  /\ file' \in File /\ temp' \in File /\ maybe' \subseteq File
         /\ legacy' \in [Slot -> {"none", "present", "unlinked", "removed"}]
         /\ file' = file /\ file \in maybe /\ maybe' = {file} /\ file.synced /\ temp' = temp
         /\ FileInv' /\ LegacyKept'
<1>1. /\ file' = file /\ temp' = temp /\ maybe' = {file}
      /\ legacy' = [t \in Slot |-> IF legacy[t] = "unlinked" THEN "removed" ELSE legacy[t]]
  BY DEF FlushDirectory
<1>2. file \in maybe /\ file.synced
  BY DEF IInv, FileInv, SuccessSurvives
<1>3. legacy' \in [Slot -> {"none", "present", "unlinked", "removed"}]
  BY <1>1 DEF IInv, TypeOK
<1>4. FileInv'
  BY <1>1 DEF FileInv
<1>5. LegacyKept'
  <2> SUFFICES ASSUME NEW t \in Slot, legacy'[t] \in {"unlinked", "removed"}
               PROVE  file.data \in CacheState /\ (t \in changed \/ file.data[t] = Legacy[t])
    BY <1>1 DEF LegacyKept
  <2>1. legacy[t] \in {"unlinked", "removed"}
    BY <1>1 DEF IInv, TypeOK
  <2> QED BY <1>2, <2>1 DEF IInv, LegacyKept
<1> QED BY <1>1, <1>2, <1>3, <1>4, <1>5 DEF IInv, TypeOK

LEMMA FlushKeeps ==
  ASSUME IInv, NEW g \in Greeter, Flush(g)
  PROVE  IInv'
<1>0. /\ TypeOK /\ call[g] \in Calls /\ call[g].pc = "flush" /\ call[g].pc \in Inside
      /\ WriterOf(g) /\ lock = g
  BY DEF IInv, TypeOK, Calls, WriterInv, LockInv, Flush, Inside, Steps
<1>1. /\ FlushDirectory /\ promised' = {file.data}
      /\ UNCHANGED <<changed, failures, crashes>>
  BY DEF Flush, bounds
<1>2. /\ file' \in File /\ temp' \in File /\ maybe' \subseteq File
      /\ legacy' \in [Slot -> {"none", "present", "unlinked", "removed"}]
      /\ file' = file /\ maybe' = {file} /\ file.synced /\ FileInv' /\ LegacyKept'
  BY <1>1, FlushedFiles
<1>3. /\ call' \in [Greeter -> Calls] /\ OthersRest(g) /\ LocksRight(g) /\ WriterOf(g)'
  <2>1. CASE Return(g)
    <3>1. /\ call' \in [Greeter -> Calls] /\ call'[g].pc = "idle" /\ OthersRest(g)
          /\ lock' \in Greeter \cup {None} /\ lock' = IF lock = g THEN None ELSE lock
      BY <1>0, <2>1, ReturnCalls, RestTypes DEF OthersRest
    <3>2. LocksRight(g)
      BY <3>1 DEF LocksRight, Inside, Steps
    <3> QED BY <3>1, <3>2, OutsideRests DEF Inside, Steps
  <2>2. CASE Goto(g, "unlink") /\ UNCHANGED lock
    <3>1. "unlink" \in Steps \cup {"off", "idle"}
      BY DEF Steps
    <3>2. /\ call' \in [Greeter -> Calls] /\ call'[g] = [call[g] EXCEPT !.pc = "unlink"]
          /\ OthersRest(g)
      BY <1>0, <2>2, <3>1, GotoCalls DEF OthersRest
    <3>3. call'[g].pc = "unlink" /\ call'[g].files = call[g].files
      BY <1>0, <3>2 DEF Calls
    <3>4. \A t \in call[g].files : Represents(file.data, t)
      BY <1>0 DEF WriterOf
    <3>5. \A f \in maybe' : \A t \in call'[g].files : Represents(f.data, t)
      BY <1>2, <3>3, <3>4
    <3>6. WriterOf(g)'
      BY <3>3, <3>5 DEF WriterOf, Writing
    <3> QED BY <1>0, <2>2, <3>2, <3>6 DEF LocksRight, TypeOK
  <2> QED BY <2>1, <2>2 DEF Flush
<1>4. TypeOK'
  <2>1. promised' \subseteq Content
    BY <1>0, <1>1, FileTypes DEF TypeOK
  <2> QED BY <1>0, <1>1, <1>2, <1>3, <2>1 DEF TypeOK, Calls, LocksRight
<1>5. LockInv' /\ WriterInv'
  BY <1>0, <1>3, LockKeeps, WritersKeep DEF IInv
<1>6. SuccessSurvives'
  BY <1>1, <1>2 DEF SuccessSurvives
<1> QED BY <1>2, <1>4, <1>5, <1>6 DEF IInv

LEMMA UnlinkKeeps ==
  ASSUME IInv, NEW g \in Greeter, Unlink(g)
  PROVE  IInv'
<1>0. /\ TypeOK /\ call[g] \in Calls /\ call[g].pc = "unlink" /\ call[g].pc \in Inside
      /\ lock = g
  BY DEF IInv, TypeOK, Calls, LockInv, Unlink, Inside, Steps
<1>1. PICK t \in call[g].files :
        /\ call' = [call EXCEPT ![g].files = @ \ {t}]
        /\ \/ legacy' = [legacy EXCEPT ![t] = "unlinked"] /\ UNCHANGED failures
           \/ failures < MaxFailures /\ failures' = failures + 1 /\ UNCHANGED legacy
  BY DEF Unlink
<1>2. UNCHANGED <<file, temp, maybe, lock, changed, promised, crashes>>
  BY DEF Unlink, history
<1>3. /\ call' \in [Greeter -> Calls] /\ OthersRest(g)
      /\ call'[g] = [call[g] EXCEPT !.files = @ \ {t}]
  BY <1>0, <1>1 DEF TypeOK, Calls, OthersRest
<1>4. call'[g].pc = "unlink" /\ call'[g].files \subseteq call[g].files
  BY <1>0, <1>3 DEF Calls
<1>5. \A f \in maybe : \A u \in call[g].files : Represents(f.data, u)
  BY <1>0 DEF IInv, WriterInv, WriterOf
<1>6. TypeOK'
  <2>1. t \in Slot
    BY <1>0, <1>1 DEF Calls
  <2>2. legacy' \in [Slot -> {"none", "present", "unlinked", "removed"}]
    BY <1>0, <1>1, <2>1 DEF TypeOK
  <2>3. failures' \in 0..MaxFailures
    BY <1>0, <1>1, BoundAssumption DEF TypeOK
  <2> QED BY <1>0, <1>2, <1>3, <2>2, <2>3 DEF TypeOK, Calls
<1>7. LockInv' /\ WriterInv'
  <2>1. LocksRight(g)
    BY <1>0, <1>2 DEF LocksRight, TypeOK
  <2>2. \A f \in maybe' : \A u \in call'[g].files : Represents(f.data, u)
    BY <1>2, <1>4, <1>5
  <2>3. WriterOf(g)'
    BY <1>4, <2>2 DEF WriterOf, Writing
  <2> QED BY <1>0, <1>3, <2>1, <2>3, LockKeeps, WritersKeep DEF IInv
<1>8. FileInv' /\ SuccessSurvives'
  BY <1>2 DEF IInv, FileInv, SuccessSurvives
<1>9. LegacyKept'
  <2> SUFFICES ASSUME NEW u \in Slot, legacy'[u] \in {"unlinked", "removed"},
                      NEW f \in maybe
               PROVE  f.data \in CacheState /\ (u \in changed \/ f.data[u] = Legacy[u])
    BY <1>2 DEF LegacyKept
  <2>1. CASE u = t
    BY <1>1, <1>5, <2>1 DEF Represents
  <2>2. CASE u # t
    <3>1. legacy'[u] = legacy[u]
      BY <1>0, <1>1, <2>2 DEF TypeOK
    <3> QED BY <3>1 DEF IInv, LegacyKept
  <2> QED BY <2>1, <2>2
<1> QED BY <1>6, <1>7, <1>8, <1>9 DEF IInv

LEMMA CleanedKeeps ==
  ASSUME IInv, NEW g \in Greeter, Cleaned(g)
  PROVE  IInv'
<1>0. TypeOK /\ call[g].pc \in Inside
  BY DEF IInv, Cleaned, Inside, Steps
<1>1. FlushDirectory /\ UNCHANGED <<changed, promised, failures, crashes>>
  BY DEF Cleaned, history, bounds
<1>2. /\ file' \in File /\ temp' \in File /\ maybe' \subseteq File
      /\ legacy' \in [Slot -> {"none", "present", "unlinked", "removed"}]
      /\ file \in maybe /\ maybe' = {file} /\ FileInv' /\ LegacyKept'
  BY <1>1, FlushedFiles
<1>3. /\ call' \in [Greeter -> Calls] /\ call'[g].pc = "idle" /\ OthersRest(g)
      /\ lock' \in Greeter \cup {None} /\ lock' = IF lock = g THEN None ELSE lock
  BY <1>0, ReturnCalls, RestTypes DEF Cleaned, OthersRest
<1>4. LocksRight(g) /\ WriterOf(g)'
  BY <1>3, OutsideRests DEF LocksRight, Inside, Steps
<1>5. TypeOK'
  BY <1>0, <1>1, <1>2, <1>3 DEF TypeOK, Calls
<1>6. LockInv' /\ WriterInv'
  BY <1>0, <1>3, <1>4, LockKeeps, WritersKeep DEF IInv
<1>7. SuccessSurvives'
  BY <1>1, <1>2 DEF IInv, SuccessSurvives
<1> QED BY <1>2, <1>5, <1>6, <1>7 DEF IInv

(* What comes back after a power loss is one of the files that were        *)
(* possible, whole: nobody renamed one that was not synced.                *)
LEMMA PowerLossRestores ==
  ASSUME IInv, PowerLoss
  PROVE  file' \in maybe /\ maybe' = {file'}
<1>1. PICK f \in maybe : file' \in AfterLoss(f)
  BY DEF PowerLoss
<1>2. f \in File /\ f.synced
  BY DEF IInv, TypeOK, SuccessSurvives
<1>3. file' = f
  BY <1>1, <1>2, FileTypes
<1> QED BY <1>3 DEF PowerLoss

LEMMA PowerLossKeeps ==
  ASSUME IInv, PowerLoss
  PROVE  IInv'
<1>0. TypeOK /\ file' \in maybe /\ maybe' = {file'}
  BY PowerLossRestores DEF IInv
<1>1. /\ UNCHANGED <<changed, promised, failures>> /\ lock' = None
      /\ call' = [g \in Greeter |-> Off] /\ temp' \in {NoFile, Unsaved(Corrupt)}
  BY DEF PowerLoss, history
<1>2. /\ legacy' \in [Slot -> {"none", "present", "unlinked", "removed"}]
      /\ \A t \in Slot : legacy'[t] \in {"unlinked", "removed"} =>
           legacy[t] \in {"unlinked", "removed"}
  <2>1. PICK back \in SUBSET {t \in Slot : legacy[t] = "unlinked"} :
          legacy' = [t \in Slot |-> IF t \in back THEN "present"
                                    ELSE IF legacy[t] = "unlinked" THEN "removed"
                                    ELSE legacy[t]]
    BY DEF PowerLoss
  <2> QED BY <1>0, <2>1 DEF TypeOK
<1>3. \A g \in Greeter : call'[g].pc = "off"
  BY <1>1, RestTypes
<1>4. TypeOK'
  <2>1. file' \in File /\ maybe' \subseteq File /\ temp' \in File
    BY <1>0, <1>1, FileTypes DEF TypeOK
  <2>2. crashes' \in 0..MaxCrashes
    BY <1>0, BoundAssumption DEF PowerLoss, TypeOK
  <2>3. call' \in [Greeter -> Calls]
    BY <1>1, RestTypes
  <2> QED BY <1>0, <1>1, <1>2, <2>1, <2>2, <2>3 DEF TypeOK, Calls
<1>5. LockInv' /\ WriterInv'
  BY <1>3, OutsideRests DEF LockInv, WriterInv, Inside, Steps
<1>6. FileInv' /\ SuccessSurvives'
  BY <1>0, <1>1 DEF IInv, FileInv, SuccessSurvives
<1>7. LegacyKept'
  BY <1>0, <1>1, <1>2 DEF IInv, LegacyKept
<1> QED BY <1>4, <1>5, <1>6, <1>7 DEF IInv

LEMMA InitHolds == Init => IInv
<1> SUFFICES ASSUME Init PROVE IInv
  OBVIOUS
<1>1. PICK c \in Content : file = Saved(c)
  BY DEF Init
<1>2. file \in File /\ file.synced /\ file.data \in Content
  BY <1>1, FileTypes DEF Saved
<1>3. legacy \in [Slot -> {"none", "present"}]
  BY DEF Init
<1>4. \A g \in Greeter : call[g].pc = "off"
  BY RestTypes DEF Init
<1>5. TypeOK
  <2>1. call \in [Greeter -> Calls]
    BY RestTypes DEF Init
  <2>2. legacy \in [Slot -> {"none", "present", "unlinked", "removed"}]
    BY <1>3
  <2> QED BY <1>2, <2>1, <2>2, FileTypes, BoundAssumption DEF Init, TypeOK, Calls
<1>6. LockInv /\ WriterInv
  BY <1>4 DEF LockInv, WriterInv, WriterOf, Writing, Inside, Steps
<1>7. FileInv /\ SuccessSurvives
  BY <1>2 DEF Init, FileInv, SuccessSurvives
<1>8. LegacyKept
  BY <1>3 DEF LegacyKept
<1> QED BY <1>5, <1>6, <1>7, <1>8 DEF IInv

LEMMA StepKeeps == IInv /\ [Next]_vars => IInv'
<1> SUFFICES ASSUME IInv, [Next]_vars PROVE IInv'
  OBVIOUS
<1>1. ASSUME NEW g \in Greeter,
             Load(g) \/ Commit(g) \/ Contend(g) \/ Work(g) \/ Fail(g) \/ Die(g)
      PROVE  IInv'
  <2>1. CASE Load(g) \/ Commit(g)
    BY <2>1, BeginKeeps
  <2>2. CASE Contend(g)
    BY <2>2, ContendKeeps
  <2>3. CASE ReadState(g)
    BY <2>3, ReadKeeps
  <2>4. CASE CreateTemp(g) \/ WriteTemp(g) \/ SyncTemp(g)
    BY <2>4, WriteKeeps
  <2>5. CASE Rename(g)
    BY <2>5, RenameKeeps
  <2>6. CASE Flush(g)
    BY <2>6, FlushKeeps
  <2>7. CASE Unlink(g)
    BY <2>7, UnlinkKeeps
  <2>8. CASE Cleaned(g)
    BY <2>8, CleanedKeeps
  <2>9. CASE Fail(g)
    BY <2>9, FailKeeps
  <2>10. CASE Die(g)
    BY <2>10, DieKeeps
  <2> QED
    BY <1>1, <2>1, <2>2, <2>3, <2>4, <2>5, <2>6, <2>7, <2>8, <2>9, <2>10 DEF Work
<1>2. CASE PowerLoss
  BY <1>2, PowerLossKeeps
<1>3. CASE UNCHANGED vars
  <2>1. UNCHANGED <<file, temp, legacy, maybe, lock, call, changed, promised,
                    failures, crashes>>
    BY <1>3 DEF vars, disk, history, bounds
  <2>2. TypeOK' /\ LockInv' /\ FileInv' /\ SuccessSurvives' /\ LegacyKept'
    BY <2>1 DEF IInv, TypeOK, LockInv, FileInv, SuccessSurvives, LegacyKept
  <2>3. WriterInv'
    BY <2>1 DEF IInv, WriterInv, WriterOf
  <2> QED BY <2>2, <2>3 DEF IInv
<1> QED BY <1>1, <1>2, <1>3 DEF Next

(* Every variable of the cache keeps its type, for all greeters, logins    *)
(* and bounds.                                                             *)
THEOREM TypeCorrect == Spec => []TypeOK
<1>1. IInv => TypeOK
  BY DEF IInv
<1> QED BY <1>1, InitHolds, StepKeeps, PTL DEF Spec

(* Whatever a power loss restores was written by the last commit or        *)
(* migration that returned, or after it (write_state, sync_directory).     *)
THEOREM CommitsAreDurable == Spec => []SuccessSurvives
<1>1. IInv => SuccessSurvives
  BY DEF IInv
<1> QED BY <1>1, InitHolds, StepKeeps, PTL DEF Spec

(* A file of the old version is gone only when its entry, or what a login  *)
(* has set since, survives any power loss (remove_legacy).                 *)
THEOREM OldEntriesSurvive == Spec => []LegacyKept
<1>1. IInv => LegacyKept
  BY DEF IInv
<1> QED BY <1>1, InitHolds, StepKeeps, PTL DEF Spec

-----------------------------------------------------------------------------
(* The refinement: a rename is a commit or a migration of the store, an    *)
(* fsync of the directory its flush, a power loss its power loss, and all  *)
(* else a stutter.                                                         *)
LEMMA StoreOperators ==
  /\ StoreOf!Updates = Updates /\ StoreOf!Content = Content
  /\ \A s, u : StoreOf!Apply(s, u) = Apply(s, u)
  /\ \A c : StoreOf!Readable(c) = Readable(c)
  /\ \A files : StoreOf!Migrated(files) = Migrated(files)
  /\ StoreOf!Slot = Slot
<1>1. StoreOf!Slot = Slot /\ StoreOf!Default = Default /\ StoreOf!Selections = Selections
  BY DEF StoreOf!Slot, Slot, StoreOf!Default, Default, StoreOf!Selections, Selections
<1>2. StoreOf!CacheState = CacheState
  BY <1>1 DEF StoreOf!CacheState, CacheState, StoreOf!Value, Value
<1>3. StoreOf!Content = Content
  BY <1>2 DEF StoreOf!Content, Content
<1>4. \A c : StoreOf!Readable(c) = Readable(c)
  BY <1>1, <1>2 DEF StoreOf!Readable, Readable
<1>5. \A files : StoreOf!Migrated(files) = Migrated(files)
  BY <1>1 DEF StoreOf!Migrated, Migrated
<1>6. \A s : StoreOf!RemoveCommands(s) = RemoveCommands(s)
  BY <1>1 DEF StoreOf!RemoveCommands, RemoveCommands
<1>7. \A s, u : StoreOf!Apply(s, u) = Apply(s, u)
  BY <1>1, <1>6 DEF StoreOf!Apply, Apply
<1>8. /\ \A u, s, r, a : StoreOf!SuccessfulLogin(u, s, r, a) = SuccessfulLogin(u, s, r, a)
      /\ StoreOf!PurgeCommands = PurgeCommands
  BY DEF StoreOf!SuccessfulLogin, SuccessfulLogin, StoreOf!PurgeCommands, PurgeCommands
<1>9. StoreOf!Updates = Updates
  BY <1>1, <1>8 DEF StoreOf!Updates, Updates
<1> QED BY <1>1, <1>3, <1>4, <1>5, <1>7, <1>9

LEMMA FlushRefines ==
  ASSUME IInv, file' = file, maybe' = {file}
  PROVE  StoreOf!Flush
<1>1. {f.data : f \in maybe'} = {file.data}
  OBVIOUS
<1> QED BY <1>1 DEF StoreOf!Flush

LEMMA RenameRefines ==
  ASSUME IInv, NEW g \in Greeter, Rename(g)
  PROVE  StoreOf!Next
<1> DEFINE new == call[g].new
<1>1. /\ Succeeds(file.data, new) /\ file' = temp /\ maybe' = maybe \cup {temp}
      /\ file'.data = new
  BY RenameReplaces
<1>2. {f.data : f \in maybe'} = {f.data : f \in maybe} \cup {new}
  BY <1>1
<1>3. CASE file.data # Future /\ \E u \in Updates : new = Apply(Readable(file.data), u)
  <2>1. PICK u \in Updates : new = Apply(Readable(file.data), u)
    BY <1>3
  <2>2. StoreOf!Commit
    <3>1. new = StoreOf!Apply(StoreOf!Readable(file.data), u) /\ u \in StoreOf!Updates
      BY <2>1, StoreOperators
    <3> HIDE DEF new
    <3> QED BY <1>1, <1>2, <1>3, <3>1 DEF StoreOf!Commit, StoreOf!Replace
  <2> QED BY <2>2 DEF StoreOf!Next
<1>4. CASE file.data = None /\ \E files \in SUBSET Slot : new = Migrated(files)
  <2>1. PICK files \in SUBSET Slot : new = Migrated(files)
    BY <1>4
  <2>2. StoreOf!Migrate
    <3>1. new = StoreOf!Migrated(files) /\ files \in SUBSET StoreOf!Slot
      BY <2>1, StoreOperators
    <3> HIDE DEF new
    <3> QED BY <1>1, <1>2, <1>4, <3>1 DEF StoreOf!Migrate, StoreOf!Replace
  <2> QED BY <2>2 DEF StoreOf!Next
<1> QED BY <1>1, <1>3, <1>4 DEF Succeeds

LEMMA CalmRefines ==
  ASSUME UNCHANGED <<file, maybe>>
  PROVE  UNCHANGED StoreOf!storeVars
BY DEF StoreOf!storeVars

LEMMA StepRefines == IInv /\ [Next]_vars => [StoreOf!Next]_(StoreOf!storeVars)
<1> SUFFICES ASSUME IInv, [Next]_vars PROVE [StoreOf!Next]_(StoreOf!storeVars)
  OBVIOUS
<1>1. ASSUME NEW g \in Greeter,
             Load(g) \/ Commit(g) \/ Contend(g) \/ Work(g) \/ Fail(g) \/ Die(g)
      PROVE  [StoreOf!Next]_(StoreOf!storeVars)
  <2>1. CASE Rename(g)
    BY <2>1, RenameRefines
  <2>2. CASE Flush(g) \/ Cleaned(g)
    <3>1. file' = file /\ maybe' = {file}
      BY <2>2 DEF Flush, Cleaned, FlushDirectory
    <3> QED BY <3>1, FlushRefines DEF StoreOf!Next
  <2>3. CASE Unlink(g)
    BY <2>3, CalmRefines DEF Unlink
  <2>4. CASE \/ Load(g) \/ Commit(g) \/ Contend(g) \/ ReadState(g)
             \/ CreateTemp(g) \/ WriteTemp(g) \/ SyncTemp(g) \/ Fail(g) \/ Die(g)
    <3>1. Calm
      BY <2>4, BeginKeeps, ContendKeeps, ReadKeeps, WriteKeeps, FailKeeps, DieKeeps
    <3> QED BY <3>1, CalmRefines DEF Calm
  <2> QED BY <1>1, <2>1, <2>2, <2>3, <2>4 DEF Work
<1>2. CASE PowerLoss
  <2>1. file' \in maybe /\ maybe' = {file'}
    BY <1>2, PowerLossRestores
  <2>2. {f.data : f \in maybe'} = {file'.data} /\ file'.data \in {f.data : f \in maybe}
    BY <2>1
  <2>3. StoreOf!PowerLoss
    BY <2>2 DEF StoreOf!PowerLoss
  <2> QED BY <2>3 DEF StoreOf!Next
<1>3. CASE UNCHANGED vars
  BY <1>3, CalmRefines DEF vars, disk
<1> QED BY <1>1, <1>2, <1>3 DEF Next

LEMMA InitRefines == Init => StoreOf!Init
<1> SUFFICES ASSUME Init PROVE StoreOf!Init
  OBVIOUS
<1>1. maybe = {file} /\ file.data \in Content
  BY DEF Init, Saved
<1>2. {f.data : f \in maybe} = {file.data}
  BY <1>1
<1> QED BY <1>1, <1>2, StoreOperators DEF StoreOf!Init

(* Any number of greeters on one directory, with failing calls, kills and  *)
(* power losses, are a store that changes in one step from the state it    *)
(* holds and rolls back only to what was not flushed (CacheStore).         *)
THEOREM CacheImplementsStore == Spec => StoreSpec
BY InitHolds, StepKeeps, InitRefines, StepRefines, PTL DEF Spec, StoreSpec, StoreOf!Spec
=============================================================================
