------------------------------ MODULE IpcProofs ------------------------------
(***************************************************************************)
(* Theorems about Ipc, for every set of users and launch sources, every    *)
(* capacity and every bound: the first five also for key presses that      *)
(* overtake the actor at any step (Hasty), from NobodyWaitsForRoom on for  *)
(* those that do not.                                                      *)
(*                                                                         *)
(* The safety invariants relate the screen to the position of the actor,   *)
(* so the inductive invariant says, for each position, what the actor      *)
(* still owes the screen.                                                  *)
(***************************************************************************)
EXTENDS Ipc, SequenceTheorems, TLAPS

(* What the types need: a starting session has its snapshot, the retry has *)
(* its request, and the count of failures reaches its limit only where the *)
(* actor gives up.                                                         *)
TypeInv ==
  /\ TypeOK
  /\ g.auth = "StartingSession" => g.pending \in Pending
  /\ pc = "requeue" => current \in Requests
  /\ failures = MaxFailures => \/ pc = "close" /\ after = "failed"
                               \/ pc \in {"failed", "drain", "stopped"}

(* A reply or a response that says "Success" comes from a session that     *)
(* greetd will start or has started.                                       *)
ReplyInv ==
  /\ reply # None => pc \in {"read", "cancel", "close"}
  /\ pc = "read" /\ reply = "Success" => session.phase \in {"ready", "started"}
  /\ pc = "parse" /\ response = "Success" => session.phase \in {"ready", "started"}

(* While the screen waits for StartSession, the session behind it is ready *)
(* or started until an error arrives, so that the next success is that of  *)
(* StartSession.                                                           *)
StartInv ==
  g.auth = "StartingSession" =>
    /\ pc \notin {"recover", "backoff", "resend", "requeue", "persist", "report"}
    /\ pc \in {"cancel", "close"} => after # "select"
    /\ pc \in {"select", "received", "connect", "write"} => session.phase \in {"ready", "started"}
    /\ pc = "read" /\ reply = None => session.phase \in {"ready", "started"}
    /\ pc = "read" /\ reply \notin {None, "Error", "AuthError"} =>
         reply = "Success" /\ session.phase = "started"
    /\ pc = "parse" /\ response \notin {"Error", "AuthError"} =>
         response = "Success" /\ session.phase = "started"

(* Where success is reported, and everywhere after, the session runs.      *)
SuccessInv ==
  /\ pc \in {"persist", "report"} => session.phase = "started" /\ g.auth = "Started"
  /\ \A i \in 1..Len(controls) : controls[i] = "Success" => session.phase = "started"
  /\ SuccessMeansStarted

StartedInv == TypeInv /\ ReplyInv /\ StartInv /\ SuccessInv

(* A cancellation is unseen, or the actor is on its way to the reset.      *)
CancelInv ==
  /\ observed <= generation
  /\ g.auth = "Cancelling" =>
       \/ Cancelled(observed)
       \/ pc \in {"cancel", "close"} /\ after # "select"
       \/ pc \in {"finish", "failed", "recover", "drain", "stopped"}

(* The actor owes a waiting screen an answer: there is something to wake   *)
(* it, or it is between the request and the handling of its outcome.       *)
WaitInv ==
  IsWaiting(g.auth) =>
    \/ queue # <<>> \/ Cancelled(observed) \/ shutdown
    \/ pc \in {"received", "connect", "write", "read", "parse", "finish", "failed",
               "recover", "backoff", "resend", "requeue", "drain", "stopped"}
    \/ pc \in {"cancel", "close"} /\ after # "select"

ScreenInv == StartedInv /\ CancelInv /\ WaitInv


-----------------------------------------------------------------------------
(* The Greeter's methods keep its record well formed (src/greeter.rs). *)

LEMMA ResetLocalType ==
  ASSUME NEW h \in GreeterRecord, NEW soft \in BOOLEAN
  PROVE  /\ ResetLocal(h, soft) \in GreeterRecord
         /\ ResetLocal(h, soft).auth = "Idle"
  BY DEF GreeterRecord, ResetLocal, AuthStates, Modes, UserField

(* SetAuth changes the authentication state and nothing else.              *)
LEMMA SetAuthType ==
  ASSUME NEW h \in GreeterRecord, NEW auth \in AuthStates
  PROVE  /\ SetAuth(h, auth) \in GreeterRecord
         /\ SetAuth(h, auth).auth = auth
         /\ SetAuth(h, auth).user = h.user
  BY DEF GreeterRecord, SetAuth, AuthStates

(* Leaving for StartSession captures the session to start.                 *)
LEMMA BeginStartType ==
  ASSUME NEW h \in GreeterRecord, h.source # None
  PROVE  /\ BeginStart(h) \in GreeterRecord
         /\ BeginStart(h).auth = "StartingSession"
         /\ BeginStart(h).pending \in Pending
  BY DEF GreeterRecord, BeginStart, AuthStates, Modes, Pending, SourceField

(* A popup changes only what is on the screen.                             *)
LEMMA OpenPopupType ==
  ASSUME NEW h \in GreeterRecord, NEW popup \in Popups
  PROVE  OpenPopup(h, popup) \in GreeterRecord /\ OpenPopup(h, popup).auth = h.auth
  BY DEF GreeterRecord, OpenPopup, Modes

(* So does closing it.                                                     *)
LEMMA ClosePopupType ==
  ASSUME NEW h \in GreeterRecord
  PROVE  /\ ClosePopup(h) \in GreeterRecord
         /\ ClosePopup(h).auth = h.auth
         /\ ClosePopup(h).pending = h.pending
  BY DEF GreeterRecord, ClosePopup

(* A reload changes neither the authentication state nor the snapshot.     *)
LEMMA ReloadedType ==
  ASSUME NEW h \in GreeterRecord, NEW r \in Reloaded(h)
  PROVE  r \in GreeterRecord /\ r.auth = h.auth /\ r.pending = h.pending
  BY DEF GreeterRecord, Reloaded, SafePreviousMode, Modes, UserField, SourceField

(* Every captured session has a cache entry.                               *)
LEMMA CacheEntryType ==
  ASSUME NEW p \in Pending
  PROVE  CacheEntry(p) \in CacheEntries
  BY DEF Pending, CacheEntry, CacheEntries

(* A request built from typed parts is one.                                *)
LEMMA RequestType ==
  ASSUME NEW kind \in Kinds, NEW user \in UserField, NEW source \in SourceField, NEW gen \in Nat
  PROVE  Request(kind, user, source, gen) \in Requests
  BY DEF Request, Requests

(* Queueing a request keeps the channel well formed, and while the actor   *)
(* runs there is a request in it.                                          *)
LEMMA SendType ==
  ASSUME TypeOK, NEW kind \in Kinds, NEW user \in UserField, NEW source \in SourceField,
         Send(kind, user, source)
  PROVE  /\ queue' \in Seq(Requests)
         /\ pc # "stopped" => queue' # <<>>
  BY RequestType DEF Send, TypeOK

(* Queueing never empties the channel.                                     *)
LEMMA SendQueue ==
  ASSUME TypeOK, NEW kind \in Kinds, NEW user \in UserField, NEW source \in SourceField,
         Send(kind, user, source)
  PROVE  /\ pc # "stopped" => queue' # <<>>
         /\ queue # <<>> => queue' # <<>>
  BY SendType DEF Send

(* A cancellation moves the generation and the state together.             *)
LEMMA CancelLoginType ==
  ASSUME TypeOK, NEW h \in GreeterRecord, CancelLogin(h)
  PROVE  /\ g' \in GreeterRecord /\ generation' \in Nat /\ generation <= generation'
         /\ \/ g'.auth = "Cancelling" /\ generation' = generation + 1
            \/ g' = h /\ generation' = generation /\ ~CanCancel(h.auth)
  BY SetAuthType DEF CancelLogin, TypeOK, AuthStates

(* The keyboard and a reload touch the Greeter, the channel and the        *)
(* generation, and keep the types of the rest.                             *)
LEMMA GreeterChangeType ==
  ASSUME TypeInv, UNCHANGED <<actorVars, greetdVars, mainVars, cache>>,
         g' \in GreeterRecord, queue' \in Seq(Requests), generation' \in Nat,
         g'.auth = "StartingSession" => g'.pending \in Pending
  PROVE  TypeInv'
  BY DEF TypeInv, TypeOK, actorVars, greetdVars, mainVars

(* Validating a username begins a login with a request, or does nothing.   *)
LEMMA ValidateType ==
  ASSUME TypeOK, NEW h \in GreeterRecord, Validate(h)
  PROVE  /\ g' \in GreeterRecord /\ queue' \in Seq(Requests)
         /\ \/ g'.auth = "CreatingSession" /\ (pc # "stopped" => queue' # <<>>)
            \/ g'.auth = h.auth /\ g'.pending = h.pending /\ queue' = queue
<1>1. PICK s \in {h.source} \cup (IF h.remember THEN Sources ELSE {}) :
        LET r == [h EXCEPT !.source = s]
        IN  IF CanBegin(r)
            THEN g' = BeginAuthentication(r) /\ Send("Create", r.user, None)
            ELSE g' = r /\ UNCHANGED queue
  BY DEF Validate
<1> DEFINE r == [h EXCEPT !.source = s]
<1>2. r \in GreeterRecord /\ r.auth = h.auth /\ r.pending = h.pending
  BY DEF GreeterRecord, SourceField
<1>3. CASE CanBegin(r)
  <2>1. g' = SetAuth(r, "CreatingSession") /\ Send("Create", r.user, None)
    BY <1>1, <1>3 DEF BeginAuthentication
  <2>2. r.user \in UserField
    BY <1>2 DEF GreeterRecord
  <2> QED
    BY <1>2, <2>1, <2>2, SetAuthType, SendType DEF AuthStates, Kinds, SourceField
<1>4. CASE ~CanBegin(r)
  BY <1>1, <1>2, <1>4 DEF TypeOK
<1> QED
  BY <1>3, <1>4

(* It never takes a request out of the queue.                              *)
LEMMA ValidateQueue ==
  ASSUME TypeOK, NEW h \in GreeterRecord, Validate(h), queue # <<>>
  PROVE  queue' # <<>>
<1>1. CASE pc = "stopped"
  BY <1>1 DEF Validate, Send
<1>2. CASE pc # "stopped"
  BY <1>2, ValidateType
<1> QED
  BY <1>1, <1>2

(* A key press.                                                            *)
LEMMA KeyboardType ==
  ASSUME TypeInv, Keyboard
  PROVE  TypeInv'
<1> USE DEF TypeInv
<1>1. /\ UNCHANGED <<actorVars, greetdVars, mainVars, cache>>
      /\ g \in GreeterRecord /\ queue \in Seq(Requests) /\ generation \in Nat
  BY DEF Keyboard, TypeUsername, SubmitUsername, SubmitPassword, OpenMenu, ChooseUser,
         ChooseSource, Escape, Typing, KeyboardReady, TypeOK
<1>2. CASE TypeUsername
  BY <1>1, <1>2, GreeterChangeType DEF TypeUsername, GreeterRecord
<1>3. CASE SubmitUsername
  BY <1>1, <1>3, ValidateType, GreeterChangeType DEF SubmitUsername, Typing, AcceptsInput
<1>4. CASE SubmitPassword
  <2>1. g.user \in UserField
    BY <1>1 DEF GreeterRecord
  <2> QED
    BY <1>1, <1>4, <2>1, SetAuthType, SendType, GreeterChangeType
       DEF SubmitPassword, AuthStates, Kinds, SourceField
<1>5. CASE OpenMenu
  BY <1>1, <1>5, OpenPopupType, GreeterChangeType DEF OpenMenu, Typing, AcceptsInput
<1>6. CASE ChooseUser
  <2>1. PICK u \in Users : Validate([ClosePopup(g) EXCEPT !.user = u])
    BY <1>6 DEF ChooseUser
  <2> DEFINE h == [ClosePopup(g) EXCEPT !.user = u]
  <2>2. h \in GreeterRecord /\ h.auth = g.auth /\ h.pending = g.pending
    BY <1>1, ClosePopupType DEF GreeterRecord, UserField
  <2>3. generation' = generation
    BY <1>6 DEF ChooseUser
  <2> HIDE DEF h
  <2>4. Validate(h)
    BY <2>1 DEF h
  <2> QED
    BY <1>1, <2>2, <2>3, <2>4, ValidateType, GreeterChangeType
<1>7. CASE ChooseSource
  <2>1. PICK s \in Sources : g' = [ClosePopup(g) EXCEPT !.source = s]
    BY <1>7 DEF ChooseSource
  <2>2. g' \in GreeterRecord /\ g'.auth = g.auth /\ g'.pending = g.pending
    BY <1>1, <2>1, ClosePopupType DEF GreeterRecord, SourceField
  <2> QED
    BY <1>1, <1>7, <2>2, GreeterChangeType DEF ChooseSource
<1>8. CASE Escape
  BY <1>1, <1>8, ClosePopupType, CancelLoginType, ResetLocalType, GreeterChangeType DEF Escape
<1> QED
  BY <1>2, <1>3, <1>4, <1>5, <1>6, <1>7, <1>8 DEF Keyboard, KeyboardReady

(* The main loop.                                                          *)
LEMMA MainLoopType ==
  ASSUME TypeInv, MainLoop
  PROVE  TypeInv'
<1> USE DEF TypeInv
<1>1. /\ UNCHANGED <<actorVars, greetdVars, cache, queue>>
      /\ g \in GreeterRecord /\ queue \in Seq(Requests) /\ generation \in Nat
  BY DEF MainLoop, Reload, TakeControl, Terminate, ActorEnded, StopActor, Leave, MainReady, TypeOK
<1>2. CASE Reload
  <2>1. PICK h \in Reloaded(g) :
          IF h.source = None THEN generation < MaxCancels /\ CancelLogin(h)
          ELSE g' = h /\ UNCHANGED generation
    BY <1>2 DEF Reload
  <2>2. UNCHANGED mainVars
    BY <1>2 DEF Reload
  <2> QED
    BY <1>1, <2>1, <2>2, ReloadedType, CancelLoginType, GreeterChangeType
<1>3. CASE TakeControl \/ Terminate
  <2>1. /\ UNCHANGED shutdown /\ controls' \in Seq({"Success", "Failure"})
        /\ \E status \in {"Success", "Failure", "Cancel"} : Exit(status)
    <3>1. controls \in Seq({"Success", "Failure"})
      BY DEF TypeOK
    <3>2. CASE TakeControl
      <4>1. Head(controls) \in {"Success", "Failure"} /\ Tail(controls) \in Seq({"Success", "Failure"})
        BY <3>1, <3>2, HeadTailProperties DEF TakeControl
      <4> QED
        BY <3>2, <4>1 DEF TakeControl
    <3>3. CASE Terminate
      BY <3>1, <3>3 DEF Terminate
    <3> QED
      BY <1>3, <3>2, <3>3
  <2>2. PICK status \in {"Success", "Failure", "Cancel"} : Exit(status)
    BY <2>1
  <2>3. /\ g' \in GreeterRecord /\ generation' \in Nat
        /\ g'.auth = "StartingSession" => g'.pending \in Pending
    BY <1>1, <2>2, CancelLoginType DEF Exit
  <2>4. main' = "closing" /\ exit' \in {"none", "Success", "Failure", "Cancel", "Error"}
    BY <2>2 DEF Exit
  <2> QED
    BY <1>1, <2>1, <2>3, <2>4 DEF TypeOK, actorVars, greetdVars
<1>4. CASE ActorEnded
  BY <1>1, <1>4 DEF ActorEnded, TypeOK, actorVars, greetdVars
<1>5. CASE StopActor
  BY <1>1, <1>5 DEF StopActor, TypeOK, actorVars, greetdVars
<1>6. CASE Leave
  BY <1>1, <1>6 DEF Leave, TypeOK, actorVars, greetdVars
<1> QED
  BY <1>2, <1>3, <1>4, <1>5, <1>6 DEF MainLoop

(* The actor between two requests, and on its way to greetd and back.      *)
LEMMA TransactType ==
  ASSUME TypeInv,
         \/ SelectShutdown \/ SelectCancel \/ SelectRequest \/ CheckGeneration
         \/ Connect \/ Write \/ Read \/ WriteCancel \/ Close
  PROVE  TypeInv'
<1> USE DEF TypeInv, TypeOK, PCs, greetdVars, mainVars, Greeting, Goto, CloseThen, Fail,
            CancelStreamThen, Interrupt
<1>1. CASE SelectShutdown
  BY <1>1 DEF SelectShutdown
<1>2. CASE SelectCancel
  BY <1>2 DEF SelectCancel
<1>3. CASE SelectRequest
  <2>1. current' \in Requests /\ queue' \in Seq(Requests)
    BY <1>3, HeadTailProperties DEF SelectRequest
  <2> QED
    BY <1>3, <2>1 DEF SelectRequest
<1>4. CASE CheckGeneration
  BY <1>4 DEF CheckGeneration
<1>5. failures < MaxFailures => failures + 1 \in 0..MaxFailures
  BY IpcAssumption
<1>6. CASE Connect
  <2>1. /\ pc = "connect" /\ pc' \in {"close", "write"} /\ stream' \in BOOLEAN
        /\ after' \in {"cancelled", "drain", "failed", after}
        /\ \/ UNCHANGED failures
           \/ failures' = failures + 1 /\ pc' = "close" /\ after' = "failed"
        /\ UNCHANGED <<g, queue, generation, mainVars, cache, greetdVars, current, response,
                       update, observed>>
    BY <1>6 DEF Connect
  <2> QED
    BY <1>5, <2>1, IpcAssumption
<1>7. CASE Write
  BY <1>5, <1>7, IpcAssumption DEF Write
<1>8. CASE Read
  BY <1>5, <1>8, IpcAssumption DEF Read, ReadOr
<1>9. CASE WriteCancel
  BY <1>9 DEF WriteCancel
<1>10. CASE Close
  <2>1. session' \in Sessions
    <3>1. NoSession \in Sessions
      BY DEF NoSession, Sessions, UserField, SourceField
    <3>2. CASE session' \in {session, NoSession}
      BY <3>1, <3>2
    <3>3. CASE /\ wire # None /\ wire.kind = "Start"
               /\ session' = [session EXCEPT !.phase = "started", !.source = wire.source]
      <4>1. wire.source \in SourceField
        BY <3>3 DEF Cancel, Requests
      <4> QED
        BY <3>3, <4>1 DEF Sessions
    <3> QED
      BY <1>10, <3>2, <3>3 DEF Close, Orphaned
  <2>2. /\ pc = "close" /\ pc' \in {"finish", "select", "failed", "drain"}
        /\ pc' = "failed" <=> after = "failed"
        /\ observed' \in Nat /\ current' \in Requests \cup {None}
        /\ stream' = FALSE /\ wire' = None /\ reply' = None
        /\ UNCHANGED <<after, g, queue, generation, mainVars, cache, response, update, failures>>
    BY <1>10 DEF Close
  <2>3. TypeOK'
    <3>1. (/\ g \in GreeterRecord /\ queue \in Seq(Requests)
           /\ generation \in Nat /\ observed \in Nat
           /\ shutdown \in BOOLEAN /\ stream \in BOOLEAN
           /\ controls \in Seq({"Success", "Failure"}) /\ pc \in PCs)'
      BY <2>2
    <3>2. (/\ after \in {"select", "finish", "cancelled", "failed", "drain"}
           /\ current \in Requests \cup {None} /\ response \in Responses \cup {None}
           /\ update \in CacheEntries \cup {None} /\ failures \in 0..MaxFailures
           /\ wire \in Requests \cup {Cancel, None} /\ reply \in Responses \cup {None})'
      BY <2>2
    <3>3. (/\ cache \in CacheEntries \cup {None}
           /\ main \in {"running", "closing", "stopping", "done"}
           /\ exit \in {"none", "Success", "Failure", "Cancel", "Error"})'
      BY <2>2
    <3> QED
      BY <2>1, <3>1, <3>2, <3>3
  <2>4. pc' = "failed" \/ failures' # MaxFailures
    BY <2>2
  <2> QED
    BY <2>2, <2>3, <2>4
<1> QED
  BY <1>1, <1>2, <1>3, <1>4, <1>6, <1>7, <1>8, <1>9, <1>10

(* The handling of a response.                                             *)
LEMMA ParseType ==
  ASSUME TypeInv, Parse
  PROVE  TypeInv'
<1> USE DEF TypeInv, TypeOK, PCs, greetdVars, mainVars, Goto, CloseThen, Handled, Parsing
<1>1. /\ g \in GreeterRecord /\ g.user \in UserField /\ g.source \in SourceField
      /\ None \in SourceField /\ TypeOK
  BY DEF GreeterRecord, SourceField
<1>2. \A auth \in AuthStates : SetAuth(g, auth) \in GreeterRecord /\ SetAuth(g, auth).auth = auth
  BY <1>1, SetAuthType
<1>3. CASE ParsePrompt
  <2>1. g' \in GreeterRecord /\ g'.auth = "AwaitingInput"
    <3>1. /\ SetAuth(g, "AwaitingInput") \in GreeterRecord
          /\ SetAuth(g, "AwaitingInput").auth = "AwaitingInput"
      BY <1>2 DEF AuthStates
    <3>2. g' = [SetAuth(g, "AwaitingInput") EXCEPT !.mode = "Password", !.prev = "Password"]
      BY <1>3 DEF ParsePrompt
    <3>3. \A h \in GreeterRecord : [h EXCEPT !.mode = "Password", !.prev = "Password"] \in GreeterRecord
      BY DEF GreeterRecord, Modes
    <3>4. \A h \in GreeterRecord : [h EXCEPT !.mode = "Password", !.prev = "Password"].auth = h.auth
      BY DEF GreeterRecord
    <3> QED
      BY <3>1, <3>2, <3>3, <3>4
  <2> QED
    BY <1>3, <2>1 DEF ParsePrompt
<1>4. CASE ParseMessage
  <2>1. g' \in GreeterRecord /\ g'.auth = "ContinuingAuth"
    <3>1. /\ SetAuth(g, "ContinuingAuth") \in GreeterRecord
          /\ SetAuth(g, "ContinuingAuth").auth = "ContinuingAuth"
      BY <1>2 DEF AuthStates
    <3>2. \/ g' = SetAuth(g, "ContinuingAuth")
          \/ g' = [SetAuth(g, "ContinuingAuth") EXCEPT !.prev = g.mode, !.mode = "Action"]
      BY <1>4 DEF ParseMessage
    <3>3. g.mode \in Modes
      BY <1>1 DEF GreeterRecord
    <3>4. \A h \in GreeterRecord, mode \in Modes :
            [h EXCEPT !.prev = mode, !.mode = "Action"] \in GreeterRecord
      BY DEF GreeterRecord, Modes
    <3>5. \A h \in GreeterRecord, mode \in Modes :
            [h EXCEPT !.prev = mode, !.mode = "Action"].auth = h.auth
      BY DEF GreeterRecord
    <3>6. [SetAuth(g, "ContinuingAuth") EXCEPT !.prev = g.mode, !.mode = "Action"] \in GreeterRecord
      BY <3>1, <3>3, <3>4
    <3>7. [SetAuth(g, "ContinuingAuth") EXCEPT !.prev = g.mode, !.mode = "Action"].auth
            = "ContinuingAuth"
      BY <3>1, <3>3, <3>5
    <3> QED
      BY <3>1, <3>2, <3>6, <3>7
  <2>2. queue' \in Seq(Requests)
    <3>1. Send("Ack", g.user, None)
      BY <1>4 DEF ParseMessage
    <3>2. "Ack" \in Kinds
      BY DEF Kinds
    <3> QED
      BY <1>1, <3>1, <3>2, SendType
  <2> QED
    BY <1>4, <2>1, <2>2 DEF ParseMessage
<1>5. CASE ParseAuthenticated
  <2>1. /\ g' \in GreeterRecord /\ generation' \in Nat /\ queue' \in Seq(Requests)
        /\ g'.auth = "StartingSession" => g'.pending \in Pending
    <3>1. CASE g.source = None
      BY <1>1, <1>5, <3>1, CancelLoginType DEF ParseAuthenticated
    <3>2. CASE g.source # None
      BY <1>1, <1>5, <3>2, BeginStartType, SendType DEF ParseAuthenticated, Kinds
    <3> QED
      BY <3>1, <3>2
  <2> QED
    BY <1>5, <2>1 DEF ParseAuthenticated
<1>6. CASE ParseStarted
  <2>1. CacheEntry(g.pending) \in CacheEntries
    BY <1>6, CacheEntryType DEF ParseStarted
  <2>2. g' \in GreeterRecord /\ g'.auth = "Started"
    BY <1>2, <1>6 DEF ParseStarted, Acknowledge, AuthStates
  <2>3. update' \in CacheEntries \cup {None}
    BY <1>6, <2>1 DEF ParseStarted, Acknowledge
  <2> QED
    BY <1>6, <2>2, <2>3 DEF ParseStarted, Acknowledge
<1>7. CASE ParseError
  <2>1. /\ g' \in GreeterRecord /\ g'.auth \in {"Idle", "CreatingSession"}
        /\ queue' \in Seq(Requests)
    <3>1. CASE response = "AuthError"
      <4>1. /\ g' = SetAuth(ResetLocal(g, TRUE), "CreatingSession")
            /\ Send("Create", g.user, None)
        BY <1>7, <3>1 DEF ParseError
      <4>2. ResetLocal(g, TRUE) \in GreeterRecord /\ "CreatingSession" \in AuthStates
        BY <1>1, ResetLocalType DEF AuthStates
      <4>3. g' \in GreeterRecord /\ g'.auth = "CreatingSession"
        BY <4>1, <4>2, SetAuthType
      <4>4. queue' \in Seq(Requests)
        BY <1>1, <4>1, SendType DEF Kinds
      <4> QED
        BY <4>3, <4>4
    <3>2. CASE response # "AuthError"
      BY <1>1, <1>7, <3>2, ResetLocalType DEF ParseError
    <3> QED
      BY <3>1, <3>2
  <2> QED
    BY <1>7, <2>1 DEF ParseError
<1>8. CASE ParseUnexpected
  <2>1. failures + 1 \in 0..MaxFailures
    BY <1>8, IpcAssumption DEF ParseUnexpected
  <2> QED
    BY <1>8, <2>1 DEF ParseUnexpected, Fail
<1> QED
  BY <1>3, <1>4, <1>5, <1>6, <1>7, <1>8 DEF Parse

(* Everything else the actor does, and greetd.                             *)
LEMMA RestType ==
  ASSUME TypeInv,
         \/ FinishCancellation \/ Persist \/ ReportStarted \/ EnterFailed \/ Recover
         \/ Backoff \/ ReadUsername \/ Requeue \/ Drain \/ Greetd \/ Finished
  PROVE  TypeInv'
<1> USE DEF TypeInv, PCs, actorVars, greetdVars, mainVars, Greeting, Goto
<1>1. g \in GreeterRecord /\ g.user \in UserField /\ None \in SourceField /\ TypeOK
  BY DEF TypeOK, GreeterRecord, SourceField
<1>2. CASE FinishCancellation
  <2>1. g' \in GreeterRecord /\ g'.auth = "Idle"
    BY <1>1, <1>2, ResetLocalType DEF FinishCancellation
  <2>2. pc' = "select" /\ pc = "finish"
        /\ UNCHANGED <<after, queue, generation, mainVars, cache, greetdVars, current, response,
                       update, observed, failures, stream>>
    BY <1>2 DEF FinishCancellation
  <2> QED
    BY <2>1, <2>2 DEF TypeOK
<1>3. CASE Persist
  BY <1>3 DEF Persist, TypeOK
<1>4. CASE ReportStarted
  <2>1. controls' \in Seq({"Success", "Failure"})
    BY <1>1, <1>4, AppendProperties DEF ReportStarted, TypeOK
  <2> QED
    BY <1>4, <2>1 DEF ReportStarted, Reported, TypeOK
<1>5. CASE EnterFailed
  <2>1. controls' \in Seq({"Success", "Failure"})
    BY <1>1, <1>5, AppendProperties DEF EnterFailed, EnterFailedUnless, TypeOK
  <2>2. g' \in GreeterRecord /\ g'.auth = "Failed"
    BY <1>1, <1>5, SetAuthType DEF EnterFailed, EnterFailedUnless, AuthStates
  <2>3. failures = MaxFailures => pc' = "drain"
    BY <1>1, <1>5, IpcAssumption DEF EnterFailed, EnterFailedUnless, TypeOK
  <2> QED
    BY <1>5, <2>1, <2>2, <2>3 DEF EnterFailed, EnterFailedUnless, TypeOK
<1>6. CASE Recover
  <2>1. ResetLocal(g, TRUE) \in GreeterRecord /\ "CreatingSession" \in AuthStates
    BY <1>1, ResetLocalType DEF AuthStates
  <2>2. g' \in GreeterRecord /\ g'.auth = "CreatingSession"
    BY <1>6, <2>1, SetAuthType DEF Recover
  <2>3. pc' = "backoff" /\ pc = "recover"
        /\ UNCHANGED <<after, queue, generation, mainVars, cache, greetdVars, current, response,
                       update, observed, failures, stream>>
    BY <1>6 DEF Recover
  <2> QED
    BY <2>2, <2>3 DEF TypeOK
<1>7. CASE Backoff
  BY <1>7 DEF Backoff, TypeOK
<1>8. CASE ReadUsername
  <2>1. current' \in Requests
    BY <1>1, <1>8, RequestType DEF ReadUsername, Kinds, TypeOK
  <2> QED
    BY <1>8, <2>1 DEF ReadUsername, TypeOK
<1>9. CASE Requeue
  <2>1. current \in Requests /\ current.user \in UserField
    BY <1>9 DEF Requeue, Requests
  <2>2. queue' \in Seq(Requests)
    BY <1>1, <1>9, <2>1, SendType DEF Requeue, Kinds
  <2> QED
    BY <1>9, <2>2 DEF Requeue, TypeOK
<1>10. CASE Drain
  BY <1>10 DEF Drain, TypeOK
<1>11. CASE Greetd
  <2>1. wire \in Requests /\ wire.user \in UserField /\ wire.source \in SourceField
    BY <1>1, <1>11 DEF Greetd, TypeOK, Requests
  <2>2. session.user \in UserField
    BY <1>1 DEF TypeOK, Sessions
  <2>3. session' \in Sessions /\ reply' \in Responses
    BY <1>1, <1>11, <2>1, <2>2
       DEF Greetd, Answer, Sessions, Responses, UserField, SourceField, TypeOK
  <2> QED
    BY <1>11, <2>3 DEF Greetd, TypeOK
<1>12. CASE Finished
  BY <1>12 DEF Finished, vars, TypeOK
<1> QED
  BY <1>2, <1>3, <1>4, <1>5, <1>6, <1>7, <1>8, <1>9, <1>10, <1>11, <1>12

(* The initial states are typed; a login they begin is in the queue.       *)
LEMMA InitType ==
  ASSUME Init
  PROVE  TypeInv /\ g.auth \in {"Idle", "CreatingSession"}
            /\ (g.auth = "CreatingSession" => queue # <<>>)
<1>1. PICK u \in UserField, s \in SourceField, r \in BOOLEAN :
        LET form  == [auth |-> "Idle", pending |-> None, mode |-> "Username",
                      prev |-> "Username", user |-> u, source |-> s, remember |-> r]
            login == u # None /\ CanBegin(form)
        IN  /\ g = IF login THEN BeginAuthentication(form) ELSE form
            /\ queue = IF login THEN <<Request("Create", u, None, 0)>> ELSE <<>>
  BY DEF Init
<1> DEFINE form == [auth |-> "Idle", pending |-> None, mode |-> "Username",
                    prev |-> "Username", user |-> u, source |-> s, remember |-> r]
<1>2. form \in GreeterRecord
  BY DEF GreeterRecord, AuthStates, Modes
<1>3. /\ g \in GreeterRecord /\ g.auth \in {"Idle", "CreatingSession"}
      /\ g.auth = "CreatingSession" => queue # <<>>
  <2> HIDE DEF form
  <2>1. /\ SetAuth(form, "CreatingSession") \in GreeterRecord
        /\ SetAuth(form, "CreatingSession").auth = "CreatingSession"
    BY <1>2, SetAuthType DEF AuthStates
  <2>2. form.auth = "Idle"
    BY DEF form
  <2>3. CASE u # None /\ CanBegin(form)
    BY <1>1, <2>1, <2>3 DEF BeginAuthentication, form
  <2>4. CASE ~(u # None /\ CanBegin(form))
    BY <1>1, <1>2, <2>2, <2>4 DEF form
  <2> QED
    BY <2>3, <2>4
<1>4. Request("Create", u, None, 0) \in Requests
  BY RequestType DEF Kinds, SourceField
<1>5. queue \in Seq(Requests)
  BY <1>1, <1>4
<1>6. session \in Sessions
  BY DEF Init, Sessions, NoSession, UserField, SourceField
<1> QED
  <2>1. /\ generation = 0 /\ shutdown = FALSE /\ controls = <<>> /\ pc = "select"
        /\ after = "select" /\ current = None /\ response = None /\ update = None
        /\ observed = 0 /\ failures = 0 /\ stream = TRUE /\ wire = None /\ reply = None
        /\ cache = None /\ main = "running" /\ exit = "none"
    BY DEF Init
  <2>2. 0 \in 0..MaxFailures /\ <<>> \in Seq({"Success", "Failure"})
    BY IpcAssumption
  <2>3. TypeOK
    BY <1>3, <1>5, <1>6, <2>1, <2>2 DEF TypeOK, PCs
  <2>4. failures # MaxFailures
    BY <2>1, IpcAssumption
  <2> QED
    BY <1>3, <2>1, <2>3, <2>4 DEF TypeInv

(* Every step preserves the types.                                         *)
LEMMA StepType ==
  ASSUME TypeInv, [Next]_vars
  PROVE  TypeInv'
<1>1. CASE Actor
  BY <1>1, TransactType, ParseType, RestType DEF Actor
<1>2. CASE UNCHANGED vars
  BY <1>2 DEF vars, TypeInv, TypeOK, actorVars, greetdVars, mainVars
<1> QED
  BY <1>1, <1>2, KeyboardType, MainLoopType, RestType DEF Next

(* The variables keep their types: the failures never pass the limit at    *)
(* which recover gives up, whatever the order of errors and cancellations. *)
THEOREM TypeCorrect == Spec => []TypeOK
<1>1. Init => TypeInv
  BY InitType
<1>2. TypeInv /\ [Next]_vars => TypeInv'
  BY StepType
<1>3. TypeInv => TypeOK
  BY DEF TypeInv
<1> QED
  BY <1>1, <1>2, <1>3, PTL DEF Spec

-----------------------------------------------------------------------------
(* Success is reported only for a started session. *)

(* A key press starts no session, leaves a started one alone, and cancels  *)
(* with a new generation.                                                  *)
LEMMA KeyboardAuth ==
  ASSUME TypeInv, Keyboard
  PROVE  /\ UNCHANGED <<actorVars, greetdVars, mainVars, cache>>
         /\ g'.auth = "StartingSession" => g.auth = "StartingSession"
         /\ g.auth = "Started" => g'.auth = "Started"
         /\ generation <= generation'
         /\ g'.auth = "Cancelling" => \/ generation' = generation + 1
                                      \/ g.auth = "Cancelling" /\ generation' = generation
         /\ queue # <<>> => queue' # <<>>
         /\ IsWaiting(g'.auth) => \/ g'.auth = g.auth /\ queue' = queue
                                  \/ g'.auth = "Cancelling"
                                  \/ pc # "stopped" => queue' # <<>>
<1> USE DEF TypeInv
<1>1. /\ UNCHANGED <<actorVars, greetdVars, mainVars, cache>>
      /\ g \in GreeterRecord /\ generation \in Nat /\ g.user \in UserField /\ TypeOK
  BY DEF Keyboard, TypeUsername, SubmitUsername, SubmitPassword, OpenMenu, ChooseUser,
         ChooseSource, Escape, Typing, KeyboardReady, TypeOK, GreeterRecord
<1>2. CASE TypeUsername
  <2>1. g'.auth = g.auth /\ UNCHANGED <<queue, generation>>
    BY <1>1, <1>2 DEF TypeUsername, GreeterRecord
  <2> QED
    BY <1>1, <2>1
<1>3. CASE SubmitUsername
  <2>1. Validate(g) /\ g.auth \in {"Idle", "AwaitingInput"} /\ UNCHANGED generation
    BY <1>3 DEF SubmitUsername, Typing, AcceptsInput
  <2>2. \/ g'.auth = "CreatingSession" /\ (pc # "stopped" => queue' # <<>>)
        \/ g'.auth = g.auth /\ queue' = queue
    BY <1>1, <2>1, ValidateType
  <2>3. queue # <<>> => queue' # <<>>
    BY <1>1, <2>1, ValidateQueue
  <2> QED
    BY <1>1, <2>1, <2>2, <2>3 DEF IsWaiting
<1>4. CASE SubmitPassword
  <2>1. g.auth \in {"Idle", "AwaitingInput"} /\ UNCHANGED generation /\ Send("Post", g.user, None)
    BY <1>4 DEF SubmitPassword, Typing, AcceptsInput
  <2>2. g'.auth = "ContinuingAuth"
    BY <1>1, <1>4, SetAuthType DEF SubmitPassword, AuthStates
  <2>3. (pc # "stopped" => queue' # <<>>) /\ (queue # <<>> => queue' # <<>>)
    BY <1>1, <2>1, SendQueue DEF Kinds, SourceField
  <2> QED
    BY <1>1, <2>1, <2>2, <2>3
<1>5. CASE OpenMenu
  <2>1. g'.auth = g.auth /\ UNCHANGED <<queue, generation>>
    BY <1>1, <1>5, OpenPopupType DEF OpenMenu
  <2> QED
    BY <1>1, <2>1
<1>6. CASE ChooseUser
  <2>1. PICK u \in Users : Validate([ClosePopup(g) EXCEPT !.user = u])
    BY <1>6 DEF ChooseUser
  <2> DEFINE h == [ClosePopup(g) EXCEPT !.user = u]
  <2>2. h \in GreeterRecord /\ h.auth = g.auth
    BY <1>1, ClosePopupType DEF GreeterRecord, UserField
  <2>3. generation' = generation /\ g.auth \in {"Idle", "AwaitingInput"}
    BY <1>6 DEF ChooseUser, Typing, AcceptsInput
  <2> HIDE DEF h
  <2>4. Validate(h)
    BY <2>1 DEF h
  <2>5. \/ g'.auth = "CreatingSession" /\ (pc # "stopped" => queue' # <<>>)
        \/ g'.auth = g.auth /\ queue' = queue
    BY <1>1, <2>2, <2>4, ValidateType
  <2>6. queue # <<>> => queue' # <<>>
    BY <1>1, <2>2, <2>4, ValidateQueue
  <2> QED
    BY <1>1, <2>3, <2>5, <2>6 DEF IsWaiting
<1>7. CASE ChooseSource
  <2>1. g'.auth = g.auth /\ UNCHANGED <<queue, generation>>
    BY <1>1, <1>7, ClosePopupType DEF ChooseSource, GreeterRecord
  <2> QED
    BY <1>1, <2>1
<1>8. CASE Escape
  <2>1. UNCHANGED queue
    BY <1>8 DEF Escape
  <2>2. CASE g' = ClosePopup(g) /\ UNCHANGED generation
    BY <1>1, <2>1, <2>2, ClosePopupType
  <2>3. CASE CanCancel(g.auth) /\ CancelLogin(g)
    BY <1>1, <2>1, <2>3, CancelLoginType DEF CanCancel
  <2>4. CASE g.auth = "Idle" /\ g' = ResetLocal(g, FALSE) /\ UNCHANGED generation
    <3>1. g'.auth = "Idle" /\ g.auth = "Idle" /\ generation' = generation
      BY <1>1, <2>4, ResetLocalType
    <3> QED
      BY <1>1, <2>1, <3>1 DEF IsWaiting
  <2> QED
    BY <1>8, <2>2, <2>3, <2>4 DEF Escape
<1> QED
  BY <1>2, <1>3, <1>4, <1>5, <1>6, <1>7, <1>8 DEF Keyboard

(* The main loop likewise.  It reports success only from a control.        *)
LEMMA MainLoopAuth ==
  ASSUME TypeInv, MainLoop
  PROVE  /\ UNCHANGED <<actorVars, greetdVars, cache, queue>>
         /\ \/ g'.auth = g.auth /\ generation' = generation
            \/ CanCancel(g.auth) /\ g'.auth = "Cancelling" /\ generation' = generation + 1
         /\ shutdown => shutdown'
         /\ \/ controls' = controls
            \/ controls # <<>> /\ controls' = Tail(controls)
         /\ \/ exit' # "Success" \/ exit' = exit
            \/ controls # <<>> /\ Head(controls) = "Success"
<1> USE DEF TypeInv
<1>1. /\ UNCHANGED <<actorVars, greetdVars, cache, queue>>
      /\ g \in GreeterRecord /\ generation \in Nat /\ TypeOK
  BY DEF MainLoop, Reload, TakeControl, Terminate, ActorEnded, StopActor, Leave, MainReady, TypeOK
<1>2. ASSUME NEW h \in GreeterRecord, h.auth = g.auth, CancelLogin(h)
      PROVE  \/ g'.auth = g.auth /\ generation' = generation
             \/ CanCancel(g.auth) /\ g'.auth = "Cancelling" /\ generation' = generation + 1
  BY <1>1, <1>2, SetAuthType DEF CancelLogin, AuthStates
<1>3. CASE Reload
  <2>1. PICK h \in Reloaded(g) :
          IF h.source = None THEN generation < MaxCancels /\ CancelLogin(h)
          ELSE g' = h /\ UNCHANGED generation
    BY <1>3 DEF Reload
  <2>2. UNCHANGED <<controls, shutdown, exit>>
    BY <1>3 DEF Reload, mainVars
  <2> QED
    BY <1>1, <1>2, <2>1, <2>2, ReloadedType
<1>4. CASE TakeControl
  <2>1. /\ controls # <<>> /\ controls' = Tail(controls) /\ Exit(Head(controls))
        /\ UNCHANGED shutdown
    BY <1>4 DEF TakeControl
  <2>2. /\ exit' = Head(controls)
        /\ \/ UNCHANGED <<g, generation>>
           \/ CancelLogin(g)
    BY <2>1 DEF Exit
  <2> QED
    BY <1>1, <1>2, <2>1, <2>2
<1>5. CASE Terminate
  <2>1. /\ UNCHANGED <<controls, shutdown>> /\ exit' # "Success" /\ CancelLogin(g)
    BY <1>5 DEF Terminate, Exit
  <2> QED
    BY <1>1, <1>2, <2>1
<1>6. CASE ActorEnded
  BY <1>1, <1>6 DEF ActorEnded
<1>7. CASE StopActor \/ Leave
  BY <1>1, <1>7 DEF StopActor, Leave
<1> QED
  BY <1>3, <1>4, <1>5, <1>6, <1>7 DEF MainLoop

(* Neither a key press nor the main loop disturbs what the actor knows of  *)
(* the session.                                                            *)
LEMMA OthersStarted ==
  ASSUME StartedInv, Keyboard \/ MainLoop \/ UNCHANGED vars
  PROVE  ReplyInv' /\ StartInv' /\ SuccessInv'
<1>1. TypeInv /\ ReplyInv /\ StartInv /\ SuccessInv
  BY DEF StartedInv
<1>2. CASE Keyboard
  <2>1. /\ UNCHANGED <<actorVars, greetdVars, mainVars>>
        /\ g'.auth = "StartingSession" => g.auth = "StartingSession"
        /\ g.auth = "Started" => g'.auth = "Started"
    BY <1>1, <1>2, KeyboardAuth
  <2> QED
    BY <1>1, <2>1 DEF ReplyInv, StartInv, SuccessInv, SuccessMeansStarted,
                      actorVars, greetdVars, mainVars
<1>3. CASE MainLoop
  <2>1. /\ UNCHANGED <<actorVars, greetdVars>>
        /\ g'.auth = "StartingSession" => g.auth = "StartingSession"
        /\ g.auth = "Started" => g'.auth = "Started"
    BY <1>1, <1>3, MainLoopAuth DEF CanCancel
  <2>2. controls \in Seq({"Success", "Failure"})
    BY <1>1 DEF TypeInv, TypeOK
  <2>3. \A i \in 1..Len(controls') : controls'[i] = "Success" => session.phase = "started"
    <3>1. CASE controls' = controls
      BY <1>1, <3>1 DEF SuccessInv
    <3>2. CASE controls # <<>> /\ controls' = Tail(controls)
      BY <1>1, <2>2, <3>2, HeadTailProperties DEF SuccessInv
    <3> QED
      BY <1>1, <1>3, <3>1, <3>2, MainLoopAuth
  <2>4. exit' = "Success" => session.phase = "started"
    <3>1. CASE controls # <<>> /\ Head(controls) = "Success"
      BY <1>1, <2>2, <3>1 DEF SuccessInv
    <3> QED
      BY <1>1, <1>3, <3>1, MainLoopAuth DEF SuccessInv, SuccessMeansStarted
  <2> QED
    BY <1>1, <2>1, <2>3, <2>4 DEF ReplyInv, StartInv, SuccessInv, SuccessMeansStarted,
                                  actorVars, greetdVars
<1>4. CASE UNCHANGED vars
  BY <1>1, <1>4 DEF ReplyInv, StartInv, SuccessInv, SuccessMeansStarted, vars,
                    actorVars, greetdVars, mainVars
<1> QED
  BY <1>2, <1>3, <1>4

(* greetd never takes a started session back.                              *)
LEMMA GreetdStarted ==
  ASSUME StartedInv, Greetd
  PROVE  ReplyInv' /\ StartInv' /\ SuccessInv'
<1>1. TypeInv /\ ReplyInv /\ StartInv /\ SuccessInv
  BY DEF StartedInv
<1>2. /\ pc = "read" /\ reply = None /\ session \in Sessions
      /\ UNCHANGED <<g, pc, after, response, controls, exit>>
  BY <1>1 DEF Greetd, TypeInv, TypeOK, actorVars, mainVars
<1>3. /\ session.phase = "started" => session'.phase = "started"
      /\ reply' \in Responses
      /\ reply' = "Success" => session'.phase \in {"ready", "started"}
      /\ session.phase \in {"ready", "started"} =>
           \/ reply' = "Success" /\ session'.phase = "started"
           \/ reply' \in {"Error", "AuthError"}
  <2>1. CASE wire.kind = "Create" /\ session.phase = "none"
    BY <2>1 DEF Greetd, Answer, Legal, Responses
  <2>2. CASE wire.kind \in {"Post", "Ack"} /\ session.phase = "auth"
    BY <2>2 DEF Greetd, Answer, Legal, Responses
  <2>3. CASE wire.kind = "Start" /\ session.phase = "ready"
    BY <2>3 DEF Greetd, Answer, Legal, Responses
  <2>4. CASE reply' = "Error" /\ UNCHANGED session
    BY <2>4 DEF Responses
  <2> QED
    BY <2>1, <2>2, <2>3, <2>4 DEF Greetd
<1> QED
  BY <1>1, <1>2, <1>3, NoneAssumption DEF ReplyInv, StartInv, SuccessInv, SuccessMeansStarted

(* The actor says Started, and asks to exit, only for a started session.   *)
LEMMA ActorStarted ==
  ASSUME StartedInv, Actor
  PROVE  ReplyInv' /\ StartInv' /\ SuccessInv'
<1>1. TypeInv /\ TypeOK /\ ReplyInv /\ StartInv /\ SuccessInv /\ g \in GreeterRecord
  BY DEF StartedInv, TypeInv, TypeOK
<1> USE DEF ReplyInv, StartInv, SuccessInv, SuccessMeansStarted, Greeting, Goto, CloseThen,
            CancelStreamThen, greetdVars, mainVars
<1>2. CASE SelectShutdown \/ SelectCancel
  BY <1>1, <1>2 DEF SelectShutdown, SelectCancel
<1>3. CASE SelectRequest \/ CheckGeneration
  BY <1>1, <1>3 DEF SelectRequest, CheckGeneration
<1>4. CASE Connect \/ Write
  <2>1. /\ UNCHANGED <<g, session, reply, controls, exit>>
        /\ \/ pc = "connect" /\ pc' = "write"
           \/ pc = "write" /\ pc' = "read"
           \/ pc \in {"connect", "write"} /\ pc' = "close" /\ after' # "select"
    BY <1>4 DEF Connect, Write, Interrupt, Fail
  <2>2. CASE pc = "connect" /\ pc' = "write"
    BY <1>1, <2>1, <2>2
  <2>3. CASE pc = "write" /\ pc' = "read"
    <3>1. reply = None
      BY <1>1, <2>3
    <3> QED
      BY <1>1, <2>1, <2>3, <3>1, NoneAssumption DEF Responses
  <2>4. CASE pc \in {"connect", "write"} /\ pc' = "close" /\ after' # "select"
    BY <1>1, <2>1, <2>4
  <2> QED
    BY <2>1, <2>2, <2>3, <2>4
<1>5. CASE Read
  <2>1. /\ pc = "read" /\ UNCHANGED <<g, session, controls, exit>>
        /\ \/ pc' \in {"close", "cancel"} /\ after' # "select" /\ UNCHANGED reply
           \/ pc' = "parse" /\ reply # None /\ response' = reply /\ reply' = None
    BY <1>5 DEF Read, ReadOr, Interrupt, Fail
  <2>2. CASE pc' \in {"close", "cancel"} /\ after' # "select" /\ UNCHANGED reply
    BY <1>1, <2>1, <2>2
  <2>3. CASE pc' = "parse" /\ reply # None /\ response' = reply /\ reply' = None
    BY <1>1, <2>1, <2>3
  <2> QED
    BY <2>1, <2>2, <2>3
<1>6. CASE WriteCancel
  BY <1>1, <1>6 DEF WriteCancel
<1>7. CASE Close
  <2>1. session.phase = "started" => session' = session
    BY <1>7 DEF Close, Orphaned
  <2>2. /\ pc = "close" /\ pc' = (IF after = "cancelled" THEN "finish" ELSE after)
        /\ reply' = None /\ UNCHANGED <<g, controls, exit>>
    BY <1>7 DEF Close
  <2>3. after \in {"select", "finish", "cancelled", "failed", "drain"}
    BY <1>1 DEF TypeOK
  <2> QED
    BY <1>1, <2>1, <2>2, <2>3
<1>8. CASE FinishCancellation
  <2>1. g'.auth = "Idle"
    BY <1>1, <1>8, ResetLocalType DEF FinishCancellation
  <2> QED
    BY <1>1, <1>8, <2>1 DEF FinishCancellation
<1>9. CASE Parse
  <2>1. /\ pc = "parse" /\ reply = None /\ response' = None
        /\ UNCHANGED <<session, reply, controls, exit>>
    BY <1>1, <1>9 DEF Parse, ParsePrompt, ParseMessage, ParseAuthenticated, ParseStarted,
                      Acknowledge, ParseError, ParseUnexpected, Parsing
  <2>2. CASE ParsePrompt \/ ParseMessage
    <3>1. g'.auth \in {"AwaitingInput", "ContinuingAuth"} /\ pc' \in {"select", "close"}
      <4>1. /\ SetAuth(g, "AwaitingInput") \in GreeterRecord
            /\ SetAuth(g, "ContinuingAuth") \in GreeterRecord
            /\ SetAuth(g, "AwaitingInput").auth = "AwaitingInput"
            /\ SetAuth(g, "ContinuingAuth").auth = "ContinuingAuth"
        BY <1>1, SetAuthType DEF AuthStates
      <4>2. CASE ParsePrompt
        BY <4>1, <4>2 DEF ParsePrompt, Handled, GreeterRecord
      <4>3. CASE ParseMessage
        BY <4>1, <4>3 DEF ParseMessage, Handled, GreeterRecord
      <4> QED
        BY <2>2, <4>2, <4>3
    <3> QED
      BY <1>1, <2>1, <3>1
  <2>3. CASE ParseAuthenticated
    <3>1. pc' = "select" /\ session.phase \in {"ready", "started"}
      BY <1>1, <2>3 DEF ParseAuthenticated, Parsing, Handled
    <3> QED
      BY <1>1, <2>1, <3>1
  <2>4. CASE ParseStarted
    <3>1. /\ pc' = "persist" /\ session.phase = "started"
          /\ g' = SetAuth(g, "Started")
      BY <1>1, <2>4 DEF ParseStarted, Parsing, Acknowledge
    <3>2. g'.auth = "Started"
      BY <1>1, <3>1, SetAuthType DEF AuthStates
    <3> QED
      BY <1>1, <2>1, <3>1, <3>2
  <2>5. CASE ParseError
    <3>1. /\ ResetLocal(g, TRUE) \in GreeterRecord /\ ResetLocal(g, FALSE).auth = "Idle"
          /\ "CreatingSession" \in AuthStates
      BY <1>1, ResetLocalType DEF AuthStates
    <3>2. SetAuth(ResetLocal(g, TRUE), "CreatingSession").auth = "CreatingSession"
      BY <3>1, SetAuthType
    <3>3. g'.auth \in {"Idle", "CreatingSession"} /\ pc' \in {"select", "close"}
      BY <2>5, <3>1, <3>2 DEF ParseError, Handled
    <3> QED
      BY <1>1, <2>1, <3>3
  <2>6. CASE ParseUnexpected
    <3>1. pc' = "close" /\ after' = "failed" /\ UNCHANGED g
      BY <2>6 DEF ParseUnexpected, Fail
    <3> QED
      BY <1>1, <2>1, <3>1
  <2> QED
    BY <1>9, <2>2, <2>3, <2>4, <2>5, <2>6 DEF Parse
<1>10. CASE Persist
  BY <1>1, <1>10 DEF Persist
<1>11. CASE ReportStarted
  <2>1. controls \in Seq({"Success", "Failure"})
    BY <1>1 DEF TypeOK
  <2>2. session.phase = "started" /\ g.auth = "Started"
    BY <1>1, <1>11 DEF ReportStarted
  <2> QED
    BY <1>1, <1>11, <2>1, <2>2 DEF ReportStarted, Reported
<1>12. CASE EnterFailed
  <2>1. /\ pc = "failed" /\ pc' \in {"drain", "recover"} /\ UNCHANGED <<exit, session, reply>>
        /\ controls' = controls \/ controls' = Append(controls, "Failure")
    BY <1>12 DEF EnterFailed, EnterFailedUnless
  <2>2. g'.auth = "Failed"
    BY <1>1, <1>12, SetAuthType DEF EnterFailed, EnterFailedUnless, AuthStates
  <2>3. controls \in Seq({"Success", "Failure"}) /\ "Failure" \in {"Success", "Failure"}
    BY <1>1 DEF TypeOK
  <2>4. \A i \in 1..Len(controls') : controls'[i] = "Success" => session.phase = "started"
    BY <1>1, <2>1, <2>3, AppendProperties
  <2> QED
    BY <1>1, <2>1, <2>2, <2>4
<1>13. CASE Recover
  <2>1. ResetLocal(g, TRUE) \in GreeterRecord
    BY <1>1, ResetLocalType
  <2>2. g'.auth = "CreatingSession"
    BY <1>13, <2>1, SetAuthType DEF Recover, AuthStates
  <2> QED
    BY <1>1, <1>13, <2>2 DEF Recover
<1>14. CASE Backoff \/ ReadUsername
  BY <1>1, <1>14 DEF Backoff, ReadUsername
<1>15. CASE Requeue \/ Drain
  BY <1>1, <1>15 DEF Requeue, Drain
<1> QED
  BY <1>2, <1>3, <1>4, <1>5, <1>6, <1>7, <1>8, <1>9, <1>10, <1>11, <1>12, <1>13, <1>14, <1>15
     DEF Actor

(* The initial states satisfy the invariant behind SuccessMeansStarted.    *)
LEMMA InitStarted ==
  ASSUME Init
  PROVE  StartedInv
<1>1. TypeInv /\ g.auth # "StartingSession"
  BY InitType
<1>2. /\ controls = <<>> /\ pc = "select" /\ reply = None /\ exit = "none"
  BY DEF Init
<1> QED
  BY <1>1, <1>2 DEF StartedInv, ReplyInv, StartInv, SuccessInv, SuccessMeansStarted

(* Every step preserves it.                                                *)
LEMMA StepStarted ==
  ASSUME StartedInv, [Next]_vars
  PROVE  StartedInv'
  BY StepType, OthersStarted, ActorStarted, GreetdStarted DEF StartedInv, Next, Finished

(* The greeter never reports success without a session: however requests   *)
(* of cancelled logins, answers, failures and key presses interleave, the  *)
(* success the actor takes for that of StartSession is one.                *)
THEOREM SuccessIsReal == Spec => []SuccessMeansStarted
<1>1. Init => StartedInv
  BY InitStarted
<1>2. StartedInv /\ [Next]_vars => StartedInv'
  BY StepStarted
<1>3. StartedInv => SuccessMeansStarted
  BY DEF StartedInv, SuccessInv
<1> QED
  BY <1>1, <1>2, <1>3, PTL DEF Spec

-----------------------------------------------------------------------------
(* No cancellation is lost and no wait is without a wake-up. *)

LEMMA OthersServed ==
  ASSUME ScreenInv, Keyboard \/ MainLoop \/ Greetd \/ UNCHANGED vars
  PROVE  CancelInv' /\ WaitInv'
<1>1. TypeInv /\ CancelInv /\ WaitInv /\ SuccessInv /\ generation \in Nat /\ observed \in Nat
  BY DEF ScreenInv, StartedInv, TypeInv, TypeOK
<1>2. ASSUME UNCHANGED <<pc, after, observed>>, generation <= generation', generation' \in Nat,
             shutdown => shutdown', queue # <<>> => queue' # <<>>,
             \/ g'.auth = g.auth
             \/ g'.auth = "Cancelling" /\ generation' = generation + 1
             \/ g'.auth # "Cancelling" /\ (IsWaiting(g'.auth) => queue' # <<>> \/ pc = "stopped")
      PROVE  CancelInv' /\ WaitInv'
  <2>1. Cancelled(observed) => Cancelled(observed)'
    BY <1>1, <1>2 DEF CancelInv, Cancelled
  <2>2. CASE g'.auth = g.auth
    BY <1>1, <1>2, <2>1, <2>2 DEF CancelInv, WaitInv
  <2>3. CASE g'.auth = "Cancelling" /\ generation' = generation + 1
    <3>1. Cancelled(observed)'
      BY <1>1, <1>2, <2>3 DEF CancelInv, Cancelled
    <3> QED
      BY <1>1, <1>2, <2>3, <3>1 DEF CancelInv, WaitInv
  <2>4. CASE g'.auth # "Cancelling" /\ (IsWaiting(g'.auth) => queue' # <<>> \/ pc = "stopped")
    BY <1>1, <1>2, <2>4 DEF CancelInv, WaitInv
  <2> QED
    BY <1>2, <2>2, <2>3, <2>4
<1>3. generation' \in Nat
  BY <1>1, StepType DEF Next, TypeInv, TypeOK
<1>4. CASE Keyboard
  <2>1. /\ UNCHANGED <<pc, after, observed, shutdown>> /\ generation <= generation'
        /\ queue # <<>> => queue' # <<>>
    BY <1>1, <1>4, KeyboardAuth DEF actorVars, mainVars
  <2> QED
    BY <1>1, <1>2, <1>3, <1>4, <2>1, KeyboardAuth
<1>5. CASE MainLoop
  <2>1. /\ UNCHANGED <<pc, after, observed, queue>> /\ (shutdown => shutdown')
        /\ \/ g'.auth = g.auth /\ generation' = generation
           \/ g'.auth = "Cancelling" /\ generation' = generation + 1
    BY <1>1, <1>5, MainLoopAuth DEF actorVars
  <2> QED
    BY <1>1, <1>2, <1>3, <2>1
<1>6. CASE Greetd
  <2>1. UNCHANGED <<g, queue, generation, pc, after, observed, shutdown>>
    BY <1>6 DEF Greetd, actorVars, mainVars
  <2> QED
    BY <1>1, <1>2, <1>3, <2>1
<1>7. CASE UNCHANGED vars
  <2>1. UNCHANGED <<g, queue, generation, pc, after, observed, shutdown>>
    BY <1>7 DEF vars, actorVars, mainVars
  <2> QED
    BY <1>1, <1>2, <1>3, <2>1
<1> QED
  BY <1>4, <1>5, <1>6, <1>7

(* The actor never goes to sleep on a wait that nobody serves.             *)
LEMMA ActorServed ==
  ASSUME ScreenInv, Actor
  PROVE  CancelInv' /\ WaitInv'
<1>1. /\ TypeInv /\ TypeOK /\ CancelInv /\ WaitInv /\ SuccessInv /\ g \in GreeterRecord
      /\ generation \in Nat /\ observed \in Nat /\ g.user \in UserField
  BY DEF ScreenInv, StartedInv, TypeInv, TypeOK, GreeterRecord
<1> USE DEF CancelInv, WaitInv, Greeting, Goto, CloseThen, CancelStreamThen, mainVars
<1>2. CASE SelectShutdown
  BY <1>1, <1>2 DEF SelectShutdown, Cancelled
<1>3. CASE SelectCancel
  BY <1>1, <1>3 DEF SelectCancel
<1>4. CASE SelectRequest
  BY <1>1, <1>4 DEF SelectRequest, Cancelled
<1>5. CASE CheckGeneration
  <2>1. CASE Cancelled(current.generation)
    BY <1>1, <1>5, <2>1 DEF CheckGeneration
  <2>2. CASE ~Cancelled(current.generation)
    BY <1>1, <1>5, <2>2 DEF CheckGeneration, Cancelled
  <2> QED
    BY <2>1, <2>2
<1>6. CASE Connect \/ Write
  <2>1. /\ pc \in {"connect", "write"} /\ UNCHANGED <<g, queue, generation, observed, shutdown>>
        /\ \/ pc' = "close" /\ after' # "select"
           \/ pc' \in {"write", "read"}
    BY <1>6 DEF Connect, Write, Interrupt, Fail
  <2> QED
    BY <1>1, <2>1 DEF Cancelled
<1>7. CASE Read
  <2>1. /\ pc = "read" /\ UNCHANGED <<g, queue, generation, observed, shutdown>>
        /\ \/ pc' \in {"close", "cancel"} /\ after' # "select"
           \/ pc' = "parse"
    BY <1>7 DEF Read, ReadOr, Interrupt, Fail
  <2> QED
    BY <1>1, <2>1 DEF Cancelled
<1>8. CASE WriteCancel
  BY <1>1, <1>8 DEF WriteCancel, Cancelled
<1>9. CASE Close
  <2>1. /\ pc = "close" /\ pc' = (IF after = "cancelled" THEN "finish" ELSE after)
        /\ observed' = (IF after = "cancelled" THEN generation ELSE observed)
        /\ UNCHANGED <<g, queue, generation, shutdown>>
    BY <1>9 DEF Close
  <2>2. after \in {"select", "finish", "cancelled", "failed", "drain"}
    BY <1>1 DEF TypeOK
  <2> QED
    BY <1>1, <2>1, <2>2 DEF Cancelled
<1>10. CASE FinishCancellation
  <2>1. g'.auth = "Idle"
    BY <1>1, <1>10, ResetLocalType DEF FinishCancellation
  <2> QED
    BY <1>1, <1>10, <2>1 DEF FinishCancellation, IsWaiting
<1>11. CASE Parse
  <2>1. pc = "parse" /\ UNCHANGED <<observed, shutdown>>
    BY <1>11 DEF Parse, ParsePrompt, ParseMessage, ParseAuthenticated, ParseStarted,
                 Acknowledge, ParseError, ParseUnexpected, Parsing
  <2>2. CASE ParseUnexpected
    BY <1>1, <2>1, <2>2 DEF ParseUnexpected, Fail, Cancelled
  <2>3. CASE ParseStarted
    <3>1. g'.auth = "Started" /\ pc' = "persist" /\ generation' = generation
      BY <1>1, <2>3, SetAuthType DEF ParseStarted, Acknowledge, AuthStates
    <3> QED
      BY <1>1, <2>1, <3>1 DEF IsWaiting
  <2>4. CASE ParsePrompt
    <3>1. SetAuth(g, "AwaitingInput") \in GreeterRecord /\ SetAuth(g, "AwaitingInput").auth = "AwaitingInput"
      BY <1>1, SetAuthType DEF AuthStates
    <3>2. g'.auth = "AwaitingInput" /\ generation' = generation /\ pc' \in {"select", "close"}
      BY <2>4, <3>1 DEF ParsePrompt, Handled, GreeterRecord
    <3> QED
      BY <1>1, <2>1, <3>2 DEF IsWaiting
  <2>5. CASE ParseMessage
    <3>1. SetAuth(g, "ContinuingAuth") \in GreeterRecord /\ SetAuth(g, "ContinuingAuth").auth = "ContinuingAuth"
      BY <1>1, SetAuthType DEF AuthStates
    <3>2. g'.auth = "ContinuingAuth" /\ generation' = generation /\ pc' \in {"select", "close"}
      BY <2>5, <3>1 DEF ParseMessage, Handled, GreeterRecord
    <3>3. queue' # <<>>
      BY <1>1, <2>1, <2>5, SendType DEF ParseMessage, Kinds, SourceField
    <3> QED
      BY <1>1, <2>1, <3>2, <3>3
  <2>6. CASE ParseAuthenticated
    <3>1. pc' = "select"
      BY <2>6 DEF ParseAuthenticated, Parsing, Handled
    <3>2. g.auth \in {"CreatingSession", "ContinuingAuth"}
      BY <2>6 DEF ParseAuthenticated
    <3>3. CASE g.source = None
      <4>1. g'.auth = "Cancelling" /\ generation' = generation + 1
        BY <1>1, <2>6, <3>2, <3>3, SetAuthType DEF ParseAuthenticated, CancelLogin, CanCancel, AuthStates
      <4> QED
        BY <1>1, <2>1, <4>1 DEF Cancelled
    <3>4. CASE g.source # None
      <4>1. g'.auth = "StartingSession" /\ generation' = generation
        BY <1>1, <2>6, <3>4, BeginStartType DEF ParseAuthenticated
      <4>2. g.source \in SourceField /\ Send("Start", g.user, g.source)
        BY <1>1, <2>6, <3>4 DEF ParseAuthenticated, GreeterRecord
      <4>3. queue' # <<>>
        BY <1>1, <2>1, <4>2, SendType DEF Kinds
      <4> QED
        BY <1>1, <2>1, <4>1, <4>3
    <3> QED
      BY <3>3, <3>4
  <2>7. CASE ParseError
    <3>1. generation' = generation /\ pc' \in {"select", "close"}
      BY <2>7 DEF ParseError, Handled
    <3>2. CASE response = "AuthError"
      <4>1. ResetLocal(g, TRUE) \in GreeterRecord /\ "CreatingSession" \in AuthStates
        BY <1>1, ResetLocalType DEF AuthStates
      <4>2. g'.auth = "CreatingSession" /\ Send("Create", g.user, None)
        <5>1. /\ g' = SetAuth(ResetLocal(g, TRUE), "CreatingSession")
              /\ Send("Create", g.user, None)
          BY <2>7, <3>2 DEF ParseError
        <5> QED
          BY <4>1, <5>1, SetAuthType
      <4>3. queue' # <<>>
        BY <1>1, <2>1, <4>2, SendType DEF Kinds, SourceField
      <4> QED
        BY <1>1, <2>1, <3>1, <4>2, <4>3
    <3>3. CASE response # "AuthError"
      <4>1. g'.auth = "Idle"
        BY <1>1, <2>7, <3>3, ResetLocalType DEF ParseError
      <4> QED
        BY <1>1, <2>1, <3>1, <4>1 DEF IsWaiting
    <3> QED
      BY <3>2, <3>3
  <2> QED
    BY <1>11, <2>2, <2>3, <2>4, <2>5, <2>6, <2>7 DEF Parse
<1>12. CASE Persist
  BY <1>1, <1>12 DEF Persist, Cancelled
<1>13. CASE ReportStarted
  <2>1. g.auth = "Started"
    BY <1>1, <1>13 DEF ReportStarted, SuccessInv
  <2> QED
    BY <1>1, <1>13, <2>1 DEF ReportStarted, Reported, IsWaiting
<1>14. CASE EnterFailed
  <2>1. g'.auth = "Failed" /\ pc' \in {"drain", "recover"} /\ UNCHANGED <<generation, observed>>
    BY <1>1, <1>14, SetAuthType DEF EnterFailed, EnterFailedUnless, AuthStates
  <2> QED
    BY <1>1, <2>1
<1>15. CASE Recover
  <2>1. ResetLocal(g, TRUE) \in GreeterRecord
    BY <1>1, ResetLocalType
  <2>2. g'.auth = "CreatingSession"
    BY <1>15, <2>1, SetAuthType DEF Recover, AuthStates
  <2> QED
    BY <1>1, <1>15, <2>2 DEF Recover
<1>16. CASE Backoff \/ ReadUsername
  <2>1. /\ pc \in {"backoff", "resend"} /\ UNCHANGED <<g, generation, observed, queue, shutdown>>
        /\ pc' \in {"drain", "finish", "resend", "requeue"}
    BY <1>16 DEF Backoff, ReadUsername
  <2> QED
    BY <1>1, <2>1 DEF Cancelled
<1>17. CASE Requeue
  <2>1. current.user \in UserField
    BY <1>1, <1>17 DEF Requeue, TypeInv, Requests
  <2>2. queue' # <<>>
    BY <1>1, <1>17, <2>1, SendType DEF Requeue, Kinds, SourceField
  <2> QED
    BY <1>1, <1>17, <2>2 DEF Requeue, Cancelled
<1>18. CASE Drain
  BY <1>1, <1>18 DEF Drain
<1> QED
  BY <1>2, <1>3, <1>4, <1>5, <1>6, <1>7, <1>8, <1>9, <1>10, <1>11, <1>12, <1>13, <1>14, <1>15,
     <1>16, <1>17, <1>18 DEF Actor

(* The invariant behind WaitingIsServed and CancellationIsSeen.            *)
LEMMA ScreenInvariant == Spec => []ScreenInv
<1>1. Init => ScreenInv
  <2> SUFFICES ASSUME Init PROVE ScreenInv
    OBVIOUS
  <2>1. StartedInv
    BY InitStarted
  <2>2. observed = 0 /\ generation = 0
    BY DEF Init
  <2>3. g.auth \in {"Idle", "CreatingSession"} /\ (g.auth = "CreatingSession" => queue # <<>>)
    BY InitType
  <2> QED
    BY <2>1, <2>2, <2>3 DEF ScreenInv, CancelInv, WaitInv, IsWaiting
<1>2. ScreenInv /\ [Next]_vars => ScreenInv'
  BY StepStarted, OthersServed, ActorServed DEF ScreenInv, Next, Finished
<1> QED
  BY <1>1, <1>2, PTL DEF Spec

(* A cancellation is never lost, whenever it comes.                        *)
THEOREM NoCancellationLost == Spec => []CancellationIsSeen
<1>1. ScreenInv => CancellationIsSeen
  BY DEF ScreenInv, CancelInv, CancellationIsSeen
<1> QED
  BY <1>1, ScreenInvariant, PTL

(* The actor never goes to sleep while the screen waits for it.            *)
THEOREM NoForgottenWait == Spec => []WaitingIsServed
<1>1. ScreenInv => WaitingIsServed
  BY DEF ScreenInv, WaitInv, WaitingIsServed
<1> QED
  BY <1>1, ScreenInvariant, PTL

-----------------------------------------------------------------------------
(* What is typed for one account stays with it, also when keys overtake    *)
(* the actor and requests of several logins are queued.                    *)

(* Where the actor has a request in hand. *)
Carrying == pc \in {"received", "connect", "write", "read", "parse"}

(* Where the conversation stands at the actor: whom the request in hand    *)
(* opens a session for, whom the session that is open is for.              *)
IsCreate(r) == r.kind = "Create"
InFlight == Carrying /\ IsCreate(current)
Closing == pc \in {"cancel", "close"}
SpeaksTo(user) == session.phase = "auth" => session.user = user
Open(user) == IF InFlight THEN current.user = user ELSE Closing \/ SpeaksTo(user)

(* An answer for the user that is queued behind the first k requests       *)
(* reaches no session of another: the last of them that opens one opens it *)
(* for the user, and when none does, the actor has.                        *)
Follows(user, k) ==
  /\ \A c \in 1..k :
       IsCreate(queue[c]) /\ (\A j \in (c + 1)..k : ~IsCreate(queue[j])) => queue[c].user = user
  /\ (\A j \in 1..k : ~IsCreate(queue[j])) => Open(user)

(* Every queued answer, and the one in hand, is one for the session that   *)
(* it will meet.                                                           *)
PostInv == \A i \in 1..Len(queue) : queue[i].kind = "Post" => Follows(queue[i].user, i - 1)
HandInv ==
  /\ Carrying => current \in Requests
  /\ pc \in {"received", "connect", "write"} /\ current.kind = "Post" => SpeaksTo(current.user)

(* The user on a screen that asks, or may soon, is the one that the        *)
(* requests lead to.  A retry has yet to queue its request.                *)
Asked ==
  \/ g.auth \in {"AwaitingInput", "ContinuingAuth"}
  \/ g.auth = "CreatingSession"
       /\ pc \notin {"backoff", "resend", "requeue", "finish", "drain", "stopped"}
AnswerInv == Asked => Follows(g.user, Len(queue))
RetryInv ==
  /\ pc \in {"backoff", "resend", "requeue"} => g.auth \in {"CreatingSession", "Cancelling"}
  /\ pc = "requeue" /\ g.auth = "CreatingSession" => current.user = g.user

(* No conversation survives its connection.                                *)
GoneInv ==
  /\ pc \in {"write", "read"} => stream
  /\ ~stream => session.phase # "auth"
  /\ pc \in {"failed", "recover", "backoff", "resend", "requeue", "finish", "drain", "stopped"}
       => session.phase # "auth"

(* While a password is asked for, the username cannot change.              *)
FormInv ==
  /\ g.auth = "AwaitingInput" =>
       g.prev = "Password" /\ g.mode \in {"Password", "Sessions", "Command", "Power"}
  /\ g.auth = "Idle" => g.prev = "Username" /\ g.mode \in {"Username"} \cup Popups

(* What greetd has answered comes from the session of the request.         *)
OpenReplies == {"Prompt", "Info", "Warn", "Success"}
GreetInv ==
  /\ pc = "read" => wire \in {current, None}
  /\ InFlight /\ \/ pc = "read" /\ reply \in OpenReplies
                 \/ pc = "parse" /\ response \in OpenReplies
        => SpeaksTo(current.user)

AccountInv == PostInv /\ HandInv /\ AnswerInv /\ RetryInv /\ GoneInv /\ FormInv /\ GreetInv

(* The queue stays and the actor with it.                                  *)
LEMMA FollowsOn ==
  ASSUME queue' = queue, \A user : Open(user) => Open(user)'
  PROVE  \A user, k : Follows(user, k) => Follows(user, k)'
BY DEF Follows

(* A request is put at the end of it.                                      *)
LEMMA FollowsAppended ==
  ASSUME queue \in Seq(Requests), NEW r \in Requests, queue' = Append(queue, r),
         \A user : Open(user) => Open(user)'
  PROVE  /\ \A user : \A k \in 0..Len(queue) : Follows(user, k) => Follows(user, k)'
         /\ IsCreate(r) => Follows(r.user, Len(queue))'
         /\ ~IsCreate(r) => \A user : Follows(user, Len(queue)) => Follows(user, Len(queue))'
<1>1. /\ Len(queue) \in Nat /\ Len(queue') = Len(queue) + 1
      /\ \A i \in 1..Len(queue) : queue'[i] = queue[i]
      /\ queue'[Len(queue')] = r
  OBVIOUS
<1>2. ASSUME NEW user, NEW k \in 0..Len(queue), Follows(user, k)
      PROVE  Follows(user, k)'
  <2>1. \A i \in 1..k : queue'[i] = queue[i]
    BY <1>1
  <2> QED
    BY <1>2, <2>1 DEF Follows
<1>3. ASSUME IsCreate(r) PROVE Follows(r.user, Len(queue))'
  BY <1>1, <1>3 DEF Follows
<1>4. ASSUME ~IsCreate(r), NEW user, Follows(user, Len(queue))
      PROVE  Follows(user, Len(queue))'
  <2> DEFINE n == Len(queue)
  <2>1. /\ \A c \in 1..n :
             IsCreate(queue[c]) /\ (\A j \in (c + 1)..n : ~IsCreate(queue[j])) => queue[c].user = user
        /\ (\A j \in 1..n : ~IsCreate(queue[j])) => Open(user)
    BY <1>4 DEF Follows
  <2>2. Len(queue') = n + 1 /\ n \in Nat /\ ~IsCreate(queue'[n + 1])
        /\ \A i \in 1..n : queue'[i] = queue[i]
    BY <1>1, <1>4
  <2> HIDE DEF n
  <2>3. ASSUME NEW c \in 1..(n + 1), IsCreate(queue'[c]),
               \A j \in (c + 1)..(n + 1) : ~IsCreate(queue'[j])
        PROVE  queue'[c].user = user
    <3>1. c \in 1..n
      BY <2>2, <2>3
    <3>2. \A j \in (c + 1)..n : ~IsCreate(queue[j])
      BY <2>2, <2>3, <3>1
    <3> QED
      BY <2>1, <2>2, <2>3, <3>1, <3>2
  <2>4. ASSUME \A j \in 1..(n + 1) : ~IsCreate(queue'[j])
        PROVE  Open(user)'
    <3>1. \A j \in 1..n : ~IsCreate(queue[j])
      BY <2>2, <2>4
    <3> QED
      BY <2>1, <3>1
  <2> QED
    BY <2>2, <2>3, <2>4 DEF Follows
<1> QED
  BY <1>2, <1>3, <1>4

(* Sending keeps every answer behind what it follows, and a CreateSession  *)
(* names the user that answers will follow.                                *)
LEMMA SendAccounts ==
  ASSUME TypeOK, PostInv, NEW kind \in Kinds, NEW user \in UserField, NEW source \in SourceField,
         Send(kind, user, source), \A u : Open(u) => Open(u)',
         kind = "Post" => Follows(user, Len(queue))
  PROVE  /\ PostInv'
         /\ kind = "Create" /\ pc # "stopped" => Follows(user, Len(queue))'
         /\ kind # "Create" => \A u : Follows(u, Len(queue)) => Follows(u, Len(queue))'
<1>1. CASE pc = "stopped"
  <2>1. queue' = queue
    BY <1>1 DEF Send
  <2> QED
    BY <1>1, <2>1, FollowsOn DEF PostInv
<1>2. CASE pc # "stopped"
  <2>1. PICK r \in Requests : r.kind = kind /\ r.user = user /\ queue' = Append(queue, r)
    BY <1>2, RequestType DEF Send, TypeOK, Request
  <2>2. queue \in Seq(Requests)
    BY DEF TypeOK
  <2>3. /\ \A u : \A k \in 0..Len(queue) : Follows(u, k) => Follows(u, k)'
        /\ IsCreate(r) => Follows(r.user, Len(queue))'
        /\ ~IsCreate(r) => \A u : Follows(u, Len(queue)) => Follows(u, Len(queue))'
    BY <2>1, <2>2, FollowsAppended
  <2>4. ASSUME NEW i \in 1..Len(queue'), queue'[i].kind = "Post", NEW u, u = queue'[i].user
        PROVE  Follows(u, i - 1)'
    <3>1. CASE i \in 1..Len(queue)
      <4>1. queue'[i] = queue[i] /\ i - 1 \in 0..Len(queue)
        BY <2>1, <2>2, <3>1
      <4>2. Follows(u, i - 1)
        BY <2>4, <3>1, <4>1 DEF PostInv
      <4> QED
        BY <2>3, <4>1, <4>2
    <3>2. CASE i \notin 1..Len(queue)
      <4>1. i - 1 = Len(queue) /\ queue'[i] = r
        BY <2>1, <2>2, <3>2
      <4>2. Follows(u, i - 1)
        BY <2>1, <2>4, <4>1
      <4> QED
        BY <2>2, <2>3, <4>1, <4>2
    <3> QED
      BY <3>1, <3>2
  <2>5. PostInv'
    BY <2>4 DEF PostInv
  <2> QED
    BY <2>1, <2>3, <2>5 DEF IsCreate
<1> QED
  BY <1>1, <1>2

(* A step that leaves the actor and greetd alone.                          *)
LEMMA QuietAccounts ==
  ASSUME AccountInv, UNCHANGED <<actorVars, greetdVars>>
  PROVE  /\ HandInv' /\ GoneInv' /\ GreetInv'
         /\ \A user : Open(user) => Open(user)'
BY DEF AccountInv, HandInv, Carrying, GoneInv, GreetInv, Open, InFlight, Carrying, Closing, SpeaksTo,
   actorVars, greetdVars

(* Validating a username sends the request that answers will follow.       *)
LEMMA ValidateAccounts ==
  ASSUME TypeInv, AccountInv, UNCHANGED <<actorVars, greetdVars>>,
         NEW h \in GreeterRecord, h.auth = "Idle", h.prev = "Username", h.mode = "Username",
         g.auth = "Idle", Validate(h)
  PROVE  AccountInv'
<1>1. PICK s \in {h.source} \cup (IF h.remember THEN Sources ELSE {}) :
        LET r == [h EXCEPT !.source = s]
        IN  IF CanBegin(r)
            THEN g' = BeginAuthentication(r) /\ Send("Create", r.user, None)
            ELSE g' = r /\ UNCHANGED queue
  BY DEF Validate
<1>2. /\ PostInv /\ HandInv' /\ GoneInv' /\ GreetInv' /\ (\A user : Open(user) => Open(user)')
      /\ pc' = pc /\ current' = current
      /\ pc \notin {"backoff", "resend", "requeue"}
  BY QuietAccounts DEF AccountInv, RetryInv, actorVars
<1>3. CASE CanBegin([h EXCEPT !.source = s])
  <2>1. PICK user \in UserField : user = h.user
    BY DEF GreeterRecord
  <2>2. /\ g'.auth = "CreatingSession" /\ g'.user = user
        /\ Send("Create", user, None)
    BY <1>1, <1>3, <2>1 DEF BeginAuthentication, SetAuth, GreeterRecord
  <2>3. PostInv' /\ (pc # "stopped" => Follows(user, Len(queue))')
    BY <1>2, <2>2, SendAccounts DEF TypeInv, Kinds, SourceField
  <2>4. AnswerInv'
    BY <1>2, <2>2, <2>3 DEF AnswerInv, Asked, Follows
  <2> QED
    BY <1>2, <2>2, <2>3, <2>4 DEF AccountInv, RetryInv, FormInv
<1>4. CASE ~CanBegin([h EXCEPT !.source = s])
  <2>1. g'.auth = "Idle" /\ g'.prev = "Username" /\ g'.mode = "Username" /\ queue' = queue
    BY <1>1, <1>4 DEF GreeterRecord
  <2>2. PostInv'
    BY <1>2, <2>1, FollowsOn DEF PostInv
  <2> QED
    BY <1>2, <2>1, <2>2 DEF AccountInv, RetryInv, FormInv, AnswerInv, Asked
<1> QED
  BY <1>3, <1>4

(* A change of the screen that sends nothing keeps the user of a screen    *)
(* that asks.                                                              *)
LEMMA LooksAccount ==
  ASSUME TypeInv, AccountInv, UNCHANGED <<actorVars, greetdVars, queue>>, FormInv',
         \/ g'.auth = g.auth /\ (g.auth = "Idle" \/ g'.user = g.user)
         \/ g'.auth = "Cancelling"
         \/ g.auth = "Idle" /\ g'.auth = "Idle"
  PROVE  AccountInv'
<1>1. /\ PostInv /\ HandInv' /\ GoneInv' /\ GreetInv' /\ (\A user : Open(user) => Open(user)')
      /\ pc' = pc /\ current' = current
  BY QuietAccounts DEF AccountInv, actorVars
<1>2. PostInv'
  BY <1>1, FollowsOn DEF PostInv
<1>3. AnswerInv'
  <2>1. CASE Asked'
    <3>1. Asked /\ g'.user = g.user
      BY <1>1, <2>1 DEF Asked
    <3>2. PICK user : user = g.user
      OBVIOUS
    <3>3. Follows(user, Len(queue)) /\ queue' = queue
      BY <3>1, <3>2 DEF AccountInv, AnswerInv
    <3>4. Follows(user, Len(queue))'
      BY <1>1, <3>3, FollowsOn DEF Follows
    <3> QED
      BY <3>1, <3>2, <3>4 DEF AnswerInv, Follows
  <2> QED
    BY <2>1 DEF AnswerInv
<1>4. RetryInv'
  BY <1>1 DEF AccountInv, RetryInv
<1> QED
  BY <1>1, <1>2, <1>3, <1>4 DEF AccountInv

(* A key press, which may come at any moment.                              *)
LEMMA KeyboardAccounts ==
  ASSUME TypeInv, AccountInv, Keyboard
  PROVE  AccountInv'
<1>1. /\ UNCHANGED <<actorVars, greetdVars>> /\ g \in GreeterRecord /\ TypeOK
      /\ PostInv /\ AnswerInv /\ FormInv /\ RetryInv
  BY DEF Keyboard, TypeUsername, SubmitUsername, SubmitPassword, OpenMenu, ChooseUser,
         ChooseSource, Escape, Typing, KeyboardReady, TypeInv, TypeOK, AccountInv
<1>2. /\ HandInv' /\ GoneInv' /\ GreetInv' /\ (\A user : Open(user) => Open(user)')
      /\ pc' = pc /\ current' = current
  BY <1>1, QuietAccounts DEF actorVars
<1>3. CASE TypeUsername
  <2>1. /\ g.auth = "Idle" /\ g'.auth = "Idle" /\ g'.prev = g.prev /\ g'.mode = g.mode
        /\ queue' = queue
    BY <1>1, <1>3 DEF TypeUsername, Typing, AcceptsInput, FormInv, GreeterRecord
  <2> QED
    BY <1>1, <2>1, LooksAccount DEF FormInv
<1>4. CASE SubmitUsername
  <2>1. g.auth = "Idle" /\ g.mode = "Username" /\ g.prev = "Username" /\ Validate(g)
    BY <1>1, <1>4 DEF SubmitUsername, Typing, AcceptsInput, FormInv
  <2> QED
    BY <1>1, <2>1, ValidateAccounts
<1>5. CASE SubmitPassword
  <2>1. g.auth = "AwaitingInput" /\ g'.auth = "ContinuingAuth" /\ g'.user = g.user
    BY <1>1, <1>5 DEF SubmitPassword, Typing, AcceptsInput, FormInv, Popups, SetAuth, GreeterRecord
  <2>2. PICK user \in UserField : user = g.user
    BY <1>1 DEF GreeterRecord
  <2>3. Follows(user, Len(queue)) /\ Send("Post", user, None)
    BY <1>1, <1>5, <2>1, <2>2 DEF SubmitPassword, AnswerInv, Asked
  <2>4. PostInv' /\ Follows(user, Len(queue))'
    BY <1>1, <1>2, <2>3, SendAccounts DEF Kinds, SourceField
  <2>5. AnswerInv'
    BY <2>1, <2>2, <2>4 DEF AnswerInv, Follows
  <2> QED
    BY <1>1, <1>2, <2>1, <2>4, <2>5 DEF AccountInv, RetryInv, FormInv
<1>6. CASE OpenMenu
  <2>1. PICK popup \in Popups : /\ popup = "Users" => g.mode = "Username" /\ g.user = None
                                /\ g' = OpenPopup(g, popup)
    BY <1>6 DEF OpenMenu
  <2>2. /\ g'.auth = g.auth /\ g'.user = g.user /\ g'.mode = popup
        /\ g'.prev = (IF g.mode \in Popups THEN g.prev ELSE g.mode)
        /\ queue' = queue
    BY <1>1, <1>6, <2>1 DEF OpenMenu, OpenPopup, GreeterRecord
  <2>3. FormInv'
    BY <1>1, <2>1, <2>2 DEF FormInv, Popups
  <2> QED
    BY <1>1, <2>2, <2>3, LooksAccount
<1>7. CASE ChooseUser
  <2>1. PICK user \in Users : Validate([ClosePopup(g) EXCEPT !.user = user])
    BY <1>7 DEF ChooseUser
  <2>2. g.auth = "Idle" /\ g.prev = "Username"
    BY <1>1, <1>7 DEF ChooseUser, Typing, AcceptsInput, FormInv
  <2> DEFINE h == [ClosePopup(g) EXCEPT !.user = user]
  <2>3. h \in GreeterRecord /\ h.auth = "Idle" /\ h.prev = "Username" /\ h.mode = "Username"
    BY <1>1, <2>2 DEF ClosePopup, GreeterRecord, UserField
  <2>4. Validate(h)
    BY <2>1
  <2>5. PICK form \in GreeterRecord : form = h
    BY <2>3
  <2> HIDE DEF h
  <2> QED
    BY <1>1, <2>2, <2>3, <2>4, <2>5, ValidateAccounts
<1>8. CASE ChooseSource
  <2>1. PICK s \in Sources : g' = [ClosePopup(g) EXCEPT !.source = s]
    BY <1>8 DEF ChooseSource
  <2>2. /\ g'.auth = g.auth /\ g'.user = g.user /\ g'.mode = g.prev /\ g'.prev = g.prev
        /\ queue' = queue
    BY <1>1, <1>8, <2>1 DEF ChooseSource, ClosePopup, GreeterRecord
  <2> QED
    BY <1>1, <2>2, LooksAccount DEF FormInv
<1>9. CASE Escape
  <2>1. queue' = queue
    BY <1>9 DEF Escape
  <2>2. CASE g' = ClosePopup(g)
    <3>1. g'.auth = g.auth /\ g'.user = g.user /\ g'.mode = g.prev /\ g'.prev = g.prev
      BY <1>1, <2>2 DEF ClosePopup, GreeterRecord
    <3> QED
      BY <1>1, <2>1, <3>1, LooksAccount DEF FormInv
  <2>3. CASE CanCancel(g.auth) /\ CancelLogin(g)
    <3>1. g'.auth = "Cancelling"
      BY <1>1, <2>3 DEF CancelLogin, SetAuth, GreeterRecord
    <3> QED
      BY <1>1, <2>1, <3>1, LooksAccount DEF FormInv
  <2>4. CASE g.auth = "Idle" /\ g' = ResetLocal(g, FALSE)
    <3>1. g'.auth = "Idle" /\ g'.prev = "Username" /\ g'.mode = "Username"
      BY <1>1, <2>4 DEF ResetLocal, GreeterRecord
    <3> QED
      BY <1>1, <2>1, <2>4, <3>1, LooksAccount DEF FormInv
  <2> QED
    BY <1>9, <2>2, <2>3, <2>4 DEF Escape
<1> QED
  BY <1>3, <1>4, <1>5, <1>6, <1>7, <1>8, <1>9 DEF Keyboard

(* The main loop: reloads, controls, signals.                              *)
LEMMA MainLoopAccounts ==
  ASSUME TypeInv, AccountInv, MainLoop
  PROVE  AccountInv'
<1>1. /\ UNCHANGED <<actorVars, greetdVars, queue>> /\ g \in GreeterRecord /\ FormInv
  BY DEF MainLoop, Reload, TakeControl, Terminate, ActorEnded, StopActor, Leave, MainReady,
         TypeInv, TypeOK, AccountInv
<1>2. ASSUME NEW h \in GreeterRecord, CancelLogin(h) \/ g' = h,
             h.auth = g.auth, h.prev = g.prev, g.auth = "Idle" \/ h.user = g.user,
             h.mode \in {g.mode, g.prev} \/ (g.auth \notin {"Idle", "AwaitingInput"})
      PROVE  AccountInv'
  <2>1. g' = h \/ g'.auth = "Cancelling"
    BY <1>2 DEF CancelLogin, SetAuth, GreeterRecord
  <2>2. FormInv'
    BY <1>1, <1>2, <2>1 DEF FormInv
  <2> QED
    BY <1>1, <1>2, <2>1, <2>2, LooksAccount
<1>3. CASE Reload
  <2>1. PICK h \in Reloaded(g) : CancelLogin(h) \/ g' = h
    BY <1>3 DEF Reload
  <2>2. h \in GreeterRecord
    BY <1>1, <2>1, ReloadedType
  <2>3. /\ h.auth = g.auth /\ h.prev = g.prev /\ (g.auth = "Idle" \/ h.user = g.user)
        /\ h.mode \in {g.mode, SafePreviousMode(g), g.prev}
    BY <2>1 DEF Reloaded, Fillable
  <2>4. g.auth \in {"Idle", "AwaitingInput"} => SafePreviousMode(g) = g.prev
    BY <1>1 DEF FormInv, SafePreviousMode
  <2> QED
    BY <1>2, <2>1, <2>2, <2>3, <2>4
<1>4. CASE TakeControl \/ Terminate
  <2>1. g' = g \/ CancelLogin(g)
    BY <1>4 DEF TakeControl, Terminate, Exit
  <2> QED
    BY <1>1, <1>2, <2>1
<1>5. CASE ActorEnded \/ StopActor \/ Leave
  <2>1. g' = g
    BY <1>5 DEF ActorEnded, StopActor, Leave
  <2> QED
    BY <1>1, <1>2, <2>1
<1> QED
  BY <1>3, <1>4, <1>5 DEF MainLoop

(* A step of the actor or of greetd that leaves the screen alone.          *)
LEMMA KeepsAccount ==
  ASSUME AccountInv, UNCHANGED <<g, queue>>, \A user : Open(user) => Open(user)', Asked' => Asked,
         HandInv', RetryInv', GoneInv', GreetInv'
  PROVE  AccountInv'
<1>1. PostInv'
  BY FollowsOn DEF AccountInv, PostInv
<1>2. AnswerInv'
  BY FollowsOn DEF AccountInv, AnswerInv
<1>3. FormInv'
  BY DEF AccountInv, FormInv
<1> QED
  BY <1>1, <1>2, <1>3 DEF AccountInv

(* greetd answers the request that is in hand.                             *)
LEMMA GreetdAccounts ==
  ASSUME TypeInv, AccountInv, Greetd
  PROVE  AccountInv'
<1>1. /\ UNCHANGED <<g, queue, actorVars>> /\ pc = "read" /\ wire' = None /\ reply = None
      /\ wire = current /\ current # None /\ current \in Requests
      /\ HandInv /\ RetryInv /\ GoneInv /\ GreetInv
  BY DEF Greetd, AccountInv, GreetInv, HandInv, Carrying
<1>2. /\ pc' = pc /\ current' = current /\ stream' = stream /\ response' = response /\ g' = g
      /\ InFlight <=> IsCreate(current)
      /\ InFlight' <=> IsCreate(current)
      /\ ~Closing /\ stream
  BY <1>1 DEF InFlight, Closing, Carrying, IsCreate, actorVars, GoneInv
<1>3. /\ ~IsCreate(current) => \A user : SpeaksTo(user) => SpeaksTo(user)'
      /\ IsCreate(current) /\ reply' \in OpenReplies => SpeaksTo(current.user)'
  BY <1>1, <1>2 DEF Greetd, Answer, Legal, IsCreate, SpeaksTo, OpenReplies
<1>4. \A user : Open(user) => Open(user)'
  BY <1>2, <1>3 DEF Open
<1>5. HandInv' /\ RetryInv' /\ (Asked' => Asked)
  BY <1>1, <1>2 DEF HandInv, Carrying, RetryInv, Asked
<1>6. GoneInv'
  BY <1>1, <1>2 DEF GoneInv
<1>7. GreetInv'
  BY <1>1, <1>2, <1>3 DEF GreetInv, SpeaksTo
<1> QED
  BY <1>1, <1>4, <1>5, <1>6, <1>7, KeepsAccount

(* The actor on its way to greetd, and away from it.                       *)
LEMMA TransactAccounts ==
  ASSUME TypeInv, ReplyInv, AccountInv,
         SelectShutdown \/ SelectCancel \/ CheckGeneration \/ Connect \/ Write \/ Read \/ WriteCancel
  PROVE  AccountInv'
<1>1. /\ UNCHANGED <<g, queue, session>>
      /\ HandInv /\ RetryInv /\ GoneInv /\ GreetInv
      /\ pc \in {"select", "received", "connect", "write", "read", "cancel"}
  BY DEF SelectShutdown, SelectCancel, CheckGeneration, Connect, Write, Read, ReadOr, WriteCancel,
         Greeting, greetdVars, AccountInv
<1>2. ASSUME Closing', stream' = stream
      PROVE  AccountInv'
  <2>1. \A user : Open(user)'
    BY <1>2 DEF Open, InFlight, Carrying, Closing
  <2>2. HandInv' /\ RetryInv' /\ GoneInv' /\ GreetInv' /\ (Asked' => Asked)
    BY <1>1, <1>2 DEF HandInv, Carrying, RetryInv, GoneInv, GreetInv, Asked, Closing, InFlight, Carrying
  <2> QED
    BY <1>1, <2>1, <2>2, KeepsAccount
<1>3. ASSUME current' = current, pc' \in {"connect", "write", "read", "parse"}, pc # "cancel",
             current \in Requests, pc # "select",
             pc' \in {"write", "read"} => stream', ~stream' => ~stream,
             pc' \in {"connect", "write"} => pc \in {"received", "connect"},
             GreetInv'
      PROVE  AccountInv'
  <2>1. \A user : Open(user) => Open(user)'
    BY <1>1, <1>3 DEF Open, InFlight, Carrying, Closing, SpeaksTo
  <2>2. HandInv' /\ RetryInv' /\ GoneInv' /\ (Asked' => Asked)
    BY <1>1, <1>3 DEF HandInv, Carrying, RetryInv, GoneInv, Asked, SpeaksTo
  <2> QED
    BY <1>1, <1>3, <2>1, <2>2, KeepsAccount
<1>4. CASE SelectShutdown \/ SelectCancel \/ WriteCancel
  <2>1. Closing' /\ stream' = stream
    BY <1>4 DEF SelectShutdown, SelectCancel, WriteCancel, CancelStreamThen, Goto, Closing
  <2> QED
    BY <1>2, <2>1
<1>5. CASE CheckGeneration
  <2>1. stream' = stream /\ pc = "received"
    BY <1>5 DEF CheckGeneration
  <2>2. CASE Cancelled(current.generation)
    BY <1>2, <1>5, <2>1, <2>2 DEF CheckGeneration, CancelStreamThen, Closing
  <2>3. CASE ~Cancelled(current.generation)
    <3>1. pc' = (IF stream THEN "write" ELSE "connect") /\ current' = current
      BY <1>5, <2>3 DEF CheckGeneration, Goto
    <3>2. GreetInv'
      BY <3>1 DEF GreetInv
    <3> QED
      BY <1>1, <1>3, <2>1, <3>1, <3>2 DEF HandInv, Carrying
  <2> QED
    BY <2>2, <2>3
<1>6. CASE Connect
  <2>1. current' = current /\ pc = "connect"
    BY <1>6 DEF Connect
  <2>2. (Closing' /\ stream' = stream) \/ (stream' = TRUE /\ pc' = "write")
    BY <1>6 DEF Connect, CloseThen, Fail, Goto, Closing
  <2>3. pc' = "write" => GreetInv'
    BY DEF GreetInv
  <2> QED
    BY <1>1, <1>2, <1>3, <2>1, <2>2, <2>3 DEF HandInv, Carrying
<1>7. CASE Write
  <2>1. current' = current /\ pc = "write" /\ stream' = stream /\ reply' = reply
    BY <1>7 DEF Write
  <2>2. Closing' \/ (wire' = current /\ pc' = "read")
    BY <1>7 DEF Write, CloseThen, Fail, Goto, Closing
  <2>3. reply' = None
    BY <2>1 DEF ReplyInv
  <2>4. pc' = "read" /\ wire' = current => GreetInv'
    BY <2>1, <2>3, NoneAssumption DEF GreetInv, OpenReplies, Responses
  <2> QED
    BY <1>1, <1>2, <1>3, <2>1, <2>2, <2>4 DEF HandInv, Carrying, GoneInv
<1>8. CASE Read
  <2>1. current' = current /\ pc = "read" /\ stream' = stream
    BY <1>8 DEF Read, ReadOr
  <2>2. Closing' \/ (response' = reply /\ pc' = "parse")
    BY <1>8 DEF Read, ReadOr, CloseThen, Fail, Goto, Closing
  <2>3. pc' = "parse" /\ response' = reply => GreetInv'
    BY <1>1, <2>1 DEF GreetInv, InFlight, Carrying, SpeaksTo
  <2> QED
    BY <1>1, <1>2, <1>3, <2>1, <2>2, <2>3 DEF HandInv, Carrying, GoneInv
<1> QED
  BY <1>4, <1>5, <1>6, <1>7, <1>8

(* The actor takes the first request: what followed it in the queue        *)
(* follows it in hand.                                                     *)
LEMMA TakeAccounts ==
  ASSUME TypeInv, AccountInv, SelectRequest
  PROVE  AccountInv'
<1>1. /\ UNCHANGED <<g, session, stream, wire, reply, response>>
      /\ pc = "select" /\ pc' = "received" /\ queue # <<>>
      /\ current' = Head(queue) /\ queue' = Tail(queue)
      /\ PostInv /\ AnswerInv /\ RetryInv /\ GoneInv /\ FormInv /\ queue \in Seq(Requests)
  BY DEF SelectRequest, Goto, greetdVars, AccountInv, TypeInv, TypeOK
<1>2. /\ current' = queue[1] /\ queue[1] \in Requests
      /\ Len(queue) \in Nat /\ Len(queue') = Len(queue) - 1 /\ Len(queue) > 0
      /\ \A i \in 1..Len(queue') : queue'[i] = queue[i + 1]
  BY <1>1
<1>3. /\ ~InFlight /\ ~Closing
      /\ InFlight' <=> IsCreate(queue[1])
      /\ ~Closing' /\ \A user : SpeaksTo(user)' <=> SpeaksTo(user)
  BY <1>1, <1>2 DEF InFlight, Carrying, Closing, SpeaksTo, IsCreate
<1>4. ASSUME NEW user, NEW k \in 0..Len(queue'), Follows(user, k + 1)
      PROVE  Follows(user, k)'
  <2>1. /\ \A c \in 1..(k + 1) :
             IsCreate(queue[c]) /\ (\A j \in (c + 1)..(k + 1) : ~IsCreate(queue[j]))
               => queue[c].user = user
        /\ (\A j \in 1..(k + 1) : ~IsCreate(queue[j])) => Open(user)
    BY <1>4 DEF Follows
  <2>2. ASSUME NEW c \in 1..k, IsCreate(queue'[c]), \A j \in (c + 1)..k : ~IsCreate(queue'[j])
        PROVE  queue'[c].user = user
    <3>1. c + 1 \in 1..(k + 1) /\ queue'[c] = queue[c + 1]
      BY <1>2
    <3>2. ASSUME NEW j \in ((c + 1) + 1)..(k + 1) PROVE ~IsCreate(queue[j])
      <4>1. j - 1 \in (c + 1)..k /\ j - 1 \in 1..Len(queue') /\ (j - 1) + 1 = j
        BY <1>2
      <4> QED
        BY <1>2, <2>2, <4>1
    <3> QED
      BY <2>1, <2>2, <3>1, <3>2
  <2>3. ASSUME \A j \in 1..k : ~IsCreate(queue'[j]) PROVE Open(user)'
    <3>1. ASSUME NEW j \in 2..(k + 1) PROVE ~IsCreate(queue[j])
      <4>1. j - 1 \in 1..k /\ j - 1 \in 1..Len(queue') /\ (j - 1) + 1 = j
        BY <1>2
      <4> QED
        BY <1>2, <2>3, <4>1
    <3>2. CASE IsCreate(queue[1])
      <4>1. queue[1].user = user
        BY <1>2, <2>1, <3>1, <3>2
      <4> QED
        BY <1>2, <1>3, <3>2, <4>1 DEF Open
    <3>3. CASE ~IsCreate(queue[1])
      <4>1. \A j \in 1..(k + 1) : ~IsCreate(queue[j])
        BY <1>2, <3>1, <3>3
      <4>2. SpeaksTo(user)
        BY <1>3, <2>1, <4>1 DEF Open
      <4> QED
        BY <1>3, <3>3, <4>2 DEF Open
    <3> QED
      BY <3>2, <3>3
  <2> QED
    BY <2>2, <2>3 DEF Follows
<1>5. PostInv'
  <2>1. ASSUME NEW i \in 1..Len(queue'), queue'[i].kind = "Post", NEW user, user = queue'[i].user
        PROVE  Follows(user, i - 1)'
    <3>1. i + 1 \in 1..Len(queue) /\ queue'[i] = queue[i + 1] /\ i - 1 \in 0..Len(queue')
          /\ (i + 1) - 1 = (i - 1) + 1
      BY <1>2
    <3>2. Follows(user, (i - 1) + 1)
      BY <1>1, <2>1, <3>1 DEF PostInv
    <3> QED
      BY <1>4, <3>1, <3>2
  <2> QED
    BY <2>1 DEF PostInv
<1>6. AnswerInv'
  <2>1. ASSUME Asked', NEW user, user = g'.user PROVE Follows(user, Len(queue))'
    <3>1. Follows(user, Len(queue))
      BY <1>1, <2>1 DEF AnswerInv, Asked
    <3>2. \A k \in 0..Len(queue') : Follows(user, k + 1) => Follows(user, k)'
      BY <1>4
    <3>3. Len(queue') \in 0..Len(queue') /\ Len(queue') + 1 = Len(queue)
      BY <1>2
    <3> DEFINE n == Len(queue')
    <3>4. PICK k \in 0..Len(queue') : k = Len(queue') /\ k + 1 = Len(queue)
      BY <3>3
    <3>5. Follows(user, k)'
      BY <3>1, <3>2, <3>4
    <3> QED
      BY <3>4, <3>5
  <2> QED
    BY <2>1 DEF AnswerInv
<1>7. HandInv'
  <2>1. current'.kind = "Post" => SpeaksTo(current'.user)
    <3>1. CASE queue[1].kind = "Post"
      <4>1. Follows(queue[1].user, 0)
        BY <1>1, <1>2, <3>1 DEF PostInv
      <4>2. Open(queue[1].user)
        BY <4>1 DEF Follows
      <4> QED
        BY <1>2, <1>3, <4>2 DEF Open
    <3> QED
      BY <1>2, <3>1
  <2> QED
    BY <1>1, <1>2, <2>1 DEF HandInv, Carrying, SpeaksTo
<1>8. RetryInv' /\ GoneInv' /\ FormInv' /\ GreetInv'
  BY <1>1 DEF RetryInv, GoneInv, FormInv, GreetInv
<1> QED
  BY <1>5, <1>6, <1>7, <1>8 DEF AccountInv

(* A stream is closed, and what the actor does without one.                *)
LEMMA LeaveAccounts ==
  ASSUME TypeInv, AccountInv,
         Close \/ FinishCancellation \/ Persist \/ ReportStarted \/ EnterFailed \/ Recover \/ Backoff
           \/ ReadUsername \/ Drain
  PROVE  AccountInv'
<1>1. /\ g \in GreeterRecord /\ queue \in Seq(Requests)
      /\ PostInv /\ HandInv /\ AnswerInv /\ RetryInv /\ GoneInv /\ FormInv /\ GreetInv
  BY DEF AccountInv, TypeInv, TypeOK
<1>2. CASE Close
  <2>1. /\ UNCHANGED <<g, queue>> /\ pc = "close"
        /\ pc' \in {"select", "finish", "failed", "drain"}
    BY <1>2 DEF Close, Greeting, TypeInv, TypeOK
  <2>2. session'.phase # "auth"
    <3>1. session \in Sessions
      BY DEF TypeInv, TypeOK
    <3>2. session' \in IF stream THEN Orphaned(session, wire) ELSE {session}
      BY <1>2 DEF Close
    <3>3. ASSUME NEW s \in Orphaned(session, wire) PROVE s.phase # "auth"
      <4>1. \/ s = session /\ session.phase = "started"
            \/ s = NoSession
            \/ s = [session EXCEPT !.phase = "started", !.source = wire.source]
        BY <3>3 DEF Orphaned
      <4>2. CASE s = session /\ session.phase = "started"
        BY <4>2
      <4>3. CASE s = NoSession
        BY <4>3 DEF NoSession
      <4>4. CASE s = [session EXCEPT !.phase = "started", !.source = wire.source]
        BY <3>1, <4>4 DEF Sessions
      <4> QED
        BY <4>1, <4>2, <4>3, <4>4
    <3> QED
      BY <1>1, <3>2, <3>3 DEF GoneInv
  <2>3. \A user : Open(user)'
    BY <2>1, <2>2 DEF Open, InFlight, Carrying, SpeaksTo
  <2>4. HandInv' /\ RetryInv' /\ GoneInv' /\ GreetInv' /\ (Asked' => Asked)
    BY <2>1, <2>2 DEF HandInv, RetryInv, GoneInv, GreetInv, Asked, InFlight, Carrying
  <2> QED
    BY <2>1, <2>3, <2>4, KeepsAccount
<1>3. CASE FinishCancellation \/ EnterFailed \/ Recover
  <2>1. /\ UNCHANGED <<queue, session, stream>> /\ session.phase # "auth"
        /\ pc' \in {"select", "drain", "recover", "backoff"}
    BY <1>1, <1>3 DEF FinishCancellation, EnterFailed, EnterFailedUnless, Recover, Goto, GoneInv, greetdVars
  <2>2. \/ g'.auth = "Idle" /\ g'.prev = "Username" /\ g'.mode = "Username" /\ pc' = "select"
        \/ g'.auth = "Failed" /\ pc' # "backoff"
        \/ g'.auth = "CreatingSession" /\ pc' = "backoff"
    BY <1>1, <1>3 DEF FinishCancellation, EnterFailed, EnterFailedUnless, Recover, Goto, ResetLocal,
       SetAuth, GreeterRecord
  <2>3. \A user : Open(user)'
    BY <2>1 DEF Open, InFlight, Carrying, SpeaksTo
  <2>4. PostInv'
    BY <1>1, <2>1, <2>3, FollowsOn DEF PostInv
  <2>5. HandInv' /\ AnswerInv' /\ RetryInv' /\ GoneInv' /\ FormInv' /\ GreetInv'
    BY <2>1, <2>2 DEF HandInv, AnswerInv, Asked, RetryInv, GoneInv, FormInv, GreetInv, InFlight, Carrying
  <2> QED
    BY <2>4, <2>5 DEF AccountInv
<1>4. CASE Persist \/ ReportStarted
  <2>1. /\ UNCHANGED <<g, queue, session, stream>> /\ pc \in {"persist", "report"}
        /\ pc' \in {"report", "select"}
    BY <1>4 DEF Persist, ReportStarted, Reported, Goto, greetdVars
  <2>2. \A user : Open(user) => Open(user)'
    BY <2>1 DEF Open, InFlight, Carrying, Closing, SpeaksTo
  <2>3. HandInv' /\ RetryInv' /\ GoneInv' /\ GreetInv' /\ (Asked' => Asked)
    BY <1>1, <2>1 DEF HandInv, RetryInv, GoneInv, GreetInv, Asked, InFlight, Carrying
  <2> QED
    BY <2>1, <2>2, <2>3, KeepsAccount
<1>5. CASE Backoff \/ ReadUsername
  <2>1. /\ UNCHANGED <<g, queue, session, stream>> /\ session.phase # "auth"
        /\ pc' \in {"drain", "finish", "resend", "requeue"}
        /\ pc' = "requeue" => current'.user = g.user
        /\ pc' \in {"resend", "requeue"} => pc \in {"backoff", "resend"}
    BY <1>1, <1>5 DEF Backoff, ReadUsername, Greeting, Goto, GoneInv, greetdVars, Request
  <2>2. \A user : Open(user)'
    BY <2>1 DEF Open, InFlight, Carrying, SpeaksTo
  <2>3. HandInv' /\ RetryInv' /\ GoneInv' /\ GreetInv' /\ (Asked' => Asked)
    BY <1>1, <2>1 DEF HandInv, RetryInv, GoneInv, GreetInv, Asked, InFlight, Carrying
  <2> QED
    BY <2>1, <2>2, <2>3, KeepsAccount
<1>6. CASE Drain
  <2>1. /\ UNCHANGED <<g, session, stream>> /\ session.phase # "auth"
        /\ pc' = "stopped" /\ queue' = <<>>
    BY <1>1, <1>6 DEF Drain, Goto, GoneInv, greetdVars
  <2>2. \A user : Open(user)'
    BY <2>1 DEF Open, InFlight, Carrying, SpeaksTo
  <2>3. \A user : Follows(user, Len(queue))'
    BY <2>1, <2>2 DEF Follows
  <2>4. PostInv'
    BY <2>1 DEF PostInv
  <2>5. AnswerInv'
    <3>1. ASSUME NEW user, user = g'.user PROVE Follows(user, Len(queue))'
      BY <2>3
    <3> QED
      BY <3>1 DEF AnswerInv
  <2>6. HandInv' /\ RetryInv' /\ GoneInv' /\ FormInv' /\ GreetInv'
    BY <1>1, <2>1 DEF HandInv, RetryInv, GoneInv, FormInv, GreetInv, InFlight, Carrying
  <2> QED
    BY <2>4, <2>5, <2>6 DEF AccountInv
<1> QED
  BY <1>2, <1>3, <1>4, <1>5, <1>6

(* The retry queues the request for the user on the screen.                *)
LEMMA RequeueAccounts ==
  ASSUME TypeInv, AccountInv, Requeue
  PROVE  AccountInv'
<1>1. /\ UNCHANGED <<g, session, stream>> /\ pc = "requeue" /\ pc' = "select" /\ TypeOK
      /\ PostInv /\ RetryInv /\ GoneInv /\ FormInv /\ current \in Requests
  BY DEF Requeue, Goto, greetdVars, AccountInv, TypeInv
<1>2. \A user : Open(user) => Open(user)'
  BY <1>1 DEF Open, InFlight, Carrying, Closing, SpeaksTo
<1>3. PICK user \in UserField : user = current.user
  BY <1>1 DEF Requests
<1>4. Send("Create", user, None)
  BY <1>3 DEF Requeue
<1>5. PostInv' /\ Follows(user, Len(queue))'
  BY <1>1, <1>2, <1>4, SendAccounts DEF Kinds, SourceField
<1>6. AnswerInv'
  <2>1. Asked' => g'.user = user
    BY <1>1, <1>3 DEF Asked, RetryInv
  <2> QED
    BY <1>5, <2>1 DEF AnswerInv, Follows
<1>7. HandInv' /\ RetryInv' /\ GoneInv' /\ FormInv' /\ GreetInv'
  BY <1>1 DEF HandInv, RetryInv, GoneInv, FormInv, GreetInv, InFlight, Carrying
<1> QED
  BY <1>5, <1>6, <1>7 DEF AccountInv

(* The answer of greetd reaches the screen.                                *)
LEMMA ResponseAccounts ==
  ASSUME TypeInv, AccountInv, Parse
  PROVE  AccountInv'
<1>1. /\ UNCHANGED <<session, stream>> /\ pc = "parse" /\ TypeOK /\ g \in GreeterRecord
      /\ PostInv /\ HandInv /\ AnswerInv /\ RetryInv /\ GoneInv /\ FormInv /\ GreetInv
      /\ pc' \in {"select", "close", "persist"}
      /\ pc' = "select" => response \notin {"Error", "AuthError"}
  BY DEF Parse, ParsePrompt, ParseMessage, ParseAuthenticated, ParseStarted, ParseError, ParseUnexpected,
         Parsing, Handled, CloseThen, Goto, Acknowledge, Fail, greetdVars, AccountInv, TypeInv, TypeOK
<1>2. HandInv' /\ RetryInv' /\ GoneInv' /\ GreetInv'
  BY <1>1 DEF HandInv, RetryInv, GoneInv, GreetInv, InFlight, Carrying
<1>3. \A user : Open(user) => Open(user)'
  <2>1. pc' # "close" => response \in OpenReplies
    BY <1>1 DEF Parse, ParsePrompt, ParseMessage, ParseAuthenticated, ParseStarted, ParseError,
       ParseUnexpected, Parsing, Fail, CloseThen, Handled, OpenReplies
  <2> QED
    BY <1>1, <2>1 DEF Open, InFlight, Carrying, Closing, SpeaksTo, GreetInv
<1>4. Asked <=> g.auth \in {"CreatingSession", "ContinuingAuth", "AwaitingInput"}
  BY <1>1 DEF Asked
<1>5. PICK user \in UserField : user = g.user
  BY <1>1 DEF GreeterRecord
<1>6. ASSUME queue' = queue, FormInv', g'.auth \in {"AwaitingInput", "ContinuingAuth"} => Asked /\ g'.user = g.user,
             g'.auth # "CreatingSession" \/ g' = g
      PROVE  AccountInv'
  <2>1. PostInv'
    BY <1>1, <1>3, <1>6, FollowsOn DEF PostInv
  <2>2. Asked' => Asked /\ g'.user = user
    BY <1>4, <1>5, <1>6 DEF Asked
  <2>3. Asked' => Follows(user, Len(queue))'
    <3>1. Asked => Follows(user, Len(queue))
      BY <1>1, <1>5 DEF AnswerInv
    <3> QED
      BY <1>3, <1>6, <2>2, <3>1, FollowsOn DEF Follows
  <2>4. AnswerInv'
    BY <2>2, <2>3 DEF AnswerInv, Follows
  <2> QED
    BY <1>2, <1>6, <2>1, <2>4 DEF AccountInv
<1>7. ASSUME NEW kind \in Kinds \ {"Post"}, NEW source \in SourceField, Send(kind, user, source), FormInv',
             \/ g'.auth = "ContinuingAuth" /\ g'.user = user /\ Asked /\ kind # "Create"
             \/ g'.auth = "CreatingSession" /\ g'.user = user /\ kind = "Create"
             \/ g'.auth = "StartingSession"
      PROVE  AccountInv'
  <2>1. Asked => Follows(user, Len(queue))
    BY <1>1, <1>5 DEF AnswerInv
  <2>2. /\ PostInv'
        /\ kind = "Create" => Follows(user, Len(queue))'
        /\ kind # "Create" /\ Asked => Follows(user, Len(queue))'
    BY <1>1, <1>3, <1>7, <2>1, SendAccounts
  <2>3. Asked' => g'.user = user /\ Follows(user, Len(queue))'
    BY <1>7, <2>2 DEF Asked
  <2>4. AnswerInv'
    BY <2>3 DEF AnswerInv, Follows
  <2> QED
    BY <1>2, <1>7, <2>2, <2>4 DEF AccountInv
<1>8. CASE ParsePrompt
  <2>1. queue' = queue /\ Asked
    BY <1>4, <1>8 DEF ParsePrompt
  <2>2. /\ g'.auth = "AwaitingInput" /\ g'.mode = "Password" /\ g'.prev = "Password"
        /\ g'.user = g.user
    BY <1>1, <1>8 DEF ParsePrompt, SetAuth, GreeterRecord
  <2> QED
    BY <1>6, <2>1, <2>2 DEF FormInv
<1>9. CASE ParseMessage
  <2>1. Send("Ack", user, None) /\ Asked
    BY <1>4, <1>5, <1>9 DEF ParseMessage
  <2>2. g'.auth = "ContinuingAuth" /\ g'.user = g.user
    BY <1>1, <1>9 DEF ParseMessage, SetAuth, GreeterRecord
  <2>3. FormInv'
    BY <2>2 DEF FormInv
  <2> QED
    BY <1>5, <1>7, <2>1, <2>2, <2>3 DEF Kinds, SourceField
<1>10. CASE ParseAuthenticated
  <2>1. CASE g.source = None
    <3>1. queue' = queue /\ CancelLogin(g) /\ CanCancel(g.auth)
      BY <1>10, <2>1 DEF ParseAuthenticated, CanCancel
    <3>2. g'.auth = "Cancelling"
      BY <1>1, <3>1 DEF CancelLogin, SetAuth, GreeterRecord
    <3> QED
      BY <1>6, <3>1, <3>2 DEF FormInv
  <2>2. CASE g.source # None
    <3>1. PICK source \in SourceField : source = g.source
      BY <1>1 DEF GreeterRecord
    <3>2. Send("Start", user, source) /\ g' = BeginStart(g)
      BY <1>5, <1>10, <2>2, <3>1 DEF ParseAuthenticated
    <3>3. g'.auth = "StartingSession"
      BY <1>1, <3>2 DEF BeginStart, GreeterRecord
    <3> QED
      BY <1>7, <3>2, <3>3 DEF Kinds, FormInv
  <2> QED
    BY <2>1, <2>2
<1>11. CASE ParseStarted
  <2>1. queue' = queue /\ g'.auth = "Started"
    BY <1>1, <1>11 DEF ParseStarted, Acknowledge, SetAuth, GreeterRecord
  <2> QED
    BY <1>6, <2>1 DEF FormInv
<1>12. CASE ParseError
  <2>1. CASE response = "AuthError"
    <3>1. Send("Create", user, None) /\ g' = SetAuth(ResetLocal(g, TRUE), "CreatingSession")
      BY <1>5, <1>12, <2>1 DEF ParseError
    <3>2. g'.auth = "CreatingSession" /\ g'.user = g.user
      BY <1>1, <3>1 DEF SetAuth, ResetLocal, GreeterRecord
    <3> QED
      BY <1>5, <1>7, <3>1, <3>2 DEF Kinds, SourceField, FormInv
  <2>2. CASE response # "AuthError"
    <3>1. queue' = queue /\ g' = ResetLocal(g, FALSE)
      BY <1>12, <2>2 DEF ParseError
    <3>2. g'.auth = "Idle" /\ g'.prev = "Username" /\ g'.mode = "Username"
      BY <1>1, <3>1 DEF ResetLocal, GreeterRecord
    <3> QED
      BY <1>6, <3>1, <3>2 DEF FormInv
  <2> QED
    BY <2>1, <2>2
<1>13. CASE ParseUnexpected
  <2>1. queue' = queue /\ g' = g
    BY <1>13 DEF ParseUnexpected
  <2> QED
    BY <1>1, <1>4, <1>6, <2>1 DEF FormInv
<1> QED
  BY <1>8, <1>9, <1>10, <1>11, <1>12, <1>13 DEF Parse

(* The initial screen and its request agree.                               *)
LEMMA InitAccounts ==
  ASSUME Init
  PROVE  AccountInv
<1>1. PICK u \in UserField, s \in SourceField, r \in BOOLEAN :
        LET form  == [auth |-> "Idle", pending |-> None, mode |-> "Username",
                      prev |-> "Username", user |-> u, source |-> s, remember |-> r]
            login == u # None /\ CanBegin(form)
        IN  /\ g = IF login THEN BeginAuthentication(form) ELSE form
            /\ queue = IF login THEN <<Request("Create", u, None, 0)>> ELSE <<>>
  BY DEF Init
<1>2. \/ /\ g.auth = "Idle" /\ g.mode = "Username" /\ g.prev = "Username"
         /\ queue = <<>>
      \/ /\ g.auth = "CreatingSession" /\ g.user = u
         /\ queue = <<Request("Create", u, None, 0)>>
  BY <1>1 DEF BeginAuthentication, SetAuth
<1>3. pc = "select" /\ stream /\ session = NoSession
  BY DEF Init
<1>4. PostInv
  BY <1>2 DEF PostInv, Request
<1>5. AnswerInv
  BY <1>2 DEF AnswerInv, Asked, Follows, Request, IsCreate
<1> QED
  BY <1>2, <1>3, <1>4, <1>5 DEF AccountInv, HandInv, RetryInv, GoneInv, FormInv, GreetInv, InFlight, Carrying

(* Every step keeps answers with their accounts.                           *)
LEMMA StepAccounts ==
  ASSUME StartedInv, AccountInv, [Next]_vars
  PROVE  AccountInv'
<1>1. TypeInv /\ ReplyInv
  BY DEF StartedInv
<1>2. CASE UNCHANGED vars
  <2>1. UNCHANGED <<g, queue, actorVars, greetdVars>>
    BY <1>2 DEF vars
  <2> QED
    BY <1>1, <2>1, LooksAccount DEF AccountInv, FormInv
<1>3. CASE Actor
  BY <1>1, <1>3, TransactAccounts, TakeAccounts, LeaveAccounts, RequeueAccounts, ResponseAccounts DEF Actor
<1> QED
  BY <1>1, <1>2, <1>3, KeyboardAccounts, MainLoopAccounts, GreetdAccounts DEF Next, Finished

(* For every capacity and every number of users, sources, failures and     *)
(* cancellations, and also for keys that overtake the actor: what was      *)
(* typed for one account never reaches the conversation of another         *)
(* (AnswerGoesToItsAccount; SubmitPassword, QueuedRequest).                *)
THEOREM AnswersReachTheirAccount == Spec => AnswerGoesToItsAccount
<1>1. Spec => []StartedInv
  BY InitStarted, StepStarted, PTL DEF Spec
<1>2. Init => AccountInv
  BY InitAccounts
<1>3. StartedInv /\ AccountInv /\ [Next]_vars => AccountInv'
  BY StepAccounts
<1>4. AccountInv => [pc = "write" /\ Writes(current) /\ current.kind = "Post" /\ session.phase = "auth"
                       => session.user = current.user]_vars
  BY DEF AccountInv, HandInv, SpeaksTo
<1> QED
  BY <1>1, <1>2, <1>3, <1>4, PTL DEF Spec, AnswerGoesToItsAccount

-----------------------------------------------------------------------------
(* With keys no faster than the actor settles, nobody waits for room.      *)

(* A request is queued only when none is: by a key to an actor that has    *)
(* settled, or by the actor between taking one request and the next.       *)
QueueInv ==
  /\ OneRequestQueued
  /\ \/ pc \in {"received", "connect", "write", "read", "parse", "failed", "recover", "backoff",
                 "resend", "requeue"}
     \/ pc \in {"cancel", "close"} /\ after = "failed"
     => queue = <<>>

(* One more request in an empty queue makes one. *)
LEMMA SendOne ==
  ASSUME TypeOK, queue = <<>>, NEW kind, NEW user, NEW source, Send(kind, user, source)
  PROVE  Len(queue') <= 1
<1>1. CASE pc = "stopped"
  <2>1. queue' = <<>>
    BY <1>1 DEF Send
  <2> QED
    BY <2>1
<1>2. CASE pc # "stopped"
  <2>1. queue' = Append(<<>>, Request(kind, user, source, generation))
    BY <1>2 DEF Send
  <2>2. queue' = <<Request(kind, user, source, generation)>>
    BY <2>1
  <2> QED
    BY <2>2
<1> QED
  BY <1>1, <1>2

(* A key that queues a request meets an empty queue. *)
LEMMA KeyboardQueues ==
  ASSUME TypeInv, QueueInv, ~Hasty, Keyboard
  PROVE  QueueInv'
<1>1. UNCHANGED <<pc, after>>
  BY DEF Keyboard, TypeUsername, SubmitUsername, SubmitPassword, OpenMenu, ChooseUser, ChooseSource,
         Escape, Typing, KeyboardReady, actorVars
<1>2. CASE UNCHANGED queue
  BY <1>1, <1>2 DEF QueueInv, OneRequestQueued
<1>3. CASE Settled /\ \E kind, user, source : Send(kind, user, source)
  <2>1. queue = <<>> /\ pc = "select"
    BY <1>3 DEF Settled
  <2>2. Len(queue') <= 1
    BY <1>3, <2>1, SendOne DEF TypeInv
  <2> QED
    BY <1>1, <2>1, <2>2 DEF QueueInv, OneRequestQueued
<1>4. \A h : Settled /\ Validate(h) =>
        \/ UNCHANGED queue
        \/ Settled /\ \E kind, user, source : Send(kind, user, source)
  BY DEF Validate
<1>5. CASE TypeUsername \/ OpenMenu \/ ChooseSource \/ Escape
  BY <1>2, <1>5 DEF TypeUsername, OpenMenu, ChooseSource, Escape
<1>6. CASE SubmitUsername \/ ChooseUser
  <2>1. Settled /\ \E h : Validate(h)
    BY <1>6 DEF SubmitUsername, ChooseUser, Typing
  <2> QED
    BY <1>2, <1>3, <1>4, <2>1
<1>7. CASE SubmitPassword
  BY <1>3, <1>7 DEF SubmitPassword, Typing
<1> QED
  BY <1>5, <1>6, <1>7 DEF Keyboard

(* The actor queues only after it has taken the request it handles.        *)
LEMMA ActorQueues ==
  ASSUME TypeInv, QueueInv, Actor
  PROVE  QueueInv'
<1>1. CASE SelectShutdown \/ SelectCancel \/ CheckGeneration \/ WriteCancel \/ FinishCancellation
           \/ Persist \/ ReportStarted \/ ReadUsername \/ Recover \/ EnterFailed \/ Backoff
  BY <1>1 DEF SelectShutdown, SelectCancel, CheckGeneration, WriteCancel, FinishCancellation, Persist,
     ReportStarted, Reported, ReadUsername, Recover, EnterFailed, EnterFailedUnless, Backoff, Goto,
     CloseThen, CancelStreamThen, Greeting, QueueInv, OneRequestQueued
<1>2. CASE SelectRequest
  <2>1. queue' = Tail(queue) /\ queue # <<>> /\ queue \in Seq(Requests) /\ Len(queue) <= 1
    BY <1>2 DEF SelectRequest, QueueInv, OneRequestQueued, TypeInv, TypeOK
  <2>2. Len(queue') = 0 /\ queue' \in Seq(Requests)
    <3>1. Len(Tail(queue)) = Len(queue) - 1 /\ Tail(queue) \in Seq(Requests)
      BY <2>1, HeadTailProperties
    <3>2. Len(queue) \in Nat /\ Len(queue) # 0
      BY <2>1, EmptySeq
    <3> QED
      BY <2>1, <3>1, <3>2
  <2>3. queue' = <<>>
    BY <2>2, EmptySeq
  <2> QED
    BY <2>2, <2>3 DEF QueueInv, OneRequestQueued
<1>3. CASE Connect \/ Write \/ Read \/ Close
  <2>1. UNCHANGED queue
    BY <1>3 DEF Connect, Write, Read, ReadOr, Close, Greeting
  <2>2. CASE Close
    BY <2>1, <2>2 DEF Close, QueueInv, OneRequestQueued, TypeInv, TypeOK
  <2>3. CASE Connect \/ Write \/ Read
    BY <2>1, <2>3 DEF Connect, Write, Read, ReadOr, QueueInv, OneRequestQueued
  <2> QED
    BY <1>3, <2>2, <2>3
<1>4. CASE Parse
  <2>1. pc = "parse" /\ queue = <<>>
    BY <1>4 DEF Parse, ParsePrompt, ParseMessage, ParseAuthenticated, ParseStarted, ParseError,
       ParseUnexpected, Parsing, QueueInv
  <2>2. Len(queue') <= 1
    <3>1. UNCHANGED queue \/ \E kind, user, source : Send(kind, user, source)
      BY <1>4 DEF Parse, ParsePrompt, ParseMessage, ParseAuthenticated, ParseStarted, Acknowledge,
         ParseError, ParseUnexpected
    <3> QED
      BY <2>1, <3>1, SendOne DEF TypeInv, QueueInv, OneRequestQueued
  <2>3. CASE ParseUnexpected
    BY <2>1, <2>2, <2>3 DEF ParseUnexpected, QueueInv, OneRequestQueued
  <2>4. CASE ParseStarted
    BY <2>1, <2>2, <2>4 DEF ParseStarted, Acknowledge, QueueInv, OneRequestQueued
  <2>5. CASE ParsePrompt \/ ParseMessage \/ ParseAuthenticated \/ ParseError
    <3>1. Handled
      BY <2>5 DEF ParsePrompt, ParseMessage, ParseAuthenticated, ParseError
    <3>2. pc' = "select" \/ (pc' = "close" /\ after' = "select")
      BY <3>1 DEF Handled, CloseThen, Goto
    <3> QED
      BY <2>2, <3>2 DEF QueueInv, OneRequestQueued
  <2> QED
    BY <1>4, <2>3, <2>4, <2>5 DEF Parse
<1>5. CASE Requeue
  <2>1. Send("Create", current.user, None) /\ queue = <<>> /\ pc' = "select"
    BY <1>5 DEF Requeue, Goto, QueueInv
  <2> QED
    BY <2>1, SendOne DEF QueueInv, OneRequestQueued, TypeInv
<1>6. CASE Drain
  BY <1>6 DEF Drain, Goto, QueueInv, OneRequestQueued
<1> QED
  BY <1>1, <1>2, <1>3, <1>4, <1>5, <1>6 DEF Actor

LEMMA QueueInvariant == ~Hasty => (Spec => []QueueInv)
<1> SUFFICES ASSUME ~Hasty PROVE Spec => []QueueInv
  OBVIOUS
<1>1. Init => QueueInv
  BY DEF Init, QueueInv, OneRequestQueued
<1>2. TypeInv /\ QueueInv /\ [Next]_vars => QueueInv'
  <2> SUFFICES ASSUME TypeInv, QueueInv, [Next]_vars PROVE QueueInv'
    OBVIOUS
  <2>1. CASE MainLoop \/ Greetd \/ UNCHANGED vars
    <3>1. UNCHANGED <<queue, pc, after>>
      BY <2>1 DEF MainLoop, Reload, TakeControl, Terminate, ActorEnded, StopActor, Leave, MainReady,
         Greetd, vars, actorVars
    <3> QED
      BY <3>1 DEF QueueInv, OneRequestQueued
  <2> QED
    BY <2>1, KeyboardQueues, ActorQueues DEF Next, Finished
<1>3. Spec => []TypeInv
  BY InitType, StepType, PTL DEF Spec
<1> QED
  BY <1>1, <1>2, <1>3, PTL DEF Spec

(* For every capacity and every number of users, sources, failures and     *)
(* cancellations: the lock is never held by somebody who waits for room in *)
(* the queue (OneRequestQueued; queue_request, handle_with_power).         *)
THEOREM NobodyWaitsForRoom == ~Hasty => (Spec => []OneRequestQueued)
<1>1. QueueInv => OneRequestQueued
  BY DEF QueueInv
<1> QED
  BY <1>1, QueueInvariant, PTL

-----------------------------------------------------------------------------
(* With keys no faster than the actor settles, a prompt is that of the     *)
(* conversation on the line.                                               *)

Asking == g.auth \in {"CreatingSession", "ContinuingAuth"}
Talk   == {"Prompt", "Info", "Warn"}

(* The conversation on the line is open, for the user on the screen.       *)
OpenForUser == session.phase = "auth" /\ session.user = g.user

(* A request that serves the login on the screen. *)
Asks(r) ==
  /\ r.user = g.user /\ r.generation = generation
  /\ r.kind \in IF g.auth = "CreatingSession" THEN {"Create"} ELSE {"Post", "Ack"}

(* What the actor handles was queued under the generation it has observed. *)
GenerationInv ==
  /\ \A i \in 1..Len(queue) : queue[i].generation <= generation
  /\ pc = "received" => current.generation <= observed
  /\ \/ pc \in {"connect", "write", "read", "parse", "failed", "recover", "backoff"}
     \/ pc = "close" /\ after = "failed"
     => current.generation = observed
  /\ pc = "cancel" => after # "failed"
  /\ pc \in {"write", "read", "parse", "cancel"} => stream
  /\ main = "running" => ~shutdown

(* A prompt waits for its user, and the actor for an answer. *)
AwaitInv ==
  g.auth = "AwaitingInput" =>
    /\ pc = "select" /\ queue = <<>> /\ observed = generation /\ stream /\ OpenForUser
    /\ g.prev = "Password" /\ g.mode \in {"Password", "Sessions", "Command", "Power"}

(* Without a login the screen asks for no password. *)
IdleInv ==
  g.auth = "Idle" =>
    g.prev = "Username" /\ g.mode \in {"Username", "Users", "Sessions", "Command", "Power"}

(* Where the actor can be while the screen waits for greetd ...            *)
PlaceInv ==
  /\ Asking =>
       /\ pc \in {"select", "received", "connect", "write", "read", "parse", "close", "failed",
                  "backoff", "resend", "requeue", "finish"}
       /\ pc = "close" => after \in {"select", "failed"}
       /\ pc \notin {"backoff", "finish"} => observed = generation
       /\ pc \in {"backoff", "resend", "requeue"} \/ (pc = "close" /\ after = "select")
            => g.auth = "CreatingSession"
  /\ g.auth = "StartingSession" => observed = generation

(* ... and what it asks of greetd there, or has heard.                     *)
AskInv ==
  Asking =>
    /\ pc = "select" \/ (pc = "close" /\ after = "select") => queue # <<>> /\ Asks(Head(queue))
    /\ pc \in {"received", "connect", "write"} => Asks(current)
    /\ pc = "requeue" => current.user = g.user
    /\ pc = "read" /\ wire \notin {None, Cancel} => Asks(wire)
    /\ pc = "read" /\ reply \in Talk => OpenForUser
    /\ pc = "parse" /\ response \in Talk => OpenForUser
    /\ g.auth = "ContinuingAuth" /\ session.phase = "auth" => session.user = g.user

TalkInv == GenerationInv /\ (~shutdown => AwaitInv /\ IdleInv /\ PlaceInv /\ AskInv)

(* A screen that neither waits for greetd nor shows a prompt claims nothing. *)
LEMMA Silent ==
  ASSUME GenerationInv',
         \/ shutdown'
         \/ g'.auth \notin {"CreatingSession", "ContinuingAuth", "AwaitingInput", "StartingSession"}
            /\ IdleInv'
  PROVE  TalkInv'
BY DEF TalkInv, AwaitInv, PlaceInv, AskInv, Asking

(* The generation only grows, which makes no queued request younger.       *)
LEMMA GenerationGrows ==
  ASSUME TypeInv, GenerationInv, UNCHANGED <<queue, actorVars>>, generation <= generation',
         generation' \in Nat, main' = "running" => main = "running" /\ shutdown' = shutdown
  PROVE  GenerationInv'
<1>1. UNCHANGED <<pc, after, current, observed, stream, queue>>
  BY DEF actorVars
<1>2. generation \in Nat /\ \A i \in 1..Len(queue) : queue[i].generation \in Nat
  <2>1. queue \in [1..Len(queue) -> Requests] /\ generation \in Nat
    BY LenProperties DEF TypeInv, TypeOK
  <2> QED
    BY <2>1 DEF Requests
<1>3. \A i \in 1..Len(queue') : queue'[i].generation <= generation'
  BY <1>1, <1>2 DEF GenerationInv
<1> QED
  BY <1>1, <1>3 DEF GenerationInv

(* What only changes the screen keeps the conversation and its user.       *)
LEMMA StillTalks ==
  ASSUME TypeInv, TalkInv, UNCHANGED <<queue, generation, actorVars, greetdVars, shutdown>>,
         main' = "running" => main = "running",
         g'.auth = g.auth, g.auth # "Idle" => g'.user = g.user,
         g.auth = "AwaitingInput" /\ ~shutdown =>
           g'.prev = "Password" /\ g'.mode \in {"Password", "Sessions", "Command", "Power"},
         ~shutdown => IdleInv'
  PROVE  TalkInv'
<1>1. UNCHANGED <<pc, after, current, response, observed, stream, queue, generation, wire, reply,
                  session, shutdown>>
  BY DEF actorVars, greetdVars
<1>2. GenerationInv'
  BY <1>1 DEF TalkInv, GenerationInv
<1>3. CASE g.auth \in {"CreatingSession", "ContinuingAuth", "AwaitingInput", "StartingSession"}
  <2>1. g'.user = g.user
    BY <1>3
  <2>2. \A r : Asks(r)' <=> Asks(r)
    BY <1>1, <2>1 DEF Asks
  <2>3. ~shutdown => AskInv'
    BY <1>1, <2>1, <2>2 DEF TalkInv, AskInv, Asking, OpenForUser, Asks
  <2>4. ~shutdown => AwaitInv' /\ PlaceInv'
    BY <1>1, <2>1 DEF TalkInv, AwaitInv, PlaceInv, Asking, OpenForUser
  <2> QED
    BY <1>1, <1>2, <2>3, <2>4 DEF TalkInv
<1> QED
  BY <1>1, <1>2, <1>3, Silent

(* A key that cancels, or anything else that does.                         *)
LEMMA CancelTalks ==
  ASSUME TypeInv, TalkInv, NEW h \in GreeterRecord, CancelLogin(h), CanCancel(h.auth),
         UNCHANGED <<queue, actorVars>>, main' = "running" => main = "running" /\ shutdown' = shutdown
  PROVE  TalkInv'
<1>1. g'.auth = "Cancelling" /\ generation' = generation + 1 /\ generation \in Nat
  BY CancelLoginType DEF CancelLogin, TypeInv, TypeOK, SetAuth, GreeterRecord
<1>2. GenerationInv'
  BY <1>1, GenerationGrows DEF TalkInv
<1> QED
  BY <1>1, <1>2, Silent DEF IdleInv

LEMMA MainLoopTalks ==
  ASSUME TypeInv, TalkInv, MainLoop
  PROVE  TalkInv'
<1>1. UNCHANGED <<queue, actorVars, greetdVars>> /\ g \in GreeterRecord
  BY DEF MainLoop, Reload, TakeControl, Terminate, ActorEnded, StopActor, Leave, MainReady, actorVars,
     greetdVars, TypeInv, TypeOK
<1>2. ASSUME NEW h \in GreeterRecord, CancelLogin(h), h.auth = g.auth, g.auth # "Idle" => h.user = g.user,
             g.auth = "AwaitingInput" /\ ~shutdown =>
               h.prev = "Password" /\ h.mode \in {"Password", "Sessions", "Command", "Power"},
             h.auth = "Idle" /\ ~shutdown =>
               h.prev = "Username" /\ h.mode \in {"Username", "Users", "Sessions", "Command", "Power"},
             main' = "running" => main = "running", UNCHANGED shutdown
      PROVE  TalkInv'
  <2>1. CASE CanCancel(h.auth)
    BY <1>1, <1>2, <2>1, CancelTalks
  <2>2. CASE ~CanCancel(h.auth)
    BY <1>1, <1>2, <2>2, StillTalks DEF CancelLogin, IdleInv
  <2> QED
    BY <2>1, <2>2
<1>3. /\ g.auth = "AwaitingInput" /\ ~shutdown =>
           g.prev = "Password" /\ g.mode \in {"Password", "Sessions", "Command", "Power"}
      /\ g.auth = "Idle" /\ ~shutdown =>
           g.prev = "Username" /\ g.mode \in {"Username", "Users", "Sessions", "Command", "Power"}
  BY DEF TalkInv, AwaitInv, IdleInv
<1>4. ASSUME UNCHANGED <<g, generation, shutdown>>, main' = "running" => main = "running"
      PROVE  TalkInv'
  BY <1>1, <1>3, <1>4, StillTalks DEF IdleInv
<1>5. CASE Reload
  <2>1. UNCHANGED <<main, shutdown>>
    BY <1>5 DEF Reload, mainVars
  <2>2. PICK h \in Reloaded(g) :
          IF h.source = None THEN CancelLogin(h) ELSE g' = h /\ UNCHANGED generation
    BY <1>5 DEF Reload
  <2>3. h \in GreeterRecord /\ h.auth = g.auth
    BY <1>1, ReloadedType
  <2>4. h.prev = g.prev /\ (g.auth # "Idle" => h.user = g.user)
    BY DEF Reloaded, Fillable
  <2>5. h.mode \in {g.mode} \cup (IF g.mode \in Popups THEN {SafePreviousMode(g), g.prev} ELSE {})
    BY DEF Reloaded
  <2>6. /\ g.auth = "AwaitingInput" /\ ~shutdown =>
             h.prev = "Password" /\ h.mode \in {"Password", "Sessions", "Command", "Power"}
        /\ g.auth = "Idle" /\ ~shutdown =>
             h.prev = "Username" /\ h.mode \in {"Username", "Users", "Sessions", "Command", "Power"}
    BY <1>3, <2>4, <2>5 DEF SafePreviousMode
  <2>7. CASE CancelLogin(h)
    BY <1>2, <2>1, <2>3, <2>4, <2>6, <2>7
  <2>8. CASE g' = h /\ UNCHANGED generation
    BY <1>1, <2>1, <2>3, <2>4, <2>6, <2>8, StillTalks DEF IdleInv
  <2> QED
    BY <2>2, <2>7, <2>8
<1>6. CASE TakeControl \/ Terminate
  <2>1. /\ UNCHANGED shutdown /\ main' = "closing"
        /\ UNCHANGED <<g, generation>> \/ CancelLogin(g)
    BY <1>6 DEF TakeControl, Terminate, Exit
  <2> QED
    BY <1>1, <1>2, <1>3, <1>4, <2>1
<1>7. CASE ActorEnded \/ Leave
  BY <1>4, <1>7 DEF ActorEnded, Leave
<1>8. CASE StopActor
  <2>1. /\ shutdown' /\ main' # "running" /\ UNCHANGED <<g, generation>> /\ generation \in Nat
    BY <1>8 DEF StopActor, TypeInv, TypeOK
  <2>2. generation' \in Nat /\ generation <= generation'
    BY <2>1
  <2>3. GenerationInv'
    BY <1>1, <2>1, <2>2, GenerationGrows DEF TalkInv
  <2> QED
    BY <2>1, <2>3, Silent
<1> QED
  BY <1>5, <1>6, <1>7, <1>8 DEF MainLoop

(* A key that asks greetd meets a settled actor.                           *)
LEMMA AskingTalks ==
  ASSUME TypeInv, TalkInv, Settled, ~shutdown, NEW kind \in Kinds, NEW user \in UserField,
         Send(kind, user, None), g'.user = user, g'.auth \in {"CreatingSession", "ContinuingAuth"},
         kind \in IF g'.auth = "CreatingSession" THEN {"Create"} ELSE {"Post", "Ack"},
         g'.auth = "ContinuingAuth" => session.user = g'.user,
         UNCHANGED <<generation, actorVars, greetdVars, mainVars>>
  PROVE  TalkInv'
<1>1. UNCHANGED <<pc, after, current, response, observed, stream, generation, wire, reply, session,
                  main, shutdown>>
  BY DEF actorVars, greetdVars, mainVars
<1>2. pc = "select" /\ queue = <<>> /\ generation = observed
  BY DEF Settled
<1>3. queue' = <<Request(kind, user, None, generation)>>
  <2>1. queue' = Append(<<>>, Request(kind, user, None, generation))
    BY <1>2 DEF Send
  <2> QED
    BY <2>1
<1>4. /\ Len(queue') = 1 /\ queue'[1] = Request(kind, user, None, generation)
      /\ queue' # <<>> /\ Head(queue') = Request(kind, user, None, generation)
  BY <1>3
<1>5. Asks(Head(queue))'
  BY <1>1, <1>4 DEF Asks, Request
<1>6. GenerationInv'
  <2>1. \A i \in 1..Len(queue') : queue'[i].generation = generation
    BY <1>4 DEF Request
  <2>2. generation \in Nat
    BY DEF TypeInv, TypeOK
  <2> QED
    BY <1>1, <2>1, <2>2 DEF TalkInv, GenerationInv
<1>7. AwaitInv' /\ IdleInv' /\ PlaceInv'
  BY <1>1, <1>2 DEF AwaitInv, IdleInv, PlaceInv
<1>8. AskInv'
  BY <1>1, <1>2, <1>4, <1>5 DEF AskInv
<1> QED
  BY <1>6, <1>7, <1>8 DEF TalkInv

LEMMA ValidateTalks ==
  ASSUME TypeInv, TalkInv, Settled, ~shutdown, NEW h \in GreeterRecord, h.auth = "Idle",
         h.mode = "Username", h.prev = "Username", g.auth = "Idle", Validate(h),
         UNCHANGED <<generation, actorVars, greetdVars, mainVars>>
  PROVE  TalkInv'
<1>1. PICK s \in {h.source} \cup (IF h.remember THEN Sources ELSE {}) :
        LET r == [h EXCEPT !.source = s]
        IN  IF CanBegin(r)
            THEN g' = BeginAuthentication(r) /\ Send("Create", r.user, None)
            ELSE g' = r /\ UNCHANGED queue
  BY DEF Validate
<1> DEFINE r == [h EXCEPT !.source = s]
<1>2. /\ r \in GreeterRecord /\ r.auth = "Idle" /\ r.user \in UserField
      /\ r.mode = "Username" /\ r.prev = "Username"
  BY DEF GreeterRecord, SourceField
<1>3. CASE CanBegin(r)
  <2>1. g' = SetAuth(r, "CreatingSession") /\ Send("Create", r.user, None)
    BY <1>1, <1>3 DEF BeginAuthentication
  <2>2. g'.auth = "CreatingSession" /\ g'.user = r.user
    BY <1>2, <2>1, SetAuthType DEF AuthStates
  <2> QED
    BY <1>2, <2>1, <2>2, AskingTalks DEF Kinds
<1>4. CASE ~CanBegin(r)
  BY <1>1, <1>2, <1>4, StillTalks DEF IdleInv, mainVars
<1> QED
  BY <1>3, <1>4

LEMMA KeyboardTalks ==
  ASSUME TypeInv, TalkInv, ~Hasty, Keyboard
  PROVE  TalkInv'
<1>1. /\ main = "running" /\ ~shutdown /\ UNCHANGED <<actorVars, greetdVars, mainVars>>
      /\ g \in GreeterRecord /\ UNCHANGED <<main, shutdown>>
  BY DEF Keyboard, TypeUsername, SubmitUsername, SubmitPassword, OpenMenu, ChooseUser, ChooseSource,
         Escape, Typing, KeyboardReady, TypeInv, TypeOK, TalkInv, GenerationInv, mainVars
<1>2. /\ g.auth = "AwaitingInput" =>
           /\ g.prev = "Password" /\ g.mode \in {"Password", "Sessions", "Command", "Power"}
           /\ OpenForUser
      /\ g.auth = "Idle" =>
           g.prev = "Username" /\ g.mode \in {"Username", "Users", "Sessions", "Command", "Power"}
  BY <1>1 DEF TalkInv, AwaitInv, IdleInv
<1>3. CASE TypeUsername
  <2>1. g.auth = "Idle" /\ UNCHANGED <<queue, generation>>
    BY <1>1, <1>2, <1>3 DEF TypeUsername, Typing, AcceptsInput
  <2>2. g'.auth = g.auth /\ g'.prev = g.prev /\ g'.mode = g.mode
    BY <1>1, <1>3 DEF TypeUsername, GreeterRecord
  <2> QED
    BY <1>1, <1>2, <2>1, <2>2, StillTalks DEF IdleInv
<1>4. CASE SubmitUsername
  <2>1. g.auth = "Idle" /\ g.mode = "Username" /\ Settled /\ Validate(g) /\ UNCHANGED generation
    BY <1>1, <1>2, <1>4 DEF SubmitUsername, Typing, AcceptsInput
  <2> QED
    BY <1>1, <1>2, <2>1, ValidateTalks
<1>5. CASE ChooseUser
  <2>1. g.auth = "Idle" /\ Settled /\ UNCHANGED generation
    BY <1>1, <1>2, <1>5 DEF ChooseUser, Typing, AcceptsInput
  <2>2. PICK u \in Users : Validate([ClosePopup(g) EXCEPT !.user = u])
    BY <1>5 DEF ChooseUser
  <2> DEFINE h == [ClosePopup(g) EXCEPT !.user = u]
  <2>3. h \in GreeterRecord /\ h.auth = g.auth /\ h.mode = g.prev /\ h.prev = g.prev
    BY <1>1 DEF ClosePopup, GreeterRecord, UserField
  <2> QED
    BY <1>1, <1>2, <2>1, <2>2, <2>3, ValidateTalks
<1>6. CASE SubmitPassword
  <2>1. Settled /\ UNCHANGED generation /\ Send("Post", g.user, None) /\ g.user \in UserField
        /\ g' = SetAuth(g, "ContinuingAuth")
    BY <1>1, <1>6 DEF SubmitPassword, Typing, GreeterRecord
  <2>2. g'.auth = "ContinuingAuth" /\ g'.user = g.user
    BY <1>1, <2>1, SetAuthType DEF AuthStates
  <2>3. g.auth = "AwaitingInput"
    BY <1>2, <1>6 DEF SubmitPassword, Typing, AcceptsInput
  <2> QED
    BY <1>1, <1>2, <2>1, <2>2, <2>3, AskingTalks DEF Kinds, OpenForUser
<1>7. CASE OpenMenu
  <2>1. PICK popup \in Popups :
          /\ popup = "Users" => g.mode = "Username" /\ g.user = None
          /\ g' = OpenPopup(g, popup)
    BY <1>7 DEF OpenMenu
  <2>2. /\ UNCHANGED <<queue, generation>> /\ g'.auth = g.auth /\ g'.user = g.user
        /\ g'.mode = popup /\ g'.prev = IF g.mode \in Popups THEN g.prev ELSE g.mode
        /\ AcceptsInput(g.auth)
    BY <1>1, <1>7, <2>1 DEF OpenMenu, OpenPopup, GreeterRecord, Typing
  <2>3. IdleInv'
    BY <1>2, <2>2 DEF IdleInv, Popups
  <2>4. g.auth = "AwaitingInput" =>
          g'.prev = "Password" /\ g'.mode \in {"Password", "Sessions", "Command", "Power"}
    BY <1>2, <2>1, <2>2 DEF Popups
  <2> QED
    BY <1>1, <2>2, <2>3, <2>4, StillTalks
<1>8. ASSUME NEW s \in SourceField, g' = [ClosePopup(g) EXCEPT !.source = s] \/ g' = ClosePopup(g),
             UNCHANGED <<queue, generation>>
      PROVE  TalkInv'
  <2>1. g'.auth = g.auth /\ g'.user = g.user /\ g'.mode = g.prev /\ g'.prev = g.prev
    BY <1>1, <1>8 DEF ClosePopup, GreeterRecord
  <2> QED
    BY <1>1, <1>2, <1>8, <2>1, StillTalks DEF IdleInv
<1>9. CASE ChooseSource
  BY <1>8, <1>9 DEF ChooseSource, SourceField
<1>10. CASE Escape
  <2>1. CASE g' = ClosePopup(g) /\ UNCHANGED <<queue, generation>>
    BY <1>8, <2>1 DEF SourceField
  <2>2. CASE CanCancel(g.auth) /\ CancelLogin(g) /\ UNCHANGED queue
    BY <1>1, <2>2, CancelTalks DEF mainVars
  <2>3. CASE g.auth = "Idle" /\ g' = ResetLocal(g, FALSE) /\ UNCHANGED <<queue, generation>>
    <3>1. g'.auth = g.auth /\ g'.mode = "Username" /\ g'.prev = "Username"
      BY <1>1, <2>3 DEF ResetLocal, GreeterRecord
    <3> QED
      BY <1>1, <2>3, <3>1, StillTalks DEF IdleInv
  <2> QED
    BY <1>10, <2>1, <2>2, <2>3 DEF Escape
<1> QED
  BY <1>3, <1>4, <1>5, <1>6, <1>7, <1>9, <1>10 DEF Keyboard

(* greetd speaks of the user it was asked about.                           *)
LEMMA GreetdTalks ==
  ASSUME TypeInv, TalkInv, Greetd
  PROVE  TalkInv'
<1>1. /\ UNCHANGED <<g, queue, generation, actorVars, mainVars>> /\ pc = "read"
      /\ UNCHANGED <<pc, after, current, response, observed, stream, main, shutdown>>
      /\ wire # None /\ wire # Cancel /\ reply = None
  BY DEF Greetd, actorVars, mainVars
<1>2. GenerationInv'
  BY <1>1 DEF TalkInv, GenerationInv
<1>3. CASE ~shutdown /\ Asking
  <2>1. Asks(wire) /\ (g.auth = "ContinuingAuth" /\ session.phase = "auth" => session.user = g.user)
    BY <1>1, <1>3 DEF TalkInv, AskInv
  <2>2. /\ reply' \in Talk => OpenForUser'
        /\ g.auth = "ContinuingAuth" /\ session'.phase = "auth" => session'.user = g.user
    <3>1. CASE wire.kind = "Create" /\ session.phase = "none"
      BY <1>1, <1>3, <2>1, <3>1 DEF Greetd, Answer, Legal, Asks, OpenForUser, Talk, Asking
    <3>2. CASE wire.kind \in {"Post", "Ack"} /\ session.phase = "auth"
      BY <1>1, <1>3, <2>1, <3>2 DEF Greetd, Answer, Legal, Asks, OpenForUser, Talk, Asking
    <3>3. CASE wire.kind = "Start" /\ session.phase = "ready"
      BY <1>1, <1>3, <2>1, <3>3 DEF Asks, Asking
    <3>4. CASE ~Legal(wire)
      <4>1. reply' = "Error" /\ UNCHANGED session
        BY <3>4 DEF Greetd, Legal
      <4> QED
        BY <1>1, <2>1, <4>1 DEF Talk
    <3> QED
      BY <3>1, <3>2, <3>3, <3>4 DEF Legal
  <2>3. AskInv'
    BY <1>1, <2>2 DEF AskInv, Greetd
  <2> QED
    BY <1>1, <1>2, <1>3, <2>3 DEF TalkInv, AwaitInv, IdleInv, PlaceInv, Asking
<1>4. CASE ~(~shutdown /\ Asking)
  BY <1>1, <1>2, <1>4 DEF TalkInv, AwaitInv, IdleInv, PlaceInv, AskInv, Asking
<1> QED
  BY <1>3, <1>4

(* One request in an empty queue is the one just made. *)
LEMMA SendFirst ==
  ASSUME queue = <<>>, pc # "stopped", NEW kind, NEW user, NEW source, Send(kind, user, source)
  PROVE  /\ queue' # <<>> /\ Head(queue') = Request(kind, user, source, generation)
         /\ \A i \in 1..Len(queue') : queue'[i] = Request(kind, user, source, generation)
<1>1. queue' = Append(<<>>, Request(kind, user, source, generation))
  BY DEF Send
<1>2. queue' = <<Request(kind, user, source, generation)>>
  BY <1>1
<1>3. Len(queue') = 1 /\ queue'[1] = Request(kind, user, source, generation)
  BY <1>2
<1>4. Head(queue') = Request(kind, user, source, generation) /\ queue' # <<>>
  BY <1>2
<1> QED
  BY <1>3, <1>4

(* The request that is taken from the queue was the only one.              *)
LEMMA TakeFirst ==
  ASSUME TypeInv, QueueInv, queue # <<>>
  PROVE  Tail(queue) = <<>> /\ Len(queue) = 1 /\ Head(queue) = queue[1] /\ Head(queue) \in Requests
<1>1. queue \in Seq(Requests) /\ Len(queue) \in Nat \ {0} /\ Len(queue) <= 1
  BY EmptySeq DEF TypeInv, TypeOK, QueueInv, OneRequestQueued
<1>2. /\ Len(Tail(queue)) = Len(queue) - 1 /\ Tail(queue) \in Seq(Requests)
      /\ Head(queue) \in Requests /\ Head(queue) = queue[1]
  BY <1>1, HeadTailProperties
<1>3. Len(Tail(queue)) = 0 /\ Len(queue) = 1
  BY <1>1, <1>2
<1>4. Tail(queue) = <<>>
  BY <1>2, <1>3, EmptySeq
<1> QED
  BY <1>2, <1>3, <1>4

LEMMA ActorGeneration ==
  ASSUME ScreenInv, QueueInv, GenerationInv, Actor
  PROVE  GenerationInv'
<1>0. UNCHANGED <<main, shutdown>>
  BY DEF Actor, SelectShutdown, SelectCancel, SelectRequest, CheckGeneration, Connect, Write, Read,
         ReadOr, WriteCancel, Close, FinishCancellation, Parse, ParsePrompt, ParseMessage,
         ParseAuthenticated, ParseStarted, ParseError, ParseUnexpected, Parsing, Persist, ReportStarted,
         Reported, EnterFailed, EnterFailedUnless, Recover, Backoff, ReadUsername, Requeue, Drain,
         Greeting, mainVars
<1> DEFINE Older == \A i \in 1..Len(queue) : queue[i].generation <= generation
<1>1. /\ TypeInv /\ generation \in Nat /\ observed \in Nat /\ observed <= generation
      /\ main = "running" => ~shutdown
      /\ Older
  BY DEF ScreenInv, StartedInv, CancelInv, TypeInv, TypeOK, GenerationInv
<1>2. CASE SelectShutdown \/ SelectCancel \/ WriteCancel \/ FinishCancellation \/ Persist \/ Backoff
           \/ ReportStarted \/ ReadUsername \/ Recover \/ EnterFailed \/ Connect \/ Write \/ Read
  <2>1. UNCHANGED <<queue, generation>>
    BY <1>2 DEF SelectShutdown, SelectCancel, WriteCancel, FinishCancellation, Persist,
       ReportStarted, Reported, ReadUsername, Recover, EnterFailed, EnterFailedUnless, Backoff,
       Connect, Write, Read, ReadOr, Greeting
  <2>2. Older'
    BY <1>1, <2>1
  <2>3. CASE SelectShutdown \/ SelectCancel \/ WriteCancel \/ FinishCancellation \/ Persist
             \/ ReportStarted \/ ReadUsername \/ Recover \/ EnterFailed \/ Backoff
    BY <1>0, <1>1, <2>2, <2>3 DEF SelectShutdown, SelectCancel, WriteCancel, FinishCancellation,
       Persist, ReportStarted, Reported, ReadUsername, Recover, EnterFailed, EnterFailedUnless,
       Backoff, Goto, CloseThen, CancelStreamThen, GenerationInv
  <2>4. CASE Connect \/ Write
    BY <1>0, <1>1, <2>2, <2>4 DEF Connect, Write, Goto, CloseThen, Fail, GenerationInv
  <2>5. CASE Read
    BY <1>0, <1>1, <2>2, <2>5 DEF Read, ReadOr, Interrupt, Goto, CloseThen, Fail, GenerationInv
  <2> QED
    BY <1>2, <2>3, <2>4, <2>5
<1>3. CASE SelectRequest
  <2>1. current' = Head(queue) /\ queue' = Tail(queue) /\ pc' = "received" /\ queue # <<>>
        /\ UNCHANGED <<generation, observed, stream>> /\ observed = generation
    BY <1>3 DEF SelectRequest, Goto, Cancelled
  <2>2. queue' = <<>> /\ Len(queue) = 1 /\ current' = queue[1]
    BY <1>1, <2>1, TakeFirst
  <2>3. current'.generation <= observed'
    BY <1>1, <2>1, <2>2
  <2>4. Older'
    BY <2>2
  <2> QED
    BY <1>0, <1>1, <2>1, <2>3, <2>4 DEF GenerationInv
<1>4. CASE CheckGeneration
  <2>1. UNCHANGED <<queue, generation, stream>> /\ pc = "received" /\ current.generation <= observed
    BY <1>4 DEF CheckGeneration, Greeting, GenerationInv
  <2>2. Older'
    BY <1>1, <2>1
  <2>3. CASE Cancelled(current.generation)
    BY <1>0, <1>1, <1>4, <2>1, <2>2, <2>3 DEF CheckGeneration, CancelStreamThen, GenerationInv
  <2>4. CASE ~Cancelled(current.generation)
    <3>1. current.generation = observed /\ UNCHANGED <<current, observed>>
      BY <1>1, <1>4, <2>1, <2>4 DEF CheckGeneration, Cancelled
    <3> QED
      BY <1>0, <1>1, <1>4, <2>1, <2>2, <2>4, <3>1 DEF CheckGeneration, Goto, GenerationInv
  <2> QED
    BY <2>3, <2>4
<1>5. CASE Close
  <2>1. UNCHANGED <<queue, generation, after>>
        /\ pc' = (IF after = "cancelled" THEN "finish" ELSE after)
        /\ after \in {"select", "finish", "cancelled", "failed", "drain"}
        /\ (after = "failed" =>
               current' = current /\ observed' = observed /\ current.generation = observed)
    BY <1>1, <1>5 DEF Close, Greeting, GenerationInv, TypeInv, TypeOK
  <2>2. Older'
    BY <1>1, <2>1
  <2> QED
    BY <1>0, <1>1, <2>1, <2>2 DEF GenerationInv
<1>6. CASE Parse
  <2>1. pc = "parse" /\ queue = <<>> /\ UNCHANGED <<observed, stream>> /\ current.generation = observed
    BY <1>6 DEF Parse, ParsePrompt, ParseMessage, ParseAuthenticated, ParseStarted, ParseError,
       ParseUnexpected, Parsing, QueueInv, GenerationInv
  <2>2. /\ generation' \in Nat /\ generation <= generation'
        /\ queue' = <<>> \/ \E kind, user, source : Send(kind, user, source)
    <3>1. CASE ParseAuthenticated
      <4>1. CASE g.source = None
        BY <1>1, <2>1, <3>1, <4>1, CancelLoginType DEF ParseAuthenticated, TypeInv, TypeOK
      <4>2. CASE g.source # None
        BY <1>1, <3>1, <4>2 DEF ParseAuthenticated
      <4> QED
        BY <4>1, <4>2
    <3>2. CASE ParseMessage
      BY <1>1, <3>2 DEF ParseMessage
    <3>3. CASE ParseError
      <4>1. UNCHANGED generation /\ (UNCHANGED queue \/ Send("Create", g.user, None))
        BY <3>3 DEF ParseError
      <4> QED
        BY <1>1, <2>1, <4>1
    <3>4. CASE ParsePrompt \/ ParseStarted \/ ParseUnexpected
      BY <1>1, <2>1, <3>4 DEF ParsePrompt, ParseStarted, Acknowledge, ParseUnexpected
    <3> QED
      BY <1>6, <3>1, <3>2, <3>3, <3>4 DEF Parse
  <2>3. Older'
    <3>1. CASE queue' = <<>>
      BY <3>1
    <3>2. ASSUME NEW kind, NEW user, NEW source, Send(kind, user, source)
          PROVE  Older'
      <4>1. \A i \in 1..Len(queue') : queue'[i] = Request(kind, user, source, generation)
        BY <2>1, <3>2, SendFirst
      <4>2. \A i \in 1..Len(queue') : queue'[i].generation = generation
        BY <4>1 DEF Request
      <4> QED
        BY <1>1, <2>2, <4>2
    <3> QED
      BY <2>2, <3>1, <3>2
  <2>4. CASE ParsePrompt \/ ParseMessage \/ ParseAuthenticated \/ ParseError
    <3>1. Handled
      BY <2>4 DEF ParsePrompt, ParseMessage, ParseAuthenticated, ParseError
    <3>2. pc' = "select" \/ (pc' = "close" /\ after' = "select")
      BY <3>1 DEF Handled, CloseThen, Goto
    <3> QED
      BY <1>0, <1>1, <2>3, <3>2 DEF GenerationInv
  <2>5. CASE ParseStarted
    BY <1>0, <1>1, <2>3, <2>5 DEF ParseStarted, Acknowledge, Goto, GenerationInv
  <2>6. CASE ParseUnexpected
    BY <1>0, <1>1, <2>1, <2>3, <2>6 DEF ParseUnexpected, Fail, CloseThen, GenerationInv
  <2> QED
    BY <1>6, <2>4, <2>5, <2>6 DEF Parse
<1>7. CASE Requeue
  <2>1. Send("Create", current.user, None) /\ queue = <<>> /\ pc = "requeue" /\ pc' = "select"
        /\ UNCHANGED generation
    BY <1>7 DEF Requeue, Goto, QueueInv
  <2>2. \A i \in 1..Len(queue') : queue'[i] = Request("Create", current.user, None, generation)
    BY <2>1, SendFirst
  <2>3. Older'
    BY <1>1, <2>1, <2>2 DEF Request
  <2> QED
    BY <1>0, <1>1, <2>1, <2>3 DEF GenerationInv
<1>8. CASE Drain
  <2>1. queue' = <<>> /\ pc' = "stopped"
    BY <1>8 DEF Drain, Goto
  <2>2. Older'
    BY <2>1
  <2> QED
    BY <1>0, <1>1, <2>1, <2>2 DEF GenerationInv
<1> QED
  BY <1>2, <1>3, <1>4, <1>5, <1>6, <1>7, <1>8 DEF Actor

(* A step that leaves the screen to greetd as it is.                       *)
LEMMA SameScreen ==
  ASSUME TalkInv, GenerationInv', ~shutdown, UNCHANGED <<g, generation, shutdown>>,
         g.auth # "AwaitingInput", observed' \in {observed, generation},
         Asking => PlaceInv' /\ AskInv'
  PROVE  TalkInv'
<1>1. AwaitInv' /\ IdleInv'
  BY DEF TalkInv, AwaitInv, IdleInv
<1>2. CASE Asking
  BY <1>1, <1>2 DEF TalkInv
<1>3. CASE ~Asking
  BY <1>1, <1>3 DEF TalkInv, PlaceInv, AskInv, Asking
<1> QED
  BY <1>2, <1>3

(* What the actor does with a request on its way to greetd and back.       *)
LEMMA TransactTalks ==
  ASSUME ScreenInv, QueueInv, TalkInv, GenerationInv', ~shutdown,
         SelectRequest \/ CheckGeneration \/ Connect \/ Write \/ Read
  PROVE  TalkInv'
<1>1. /\ UNCHANGED <<g, generation, shutdown, session>> /\ observed' \in {observed, generation}
      /\ ~shutdown /\ GenerationInv /\ AwaitInv /\ PlaceInv /\ AskInv
  BY DEF TalkInv, GenerationInv, SelectRequest, CheckGeneration, Connect, Write, Read, ReadOr,
     Greeting, greetdVars, mainVars
<1>2. g.auth # "AwaitingInput"
  BY <1>1 DEF AwaitInv, SelectRequest, CheckGeneration, Connect, Write, Read, ReadOr
<1>3. SUFFICES ASSUME Asking PROVE PlaceInv' /\ AskInv'
  BY <1>1, <1>2, SameScreen
<1>4. observed = generation /\ (g.auth = "ContinuingAuth" /\ session.phase = "auth" => session.user = g.user)
  BY <1>1, <1>3 DEF PlaceInv, AskInv, SelectRequest, CheckGeneration, Connect, Write, Read, ReadOr
<1>5. \A r : Asks(r)' <=> Asks(r)
  BY <1>1 DEF Asks
<1>6. CASE SelectRequest
  <2>1. pc = "select" /\ pc' = "received" /\ current' = Head(queue) /\ UNCHANGED observed
    BY <1>6 DEF SelectRequest, Goto
  <2>2. Asks(current')
    BY <1>1, <1>3, <2>1 DEF AskInv
  <2> QED
    BY <1>1, <1>3, <1>4, <1>5, <2>1, <2>2 DEF PlaceInv, AskInv, Asking
<1>7. ASSUME pc \in {"received", "connect", "write"} PROVE Asks(current) /\ ~Cancelled(current.generation)
  BY <1>1, <1>3, <1>7 DEF AskInv, Asks, Cancelled
<1>8. CASE CheckGeneration
  <2>1. Asks(current) /\ pc' \in {"write", "connect"} /\ UNCHANGED <<observed, current>>
    BY <1>7, <1>8 DEF CheckGeneration, Goto
  <2> QED
    BY <1>1, <1>3, <1>4, <1>5, <2>1 DEF PlaceInv, AskInv, Asking
<1>9. CASE Connect
  <2>1. /\ Asks(current) /\ UNCHANGED <<observed, current>>
        /\ pc' = "write" \/ (pc' = "close" /\ after' = "failed")
    BY <1>1, <1>7, <1>9 DEF Connect, Interrupt, Fail, CloseThen, Goto
  <2> QED
    BY <1>1, <1>3, <1>4, <1>5, <2>1 DEF PlaceInv, AskInv, Asking
<1>10. CASE Write
  <2>1. /\ Asks(current) /\ UNCHANGED <<observed, current, reply>> /\ reply = None
        /\ (pc' = "read" /\ wire' = current) \/ (pc' = "close" /\ after' = "failed")
    BY <1>1, <1>7, <1>10 DEF Write, Interrupt, Fail, CloseThen, Goto, ScreenInv, StartedInv, ReplyInv
  <2>2. None \notin Talk
    BY NoneAssumption DEF Talk, Responses
  <2> QED
    BY <1>1, <1>3, <1>4, <1>5, <2>1, <2>2 DEF PlaceInv, AskInv, Asking
<1>11. CASE Read
  <2>1. current.generation = generation /\ pc = "read"
    BY <1>1, <1>4, <1>11 DEF GenerationInv, Read, ReadOr
  <2>2. /\ UNCHANGED observed
        /\ (pc' = "parse" /\ response' = reply) \/ (pc' = "close" /\ after' = "failed")
    BY <1>1, <1>11, <2>1 DEF Read, ReadOr, Interrupt, Cancelled, Fail, CloseThen, Goto
  <2>3. reply \in Talk => OpenForUser
    BY <1>1, <1>3, <2>1 DEF AskInv
  <2> QED
    BY <1>1, <1>3, <1>4, <2>2, <2>3 DEF PlaceInv, AskInv, Asking, OpenForUser
<1> QED
  BY <1>6, <1>8, <1>9, <1>10, <1>11

(* What it does when a transaction is over, or the screen has left it.     *)
LEMMA RetryTalks ==
  ASSUME ScreenInv, QueueInv, TalkInv, GenerationInv', ~shutdown,
         \/ SelectShutdown \/ SelectCancel \/ WriteCancel \/ Close \/ Persist \/ ReportStarted
         \/ Backoff \/ ReadUsername \/ Requeue \/ Drain
  PROVE  TalkInv'
<1> USE DEF SelectShutdown, SelectCancel, WriteCancel, Close, Persist, ReportStarted, Backoff,
            ReadUsername, Requeue, Drain
<1>1. /\ UNCHANGED <<g, generation, shutdown>> /\ observed' \in {observed, generation}
      /\ ~shutdown /\ GenerationInv /\ AwaitInv /\ PlaceInv /\ AskInv
  BY DEF TalkInv, GenerationInv, Greeting, Reported, mainVars
<1>2. g.auth # "AwaitingInput"
  BY <1>1 DEF AwaitInv, Cancelled
<1>3. SUFFICES ASSUME Asking PROVE PlaceInv' /\ AskInv'
  BY <1>1, <1>2, SameScreen
<1>4. \A r : Asks(r)' <=> Asks(r)
  BY <1>1 DEF Asks
<1>5. CASE SelectShutdown \/ SelectCancel \/ WriteCancel \/ Persist \/ ReportStarted \/ Drain
  BY <1>1, <1>3, <1>5 DEF PlaceInv, Cancelled
<1>6. CASE Close
  <2>1. pc = "close" /\ after \in {"select", "failed"} /\ pc' = after /\ UNCHANGED <<observed, queue>>
    BY <1>1, <1>3, <1>6 DEF PlaceInv, Greeting
  <2>2. session'.phase = "auth" => session' = session
    <3>1. session \in Sessions
      BY DEF ScreenInv, StartedInv, TypeInv, TypeOK
    <3>2. \A t \in Orphaned(session, wire) : t.phase # "auth"
      <4>1. /\ NoSession.phase = "none"
            /\ [session EXCEPT !.phase = "started", !.source = wire.source].phase = "started"
        BY <3>1 DEF NoSession, Sessions
      <4> QED
        BY <4>1 DEF Orphaned
    <3> QED
      BY <1>6, <3>2
  <2>3. observed = generation
    BY <1>1, <1>3, <2>1 DEF PlaceInv
  <2>4. after = "select" => queue # <<>> /\ Asks(Head(queue))
    BY <1>1, <1>3, <2>1 DEF AskInv
  <2>5. PlaceInv'
    BY <1>1, <1>3, <2>1, <2>3 DEF PlaceInv, Asking
  <2>6. AskInv'
    BY <1>1, <1>3, <1>4, <2>1, <2>2, <2>4 DEF AskInv, Asking
  <2> QED
    BY <2>5, <2>6
<1>7. ASSUME pc \in {"backoff", "resend", "requeue"} PROVE g.auth = "CreatingSession"
  BY <1>1, <1>3, <1>7 DEF PlaceInv
<1>8. CASE Backoff
  <2>1. /\ g.auth = "CreatingSession" /\ UNCHANGED observed
        /\ pc' = "finish" \/ (pc' = "resend" /\ observed = generation)
    BY <1>1, <1>7, <1>8 DEF Goto, GenerationInv, Cancelled
  <2> QED
    BY <1>1, <2>1 DEF PlaceInv, AskInv, Asking
<1>9. CASE ReadUsername
  <2>1. /\ g.auth = "CreatingSession" /\ UNCHANGED observed /\ observed = generation
        /\ pc' = "requeue" /\ current'.user = g.user
    BY <1>1, <1>3, <1>7, <1>9 DEF PlaceInv, Goto, Request
  <2> QED
    BY <1>1, <2>1 DEF PlaceInv, AskInv, Asking
<1>10. CASE Requeue
  <2>1. /\ g.auth = "CreatingSession" /\ UNCHANGED observed /\ observed = generation
        /\ pc = "requeue" /\ pc' = "select" /\ current.user = g.user
    BY <1>1, <1>3, <1>7, <1>10 DEF PlaceInv, AskInv, Goto
  <2>2. queue' # <<>> /\ Head(queue') = Request("Create", current.user, None, generation)
    BY <1>10, <2>1, SendFirst DEF QueueInv
  <2>3. Asks(Head(queue'))
    BY <2>1, <2>2 DEF Asks, Request
  <2> QED
    BY <1>1, <1>4, <2>1, <2>2, <2>3 DEF PlaceInv, AskInv, Asking
<1> QED
  BY <1>5, <1>6, <1>8, <1>9, <1>10

(* What the actor changes on the screen.                                   *)
LEMMA ScreenTalks ==
  ASSUME ScreenInv, QueueInv, TalkInv, GenerationInv', ~shutdown,
         FinishCancellation \/ EnterFailed \/ Recover
  PROVE  TalkInv'
<1>1. /\ UNCHANGED <<generation, shutdown, observed>> /\ g \in GreeterRecord
      /\ ~shutdown /\ GenerationInv /\ AwaitInv /\ PlaceInv /\ AskInv
  BY DEF TalkInv, GenerationInv, ScreenInv, StartedInv, TypeInv, TypeOK, FinishCancellation,
     EnterFailed, EnterFailedUnless, Recover, mainVars
<1>2. CASE FinishCancellation
  <2>1. g'.auth = "Idle" /\ g'.mode = "Username" /\ g'.prev = "Username"
    BY <1>1, <1>2 DEF FinishCancellation, ResetLocal, GreeterRecord
  <2> QED
    BY <2>1, Silent DEF IdleInv
<1>3. CASE EnterFailed
  <2>1. g'.auth = "Failed"
    BY <1>1, <1>3, SetAuthType DEF EnterFailed, EnterFailedUnless, AuthStates
  <2> QED
    BY <2>1, Silent DEF IdleInv
<1>4. CASE Recover
  <2>1. ResetLocal(g, TRUE) \in GreeterRecord
    BY <1>1, ResetLocalType
  <2>2. g'.auth = "CreatingSession" /\ pc' = "backoff"
    BY <1>4, <2>1, SetAuthType DEF Recover, Goto, AuthStates
  <2> QED
    BY <1>1, <2>2 DEF TalkInv, AwaitInv, IdleInv, PlaceInv, AskInv, Asking
<1> QED
  BY <1>2, <1>3, <1>4

(* Every response leads to the prompt, the message, the start or the reset *)
(* that belongs to the login on the screen.                                *)
LEMMA ResponseTalks ==
  ASSUME ScreenInv, QueueInv, TalkInv, GenerationInv', ~shutdown, Parse
  PROVE  TalkInv'
<1>1. /\ pc = "parse" /\ queue = <<>> /\ UNCHANGED <<shutdown, session, observed, stream>> /\ stream
      /\ GenerationInv /\ AwaitInv /\ IdleInv /\ PlaceInv /\ AskInv
  BY DEF TalkInv, GenerationInv, QueueInv, Parse, ParsePrompt, ParseMessage, ParseAuthenticated,
     ParseStarted, ParseError, ParseUnexpected, Parsing, mainVars, greetdVars
<1>2. g \in GreeterRecord /\ g.user \in UserField
  BY DEF ScreenInv, StartedInv, TypeInv, TypeOK, GreeterRecord
<1>3. /\ Asking \/ g.auth = "StartingSession" => observed = generation
      /\ Asking /\ response \in Talk => OpenForUser
  BY <1>1 DEF PlaceInv, AskInv
<1>4. ASSUME NEW kind \in Kinds, Send(kind, g.user, None), UNCHANGED generation, observed = generation,
             g'.user = g.user, g'.auth \in {"CreatingSession", "ContinuingAuth"},
             kind \in IF g'.auth = "CreatingSession" THEN {"Create"} ELSE {"Post", "Ack"},
             \/ pc' = "select"
             \/ pc' = "close" /\ after' = "select" /\ g'.auth = "CreatingSession",
             g'.auth = "ContinuingAuth" => OpenForUser
      PROVE  TalkInv'
  <2>1. queue' # <<>> /\ Head(queue') = Request(kind, g.user, None, generation)
    BY <1>1, <1>4, SendFirst
  <2>2. Asks(Head(queue))'
    BY <1>4, <2>1 DEF Asks, Request
  <2>3. AwaitInv' /\ IdleInv'
    BY <1>4 DEF AwaitInv, IdleInv
  <2>4. PlaceInv'
    BY <1>1, <1>4 DEF PlaceInv
  <2>5. AskInv'
    BY <1>1, <1>4, <2>1, <2>2 DEF AskInv, OpenForUser
  <2> QED
    BY <2>3, <2>4, <2>5 DEF TalkInv
<1>5. CASE ParsePrompt
  <2>1. /\ g' = [SetAuth(g, "AwaitingInput") EXCEPT !.mode = "Password", !.prev = "Password"]
        /\ UNCHANGED <<queue, generation>> /\ pc' = "select" /\ Asking /\ response \in Talk
    BY <1>5 DEF ParsePrompt, Parsing, Handled, Goto, Asking, Talk
  <2>2. /\ g'.auth = "AwaitingInput" /\ g'.user = g.user
        /\ g'.mode = "Password" /\ g'.prev = "Password"
    BY <1>2, <2>1 DEF SetAuth, GreeterRecord
  <2>3. AwaitInv'
    BY <1>1, <1>3, <2>1, <2>2 DEF AwaitInv, OpenForUser
  <2> QED
    BY <2>2, <2>3 DEF TalkInv, IdleInv, PlaceInv, AskInv, Asking
<1>6. CASE ParseMessage
  <2>1. /\ Send("Ack", g.user, None) /\ UNCHANGED generation /\ pc' = "select"
        /\ Asking /\ response \in Talk
    BY <1>6 DEF ParseMessage, Parsing, Handled, Goto, Asking, Talk
  <2>2. g'.auth = "ContinuingAuth" /\ g'.user = g.user
    BY <1>2, <1>6 DEF ParseMessage, SetAuth, GreeterRecord
  <2> QED
    BY <1>3, <1>4, <2>1, <2>2 DEF Kinds
<1>7. CASE ParseAuthenticated
  <2>1. Asking
    BY <1>7 DEF ParseAuthenticated, Asking
  <2>2. CASE g.source = None
    <3>1. CancelLogin(g) /\ CanCancel(g.auth)
      BY <1>7, <2>1, <2>2 DEF ParseAuthenticated, Asking, CanCancel
    <3>2. g'.auth = "Cancelling"
      BY <1>2, <3>1, SetAuthType DEF CancelLogin, AuthStates
    <3> QED
      BY <3>2, Silent DEF IdleInv
  <2>3. CASE g.source # None
    <3>1. g' = BeginStart(g) /\ UNCHANGED generation
      BY <1>7, <2>3 DEF ParseAuthenticated
    <3>2. g'.auth = "StartingSession"
      BY <1>2, <2>3, <3>1, BeginStartType
    <3> QED
      BY <1>1, <1>3, <2>1, <3>1, <3>2 DEF TalkInv, AwaitInv, IdleInv, PlaceInv, AskInv, Asking
  <2> QED
    BY <2>2, <2>3
<1>8. CASE ParseStarted
  <2>1. g'.auth = "Started"
    BY <1>2, <1>8, SetAuthType DEF ParseStarted, Acknowledge, AuthStates
  <2> QED
    BY <2>1, Silent DEF IdleInv
<1>9. CASE ParseError
  <2>1. /\ response \in {"AuthError", "Error"} /\ pc' = "close" /\ after' = "select"
        /\ UNCHANGED generation /\ observed = generation
    BY <1>3, <1>9 DEF ParseError, Parsing, Handled, CloseThen, Asking
  <2>2. CASE response = "AuthError"
    <3>1. g' = SetAuth(ResetLocal(g, TRUE), "CreatingSession") /\ Send("Create", g.user, None)
      BY <1>9, <2>2 DEF ParseError
    <3>2. g'.auth = "CreatingSession" /\ g'.user = g.user
      BY <1>2, <3>1 DEF SetAuth, ResetLocal, GreeterRecord
    <3> QED
      BY <1>4, <2>1, <3>1, <3>2 DEF Kinds
  <2>3. CASE response # "AuthError"
    <3>1. g'.auth = "Idle" /\ g'.mode = "Username" /\ g'.prev = "Username"
      BY <1>2, <1>9, <2>3 DEF ParseError, ResetLocal, GreeterRecord
    <3> QED
      BY <3>1, Silent DEF IdleInv
  <2> QED
    BY <2>2, <2>3
<1>10. CASE ParseUnexpected
  <2>1. UNCHANGED <<g, generation>> /\ ~Asking /\ g.auth # "AwaitingInput"
    BY <1>1, <1>10 DEF ParseUnexpected, Acceptable, Asking, AwaitInv
  <2> QED
    BY <1>1, <2>1, SameScreen
<1> QED
  BY <1>5, <1>6, <1>7, <1>8, <1>9, <1>10 DEF Parse

LEMMA ActorTalks ==
  ASSUME ScreenInv, QueueInv, TalkInv, Actor
  PROVE  TalkInv'
<1>1. GenerationInv'
  BY ActorGeneration DEF TalkInv
<1>2. CASE ~shutdown
  BY <1>1, <1>2, TransactTalks, RetryTalks, ScreenTalks, ResponseTalks DEF Actor
<1>3. CASE shutdown
  <2>1. UNCHANGED shutdown
    BY DEF Actor, SelectShutdown, SelectCancel, SelectRequest, CheckGeneration, Connect, Write, Read,
       ReadOr, WriteCancel, Close, FinishCancellation, Parse, ParsePrompt, ParseMessage,
       ParseAuthenticated, ParseStarted, ParseError, ParseUnexpected, Parsing, Persist,
       ReportStarted, Reported, EnterFailed, EnterFailedUnless, Recover, Backoff, ReadUsername,
       Requeue, Drain, Greeting, mainVars
  <2> QED
    BY <1>1, <1>3, <2>1, Silent
<1> QED
  BY <1>2, <1>3

LEMMA InitTalks ==
  ASSUME Init
  PROVE  TalkInv
<1>1. /\ pc = "select" /\ generation = 0 /\ observed = 0 /\ ~shutdown /\ main = "running"
      /\ session = NoSession
  BY DEF Init
<1>2. PICK u \in UserField, s \in SourceField, r \in BOOLEAN :
        LET form  == [auth |-> "Idle", pending |-> None, mode |-> "Username",
                      prev |-> "Username", user |-> u, source |-> s, remember |-> r]
            login == u # None /\ CanBegin(form)
        IN  /\ g = IF login THEN BeginAuthentication(form) ELSE form
            /\ queue = IF login THEN <<Request("Create", u, None, 0)>> ELSE <<>>
  BY DEF Init
<1>3. CASE u # None /\ s # None
  <2>1. /\ g.auth = "CreatingSession" /\ g.user = u
        /\ queue = <<Request("Create", u, None, 0)>>
    BY <1>2, <1>3 DEF CanBegin, BeginAuthentication, SetAuth
  <2>2. /\ Len(queue) = 1 /\ queue[1] = Request("Create", u, None, 0)
        /\ queue # <<>> /\ Head(queue) = Request("Create", u, None, 0)
    BY <2>1
  <2>3. Asks(Head(queue))
    BY <1>1, <2>1, <2>2 DEF Asks, Request
  <2>4. \A i \in 1..Len(queue) : queue[i].generation = 0
    BY <2>2 DEF Request
  <2>5. GenerationInv
    BY <1>1, <2>4 DEF GenerationInv
  <2> QED
    BY <1>1, <2>1, <2>2, <2>3, <2>5 DEF TalkInv, AwaitInv, IdleInv, PlaceInv, AskInv
<1>4. CASE ~(u # None /\ s # None)
  <2>1. g.auth = "Idle" /\ g.mode = "Username" /\ g.prev = "Username" /\ queue = <<>>
    BY <1>2, <1>4 DEF CanBegin
  <2> QED
    BY <1>1, <2>1 DEF TalkInv, GenerationInv, AwaitInv, IdleInv, PlaceInv, AskInv, Asking
<1> QED
  BY <1>3, <1>4

LEMMA StepTalks ==
  ASSUME ScreenInv, QueueInv, TalkInv, ~Hasty, [Next]_vars
  PROVE  TalkInv'
<1>1. TypeInv
  BY DEF ScreenInv, StartedInv
<1>2. CASE UNCHANGED vars
  <2>1. UNCHANGED <<g, queue, generation, actorVars, greetdVars, main, shutdown>>
    BY <1>2 DEF vars, mainVars
  <2>2. (AwaitInv /\ IdleInv) \/ shutdown
    BY DEF TalkInv
  <2> QED
    BY <1>1, <2>1, <2>2, StillTalks DEF AwaitInv, IdleInv
<1> QED
  BY <1>1, <1>2, KeyboardTalks, MainLoopTalks, ActorTalks, GreetdTalks DEF Next, Finished

LEMMA TalkInvariant == ~Hasty => (Spec => []TalkInv)
<1> SUFFICES ASSUME ~Hasty PROVE Spec => []TalkInv
  OBVIOUS
<1>1. Spec => [](ScreenInv /\ QueueInv)
  BY ScreenInvariant, QueueInvariant, PTL
<1>2. Init => TalkInv
  BY InitTalks
<1>3. ScreenInv /\ QueueInv /\ TalkInv /\ [Next]_vars => TalkInv'
  BY StepTalks
<1> QED
  BY <1>1, <1>2, <1>3, PTL DEF Spec

(* For every capacity and every number of users, sources, failures and     *)
(* cancellations: a prompt on the screen belongs to a conversation that is *)
(* open on the connection for the user on the screen (PromptIsForUser;     *)
(* parse_response_with, the generation check of Ipc::run).                 *)
THEOREM PromptsAreForTheirUser == ~Hasty => (Spec => []PromptIsForUser)
<1>1. TalkInv => PromptIsForUser
  BY DEF TalkInv, GenerationInv, AwaitInv, OpenForUser, PromptIsForUser
<1> QED
  BY <1>1, TalkInvariant, PTL

-----------------------------------------------------------------------------
(* The conversation implements the promise of Login: the refinement.       *)

(* A StartSession names what to launch. *)
Named(r) == r.kind = "Start" => r.source \in Sources
NamedInv ==
  /\ \A i \in 1..Len(queue) : Named(queue[i])
  /\ current # None => Named(current)
  /\ wire \notin {None, Cancel} => Named(wire)

(* A success ends the conversation with the user on the screen.            *)
ReadyForUser == session.phase = "ready" /\ session.user = g.user
ReadyInv ==
  Asking =>
    /\ ~shutdown /\ pc = "read" /\ reply = "Success" => ReadyForUser
    /\ pc = "parse" /\ response = "Success" => ReadyForUser

(* What is being started is what was captured: for the user of the session *)
(* that is ready, and by every StartSession on its way.                    *)
Captured(r) == r.kind = "Start" => r.source = g.pending.source
SnapshotInv ==
  g.auth = "StartingSession" =>
    /\ pc \in {"select", "received", "connect", "write"} \/ (pc = "read" /\ reply = None) =>
         session.phase = "ready" /\ session.user = g.pending.user
    /\ (pc = "read" /\ reply = "Success") \/ (pc = "parse" /\ response = "Success") =>
         session.user = g.pending.user /\ session.source = g.pending.source
    /\ \A i \in 1..Len(queue) : Captured(queue[i])
    /\ pc \in {"received", "connect", "write"} => Captured(current)
    /\ pc = "read" /\ wire \notin {None, Cancel} => Captured(wire)

(* One entry is written, that of the session that runs, and no success     *)
(* follows it.                                                             *)
EntryInv ==
  /\ update # None => pc = "persist"
  /\ pc = "persist" => cache = None /\ update \in {None, CacheEntry(session)}
  /\ cache # None => /\ session.phase = "started" /\ reply \in {None, "Error"}
                     /\ pc = "parse" => response = "Error"
  /\ main = "running" => exit = "none"

LoginInv == NamedInv /\ ReadyInv /\ SnapshotInv /\ EntryInv

(* What touches neither the actor nor greetd, and asks for nothing while   *)
(* a transaction runs, keeps the agreement between them.                   *)
LEMMA QuietLogs ==
  ASSUME LoginInv, UNCHANGED <<actorVars, greetdVars, cache>>, shutdown => shutdown',
         main' = "running" => main = "running" /\ exit' = exit,
         \A i \in 1..Len(queue') : Named(queue'[i]),
         Asking' => pc = "select" \/ (Asking /\ g'.user = g.user),
         g'.auth = "StartingSession" =>
           g.auth = "StartingSession" /\ g'.pending = g.pending /\ UNCHANGED queue
  PROVE  LoginInv'
<1>1. UNCHANGED <<pc, current, response, update, wire, reply, session, cache>>
  BY DEF actorVars, greetdVars
<1>2. NamedInv' /\ EntryInv'
  BY <1>1 DEF LoginInv, NamedInv, Named, EntryInv
<1>3. ReadyInv'
  BY <1>1 DEF LoginInv, ReadyInv, ReadyForUser
<1>4. SnapshotInv'
  BY <1>1 DEF LoginInv, SnapshotInv, Captured
<1> QED
  BY <1>2, <1>3, <1>4 DEF LoginInv

LEMMA KeyboardLogs ==
  ASSUME TypeInv, LoginInv, ~Hasty, Keyboard
  PROVE  LoginInv'
<1>1. /\ UNCHANGED <<actorVars, greetdVars, mainVars, cache>> /\ UNCHANGED <<main, exit, shutdown>>
      /\ g'.auth = "StartingSession" => g.auth = "StartingSession"
      /\ g \in GreeterRecord /\ \A i \in 1..Len(queue) : Named(queue[i])
  BY KeyboardAuth DEF mainVars, TypeInv, TypeOK, LoginInv, NamedInv
<1>2. ASSUME Typing, \A i \in 1..Len(queue') : Named(queue'[i])
      PROVE  LoginInv'
  BY <1>1, <1>2, QuietLogs DEF Typing, Settled, AcceptsInput
<1>3. ASSUME Typing, NEW kind \in {"Create", "Post"}, NEW user, Send(kind, user, None)
      PROVE  LoginInv'
  <2>1. queue = <<>> /\ pc # "stopped"
    BY <1>3 DEF Typing, Settled
  <2>2. \A i \in 1..Len(queue') : queue'[i] = Request(kind, user, None, generation)
    BY <1>3, <2>1, SendFirst
  <2> QED
    BY <1>2, <1>3, <2>2 DEF Named, Request
<1>4. CASE TypeUsername \/ OpenMenu \/ ChooseSource
  BY <1>1, <1>2, <1>4 DEF TypeUsername, OpenMenu, ChooseSource
<1>5. CASE SubmitPassword
  BY <1>3, <1>5 DEF SubmitPassword
<1>6. CASE SubmitUsername \/ ChooseUser
  <2>1. Typing /\ \E h : Validate(h)
    BY <1>6 DEF SubmitUsername, ChooseUser
  <2>2. UNCHANGED queue \/ \E user : Send("Create", user, None)
    BY <2>1 DEF Validate
  <2> QED
    BY <1>1, <1>2, <1>3, <2>1, <2>2
<1>7. CASE Escape
  <2>1. UNCHANGED queue
    BY <1>7 DEF Escape
  <2>2. CASE g' = ClosePopup(g)
    <3>1. g'.auth = g.auth /\ g'.user = g.user /\ g'.pending = g.pending
      BY <1>1, <2>2 DEF ClosePopup, GreeterRecord
    <3> QED
      BY <1>1, <2>1, <3>1, QuietLogs DEF Asking
  <2>3. CASE g'.auth \in {"Cancelling", "Idle"}
    BY <1>1, <2>1, <2>3, QuietLogs DEF Asking
  <2>4. g' = ClosePopup(g) \/ g'.auth \in {"Cancelling", "Idle"}
    <3>1. CanCancel(g.auth) /\ CancelLogin(g) => g'.auth = "Cancelling"
      BY <1>1, SetAuthType DEF CancelLogin, AuthStates
    <3>2. ResetLocal(g, FALSE).auth = "Idle"
      BY <1>1, ResetLocalType
    <3> QED
      BY <1>7, <3>1, <3>2 DEF Escape
  <2> QED
    BY <2>2, <2>3, <2>4
<1> QED
  BY <1>4, <1>5, <1>6, <1>7 DEF Keyboard

LEMMA MainLoopLogs ==
  ASSUME TypeInv, LoginInv, MainLoop
  PROVE  LoginInv'
<1>1. /\ UNCHANGED <<actorVars, greetdVars, cache, queue>> /\ (shutdown => shutdown')
      /\ g \in GreeterRecord /\ \A i \in 1..Len(queue') : Named(queue'[i])
  BY MainLoopAuth DEF TypeInv, TypeOK, LoginInv, NamedInv, Named
<1>2. main' = "running" => main = "running" /\ exit' = exit
  BY DEF MainLoop, Reload, TakeControl, Terminate, ActorEnded, StopActor, Leave, Exit, mainVars
<1>3. \/ g' = g \/ g'.auth = "Cancelling"
      \/ g'.auth = g.auth /\ g'.pending = g.pending /\ (g.auth # "Idle" => g'.user = g.user)
  <2>1. ASSUME NEW h \in GreeterRecord, CancelLogin(h) PROVE g' = h \/ g'.auth = "Cancelling"
    BY <2>1, SetAuthType DEF CancelLogin, AuthStates
  <2>2. CASE Reload
    <3>1. PICK h \in Reloaded(g) : CancelLogin(h) \/ g' = h
      BY <2>2 DEF Reload
    <3>2. /\ h \in GreeterRecord /\ h.auth = g.auth /\ h.pending = g.pending
          /\ (g.auth # "Idle" => h.user = g.user)
      BY <1>1, ReloadedType DEF Reloaded, Fillable
    <3> QED
      BY <2>1, <3>1, <3>2
  <2>3. CASE TakeControl \/ Terminate
    <3>1. CancelLogin(g) \/ g' = g
      BY <2>3 DEF TakeControl, Terminate, Exit
    <3> QED
      BY <1>1, <2>1, <3>1
  <2>4. CASE ActorEnded \/ StopActor \/ Leave
    BY <2>4 DEF ActorEnded, StopActor, Leave
  <2> QED
    BY <2>2, <2>3, <2>4 DEF MainLoop
<1> QED
  BY <1>1, <1>2, <1>3, QuietLogs DEF Asking

(* greetd starts what StartSession names, for the user of the session.     *)
LEMMA GreetdLogs ==
  ASSUME ScreenInv, TalkInv, LoginInv, Greetd
  PROVE  LoginInv'
<1>1. /\ UNCHANGED <<g, queue, generation, pc, current, response, update, cache, main, exit, shutdown>>
      /\ pc = "read" /\ wire # None /\ wire # Cancel /\ wire' = None /\ reply = None
      /\ NamedInv /\ ReadyInv /\ SnapshotInv /\ EntryInv /\ Named(wire)
  BY DEF Greetd, actorVars, mainVars, LoginInv, NamedInv
<1>2. /\ session.phase = "started" => reply' = "Error" /\ UNCHANGED session
      /\ reply' = "Success" =>
           \/ wire.kind = "Create" /\ session'.phase = "ready" /\ session'.user = wire.user
           \/ /\ wire.kind \in {"Post", "Ack"} /\ session.phase = "auth"
              /\ session'.phase = "ready" /\ session'.user = session.user
           \/ /\ wire.kind = "Start" /\ session.phase = "ready" /\ session'.phase = "started"
              /\ session'.user = session.user /\ session'.source = wire.source
      /\ reply' # None
  <2>1. CASE wire.kind = "Create" /\ session.phase = "none"
    BY <2>1, NoneAssumption DEF Greetd, Answer, Legal, Responses
  <2>2. CASE wire.kind \in {"Post", "Ack"} /\ session.phase = "auth"
    BY <2>2, NoneAssumption DEF Greetd, Answer, Legal, Responses
  <2>3. CASE wire.kind = "Start" /\ session.phase = "ready"
    BY <2>3, NoneAssumption DEF Greetd, Answer, Legal, Responses
  <2>4. CASE reply' = "Error" /\ UNCHANGED session
    BY <2>4, NoneAssumption DEF Responses
  <2> QED
    BY <2>1, <2>2, <2>3, <2>4 DEF Greetd
<1>3. NamedInv' /\ EntryInv'
  BY <1>1, <1>2 DEF NamedInv, Named, EntryInv
<1>4. ReadyInv'
  <2>1. CASE Asking /\ ~shutdown /\ reply' = "Success"
    <3>1. /\ wire.user = g.user /\ wire.kind \in {"Create", "Post", "Ack"}
          /\ wire.kind # "Create" => g.auth = "ContinuingAuth"
          /\ (g.auth = "ContinuingAuth" /\ session.phase = "auth" => session.user = g.user)
      BY <1>1, <2>1 DEF TalkInv, AskInv, Asks, Asking
    <3>2. ReadyForUser'
      BY <1>1, <1>2, <2>1, <3>1 DEF ReadyForUser
    <3> QED
      BY <1>1, <3>2 DEF ReadyInv
  <2>2. CASE ~(Asking /\ ~shutdown /\ reply' = "Success")
    BY <1>1, <2>2 DEF ReadyInv, Asking
  <2> QED
    BY <2>1, <2>2
<1>5. SnapshotInv'
  <2>1. SUFFICES ASSUME g.auth = "StartingSession" PROVE SnapshotInv'
    BY <1>1 DEF SnapshotInv
  <2>2. session.phase = "ready" /\ session.user = g.pending.user /\ Captured(wire)
    BY <1>1, <2>1 DEF SnapshotInv
  <2>3. reply' = "Success" => session'.user = g.pending.user /\ session'.source = g.pending.source
    BY <1>2, <2>2 DEF Captured, Greetd, Answer, Legal
  <2> QED
    BY <1>1, <1>2, <2>1, <2>2, <2>3 DEF SnapshotInv, Captured
<1> QED
  BY <1>3, <1>4, <1>5 DEF LoginInv

(* Where the actor leaves a transaction, or waits for the next one.        *)
LEMMA LeaveLogs ==
  ASSUME ScreenInv, LoginInv,
         \/ SelectShutdown \/ SelectCancel \/ WriteCancel \/ Close \/ FinishCancellation
         \/ ReportStarted \/ EnterFailed \/ Recover \/ Backoff \/ ReadUsername \/ Drain
  PROVE  LoginInv'
<1> USE DEF SelectShutdown, SelectCancel, WriteCancel, Close, FinishCancellation, ReportStarted,
            EnterFailed, EnterFailedUnless, Recover, Backoff, ReadUsername, Drain
<1>1. NamedInv /\ ReadyInv /\ SnapshotInv /\ EntryInv /\ StartInv /\ TypeOK /\ g \in GreeterRecord
  BY DEF LoginInv, ScreenInv, StartedInv, TypeInv, TypeOK
<1>2. /\ UNCHANGED <<update, cache, main, exit, shutdown>> /\ (queue' = queue \/ queue' = <<>>)
      /\ wire' \in {wire, None, Cancel} /\ reply' \in {reply, None}
  BY DEF Greeting, Reported, mainVars, greetdVars
<1>3. current' \in {current, None} \/ current' = Request("Create", g.user, None, generation)
  BY DEF Reported
<1>4. pc \notin {"persist", "parse"}
  BY DEF Goto
<1>5. pc' \notin {"persist", "parse", "received", "connect", "write", "read"}
  BY <1>1 DEF Goto, CancelStreamThen, TypeOK
<1>6. session.phase = "started" => session' = session
  BY DEF Greeting, Reported, greetdVars, Orphaned
<1>7. g'.auth = "StartingSession" => g' = g /\ pc' # "select"
  <2>1. CASE FinishCancellation
    BY <1>1, <2>1, ResetLocalType
  <2>2. CASE EnterFailed
    BY <1>1, <2>2, SetAuthType DEF AuthStates
  <2>3. CASE Recover
    <3>1. ResetLocal(g, TRUE) \in GreeterRecord
      BY <1>1, ResetLocalType
    <3> QED
      BY <2>3, <3>1, SetAuthType DEF AuthStates
  <2>4. CASE SelectShutdown \/ SelectCancel \/ WriteCancel \/ ReportStarted \/ Backoff
             \/ ReadUsername \/ Drain
    BY <1>1, <2>4 DEF Greeting, Reported, Goto, CancelStreamThen, StartInv
  <2>5. CASE Close
    BY <1>1, <2>5 DEF Greeting, StartInv
  <2> QED
    BY <2>1, <2>2, <2>3, <2>4, <2>5
<1>8. NamedInv'
  BY <1>1, <1>2, <1>3 DEF NamedInv, Named, Request
<1>9. ReadyInv' /\ SnapshotInv'
  BY <1>1, <1>2, <1>5, <1>7 DEF ReadyInv, SnapshotInv, Captured
<1>10. EntryInv'
  BY <1>1, <1>2, <1>4, <1>5, <1>6 DEF EntryInv
<1> QED
  BY <1>8, <1>9, <1>10 DEF LoginInv

(* Within a transaction the request and the answer are handed on.          *)
LEMMA TransactLogs ==
  ASSUME ScreenInv, QueueInv, LoginInv,
         SelectRequest \/ CheckGeneration \/ Connect \/ Write \/ Read
  PROVE  LoginInv'
<1>1. /\ NamedInv /\ ReadyInv /\ SnapshotInv /\ EntryInv /\ ReplyInv /\ TypeInv
      /\ UNCHANGED <<g, session, update, cache, main, exit, shutdown>>
  BY DEF LoginInv, ScreenInv, StartedInv, SelectRequest, CheckGeneration, Connect, Write, Read,
     ReadOr, Greeting, greetdVars, mainVars
<1>2. CASE SelectRequest
  <2>1. /\ pc = "select" /\ pc' = "received" /\ current' = Head(queue) /\ queue' = Tail(queue)
        /\ queue # <<>> /\ UNCHANGED <<wire, reply>>
    BY <1>2 DEF SelectRequest, Goto, greetdVars
  <2>2. Tail(queue) = <<>> /\ Len(queue) = 1 /\ Head(queue) = queue[1]
    BY <1>1, <2>1, TakeFirst
  <2>3. queue' = <<>> /\ Named(current') /\ (g.auth = "StartingSession" => Captured(current'))
    BY <1>1, <2>1, <2>2 DEF NamedInv, SnapshotInv
  <2>4. NamedInv'
    BY <1>1, <2>1, <2>3 DEF NamedInv, Named
  <2>5. SnapshotInv'
    BY <1>1, <2>1, <2>3 DEF SnapshotInv, Captured
  <2> QED
    BY <1>1, <2>1, <2>4, <2>5 DEF LoginInv, ReadyInv, EntryInv
<1>3. CASE CheckGeneration
  <2>1. /\ pc = "received" /\ UNCHANGED <<queue, wire, reply>>
        /\ \/ current' = None /\ pc' \in {"cancel", "close"}
           \/ current' = current /\ pc' \in {"write", "connect"}
    BY <1>3 DEF CheckGeneration, Goto, CancelStreamThen, Greeting, greetdVars
  <2> QED
    BY <1>1, <2>1 DEF LoginInv, NamedInv, Named, ReadyInv, Asking, SnapshotInv, Captured, EntryInv
<1>4. CASE Connect
  <2>1. /\ pc = "connect" /\ UNCHANGED <<queue, wire, reply, current>> /\ pc' \in {"close", "write"}
    BY <1>4 DEF Connect, Fail, Goto, CloseThen, Greeting, greetdVars
  <2> QED
    BY <1>1, <2>1 DEF LoginInv, NamedInv, Named, ReadyInv, Asking, SnapshotInv, Captured, EntryInv
<1>5. CASE Write
  <2>1. /\ pc = "write" /\ reply = None /\ UNCHANGED <<queue, reply, current>>
        /\ (pc' = "close" /\ UNCHANGED wire) \/ (pc' = "read" /\ wire' = current)
    BY <1>1, <1>5 DEF Write, Fail, Goto, CloseThen, Greeting, ReplyInv
  <2>2. reply # "Success"
    BY <2>1, NoneAssumption DEF Responses
  <2> QED
    BY <1>1, <2>1, <2>2 DEF LoginInv, NamedInv, Named, ReadyInv, Asking, SnapshotInv, Captured, EntryInv
<1>6. CASE Read
  <2>1. /\ pc = "read" /\ UNCHANGED <<queue, current, wire>>
        /\ \/ pc' \in {"close", "cancel"} /\ UNCHANGED <<reply, response>>
           \/ /\ pc' = "parse" /\ ~shutdown /\ reply # None /\ response' = reply /\ reply' = None
    BY <1>6 DEF Read, ReadOr, Interrupted, Fail, Goto, CloseThen, Greeting
  <2> QED
    BY <1>1, <2>1 DEF LoginInv, NamedInv, Named, ReadyInv, ReadyForUser, Asking, SnapshotInv, Captured, EntryInv
<1> QED
  BY <1>2, <1>3, <1>4, <1>5, <1>6

(* The responses: a success starts what the screen names, or acknowledges  *)
(* what was started.                                                       *)
LEMMA ResponseLogs ==
  ASSUME ScreenInv, QueueInv, LoginInv, Parse
  PROVE  LoginInv'
<1>1. /\ NamedInv /\ ReadyInv /\ SnapshotInv /\ EntryInv /\ ReplyInv /\ StartInv
      /\ UNCHANGED <<session, wire, reply, cache, main, exit, shutdown>>
      /\ pc = "parse" /\ queue = <<>> /\ update = None /\ g \in GreeterRecord
  BY DEF LoginInv, ScreenInv, StartedInv, TypeInv, TypeOK, Parse, ParsePrompt, ParseMessage,
     ParseAuthenticated, ParseStarted, ParseError, ParseUnexpected, Parsing, greetdVars, mainVars,
     QueueInv, EntryInv
<1>2. reply = None /\ reply # "Success"
  BY <1>1, NoneAssumption DEF ReplyInv, Responses
<1>3. ASSUME pc' \in {"select", "close"}, UNCHANGED update, current' \in {current, None},
             \A i \in 1..Len(queue') : Named(queue'[i]),
             g'.auth = "StartingSession" => SnapshotInv'
      PROVE  LoginInv'
  <2>1. NamedInv' /\ ReadyInv' /\ SnapshotInv' /\ EntryInv'
    BY <1>1, <1>3 DEF NamedInv, Named, ReadyInv, SnapshotInv, EntryInv
  <2> QED
    BY <2>1 DEF LoginInv
<1>4. ASSUME NEW kind, NEW source, Send(kind, g.user, source), source \in Sources \/ kind # "Start"
      PROVE  /\ \A i \in 1..Len(queue') : queue'[i] = Request(kind, g.user, source, generation)
             /\ \A i \in 1..Len(queue') : Named(queue'[i])
  BY <1>1, <1>4, SendFirst DEF Named, Request
<1>5. queue' = <<>> => \A i \in 1..Len(queue') : Named(queue'[i])
  OBVIOUS
<1>6. CASE ParsePrompt
  <2>1. /\ pc' = "select" /\ queue' = <<>> /\ UNCHANGED update /\ current' = None
        /\ g'.auth = "AwaitingInput"
    BY <1>1, <1>6 DEF ParsePrompt, Parsing, Handled, Goto, SetAuth, GreeterRecord
  <2> QED
    BY <1>3, <1>5, <2>1
<1>7. CASE ParseMessage
  <2>1. /\ pc' = "select" /\ Send("Ack", g.user, None) /\ UNCHANGED update /\ current' = None
        /\ g'.auth = "ContinuingAuth"
    BY <1>1, <1>7 DEF ParseMessage, Parsing, Handled, Goto, SetAuth, GreeterRecord
  <2> QED
    BY <1>3, <1>4, <2>1
<1>8. CASE ParseAuthenticated
  <2>1. pc' = "select" /\ UNCHANGED update /\ current' = None /\ Asking /\ response = "Success"
    BY <1>8 DEF ParseAuthenticated, Parsing, Handled, Goto, Asking
  <2>2. CASE g.source = None
    <3>1. queue' = <<>> /\ CancelLogin(g) /\ CanCancel(g.auth)
      BY <1>1, <1>8, <2>1, <2>2 DEF ParseAuthenticated, Asking, CanCancel
    <3>2. g'.auth = "Cancelling"
      BY <1>1, <3>1, SetAuthType DEF CancelLogin, AuthStates
    <3> QED
      BY <1>3, <1>5, <2>1, <3>1, <3>2
  <2>3. CASE g.source # None
    <3>1. g' = BeginStart(g) /\ Send("Start", g.user, g.source) /\ g.source \in Sources
      BY <1>1, <1>8, <2>3 DEF ParseAuthenticated, GreeterRecord, SourceField
    <3>2. g'.pending = [user |-> g.user, source |-> g.source, remember |-> g.remember]
      BY <1>1, <3>1 DEF BeginStart, GreeterRecord
    <3>3. /\ g'.pending.user = g.user /\ g'.pending.source = g.source
          /\ session.phase = "ready" /\ session.user = g.user
      BY <1>1, <2>1, <3>2 DEF ReadyInv, ReadyForUser
    <3>4. /\ \A i \in 1..Len(queue') : queue'[i] = Request("Start", g.user, g.source, generation)
          /\ \A i \in 1..Len(queue') : Named(queue'[i])
      BY <1>4, <3>1
    <3>5. \A i \in 1..Len(queue') : Captured(queue[i])'
      BY <3>3, <3>4 DEF Captured, Request
    <3>6. SnapshotInv'
      BY <1>1, <2>1, <3>3, <3>5 DEF SnapshotInv
    <3> QED
      BY <1>3, <2>1, <3>4, <3>6
  <2> QED
    BY <2>2, <2>3
<1>9. CASE ParseStarted
  <2>1. /\ pc' = "persist" /\ queue' = <<>> /\ current' = None /\ g'.auth = "Started"
        /\ update' \in {None, CacheEntry(g.pending)}
        /\ g.auth = "StartingSession" /\ response = "Success"
    BY <1>1, <1>9, SetAuthType DEF ParseStarted, Parsing, Acknowledge, Goto, AuthStates
  <2>2. CacheEntry(g.pending) = CacheEntry(session) /\ cache = None
    BY <1>1, <2>1 DEF SnapshotInv, EntryInv, CacheEntry
  <2>3. NamedInv' /\ ReadyInv' /\ SnapshotInv'
    BY <1>1, <2>1 DEF NamedInv, Named, ReadyInv, SnapshotInv, Asking
  <2>4. EntryInv'
    BY <1>1, <2>1, <2>2 DEF EntryInv
  <2> QED
    BY <2>3, <2>4 DEF LoginInv
<1>10. CASE ParseError
  <2>1. pc' = "close" /\ UNCHANGED update /\ current' = None
    BY <1>10 DEF ParseError, Parsing, Handled, CloseThen
  <2>2. CASE response = "AuthError"
    <3>1. g' = SetAuth(ResetLocal(g, TRUE), "CreatingSession") /\ Send("Create", g.user, None)
      BY <1>10, <2>2 DEF ParseError
    <3>2. g'.auth = "CreatingSession"
      <4>1. ResetLocal(g, TRUE) \in GreeterRecord
        BY <1>1, ResetLocalType
      <4> QED
        BY <3>1, <4>1, SetAuthType DEF AuthStates
    <3> QED
      BY <1>3, <1>4, <2>1, <3>1, <3>2
  <2>3. CASE response # "AuthError"
    <3>1. g'.auth = "Idle" /\ queue' = <<>>
      BY <1>1, <1>10, <2>3, ResetLocalType DEF ParseError
    <3> QED
      BY <1>3, <1>5, <2>1, <3>1
  <2> QED
    BY <2>2, <2>3
<1>11. CASE ParseUnexpected
  <2>1. /\ pc' = "close" /\ queue' = <<>> /\ UNCHANGED <<update, current, g>>
    BY <1>1, <1>11 DEF ParseUnexpected, Fail, CloseThen
  <2>2. SnapshotInv'
    BY <2>1 DEF SnapshotInv
  <2> QED
    BY <1>3, <1>5, <2>1, <2>2
<1> QED
  BY <1>6, <1>7, <1>8, <1>9, <1>10, <1>11 DEF Parse

LEMMA ActorLogs ==
  ASSUME ScreenInv, QueueInv, LoginInv, Actor
  PROVE  LoginInv'
<1>1. /\ NamedInv /\ ReadyInv /\ SnapshotInv /\ EntryInv /\ ReplyInv /\ StartInv /\ SuccessInv
  BY DEF LoginInv, ScreenInv, StartedInv
<1>2. CASE Persist
  <2>1. /\ pc = "persist" /\ pc' = "report" /\ update' = None
        /\ cache' = cache \/ (update # None /\ cache' = update)
        /\ UNCHANGED <<g, queue, session, wire, reply, current, main, exit, shutdown>>
    BY <1>2 DEF Persist, Goto, greetdVars, mainVars
  <2>2. session.phase = "started" /\ reply = None /\ g.auth = "Started"
    BY <1>1, <2>1 DEF SuccessInv, ReplyInv
  <2>3. NamedInv' /\ ReadyInv' /\ SnapshotInv' /\ EntryInv'
    BY <1>1, <2>1, <2>2 DEF NamedInv, Named, ReadyInv, SnapshotInv, EntryInv, Asking
  <2> QED
    BY <2>3 DEF LoginInv
<1>3. CASE Requeue
  <2>1. /\ pc = "requeue" /\ pc' = "select" /\ queue = <<>> /\ Send("Create", current.user, None)
        /\ current' = None
        /\ UNCHANGED <<g, session, wire, reply, update, cache, main, exit, shutdown>>
    BY <1>3 DEF Requeue, Goto, greetdVars, mainVars, QueueInv
  <2>2. \A i \in 1..Len(queue') : Named(queue'[i])
    <3>1. \A i \in 1..Len(queue') : queue'[i] = Request("Create", current.user, None, generation)
      BY <2>1, SendFirst
    <3> QED
      BY <3>1 DEF Named, Request
  <2>3. g.auth # "StartingSession"
    BY <1>1, <2>1 DEF StartInv
  <2>4. NamedInv' /\ ReadyInv' /\ SnapshotInv' /\ EntryInv'
    BY <1>1, <2>1, <2>2, <2>3 DEF NamedInv, Named, ReadyInv, SnapshotInv, EntryInv
  <2> QED
    BY <2>4 DEF LoginInv
<1> QED
  BY <1>2, <1>3, LeaveLogs, TransactLogs, ResponseLogs DEF Actor

LEMMA InitLogs ==
  ASSUME Init
  PROVE  LoginInv
<1>1. /\ pc = "select" /\ current = None /\ wire = None /\ update = None /\ cache = None
      /\ exit = "none"
  BY DEF Init
<1>2. g.auth # "StartingSession"
  BY DEF Init, BeginAuthentication, SetAuth
<1>3. \A i \in 1..Len(queue) : Named(queue[i])
  <2>1. queue = <<>> \/ \E u : queue = <<Request("Create", u, None, 0)>>
    BY DEF Init
  <2>2. CASE queue = <<>>
    BY <2>2
  <2>3. ASSUME NEW u, queue = <<Request("Create", u, None, 0)>>
        PROVE  \A i \in 1..Len(queue) : Named(queue[i])
    <3>1. Len(queue) = 1 /\ queue[1] = Request("Create", u, None, 0)
      BY <2>3
    <3> QED
      BY <3>1 DEF Named, Request
  <2> QED
    BY <2>1, <2>2, <2>3
<1>4. NamedInv /\ ReadyInv /\ SnapshotInv /\ EntryInv
  BY <1>1, <1>2, <1>3 DEF NamedInv, ReadyInv, SnapshotInv, EntryInv
<1> QED
  BY <1>4 DEF LoginInv

LEMMA StepLogs ==
  ASSUME ScreenInv, QueueInv, TalkInv, LoginInv, ~Hasty, [Next]_vars
  PROVE  LoginInv'
<1>1. TypeInv
  BY DEF ScreenInv, StartedInv
<1>2. CASE UNCHANGED vars
  <2>1. UNCHANGED <<g, queue, actorVars, greetdVars, cache, main, exit, shutdown>>
    BY <1>2 DEF vars, mainVars
  <2>2. \A i \in 1..Len(queue') : Named(queue'[i])
    BY <2>1 DEF LoginInv, NamedInv
  <2> QED
    BY <2>1, <2>2, QuietLogs DEF Asking
<1> QED
  BY <1>1, <1>2, KeyboardLogs, MainLoopLogs, ActorLogs, GreetdLogs DEF Next, Finished

(* No session, no entry and no exit at the start.                          *)
LEMMA InitPromises ==
  ASSUME Init
  PROVE  Promise!Init
BY DEF Init, NoSession, Promise!Init

(* A session opens once, and as StartSession asked.                        *)
LEMMA OpenPromises ==
  ASSUME ScreenInv, LoginInv, UNCHANGED <<cache, exit>>,
         \/ UNCHANGED session
         \/ session.phase # "started" /\ session'.phase # "started"
         \/ /\ session.phase # "started" /\ session'.phase = "started"
            /\ session'.user = session.user /\ session'.source \in Sources
  PROVE  [Promise!Next]_(Promise!loginVars)
<1>1. CASE UNCHANGED session
  BY <1>1 DEF Promise!loginVars
<1>2. CASE session.phase # "started" /\ session'.phase # "started"
  BY <1>2 DEF Promise!loginVars
<1>3. CASE /\ session.phase # "started" /\ session'.phase = "started"
           /\ session'.user = session.user /\ session'.source \in Sources
  <2>1. session.user \in UserField
    BY DEF ScreenInv, StartedInv, TypeInv, TypeOK, Sessions
  <2>2. Promise!Open
    BY <1>3, <2>1 DEF Promise!Open
  <2> QED
    BY <2>2 DEF Promise!Next
<1> QED
  BY <1>1, <1>2, <1>3

(* The greeter leaves once, with success only over an open session.        *)
LEMMA MainLoopPromises ==
  ASSUME ScreenInv, LoginInv, MainLoop
  PROVE  [Promise!Next]_(Promise!loginVars)
<1>1. UNCHANGED <<session, cache>>
  BY DEF MainLoop, Reload, TakeControl, Terminate, ActorEnded, StopActor, Leave, MainReady, greetdVars
<1>2. CASE UNCHANGED exit
  BY <1>1, <1>2 DEF Promise!loginVars
<1>3. CASE TakeControl \/ Terminate \/ ActorEnded
  <2>1. controls \in Seq({"Success", "Failure"}) /\ session \in Sessions
    BY DEF ScreenInv, StartedInv, TypeInv, TypeOK
  <2>2. main = "running" /\ exit = "none"
    BY <1>3 DEF TakeControl, Terminate, ActorEnded, MainReady, LoginInv, EntryInv
  <2>3. /\ exit' \in {"Success", "Failure", "Cancel", "Error"}
        /\ exit' = "Success" => session.phase = "started"
    <3>1. CASE TakeControl
      <4>1. exit' = Head(controls) /\ Head(controls) = controls[1] /\ 1 \in 1..Len(controls)
            /\ Head(controls) \in {"Success", "Failure"}
        BY <2>1, <3>1, HeadTailProperties, EmptySeq DEF TakeControl, Exit
      <4> QED
        BY <4>1 DEF ScreenInv, StartedInv, SuccessInv
    <3>2. CASE Terminate \/ ActorEnded
      BY <3>2 DEF Terminate, ActorEnded, Exit
    <3> QED
      BY <1>3, <3>1, <3>2
  <2>4. session.phase = "started" => [user |-> session.user, source |-> session.source] # None
    BY <2>1, NoneAssumption DEF Sessions
  <2>5. Promise!Leave(exit')
    BY <1>1, <2>2, <2>3, <2>4 DEF Promise!Leave
  <2> QED
    BY <2>3, <2>5 DEF Promise!Next
<1>4. CASE Reload \/ StopActor \/ Leave
  BY <1>2, <1>4 DEF Reload, StopActor, Leave, mainVars
<1> QED
  BY <1>3, <1>4 DEF MainLoop

LEMMA GreetdPromises ==
  ASSUME ScreenInv, LoginInv, Greetd
  PROVE  [Promise!Next]_(Promise!loginVars)
<1>1. UNCHANGED <<cache, exit>> /\ wire \notin {None, Cancel} /\ Named(wire)
  BY DEF Greetd, mainVars, LoginInv, NamedInv
<1>2. CASE wire.kind = "Start" /\ session.phase = "ready"
  BY <1>1, <1>2, OpenPromises DEF Greetd, Answer, Legal, Named
<1>3. CASE ~(wire.kind = "Start" /\ session.phase = "ready")
  BY <1>1, <1>3, OpenPromises DEF Greetd, Answer
<1> QED
  BY <1>2, <1>3

LEMMA ActorPromises ==
  ASSUME ScreenInv, LoginInv, Actor
  PROVE  [Promise!Next]_(Promise!loginVars)
<1>1. session \in Sessions
  BY DEF ScreenInv, StartedInv, TypeInv, TypeOK
<1>2. CASE Persist
  <2>1. UNCHANGED <<session, exit>> /\ (cache' = cache \/ (update # None /\ cache' = update))
    BY <1>2 DEF Persist, greetdVars, mainVars
  <2>2. session.phase = "started" /\ cache = None /\ update \in {None, CacheEntry(session)}
    BY <1>2 DEF Persist, ScreenInv, StartedInv, SuccessInv, LoginInv, EntryInv
  <2>3. CASE cache' = cache
    BY <2>1, <2>3 DEF Promise!loginVars
  <2>4. CASE cache' = CacheEntry(session)
    <3>1. [user |-> session.user, source |-> session.source] # None
      BY <1>1, NoneAssumption DEF Sessions
    <3>2. Promise!Entry([user |-> session.user, source |-> session.source]) = CacheEntry(session)
      BY DEF Promise!Entry, CacheEntry
    <3>3. Promise!Remember
      BY <2>1, <2>2, <2>4, <3>1, <3>2 DEF Promise!Remember
    <3> QED
      BY <3>3 DEF Promise!Next
  <2> QED
    BY <2>1, <2>2, <2>3, <2>4
<1>3. CASE Close
  <2>1. UNCHANGED <<cache, exit>> /\ session' \in {session} \cup Orphaned(session, wire)
    BY <1>3 DEF Close, Greeting, mainVars
  <2>2. CASE session.phase = "started" \/ session' = session
    BY <2>1, <2>2, OpenPromises DEF Orphaned
  <2>3. CASE session' = NoSession
    BY <2>1, <2>2, <2>3, OpenPromises DEF NoSession
  <2>4. CASE /\ session.phase = "ready" /\ wire # None /\ wire.kind = "Start"
             /\ session' = [session EXCEPT !.phase = "started", !.source = wire.source]
    <3>1. wire # Cancel
      BY <2>4 DEF Cancel
    <3>2. wire.source \in Sources
      BY <2>4, <3>1 DEF LoginInv, NamedInv, Named
    <3>3. session'.phase = "started" /\ session'.user = session.user /\ session'.source = wire.source
      BY <1>1, <2>4 DEF Sessions
    <3> QED
      BY <2>1, <2>4, <3>2, <3>3, OpenPromises
  <2> QED
    BY <2>1, <2>2, <2>3, <2>4 DEF Orphaned
<1>4. CASE ~Persist /\ ~Close
  <2>1. UNCHANGED <<session, cache, exit>>
    BY <1>4 DEF Actor, SelectShutdown, SelectCancel, SelectRequest, CheckGeneration, Connect, Write,
       Read, ReadOr, WriteCancel, FinishCancellation, Parse, ParsePrompt, ParseMessage,
       ParseAuthenticated, ParseStarted, ParseError, ParseUnexpected, Parsing, ReportStarted, Reported,
       EnterFailed, EnterFailedUnless, Recover, Backoff, ReadUsername, Requeue, Drain, Greeting,
       mainVars, greetdVars
  <2> QED
    BY <2>1, OpenPromises
<1> QED
  BY <1>2, <1>3, <1>4

LEMMA StepPromises ==
  ASSUME ScreenInv, LoginInv, [Next]_vars
  PROVE  [Promise!Next]_(Promise!loginVars)
<1>1. CASE Keyboard \/ Finished \/ UNCHANGED vars
  <2>1. UNCHANGED <<session, cache, exit>>
    BY <1>1, KeyboardAuth DEF ScreenInv, StartedInv, Finished, vars, mainVars, greetdVars
  <2> QED
    BY <2>1, OpenPromises
<1> QED
  BY <1>1, MainLoopPromises, GreetdPromises, ActorPromises DEF Next

(* For every number of users, sources, failures and cancellations: at most *)
(* one session is opened, only that one is remembered and as it was opened,*)
(* and success is reported only over it (ImplementsLogin;                  *)
(* PendingSession::capture, persist_cache, Control::Exit).                 *)
THEOREM ConversationKeepsPromise == ~Hasty => (Spec => ImplementsLogin)
<1> SUFFICES ASSUME ~Hasty PROVE Spec => ImplementsLogin
  OBVIOUS
<1>1. Spec => [](ScreenInv /\ QueueInv /\ TalkInv)
  BY ScreenInvariant, QueueInvariant, TalkInvariant, PTL
<1>2. Init => LoginInv
  BY InitLogs
<1>3. ScreenInv /\ QueueInv /\ TalkInv /\ LoginInv /\ [Next]_vars => LoginInv'
  BY StepLogs
<1>4. Init => Promise!Init
  BY InitPromises
<1>5. ScreenInv /\ LoginInv /\ [Next]_vars => [Promise!Next]_(Promise!loginVars)
  BY StepPromises
<1> QED
  BY <1>1, <1>2, <1>3, <1>4, <1>5, PTL DEF Spec, ImplementsLogin, Promise!Spec

-----------------------------------------------------------------------------
(* Every request reaches greetd in a phase that accepts it.                *)

(* StartSession and nothing else serves a screen that is starting, and an  *)
(* answer a screen that continues, until it is cancelled.  (CreateSession  *)
(* may be left over: a retry that is queued just after a cancellation.)    *)
Serves(r) ==
  /\ (r.kind = "Start") = (g.auth = "StartingSession")
  /\ r.kind = "Start" => r.generation = generation
  /\ ~shutdown /\ r.kind \in {"Post", "Ack"} /\ r.generation = generation =>
       g.auth = "ContinuingAuth"
QueueServes == \A i \in 1..Len(queue) : Serves(queue[i])
CarryInv ==
  /\ QueueServes
  /\ Carrying => Serves(current)
  /\ pc = "failed" \/ (pc = "close" /\ after = "failed") =>
       (current.kind = "Start") = (g.auth = "StartingSession")
  /\ g.auth = "Failed" => pc \in {"recover", "drain", "stopped"}

(* A request is on the wire while its answer is awaited, or the connection *)
(* is being given up.                                                      *)
WireInv ==
  /\ wire # None => pc \in {"read", "cancel", "close"}
  /\ pc = "read" /\ wire # None => wire = current /\ reply = None
  /\ wire # None /\ wire.kind = "Start" => g.auth = "StartingSession" /\ pc # "cancel"

(* A session runs only behind a screen that starts it or has, or when the  *)
(* actor has given up.                                                     *)
RunInv ==
  /\ session.phase = "started" =>
       \/ g.auth = "StartingSession" /\ pc \in {"read", "parse", "close", "failed"}
       \/ g.auth = "Started" /\ pc \in {"persist", "report", "select", "close"}
       \/ pc \in {"drain", "stopped"}
  /\ (pc = "read" /\ reply \in {"Error", "AuthError"})
       \/ (pc = "parse" /\ response \in {"Error", "AuthError"}) => session.phase # "started"
  /\ g.auth = "StartingSession" =>
       /\ pc \notin {"cancel", "finish"}
       /\ pc = "close" => after \in {"failed", "drain"}
  /\ g.auth = "Started" =>
       /\ pc \in {"persist", "report", "select", "close", "drain", "stopped"}
       /\ pc = "close" => after = "drain"
       /\ ~shutdown => observed = generation /\ queue = <<>>

(* The phase of the session behind each screen, before the next request.   *)
PhaseInv ==
  /\ ~stream => session.phase \in {"none", "started"}
  /\ pc \in {"failed", "recover", "backoff", "resend", "requeue", "finish"} =>
       session.phase \in {"none", "started"}
  /\ ~shutdown /\ g.auth \in {"Idle", "CreatingSession"}
       /\ pc \in {"select", "received", "connect", "write"} =>
       session.phase = "none"
  /\ ~shutdown /\ g.auth = "ContinuingAuth" =>
       /\ pc \notin {"connect", "finish"}
       /\ pc \in {"select", "received", "write"} => stream /\ session.phase = "auth"

LegalInv == CarryInv /\ WireInv /\ RunInv /\ PhaseInv

(* What leaves the screen as it is, or cancels, disturbs no request.       *)
LEMMA QuietLegal ==
  ASSUME ScreenInv, TalkInv, LegalInv, UNCHANGED <<queue, actorVars, greetdVars>>,
         shutdown => shutdown',
         \/ g'.auth = g.auth /\ generation' = generation
         \/ CanCancel(g.auth) /\ g'.auth = "Cancelling" /\ generation' = generation + 1
  PROVE  LegalInv'
<1>1. UNCHANGED <<pc, after, current, response, observed, stream, queue, wire, reply, session>>
  BY DEF actorVars, greetdVars
<1>2. CarryInv /\ WireInv /\ RunInv /\ PhaseInv /\ GenerationInv
  BY DEF LegalInv, TalkInv
<1>3. CASE g'.auth = g.auth /\ generation' = generation
  BY <1>1, <1>2, <1>3 DEF LegalInv, CarryInv, QueueServes, Carrying, Serves, WireInv, RunInv, PhaseInv
<1>4. CASE CanCancel(g.auth) /\ g'.auth = "Cancelling" /\ generation' = generation + 1
  <2>1. generation \in Nat /\ observed \in Nat /\ observed <= generation
    BY DEF ScreenInv, StartedInv, TypeInv, TypeOK, CancelInv
  <2>2. \A r : Serves(r) /\ r.generation # generation + 1 => Serves(r)'
    <3>1. g.auth # "StartingSession" /\ g'.auth # "StartingSession"
      BY <1>4 DEF CanCancel
    <3> QED
      BY <1>4, <2>1, <3>1 DEF Serves
  <2>3. Carrying => current.generation # generation + 1
    BY <1>2, <2>1 DEF Carrying, GenerationInv
  <2>4. \A i \in 1..Len(queue) : queue[i].generation # generation + 1
    BY <1>2, <2>1 DEF GenerationInv
  <2>5. CarryInv'
    BY <1>1, <1>2, <1>4, <2>2, <2>3, <2>4 DEF CarryInv, QueueServes, Carrying, CanCancel
  <2>6. WireInv' /\ RunInv' /\ PhaseInv'
    BY <1>1, <1>2, <1>4 DEF WireInv, RunInv, PhaseInv, CanCancel
  <2> QED
    BY <2>5, <2>6 DEF LegalInv
<1> QED
  BY <1>3, <1>4

(* A key that may type meets an actor at rest.                             *)
LEMMA TypingLegal ==
  ASSUME ScreenInv, TalkInv, LegalInv, Settled, main = "running",
         UNCHANGED <<generation, actorVars, greetdVars, mainVars>>,
         \/ g.auth = "Idle" /\ g'.auth \in {"Idle", "CreatingSession"}
         \/ g.auth = "AwaitingInput" /\ g'.auth \in {"AwaitingInput", "ContinuingAuth"},
         QueueServes'
  PROVE  LegalInv'
<1>1. /\ UNCHANGED <<pc, after, current, response, observed, stream, wire, reply, session, shutdown>>
      /\ pc = "select"
  BY DEF actorVars, greetdVars, mainVars, Settled
<1>2. WireInv /\ RunInv /\ PhaseInv /\ ~shutdown
  BY DEF LegalInv, TalkInv, GenerationInv
<1>3. g.auth = "AwaitingInput" => stream /\ session.phase = "auth"
  BY <1>2 DEF TalkInv, AwaitInv, OpenForUser
<1>4. CarryInv'
  BY <1>1 DEF CarryInv, Carrying
<1>5. WireInv' /\ RunInv' /\ PhaseInv'
  BY <1>1, <1>2, <1>3 DEF WireInv, RunInv, PhaseInv
<1> QED
  BY <1>4, <1>5 DEF LegalInv

LEMMA KeyboardLegal ==
  ASSUME ScreenInv, TalkInv, LegalInv, ~Hasty, Keyboard
  PROVE  LegalInv'
<1>1. /\ UNCHANGED <<actorVars, greetdVars, mainVars>> /\ main = "running" /\ UNCHANGED shutdown
      /\ g \in GreeterRecord /\ AwaitInv /\ IdleInv
  BY KeyboardAuth DEF mainVars, ScreenInv, StartedInv, TypeInv, TypeOK, TalkInv, GenerationInv, Keyboard,
     TypeUsername, SubmitUsername, SubmitPassword, OpenMenu, ChooseUser, ChooseSource, Escape, Typing,
     KeyboardReady
<1>2. ASSUME Typing, UNCHANGED <<queue, generation>>, g'.auth = g.auth
      PROVE  LegalInv'
  BY <1>1, <1>2, QuietLegal
<1>3. ASSUME Typing, UNCHANGED generation, NEW kind, NEW user, Send(kind, user, None),
             \/ g.auth = "Idle" /\ g'.auth = "CreatingSession" /\ kind = "Create"
             \/ g.auth = "AwaitingInput" /\ g'.auth = "ContinuingAuth" /\ kind = "Post"
      PROVE  LegalInv'
  <2>1. queue = <<>> /\ pc # "stopped" /\ Settled
    BY <1>3 DEF Typing, Settled
  <2>2. \A i \in 1..Len(queue') : queue'[i] = Request(kind, user, None, generation)
    BY <1>3, <2>1, SendFirst
  <2>3. QueueServes'
    BY <1>3, <2>2 DEF QueueServes, Serves, Request
  <2> QED
    BY <1>1, <1>3, <2>1, <2>3, TypingLegal
<1>4. CASE TypeUsername \/ OpenMenu \/ ChooseSource
  <2>1. Typing /\ UNCHANGED <<queue, generation>> /\ g'.auth = g.auth
    BY <1>1, <1>4 DEF TypeUsername, OpenMenu, ChooseSource, OpenPopup, ClosePopup, GreeterRecord
  <2> QED
    BY <1>2, <2>1
<1>5. CASE SubmitPassword
  <2>1. Typing /\ Send("Post", g.user, None) /\ UNCHANGED generation /\ g.auth = "AwaitingInput"
    BY <1>1, <1>5 DEF SubmitPassword, Typing, AcceptsInput, IdleInv
  <2>2. g'.auth = "ContinuingAuth"
    BY <1>1, <1>5, SetAuthType DEF SubmitPassword, AuthStates
  <2> QED
    BY <1>3, <2>1, <2>2
<1>6. ASSUME Typing, UNCHANGED generation, NEW h \in GreeterRecord, h.auth = g.auth, g.auth = "Idle",
             Validate(h)
      PROVE  LegalInv'
  <2>1. PICK s \in {h.source} \cup (IF h.remember THEN Sources ELSE {}) :
          LET r == [h EXCEPT !.source = s]
          IN  IF CanBegin(r)
              THEN g' = BeginAuthentication(r) /\ Send("Create", r.user, None)
              ELSE g' = r /\ UNCHANGED queue
    BY <1>6 DEF Validate
  <2> DEFINE r == [h EXCEPT !.source = s]
  <2>2. r \in GreeterRecord /\ r.auth = "Idle"
    BY <1>6 DEF GreeterRecord, SourceField
  <2>3. CASE CanBegin(r)
    <3>1. g'.auth = "CreatingSession" /\ Send("Create", r.user, None)
      BY <2>1, <2>2, <2>3, SetAuthType DEF BeginAuthentication, AuthStates
    <3> QED
      BY <1>3, <1>6, <3>1
  <2>4. CASE ~CanBegin(r)
    BY <1>2, <1>6, <2>1, <2>2, <2>4
  <2> QED
    BY <2>3, <2>4
<1>7. CASE SubmitUsername
  <2>1. Typing /\ UNCHANGED generation /\ Validate(g) /\ g.auth = "Idle"
    BY <1>1, <1>7 DEF SubmitUsername, Typing, AcceptsInput, AwaitInv
  <2> QED
    BY <1>1, <1>6, <2>1
<1>8. CASE ChooseUser
  <2>1. Typing /\ UNCHANGED generation /\ g.auth = "Idle"
    BY <1>1, <1>8 DEF ChooseUser, Typing, AcceptsInput, AwaitInv
  <2>2. PICK u \in Users : Validate([ClosePopup(g) EXCEPT !.user = u])
    BY <1>8 DEF ChooseUser
  <2>3. [ClosePopup(g) EXCEPT !.user = u] \in GreeterRecord /\ [ClosePopup(g) EXCEPT !.user = u].auth = g.auth
    BY <1>1 DEF ClosePopup, GreeterRecord, UserField
  <2> QED
    BY <1>6, <2>1, <2>2, <2>3
<1>9. CASE Escape
  <2>1. UNCHANGED queue
    BY <1>9 DEF Escape
  <2>2. CanCancel(g.auth) /\ CancelLogin(g) => g'.auth = "Cancelling" /\ generation' = generation + 1
    BY <1>1, SetAuthType DEF CancelLogin, AuthStates
  <2>3. ResetLocal(g, FALSE).auth = "Idle" /\ ClosePopup(g).auth = g.auth
    BY <1>1, ResetLocalType, ClosePopupType
  <2>4. \/ g'.auth = g.auth /\ generation' = generation
        \/ CanCancel(g.auth) /\ g'.auth = "Cancelling" /\ generation' = generation + 1
    BY <1>9, <2>2, <2>3 DEF Escape
  <2> QED
    BY <1>1, <2>1, <2>4, QuietLegal
<1> QED
  BY <1>4, <1>5, <1>7, <1>8, <1>9 DEF Keyboard

LEMMA MainLoopLegal ==
  ASSUME ScreenInv, TalkInv, LegalInv, MainLoop
  PROVE  LegalInv'
<1>1. TypeInv
  BY DEF ScreenInv, StartedInv
<1> QED
  BY <1>1, MainLoopAuth, QuietLegal

(* greetd starts a session only for a StartSession on the wire.            *)
LEMMA GreetdLegal ==
  ASSUME ScreenInv, TalkInv, LoginInv, LegalInv, Greetd
  PROVE  LegalInv'
<1>1. /\ UNCHANGED <<g, queue, generation, pc, after, current, response, observed, stream, shutdown>>
      /\ pc = "read" /\ wire # None /\ wire' = None /\ stream /\ reply = None
      /\ CarryInv /\ WireInv /\ RunInv /\ PhaseInv
  BY DEF Greetd, actorVars, mainVars, LegalInv, TalkInv, GenerationInv
<1>2. session.phase # "started"
  BY <1>1 DEF RunInv, LoginInv, SnapshotInv
<1>3. /\ session'.phase = "started" => wire.kind = "Start" /\ reply' = "Success"
      /\ reply' # None
  <2>1. CASE wire.kind = "Create" /\ session.phase = "none"
    BY <2>1, NoneAssumption DEF Greetd, Answer, Legal, Responses
  <2>2. CASE wire.kind \in {"Post", "Ack"} /\ session.phase = "auth"
    BY <2>2, NoneAssumption DEF Greetd, Answer, Legal, Responses
  <2>3. CASE wire.kind = "Start" /\ session.phase = "ready"
    BY <2>3, NoneAssumption DEF Greetd, Answer, Legal, Responses
  <2>4. CASE reply' = "Error" /\ UNCHANGED session
    BY <1>2, <2>4, NoneAssumption DEF Responses
  <2> QED
    BY <2>1, <2>2, <2>3, <2>4 DEF Greetd
<1>4. CarryInv'
  BY <1>1 DEF CarryInv, QueueServes, Carrying, Serves
<1>5. WireInv' /\ RunInv'
  BY <1>1, <1>2, <1>3 DEF WireInv, RunInv
<1>6. PhaseInv'
  BY <1>1 DEF PhaseInv
<1> QED
  BY <1>4, <1>5, <1>6 DEF LegalInv

(* What serves a screen serves it while nothing changes.                   *)
LEMMA SameServes ==
  ASSUME g'.auth = g.auth, generation' = generation, shutdown' = shutdown
  PROVE  /\ \A r : Serves(r)' <=> Serves(r)
         /\ QueueServes /\ queue' = queue => QueueServes'
BY DEF Serves, QueueServes

LEMMA EmptyServes == ASSUME queue' = <<>> PROVE QueueServes'
BY DEF QueueServes

(* The request that is queued for the new screen serves it.                *)
LEMMA SendServes ==
  ASSUME queue = <<>>, pc # "stopped", NEW kind, NEW user, NEW source, Send(kind, user, source),
         generation' = generation, (kind = "Start") = (g'.auth = "StartingSession"),
         ~shutdown' /\ kind \in {"Post", "Ack"} => g'.auth = "ContinuingAuth"
  PROVE  QueueServes'
<1>1. \A i \in 1..Len(queue') : queue'[i] = Request(kind, user, source, generation)
  BY SendFirst
<1> QED
  BY <1>1 DEF QueueServes, Serves, Request

(* The actor at its select, and at the generation check behind it.         *)
LEMMA SelectLegal ==
  ASSUME ScreenInv, QueueInv, TalkInv, LegalInv,
         SelectShutdown \/ SelectCancel \/ SelectRequest \/ CheckGeneration
  PROVE  LegalInv'
<1>1. /\ CarryInv /\ WireInv /\ RunInv /\ PhaseInv /\ TypeInv
      /\ UNCHANGED <<g, generation, shutdown, wire, reply, session, stream, response>>
      /\ pc \in {"select", "received"}
  BY DEF LegalInv, ScreenInv, StartedInv, SelectShutdown, SelectCancel, SelectRequest,
     CheckGeneration, Greeting, greetdVars, mainVars
<1>2. (\A r : Serves(r)' <=> Serves(r)) /\ (queue' = queue => QueueServes') /\ wire = None
  BY <1>1, SameServes DEF CarryInv, WireInv
<1>3. ~shutdown /\ g.auth = "StartingSession" => observed = generation
  BY DEF TalkInv, PlaceInv
<1>4. CASE SelectShutdown
  <2>1. /\ pc = "select" /\ shutdown /\ after' = "drain" /\ UNCHANGED <<queue, current, observed>>
        /\ pc' = "close" \/ (pc' = "cancel" /\ IsLivePrestart(g.auth))
    BY <1>4 DEF SelectShutdown, CancelStreamThen, Greeting
  <2> QED
    BY <1>1, <1>2, <2>1 DEF LegalInv, CarryInv, Carrying, WireInv, RunInv, PhaseInv,
       IsLivePrestart, CanCancel
<1>5. CASE SelectCancel
  <2>1. /\ pc = "select" /\ ~shutdown /\ after' = "finish" /\ UNCHANGED <<queue, current>>
        /\ observed # generation /\ pc' \in {"close", "cancel"}
    BY <1>5 DEF SelectCancel, CancelStreamThen, Greeting, Cancelled
  <2>2. g.auth \notin {"StartingSession", "Started"} /\ session.phase # "started"
    BY <1>1, <1>3, <2>1 DEF RunInv
  <2> QED
    BY <1>1, <1>2, <2>1, <2>2 DEF LegalInv, CarryInv, Carrying, WireInv, RunInv, PhaseInv
<1>6. CASE SelectRequest
  <2>1. /\ pc = "select" /\ ~shutdown /\ pc' = "received" /\ queue # <<>> /\ UNCHANGED observed
        /\ current' = Head(queue) /\ queue' = Tail(queue)
    BY <1>6 DEF SelectRequest, Goto
  <2>2. queue' = <<>> /\ Serves(current')
    <3>1. Tail(queue) = <<>> /\ Len(queue) = 1 /\ Head(queue) = queue[1]
      BY <1>1, <2>1, TakeFirst
    <3> QED
      BY <1>1, <2>1, <3>1 DEF CarryInv, QueueServes
  <2>3. Serves(current)' /\ QueueServes'
    BY <1>1, <2>2, EmptyServes DEF Serves
  <2>4. g.auth # "Started" /\ session.phase # "started"
    BY <1>1, <2>1 DEF RunInv
  <2> QED
    BY <1>1, <1>2, <2>1, <2>3, <2>4 DEF LegalInv, CarryInv, Carrying, WireInv, RunInv, PhaseInv
<1>7. CASE CheckGeneration
  <2>1. /\ pc = "received" /\ UNCHANGED queue /\ Serves(current)
        /\ g.auth \notin {"Started", "Failed"} /\ session.phase # "started"
    BY <1>1, <1>7 DEF CheckGeneration, Greeting, CarryInv, Carrying, RunInv
  <2>2. CASE current.generation # generation
    <3>1. pc' \in {"close", "cancel"} /\ after' = "finish" /\ g.auth # "StartingSession"
      BY <1>7, <2>1, <2>2 DEF CheckGeneration, CancelStreamThen, Cancelled, Serves
    <3> QED
      BY <1>1, <1>2, <2>1, <3>1 DEF LegalInv, CarryInv, Carrying, WireInv, RunInv, PhaseInv
  <2>3. CASE current.generation = generation
    <3>1. /\ pc' = (IF stream THEN "write" ELSE "connect") /\ UNCHANGED <<current, observed>>
      BY <1>7, <2>3 DEF CheckGeneration, Goto, Cancelled
    <3>2. Serves(current)'
      BY <1>1, <2>1, <3>1 DEF Serves
    <3> QED
      BY <1>1, <1>2, <2>1, <3>1, <3>2 DEF LegalInv, CarryInv, Carrying, WireInv, RunInv, PhaseInv
  <2> QED
    BY <2>2, <2>3
<1> QED
  BY <1>4, <1>5, <1>6, <1>7

(* The actor on its way to greetd and back.                                *)
LEMMA TransactLegal ==
  ASSUME ScreenInv, QueueInv, TalkInv, LegalInv, Connect \/ Write \/ Read
  PROVE  LegalInv'
<1>1. /\ CarryInv /\ WireInv /\ RunInv /\ PhaseInv /\ ReplyInv
      /\ UNCHANGED <<g, queue, generation, shutdown, session, current, observed>>
      /\ pc \in {"connect", "write", "read"}
  BY DEF LegalInv, ScreenInv, StartedInv, Connect, Write, Read, ReadOr, Greeting, greetdVars, mainVars
<1>2. /\ QueueServes' /\ Serves(current) /\ Serves(current)'
      /\ g.auth \notin {"Started", "Failed"}
      /\ session.phase = "started" => g.auth = "StartingSession" /\ pc = "read"
      /\ pc # "read" => wire = None /\ reply = None
  BY <1>1, SameServes DEF CarryInv, Carrying, Serves, WireInv, RunInv, ReplyInv
<1>3. ASSUME NEW label \in {"drain", "cancelled"}, Interrupt(label)
      PROVE  g.auth = "StartingSession" => label = "drain" /\ current.kind = "Start"
  BY <1>2, <1>3 DEF Interrupt, Cancelled, Serves
<1>4. ASSUME Fail, UNCHANGED <<wire, reply>>
      PROVE  LegalInv'
  <2>1. /\ pc' = "close" /\ after' = "failed"
        /\ (current.kind = "Start") = (g.auth = "StartingSession")
        /\ wire # None /\ wire.kind = "Start" => g.auth = "StartingSession"
    BY <1>1, <1>2, <1>4 DEF Fail, CloseThen, Serves, WireInv
  <2>2. stream' = stream
    BY <1>4, <2>1 DEF Connect, Write, Read, ReadOr, Goto
  <2> QED
    BY <1>1, <1>2, <1>4, <2>1, <2>2 DEF LegalInv, CarryInv, Carrying, WireInv, RunInv, PhaseInv
<1>5. CASE Connect
  <2>1. UNCHANGED <<wire, reply>> /\ pc = "connect"
    BY <1>5 DEF Connect, greetdVars
  <2>2. ASSUME NEW label \in {"drain", "cancelled"}, Interrupt(label), CloseThen(label), UNCHANGED stream
        PROVE  LegalInv'
    BY <1>1, <1>2, <1>3, <2>1, <2>2 DEF CloseThen, LegalInv, CarryInv, Carrying, WireInv, RunInv, PhaseInv
  <2>3. CASE ~shutdown /\ stream' = TRUE /\ Goto("write")
    BY <1>1, <1>2, <2>1, <2>3 DEF Goto, LegalInv, CarryInv, Carrying, WireInv, RunInv, PhaseInv
  <2> QED
    BY <1>4, <1>5, <2>1, <2>2, <2>3 DEF Connect, Interrupted
<1>6. CASE Write
  <2>1. UNCHANGED <<reply, stream>> /\ pc = "write"
    BY <1>6 DEF Write
  <2>2. ASSUME NEW label \in {"drain", "cancelled"}, Interrupt(label), CloseThen(label), UNCHANGED wire
        PROVE  LegalInv'
    BY <1>1, <1>2, <1>3, <2>1, <2>2 DEF CloseThen, LegalInv, CarryInv, Carrying, WireInv, RunInv, PhaseInv
  <2>3. CASE wire' = current /\ Goto("read")
    <3>1. reply' \notin {"Error", "AuthError"}
      BY <1>2, <2>1, NoneAssumption DEF Responses
    <3>2. current.kind = "Start" => g.auth = "StartingSession"
      BY <1>2 DEF Serves
    <3> QED
      BY <1>1, <1>2, <2>1, <2>3, <3>1, <3>2 DEF Goto, LegalInv, CarryInv, Carrying, WireInv, RunInv, PhaseInv
  <2> QED
    BY <1>4, <1>6, <2>1, <2>2, <2>3 DEF Write
<1>7. CASE Read
  <2>1. UNCHANGED <<wire, stream>> /\ pc = "read"
    BY <1>7 DEF Read, ReadOr
  <2>2. ASSUME NEW label \in {"drain", "cancelled"}, Interrupt(label), after' = label,
               pc' = (IF current.kind = "Start" THEN "close" ELSE "cancel"),
               UNCHANGED <<reply, response>>
        PROVE  LegalInv'
    <3>1. wire # None => wire = current
      BY <1>1, <2>1 DEF WireInv
    <3>2. (current.kind = "Start") = (g.auth = "StartingSession")
      BY <1>2 DEF Serves
    <3> QED
      BY <1>1, <1>2, <1>3, <2>1, <2>2, <3>1, <3>2 DEF LegalInv, CarryInv, Carrying, WireInv,
         RunInv, PhaseInv
  <2>3. CASE reply # None /\ response' = reply /\ reply' = None /\ Goto("parse")
    <3>1. wire = None
      BY <1>1, <2>1, <2>3 DEF WireInv
    <3> QED
      BY <1>1, <1>2, <2>1, <2>3, <3>1 DEF Goto, LegalInv, CarryInv, Carrying, WireInv, RunInv, PhaseInv
  <2> QED
    BY <1>4, <1>7, <2>1, <2>2, <2>3 DEF Read, ReadOr
<1> QED
  BY <1>5, <1>6, <1>7

(* The actor where a stream is given up, and what it does next.            *)
LEMMA LeaveLegal ==
  ASSUME ScreenInv, QueueInv, TalkInv, LegalInv,
         \/ WriteCancel \/ Close \/ Persist \/ ReportStarted \/ Backoff \/ ReadUsername
         \/ Requeue \/ Drain
  PROVE  LegalInv'
<1>1. /\ CarryInv /\ WireInv /\ RunInv /\ PhaseInv /\ StartInv /\ SuccessInv /\ GenerationInv
      /\ UNCHANGED <<g, generation, shutdown, response>>
  BY DEF LegalInv, ScreenInv, StartedInv, TalkInv, Greeting, Reported, mainVars, WriteCancel, Close,
     Persist, ReportStarted, Backoff, ReadUsername, Requeue, Drain
<1>2. /\ \A r : Serves(r)' <=> Serves(r)
      /\ queue' = queue => QueueServes'
  BY <1>1, SameServes DEF CarryInv
<1>3. ~shutdown => PlaceInv
  BY DEF TalkInv
<1>4. CASE WriteCancel
  <2>1. /\ pc = "cancel" /\ pc' = "close" /\ after # "failed" /\ wire' \in {wire, Cancel}
        /\ UNCHANGED <<queue, after, session, stream, observed>>
    BY <1>1, <1>4 DEF WriteCancel, Goto, Greeting, GenerationInv
  <2>2. session.phase # "started" /\ g.auth \notin {"StartingSession", "Started"}
    BY <1>1, <2>1 DEF RunInv
  <2>3. wire' # None => wire'.kind # "Start"
    BY <1>1, <2>1 DEF WireInv, Cancel
  <2>8. CarryInv' /\ WireInv'
    BY <1>1, <1>2, <2>1, <2>2, <2>3 DEF CarryInv, Carrying, WireInv
  <2>9. RunInv' /\ PhaseInv'
    BY <1>1, <1>2, <2>1, <2>2, <2>3 DEF RunInv, PhaseInv
  <2> QED
    BY <2>8, <2>9 DEF LegalInv
<1>5. CASE Close
  <2>1. /\ pc = "close" /\ stream' = FALSE /\ wire' = None /\ reply' = None
        /\ pc' = (IF after = "cancelled" THEN "finish" ELSE after)
        /\ after \in {"select", "finish", "cancelled", "failed", "drain"}
        /\ after # "cancelled" => observed' = observed
        /\ after = "failed" => current' = current
        /\ UNCHANGED <<queue, after>>
    BY <1>5 DEF Close, Greeting, ScreenInv, StartedInv, TypeInv, TypeOK
  <2>2. /\ session'.phase \in {"none", "started"}
        /\ session'.phase = "started" => session.phase = "started" \/ g.auth = "StartingSession"
    <3>1. session \in Sessions
      BY DEF ScreenInv, StartedInv, TypeInv, TypeOK
    <3>2. CASE stream
      <4>1. session' \in Orphaned(session, wire)
        BY <1>5, <3>2 DEF Close
      <4>2. CASE session' = session /\ session.phase = "started"
        BY <4>2
      <4>3. CASE session' = NoSession
        BY <4>3 DEF NoSession
      <4>4. CASE wire # None /\ wire.kind = "Start"
                 /\ session' = [session EXCEPT !.phase = "started", !.source = wire.source]
        <5>1. session'.phase = "started"
          BY <3>1, <4>4 DEF Sessions
        <5>2. g.auth = "StartingSession"
          BY <1>1, <4>4 DEF WireInv
        <5> QED
          BY <5>1, <5>2
      <4> QED
        BY <4>1, <4>2, <4>3, <4>4 DEF Orphaned
    <3>3. CASE ~stream
      BY <1>1, <1>5, <3>3 DEF Close, PhaseInv
    <3> QED
      BY <3>2, <3>3
  <2>3. /\ session.phase = "started" => g.auth \in {"StartingSession", "Started"}
        /\ g.auth = "StartingSession" => after \in {"failed", "drain"}
        /\ g.auth = "Started" => after = "drain"
    BY <1>1, <2>1 DEF RunInv
  <2>4. ~shutdown /\ g.auth = "ContinuingAuth" => after = "failed"
    BY <1>3, <2>1 DEF PlaceInv, Asking
  <2>5. CarryInv' /\ WireInv'
    BY <1>1, <1>2, <2>1 DEF CarryInv, Carrying, WireInv
  <2>6. RunInv'
    BY <1>1, <2>1, <2>2, <2>3 DEF RunInv
  <2>7. PhaseInv'
    BY <1>1, <2>1, <2>2, <2>3, <2>4 DEF PhaseInv
  <2> QED
    BY <2>5, <2>6, <2>7 DEF LegalInv
<1>6. CASE Persist \/ ReportStarted
  <2>1. /\ pc \in {"persist", "report"} /\ pc' = (IF pc = "persist" THEN "report" ELSE "select")
        /\ UNCHANGED <<queue, session, stream, wire, reply, observed>>
    BY <1>6 DEF Persist, ReportStarted, Goto, Reported, greetdVars
  <2>2. g.auth = "Started"
    BY <1>1, <2>1 DEF SuccessInv
  <2>8. CarryInv' /\ WireInv'
    BY <1>1, <1>2, <2>1, <2>2 DEF CarryInv, Carrying, WireInv
  <2>9. RunInv' /\ PhaseInv'
    BY <1>1, <1>2, <2>1, <2>2 DEF RunInv, PhaseInv
  <2> QED
    BY <2>8, <2>9 DEF LegalInv
<1>7. CASE Backoff \/ ReadUsername
  <2>1. /\ pc \in {"backoff", "resend"} /\ pc' \in {"drain", "finish", "resend", "requeue"}
        /\ UNCHANGED <<queue, session, stream, wire, reply, observed>>
    BY <1>7 DEF Backoff, ReadUsername, Goto, Greeting, greetdVars
  <2>2. /\ g.auth \notin {"StartingSession", "Started"} /\ session.phase # "started"
        /\ ~shutdown => g.auth # "ContinuingAuth"
    BY <1>1, <1>3, <2>1 DEF RunInv, StartInv, PlaceInv, Asking
  <2>8. CarryInv' /\ WireInv'
    BY <1>1, <1>2, <2>1, <2>2 DEF CarryInv, Carrying, WireInv
  <2>9. RunInv' /\ PhaseInv'
    BY <1>1, <1>2, <2>1, <2>2 DEF RunInv, PhaseInv
  <2> QED
    BY <2>8, <2>9 DEF LegalInv
<1>8. CASE Requeue
  <2>1. /\ pc = "requeue" /\ pc' = "select" /\ queue = <<>> /\ Send("Create", current.user, None)
        /\ UNCHANGED <<session, stream, wire, reply, observed>>
    BY <1>8 DEF Requeue, Goto, greetdVars, QueueInv
  <2>2. /\ g.auth \notin {"StartingSession", "Started"} /\ session.phase = "none"
        /\ ~shutdown => g.auth # "ContinuingAuth"
    BY <1>1, <1>3, <2>1 DEF RunInv, PhaseInv, StartInv, PlaceInv, Asking
  <2>3. QueueServes'
    BY <1>1, <2>1, <2>2, SendServes
  <2>8. CarryInv' /\ WireInv'
    BY <1>1, <2>1, <2>2, <2>3 DEF CarryInv, Carrying, WireInv
  <2>9. RunInv' /\ PhaseInv'
    BY <1>1, <2>1, <2>2, <2>3 DEF RunInv, PhaseInv
  <2> QED
    BY <2>8, <2>9 DEF LegalInv
<1>9. CASE Drain
  <2>1. /\ pc = "drain" /\ pc' = "stopped" /\ queue' = <<>>
        /\ UNCHANGED <<session, stream, wire, reply, observed>>
    BY <1>9 DEF Drain, Goto, greetdVars
  <2>2. QueueServes'
    BY <2>1, EmptyServes
  <2>8. CarryInv' /\ WireInv'
    BY <1>1, <2>1, <2>2 DEF CarryInv, Carrying, WireInv
  <2>9. RunInv' /\ PhaseInv'
    BY <1>1, <2>1, <2>2 DEF RunInv, PhaseInv
  <2> QED
    BY <2>8, <2>9 DEF LegalInv
<1> QED
  BY <1>4, <1>5, <1>6, <1>7, <1>8, <1>9

(* The actor where it resets the screen, fails it, or tries again.         *)
LEMMA ScreenLegal ==
  ASSUME ScreenInv, QueueInv, TalkInv, LegalInv, FinishCancellation \/ EnterFailed \/ Recover
  PROVE  LegalInv'
<1>1. /\ CarryInv /\ WireInv /\ RunInv /\ PhaseInv /\ g \in GreeterRecord
      /\ UNCHANGED <<queue, generation, shutdown, session, stream, wire, reply, response, current>>
      /\ pc \in {"finish", "failed", "recover"}
  BY DEF LegalInv, ScreenInv, StartedInv, TypeInv, TypeOK, FinishCancellation, EnterFailed,
     EnterFailedUnless, Recover, mainVars, greetdVars
<1>2. CASE FinishCancellation
  <2>1. pc = "finish" /\ pc' = "select" /\ g'.auth = "Idle"
    BY <1>1, <1>2, ResetLocalType DEF FinishCancellation, Goto
  <2>2. /\ g.auth # "StartingSession" /\ session.phase = "none"
        /\ ~shutdown => g.auth # "ContinuingAuth"
    BY <1>1, <2>1 DEF RunInv, PhaseInv
  <2>3. QueueServes'
    BY <1>1, <2>1, <2>2 DEF CarryInv, QueueServes, Serves
  <2> QED
    BY <1>1, <2>1, <2>2, <2>3 DEF LegalInv, CarryInv, Carrying, WireInv, RunInv, PhaseInv
<1>3. CASE EnterFailed
  <2>1. /\ pc = "failed" /\ g'.auth = "Failed" /\ pc' \in {"drain", "recover"}
        /\ current.kind = "Start" => pc' = "drain"
    BY <1>1, <1>3, SetAuthType DEF EnterFailed, EnterFailedUnless, Goto, AuthStates
  <2>2. session.phase = "started" => current.kind = "Start"
    BY <1>1, <2>1 DEF RunInv, CarryInv
  <2>3. QueueServes'
    BY <1>1, <2>1, EmptyServes DEF QueueInv
  <2> QED
    BY <1>1, <2>1, <2>2, <2>3 DEF LegalInv, CarryInv, Carrying, WireInv, RunInv, PhaseInv
<1>4. CASE Recover
  <2>1. pc = "recover" /\ pc' = "backoff" /\ g'.auth = "CreatingSession"
    <3>1. ResetLocal(g, TRUE) \in GreeterRecord
      BY <1>1, ResetLocalType
    <3> QED
      BY <1>4, <3>1, SetAuthType DEF Recover, Goto, AuthStates
  <2>2. session.phase = "none"
    BY <1>1, <2>1 DEF RunInv, PhaseInv
  <2>3. QueueServes'
    BY <1>1, <2>1, EmptyServes DEF QueueInv
  <2> QED
    BY <1>1, <2>1, <2>2, <2>3 DEF LegalInv, CarryInv, Carrying, WireInv, RunInv, PhaseInv
<1> QED
  BY <1>2, <1>3, <1>4

(* What a response puts on the screen is served by what it queues.         *)
LEMMA ResponseLegal ==
  ASSUME ScreenInv, QueueInv, TalkInv, LegalInv, Parse
  PROVE  LegalInv'
<1>1. /\ CarryInv /\ WireInv /\ RunInv /\ PhaseInv /\ g \in GreeterRecord
      /\ pc = "parse" /\ queue = <<>> /\ wire = None /\ stream /\ Serves(current)
      /\ UNCHANGED <<shutdown, session, stream, wire, reply, observed>>
      /\ g.auth \notin {"Started", "Failed"}
      /\ session.phase = "started" => g.auth = "StartingSession"
  BY DEF LegalInv, ScreenInv, StartedInv, TypeInv, TypeOK, Parse, ParsePrompt, ParseMessage,
     ParseAuthenticated, ParseStarted, ParseError, ParseUnexpected, Parsing, mainVars, greetdVars,
     QueueInv, TalkInv, GenerationInv, CarryInv, Carrying, WireInv, RunInv
<1>2. ASSUME QueueServes', pc' \in {"select", "close"}, pc' = "close" => after' = "select",
             session.phase # "started",
             \/ g'.auth \in {"AwaitingInput", "Cancelling"} /\ pc' = "select"
             \/ g'.auth = "StartingSession" /\ pc' = "select"
             \/ g'.auth \in {"Idle", "CreatingSession"} /\ pc' = "close"
             \/ g'.auth = "ContinuingAuth" /\ pc' = "select"
                /\ (~shutdown => session.phase = "auth")
      PROVE  LegalInv'
  <2>1. CarryInv' /\ WireInv'
    BY <1>1, <1>2 DEF CarryInv, Carrying, WireInv
  <2>2. RunInv' /\ PhaseInv'
    BY <1>1, <1>2 DEF RunInv, PhaseInv
  <2> QED
    BY <2>1, <2>2 DEF LegalInv
<1>3. CASE ParsePrompt
  <2>1. /\ pc' = "select" /\ queue' = <<>> /\ g.auth # "StartingSession"
        /\ g' = [SetAuth(g, "AwaitingInput") EXCEPT !.mode = "Password", !.prev = "Password"]
    BY <1>1, <1>3 DEF ParsePrompt, Parsing, Handled, Goto
  <2>2. g'.auth = "AwaitingInput"
    BY <1>1, <2>1 DEF SetAuth, GreeterRecord
  <2> QED
    BY <1>1, <1>2, <2>1, <2>2, EmptyServes
<1>4. CASE ParseMessage
  <2>1. /\ pc' = "select" /\ Send("Ack", g.user, None) /\ UNCHANGED generation
        /\ Asking /\ response \in Talk
    BY <1>4 DEF ParseMessage, Parsing, Handled, Goto, Asking, Talk
  <2>2. g'.auth = "ContinuingAuth"
    BY <1>1, <1>4 DEF ParseMessage, SetAuth, GreeterRecord
  <2>3. QueueServes'
    BY <1>1, <2>1, <2>2, SendServes
  <2>4. ~shutdown => session.phase = "auth"
    BY <1>1, <2>1 DEF TalkInv, AskInv, OpenForUser
  <2> QED
    BY <1>1, <1>2, <2>1, <2>2, <2>3, <2>4 DEF Asking
<1>5. CASE ParseAuthenticated
  <2>1. Asking /\ pc' = "select"
    BY <1>5 DEF ParseAuthenticated, Parsing, Handled, Goto, Asking
  <2>2. CASE g.source = None
    <3>1. queue' = <<>> /\ CancelLogin(g) /\ CanCancel(g.auth)
      BY <1>1, <1>5, <2>1, <2>2 DEF ParseAuthenticated, Asking, CanCancel
    <3>2. g'.auth = "Cancelling"
      BY <1>1, <3>1, SetAuthType DEF CancelLogin, AuthStates
    <3> QED
      BY <1>1, <1>2, <2>1, <3>1, <3>2, EmptyServes DEF Asking
  <2>3. CASE g.source # None
    <3>1. g' = BeginStart(g) /\ Send("Start", g.user, g.source) /\ UNCHANGED generation
      BY <1>5, <2>3 DEF ParseAuthenticated
    <3>2. g'.auth = "StartingSession"
      BY <1>1, <2>3, <3>1, BeginStartType
    <3>3. QueueServes'
      BY <1>1, <3>1, <3>2, SendServes
    <3> QED
      BY <1>1, <1>2, <2>1, <3>2, <3>3 DEF Asking
  <2> QED
    BY <2>2, <2>3
<1>6. CASE ParseStarted
  <2>1. /\ pc' = "persist" /\ queue' = <<>> /\ g'.auth = "Started" /\ UNCHANGED generation
        /\ g.auth = "StartingSession"
    BY <1>1, <1>6, SetAuthType DEF ParseStarted, Acknowledge, Goto, AuthStates
  <2>2. ~shutdown => observed = generation
    BY <2>1 DEF TalkInv, PlaceInv
  <2>3. QueueServes'
    BY <2>1, EmptyServes
  <2> QED
    BY <1>1, <2>1, <2>2, <2>3 DEF LegalInv, CarryInv, Carrying, WireInv, RunInv, PhaseInv
<1>7. CASE ParseError
  <2>1. /\ response \in {"AuthError", "Error"} /\ pc' = "close" /\ after' = "select"
        /\ UNCHANGED generation
    BY <1>7 DEF ParseError, Parsing, Handled, CloseThen
  <2>2. session.phase # "started"
    BY <1>1, <2>1 DEF RunInv
  <2>3. CASE response = "AuthError"
    <3>1. g' = SetAuth(ResetLocal(g, TRUE), "CreatingSession") /\ Send("Create", g.user, None)
      BY <1>7, <2>3 DEF ParseError
    <3>2. g'.auth = "CreatingSession"
      <4>1. ResetLocal(g, TRUE) \in GreeterRecord
        BY <1>1, ResetLocalType
      <4> QED
        BY <3>1, <4>1, SetAuthType DEF AuthStates
    <3>3. QueueServes'
      BY <1>1, <2>1, <3>1, <3>2, SendServes
    <3> QED
      BY <1>2, <2>1, <2>2, <3>2, <3>3
  <2>4. CASE response # "AuthError"
    <3>1. g'.auth = "Idle" /\ queue' = <<>>
      BY <1>1, <1>7, <2>4, ResetLocalType DEF ParseError
    <3> QED
      BY <1>2, <2>1, <2>2, <3>1, EmptyServes
  <2> QED
    BY <2>3, <2>4
<1>8. CASE ParseUnexpected
  <2>1. /\ pc' = "close" /\ after' = "failed" /\ queue' = <<>> /\ UNCHANGED <<g, generation, current>>
    BY <1>1, <1>8 DEF ParseUnexpected, Fail, CloseThen
  <2>2. (current.kind = "Start") = (g.auth = "StartingSession")
    BY <1>1 DEF Serves
  <2>3. QueueServes'
    BY <2>1, EmptyServes
  <2> QED
    BY <1>1, <2>1, <2>2, <2>3 DEF LegalInv, CarryInv, Carrying, WireInv, RunInv, PhaseInv
<1> QED
  BY <1>3, <1>4, <1>5, <1>6, <1>7, <1>8 DEF Parse

LEMMA InitLegal ==
  ASSUME Init
  PROVE  LegalInv
<1>1. /\ pc = "select" /\ stream /\ wire = None /\ session.phase = "none"
      /\ g.auth \in {"Idle", "CreatingSession"}
  BY DEF Init, NoSession, BeginAuthentication, SetAuth
<1>2. QueueServes
  <2>1. queue = <<>> \/ \E u : queue = <<Request("Create", u, None, 0)>>
    BY DEF Init
  <2>2. CASE queue = <<>>
    BY <2>2 DEF QueueServes
  <2>3. ASSUME NEW u, queue = <<Request("Create", u, None, 0)>>
        PROVE  QueueServes
    <3>1. Len(queue) = 1 /\ queue[1] = Request("Create", u, None, 0)
      BY <2>3
    <3> QED
      BY <1>1, <3>1 DEF QueueServes, Serves, Request
  <2> QED
    BY <2>1, <2>2, <2>3
<1>3. CarryInv /\ WireInv
  BY <1>1, <1>2 DEF CarryInv, Carrying, WireInv
<1>4. RunInv /\ PhaseInv
  BY <1>1 DEF RunInv, PhaseInv
<1> QED
  BY <1>3, <1>4 DEF LegalInv

LEMMA StepLegal ==
  ASSUME ScreenInv, QueueInv, TalkInv, LoginInv, LegalInv, ~Hasty, [Next]_vars
  PROVE  LegalInv'
<1>1. CASE UNCHANGED vars
  BY <1>1, QuietLegal DEF vars, mainVars
<1>2. CASE Actor
  BY <1>2, SelectLegal, TransactLegal, LeaveLegal, ScreenLegal, ResponseLegal DEF Actor
<1> QED
  BY <1>1, <1>2, KeyboardLegal, MainLoopLegal, GreetdLegal DEF Next, Finished

LEMMA LegalInvariant == ~Hasty => (Spec => [](ScreenInv /\ TalkInv /\ LoginInv /\ LegalInv))
<1> SUFFICES ASSUME ~Hasty PROVE Spec => [](ScreenInv /\ TalkInv /\ LoginInv /\ LegalInv)
  OBVIOUS
<1>1. Spec => [](ScreenInv /\ QueueInv /\ TalkInv)
  BY ScreenInvariant, QueueInvariant, TalkInvariant, PTL
<1>2. Init => LoginInv /\ LegalInv
  BY InitLogs, InitLegal
<1>3. ScreenInv /\ QueueInv /\ TalkInv /\ LoginInv /\ LegalInv /\ [Next]_vars => LoginInv' /\ LegalInv'
  BY StepLogs, StepLegal
<1> QED
  BY <1>1, <1>2, <1>3, PTL DEF Spec

(* Only Write puts the request that is being handled on the wire.          *)
LEMMA WriteWrites ==
  ASSUME [Next]_vars, pc = "write", Writes(current)
  PROVE  Write /\ ~Interrupted
<1>1. wire' # wire
  BY DEF Writes
<1>2. Actor
  BY <1>1 DEF Next, Keyboard, TypeUsername, SubmitUsername, SubmitPassword, OpenMenu, ChooseUser,
     ChooseSource, Escape, Typing, KeyboardReady, MainLoop, Reload, TakeControl, Terminate, ActorEnded,
     StopActor, Leave, MainReady, Greetd, Finished, vars, greetdVars
<1>3. Write
  BY <1>2 DEF Actor, SelectShutdown, SelectCancel, SelectRequest, CheckGeneration, Connect, Read,
     ReadOr, WriteCancel, Close, FinishCancellation, Parse, ParsePrompt, ParseMessage,
     ParseAuthenticated, ParseStarted, ParseError, ParseUnexpected, Parsing, Persist, ReportStarted,
     EnterFailed, EnterFailedUnless, Recover, Backoff, ReadUsername, Requeue, Drain
<1> QED
  BY <1>1, <1>3 DEF Write, Interrupt, Interrupted

(* For every capacity and every number of users, sources, failures and     *)
(* cancellations: whatever interrupts a login, a request reaches greetd in *)
(* a phase that accepts it (RequestsAreLegal; transact, recover,           *)
(* parse_response_with).                                                   *)
THEOREM OnlyLegalRequests == ~Hasty => (Spec => RequestsAreLegal)
<1> SUFFICES ASSUME ~Hasty PROVE Spec => RequestsAreLegal
  OBVIOUS
<1>1. ScreenInv /\ TalkInv /\ LoginInv /\ LegalInv /\ [Next]_vars
        => [pc = "write" /\ Writes(current) => Legal(current)]_vars
  <2> SUFFICES ASSUME ScreenInv, TalkInv, LoginInv, LegalInv, [Next]_vars,
                      pc = "write", Writes(current)
               PROVE  Legal(current)
    OBVIOUS
  <2>1. ~shutdown /\ current.generation = generation /\ wire' = current
    BY WriteWrites DEF Interrupted, Cancelled, Writes
  <2>2. observed = generation /\ Serves(current)
    BY <2>1 DEF TalkInv, GenerationInv, LegalInv, CarryInv, Carrying
  <2>3. current.kind \in Kinds
    <3>1. wire = None /\ current # None
      BY DEF LegalInv, WireInv, Writes
    <3> QED
      BY <3>1 DEF ScreenInv, StartedInv, TypeInv, TypeOK, Requests
  <2>4. CASE current.kind = "Start"
    BY <2>2, <2>4 DEF Serves, LoginInv, SnapshotInv, Legal
  <2>5. CASE current.kind \in {"Post", "Ack"}
    <3>1. g.auth = "ContinuingAuth"
      BY <2>1, <2>2, <2>5 DEF Serves
    <3>2. session.phase = "auth"
      BY <2>1, <3>1 DEF LegalInv, PhaseInv
    <3> QED
      BY <2>5, <3>2 DEF Legal
  <2>6. CASE current.kind = "Create"
    <3>1. g.auth \in AuthStates
      BY DEF ScreenInv, StartedInv, TypeInv, TypeOK, GreeterRecord
    <3>2. g.auth \notin {"ContinuingAuth", "AwaitingInput"}
      BY <2>1, <2>6 DEF TalkInv, AwaitInv, AskInv, Asking, Asks
    <3>3. g.auth # "Cancelling"
      BY <2>2 DEF ScreenInv, CancelInv, Cancelled
    <3>4. g.auth \notin {"StartingSession", "Started", "Failed"}
      BY <2>2, <2>6 DEF Serves, LegalInv, RunInv, CarryInv
    <3>5. g.auth \in {"Idle", "CreatingSession"}
      BY <3>1, <3>2, <3>3, <3>4 DEF AuthStates
    <3> QED
      BY <2>1, <2>6, <3>5 DEF LegalInv, PhaseInv, Legal
  <2> QED
    BY <2>3, <2>4, <2>5, <2>6 DEF Kinds
<1> QED
  BY <1>1, LegalInvariant, PTL DEF Spec, RequestsAreLegal

(* For the same instances: once StartSession is on the wire no             *)
(* CancelSession follows it (StartIsNotCancelled; transact,                *)
(* cancel_stream_if_live).                                                 *)
THEOREM NoCancelBehindStart == ~Hasty => (Spec => StartIsNotCancelled)
<1> SUFFICES ASSUME ~Hasty PROVE Spec => StartIsNotCancelled
  OBVIOUS
<1>1. LegalInv => [pc = "cancel" /\ Writes(Cancel) =>
                     /\ session.phase # "started"
                     /\ wire # None => wire.kind # "Start"]_vars
  BY DEF LegalInv, RunInv, WireInv
<1> QED
  BY <1>1, LegalInvariant, PTL DEF StartIsNotCancelled

=============================================================================
