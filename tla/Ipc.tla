--------------------------------- MODULE Ipc ---------------------------------
(***************************************************************************)
(* The greetd conversation of the greeter (src/ipc.rs) with everything     *)
(* that races with it: the keyboard (src/keyboard.rs), configuration       *)
(* reloads, the controls and the shutdown of the main loop (src/main.rs),  *)
(* and greetd itself, which is external.                                   *)
(*                                                                         *)
(* The IPC actor is a task of its own.  Its program counter pc names the   *)
(* next point at which another task can run: an await, or the taking of    *)
(* the Greeter lock.  A keyboard or reload handler holds that lock from    *)
(* beginning to end and is one action.                                     *)
(***************************************************************************)
EXTENDS Greeter, Integers, Sequences

CONSTANTS
  QueueCapacity,  (* capacity of the request channel (10 in the code)      *)
  MaxFailures,    (* MAX_RECOVERY_ATTEMPTS                                 *)
  Hasty,          (* may a key press overtake an actor that is not waiting *)
  MaxCancels      (* bound: cancellations explored in one behaviour        *)

ASSUME IpcAssumption ==
  /\ QueueCapacity \in Nat \ {0}
  /\ MaxFailures \in Nat \ {0}
  /\ MaxCancels \in Nat
  /\ Hasty \in BOOLEAN

VARIABLES
  g,            (* the shared Greeter                                       *)
  queue,        (* mpsc channel of QueuedRequest                            *)
  generation,   (* IpcHandle::cancel_generation                             *)
  shutdown,     (* IpcHandle::shutdown                                      *)
  controls,     (* Control::Exit values sent to the main loop               *)
  pc, after,    (* where the actor is; where it goes once a stream is closed*)
  current,      (* the request being handled                                *)
  response,     (* the response being handled                               *)
  update,       (* the cache update of an acknowledged session              *)
  observed,     (* observed_generation                                      *)
  failures,     (* consecutive failed transactions                          *)
  stream,       (* is the actor connected to greetd                         *)
  wire, reply,  (* request written and response not read, on this stream    *)
  session,      (* greetd's session of this greeter                         *)
  cache,        (* what the state file remembers of this run                *)
  main, exit    (* the main loop, and Greeter::exit                         *)

actorVars  == <<pc, after, current, response, update, observed, failures, stream>>
greetdVars == <<wire, reply, session>>
mainVars   == <<controls, shutdown, main, exit>>
vars == <<g, queue, generation, actorVars, greetdVars, mainVars, cache>>

(* "Post" answers a prompt with what the user typed, "Ack" answers an      *)
(* informational message with nothing; "Create" names the account, "Start" *)
(* the launch source.  The account on screen rides along as a history.     *)
Kinds     == {"Create", "Post", "Ack", "Start"}
Requests  == [kind : Kinds, user : UserField, source : SourceField, generation : Nat]
Request(kind, user, source, gen) ==
  [kind |-> kind, user |-> user, source |-> source, generation |-> gen]
Responses == {"Prompt", "Info", "Warn", "Success", "AuthError", "Error"}
Sessions  == [phase : {"none", "auth", "ready", "started"},
              user : UserField, source : SourceField]
NoSession == [phase |-> "none", user |-> None, source |-> None]
Cancel    == [kind |-> "Cancel"]

ASSUME NoneAssumption ==
  /\ None \notin Responses
  /\ None \notin [user : UserField, source : SourceField]

PCs == {"select", "received", "connect", "write", "read", "parse", "persist",
        "report", "cancel", "close", "finish", "failed", "recover", "backoff", "resend",
        "requeue", "drain", "stopped"}

TypeOK ==
  /\ g \in GreeterRecord
  /\ queue \in Seq(Requests)
  /\ generation \in Nat /\ observed \in Nat
  /\ shutdown \in BOOLEAN /\ stream \in BOOLEAN
  /\ controls \in Seq({"Success", "Failure"})
  /\ pc \in PCs
  /\ after \in {"select", "finish", "cancelled", "failed", "drain"}
  /\ current \in Requests \cup {None}
  /\ response \in Responses \cup {None}
  /\ update \in CacheEntries \cup {None}
  /\ failures \in 0..MaxFailures
  /\ wire \in Requests \cup {Cancel, None}
  /\ reply \in Responses \cup {None}
  /\ session \in Sessions
  /\ cache \in CacheEntries \cup {None}
  /\ main \in {"running", "closing", "stopping", "done"}
  /\ exit \in {"none", "Success", "Failure", "Cancel", "Error"}

(* Ipc::new, the locals of Ipc::run, and main::run up to its loop: the     *)
(* stream was connected at startup, and a username known then, with        *)
(* something to launch, is submitted without a key press.                  *)
Init ==
  /\ \E u \in UserField, s \in SourceField, r \in BOOLEAN :
       LET form  == [auth |-> "Idle", pending |-> None, mode |-> "Username",
                     prev |-> "Username", user |-> u, source |-> s, remember |-> r]
           login == u # None /\ CanBegin(form)
       IN  /\ g = IF login THEN BeginAuthentication(form) ELSE form
           /\ queue = IF login THEN <<Request("Create", u, None, 0)>> ELSE <<>>
  /\ generation = 0 /\ shutdown = FALSE /\ controls = <<>>
  /\ pc = "select" /\ after = "select"
  /\ current = None /\ response = None /\ update = None
  /\ observed = 0 /\ failures = 0 /\ stream = TRUE
  /\ wire = None /\ reply = None /\ session = NoSession
  /\ cache = None /\ main = "running" /\ exit = "none"

-----------------------------------------------------------------------------
(* Operations of IpcHandle, called with the Greeter lock held. *)

(* Ipc::queue_request: the sender waits for room, unless the receiver is   *)
(* closed and the request is dropped.                                      *)
Send(kind, user, source) ==
  IF pc = "stopped" THEN UNCHANGED queue
  ELSE /\ Len(queue) < QueueCapacity
       /\ queue' = Append(queue, Request(kind, user, source, generation))

(* Ipc::cancel, from a Greeter h already changed by the caller.            *)
CancelLogin(h) ==
  IF CanCancel(h.auth)
  THEN g' = SetAuth(h, "Cancelling") /\ generation' = generation + 1
  ELSE g' = h /\ UNCHANGED generation

-----------------------------------------------------------------------------
(* The keyboard: handle_with_power with no power command running. *)

(* The actor has nothing left to do until it hears of a request.           *)
Settled == pc = "select" /\ queue = <<>> /\ generation = observed

KeyboardReady == main = "running" /\ UNCHANGED <<actorVars, greetdVars, mainVars, cache>>
Typing == KeyboardReady /\ AcceptsInput(g.auth) /\ (Hasty \/ Settled)

(* Typing, erasing or completing the username field. *)
TypeUsername ==
  /\ Typing /\ g.mode = "Username"
  /\ \E u \in UserField : g' = [g EXCEPT !.user = u]
  /\ UNCHANGED <<queue, generation>>

(* validate_username: restore the session remembered for the user, then    *)
(* begin authentication if there is something to launch.                   *)
Validate(h) ==
  \E s \in {h.source} \cup (IF h.remember THEN Sources ELSE {}) :
    LET r == [h EXCEPT !.source = s]
    IN  IF CanBegin(r)
        THEN g' = BeginAuthentication(r) /\ Send("Create", r.user, None)
        ELSE g' = r /\ UNCHANGED queue

SubmitUsername ==
  /\ Typing /\ g.mode = "Username" /\ g.user # None
  /\ Validate(g) /\ UNCHANGED generation

SubmitPassword ==
  /\ Typing /\ g.mode = "Password"
  /\ g' = SetAuth(g, "ContinuingAuth")
  /\ Send("Post", g.user, None) /\ UNCHANGED generation

OpenMenu ==
  /\ Typing
  /\ \E popup \in Popups :
       /\ popup = "Users" => g.mode = "Username" /\ g.user = None
       /\ g' = OpenPopup(g, popup)
  /\ UNCHANGED <<queue, generation>>

ChooseUser ==
  /\ Typing /\ g.mode = "Users"
  /\ \E u \in Users : Validate([ClosePopup(g) EXCEPT !.user = u])
  /\ UNCHANGED generation

(* Enter in the session menu or in the command editor. *)
ChooseSource ==
  /\ Typing /\ g.mode \in {"Sessions", "Command"}
  /\ \E s \in Sources : g' = [ClosePopup(g) EXCEPT !.source = s]
  /\ UNCHANGED <<queue, generation>>

(* Esc closes a popup, else cancels a live login, else clears the form. *)
Escape ==
  /\ KeyboardReady /\ UNCHANGED queue
  /\ \/ g.mode \in Popups /\ g' = ClosePopup(g) /\ UNCHANGED generation
     \/ /\ g.mode \notin Popups /\ CanCancel(g.auth) /\ generation < MaxCancels
        /\ CancelLogin(g)
     \/ /\ g.mode \notin Popups /\ g.auth = "Idle"
        /\ g' = ResetLocal(g, FALSE) /\ UNCHANGED generation

Keyboard == TypeUsername \/ SubmitUsername \/ SubmitPassword \/ OpenMenu
            \/ ChooseUser \/ ChooseSource \/ Escape

-----------------------------------------------------------------------------
(* The main loop. *)

MainReady == main = "running" /\ UNCHANGED <<actorVars, greetdVars, cache, queue>>

(* apply_config_reload: a reload that leaves nothing to launch cancels the *)
(* login in progress under the same lock.                                  *)
Reload ==
  /\ MainReady /\ UNCHANGED mainVars
  /\ \E h \in Reloaded(g) :
       IF h.source = None
       THEN generation < MaxCancels /\ CancelLogin(h)
       ELSE g' = h /\ UNCHANGED generation

(* exit(): every status but Success cancels a live login. *)
Exit(status) ==
  /\ exit' = status /\ main' = "closing"
  /\ IF status = "Success" THEN UNCHANGED <<g, generation>> ELSE CancelLogin(g)

TakeControl ==
  /\ MainReady /\ controls # <<>>
  /\ controls' = Tail(controls) /\ Exit(Head(controls)) /\ UNCHANGED shutdown

(* SIGTERM, SIGINT or SIGHUP; ^X in debug builds. *)
Terminate ==
  /\ MainReady /\ UNCHANGED <<controls, shutdown>>
  /\ \E status \in {"Failure", "Cancel"} : Exit(status)

(* The select found the actor's task ended before it saw a control. *)
ActorEnded ==
  /\ MainReady /\ pc = "stopped"
  /\ exit' = "Error" /\ main' = "closing" /\ UNCHANGED <<g, generation, controls, shutdown>>

(* After the loop: Ipc::shutdown, then the actor's task is awaited. *)
(* Mutation: the actor is awaited without being told to stop. *)
AwaitActor ==
  /\ main = "closing" /\ main' = "stopping"
  /\ UNCHANGED <<g, queue, generation, actorVars, greetdVars, controls, shutdown, exit, cache>>
StopActor ==
  /\ main = "closing" /\ main' = "stopping" /\ shutdown' = TRUE
  /\ UNCHANGED <<g, queue, generation, actorVars, greetdVars, controls, exit, cache>>

Leave ==
  /\ main = "stopping" /\ pc = "stopped" /\ main' = "done"
  /\ UNCHANGED <<g, queue, generation, actorVars, greetdVars, controls, shutdown, exit, cache>>

MainLoop == Reload \/ TakeControl \/ Terminate \/ ActorEnded \/ StopActor \/ Leave

-----------------------------------------------------------------------------
(* The actor: Ipc::run.  Each select prefers shutdown, then cancellation.  *)

Cancelled(gen) == generation # gen
Goto(label)    == pc' = label /\ UNCHANGED after
CloseThen(label) == pc' = "close" /\ after' = label

(* cancel_stream_if_live starts by reading the state under the lock.       *)
CancelStreamThen(label) ==
  /\ pc' = IF IsLivePrestart(g.auth) /\ stream THEN "cancel" ELSE "close"
  /\ after' = label

Greeting == UNCHANGED <<g, queue, generation, mainVars, cache>>

SelectShutdown ==
  /\ pc = "select" /\ shutdown
  /\ CancelStreamThen("drain")
  /\ Greeting /\ UNCHANGED <<greetdVars, current, response, update, observed, failures, stream>>

SelectCancel ==
  /\ pc = "select" /\ ~shutdown /\ Cancelled(observed)
  /\ observed' = generation
  /\ CancelStreamThen("finish")
  /\ Greeting /\ UNCHANGED <<greetdVars, current, response, update, failures, stream>>

SelectRequest ==
  /\ pc = "select" /\ ~shutdown /\ ~Cancelled(observed) /\ queue # <<>>
  /\ current' = Head(queue) /\ queue' = Tail(queue) /\ Goto("received")
  /\ UNCHANGED <<g, generation, mainVars, cache, greetdVars, response, update, observed,
                 failures, stream>>

(* A request queued before the last cancellation is dropped.               *)
(* Mutation: it is dropped, and nothing else is done. *)
DropStaleRequest ==
  /\ pc = "received"
  /\ IF Cancelled(current.generation)
     THEN observed' = generation /\ current' = None /\ Goto("select")
     ELSE Goto(IF stream THEN "write" ELSE "connect") /\ UNCHANGED <<observed, current>>
  /\ Greeting /\ UNCHANGED <<greetdVars, response, update, failures, stream>>
CheckGeneration ==
  /\ pc = "received"
  /\ IF Cancelled(current.generation)
     THEN observed' = generation /\ current' = None /\ CancelStreamThen("finish")
     ELSE Goto(IF stream THEN "write" ELSE "connect") /\ UNCHANGED <<observed, current>>
  /\ Greeting /\ UNCHANGED <<greetdVars, response, update, failures, stream>>

(* Ipc::transact: connect, write the request, read the response.  Any of   *)
(* these can fail or pass its deadline.                                    *)
Interrupt(label) ==
  \/ shutdown /\ label = "drain"
  \/ ~shutdown /\ Cancelled(current.generation) /\ label = "cancelled"

Interrupted == shutdown \/ Cancelled(current.generation)

(* Err(error) with any other error: one more consecutive failure.          *)
Fail == failures' = failures + 1 /\ CloseThen("failed")

Connect ==
  /\ pc = "connect"
  /\ \/ \E label \in {"drain", "cancelled"} :
            Interrupt(label) /\ CloseThen(label) /\ UNCHANGED <<failures, stream>>
     \/ ~Interrupted /\ Fail /\ UNCHANGED stream
     \/ ~Interrupted /\ stream' = TRUE /\ Goto("write") /\ UNCHANGED failures
  /\ Greeting /\ UNCHANGED <<greetdVars, current, response, update, observed>>

Write ==
  /\ pc = "write"
  /\ \/ \E label \in {"drain", "cancelled"} :
            Interrupt(label) /\ CloseThen(label) /\ UNCHANGED <<failures, wire>>
     \/ ~Interrupted /\ Fail /\ UNCHANGED wire
     \/ ~Interrupted /\ wire' = current /\ Goto("read") /\ UNCHANGED failures
  /\ Greeting /\ UNCHANGED <<reply, session, current, response, update, observed, stream>>

ReadOr(interrupted) ==
  /\ pc = "read"
  /\ \/ \E label \in {"drain", "cancelled"} :
            /\ Interrupt(label) /\ after' = label /\ pc' = interrupted
            /\ UNCHANGED <<failures, reply, response>>
     \/ ~Interrupted /\ Fail /\ UNCHANGED <<reply, response>>
     \/ /\ ~Interrupted /\ reply # None /\ response' = reply /\ reply' = None
        /\ failures' = 0 /\ Goto("parse")
  /\ Greeting /\ UNCHANGED <<wire, session, current, update, observed, stream>>

(* Mutation: StartSession is cancelled like any other request. *)
ReadCancellingStart == ReadOr("cancel")
(* An interrupted read tells greetd to cancel, except after StartSession.  *)
Read == ReadOr(IF current.kind = "Start" THEN "close" ELSE "cancel")

(* CancelSession, best effort within CANCEL_WRITE_TIMEOUT. *)
WriteCancel ==
  /\ pc = "cancel" /\ Goto("close")
  /\ wire' \in {wire, Cancel} /\ reply' = IF wire' = Cancel THEN None ELSE reply
  /\ Greeting /\ UNCHANGED <<session, current, response, update, observed, failures, stream>>

(* Dropping the stream ends greetd's session, unless it was started: a     *)
(* StartSession that greetd has not read yet may still take effect.        *)
Orphaned(s, w) ==
  IF s.phase = "started" THEN {s}
  ELSE {NoSession} \cup (IF s.phase = "ready" /\ w # None /\ w.kind = "Start"
                         THEN {[s EXCEPT !.phase = "started", !.source = w.source]} ELSE {})

Close ==
  /\ pc = "close"
  /\ stream' = FALSE /\ wire' = None /\ reply' = None
  /\ session' \in IF stream THEN Orphaned(session, wire) ELSE {session}
  /\ pc' = IF after = "cancelled" THEN "finish" ELSE after
  /\ observed' = IF after = "cancelled" THEN generation ELSE observed
  /\ current' = IF after = "failed" THEN current ELSE None
  /\ Greeting /\ UNCHANGED <<after, response, update, failures>>

(* finish_cancellation: back to an empty, idle username prompt. *)
FinishCancellation ==
  /\ pc = "finish" /\ Goto("select")
  /\ g' = ResetLocal(g, FALSE)
  /\ UNCHANGED <<queue, generation, mainVars, cache, greetdVars, current, response, update,
                 observed, failures, stream>>

(* The request was handled: back to the select, over the closing of the    *)
(* stream when greetd reported an error.                                   *)
Handled == IF response = "Error" \/ response = "AuthError" THEN CloseThen("select")
           ELSE Goto("select")

(* parse_response_with, one action per arm, each under the Greeter lock.   *)
Parsing(responses) ==
  /\ pc = "parse" /\ response \in responses /\ response' = None
  /\ UNCHANGED <<mainVars, cache, greetdVars, observed, stream>>

ParsePrompt ==
  /\ Parsing({"Prompt"}) /\ g.auth \in {"CreatingSession", "ContinuingAuth"}
  /\ g' = [SetAuth(g, "AwaitingInput") EXCEPT !.mode = "Password", !.prev = "Password"]
  /\ Handled /\ current' = None
  /\ UNCHANGED <<queue, generation, update, failures>>

(* Mutation: the message is shown, but greetd is not told to go on. *)
ParseMessageSilently ==
  /\ Parsing({"Info", "Warn"}) /\ g.auth \in {"CreatingSession", "ContinuingAuth"}
  /\ g' = SetAuth(g, "ContinuingAuth")
  /\ Handled /\ current' = None
  /\ UNCHANGED <<queue, generation, update, failures>>
ParseMessage ==
  /\ Parsing({"Info", "Warn"}) /\ g.auth \in {"CreatingSession", "ContinuingAuth"}
  /\ LET h == SetAuth(g, "ContinuingAuth")
     IN  g' = IF response = "Info" THEN [h EXCEPT !.prev = g.mode, !.mode = "Action"] ELSE h
  /\ Send("Ack", g.user, None)
  /\ Handled /\ current' = None
  /\ UNCHANGED <<generation, update, failures>>

(* Mutation: the state says starting, but StartSession is not queued. *)
ParseAuthenticatedOnly ==
  /\ Parsing({"Success"}) /\ g.auth \in {"CreatingSession", "ContinuingAuth"}
  /\ IF g.source = None THEN CancelLogin(g) ELSE g' = BeginStart(g) /\ UNCHANGED generation
  /\ Handled /\ current' = None
  /\ UNCHANGED <<queue, update, failures>>
ParseAuthenticated ==
  /\ Parsing({"Success"}) /\ g.auth \in {"CreatingSession", "ContinuingAuth"}
  /\ IF g.source = None
     THEN CancelLogin(g) /\ UNCHANGED queue
     ELSE g' = BeginStart(g) /\ Send("Start", g.user, g.source) /\ UNCHANGED generation
  /\ Handled /\ current' = None
  /\ UNCHANGED <<update, failures>>

Acknowledge(remember, entry) ==
  /\ g' = SetAuth(g, "Started")
  /\ update' = IF remember THEN entry ELSE None
  /\ Goto("persist") /\ current' = None
  /\ UNCHANGED <<queue, generation, failures>>

(* Mutations: the entry is taken from the settings at the acknowledgement; *)
(* success is reported when the authentication succeeds.                   *)
ParseStartedFromSettings ==
  /\ Parsing({"Success"}) /\ g.auth = "StartingSession" /\ Acknowledge(g.remember, CacheEntry(g))
ParseStartedEarly ==
  /\ Parsing({"Success"}) /\ g.auth \in {"ContinuingAuth", "StartingSession"}
  /\ Acknowledge(FALSE, None)
ParseStarted ==
  /\ Parsing({"Success"}) /\ g.auth = "StartingSession"
  /\ Acknowledge(g.pending.remember, CacheEntry(g.pending))

(* Mutation: the error is retried here and by recover. *)
ParseErrorAndRecover ==
  /\ Parsing({"AuthError"})
  /\ g.auth \in {"CreatingSession", "ContinuingAuth", "StartingSession"}
  /\ g' = SetAuth(ResetLocal(g, TRUE), "CreatingSession")
  /\ Send("Create", g.user, None) /\ Fail
  /\ UNCHANGED <<generation, update, current>>
ParseError ==
  /\ Parsing({"AuthError", "Error"})
  /\ g.auth \in {"CreatingSession", "ContinuingAuth", "StartingSession"}
  /\ IF response = "AuthError"
     THEN /\ g' = SetAuth(ResetLocal(g, TRUE), "CreatingSession")
          /\ Send("Create", g.user, None)
     ELSE g' = ResetLocal(g, FALSE) /\ UNCHANGED queue
  /\ Handled /\ current' = None
  /\ UNCHANGED <<generation, update, failures>>

(* protocol_error: a response the state cannot accept. *)
Acceptable ==
  \/ g.auth \in {"CreatingSession", "ContinuingAuth"}
  \/ g.auth = "StartingSession" /\ response \in {"Success", "AuthError", "Error"}

ParseUnexpected ==
  /\ Parsing(Responses) /\ ~Acceptable
  /\ Fail /\ UNCHANGED <<g, queue, generation, current, update>>

Parse == ParsePrompt \/ ParseMessage \/ ParseAuthenticated \/ ParseStarted
         \/ ParseError \/ ParseUnexpected

(* persist_cache: the write may fail, which is only logged. *)
Persist ==
  /\ pc = "persist" /\ Goto("report")
  /\ cache' \in IF update = None THEN {cache} ELSE {cache, update}
  /\ update' = None
  /\ UNCHANGED <<g, queue, generation, mainVars, greetdVars, current, response, observed,
                 failures, stream>>

Reported == UNCHANGED <<g, queue, generation, shutdown, main, exit, cache, greetdVars, current,
                        response, update, observed, failures, stream>>
ReportStarted ==
  /\ pc = "report" /\ Goto("select") /\ Reported
  /\ controls' = Append(controls, "Success")

EnterFailedUnless(givingUp) ==
  /\ pc = "failed"
  /\ g' = SetAuth(g, "Failed")
  /\ IF givingUp
     THEN Goto("drain") /\ controls' = Append(controls, "Failure")
     ELSE Goto("recover") /\ UNCHANGED controls
  /\ UNCHANGED <<queue, generation, shutdown, main, exit, cache, greetdVars, current, response,
                 update, observed, failures, stream>>

(* Mutation: a failed StartSession is retried.                             *)
EnterFailedRetryingStart == EnterFailedUnless(failures >= MaxFailures)
(* recover: a failed StartSession or one failure too many ends the greeter.*)
EnterFailed == EnterFailedUnless(current.kind = "Start" \/ failures >= MaxFailures)

Recover ==
  /\ pc = "recover" /\ Goto("backoff")
  /\ g' = SetAuth(ResetLocal(g, TRUE), "CreatingSession")
  /\ UNCHANGED <<queue, generation, mainVars, cache, greetdVars, current, response, update,
                 observed, failures, stream>>

(* The retry waits; a cancellation seen here does not move observed.       *)
Backoff ==
  /\ pc = "backoff"
  /\ \/ shutdown /\ Goto("drain")
     \/ ~shutdown /\ Cancelled(current.generation) /\ Goto("finish")
     \/ ~shutdown /\ ~Cancelled(current.generation) /\ Goto("resend")
  /\ current' = None
  /\ Greeting /\ UNCHANGED <<greetdVars, response, update, observed, failures, stream>>

(* The username is read under the lock, the request queued after it.       *)
ReadUsername ==
  /\ pc = "resend" /\ Goto("requeue")
  /\ current' = Request("Create", g.user, None, generation)
  /\ Greeting /\ UNCHANGED <<greetdVars, response, update, observed, failures, stream>>

Requeue ==
  /\ pc = "requeue" /\ Goto("select")
  /\ Send("Create", current.user, None) /\ current' = None
  /\ UNCHANGED <<g, generation, mainVars, cache, greetdVars, response, update, observed,
                 failures, stream>>

(* After the loop the channel is closed and drained. *)
Drain ==
  /\ pc = "drain" /\ Goto("stopped")
  /\ queue' = <<>> /\ current' = None
  /\ UNCHANGED <<g, generation, mainVars, cache, greetdVars, response, update, observed,
                 failures, stream>>

Actor == SelectShutdown \/ SelectCancel \/ SelectRequest \/ CheckGeneration
         \/ Connect \/ Write \/ Read \/ WriteCancel \/ Close \/ FinishCancellation
         \/ Parse \/ Persist \/ ReportStarted \/ EnterFailed \/ Recover \/ Backoff
         \/ ReadUsername \/ Requeue \/ Drain

-----------------------------------------------------------------------------
(* greetd (external): one session per connection, prompts before success.  *)

(* The requests greetd expects of a client in each phase of its session.   *)
Legal(request) ==
  \/ request.kind = "Create" /\ session.phase = "none"
  \/ request.kind \in {"Post", "Ack"} /\ session.phase = "auth"
  \/ request.kind = "Start" /\ session.phase = "ready"

Answer(phase, user, source, responses) ==
  /\ reply' \in responses
  /\ session' = [phase |-> phase, user |-> user, source |-> source]

Greetd ==
  /\ wire # None /\ wire # Cancel /\ reply = None /\ pc = "read"
  /\ \/ /\ wire.kind = "Create" /\ session.phase = "none"
        /\ \/ Answer("auth", wire.user, None, {"Prompt", "Info", "Warn"})
           \/ Answer("ready", wire.user, None, {"Success"})
           \/ Answer("none", None, None, {"AuthError", "Error"})
     \/ /\ wire.kind \in {"Post", "Ack"} /\ session.phase = "auth"
        /\ \/ Answer("auth", session.user, None, {"Prompt", "Info", "Warn"})
           \/ Answer("ready", session.user, None, {"Success"})
           \/ Answer("none", None, None, {"AuthError", "Error"})
     \/ /\ wire.kind = "Start" /\ session.phase = "ready"
        /\ \/ Answer("started", session.user, wire.source, {"Success"})
           \/ Answer("none", None, None, {"AuthError", "Error"})
     \/ /\ ~Legal(wire) /\ reply' = "Error" /\ UNCHANGED session
  /\ wire' = None
  /\ UNCHANGED <<g, queue, generation, actorVars, mainVars, cache>>

Finished == main = "done" /\ UNCHANGED vars

Next == Keyboard \/ MainLoop \/ Actor \/ Greetd \/ Finished

Spec == Init /\ [][Next]_vars

(* Tokio keeps polling ready tasks, every wait of the actor has a deadline,*)
(* and the main loop serves controls before anything else.  Nothing makes  *)
(* the user type, greetd answer, or a reload or signal happen.             *)
Fairness ==
  /\ WF_vars(Actor)
  /\ WF_vars(TakeControl) /\ WF_vars(ActorEnded) /\ WF_vars(StopActor) /\ WF_vars(Leave)

FairSpec == Spec /\ Fairness

-----------------------------------------------------------------------------
(* Properties *)

(* A sender holds the Greeter lock while it waits for room in the channel, *)
(* and the actor needs that lock to make room.  Nobody ever waits: with    *)
(* keys handled no faster than the actor settles, one request is queued at *)
(* most (queue_request; ten fit).                                          *)
OneRequestQueued == Len(queue) <= 1

(* The prompt on screen is the prompt of a PAM conversation that is open   *)
(* on the current connection for the very user the screen names: nobody is *)
(* asked for a password by a session that was cancelled, closed or opened  *)
(* for someone else (parse_response_with, the generation check of run).    *)
PromptIsForUser ==
  g.auth = "AwaitingInput" /\ main = "running" =>
    stream /\ session.phase = "auth" /\ session.user = g.user

Writes(request) == wire' # wire /\ wire' = request

(* Whatever interrupts a login, every request reaches greetd in a phase    *)
(* that accepts it: no second CreateSession on a connection, no answer     *)
(* without a prompt, no StartSession twice or before success (transact,    *)
(* recover, parse_response_with).                                          *)
RequestsAreLegal == [][pc = "write" /\ Writes(current) => Legal(current)]_vars

(* Once StartSession is on the wire the greeter never sends CancelSession  *)
(* behind it: a session that greetd may already have launched is not torn  *)
(* down (transact, cancel_stream_if_live).                                 *)
StartIsNotCancelled ==
  [][pc = "cancel" /\ Writes(Cancel) =>
       /\ session.phase # "started"
       /\ wire # None => wire.kind # "Start"]_vars

(* The conversation implements the promise of Login: the cache entry is    *)
(* that of the session greetd started, not of settings or names that       *)
(* changed meanwhile (PendingSession::capture, persist_cache).             *)
Promise == INSTANCE Login WITH
  Accounts <- UserField, Launches <- Sources, Nothing <- None,
  opened <- IF session.phase = "started"
            THEN [user |-> session.user, source |-> session.source] ELSE None,
  remembered <- cache, outcome <- exit
ImplementsLogin == Promise!Spec

(* The greeter exits with success only if greetd has started the session,  *)
(* however fast keys are handled (Response::Success, Control::Exit).       *)
SuccessMeansStarted == exit = "Success" => session.phase = "started"

(* What was typed for one account never reaches the conversation of        *)
(* another, however fast keys are handled (SubmitPassword, QueuedRequest). *)
AnswerGoesToItsAccount ==
  [][pc = "write" /\ Writes(current) /\ current.kind = "Post" /\ session.phase = "auth"
       => session.user = current.user]_vars

(* The screen never waits for an answer nobody will produce: when the      *)
(* actor is about to wait for work there is a request, a cancellation or a *)
(* shutdown to wake it (Ipc::run, wait_for_cancel).                        *)
WaitingIsServed ==
  pc = "select" /\ IsWaiting(g.auth) => queue # <<>> \/ Cancelled(observed) \/ shutdown

(* A cancellation is not lost: until the actor resets the greeter it has   *)
(* either not seen the new generation or is on its way to the reset        *)
(* (Ipc::cancel, observed_generation).                                     *)
CancellationIsSeen ==
  g.auth = "Cancelling" =>
    Cancelled(observed) \/ pc \in {"cancel", "close", "finish", "failed", "recover",
                                   "drain", "stopped"}

(* A cancelled login ends: the prompt comes back or the greeter leaves     *)
(* (finish_cancellation).                                                  *)
CancelCompletes == g.auth = "Cancelling" ~> g.auth # "Cancelling" \/ main = "done"

(* Once the main loop is left the program ends, whatever the actor was     *)
(* doing: it never blocks the exit (Ipc::shutdown, drain).                 *)
ShutdownCompletes == main = "closing" ~> main = "done"

(* A StartSession is settled: refused or given up, and once acknowledged   *)
(* the greeter leaves (transact, Control::Exit).                           *)
StartIsSettled ==
  g.auth = "StartingSession" ~> g.auth \notin {"StartingSession", "Started"} \/ main = "done"
=============================================================================
