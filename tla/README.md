# tuigreet in TLA+

This directory models `tuigreet`, the console greeter for greetd, in TLA+. The modules are translated from
the Rust sources in `src/src/`; TLC checks them on small instances and TLAPS proves some of their theorems for
every value of their constants. `PROJECT.json` maps each definition to the source lines it stands for, and
lists the runs, the hazards, the findings and the theorems.

## 1. The system

A greeter is one process. Its main loop, the IPC actor, the event worker, the battery monitor and the power
supervisor are Tokio tasks; the configuration watcher and the reload worker are threads; the cache runs in blocking threads.
Almost all of them share one `Greeter` behind an `RwLock`, and talk through channels.

| Part | State it keeps | Operations | Talks to |
|---|---|---|---|
| IPC actor (`ipc.rs`) | connection, pending request, observed cancellation generation, failure count | take a request, connect, write, read, parse, cancel, recover with back-off, persist, drain | greetd (socket), main loop (controls), keyboard (request queue of ten, `cancel_generation`), cache |
| Greeter (`greeter.rs`) | authentication state, screen and saved screen, username, chosen source, buffers, menus, settings | `reset_local`, `apply_reload`, `normalize_derived_state`, restore from the cache | everyone, under the lock |
| Keyboard (`keyboard.rs`) | none | one handler for each key event | Greeter; sends requests **while it holds the lock** |
| Main loop (`main.rs`) | power return state, exit status | select over controls, events, actor, signals, reloads, power | all |
| Power supervisor (`power.rs`) | active command, its process or group | start, cancel, time out, terminate, reap, shut down | child processes |
| Watcher (`watcher.rs`) | known fingerprints | poll, settle, publish | configuration files, main loop (`watch` channel) |
| Reload coordinator (`reload.rs`) | newest revision, one-place request slot, one-place result channel | request, prepare, deliver, drop superseded | watcher, main loop |
| Cache (`cache.rs`) | state file, temporary file, lock file, files of the old version | load with migration, commit, purge | other greeters, through the directory |
| Event worker and drawing (`event.rs`, `main.rs`) | bounded event queue | read the terminal, ask for a drawing, draw | terminal, actor, battery monitor |
| Battery (`battery.rs`) | last reading, enabled flag | read the supplies, aggregate | event queue |
| Command line (`greeter.rs` from 1602) | none | recover what getopts will accept, warn of the rest, decide what the process is for | configuration |
| Configuration (`config.rs`) | the settings in force | read and lay the files and the line over each other, check, reload, warn of paths others may write | files, reload worker |
| Session discovery (`info.rs`), desktop entries (`desktop_entry.rs`) | none | search path, walk, masking, keys of a file, `Exec` to a shell command, sort | file system |
| Terminal (`terminal.rs`) | raw mode, alternate screen, cursor; an armed flag | set up, restore, panic hook, signals | the TTY |
| Drawing (`ui/`) | none | share the rows out, box of the view, feedback, text cursor, menu window, status row | Greeter, under the lock |
| Framing (`ipc_codec.rs`), issue, host name, users and lights (`info.rs`), log and texts | none | formatting and calls without state | |

What is hard in it:

* **Order.** A key press, a reload, a signal, a timeout and greetd's answer can come between any two steps of
  the actor. What an answer means depends on a screen that may have changed since the question.
* **Locks and queues.** Senders hold the lock the receiver needs. Three channels are bounded; two of them
  drop, one blocks.
* **Staleness.** Indices into menus, saved screens, snapshots of settings, observed generations and process
  numbers are used after what they refer to may have been replaced.
* **Failure.** Every call to greetd, to the disk and to the terminal may fail half-way; a greeter may be
  killed, and the machine may lose power.
* **Bad input that must not stop a login.** One wrong argument, field, session file or size must cost only
  itself, and what remains must still be consistent: a user id range, a pair of exclusive options, three
  different keys, rows that fit the screen.

The `hazards` of `PROJECT.json` name these at their lines, with the properties that would catch them.

## 2. Modules

| Module | Models | Composes |
|---|---|---|
| `Greeter` | the shared record: authentication states, screens, popups, resets, what a reload may do to a login | |
| `Ipc` | the IPC actor, the keyboard's and the main loop's part in a login, greetd, the cache entry | `Greeter` |
| `Login` | **abstract**: a session opens, then it is remembered as it was opened; success only after it | |
| `Console` | the main loop with power commands over a login | `Ipc` |
| `Power` | the supervisor and the processes of a power command | |
| `Reload` | files, watcher, main loop, coordinator, worker | |
| `Menus` | the keyboard handler and `apply_reload` with all menus and sources | `Greeter` |
| `CacheData`, `Cache` | the remembered state; its load and commit, one system call at a time | `CacheData` |
| `Store` | **abstract**: a state that changes in one step and rolls back only to what was not flushed | `CacheData` |
| `Screen` | event worker, event queue, drawing, battery monitor | |
| `Settings`, `Config` | readers of the fields, layers, relations between fields, trust; start, check and reload | `Settings` |
| `Options`, `Startup` | the command line letter by letter; the whole way from it to the settings | `Options`, `Config` |
| `DesktopEntry`, `Discovery` | one session file and its command; the list of sessions | `DesktopEntry` |
| `Layout` | where everything of one frame goes | |
| `Battery` | one reading of the batteries | |
| `Terminal` | set-up and restoration of the terminal | |
| `Parts` | the last three and the session list side by side, one of them at a time | `Layout`, `Battery`, `Terminal`, `Discovery` |
| `CacheProofs`, `ConfigProofs`, `IpcProofs`, `MenusProofs`, `PartsProofs`, `PowerProofs`, `ReloadProofs`, `ScreenProofs` | theorems | the module they are named after (`ConfigProofs`: `Startup`) |

`*MC` modules hold the definitions a configuration needs. An operator whose comment says *Mutation* or
*Variant to refute* is a plausible mistake in the operator below it. No specification uses it: it is there to
see that the properties notice.

### Greeter, Ipc, Login, Console

`g` is the Greeter record reduced to what a login tells apart: authentication state (`AuthState`, with the
visible and the secret prompt as one), screen, saved screen, username, launch source, captured session, and
whether it remembers. The actor has a program counter `pc` whose values are its `await` points. A step holds
the lock for as long as the code does, so a handler between two awaits is one action. `generation` is
`cancel_generation`, `observed` the actor's copy. greetd is modelled from how `ipc.rs` uses it: one session per
connection; a request that its phase does not accept gets an error; it may refuse, fail, or never answer; and a
StartSession that was written before a close may still take effect. `wire` and `reply` are the two directions
of the socket. Mock mode, texts and the response buffer are left out.

`Hasty` says whether a key press may overtake the actor before it has settled (`Settled`: waiting in its
select, empty queue, no unseen cancellation). A person's keys come milliseconds apart, the actor settles in
microseconds; what holds only at that pace is checked with `Hasty = FALSE`, and what must hold without it with
`Hasty = TRUE`. Escape, reloads, signals and timeouts are never restricted.

`Console` adds `begin_power` and `finish_power`: while a command runs the keyboard only cancels it, and the
screen saved before comes back after. `SourceStays` restricts reloads during a command to those that leave
something to launch, see finding 1.

### Power

A command is a leader with or without its own process group, and the children it may fork. Each may ignore
signals and end at any time. Once the leader is reaped its number may be taken by a *stranger*. `kill` may be refused.
The shutdown's time-outs may expire at any step, an over-approximation of 1.75 s.

### Reload

Two files, the optional system one and the explicit one. Of the settings only the session directories are
kept, since the menu discovered from them is replaced only where a plan differs from the snapshot it was
prepared from: this is where stale plans would show. Each thread reads the files one at a time. `Reverts` lets an edit
restore earlier contents, `Panics` lets the preparation panic and the watcher thread fail, at its start or later.

### Menus

The whole handler of each key and the whole of `apply_reload`, in its order, as functions from record to
record, because both hold the lock throughout. greetd is here an environment that answers as it likes. A
`machine` is what discovery and the configuration may come to around a greeter; a reload picks any of it.

### Cache, Store

One action per system call of `load` and `commit`: lock, read, create, write, flush, rename, flush of the directory, and
the removal of old files. Any call may fail, any greeter may be killed, and after a power loss a name holds any
value since its last flush, a file that was not flushed being damaged. `Cache` implements `Store` under the mapping
`state <- file.data`, `possible <- {f.data : f \in maybe}`.

### Settings, Config, Options, Startup

`Settings` has one reader for each kind of field, for a TOML item and for an option, each giving a value or none and
whether it warns; the layer of a document or of a line is a function from the fields it gives to their values, so that
"this layer does not say" is a missing key. What libraries make of a word (numbers, `shlex`, colors, time formats) is a
constant. `Config` lays the layers over the defaults as `apply_layer` does, group by group: `issue` or a
greeting, the range of user ids with what `/etc/login.defs` says, the three `remember` flags, the three keys, the theme, and
all other fields by themselves. Each step of a load is an action (system file, explicit file, line, finish), so that files
may be edited in between. A load at the start is lenient and warns, a check or a reload is strict and leaves the settings
as they were.

`Options` walks the arguments with the index and the offset within a cluster that the code keeps, and drops one
letter or one argument for each warning; `CliInvocation` then decides between help, version, check and running. Words are
sequences of letters only where an option is cut out of them. `Startup` hands the line that is left to `Config`.

### DesktopEntry, Discovery

`DesktopEntry` follows a file by lines and its `Exec` value by characters, since quoting, escapes and field codes are what
it is about: `tokenize`, `expand`, and the quoting for the shell behind greetd. Beside the code's way stands the author's: an
argument (`Argument`) has blanks in front and is bare or in double quotes, and its items are characters of `Alphabet` and field
codes; `Proper` are the arguments the rules of desktop entries allow, `Writing` is the Exec value they are written as,
`Meaning` the arguments a program is then to get, and `ShellWords` what a shell makes of a line. None of these looks at how
`tokenize` or `expand` work. `Discovery` is the walk over the search path, where a file masks the same type and id further
down even if it is itself hidden, broken or not runnable. The directories do not change during one walk. `meant` is what the author
of the one file of a disk wrote, `Anything` on the disks that are about masking. `PartsMC` has a list of values and files that
break a rule or hide; TLC checks that none is loaded as it evaluates `RulesAreKept`.

### Layout

One frame as a function from a screen (terminal size, paddings, view, texts by their widths) to rectangles, the cursor,
the part of the text that is drawn, and what is left of the menu and of the status row. The sums saturate at `MaxU16` as `u16::saturating_add` does. How a text
wraps (`Lines`) is a constant and how ratatui shares rows out when there are too few is left open.

### Screen, Battery, Terminal

`Screen` has the queue with its capacity, senders that wait (keys), senders that drop (drawings), the draw that
clears what is out of date, the battery reading that runs outside the lock, and the shutdown. Its periodic
ticks are not counted on. `Battery` is a loop over an input chosen at the start; its property defines the result
without the loop. `Terminal` has one action per terminal operation, each failing or not, with kills, panics and signals
between any two (a signal it does not listen to, `SIGHUP` say, ends it as `killed`, with the modes as they are); for builds that abort on panic only panics of the main thread are modelled.

`Layout`, `Terminal`, `Battery` and `Discovery` do not meet in the code: nothing one of them writes is read by
another. `Parts` runs them in one instance, one part at a time (`which` says which one).

## 3. Runs

Every property has a mutant in `PROJECT.json`: a plausible mistake in a mapped definition that makes TLC
report exactly this property. A `TypeOK` is proved where the module has proofs and is not run again; in the other modules it
says what the variables hold, for the reader. Deadlock is checked except in `parts`, `startup` and `config_theme`, whose
behaviours end when the frame is drawn, the list is made or the reloads are used up.

| Run | Question | Bounds |
|---|---|---|
| `ipc_hasty` | What holds however fast keys come, and does everything end? No false success, no wait nobody serves, no lost cancellation, no answer in another account's conversation; cancellations, starts and shutdowns end | 2 users, 1 source, queue of 2, 2 failures in a row, 1 cancellation |
| `console_power` | With keys at human pace: one queued request, prompts of the right conversation, legal requests, no cancellation behind a start, the promise of `Login` | 2 users, 2 sources of which 1 can be remembered, 2 cancellations |
| `console_reload` | Finding 1 | 1 user, 1 source |
| `reload_edits` | Is no revision lost, no stale plan applied, and do the files end up in force? | 2 edits of 2 files with 2 contents or none, panics of either thread |
| `power_safe` | Are no processes left behind, no strangers signalled, and does every command end? | 2 commands |
| `menus_safe` | Do choices, highlights and popups survive reloads, is the screen that of the conversation, is nothing typed left behind? | two machines: 2 sessions in any order and 2 commands for 1 user; 2 users and 2 power actions. Any number of reloads |
| `cache_safe` | Is no update lost, nothing acknowledged before it is durable, nothing old removed too early? Does the directory implement `Store`? | 2 greeters, 1 user, 2 selections, 1 failing call, 1 crash |
| `cache_migration` | Finding 2 | the same without a crash |
| `screen_bars` | Is a dropped drawing made up for, do keys keep their order, does a late reading go away, does the screen close? | queue of 3, 4 keys, 3 changes |
| `startup` | Do the related fields stay consistent through starts, edits and reloads? Does the highest valid layer win, one wrong argument cost only itself, and a reload come to what a start would? | every command line of at most 3 arguments of 16 kinds; every field with items of every type in both files; every option with every kind of value; every combination within the four related groups; all ways in which a file does not load; 1 edit, 1 reload |
| `config_theme` | Finding 3 | the same |
| `parts` | Do frames fit, with the cursor in its field where the next key goes? Is the terminal usable when the greeter is gone, unless a signal it does not listen to killed it? Is a battery reading a mean of what can be measured? Is the menu the view the session files give, in order, and does a command run with the arguments its author wrote? | screens from 0x0 up with `MaxU16` = 12, so that the sums saturate; 3 supplies of 10 kinds; 2 directories, 2 ids, 4 lists for each type; every command of at most two short words over 8 characters, in every way to write it; 20 commands with field codes, with and without an icon |

Why the bounds are enough to be of use: two users let a request of one login meet the screen of another; two
sources, one of them not rememberable, tell the started session from the current settings; two cancellations
let the second meet what the first left behind; a queue of two is one more than the property allows. Two failures are the
retry and the one after it (the code gives up at `MAX_RECOVERY_ATTEMPTS`, which the model keeps as its
bound). Two edits give the superseded plan; two greeters the race for the state file; one crash follows any
failure. Two commands let what is left of the first meet the second. A queue of three holds a key between two
drawings. Each part of a layer has its own readers and meets other parts only in its group, so the groups are varied
one at a time, and two files and a line are all the layers there are. Three arguments hold an option, its detached value and what
follows it; two session directories a file and what it masks. The screens use only the views the keyboard reaches (a
password screen always comes with itself as the previous one, a user name with no previous password).
The counters that grow in the code (generations, revisions, edits, keys) are bounded in guards by
`MaxCancels`, `MaxEdits`, `MaxKeys` and `MaxChanges`. In `Ipc`, a reload that takes the last source away is
explored only while a cancellation is left in that bound.

**Fairness.** `Ipc`: Tokio keeps polling ready tasks, every wait of the actor has a deadline, and the main loop
looks at controls first; so the actor's steps, the controls, its end and the exit are weakly fair. Nobody has to
type, answer, reload or send a signal. `Reload`: the watcher, the worker and the main loop's steps are weakly
fair; nobody has to edit or leave. `Power`: the worker task and its timers, the reading of the outcome and the
join are weakly fair; no process has to die. `Screen`: the workers, the blocking thread and the main loop run;
no key has to come. `UpdatesAreApplied` leaves out updates whose preparation panics and greeters whose
watcher fails: the code drops those updates with a notice.

### Findings

1. `console_reload` (`PromptIsLive`). Enter the password screen, start a power command, and let a reload remove
   the last launch source while it runs. The login is cancelled and reset, but when the command fails
   `finish_power` (`main.rs:376`) brings the saved password screen back, with no conversation behind it. The
   comment at `greeter.rs:1388` says the login is cancelled "instead of accepting a password for a session that can no longer be launched".
2. `cache_migration` (`FirstUseMigrates`). If the first load fails once, the greeter runs with an empty state
   and leaves the old files alone; its first commit then writes a state file without them (`cache.rs:376`), and
   no later load migrates them. The README says they "are migrated on first use".

3. `config_theme` (`EveryColorCounts`). A file that names colors in `display.theme` and has a `[theme]` table as well
   gets the table alone: `config.rs:1680` replaces all ten components, also those the table does not name or names
   wrongly, without a warning. The README says of a file with mistakes that "valid fields still take effect".

Five more gaps appear among the hazards with a note and no run of their own: the retry that queues a request
just after a cancellation (`ipc.rs:503`), a reload in the middle of a recovery (`greeter.rs:1391`), contents that are read in passing and then restored (`watcher.rs:308`), the
signal to a group after its leader is gone (`power.rs:534`), and the signals nobody listens to (`terminal.rs:213`).

## 4. Proofs

| Theorem | Says |
|---|---|
| `IpcProofs!TypeCorrect` | `Spec => []TypeOK` |
| `IpcProofs!SuccessIsReal` | the greeter exits with success only if greetd has started the session |
| `IpcProofs!NoForgottenWait` | the actor never goes to sleep on a wait that nobody serves |
| `IpcProofs!NoCancellationLost` | until the reset the actor has a cancellation to see or is on its way |
| `IpcProofs!NobodyWaitsForRoom` | one request is queued at most, so the lock is never held while waiting for room |
| `IpcProofs!PromptsAreForTheirUser` | a prompt belongs to a conversation that is open for the user on the screen |
| `IpcProofs!ConversationKeepsPromise` | `Spec => ImplementsLogin`: one session opens, it alone is remembered, success is reported over it |
| `IpcProofs!OnlyLegalRequests` | `RequestsAreLegal`: every request reaches greetd in a phase that accepts it |
| `IpcProofs!AnswersReachTheirAccount` | `AnswerGoesToItsAccount`: what is typed for one account never reaches another account's conversation |
| `IpcProofs!NoCancelBehindStart` | `StartIsNotCancelled`: no `CancelSession` follows a `StartSession` |
| `PowerProofs!TypeCorrect` | `Spec => []TypeOK` |
| `PowerProofs!CommandsAreContained` | when the worker has ended without success, what it started has ended or been killed |
| `PowerProofs!NoStrangerIsStruck` | a number that may have a new owner is not signalled |
| `ReloadProofs!TypeCorrect` | `Spec => []TypeOK` |
| `ReloadProofs!MenuIsCurrent` | the menu is that of the settings in force |
| `ReloadProofs!NoLostRevision` | the newest revision is in the slot, with the worker or in the channel |
| `ScreenProofs!TypeCorrect` | `Spec => []TypeOK`: the queue keeps within its capacity |
| `ScreenProofs!ChangesAreDrawn` | a change that is not drawn yet has a drawing coming |
| `ScreenProofs!KeysArriveInOrder` | the keyboard handler gets each key once, in order |
| `MenusProofs!TypeCorrect` | `Spec => []TypeOK` |
| `MenusProofs!ChoicesHold` | what would be launched is there and allowed, and an open popup has a highlighted entry |
| `MenusProofs!ConversationStays` | behind popups over popups lies the screen of the conversation; no secret or command outlives its prompt |
| `MenusProofs!ChoiceSurvives` | `ReloadKeepsChoice`: a reload keeps what would be launched while that is there |
| `MenusProofs!HighlightSurvives` | `HighlightStays`: a reload leaves each highlight on its entry while that is listed |
| `CacheProofs!TypeCorrect` | `Spec => []TypeOK` |
| `CacheProofs!CommitsAreDurable` | what a power loss restores was written by the last commit that returned, or after it |
| `CacheProofs!OldEntriesSurvive` | a file of the old version goes only when its entry survives any power loss |
| `CacheProofs!CacheImplementsStore` | `Spec => StoreSpec`: the directory is a state that changes in one step |
| `ConfigProofs!LayersKeepRelations` | one more layer of any content keeps the relations between the fields |
| `ConfigProofs!SettingsStayConsistent` | so do starts, checks, edits and reloads |
| `ConfigProofs!UnwarnedPathsAreRoots` | a path without a warning is one only root could have written |
| `ConfigProofs!HighestLayerWins` | each setting in force is that of the highest layer with a valid value for it |
| `ConfigProofs!ReloadsAgree` | a reload of unedited files comes to what the start came to, or to nothing where the start warned |
| `ConfigProofs!LinesAreRecovered` | getopts accepts what is left of a command line and has what was kept; nothing is dropped that could have stayed |
| `PartsProofs!FramesFit` | the blocks of a frame nest, the essential rows go last, newest feedback and highlighted entry show |
| `PartsProofs!FeedbackFits` | `feedback_layout` keeps container, gap and message inside any area, also where sums saturate |
| `PartsProofs!CursorsFit` | the cursor is in its field, behind the drawn text before its place, and there when it should be; entries, caps lock mark, battery and time keep clear of each other |
| `PartsProofs!TerminalRestored` | a greeter that is gone leaves the terminal usable, unless a signal it does not listen to killed it |
| `PartsProofs!ReadingsHold` | a reading exists just when a battery can be measured, and lies between the emptiest and the fullest |
| `PartsProofs!ListingsHold` | the session list is the view the search path gives, by names, ids and directories, every session once for its type |
| `PartsProofs!ShellReadsBack` | the shell reads what `shell_join` writes as the arguments it was given |
| `PartsProofs!TokenizeReadsBack` | `tokenize` reads what an author may write as the arguments the author wrote |
| `PartsProofs!ParseExecIsExact` | `parse_exec` gives what the author meant, field codes replaced, and refuses only what cannot run |
| `PartsProofs!CommandsAreExact` | `PartsSpec => []ExecIsExact`: a session in the menu runs what its author meant, and what can run is in the menu |

They hold for any users, sources and bounds, for a hasty and a paced user (`NobodyWaitsForRoom`, `PromptsAreForTheirUser`,
`ConversationKeepsPromise`, `OnlyLegalRequests` and `NoCancelBehindStart`: for a paced one, `~Hasty`, the case their properties
are checked in), with and without reverting edits and
panics, for any files, arguments, menus, machines, batteries, directories, terminal sizes, texts and wrapping, from the assumptions the modules name: `None` is
nobody's value, the bounds are naturals, the slots of the cache and their values are distinct (`CacheAssumption`),
`/etc/login.defs` gives naturals (`LoginAssumption`), a command line is a sequence of arguments and `None` names no option (`LineAssumption`), a text wraps to a natural number of rows
(`LinesAssumption`), the cursor of a field is a place in its text (`FieldAssumption`; `clamp_cursor` of `ui/input.rs` sees to it),
what a supply's file says is a natural number or nothing (`BatteryAssumption`, `NoneIsApart`), directories and ids are finitely many and
numbered in the order of their names, and names that differ have different ranks (`DiscoveryAssumption`), `None` is no
response, no session, no entry and no cursor (`NoneAssumption`), and where the arguments of an author are known they are
`Proper` and the file that holds them is alone, searched, and refused for nothing but its command (`AuthorAssumption`, which also
names the few characters an alphabet must have). TLC evaluates each of them on the instances of section 3. `ShellReadsBack`,
`TokenizeReadsBack` and `ParseExecIsExact` are about all arguments, of any number and length, over any such alphabet.

*Ipc.* `TypeOK` is not inductive by itself: a step that starts a session builds its entry from the captured
one, so the strengthening says that a captured session exists while one is being started. `SuccessMeansStarted`
rests on a chain: the exit status comes from a control message, which comes from a reply, which greetd gives
only for a session that runs. The invariant has one conjunct for each link, and each kind of actor (keyboard, main loop, greetd, IPC
actor) has its lemma. `WaitingIsServed` and `CancellationIsSeen` are proved together, since a cancellation
empties the wait and a wait may be ended by one: the screen's state is related to the actor's program counter.

For a paced user five more results follow from one another. A request is queued only when none is, by a key to a
settled actor or by an actor between two requests (`QueueInv`). Hence what the actor carries belongs to the login on the
screen: until the shutdown, while the screen waits for greetd, the request in the queue, in the actor's hands and on the wire names
its user and its generation, and greetd's conversation is open for that user (`TalkInv`; a cancellation changes the generation and
takes the screen out of the waiting states in one step, so nothing is claimed for it). Hence the success that ends
the conversation is for the user on the screen, the captured session is the one `StartSession` names, and its
success is the last one (`LoginInv`): each step of `Ipc` then opens, remembers or leaves as `Login` allows, or changes nothing
of these. Last, `LegalInv` relates greetd's session to what the actor is about to write: `StartSession` is in its hands exactly
while the screen starts a session, a session runs only behind such a screen or when the actor has given up, and a screen
that is to begin has no session behind it. `CreateSession` may be left over (a retry queued just after a cancellation), so it
is not tied to a screen: it is legal because the screen it then meets is idle.

A hasty user may leave requests of several logins in the queue, so for `AnswerGoesToItsAccount` nothing can be said of the
screen and the wire alone. `AccountInv` goes through the queue in its order: the conversation an answer will meet is the one of the last
`CreateSession` before it, or else the one in the actor's hands, or else the open one, and that is for the answer's user
(`Follows`); the screen that asks follows the whole queue, its user cannot change while a password is asked for, and no
conversation outlives its connection, which is what a cancellation closes.

*Reload.* `MenuMatchesSettings` needs that whoever holds the newest revision (slot, worker or channel) holds a
snapshot equal to the settings in force, and that older revisions are never applied; that is `HolderInv`, beside
`RevisionInv` on the order of revisions and `StartupInv` for the time before the loop.

*Power.* The guard of the first process carries both theorems: it is armed from the spawn to the end, and disarmed
early only where nothing runs or all has been killed (`GuardInv`); and an individual process that is gone has a
disarmed guard (`NumberInv`), so a stranger with its number is left alone.

*Screen.* A dropped request is made up for because a full queue holds a redraw, or the worker is about to send one:
every key in the queue is followed by a redraw or is the one the worker has just sent (`KeysAreFollowed`), also once the main
loop has taken it (`HandledIsFollowed`). That is why a capacity of one is enough. For the order, `KeysAreSorted` says
that the keys in the queue are consecutive, from the one after the last handled to the last sent.

*Terminal.* A mode that is on is either one the guard will turn off, or one whose operation failed: `Guarded`.

*Cache.* The invariant follows one greeter through its calls. `LockInv`: only the holder of the lock is past it.
`WriterInv`: what the holder read is still in place until its rename, what it writes is that with its update or with old
entries it keeps, and its temporary file is flushed before the rename; this is why no other greeter's update can be
lost. `FileInv`: what the names on disk may fall back to. The refinement then has one step for each call: a rename is the
store's commit or migration, the flush of the directory its flush, a power loss its power loss, everything else a stutter.

*Config.* The four groups (and the theme) have a lemma each: the group's own step of `apply_layer` establishes its relation
whatever it is given, and the steps of the others do not touch its fields. Nothing is assumed of a layer.

For `HighestLayerWins` the invariant says of the unfinished settings that they are what the layers up to the current stage give,
field by field, a later stage adding one layer on top (`LoadInv`, `Staged`). The strict and the lenient load pass the same stages, so that
where no stage is refused they end alike: this is `ReloadsAgree`.

*Options.* `LineIsRecovered` relates a walk over the arguments to the reading of other lines: the one without what was warned of,
and one more for every warning. `GetoptsStep` is an automaton, so the lemmas on runs (see *DesktopEntry*; each of the two modules
of theorems holds its own copy) give its state in front of each argument when a set of positions is dropped (`At`), and that this
state depends on the positions behind only (`BelowAgrees`). The invariant `LineInv` says of the walk between two arguments (`Between`) that the
state of getopts there has taken exactly what was kept, waits for no value and has no option twice (`Agrees`); that each
word that stays has something in front of it (`HasOwner`); and that each dropped option has its reason (`Excused`): its neighbor is
no text, or getopts fails or repeats an option in the step that takes it whole, or it waits for a value and no word follows. Within
a cluster (`Within`) the same holds of the letters in front of the offset, with the cluster still to be read to its end. From
the reasons follows the last part of the property: with the option back in the line the state is the same up to it, and a reader
that has failed, or has one option twice, stays so (`LostToTheEnd`), and one that waits in vain meets something that is no word, since a
word that stays has an owner, or the end of the line (`WaitsInVain`).

*Menus.* The invariant is about the record: each highlight is on an entry (`SoundMenus`), the open and the saved screen nest as the
conversation needs (`Staged`), what is chosen can be launched (`Usable`) and what is open may be open (`Allowed`). A reload breaks
the last two on its way, and what it keeps of them (`Repairable`) is what its repairs start from. Every key and every stage of
`apply_reload` has a lemma; the two properties of a reload follow the entry, not its index, through all stages.

*Battery, Discovery.* The sums and folds are related to their partial results by induction, which the prover gets from the
least number where a claim fails (`Induction`, from the well-foundedness of the naturals; the library's induction theorems take an operator). The
reading is compared with the emptiest and the fullest battery multiplied out (`SumsCompare`). The walk keeps in `Walked` that the ids met
so far are decided as the whole search path decides them. That the list is sorted and complete is a fact about counting: placing
each element of a finite strict order by the number of elements before it lists each of them once and in that order (`RanksList`); the sort keys the property names are the order of the sort (`PrecedesAbove`). The model defines the sort
that way, as is the order of the status entries, since the prover knows nothing of the library's `SortSeq`.

*Layout.* Heights are compared with the true, unbounded sums: where a saturated sum differs, the true one does not fit
either. `feedback_layout` makes promises about what it cuts first (`KeepsPromises`), for any wrapping, and a frame is put
together from rectangles that end within `u16`. The cursor stands in its field because the window on the text starts at the leftmost
place from which the columns up to the cursor leave one free; it ends at the rightmost one that still fits (`ViewIsAround`). What the selected entries take is bounded over the fold that selects them: the
columns used so far are the sum of the selected widths with a blank before all but the first.

*DesktopEntry.* `tokenize`, `expand` and the shell are automata over characters, written as folds. The invariant of such a loop is
about data, where an induction theorem would be wanted. The proof goes through the run of an automaton instead: the function that
gives its state after each element (`IsRun`), which exists (`RunExists`), is the only one (`RunIs`) and is what the fold of the library
computes (`FoldLeft` of the model unfolds to it, `UnfoldRuns`; the induction is over lengths, by the least length that fails). Two
lemmas then do the work. `RunJoins`: the run over two sequences is the run over the second from where the first ends.
`RunFlattens`: if an automaton passes from `s[k-1]` to `s[k]` over the k-th of a list of sequences (`Passes`), it ends in the last of
these states over all of them. Whatever is written by concatenation is so read piece by piece: characters to words, words to arguments,
arguments to a line. What remains at each level is one table of steps. For the shell: four characters bring a quote back to where it
was (`EscapedQuote`), any other stands for itself, and a blank between two closing and opening quotes ends a word. For
`tokenize`: an escaped or a plain character inside of quotes is pushed, a bare one is too, any number of blanks before an argument
ends the one before it (`BlanksAreRead`, `ArgumentIsRead`). For `expand`: one or two characters for each item, which a
file code may follow only if none was met before (`MetBy`); this is where `Proper` is needed, since `seen` goes
on from argument to argument (`AskedGrows`, `AllAreMeant`). `CommandsAreExact` joins them with the walk: the one
file decides about its id wherever it is in the lists (`LoneDecides`), so that by `ListingsHold` its session is listed exactly if
its command is not refused, and what the shell reads of it is what was meant (`ViewIsExact`).

What stays with TLC: the liveness properties (`CancelCompletes`, `ShutdownCompletes`, `StartIsSettled`, `CommandEnds`, `ThreadsEnd`,
`UpdatesAreApplied`, `BatteryGoesAway`, `ScreenCloses`), since the prover does neither fairness with `ENABLED` nor leads-to.
Every safety property that a passing run checks is a theorem.

## 5. Not modelled

* greetd's framing (`ipc_codec.rs`): one read and one write with a size limit. Its outcomes (a message, a malformed one, a
  time-out, the end of the file) are the failures of `Ipc`.
* `/etc/issue`, host name, the enumeration of users, keyboard lights, the logger, texts and macros: formatting and
  single calls, without state. The list of users is what a `machine` of `Menus` offers.
* The syntax of TOML and the spans of its errors, styles, titles and wording. Graphemes count by their widths.
* The cursor within a field while it is edited, the prefix search of the user name completion (any new content of the field
  stands for both), and the choice of the power commands for what is installed.
* A reload worker that cannot be spawned (the greeter then does not start), and a second thread that panics in a build
  that aborts on panic.
* What becomes of the terminal when `SIGHUP`, `SIGQUIT` or `SIGKILL` ends the greeter after `TerminationSignals::new`: raw mode,
  alternate screen and cursor stay as they are, since nothing of the program runs any more. `Terminal` has the step; nothing is claimed
  behind it.

## 6. Plan

Done, in the order of importance: the login (`Greeter`, `Ipc`, `Login`), reloads, power commands and the main
loop over them, the cache and its store, drawing, menus, the terminal; then the configuration with the command line,
desktop entries with their commands, the layout of a frame, and the proof that the cache implements its store.

Left, the model: the choice of power commands (`greeter.rs`), a read of `ipc_codec` cut at any byte, the text cursor of a field.

Left, the proofs: only liveness, which is out of the prover's reach. Of the functions that are checked over bounded inputs
(`PartsMC`) only those are proved that section 4 names.
