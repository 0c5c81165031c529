# A verification project for lulism

`lulism` runs one modded Minecraft server from wherever its people are: a command
line, a desktop application, a terminal dashboard, a JSON-RPC agent that a phone
reaches over SSH, and a watchdog daemon. All of them drive the same host with the
same library (`src/src/lulism`) and share a few files. Each is an ordinary
sequential program; what is hard is that several of them run at the same time,
that every remote command can fail or lose its reply, and that the game server
crashes when it likes. That is what these modules are about.

## Inventory

| Component | State it keeps | Operations | What makes it correct |
|---|---|---|---|
| server lifecycle (`server.py`) | none of its own; the host's processes and tmux session | start, stop, restart, kill, adopt, status | one server per world; a stop leaves nothing behind; the server is where the next command looks for it |
| watchdog (`watchdog.py`) | last save, lag strikes | observe, decide, act, for ever | it heals, within its budget, only what people want; the breaker stays tripped |
| watchdog state file (`state.py`) | `armed`, `desired`, `halted`, `restarts`, `last_alerts` | set_desired, set_armed, record_restart, should_alert | no update is lost, intent is what people asked for |
| operations lock (`util.py`) | a flock | acquire without waiting, release | mutual exclusion, always released |
| backups (`backup.py`) | the archives, the world directory, the server's autosave switch | create, prune, verify, restore, extract, mirror | an archive is consistent, autosave comes back, no world is lost |
| JSON store (`util.py`) | any JSON file | save through a temporary file, load with a default | a reader sees the old or the new content |
| event journal (`events.py`) | `events.jsonl` and one rotated file | emit, read, follow | a follower sees every event once, in order |
| agent (`agent.py`) | capabilities, event thread | dispatch one request per line, event stream | one answer per request, streams end, the session never hangs |
| phone client (`AgentClient.kt`, `ServerRepository.kt`) | pending calls, connection state | call, open, shut down, connect, disconnect | every call ends, with its own answer; one connection at most |
| console (`console.py`, `rcon.py`) | RCON connection, cool-off | send, send and wait | a command takes effect once, or the caller knows |
| crafting (`crafting.py`, `RecipeStore.kt`) | none; the phone's copy of the recipes | plan, cost, craft, list | what is given was taken; the phone has every recipe |
| assets (`assets.py`, `AssetSync*.kt`, `IconCache.kt`) | the phone's cached icons and their digests | manifest, batches, sync plan | the phone ends with the catalog's icons |
| GUI (`gui_app.py`), dashboard (`dash.py`), CLI (`cli.py`) | worker queue, flags, settings, conversation | the commands above | they take the lock; a button comes back; what is shown is fresh |
| players, properties, mods and their configs | files of the host | single commands; read, change, write back | no edit is lost for good |
| metrics, logs, spark, inspector, doctor, LLM, charts | samples | parsing, reports | parsing; not a matter of state |
| migration (`util.py`), units, notifications, configuration | local files | run once, or fire and forget | a crash does not leave half a copy |

How they interact: every front end calls `ServerControl`, `BackupManager` and the
rest in its own process, through ssh commands. They meet in the `OpsLock`, in
`watchdog.json`, in the journal, and on the host: its java processes, its one tmux
session, its world directory and its files. The watchdog reads what people wrote and acts by
the same operations. The phone's client talks to an agent process of its own, which
calls the same library.

Hard behaviours, each with its line and the properties that cover it, are the
"hazards" of `PROJECT.json`; the five without a property say why none forbids them.

## Modules

| Module | Models | Role |
|---|---|---|
| `WatchdogState` | `state.py`, `decide` of `watchdog.py` | values and pure functions |
| `ServerOps` | `server.py`, `OpsLock`, `watchdog.py`, the front ends' lifecycle commands, the host | the core: processes interleaved step by step |
| `ServerOpsLive` | the daemon's loop and the deadlines | liveness of the core |
| `ServerOps_proofs` | | theorems about the core |
| `Rotation` | `plan_rotation` of `backup.py` | pure functions, and the policy they implement |
| `Backup` | `backup.py`'s create and prune, the console's send, whatever saves the world | backups that overlap with each other and with the server's life |
| `Backup_proofs` | | theorems: types; autosave; the archive is the world of one moment; rotation; a made archive is kept |
| `Restore` | `backup.py`'s restore and extract with their script | a script that outlives its client |
| `Store` | `load_json`, `save_json`, the helpers of `state.py` | the file under the register |
| `EventJournal` | `events.py` | appenders that rotate, and the read with a cursor |
| `AgentMethods` | the registry and the gates of `agent.py` | a table of operations with capability, confirmation, lock and footprint |
| `Agent` | `serve`, the handlers and the event stream of `agent.py` | composes `EventJournal` and `AgentMethods` |
| `Agent_proofs` | | theorems: types; the journal keeps what is recent; a stream is faithful |
| `Calls` | what a caller of the agent is promised | abstract specification |
| `AgentClient` | `AgentClient.kt` with the agent at the other end | implements `Calls` |
| `ServerRepository` | `ServerRepository.kt`, the screens that cancel it | connections in cancellable scopes |
| `Phone_proofs` | | theorems: the refinement of `Calls`; one connection |
| `Crafting` | `craft` and `plan_craft` of `crafting.py`, `Console.send` under it | a transaction over an unreliable console |
| `Recipes` | the parser and the listing of `crafting.py`, `RecipeStore.kt` | pages of a filtered list |
| `Cost` | tags and the cost tree of `crafting.py` | recursive functions against their meaning |
| `Crafting_proofs` | | theorems about `Crafting`, `Recipes` and `Cost` |
| `Migration` | `migrate_legacy_dirs`, `ensure_dirs` of `util.py` | first starts at once, and killed |
| `Gui` | the window's worker, flags, callbacks, settings, chat of `gui_app.py` | one main loop and one worker |
| `Editing` | `write_text` of `transport.py` and its users | editors with older copies |
| `Files_proofs` | | theorems about the files of `Store`, `Migration` and `Editing`, and about `Restore` |
| `Frontends` | every operation of `cli.py`, `gui_app.py`, `dash.py`, the agent, the watchdog | who acts without the lock, two at a time |
| `Gui_proofs` | | theorems about `Gui` and `Frontends` |
| `DataTheorems` | | lemmas the others share: induction, recursion by steps, folds, sums, least and greatest |
| `MCServerOps`, `MCServerOpsLive`, `MCBackup`, `MCAgent`, `MCCrafting`, `MCParts` | | observations, calendar, requests, recipes and symmetry for TLC |

The components that share nothing with each other are checked in one run: `MCParts`
picks one of them in its initial state, the rest stay as they are.

### ServerOps and the code

A process is one invocation of lulism. `pc[p]` is its place in the code, and each
remote command, each look at the host and each access to `watchdog.json` is one
step. The action names follow `server.py`: `start` is `FindNone`, `ClearSession`,
`Launch`, the edit `set-up`, `Await`; `stop` and `kill` are the edit `set-down`,
`Target`, `Ask`, `Terminate`, `Kill`, `PidGone` or `Survived`, `Reap`; `restart` is
the second and then the first. `Save` applies the helper of `state.py` that
belongs to the place (`Edited`); with `AtomicState = FALSE` the load is a step of
its own (`Load`), and another process's save can come between the two. The
watchdog is `Observe`, `Decide`, then what `Act` says: `Backoff` (the sleep, when
nothing is held), `Record`, `TakeLock`, and the same operations as everybody.

`Abort(p)` stands for every way an operation ends early: an exception of the
transport, a `ServerError`, Ctrl-C, a kill. It may happen in every place, and it
leaves the host and the files as they are; `Leave` gives the lock back, as the
`with` block and the kernel do. The operations' own early ends that also change
something are actions: `Launch` without its reply, `Survived`.

On the host, `jvm[j]` is a process that is up, exiting (it no longer serves, its
process still exists, so `find_pid` sees it) or off; `pane` is what the tmux
session shows: nothing, the start script, a server, or a dead pane. `Exit` is a
crash or the end of an exit; `ScriptRuns` is the start script becoming java or
failing. A signal may be ignored by a server that hangs (`MayExit`), SIGKILL is not.

Two variables exist for the properties only: `launched`, the recorded restarts that
did launch a server, and `intent`, what a person last asked for.

### What is left out, and why it does not matter here

- The OpsLock and the state file are local to a machine. The model is one
  machine, the placement `DESIGN-BRAIN.md` asks for.
- Every front end uses the configured session name; a server started by hand in
  another session, and `adopt`'s change of the name in memory, are not modelled.
- Process ids are not reused while somebody waits for one (`FreeJVMs`).
- A remote command takes effect before its reply, or the reply is lost; it never
  takes effect after its caller has gone on.
- A restart's time stamp is a member of a finite set; `Age` takes it out of the
  window. The stamps that are out of the window decide nothing and are dropped. No
  attempt lasts as long as the window.
- The rate limits of alerts are a free choice: of two alerts in one pass the second may be
  saved late (`SlowAlert`), from the copy that `act` loaded at its beginning. The
  loads of `step` and of `act`, which follow each other, are one.
- `eula.txt`, the countdown, the log, the notifications and the evidence are steps
  that change none of this state.

### Backup and the code

A client is one invocation again, and `pc[p]` its place in `create` and `prune`:
`Look` (the disk guard and `find_pid`), `SaveOff`, `Flush`, `Wait`, `Tar` (the script
starts), `Pack` (its reply, or an error), `Unlink` (`rm -f` of the temporary file),
`Resume` (the `finally`), `List` and `Delete` (`prune`). `Undo` is the handler of a
pause that failed. A console command is put into `inbox` when `send` has
brought it to the server and takes effect when the server `Execute`s it; it may also be
lost or, when RCON's reply is lost and tmux repeats it, be executed twice. The server's autosave, a flush, a stop
and a start write the world: an archive whose script is reading at that moment is not
`clean` any more. A `save` without the lock is such a flush. The script is a process of the host: it goes on
when its client is gone, and ends with the rename or somewhere before.

`Rotation` has `plan_rotation` twice: as the code computes it, by
sorting and taking first hits, and as its documentation says it, in `Retained`.

Here stopping and starting the server are single steps (`ServerOps` has their parts), and they
come at any time: `S` and `X` of the dashboard and `config set --restart` take no lock. The ghost `meddled`
remembers that somebody without the lock used the console, or started or stopped the server, between
the `find_pid` of the client that holds the lock and its script's reply; an archive's `excuse` is that, or
that its maker had no lock, or that a flush was not over when its script began. `Interrupt` is Ctrl-C: a `finally` that was entered still runs, the handler of a
failed flush does not. A time stamp is a number, and no two backups have the same
(the code's have seconds). `dry` runs change nothing and are left out.

### Restore and the code

A client passes the checks of `restore` and `extract` one after the other (`Exists`,
`MayReplace`, `Verify`), sends its script and waits. The script is a process of the host
with a state of its own: `Start` moves the world aside, `Unpack` adds one part of the
archive to whatever is in the directory by then, `Fail` and `Test` are `set -e -o pipefail` and
`test -d`. `Die` ends the client only. The lock goes with it, so a second
restore may begin while the first script unpacks; the ghost `orphan` remembers that. `StartStop` comes at any
time, as in `Backup`; `intruded` remembers a start while somebody held the lock. A server that starts makes
whatever is missing of its world. A content is a
set of pairs of an origin and a part, so a mixture of two worlds is one that can be seen.

### Store and the code

`inode` is what a name leads to. `OpenTmp` empties the temporary file that another
writer may have open, `CloseTmp` writes the buffer, `Replace` renames whatever has the
temporary name by now. A buffer that was not closed is lost with its process.

### EventJournal, Agent and the code

`emit` is `Stamp`, `Check` (the size), `Rotate` (the rename), `Open`, `Write`; the file is an
inode here too, because an appender goes on writing into one that has been moved away. `read` is
`Newer`, in two steps of its caller: whether the file is there, then its content.

The main thread of `Agent` is in one of four places: it reads, waits in `join`, has a
reply to write, or has ended. A request passes `Gate` (the checks of `handle_request` in their
order) and is then `Hello`, `Shutdown`, `Subscribe` or `Call`. A stream thread looks at the stop flag, looks for the
file, reads it, and writes one event at a time under the write lock; `EndSend` takes as
long as the phone likes. Which stop event a thread looks at is the session's, not its own, as in
the code. `join` may return early: its two seconds are not modelled.

### AgentClient, Calls, ServerRepository and the code

A call is `Register`, `Send`, and then `Return` when its deferred is completed. The
reader's end is two steps (`ReadEnd`, `Clear`), between which calls are registered.
`Calls` has two variables: what the agent made of each call, and what its caller knows.
`KeepsPromise` maps `caller` onto the second and takes `outcome` as it is: a caller gets
the outcome of its own call's one execution, or an error that says nothing about it.

In `ServerRepository` a step is what a coroutine does on the main thread between two
places where it waits. A screen that is left cancels its coroutine, which throws at
the next wait (`task["left"]`) while the next screen's runs. A `close` in a
cancelled scope closes nothing: it begins with `withContext`, which throws there. A dial that fails may have connected
its SSH client before: `SshAgentTransport.connect` keeps it in a local variable until `exec` has gone through, so nobody disconnects
it (`Dial`). The ghost `lost` holds the connections that whoever opened them has let go of (`LetGo`).

### Crafting, Recipes, Cost and the code

`Ways` are what can become of a console command: RCON answers; it fails and tmux repeats
what may have been executed; neither. `Readings` is what `_clear_count` makes of each
answer: over tmux the answer is whatever lines the log has gained, a chat line or a late reply as well, whose first number is
the hour of its time stamp, or nothing, so either may be read whether items were removed or not. The ghost `blind`
holds the requirements of which a `/clear` left RCON.
`Probe`, `Decide`, `Take` and `Give` follow `craft`; the player changes their inventory or leaves once at
any time (`Play`).

`Recipes` has the listing script file by file, the parser, and `RecipeStore`'s
loop over the pages. `Cost` has `resolve_tag` and `cost_breakdown` and no steps: the run
evaluates them on every bounded input. The recursion of the code is a function of the depth that is
left (`Walk`, which never nests deeper than there are tags, and `Produce`, down to `max_depth`), each level given the
one below, so that it can be reasoned about; `TagsMeanTheirFiles` and `CostBalanced` say what they compute without recursion.

### Migration, Gui, Editing, Frontends and the code

`Migration` interleaves first starts: `StartUp` (does the destination exist), `MakeDir`,
`CopyFile`, `RemoveCopy` (the handler of a failed copy), `EnsureDirs`.

`Gui` has the worker's queue, the job that runs, and the idle callbacks. A handler submits jobs
and puts up their flags in one step; the worker takes and finishes; a callback puts the
flag down and may submit more. Kinds of jobs that differ in nothing but their widgets are one.
The data of a job is what it found, or what it will put back.

`Editing` is read, think, and one script: temporary file, `.bak`, rename. The text
an editor writes is what was read plus the edit, as a set of edits.

`Frontends` is a table of some 150 operations and the lock. What a save or a typed console command may change is in the
world, and a command may stop the server; none of them takes the lock. Two runners take one each, of which one at least
changes the server, its world or its archives; `Observe2` is when an operation looks,
`Work` when it acts.

## Runs

| Run | Instance | Shows |
|---|---|---|
| `locked` | 2 users, watchdog, 2 servers, 3 restarts, `max_restarts` 2, every command | `TypeOK`, `LockProtects`, `OneServer`, `RestoreOffline`, `RestartBudget`, `OnlyPeopleClearHalt` |
| `dash` | 2 users, one without the lock, watchdog, slow start script, torn edits | `ServingInPane`, `StopLeavesNothing` |
| `live` | 1 user, watchdog, 1 server, slow start script | `LockReleased`, `SelfHeals` under `LiveSpec` |
| `stop` | 1 user, watchdog | violation of `StopNeverFought` |
| `halt` | 1 user, watchdog, a backup | violation of `HaltFollowsRestarts` |
| `intent` | 1 user, watchdog, freezes | violation of `IntentHealed` under `LiveSpec` |
| `backup` | 2 clients; 3 archives of locked creates and of prunes, or 2 of locked and lock-free creates and saves; lock-free starts and stops, late, lost and repeated commands | `TypeOK`, `ReportedConsistent`, `AutosaveBack`, `PlanIsPolicy`, `MadeIsKept` |
| `backup_ctrlc` | 1 client | violation of `AutosaveGuaranteed` |
| `agent` | 2 appenders, 3 events and 1 stream, or 1 appender, 2 events and 2 streams, or 2 appenders and 5 events | `TypeOK`, `RecentKept`, `FaithfulStream`; `StreamsEnd`, `AlwaysServes`, `StreamCatchesUp` under `Fairness` |
| `parts` | the components that share nothing, one per initial state | see below |
| `crafting_tmux` | 3 items, 3 recipes | violation of `NeverOverGranted` |
| `phone_hang` | 1 call and `agent.shutdown` | violation of `NobodyHangs` under `FairClientSpec` |

The properties of `parts`:

| Part | Instance | Shows |
|---|---|---|
| `calls` | 1 call and `agent.shutdown` | `KeepsPromise`: the client implements `Calls`; `CallsEnd` under `ClientFairness` |
| `phone` | 3 channels | `OneConnectionAtRest` |
| `craft` | 3 recipes (2 of an item; alternatives; overlapping alternatives), 2 loose items of a kind | `Backed`, `FairTrade` |
| `recipes` | every listing of up to 3 files of 5 kinds and 3 ids, pages of 1 | `PhoneHasAll` |
| `cost` | every sequence of up to 3 tag files of 12; every assignment of 6 rules to 3 items, 1 to 3 wanted (`Amounts`), depth 2 | `TagsMeanTheirFiles`, `CostBalanced` |
| `restore` | 2 clients, 1 archive of 2 parts | `NothingLost`, `NoHalfWorldServed`, `RestoredIsArchive` |
| `file` | 2 processes, 2 fields, 2 files | `UpdatesKept` |
| `migrate` | 2 starts, 2 files | `MigratedWhole` |
| `window`, `talk` | 2 jobs, 2 changes, 3 turns, 2 addresses | `FlagsAreJobs`, `ShownIsFresh`, `SettingsKept`, `ChatAlternates` |
| `edit` | 2 editors, 3 edits, 3 seconds | `Recoverable` |
| `ends` | every pair of operations of which one changes the server, the world or the archives | `OnlyTheLockless` |

### Bounds

Two users and the watchdog are three contenders for the lock, one more than
any property relates; two servers are what `OneServer` needs to be false; three
restarts with a budget of two let a fourth attempt find the window full, and a
stamp that has aged be used again. Nothing else is bounded: the commands come in
any order and without end. Users are symmetric in `locked`; in `dash` they are not
and only servers and restarts are permuted. The liveness runs use no symmetry.

Two properties need a condition the code does not always meet, and the runs state it as a
constant. `OneServer` and `RestoreOffline` hold when every front end takes the
lock (`LockFree = {}`) and the start command is java itself or becomes java at once
(`SlowScript = FALSE`): `find_pid` looks for a java process, so a start that fails
between `new-session` and the script's `exec` can be followed by a restore that
finds no server. `RestartBudget` and `OnlyPeopleClearHalt` hold when two edits of the state
file do not overlap (`AtomicState = TRUE`): the file has no lock, and an
overlapping edit can bring an older `halted` or an older list back.

In `Backup` two clients, because a third adds no new pair of places; as many
archives as rotation needs to keep by each of its three rules and still drop one
(two a day, one week, `keep_recent` 1, `keep_daily` 2, `keep_weekly` 1), two where
rotation is not the question. `MCBackup` explores two parts because their product says nothing more: in one, creates that
take the lock, and prunes, up to three archives, of which the third is made with the server down; in the
other, locked and lock-free creates and saves, with two commands waiting in the console, so that one may be
repeated or another client's be in between. Longer queues, and a third archive made while the server runs, are left to the proofs, which know no such bound.

`ReportedConsistent` says what the code ensures, and its ghost `excuse` what it does not. `wait_in_log` gives up
after a minute, its result is not used, and a "Saved the game" that belongs to an earlier flush is taken for one's
own, so tar may read a world that is still being saved. A backup from the dashboard takes no lock, and its save-on ends the
pause of another one; a save of anybody writes the world that is being read; and a server that is started without the
lock, during a backup that found none, writes that world too. All of these are in the run, which therefore shows that nothing else spoils an archive.
Rotation counts a `.tmp` file as an archive. A backup that was killed can therefore
displace a finished one, and "the newest finished archive is never deleted" is false;
`MadeIsKept` is what holds: nobody deletes the archive of a create that is still under
way, which is what `config.py:197` asks `keep_recent` for.

In `agent` a file is full with two events. Two streams are one that a `join` left behind and its
successor; a third is in no place these are not. The run explores three parts, because their
product says nothing more: two appenders under one stream, whose three events rotate the journal once; streams started and stopped over one
appender with two events; and two appenders alone with five events, which rotate it twice. Only in the last is the kept file replaced: events
are dropped in turn there, which `RecentKept` allows, and out of turn when two writers rotate at once, which it names
in `astray`. In that part every event has a millisecond of its own, as which file it is in depends on no stamp.

In `parts`: two restorers of one archive are a script left by a dead client and the next one; a
world of two parts is what can be half there. Three edits by two editors
overwrite each other and a third time; three seconds give each a `.bak` of its own.
Three channels are the old one, the one that is dialled in a screen that was left, and the next.
Two jobs are one that runs and one that a handler adds; the callbacks' own come on top of
that. The window is explored once with settings and no conversation and once with a
conversation and no model query. In `craft` the button and the count are both tried; an offline start only with
the button, and 2 wanted is left out, between 1 and the 3 that the stack refuses. Two operations at a time are
what `OnlyTheLockless` relates.

Several properties name, as a ghost, what they do not promise:

| Ghost | What it excuses |
|---|---|
| `excuse`, `meddled` (`Backup`) | a maker without the lock, a late flush, a console command, start or stop of somebody without the lock |
| `unheard`, `abandoned` (`Backup`) | a save-on that was lost; Ctrl-C during a pause |
| `astray` (`EventJournal`) | the events that a writer overwrote with a file he had not measured, or that were written into a file moved before; all others are kept |
| `lost` (`ServerRepository`) | the connections that a failed dial, a failed handshake or a screen that was left has let go of; all others are counted |
| `shaky`, `blind`, `moved` (`Crafting`) | a command that left RCON, and the requirements whose `/clear` did; a player who interferes |
| `hollow` (`Recipes`) | a page of recipes none of which could be parsed |
| `orphan`, `intruded` (`Restore`) | a client that died while its script went on; a start without the lock meanwhile |
| `mixed` (`Store`) | two helpers that overlapped |
| `trouble` (`Migration`) | a failed copy, a kill, two starts at once |
| `crossed`, `parted` (`Gui`) | settings saved during a model query; "New" while a reply is awaited |
| `rushed` (`Editing`) | two scripts that overlapped or fell into one second |

Without it each of these properties is false, by the code and not by the model. Where a document says
otherwise, it is listed under "Where code and documentation disagree".

### Fairness and calm

`LiveSpec` lets a behaviour become calm: from then on nobody types a command,
no operation fails and the watchdog's link holds, while servers still crash. Nothing makes
it become calm, and `LockReleased` does not mention it. Weak fairness is asked
of a process that is under way, because every wait in `server.py` has a deadline,
and of the watchdog's loop, because `run_forever` catches every exception and goes on. Nothing is
asked of people, of faults, or of the host: a server need never exit, a start
script need never become java.

The agent's `Fairness` says that threads are scheduled and that the phone reads what it is sent in the
end, so a write ends. The write lock is taken again and again by others, and Python's locks
are not fair by themselves; strong fairness of whoever waits for it is what a scheduler gives
that does not always favour the same thread. Nobody has to emit, to ask or to hang up.
`ClientFairness` says that coroutines that can go on do, and that the agent answers what
it has read, which is `AlwaysServes`. The other components are checked for safety only.

### Where code and documentation disagree

With a run each:

- `stop`: the watchdog decides, sleeps its backoff (tens of seconds) and starts,
  without reading the state file again. A stop typed meanwhile is undone, against
  the first design rule of `watchdog.py` and the README's table. In the shortest
  trace the stop fails after it has written `desired`; one that completes is
  undone the same way.
- `halt`: the restart is recorded before the lock is asked for. A backup that
  holds the lock while the server is down therefore turns into a full window, and the
  breaker trips with a message about restarts that never were.
- `intent`: `restart` writes `desired=down` before it stops and `up` only after it
  has launched. If the restart of a frozen server fails in between, the file says
  people want it down, and the watchdog never looks again.
- `backup_ctrlc`: Ctrl-C while a backup waits for its flush sends no save-on, because
  the `finally` that would begins only after the pause has succeeded and the handler before it
  catches two exceptions of the library. `AutosaveBack` is what does hold: an
  interrupted pause and a lost save-on are the only ways to leave autosave off.
- `crafting_tmux`: the number of items removed is the first number of the answer. Over tmux the answer is a
  line of the log, whose first number is the hour, so a craft can be granted for more
  than was taken; a repeated `/clear` takes twice and counts once. `Backed` and `FairTrade` are what holds.
- `phone_hang`: `AgentClient.kt:97` completes pending calls "so callers don't hang forever". A call that is
  registered after that, and a call that waits when `shutdownAndClose` cancels the reader, is completed by nobody, and
  `await` has no timeout. `CallsEnd` is what holds: a call that waits while the reader reads ends, unless somebody shuts the client down.

Met while modelling, without a run of their own (a ghost above, or an outcome a model
allows, stands for each):

- `ServerRepository.kt:49` says there is never more than one live connection. A screen
  left while it connects, a handshake that fails, and a dial that fails in authentication, session or exec leave a connection open
  that nobody closes.
- `backup.py:1` calls the archives consistent snapshots, and lines 4-6 have tar wait for "Saved the game". The result of the
  wait is not used (153), and a server that somebody starts without the lock during a backup is not seen (147).
- `DESIGN-0.5.0.md:121-124` has `events.subscribe` emit each new line. A second event of one millisecond, or one that is appended after a
  later stamp was read, is in the file and never emitted (`events.py:84`); and a rotation between the look for the file and its
  reading ends the stream's thread, while the session believes it has a stream (`events.py:76`).
- `events.py:1` calls the journal durable. Two writers that rotate at once overwrite a file that may hold the event written last (61-64).
- `SessionService.kt:20-21` speaks of re-establishing the session, which no code does. A
  connection that breaks ends the reader with an exception that nothing catches.
- A migration that fails or is killed is not tried again: `ensure_dirs` makes the
  destination, or part of a copy is already there. Two first starts at once: the second's copy fails on the
  first's directory and removes it.
- `RecipeStore.kt` moves its offset by the recipes it could parse, the server counts those it
  listed: pages overlap and recipes come twice. A page on which none parses is taken for the end.
- `crafting.py:268-269` says a datapack's override wins. An override of a type that is not listed does not
  count as seen, so the mod's file is listed.
- `craft` reports what it gave although `/give` may have failed; options that overlap are counted
  for each requirement.
- `cost_breakdown` uses a surplus again inside the ancestry of the item it belongs to.
- `backup.py:329-332` says only finished archives are transferred; the pattern matches `.tmp` files.
- `gui_app.py:72` says the connection is touched by the worker thread only; two places use it on the main
  thread (1230, 2905). Settings that are typed but not saved are written over by the tick (1221-1222).
  A model query puts an older address over one saved meanwhile (1029-1035). "New" while a reply is awaited leaves
  a turn without its question (1956). A follower that ends late may put a line into its successor's queue (1254-1270).
  An edit of the properties that was refused because another action runs is reloaded, and lost (2391-2392).
- `transport.py:120-123` names `.bak` files by the second: two edits in one second keep one.
- `util.py`'s OpsLock is there "so two lulism invocations can't fight over start/stop/backup". Fourteen
  operations do without it, which `Frontends` names in `WithoutLock`: `backup prune`, `config set --restart`, the dashboard's backup,
  start and stop, every front end's save and the watchdog's, and the console commands that people type. A server that one of them starts
  runs on a half-unpacked world while a restore holds the lock.

## Theorems

`ServerOps_proofs` proves, for all sets of users, servers, observations and restarts and every
`max_restarts`, with no further assumption than those named in `ServerOps`:

- `TypeCorrect`: the type invariant. It is strengthened by `Attempting` (while
  the watchdog is at a step that needs its recorded restart, there is one), which
  is a result too: `LaunchesAreRecorded`.
- `MutualExclusion`: `LockProtects`. Its invariant adds where adopt may stand,
  because adopt edits the file as start does, and without the lock.
- `SessionHoldsServer`, from a server's only two ways to life, and `StopIsComplete`
  from it: a stop reaps the session last, so a server that another start put there
  meanwhile goes with it. Neither needs the lock.
- `OneServerPerWorld`, `OneServer` and `RestoreOffline`, assuming `Disciplined` (every front end takes the lock, no
  slow script): `WorldInv` says that whoever stands between its look at the
  processes and its launch, or at restore's swap, holds the lock and sees no
  server alive. That is not implied by `OneServer`, and is what a step needs.
- `BreakerHolds`, assuming `AtomicState`: `HaltInv` says that while the breaker
  is tripped the watchdog is idle or about to decide, so no decision taken before is under way
  when it trips; only the watchdog trips it, and it does so as its last step.
- `BudgetKept`, assuming `AtomicState`: `BudgetInv` says that launches are among
  the file's restarts, that these never exceed the budget, and that a watchdog on
  its way to record one has budget left, although people edit the file meanwhile.

`Backup_proofs` proves `AutosaveIsAnswered`, `AutosaveBack` for any number of clients and
commands, with or without the lock. `AutosaveBack` is not inductive: what matters is
what the switch will be when the console has executed all it has (`WillBeOff`). The
invariant `SwitchInv` says that, if autosave will be off, somebody is pausing or one
of the two accidents has happened; lemmas about the queue say what a send adds to it and
that executing its head does not change its outcome.

It proves `ArchivesAreConsistent`, `ReportedConsistent`, for any clients and commands. The invariant (`Stages`) goes through the stages of
a pause: what the console still has to execute at each place of the client that holds the lock, so
that from the end of a flush that was waited for nothing writes the world, and an archive that is being read is clean. It holds
while nobody has meddled, since only one client with the lock is between save-off and save-on; an archive
of a client without it is `Disclaimed`.

`BackupTyped` is `TypeOK`; it needs that no two files, and no two creates under way, have one time stamp (`NamesInv`).
`RotationIsPolicy` is `PlanIsPolicy`, for every calendar and all counts: lemmas say that the sorted
files have each file once and the newest first, that as many are newer as come before, and that the first hit of a
bucket is its newest file, from which the code's loops are `Retained`. `MadeArchiveIsKept` is `MadeIsKept` for
clients that all take the lock in `create` (`OneMaker`): the name of the one under way is then the last one given (`LastName`), and whatever is
to be deleted has something named after it (`Spared`), because no plan drops the newest; so a prune
with an older list does not take it either.

`Phone_proofs` proves `ClientKeepsPromise`: `ClientSpec => KeepsPromise`, the refinement of `Calls`,
for all sets of calls and outcomes. The invariant says that a reply on its way, and a
deferred that was completed with an outcome, carry the outcome of the call they belong to; that only the head of the wire has been
executed without an answer; and that no call is on the wire twice. It also proves `OneConnection`,
`OneConnectionAtRest` for any number of channels: every open channel that
is not among the `lost` is the one the screen on view is shaking hands on, or the one the repository holds (`ViewInv`).

`Files_proofs` proves `WorldIsKept`, `NeverServesHalf` and `SuccessIsTheArchive` from one
invariant, `UnpackInv`: unless a client has died or somebody has intruded, a client that waits owns the lock and is the only one
with a script in the world (`Owned`), the server is down meanwhile (`Offline`), and the directory holds parts of
its archive only (`Filling`). `WorldIsKept` needs none of this and holds for orphans and intruders too.

It is also about the files several processes write, for any number of them.
`AloneNothingIsLost` is `UpdatesKept`: unless helpers overlapped, the one that is under way has loaded what the file holds, and only it
has a file open (`AloneInv`). `MigrationIsWhole` is `MigratedWhole`: while nothing has gone wrong one command at
most is starting, it copies only what is not there, and nobody is past the look before it has copied everything. `EditsAreRecoverable`
is `Recoverable`: a script that is about to replace the file has put what it replaces into a `.bak`, and no
second script has come in between.

`Agent_proofs` proves `RotationKeepsRecent` of the journal and `SessionKeepsRecent` of every agent session:
`RecentKept`, for any number of writers, events and any size of a file. The invariant says of every event that it is in the file it was written to (`Placed`), and, unless it has gone astray, that
this file is the live or the kept one or the event is old, and that what is in the live file now came after all that is elsewhere (`Found`);
that is more than `RecentKept` because it is needed when the live file becomes the kept one. A writer that is about to rotate has measured a file
that was too large, and files only grow. A session changes nothing of the journal, so the result carries over to `Agent`. `SessionTyped` is the session's `TypeOK`.
`StreamIsFaithful` is `FaithfulStream`: of each stream thread by itself, in a journal whose stamps are in order. Two threads that overlap in one
session each send every event. The property speaks of what was sent only; `StreamInv` relates it to the rest of a
thread: what it has read and not sent comes behind what it sent, its cursor stands between the two but while it writes an
event or once that failed (`Cursor`), and of everything up to there it has sent or still has what is not in a file that was moved away (`Complete`).
A read brings all that is behind the cursor, which is a fact about the recursive `After`, by induction over the lines.

`Gui_proofs` proves the four properties of the window for any number of jobs, changes, turns and addresses. All rest on
`FlagInv`: a flag that is up is held by exactly one job among those that wait, run, or have their callback pending, and no job
lacks its flag (`FlagsBelongToJobs`); lemmas say what submitting, taking, finishing and calling back
do to that, and each handler cites one. `StatusIsFresh` adds that a status on its way which was outrun by an action
has that action's callback behind it, and that this callback asks anew or finds a refresh under way.
`SettingsStayInUse` adds what a model query will put back, and that a connection to another host has a reconnect under way.
`ConversationAlternates` adds which parity a conversation has at each place of its one job.

It also proves `LocklessAreNamed`, which is `OnlyTheLockless` of `Frontends`, for any number of runners and whatever table satisfies
`TableAssumption`: the lock is held by exactly the locked operation that looks or works, so of two that upset each other one is in
`WithoutLock` (`EndsInv`): the five, the saves and the typed commands. The assumption is about the table alone, and TLC evaluates it on the table of the code.

`Crafting_proofs` proves of the craft, for any recipes, counts and inventories and whatever becomes of a
command: `NothingForNothing` (`Backed`), from `PaidInv`: of a requirement that is not `blind` what is counted as taken was taken (`Accounts`);
of one whose `/clear` left RCON nothing can be said; what is given is what the counts back (`Grants`). And
`UndisturbedIsExact` (`FairTrade`), from `FairInv`: calm, the probes add up what the options hold (`Probed`), the stock lasts
for what is still to be taken where requirements do not share options (`Stocked`), and no more is counted than
is needed (`Modest`). `CraftingAssumption` names what a recipe is; what is loose and on offer are sums, about which
`DataTheorems` has the lemmas.

It proves of the recipe list `PagesAddUp` (`PhoneHasAll`): a page is a piece of the listing (`PageIsPiece`), what
`RecipeStore` has is what can be parsed of a beginning of the listing (`Collected`) and, if all can be parsed, just that
beginning in its order (`InOrder`); its offset never runs ahead of it. `PagesAssumption` gives the limits as the code caps them.

It proves of tags `TagsAreWhatFilesSay` (`TagsMeanTheirFiles`): merging file by file leaves what the files that count say
(`MergedIsDirect`); a walk (`Walked`) keeps what it began with, has all that the tags it newly saw list, and has
nothing outside any set of tags that is closed and contains its own. A walk may meet tags that are being walked through, so
this is about what was seen, not about what is done; it holds of a walk through a tag if it holds of those it nests,
of which every one begins with one more tag seen (`VisitWalked`), and at depth zero all tags were seen.

It proves of the cost tree `BooksAlwaysBalance` (`CostBalanced`), for any set of amounts of at least 1. What is `Owed` of an item is what is used and left
of it less what is bought and crafted. A call of `produce` lowers what is owed of its item by its quantity and leaves the
rest as it was, whatever it found in the books, and leaves less than one craft of everything (`Pays`, `Frugal`), if the calls one level down do
(`BillPaid`, `IngredientsPaid`); so all do, by induction over the levels. The ingredients of the target are owed at the beginning and
produced one after the other; then nothing is.

`DataTheorems` has what these need about data. The library's induction theorems take an operator, so the induction is
over a set that plays the predicate (`Induction`, `SetInduction`, `ShrinkInduction`), proved from well-foundedness of the
naturals. `Steps` and `FoldsExist` give a recursive function its existence, after which the definition's `CHOOSE` is
that function. On this rest the facts about sums (`SumRemove`, `SumLess`), minima and division.

Only model-checked: the liveness properties (`LockReleased`, `SelfHeals`, `StreamsEnd`, `AlwaysServes`, `StreamCatchesUp`,
`CallsEnd`), because the provers do not reason about fairness, and the six disagreements. Every safety property that a
passing run checks is a theorem.

## Not modelled

- Asset extraction (`assets.py`): two passes of a script over jar files, then pure functions over their
  listing. The phone's cache of the icons is the one part with state.
- Configuration: one user at a time loads, validates and writes a file. The window's save of it is in `Gui`.
- Notifications: HTTP requests whose results nobody uses. The phone's poller keeps the time of the newest
  message; what the `ntfy` service does with it is not in this repository.
- Metrics, logs, spark, inspector, charts, LLM: commands, parsing and drawing. As operations they are in
  `Frontends`, their thresholds are inputs of `Decide`.
- RCON's framing, login and cool-off: they decide which of a command's outcomes happens, and all of them
  are allowed everywhere a command is sent.
- The phone's other screens, the host-key question, the GUI's log follower, the dashboard's drawing.

## Plan

The plan of this project's modules is carried out, and so is that of its proofs. What would come next:

1. RCON's cool-off as a component with a clock; the log follower of the window.
2. The steps of the liveness arguments that are safety: what each helpful step leaves, as action properties.
