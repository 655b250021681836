# qilla in TLA+

qilla runs a user's *routines* (scripts and claude prompts) as jobs of a SQLite
queue, with one supervisor process that systemd starts on demand and that exits
when idle. Around the queue sit a dozen small state keepers, most of them plain
files that several processes read and rewrite without a lock. This directory
holds specifications of the parts where order, interleaving and failure decide
whether the program is right, their TLC configurations, and proofs for TLAPS.

Paths below are relative to the repository (`internal/...`, `cmd/qilla/...`).

Contents: 1 inventory, 2 modules and how they correspond to the code, 3 runs and
bounds, 4 fairness, 5 proofs, 6 where code and comments disagree, 7 what is not
modelled, 8 plan.

## 1. Inventory

| Component | State it keeps | Operations | Talks to |
|---|---|---|---|
| job queue `internal/queue` | table `jobs` (state, due, attempts, not_after, priority ...) | Enqueue, Next, Done, Fail, Requeue, Suspend, Pending, Drain | everyone who enqueues; the worker |
| supervisor `internal/serve` (serve, hub) | process memory: wake/act/stop channels, idle timer, backlog of its socket | Listen, Run's select loop, acceptPokes, Kick, Stop | systemd sockets, CLI pokes, page |
| page `internal/serve/http.go` | none of its own | ask, run, retry, drop, reconcile, artifacts, events | queue, supervisor, reconcile |
| reconcile `internal/reconcile`, `cmd/qilla/reconcile.go` | none of its own | one round over the must_run routines | queue, run ledger, poke |
| run ledger, budgets `internal/ledger` | table `runs` | Record, SucceededToday, Spent, Gate | worker, reconcile, drain |
| worker `internal/worker` | tables `digests`, `sessions`; pending files of judge routines | one run of a job | claude, vault, render, memory, artifacts |
| enqueue, run (`cmd/qilla`) | append to a pending file | insert, poke; run a worker inline | queue, supervisor, worker |
| judge candidates `internal/candidates` | one `.jsonl` per family | Add, Drop | flows, worker |
| sessions `internal/session`, `cmd/qilla/chat.go` | row per agent, retired rows | Attach, rotate, Set | chat and worker on one row |
| chat feed `internal/serve` (chat, hub) | tail cursor, replay buffer | follow a transcript, publish, replay | claude's transcript, the page |
| config holder `internal/config` | pointer to the live configuration, stat of its file | Get, Reload, Force | supervisor, handlers, worker |
| reminders `internal/remind` | delivery state file | tick, reset | a 5-minute timer, user |
| tasks, sweep, handoff `internal/tasks` | Markdown task files | NextID, sweep, MarkDone, Send | several hosts |
| gmail staging `internal/gmail` | stage and applied ledgers | Stage, Gate, Apply, untrash | routine, user |
| fetch ladder `internal/fetch` | domain ledger file, shared browser session | Fetch, --forget | star gathers, CLI, decider |
| catch-up `internal/catchup`, `cmd/qilla/log.go` | bookmark per agent; Log section of daily notes | append a line, print new lines, advance | sessions of an agent |
| working memory `internal/mem` | tables `mem_notes`, `mem_meta` | Add, Search, hits, Purge, Forget, promote | worker, gathers, commands |
| deciders `internal/decide` (ask, trace) | trace file | ask, fall back, count, trace | jev (remote), kev, gathers |
| starlark gather `internal/star` | none of its own; what a dry run suppressed | the built-ins of a script: http, write, run, fetch, ask, sqlite, mem ... | worker; vault, servers, programs |
| engine status `internal/engine`, `cmd/qilla/run.go` | none; reads `jobs` and `runs` of another host | Remote, Local, Decide | the drain of the engine, over ssh |
| artifacts `internal/artifacts` | a document and a sidecar per id | Add, List, Path, Remove, Purge | worker, command, page, reconcile |
| web login `internal/auth`, `cmd/qilla/passwd.go` | key file, hash in `qilla.toml`; failures in memory | login, logout, valid, passwd | page, systemd's restart |
| bundles and units `cmd/qilla/init.go`, `internal/manifest`, `internal/install` | files of a bundle, unit files | Ensure, Check, Units, prune and write | every command; systemd; the author |
| plugin `internal/plugin` | a directory of links, hooks.json, Claude Code's copy | Materialize, Union, RefreshCache | every command; the user's directories |
| models, doctor, procs ... | see `PROJECT.json` | | |

Correctness in a phrase, per component:

* **queue**: a job is in one place at a time, runs at most as often as its
  routine allows, never spins, is served after an enqueue that was answered, and
  stays settled unless the user re-opens it;
* **supervisor**: no wake-up is lost between an insert and the drain, whatever
  the process was doing, and yet the process goes away when there is nothing to do;
* **reconcile**: a must_run routine that failed is tried once more and only once
  after its window, nothing live is duplicated, whoever inserted wakes the drain;
* **judge run**: a parked candidate is judged or kept; what is skipped as
  unchanged did get through;
* **fetch**: the ladder is climbed to its end, the ledger remembers what worked,
  no window is left behind;
* **run of a routine**: nothing is skipped that is not on its note, a budget is
  overshot by one run at most, every finished run is learned from;
* **sessions and chat**: all entry points of an agent land on one session, and the
  page shows what was said in it;
* **configuration**: an edit is seen, a run uses one valid configuration throughout;
* **memory, catch-up**: what expired goes, what was said again stays; a line of the
  log that was passed over was printed;
* **decisions**: among the options asked for, private input stays at home, remote
  calls are capped;
* **gather**: a script does what its manifest declares, and in a dry run only says so;
* **engine**: an agent host does not run what the engine is at or has just done well;
* **artifacts**: what is listed is served whole;
* **login**: a session lasts as long as its password, over restarts; guesses are limited;
* **bundles, units**: a timer means a routine that is ready; the author's files stay;
* **plugin**: after a command that is alone there, the directory is what is configured.

Hard behaviours: the supervisor, `qilla run`, timers, CLI calls and HTTP handlers
are concurrent and share a SQLite file with **no transaction** around any
check-then-act; files are read and rewritten whole minutes apart; the supervisor
can be killed at any point; pokes and the ledger's insert fail silently.
`PROJECT.json` lists 40 such hazards at their lines, with the property that
covers each or the reason none does yet.

## 2. Modules

### JobQueue (and JobLifecycle, its abstract specification)

`internal/queue/queue.go` and `drain.go`, with every writer of the table. One
action per SQL **statement**: `EnqueueLookup`/`EnqueueDeduped`/`EnqueueInsert`
are the two statements of Enqueue; `ExpireOverdue`, `SelectJob`/`SelectNothing`,
`MarkRunning` those of Next; `RunFails`, `RecordFailure` the read and write of
Fail. `GateBlocks`, `GatePasses`, `RunDeferred`, `RunSucceeds` are the branches
of Drain. `RetryFromPage`, `DropFromPage` are the handlers of `http.go`, which
update a row whatever its state. `AbortDrain` stands for a crash, or for any
statement whose error makes Drain return. Columns that never change after the
insert are the record `job[id]`; `state`, `due`, `attempts` are functions.

`JobLifecycle` says what the statements amount to for one job: it waits, is taken,
starts, settles or goes back; the user's buttons may overrule; an abort may
forget it. `JobQueue!ImplementsLifecycle` maps the table to it (status is the
column, in hand is the drain's local id, started its program counter).

### Supervisor

`internal/serve/serve.go`, `cmd/qilla/enqueue.go`, `cmd/qilla/reconcile.go`, the
enqueueing handlers of `http.go`. The process is `down`, `failed`, in `select`, in
a `drain` or `closing`; the channels of the select are booleans (each has room
for one token, Kick drops the rest). CLI clients insert, then poke; handlers
insert, then kick; `acceptPokes` is a goroutine of its own. Jobs are seen from
outside (due, later, ripe, running, settled): what happens to them inside a drain
is JobQueue's. Systemd keeps the sockets, so pokes made while the process is down
wait in the backlog and start it.

### Reconcile

`internal/reconcile/reconcile.go` with its two callers (the timer's process, the
page's button). A round is a program counter and locals: it reads the ledger,
then per routine the pending rows, the late rows, Enqueue's lookup and Enqueue's
insert, one statement each. Against it move the routine's own timer, the drain
(attempts, backoff to tomorrow, gate), the page, the clock (a day and an hour),
a lost ledger row, a failing statement and a crash. Two rounds may go on at once, the
timer's and the page's. History, read by properties only: rounds that a statement cut
short (`cut`), rows inserted by rounds that had all asked `hadLateJob` before one of them
inserted (`raced`), rows that were in the hands of a supervisor that died (`orphans`).

### JudgeRun

One run of a judge routine (`internal/worker/worker.go`: `run`, `inputPending`,
`dropPending`, digests) and `qilla enqueue <judge> --text`, on one pending file.
The unit is one system call; `os.WriteFile` is two, a truncation and a write at
the start of the file, so a line appended between them is partly overwritten
(`WritePending` chooses what is left of it). The list handed to the model is kept
with the *text* inputPending makes of it, since `[]`, `null` and the empty string
(a damaged line) take different branches. Between gather and answer lie minutes,
in which anything may be appended, and in which `qilla run` may execute a second
worker: it does not take the supervisor's place in the queue.

### FetchLadder

`internal/fetch` (`Fetch`, the browser rungs, `headedGate`, the ledger) and
`qilla fetch --forget`. A fetch is a program counter over `res.Order`; whether a
rung is skipped, yields something else or yields the page is a choice, and so are
the decider's answers. `tried` is the code's map, `reported` the rungs in
`res.Tried`: that the two differ is the finding below. Two things are shared by
every fetch of the machine: the ledger (loaded at the start, renamed over at the
end, with one `.tmp` name for all) and the browser session, of which the model
keeps the headed window. A close of the session is assumed to succeed. Writing
the `.tmp` file is one step.

### Candidates (and AtomicQueue, its abstract specification), GmailStage, Remind, VaultTasks, Handoff

Files that several commands read and rewrite without a lock. One action per read,
append, write of a temporary file and rename, and per notification or request to
Gmail in between; a command that dies, or whose write fails, simply ends there.
Three things about Unix files decide what is lost, and are modelled:

* an append goes to the file that was *opened*, so after a rename it goes to a file
  without a name (`attached`; Candidates, GmailStage, Handoff);
* Candidates and GmailStage have **one** temporary name per file, which a second
  rewriter overwrites and whose rename then fails; Remind, VaultTasks and Handoff
  use `os.CreateTemp`, so their read-to-rename is read plus one step;
* what is written is computed from what was read, whatever happened since.

Candidates (`internal/candidates`, `cmd/qilla/queue.go`): DropAll goes through the
families; queues are sets of lines. `AtomicQueue` is what the queues would be with a
lock around every rewrite of a family: an add puts its candidate at once, a drop takes
its ids at once, and only a family in which a drop overlapped another command may be
left with any of the candidates that were put there. `Candidates!ImplementsAtomicQueue`
maps the lines to their ids; its step for an add is the append, for a drop the rename.
GmailStage (`internal/gmail`, `cmd/qilla/gmail.go`): stage, the gate with its own read
of the file, apply account by account and chunk by chunk, the two ledgers, untrash; the
reading routine is reduced to which messages were staged before the start of its newest
good run, which is what the gate compares. Remind: the delivery file, ticks and resets;
a scan is one step. The vault has *lines*, and lines with the same text and time are one
reminder (`KeyOf`), as `remind.Key` has it: a tick looks all of them up before it
notifies any. What a scan cannot read it passes over. VaultTasks (`tasks.go`,
`sweep.go`, `aging.go`, `remind.Add`): notes are sets of task lines, and `new` and
`done` *walk* them one after the other, the archive before the todo file as the
directory order has it; a note that a walk cannot read is passed over without a word, by
`new` (which may then miss its ids) as by `done` (`unread`). Handoff: the note is a
sequence, because its lines are addressed by number.

### RoutineRun

A run of a routine that gathers its own input (`Worker.run`, `gather`,
`secrets.go`, `claude.go`, `loader.go`, `render.go`), by the supervisor and by
`qilla run` at once: secrets mounted and removed, gather, the digest test, prompt and
settings, the model's outcomes (error, usage limit, no result), then memory,
artifacts, the vault's commit, the note and the digest, each a step that may fail or
be the last one. An input stands for its digest and for the note made from it. A
failure between note and digest, and overlapping runs, are history (`disturbed`).

### RunLedger

`internal/ledger` and its readers: the gate (global, routine and agent caps; asks and
scripts exempt) that looks at the day's rows before a run, the record that comes after
it with the time it *started*, and `inputRuns` of the learning routine. The drain's
run starts in a later step than the gate's answer, so that midnight may come between.

### Memory

`internal/mem` over SQLite: a note and its meta row are two tables and every
operation several statements, run by the worker and by commands. Note ids are rowids
and are used again once the highest is deleted (`NewId`); a meta row made for such an
id is `astray`, and the property about a purge excludes it.

### Catchup

`qilla log`, which reads a daily note, empties it and fills it with one line more, and
`qilla catchup`: load the bookmark, scan two notes, print, save, each a step. The
bookmark is a count, so what the user edits is part of the model (`Whole`); and a logger
that read a note before an edit puts back what the edit took out, behind what was
printed since (`undone`).

### AgentSession

`internal/session` with its callers: read the live row, look up the age of the
transcript, retire and repoint (two statements), run claude for minutes, set the row.
Chats and workers share it. `raced`: somebody wrote the row over a change made since
he read it, which the code allows and after which the chain of successors need not
reach the live session.

### ChatFeed

The tail of a transcript (whole and half lines, rewinds, rotation), the hub that drops
events for a slow page, and the page with its replay and delayed reload (the script in
`ui/index.html`). A history gives the newest `PageTurns` turns (the page asks for 60, the
handler's default is 40 and its limit 500), or none if the transcript cannot be read.
`excused`: turns a page with no event since is not told of. Left out: that a run of turns
with nothing but tool calls counts as one, so that a real history reaches back further.

### ConfigHolder

`internal/config/holder.go` under edits, a reader's stat, the drain's reload and SIGHUP; a
file is its size, its mtime and what it says. `unseen`: an edit that kept size and
mtime of the one before; `forced`: a SIGHUP in the middle of a run. Validation is
reduced to what a run depends on: a routine, its agent and a field's legal values.

### Decisions

`decide ask`: route, endpoint, the answer's label and confidence from each of the
three protocols, the floor, one retry of a 429, the fallback on kev, the daily cap read from
the trace (whose lines count as none when it cannot be read: `Counted`), and the line
appended at the end, by several askers. Probabilities are per
cent; the texts of prompts are left out.

### Gather

`internal/star` and `Worker.gatherStar`: a script is free to make any of `Calls` next,
and each built-in is an action, or two when it waits for something outside (`Http` ..
`Redirect`* .. `HttpReturns`, `Write` .. `CreateTemp` .. `Rename`, `RunCommand` ..
`CommandReturns`). What a call may do is decided by the manifest's capabilities and by
`dry`; the one program that neither is asked about, the `systemctl` with which a headed
browser looks for a display, is `PrepareDisplay`. The deadline is two steps, the context
and the goroutine that cancels the thread. What a call *returns* is the script's
business and left out.

### EngineCheck

`qilla run` on an agent host. The engine's side is its drain (mark, run, record, settle),
a run by hand, and their deaths, a row the ledger cannot write, and the page, which
re-queues or drops a job that is running (`Unmark`); the answer is two queries, `LocalRunning` then
`LocalLast`; the agent's side is `Decide` and what `runRoutine` makes of it. `met` are the
runs of the drain that were under way when the engine was reached.

### Artifacts

`internal/artifacts` with importArtifacts, the page's two handlers, `qilla artifact` and the
purge that follows a reconcile round: a document and a sidecar are written in place, each
in two steps, and removed in the other order. A listed id is looked up (`Path`) and then
opened (`Serve`).

### WebSessions

`internal/auth` and `cmd/qilla/passwd.go`: the key file is read or created in a later step
than the configuration (`Start`, `LoadOrCreateKey`); passwd writes the hash, then removes the
key, and may fail in between. A login is let in (`TooMany`) and compared in a later step.
The history `quiet`/`fresh` says whether a change of the password crossed a process's start.

### Bundle

`cmd/qilla/init.go`, `internal/manifest` and the scaffolding and unit part of
`internal/install`. `Start` .. `Look` .. `WriteDefault` is Ensure, one file at a time, by init
and by any other command; `Check` computes the rows of the manifest's check;
`CheckRoutine` the plan, `Prune` and `WriteUnit` the files of it. With `--force` it begins by
putting the template in the place of `qilla.toml` (`Overwrite`): the routine's table, the
settings a manifest may require and the list of hosts are the template's from then on. A
stale unit that cannot be removed stops nobody (`stuck`). What changes by hand is the table,
the machine (pieces, what the signals print), the manifest and the bundle.

### PluginUnion

`internal/plugin`: `Materialize` follows links when it writes; `Scan`, `List`, `Judge`,
`RemoveLink`, `Link`, `MergeHooks` are linkTree and the hooks, each reading anew what the
step before has seen; `Refresh` is the copy with links followed, one step. `alone` is the
command that began with nobody else under way and nothing changed since.

How they fit together: Supervisor's drain is JobQueue's DrainStep seen from
outside; Reconcile's rows are JobQueue's with time cut down to days; Reconcile's
poke is the event `reconcile = "poke"` of Supervisor. JudgeRun is one `GatePasses`
... `RunSucceeds` stretch of a job. They are checked separately because their
products are beyond TLC; each module takes from its neighbours only what the code
reads from them.

The modules beside the queue are put together in three modules, whose behaviours move
one component each: `Serve` (Supervisor, AgentSession, ChatFeed, ConfigHolder, Decisions,
Gather, EngineCheck, WebSessions), `Routine` (Reconcile, RoutineRun, RunLedger, Memory,
Catchup) and `Files` (Candidates, GmailStage, Remind, VaultTasks, Handoff, Artifacts,
PluginUnion, Bundle). They declare the constants of all their components, with the
assumptions on them, and the theorems of section 5 are about their specifications
(`ServeSpec`, `RoutineSpec`, `FilesSpec`). `MCServe`, `MCRoutine` and `MCFiles` extend them and
only give values and bounds. `MCTimers` (JudgeRun, Remind) is for liveness and is not
proved about.

Definitions named `X_Y` beside an `X` under a comment "Mutant" are wrong variants
of X: a property that still held with one of them in place would say nothing.

## 3. Runs

Passing runs.

| run | what it shows | bounds, and why they are enough |
|---|---|---|
| `jobqueue_safety` | rows keep to the lifecycle; running rows are held; attempts within the allowance; served enqueues; no duplicate of a fresh job | Two enqueuers. `LongOrCrowded`: one row for 3 ticks with expiry and 2 presses of a button, or two rows for 2 ticks with one press or crash - and with both enqueuers at it, in any order of their lookups and inserts, while the clock stands (`Serial` else). Each property speaks of one or two rows; 2 attempts, backoff 1 then 2, an expiry at the next tick and one abort put every branch of Next, Fail and Drain within reach. More rows, and two enqueuers over time, are the proofs' business |
| `serve_safety` (`MCServe`) | `NoneIsMissed` (Supervisor's NoMissedWake and NothingLeftBehind); `HistoryChains`; `QuietPageIsComplete`; `ConfigIsWhole` (EditIsSeen, RunIsOfOneConfig); `DecisionsKeepTheRules` (DecisionsAreSound, CallsOnRecordWithinCap); `EffectsAreDeclared` and `DryRunIsListed`; `EngineIsNotAtIt`; `LoginIsGuarded` (SessionsFollowThePassword, LimitOvershoot) | a CLI job that reconcile may insert and an ask from the page, and any two of a retry, a failure and a crash; a worker and a chat over three session ids (two rotations); three lines of which one is plumbing, a channel of one, a replay of two and a history of one turn, so that each overflows; one rotation, rewind or restart; two edits among five files, one clock tick, one SIGHUP; two askers, three asks of four kinds, a cap of one, a midnight; four manifests, with and without the headed browser on the list, twelve calls of every kind, three of them per script, two redirects; two runs of the engine, both windows an hour, two hours, any of its rows lost and any mark taken off; two logins where one may fail, one change of the password, two keys, one cookie |
| `supervisor_live` | due jobs are taken, the process exits when idle, SIGTERM is obeyed | one job with its timer, one failed poke or statement, one SIGTERM |
| `routine_safety` (`MCRoutine`) | one late job a day, inserted is poked, queued is live or an orphan; `SkippedIsShown`; `OvershootIsOneRun`, `RunsAreLearnedFrom`; `PurgeTakesTheExpired`; `BookmarkIsShown`; and the type invariants of these parts | two days of two hours (so a round straddles midnight), two routines, the timer's rounds and the page's, in three parts (`OneOfThree`): two rounds at once over one routine (they race for the late job); rounds over both routines, a statement of which fails after the first was inserted; and rounds over one routine with one of a hold, a press, the routine's timer, a failing statement or a dead supervisor; three runs by two processes of each of three kinds of routine, the input changing forth and back, one fault; three runs over two days under three caps; three uses of memory by two actors over two ticks past TTL and unused limit, one death; three log lines, two loggers, two sessions, and an edit, a death or a midnight, one of the three (`EditOrDeath`) |
| `reconcile_missed_day` | a missed day is accounted for | a day of three hours with its window in the middle, a failing statement, a lost ledger row, a crash, a press |
| `timers_live` | judge run: nothing lost until a rewrite is disturbed, parked is answered; a due reminder is notified | two items, the supervisor's worker for ever and one run by hand, one failure or death (two items are what it takes for one to be judged while the other arrives); two lines that say one reminder, whose delivery is forgotten after a tick of the clock, a tick and a reset by hand, one failed notification, scan, save or death |
| `shared_files` (`MCFiles`) | `NothingIsLost` (CandidateKept, TrashedIsOnRecord, NothingIsDeleted); `NothingIsDoneTwice` (ImplementsAtomicQueue, UndoneStaysUndone, NotifiedOnce, IdIsFresh); `DoneTicksEveryCopy`; `MarkedWasDone`; `ListedIsServed`; `UnionIsCurrent`; `TimerMeansReady`; `AuthorsFilesStand` | three adds (two of one text), two drops, two families; two accounts with a message each, two stagers, a gated apply and one by hand, one fault; three lines, two of which say the same reminder, the timer's tick for ever and one by hand, a scan that misses lines as one of the faults; three notes, any of which cannot be read at any time, two writers, a `done`, a `sweep` again and again, a copied line, or a summary, a `remind add` and one writer in place of the `done`; two sends, two workers, a removed line; one artifact that is good and a source that is not, its TTL, one death; two commands on one entry that two directories may have, one change by the user; five manifests, three tables, three hosts (one of which has the template's routine), a piece that is a program and one that is a setting, what a signal prints (nothing at all, a failure, words, json), and one change by hand for the units; the author's two gathers, init and another command for the bundle |
| `fetch_ladder` | `LedgerIsSound` (no window left behind: WindowIsWarranted; right about what worked, and counting right while saves do not overlap: LedgerIsTrue); `GivesUpAtTheEnd` | two fetches of a domain, a --forget, a lookup and three methods of the eight (the first, headless, headed), four settings. The loop treats all other rungs alike |

In `serve_safety`, `routine_safety`, `shared_files` and `timers_live` a behaviour moves
one component only (`which`). No two of them share state, so their spaces add up instead
of multiplying, and nothing is lost by exploring them side by side. Two actors per file
are what every loss here takes; a third drop or apply adds no new kind of step.

Modules keep a history of the overlaps that do lose something, and the
property says that nothing else does:

| property | holds until |
|---|---|
| `OneFreshJobPerEnqueuer` | it allows one fresh job per enqueuer, no more: `jobqueue_overlap` shows two |
| `OneLateJobPerDay` | rounds asked `hadLateJob` before one of them inserted: rows of such rounds (`raced`) |
| `InsertedIsPoked` | the round was cut short by a failing statement (`cut`) |
| `PendingIsHeld` | the row was in the hands of a supervisor that died (`orphans`): `reconcile_orphan` shows it |
| `CandidateKept`, `ImplementsAtomicQueue` | a drop overlaps an append or another drop in the same family (`raced`) |
| `TrashedIsOnRecord` | two applies overlap; no crash point breaks it |
| `UndoneStaysUndone` | applies overlap, one is cut short after a batch, or a request failed that was carried out |
| `NotifiedOnce` | two commands are between load and save together, a delivery was reset or never saved, or another line says the same, once more by the same tick |
| `NothingIsDeleted`, `DoneTicksEveryCopy` | a note is replaced that had changed since it was read; for the second also a copy written while `done` walks, and the copies in a note it could not read (`unread`) |
| `IdIsFresh` | a sweep ends during the walk, the id is in a note the walk could not read, or a replaced note lost a line |
| `MarkedWasDone` | a line is removed by hand, or lost by a replaced note |
| `SkippedIsShown` | two runs of the routine overlap, or one ends between note and digest (`disturbed`) |
| `RunsAreLearnedFrom` | a run ends only after a learning run began (`late`) |
| `PurgeTakesTheExpired` | a note's id was used before and its meta row is not its own (`astray`) |
| `BookmarkIsShown` | a line is removed, or lost to a second logger; or a line taken out is put back by a logger who had read it (`undone`) |
| `HistoryChains` | the row is written over a change (`raced`) |
| `QuietPageIsComplete` | turns older than a history gives; turns passed over by a cursor, or whose event was dropped, with no event after them (`excused`); a history that was overtaken or could not be read (`stale`) |
| `EditIsSeen` | an edit leaves size and mtime as they were (`unseen`) |
| `CallsOnRecordWithinCap` | exceeded by at most one line per other asker, and by those of asks that could not read the trace (`blind`) |
| `EffectsAreDeclared` | the `systemctl` of a headed browser that is on the list |
| `LimitOvershoot` | exceeded by at most one failure per other login under way |
| `ListedIsServed` | the artifact expires or somebody begins to remove it |
| `UnionIsCurrent` | commands overlap, or something changes, since the command began (`alone`) |
| `TimerMeansReady` | something is changed by hand since init began (`known`); a unit that is to go cannot be removed (`stuck`) |
| `AuthorsFilesStand` | a file is put there after a process looked for it (`inTime`) |
| `EngineIsNotAtIt` | forced, unreachable, manual, its mark taken off by the page (`unmarked`), its row lost, or another run recorded behind it |
| `SessionsFollowThePassword` | serve starts while the password changes (`quiet`; `fresh` for a cookie) |

`jobqueue_safety`, `routine_safety`, `serve_safety` and `shared_files` prune with a CONSTRAINT,
which is sound for the safety properties they check: it cuts behaviours short and never changes
a step. What it prunes in `shared_files` are combinations that the theorems cover: a `done`
beside a summary, and two writers beside that (`DoneOrRewrites`), a copied line beside an
unreadable note or tasks of different ids, a failing account beside two stagers
(`OneBesideAFault`), every machine beside every author, and a change by hand beside a forced
init or a unit that cannot be removed (`TimerOrFiles`). `InOrder` prunes behaviours that are
others with two names exchanged.
In `routine_safety` it is more than one trouble beside a round, or beside two of them, and in
`jobqueue_safety` two enqueuers over several ticks.

Runs that end in a violation show a disagreement (section 6): `jobqueue_overlap`,
`supervisor_reconcile`, `reconcile_orphan`, `fetch_pick`.

Deadlock is not checked: all bounded systems here may stop, when the clock or the
jobs are used up, a fetch is over or every process is down.

## 4. Fairness

* **Supervisor**. Weak fairness for what systemd, goroutines, drains and timers
  do once they can; strong fairness for each case of Go's `select`, which picks
  at random among those ready, and for accepting a connection, which is enabled
  again in each life of the process. No fairness for users, errors, crashes or
  SIGTERM. `StopIsHonoured` needs the strong fairness of `SelectStop`.
* **Reconcile**. The timer's rounds keep coming and go through, the drain works
  off what is due. Nothing is assumed of the clock, so MissedDayIsAccounted says
  "or the day is over first".
* **Remind** (`DueIsNotified`). The timer starts its tick again and again and that
  tick goes on; the tick and the reset by hand may stop anywhere. In `MCTimers` each
  fairness condition is guarded by `which`: fairness of a component that may not move
  would rule out every behaviour of the other.
* **JudgeRun**. The routine's timer keeps starting the supervisor's run, a run
  does not stop half way unless it fails or dies, and an enqueue that opened the
  file writes its line. Nobody has to run anything by hand.

## 5. Proofs

Checked by TLAPS for all values of the constants, under the named assumptions
of the modules. They are types and bounds (a count is a number, a set that is counted is
finite, the names of two kinds are different), and what the code gives: backoff delays,
allowances and lookups positive, a rung once in an order, a cap that is set is positive
(`LedgerAssumption`: 0 is no cap), a queue's family and a note of the walk once
(`QueueAssumption`, `TaskAssumption`), the archive and the todo file among the notes.

| module | theorems |
|---|---|
| JobQueueProofs | `TypeCorrect`, `RunningIsHeldHolds`, `AttemptsAndWaits`, `EnqueueIsServedHolds`, `DedupeHolds`, `SerialDedupe`, `SettledStaysSettledHolds`, `Refinement` |
| JudgeRunProofs | `JudgeTypeCorrect`, `NothingLost` |
| RoutineProofs | `ReconcileTypeCorrect`, `OneLateJobPerDayHolds`, `InsertedIsPokedHolds`, `PendingIsHeldHolds`, `SkippedIsShownHolds`, `OvershootIsOneRunHolds`, `RunsAreLearnedFromHolds`, `PurgeTakesTheExpiredHolds`, `BookmarkIsShownHolds`, `PartsTypeOKHolds` |
| ServeProofs | `NoMissedWakeHolds`, `NothingLeftBehindHolds`, `NoneIsMissedHolds`, `ConfigIsWholeHolds`, `LoginIsGuardedHolds`, `HistoryChainsHold`, `EngineIsNotAtItHolds`, `QuietPageIsCompleteHolds` |
| GatherProofs | `EffectsAreDeclaredHolds`, `DryRunIsListedHolds`, `DecisionsKeepTheRulesHolds` |
| FetchLadderProofs | `GivesUpAtTheEndHolds`, `WindowIsWarrantedHolds`, `LedgerRungWorkedHolds`, `LedgerIsSoundHolds` |
| VaultProofs | `DoneTicksEveryCopyHolds`, `MarkedWasDoneHolds` |
| FilesProofs | `ListedIsServedHolds`, `UnionIsCurrentHolds`, `TimerMeansReadyHolds`, `AuthorsFilesStandHolds`, `QueuesAreAtomic`, `NothingIsLostHolds`, `NothingIsDoneTwiceHolds` |

Each component has one inductive invariant, which implies its type invariant and its
properties; a step of a composite is a step of one component or leaves its variables alone
(lemmas `...Move`), so that the invariants are kept side by side.

**JobQueue.** `TypeOK` is not inductive: `MarkRunning` looks up the row of the
drain's local id. `RowInv` adds that inserted rows are the ids below `nextId` and
that an id in hand is one of them. On top of `TypeOK /\ RowInv` each property has
its own strengthening. Attempts (`HandInv`): the job in hand has an attempt left
within its allowance, and what Fail decided counts one attempt more, within
MaxAttempts if it requeues, and due after `lastPick`. Service (`ServiceInv`): a run
in progress or failing is of a job that is not owed, or that the page re-opened, and
the row of a started job is running or suspended unless the page retried it.
Dedupe (`DedupeInv`) adds to "one fresh job per enqueuer" that an enqueuer about to
insert has no fresh job of that routine (`AboutToInsertInv`); with a single enqueuer
that is Enqueue's promise read literally (`SerialDedupe`). `Refinement` shows that
Init implies JobLifecycle's and each step one of its steps or a stutter.

**JudgeRun.** `TypeOK` includes `FileInv`, which is needed to show that a rewrite
leaves a file: nothing removes the pending file, so who has opened it to append, or
read it to rewrite it, still has it. `NothingLostUndisturbed` is not inductive: it
says where an item is, not why the next step keeps it. `RewriteInv` adds, while
nothing is disturbed, that rewrites do not overlap (`SoleRewriter`), that what a run
is about to empty the file of is in what it keeps or judged (`KeepInv`, which rests
on `DropInv`: a run takes out only what a model judged), and that an emptied file
stays empty until it is written (`EmptiedInv`). The steps that neither prepare nor do
a rewrite are one lemma (`QuietStep`).

**Routine.** *Reconcile*: `LocalsInv` ties a round's program counter to its locals: a round
asking about a routine asks about one that must run, its day is not after today, and
the job in the worker's hands is a row. None of the three theorems has a hypothesis; what
breaks the promise is in the property, as history. For `OneLateJobPerDay`, `LateInv`
says that a round about to insert a late row has seen none of its day or a later one, that
one which came since is of a round it races with, and that two rounds about to insert for
one routine race. For `InsertedIsPoked`, `PokeInv` follows what a round inserted to its
poke, or to the statement that cut the round short. For `PendingIsHeld`, `RunningHeld`
says that a running row is in the worker's hands or was in the hands of a supervisor that died.

*RoutineRun*: while nothing is `disturbed` a run is alone, between note and digest the
note is its own, and otherwise the digest is the note's (`RunInv`); `Tallied` gives every
result that is remembered, or yet to be, a run of its own, which bounds the counters.

*RunLedger*: `Capped` says that a day is over its cap by less than one run, and under it from
the moment the gate lets a run through until that run is over, on that day *and every later
one*, since midnight may pass in between and the run is booked on the day it started.
`Booked` and `Taught` say what a run has in the ledger and what a learning run was fed;
`Numbered`, that run and row are one to one. A day's total is a fold over a set of rows: that
it does not depend on the order is shown by induction on the number of rows.

*Memory*: until ids are used again, whoever is about to write a row knows its key, and a
row agrees with its note or its writer is on the way (`MemInv`); a note that a purge takes
is then expired by its own account.

*Catchup*: `LogInv` follows a line from the logger that has it in hand (on no note yet:
`Fresh`) to the bookmark: what has all lines of a day begins with what is on the note
(`Chained`), and the first lines of it, as many as are counted, were printed (`Passed`,
`Shown`). Without `undone` it is false. A logger reads a note, the user takes out a line,
a session prints and counts what is left, the logger writes the line back, in front: the note
is whole again, and the count stands for a line that was never printed. The attempt to prove
`BookmarkIsShown` met this behaviour; the run had too few lines for it, and has three now.

**Serve.** *Loop*: `NoMissedWake` counts a token in the wake channel as a wake-up, but a
process that closes reads the channel no more: `WakeInv` lets the token count only
before that, and everything else that is on its way (`OnItsWay`) outlives the exit or is
counted as lost by it. `IdleInv` is `NothingLeftBehind` from the idle exit on, not only
from the end of the process.

*Configuration* (`ConfigInv`): what the holder has was in the file when it had the stat the
holder remembers, so the same stat means the same text unless an edit kept it (`unseen`); a
run's configuration is the holder's until somebody forces another.

*Login*: a cookie is compared with a process that may have been started long after
the one that gave it out. `Holds` says of both, when they got their key, what it still
says today: a key that was got with the password of the file stands for it until the
password changes; who started quietly and has the password of the file is not in the
middle of a change, and its kept key is the one in the file. `Agree`, the property
itself, follows by comparing the two. `Limit` counts: the failures of a window and the logins
let in but not compared yet are together fewer than the limit and the logins there are.

*Sessions* (`SessionInv`): the id of a rotation under way is known to nobody else (`Apart`); and
unless the row was written over a change, the successor of the live session, if it has one
already, is the id of a rotation that has not repointed the row yet (`Pointed`). What led
somewhere before a session gets a successor leads there still, or to that successor (`LeadsOn`).

*Engine* (`EngineInv`): what the agent was answered, with what became since of the runs it
met; each way to "run it here" then excludes the engine being at it or having done it.

*Chat* (`ChatInv`): a turn behind the cursor of the tail is on the page, or comes with
the newest history, or is older than a history gives, or is excused, unless the page
still has something to receive or to load (`Reaches`, `Arrives`). For that the tail must
find each turn exactly once: halves begin and end lines in turn (`Alternate`), so what
it holds is the first half of the line it stopped in (`HalfHeld`, `InFile`), and
together with what was added it has every turn behind the cursor (`LinesAre`). A history
that is answered late does not count once a newer one is asked for.

**Gather.** What a script has done to the world (`SentInv`, `FilesInv`, `ProgramsInv`)
was allowed because the call on its way was, or is the headed browser's look for a
display: `HttpInv` carries the checks of http() over its redirects, `WriteInv` those of
write() to the rename. `ListInv` relates what a dry run lists to the calls made so far.

*Decisions* (`DecisionsInv`): what is at jev is public and its label one that fits the request,
whatever a server answers; and jev's lines of the day, but for those of asks that could not read
the trace, and the asks that will add one are together fewer than the cap and the askers
there are (`Lines`).

**FetchLadder.** `ClimbInv` says why a climb that ends without the page is complete: what
was tried is reported once its position is left, so every position left behind is, and a
climb ends only past its last one. It holds while no decider put its pick in front
(`fetch_pick` shows what happens then). `WindowInv`: a window belongs to a fetch that
knows it opened one. `LedgerInv`: every copy of the ledger - the file, the temporary file,
each fetch's, --forget's - starts a domain only from a rung that gave its page, so that
it does not matter whose copy is written over whose. `CountInv`: while saves do not overlap,
a copy of the current version differs from the ledger by the outcome of its own fetch.

**Vault.** *Tasks* (`TasksInv`), until a note is replaced that had changed since it was read:
what a rewrite puts back is what the note has, but for its own change (`Written`); what a
sweep takes out of the todo file is in the archive (`Archived`); the notes a `done` has walked
past have no open copy of its task, but for copies made since and those of notes it could not
read (`Closed`); and a walk that looks for the highest id has seen every id of the notes
behind it that it could read (`Ahead`).

*Handoff* (`MarksInv`): until a line is removed or lost, lines are only added, and each is about
the same task in the note as in every copy that somebody is about to write, so the number
a worker took down still means its task.

**Files.** *Queues* (`QueuesInv`): in a family that no drop overlapped, the one that drops is
alone, what it renames is what it read less its ids, and every add that has the file open has
the file that has the name. With it and `LinesInv` (every line of a file, a temporary file or
a drop's copy was written to that family, by an add that is through) each step is one of
AtomicQueue or changes nothing it tells apart: `QueuesAreAtomic`.

*Gmail* (`GmailInv`): while applies do not overlap, what one holds back, has yet to do and has
done are `Apart`, so the rewritten ledgers have every message it trashed; and unless one was
cut short, what was trashed is on no list of messages to trash, and staged only while the
apply that did it is about to take it out (`NotAgain`).

*Reminders* (`RemindInv`): without overlap there is `OneHolder` of a copy of the delivery file;
the copy, once saved, is the file (`Copies`), and a delivery is in the file, past its retention
or in the holder's copy (`Delivered`); and a line it has
still to notify says a reminder that is not in the file, so that only the holder itself can
have notified it.

*Artifacts* (`ArtifactInv`): the order of the writes (`OrderInv`: a document is
whole before its sidecar is begun, an id is used once), what a list can hold
(`ListInv`: what is listed or recorded is on disk, or somebody began to remove it, and is
not being written) and who holds which id (`HeldInv`).

*Plugin* (`PluginInv`): a command that has the directory to itself (`Lone`) is in one of six
phases, and in each the names it has yet to look at and the links it has yet to make say for
every entry what it is and what it will be (`Phase`).

*Bundle* (`AuthorsInv`, `TimerInv`): who is about to write a file was there before its
author; and while nothing changes by hand, init works with the table as it is - the
template's once it was forced - and prunes and writes to the plan the table asks for,
but for what it could not remove. `ReadyIsUnblocked`: no hard row of the check fails if
and only if all the manifest asks for is there.

`NothingIsLostHolds` and `NothingIsDoneTwiceHolds` put these together with the theorems about
the vault.

The library's induction theorems take an operator and cannot be instantiated here. Where
an induction is over numbers (the folds of RunLedger and Decisions, the least and
greatest of a set of ids, `Those` of PluginUnion, `Parsed` of ChatFeed) the proof takes
the least number for which the claim is false, from `NatLessThanWellFounded` and
`WFMin`, and shows that there is none.

Only model-checked: everything under fairness (`DueJobsAreTaken`,
`ExitsWhenIdle`, `StopIsHonoured`, `MissedDayIsAccounted`, `ParkedIsAnswered`,
`DueIsNotified`), which is out of the prover's reach. Every invariant and action property of a
passing run has a theorem. Only proved: `RequeuedJobWaits`, `SettledStaysSettled`, and
`NoFreshDuplicate` of a single enqueuer.

## 6. Where code and comments disagree

Shown by a run (`PROJECT.json`, findings):

1. Enqueue "returns instead of duplicating" only while calls do not overlap
   (`queue.go:92`).
2. "the next timer or reconcile will" (`enqueue.go:27`): reconcile does not poke
   for a job it finds already queued.
3. A row left `running` by a dead supervisor counts as pending for ever: its
   must_run routine is never enqueued again (`reconcile.go:134`).
4. The rung that stood first is marked tried before the decider's pick replaces it
   (`fetch.go:328`): after a pick other than defuddle, defuddle is never tried.

Seen with the same models under other constants or properties, without a run of
their own:

* the row of 3 also keeps the supervisor from ever exiting (`serve.go:172`), while
  the package comment says "With nothing to do there is no qilla process";
* `serve.go:181` "finish the current job and return": a stop is not looked at
  inside a drain, which goes on to the next job;
* two rounds at once (timer and page) insert two late jobs (`reconcile.go:81`; `raced`);
* a round that fails after an insert reports nothing enqueued and nobody is poked
  (`reconcile.go:50`; `cut`);
* the ledger is read before the table, so a job that records and settles in
  between is enqueued again (`reconcile.go:48`);
* a must_run routine whose job was dropped from the page is enqueued by the next
  round, while README.md:124 says a suspended routine stays out
  (`reconcile.go:134`);
* a damaged line makes the whole judge queue the empty string
  (`worker.go:906` ignores the error), whose digest is then skipped as unchanged;
* judged items leave the file before the note is rendered, so a rendering that
  fails loses them (`worker.go:359`);
* a pending file emptied by `dropPending` reads as `null`, not `[]` (`worker.go:165`):
  one model call per emptied batch that has nothing to judge;
* `gmail apply --only-if-run-ok` reads the stage file again after the gate
  (`cmd/qilla/gmail.go:360`, `gmail.go:197`): what is staged in between is trashed
  though no run of the routine has read it;
* entries staged while an apply runs (minutes) are lost from the stage file when it
  is rewritten (`gmail.go:260`);
* overlapping adds queue a text twice, though Add's comment rules duplicates out
  (`candidates.go:127`);
* overlapping ticks notify a reminder twice, and a reset during a tick is undone
  (`cmd/qilla/remind.go:113`); so does one tick when two lines say the same, since all lines
  are looked up before the first is marked (`cmd/qilla/remind.go:122`);
* `task new` reads the archive before the todo file, so a sweep in between hides the
  highest id from it (`tasks.go:72`); its pattern takes three digits, so after 999 the
  next id stays 1000 for ever (`tasks.go:26`); a note it cannot read hides its ids
  (`tasks.go:77`), while the comment says "anywhere under root";
* `task done` passes over a note it cannot read and succeeds (`tasks.go:182`), while its comment
  says "every copy of id";
* a sweep that dies after writing the archive leaves its lines in both notes, and the
  next one archives them again (`sweep.go:176`);
* two first sends write two headers (`handoff.go:51`), and a line sent while another
  is marked is lost (`handoff.go:131`);
* the vault is committed before the note is rendered, so the last commit lags one run
  behind (`worker.go:333`, `worker.go:360`) and is made even if the
  rendering then fails, while README.md:287 says "after a successful run";
* a log line is written by reading and rewriting the whole note, while the command's
  comment says "without reading or rewriting the rest" (`cmd/qilla/log.go:16`): two
  loggers at once lose a line;
* `jev_daily_max` is compared with trace lines, which come after the call, once per decision:
  overlapping asks, a retried 429, an unwritable trace and a post that fell back on kev
  are calls it does not count (`ask.go:799`, `ask.go:1037`); and a trace that exists but cannot be
  read lifts the cap, where the comment speaks of an absent file (`trace.go:130`);
* a rotated session whose first claude run fails leaves the row at a session that does
  not exist, and every later run fails to resume it until it has been idle too long
  (`session.go:79`);
* the second statement of `Set`, which fills in a missing successor, finds nothing:
  rotation never leaves one missing;
* deleting the highest note frees its id; a hit recorded in between (`mem.go:190`)
  leaves a meta row that the next note of that id takes over, with its age;
* Search skips what is unused for too long but not what is past its TTL, though its
  comment says "expired ones excluded" (`mem.go:144`);
* a run whose model has no price, or that reported no usage, weighs nothing in a
  budget (`ledger.go:65`);
* the learning routine is never fed a run that was in flight when it started
  (`worker.go:859`);
* a daily note edited down hides as many new lines from the catch-up as were removed
  (`catchup.go:116`);
* a needs-human answer counts as a failed method in the domain ledger although no
  method ran (`ledger.go:101`), and concurrent fetches undo each other's entries.

* a redirect may turn a POST into a GET, so a host declared for POST only is sent a GET,
  while `star.go:45` says that an undeclared method is an error; a gather that raises after
  a POST is run again by the queue and posts again;
* a headed rung of `fetch` runs `systemctl --user show-environment` (`fetch.go:580`) whatever
  `[capabilities] exec` lists, while `star/fetch.go:23` says that each rung's binary must be on
  the list;
* `ask` in a gather decides on a context of its own (`context.Background()`) and outlives the
  gather's deadline; a program of `run` whose child holds its output outlives its kill;
* `--dry` does not reach the programs that `run` starts: QILLA_DRY_RUN is not exported to them;
* the engine's newest run is dated by the engine's clock and judged by the agent's; a
  row left `running` by a dead drain stops the agents for twelve hours; a run on an
  agent is never seen by the engine, and one by hand on the engine is seen only when it
  is over; a run the page re-queued or dropped is not seen while it runs (`http.go:254`,
  `http.go:269`), nor one whose row the ledger cannot write (`ledger.go:69`) after it;
* `init --force` overwrites qilla.toml with the template before it loads it (`init.go:30`), so
  that "`--force` writes it anyway" (README.md:237) is not true of a routine that is not in the
  template, whose units it removes; on an agent host it makes the host an engine; and a unit
  that cannot be removed is reported as removed (`init.go:70`);
* a routine.toml that cannot be parsed blocks nothing: init writes the timer
  (`checkBlocks` ignores the error);
* Ensure looks for a file and then writes it: what the author puts there in between is
  overwritten, while `ensure.go` says "Existing files are never touched"; and a scaffolded
  gather.sh wins over a gather.star that comes later;
* a serve that starts while `qilla passwd` runs can hold the old password with the new key:
  its cookies outlive the restart that invalidates the old password;
* an Add or Remove that fails or dies half way leaves a document without a sidecar, which
  Purge never sees;
* `qilla plugin` writes what it ships through a link into the user's own file when the
  names meet, and the entry stays a link, while `union.go:15` has the real entry win;
  two commands at once can fail and leave an entry missing until the next one; a broken
  link leaves a stale copy.

## 7. Not modelled, and why

The text of prompts, vault parsing, statusline, doctor, procs, the text and sandbox of
units, the default files other than a bundle's: I/O, parsing or formatting around no
shared state. The trained classifiers of `internal/decide` (numeric, no state) and the choice
of a model's tier compute a value from their input alone. Of the engine's status the
comparison of the vaults is left out, which only prints. Claude, systemd,
SQLite, jev, kev and the browser are environment: their answers are choices. In the
modelled parts: log lines, output, HTTP routing, Listen without socket activation, a
negative `jev_daily_max` (no cap), the engram backend of the memory, and the bookmark that the
karakeep-crawl rung creates and hides; Gmail's tokens and their refresh; plain I/O errors of the
plugin's hooks and writes through a dangling link. Of `init --force`, writing the template and
loading it are one step, and the template's vault is taken to be the user's; the first init,
which writes the template because there is no configuration, is an edit of the table.
A trace without a directory is off, and so is its cap. `PROJECT.json`
names every component with its status.

## 8. Plan

1. **Done**: JobQueue, JobLifecycle, Supervisor, Reconcile, JudgeRun, FetchLadder,
   Candidates, AtomicQueue, GmailStage, Remind, VaultTasks, Handoff, RoutineRun, RunLedger, Memory,
   Catchup, AgentSession, ChatFeed, ConfigHolder, Decisions, Gather, EngineCheck,
   Artifacts, WebSessions, Bundle, PluginUnion; the composites Serve, Routine and Files; and
   a theorem for every safety property a run checks.
2. **Abstract specifications**: a supervisor that "wakes for every insert", to be
   implemented by Supervisor; a file that is an atomic set, to be implemented by
   the undisturbed behaviours of JudgeRun.
3. **Next parts**: model tiers as a pure operator, gmail's tokens and their refresh, the
   engine's comparison of the vaults.
