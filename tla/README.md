# The Brain, modelled and checked

TLA+ specifications of The Brain: the runner that executes workflows and keeps
their history, the processes that start runs, the client of MCP servers, and the
containers they are deployed in. Every definition is taken from the source;
`PROJECT.json` ("map") gives the lines of each.

    tlc -workers 2 -config MCRunner_safety.cfg MCRunner     # check an instance
    tlapm RunnerProofs.tla                                  # check its proofs

## The system

The Brain is a set of processes that share one PostgreSQL database and nothing
else. There are no locks between them, no message queues and no owner columns:
the database's single statements are the only atomic steps (`db.execute_query`
takes a connection, executes one statement, and commits it).

| Component | State it keeps | Operations | Meets the others in |
|---|---|---|---|
| Workflow runner (`src/src/runner`) | a row of `workflow_runs`, the Python frame of the call | look up the previous success, INSERT, execute step by step, UPDATE | called by all four surfaces |
| Scheduler daemon (`src/src/scheduler`) | `workflow_schedules`, a heartbeat, the list of the tick | recover orphans, tick: heartbeat, query, fire one by one, advance | runner; the CLI writes its table under it |
| Schedule registry (`src/src/cli.py`) | `workflow_schedules` | register, enable, disable, unregister, list | the daemon reads and advances the same rows |
| File watcher daemon (`src/src/triggers/watcher.py`) | debounce table, observer pool, a heartbeat | recover orphans, tick (sync the pool), fire on an event | runner; watchdog threads post into its event loop |
| HTTP API (`src/src/api/app.py`) | none of its own | POST /run, POST /webhook/{name} | runner; reads `webhook_secrets` |
| Watcher and webhook registries (`src/src/cli.py`) | `file_watchers`, `webhook_secrets` | register, enable, disable, unregister | watcher daemon, API |
| MCP stdio client (`src/src/mcp`) | a subprocess, its pipes, a stderr reader | connect with handshake, call, close | the mcp_tool executor |
| Executors and clients (`src/src/executors`, `src/src/clients`) | none | execute one step | runner |
| Database access (`src/src/db.py`) | the connection pool, `_migrations` | statements, migrations | everything |
| Deployment (`docker-compose.yml`, `scripts/start.sh`) | containers, Docker's view of their health | start, healthcheck, restart | migrates before the daemon; starts api and watcher behind `brain daemon-status` |
| Loader and file format (`src/src/workflow`) | none | import a file | every surface |
| Status commands, diagnose, logging, configuration | none | read and print | heartbeats |

What is hard in it:

* *Interleaving.* Runs of one workflow overlap in four kinds of process. Each
  reads its predecessor before its own row exists and uses it to the end.
* *Recovery.* A booting daemon fails the rows it takes for orphans with one
  UPDATE, by status or by trigger context, not by owner; the run's own terminal
  UPDATE does not look at what it overwrites.
* *Stale lists.* The scheduler drains a list it read at the start of a tick that
  may last hours, while the CLI changes the rows; writes go by name, not by id.
* *Partial failure.* Any statement may raise, before or after its commit. A fire
  is four of them; a migration is a file and its row.
* *Coroutines and threads.* Watchdog's threads post into the watcher's event loop,
  requests and tool calls take turns at their awaits: whatever was read before an
  await may be stale after it, and a task can be cancelled at each of them.
* *Another process's pipe.* An MCP server answers late, out of order, with
  anything, or dies; a call that timed out leaves its answer in the pipe.
* *Time.* `started_at`, `ended_at`, the tick and the slot are read from one clock
  at different moments; the advance uses the oldest.
* *Termination.* A daemon must go on whatever a workflow file or a run does, and
  stop when it is asked to.

What makes each component correct, and what was found to hold, is below. The
hazards, each at its line and with the properties aimed at it, are in
`PROJECT.json`.

## The modules

| Module | What it is |
|---|---|
| `RunLedger` | what the run history promises: a run enters once, linked to a success, is settled by its own writer, may be given up by a recovery in between, and never leaves success |
| `Runner` | `workflow_runs` and all who write it: `run_workflow` in every surface, the boot sweeps of both daemons |
| `RunnerProofs` | theorems about `Runner` |
| `RunLedgerProofs` | `Runner` implements `RunLedger` |
| `MCRunner` | instances of `Runner` for TLC |
| `Scheduler` | `workflow_schedules`, the daemon's tick and the commands that change the table |
| `SchedulerProofs` | theorems about `Scheduler` |
| `MCScheduler` | instances of `Scheduler` for TLC |
| `Registrations` | what a table of triggers promises: one registration per name, entered while the name is free under an id of its own, its content final, switched and removed |
| `Registry` | a table of triggers by name and the commands that write it: `file_watchers` and `webhook_secrets` |
| `RegistryProofs` | lemmas about `Registry`, up to its refinement of `Registrations`, that the two proofs below share |
| `Throttle` | what a debounce promises: a request fires unless one of the same source fired within the window |
| `Watcher` | the watcher daemon: extends `Registry` with its loop, observers, events and coroutines |
| `WatcherProofs`, `MCWatcher` | its theorems, `Throttle` among them; its instance |
| `RemoteCalls` | what a client of remote servers promises: one request waits at a time, is settled once, and is answered only with what was given for it |
| `McpClient` | `StdioMcpClient`: the tasks that use it, its subprocesses and their pipes |
| `McpClientProofs`, `MCMcpClient` | its theorems, its instance |
| `RemoteCallsProofs` | `McpClient` implements `RemoteCalls` |
| `Upgrade` | what a deployment promises its database: migrations one by one in their order, each with its record, and nothing running before the last |
| `Deployment` | migrations, `start.sh`, heartbeats, the healthcheck and compose's gate |
| `Webhooks` | the requests of the API: extends `Registry` |
| `System` | `Deployment` and `Webhooks` composed: the API serves when its container is up, on the schema as far as it is migrated |
| `SystemProofs`, `MCSystem` | its theorems, its instance |

The runs a watcher or a webhook starts are those of `Runner`; `Watcher` and
`Webhooks` follow them only as "running" until they return, and rely for that on
what `Runner` shows (`EveryRunStops`).

### Runner

`task[r]` is the frame of one call of `run_workflow`, `row[r]` its row. The
actions are what the code does between two awaits:

| Action | Code |
|---|---|
| `Begin` | a surface calls `run_workflow`; id and `started_at` are taken |
| `Lookup` | `_lookup_previous_run`: the latest success by `started_at`, any of them on a tie |
| `Insert` | the INSERT of the running row, link included |
| `ExecuteStep` | one turn of the loop: resolve, execute, record, break on failure |
| `WriteTerminal` | the terminal UPDATE, by id alone, and the return |
| `StatementRaises` | a statement raises; the commit happened or did not |
| `CallbackRaises`, `Kill` | the progress callback of `brain run` raises; that process dies |
| `Crash`, `Boot` | a service dies with its runs; it starts, sweep first |

A step is a name and the sources its placeholders need (`prior`, `previous`,
`trigger`); it can succeed only if they are all there, and it can always fail.
Texts, prompts and outputs are left out. A workflow file can change between two
runs, so `Definition` may hold several versions of one name. The scheduler runs
one workflow at a time; the API, the watcher and the shell any number. Cron,
`brain run` and POST /run pass no trigger context; the other two pass theirs.

A daemon that is stopped is, for its runs, a daemon that crashed, except that
the scheduler finishes the tick it is in; the watcher's shutdown cancels what is
in flight.

### Scheduler

`table[n]` is the schedule named `n`; `id` is its primary key, which tells a
registration from the one that replaced it. `daemon` is the frame of
`run_daemon`: the program counter walks through heartbeat, query, and, for each
entry of the list, load, run, link, advance. The list is a set from which the
most overdue entry is taken; equals in any order, as ORDER BY leaves them.
`client[c]` is a `brain register`: it computes the first fire time, checks the
name and inserts, in three steps, so that other commands, the clock and the
daemon come in between. `SetEnabled` and `Unregister` are single statements.

Loading a file returns, raises `WorkflowLoadError`, or exits the process: the
loader catches `Exception` and SystemExit is none. The cron calculus is the
constant `NextFire`, of which only its contract is assumed: the first fire time
strictly after a moment.

`entry.id` and `entry.slot`, and the fields of `runs`, are history for the
properties: the query selects name, file and cron only.

### Registry

`table[n]` is the row of name `n`; `client[c]` a register command between its
check and its INSERT. The commands for watchers and for webhooks issue the same
statements on two tables, so there is one module; the modules that extend it say
what a registration holds and what must hold before the first statement (a file
that loads, a directory that is there). `touched` is history: the names written
since the table was last read whole.

### Watcher

`daemon` is the frame of `run_watcher_daemon`, `pool` the observers, `lastFire`
the debounce table, and `event` the events of the present process in the order in
which watchdog posted them, each with the frame of its `_fire_one`:

| Action | Code |
|---|---|
| `StartTick`, `Query`, `Sync` | one turn of the loop; `_ObserverPool.sync` is one step, there is no await in it |
| `FileChanges` | `on_any_event`: a change that passes the filter posts a coroutine |
| `Start` | the coroutine's first turn: `_should_fire`, check and record at once |
| `SelectRow`, `Resolve`, `ReadHistory` | the SELECTs, each followed by what comes before the next await; loading the file and calling `run_workflow` belong to the last |
| `RunReturns`, `FireRaises` | the end of a coroutine |
| `Signal`, `StopAll`, `Exit` | a signal, `stop_all`, and the end of the loop, which cancels what is in flight |
| `TickRaises`, `Crash`, `RemoveDir` | a tick that is given up; the end of the process; a directory removed, which leaves its observers deaf |

Times of the debounce are the monotonic clock; one unit is the window.

### McpClient

`client` holds the attributes of `StdioMcpClient`, `frame[t]` where task `t`
waits, `process` the subprocesses with their pipes, `request` what was written and
what became of it. A task goes from one await to the next in one action, so a
request is written and its read begun together; `wait_for` may give up at any
moment. The server is anybody: it may answer a request twice, late, out of order or
never, write noise, or die. A message carries, for the properties, the request it
is meant for (`of`) beside the id that the client can see.

`WriteBesideHandshake` is what happens when a second task calls a tool while a
client that was connected before is connected again: `_handshake_done` was not
reset, and the handshake does not take the lock.

### Deployment, Webhooks, System

A unit of time is one interval of the healthcheck. `migrator[m]` is the frame of
`run_migrations` in start.sh's process or in an operator's; a migration is executed,
then recorded and committed, and only the commit is seen by others. `beat[d]` is the
row of `daemon_heartbeats` for daemon `d`. `health` is Docker's: a success makes
`healthy`, `Retries` failures in a row `unhealthy`, and failures in the start period
do not count. `service` is what compose starts once brain is healthy, and restarts
without asking.

`req[r]` is a request of the API between its awaits: the row is read, the body is
awaited, the signature is checked against the row that was read, the file is loaded
and the run begins. A signature is the id of the row whose secret made it; the
arithmetic of HMAC is left out. `live[r]` is history: the rows of that name that
were enabled at some moment since the request arrived.

In `System` a command or a SELECT that names a table or column which is not migrated
yet raises; `HookTable` and `HookPath` say which migrations make them.

## The runs

| Run | Instance | Shows |
|---|---|---|
| `runner_safety` | 3 runs, 2 versions of a workflow, scheduler and shell, 2 clock values | links, output, what was returned, and `IsALedger`: `Runner` refines `RunLedger` |
| `runner_surfaces` | 2 runs, 3 definitions, 4 surfaces, all services, fairness | the watcher's sweep spares the living; runs stop; daemons' orphans are recovered; a workflow that needs its own past never succeeds |
| `runner_sweep_scope` | the same | violation: the scheduler's sweep fails live runs of others |
| `runner_terminal_row` | the same | violation: an exception leaves a running row |
| `scheduler_safety` | 2 names, 2 registering processes, clock to 2, 2 rows, 1 fault | skip-not-catch-up, links, the stale list, and `KeepsRegistrations`: the table refines `Registrations` |
| `scheduler_liveness` | 2 names, 1 registering process, clock to 2, 2 rows, 1 fault | a due schedule is served; a signal ends the daemon |
| `scheduler_right_now` | as safety, one process | violation: a long run leaves `next_run_at` in the past |
| `scheduler_refire` | as safety, one process | violation: a restart fires a slot again |
| `scheduler_poison` | 2 names, no fault | violation: a file that exits starves the others |
| `watcher` | 2 names, 1 registering process, 2 rows, 2 events, clock to 1, 1 fault, fairness; 3 scenarios | the pool, what an event runs, the debounce and `FiresAreThrottled`: it refines `Throttle`; enabled rows get observers, events end, a signal stops the daemon |
| `mcp_client` | the owner and a task, 2 subprocesses, 4 requests, 3 lines each, fairness; 2 scenarios | results are one's own, no process stays, the handshake comes first, every call ends, and `CallsRemotely`: `McpClient` refines `RemoteCalls` |
| `system` | 5 migrations, 2 migrators, clock to 4, 1 fault; 1 webhook name, 2 rows, 2 registering processes, 1 request; 3 scenarios | health, that runs are authorised, `UpgradesInOrder` and `KeepsRegistrations`: migrations and gate refine `Upgrade`, the webhook table `Registrations` |

*Why the bounds are enough.* Two runs give every race of two writers and three
give a chain with one link inside another; runs interact only through rows they
read, so a longer chain repeats the same pairs, and the theorems cover any
number. Two clock values make `started_at` tie and differ. In the scheduler two
rows are one schedule removed and registered anew, or two schedules in one tick;
a clock of 2 lets a run of period 1 outlast its period; one fault separates every
pair of statements. Where a bound stops an action it is in its guard:
`MaxTime`, `MaxRows`, `MaxFaults`.

*Scenarios.* Three of the runs explore several instances in one: a variable
`scenario` is chosen at the start and stays, and `InScenario` bounds what varies
in each. In `watcher`: two watchers while their directories are quiet; a burst of
two events for one watcher; and one event around which the row is removed and
registered anew. In `mcp_client`: one connection with up to three calls, so that
one is abandoned, one reads its answer and one is left over; and a client that is
connected twice. In `system`: the deployment on any volume, with no webhooks; an API
that an old heartbeat lets start on an old schema; and webhooks, with a register, a
disable and an unregister between a request's awaits, on a system that is up. Two
events are enough for the debounce because it relates pairs; two rows make one
replaced by another. The theorems hold for `Spec`, without scenarios and for every
bound.

*Symmetry.* The runs of `runner_safety` and the registering processes of
`scheduler_safety` are interchangeable; liveness runs use none.

*Deadlock* is checked in every run but `mcp_client`. When the clock has ended and
all runs are over the services still crash and boot, and the daemons still tick. A
client whose owner is done, with its ids used up, really has nothing left to do.

*Fairness.* `Runner`: each call goes on while it can (the event loop resumes it,
an executor is bounded by its timeout) and a deployed service that is down boots
(`restart: unless-stopped`). `Scheduler`: the daemon works while it is up and is
restarted after a crash; one that was stopped by a signal is not. Nothing makes
users act, processes crash or statements fail, and time need not advance.
`Watcher`: the event loop resumes the loop and every coroutine, and a run ends,
which is `EveryRunStops`; after a crash it is restarted. `McpClient`: the event loop
resumes a task that can go on, `wait_for`'s timer included, and a process that was
killed ends; nothing is asked of the server. `System` states safety only.

## What was found

The properties hold, with the exact exceptions their comments give. Five things
the documentation says are not what the code does (`PROJECT.json`, "findings"):

1. The scheduler's sweep takes live runs of the API, the watcher and the shell. It
   takes no other: never one of its own (`SchedulerSparesItsOwn`), so that where only
   the scheduler starts runs the comment is right (`SoleSchedulerSweepsOrphans`).
   Such a run ends by overwriting the sweep's verdict; `RunLedger` allows
   settling an orphaned entry for that reason, and nothing worse follows
   (`IsALedger`, `ReturnedIsRecorded`).
2. `run_workflow` does not always leave a terminal row: the UPDATE itself, or the
   progress callback, can raise. A row of the API or the shell then stays running
   until the scheduler boots.
3. `next_run_at` is anchored on the start of the tick, so a run longer than its
   period is followed by another at once. What does hold is `SkipsNotCatchesUp`:
   never more than one.
4. A crash or a failed statement before the advance fires the slot again. Nothing
   else does: without a fault between them no two runs have one slot
   (`RefiresOnlyAfterFault`, `FaultFreeFiresOnce`).
5. A workflow file that exits the importing process takes the scheduler down at
   each restart and starves the schedules behind it.

Two more that no single sentence of the documentation denies. When a schedule is
removed and registered anew during a fire of the old one, the daemon writes the
old run and the old cron's next slot into the new row; `NextMovesForward` and
`LastRunIsItsOwn` say exactly that much and no more. And a workflow that reads
`{previous.X}` in every version can never have its first success
(`NoSuccessFromNothing`): `examples/scheduled_digest.py` is of that kind.

The other components gave more, which their properties take into account: each is
the exception in one of them, or the reason why a stronger one is not stated.

*Watcher*

* There is no run lock, though the header of `watcher.py` (line 29) speaks of one:
  events of one watcher run at the same time.
* On SIGTERM a workflow in flight does not finish (line 15): `asyncio.run` cancels
  it when the loop returns, and its row is left to the next boot's sweep. That
  sweep marks it failed; it does not fire again (line 27).
* The debounce fires on the leading edge, so the last change of a burst is lost; and
  an event that is skipped afterwards, its row disabled for a moment, uses up the
  window all the same (`DropsOnlyBursts` says so).
* `observer.start` that raises ends the sync: the rows after it, in the order of
  names, are not observed as long as it does (`CanObserve`).
* A directory that is removed and made again leaves an observer in the pool that
  hears nothing. A change of `watched_events`, by removing and registering a watcher
  between two syncs, does not reach the live observer
  (`FiresWhatIsRegistered`, its last line).

*MCP client*

* `stdio_client.py` (line 13) says that the subprocess is killed on exit, exception
  paths included. When the handshake meets an exception that is not
  `McpProtocolError`, or is cancelled, nobody kills it: `__aexit__` does not run for
  an `__aenter__` that raised (`NoProcessLeft`).
* A call that timed out leaves its answer in the pipe. The next call reads it, finds
  another id and fails, and leaves its own: the connection never recovers
  (`TimeoutSpoilsTheRest`). But a wrong answer is never taken (`AnswersAreOwn`).
* `close` does not reset `_handshake_done`, so a second connection lets a call
  through before its handshake (`CallsFollowHandshake`).

*Deployment and webhooks*

* compose's comments (lines 58 to 60 and 98 to 99) say that api and watcher start
  on a migrated schema. `brain daemon-status` takes any daemon's heartbeat, so that
  of the container that was just replaced, or of a watcher that still runs, opens the
  gate before start.sh has migrated. What does hold is `ServicesFollowMigration`, of
  the services that brain's own heartbeat let start; they are the parts of `Upgrade`.
  For the same reason a living watcher hides a scheduler that hangs
  (`HealthyIsRecent` speaks of the daemon that the probe saw).
* A webhook row from before `workflow_file_path` holds NULL: a signed request for it
  ends in a 500, outside what the endpoint catches.
* A workflow file that exits takes the API down with all its requests.

## What is proved

### Runner

For every set of runs, of workflow versions and of deployed services, assuming
only `RunnerAssumption` (what the Workflow model validates, and that a NULL link
is no run):

| Theorem | Says |
|---|---|
| `TypeCorrect` | `TypeOK` |
| `SuccessFinality` | a row that says success is never written again |
| `ReturnedRecorded` | what a call returned is in its row, for good |
| `PreviousSuccess` | a link names a lasting success of the same workflow that ended no later |
| `ChainsAreFinite` | links form no cycle |
| `OutputSound` | the output is the executed prefix of the plan and agrees with the status |
| `PreviousDataSound` | a successful step's `{previous.X}` are in the row its link names |
| `NoBootstrap` | a workflow that always needs its own past never succeeds |
| `WatcherSweepIsSafe` | the watcher's sweep fails no live run |
| `SchedulerSparesItsOwn` | the scheduler's sweep fails no live run of the scheduler |
| `SoleSchedulerSweepsOrphans` | if only the scheduler serves workflows, its sweep takes orphans only |
| `RunnerImplementsLedger` | `IsALedger`, that is `Spec => Ledger!Spec` |

The argument. `TypeOK` is not inductive: the loop indexes the plan with the
number of results, so `TypeInv` adds that a run at "step" has a step left
(`HasNextStep`). A lemma (`EveryEffect`) reduces each step of the system to what
it does to one run: nothing, one of six steps of its own, or being swept. On
that stand four invariants, each using those before it:

* `RowFollowsTask`: no row before the INSERT; between INSERT and UPDATE the row is
  running, or failed by a sweep, and otherwise what was inserted; after the return
  it is the terminal row. With it, only running rows are swept and only a row
  that has not succeeded is still to be written: success is final.
* `LinksHold`: the frame's copy of the lookup stays true, because what it was
  copied from is final, and the row inherits it from the frame. Its clause on
  `endedAt` is needed for the order of the ends.
* `PlanKept`: the frame's results are a prefix of the plan, successes but for the
  last. With it the UPDATE writes a sound output.
* `OwnersHold`: a file event belongs to the watcher and a run in flight to a
  process that is up: so the sweep at a boot, when the watcher is not up, finds
  only its dead. The same for the scheduler, whose error message tells its sweep,
  needs that no running row has an error yet (`RunningIsUnswept`).

`ChainsEnd` is preserved because a row gets its link while no other row can name
it. `NoBootstrap` takes the chain's end among the supposed successes: its step
that reads the past has nothing to read. `RunnerImplementsLedger` maps INSERT to
`Enter`, UPDATE to `Settle`, a boot to `Recover`, all else to stuttering.

### Scheduler

For any names, files, cron expressions, registering processes and bounds,
assuming `SchedulerAssumption` (the constants are of their kinds, and a user has
at least one registration to make) and, of `NextFireAssumption`, only that a fire
time lies strictly after the moment it is computed for:

| Theorem | Says |
|---|---|
| `TypeCorrect` | `TypeOK` |
| `RegistrationKept` | a row stays what was registered, however commands race |
| `NextForward` | `next_run_at` moves back only when a fire of a replaced row ends |
| `SnapshotCurrent` | the stale list is right about every row that is still there |
| `SkipNotCatchUp` | without a fault a row never fires again for what it was late for |
| `LastRunOwn` | `last_run_id` is a run of this schedule, and the latest, up to a fault |
| `HeartbeatFirst` | a tick fires only under its own heartbeat |
| `RefiresOnlyAfterFault` | two runs of a row for one slot have a fault between them |
| `FaultFreeFiresOnce` | where no fault strikes (`MaxFaults = 0`) no slot is fired twice |
| `SchedulerKeepsRegistrations` | `KeepsRegistrations`: the table is that of `Registrations` |

The argument. `RowStep` reduces each step to what it does to one row: remove it,
insert it under a new id, or keep what was registered and write at most the slot
(at the end of an advance) or the last run (at the end of a link). The properties
about rows are not inductive on their own; `Inv` adds

* `IdsHold`: ids are unique and not given twice, so that a row which replaced
  another is told from it;
* `QueueHolds`: each entry still to be fired, and the one being fired, holds what
  the row of its id holds. The daemon reads the table once and the CLI may write
  it at any time after, but no command changes a slot and the tick's own advances
  are of other names;
* `RunsHold`: after a run that no fault has struck since, its row lies past the
  tick of the run or the daemon is about to put it there. It uses the tick, not
  the slot, because the advance is anchored on the tick; it needs `QueueHolds`
  for the row that is advanced to be the row that ran;
* `LinkHolds`: the run under way is the last row of the history.

`SkipsNotCatchesUp` follows where a run begins: `RunsHold` puts the slot of the
entry past the tick of every earlier run of that row. A slot is never past the tick
that fires it (`FiredWhenDue`), so a later run of the row has a later slot unless a
fault came between; as faults only grow along the history (`FaultsInOrder`), a slot
that is fired twice had one.

### Watcher

For any names, offers, directories, paths, kinds and bounds, assuming
`RegistryAssumption` and `WatcherAssumption` (the constants are of their kinds, and
new registrations name a file while old ones do not):

| Theorem | Says |
|---|---|
| `TypeCorrect` | `TypeOK` |
| `DebounceHolds`, `OnlyBurstsDropped` | `Debounced`, `DropsOnlyBursts` |
| `PoolFollowsTable` | `PoolIsCurrent` |
| `RegisteredIsFired` | `FiresWhatIsRegistered` |
| `RegistrationKept` | a row keeps its id and what was registered |
| `WatcherThrottles` | `FiresAreThrottled`: the coroutines implement `Throttle` |
| `WatcherKeepsRegistrations` | `KeepsRegistrations`: the table is that of `Registrations` |

The argument. `CommandStepRows` says what any command does to one row: its id and
offer stay, it goes, or it is new under an id that was never used; and a row that
changed is in `touched`. On that stand

* `DebounceInv`: coroutines start in the order of their events (`StartsInOrder`),
  and the table holds the time of the latest accepted fire of each key
  (`TableIsLatest`). Both need check and record to be one step. That a crash clears
  the table harms nothing, because it takes the events too;
* `PoolInv`: what a query found agrees with the table but for names touched since,
  names each watcher once, and the pool after a sync agrees likewise;
* `FireInv`: the row an event found is the row of its name, or that row is gone for
  good, because ids are not given twice. So the second SELECT, without a look at
  `enabled`, still reads the same file.

`Throttle` decides by everything that was asked before, `_should_fire` by one time
per key. `TableIsThePast` shows the two equal from `DebounceInv`: the recorded time is
that of the latest fire, and if that is out of the window all earlier ones are. A
posted event maps to `Ask`, a coroutine's first turn to `Decide` (in the order of the
events, by `StartsInOrder`), the end of the process to `Forget`.

### MCP client

For any tasks, any server and any bounds, assuming `McpAssumption` (the owner is no
other task, and no task is the lock's empty value):

| Theorem | Says |
|---|---|
| `TypeCorrect` | `TypeOK`; the lock is held by exactly the task that reads |
| `AnswersOwned` | `AnswersAreOwn` |
| `NoneLeft` | `NoProcessLeft` |
| `CallsAreShaken` | `CallsFollowHandshake` |
| `OneTimeoutSpoils` | `TimeoutSpoilsTheRest` |
| `ClientCallsRemotely` | `CallsRemotely`: `McpClient` implements `RemoteCalls` |

The argument, each invariant using those before it:

* `AnswerInv`: ids grow with the requests, so no two are equal (`IdsGrow`); a process
  was asked only what was written to it (`AskedExist`); a line carries the id of the
  request it is meant for (`LinesAreHonest`). An accepted id then determines the
  request;
* `LeftInv`: at most the process of the client is alive (`OnlyOneLives`), a task in
  close is about to kill it (`ClosesTheDead`), and the first request of a process is
  its handshake;
* `FollowInv`: `_handshake_done` means that some process before, or this one, has
  completed its handshake;
* `SpoilInv`: a process is asked in the order of the requests; as many lines were read
  from it as requests got a line (`ReadIsCounted`, by cardinality); and the only open
  request of a process is the one a task waits for, alone. With an abandoned request
  before it, the next line to read was meant for an earlier one.

In the refinement a request that is written is `Call`, or `Open` when it is a
handshake; a line with a result is `Give`, whoever waits for it; an answer taken, a
timeout, an error and a cancellation are `Settle`; the end of a process is `Die`. That
an answer taken was given for this request is `AnswerInv`; that a request waits exactly
when none other of its process does, also beside a handshake, is `SpoilInv`; that a
server is spawned only when none lives is `LeftInv`.

### System

For any number of migrations and migrating processes, any thresholds, names, files and
requests, assuming `DeploymentAssumption`, `RegistryAssumption`, `WebhooksAssumption`
and `SystemAssumption` (constants of their kinds; a table is made before its column):

| Theorem | Says |
|---|---|
| `TypeCorrect` | `TypeOK` of both halves, and a container that is not up has no requests |
| `RecordIsTrue` | `_migrations` names what is committed, and that has no gap |
| `GateIsGood` | the daemon, and what its heartbeat let start, runs on the full schema |
| `DeploymentUpgradesInOrder` | `UpgradesInOrder`: `Deployment` implements `Upgrade` |
| `HealthIsRecent` | `HealthyIsRecent` |
| `RegistrationKept` | a row keeps its id, its secret and its file |
| `WebhooksKeepRegistrations` | `KeepsRegistrations`: the table is that of `Registrations` |
| `RunsAuthorised` | `RunsAreAuthorised` |

The argument. `DeploymentInv` has three parts:

* `MigrationInv`: what is pending in a process and what is committed make up all
  migrations, and a process executes the least of what is pending, so what it commits
  leaves no gap; a process that is done has seen all of them committed;
* `GateInv`: a heartbeat of "brain" means that start.sh was past its migration, and the
  schema never shrinks; Docker's word and a started service inherit that;
* `SeenRecently`: the heartbeat that Docker's word rests on was fresh as many intervals
  ago as failures were counted since, which is fewer than the retries.

`HookInv` adds that the row a request has read is in `live` (`BodyIsLive`): it was
enabled when it was read, and `live` only grows while the request lasts. The check and
the file are then of a row that was enabled during the request, whatever became of it.

In the refinement of `Upgrade` a commit of a migration that is not there is `Migrate`:
`MigrationInv` makes it the next one. One that is there already, because another
process was faster, changes nothing. A container starts and stops as a part that
`Running` names; `GateInv` gives `Start` its whole schema.

### The refinements

| Abstract | Implemented by | Its state is | Theorem |
|---|---|---|---|
| `RunLedger` | `Runner` | the rows, by whether they are there and how they stand | `RunnerImplementsLedger` |
| `Registrations` | `Scheduler` | `workflow_schedules` without the slot and the last run | `SchedulerKeepsRegistrations` |
| `Registrations` | `Watcher`, `System` | `file_watchers`, `webhook_secrets` | `WatcherKeepsRegistrations`, `WebhooksKeepRegistrations` |
| `Throttle` | `Watcher` | the events with their source, verdict and time | `WatcherThrottles` |
| `RemoteCalls` | `McpClient` | the requests, the results in the pipes, the processes that live | `ClientCallsRemotely` |
| `Upgrade` | `System` | what is committed, `_migrations`, the parts that run | `DeploymentUpgradesInOrder` |

Each is a run's PROPERTY on a small instance, but that of `Registrations` by `Watcher`:
its commands are `Registry`'s, which the run `system` checks. The registers are the
case worth the proof: check and INSERT are two steps, two commands pass the check for
one name, and only because the INSERT looks at UNIQUE again, and an id is not given
twice, is it one step of `Registrations`. `CommandImplements` in `RegistryProofs` says
so once for both tables.

### What is only model-checked

Liveness (`DueIsServed`, `EveryRunStops`, `OrphansAreRecovered`, `EnabledIsObserved`,
`EventsEnd`, `CallsEnd`, and `StopsWhenAsked` of both daemons), which is out of the
prover's reach, and the five violations. The other way round, `SuccessFinality`, the theorems
called `RegistrationKept`, `RecordIsTrue` and `GateIsGood` are proved and not run,
because a refinement that is run says as much; so are `TypeOK` of `System` and the four
theorems that say when a violated claim is true.

## Not modelled, and the plan

Not modelled, because they keep no state and nothing depends on them: the commands
that list, show or report (`list`, `history`, `show`, `status`, `watcher-status`,
`list-triggers`), the diagnose command, logging and configuration. Abstracted: the
content of outputs, messages and trigger contexts, what the executors ask of the
outside, HTTP, the arithmetic of signatures, pydantic's field validation, the tail of
a server's stderr, the connection pool. The clock is one and does not go back. The
isolation level of the database does not matter while each statement stands alone; a
migration's transaction is the only one that is longer.

Planned, in this order:

1. `Scheduler` composed with `Runner`: the run of a fire being a call of
   `run_workflow`, so that `last_run_id` and the sweep meet in one model.
2. `Placeholders`: `_substitute` as an operator against a reference definition.
