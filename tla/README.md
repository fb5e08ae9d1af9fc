# Formal models of Cerebria

TLA+ models of the runtime in `src/src` (TypeScript), checked with TLC on small
instances, and theorems about them checked with TLAPS for every value of the
constants. Paths below are relative to the repository, so `core/WorkerPool.ts`
is `src/core/WorkerPool.ts` there.

## The system

Cerebria runs agent tasks in the background of one Node.js process and keeps
them in SQLite, so that they survive it. Everything runs on one thread: the
atomic unit is the code between two `await`s, and the hard behaviours come from
what happens in between, from the death of the process, and from three copies
of one task (object, cache, row) that are updated one after the other.

| Component | Source | State | Operations | Talks to |
|---|---|---|---|---|
| Scheduler | `scheduler.ts` | `recoveringTasks`, `executionQueue`, wake-up timers | `enqueueTask`, `scheduleTask`, listeners on `system:recovery`, `task:created`, `task:suspended` | pulled from by the pool, fed by the bus |
| Worker pool | `core/WorkerPool.ts` | `isRunning`, `activeWorkers`, `intentHandlers`, one loop per worker | `start`, `stop`, `registerIntentHandler`, the loop, `executeTask` | emits `task:started/resumed/suspended/failed` |
| Event bus | `core/EventBus.ts` | handlers of each event, one instance for the process | `on`, `emit` (synchronous), `off` | everybody |
| Durable execution | `core/DurableContext.ts` | the history of one workflow | `run`, `sleep`, `getHistory` | emits `workflow:step:completed` |
| Task store | `task_manager.ts`, `persistence/PersistentTaskManager.ts` | `tasks`, `cache`, table `tasks` | `initialize`, `createTask`, `getTask`, `getAllTasks`, `completeTask`, `cleanupOldTasks`, `persistAll`, `recoverOrphanedTasks`, `patchWorkflowHistory`, `close` | database; bus |
| Database adapter | `persistence/Database.ts` | the SQLite connection, or none | `connect`, `run`, `get`, `query`, `transaction`, `backup` | better-sqlite3 |
| File lock | `core/FileLock.ts` | `locked`, the `.lock` file | `acquire`, `release`, `withLock` | file system |
| Agent engine | `engine/AgentEngine.ts` | messages of one reasoning loop, a listener on two events per wait | `run`, `waitForTaskCompletion` | creates tasks, waits for their events |
| Log store | `log_manager.ts`, `persistence/PersistentLogManager.ts` | `logs`, table `logs`, connection | `initialize`, `writeLog`, `cleanup`, `loadLogsIntoCache`, `close`, queries | database |
| Policy store | `persistence/PersistentPolicyManager.ts` | `policies`, table `policies`, connection | `initialize`, `createPolicy`, `updatePolicy`, `deletePolicy`, `close` | database |
| Backup store | `backup_manager.ts`, `persistence/PersistentBackupManager.ts` | `storage`, `.dump` files, table `backups`, connection | `initialize`, `createBackup`, `restoreBackup`, `deleteBackup`, `cleanupOldBackups`, `close` | database; file system |
| MCP registry | `mcp/MCPRegistry.ts` | the tools | `registerTool`, `executeTool` | called by the `mcp:execute` handler |
| Dashboard server | `server/DashboardServer.ts` | clients, listeners on the bus | `start`, `stop`, `broadcast` | listens to every task event |
| Boot and teardown | `index.ts` | the assembled system | `initialize`, `initializeWithLimbicDB`, `initializeWithPersistence`, `startDashboard`, `shutdown`, signal handlers | all of the above |
| Retry helper | `core/RetryManager.ts` | none between calls | `retry` | nobody calls it |
| Memory, health, config, errors, metrics, validation, tracing, front end | `memory`, `health*`, `core/*`, `utils`, `dashboard` | see "Not modelled" | | |

What makes each of them correct, and what is hard about it:

* **Pool.** At most `concurrency` tasks at a time; a queued task is executed
  once, by one loop; nothing is lost; each execution is announced; recovered
  tasks go first. Hard because `stop()` only clears a flag, because the slot is
  counted after an `await`, because bus listeners run inside `executeTask` and
  may throw, and because a handler that timed out goes on.
* **Agent engine and bus.** A tool call is answered once, with the answer of its
  own task; no exit of the wait leaves a listener behind; the 65 s limit is a
  ceiling that the pool's 60 s limit keeps below. Hard because `off` splices the
  array that `emit` iterates, because a dashboard's listener may throw in the
  middle of an answer and cause a second one, and because the task queues
  before anyone listens for its answer.
* **Durable execution.** As long as its history is at hand, a step that was
  recorded is replayed with its result, a step is executed again only if its
  function rejected, a sleep lasts as long as it was asked to. Hard because a
  handler may be called again at any time, after a failure in the middle of a
  step or long before its wake-up. (Across a death the repository does not keep
  the history: see `MCTaskStoreReplay`.)
* **Task store.** The table never says less than what was acknowledged, cache
  and row agree, a completed task stays completed, the cleanup takes only what
  is old, recovery hands out no finished task. Hard because the copies are
  aliased in some states and not in others.
* **Log store.** Memory shows nothing that is not in the table, on its way there
  or refused by it; rows go only as a cleanup's options say. Hard because calls
  overlap at every `await`, and because connecting may fail in any of them.
* **Policy and backup stores.** Map and table agree wherever no statement
  failed; a listed backup has its file and is still listed after a restart.
  Hard because memory comes first, the statement second, and a failure is
  swallowed.
* **Boot and teardown.** No task runs before the handler it needs, a stored
  task is answered in this life or a later one, a teardown closes what was
  opened. Hard because boot awaits between recovering tasks and registering
  handlers, and because death may come at any of those places.
* **File lock.** Mutual exclusion through one file; a caller that cannot get
  the lock is told so. Hard because of crashes, stale files and failing disks.

## Modules

| Module | Models | Extends / uses |
|---|---|---|
| `WorkerPool` | scheduler queues and pool loops together | |
| `WorkerPoolProofs` | theorems about `WorkerPool` | `WorkerPool` |
| `EventBus` | the bus: `on`, `off`, and `emit` over a live array, as operators | |
| `AgentEngine` | agents, bus, dashboards and pool around their tool calls | `EventBus` |
| `AgentEngineProofs` | theorems about `AgentEngine` | `AgentEngine` |
| `TaskStore` | task manager, cache, table, running handlers | |
| `TaskStoreProofs` | theorems about `TaskStore` | `TaskStore` |
| `DurableWorkflow` | abstract: a journal that grows step by step until the process dies | |
| `DurableContext` | one handler and the contexts it is called with | instantiates `DurableWorkflow` |
| `DurableContextProofs` | theorems about `DurableContext` | `DurableContext` |
| `LogStore` | overlapping calls on one log store | |
| `LogStoreProofs` | theorems about `LogStore` | `LogStore` |
| `Maps` | a JavaScript `Map` and a table as functions | |
| `PolicyStore`, `BackupStore` | the two registries over their tables | `Maps` |
| `Registries` | both in one process that dies as a whole | `PolicyStore`, `BackupStore` |
| `RegistriesProofs` | theorems about both registries | `Registries` |
| `Lifecycle` | boot, recovery, execution, teardown and death of a system | |
| `LifecycleProofs` | theorems about `Lifecycle` | `Lifecycle` |
| `Mutex` | abstract: a lock is free or one caller's | |
| `FileLock` | callers of one lock file | instantiates `Mutex` |
| `FileLockProofs` | theorems about `FileLock` | `FileLock` |
| `MC...` | the instances for TLC | the module of that name |

### WorkerPool

A loop is identified by the `start()` that spawned it and its worker number.
Its `pc` is the `await` it is at: a sleep (`nap`), the pull that has already
shifted an entry (`pulled`), the race of handler and timeout (`running`), the
500 ms of the branch without handler (`losing`), the end of `executeTask`
(`settled`). `Iterate` is the head of the `while` loop, taken by `Start`, `Wake`
and `Release` alike. A queue entry keeps what `executeTask` looks at: id,
whether it has an intent, whether it has a callback. `RecoveredEntry` has lost
its callback with the old process; `StubEntry` is the `{ id }` that a wake-up
timer pushes. `leaked` counts executions whose decrement was skipped by an
exception (at most `MaxLeaks`), `events` is the log of lifecycle events of each task, and
`submitted`, `generation` and `stops` are the other history variables.

`ThrowingEvents` says on which events a bus listener may throw (the dashboard's
`JSON.stringify` in `broadcast` is one that can). The scheduler's own listener
on `task:suspended` is registered first and cannot throw, so the wake-up timer is
armed before another listener gets the chance.

### TaskStore

For each task: `own` is the object in `TaskManager.tasks`, `cached` the one in
`PersistentTaskManager.cache`, `same` whether the two are one object, and `heap`
the history objects that they, the queue entry and the running context
refer to. Aliasing decides what a later operation sees: `createTask` caches a
shallow copy that shares the history; a reload puts one new object into both
places and no history; `completeTask` sets `completedAt` in the cached object
only. `createTask`, `completeTask` and `patchWorkflowHistory` are two actions
each, before and after their `await`. A history is the set of recorded steps.
`Crash` leaves the table only; orderly shutdown writes nothing either. The code
allocates history objects as it pleases; `Room` is the bound this puts on a
model with a fixed set of them (see "Bounds"), and `AbsentAssumption` says that
`undefined` is none of the values it stands beside.

`DriverPresent` is FALSE when better-sqlite3 is missing: statements then
succeed and change nothing (the runs have it TRUE; see "Divergences"). `WritesMayFail` lets connecting and every statement
throw; the code logs such a failure and goes on.

An execution is the `frame` of a task. `StepRuns` calls a step's function, which
takes effect; then it resolves (`StepCompletes`), or it rejects all the same
(`StepRejects`), and the handler catches that and calls the step again or rejects
too (`FrameEnds`). `FrameSuspends` is a `SuspendSignal` that reaches the pool: the execution
is over and the scheduler arms a timer. `TimerFires` pushes the bare `{ id }`, without a
look at the task's status, which may be completed by then; `LoseContext` is what the pool does
with it. `standing` counts the calls of a function in this process that it has not
rejected. The `getTask` inside `patchWorkflowHistory` is served by the cache, by the row,
or, if its SELECT throws, by the object in `tasks` (`Captured`).

### DurableContext and DurableWorkflow

One handler whose steps come in order (as in `examples/durable_demo.ts` and
`tests/unit/durable_workflow.test.ts`) and the contexts it is called with. `Call` and
`FnReturns` or `FnThrows` are the two sides of `await fn()`; after a rejection the handler
rejects too or calls the step again. `Resume` is the way a handler gets past a
suspension: a caller that kept `getHistory()` calls it again with that history, too
early if it likes, or after a failure. The test does that; no code under `src/src` does.
What `src/src` does are the other two ways: `WakeUp`, the timer that hands in a bare id
for which there is no handler, and `Recover`, which starts a recovered task from an empty history
because `dbRowToTask` leaves the stored one behind. So the history, and every promise made on
it, is one of a single process, and `Die` ends it along with what was counted in it. That the
*stored* history should outlive the process is what the README of the repository says and
`MCTaskStoreReplay` refutes.

`DurableWorkflow` says what the listeners of `workflow:step:completed` are told: one
step at a time, in program order, none twice and none revised, until the process
dies.

### EventBus and AgentEngine

`EventBus` has the two ends of what makes the bus delicate: `Off` takes a handler
out of the array, `Advance` moves the index of a running `forEach` on whether or
not that happened. `AgentEngine` takes an emission of an answer handler by handler
(`DeliverToAgent`, `DeliverToDashboard`, `EmissionEnds`) while nothing else moves:
that is the synchronous `emit`, with its re-entrance made visible. `EmissionEnds` lets the loop
and the answered agent go on in either order, of which the code takes one: the properties
hold for both. A dashboard
whose `JSON.stringify` throws makes `executeTask` emit `task:failed` after its
`task:resumed`, in the middle of the first emission.

An agent's `pc` is its `await`: the model's answer (`thinking`), the return of
`createTask` (`creating`), the promise of `waitForTaskCompletion` (`waiting`, then
`answered` until its continuation runs). Of the provider there is how `invoke`
ends: tool calls, a text, an error. Of the pool there is when a task is pulled
and when and how it is answered; the rest is in `WorkerPool`. `starved` records
that an agent's task was in the queue while no loop was free for it.

`MayAnswer` rests on a count of microtasks: after `task:created` was emitted,
`createTask` returns to the engine within two, and an answer takes at least
three from the pull (the pull's promise, the handler's, the race's), so the
engine listens by the time an answer comes. With an answer allowed before, TLC
finds a call that ends in the 65 s limit although its task was answered:
`GivesUpOnlyBehindQueue` depends on this order and on nothing the code enforces.
The same holds of a persistent `createTask` only as long as its statement is
synchronous, as better-sqlite3's are.

### LogStore

A call is a process, an action is the code between two of its `await`s:
`ensureInitialized` with its `connect`, the base class's push, the statement, the
reload. All calls share `db`, `initialized` and `usePersistentStorage`, so a
`close` or a failed `connect` of one call meets the others half-way. A log entry
is the number of its `writeLog` call. Whether a row is older than a cutoff is
decided when the cleanup asks, for any prefix of the table.

### PolicyStore, BackupStore and Registries

The id of a policy is the clock's reading, so ids may collide. `diverged` and
`returned` record for which ids map and table have a reason to differ. The
statement of `createBackup` and `deleteBackup` comes an `await` after the change of
the map (`statements`). `Binds` says which JavaScript values better-sqlite3
takes as a parameter; a record's `timestamp` is a `Date` and not among them, so that
no row is ever inserted and the branches that read rows back find none:
`RecordHasFile` holds in the code as it is for this reason too.

### Lifecycle

`Lifecycle` composes the parts at the grain of a task's fate: `rows` is the
table's status, `queued`, `active`, `asleep` and `woken` where the living process
has it. It abstracts `WorkerPool` and `TaskStore`: queues are sets, and a pull
takes any queued task, which strong fairness of `Pull` makes good for (below).
`Boot`, `RecoverTasks`, `StoresReady` are the code between the awaits of
`initializeWithPersistence`; the two other modes are ready at once. `Teardown`
follows `teardownSequence` to the `TypeError` in the persistent mode. `Die` is the
death of the process, which keeps the rows and nothing else, whether by `Exit` after a signal or
by `Crash`. `passedOver` records the rows that a boot did not pick up.

### FileLock and Mutex

An action is one attempt. `close` failing after the file was created leaves a
file without holder, as in the code; so does a crash. `RemoveStaleFile` is the
environment: nothing in the class removes such a file. `Release` follows
`withLock`, which releases only what it acquired; `release()` itself does not
look at who created the file.

## Runs

The passing runs take seconds to a minute.

| Run | Instance | States | Shows |
|---|---|---|---|
| `MCWorkerPool` | 2 recovered tasks and 1 that is created or scheduled, 2 workers, 2 starts, any event may throw, 1 leak, fair | 199 444 | `CounterMatches`, `CapacityBound`, `NoDoubleExecution`, `NoTaskLost`, `OneOutcomePerExecution`, `RecoveredFirst`, `EveryTaskAnswered`, `StoppedPoolDrains` |
| `MCAgentEngine` | 2 agents with 2 and 1 tool calls, 1 worker, 1 dashboard, fair | 257 898 | `ContextWellFormed`, `ListenersOfWaiters`, `GivesUpOnlyBehindQueue`, `RunsEnd` |
| `MCTaskStore` | 1 task of 2 steps that may reject or suspend, 1 crash, any statement may fail | 964 244 | `NoPhantomSteps`, `FrameSeesOwnSteps`, `CacheMatchesRows`, `CompletedStays`, `EnqueuedOnlyIfOpen`, `CleanupKeepsOpenTasks` |
| `MCDurableContext` | step, sleep, step, sleep; 2 results; 2 rejections per process; 2 deaths; calls at any time; fair | 22 850 | `ReplayIsFaithful`, `EffectsBounded`, `SleepsLongEnough`, `NeverOversleeps`, `SleepsEnd`, and the refinement of `DurableWorkflow` |
| `MCLogStore` | 2 overlapping calls, 3 entries, `keepLast` 1 or 2, 1 crash | 513 422 | `MemoryIsBacked`, `RowsGoByPolicy` |
| `MCRegistries` | 2 policies in 2 milliseconds, or 2 backups; statements fail, 1 restart | 1 680 426 | `PoliciesMatchTable`, `RecordHasFile` |
| `MCLifecycle` | 3 modes, 2 tasks, 1 worker, 1 dashboard, 3 lives, fair | 235 819 | `HandlerBeforeExecution`, `StoredTasksRun` |
| `MCFileLock` | 3 callers, 2 retries, 1 crash, disk errors, fair | 5 248 | `MutualExclusion`, `AcquireEnds`, and the refinement of `Mutex` |

Runs that find the code at odds with its own words (each checks one property):

| Run | Counterexample |
|---|---|
| `MCWorkerPoolSuspend` | an intent that suspended comes back as `{ id }` and fails with Context Lost (`scheduler.ts:65`) |
| `MCTaskStoreReplay` | a recovered task starts with an empty history, although the row has one, and runs stored steps again (`PersistentTaskManager.ts:104`) |
| `MCRegistriesBackup` | a backup made with the database in service is gone after a restart: its INSERT binds a `Date`, which better-sqlite3 refuses |
| `MCLifecycleShutdown` | `shutdown()` of a persistent system rejects with a `TypeError` (the database object has no `close`), the connection stays open and the dashboard up (`index.ts:58`) |

The faulty variants that stand before some definitions (`SlotKept`,
`MayStartTwice`, `CleanupResumedOnly`, ...) are plausible bugs in that piece of
code. Each property of a passing run is violated when the one that PROJECT.json
pairs it with takes the definition's place.

### Divergences the properties step around

Each of these is in the state space of the models; the properties say exactly
what is true in spite of it.

* `stop()` and `start()` before the old loops look at the flag: old and new loops
  pass the guard of `WorkerPool.ts:69` together, and more than `concurrency` tasks
  run. `CapacityBound` therefore speaks of a pool that was never stopped, and
  `RestartsAddCapacity` says how many there may be otherwise.
* A listener that throws on the last event of an execution costs the pool a slot
  for good, and one that throws on `task:started` costs the task its answer
  (`CutShort`, `leaked`).
* Two deaths: a row that is `recovering` at boot is not selected
  (`PersistentTaskManager.ts:615`). `StoredTasksRun` excepts it (`passedOver`).
* Nothing completes a task whose handler returned, so it is recovered and run
  again at the next boot.
* A task that is completed while it sleeps is enqueued by its timer nevertheless
  (`scheduler.ts:57`), and answered with Context Lost. `EnqueuedOnlyIfOpen` asks for an open
  row of `createTask` and of the recovery only, and of a wake-up that nothing runs the
  task or waits to.
* A function may reject after it took effect, and a handler may catch that and call the
  step again: `EffectsBounded` and `StepsOncePerProcess` count calls that were not
  rejected.
* `persistAll` writes NULL over `completed_at` (`:565`), so that the cleanup never
  finds that row.
* Without better-sqlite3 every query answers with nothing, and the cleanup
  takes that for an empty table (`:510`). This variant (`DriverPresent = FALSE`) is in
  `TaskStore` but in no run.
* A log cleanup empties memory first, and an early return or a failed `DELETE` skips
  the reload: memory may show less than the table. `MemoryIsBacked` promises the
  other direction only.

### Bounds

* `MaxStarts = 2`: two generations of loops are what it takes for an old loop to
  meet a new one; `CapacityBound` and `RestartsAddCapacity` are proved for all values.
* Two recovered rows and two workers: both loops pull recovered tasks, a third
  task waits behind them; each worker count and order is covered by the proof of
  `RecoveredFirst`. `MaxLeaks = 1` leaves one slot of two, without which nothing
  can be answered: `EveryTaskAnswered` has "the listeners leave the pool a slot" as
  its premise.
* One worker and two agents in `MCAgentEngine`: the least for one task to wait
  behind another. `PoolTimeout = 2`, `PollTime = 1`, `EngineTimeout = 4` keep the order
  60 s + 1 s < 65 s, which `TimeoutAssumption` states. Two calls give both one response
  with two and two responses with one.
* One task in `MCTaskStore`: tasks share nothing but the transaction in
  `recoverOrphanedTasks` and the loops over all tasks, whose bodies touch one task each. Two steps are the
  least for "an earlier step is known, a later one is not". `Refs` bounds the
  history objects alive at a time for one task, and `Room` is the guard that
  keeps to it. `Fresh` takes an object that nobody refers to; of the six in the run two
  are always left, so that `Room` is true in every reachable state of `MCTaskStore` (checked by
  TLC) and shuts no behaviour out. The theorems hold for every set `Refs`, an
  infinite one too, with which `Room` always holds.
* Three entries and two calls in `MCLogStore`: `keepLast` 2 can be met, exceeded and
  missed while another call writes.
* `OneInUse` in `MCRegistries` keeps to behaviours in which one of the two stores
  was used. They share no state but the death of the process, and each invariant is about
  one of them, so the behaviours of each store are all there. Two policies
  and two milliseconds give a collision of ids and a distinct pair.
* Three lives in `MCLifecycle`: a task stored in the first, recovered in the second,
  passed over in the third.
* `IdleTime` and `MaxTime` stop the clock of `DurableContext` when nobody sleeps, so
  that the state space is finite; 15 = 3 + 3 * 2 * 2 leaves room for two sleeps of two
  ticks in each of three processes, so that the bound ends no sleep. `MaxRejections = 2`
  lets a step reject, be called again and reject again.
* `MaxRetries = 2` gives a first, a middle and a last attempt.

### Fairness

The event loop runs what is due: continuations of settled promises, expired
timers, emitted events. Hence weak fairness for `Wake`, `Begin`, `TimeOut`,
`LoseContext`, `Release`, `TimerFires` of the pool, and for `WakeUp` and the steps of the
handler in `DurableContext`. Handlers owe nothing to the pool: `Resolve`,
`Reject` and `Suspend` have no fairness, and it is the 60 s timer that ends a hanging
one. Callers owe nothing either: no fairness for `Start`, `Stop`, `CreateTask` or the
release of a lock. In `DurableContext` no function is assumed to settle, nobody to
call the handler again (`Resume`) or to restart a process (`Recover`): `SleepsEnd` says that
again and again the handler is past its sleeps, or its timer has fired. Callers may
call too early for ever, and may not keep either from happening. The
clock has strong fairness because its bound disables it while the handler runs
and a suspension enables it again; `Tick` of `AgentEngine` has it because somebody
may start and stop the pool for ever, and time passes nevertheless. A request to
the model ends (`fetch` resolves or rejects); a tool need not. In `Lifecycle` a
task in the queue is pulled if a slot becomes free again and again (`SF` of
`Pull`): the queues are first in, first out, which the sets do not show, and
every execution ends by the 60 s limit. Nobody owes it to the system to
boot it, to start its pool or to shut it down. The timers of the pool are `unref`'d: the
assumption is that something else (a server, a client) keeps the process up,
and where it does not, the process ends, which is a crash and not a
stuttering step.

`CHECK_DEADLOCK FALSE` is set where the system comes to rest: every task
answered and every start used up, a handler at its end, two finished runs, a
dead process that is not started again.

## Proofs

All theorems hold for every number of tasks, workers, starts, steps, callers,
crashes and retries, under the named assumptions in the modules (numbers are
natural, special values are outside the sets they mark).

**WorkerPool.** `TypeCorrect` proves `TypeOK` with two facts it needs to be
inductive: a loop holds an entry while it is pulling or executing
(`HoldingInv`), and loops of later starts are not spawned yet (`UnbornInv`).
`CounterCorrect` follows the cardinality of the executing loops through each
step: one loop enters with the increment, leaves with the decrement, or leaves
through an exception and counts as leaked. `CapacityBounded` needs that a pool
that was never stopped has been started at most once (`StartsInv`), so that the
executing loops are among `concurrency` many (`ExecutingBound`). The same two facts say
what is left of the limit after restarts, at most `(stops + 1) * concurrency` executions
at once (`RestartsAddCapacity`). `RecoveredGoFirst` needs that the
recovering queue holds orphans only (`OrphansInv`): a pulled entry that is not one
lies behind that queue, so that all of it is shifted in the same step
(`ShiftRecovering`, `PullsRecoveredFirst`).
`NeverTwice`, `NeverLost` and `OutcomesInOrder` share two invariants. `PlacesInv`:
a task is in one place at most, an entry of the two queues, a loop or the timer,
along with the fact that entries are made of submitted tasks only. `HistoryInv`: what was announced of a
task goes with its place, so a task that rests has no event or an outcome as its
last one, and one that executes has `task:started`. The tasks whose last event is
`task:started` although no loop is at them (`Cut`) are the ones a listener cut short, and
each has cost a slot; that is where `leaked` bounds the executions without outcome. The
lemmas `ShiftWaiting`, `ShiftQueued`, `AppendQueued` and `RecoverQueued` say what the queue
operations do to the set of queued tasks.

**DurableContext.** `Invariance` proves the conjunction of: the announced events
are the history in program order (`JournalInv`); the handler is inside its
history, and an awaited function is that of the first step outside (`PosInv`);
what any invocation of the process was given is what the history says
(`GivenInv`); and a function has been called at most once more than it rejected,
and no more than that while its result is missing and it is not in flight
(`CallsInv`). `ReplayIsFaithful` and `EffectsBounded` are read off it. None of the
parts is inductive alone: that a second invocation is given the same result
rests on nothing being written over in the history, which rests on a step being
called only if it is outside, which rests on the order in which the
handler goes through it. `SleepInv`, proved on top, ties the recorded end of
a sleep to when it was begun, and gives `SleepsLongEnough` and `NeverOversleeps`.
`Refinement` maps the announced events to the journal and deaths to deaths.

**FileLock.** A holder's file exists and is its own (`HolderOwnsFile`), which is
inductive with the types of `pc`; exclusion follows because a file has one
creator. `Refinement` maps the abstract holder to the caller in `holding`.
`TypeCorrect` holds the bound of `acquire`'s loop: a caller that backs off has a
retry left, so that the count never passes `maxRetries`.

**Lifecycle.** `Invariance` joins four facts that only hold together: a pool or an
executing task means that the boot is over, and then the handler is registered
(`ReadyInv`); without a database nothing is stored and no boot passes through a
recovery (`VolatileInv`); a task on its way to its INSERT is already held by the
process (`CreatingInv`); and a process past its recovery holds every stored task
that was not answered or passed over (`NothingForgotten`, the safety half of
`StoredTasksRun`). The last needs the others: a row written by `StoreTask` must be of a held
task, and a boot without recovery must find no rows. `HandlersComeFirst` and
`StoredTasksAreHeld` are read off it.

**AgentEngine.** The invariant has a part per actor. `Registered`: an agent is on
each of the two lists exactly while it waits, and once. Only then does `Off`, which
takes out the first entry that matches, take out all there is of it (`OffRemoves`),
and this is `ListenersAreWaiters`. `InStep`: while a call is open, its
task is the newest one the agent made, and the tool messages so far are the answers
of all the earlier ones; an answer that comes late, twice or to another agent
meets nobody who waits for its task. With `EmissionInv` (the loop that emits still
holds the task it answers) this gives `ContextsWellFormed`, also for the re-entrant second
emission. `GivesUpOnlyWhenStarved` is an argument about time, `TimeInv`: the task of a
waiting agent that was never short of a loop is in the queue with a free loop for its
position, whose nap ends soon enough, or in the hands of a loop whose nap and
60 s fit in what the engine's timer has left (`Served`); and an emission of its answer
still has the agent before it in the array that `forEach` walks (`Reaches`), however
many handlers `off` splices out on the way. It is proved for all limits with
`PoolTimeout + PollTime < EngineTimeout` and finitely many loops.

**TaskStore.** `IInv` says of each task: its histories, in objects, in
the row and in what is on the way to it, name steps that ran (`HistoriesRan`); a
running context and its history object agree, and no patch that is still to be
applied to this object brings a step the context has not passed (`InStep`);
what runs or waits to run does not sleep; before `createTask` there is nothing of a
task, and before the recovery has returned nothing works on one (`Born`); the object in `tasks` is never behind a completed row
(`OwnNotBehind`); and with a driver, what is cached has a row and its status
(`Matching`). `CompletedStays` shows why none of it stands alone: `persistAll` writes
every object of `tasks` over its row, so a completed row stays only if
the object was completed first, which in turn depends on whether object
and cached copy are one object (`same`) while a completion is between its two
halves. Theorems about the cache and the cleanup have `DriverPresent` as a
hypothesis, since without the driver the code does otherwise (see "Divergences");
the others hold either way. `StepsOncePerProcess` is the other side of what
`MCTaskStoreReplay` finds: a recovered task runs recorded steps again, but in each
process at most one call of a step's function is pending or has returned
(`standing`), because an entry with a handler is made once per process, a context
only moves on, and what it calls again has rejected (`Spared`). No run lists it; TLC
checked it, like every invariant used in a proof, before it was proved.

**LogStore.** `CallInv` ties where a call is to what it does and holds (a call between
push and INSERT is a write with an entry). `MemoryIsBacked` is inductive with it and the types;
`RowsKept` needs that the rows of a DELETE are a prefix or all but the last
`keepLast`, which `DeletedRows` states once.

**Registries.** `PoliciesMatchTable` speaks of a store in service; what is
inductive is `MatchInv`, which holds while it is being opened and closed as well,
because calls are not kept out then. `RecordHasFile` is inductive only with the
fact that the table stays empty (`TableStaysEmpty`): a row read back could name a file that
a cleanup removed. The theorem of that name is the reason for the counterexample of
`MCRegistriesBackup`.

Only model-checked: liveness (`EveryTaskAnswered`, `StoppedPoolDrains`, `RunsEnd`,
`SleepsEnd`, `AcquireEnds`, `StoredTasksRun`). It rests on fairness, whose
`ENABLED` the prover does not reason about. Every other property of a passing run is
stated by a theorem. The findings are counterexamples and stay with TLC.

## Not modelled

* Memory backends (a scan of an array, or the external limbicdb package),
  health checks (they read), configuration, error classes, metrics, validation,
  tracing, the dashboard's front end and its clients' connections, the HTTP of the LLM
  provider: I/O or small synchronous helpers without state shared between
  actors. `personality_manager.ts` keeps policies in a map nobody else
  writes; the MCP registry does the same with tools.
* `RetryManager`: a bounded loop that no code of the repository calls.
* A second system in one process. The bus is one per process, so a task
  created in the second system is queued in both; the tests construct several,
  one after the other.
* Steps of one workflow in parallel branches: the documented use is sequential. A
  handler that catches a rejected step and goes on without it, and two invocations of
  one handler at a time (the 60 s limit frees the slot and the first one goes on).
  The two readings of the clock in `sleep` are one instant in `DurableContext`. A listener
  of `workflow:step:completed` that throws makes `run` reject after the history has the step.
* Overlapping calls of `initialize` and `close` of the policy and of the backup store
  (`OpenPolicies`, `ClosePolicies`, and theirs in `BackupStore`, wait for each other). The log
  store has them.
* Tasks of `scheduleTask` whose ids, made of `Date.now()`, collide: `Enqueue` takes
  each id once.
* Completions and cleanups in `Lifecycle`, whose rows only say active or recovering;
  `TaskStore` has them.
* A second patch listener after `close` and a new `initialize`: it repeats the
  first one's patch of the same object, with the same result.
* A missing driver in the log, policy and backup stores, where every statement
  then does nothing and every query answers with nothing.
* The text and format of rows, dates, and ids; titles, priorities, metadata.
  Whether something is old enough is a variable or a choice.
* Database migrations, `Database.backup`, statistics; `queryTasks`, `queryLogs` and
  `getStatistics`, which only read; the contents of backup files. A power loss that takes
  commits with it (WAL with `synchronous = NORMAL`): a death here keeps what was
  written.

## Plan

1. Done: the modules above with their runs, and proofs of every safety
   invariant and action property that a passing run checks.
2. Proofs that tie the modules to one another: that the pool's part of `Lifecycle` is
   what `WorkerPool` does once queues are taken as sets (`PlacesInv` has the queued, pulled and
   executing tasks already), and that `Lifecycle`'s rows are those of `TaskStore`.
3. The hazards without a property: parallel branches in `DurableContext`, two
   policies in one millisecond with a failed statement, a `close` that overlaps an
   `initialize` in the log store.
