# A TLA+ model of DataLineup engine

DataLineup engine (`src/src/datalineup_engine`) runs *pipelines*: Python functions that take the messages of a
*topic*, or the items of a *job* (an inventory of items), and publish their results to output topics. A **worker
manager** (an HTTP server over a SQL database) assigns queues and jobs to **workers** (one asyncio process each). A
worker synchronises its assignment every few seconds, runs each queue as an async generator in an **executor**, takes
the exclusive **resources** the pipeline needs for each message, and sends the progress of its jobs back.

This directory holds TLA+ modules translated from that code, TLC configurations that check them on small instances,
and TLAPS proofs. Paths below are relative to `src/src/datalineup_engine` unless they start with `docs/` or `tests/`.

## 1. The system

### Components

| Component | State | Operations | Hard behaviours | What makes it correct |
|---|---|---|---|---|
| Resources of a worker (`worker/resources/manager.py`) | per type: registered, available and used objects, a condition; per object: release time, background release | `acquire_many` with and without waiting, context exit, delayed release, `add`, `remove` | waits on several conditions, a wake-up that loses its race, removal while lent, cancellation, an entry or an addition that raises | one user per resource, none lost, no early reuse, no deadlock |
| Executor (`worker/executors/{executable,scheduler,queue,parkers,manager}.py`) | the generator of each queue, its parkers, semaphore and count of messages; the `__anext__` tasks of the scheduler; `submit_lock`, one-place queue, worker and output tasks | poll, schedule, submit, delayed submit, execute, publish, remove a queue, close | two backpressure paths (resource, outputs), removal and close at any suspension | no queue forgotten, fair turns, everything taken is done |
| Execution of a message (`worker/executors/{queue,bootstrap}.py`, `worker/services/hooks.py`, `utils/hooks.py`, `worker/services/usage_metrics.py`) | the nested emissions of hooks, what is to publish, the stage metrics count | execute, emit and resume hooks, publish at once then waiting, leave the context | a failure or cancellation in nested generators, a publication in doubt | acknowledged means published, and not twice without a reason |
| Error handling (`worker/error_handling.py`) | the output channels of a queue, the retries in a message | match of an exception, handlers, republication | a filter that cannot be parsed, retries that are over | an error is published or reported, a retry is not lost |
| Resource providers (`worker/resources/provider.py`) | the names a provider manages | `sync`, `add`, `remove`, `open`, `close` | a name defined twice, a fetch that fails | managed names are the registered ones |
| Synchronisation of the worker (`worker/{work_manager,broker,work_factory}.py`) | desired and running queues, executors, resources, providers | `sync`, `run_sync`, `add`, `remove`, the life of the broker | a step that fails between two others, a stop at any time, which a close may swallow | the broker converges to the assignment, and shuts down |
| Services of a worker (`worker/services/*`, `worker/runner.py`) | loaded services in order, which are open | load, open, close | services that miss others, opens and closes that raise | nothing runs on a closed service |
| Job states (`worker/services/job_state/*`) | current and flushing state, the throttled flush and its shared future | `set_job_*`, `flush`, `fetch_cursors_states`, `close` | updates during a flush, failed flush, keys stored in former formats | no update is lost or overwritten by an older one |
| Inventories, cursors, jobs (`worker/{inventory,job,cursors}.py`, `worker/inventories/*`) | `after`, partials, pending items, the event of `join`; of inventories built out of others, a cursor made of theirs | iterate, skip, enter and leave the context of an item, complete, fail | items end out of order, crash and resume, two workers on one job | the cursor covers only what was processed; the job ends after its items |
| Topics (`worker/topics/*`) | RabbitMQ channels, the shared lock and reservations of publications, batches | consume, publish, acknowledge | a full queue, lost channels, a batch timing out while a message arrives | publications end, a message is acknowledged or rejected |
| ARQ and process executors (`worker/executors/{process,bootstrap}.py`, `worker/executors/arq/*`) | a job in redis, a health key of each side | execute, beat, monitor, cancel | either side dies, late beats, a result saved meanwhile | no false death, deaths noticed, orphans stopped |
| Async primitives (`utils/{asyncutils,iterators,hooks,lru}.py`) | tasks groups, throttle, shared lock, credits | | cancellation, shared futures | |
| Worker manager (`worker_manager/{services,api}/*`, `stores/*`, `models/*`) | assignment of queues, jobs, cursors | `lock_jobs`, `sync_jobs`, `sync_jobs_states`, `start` | expiry of an assignment, concurrent requests, checks and commits with others between, failed commits | one worker per queue, one running job per definition |
| Definitions (`worker_manager/config/*`, `stores/topologies_store.py`) | records parsed from YAML | load, patch | | |
| Observability, configuration, tools | none the others read | | | |

### Interactions

```
worker manager --lock_jobs (every refresh)--> WorkManager.sync --> Broker.run_sync
                                                   |                  | add / remove queue
                                          ResourcesManager       ExecutorsManager --> Scheduler (one per executor)
                                          add / remove                 ^  __anext__      |
                                                ^                      |                 v
 Inventory.run --> Job.run --topic--> ExecutableQueue.run (generator) -+--> ExecutorQueue.submit
        ^                                      ^ parkers                     |  resource, place, worker, outputs
        | contexts of the items left           +-----------------------------+
        v
 CursorsState --set_job_cursor--> JobStateService --sync (throttled)--> worker manager
```

The context of a message ties these together: it is the asyncio exit stack that holds the semaphore and the count of
its queue (`executable.py:190-223`), the resource (`executable.py:64-76`) and, for a job, the item
(`inventory.py:173-200`, `job.py:54-63`). Whoever leaves it, when and how often, is what most of the hazards in
`PROJECT.json` are about.

asyncio runs one coroutine at a time between two suspensions, so an action of the models is what the code does from
one point where it may really wait to the next. Crashes matter where something outlives the process: the job cursors,
the assignments of the worker manager, the deliveries of RabbitMQ, the jobs and keys of ARQ in redis.

## 2. Modules

| Module | Models | Checked by | Proved in |
|---|---|---|---|
| `ResourceAllocation` | what the resources of a worker promise: an object is free or with one client | `MCResources` | `ResourcesProofs` |
| `Resources` | `ResourcesManager`, `ExclusiveResources`, `ResourceContext`, `ResourcesContext` | `MCResources` | `ResourcesProofs` |
| `Executor` | `ExecutableQueue`, `Scheduler`, `ExecutorQueue`, `Parkers`, `ExecutorWorker`, with `TasksGroup` as they use it | `MCExecutor` | `WorkerProofs` |
| `Hooks` | context hooks and their emissions, the stages of the usage metrics | through `Execution` | `ExecutionProofs` |
| `ErrorHandling` | output channels, filters, handlers, retries | through `Execution` | `ExecutionProofs` |
| `Execution` | `run_queue`, `process_results`, `consume_output`, the bootstrap of a pipeline; extends the two above | `MCExecution` | `ExecutionProofs` |
| `RabbitMQ` | publications, `SharedLock`, the queue of the broker, contexts of deliveries | through `Batching` | `RemoteProofs` |
| `Batching` | `BatchingTopic` over `RabbitMQ`, which it extends | `MCBatching` | `RemoteProofs` |
| `Cursors` | `CursorsState`, `Inventory.run`, `Job`, the states sent to the worker manager | `MCCursors` | `CursorsProofs` |
| `CursorsState` | the same state as functions, for one input of a larger inventory | through `Inventories` | `JobProofs` |
| `Inventories` | batching, chained, fan-in, joined and looping inventories; extends `CursorsState` | `MCInventories` | `JobProofs` |
| `JobState` | `JobsStatesSyncStore`, `JobStateService`, `CursorsStatesFetcher`, `DelayedThrottle` as they use it | `MCJobState` | `JobProofs` |
| `WorkerManager` | `lock_jobs`, `sync_jobs`, `start`, the end of jobs, and what workers do with the answers | `MCWorkerManager` | `WorkerManagerProofs` |
| `WorkSync` | `Broker.run_sync`, `WorkManager`, `ExecutorsManager`, the resources providers | `MCWorkSync` | `WorkSyncProofs` |
| `Services` | `ServicesManager`, the namespace of the services, `standalone_config` | through `Broker` | `WorkerProofs` |
| `Broker` | the life of a worker: services, synchronisations, executors, stop; extends `Services` | `MCBroker` | `WorkerProofs` |
| `Arq` | `ARQExecutor.process_message`, `remote_execute` and the health checks of both | `MCArq` | `RemoteProofs` |

The modules meet at their interfaces. `WorkerManager` decides the assignment that `WorkSync` follows (its `Answer` is
the lists of `lock_jobs` over the queues `WorkerManager` gives). `WorkSync` adds and removes the queues of `Executor`
and the objects of `Resources`; `Broker` is around it, and takes its synchronisations as steps that suspend and end.
`Executor` brings a message to its worker and `Execution` is what happens to it there and after, `Arq` being one way
of the step `Execution` calls the pipeline. The publications of `Execution` are those of `RabbitMQ`, and the contexts
it leaves those `Batching` and `Cursors` count on. `Inventories` builds on the runs of `Cursors`, whose states
`JobState` sends. A module of proofs may be about two of them, and extends both; the specification is named after its
module (`BrokerSpec`, `ArqSpec`, `InventorySpec`) where the other one has a `Spec`.

The `map` of `PROJECT.json` gives the lines behind each definition. Definitions whose comment starts with "Mutant"
are faulty variants of the definition that follows them: replacing it by the variant breaks a property, which shows
that the property constrains the code. They are no part of any specification.

### Resources

A client is one submission of a message; it asks for one resource of each type of `Needs`. `AcquireMany` is
`acquire_many(wait=True)` up to its first real wait (`condition.wait_for`), `AcquireManyFails` the attempt without
waiting that gives everything back, `Wake` the predicate of `wait_for` evaluated again, `CancelWait` the
cancellation of the task. `ResourceData` compares by identity, so the objects and not the names are what is lent;
`KeyFree` is the test on names `add` makes. Two errors leave something behind. A context of `BadLimits` raises as it is
entered, after its object was taken and before the exit stack owns it (`ProceedRaises`): the stack gives back the
others, and `leaked` keeps that one, which stays used. An object of `BadStrategy` is registered when `add` raises,
without a notification (`AddResource`); `lost` says that a wake-up of its type went astray. The rate limiter is a choice among the resets it may answer; the release
time is the number of ticks left. `ReleaseLater` is a pipeline that replaces the release time of what it used.

### Executor

`gen[q]` is where the generator of queue q is suspended and `stage[m]` where message m is. One action is one stretch
between suspensions: `PollMessage`, `YieldMessage` and `TopicEnds` are stretches of `ExecutableQueue.run`;
`WaitTasks`, `ProcessMessage`, `ProcessEnded`, `Submit`, `EndBatch`, `EndRun` of `Scheduler.run`; `Poll`,
`Executed`, `ExecuteFails` of `run_queue`; `Published` and `PublishBlocks` of `process_results`; `AcquireDelayed` and
`SubmitDelayed` of `delayed_submit`; `StartClose`, `CloseScheduler`, `CancelSubmits`, `CloseExecutor` are the phases
of `ExecutorWorker.close`. There is one resource type, used as a counter: which resource is lent is the business of
`Resources`.

### Hooks, ErrorHandling, Execution

A message is in a stack of `frames`, one for each emission of a context hook it is in: the handlers are called in
order, those that yield are kept as generators, the scope runs, and the generators are resumed in reverse order. What a
handler does is left out, but for the stages of `usage_metrics.py`, which say where a message is counted (`stages`).
`Execution` goes from the poll of a message (`Poll`, `Schedule`, `Submit`, with only their effect on the stages) to the
end of its context: `Take` and `Executed` are the ends of `run_queue`, `Bootstrap`, `PipelineReturns` and
`PipelineRaises` those of the pipeline, `ExecutorRaises` the executor failing in its place, `PublishNow`,
`PublishWait` and `Published` the ones of `consume_output`, `Processed` the end of `process_results`, `Cancel` the
cancellation of its task. A publication is accepted, refused, or fails after it was accepted (`doubtful`): that is
where a second one is sent. In `ErrorHandling` a pattern is the set of what it matches and an exception a record of
what a filter can look at, so that the rules of matching are those of the code and regular expressions are not
modelled. `Copy` bounds how often a message comes back.

### RabbitMQ and Batching

A publication makes a reservation, which waits while the lock is held, then declares the queue, sends, and waits for
the answer; refused or failed, it takes the lock and tries again after a backoff. `Wake` is the event loop running the
first one that waits for the lock, so that a lock that was released is free until then. The broker keeps the order,
refuses what exceeds the length, and gives the deliveries of a lost channel again: an `epoch` says which channel a
delivery came by, since an acknowledgement on a former one is an error. `Batching` is the task that reads (`Consume`,
`Read`), the generator that collects (`Collect`, `Flush`), and the contexts of a batch, entered and left as the exit
stack does: `EnterFails` is one message of a batch that cannot be decoded. Time is left out: a flush may time out
whenever nothing is there to read.

### Cursors

A *run* is the inventory object a worker builds for the job each time it is assigned to it. Runs may overlap, since
an assignment expires while its worker lives. Items are taken in the order of the inventory; `pending` and `kept` are
the two kinds of entries of `_pendings`. `Commit` is the end of `process_item`; `PartialsOf` is `as_dict`, where
`islice` of a set is any subset of the right size. `Flush` is one request of the state service: when it fails, the
state is restored, and the request may have arrived all the same (`requests`). Batches end on an item that has a
cursor: otherwise `Inventory.iterate` would start again from the beginning (a hazard listed with no property).

### Inventories

Each input has the state of a run of its own (`inv[i]`, the operators of `CursorsState`); `JobCursor` makes the cursor
of the job out of theirs and `StartCursor` takes it apart again, as the code of each kind does. `YieldItem`,
`YieldBatch`, `TakeRoot`, `AddSub` are the four ways a message is made; `Leave` is the end of its context, with all that
follows for the inputs, for a batch and for the root item behind a joined inventory (`RootDone`). `CloseJob`, `Crash`,
`InputFails`, `RootFails`, `SubFails` are the faults; `Faults` says which are taken with which kind. Items all have
cursors here, and partials are below their bound: `Cursors` has the other cases for a single inventory.

### JobState

The service of one worker over what it replaces, the *keys* (the cursor of a job, its completion, the state of a
cursor); the values of a key are numbered as they are set, so that "older" has a meaning. `currentState` and `flushing`
are the two states of the store; a throttle (`flusher`, `fetcher`) is what its task does and whether a call is
remembered. `Set` is any of the `set_*` operations with the throttled flush each makes; `BeginFlush`, `Arrive` and
`EndFlush` or `FailFlush` are the stretches of `flush` around its request; `Close` and `Exit` are the close of the
service and the end of its process. `Read` is `fetch_cursors_states` up to the future it shares, `BeginFetch`,
`EndFetch` and `FailFetch` the request behind that future, `CancelRead` the cancellation of a task that waits for it.
How long a delay lasts, and `flush_event` which ends it, are a free choice. The model takes a request the client saw
fail to have been applied before that, or never; `auto_flush` is on. A cursor's key may be stored in several formats
(`Formats`): it is saved under `SaveFormat`, asked for under all of them, and the last one the answer has is what the
reader gets (`Found`, `Stored`). The answer is a JSON object, which Flask sorts by its keys, so that which format is
last is about the names the cursor has under them (`service.py:78`, `service.py:122`), and nothing relates those to the
format that is saved: `Formats` is any sequence, for each cursor (`FormatsAssumption` only gives its type).
`Overshadowed` are the cursors of which a former state is answered after the saved one.

### WorkerManager

The *worker items* are the queues and the jobs; a job has a queue of its own. `job` has their rows in
the order of `started_at`, so that the last committed one of a definition is what `get_last_job` returns. Time is what the code compares:
an assignment has an age, up to the first one that is expired, and `run[w]` holds, for each item a worker runs, the
age of the answer that gave it. A creation is three steps of a thread `r` of the server: its check (`SyncJobs`, which is
`sync_jobs` for one definition with the time croniter computes left free, or `StartDefinition` and `StartName`, which
are `start` with the name of a definition or of a job), the row it makes, whose `started_at` is of that moment
(`CreateJob`), and the commit (`CommitJob`, or `FailCreation`). A check reads what is committed by then (`committed`), as
with the isolation level `READ COMMITTED`, which PostgreSQL has unless told otherwise; `_SYNC_LOCK` (`Syncing`) keeps the
scheduled creations of what has an interval apart, and nothing else. `seen` is what the check found, for the properties.
`Asked` is what the requests a thread serves ask for, a synchronisation or a start; the theorems hold whatever it is.
`LockRead` and `LockWrite` are the two ends of `lock_jobs`, which `_LOCK_LOCK` keeps to one request at a time but not
apart from other transactions: whatever happens between them is seen by neither. `Receive` is `load_queues` with the
answer, `LoseAnswer` a request whose answer never comes; `Die` and `Restart` are the end and the start of a worker
process, `Redefine` a change of the definitions, `Complete` the end of a job as its worker reports it. Cursors and
results of jobs are left to `Cursors` and `JobState`. `RollBack` is a commit of assignments that fails: they are gone,
and so is the answer.

### WorkSync

`recorded` stands for `worker_items` and the other three dictionaries of `WorkManager`; `work` is what is left of the
`WorkSync` the broker applies. Additions go from the executors to the queues, the resources and the providers, drops in
the opposite order, as in `run_sync`. An exception in `sync` is caught and tried again (`SyncFails` is the one that
leaves something behind); one in an addition or a drop ends the broker (`Fatal`). `stale` are the queues whose former
object still runs because a failed synchronisation forgot it. `Provided` gives the outcomes of
`ResourcesProvider.add` over a collection: everything, or what came before a refused duplicate or a
resource of an unknown strategy (`BadStrategy`), which is registered when `add` raises. `Poll` is one turn of
`PeriodicSyncProvider.poller`, at any time while the provider is open; the updates of the manager it makes do not
wait for anything that lasts, so it is one action. `cause` and `skipped` record why the broker ended and that a
synchronisation was skipped; no action depends on them.

### Services and Broker

`Services` is the loop of `services/manager.py:24-70` over the classes of the configuration, one class per step: a
class whose interface names a service that is missing is deferred, and the deferred ones are tried again as long as one
of them loads. The code makes two names of one list there (`retrying = "aliased"`), which the module keeps. `Broker`
is the rest of the life of a worker: `LoadServices` and `OpenServices`, the synchronisations with an executor
that is removed and closes (`RemoveNext`, `Removed`), `Stop` at any time, and the way down, executors first
(`CloseExecutors`, `ExecutorClosed`, `ExecutorFails`), then services in reverse order (`CloseServices`), where any of
them may raise. A cancellation that meets the close of a removed executor ends it there (`Abandon`), or is swallowed by
`TasksGroup.close` (`utils/asyncutils.py:91-95`) and changes nothing, which `swallowed` records. A close ends, as `CloseEnds`
of `Executor` says, and the run of its executor ends with it or never does (`stranded`). An open service is an index of `loaded`, since two classes may have one name.

### Arq

Both processes, the job and the two keys in redis, with time. A sleep is a timer that is served at most `Late` after it
ends; a step that needs no sleep takes at most `Late` too (`due`). Keys live twice the interval of the beats. The two
ways of the monitor to see that a job has begun are actions of their own (`MonitorRunningAtOnce`,
`MonitorRunningByStatus`); `WorkerDied`, `FetchResult`, `ResultTimesOut`, `RedisLost`, `CancelWait` and `EngineCrash`
are the six ways a wait ends (`RedisUnreachable` is one that does not begin), `RemoteCrash`, `CancelPipeline`,
`JobTimesOut` and `ShutDown` those of the remote side beside the end of the job. The last two are arq's own cancellation
of `remote_execute` (`Unwind`), after its `job_timeout` or as its worker is shut down: the token is not set, what the
pool had not taken is dropped, and a pipeline that runs goes on. A job that was shut down is back in the queue, where its
one try is used up (`TakeJob`). The ages (`orphaned`, `crashed`, `ran`) are what the properties speak
about; no guard reads them.

## 3. What TLC checks

| Run | Instance | Shows |
|---|---|---|
| `resources` | 3 clients, 2 types, 4 objects: one delayed, one rate limited, one whose rate limits cannot be read, one of an unknown strategy | `NothingLost`; `WakeupsCoverAvailables`: no free resource beside a waiter nobody will wake, unless a wake-up went astray; `SomeoneProceeds`: no deadlock; `AllocationSpec`: the manager implements `ResourceAllocation` |
| `executor` | 2 queues (3 + 1 messages), the first with a concurrency of 3 and a type of 2 resources, 1 worker | `OneTaskPerQueue`: no queue is forgotten or polled twice; `OutputsOutliveCounted`; `BoundedOvertaking`; `MessagesDone`; `CloseEnds` |
| `execution` | 2 copies of a message, 2 exceptions, 3 definitions of the outputs: one retries once, one republishes to a channel it lacks, one has a filter that cannot be parsed | `AcknowledgedIsPublished`, `RetryKept`, `TwiceOnlyInDoubt`, `OneStage`: a message is counted in one stage of the metrics; `MessageEnds` |
| `batching` | 3 publishers (one does not wait) into a queue of one, 1 external message that cannot be decoded, 2 reservations, batches of 2 | `RetriesAlone`: one publication retries at a time, holding the lock; `PublishEnds`; `Delivered`: what was published is acknowledged or rejected in the end |
| `cursors` | 3 items, the first without a cursor, 2 runs (unlimited and at most one partial), one request under way | `CursorCoversLeft`, `CompletedMeansAll`, `JoinWakes` |
| `inventories` | chained and fan-in of 2 + 2 items, 5 items in batches of 2, a loop of 3, a root of 3 items joined with 2, 2 and 0, up to 3 runs | `CursorCoversLeft`; `NothingTwice`: what a run's cursor covers is not yielded by it; `GoesOverAll`: a job that completed without an error went over everything; `RunEnds` |
| `inventories_failing` | the same, where a root or an inventory that is joined may raise | **violated**: `GoesOverAll` |
| `jobstate` | 2 keys set twice each, both stored before in a former format, which is answered first for one and last for the other, 2 readers | `NothingForgotten`, `DirtyIsScheduled`, `ReadYourWrites`, `ReadsEnd` |
| `worker_manager` | 2 workers with a limit of one queue, of which one matches everything and the other the job of its own, a definition with an interval, one thread for scheduled creations and one for starts, 2 rows, expiry, one fault | `ExclusiveWhileFresh`; `WithinLimit`; `OneRunningUnlessRaced`: a job is created beside a running one by the name of a job, or because that one was not committed at the check; `TakenOver` |
| `work_sync` | 2 queues with an executor each, 4 resources, two of an unknown strategy, 2 providers, one fault | `EndsForAReason`, `RegisteredIfOwned`, `Converges` |
| `broker` | the default services with five configurations of the user's, 2 executors | `UsedAreOpen`: no executor on a closed service, no service on a closed one; `StopEnds`: a stop that cancels the synchronisations ends the broker |
| `arq` | one job, beats every 10 s, life of keys 20 s, event loops up to 5 s late, timeout 65 s, `job_timeout` of arq 30 s (units of 2.5 s) | `NoFalseDeath`, `DeathNoticed`, `OrphanStopped` |

### Bounds

* Two waiting clients over the same two types are the smallest instance with a deadlock to avoid; the third client
  takes the resource a waiter was notified for. The object of each
  error is of the type of another that has none, so that a type goes on being served after the error. With
  `MaxDelay = 1`, having a release time and having none differ,
  which is all the code tests.
* Three messages in one queue beside another are the first number at which one queue could go past the other three
  times. Two resources and a concurrency of three let that queue have a message executed, one in the executor queue
  and one parked, while the message of the other waits for a place: every backpressure at once. With both queues
  sharing one resource (3 + 1 messages, concurrency 2) the same properties hold, but no place is ever waited for.
* Two copies are a message and its republication, the second of which has no retry left. Two outputs in one result
  make their order matter and let the first be in doubt while the second is not. Each exception matches another of the
  error channels, so that every channel is the first one to match somewhere.
* Three publishers are one that holds the lock, one that waits for it and one that does not wait; a queue of one
  message refuses the others. `Prefetch` and `BatchSize` of two make a batch that fills and one that times out;
  `MaxBatches = 1` makes the generator wait for the contexts. `MaxFaults = 1` is one lost channel, failed publication
  or close; `RetriesAlone` also holds with two (2.9 million states), which is too many for the liveness checks.
* Three items are the smallest inventory where an item is pending while two later ones are done, so that the bound on
  partials and the order of the commits matter; two runs are enough for an old cursor to meet a new one. With two
  requests under way (`MaxRequests = 2`, 4.6 million states) the same properties hold; the configuration keeps one,
  which still lets a request of a dead run arrive after the next run has started.
* Two items per input are an item in flight and one done after it, on each side of the border between two inputs. Five
  items in batches of two end on a batch that is not full. A root of three with a concurrency of two has an item that
  waits for the semaphore; the empty joined inventory ends before anything of it is left. A third run resumes from a
  cursor that was itself resumed from.
* Two updates of a key are an old value and a new one, in flight at the same time; with two keys a flush carries one
  and leaves the other. Two readers are one whose cancellation can reach another.
* Two workers with a limit of one are the fewest that can compete for a queue and leave another one; the definition
  with an interval and the job without one are the two ways jobs are made. Two rows and two threads (`Asked` says what
  the requests of each ask for) are one creation between the check and the commit of another: a synchronisation and a
  start, which no lock keeps apart. `MaxFaults` is one lost answer, failed transaction or death. The same
  properties were checked with two threads that serve everything (7.0 million states, without liveness; two scheduled
  creations of a job of its own, of which the second finds its name taken, happen only there), with four rows
  and no worker, and, with one thread and two workers that match everything, with an age of expiry of one instead of zero
  and with a worker that has no limit.
* In `WorkSync` a queue with a resource and one without, on different executors, make every order of additions and
  drops happen. The resources are two that only a definition names, one of which cannot be built, one that a
  definition and both providers may name (so that a duplicate is refused) and one that only the polling provider names,
  which cannot be built either: its provider logs the error and goes on. One fault is enough for each
  place where something fails; a second one fails in what is already accounted for by `skipped` or `cause`.
* The services of the broker have one that needs another that comes later, one that needs what nobody provides, and
  two of one name. Two executors are one that is removed while another runs. `MaxTries` only cuts the rounds that
  never end, after what they can load is loaded.
* The clocks of `Arq` are in units of 2.5 s: 10 s for `healthcheck_interval` and the last sleep of the monitor. `Late`
  is two units, the largest the assumption allows for these: with three, TLC finds a false death. The `job_timeout`
  of arq is 300 s by default and the timeout of the executor 1200 s: both are shorter here, and in that order. Ages stop
  counting at `AgeBound`, beyond every bound the properties name.

`CHECK_DEADLOCK FALSE` is set where the system may stop: an executor that is closed, a message that is left, a topic
that was read, a job that is completed, a worker that has exited, a broker that has ended. `resources` and
`worker_manager` check deadlock.

### Fairness

`Resources` asks weak fairness of the tasks asyncio has made ready (`Wake`), of the clock and the background release,
and of the end of the messages that hold resources. `Executor` asks it of every
task that can go on, of pipelines (they end, with results or an error) and of publications (downstream topics take
them in the end, or time out). Nothing is asked of the arrival of messages, the synchronisation that adds and removes
queues, the start of a close, or the end of a topic. `Cursors` has no fairness: that a job's `join` returns is stated
as the absence of a missed event, `JoinWakes`. `JobState` asks it of the delays (`asyncio.wait_for` on an event) and
of the requests, which end with an answer or an error. `WorkerManager` asks weak fairness of time, of the end of a
assignment that has begun and of a worker taking its answer in, and strong fairness of the beginning of each worker's
requests: workers ask every minute (`work_manager.py:75-83`), and a thread that waits for `_LOCK_LOCK` gets it;
nothing is asked of creations. Faults are bounded, so in the end answers arrive. `WorkSync` asks weak fairness of each step of the broker and of the
end of an executor that is being closed; nothing is asked of pollers, of the assignment, or of stopping.
`Execution` asks weak fairness of the steps of each message: handlers and pipelines end, publications are answered;
nothing is asked of cancellations. `Batching` asks it of what the event loop has ready, of the backoffs and timeouts,
of the answers of the broker, and of those who have a batch to leave it in the end; nothing of the failures, nor of
the close. `Inventories` asks it of the steps that go on (coroutines that can, messages that are left), not of faults nor
of the end of a loop. `Broker` asks it of loading, of opens and closes, which end or raise, of the closes of executors
(`CloseEnds` of `Executor`), which may leave a run that never ends, and of the synchronisations, which follow each
other; the signal is free, and so is what a synchronisation drops. `Arq` has no fairness: time does not advance past a step
that is `Late`, so that its three properties are bounds and invariants.

### What the runs show beside the finding

Of the resources:

* `NothingLost` counts the objects whose own context raised as it was entered (`leaked`) among what is used, though
  nobody uses them. The object is used from `try_acquire` on, and the exit stack owns its context only once `__aenter__`
  has returned (`manager.py:234-235`): the earlier resources are given back and that one never is, against "any error
  while acquiring a resource will release previously locked resource" (`manager.py:230`). Without `leaked` in it TLC
  finds the property violated. `SomeoneProceeds` needs an object of each type that is not one of them, and is satisfied
  when clients meet that error again and again.
* `WakeupsCoverAvailables` stops at a type of which a wake-up went astray: a cancelled wait keeps the notification it
  got, and an addition that raises comes before its own (`manager.py:183-188`). A provider that polls only logs that error
  (`provider.py:122-123`): its resource is free, and a waiter sleeps beside it until the next release.

Of the executor:

* `CloseEnds` is as strong as the code allows. `ExecutorsManager.close` waits for each `ExecutorWorker.run`; a
  scheduling coroutine blocked in `queue.put`, or in the close of a removed queue that counts messages, is not
  cancelled, so with a backlog at the close it waits for ever. The two last disjuncts of `CloseEnds` are these cases;
  without them TLC finds the lasso.
* `OutputsOutliveCounted` is about the messages that are counted. Removing a queue while its last message is submitted
  raises `GeneratorExit` at the `yield` (`scheduler.py:139`), which takes that message for one never handed over: its
  outputs close under it, against the comment at `executable.py:175`.
* `BoundedOvertaking` holds with bound two, not one: a queue that becomes ready just after a batch was taken waits
  for that batch and may be second in the next.

Of the execution of a message:

* `RetryKept` excludes a handler whose `republish.channel` is not among the outputs of the queue: the error counts as
  handled, nothing is published, and the message is acknowledged (`error_handling.py:104`, `queue.py:201`).
* A filter that cannot be parsed is logged and then taken for a match (`error_handling.py:80`), so that its channel takes
  every exception the earlier ones left. The count of retries is one number for all channels of a message.
* `TwiceOnlyInDoubt` names the only way to a duplicate: an immediate publish that failed after it reached the topic.

Of RabbitMQ and batches:

* A publication that does not wait may block behind a waiter the lock was released to (`rabbitmq.py:175`): the lock
  looks free until that one runs. A retrier that gets the lock from one that raised retries without its sleep.
* `Stranded` is what `Delivered` leaves out: after an undecodable message in a batch, the deliveries that follow it
  in that batch are neither entered nor rejected while the channel lives (`batching.py:136`).
* After the topic is closed, a publication that waits goes on retrying, and the consumer loop does not look at the
  result of `backoff_sleep`. Publications carry no `message_id`, so `max_retry` applies to those of others only. A
  context closed by an exception rejects without a requeue. A cancelled waiter of a shared `CachedProperty` cancels the
  others.

Of inventories and cursors:

* "Left" in `CursorCoversLeft` and `CompletedMeansAll` means that the context of the item was left, however: messages
  that wait for a resource when the executor closes are dropped, and asyncio closes their contexts, which mark the
  items as done (`inventory.py:182`, against "Items has already been processed, skipping" at `inventory.py:249`).
* `MCFaults` leaves out three pairs, in which items are lost: a chained inventory that crashes between two of its
  inputs (`chained.py:76-82`, the cursor names the next one before the last messages of the former are left), a joined
  one that is closed (`joined.py:124-138` and `multi.py:122-129`, a cancelled root item leaves its context), and a joined
  one that fails, which is the finding.
* A loop that is resumed repeats its last iteration. Skipping in a batching inventory takes the batch size to be what
  it was. Inputs of one name in a fan-in are one. A batch whose last item has no cursor makes the iteration start
  again (`inventory.py:238`), which is why the models give cursors to those.

Of the job states:

* A read may end cancelled in `ReadsEnd`: the readers of a cursor state share the future of one call, and one task
  cancelled while it waits cancels that future (`asyncutils.py:214-219`). The generator of another job then ends with
  `CancelledError`, and the scheduler never polls that queue again (`scheduler.py:108-109`).
* `NothingForgotten` stops at the end of the process: a close waits for the call under way, and what was set during
  it is left to a second task that nothing waits for (`service.py:265-268`, `asyncutils.py:247-269`).
* `ReadYourWrites` excludes the keys that are `Overshadowed`. A worker whose save format has changed leaves a former
  state on the server, and asks for it under both formats; when its name comes after the saved one, the answer ends with
  it and hides every state saved since, once the local states are gone (`service.py:117-123`).

Of the worker and its manager:

* `Exclusive` is about objects. A resource that is removed and defined again while a message holds it is a new object
  (`manager.py:34`), so a second message may use the same name meanwhile.
* `OneRunningUnlessRaced` leaves two ways to a second job of a definition. A start by the name of a job looks at that
  job and not at the last one (`jobs_store.py:231`, the check at `jobs_store.py:256`), so that a completed one is started
  anew beside the one that runs. And a creation whose check came before the commit of another does not see its job. The
  last job is read in one step and the new one committed in a later one (`sync.py:54-57` and `88`, `jobs_store.py:240` and
  the end of the session of `api/jobs.py:112-123`); `start` takes no lock, and `_SYNC_LOCK` is of the scheduled creations
  only. Two starts, or a start and a synchronisation, then both make a job that runs, against "check it has completed"
  (`sync.py:60`) and "Job already started." (`jobs_store.py:256`). Without the clause about what was seen TLC finds the
  property violated. A restart in such a pair cancels the job it found, and not the other's.
* `TakenOver` asks for one worker with room that goes on asking: two workers may take expired queues from each other
  for ever, each before the other has renewed them. It also asks that nothing is blocked by a missing resource.
* A worker that names executors has no limit in the query, and sheds what is too much afterwards; `WithinLimit` and
  `ExclusiveWhileFresh` leave those out.
* A synchronisation that fails because a provider cannot be built has already recorded the queues and resources
  (`work_manager.py:85-88`): new ones are never added, those that have gone are never dropped, and a resource
  that comes back ends the broker with "Cannot add a resource twice". This is what `~skipped` excludes.
* Additions come before drops, so a resource that moves from a definition to a provider that opens with it, or back,
  ends the broker; and a provider that is refused a name removes it later though it is not its own. This is what
  `Shared` excludes.
* `StopEnds` excludes a signal that finds no `running_task` (`ignored`): a stop while services open is lost
  (`broker.py:112`). It excludes one that a close swallows (`swallowed`): while `run_sync` waits for the close of a removed
  executor, the cancellation may end in `TasksGroup.close`, which suppresses `CancelledError`
  (`utils/asyncutils.py:91-95`); nothing clears `is_running`, so the synchronisations go on after "Stopping broker"
  (`broker.py:111`), and the signal handler is gone. Without this exclusion TLC finds the property violated.
  Elsewhere in the close of a removed executor a stop leaves that one to itself: it is no longer among the managed ones
  (`executors/manager.py:67`). The run of an executor that closes may never end (`stranded`, the last disjuncts of
  `CloseEnds`), with which the broker need not end either. An open that fails leaves what was opened before it
  open; a close that raises leaves the services opened before it open; an executor whose close raises leaves them all.
* The rounds of deferred services share one list after the first (`services/manager.py:43-54`), which the configurations
  here do not reach the end of.

Of ARQ:

* `ClockAssumption` is tight: `3 * Late < Interval + Grace` is the end of the pipeline, the save of its result and the
  poll for it, one after the other, after the last beat. With equality TLC finds a `WorkerDiedError` for a worker that
  lives.
* Losing redis ends a wait with the same error as a death (`RedisLost`), which `NoFalseDeath` does not call one. A result
  is preferred to a death when both are there. A job may begin between the timeout of the wait and its expiry.
* `NoFalseDeath` counts a shutdown of the arq worker among the deaths: its key is gone, and its job is back in the queue,
  where it is failed as one that was tried before. When the monitor then sees the job in the queue, or sees none
  that runs, only the timeout of the message ends the wait: `DeathNoticed` is about crashes.
* `OrphanStopped` excludes a pipeline whose job arq itself cancelled (`unwound`). Only one way out of `remote_execute`
  sets the token (`arq/worker.py:98-99`). When arq cancels it, at its `job_timeout` (300 s by default, where the executor
  waits 1200 s) or as its worker shuts down, its health check ends with it and the token is not set: the thread goes on,
  and is never told that its engine is gone, against `docs/how_to/cancelled-job.rst:7` ("let the executor gracefully
  stop its job"). Without this exclusion TLC finds the property violated.
* The token that cancels a pipeline is pickled for a pool of processes (`core/pipeline.py:34-40`,
  `arq/worker.py:81-99`), so that the pipeline is told only in a pool of threads: hence `Threads` in `OrphanStopped`,
  where `docs/how_to/cancelled-job.rst:7` makes no difference.

## 4. What is proved

Every safety property the passing runs check is a theorem, for every value of the constants that the named assumptions
of its module allow. The liveness properties are not.

`ResourcesProofs` proves, with no bound on clients, types, objects or delays, and from the two named assumptions of
`Resources` (the shape of the constants; types are integers so that `sorted` is an order):

| Theorem | States |
|---|---|
| `TypeCorrect` | `Spec => []TypeOK` |
| `ResourcesAccounted` | `Spec => []NothingLost` |
| `ExclusiveUse` | `Spec => []Exclusive` |
| `ReuseAfterRelease` | `Spec => []NoEarlyReuse` |
| `ImplementsAllocation` | `Spec => AllocationSpec` |
| `WakeupsCover` | `Spec => []WakeupsCoverAvailables` |

The inductive invariant is `IInv == TypeOK /\ NothingLost /\ Exclusive /\ HeldNotDelayed /\ LeakedApart /\ NoEarlyReuse`.
`Exclusive` alone is not inductive: that a popped object is in no other hands needs `NothingLost` (the available
objects are those neither held nor delayed), and that leaving a context keeps `NothingLost` needs `HeldNotDelayed`
(an object a client holds has no background release of its own, else it would be given back twice); `LeakedApart` says
that the objects whose context raised are in nobody's hands. `NextIInv` has
one step per action; the two operations several actions share, leaving the contexts (`ReleaseAllKeepsIInv`) and going
through the missing types (`ProceedKeepsIInv`), are lemmas. The refinement maps what is lent to what the clients hold,
and what rests to what has a background release or whose context raised;
`StepRefines` shows each action to be a `Lend`, a `Return`, a change of the registered objects or a stutter.

`WakeupsCover` counts: the free resources of a type beside its waiters are at most the clients that were notified for it
and have not looked yet. A step frees one object of a type for each notification (`OneOfEachType`), and a notified
client counts for the type it waits for only while it misses it (`StillMissing`) and is once in its queue (`Queued`,
`NoRepeat`); these make `WakeIInv`, on top of `IInv`.

`JobProofs` proves of `JobState`, for any keys, readers and number of updates, from `JobStateAssumption` (there is a key)
and `FormatsAssumption` (the formats of a cursor are a sequence, whatever their order):

| Theorem | States |
|---|---|
| `TypeCorrect` | `Spec => []TypeOK` |
| `UpdatesKept` | `Spec => []NothingForgotten` |
| `UpdatesScheduled` | `Spec => []DirtyIsScheduled` |
| `ReadsSeeWrites` | `Spec => []ReadYourWrites` |

None of the last three is inductive. `Order` says that the server is never ahead of what was set and that a local value
other than the last one is always covered by a newer local one: without it, restoring a failed flush could bring an
old value back. `Sending` ties the request under way to what was set aside: the server is behind it, has it once it is
applied, and an update made meanwhile is remembered by the throttle. `Asking` says that what a reader saw set before
it asked for it is already on the server. The lemmas `StoreSteps` and `ReaderSteps` have one step per action.

`JobProofs` proves of `Inventories`, for any number of inputs, items and runs, any size of a batch and concurrency of the
root, from `InventoriesAssumption` and `SizeAssumption` (which say what the constants are: a joined inventory has an
input for each item of its root):

| Theorem | States |
|---|---|
| `InventoryShape` | `InventorySpec => []Shape` |
| `YieldedOnce` | `InventorySpec => []NothingTwice` |
| `InventoryInvariant` | `LosslessFaults` implies `InventorySpec => []InventoryInv` |
| `CursorsCoverLeft` | `LosslessFaults` implies `InventorySpec => []CursorCoversLeft` |
| `JobGoesOverAll` | `LosslessFaults` implies `InventorySpec => []GoesOverAll` |

`Shape` and `NothingTwice` hold with every fault. `LosslessFaults` leaves out two of them, a chained inventory whose
worker dies and a joined one that is closed: with these the code does lose items (see section 3), so the last three
theorems are false without it. It is a hypothesis of those theorems and no assumption of the module; the run
`inventories` satisfies it. `RootFails` and `SubFails`, the finding, are no steps of `InventorySpec`.

`Shape` is inductive by itself. It gives the window of each input (`Windows`: what it went past is done, kept or
pending, and nothing done is kept before what is pending); makes what is in flight and what is pending one thing, each
item in one message (`InFlight`), with the events set for inputs of which nothing is pending (`Events`); says that a run
is past the cursor it began at and still knows the partials it has not met (`Resumption`), which is what `NothingTwice`
needs; and follows what each kind does with its inputs (`Generators`, `Chain`, `Join`). `Batches` says that the batches
of every run begin at the multiples of `BatchSize`: the cursor of a batch is that of its last item, so a run skips a
batch for one partial, and would skip items that were not done if the batches of two runs could overlap
(`BoundariesApart`, `SameBatch`). `InventoryInv` adds that what any cursor goes past was left (`SoundCursors`: those of
the inputs, of the root, of the job, and the one the run began at) and that the inputs a chained inventory is past were
left or are in flight (`ChainLeft`). The lemmas about the operators of `CursorsState` (`LeftIs`, `EnteredIs`,
`SkippedIs`) say what the end of `process_item`, its beginning and a skipped item make of an input; each is a relation
(`Leaves`, `Enters`, `Skips`) that the lemmas about the actions go by.

`WorkerManagerProofs` proves, for any workers, definitions, limit and expiry, from `WorkerManagerAssumption`:

| Theorem | States |
|---|---|
| `TypeCorrect` | `Spec => []TypeOK` |
| `OneRunningJob` | `Spec => []OneRunningUnlessRaced` |
| `AssignedWithinLimit` | `Spec => []WithinLimit` |
| `ExclusiveAssignment` | `Spec => []ExclusiveWhileFresh` |

The last two come from one inductive invariant, `LInv == WithinLimit /\ Matched /\ Bounded /\ Free /\ Waiting /\
Leased`. An answer is fresh for its worker no longer than the assignment is for the manager (`Leased`), also while it
is under way (`Waiting`). What `LockRead` chose stays nobody else's until `LockWrite` (`Free`), because no other request
changes an assignment meanwhile, and fits in the limit with what the worker has (`Bounded`), because all a worker has
matches its selector and was counted (`Matched`). No row that is not committed is assigned (`Fresh`).

`OneRunningJob` has an invariant of its own, `CInv == Fresh /\ Underway /\ (what was seen is committed) /\
OneRunningUnlessRaced`. `Underway` is about each creation between its check and its commit: unless it goes by the name of a
job, every job it saw is over or is followed by one it saw that is over, or that it will cancel (`LastOver`), and what was
seen and over stays over (`LastStaysOver`). So, as a row is committed, a running job that comes before it was not seen, or
had a later one that was seen, to which the property applies already.

`WorkSyncProofs` proves, for any executors, resources, providers and definitions and
any finite set of queues, from `WorkSyncAssumption`:

| Theorem | States |
|---|---|
| `TypeCorrect` | `Spec => []TypeOK` |
| `EndsOfTheBroker` | `Spec => []EndsForAReason` |
| `RunsWhatIsRecorded` | `Spec => []InStep` |
| `ResourcesOwned` | `Spec => []RegisteredIfOwned` |

Its inductive invariant is `IInv == TypeOK /\ Shape /\ Applied /\ RegisteredIfOwned /\ EndsForAReason`. `Applied` says
what the executors, the open providers and the running queues are in the middle of a synchronisation: what was
recorded before, with what has been added since and without what has been dropped. `Shape` says what the work left
looks like: nothing is both added and dropped (`Disjoint`), a recorded queue has a recorded executor (`Founded`), and
what a provider manages is among what it offers (`Sourced`), which is where a resource whose name is not shared can
come from.

`CursorsProofs` proves, for any number of items, whichever of them have cursors, any runs and bounds on partials, from
`CursorsAssumption`:

| Theorem | States |
|---|---|
| `TypeCorrect` | `Spec => []TypeOK` |
| `CursorIsSafe` | `Spec => []CursorCoversLeft` |
| `CompletedJob` | `Spec => []CompletedMeansAll` |
| `JoinIsWoken` | `Spec => []JoinWakes` |

The inductive invariant, `IInv == TypeOK /\ Unstarted /\ Window /\ Passed /\ Events /\ AllSaved /\ JoinWakes`,
describes the window of a run: what is before `after` was left, what is between `after` and `next` was left or is
pending (`Window`, `Passed`), the event and the items done out of order follow from what is in flight (`Events`), and
what a run says in a cursor stays true wherever that cursor goes (`AllSaved`): stored, under way, sent twice or late.

`ExecutionProofs` proves, for any outputs, handlers, exceptions and number of copies, from `ExecutionAssumption`,
`HooksAssumption` and, for the last theorem, `UsageAssumption` (the usage metrics handle every hook of a message,
`usage_metrics.py:156-162`):

| Theorem | States |
|---|---|
| `TypeCorrect` | `Spec => []TypeOK` |
| `Acknowledged` | `Spec => []AcknowledgedIsPublished` |
| `RetryIsKept` | `Spec => []RetryKept` |
| `TwiceInDoubt` | `Spec => []TwiceOnlyInDoubt` |
| `OneStageAtATime` | `Spec => []OneStage` |

`IInv == TypeOK /\ \A x \in Copy : CopyInv(x)`. What a step finds depends on the emissions a message is in, so `CopyInv`
first says how these nest (`Nested`); then what the topics have of each output, between untried, accepted, in doubt and
failed (`Outcome`), that nothing is published before (`Fresh`), what holds once all are tried (`Over`), and that a
handled error has a republication among the outputs unless a channel has no topic (`HandledLater`).

The stages of the metrics are a set the handlers of hooks move a message in and out of, without looking where it is.
That it is in one at a time follows from which emission it is in and whether that one has called the metrics yet:
`StagesInv` gives the stages before, during and after the scope of each hook (`Entering`, `During`, `After`), and says
that an emission is in its scope only with the metrics among the generators it will resume (`Marked`).

`WorkerProofs` proves of `Broker`, for any classes, needs, configurations and any finite set of executors, from
`ServicesAssumption` and `BrokerAssumption`:

| Theorem | States |
|---|---|
| `BrokerInvariant` | `BrokerSpec => []BrokerInv` |
| `BrokerTypes` | `BrokerSpec => []TypeOK` |
| `UsedIsOpen` | `BrokerSpec => []UsedAreOpen` |

Nothing in the code compares the needs of two services as they open or close. That rests on the order loading leaves
them in (`Ordered`), on the open ones being a beginning of that order (`Beginning`), and on what each phase of the
broker implies for executors and services (`Phases`): `BrokerInv == TypeOK /\ Ordered /\ Beginning /\ Phases /\
UsedAreOpen`.

`WorkerProofs` proves of `Executor`, for any finite set of queues, any messages, resources, limits and workers, from
`ExecutorAssumption`:

| Theorem | States |
|---|---|
| `ExecutorInvariant` | `Spec => []ExecutorInv` |
| `TaskPerQueue` | `Spec => []OneTaskPerQueue` |
| `OutputsOutlive` | `Spec => []OutputsOutliveCounted` |
| `OvertakingBound` | `Spec => []BoundedOvertaking` |

The scheduler keeps neither who is served nor for how long. What it keeps, the tasks group, the batch and where it is
suspended in it, is tied to the generator of each queue and to the reason it ends (`Generator`, `Batched`): a queue that
is served is in one of the two, and a queue whose generator is closed by the scheduler is at the head of the batch.
Outputs are closed only by a generator that counts nothing any more (`Counted`, `InFlightCounts`). The bound on
overtaking is a rank: with its message ready, a queue that is ahead in the batch can be passed no more, one that is
behind once more, one that is in the group once by what is left of the batch and once by the next (`Bound`,
`Overtaken`).

`RemoteProofs` proves of `Arq`, for any interval, last sleep, timeout and delay, from `ClockAssumption`:

| Theorem | States |
|---|---|
| `ArqInvariant` | `ArqSpec => []ArqInv` |
| `ArqTypes` | `ArqSpec => []TypeOK` |
| `NobodyDeclaredDead` | `ArqSpec => []NoFalseDeath` |
| `CrashNoticed` | `ArqSpec => []DeathNoticed` |
| `OrphansStop` | `ArqSpec => []OrphanStopped` |

`ArqInv == TypeOK /\ Places /\ Sleeps /\ KeyOutlives /\ GraceEnough /\ CrashAge /\ OrphanAge /\ NoFalseDeath`.
`KeyOutlives` gives what is left of the key of the remote side at each of its delays; `GraceEnough` then says that the
last sleep of the monitor begins for a crashed worker only, or with enough time for the result to come. `CrashAge` and
`OrphanAge` compare the ages the properties bound with the sleeps that must end first.

`RemoteProofs` proves of `RabbitMQ` and `Batching`, for any publications, reservations, retries, faults and channels,
from `RabbitMQAssumption` and `BatchingAssumption`:

| Theorem | States |
|---|---|
| `PublishInvariant` | `Spec => []PublishInv` |
| `OneRetries` | `Spec => []RetriesAlone` |

`SharedLock` gives the lock to the first that waits without that one running, so that the invariant is about who can be
the locker at each place of a publication. The semaphore of the reservations hands its places over too: `SlotQueue` says
that who waits for a place is at that wait, and once in its queue, so that a release moves one publication and no other.

Only model-checked: the liveness properties (`SomeoneProceeds`, `MessagesDone`, `CloseEnds`, `ReadsEnd`, `TakenOver`,
`Converges`, `PublishEnds`, `Delivered`, `StopEnds`, `MessageEnds`, `RunEnds`), which are out of the prover's reach, as
is `ENABLED`. What the recursive definitions of the code compute is no theorem either: the modules have no recursive
operator, and the folds are of the community modules.

## 5. Finding

**A job completes without its items** (`inventories/joined.py:59`, against `inventory.py:219`: "Returns an iterable that
goes over the whole inventory."). A root of a `JoinInventory` that raises ends `join_inventories`, a task of a
`TasksGroup`: its exception is logged when the group closes, the callback of its exit stack closes the scheduler, and
`iterate` ends as if it had gone over everything. `Job.run` then marks the job completed, with no error. A joined
inventory that raises is logged by the scheduler of the iterators, and once what it had yielded is left, its root item
counts as done, and the cursor goes past it. `inventories_failing` shows both.

## 6. Plan

In this order; a module is written to be proved about as well as checked (no `RECURSIVE` operator, invariants as
conjunctions of named parts).

1. Abstract specifications to implement: of `Inventories` by one inventory of all its items, whose cursor is the set
   they cover; of the publications of `RabbitMQ` by a bounded queue. Then the refinements, step by step.
2. Theorems about what a `NextFailing` of `Inventories` still keeps (`NothingTwice`), and about who is refused or dropped
   in `Batching`.
3. The part of the liveness properties that is safety: from the states TLC finds stuck, which wait for which.
4. Two queues of one executor linked by a topic, the one removed while the other is full: `Executor` with the bounded
   queue of `RabbitMQ` in place of its free outputs.
5. The periodic inventories and the topic inventory, retries of a batch, the tasks runner.
6. The credits of the fair iterators, as a function of the turns it gives.

## 7. Not modelled

* Parsing of definitions and options, logging, tracing, exported metrics, the HTTP and SQL layers as such, the
  configuration and the tester: they hold no state the behaviour of the other components depends on.
* Topics that deliver a list or forward to another topic, and the connections of the RabbitMQ service.
* Periodic and topic inventories; retries of a batch; batches that end on an item without a cursor; items stranded
  in `async_buffered` when it is closed (`iterators.py:31-37`).
* The tasks runner, the credits scheduler, the LRU cache, and the inside of the process executor, which only starts a
  pool.
* In the executor: a generator that fails otherwise than at the end of its topic. In the synchronisation: a queue that
  ends by itself, and a definition that changes under the same name.
