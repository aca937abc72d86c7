# Webhook delivery: specification, model checking and proofs

TLA+ specifications of the webhook delivery service in `src/`: an HTTP API that
stores subscriptions in Postgres, caches them in Redis, accepts webhooks for
them, and delivers those with retries through a scheduler whose tasks live in a
Go channel and in Redis.

The modules are translated from the code. Where a comment or the README of the
service promises something the code does not do, a run shows the difference
(section 6).

## 1. The system

| Part | Code | State it keeps | Operations |
|---|---|---|---|
| Delivery scheduler | `internal/worker/worker.go` | per process: `taskQueue` (channel of 100), 5 worker goroutines, dispatcher, recovery goroutine; in Redis: a record per task (48 h), a set per status, a list per subscription, a lock per task (30 min) | `Start`, `Stop`, `ProcessRequest`/`EnqueueTask`, `worker`, `processTask`, `deliverPayload`, `logDeliveryAttempt`, `dispatchScheduledTasks` (every 5 s), `recoverPendingTasks` (at start), `CancelTask`, `GetTaskStatus` |
| Subscription store | `internal/db/postgres_store.go`, `migrations/` | tables `subscriptions` and `logs` with a foreign key | INSERT, SELECT, UPDATE as single statements; delete as a transaction of two DELETEs |
| Lookup and cache | `internal/cache/redis_store.go`, `internal/service/service.go` | a Redis key per subscription, without expiry | get, set, delete, read-through fill |
| Delivery logs | `internal/service/log_service.go` | rows of `logs` | `CreateLog`, queries, `CleanupOldLogs` from a ticker |
| HTTP handlers | `internal/api` | none of their own | create, read, update, delete subscriptions; ingest a webhook; read tasks and logs |
| Process wiring | `main.go` | none | starts everything, on SIGTERM calls `Stop` and shuts the server down; the platform restarts it |
| Connections, migrations | `internal/db/postgres.go`, `internal/cache/redis.go`, `migrations/` | version and dirty mark in the database, its advisory lock | connect, `MigrateDB` |
| Web page, test programs | `ui/`, `internal/test`, `test.sh` | none that matters | clients |

How the parts interact:

* A webhook (`POST /api/ingest/:id`) looks its subscription up through cache and
  store and calls `ProcessRequest`, which may look it up again, then
  `EnqueueTask`: save the record, send on the channel, or, when that is full, mark
  the record `retry_pending`. A new subscription sends itself a webhook through
  the service's own HTTP port.
* A worker takes a task from the channel, takes its Redis lock, marks the record
  `in_progress`, counts the attempt, posts, writes a log row (after one more
  lookup), writes the outcome, drops the lock.
* The dispatcher scans the `retry_pending` set and moves due tasks back to the
  channel. The recovery pass resets tasks left `in_progress`.
* All goroutines and all processes share one Redis and one Postgres. None of the
  helper functions that issue several Redis commands is atomic.
* A process migrates the database before it starts its scheduler and its server, while
  other processes may be doing the same or already work.

What is hard about it: goroutines of several processes interleave between Redis
commands; copies of a task (in the channel, in the dispatcher, in the recovery
pass) get older than the record; a process may be killed between two commands; a
command may fail or be applied without an answer; locks and records expire;
`Stop` closes a channel others send on; Postgres statements wait for each
other's row locks; the cache has no connection with transactions.

What makes each part correct:

* scheduler: one goroutine at a time works on a task; no attempt is lost or
  doubled in the record; terminal statuses are justified and final; the status
  sets agree with the records; every webhook is sent, retried up to `MaxAttempts`,
  and survives a restart; an orderly stop ends and abandons nothing;
* store and logs: deleting a subscription takes all its log rows or changes nothing;
  a log row always has its subscription; requests never block each other for good;
  old log rows go;
* cache: what it returns was stored; it may be older than the row, never newer;
* start-up: the schema is built once, in order, and is complete before anybody uses it.

`PROJECT.json` lists the hazards at their lines with the properties that cover
them.

## 2. Modules

| Module | Models |
|---|---|
| `TaskStore` | Redis as the scheduler uses it: records, status sets, lock, and the commands each goroutine has still to issue |
| `Scheduler` | `worker.go`: processes and their goroutines, on top of `TaskStore`; SIGTERM, crash, restart, failing commands, expiry |
| `SchedulerProperties` | what the scheduler guarantees, and what its comments say it does |
| `TaskLifecycle` | abstract: the life of one webhook as a reader of Redis sees it |
| `Subscriptions` | handlers, cache, rows, log rows, cleanup, one statement or command per step |
| `SubscriptionsProperties` | its properties |
| `Registry` | abstract: subscriptions and log rows with atomic operations |
| `Service` | the composition of `Scheduler` and `Subscriptions` |
| `Startup` | `main.go`, migrations and connections: several processes from start to end |
| `StartupProperties` | its properties |
| `MCScheduler`, `MCService` | values for TLC |
| `SchedulerProofs` | type correctness and mutual exclusion |
| `TerminalProofs` | terminal records are justified (extends `SchedulerProofs`) |
| `ExitProofs` | orderly exits drain the channel (extends `SchedulerProofs`) |
| `SubscriptionsProofs` | types, one delete, the cache behind the rows, the refinement of `Registry` |
| `FaultFreeProofs` | without faults: `in_progress` is worked on, cancelling is final, and exact status sets if nobody cancels before a webhook is answered (extends `SchedulerProofs`) |
| `SoloProofs` | one process without faults: one place per task, attempts, acknowledgements, log rows, the refinement of `TaskLifecycle` (extends `FaultFreeProofs`) |
| `ServiceProofs` | the composition implements its parts; outcomes are logged (extends `Service` and `SoloProofs`, instantiates `SubscriptionsProofs`) |
| `StartupProofs` | types; migrations once and in order, complete before use |

### Scheduler and TaskStore

A goroutine is an actor `<<process, role>>`; `pc` is its place in the code, `cur`
the `*Task` it holds, `batch` the rest of an SMEMBERS answer, and `todo` the Redis
commands that the function it is in has still to issue. A step of the goroutine
computes on its own data and puts the commands of the call into `todo`; the
action `Redis` executes one. So a call like `updateTaskInRedis` is a GET, a SET, an
SREM and an SADD with any other goroutine in between, and `ExecUpdate` decides the
later ones from what the GET returned. `AcquireLock` is a single SET NX and is part
of the step that calls it.

| Code | Actions |
|---|---|
| `worker`, `processTask`, `deliverPayload`, `logDeliveryAttempt` | `Take`, `Skip`, `Begin`, `CountAttempt`, `Deliver`, `Settle`, `Unlock`, `Finish` |
| `dispatchScheduledTasks` | `Poll`, `Inspect`, `PassOver`, `Claim`, `Put`, `PutBack`, `Unlock`, `DispatcherPanic` |
| `recoverPendingTasks` | `RecoverScan`, `RecoverNext`, `RecoverEnd` |
| `ProcessRequest`, `EnqueueTask` | `Accept`, `Offer`, `OfferFull`, `OfferPanic` |
| `CancelTask` | `Cancel`, `Mark`, `Unlock` |
| `Start`, `Stop`, `main` | `Start`, `Stop`, `Exit`, `Crash` |
| time | `BackoffElapses`, `LockExpires`, `RecordExpires` |
| errors of Redis | `CommandFails`, `LockFails`, `CancelFails`, `UnlockFails`, `ReadFails` |

Data abstracted: a task is its identifier, status, attempts and whether its
`NextAttemptAt` has passed (`due`); payload, URL, secret and signature are left out;
a delivery is answered 2xx or not (`ok`); a log row may or may not be written, with
the same effect on the scheduler whatever the reason. `LockExpires` lets a lock go
at any time, not after exactly 30 minutes: it over-approximates.

`PromptSteps` states two timing assumptions as guards of the clock. A lock does not
expire while a goroutine has the task in hand: a POST is limited to 10 seconds by
the HTTP client, the lock to 30 minutes. And the shortest back-off (10 s) does not
pass while a Redis command for that record is outstanding. It does not limit how
long a task lies in the channel, nor how long the dispatcher keeps a lock. Both are
assumptions about the environment: a suspended process violates them, and the code
has no defence (the late holder's DEL removes the lock of the next one).

`Cancel` needs the lock and nothing else, as in the code. `EnqueueTask` takes no lock, and the
ID of a task is in its subscription's list (`GetSubscriptionTasks`) after the RPUSH of line
293, before the SADD of 300, the send of 210 and the full-channel writes of 216-217. So a
task may be cancelled while the handler that creates it still writes it. That leaves
the cancelled task in the `queued` set, or, when the channel is full, in `retry_pending`,
from where the dispatcher requeues it. The one caller of `CancelTask` in the repository
(`internal/test/test-webhook.go:329`) cancels after `ProcessRequest` has returned;
`CancelAfterAnswer` states that, and is an assumption of one property only.

`PutBack` and `OfferFull` are the `default` cases of the two `select` statements;
`OfferPanic` and `DispatcherPanic` are sends on the closed channel: the HTTP server
recovers the panic of a request, nothing recovers the dispatcher's, and the process
ends.

### Subscriptions

An HTTP request is a `Client`, a worker inside `logDeliveryAttempt` a `Logger`.
`pc` is the statement or command the handler is about to execute. The lookup
(`GetCached`, `ReadRow`, `FillCache`) is shared by `IngestTask` (round 1),
`ProcessRequest` (round 2, when URL or secret is empty) and `logDeliveryAttempt`.
`full` says that neither is empty. A webhook whose body is no JSON is refused after the
first lookup, which has filled the cache by then (the second disjunct of `Found`). What a
handler answers is not kept, except that a delete was confirmed (`deleted`).

The call by which `createSubscriptions` queues the first webhook (`SendTaskToQueue`) is a
request to the own server; its handler runs while the caller only waits, so one actor does
both.

Postgres is external. Statements outside a transaction commit by themselves. The
delete is a transaction: `DeleteLogs` takes the log rows committed when the
statement began and waits for those that another transaction is deleting;
`DeleteRow` locks and deletes the row; `CheckLogs` is the foreign key check of that
statement, which also sees rows committed since; then `Commit`, or `Abort` for the
deferred `Rollback`. Nothing of it is visible before `Commit`. A statement on a
row that is locked waits. `DeadlockAbort` is the deadlock detector. A statement's
locks are taken in one step: two multi-row statements that lock the same rows in
opposite orders are not modelled.

`active`, `name` and `payload` are left out: no code reads them back to decide
anything. GET handlers change nothing and are left out, but for the task record and the
logs of a subscription in `Service`.

### Service

`Service` extends `Scheduler` and has `Subscriptions` as the instance `S`, with variables
of its own. A handler of the one is a client of the other: at `queue` there it takes the
step `Accept` here, so a webhook is accepted only for a subscription that was found, and
only after its lookups. A worker is a logger: it may leave the label `log` here (`Settle`)
only by the step that ends its lookup and INSERT there. Hence a worker keeps the lock of
its task in Redis while it waits for a row that a delete has locked in Postgres: the
composition has that chain, neither part alone has. `contents` connects the two: the row
numbered `n` there is the log row of an attempt here. No faults, no cancelling and no
retention in this composition; the parts have them.

### Startup

A process goes through the calls of `main`; `pc` is the next one. `MigrateDB` is
golang-migrate, external: under an advisory lock of its database session it reads the
version, and for each file marks the new version dirty (`MarkDirty`), executes the file as
one statement (`RunSql`) and clears the mark (`ClearDirty`). A session that ends gives the
lock back; the mark stays. `Check` is what `MigrateDB` makes of it: a dirty version is an
error, which `main` makes fatal, and `ErrNoChange` is none. `LockTimeout` is the library's
15 seconds. `InitScheduler` starts workers and cleanup before `signal.Notify`: `Signal`
ends a process at once until then. `StopScheduler` and `Shutdown` are the goroutine that
waits for the signal; `Scheduler` has the inside of `Stop`.

## 3. Runs

Every run finishes in less than three minutes on two cores.

| Run | Question | Bounds |
|---|---|---|
| `Steady` | One process, nothing fails: do records, status sets, attempts, log rows and channel agree, through retries and a full channel, and does each record go through `TaskLifecycle`? | 2 tasks, 2 workers, 2 concurrent handlers, channel of 1, 3 attempts |
| `Shared` | Two processes on one Redis and callers of `CancelTask`, who may come while the handler still writes the task: exclusion, `in_progress` only while somebody works, no task lost from the status sets, and exact sets if nobody cancels that early; cancelling a task of which neither a copy nor a place in the retry set is left is final | 1 task, 2 processes with 2 workers, 1 handler and 1 canceller each, channel of 1, 2 attempts, 3 POSTs |
| `Faults` | Any two of crash, SIGTERM, failing command and expiring record anywhere, with restarts and recovery passes: exclusion, justified terminal records, drained exits | 1 task, 1 process with 1 worker, 1 handler and 1 canceller, channel of 1, 2 attempts, 2 POSTs, 2 faults |
| `Progress` | The composition: is every webhook sent at least once while the channel has room, whatever its workers wait for in Postgres? Is the log row of an outcome there before a client sees the outcome? | `Service`: 2 tasks of 1 subscription, 1 worker, 1 handler, channel of 2, 2 attempts, 4 log rows; creates, webhooks, deletes |
| `Shutdown` | Does a process that was told to stop end? | 2 tasks, 1 worker, channel of 1, 1 attempt |
| `Storage` | Do overlapping requests, log inserts and cleanups, with a failure anywhere, act on the committed rows as `Registry` does? Is a delete confirmed once, the cache never ahead, every request answered? Is the first webhook queued, do old log rows go? | 1 subscription, 1 URL, with and without a secret, 2 requests at a time, 1 logger, 2 log rows, 1 failure |
| `Startup` | Processes start together, are killed, told to stop or refused a connection: is the schema built once, in order and before it is used, and do all come up? | 3 processes, 2 migrations (there are two), 3 faults |
| `V_*` | The disagreements of section 6 | the smallest that show them |

Why the bounds are enough for what the runs ask. Tasks interact only in the channel
and in the loops over sets: with a channel of 1 two tasks fill it, and the
full-channel paths of handler and dispatcher are taken. Properties of one record
need one task, with as many goroutines as touch it: two workers, a dispatcher, a
handler and a canceller per process are all the roles there are, and two
processes give each role a rival outside its own process. Two or three attempts
contain a first, a last and (with three) a middle one. `MaxSends` is above
`MaxAttempts` in `Steady`, where it therefore stops nothing; in the others it only
cuts behaviours that send again after the record was lost or reset. Two faults give
a fault during the recovery from another. `Shared` has one task, which never finds the channel
full: what cancelling does to a handler or a dispatcher at a full channel is in the theorems
`Cancelled`, `IndexKept` and `WorkedOn`, which hold for any number of tasks. In `Storage`, three actors are enough for a
delete, a rival delete and an insert between the two statements; `MaxLogs = 2` gives
rows inside and outside the snapshot of a delete. Nothing in `Subscriptions` relates
two subscriptions except the cleanup, which takes the rows of all.

In `Startup`, three processes are one that migrates, one that waits for it and one that has
given up or comes later; three faults hit a process, its successor and another. In
`Progress` one worker and one handler are enough for a delete, or a create, to be under way
while the worker logs.

Deadlock is checked in every run but `Startup`, where nothing is left to happen once all
processes serve and the faults are used up. Symmetry is used in `Steady` only, the one
larger run without liveness.

### Properties

* `TypeOK`: types, the channel within its capacity (and, in `Subscriptions`, what a
  handler goes on with has been found).
* `MutualExclusion`: at most one goroutine of all processes is between a successful
  `acquireTaskLock` and its release.
* `TerminalJustified`: `completed` only after a 2xx, `failed` only after
  `MaxAttempts`, though the dispatcher, recovery pass and a full channel write
  copies that may be old.
* `ExitDrained`: a worker leaves only a closed, empty channel.
* `InProgressIsWorked`: without faults `in_progress` means that somebody works.
* `IndexComplete`, `IndexKeepsUp`: without faults a task at rest is in the set of its status
  and no other. The callers of `updateTaskInRedis` repeat some of its SADD and SREM; the
  property says that no order of these leaves a stray entry. With callers of `CancelTask` it
  holds as long as none of them cancels a webhook before its handler is done
  (`CancelAfterAnswer`).
* `Findable`: what remains of it whenever they cancel. A task at rest is listed, it is in the set
  of its status unless that is `cancelled`, and the sets `in_progress`, `completed` and `failed`
  hold only tasks of that status. So stray entries of a cancelled task are in `queued`,
  which nobody scans, in `retry_pending` or in `cancelled`; the recovery pass, which resets
  what it finds in `in_progress` without a look at the status, has none to find.
* `AttemptAccounting`, `LogHistory`, `NoSendAfterAck`, `SinglePlace`: attempts in the
  record are POSTs made; no two log rows contradict each other about an attempt, and only
  the last attempt has another outcome than a failed attempt; nothing is sent after a 2xx; a
  task is in one place. `sends` counts the calls of `deliverPayload`, including those that fail before
  a request leaves the process (527-530). `logs` is a set of task, attempt and
  status: that a row is written twice unchanged cannot be seen.
* `RefinesLifecycle`: the records implement `TaskLifecycle`.
* `RefinesRegistry`: the committed rows implement `Registry`: a delete removes the
  row and exactly its log rows in one step, a log row is never without its
  subscription, and only the cleanup or the delete removes it.
* `OneDelete`: overlapping deletes are confirmed once.
* `CacheBehind`: a cached copy is of a subscription that was stored, and never has a URL
  or secret that the row lacks. (It may lack what the row has, for ever: PATCH leaves it.)
* `CancelSticks`: a cancelled task of which no worker, dispatcher or channel has a copy, and
  which is not in the retry set, stays cancelled, in every process. Otherwise it may come
  back (section 6).
* `OutcomesLogged`: who reads a task and then its subscription's logs finds the row of
  every attempt whose outcome the task shows.
* `AppliedOnce`, `SchemaReady`: the SQL of a migration is executed once, after those
  before it; workers and handlers of every process see a complete schema.
* Liveness: `FirstAttempt` (every accepted webhook is sent), `FirstWebhook` (the
  first webhook of a new subscription is queued unless something fails or the row goes),
  `EveryRequestAnswered`, `OldLogsGo`, `StopTerminates`, and `ComesUp` (after the last fault
  every process serves, unless a migration was interrupted: then none ever does again).

### Fairness

`Scheduler`: weak fairness of what each goroutine does by itself (`Run`), because
the Go runtime schedules runnable goroutines, Redis answers, and the HTTP client has
a timeout; of the two clocks; of `Start`, because the process is restarted by
its container platform; and of `Exit`. Requests, cancellations and faults need not
happen.

`Subscriptions`: strong fairness of what each handler does once its request has
arrived (`Serve`) and of the cleanup. A statement that waits for a row lock is
enabled only in between; Postgres queues the waiters of a row, so that one that is
enabled again and again gets it. The cleanup runs again at every tick of its ticker.

`Service`: the same of its parts, and that a worker at `log` begins with its lookup.

`Startup`: weak fairness of what `main` does next and of `Launch`, since
`docker-compose.yml` says `restart: always`. A start that times out at the lock is started
again, so that it gets the lock when its holder is done; no fairness of the lock is needed.

## 4. Proofs

For all values of the constants that satisfy the assumptions (`NoneAssumption` in
`TaskStore`, `SchedulerAssumption` in `Scheduler`: roles are distinct, actors are
pairs of process and role, the channel's capacity and `MaxAttempts` are positive),
with any number of processes, workers, tasks and faults:

* `TypeSafe` (`SchedulerProofs`): `Spec => []TypeOK`. The invariant `TypeInv` adds
  `HandsFull`: a goroutine has a task at the places of the code where it goes on to
  use one; without it the next step could not be shown to be on a task at all.
* `Exclusion` (`SchedulerProofs`): `PromptSteps => (Spec => []MutualExclusion)`.
  Exclusion itself is not inductive. With `LockHeld`, which says that the lock of a
  task is in Redis while a goroutine is in its section, and `TypeInv` it is. The
  argument has three parts: a section is entered only through
  SET NX; the DEL of a goroutine removes the lock of its own task, which nobody else
  can be in the section of; and expiry is excluded by `PromptSteps`. Crashes leave
  locks behind but never remove them, and a failed SET NX that was applied only
  leaves a lock nobody uses.
* `Terminated` (`TerminalProofs`): `Spec => []TerminalJustified`. The record alone is
  not inductive, since it is written from copies. `AllJustified` says of every copy
  there is (in records, in the channels, in hands, in the commands still to be
  issued) that its status is justified, and that the record under `t` is
  a record of `t`. It needs neither the lock nor timing, so it holds with crashes,
  failing commands and the unlocked recovery pass.
* `Drained` (`ExitProofs`): `Spec => []ExitDrained`. `WorkerPlaces` adds that workers
  of a running process are in their loop; then a closed channel only shrinks.

Without faults the scheduler promises more. `FaultFree` (`FaultFreeProofs`) says what that means:
`PromptSteps`, no kind of fault, and all processes running from the start (so that no recovery pass
writes without the lock). The runs `Steady`, `Shared` and `Progress` have it. For any number of
processes, workers, requests, callers of `CancelTask` and tasks:

* `WorkedOn`: `InProgressIsWorked`, whoever cancels what and when. It speaks of tasks at rest, and
  nothing about a task at rest is inductive: what holds is that a record in progress is in the
  section of a worker that has not written the outcome (`Worked`). It rests on `StoreInv` (which
  goroutine issues which list of commands from where, and that a list goes on only where there is a
  record), on `Unborn` and on `Founded` (nothing is known of a task before it is accepted; until
  its first SET no set names it and nobody but its handler writes). Together they are `BasicInv`.
* `Cancelled`: `CancelSticks`, whoever cancels what and when. From a state in which the task is
  cancelled, nobody has a copy and it is not in the retry set, it remains `Gone`: the only ones who take
  it up are callers of `CancelTask`, who find it terminal.
* `IndexKept`: `IndexKeepsUp`. Here `CancelAfterAnswer` is assumed throughout, and `CalmInv` adds to
  `StoreInv` what then holds: until a handler is done with a webhook, nobody else has it and it is in no
  channel, nor due in the retry set (`BirthInv`); so each list of commands has an author who has the task to
  itself, by the lock or by birth, and finds the record as it was when the list began (`Exact`), and
  whatever the index lacks is still in somebody's list (`Indexed`). Without the assumption it is false.

`Solo` (`SoloProofs`) adds to `FaultFree` that there is one process and that nobody cancels; the run
`Steady` has it, and `Progress`. This is as far as the properties of this group go: with two processes TLC
finds each of them violated within some thousand states, because the dispatcher of the
other process may read a record that the first has just claimed and put it in its own channel
too. For any number of workers, requests and tasks:

* `Placement`: `SinglePlace`. The invariant `CustodyInv` says for every task whose it is: at most one
  goroutine is active on it (`Alone`, although handlers and the dispatcher's reads take no lock), the copy
  it has is the record or what the record is about to become (`Agreed`), what waits in the channel is the
  record (`Channel`), and who is in the retry set, or in the dispatcher's batch, is in no channel (`Retries`).
* `Accounting`: `AttemptAccounting`, from `Counted`: the copy of a goroutine at the POST has
  one attempt more than POSTs were made, otherwise record and POSTs agree.
* `NoResend`: `NoSendAfterAck`, from `Acknowledged`: after a 2xx the record says `completed`, or the worker that
  got it has still to write that and is the only one active.
* `History`: `LogHistory`, from `Recorded`: no row has a later attempt than was sent, rows of earlier attempts say
  "Failed Attempt", and the row of the last one says how the task ended, or is about to.
* `Refinement`: `Spec => RefinesLifecycle`. Only the SET of an update changes a record, and only `BackoffElapses`
  otherwise, which a reader does not see. By `Agreed` the record it replaces and the copy it writes
  have the statuses that belong to the writer's place in the code, so each place gives one step of `TaskLifecycle`:
  `offer` accepts, `accept` (of a full channel) postpones, `attempt` starts, `send` counts, `put`
  requeues, `unlock` succeeds, gives up or fails, or postpones for a dispatcher that found the channel full.

For `Subscriptions` (`SubscriptionsAssumption`: requests and workers are distinct, there are
finitely many workers), with any number of subscriptions, concurrent requests, workers and
failures:

* `TypeCorrect`, `Deletes`, `Behind`, `Implements` (`SubscriptionsProofs`): `TypeOK`, `OneDelete`,
  `CacheBehind` and the refinement `RefinesRegistry`. None of them is inductive: each
  depends on what a handler knew when it issued its last statement. The invariant `Inv`
  says that per handler: `Mine(a)` is what `a` may conclude from its place (at `commit` it
  has the row's lock, the row is there, and its snapshot has all log rows of the
  subscription; at `fill` what it read has no more than the row; at `uncache` the row is gone
  and no delete of it has been confirmed). The proof is by rely and guarantee: `Rely(a)` lists the
  ways in which a step of `a` may change tables and locks, `Stable` shows that such a
  step keeps the conclusions of every other handler, and each action is shown once to be
  of that kind, to keep its own conclusions, and to be a step of `Registry` or none.
  `Bounded` (each worker that is logging has a log row left to write) is needed for the
  type of `written` alone.

For `Startup` (`StartupAssumption`), with any number of processes, migrations and faults:

* `Types`, `Once`, `Ready` (`StartupProofs`): `TypeOK`, `AppliedOnce` and `SchemaReady`. The invariant says that
  who is at the migrations has the lock, which migrations have been executed according to
  version and mark (`Counted`), and what a process may conclude from where it is
  (`Placed`). The dirty mark is what carries it through a crash: after one between
  `RunSql` and `ClearDirty` the database does not say whether the file was executed.

For `Service` (`ServiceAssumption`: each task is for one subscription, there are finitely many workers):

* `Parts` (`ServiceProofs`): `ServiceSpec => Spec /\ S!Spec`. Whatever the composition does is a step of the scheduler or
  leaves it alone, and the same for the subscriptions. So all theorems about the parts hold of the whole;
  and with the theorems of `SubscriptionsProofs` for the instance (`SP`) they are used in the next.
* `Outcomes`: `Solo => (ServiceSpec => []OutcomesLogged)`. The invariant has three parts. `Looking`: a worker is in its
  lookup and INSERT only while it is at `log`, for the subscription of its task, and a task is
  accepted only for a subscription that has been stored. `Booked`: `contents` has the rows written. `Complete`: each POST for
  a task whose subscription is there has its row, unless a worker is about to write it. A row stays
  because the tables implement `Registry`, in which only the removal of the subscription takes it; a worker leaves
  without a row only if the subscription is gone, and it does not come back, since no identifier is used twice.
  That what the row says is what the record says then follows from `Counted` and `Recorded`.

Only model-checked: `Findable`, whose invariant has to follow the handler's and the
canceller's commands through each other, and liveness under fairness (`FirstAttempt`, `FirstWebhook`, `StopTerminates`,
`EveryRequestAnswered`, `OldLogsGo`, `ComesUp`), which is out of the prover's reach. Every other property of a
passing run is proved.

## 5. Not modelled

* The back-off table (`calculateBackoff`): constants, of which only whether the delay has
  passed matters. Signatures, formatting, task identifiers made from the clock:
  identifiers are distinct in the model.
* GET handlers and listing queries other than those named above: they change no state.
  Queries are one step: that a result breaks off half-way and is answered as complete
  (`rows.Err` is not looked at in `log_service.go`) cannot be seen.
* Subscriptions without a payload. The column may be NULL, which `Scan` can not put into a
  `json.RawMessage` (`postgres_store.go:50`), so that such a row would never be found; whether
  one gets there is up to the driver. In the model every subscription has a payload.
* What happens to requests in flight when `e.Start` returns and `main` ends: they end with the
  process.
* The order of `taskDispatcher`'s ticks relative to time: a scan may begin whenever
  the last one has ended.
* Failures of Postgres within `Scheduler` and `Service` other than that a log row is not
  written.
* Configuration, CORS, the web page.

## 6. What the code does otherwise than it says

Shown by runs, each the smallest that has the behaviour:

* `V_Retries`: the dispatcher keeps the lock of a task that it has put in the channel;
  the worker finds the task locked and drops it. Its record says `queued`, which nothing
  scans. One webhook, one process and no fault are enough: a task that failed once
  may never be retried.
* `V_Queued`: recovery looks at `in_progress` only; a task in the channel is lost in a
  crash though its record is in Redis.
* `V_Completed`: the recovery pass writes back the record it read, without the
  lock; a task that is completed in between is put back into play and is delivered
  again.
* `V_Stop`: `Stop` closes the channel under the dispatcher; its send panics and the
  process ends with workers in the middle of their tasks.
* `V_Cached`: a webhook that has read the row before a delete fills the cache
  after it; the entry never expires.

Met while modelling, in the modules, not stated as runs of their own: a cancelled task that
is still in the channel is delivered (`worker.go:376`); a task that is cancelled while its
handler still writes it stays in the `queued` set (`worker.go:300`), or is put into the retry
set and sent again later (`worker.go:217`); the dispatcher requeues from a copy
it read before it had the lock (`worker.go:125`); a crash between SET and SADD leaves an
`in_progress` record where recovery does not look (`worker.go:329`); PATCH leaves the old URL
in the cache (`handler.go:123`); a webhook is answered 202 with an empty task ID when the
second lookup fails (`worker.go:249`); the subscription may be deleted between the check
and the INSERT of a log row (`worker.go:423`, `464`). Not in the modules: the service's README
(line 18) says "exponential backoff with jitter", `calculateBackoff` has a table and no
jitter.

## 7. Plan

Done: `TaskStore`, `Scheduler`, `TaskLifecycle`, `Registry`, `Subscriptions`, `Service`,
`Startup`, their runs and the eight proof modules. Next, in this order:

1. A proof of `Findable`.
2. What of the properties of `SoloProofs` remains true with callers of `CancelTask`, and with several
   processes: which bound on attempts and POSTs does `MaxAttempts` still give?
3. A run with two processes, one of which crashes while the other goes on.
