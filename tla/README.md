# scheduling-bc in TLA+

A verification development of the Mojaloop scheduling bounded context: TLA+
modules translated from its source, TLC runs on small instances, and TLAPS
proofs for every size. Paths below are relative to `src/packages/` unless they
start with `src/`; `aggregate.ts` is `domain-lib/src/aggregate.ts`.

To repeat the work: `tlc -config <cfg> <module>` for the pairs listed under
*Runs*, `tlapm <module>_proofs.tla` for the proofs.

## The system

A client submits a *reminder*: an id, a time (a cron pattern, a date, a number
of milliseconds) and what to do then (an HTTP POST, or an event to the broker).
Several processes keep timers for the stored reminders; the one that obtains
the reminder's lock when a timer fires sends the notification.

| Component | State it keeps | Operations | Talks to |
|---|---|---|---|
| Client library `client-lib/src/scheduling_client.ts` | none; one HTTP timeout per call | create, createSingle, get, delete | API, by HTTP |
| Scheduling API service `scheduling-api-svc` | an aggregate with timers, made by `init()`; its startup timer | start, routes, stop | commands topic (producer), MongoDB, Redis |
| Commands topic (Kafka) | commands, ordered per key | – | written by the API, read by the command handler |
| Command handler service `command-handler-svc` | an aggregate with timers, not initialised; the consumer's offset | start, `_msgHandler`, stop | topic (consumer), MongoDB, Redis |
| Aggregate `domain-lib/src/aggregate.ts` | the Map `cronJobs`; the timers inside the cron library | `init`, `processCmd` (four commands), `runReminderTask` | repo, locks, HTTP client, producer |
| Repository `implementations-lib/.../mongo_repo.ts` | one collection, no unique index on `id` | store, get, getAll, delete | MongoDB |
| Locks `implementations-lib/.../redis_locks.ts` | the Map `locks` (id to the last Lock obtained) | acquire, release | Redis, through redlock |
| HTTP client `implementations-lib/.../fetch_http_client.ts` | one AbortController for all posts | send, destroy | any server |
| Reminder types and validation `domain-lib/src/types.ts` | – | validateReminder | – |
| Event handler service `event-handler-svc` | the consumer's offset | start, a handler that resolves and does nothing, stop | events topic |

What is hard, and what makes each part correct:

* **Timers in several processes.** The command handler and every API process
  arm timers for the same reminder. Correct: no two tasks are between `acquire()`
  and `release()` for one id; a one-time event is sent once each time it is created.
* **Locks with a time to live, kept in a Map by id.** `release()` looks the lock
  up by id, so it may find another task's lock; and a release that is rejected, or
  that Redis does not answer, leaves an async function that nobody awaits, which
  ends the process (`command-handler-svc/src/service.ts:295`). Correct: a release finds its own
  lock; a dead owner's key is freed.
* **Two remote calls where one is meant.** Find-then-insert; insert-then-schedule;
  send-then-delete-then-unschedule; each has other actors and failures between
  its halves. Correct: one document per id; the timers are those of the stored
  reminders; the next command is served whatever failed.
* **Timers live in memory.** Processes crash and restart; a stored reminder must
  have a timer again.
* **Asynchronous commands.** The API answers before the command is handled, and
  clients give up before the API does. Correct: what was answered is on the
  topic, and is handled in the client's order.
* **A shared abort signal.** Correct: a post fails only because of itself.
* **Durations.** The key's time to live, the loser's retries, the work and the
  minimal duration of a run are separate numbers that must fit. Correct: no key
  expires under its task; a tick that was served is not served again at once; a
  tick that nobody serves had a reason.
* **Start and stop.** A signal comes at any moment, `stop()` runs while tasks and
  even `start()` go on, and any remote call may hang. Correct: the process ends;
  a clean exit has destroyed everything; nothing starts in an aggregate that was
  destroyed.

## Modules

| Module | What it models |
|---|---|
| `Deployment` | constants shared by all: processes, ids, reminders |
| `ReminderMutex` | abstract: what `ILocks` promises the scheduler |
| `RedisLocks` | `redis_locks.ts` over Redis: keys, time to live, the Map of each process |
| `ReminderStore` | abstract: the set of reminders that `IRepo` describes |
| `MongoRepo` | `mongo_repo.ts`: documents, find-then-insert, delete-by-id |
| `Environment` | kinds of reminders, the clock, how many submissions, ticks, faults and crashes a behaviour sees |
| `CronJobs` | the Map `cronJobs` and the armed timers of each process |
| `ReminderTask` | `runReminderTask`, `sendEvent`, `sendHttpPost`, one action per remote call |
| `CommandHandler` | the commands topic, `_msgHandler`, `processCmd` and the four commands |
| `Scheduling` | the composition: start, `init()`, death and restart of processes, fairness, the system's properties |
| `FetchPostClient` | `fetch_http_client.ts` |
| `TickTiming` | the runs of two ticks of one reminder over `RedisLocks`, with time and durations as numbers |
| `Lifecycle` | one process of any of the three services from `start()` to its end, over `FetchPostClient` |
| `SchedulingApi` | a client call, the API's answer, the topic per key, the handler |
| `MC*` | instances for TLC |
| `<module>_proofs` | theorems about the module; those of `FetchPostClient` are in `Lifecycle_proofs` |
| `Outcomes_proofs`, `Delivery_proofs` | more about `Scheduling`: how often an event goes out, which timers run; from the command to the notification |

`Scheduling` EXTENDS `CommandHandler`, `ReminderTask`, `CronJobs`, `RedisLocks`
and `MongoRepo`: the actions of the lower modules constrain their own variables
only, and the upper ones join them and say what stays. That a step of the whole
is a step of the locks and of the collection (or leaves them alone) is a theorem.
In the same way `TickTiming` EXTENDS `RedisLocks` and `Lifecycle` EXTENDS
`FetchPostClient`, and that their steps are steps of the module below is a theorem.
`TickTiming` is also a second, concrete reading of what `Scheduling` assumes of
durations: with the numbers in place, its runs are runs of the locks with
`Overrun = FALSE`.

How state corresponds to the code:

| Variable | Code |
|---|---|
| `redis[i]` | the value Redis stores under the key `i`: the task whose lock it is |
| `locks[p][i]` | the Map `locks` of process `p` (`redis_locks.ts:50`) |
| `holding[t]` | the id between `acquire()` and `release()` of task `t` |
| `docs[r]`, `storing[p]` | documents equal to `r`; the reminder `p` has found absent and is about to insert |
| `jobs[p][i]`, `timers[p]` | the entry of `cronJobs`; the jobs that are armed, with or without an entry |
| `pc[t]`, `ran[t]`, `got[t]` | the next call of a run of `runReminderTask`, the job that started it, the reminder it read |
| `topic`, `hpc`, `victim` | uncommitted commands, the next call of the command in hand, the id a deletion is about |
| `mode[p]`, `snapshot[p]` | whether `p` runs; what `init()` has read |
| `at[t]`, `start[t]`, `next[t]`, `tries[t]` | in `TickTiming`: how far run `t` is, its `startTime`, when it must go on at the latest, the attempts of its `acquire()` |
| `bad`, `expiry`, `now` | the runs that have thrown, when the key expires, the time |
| `begun`, `startTimer` | in `Lifecycle`: the awaits of `start()` that have returned, `startupTimer` |
| `stopping`, `abortTimer`, `gone`, `early` | the call that `stop()` awaits, the timer of the signal handler, what `stop()` has destroyed, whether the signal came during `start()` |
| `jobs` (in `Lifecycle`), `cmd`, `exit` | whether jobs in the Map and jobs replaced in it are armed, a command in hand, how the process has ended |
| `sent[r]`, `inserted[r]`, `due`, `budget` | history and environment: notifications, insertions, the clock, the events left |

Choices a reader should know:

* A *task* is a slot: one run of `runReminderTask` after another. A job passes
  only an id on, so `runReminderTask` reads the reminder again (`TaskGet`).
* `acquire()` is one step: Redis grants and `locks.set()` remembers. A release
  between the two could only be one that Redis rejects anyway.
* A call to MongoDB, Redis or the broker that fails may or may not have taken
  effect; the model has both, each at the price of one *fault*. So an `acquire()` that
  gets no answer returns false, and may leave a key that nobody knows of (`Orphan`,
  `AcquireLost`) until it expires. A `release()` that fails ends the process: when
  Redis rejects it (`ReleaseRejected`, possible only once the key has expired) as the
  code's own doing, and when Redis does not answer (`ReleaseUnanswered`, the key
  deleted or not) at the price of one *crash*.
* In `Scheduling` durations are abstracted. `Overrun = FALSE` is the bound the comment at
  `aggregate.ts:216` states ("Duration of getReminder() + duration of
  httpPost()/event() <= TIMEOUT_MS_LOCK_ACQUIRED"): a key expires only once its
  task is gone. `Overrun = TRUE` drops it. `TickTiming` derives the first from
  durations: the work takes at most `MaxWork`, and both `MaxWork + Slack` and
  `MinTask + Slack` are below `Ttl`.
  That the work is bounded at all is the comment's claim: the HTTP timeout is in
  the code, but the time limit for calls to MongoDB is stored and never used
  (`mongo_repo.ts:59`). A call that hangs is a case of `Overrun = TRUE`.
* In `TickTiming` a timer fires up to `Skew` late, and an attempt, a retry, the end
  of the work may come at any time up to a deadline (`next`) that time cannot
  pass. `Slack` is what is left out of the rest and of `release()` otherwise: the
  timer of the rest may be late, and the release takes its time to reach Redis; the
  key goes between the end of the work, or of the rest, and `Slack` later. `Mortal` says which
  processes may be killed. Calls to Redis do not fail in this module.
* In `Lifecycle` the three services differ in two tables only: which fields each
  await of `start()` sets (`Assigned`) and what `stop()` destroys in which order
  (`StopOrder`). A part that is destroyed fails every later call on it. A release may
  be rejected, and end the process, in any service and at any time: the key may have
  expired under a task that hung, and Redis may not answer. Awaits that
  only settle promises (`locks.init()`, the constructors) are not steps.
  `PRODUCTION_MODE` without an audit key, which exits with 9, is a start that fails.
* The times of reminders are of four kinds, because four pieces of code treat
  them differently: `cron`; `numbered`, a pattern that V8's `Date.parse()` reads
  as a date (of `*/5 * * * * *` it keeps the 5, a month); `date`; and `epoch`,
  milliseconds. What Node's `Date.parse()` accepts beyond ISO dates is up to the
  engine, so `numbered` is a fact about V8.
* Each module carries, in a section of their own, faulty variants of its
  operations. No specification uses them; with one of them in place of the
  operation, the property it belongs to fails.

## Runs

| Run | Module, cfg | Shows | States |
|---|---|---|---|
| `locks` | `MCRedisLocks`, `MCRedisLocks.cfg` | within the bound on durations: mutual exclusion, releases that Redis has no reason to reject, refinement of `ReminderMutex`, every key freed, those of dead processes and of lost replies too (`LockTypeOK`, `MutualExclusion`, `ReleaseSucceeds`, `ImplementsMutex`, `LocksFreed`) | 1 696 |
| `repo` | `MCMongoRepo`, `MCMongoRepo.cfg` | one consumer per id: one document per id, refinement of `ReminderStore` (`RepoTypeOK`, `OneDocPerId`, `CheckStillHolds`, `ImplementsStore`) | 105 |
| `recurring` | `MCScheduling`, `MCRecurring.cfg` | between commands, under every id whose events have not gone out, the handler's timers are those of its Map and of the stored reminders; an event that has a job and was not sent keeps its timer or a task that is about to send it (`ScheduleMatchesStore`, `ArmedIsNotLost`) | 2 026 390 |
| `mixed` | `MCScheduling`, `MCMixed.cfg` | with a fault and a crash: types, one task per reminder, a one-time event sent once per creation, a reminder stored once per command, no reminder removed by a task before an event under its id has gone out (`TypeOK`, `WorkersHoldLocks`, `OneWorkerPerReminder`, `SentOncePerStore`, `StoredOncePerCommand`, `RemovedOnceSent`) | 358 604 |
| `live` | `MCScheduling`, `MCLive.cfg` | with a crash and overrunning tasks: commands drain, tasks end, an armed one-time event is sent, nothing is sent that was not stored or is not due, a release frees no key of another process (`CommandsDrain`, `TasksEnd`, `OneTimeIsSent`, `SendsAreDue`, `ForeignLockKept`) | 73 044 |
| `api` | `MCSchedulingApi`, `MCSchedulingApi.cfg` | success means the command is on the topic; a client's commands about a reminder are handled in its order (`TypeOK`, `AcceptedIsPublished`, `HandledInClientOrder`) | 214 073 |
| `tick` | `MCTickTiming`, `MCTickTiming.cfg` | with numbers: no run outlives its key, a run that succeeded keeps others off for the minimal duration, a tick is lost only to a run of an earlier one, a lock is granted within the time of the retries (`TickTypeOK`, `SkippedTickWasBusy`, `DurationsBoundTasks`, `RunsApart`, `GrantsInTime`) | 2 058 430 |
| `lifecycle` | `MCLifecycle`, `MCLifecycle.cfg` | with tasks whose release may throw at any time: what a clean exit has destroyed, what makes posts fail, that a signal or the startup timer ends what hangs, that posts settle (`LifeTypeOK`, `AbortHasCulprit`, `UnsetIsEarly`, `CleanExitDestroys`, `ApiQuietAfterDestroy`, `StopEnds`, `StartEnds`, `SettleOrEnd`) | 532 264 |
| `restart` | `MCScheduling`, `MCRestart.cfg` | violated: a stored recurring reminder has a timer (`StoredIsScheduled`) | |
| `numbered_pattern` | `MCScheduling`, `MCNumberedPattern.cfg` | violated: a task deletes no recurring reminder (`RecurringIsKept`) | |
| `past_due` | `MCScheduling`, `MCPastDue.cfg` | violated: `init()` does not throw (`InitSucceeds`) | |
| `http_shared` | `FetchPostClient`, `MCFetchPostClientShared.cfg` | violated: a post fails only for its own server or timeout (`FailsOnItsOwn`) | |

### Bounds

* Locks: two processes with two tasks each and two ids: a task can meet
  another of its process and of another process on its id, while the other id
  is in use. Nothing is bounded; the state space is finite.
* Collection: three ids, one process with two of them; two reminders per id, so
  that a document can be replaced by a different one. Under one consumer per id
  the counts stay at one; nothing is bounded.
* System: the command handler `h` with two tasks and one API process `a` with
  one (one each in `live` and in the violated runs). `Budget` bounds the events
  the environment decides on: submissions, ticks of recurring timers, faults,
  crashes. `recurring` has four submissions, enough to create, delete and create
  differently under one id while the other is in use, and one tick; no
  failures, which its properties exclude. One id has a recurring and a one-time
  reminder, neither with a URL, so that their tasks throw before they send; the other
  has a one-time event, `Solo`, which a task deletes, also while a deletion of all walks
  the Map. Its two tasks of the handler are symmetric,
  which is sound because the run checks invariants only. `mixed` has two of everything the
  aggregate distinguishes in two submissions, one tick, one fault and one crash
  in any place, so a one-time event can be created, fired by both processes,
  deleted by a task and created again, with the handler dying in the middle and
  the command delivered again. API processes start (and fail to start) freely.
  `MaxJobs` bounds how many jobs of one reminder a process has at once. It never
  blocks `Arm` in these runs: a job has a free number whenever one is to be made
  (`FreeNumbers` is not empty while `hpc` is `"job"`, checked by TLC for the three runs
  that pass).
* Ticks: two processes and two ticks, so that each run of the second can meet its
  rival, a run of its own process and one of the other. What matters of the numbers
  is how they compare; retries together outlast the minimal duration, the work may
  outlast it, the time to live outlasts both and `Slack`, as in the services. One process may
  be killed; time stops when all runs have ended and the key is gone.
* Lifecycle: one process at a time, of any service, with two tasks: one that ends
  a post or the process while the other is at any point. Nothing else is bounded.
* HTTP, `http_shared`: three posts: one that fails, one in flight, one to come.
* API: three calls about one id, with every kind of call for each; calls are
  symmetric, which is sound because the run checks invariants only.

Deadlock is not checked where the environment may run out of events or of
calls, or the process ends (`MCScheduling`, `FetchPostClient`, `MCSchedulingApi`,
`MCTickTiming`, `MCLifecycle`): a system at rest is a proper end there. It is
checked for the locks and the collection.

### Fairness

* `Scheduling!Fairness`: the broker delivers the next command and calls return or
  throw (`HandlerStep`, `TaskStep`), the process ends when an exception is not
  caught (`ReleaseThrows`), times and times to live come (`TimePasses`,
  `KeyExpires`), a due one-time timer gets to run once a task slot of its
  process is free (`Fire`), `init()` goes through its snapshot or throws, and the
  container runtime starts a dead command handler again (`StartHandler`). All
  are weak: each stays possible until it happens or something else makes it
  pointless. Nothing makes a client submit, an API process start, a recurring
  timer tick or anything fail.
* `LockFairness`: a task reaches its finally block; times to live end.
* `FetchPostClient`: timers fire; servers need not answer.
* `Lifecycle`: timers fire while the process lives (`StartTimesOut`,
  `StopTimesOut`, `TimerFires`), and nothing else has to happen: any call of
  `start()`, of `stop()` and of a task may hang. So `StopEnds` and `StartEnds` rest on
  the timers alone. The command handler has no startup timer; `StartEnds` does not
  speak of it.

`OneTimeIsSent` excuses failures and tasks that outlive their locks (`Overtaken`),
and that is what the code gives: the loser of a lock gives up for good, so if the
winner dies, or is late, the event is not sent. It speaks of reminders that have
their id to themselves (`Alone`): a job passes on the id only, so a timer of another
reminder under the id may send this one, or its task delete it. That without
failures and overruns no event is lost to a race is `ArmedIsNotLost`, which is proved.

## What is proved

All theorems hold for any sets of processes, tasks, ids and reminders and any
budgets, from the named assumptions on constants.

* **Locks** (`RedisLocks_proofs`). With `Overrun = FALSE`, `LockIInv` (the types,
  and: whoever holds an id owns its key in Redis *and* its entry in its
  process's Map) is inductive; mutual exclusion alone is not, as it says
  nothing of the keys. From it: `ReleaseAlwaysSucceeds`, `TasksExclude`, and
  `LocksImplementMutex` (each step is a step of `ReminderMutex` or a stutter;
  `Exit` and a release without an answer map to
  `Drop`). Without the assumption, `ReleasesStayHome`: the Map of a
  process holds locks of its own tasks only, so what a release removes belongs
  to a task of the same process.
* **Collection** (`MongoRepo_proofs`). With `KeysDisjoint` (the topic is partitioned
  by id and a partition has one consumer), `RepoIInv` adds to `OneDocPerId` that
  what a process found absent is still absent (`CheckStillHolds`). From it:
  `IdsStayUnique`, `RepoImplementsStore`. A step needs less than `KeysDisjoint`: that
  no two processes are storing the same id at once (`OneStorer`).
* **HTTP client** (in `Lifecycle_proofs`). `AbortNeedsCulprit`; the invariant adds
  that a pending timer belongs to a post that is in flight or has failed, and
  that a failed post has a cause.
* **System** (`Scheduling_proofs`). `SchedIInv`: the types of all components, what
  each program counter says about the data the next step uses (`TaskControl`,
  `HandlerControl`), and `WorkersHoldLocks`: a task is between `acquire()` and
  `release()` exactly while it holds the lock of the id it was started with.
  `TasksHoldTheirLocks` is that invariant; `SystemRunsLocks` and `SystemRunsRepo`
  say that the system's steps are steps of the locks and of the collection, or
  leave them alone. So the components' theorems hold of the system:
  `OneWorker` (with `Overrun = FALSE`, no two tasks in any processes work on one
  reminder) and `NoReleaseRejected` (Redis has no reason to reject a release: a task
  ends its process in its finally block only if Redis does not answer, and each
  such end counts as a failure). In the running system `OneStorer` is not an assumption: only the
  command handler stores, one command at a time (`HandlerStores`, inductive together
  with the two invariants: `SystemIsOneStorer`). So `SystemKeepsIdsUnique` holds
  without any assumption, and the system implements both abstract specifications:
  `SystemImplementsStore` (without any assumption) and `SystemImplementsMutex` (with
  `Overrun = FALSE`).
* **Outcomes of the system** (`Outcomes_proofs`). `RemovalsFollowSends`, without any
  assumption on durations or consumers: a task about to delete has sent
  (`SentFirst`). The other two need `Overrun = FALSE`.
  `EventsGoOncePerStore`: the invariant `Account` says that what was
  sent, plus what may still be sent (`Left`: a task about to send, else a stored
  document nobody is about to delete), is covered by what was stored plus the
  failures so far. `SentOncePerStore` alone does not say that the document a task has
  sent is on its way out. It needs mutual exclusion and unique documents, which
  come from the theorems above. `TimersFollowTheStore`: the invariant `Matched`
  follows the command in hand (a creation that has stored its reminder owes it a
  job, a deletion owes the removal of one); `Steady` adds what holds of the control
  as long as nothing has failed. Both speak, as the property does, of ids whose
  events have not gone out (`EventSent`): from the first send on, a task may delete
  by the id and stop whatever job is under it.
* **From the command to the notification** (`Delivery_proofs`).
  `NothingSentOutOfTurn`, without any assumption: the invariant carries the two
  reasons for a notification with the task, from the timer that fired and from the
  reminder that was read. `CommandsStoreOnce`: the insertions of a reminder
  and the commands still on the topic are together covered by what was submitted and
  the crashes, and by the command in hand once it may have stored (`Covered`); a
  crash gives the command in hand back, and a fault does not. With the account of `Outcomes_proofs`,
  `EventsGoOncePerCommand`: a one-time event goes out at most once per command, plus
  failures and crashes. `ArmedEventsAreKept`: `ArmedIsNotLost` is not inductive, as it
  does not say why the loser of a lock may give up. `KeysHeld` says that while nothing
  fails every key in Redis belongs to a task at work, and `Kept` that while the job is
  there and the event was not sent, a task at work on it is about to send it, also
  while the command that creates or deletes it is in hand. These four, but for the
  first, assume `Overrun = FALSE`.
  Two theorems say how far statements hold that runs refute: until the first failure
  and the first deletion by a task (`ScheduleLastsUntilAFailure`, with
  `Overrun = FALSE`, for `StoredIsScheduled`), and
  for all patterns but the numbered ones (`OnlyNumberedAreDeleted`, without any
  assumption, for `RecurringIsKept`).
* **Ticks** (`TickTiming_proofs`). `TickIInv`: who has the lock has a deadline that
  time has not passed and that comes before the key expires (`InTime`).
  `DurationsSuffice` follows: the timed runs are runs of `RedisLocks` with
  `Overrun = FALSE`, for any ticks, retries and delays with `MaxWork + Slack < Ttl` and
  `MinTask + Slack < Ttl`. So the assumption of `TasksExclude`, `OneWorker` and the
  theorems above is discharged by the configuration, as far as the work and the
  release are bounded, which nothing in the code enforces: the theorem is about the
  arithmetic of lateness, retries, rest and time to live. `TicksExclude` and
  `RunsStayApart` use the same invariant. `LostTicksWereBusy` assumes in addition
  that ticks are farther apart than timers are late (`TicksSpread`); `LostIInv`
  remembers for each run that was refused which run was in its way, found at its
  *first* attempt: later ones may be refused because of each other.
  `TicksImplementMutex`: with expiry, retries and deaths hidden, the timed runs are
  runs of `ReminderMutex`. `GrantsComeInTime`: what bounds a grant is an invariant
  about every run that waits (`Prompt`: each refusal so far has delayed it by at
  most `MaxDelay`). `TwiceOnlyByRetries` joins it with the minimal duration
  (`StartsLate`: a run takes its `startTime` after its tick; `ServedOnce`: after a
  success no other run of the tick gets the lock): two runs of one tick can both
  send only if `MinTask <= Skew + MaxSpins * MaxDelay`, which TLC reaches in the
  instance of `tick`, and which the numbers of the services satisfy.
* **Lifecycle** (`Lifecycle_proofs`), for any number of tasks. `ProcessRunsClient`
  (each step is one of the HTTP client, or leaves it alone) carries
  `AbortHasCulprit` over. The others (`LifeKeepsTypes`,
  `OnlyEarlyStopsMeetUnset`, `CleanExitsAreComplete`, `DestroyedApisStayQuiet`) come
  from one invariant on where `stop()` is in its order: what comes before is
  destroyed or was not set, and what is destroyed of a started API includes the
  jobs.
* **Client and API** (`SchedulingApi_proofs`), for any number of calls. `ApiIInv` says
  where the command of each call is between client, API, topic and handler, and that
  each queue is in the order of its client: `SuccessIsPublished`,
  `ClientsAreServedInOrder`.

Only model-checked: liveness (`LocksFreed`, `CommandsDrain`, `TasksEnd`,
`OneTimeIsSent`, `StopEnds`, `StartEnds`, `SettleOrEnd`), which is out of the
prover's reach. Every other property of a passing run is a theorem, under the
assumption named above where the run makes it.

## Where the code and its documents disagree

The violated runs (`PROJECT.json`, `findings`):

* `restart`: the command handler never calls `init()`. After a restart the stored
  reminders have no timer there, and the API processes know only what was
  stored when they started.
* `numbered_pattern`: `sendEvent` takes a time that `Date.parse()` understands for
  a one-time reminder. A recurring event every five seconds is deleted after
  its first notification.
* `past_due`: one stored one-time reminder whose time has passed makes `init()`
  throw, and the API service exits; HTTP reminders are never deleted after
  they were sent, so this state is the usual one.
* `http_shared`: a post that fails leaves its timer armed and the controller is
  shared, so once that timer has fired all later posts of the process fail at once,
  and a post in flight at that moment fails with them.

Behaviour that is visible in the model and belongs to the same lines, without a
run of its own:

* After a task has sent a one-time event it deletes *by id*, and then stops the
  job *under the id*. If the reminder was deleted and another created under the
  id in between, the task removes the new reminder, or only its timer
  (`aggregate.ts:287`, `:330`).
* A one-time event given in milliseconds is sent and never deleted
  (`Date.parse()` of a number is NaN, `aggregate.ts:285`).
* `DeleteRemindersCmd` walks the Map of one process and stops at the first id
  that is not stored; reminders without a job there are kept (`aggregate.ts:339`).
* Only the process that handles a deletion stops its job: an API process keeps
  the timer, and fires a reminder created anew under the id on the old schedule.
* Two consumers that see one id, during a rebalance, can both find it absent
  and both insert: `MongoRepo` alone keeps `OneDocPerId` only with `KeysDisjoint`, so
  the run `repo` shows what deletions by other processes can do to a store in two
  calls, and not what a second writer can. `Scheduling` has one command handler, and
  needs no such assumption; neither has more than one consumer.
* `startTime` is taken before `acquire()` (`aggregate.ts:218`): a run that has waited for
  the lock as long as the minimal duration holds it only for its work. The retries
  of a loser (10, after 0 to 400 ms each) can outlast the 2 s of the winner, so a
  second process serves the same tick again, later than `RunsApart` demands; a
  one-time event is gone by then, a recurring one is sent again. `TwiceOnlyByRetries`
  says which inequality between the configured numbers would exclude it.
* A run that throws releases at once, despite "This function takes at least
  MIN_DURATION_MS_TASK to execute" (`aggregate.ts:215`); one that does not get the
  lock returns without any wait.
* `stop()` of the command handler disconnects Redis under its tasks: a release in
  flight ends the process with 999 in the middle of `stop()`. The API leaves its
  locks and its repository open, so its `stop()` does not cause this; a release whose
  key has expired, or that Redis does not answer, ends either of them at any time.
  On a clean exit, tasks
  in the middle of a run leave their keys to expire.
* A signal during the start of the API makes `stop()` throw for a field that is not
  set, and the process ends by the exception; and an `init()` that ends after
  `destroy()` arms its jobs again. `ApiQuietAfterDestroy` and `CleanExitDestroys`
  exclude signals that early.
* Jobs that were replaced in the Map of the command handler tick on after
  `destroy()`, until the process ends.
* The API's success means "on the topic": creating what exists, or deleting what
  does not, succeeds for the client; reading after a creation may find nothing. The
  integration tests still expect the answers of an API that does the work itself:
  a second creation under an id is to be rejected
  (`src/test/integration/index.test.ts:149` and `:219`), the deletion of a reminder
  that does not exist too (`:279`), and a reminder that was just created is to be
  found (`:259`).

## What is not modelled

* The checks of a reminder's fields (`types.ts`), apart from what decides
  whether a job can be made: the two validators differ in the time only, and any
  other rejection is the step `CreateInvalid`.
* The list route of the API, which reads and changes nothing; the callback of the
  event handler, which never sets the command it would send.
* A second signal while `stop()` runs; what the Kafka client does between
  `stop()` and `destroy()` of a consumer.
* Configuration, error classes, logging, metrics, authentication at the routes.
* Inside Redis, MongoDB and the broker: one Redis node, a linearizable
  collection, a topic that keeps order per key and redelivers what was not
  committed, as the services configure and use them.

## Plan

Done: locks and collection with their abstract specifications; tasks, commands and
their composition; HTTP client; client and API; ticks in real time; start and
stop; every safety property as a theorem; both abstract specifications implemented
by the composed system, and the mutual exclusion by the timed runs; the way of an
event from the command to the notification. What is left, in this order:

1. An abstract specification of the command handler, in which a command takes effect
   in one step, implemented as long as no call fails.
2. More than one command handler and a topic with partitions that are
   reassigned, so that `KeysDisjoint` becomes a property of the consumer group.
3. `Validation`: `validateReminder` and the constructors of reminders and commands
   as operators over kinds of fields, against a reference definition, joined
   to `Environment!Valid`.
4. A second signal during `stop()`, and the tasks of `Lifecycle` with the durations of
   `TickTiming`: does the 5 s timer of the signal handler leave a task the time it needs?
