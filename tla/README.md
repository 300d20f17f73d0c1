# A specification of the Supervisor

The Supervisor is an asyncio program: one event loop, many tasks, and an await
wherever it talks to Docker or Kubernetes, to D-Bus, to Home Assistant Core or
to the disk. What is hard to get right in it is what happens *between* two
awaits of a task while others go on. This project models that in TLA+, checks
it with TLC on small instances, and proves the safety properties of all modelled
components with TLAPS for instances of any size.

A convention for all modules: a task is the identity of one call, `pc` says at
which await it stands, and one action is the code from one await to the next.
Variables carry the names of the Python attributes they stand for.

## 1. Inventory

| Component (`src/supervisor/...`) | State it keeps | Operations | What makes it correct |
|---|---|---|---|
| Job framework (`jobs/`) | registry of jobs, current job of each task, group lock (owner, stack of parents, asyncio lock), throttle times | `@Job` wrapper, `new_job`, `remove_job`, `schedule_job`, `acquire`, `release` | mutual exclusion with re-entry, no leaked lock, no deadlock with oneself, exact registry, throttle limits |
| Core (`core.py`, `__main__.py`) | `CoreState`, its copy in a file, shutdown event | `setup`, `start`, `stop`, `shutdown`, `set_state`, signal handler | one shutdown, no way back from closing, the process ends |
| Backups (`backups/`) | backup cache by location, freeze (thaw task and event), Core state | backup, restore, `freeze_all`, `thaw_all`, `reload`, `remove`, import | the system is frozen while data is copied and thawed afterwards; the cache agrees with the disk |
| Apps (`apps/`) | app state, container events, watchdog, manual stop | install, start, stop, update, backup, restore | the state follows the container; the watchdog restarts only what failed |
| Home Assistant Core (`homeassistant/`) | version, error state, watchdog listener, websocket queue | install, update with rollback, start, stop, restart | a failed update leaves a running Core; the watchdog is off in shutdown |
| Supervisor and updater (`supervisor.py`, `updater.py`) | connectivity, versions | update, restart, connectivity check | one update, connectivity not stale |
| Docker and Kubernetes backends (`docker/`, `k8s/`, `runtime/`) | container metadata, event monitor, pull progress | install, run, stop, attach, monitor | events in order, progress monotone |
| Mounts (`mounts/`) | mounts and their units, bound folders | create, update, remove, reload | no bind of an unmounted share |
| Store (`store/`) | repositories, app index | load, update, add, remove | a failed change is rolled back |
| Resolution (`resolution/`) | issues, suggestions, unsupported and unhealthy reasons | checks, evaluations, fixups | no suggestion without its issue |
| Plugins (`plugins/`) | container state, DNS servers, loop detection | load, start, watchdog | restart with a limit |
| OS (`os/`) | boot slots, data disk | update, slot change, disk migration | a bootable slot is always marked |
| Scheduler, tasks (`misc/`) | registered tasks | register, reschedule, shutdown | nothing runs after shutdown |
| Ingress, auth (`ingress.py`, `auth.py`) | sessions, token and login caches | create and validate a session, check login | no expired session is valid |
| Services, discovery (`services/`, `discovery/`) | messages by app | publish, remove | gone with their app |
| Host, D-Bus, hardware, API, utilities | mirrors of external services | proxies | not modelled: pure I/O |

How they interact:

* **Calls under locks.** A decorated method of an app, of a container or of the
  backup manager takes its object's group lock. `App.restart` calls `App.stop`
  (same group), which calls `DockerInterface.stop` (another group), and
  `freeze_all` gathers `begin_backup` of all apps.
* **Shared state.** `Core.state` is written by startup, shutdown, stop, backups,
  restores, freezes and thaws, and read by job conditions, the API, the
  scheduler and the websocket.
* **Events.** The bus starts a task per listener: the Core state disables Home
  Assistant's watchdog and flushes the websocket queue; container events drive
  apps and plugins.
* **Timers.** The thaw timeout, scheduled jobs and throttle periods.

Hard behaviour: re-entrant locks across tasks; gathered calls that outlive
their caller; a state checked before an await and used after it; `finally`
clauses that set a state whoever owns it by then; timeouts racing the call they
guard; wall clock time that the program itself sets; a cached state (of a
container, of a backup's locations) that is behind the thing it stands for; an
update of which one step fails or which a restart of the Supervisor cuts short.
`PROJECT.json` lists each of these hazards at its line.

## 2. Modules

| Module | Models | Composition |
|---|---|---|
| `GroupLock` | what a `JobGroup` promises: a stack of calls | abstract specification |
| `Jobs` | `jobs/decorator.py`, `jobs/__init__.py`, `jobs/job_group.py` | implements `GroupLock` |
| `Throttle` | `Job._handle_throttling` and its time stamps | on its own: throttling has no await |
| `CoreState` | `core.py`, the signal handler of `__main__.py`, host reboot | on its own |
| `BackupManager` | freezing operations of `backups/manager.py`, `begin_backup` and `end_backup` of apps | extends `CoreState` |
| `WebSocket` | `homeassistant/websocket.py` | on its own; the Core state is a variable that steps as `CoreState` lets it |
| `HomeAssistantCore` | `homeassistant/core.py` with the container below it | on its own; the job group is the variable `job` |
| `App` | `apps/app.py`: state, operations, watchdog, with the container and its events | on its own; the two job groups are `job` and `busy` |
| `BackupCache` | the cache of `backups/manager.py` against the disk | on its own |
| `JobsProofs`, `ThrottleProofs`, `CoreStateProofs`, `BackupManagerProofs`, `WebSocketProofs`, `HomeAssistantCoreProofs`, `AppProofs`, `BackupCacheProofs` | theorems | each extends the module it is named after |
| `MCJobs`, `MCThrottle`, `MCCore`, `MCBackups`, `MCWebSocket`, `MCHomeAssistantCore`, `MCApp`, `MCBackupCache` | instances for TLC | |

### Jobs

Each call of a decorated method makes one `SupervisorJob`, so a call *is* its
job. The places of `pc` are those of `wrapper`: `scheduled` (by `schedule_job`,
task not begun), `called` (job registered), `waiting` (in `asyncio.Lock.acquire`),
`running` (inside `job.start()`), `ended`. The context variable `_CURRENT_JOB`
needs no variable: until its job starts a call's current job is its `parent`.
`owner`, `parentJobs`, `locked` and `waiters` are `_lock_owner`, `_parent_jobs`
and the two parts of the asyncio lock. `release()` of an asyncio lock wakes the
first waiter, which takes the lock only when its task resumes: `Finish` and
`Wake` are two steps, and other tasks may come between them.

The body of a method is abstract: it awaits methods in `awaits[m]` one at a
time, may gather those of `gathers[m]`, and returns or raises. A gather raises
with its first failed call and leaves the others running, which is how a call
may outlive its caller. The instances of `MCJobs` take the methods and the
calls between them from the code (`App.restart`, `App.restore`,
`DockerInterface.stop`, `Updater.fetch_data`, `OSManager.update`,
`BackupManager.freeze_all`).

`remove_job` recurses over sub jobs. `Removed` is the least set that holds the
job and is closed under "sub job of a removed job that is done".

### CoreState

`SetState` changes `_state` at once and hands the write of the state file to
the executor; the caller goes on (`Saved`) when the write is done, and the
event then carries the state *of that moment*. Tasks are the startup task, host
reboot requests, and stop tasks (made by the signal handler, `update()` and
`restart()`). The signal handler cancels the startup task: within the `try` of
`start()` this leads to its `finally` clause, elsewhere to its end.
`loop.stop()` ends the loop only when `run_until_complete(startup_task)` is
over; before, it raises there and the loop is run again.

### BackupManager

Adds tasks to `CoreState` that call `set_state`: backups, restores, freezes,
their thaw tasks, and calls of `thaw_all`. The group lock of the manager is one
variable (module `Jobs` shows what that lock does). The thaw task holds no
lock. For every freeze and every thaw task `sub[x][a]` is its gathered call for
app `a`. Each app has its own group lock, which `begin_backup`, `end_backup`
and whoever starts or stops the app hold. A COLD app is frozen by stopping it,
another one by its pre command, which needs a running container to be undone.
`failing` names the awaited calls that may raise: checks, the query of running
apps, informing Home Assistant, begin and end of an app.

### Throttle

The throttle check, the time stamp and the start of the method are one step.
`clock` is `datetime.now()`, `elapsed` the time that really passed; `SetClock`
sets the former alone, as `Core._adjust_system_datetime` does. `ran` records
when a method really ran; it, `adjusted` and `refused` are read by the
properties only.

### WebSocket

Every message is sent by a task: an event (`_async_send_command`, queued in a
starting Supervisor), a command (`async_send_command`), or a message taken from
the queue by one of the `Flushes`, the tasks that a RUNNING event starts in
`_process_queue`. `pc` says at which await a task is: `check`
(`check_api_state`), `lock` and `connect` (`_get_ws_client`), `reply` (the
future of its answer), `failed` (that future got an error) and `closing` (in
`client.close()`). A connection is `dropped` from the loss of its transport
until its listener ends, which closes it and fails every future (`Fail`).
Answers of the network come after the tasks that are ready to run (`Settled`).
`owed` holds the queued events that no flush has dealt with. `marks` records
what excuses a property: `blurred`, a flush that raised or overlapped another
one; `overtaken`, a caller that forgot a client newer than the one it closed.

### HomeAssistantCore

`job` is the operation that holds the job group, with its place in the code and
what `update` noted when it began (`to`, `rollback`, `was` running, `back` when
it is rolling back). `container` and `images` are Docker's; `meta` is
`instance.version`, `version` the version in memory and `saved` the one on disk.
`Halt` and `Run` follow `DockerInterface.stop` and `_run`, which suppress what
Docker raises. They do not suppress a `TimeoutError`: it becomes a
`JobException`, which ends the operation where it is (`HaltTimesOut`), with the
container as it was, stopped, or removed (`Halfway`). A watch is a call of `_restart_after_problem`; it waits for the
operation it started or learns that it was rejected. `Reload` is a restart of
the Supervisor at any point: memory is lost and `load` attaches to the
container, if `check_image` finds the image of the version on disk or need not
look for it, because the user chose the image (`OverrideImage`). `slipped` records a container that survived a stop which was to remove
it; it lasts until that container is gone and the version in memory is saved.

### App

`container` is Docker's state, `events` are the events under way, in order, and
`state` is what the app made of those that have arrived. Two job groups count:
the app's (`job`) and the instance's (`busy`), because the watchdog's first
attempt calls the instance alone. `DeriveState`, `UpdateState` and
`CurrentState` are `_derive_state`, `_update_state` and `current_state`.
`Deliver` is both listeners of an event: `container_state_changed`, registered
first, then `watchdog_container`. A stop or a removal may raise a `TimeoutError`,
which is no `DockerError` and ends the operation, except that a rebuild still
starts an app that ran (`HaltTimesOut`). `userStopped` is an app that a stop of the
user removed. It ends when the user has the app started, and it does not cover the
two ways in which the code starts such an app by mistake: a start that was
still to be reported when the stop began (`clean` of the job), and an update or a
rebuild that reads the state before the event of the stop has come (`ReadStale`).
`healthcheck` is chosen at the start. A
Supervisor restart (`Load`) may happen at any point. The rate limit of the
watchdog is that each member of `Watchers` is used once.

### BackupCache

Backups do not touch each other in the cache, so one backup is followed through
all locations. `disk` has its files, each a location and a name, because an import
chooses the name of its file and there may so be several at one location; `cached`
is the `Backup` object of the cache. `all_locations` (`known`) notes one file per
location. Which one, if there are several, depends on the order in which a reload
opens them (`OneEach`), and what is noted later replaces what was noted before
(`Noting`). Each object has its own `known`, because a call goes on with the object
it began with when a reload has made a new one. `Create`, `Import` and `Remove` begin
calls; copies and unlinks go one location after the other and fail one by one. A
full reload lists, opens and then replaces; one of a single location only changes
what the cache has. `apart` holds the locations where cache and disk may differ once
nothing is under way any more, for one of these reasons:

* a remove took the noted file of a location where a second one was
  (`RemoveFile`): that one stays, and nothing lists it;
* an import of a known backup made copies (`CopyEnds`): nothing lists those;
* a copy or an import failed over a complete file (`Copy`, `Discard`);
* a file was lost, or deleted as that of another backup (`Vanish`, `AnotherFails`);
* calls and reloads disturbed each other (`alone`).

## 3. Runs

| Run | Question | Result |
|---|---|---|
| `jobs_safe` | locks, registry and call stack with nesting, gathered calls that outlive their caller, queues, rejection, throttling, conditions, cancelled waits, API removal | holds |
| `jobs_live` | does every call end | holds |
| `core_all` | one teardown, after startup, watchdog off, no way back; shutdown callers answered, a started Supervisor stops | holds |
| `freeze_overlap` | a thaw neither unfreezes a backup nor leaves its signal behind | holds |
| `freeze_undone` | is every freeze undone, when asking for the running apps succeeds, and who is left frozen | holds |
| `shutdown_once` | one teardown, with a backup running | **violated** |
| `throttle_limits` | exact limits | holds |
| `websocket_queue` | one connection, no caller left behind, every queued event sent or given up, none twice, all end | holds |
| `core_update` | do image, version and container stay in step through failures and restarts; is a good end of an update true; does the watchdog revive Core | holds |
| `app_watchdog` | does a stopped app stay stopped, does the state follow the container, is the watchdog on, does it revive the app | holds |
| `backup_cache` | does the cache follow the disk, and does a reload heal what overlapping calls left | holds |
| `backup_name` | does a failed backup delete only its own file | **violated** |

Deadlock is checked for the job framework, for throttling and for the backup
cache. In `CoreState` and `BackupManager` the event loop really ends. In
`WebSocket`, `HomeAssistantCore` and `App` the messages, operations and faults
are bounded, so a behaviour ends when they are used up and nothing is left to
do; that nothing is left hanging there is what `MessagesEnd`, `CoreRevived` and
`AppRevived` check.

### Bounds and why they are enough

* **Jobs**: four jobs at a time (three for `jobs_live`, which has no symmetry
  and leaves out the two decorators' locks), recycled by `Forget` when nothing
  refers to them, so runs are of any length. Four suffice for a chain of three
  nested calls in two groups against one competitor, for a caller with two
  gathered calls, one of which nests, and for two calls queued behind one
  holder. `jobs_live` removes every job that is done: kept jobs would use up
  the identities, which the code cannot run out of. The proofs lift the bounds
  of the safety run.
* **CoreState**: two reboot requests, which may repeat, and two stop tasks:
  enough for two callers to meet in `shutdown()` and in `stop()` while the
  startup task is anywhere.
* **BackupManager**: one COLD and one HOT app, of which at most one fails in
  each way that matters to gather. `freeze_overlap` has two freezes and two
  thaw tasks, so that one may outlive the other, one backup, one call of
  `thaw_all` and any timeout; no restore, because of what a restore does that
  waited through a freeze (section 5). `freeze_undone` has one freeze, a restore and an app that others start
  and stop, and a timeout longer than the freeze, because of what
  a shorter one does (section 5). Backups and restores repeat. The instance of
  `shutdown_once` has just the calls its counterexample needs.
* **Throttle**: `MaxTime` is 7 with a period of 3, so two whole periods and
  every offset between them occur. The clock may be set at any time; `ran`
  holds the runs since then.

* **WebSocket**: two events, a command, two flushes (RUNNING may come again after
  a freeze), two connections: three tasks may want to connect at once, and a
  caller may close one connection while another opens the next.
* **HomeAssistantCore**: two versions, two operations, two watches, four
  faults: a failed update needs one fault, a failed rollback two, and two are
  left for a crash and a restart of the Supervisor. `WATCHDOG_MAX_ATTEMPTS` is 2
  instead of 5: a first attempt, which differs, and a last one.
* **App**: two operations, two watches, two faults, at most two events under
  way; with and without a health check. Two events are the die of a container
  and the start of the next one, the shortest delay that can mislead a reader
  of the state.
* **BackupCache**: two locations, two names, two calls at once, one reload at a
  time, two calls, lost files or unreadable locations in all and one fault: an
  import under another name and a remove after it, with reloads before, between
  and after them, and a copy that fails. `FewFiles` (for `Starts`) begins without a file or with one
  of the same name at each location; second files come by imports. More than one reload at a time adds
  an older list that replaces a newer cache, which the next reload heals as well.

### Fairness

* *Jobs*: weak fairness of each wrapper step and of the recycling of ended
  jobs; strong fairness of the return of a running method (it is able to return
  again and again, between the calls it awaits) and of the start of a gathered
  call. The event loop resumes every ready task, and methods make finitely many
  calls. Nothing is assumed of requests, of cancellation or of the API's
  removals.
* *CoreState*: weak fairness of every task step and of the file writes. Stages
  of `stop()` end by their timeout; the apps and plugins a shutdown stops have
  container timeouts.
* *BackupManager*: the same for managers, thaw tasks and apps: their awaited
  calls return or raise. Requests need not arrive.
* *WebSocket*: weak fairness of every task that has begun, of the flushes, and
  of the end of the listener of a connection that is lost. A request to Home
  Assistant is answered or its connection ends; the code sets no timeout on an
  answer, so `MessagesEnd` rests on Home Assistant here.
* *HomeAssistantCore*, *App*: weak fairness of the steps of the operation under
  way and of each watch (their awaits end by timeouts), for apps also of the
  delivery of events. Nothing is assumed of users, crashes and restarts.
* *BackupCache*: weak fairness of calls and reloads under way (file operations
  end): one or the other call goes on, which is enough because there are finitely
  many; and of the full reload that the scheduler repeats (`misc/tasks.py:84`).

## 4. Proofs

Every invariant and every action property that a passing run checks is also a
theorem, for any number of jobs, tasks, apps, connections, versions, locations
and so on. `Follows`, for example, is `CacheFollowsDisk` for any set of backup
locations and any names of files in them. Each module `XProofs` extends `X` and is built the same way:

* an invariant `IInv`, a conjunction of named parts, of which the properties
  follow; TLC checked it on the instance of the run before it was proved;
* one lemma per action that says `IInv` survives it, above lemmas about what
  several actions have in common (a state that is being saved, a lock that
  passes on, a message that is sent);
* `Invariance` (`Spec => []IInv`) and a theorem for each property.

### Jobs: locks

`release()` works only when the releasing job is the owner, and mutual exclusion
is a statement about ancestors that no variable of the code records. What makes
both true is that the calls inside a group, read from `_parent_jobs` and
`_lock_owner`, form a chain in which each call runs and *is awaited by* the one
before it, so only the last can end. `IInv` says so:

* `TypeOK`;
* `TodoOwn`, `Awaited`: a body waits only for calls it made, and those of its
  methods that `awaits` and `gathers` name, so a body in a group has at most one
  running call in that group;
* `WaitersLock`: who waits in a queue is waiting for that lock, once;
* `LocksOK`: per group lock, `GroupOK` (the chain holds exactly the running
  calls that went through the lock, each awaited by its predecessor) and per
  decorator's lock `OwnOK` (at most one running call).

There is one lemma per action that touches a lock (`EnterLocks`, `WakeLocks`,
`FinishLocks`); all others leave the chains alone (`QuietLocks`). `GroupPush` and
`GroupPop` carry the two real cases. `LocksHeld` unfolds the invariant;
`Exclusion` shows by induction along the chain that an earlier call is an
ancestor of a later one (`ChainAncestors`); `Refinement` maps `Enter` and `Wake`
to the two ways into `GroupLock`'s stack, `Finish` to its way out, and everything
else to a stutter.

`Registry` (`RegistryExact`) needs `DoneWhenEnded`: a job that is done has ended,
and one that did not start is not done. With it `RemovedJobs` shows how little
`remove_job` takes along although it looks at the wrong `done` flag.

`CallersLetIn` (`NoWaitForCaller`) says that nobody waits for a lock that his own
caller holds, which would be a deadlock with oneself. `CallersOK` says that each
call was made by a method that makes such calls, and that an awaited call which
waits keeps its caller running. The innermost holder of the lock that is an
ancestor would then have to be the caller itself, whose calls are let in.

### Throttle

The limit is one about real time and the code only compares clock stamps in a
list it prunes now and then. `IInv` relates the two (`Stamps`): some number `c` of
the latest stamps are those of the latest `c` runs, and of all older runs the
period is over. Pruning drops from the front only (`RecentBuilt`,
`RecentSuffix`), so it keeps that; a list that is still full proves that the
period really holds as many runs. `Straight` says clock and elapsed time agree
until somebody sets the clock; `InOrder` that runs are noted in order; `Spaced` is
`Stamps` for throttles that keep one time instead of a list. `UpTo` is induction on an interval, derived from the least
counterexample; `Narrow` and `Wide` count runs in a period.

### CoreState

`ShutdownOnce` is not inductive: what keeps a second caller from the teardown is
the state, and the state is set by other tasks. `Roles` and `Beginning` say which
task may be where and that nobody stops before `start()`; `RunningStarted` that
RUNNING and SHUTDOWN come after its end; `ShutdownStays` that a shutdown in
progress keeps the state among the closing ones, because by then no task is left
that sets another. `Heads` looks through the await in which a state is saved.

### BackupManager

`IInv` has three layers. `Base` holds always: types, roles, the manager's lock
(`Locked`) and the locks of apps (`AppLocks`). `Calm` needs `Restores = {}`:
no two thaw tasks are active, none while a backup or a new freeze relies on the
frozen state (`Apart`), and the thaw event is set only while a thaw task will
clear it and somebody awaits that (`Answered`). `Undo` also needs
`~earlyTimeout`: what a freeze has begun or will begin some thaw task has still
to end. `Stuck` names the exception in all three, a system that closes.

Both hypotheses are needed. With a restore that waited for its conditions
through a freeze TLC finds `BackupStaysFrozen` violated (hazard at
`backups/manager.py:842`), and with a timeout that ends before `begin_backup` the
thaw task has gone before the app is frozen (section 5). They are the parameters
of the runs as well: `freeze_overlap` has no restores and an early timeout,
`freeze_undone` a restore and none. With a restore, `LeftFrozenOnlyByFailure` is checked and not proved.

### BackupCache

While calls are under way cache and disk differ, so the property says nothing
there. `Settled` says by how much. `Noted` is what the cache would note if all that
is under way were over: what it has now, without the locations that a remove is
about to forget (`Leaving`), and with the files that a create, an import or a copy
is about to enter (`Brought`). `Agreed` is the property with `Noted` for the cache.
`Holding` says what a call has at hand: a remove has the object of the cache, or one
that has nothing to forget; a copy has a complete file to be made from; and
where an import may still discard its file, the cache notes what else is there.
This holds while all that is under way is undisturbed (`Quiet`); `Together` says
that then only removes go on side by side, `Reading` that a reload alone saw the
disk as it was. Who was disturbed says so when it ends (`apart`), and stays
disturbed until then, so quiet times begin with `apart = Locations` or settled.
`OnlyComing`, `NothingComing` and `OnlyLeaving` say what `Noted` is in the three quiet
situations: a call on its own, no call, removes. `FreshIsFree` counts objects:
there is always one that no call refers to.

What the theorem says of a disk with several files at one location is what the code
achieves: the noted file is complete and the location is listed, until a remove
takes that file and leaves the other one (`apart`, the first reason in section 2).

### WebSocket

`NoOrphanCaller` needs `Answerable`: who waits does so on a connection that can
still fail. `OpenIsClient` needs that whoever connects holds the lock and nobody
is connected (`OneConnects`). For the queue, `Queued`, `Carried` and `Passed` say
that an owed message is at or behind the place of every flush or in its hand,
and `Unsent`, without overlapping or raising flushes, that what no flush has
passed is not sent.

### HomeAssistantCore

`RunsRecorded` and `ImagesKept` fail to be inductive in the middle of an update,
where instance, memory and disk have different versions. `Saved` and
`ContainerKnown` say where: `meta` is ahead of `version` between the pull and the
record only, there is no container (or one that slipped) then, and `version` is
saved once the container is being started. `JobOK` ties each place to its
operation and each waiting watch to the operation it started. `Truthful` is an
action property and follows from the step out of `verify`.

### App

`StateFollows` speaks of an idle app; what carries it through is that the last
event under way tells what the container is (`Seen`, `Followed`) and that who
waits for a start is told unless a down event is still to come (`Told`).
`WatchdogArmed` needs `Armed`: a manual stop of a running app is there only while
a stop is under way or a RUNNING event is still to come. `StaysStopped` needs
`StoppedForGood`: no operation is at a place from which it starts the app, no
watch is cleaning up. That an update or a rebuild is never on its way to a start then
rests on the state it read: with no event under way the state is that of the
container, and otherwise `ReadStale` has ended `userStopped`. `Held` and `StartsDown` describe the lock of the instance.

### Assumptions

The proofs rest on the assumptions the modules state for their constants, and
TLC evaluates all of them on the instances. Most are types of constants and
names that must differ (`JobsAssumption`, `TasksAssumption`, `BackupAssumption`,
`WebSocketAssumption`, `HomeAssistantAssumption`, `AppAssumption`,
`ThrottleAssumption`). These say more:

* `LockKindAssumption`: a lock belongs either to a group or to one decorator, as
  the code builds them.
* `GatherAssumption`: no group method gathers methods of its own group. The code
  keeps to that but does not enforce it: with two gathered calls in one group
  the second would find an owner that is neither itself nor its caller.
* `ReturnAssumption`: no call that left the methods of a lock comes back to
  them. Below `App.restart` the methods of the container are called and these
  call no methods of the app, `BackupManager.freeze_all` calls apps and these
  call no methods of the manager. Only `CallersLetIn` uses it; a code base
  without this rule could wait for itself.
* `CacheAssumption`: there are more `Backup` objects than calls that refer to
  one. Memory is not what this module is about.

### What is only model-checked

* Liveness: `CallsEnd`, `ShutdownReturns`, `StopStops`, `FreezeUndone`,
  `MessagesEnd`, `CoreRevived`, `AppRevived`, `CacheHeals`. The provers have no
  rules for fairness.
* The freezing invariants in systems with restores or with an early timeout,
  as far as they hold there.
* The two violated properties, of course.

## 5. What disagrees

The violated runs, listed under `findings` in `PROJECT.json` with the line they
contradict:

* `shutdown_once`: `finally` clauses that set RUNNING undo a shutdown in
  progress, and a second shutdown then tears everything down again.
* `backup_name`: a new backup under the file name of an existing one fails, and
  the handler of the failure deletes the existing file.

The models also have the following behaviour. No run of the project states it
as a property of its own; the modules, and the line of code, are given for each.

Jobs and the Core state:

* `remove_job` tests the `done` flag of the parent instead of the sub job's and
  so drops running sub jobs from the registry (`jobs/__init__.py:423`; `Removed`).
* A stop during startup that did not come from a signal (an update of the
  Supervisor by the API) ends `run_until_complete` and not the process, and the
  loop is run again with a stopped Supervisor (`__main__.py:113`; `LoopStop`).
* A rejecting group call waits in the lock's queue when it arrives between a
  release, which clears the owner, and the wake-up of the next waiter
  (`job_group.py:72`), where `JobConcurrency` says it fails (`Refused`, `Enqueue`).
* Group throttles are kept per decorator, not per group (`decorator.py:145`),
  and all throttles use `datetime.now()`: after the clock is set back, calls
  are refused without cause, hence the `~adjusted` of `RefusedForCause`.

Freezing:

* The system stays in FREEZE when asking for the running apps fails, because no
  thaw task exists yet (`backups/manager.py:985`; `QueryFailed`).
* Apps are left stopped when the timeout is shorter than `begin_backup`
  (`backups/manager.py:1029`; `earlyTimeout`).
* A restore whose conditions take long begins within a freeze and is thawed in
  the middle (`backups/manager.py:842`, `:879`; `RestoreCall`, `RestoreEnter`).
* `_thaw_all` calls `end_backup` also for apps whose `begin_backup` returned
  False or raised (`backups/manager.py:1029`), against the docstring of
  `begin_backup`. `SubStart` of a thaw task has no such guard either.
* A freeze that begins while the thaw task of the one before it waits in its
  last `set_state` loses its own `_thaw_task` (`backups/manager.py:1036`);
  `thaw_all` then refuses and only the timeout ends the freeze.

Websocket:

* A caller that closes its client awaits the close and then sets `self.client`
  to None, also if another caller has connected meanwhile: that connection stays
  open and unused (`websocket.py:325`, `:340`; mark `overtaken`).
* An unsuccessful answer, or a failed authentication, raises out of
  `_process_queue`: the rest of the queue, and what was sent of it, stays until
  the next RUNNING and is then sent from the start (`websocket.py:256`; mark
  `blurred`). Events sent meanwhile overtake queued ones.

Home Assistant Core:

* An update that begins in the error state has no version to go back to, and
  raises `HomeAssistantUpdateError` even when the new version works
  (`core.py:459`).
* A Docker error of `is_running` inside `start` is no `HomeAssistantError`: it
  leaves `update` without health check and rollback (`DockerFails`).
* After a failed start and rebuild the error state stays set, and the watchdog
  only watches (`core.py:707`), hence the `~errorState` of `CoreRevived`.
* A Core that is killed because it does not stop in time is seen as failed and
  started again by the watchdog (`StopContainer`).
* A stop that fails silently lets an update pass its health check on the old
  container (`docker/interface.py:639`; `slipped`).
* A `TimeoutError` of Docker's stop or delete is not suppressed there: it ends an
  update after the pull, with the version of the instance ahead of the one in
  memory and no rollback (`docker/manager.py:921`; `HaltTimesOut`).
* If such a container also makes `start` fail although Core then runs, `save_data`
  is skipped, the health check passes and the old image is cleaned up: until the
  next save the version on disk has no image (`core.py:389`, `:435`; hence the
  `slipped` of `ImagesKept`).

Apps:

* A RUNNING event still under way when a stop begins clears the manual stop
  afterwards, and the watchdog may start the stopped app (`app.py:1841`;
  `userStopped` excludes it).
* An update or a rebuild that begins before the event of a stop has come reads
  STARTED, and starts the app that the user has just stopped (`app.py:1087`,
  `:1128`; `ReadStale`, which `userStopped` excludes as well).
* A `TimeoutError` of a stop or a delete is no `AppsError`: the operation ends with a
  `JobException` and the state is not set to ERROR (`docker/manager.py:921`,
  `app.py:1365`; `HaltTimesOut`).
* A stop that fails leaves the manual stop set on a running app, whose watchdog
  is then off (`survived`). So it is for a running app with a health check that
  the Supervisor attaches to after a restart of the host: it is reported healthy
  or unhealthy, never running (`begun`).
* An app that is attached to while its health check has no result is reported
  unhealthy, and the watchdog restarts it (`CurrentState`).
* The retry loop of the watchdog looks for the state it was called with; its
  first attempt removes the container, so a failed first start usually ends it
  (`app.py:1798`). `AppRevived` therefore speaks of a system where nothing else fails.

Backup cache:

* A reload of one location never adopts a backup that the cache does not know.
* An import of a known backup under another file name puts a second file at a
  location. `consolidate` warns of it and notes the later one (`backup.py:301`); a
  remove unlinks that one, drops the entry, and the other file stays, complete
  and unlisted, until the next full reload (`manager.py:455`, `:357`;
  `RemoveFile`). No overlap, loss or failure is needed.
* An import of a known backup notes its copies on an object that is not in the
  cache; they are listed after the next full reload (`manager.py:507`).
* An import that fails over an existing file removes it while the cache keeps
  listing it (`manager.py:478`).
* A full reload that overlaps other calls replaces newer entries by what it
  listed before (`manager.py:316`); the next one heals that (`CacheHeals`).

## 6. Not modelled, and the plan

Proofs that are left: the freezing invariants of `BackupManager` for systems with
restores, restricted to restores that do not begin within a freeze; that
`BackupManager` implements `CoreState` as far as it does (it does not where
`shutdown_once` fails).

Modules that the code would bear, in this order:

1. `JobProgress`: synchronisation of a child job's progress with its parents
   (`register_child_sync`, `_on_job_change`), with monotonicity per attempt, and
   `PullProgress`, which feeds it.
2. `Mounts`, `Store`, `Resolution`: changes with rollback and validation.
3. `Ingress`, `Auth`, `Scheduler`, `Connectivity`, `Plugins`.

Of the modelled components, what is left out is named with each of them in
`PROJECT.json`: above all installing and uninstalling apps, the contents of
backups, installing Home Assistant from the landing page, and its repair.

Not planned: host, D-Bus, hardware and REST layers (proxies and parsing without
state of their own), configuration and schemas, and the panel
(`api/panel/`): the JavaScript there is the generated bundle of a frontend kept
in another repository, without state of the Supervisor. All modules here model
the Python of `src/supervisor`.
