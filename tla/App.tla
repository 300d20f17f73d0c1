--------------------------------- MODULE App ---------------------------------
(***************************************************************************)
(* An app (apps/app.py): the state kept from the events of its container,  *)
(* start, stop, restart, update and rebuild, and the watchdog.  Operations *)
(* hold the app's job group; inside, calls of DockerInterface hold its own *)
(* one (busy).  Both reject, and the watchdog also uses the latter alone.  *)
(* Events of Docker arrive in order, any time later.  A rejected call of   *)
(* the user is no step.                                                    *)
(***************************************************************************)
EXTENDS Naturals, Sequences, Functions

CONSTANTS
  Watchers,     \* calls of the watchdog that its rate limit lets through
  MaxAttempts,  \* WATCHDOG_MAX_ATTEMPTS
  MaxEvents,    \* bound of events under way
  MaxFaults,    \* bound of crashes and failing calls
  MaxOps,       \* bound of operations of the user
  User          \* owner of a job that is no watcher's

ASSUME AppAssumption ==
  /\ User \notin Watchers
  /\ {MaxAttempts, MaxEvents} \subseteq Nat \ {0}
  /\ {MaxFaults, MaxOps} \subseteq Nat

VARIABLES
  healthcheck,   \* instance.healthcheck
  container,     \* Docker's state of the container
  events,        \* events of Docker under way
  state,         \* App._state
  manualStop,    \* App._manual_stop
  startupEvent,  \* App._startup_event is set
  busy,          \* the job group of the instance is held
  job,           \* the operation that holds the job group of the app
  watch,         \* the calls of _restart_after_problem
  faults,
  ops,
  userStopped,   \* a stop of the user removed the container, with no start to be
                 \* reported; until the user has it started, or an operation that
                 \* read the state before the event of that stop came
  unseen,        \* a failure after the last event that Docker sent
  survived,      \* a running container survived a stop
  begun          \* the container was started by this run of the Supervisor

docker == <<container, events>>
app == <<state, startupEvent>>
ghosts == <<userStopped, unseen, survived, begun>>
budget == <<faults, ops>>
vars == <<healthcheck, docker, app, manualStop, busy, job, watch, budget, ghosts>>

Up == {"running", "starting", "healthy", "unhealthy"}
Down == {"stopped", "failed"}

NoJob == [op |-> "none", pc |-> "none", up |-> FALSE, owner |-> User, clean |-> FALSE]
Unused == [pc |-> "unused", seen |-> "failed", attempts |-> 0]

\* current_state: a health check that has no result yet counts as unhealthy.
CurrentState == IF container = "starting" THEN "unhealthy" ELSE container

\* _derive_state
DeriveState(seen) ==
  CASE seen = "running" -> IF healthcheck THEN "startup" ELSE "started"
    [] seen \in {"healthy", "unhealthy"} -> "started"
    [] seen = "failed" -> "error"
    [] OTHER -> "stopped"

\* _update_state
UpdateState(new) ==
  /\ state' = new
  /\ startupEvent' = \/ startupEvent
                     \/ new # state /\ (new = "started" \/ state = "startup")

OperationError == UpdateState("error") /\ unseen' = TRUE

\* Attached to what there is, its state reported as an event.
Attached == IF container = "missing" THEN <<>> ELSE <<CurrentState>>

Init ==
  /\ healthcheck \in BOOLEAN
  /\ container \in {"missing"} \cup Down \cup
       (IF healthcheck THEN {"starting", "healthy", "unhealthy"} ELSE {"running"})
  /\ events = Attached
  /\ state = DeriveState(CurrentState)
  /\ startupEvent = (state = "started")
  /\ manualStop \in BOOLEAN
  /\ busy = FALSE
  /\ job = NoJob
  /\ watch = [w \in Watchers |-> Unused]
  /\ faults = 0 /\ ops = 0
  /\ userStopped = FALSE /\ unseen = FALSE /\ survived = FALSE /\ begun = FALSE

Fault == faults < MaxFaults /\ faults' = faults + 1
NoFault == UNCHANGED faults
At(pc) == job.pc = pc
Goto(pc) == job' = [job EXCEPT !.pc = pc] /\ UNCHANGED watch

\* Docker changes the container and tells.
Becomes(s, event) ==
  /\ Len(events) < MaxEvents
  /\ container' = s
  /\ events' = Append(events, event)
  /\ unseen' = FALSE

-----------------------------------------------------------------------------
(* How an operation ends, for itself and for the watchdog                  *)

Done == [Unused EXCEPT !.pc = "done"]

\* A failed attempt of _restart_after_problem.
Failed(w) == IF w.attempts + 1 >= MaxAttempts
               THEN Done
               ELSE [w EXCEPT !.attempts = @ + 1, !.pc = "poll"]

\* error is an AppsError; a port conflict, a DockerError and success end it.
End(result) ==
  /\ job' = NoJob
  /\ watch' = IF job.owner = User
                THEN watch
                ELSE [watch EXCEPT ![job.owner] =
                        IF result = "error" THEN Failed(@) ELSE Done]

\* start, alone or at the end of another operation
BeginStart(j) == job' = [j EXCEPT !.pc = "query"]

\* How stop goes on in the operation that called it.
StopEnds(result) ==
  CASE job.op = "restart" -> BeginStart(job) /\ UNCHANGED watch
    [] job.op = "update" /\ result = "ok" -> Goto("refresh")
    [] OTHER -> End(result)

\* stop up to its first await.
BeginStop(j) ==
  /\ manualStop' = TRUE
  /\ busy' = TRUE
  /\ job' = [j EXCEPT !.pc = "halt", !.clean = "running" \notin Range(events)]

-----------------------------------------------------------------------------
(* Operations of the user, up to their first await                         *)

UserCall == job = NoJob /\ ops < MaxOps /\ ops' = ops + 1

Job(op) == [NoJob EXCEPT !.op = op]

Start ==
  /\ UserCall
  /\ BeginStart(Job("start"))
  /\ userStopped' = FALSE
  /\ UNCHANGED <<healthcheck, docker, app, manualStop, busy, watch, faults, unseen, survived, begun>>

\* The instance may be held by the watchdog; stop and restart see its rejection.
Stop ==
  /\ UserCall
  /\ \/ /\ ~busy
        /\ BeginStop(Job("stop"))
        /\ UNCHANGED <<app, unseen>>
     \/ /\ busy
        /\ manualStop' = TRUE
        /\ OperationError
        /\ UNCHANGED <<busy, job>>
  /\ UNCHANGED <<healthcheck, docker, watch, faults, userStopped, survived, begun>>

Restart ==
  /\ UserCall
  /\ userStopped' = FALSE
  /\ \/ /\ ~busy
        /\ BeginStop(Job("restart"))
        /\ UNCHANGED <<app, unseen>>
     \/ /\ busy
        /\ manualStop' = TRUE
        /\ OperationError
        /\ BeginStart(Job("restart"))
        /\ UNCHANGED busy
  /\ UNCHANGED <<healthcheck, docker, watch, faults, survived, begun>>

\* instance.update; while it is held the update is over at once.
Update ==
  /\ UserCall
  /\ ~busy
  /\ busy' = TRUE
  /\ job' = [Job("update") EXCEPT !.pc = "pull"]
  /\ UNCHANGED <<healthcheck, docker, app, manualStop, watch, faults, ghosts>>

WasUp == state \in {"started", "startup"}

\* update and rebuild read the state that events under way will change.
ReadStale == WasUp /\ events # <<>>

\* rebuild notes the state first and starts the app again in any case.
Rebuild ==
  /\ UserCall
  /\ userStopped' = (userStopped /\ ~ReadStale)
  /\ \/ /\ ~busy
        /\ busy' = TRUE
        /\ job' = [Job("rebuild") EXCEPT !.pc = "halt", !.up = WasUp]
     \/ /\ busy /\ WasUp
        /\ BeginStart([Job("rebuild") EXCEPT !.up = TRUE])
        /\ UNCHANGED busy
  /\ UNCHANGED <<healthcheck, docker, app, manualStop, watch, faults, unseen, survived, begun>>

-----------------------------------------------------------------------------
(* The steps of the operations                                             *)

\* instance.remove of rebuild suppresses what stop raises.
HaltEnds(result) ==
  IF job.op = "rebuild" THEN Goto("image") /\ UNCHANGED busy
                        ELSE StopEnds(result) /\ busy' = FALSE

\* A TimeoutError of stop or delete is neither suppressed nor an AppsError: a
\* JobException that ends every operation, though rebuild starts the app first.
HaltTimesOut ==
  /\ Fault
  /\ busy' = FALSE
  /\ IF job.op = "rebuild" /\ job.up
       THEN BeginStart(job) /\ UNCHANGED watch
       ELSE End("abort")

\* stop_container looks at the container and stops it; of the calls that
\* change something Docker's errors are suppressed.
Halt ==
  /\ At("halt")
  /\ \/ /\ container \in Up
        /\ \E s \in Down : Becomes(s, s)
        /\ Goto("remove") /\ NoFault
        /\ UNCHANGED <<app, busy, survived>>
     \/ /\ container \notin Up
        /\ Goto("remove") /\ NoFault
        /\ UNCHANGED <<docker, app, busy, unseen, survived>>
     \/ /\ container \in Up
        /\ Goto("remove") /\ Fault
        /\ UNCHANGED <<docker, app, busy, unseen, survived>>
     \/ /\ Fault
        /\ HaltEnds("error")
        /\ IF job.op = "rebuild"
             THEN UNCHANGED <<app, unseen>>
             ELSE OperationError
        /\ survived' = (survived \/ container \in Up)
        /\ UNCHANGED docker
     \/ /\ container \in Up
        /\ HaltTimesOut
        /\ \/ (\E s \in Down : Becomes(s, s)) /\ UNCHANGED survived
           \/ survived' = TRUE /\ UNCHANGED <<docker, unseen>>
        /\ UNCHANGED app
  /\ UNCHANGED <<healthcheck, manualStop, ops, userStopped, begun>>

Deleted ==
  IF container \in Up
    THEN Becomes("missing", "failed")
    ELSE container' = "missing" /\ UNCHANGED <<events, unseen>>

\* delete with force, which kills what still runs.
Remove ==
  /\ At("remove")
  /\ \/ Deleted /\ HaltEnds("ok") /\ NoFault
     \/ Fault /\ HaltEnds("ok") /\ UNCHANGED <<docker, unseen>>
     \/ HaltTimesOut /\ (Deleted \/ UNCHANGED <<docker, unseen>>)
  /\ survived' = (survived \/ container' \in Up)
  /\ userStopped' = \/ userStopped
                    \/ job.op = "stop" /\ job.clean /\ container' = "missing"
  /\ UNCHANGED <<healthcheck, app, manualStop, ops, begun>>

\* start asks whether the app runs; if this fails it is no AppsError.
Query ==
  /\ At("query")
  /\ \/ container \in Up /\ End("ok") /\ NoFault
     \/ container \notin Up /\ Goto("prepare") /\ NoFault
     \/ End("abort") /\ Fault
  /\ UNCHANGED <<healthcheck, docker, app, manualStop, busy, ops, ghosts>>

\* The files of the app, then instance.run, which may be rejected.
Prepare ==
  /\ At("prepare")
  /\ \/ /\ ~busy
        /\ startupEvent' = FALSE
        /\ busy' = TRUE
        /\ Goto("run") /\ NoFault
        /\ UNCHANGED <<state, unseen>>
     \/ /\ busy
        /\ state' = "error" /\ startupEvent' = (state = "startup")
        /\ unseen' = TRUE
        /\ End("error") /\ NoFault
        /\ UNCHANGED busy
     \/ /\ End("error") /\ Fault
        /\ UNCHANGED <<app, busy, unseen>>
  /\ UNCHANGED <<healthcheck, docker, manualStop, ops, userStopped, survived, begun>>

\* A new container for what is left of the old one.  (A JobException of the stop
\* before it ends the start as a port conflict does.)
Run ==
  /\ At("run")
  /\ \/ /\ Becomes(IF healthcheck THEN "starting" ELSE "running", "running")
        /\ Goto("reply") /\ NoFault
        /\ survived' = FALSE /\ begun' = TRUE
        /\ UNCHANGED <<app, busy>>
     \/ /\ Fault
        /\ container' \in {container, "missing"} \cup Down
        /\ \E r \in {"error", "conflict"} :
             /\ End(r)
             /\ IF r = "error" THEN UpdateState("error") ELSE UNCHANGED app
        /\ unseen' = TRUE
        /\ busy' = FALSE
        /\ UNCHANGED <<events, survived, begun>>
  /\ UNCHANGED <<healthcheck, manualStop, ops, userStopped>>

\* Mutant of Reply: the startup event is cleared after the start.
ReplyClears ==
  /\ At("reply")
  /\ busy' = FALSE
  /\ startupEvent' = FALSE
  /\ End("ok")
  /\ UNCHANGED <<healthcheck, docker, state, manualStop, budget, ghosts>>

\* What comes after the start of the container may still fail.
Reply ==
  /\ At("reply")
  /\ busy' = FALSE
  /\ \/ /\ End("ok") /\ NoFault
        /\ UNCHANGED <<app, unseen>>
     \/ /\ End("error") /\ Fault
        /\ OperationError
  /\ UNCHANGED <<healthcheck, docker, manualStop, ops, userStopped, survived, begun>>

\* Mutant of Pull: the app is started again in any case.
PullAndStart ==
  /\ At("pull")
  /\ BeginStop([job EXCEPT !.up = TRUE])
  /\ UNCHANGED <<healthcheck, docker, app, watch, faults, ops, ghosts>>

\* The pull of update.  The state is read after it.
Pull ==
  /\ At("pull")
  /\ \/ /\ WasUp
        /\ BeginStop([job EXCEPT !.up = TRUE]) /\ NoFault
        /\ userStopped' = (userStopped /\ ~ReadStale)
        /\ UNCHANGED watch
     \/ /\ ~WasUp
        /\ Goto("refresh") /\ NoFault
        /\ busy' = FALSE
        /\ UNCHANGED <<manualStop, userStopped>>
     \/ /\ End("error") /\ Fault
        /\ busy' = FALSE
        /\ UNCHANGED <<manualStop, userStopped>>
  /\ UNCHANGED <<healthcheck, docker, app, ops, unseen, survived, begun>>

\* Data, ports and cleanup of update; it starts the app whether they fail or not.
Refresh ==
  /\ At("refresh")
  /\ IF job.up THEN BeginStart(job) /\ UNCHANGED watch ELSE End("ok")
  /\ UNCHANGED <<healthcheck, docker, app, manualStop, busy, budget, ghosts>>

\* The new image of rebuild, after which it starts the app, and the failure of
\* that image, after which it does so too.
Image ==
  /\ At("image")
  /\ busy' = FALSE
  /\ IF job.up THEN BeginStart(job) /\ UNCHANGED watch ELSE End("ok")
  /\ UNCHANGED <<healthcheck, docker, app, manualStop, budget, ghosts>>

-----------------------------------------------------------------------------
(* Docker's events                                                         *)

\* The calls that the rate limit still lets through; which one does not matter.
UnusedWatch == {w \in Watchers : watch[w].pc = "unused"}

\* Mutant of ManualStopAfter: a healthy app ends it, a running one does not.
ManualStopAfterHealth(seen) == manualStop /\ seen # "healthy"

ManualStopAfter(seen) == manualStop /\ seen # "running"

\* container_state_changed, then watchdog_container.
Deliver ==
  /\ events # <<>>
  /\ LET seen == Head(events) IN
       /\ events' = Tail(events)
       /\ manualStop' = ManualStopAfter(seen)
       /\ UpdateState(DeriveState(seen))
       /\ IF ~manualStop' /\ seen \in Down \cup {"unhealthy"} /\ UnusedWatch # {}
            THEN LET w == CHOOSE w \in UnusedWatch : TRUE IN
                   watch' = [watch EXCEPT ![w].pc = "poll", ![w].seen = seen]
            ELSE UNCHANGED watch
  /\ UNCHANGED <<healthcheck, container, busy, job, budget, ghosts>>

\* The app ends or is killed.
Crash ==
  /\ container \in Up
  /\ Fault
  /\ \E s \in Down : Becomes(s, s)
  /\ UNCHANGED <<healthcheck, app, manualStop, busy, job, watch, ops, userStopped, survived, begun>>

\* The health check gives another result.
Health ==
  /\ healthcheck /\ container \in Up
  /\ \/ container # "healthy" /\ Becomes("healthy", "healthy") /\ NoFault
     \/ container # "unhealthy" /\ Becomes("unhealthy", "unhealthy") /\ Fault
  /\ UNCHANGED <<healthcheck, app, manualStop, busy, job, watch, ops, userStopped, survived, begun>>

-----------------------------------------------------------------------------
(* The watchdog: _restart_after_problem                                    *)

\* Its call of start or restart, rejected while another operation runs.
Call(op, w) == [Job(op) EXCEPT !.owner = w]

WatchStart(w) ==
  IF job = NoJob
    THEN BeginStart(Call("start", w)) /\ watch' = [watch EXCEPT ![w].pc = "wait"]
    ELSE UNCHANGED job /\ watch' = [watch EXCEPT ![w] = Failed(@)]

WatchRestart(w) ==
  IF job = NoJob
    THEN BeginStop(Call("restart", w)) /\ watch' = [watch EXCEPT ![w].pc = "wait"]
    ELSE /\ watch' = [watch EXCEPT ![w] = Failed(@)]
         /\ UNCHANGED <<manualStop, busy, job>>

\* A look at the container, and what follows if the problem is still there.
\* While the instance is held it sleeps and looks again.
WatchPoll(w) ==
  /\ watch[w].pc = "poll"
  /\ \/ /\ CurrentState # watch[w].seen
        /\ watch' = [watch EXCEPT ![w] = Done]
        /\ UNCHANGED <<manualStop, busy, job>>
     \/ /\ CurrentState = watch[w].seen /\ ~busy
        /\ watch[w].seen = "failed" /\ watch[w].attempts = 0
        /\ busy' = TRUE
        /\ watch' = [watch EXCEPT ![w].pc = "clean"]
        /\ UNCHANGED <<manualStop, job>>
     \/ /\ CurrentState = watch[w].seen /\ ~busy
        /\ watch[w].seen = "failed" /\ watch[w].attempts > 0
        /\ WatchStart(w)
        /\ UNCHANGED <<manualStop, busy>>
     \/ /\ CurrentState = watch[w].seen /\ ~busy
        /\ watch[w].seen # "failed"
        /\ WatchRestart(w)
  /\ UNCHANGED <<healthcheck, docker, app, budget, ghosts>>

\* The look fails: no AppsError, the watch is over.
WatchFails(w) ==
  /\ watch[w].pc = "poll"
  /\ Fault
  /\ watch' = [watch EXCEPT ![w] = Done]
  /\ UNCHANGED <<healthcheck, docker, app, manualStop, busy, job, ops, ghosts>>

\* Mutant of WatchClean: the watch starts the app before it lets go of the
\* instance.
WatchCleanHeld(w) ==
  /\ watch[w].pc = "clean"
  /\ container' = "missing"
  /\ WatchStart(w)
  /\ UNCHANGED <<healthcheck, events, app, manualStop, busy, budget, ghosts>>

\* Mutant of WatchClean: the watch looks again before the first start.
WatchCleanOnly(w) ==
  /\ watch[w].pc = "clean"
  /\ container' = "missing"
  /\ busy' = FALSE
  /\ watch' = [watch EXCEPT ![w].pc = "poll"]
  /\ UNCHANGED <<healthcheck, events, app, manualStop, job, budget, ghosts>>

\* The failed container is removed, if that works, before the first start; a
\* timeout is no DockerError and ends the watch.
WatchClean(w) ==
  /\ watch[w].pc = "clean"
  /\ \/ container' = "missing" /\ NoFault /\ WatchStart(w)
     \/ UNCHANGED container /\ Fault /\ WatchStart(w)
     \/ /\ container' \in {container, "missing"} /\ Fault
        /\ watch' = [watch EXCEPT ![w] = Done] /\ UNCHANGED job
  /\ busy' = FALSE
  /\ UNCHANGED <<healthcheck, events, app, manualStop, ops, ghosts>>

-----------------------------------------------------------------------------

\* The Supervisor restarts: load.  manualStop says whether the host did too.
Load ==
  /\ Fault
  /\ events' = Attached
  /\ state' = DeriveState(CurrentState)
  /\ startupEvent' = (state' = "started")
  /\ manualStop' \in BOOLEAN
  /\ busy' = FALSE
  /\ job' = NoJob
  /\ watch' = [w \in Watchers |-> Unused]
  /\ unseen' = FALSE /\ survived' = FALSE /\ begun' = FALSE
  /\ UNCHANGED <<healthcheck, container, ops, userStopped>>

JobStep ==
  \/ Halt \/ Remove \/ Query \/ Prepare \/ Run \/ Reply
  \/ Pull \/ Refresh \/ Image

WatchStep(w) == WatchPoll(w) \/ WatchFails(w) \/ WatchClean(w)

Next ==
  \/ Start \/ Stop \/ Restart \/ Update \/ Rebuild
  \/ JobStep
  \/ \E w \in Watchers : WatchStep(w)
  \/ Deliver \/ Crash \/ Health
  \/ Load

Spec == Init /\ [][Next]_vars

LiveSpec ==
  /\ Spec
  /\ WF_vars(JobStep) /\ WF_vars(Deliver)
  /\ \A w \in Watchers : WF_vars(WatchStep(w))

-----------------------------------------------------------------------------
(* Properties                                                              *)

(* Types, and the two locks: the operation that runs a container or the    *)
(* watch that cleans up holds the instance, one of them at a time.         *)
AppTypeOK ==
  /\ container \in {"missing"} \cup Down \cup Up
  /\ state \in {"stopped", "error", "startup", "started"}
  /\ {manualStop, startupEvent, busy} \subseteq BOOLEAN
  /\ \A w \in Watchers : watch[w].attempts < MaxAttempts
  /\ \A w \in Watchers : watch[w].pc = "wait" <=> job.owner = w
  /\ busy <=> \/ job.pc \in {"halt", "remove", "run", "reply", "pull", "image"}
              \/ \E w \in Watchers : watch[w].pc = "clean"

(* An app that a stop of the user removed is not started again behind the *)
(* user's back, neither by a watch that began before, nor by a late event, *)
(* nor by an update or rebuild that knows.  Two exceptions, as the code    *)
(* has them: a start still to be reported when the stop began, whose late  *)
(* RUNNING ends the manual stop (clean); and an update or rebuild that     *)
(* reads STARTED before the event of the stop has come (ReadStale).        *)
StaysStopped == userStopped => container \notin Up

Quiet == events = <<>> /\ job = NoJob /\ ~busy

(* With no operation and no event under way the state of the app is that   *)
(* of its container, and who waits for a started app has been told, unless *)
(* the last thing seen was a failure.  (Removal is no event, and a health  *)
(* check without result is "startup" only if the start was seen.)          *)
StateFollows ==
  Quiet /\ ~unseen =>
    /\ state \in CASE container = "missing" -> {"stopped", "error"}
                   [] container = "starting" -> {"startup", "started"}
                   [] OTHER -> {DeriveState(container)}
    /\ state = "started" => startupEvent

(* The watchdog looks after an app that the Supervisor started, whatever   *)
(* operations stopped it before: only a stop that left it running, or a    *)
(* stop under way, leaves the watchdog off.                                *)
WatchdogArmed == Quiet /\ container \in Up /\ begun /\ ~survived => ~manualStop

(* A watch that finds its app down, with no operation in the way, brings   *)
(* it up if nothing else fails.                                            *)
AppRevived ==
  (/\ \E w \in Watchers : watch[w].pc = "poll" /\ watch[w].seen = container
   /\ container \in Down
   /\ job = NoJob /\ ~busy
   /\ faults = MaxFaults /\ ops = MaxOps)
    ~> container \in Up

=============================================================================
