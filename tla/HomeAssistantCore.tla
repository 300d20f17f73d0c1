-------------------------- MODULE HomeAssistantCore --------------------------
(***************************************************************************)
(* Home Assistant Core as the Supervisor runs it (homeassistant/core.py):  *)
(* start, stop, restart, rebuild and update with rollback, one at a time   *)
(* (GROUP_REJECT; a rejected call of the user is no step), and the         *)
(* watchdog, whose calls are rejected in the same way.  The container is   *)
(* Docker's: it may crash at any time, a stop may fail silently, and the   *)
(* Supervisor itself may be restarted between any two steps.               *)
(***************************************************************************)
EXTENDS Integers, FiniteSets

CONSTANTS
  Versions,
  Watchers,     \* watchdog tasks that may run at once
  MaxAttempts,  \* WATCHDOG_MAX_ATTEMPTS
  MaxFaults,    \* bound of crashes and failing calls of Docker
  MaxOps,       \* bound of the operations of the user
  OverrideImage,  \* the user chose the image, which load() then does not check
  Nothing       \* no version, no owner

ASSUME HomeAssistantAssumption ==
  /\ Nothing \notin Versions \cup Watchers
  /\ MaxAttempts \in Nat \ {0}
  /\ MaxFaults \in Nat
  /\ MaxOps \in Nat
  /\ OverrideImage \in BOOLEAN

VARIABLES
  container,   \* state (missing, stopped, failed, up, unhealthy) and version
  images,      \* versions whose image is present
  meta,        \* instance.version
  version,     \* sys_homeassistant.version
  saved,       \* the version on disk
  errorState,  \* HomeAssistantCore._error_state
  job,         \* the operation that holds the job group
  watch,       \* the watchdog tasks
  faults,
  ops,
  last,        \* how the last operation ended
  answered,    \* version of the Core last seen RUNNING by _block_till_run, or
               \* found in order by the health check of update
  slipped      \* a container survived a stop that was to remove it, until that
               \* is done and the version is saved

docker == <<container, images>>
state == <<meta, version, saved, errorState>>
ghosts == <<last, answered, slipped>>
vars == <<docker, state, job, watch, faults, ops, ghosts>>

NoJob == [op |-> "none", pc |-> "none", to |-> Nothing, rollback |-> Nothing,
          was |-> FALSE, back |-> FALSE, owner |-> Nothing]
NoWatch == [pc |-> "idle", seen |-> "failed", attempts |-> 0]
Gone == [state |-> "missing", version |-> Nothing]

Running == container.state \in {"up", "unhealthy"}

Init ==
  \E v \in Versions :
    /\ container \in {Gone} \cup
         {[state |-> s, version |-> v] : s \in {"stopped", "failed", "up"}}
    /\ images = {v}
    /\ meta = v /\ version = v /\ saved = v
    /\ errorState = FALSE
    /\ job = NoJob
    /\ watch = [w \in Watchers |-> NoWatch]
    /\ faults = 0 /\ ops = 0
    /\ last = "none" /\ answered = Nothing /\ slipped = FALSE

Fault == faults < MaxFaults /\ faults' = faults + 1
NoFault == UNCHANGED faults
At(pc) == job.pc = pc
Unsaved == slipped /\ saved # version
Goto(pc) == job' = [job EXCEPT !.pc = pc] /\ UNCHANGED <<watch, last>>

-----------------------------------------------------------------------------
(* How an operation ends, for itself and for the watchdog                  *)

\* Mutant of Failed: attempts are counted but not limited.
FailedNoLimit(w) == [w EXCEPT !.attempts = @ + 1, !.pc = "poll"]

\* _restart_after_problem counts a failed attempt.
Failed(w) == IF w.attempts + 1 >= MaxAttempts
               THEN NoWatch
               ELSE [w EXCEPT !.attempts = @ + 1, !.pc = "poll"]

\* ok and DockerAPIError (abort) end the watch, HomeAssistantError does not.
Told(w, result) ==
  CASE result # "error"                     -> NoWatch
    [] result = "error" /\ job.op = "start" -> [w EXCEPT !.pc = "again"]
    [] OTHER                                -> Failed(w)

End(result) ==
  /\ job' = NoJob
  /\ last' = result
  /\ watch' = IF job.owner = Nothing
                THEN watch
                ELSE [watch EXCEPT ![job.owner] = Told(@, result)]

Job(op, pc, owner) == [NoJob EXCEPT !.op = op, !.pc = pc, !.owner = owner]

UserCall(j) ==
  /\ job = NoJob
  /\ ops < MaxOps
  /\ ops' = ops + 1
  /\ job' = j
  /\ UNCHANGED <<docker, state, watch, faults, ghosts>>

Start == UserCall(Job("start", "ready", Nothing))
Rebuild == UserCall(Job("rebuild", "halt", Nothing))
Restart == UserCall(Job("restart", "restart", Nothing))
Stop == \E pc \in {"stop", "remove"} : UserCall(Job("stop", pc, Nothing))

\* The version to go back to is noted only if the current one works.
Update(to) ==
  /\ to # meta \/ meta \notin images
  /\ UserCall([Job("update", "query", Nothing) EXCEPT
                !.to = to, !.rollback = IF errorState THEN Nothing ELSE version])

\* watchdog_container: an event of a failed or unhealthy Core starts a watch.
Notify(seen) ==
  \E w \in Watchers :
    /\ watch[w] = NoWatch
    /\ watch' = [watch EXCEPT ![w] = [NoWatch EXCEPT !.pc = "poll", !.seen = seen]]

-----------------------------------------------------------------------------
(* The steps of the operations                                             *)

\* update asks whether Core runs before anything else; backups are elsewhere.
Query ==
  /\ At("query")
  /\ answered' = Nothing
  /\ \/ /\ job' = [job EXCEPT !.was = Running, !.pc = "pull"]
        /\ UNCHANGED <<watch, last>> /\ NoFault
     \/ End("abort") /\ Fault
  /\ UNCHANGED <<docker, state, ops, slipped>>

\* _install_image, the pull of instance.update.  The old container runs on.
Pull ==
  /\ At("pull")
  /\ \/ /\ images' = images \cup {job.to}
        /\ meta' = job.to
        /\ Goto("halt") /\ NoFault
     \/ End("error") /\ Fault /\ UNCHANGED <<images, meta>>
  /\ UNCHANGED <<container, version, saved, errorState, ops, answered, slipped>>

\* cleanup_old_images: Docker keeps an image that a container uses.
Cleaned == {v \in images : v \in {meta, container.version}}

AfterHalt == IF job.op = "update" THEN "record" ELSE "ready"

\* Mutant of Halt: old images are cleaned up with the old container.
HaltAndCleanup ==
  /\ At("halt")
  /\ container' = Gone
  /\ images' = {meta}
  /\ Goto(AfterHalt)
  /\ UNCHANGED <<state, faults, ops, answered, slipped>>

\* Mutant of Halt: update leaves the old container running.
HaltNothing ==
  /\ At("halt")
  /\ Goto(AfterHalt)
  /\ UNCHANGED <<docker, state, faults, ops, answered, slipped>>

\* What a stop may leave that fails, with delete or without.
Halfway(delete) ==
  {container} \cup (IF Running THEN {[container EXCEPT !.state = "stopped"]} ELSE {})
              \cup (IF delete THEN {Gone} ELSE {})

\* A TimeoutError of Docker's stop or delete is no DockerError: a JobException
\* that nobody suppresses ends the operation, update with the version still old.
HaltTimesOut(delete) ==
  /\ container.state # "missing"
  /\ container' \in Halfway(delete)
  /\ slipped' = IF container' = Gone THEN Unsaved ELSE slipped
  /\ End("abort") /\ Fault

\* instance.stop with its errors suppressed: here and in Docker's manager.
Halt ==
  /\ At("halt")
  /\ \/ /\ container' = Gone
        /\ slipped' = Unsaved
        /\ Goto(AfterHalt) /\ NoFault
     \/ /\ container.state # "missing"
        /\ container' \in Halfway(FALSE)
        /\ slipped' = TRUE
        /\ Goto(AfterHalt) /\ Fault
     \/ /\ Running
        /\ container' = [container EXCEPT !.state = "failed"]
        /\ slipped' = TRUE
        /\ Notify("failed")
        /\ job' = [job EXCEPT !.pc = AfterHalt] /\ UNCHANGED last
        /\ Fault
     \/ HaltTimesOut(TRUE)
  /\ UNCHANGED <<images, state, ops, answered>>

\* _start_update up to start; without start it only saves.
Record ==
  /\ At("record")
  /\ version' = meta
  /\ IF job.was
       THEN Goto("ready") /\ UNCHANGED saved
       ELSE End("ok") /\ saved' = meta
  /\ UNCHANGED <<docker, meta, errorState, faults, ops, answered, slipped>>

\* How start, restart and rebuild end, or go on in update.
Started(result) ==
  CASE job.op # "update" -> End(result) /\ UNCHANGED saved
    [] job.op = "update" /\ result = "ok" ->
         /\ saved' = version
         /\ IF job.back THEN End("ok") ELSE Goto("verify")
    [] job.op = "update" /\ result = "error" ->
         /\ UNCHANGED saved
         /\ IF job.back THEN End("error") ELSE Goto("verify")
    [] OTHER -> End(result) /\ UNCHANGED saved

\* start looks at the container: it runs, it can be started, or a new one is made.
Ready ==
  /\ At("ready")
  /\ \/ /\ Running
        /\ Started("ok")
     \/ /\ container.state \in {"stopped", "failed"} /\ container.version = version
        /\ version \in images
        /\ Goto("begin") /\ UNCHANGED saved
     \/ /\ ~Running /\ ~(container.version = version /\ version \in images)
        /\ saved' = version
        /\ Goto("run")
  /\ NoFault
  /\ UNCHANGED <<docker, meta, version, errorState, ops, answered, slipped>>

\* instance.start of the container that is there; after a timeout it may run.
Begin ==
  /\ At("begin")
  /\ \/ /\ container' = [container EXCEPT !.state = "up"]
        /\ Goto("block") /\ NoFault /\ UNCHANGED saved
     \/ /\ container' \in {container, [container EXCEPT !.state = "up"]}
        /\ Fault /\ Started("error")
  /\ UNCHANGED <<images, meta, version, errorState, ops, answered, slipped>>

\* instance.run: what is left of the old container goes first, or times out.  It
\* may fail after the start of the new one, when it asks for that one's metadata.
Run ==
  /\ At("run")
  /\ \/ /\ version \in images
        /\ container' = [state |-> "up", version |-> version]
        /\ meta' = version
        /\ slipped' = FALSE
        /\ Goto("block") /\ NoFault /\ UNCHANGED saved
     \/ /\ Fault
        /\ container' \in {container, Gone}
             \cup {[state |-> s, version |-> version] : s \in {"stopped", "failed"}}
        /\ Started("error")
        /\ UNCHANGED <<meta, slipped>>
     \/ /\ Fault
        /\ container.state # "missing" /\ container' \in {container, Gone}
        /\ Started("abort")
        /\ UNCHANGED <<meta, slipped>>
     \/ /\ version \in images
        /\ container' = [state |-> "up", version |-> version]
        /\ slipped' = FALSE
        /\ Fault /\ Started("error")
        /\ UNCHANGED meta
  /\ UNCHANGED <<images, version, errorState, ops, answered>>

\* instance.restart; a missing container is an error, a timeout is no DockerError.
RestartContainer ==
  /\ At("restart")
  /\ \/ /\ container.state # "missing"
        /\ container' = [container EXCEPT !.state = "up"]
        /\ Goto("block") /\ NoFault /\ UNCHANGED saved
     \/ /\ container.state = "missing"
        /\ Started("error") /\ NoFault
        /\ UNCHANGED container
     \/ /\ Fault
        /\ \E r \in {"error", "abort"} : Started(r)
        /\ container' \in {container} \cup
             {[container EXCEPT !.state = s] : s \in
                IF container.state = "missing" THEN {} ELSE {"stopped", "up"}}
  /\ UNCHANGED <<images, meta, version, errorState, ops, answered, slipped>>

\* _block_till_run: RUNNING, crashed or timed out.
Block ==
  /\ At("block")
  /\ \/ /\ Running
        /\ errorState' = FALSE
        /\ answered' = container.version
        /\ Started("ok") /\ NoFault
     \/ /\ IF Running THEN Fault ELSE NoFault
        /\ errorState' = TRUE
        /\ Started("error")
        /\ UNCHANGED answered
  /\ UNCHANGED <<docker, meta, version, ops, slipped>>

\* DockerAPIError from is_running: no HomeAssistantError, nobody catches it.
DockerFails ==
  /\ job.pc \in {"ready", "block"}
  /\ Fault
  /\ Started("abort")
  /\ UNCHANGED <<docker, meta, version, errorState, ops, answered, slipped>>

\* Mutant of Verify: a failed start is not looked at.
VerifyAnyway ==
  /\ At("verify")
  /\ job.rollback # Nothing
  /\ images' \in {images, Cleaned}
  /\ End("ok")
  /\ UNCHANGED <<container, errorState, meta, version, saved, faults, ops, answered, slipped>>

\* The health check of update, the cleanup of old images, or the way back.
Verify ==
  /\ At("verify")
  /\ \/ /\ ~errorState /\ job.rollback # Nothing /\ Running
        /\ images' \in {images, Cleaned}
        /\ answered' = container.version
        /\ End("ok") /\ NoFault
        /\ UNCHANGED errorState
     \/ /\ job.rollback # Nothing
        /\ errorState' = TRUE
        /\ IF errorState \/ ~Running THEN NoFault ELSE Fault
        /\ job' = [job EXCEPT !.pc = "pull", !.to = job.rollback, !.back = TRUE]
        /\ UNCHANGED <<images, watch, last, answered>>
     \/ /\ job.rollback = Nothing
        /\ End("error") /\ NoFault
        /\ UNCHANGED <<images, errorState, answered>>
  /\ UNCHANGED <<container, meta, version, saved, ops, slipped>>

\* stop: Core exits, is killed and seen as failed, or is removed; Docker's
\* manager suppresses errors of both.
StopContainer ==
  /\ job.pc \in {"stop", "remove"}
  /\ \/ /\ container' = CASE At("remove")          -> Gone
                        [] At("stop") /\ Running -> [container EXCEPT !.state = "stopped"]
                        [] OTHER                 -> container
        /\ slipped' = IF container'.state = "missing" THEN Unsaved ELSE slipped
        /\ End("ok") /\ NoFault
     \/ /\ At("stop") /\ Running
        /\ container' = [container EXCEPT !.state = "failed"]
        /\ Notify("failed")
        /\ job' = NoJob /\ last' = "ok"
        /\ Fault /\ UNCHANGED slipped
     \/ /\ container.state # "missing"
        /\ \E r \in {"ok", "error"} : End(r)
        /\ slipped' = (slipped \/ At("remove"))
        /\ Fault /\ UNCHANGED container
     \/ HaltTimesOut(At("remove"))
     \/ /\ At("remove") /\ Running
        /\ container' = [container EXCEPT !.state = "stopped"]
        /\ End("ok")
        /\ slipped' = TRUE
        /\ Fault
  /\ UNCHANGED <<images, state, ops, answered>>

-----------------------------------------------------------------------------
(* Events and watchdog                                                     *)

\* Core crashes or hangs; the event of its container starts a watch.
Crash ==
  /\ Running
  /\ Fault
  /\ \E s \in {"failed", "unhealthy"} :
       container.state # s /\ container' = [container EXCEPT !.state = s] /\ Notify(s)
  /\ UNCHANGED <<images, state, job, ops, ghosts>>

Recover ==
  /\ container.state = "unhealthy"
  /\ container' = [container EXCEPT !.state = "up"]
  /\ UNCHANGED <<images, state, job, watch, faults, ops, ghosts>>

\* Mutant of WatchFree: the test of the error state is turned round.
WatchFreeInError == job = NoJob /\ errorState

\* "Don't interrupt a task in progress or if rollback is handling it"
WatchFree == job = NoJob /\ ~errorState

\* A watch looks at the container: solved, not now, or time to act.
WatchPoll(w) ==
  /\ watch[w].pc = "poll"
  /\ \/ /\ container.state # watch[w].seen
        /\ watch' = [watch EXCEPT ![w] = NoWatch]
        /\ UNCHANGED job
     \/ /\ container.state = watch[w].seen
        /\ WatchFree
        /\ watch' = [watch EXCEPT ![w].pc = "wait"]
        /\ job' = CASE watch[w].seen = "unhealthy" -> Job("restart", "restart", w)
                    [] watch[w].seen = "failed" /\ watch[w].attempts = 0 ->
                         Job("start", "ready", w)
                    [] OTHER -> Job("rebuild", "halt", w)
  /\ UNCHANGED <<docker, state, faults, ops, ghosts>>

\* The look itself fails: no HomeAssistantError, the watch is over.
WatchFails(w) ==
  /\ watch[w].pc = "poll"
  /\ Fault
  /\ watch' = [watch EXCEPT ![w] = NoWatch]
  /\ UNCHANGED <<docker, state, job, ops, ghosts>>

\* After a failed start the watch rebuilds at once, unless another came first.
WatchAgain(w) ==
  /\ watch[w].pc = "again"
  /\ IF job = NoJob
       THEN /\ job' = Job("rebuild", "halt", w)
            /\ watch' = [watch EXCEPT ![w].pc = "wait"]
       ELSE watch' = [watch EXCEPT ![w] = Failed(@)] /\ UNCHANGED job
  /\ UNCHANGED <<docker, state, faults, ops, ghosts>>

\* The Supervisor restarts; load attaches to what is there.  (Without the image of
\* the version on disk, see ImagesKept, or if Docker fails, it turns to the landing
\* page; the image of a running container counts as good if the user chose it.)
Reload ==
  /\ Fault
  /\ saved \in images \/ (OverrideImage /\ container.state # "missing")
  /\ meta' = IF container.state = "missing" THEN saved ELSE container.version
  /\ version' = meta'
  /\ saved' = meta'
  /\ errorState' = FALSE
  /\ job' = NoJob
  /\ last' = "none"
  /\ slipped' = FALSE
  /\ IF container.state = "unhealthy"
       THEN \E w \in Watchers : watch' = [[x \in Watchers |-> NoWatch] EXCEPT
                                ![w].pc = "poll", ![w].seen = "unhealthy"]
       ELSE watch' = [w \in Watchers |-> NoWatch]
  /\ UNCHANGED <<docker, ops, answered>>

JobStep ==
  \/ Query \/ Pull \/ Halt \/ Record \/ Ready \/ Begin \/ Run
  \/ RestartContainer \/ Block \/ DockerFails \/ Verify \/ StopContainer

Watch(w) == WatchPoll(w) \/ WatchFails(w) \/ WatchAgain(w)

Next ==
  \/ Start \/ Rebuild \/ Restart \/ Stop
  \/ \E to \in Versions : Update(to)
  \/ JobStep
  \/ \E w \in Watchers : Watch(w)
  \/ Crash \/ Recover
  \/ Reload

Spec == Init /\ [][Next]_vars
LiveSpec == Spec /\ WF_vars(JobStep) /\ \A w \in Watchers : WF_vars(Watch(w))

-----------------------------------------------------------------------------
(* Properties                                                              *)

(* Types; and a watch waits for an operation exactly while it owns it.     *)
HTypeOK ==
  /\ container.state \in {"missing", "stopped", "failed", "up", "unhealthy"}
  /\ container.version \in Versions \cup {Nothing}
  /\ images \subseteq Versions
  /\ {meta, version, saved} \subseteq Versions
  /\ errorState \in BOOLEAN
  /\ job.op \in {"none", "start", "stop", "restart", "rebuild", "update"}
  /\ \A w \in Watchers : watch[w].attempts < MaxAttempts
  /\ \A w \in Watchers : watch[w].pc = "wait" <=> job.owner = w

(* The images of the version in use and of the one on disk are there,      *)
(* whatever fails or restarts in an update, its rollback or its cleanup:   *)
(* without them load() falls back to the landing page and start() fails.   *)
(* (Not of the one on disk after Docker kept a container: update may then  *)
(* pass its health check without having saved, and clean up.)              *)
ImagesKept == version \in images /\ (saved \in images \/ slipped)

(* A running Core has the version the Supervisor knows, in an update too:  *)
(* until the old container is gone the old one, from then on the new one.  *)
(* Unless Docker kept a container that was to be removed (update and       *)
(* rebuild suppress errors of stop).                                       *)
RunsRecorded == Running /\ ~slipped => container.version = version

(* An update of a running Core ends without an error only if the version   *)
(* it leaves behind, new or rolled back, has answered: a start that fails  *)
(* is left to the health check, and a check that fails to the rollback.    *)
(* (Not so if Docker kept the old container when it was to be removed:     *)
(* slipped.  start() then finds it running and asks for no answer.)        *)
UpdateTruthful ==
  [][job.op = "update" /\ job.was /\ job'.op = "none" /\ last' = "ok" =>
       answered' = version' \/ slipped']_vars

(* A Core found crashed by the watchdog, with no operation in the way and  *)
(* no rollback to decide on it, runs again and answers, if nothing else    *)
(* fails (_restart_after_problem).                                         *)
CoreRevived ==
  \A w \in Watchers :
    (/\ watch[w].pc = "poll" /\ watch[w].seen = "failed" /\ container.state = "failed"
     /\ job = NoJob /\ ~errorState
     /\ faults = MaxFaults /\ ops = MaxOps)
      ~> Running /\ ~errorState

=============================================================================
