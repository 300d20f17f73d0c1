---------------------------- MODULE BackupManager ----------------------------
(***************************************************************************)
(* The operations of BackupManager (backups/manager.py) that freeze the    *)
(* system, on top of CoreState: backups, restores, freeze_all, its thaw    *)
(* task and thaw_all, with App.begin_backup and App.end_backup of each app *)
(* (apps/app.py).  The public operations share the job group               *)
(* backup_manager and reject each other; module Jobs shows what that lock  *)
(* does, here it is one variable.  A call that is refused changes nothing  *)
(* and is no step.                                                         *)
(***************************************************************************)
EXTENDS CoreState

CONSTANTS
  Backups,      \* tasks calling do_backup_full or do_backup_partial
  Restores,     \* tasks calling do_restore_full or do_restore_partial
  Freezes,      \* calls of freeze_all
  Thaws,        \* thaw tasks, one for each call of freeze_all
  ThawCalls,    \* calls of thaw_all
  Apps,         \* installed apps
  cold,         \* apps with backup mode COLD
  NoTask,       \* None
  User,         \* holder of an app's lock that is neither freeze nor thaw
  failing,      \* which awaited calls may raise
  earlyTimeout, \* the thaw timeout may pass while freeze_all still runs
  userApps      \* apps that others start and stop meanwhile

Failures == {"checks", "query", "inform", "begin", "end"}
Managers == Backups \cup Restores \cup Freezes \cup ThawCalls

ASSUME BackupAssumption ==
  /\ Others = Managers \cup Thaws
  /\ Managers \cap Thaws = {} /\ (Backups \cup Restores) \cap (Freezes \cup ThawCalls) = {}
  /\ Backups \cap Restores = {} /\ Freezes \cap ThawCalls = {}
  /\ NoTask \notin Tasks /\ User \notin Tasks \cup {NoTask}
  /\ cold \subseteq Apps
  /\ failing \subseteq Failures
  /\ earlyTimeout \in BOOLEAN /\ userApps \subseteq Apps

VARIABLES
  lock,        \* JobGroup._lock_owner of backup_manager
  thawTask,    \* BackupManager._thaw_task
  thawEvent,   \* BackupManager._thaw_event is set
  app,         \* container of each app: running, stopped or frozen
  appLock,     \* job group of each app: who holds it
  sub          \* freeze or thaw -> app -> its gathered call

managerVars == <<lock, thawTask, thawEvent, app, appLock, sub>>
vars == <<coreVars, managerVars>>

SubStates == {"none", "todo", "acting", "ok", "not running", "raised"}

MInit ==
  /\ Init
  /\ lock = NoTask
  /\ thawTask = NoTask
  /\ thawEvent = FALSE
  /\ app \in [Apps -> {"running", "stopped"}]
  /\ appLock = [a \in Apps |-> NoTask]
  /\ sub = [x \in Freezes \cup Thaws |-> [a \in Apps |-> "none"]]

Acquire(o) == lock = NoTask /\ lock' = o
CoreUnsaved == <<runFile, shutdownEvent, watchdog, stopped>>
CoreKept == <<state, writes, after>>
ThawVars == <<thawTask, thawEvent>>
AppVars == <<app, appLock, sub>>

-----------------------------------------------------------------------------
(* do_backup_full, do_backup_partial, do_restore_full, do_restore_partial  *)

\* Mutant of BackupCall: the RUNNING condition is gone.
BackupCallAnyState(o) ==
  /\ o \in Backups
  /\ pc[o] = "idle"
  /\ Acquire(o)
  /\ Goto(o, "checks")
  /\ UNCHANGED <<CoreKept, CoreUnsaved, ThawVars, AppVars>>

\* RUNNING is the only condition of a backup: nothing is awaited before the lock.
BackupCall(o) ==
  /\ o \in Backups
  /\ pc[o] = "idle"
  /\ state = "running"
  /\ Acquire(o)
  /\ Goto(o, "checks")
  /\ UNCHANGED <<CoreKept, CoreUnsaved, ThawVars, AppVars>>

\* A restore looks at the state, then awaits free space and connectivity.
RestoreCall(o) ==
  /\ o \in Restores
  /\ pc[o] = "idle"
  /\ state = "running"
  /\ Goto(o, "conditions")
  /\ UNCHANGED <<CoreKept, CoreUnsaved, managerVars>>

RestoreEnter(o) ==
  /\ pc[o] = "conditions"
  /\ \/ Acquire(o) /\ Goto(o, "checks")
     \/ lock # NoTask /\ Goto(o, "idle") /\ UNCHANGED lock
  /\ UNCHANGED <<CoreKept, CoreUnsaved, ThawVars, AppVars>>

\* Location, free space and backup file are checked before the system freezes.
ChecksPassed(o) ==
  /\ pc[o] = "checks"
  /\ SetState(o, "freeze", "work")
  /\ UNCHANGED <<CoreUnsaved, managerVars>>

Release(o) ==
  /\ lock' = NoTask
  /\ Goto(o, IF o \in Backups \cup Restores THEN "idle" ELSE "done")
  /\ UNCHANGED <<CoreKept, CoreUnsaved, ThawVars, AppVars>>

ChecksFailed(o) ==
  /\ "checks" \in failing
  /\ pc[o] = "checks"
  /\ Release(o)

\* _do_backup or _do_restore has ended, well or not.
WorkDone(o) ==
  /\ pc[o] = "work"
  /\ SetState(o, "running", "leave")
  /\ UNCHANGED <<CoreUnsaved, managerVars>>

Leave(o) == pc[o] = "leave" /\ Release(o)

-----------------------------------------------------------------------------
(* freeze_all                                                              *)

FreezeCall(f) ==
  /\ f \in Freezes
  /\ pc[f] = "idle"
  /\ state = "running"
  /\ Acquire(f)
  /\ SetState(f, "freeze", "query")
  /\ UNCHANGED <<CoreUnsaved, ThawVars, AppVars>>

\* A COLD app is frozen by stopping it, the others by their pre command.
Running(a) == app[a] = "running" \/ (app[a] = "frozen" /\ a \notin cold)

\* The calls freeze f and its thaw task t will gather: one for each running app.
GatherRunning(f, t) ==
  LET calls == [a \in Apps |-> IF Running(a) THEN "todo" ELSE "none"]
  IN [sub EXCEPT ![f] = calls, ![t] = calls]

\* Mutant of QueryApps: Home Assistant is told first, the thaw task comes later.
QueryAppsNoThaw(f, t) ==
  /\ pc[f] = "query"
  /\ t \in Thaws /\ pc[t] = "idle"
  /\ sub' = GatherRunning(f, t)
  /\ Goto(f, "inform")
  /\ UNCHANGED <<CoreKept, CoreUnsaved, lock, thawTask, thawEvent, app, appLock>>

\* The running apps are found and the thaw task t is made for them.
QueryApps(f, t) ==
  /\ pc[f] = "query"
  /\ t \in Thaws /\ pc[t] = "idle"
  /\ sub' = GatherRunning(f, t)
  /\ thawTask' = t
  /\ pc' = [pc EXCEPT ![f] = "inform", ![t] = "thaw"]
  /\ UNCHANGED <<CoreKept, CoreUnsaved, lock, thawEvent, app, appLock>>

\* App.is_running raises when the container runtime does not answer.
QueryFailed(f) ==
  /\ "query" \in failing
  /\ pc[f] = "query"
  /\ Release(f)

\* The event loop runs a new task in its next pass, before any answer.
ThawTaskRuns == \A t \in Thaws : pc[t] # "thaw"

\* Home Assistant is told; then begin_backup of every running app is gathered.
Inform(f) ==
  /\ pc[f] = "inform"
  /\ ThawTaskRuns
  /\ Goto(f, "begin")
  /\ UNCHANGED <<CoreKept, CoreUnsaved, managerVars>>

InformFailed(f) ==
  /\ "inform" \in failing
  /\ pc[f] = "inform"
  /\ ThawTaskRuns
  /\ Release(f)

SetSub(x, a, r) == sub' = [sub EXCEPT ![x][a] = r]
LockApp(x, a) == appLock' = [appLock EXCEPT ![a] = x]

\* Mutant of FreeApp: end_backup or begin_backup keeps the app's lock.
FreeAppNever(a) == UNCHANGED appLock

FreeApp(a) == appLock' = [appLock EXCEPT ![a] = NoTask]

\* begin_backup and end_backup reject when another job of the app runs.
SubStart(x, a) ==
  /\ sub[x][a] = "todo"
  /\ pc[x] \in {"begin", "end"}
  /\ IF appLock[a] = NoTask
       THEN SetSub(x, a, "acting") /\ LockApp(x, a)
       ELSE SetSub(x, a, "raised") /\ UNCHANGED appLock
  /\ UNCHANGED <<coreVars, lock, ThawVars, app>>

BeginDone(f, a) ==
  /\ f \in Freezes
  /\ sub[f][a] = "acting"
  /\ \/ ~Running(a) /\ SetSub(f, a, "not running") /\ UNCHANGED app
     \/ Running(a) /\ SetSub(f, a, "ok") /\ app' = [app EXCEPT ![a] = "frozen"]
     \/ "begin" \in failing /\ SetSub(f, a, "raised") /\ UNCHANGED app
  /\ FreeApp(a)
  /\ UNCHANGED <<coreVars, lock, ThawVars>>

\* gather is over when every call is, or when one has raised.
Gathered(x) ==
  /\ \A a \in Apps : sub[x][a] # "todo"
  /\ \/ \A a \in Apps : sub[x][a] # "acting"
     \/ \E a \in Apps : sub[x][a] = "raised"

FreezeDone(f) ==
  /\ pc[f] = "begin"
  /\ Gathered(f)
  /\ Release(f)

-----------------------------------------------------------------------------
(* _thaw_all and thaw_all                                                  *)

\* The FROZEN condition of the thaw task; _thaw_task stays when it fails.
ThawStart(t) ==
  /\ pc[t] = "thaw"
  /\ Goto(t, IF state = "freeze" THEN "thaw wait" ELSE "done")
  /\ UNCHANGED <<CoreKept, CoreUnsaved, managerVars>>

FreezeInProgress == \E f \in Freezes : pc[f] \in {"saving", "query", "inform", "begin"}

\* Signal or timeout; Home Assistant is told, then the apps are ended.
ThawBegins(t) ==
  /\ pc[t] = "thaw wait"
  /\ thawEvent \/ earlyTimeout \/ ~FreezeInProgress
  /\ Goto(t, "end")
  /\ UNCHANGED <<CoreKept, CoreUnsaved, managerVars>>

\* Mutant of EndDone: an app that is to be started again is not.
EndDoneNoStart(t, a) ==
  /\ t \in Thaws
  /\ sub[t][a] = "acting"
  /\ SetSub(t, a, "ok")
  /\ FreeApp(a)
  /\ UNCHANGED <<coreVars, lock, ThawVars, app>>

\* end_backup starts a COLD app; the post command needs a running container.
EndDone(t, a) ==
  /\ t \in Thaws
  /\ sub[t][a] = "acting"
  /\ \/ /\ a \in cold \/ Running(a)
        /\ SetSub(t, a, "ok")
        /\ app' = [app EXCEPT ![a] = "running"]
     \/ /\ "end" \in failing \/ ~(a \in cold \/ Running(a))
        /\ SetSub(t, a, "raised")
        /\ UNCHANGED app
  /\ FreeApp(a)
  /\ UNCHANGED <<coreVars, lock, ThawVars>>

ThawFinally(t) ==
  /\ pc[t] = "end"
  /\ Gathered(t)
  /\ SetState(t, "running", "clear")
  /\ UNCHANGED <<CoreUnsaved, managerVars>>

\* Mutant of Clear: the event stays set.
ClearTaskOnly(t) ==
  /\ pc[t] = "clear"
  /\ thawTask' = NoTask
  /\ Goto(t, "done")
  /\ UNCHANGED <<CoreKept, CoreUnsaved, lock, thawEvent, AppVars>>

Clear(t) ==
  /\ pc[t] = "clear"
  /\ thawEvent' = FALSE
  /\ thawTask' = NoTask
  /\ Goto(t, "done")
  /\ UNCHANGED <<CoreKept, CoreUnsaved, lock, AppVars>>

\* thaw_all: FROZEN, the lock, and a freeze of the API to undo.
ThawCall(w) ==
  /\ w \in ThawCalls
  /\ pc[w] = "idle"
  /\ state = "freeze"
  /\ thawTask # NoTask
  /\ Acquire(w)
  /\ thawEvent' = TRUE
  /\ Goto(w, "await thaw")
  /\ UNCHANGED <<CoreKept, CoreUnsaved, thawTask, AppVars>>

\* The thaw task it awaits is the last one made: no other freeze can begin.
ThawAwaited(w) ==
  /\ pc[w] = "await thaw"
  /\ \A t \in Thaws : pc[t] \in {"idle", "done"}
  /\ Release(w)

-----------------------------------------------------------------------------
(* Apps are started and stopped by others                                  *)

UserStart(a) ==
  /\ a \in userApps
  /\ appLock[a] = NoTask
  /\ LockApp(User, a)
  /\ UNCHANGED <<coreVars, lock, ThawVars, app, sub>>

UserDone(a) ==
  /\ appLock[a] = User
  /\ \E s \in {"running", "stopped", app[a]} : app' = [app EXCEPT ![a] = s]
  /\ FreeApp(a)
  /\ UNCHANGED <<coreVars, lock, ThawVars, sub>>

-----------------------------------------------------------------------------

ManagerStep(o) ==
  \/ RestoreEnter(o) \/ ChecksPassed(o) \/ ChecksFailed(o) \/ WorkDone(o) \/ Leave(o)
  \/ \E t \in Thaws : QueryApps(o, t)
  \/ QueryFailed(o) \/ Inform(o) \/ InformFailed(o) \/ FreezeDone(o)
  \/ ThawAwaited(o)

ThawStep(t) == ThawStart(t) \/ ThawBegins(t) \/ ThawFinally(t) \/ Clear(t)

AppStep(a) == \E x \in Freezes \cup Thaws : SubStart(x, a) \/ BeginDone(x, a) \/ EndDone(x, a)

ManagerNext ==
  /\ ~stopped
  /\ \/ \E o \in Managers : BackupCall(o) \/ RestoreCall(o) \/ FreezeCall(o) \/ ThawCall(o)
                              \/ ManagerStep(o)
     \/ \E t \in Thaws : ThawStep(t)
     \/ \E a \in Apps : AppStep(a) \/ UserStart(a) \/ UserDone(a)

MNext == (CoreNext /\ UNCHANGED managerVars) \/ ManagerNext

MSpec == MInit /\ [][MNext]_vars

(* Tasks run and awaited calls return or raise; the thaw timeout passes.   *)
(* No API call has to arrive.                                              *)
MFairness ==
  /\ WF_vars(CoreNext /\ UNCHANGED managerVars)
  /\ \A o \in Managers : WF_vars(~stopped /\ ManagerStep(o))
  /\ \A t \in Thaws : WF_vars(~stopped /\ ThawStep(t))
  /\ \A a \in Apps : WF_vars(~stopped /\ AppStep(a)) /\ WF_vars(~stopped /\ UserDone(a))

MFairSpec == MSpec /\ MFairness

-----------------------------------------------------------------------------
(* Properties                                                              *)

ManagerPlaces == {"idle", "done", "saving", "conditions", "checks", "work", "leave", "query",
                  "inform", "begin", "thaw", "thaw wait", "end", "clear", "await thaw"}

MTypeOK ==
  /\ CoreTypeOK
  /\ \A o \in Others : pc[o] \in ManagerPlaces
  /\ lock \in Managers \cup {NoTask}
  /\ thawTask \in Thaws \cup {NoTask}
  /\ thawEvent \in BOOLEAN
  /\ app \in [Apps -> {"running", "stopped", "frozen"}]
  /\ appLock \in [Apps -> Freezes \cup Thaws \cup {User, NoTask}]
  /\ sub \in [Freezes \cup Thaws -> [Apps -> SubStates]]
  /\ \A x \in Freezes \cup Thaws, a \in Apps : appLock[a] = x <=> sub[x][a] = "acting"

(* A backup is made of a frozen system (BackupManager._do_backup): nothing *)
(* sets it RUNNING again while the backup is written, neither an older     *)
(* thaw task nor another operation.                                        *)
BackupStaysFrozen ==
  \A o \in Backups : pc[o] = "work" => state = "freeze" \/ state \in ClosingStates

(* A signal given with thaw_all ends the freeze it was given for and never *)
(* a later one (BackupManager._thaw_event): a thaw task finds the event    *)
(* set only while a call of thaw_all awaits it.                            *)
SignalIsFresh ==
  \A t \in Thaws : pc[t] \in {"thaw", "thaw wait"} /\ thawEvent =>
    \E w \in ThawCalls : pc[w] = "await thaw"

(* Who is left frozen when the system runs again and all calls are over is *)
(* an app whose end_backup failed, nobody else (BackupManager._thaw_all).  *)
LeftFrozenOnlyByFailure ==
  ( /\ \A o \in Others : pc[o] \in {"idle", "done"}
    /\ state = "running"
    /\ \A a \in Apps : appLock[a] = NoTask ) =>
  \A a \in Apps : app[a] = "frozen" => \E t \in Thaws : sub[t][a] = "raised"

(* "Create thaw task first to ensure we eventually undo freezes even if    *)
(* the below fails" (BackupManager.freeze_all): the system does not stay   *)
(* frozen.                                                                 *)
FreezeUndone == (state = "freeze") ~> (state # "freeze" \/ stopped)

=============================================================================
