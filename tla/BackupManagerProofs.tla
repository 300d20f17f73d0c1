------------------------- MODULE BackupManagerProofs -------------------------
(***************************************************************************)
(* Proofs about BackupManager: types and the locks of the apps, a backup   *)
(* of a frozen system, signals that are fresh and who is left frozen, for  *)
(* any number of backups, freezes, thaws and apps.  All but the types are  *)
(* proved of a system without restores: a restore that waited through a    *)
(* freeze breaks them, as TLC shows.                                       *)
(***************************************************************************)
EXTENDS BackupManager, TLAPS

-----------------------------------------------------------------------------
(* The inductive invariant                                                 *)

StartOver == Place(startTask) = "done"

Frozen == {"freeze"} \cup ClosingStates

\* The places of the tasks of the managers.
BackupPlaces == {"idle", "checks", "work", "leave"}
FreezePlaces == {"idle", "query", "inform", "begin", "done"}
ThawPlaces == {"idle", "thaw", "thaw wait", "end", "clear", "done"}

CorePlaces == {"saving"} \cup StartPlaces \cup SignalPlaces

AllPlaces == CorePlaces \cup ManagerPlaces

DataTypes ==
  /\ state \in CoreStates
  /\ runFile \in CoreStates
  /\ writes \subseteq [by : Tasks, value : CoreStates]
  /\ pc \in [Tasks -> AllPlaces] /\ after \in [Tasks -> AllPlaces \ {"saving"}]
  /\ shutdownEvent \in BOOLEAN /\ watchdog \in BOOLEAN /\ stopped \in BOOLEAN
  /\ lock \in Managers \cup {NoTask}
  /\ thawTask \in Thaws \cup {NoTask}
  /\ thawEvent \in BOOLEAN
  /\ app \in [Apps -> {"running", "stopped", "frozen"}]
  /\ appLock \in [Apps -> Freezes \cup Thaws \cup {User, NoTask}]
  /\ sub \in [Freezes \cup Thaws -> [Apps -> SubStates]]

Allowed(t, place) ==
  /\ t = startTask => place \in StartPlaces
  /\ t \in Reboots => place \in RebootPlaces
  /\ t \in Signals => place \in SignalPlaces
  /\ t \in Backups => place \in BackupPlaces
  /\ t \in Restores => place \in BackupPlaces \cup {"conditions"}
  /\ t \in Freezes => place \in FreezePlaces
  /\ t \in ThawCalls => place \in {"idle", "await thaw", "done"}
  /\ t \in Thaws => place \in ThawPlaces

Roles == \A t \in Tasks : Allowed(t, Place(t))

\* RUNNING is reached through the end of start() first, and only then do
\* operations begin.
Started ==
  state \in {"running", "freeze", "shutdown"} \/ (\E o \in Others : Place(o) # "idle") =>
    StartOver

\* Who is inside an operation holds the job group.
Holding == {"checks", "work", "leave", "query", "inform", "begin", "await thaw"}

Locked == \A o \in Managers : lock = o <=> Place(o) \in Holding

\* A call on an app is running exactly while it holds the lock of the app, and
\* there are none before the apps are queried.
AppLocks ==
  /\ \A x \in Freezes \cup Thaws, a \in Apps : appLock[a] = x <=> sub[x][a] = "acting"
  /\ \A f \in Freezes, a \in Apps : Place(f) \in {"idle", "query"} => sub[f][a] = "none"
  /\ \A t \in Thaws, a \in Apps : Place(t) = "idle" => sub[t][a] = "none"

\* thaw_all sets no state.
Saveless == \A w \in ThawCalls : pc[w] # "saving"

Base == DataTypes /\ Roles /\ Started /\ Locked /\ AppLocks /\ Saveless

\* A thaw task that will set the system RUNNING.
Active(t) == Place(t) \in {"thaw", "thaw wait", "end"}

\* A freeze or a backup that no thaw task of an older freeze may disturb.
Alone == \/ \E f \in Freezes : Place(f) = "query"
         \/ \E o \in Backups : Place(o) \in {"checks", "work", "leave"}

Apart ==
  /\ \A t, u \in Thaws : Active(t) /\ Active(u) => t = u
  /\ \A t \in Thaws : Active(t) => state \in Frozen /\ ~Alone
  /\ \A f \in Freezes : Place(f) = "query" => state \in Frozen
  /\ \A o \in Backups : Place(o) = "work" => state \in Frozen

\* The system closes and no task is left that would set it RUNNING.
Stuck ==
  StartOver /\ state \in ClosingStates /\ ~Alone /\ \A t \in Thaws : ~Active(t)

\* The event is set for a thaw task that will clear it, and meanwhile there is
\* a call that awaits this.
Answered ==
  /\ thawTask # NoTask => Active(thawTask) \/ Place(thawTask) = "clear" \/ Stuck
  /\ thawEvent => Stuck \/ \E t \in Thaws : Active(t) \/ Place(t) = "clear"
  /\ thawEvent => Stuck \/ \E w \in ThawCalls : Place(w) = "await thaw"

\* What a freeze has begun, or will begin, a thaw task is still to end.
Undo ==
  /\ \A f \in Freezes, a \in Apps :
       Place(f) \in {"inform", "begin"} /\ sub[f][a] = "todo" =>
         \E t \in Thaws : Place(t) \in {"thaw", "thaw wait", "done"} /\ sub[t][a] = "todo"
  /\ \A f \in Freezes, a \in Apps :
       sub[f][a] = "acting" => \E t \in Thaws : sub[t][a] \in {"todo", "raised"}
  /\ \A a \in Apps :
       app[a] = "frozen" => \E t \in Thaws : sub[t][a] \in {"todo", "acting", "raised"}
  /\ \A t \in Thaws, a \in Apps :
       Place(t) \in {"clear", "done"} /\ sub[t][a] = "todo" => Stuck

Calm == Apart /\ Answered

IInv ==
  /\ Base
  /\ Restores = {} => Calm
  /\ Restores = {} /\ ~earlyTimeout => Undo

-----------------------------------------------------------------------------
(* set_state                                                               *)

\* Task t is at a place or on its way there, and nobody else has moved.
Moved(t, place) ==
  /\ pc' \in [Tasks -> AllPlaces] /\ after' \in [Tasks -> AllPlaces \ {"saving"}]
  /\ Place(t)' = place
  /\ \A u \in Tasks \ {t} : pc'[u] = pc[u] /\ after'[u] = after[u]

LEMMA GotoMoves ==
  ASSUME DataTypes, NEW t \in Tasks, NEW place \in AllPlaces \ {"saving"},
         Goto(t, place), UNCHANGED after
  PROVE  Moved(t, place)
BY DEF DataTypes, Goto, Moved, Place

LEMMA SetStateMoves ==
  ASSUME DataTypes, NEW t \in Tasks, NEW s \in CoreStates,
         NEW place \in AllPlaces \ {"saving"}, SetState(t, s, place)
  PROVE  /\ Moved(t, place)
         /\ state' = s
         /\ writes' \subseteq [by : Tasks, value : CoreStates]
<1>1. CASE state = s
  BY <1>1, GotoMoves DEF SetState, DataTypes
<1>2. CASE state # s
  <2>1. [by |-> t, value |-> s] \in [by : Tasks, value : CoreStates]
    OBVIOUS
  <2>2. /\ writes' = writes \cup {[by |-> t, value |-> s]}
        /\ pc' = [pc EXCEPT ![t] = "saving"]
        /\ after' = [after EXCEPT ![t] = place]
        /\ state' = s
    BY <1>2 DEF SetState, Goto
  <2>3. Moved(t, place)
    BY <2>2 DEF Moved, DataTypes, Place, AllPlaces, CorePlaces, StartPlaces, RebootPlaces,
       SignalPlaces
  <2> QED
    BY <2>1, <2>2, <2>3 DEF DataTypes
<1> QED
  BY <1>1, <1>2

(* All places are known.                                                   *)
LEMMA PlacesKnown ==
  /\ StartPlaces \cup RebootPlaces \cup SignalPlaces \subseteq AllPlaces \ {"saving"}
  /\ BackupPlaces \cup FreezePlaces \cup ThawPlaces \subseteq AllPlaces \ {"saving"}
  /\ {"conditions", "await thaw"} \subseteq AllPlaces \ {"saving"}
BY DEF StartPlaces, RebootPlaces, SignalPlaces, BackupPlaces, FreezePlaces, ThawPlaces,
   AllPlaces, CorePlaces, StartPlaces, RebootPlaces, SignalPlaces, ManagerPlaces

LEMMA KindsApart ==
  ASSUME TasksAssumption, BackupAssumption
  PROVE  /\ startTask \in Tasks \ Others
         /\ Reboots \cup Signals \subseteq Tasks \ Others
         /\ startTask \notin Reboots \cup Signals /\ Reboots \cap Signals = {}
         /\ Backups \cup Restores \cup Freezes \cup ThawCalls \cup Thaws = Others
         /\ Others \subseteq Tasks
BY DEF TasksAssumption, BackupAssumption, Tasks, Managers

(* A task that moves to a place of its kind leaves every task at one.      *)
LEMMA MovedRoles ==
  ASSUME DataTypes, Roles, NEW t \in Tasks, NEW place, Moved(t, place), Allowed(t, place)
  PROVE  Roles' /\ \A u \in Tasks \ {t} : Place(u)' = Place(u)
<1>1. ASSUME NEW u \in Tasks \ {t}
      PROVE  Place(u)' = Place(u)
  BY DEF Moved, Place
<1>2. Place(t)' = place
  BY DEF Moved
<1>3. ASSUME NEW u \in Tasks
      PROVE  Allowed(u, Place(u))'
  <2>1. CASE u = t
    BY <1>2, <2>1 DEF Allowed
  <2>2. CASE u # t
    <3>1. Allowed(u, Place(u)) /\ Place(u)' = Place(u)
      BY <1>1, <2>2 DEF Roles
    <3> QED
      BY <3>1 DEF Allowed
  <2> QED
    BY <2>1, <2>2
<1> QED
  BY <1>1, <1>3 DEF Roles

-----------------------------------------------------------------------------
(* A step of CoreState                                                     *)

\* What a task of the life cycle does to the others: it moves none of them, and
\* once start() is over it only changes to a closing state.
CoreMove ==
  /\ \A o \in Others : Place(o)' = Place(o) /\ pc'[o] \in {pc[o], Place(o)}
  /\ StartOver => StartOver' /\ (state' = state \/ state' \in ClosingStates)
  /\ state' \in {"running", "freeze", "shutdown"} => StartOver'

CoreTypes ==
  /\ state' \in CoreStates /\ runFile' \in CoreStates
  /\ writes' \subseteq [by : Tasks, value : CoreStates]
  /\ shutdownEvent' \in BOOLEAN /\ watchdog' \in BOOLEAN /\ stopped' \in BOOLEAN

StateChange(t, place) ==
  \/ state' = state
  \/ state' \in {"stopping", "close"}
  \/ state' = "shutdown" /\ state \in {"running", "freeze"}
  \/ state' \in {"setup", "startup"} /\ ~StartOver
  \/ state' = "running" /\ ~StartOver /\ t = startTask /\ place = "done"

LEMMA TaskMove ==
  ASSUME TasksAssumption, BackupAssumption, Base, UNCHANGED managerVars, CoreTypes,
         NEW t \in Tasks \ Others, NEW place, Moved(t, place), Allowed(t, place),
         StateChange(t, place), t = startTask /\ StartOver => place = "done"
  PROVE  DataTypes' /\ Roles' /\ CoreMove
<1>1. Roles' /\ \A u \in Tasks \ {t} : Place(u)' = Place(u)
  BY MovedRoles DEF Base
<1>2. DataTypes'
  BY DEF Base, DataTypes, Moved, CoreTypes, managerVars
<1>3. \A o \in Others : Place(o)' = Place(o) /\ pc'[o] \in {pc[o], Place(o)}
  BY <1>1, KindsApart DEF Moved
<1>4. StartOver => StartOver'
  BY <1>1, KindsApart DEF StartOver, Moved
<1>5. state' \in {"running", "freeze", "shutdown"} => StartOver'
  BY <1>4 DEF StateChange, Base, Started, StartOver, Moved
<1>6. StartOver => state' = state \/ state' \in ClosingStates
  BY DEF StateChange, ClosingStates
<1> QED
  BY <1>1, <1>2, <1>3, <1>4, <1>5, <1>6 DEF CoreMove

(* Where nobody moves but from saving to its place.                        *)
LEMMA NoMove ==
  ASSUME Base, UNCHANGED managerVars, CoreTypes, state' = state,
         pc' \in [Tasks -> AllPlaces], after' = after,
         \A t \in Tasks : Place(t)' = Place(t) /\ pc'[t] \in {pc[t], Place(t)},
         startTask \in Tasks, Others \subseteq Tasks
  PROVE  DataTypes' /\ Roles' /\ CoreMove
<1>1. DataTypes'
  BY DEF Base, DataTypes, CoreTypes, managerVars
<1>2. Roles'
  <2> SUFFICES ASSUME NEW t \in Tasks
               PROVE  Allowed(t, Place(t))'
    BY DEF Roles
  <2> QED
    BY DEF Base, Roles, Allowed
<1>3. CoreMove
  BY DEF CoreMove, Base, Started, StartOver
<1> QED
  BY <1>1, <1>2, <1>3

\* What is common to all of them.
Stage == TasksAssumption /\ BackupAssumption /\ Base /\ UNCHANGED managerVars

LEMMA Goes ==
  ASSUME Stage, NEW t \in Tasks \ Others,
         NEW place \in StartPlaces \cup SignalPlaces, Goto(t, place), Allowed(t, place),
         UNCHANGED <<state, runFile, writes, after>>,
         shutdownEvent' \in BOOLEAN, watchdog' \in BOOLEAN, stopped' \in BOOLEAN,
         t = startTask /\ StartOver => place = "done"
  PROVE  DataTypes' /\ Roles' /\ CoreMove
<1>1. Moved(t, place)
  BY GotoMoves, PlacesKnown DEF Stage, Base
<1>2. CoreTypes /\ StateChange(t, place)
  BY DEF Stage, Base, DataTypes, CoreTypes, StateChange
<1> QED
  BY <1>1, <1>2, TaskMove DEF Stage

LEMMA Sets ==
  ASSUME Stage, NEW t \in Tasks \ Others, NEW s \in CoreStates,
         NEW place \in StartPlaces \cup SignalPlaces, SetState(t, s, place), Allowed(t, place),
         UNCHANGED Unsaved,
         \/ s \in {"stopping", "close"}
         \/ s = "shutdown" /\ state \in {"running", "freeze"}
         \/ s \in {"setup", "startup"} /\ ~StartOver
         \/ s = "running" /\ ~StartOver /\ t = startTask /\ place = "done",
         t = startTask /\ StartOver => place = "done"
  PROVE  DataTypes' /\ Roles' /\ CoreMove
<1>1. Moved(t, place) /\ state' = s /\ writes' \subseteq [by : Tasks, value : CoreStates]
  BY SetStateMoves, PlacesKnown DEF Stage, Base
<1>2. CoreTypes /\ StateChange(t, place)
  BY <1>1 DEF Stage, Base, DataTypes, CoreTypes, StateChange, Unsaved
<1> QED
  BY <1>1, <1>2, TaskMove DEF Stage

(* Who can be at a place.                                                  *)
LEMMA Who ==
  ASSUME Stage, NEW t \in Tasks
  PROVE  /\ Place(t) \in {"shutdown", "await event", "teardown"} => t \in Reboots \cup Signals
         /\ Place(t) \in {"stop", "last boot", "stages", "loop stop"} => t \in Signals
<1>1. Allowed(t, Place(t))
  BY DEF Stage, Base, Roles
<1>2. t \in {startTask} \cup Reboots \cup Signals \cup Backups \cup Restores \cup Freezes
           \cup ThawCalls \cup Thaws
  BY KindsApart DEF Stage, Tasks
<1> QED
  BY <1>1, <1>2 DEF Allowed, StartPlaces, RebootPlaces, BackupPlaces, FreezePlaces, ThawPlaces

(* Setup and start().                                                      *)
LEMMA StartMoves ==
  ASSUME Stage, StartStep
  PROVE  DataTypes' /\ Roles' /\ CoreMove
<1> USE KindsApart DEF Stage
<1>1. CASE Setup
  <2>1. /\ Place(startTask) = "idle" /\ SetState(startTask, "setup", "start")
        /\ UNCHANGED Unsaved
    BY <1>1 DEF Setup, Place
  <2> QED
    BY <2>1, Sets DEF StartPlaces, CoreStates, Allowed, StartOver
<1>2. CASE Start
  <2>1. /\ Place(startTask) = "start" /\ SetState(startTask, "startup", "prepare")
        /\ UNCHANGED Unsaved
    BY <1>2 DEF Start, Place
  <2> QED
    BY <2>1, Sets DEF StartPlaces, CoreStates, Allowed, StartOver
<1>3. CASE Prepare \/ Booted
  <2>1. PICK place \in {"boot", "finally", "done"} : Goto(startTask, place)
    BY <1>3 DEF Prepare, Booted
  <2>2. /\ Place(startTask) \in {"prepare", "boot"}
        /\ UNCHANGED <<state, runFile, writes, after, shutdownEvent, watchdog, stopped>>
    BY <1>3 DEF Prepare, Booted, Place
  <2>3. Allowed(startTask, place) /\ place \in StartPlaces
    BY DEF Allowed, StartPlaces
  <2>4. shutdownEvent \in BOOLEAN /\ watchdog \in BOOLEAN /\ stopped \in BOOLEAN
    BY DEF Base, DataTypes
  <2> QED
    BY <2>1, <2>2, <2>3, <2>4, Goes DEF StartOver
<1>4. CASE StartFinally
  <2>1. /\ Place(startTask) = "finally" /\ SetState(startTask, "running", "done")
        /\ UNCHANGED Unsaved
    BY <1>4 DEF StartFinally, Place
  <2> QED
    BY <2>1, Sets DEF StartPlaces, CoreStates, Allowed, StartOver
<1> QED
  BY <1>1, <1>2, <1>3, <1>4 DEF StartStep

(* shutdown() and stop(), and their callers.                               *)
LEMMA CallMoves ==
  ASSUME Stage, NEW t \in Tasks,
         \/ Shutdown(t) \/ ShutdownAwaited(t) \/ Teardown(t) \/ Stop(t) \/ LastBootStored(t)
         \/ StagesOver(t) \/ LoopStop(t) \/ Reboot(t) \/ StopRequested(t)
  PROVE  DataTypes' /\ Roles' /\ CoreMove
<1> USE KindsApart DEF Stage
<1>0. shutdownEvent \in BOOLEAN /\ watchdog \in BOOLEAN /\ stopped \in BOOLEAN
  BY DEF Base, DataTypes
<1>1. ASSUME t \in Reboots \cup Signals, NEW place \in {"shutdown", Return(t)}
      PROVE  Allowed(t, place) /\ place \in SignalPlaces /\ t \in Tasks \ Others /\ t # startTask
  BY <1>1 DEF Allowed, Return, RebootPlaces, SignalPlaces
<1>2. ASSUME t \in Reboots \cup Signals, NEW place \in {"await event", "teardown"}
      PROVE  Allowed(t, place) /\ place \in SignalPlaces /\ t \in Tasks \ Others /\ t # startTask
  BY <1>2 DEF Allowed, RebootPlaces, SignalPlaces
<1>3. ASSUME t \in Signals, NEW place \in {"stop", "last boot", "stages", "loop stop", "done"}
      PROVE  Allowed(t, place) /\ place \in SignalPlaces /\ t \in Tasks \ Others /\ t # startTask
  BY <1>3 DEF Allowed, SignalPlaces
<1>4. CASE Shutdown(t)
  <2>1. t \in Reboots \cup Signals
    BY <1>4, Who DEF Shutdown, Place
  <2>2. CASE Goto(t, Return(t)) /\ UNCHANGED <<state, writes, after>>
    BY <1>0, <1>1, <1>4, <2>1, <2>2, Goes DEF Shutdown, Unsaved
  <2>3. CASE Goto(t, "await event") /\ UNCHANGED <<state, writes, after>>
    BY <1>0, <1>2, <1>4, <2>1, <2>3, Goes DEF Shutdown, Unsaved
  <2>4. CASE /\ SetState(t, "shutdown", "teardown")
             /\ state \notin StartingStates \cup {"shutdown", "stopping", "close"}
    <3>1. state \in {"running", "freeze"}
      BY <2>4 DEF Base, DataTypes, CoreStates, StartingStates
    <3> QED
      BY <1>2, <1>4, <2>1, <2>4, <3>1, Sets DEF Shutdown, CoreStates
  <2> QED
    BY <1>4, <2>2, <2>3, <2>4 DEF Shutdown
<1>5. CASE ShutdownAwaited(t)
  <2>1. t \in Reboots \cup Signals
    BY <1>5, Who DEF ShutdownAwaited, Place
  <2> QED
    BY <1>0, <1>1, <1>5, <2>1, Goes DEF ShutdownAwaited
<1>6. CASE Teardown(t)
  <2>1. t \in Reboots \cup Signals
    BY <1>6, Who DEF Teardown, Place
  <2> QED
    BY <1>0, <1>1, <1>6, <2>1, Goes DEF Teardown
<1>7. CASE Stop(t) \/ LastBootStored(t)
  <2>1. t \in Signals /\ UNCHANGED Unsaved
    BY <1>7, Who DEF Stop, LastBootStored, Place
  <2>2. CASE /\ Goto(t, "last boot") \/ Goto(t, "done")
             /\ UNCHANGED <<state, writes, after>>
    BY <1>0, <1>3, <2>1, <2>2, Goes DEF Unsaved
  <2>3. CASE SetState(t, "stopping", "stages")
    BY <1>3, <2>1, <2>3, Sets DEF CoreStates
  <2> QED
    BY <1>7, <2>2, <2>3 DEF Stop, LastBootStored, StopUnlessStopping
<1>8. CASE StagesOver(t)
  <2>1. t \in Signals /\ UNCHANGED Unsaved /\ SetState(t, "close", "loop stop")
    BY <1>8, Who DEF StagesOver, Place
  <2> QED
    BY <1>3, <2>1, Sets DEF CoreStates
<1>9. CASE LoopStop(t)
  <2>1. t \in Signals
    BY <1>9, Who DEF LoopStop, Place
  <2> QED
    BY <1>0, <1>3, <1>9, <2>1, Goes DEF LoopStop
<1>10. CASE Reboot(t)
  BY <1>0, <1>1, <1>10, Goes DEF Reboot
<1>11. CASE StopRequested(t)
  BY <1>0, <1>3, <1>11, Goes DEF StopRequested
<1> QED
  BY <1>4, <1>5, <1>6, <1>7, <1>8, <1>9, <1>10, <1>11

(* A signal cancels the start, and a new version ends it.                  *)
LEMMA SignalMoves ==
  ASSUME Stage, NEW t \in Tasks, Signal(t) \/ UpdateItself(t)
  PROVE  DataTypes' /\ Roles' /\ CoreMove
<1> USE KindsApart DEF Stage
<1>1. /\ t \in Signals
      /\ UNCHANGED <<state, runFile, writes, after, shutdownEvent, watchdog, stopped>>
  BY DEF Signal, UpdateItself
<1>2. PICK place \in {"shutdown", "stop"}, end \in {"finally", "done"} :
        /\ pc' = [pc EXCEPT ![t] = place, ![startTask] = end]
        /\ pc[startTask] # "boot" => end = "done"
  BY <1>1 DEF Signal, UpdateItself, Cancelled, Base, DataTypes
<1>3. /\ Place(startTask)' = end /\ Place(t)' = place
      /\ \A u \in Tasks \ {t, startTask} : Place(u)' = Place(u) /\ pc'[u] = pc[u]
  BY <1>1, <1>2 DEF Base, DataTypes, Place
<1>4. DataTypes'
  <2>1. {"shutdown", "stop", "finally", "done"} \subseteq AllPlaces
    BY DEF AllPlaces, CorePlaces, StartPlaces, RebootPlaces, SignalPlaces
  <2>2. pc' \in [Tasks -> AllPlaces]
    BY <1>2, <2>1 DEF Base, DataTypes
  <2> QED
    BY <1>1, <2>2 DEF Base, DataTypes, managerVars
<1>5. Roles'
  <2>1. ASSUME NEW u \in Tasks
        PROVE  Allowed(u, Place(u)')
    <3>1. CASE u = t
      <4>1. /\ t \notin Backups \cup Restores \cup Freezes \cup ThawCalls \cup Thaws
            /\ t \notin Reboots /\ t # startTask
        BY <1>1
      <4>2. Place(u)' \in SignalPlaces
        BY <1>3, <3>1 DEF SignalPlaces, RebootPlaces
      <4> QED
        BY <3>1, <4>1, <4>2 DEF Allowed
    <3>2. CASE u = startTask
      BY <1>3, <3>2 DEF Allowed, StartPlaces
    <3>3. CASE u \notin {t, startTask}
      BY <1>3, <3>3 DEF Base, Roles
    <3> QED
      BY <3>1, <3>2, <3>3
  <2> QED
    BY <2>1 DEF Roles, Allowed
<1>6. StartOver => StartOver'
  BY <1>2, <1>3 DEF StartOver, Place
<1>7. CoreMove
  BY <1>1, <1>3, <1>6 DEF CoreMove, Base, Started
<1> QED
  BY <1>4, <1>5, <1>7

LEMMA CoreStep ==
  ASSUME Stage, CoreNext
  PROVE  DataTypes' /\ Roles' /\ CoreMove
<1> USE KindsApart DEF Stage
<1>1. CASE \E w \in writes : Write(w)
  <2>1. PICK w \in writes : Write(w)
    BY <1>1
  <2>2. CoreTypes
    BY <2>1 DEF Write, CoreTypes, Base, DataTypes
  <2>3. pc' \in [Tasks -> AllPlaces] /\ after' = after 
        /\ \A u \in Tasks : Place(u)' = Place(u) /\ pc'[u] = pc[u]
    BY <2>1 DEF Write, Base, DataTypes, Place
  <2> QED
    BY <2>1, <2>2, <2>3, NoMove DEF Write
<1>2. ASSUME NEW t \in Tasks, Saved(t)
      PROVE  DataTypes' /\ Roles' /\ CoreMove
  <2>1. CoreTypes /\ state' = state /\ after' = after
    BY <1>2 DEF Saved, CoreTypes, Base, DataTypes
  <2>2. /\ pc' \in [Tasks -> AllPlaces]
        /\ \A u \in Tasks : Place(u)' = Place(u) /\ pc'[u] \in {pc[u], Place(u)}
    BY <1>2 DEF Saved, Goto, Base, DataTypes, Place
  <2> QED
    BY <2>1, <2>2, NoMove
<1> QED
  BY <1>1, <1>2, StartMoves, CallMoves, SignalMoves DEF CoreNext, TaskStep

-----------------------------------------------------------------------------
(* What a step keeps of the rest                                           *)

LEMMA CoreKeeps ==
  ASSUME Stage, IInv, CoreNext
  PROVE  IInv'
<1> USE KindsApart DEF Stage, managerVars
<1>1. DataTypes' /\ Roles' /\ CoreMove
  BY CoreStep DEF IInv
<1>2. \A o \in Others : Place(o)' = Place(o)
  BY <1>1 DEF CoreMove
<1>saveless. Saveless'
  BY <1>1 DEF CoreMove, Saveless, Place, IInv, Base, DataTypes
<1>3. Started'
  BY <1>1, <1>2 DEF CoreMove, Started, IInv, Base
<1>4. Locked'
  BY <1>2 DEF Locked, IInv, Base, Managers
<1>5. AppLocks'
  BY <1>2 DEF AppLocks, IInv, Base
<1>6. (\A t \in Thaws : Active(t)' <=> Active(t)) /\ (Alone' <=> Alone)
  BY <1>2 DEF Active, Alone
<1>7. Stuck => Stuck'
  BY <1>1, <1>6 DEF Stuck, CoreMove
<1>8. ASSUME Apart
      PROVE  Apart'
  <2>1. StartOver \/ \A o \in Others : Place(o) = "idle"
    BY DEF IInv, Base, Started
  <2>2. StartOver => (state \in Frozen => state' \in Frozen)
    BY <1>1 DEF CoreMove, Frozen
  <2> QED
    BY <1>2, <1>6, <1>8, <2>1, <2>2 DEF Apart, Active
<1>9. ASSUME Answered
      PROVE  Answered'
  BY <1>2, <1>6, <1>7, <1>9 DEF Answered, IInv, Base, DataTypes
<1>10. ASSUME Undo
       PROVE  Undo'
  BY <1>2, <1>7, <1>10 DEF Undo
<1> QED
  BY <1>1, <1>3, <1>4, <1>5, <1>8, <1>9, <1>10, <1>saveless DEF IInv, Base, Calm

(* Undo is kept by who touches no app and moves tasks only along their way. *)
LEMMA UndoKept ==
  ASSUME Undo, UNCHANGED <<app, sub>>, Stuck => Stuck',
         \A f \in Freezes : Place(f)' \in {"inform", "begin"} =>
                              Place(f) \in {"inform", "begin"},
         \A t \in Thaws : Place(t) \in {"thaw", "thaw wait", "done"} =>
                            Place(t)' \in {"thaw", "thaw wait", "done"},
         \A t \in Thaws, a \in Apps :
            Place(t)' \in {"clear", "done"} /\ sub[t][a] = "todo" =>
              Place(t) \in {"clear", "done"} \/ Stuck'
  PROVE  Undo'
<1>1. ASSUME NEW f \in Freezes, NEW a \in Apps,
             Place(f)' \in {"inform", "begin"}, sub'[f][a] = "todo"
      PROVE  \E t \in Thaws : Place(t)' \in {"thaw", "thaw wait", "done"} /\ sub'[t][a] = "todo"
  <2>1. PICK t \in Thaws : Place(t) \in {"thaw", "thaw wait", "done"} /\ sub[t][a] = "todo"
    BY <1>1 DEF Undo
  <2> QED
    BY <2>1
<1>2. ASSUME NEW f \in Freezes, NEW a \in Apps, sub'[f][a] = "acting"
      PROVE  \E t \in Thaws : sub'[t][a] \in {"todo", "raised"}
  BY <1>2 DEF Undo
<1>3. ASSUME NEW a \in Apps, app'[a] = "frozen"
      PROVE  \E t \in Thaws : sub'[t][a] \in {"todo", "acting", "raised"}
  BY <1>3 DEF Undo
<1>4. ASSUME NEW t \in Thaws, NEW a \in Apps,
             Place(t)' \in {"clear", "done"}, sub'[t][a] = "todo"
      PROVE  Stuck'
  BY <1>4 DEF Undo
<1>5. (\A f \in Freezes, a \in Apps :
         Place(f) \in {"inform", "begin"} /\ sub[f][a] = "todo" =>
           \E t \in Thaws : Place(t) \in {"thaw", "thaw wait", "done"} /\ sub[t][a] = "todo")'
  BY <1>1
<1>6. (\A f \in Freezes, a \in Apps :
         sub[f][a] = "acting" => \E t \in Thaws : sub[t][a] \in {"todo", "raised"})'
  BY <1>2
<1>7. (\A a \in Apps :
         app[a] = "frozen" => \E t \in Thaws : sub[t][a] \in {"todo", "acting", "raised"})'
  BY <1>3
<1>8. (\A t \in Thaws, a \in Apps :
         Place(t) \in {"clear", "done"} /\ sub[t][a] = "todo" => Stuck)'
  BY <1>4
<1> QED
  BY <1>5, <1>6, <1>7, <1>8 DEF Undo

Facts == TasksAssumption /\ BackupAssumption /\ IInv

\* A task of the manager moves, the lock with it, and no app is touched.
Shift(o, place) ==
  /\ Moved(o, place) /\ Allowed(o, place)
  /\ state' \in CoreStates /\ writes' \subseteq [by : Tasks, value : CoreStates]
  /\ UNCHANGED CoreUnsaved /\ (o \in ThawCalls => pc'[o] # "saving")

LockShift(o, place) ==
  \/ lock' = lock /\ (o \in Managers => (place \in Holding <=> Place(o) \in Holding))
  \/ lock = NoTask /\ lock' = o /\ o \in Managers /\ place \in Holding
  \/ lock = o /\ lock' = NoTask /\ o \in Managers /\ place \notin Holding

LEMMA ShiftKeeps ==
  ASSUME Facts, NEW o \in Others, NEW place, Shift(o, place), LockShift(o, place), StartOver,
         thawTask' \in Thaws \cup {NoTask}, thawEvent' \in BOOLEAN, UNCHANGED AppVars,
         o \in Freezes \cup Thaws /\ place \in {"idle", "query"} => Place(o) = "idle"
  PROVE  /\ Base' /\ StartOver'
         /\ Place(o)' = place /\ \A u \in Tasks \ {o} : Place(u)' = Place(u)
<1> USE KindsApart DEF Facts, IInv, Base
<1>1. /\ Roles' /\ Place(o)' = place
      /\ \A u \in Tasks \ {o} : Place(u)' = Place(u)
  BY MovedRoles DEF Shift, Moved
<1>2. StartOver'
  BY <1>1 DEF StartOver
<1>3. DataTypes'
  <2>1. lock' \in Managers \cup {NoTask}
    BY DEF LockShift, DataTypes
  <2> QED
    BY <2>1 DEF DataTypes, Shift, Moved, CoreUnsaved, AppVars
<1>4. Locked'
  <2>1. NoTask \notin Managers
    BY DEF BackupAssumption, Tasks, Managers
  <2>2. ASSUME NEW u \in Managers
        PROVE  lock' = u <=> Place(u)' \in Holding
    <3>1. u # o => Place(u)' = Place(u)
      BY <1>1 DEF Managers
    <3> QED
      BY <1>1, <2>1, <3>1 DEF Locked, LockShift
  <2> QED
    BY <2>2 DEF Locked
<1>5. AppLocks'
  BY <1>1 DEF AppLocks, AppVars
<1>6. Saveless'
  BY DEF Saveless, Shift, Moved, Managers
<1> QED
  BY <1>1, <1>2, <1>3, <1>4, <1>5, <1>6 DEF Started

-----------------------------------------------------------------------------
(* Backups and restores                                                    *)

\* A backup begins in a system that runs, freezes it and lets it run again.
BackupShift(o, place) ==
  /\ Shift(o, place) /\ LockShift(o, place) /\ UNCHANGED <<ThawVars, AppVars>>
  /\ StartOver
  /\ o \in Backups /\ place # "idle" => Place(o) # "idle" \/ state = "running"
  /\ place = "work" => state' = "freeze" /\ Place(o) = "checks"
  /\ place = "leave" => state' = "running" /\ Place(o) = "work"
  /\ state' = state \/ place \in {"work", "leave"}

LEMMA BackupShiftKeeps ==
  ASSUME Facts, NEW o \in Backups \cup Restores, NEW place, BackupShift(o, place)
  PROVE  IInv'
<1> USE KindsApart DEF Facts
<1>1. /\ Base' /\ StartOver'
      /\ Place(o)' = place /\ \A u \in Tasks \ {o} : Place(u)' = Place(u)
  <2>1. thawTask' \in Thaws \cup {NoTask} /\ thawEvent' \in BOOLEAN
    BY DEF BackupShift, ThawVars, IInv, Base, DataTypes
  <2>2. o \in Others /\ o \notin Freezes \cup Thaws
    BY DEF BackupAssumption, Managers
  <2> QED
    BY <2>1, <2>2, ShiftKeeps DEF BackupShift
<1>2. SUFFICES ASSUME Restores = {}, Calm
               PROVE  Calm' /\ (Undo => Undo')
  BY <1>1 DEF IInv
<1>3. o \in Backups /\ o \notin Freezes \cup ThawCalls \cup Thaws
  BY <1>2 DEF BackupAssumption, Managers
<1>4. \A u \in Freezes \cup ThawCalls \cup Thaws : Place(u)' = Place(u)
  BY <1>1, <1>3
<1>5. \A t \in Thaws : Active(t)' <=> Active(t)
  BY <1>4 DEF Active
<1>6. Place(o) \in BackupPlaces /\ place \in BackupPlaces
  BY <1>3 DEF IInv, Base, Roles, Allowed, BackupShift, Shift
<1>7. (place # "idle" \/ Place(o) # "idle") => \A t \in Thaws : ~Active(t)
  BY <1>2, <1>3, <1>6 DEF Calm, Apart, Alone, BackupPlaces, BackupShift, Frozen, ClosingStates
<1>8. Alone' => Alone \/ place # "idle"
  BY <1>1, <1>3, <1>4 DEF Alone
<1>9. Stuck => Stuck'
  <2>1. ASSUME Stuck
        PROVE  place = "idle" /\ state' = state
    <3>1. Place(o) = "idle" /\ state # "running"
      BY <1>3, <1>6, <2>1 DEF Stuck, Alone, BackupPlaces, ClosingStates
    <3> QED
      BY <1>3, <3>1 DEF BackupShift
  <2> QED
    BY <1>1, <1>5, <1>8, <2>1 DEF Stuck
<1>10. Apart'
  <2>1. ASSUME NEW t \in Thaws, Active(t)'
        PROVE  state' \in Frozen /\ ~Alone'
    <3>1. Active(t) /\ place = "idle"
      BY <1>5, <1>7, <2>1
    <3>2. state' = state /\ ~Alone /\ state \in Frozen
      BY <1>2, <3>1 DEF Calm, Apart, BackupShift
    <3> QED
      BY <1>8, <3>1, <3>2
  <2>2. ASSUME NEW u \in Freezes \cup Backups, Place(u)' \in {"query", "work"}
        PROVE  state' \in Frozen
    <3>1. CASE u = o
      BY <1>1, <1>6, <2>2, <3>1 DEF BackupShift, BackupPlaces, Frozen
    <3>2. CASE u # o
      <4>1. Place(u) \in {"query", "work"} /\ u \in Managers /\ state \in Frozen
        BY <1>1, <1>2, <1>3, <2>2, <3>2
        DEF Calm, Apart, Managers, IInv, Base, Roles, Allowed, FreezePlaces, BackupPlaces
      <4>2. lock = u
        BY <4>1 DEF IInv, Base, Locked, Holding
      <4>3. place \notin {"work", "leave"}
        <5>1. Place(o) \in {"checks", "work"} => lock = o
          BY <1>3 DEF IInv, Base, Locked, Holding, Managers
        <5> QED
          BY <3>2, <4>2, <5>1 DEF BackupShift
      <4> QED
        BY <4>1, <4>3 DEF BackupShift
    <3> QED
      BY <3>1, <3>2
  <2> QED
    BY <1>2, <1>5, <2>1, <2>2 DEF Calm, Apart
<1>11. Answered'
  BY <1>2, <1>4, <1>5, <1>9 DEF Calm, Answered, BackupShift, ThawVars, IInv, Base, DataTypes
<1>12. Undo => Undo'
  <2>1. UNCHANGED <<app, sub>>
    BY DEF BackupShift, AppVars
  <2> QED
    BY <1>4, <1>9, <2>1, UndoKept
<1> QED
  BY <1>10, <1>11, <1>12 DEF Calm

\* What each step of a backup or a restore is.
LEMMA BackupStep ==
  ASSUME Facts, NEW o \in Managers,
         \/ BackupCall(o) \/ RestoreCall(o) \/ RestoreEnter(o) \/ ChecksPassed(o)
         \/ ChecksFailed(o) \/ WorkDone(o) \/ Leave(o)
  PROVE  IInv'
<1> USE KindsApart DEF Facts
<1>1. o \in Others /\ Allowed(o, Place(o)) /\ (lock = o <=> Place(o) \in Holding) /\ DataTypes
  BY DEF IInv, Base, Roles, Locked, Managers
<1>2. o \in Backups \cup Restores
  <2>1. o \in Freezes \cup ThawCalls =>
          Place(o) \notin {"conditions", "checks", "work", "leave"}
    BY <1>1 DEF Allowed, FreezePlaces
  <2>2. pc[o] \in {"conditions", "checks", "work", "leave"} \/ o \in Backups \cup Restores
    BY DEF BackupCall, RestoreCall, RestoreEnter, ChecksPassed, ChecksFailed, WorkDone, Leave
  <2> QED
    BY <2>1, <2>2 DEF Managers, Place
<1>3. o \notin {startTask} \cup Reboots \cup Signals \cup Freezes \cup ThawCalls \cup Thaws
  BY <1>2 DEF BackupAssumption, Managers
<1>4. ASSUME NEW place \in BackupPlaces
      PROVE  Allowed(o, place) /\ place \in AllPlaces \ {"saving"}
  BY <1>3, PlacesKnown DEF Allowed
<1>5. StartOver
  <2>1. state = "running" \/ Place(o) # "idle"
    BY DEF BackupCall, RestoreCall, RestoreEnter, ChecksPassed, ChecksFailed, WorkDone, Leave,
           Place
  <2> QED
    BY <1>1, <2>1 DEF IInv, Base, Started
<1>6. ASSUME NEW place \in AllPlaces \ {"saving"}, Allowed(o, place), Goto(o, place),
             UNCHANGED <<state, writes, after>>, UNCHANGED CoreUnsaved
      PROVE  Shift(o, place)
  BY <1>1, <1>3, <1>6, GotoMoves DEF Shift, DataTypes
<1>7. CASE BackupCall(o)
  <2>1. Shift(o, "checks")
    BY <1>4, <1>6, <1>7 DEF BackupCall, BackupPlaces, CoreKept
  <2> QED
    BY <1>2, <1>5, <1>7, <2>1, BackupShiftKeeps
    DEF BackupCall, BackupShift, LockShift, Acquire, Holding, CoreKept, Place
<1>8. CASE RestoreCall(o)
  <2>1. Shift(o, "conditions") /\ o \notin Backups
    <3>1. Allowed(o, "conditions") /\ o \notin Backups
      BY <1>3, <1>8 DEF Allowed, RestoreCall, BackupAssumption
    <3> QED
      BY <1>6, <1>8, <3>1, PlacesKnown DEF RestoreCall, CoreKept
  <2> QED
    BY <1>2, <1>5, <1>8, <2>1, BackupShiftKeeps
    DEF RestoreCall, BackupShift, LockShift, Holding, CoreKept, Place, managerVars, ThawVars,
        AppVars
<1>9. CASE RestoreEnter(o)
  <2>1. Place(o) = "conditions" /\ UNCHANGED <<state, ThawVars, AppVars>>
    BY <1>9 DEF RestoreEnter, Place, CoreKept
  <2>2. CASE Acquire(o) /\ Goto(o, "checks")
    <3>1. Shift(o, "checks")
      BY <1>4, <1>6, <1>9, <2>2 DEF RestoreEnter, BackupPlaces, CoreKept
    <3> QED
      BY <1>2, <1>5, <2>1, <2>2, <3>1, BackupShiftKeeps
      DEF BackupShift, LockShift, Acquire, Holding
  <2>3. CASE Goto(o, "idle") /\ UNCHANGED lock
    <3>1. Shift(o, "idle")
      BY <1>4, <1>6, <1>9, <2>3 DEF RestoreEnter, BackupPlaces, CoreKept
    <3> QED
      BY <1>2, <1>5, <2>1, <2>3, <3>1, BackupShiftKeeps DEF BackupShift, LockShift, Holding
  <2> QED
    BY <1>9, <2>2, <2>3 DEF RestoreEnter
<1>10. CASE ChecksPassed(o) \/ WorkDone(o)
  <2>1. PICK s \in {"freeze", "running"}, place \in {"work", "leave"} :
          /\ SetState(o, s, place)
          /\ Place(o) = "checks" <=> place = "work"
          /\ Place(o) = "work" <=> place = "leave"
          /\ s = "freeze" <=> place = "work"
          /\ Place(o) \in {"checks", "work"}
    BY <1>10 DEF ChecksPassed, WorkDone, Place
  <2>2. UNCHANGED <<CoreUnsaved, lock, ThawVars, AppVars>>
    BY <1>10 DEF ChecksPassed, WorkDone, managerVars, ThawVars, AppVars
  <2>3. s \in CoreStates /\ place \in BackupPlaces
    BY DEF CoreStates, BackupPlaces
  <2>4. Moved(o, place) /\ state' = s /\ writes' \subseteq [by : Tasks, value : CoreStates]
    BY <1>1, <1>4, <2>1, <2>3, SetStateMoves
  <2>5. Shift(o, place)
    BY <1>3, <1>4, <2>2, <2>3, <2>4 DEF Shift
  <2> QED
    BY <1>2, <1>5, <2>1, <2>2, <2>4, <2>5, BackupShiftKeeps
    DEF BackupShift, LockShift, Holding
<1>11. CASE ChecksFailed(o) \/ Leave(o)
  <2>1. Release(o) /\ Place(o) \in {"checks", "leave"}
    BY <1>11 DEF ChecksFailed, Leave, Place
  <2>2. Goto(o, "idle") /\ lock' = NoTask
        /\ UNCHANGED <<CoreKept, CoreUnsaved, ThawVars, AppVars>>
    BY <1>2, <2>1 DEF Release
  <2>3. Shift(o, "idle")
    BY <1>4, <1>6, <2>2 DEF BackupPlaces, CoreKept
  <2>4. LockShift(o, "idle")
    BY <1>1, <2>1, <2>2 DEF LockShift, Holding
  <2> QED
    BY <1>2, <1>5, <2>2, <2>3, <2>4, BackupShiftKeeps DEF BackupShift, CoreKept
<1> QED
  BY <1>7, <1>8, <1>9, <1>10, <1>11

-----------------------------------------------------------------------------
(* freeze_all                                                              *)

(* Who is inside an operation is there alone.                              *)
LEMMA AloneInside ==
  ASSUME Facts, NEW o \in Managers, Place(o) \in Holding \/ lock = NoTask,
         NEW u \in Managers \ {o}
  PROVE  Place(u) \notin Holding
<1>1. NoTask \notin Managers
  BY DEF Facts, BackupAssumption, Tasks, Managers
<1> QED
  BY <1>1 DEF Facts, IInv, Base, Locked

(* A freeze that ends or goes on to inform Home Assistant.                 *)
LEMMA FreezeGoesOn ==
  ASSUME Facts, NEW f \in Freezes, NEW place \in {"begin", "done"}, Goto(f, place),
         Place(f) \in {"query", "inform", "begin"}, pc[f] # "saving",
         place = "begin" => Place(f) = "inform",
         lock' = IF place = "begin" THEN lock ELSE NoTask,
         UNCHANGED <<CoreKept, CoreUnsaved, ThawVars, AppVars>>
  PROVE  IInv'
<1> USE KindsApart DEF Facts
<1>1. f \in Managers /\ f \in Others /\ f \notin Thaws \cup Backups \cup Restores \cup ThawCalls
  BY DEF BackupAssumption, Managers
<1>2. DataTypes /\ lock = f /\ Place(f) \in Holding
  BY <1>1 DEF IInv, Base, Locked, Holding
<1>3. Shift(f, place)
  <2>1. Allowed(f, place) /\ place \in AllPlaces \ {"saving"}
    BY <1>1, PlacesKnown DEF Allowed, FreezePlaces
  <2> QED
    BY <1>2, <2>1, GotoMoves DEF Shift, CoreKept, DataTypes
<1>4. LockShift(f, place)
  BY <1>1, <1>2 DEF LockShift, Holding
<1>5. StartOver
  BY <1>1 DEF IInv, Base, Started
<1>6. /\ Base' /\ StartOver'
      /\ Place(f)' = place /\ \A u \in Tasks \ {f} : Place(u)' = Place(u)
  BY <1>1, <1>2, <1>3, <1>4, <1>5, ShiftKeeps DEF ThawVars, DataTypes
<1>7. SUFFICES ASSUME Calm
               PROVE  Calm' /\ (Undo => Undo')
  BY <1>6 DEF IInv
<1>8. \A u \in Thaws \cup ThawCalls \cup Backups : Place(u)' = Place(u)
  BY <1>1, <1>6
<1>9. \A u \in Freezes : Place(u)' \in {"query", "inform"} => Place(u) = Place(u)'
  BY <1>6
<1>10. (\A t \in Thaws : Active(t)' <=> Active(t)) /\ (Alone' => Alone)
  BY <1>8, <1>9 DEF Active, Alone
<1>11. Stuck => Stuck'
  BY <1>6, <1>10 DEF Stuck, CoreKept
<1>12. Apart'
  BY <1>7, <1>8, <1>9, <1>10 DEF Calm, Apart, CoreKept
<1>13. Answered'
  BY <1>2, <1>7, <1>8, <1>10, <1>11 DEF Calm, Answered, ThawVars, DataTypes
<1>14. Undo => Undo'
  <2>1. UNCHANGED <<app, sub>>
    BY DEF AppVars
  <2>2. \A u \in Freezes : Place(u)' \in {"inform", "begin"} => Place(u) \in {"inform", "begin"}
    BY <1>6
  <2> QED
    BY <1>8, <1>11, <2>1, <2>2, UndoKept
<1> QED
  BY <1>12, <1>13, <1>14 DEF Calm

LEMMA FreezeEnds ==
  ASSUME Facts, NEW f \in Managers,
         QueryFailed(f) \/ Inform(f) \/ InformFailed(f) \/ FreezeDone(f)
  PROVE  IInv'
<1> USE KindsApart DEF Facts
<1>1. pc[f] # "saving" /\ Place(f) \in {"query", "inform", "begin"}
  BY DEF QueryFailed, Inform, InformFailed, FreezeDone, Place
<1>2. f \in Freezes /\ f \notin Backups \cup Restores
  BY <1>1 DEF IInv, Base, Roles, Allowed, Managers, BackupPlaces, BackupAssumption
<1>3. CASE Inform(f)
  BY <1>1, <1>2, <1>3, FreezeGoesOn DEF Inform, Place, managerVars, ThawVars, AppVars
<1>4. CASE QueryFailed(f) \/ InformFailed(f) \/ FreezeDone(f)
  <2>1. Release(f)
    BY <1>4 DEF QueryFailed, InformFailed, FreezeDone
  <2> QED
    BY <1>1, <1>2, <2>1, FreezeGoesOn DEF Release
<1> QED
  BY <1>3, <1>4

(* freeze_all begins: no thaw task is left that would undo another freeze. *)
LEMMA FreezeCallKeeps ==
  ASSUME Facts, NEW f \in Managers, FreezeCall(f)
  PROVE  IInv'
<1> USE KindsApart DEF Facts
<1>1. /\ f \in Freezes /\ Place(f) = "idle" /\ state = "running" /\ lock = NoTask /\ lock' = f
      /\ SetState(f, "freeze", "query") /\ UNCHANGED <<CoreUnsaved, ThawVars, AppVars>>
  BY DEF FreezeCall, Acquire, Place
<1>2. f \in Others /\ f \notin Thaws \cup Backups \cup Restores \cup ThawCalls /\ DataTypes
  BY <1>1 DEF BackupAssumption, Managers, IInv, Base
<1>3. Shift(f, "query") /\ state' = "freeze"
  <2>1. Allowed(f, "query") /\ "query" \in AllPlaces \ {"saving"} /\ "freeze" \in CoreStates
    BY <1>1, <1>2, PlacesKnown DEF Allowed, FreezePlaces, CoreStates
  <2> QED
    BY <1>1, <1>2, <2>1, SetStateMoves DEF Shift
<1>4. LockShift(f, "query") /\ StartOver
  BY <1>1, <1>2 DEF LockShift, Holding, IInv, Base, Started
<1>5. /\ Base' /\ StartOver'
      /\ Place(f)' = "query" /\ \A u \in Tasks \ {f} : Place(u)' = Place(u)
  BY <1>1, <1>2, <1>3, <1>4, ShiftKeeps DEF ThawVars, DataTypes
<1>6. SUFFICES ASSUME Calm
               PROVE  Calm' /\ (Undo => Undo')
  BY <1>5 DEF IInv
<1>7. \A u \in Thaws \cup ThawCalls \cup Backups : Place(u)' = Place(u)
  BY <1>2, <1>5
<1>8. ~Stuck /\ \A t \in Thaws : ~Active(t) /\ ~Active(t)'
  BY <1>1, <1>6, <1>7 DEF Calm, Apart, Stuck, Active, Frozen, ClosingStates
<1>9. ~thawEvent
  <2>1. \A w \in ThawCalls : Place(w) # "await thaw"
    BY <1>1, <1>2, AloneInside DEF Holding, Managers
  <2> QED
    BY <1>6, <1>8, <2>1 DEF Calm, Answered
<1>10. Apart'
  BY <1>3, <1>8 DEF Apart, Frozen
<1>11. Answered'
  BY <1>1, <1>2, <1>6, <1>7, <1>8, <1>9 DEF Calm, Answered, ThawVars, DataTypes
<1>12. Undo => Undo'
  <2>1. UNCHANGED <<app, sub>>
    BY <1>1 DEF AppVars
  <2>2. \A u \in Freezes : Place(u)' \in {"inform", "begin"} => Place(u) \in {"inform", "begin"}
    BY <1>5
  <2> QED
    BY <1>7, <1>8, <2>1, <2>2, UndoKept
<1> QED
  BY <1>10, <1>11, <1>12 DEF Calm

(* The apps are queried and the thaw task t is made for them: it is the    *)
(* only one.                                                               *)
LEMMA QueryAppsKeeps ==
  ASSUME Facts, NEW f \in Managers, NEW t \in Thaws, QueryApps(f, t)
  PROVE  IInv'
<1> USE KindsApart DEF Facts
<1>1. /\ Place(f) = "query" /\ Place(t) = "idle" /\ thawTask' = t
      /\ sub' = GatherRunning(f, t) /\ UNCHANGED <<state, writes, after>>
      /\ UNCHANGED <<CoreUnsaved, lock, thawEvent, app, appLock>>
  BY DEF QueryApps, Place, CoreKept
<1>2. f \in Freezes /\ f \notin Backups \cup Restores \cup ThawCalls \cup Thaws
  BY <1>1 DEF IInv, Base, Roles, Allowed, Managers, BackupPlaces, BackupAssumption
<1>3. t \notin Managers \cup {startTask} \cup Reboots \cup Signals
  BY DEF BackupAssumption
<1>4. DataTypes /\ Roles /\ AppLocks /\ StartOver /\ lock = f
  BY <1>1, <1>2 DEF IInv, Base, Started, Locked, Managers, Holding
<1>5. /\ Place(f)' = "inform" /\ Place(t)' = "thaw"
      /\ \A u \in Tasks \ {f, t} : Place(u)' = Place(u)
  BY <1>2, <1>4 DEF QueryApps, Place, CoreKept, DataTypes, Managers
<1>6. /\ \A a \in Apps : sub'[f][a] = sub'[t][a] /\ sub'[f][a] \in {"todo", "none"}
      /\ \A x \in (Freezes \cup Thaws) \ {f, t} : sub'[x] = sub[x]
      /\ sub' \in [Freezes \cup Thaws -> [Apps -> SubStates]]
  BY <1>1, <1>2, <1>4 DEF GatherRunning, DataTypes, SubStates
<1>7. DataTypes'
  <2>1. pc' \in [Tasks -> AllPlaces]
    <3>1. {"inform", "thaw"} \subseteq AllPlaces
      BY DEF AllPlaces, ManagerPlaces
    <3> QED
      BY <1>4, <3>1 DEF QueryApps, DataTypes
  <2> QED
    BY <1>1, <1>4, <1>6, <2>1 DEF DataTypes, CoreUnsaved
<1>8. Roles'
  <2>1. ASSUME NEW u \in Tasks
        PROVE  Allowed(u, Place(u)')
    <3>1. CASE u = f
      BY <1>2, <1>5, <3>1, KindsApart DEF Allowed, FreezePlaces, Managers
    <3>2. CASE u = t
      BY <1>3, <1>5, <3>2 DEF Allowed, ThawPlaces, Managers
    <3>3. CASE u \notin {f, t}
      BY <1>4, <1>5, <3>3 DEF Roles
    <3> QED
      BY <3>1, <3>2, <3>3
  <2> QED
    BY <2>1 DEF Roles, Allowed
<1>9. StartOver'
  BY <1>2, <1>3, <1>4, <1>5 DEF StartOver, Managers
<1>10. Locked'
  <2>1. ASSUME NEW u \in Managers
        PROVE  lock' = u <=> Place(u)' \in Holding
    BY <1>1, <1>2, <1>3, <1>4, <1>5 DEF IInv, Base, Locked, Holding, Managers
  <2> QED
    BY <2>1 DEF Locked
<1>11. AppLocks'
  <2>1. ASSUME NEW x \in Freezes \cup Thaws, NEW a \in Apps
        PROVE  appLock'[a] = x <=> sub'[x][a] = "acting"
    BY <1>1, <1>2, <1>4, <1>6 DEF AppLocks
  <2>2. ASSUME NEW g \in Freezes, NEW a \in Apps, Place(g)' \in {"idle", "query"}
        PROVE  sub'[g][a] = "none"
    <3>1. g \notin {f, t} /\ Place(g)' = Place(g)
      BY <1>2, <1>3, <1>5, <2>2 DEF Managers
    <3> QED
      BY <1>4, <1>6, <2>2, <3>1 DEF AppLocks
  <2>3. ASSUME NEW u \in Thaws, NEW a \in Apps, Place(u)' = "idle"
        PROVE  sub'[u][a] = "none"
    <3>1. u \notin {f, t} /\ Place(u)' = Place(u)
      BY <1>2, <1>5, <2>3
    <3> QED
      BY <1>4, <1>6, <2>3, <3>1 DEF AppLocks
  <2> QED
    BY <2>1, <2>2, <2>3 DEF AppLocks
<1>saveless. Saveless'
  BY <1>2, <1>3, <1>4 DEF QueryApps, Saveless, IInv, Base, Managers, DataTypes
<1>12. Base'
  BY <1>7, <1>8, <1>9, <1>10, <1>11, <1>saveless DEF Base, Started
<1>13. SUFFICES ASSUME Calm
                PROVE  Calm' /\ (Undo => Undo')
  BY <1>12 DEF IInv
<1>14. \A u \in Managers \ {f} : Place(u) \notin Holding
  BY <1>1, <1>2, AloneInside DEF Holding
<1>15. \A u \in Tasks \ {f, t} : Place(u)' = Place(u)
  BY <1>5
<1>16. ~Alone'
  <2>1. \A g \in Freezes : Place(g)' # "query"
    BY <1>3, <1>5, <1>14 DEF Holding, Managers
  <2>2. \A o \in Backups : Place(o)' \notin {"checks", "work", "leave"}
    <3>1. ASSUME NEW o \in Backups
          PROVE  o \in Managers \ {f, t} /\ Place(o)' = Place(o)
      BY <1>2, <1>3, <1>5 DEF Managers
    <3> QED
      BY <1>14, <3>1 DEF Holding
  <2> QED
    BY <2>1, <2>2 DEF Alone
<1>17. Alone /\ state \in Frozen /\ \A u \in Thaws : ~Active(u)
  BY <1>1, <1>2, <1>13 DEF Alone, Calm, Apart
<1>18. \A u \in Thaws : Active(u)' <=> u = t
  BY <1>2, <1>5, <1>17 DEF Active
<1>19. Apart'
  BY <1>1, <1>16, <1>17, <1>18 DEF Apart, Alone
<1>20. ~Stuck /\ ~thawEvent
  <2>1. \A w \in ThawCalls : Place(w) # "await thaw"
    BY <1>2, <1>14 DEF Holding, Managers
  <2> QED
    BY <1>13, <1>17, <2>1 DEF Calm, Answered, Stuck
<1>21. Answered'
  BY <1>1, <1>18, <1>20 DEF Answered
<1>22. ASSUME Undo
       PROVE  Undo'
  <2>1. ASSUME NEW u \in Thaws, NEW a \in Apps, sub[u][a] \in {"todo", "acting", "raised"}
        PROVE  u # t /\ sub'[u][a] = sub[u][a]
    BY <1>1, <1>2, <1>4, <1>6, <2>1 DEF AppLocks
  <2>2. (\A g \in Freezes, a \in Apps :
           Place(g) \in {"inform", "begin"} /\ sub[g][a] = "todo" =>
             \E u \in Thaws : Place(u) \in {"thaw", "thaw wait", "done"} /\ sub[u][a] = "todo")'
    <3>1. ASSUME NEW g \in Freezes, Place(g)' \in {"inform", "begin"}
          PROVE  g = f
      BY <1>3, <1>5, <1>14, <3>1 DEF Holding, Managers
    <3> QED
      BY <1>5, <1>6, <3>1
  <2>3. (\A g \in Freezes, a \in Apps :
           sub[g][a] = "acting" => \E u \in Thaws : sub[u][a] \in {"todo", "raised"})'
    <3>1. ASSUME NEW g \in Freezes, NEW a \in Apps, sub'[g][a] = "acting"
          PROVE  \E u \in Thaws : sub'[u][a] \in {"todo", "raised"}
      <4>1. sub[g][a] = "acting"
        BY <1>6, <3>1
      <4> QED
        BY ZenonT(30), <1>22, <2>1, <4>1 DEF Undo
    <3> QED
      BY <3>1
  <2>4. (\A a \in Apps :
           app[a] = "frozen" => \E u \in Thaws : sub[u][a] \in {"todo", "acting", "raised"})'
    <3>1. ASSUME NEW a \in Apps, app'[a] = "frozen"
          PROVE  \E u \in Thaws : sub'[u][a] \in {"todo", "acting", "raised"}
      <4>1. PICK u \in Thaws : sub[u][a] \in {"todo", "acting", "raised"}
        BY <1>1, <1>22, <3>1 DEF Undo
      <4> QED
        BY <2>1, <4>1
    <3> QED
      BY <3>1
  <2>5. (\A u \in Thaws, a \in Apps :
           Place(u) \in {"clear", "done"} /\ sub[u][a] = "todo" => Stuck)'
    <3>1. ASSUME NEW u \in Thaws, NEW a \in Apps, Place(u)' \in {"clear", "done"}
          PROVE  sub'[u][a] # "todo"
      <4>1. u \notin {f, t} /\ Place(u)' = Place(u) /\ sub'[u] = sub[u]
        BY <1>2, <1>5, <1>6, <3>1
      <4> QED
        BY <1>20, <1>22, <3>1, <4>1 DEF Undo
    <3> QED
      BY <3>1
  <2> QED
    BY <2>2, <2>3, <2>4, <2>5 DEF Undo
<1> QED
  BY <1>19, <1>21, <1>22 DEF Calm

-----------------------------------------------------------------------------
(* _thaw_all and thaw_all                                                  *)

(* A thaw task moves, and a freeze is not undone too early.                *)
LEMMA ThawGoesOn ==
  ASSUME Facts, NEW t \in Thaws, NEW place \in {"thaw wait", "end", "clear", "done"},
         Shift(t, place), UNCHANGED <<lock, AppVars>>,
         thawTask' \in Thaws \cup {NoTask}, thawEvent' \in BOOLEAN, Place(t) # "idle"
  PROVE  /\ Base' /\ StartOver /\ StartOver'
         /\ Place(t)' = place /\ \A u \in Tasks \ {t} : Place(u)' = Place(u)
         /\ \A u \in Managers : Place(u)' = Place(u)
         /\ Alone' <=> Alone
<1> USE KindsApart DEF Facts
<1>1. t \in Others /\ t \notin Managers
  BY DEF BackupAssumption
<1>2. LockShift(t, place) /\ StartOver
  BY <1>1 DEF LockShift, IInv, Base, Started
<1>3. /\ Base' /\ StartOver'
      /\ Place(t)' = place /\ \A u \in Tasks \ {t} : Place(u)' = Place(u)
  BY <1>1, <1>2, ShiftKeeps
<1>4. \A u \in Managers : Place(u)' = Place(u)
  BY <1>1, <1>3 DEF Managers
<1>5. Alone' <=> Alone
  BY <1>4 DEF Alone, Managers
<1> QED
  BY <1>2, <1>3, <1>4, <1>5

LEMMA ThawShift ==
  ASSUME Facts, NEW t \in Thaws, NEW place \in {"thaw wait", "end", "clear", "done"}
  PROVE  /\ Allowed(t, place) /\ place \in AllPlaces \ {"saving"} /\ DataTypes
         /\ t \notin ThawCalls
<1>1. t \notin {startTask} \cup Reboots \cup Signals \cup Managers
  BY KindsApart DEF Facts, BackupAssumption
<1> QED
  BY <1>1, PlacesKnown DEF Allowed, ThawPlaces, Facts, IInv, Base, Managers

LEMMA ThawStartKeeps ==
  ASSUME Facts, NEW t \in Thaws, ThawStart(t)
  PROVE  IInv'
<1> USE KindsApart DEF Facts
<1>1. PICK place \in {"thaw wait", "done"} :
        /\ Place(t) = "thaw" /\ Goto(t, place)
        /\ place = "done" => state # "freeze"
        /\ UNCHANGED <<state, writes, after>>
        /\ UNCHANGED <<CoreUnsaved, lock, thawTask, thawEvent, app, appLock, sub>>
  BY DEF ThawStart, Place, CoreKept, managerVars
<1>2. Shift(t, place)
  <2>1. Moved(t, place)
    BY <1>1, ThawShift, GotoMoves
  <2>2. Allowed(t, place) /\ DataTypes
    BY ThawShift
  <2> QED
    BY <1>1, ThawShift, <2>1, <2>2 DEF Shift, DataTypes, CoreUnsaved
<1>3. /\ Base' /\ StartOver /\ StartOver'
      /\ Place(t)' = place /\ \A u \in Tasks \ {t} : Place(u)' = Place(u)
      /\ \A u \in Managers : Place(u)' = Place(u)
      /\ Alone' <=> Alone
  <2>1. UNCHANGED <<lock, AppVars>> /\ Place(t) # "idle"
    BY <1>1 DEF AppVars
  <2>2. thawTask' \in Thaws \cup {NoTask} /\ thawEvent' \in BOOLEAN
    BY <1>1, ThawShift DEF DataTypes
  <2> QED
    BY <1>2, <2>1, <2>2, ThawGoesOn
<1>4. SUFFICES ASSUME Calm
               PROVE  Calm' /\ (Undo => Undo')
  BY <1>3 DEF IInv
<1>5. \A u \in Thaws \ {t} : Place(u)' = Place(u)
  BY <1>3
<1>6. Active(t) /\ state \in Frozen /\ ~Alone /\ ~Stuck
  BY <1>1, <1>4 DEF Active, Calm, Apart, Stuck
<1>7. \A u \in Thaws \ {t} : ~Active(u) /\ ~Active(u)'
  BY <1>4, <1>5, <1>6 DEF Active, Calm, Apart
<1>8. IF place = "done" THEN Stuck' ELSE Active(t)'
  <2>1. place = "done" => state \in ClosingStates
    BY <1>1, <1>6 DEF Frozen
  <2> QED
    BY <1>1, <1>3, <1>6, <1>7, <2>1 DEF Stuck, Active
<1>9. Apart'
  BY <1>1, <1>3, <1>4, <1>6, <1>7 DEF Calm, Apart, Managers
<1>10. Answered'
  <2>1. CASE Stuck'
    <3>1. thawEvent' = thawEvent /\ thawTask' = thawTask
      BY <1>1
    <3> QED
      BY <2>1 DEF Answered
  <2>2. CASE place = "thaw wait"
    <3>1. thawTask # NoTask => Active(thawTask)' \/ Place(thawTask)' = "clear"
      <4>1. ASSUME NEW w \in Thaws, w = thawTask
            PROVE  Active(w)' \/ Place(w)' = "clear"
        <5>1. w = t \/ Place(w) = "clear"
          BY <1>4, <1>6, <1>7, <4>1, KindsApart DEF Calm, Answered, BackupAssumption
        <5> QED
          BY <1>1, <1>5, <1>6, <1>8, <2>2, <5>1
      <4>2. thawTask # NoTask => thawTask \in Thaws
        BY ThawShift DEF DataTypes
      <4> QED
        BY <1>1, <4>1, <4>2
    <3>2. thawEvent => \E w \in ThawCalls : Place(w)' = "await thaw"
      BY <1>3, <1>4, <1>6 DEF Calm, Answered, Managers
    <3>3. Active(t)'
      BY <1>8, <2>2
    <3> QED
      BY <1>1, <3>1, <3>2, <3>3 DEF Answered
  <2> QED
    BY <1>8, <2>1, <2>2
<1>11. Undo => Undo'
  <2>1. ASSUME NEW u \in Thaws
        PROVE  /\ Place(u) \in {"thaw", "thaw wait", "done"} =>
                    Place(u)' \in {"thaw", "thaw wait", "done"}
               /\ Place(u)' \in {"clear", "done"} => Place(u) \in {"clear", "done"} \/ Stuck'
    BY <1>1, <1>3, <1>5, <1>8
  <2>2. \A f \in Freezes : Place(f)' = Place(f)
    BY <1>3 DEF Managers
  <2> QED
    BY <1>1, <1>6, <2>1, <2>2, UndoKept
<1> QED
  BY <1>9, <1>10, <1>11 DEF Calm

LEMMA ThawBeginsKeeps ==
  ASSUME Facts, NEW t \in Thaws, ThawBegins(t)
  PROVE  IInv'
<1> USE KindsApart DEF Facts
<1>1. /\ Place(t) = "thaw wait" /\ Goto(t, "end")
      /\ thawEvent \/ earlyTimeout \/ ~FreezeInProgress
      /\ UNCHANGED <<state, writes, after>>
      /\ UNCHANGED <<CoreUnsaved, lock, thawTask, thawEvent, app, appLock, sub>>
  BY DEF ThawBegins, Place, CoreKept, managerVars
<1>2. Shift(t, "end")
  <2>1. Moved(t, "end") /\ Allowed(t, "end") /\ DataTypes
    BY <1>1, ThawShift, GotoMoves
  <2> QED
    BY <1>1, ThawShift, <2>1 DEF Shift, DataTypes, CoreUnsaved
<1>3. /\ Base' /\ StartOver /\ StartOver'
      /\ Place(t)' = "end" /\ \A u \in Tasks \ {t} : Place(u)' = Place(u)
      /\ \A u \in Managers : Place(u)' = Place(u)
      /\ Alone' <=> Alone
  <2>1. UNCHANGED <<lock, AppVars>> /\ Place(t) # "idle"
    BY <1>1 DEF AppVars
  <2>2. thawTask' \in Thaws \cup {NoTask} /\ thawEvent' \in BOOLEAN
    BY <1>1, ThawShift DEF DataTypes
  <2> QED
    BY <1>2, <2>1, <2>2, ThawGoesOn
<1>4. SUFFICES ASSUME Calm
               PROVE  Calm' /\ (~earlyTimeout /\ Undo => Undo')
  BY <1>3 DEF IInv
<1>5. \A u \in Thaws \ {t} : Place(u)' = Place(u)
  BY <1>3
<1>6. \A u \in Thaws : Active(u)' <=> Active(u)
  BY <1>1, <1>3, <1>5 DEF Active
<1>7. Active(t) /\ ~Stuck
  BY <1>1 DEF Active, Stuck
<1>8. Apart'
  BY <1>1, <1>3, <1>4, <1>6 DEF Calm, Apart, Managers
<1>9. Answered'
  <2>1. \A u \in Thaws : Place(u) = "clear" => Place(u)' = "clear"
    BY <1>1, <1>5
  <2>2. thawTask # NoTask => Active(thawTask)' \/ Place(thawTask)' = "clear"
    <3>1. thawTask # NoTask => thawTask \in Thaws
      BY ThawShift DEF DataTypes
    <3>2. thawTask # NoTask => Active(thawTask) \/ Place(thawTask) = "clear"
      BY <1>4, <1>7 DEF Calm, Answered
    <3>3. ASSUME NEW w \in Thaws, w = thawTask
          PROVE  Active(w)' \/ Place(w)' = "clear"
      BY <1>6, <2>1, <3>2, <3>3, KindsApart DEF BackupAssumption
    <3> QED
      BY <1>1, <3>1, <3>3
  <2>3. thawEvent => \E w \in ThawCalls : Place(w)' = "await thaw"
    BY <1>3, <1>4, <1>7 DEF Calm, Answered, Managers
  <2> QED
    BY <1>1, <1>6, <1>7, <2>2, <2>3 DEF Answered
<1>10. ASSUME ~earlyTimeout, Undo
       PROVE  Undo'
  <2>1. \A f \in Freezes : Place(f)' \notin {"inform", "begin"}
    <3>1. ASSUME NEW f \in Freezes
          PROVE  Place(f) \notin {"inform", "begin"}
      <4>1. CASE ~FreezeInProgress
        BY <4>1 DEF FreezeInProgress, Place
      <4>2. CASE thawEvent
        <5>1. PICK w \in ThawCalls : Place(w) = "await thaw"
          BY <1>4, <1>7, <4>2 DEF Calm, Answered
        <5>2. w \in Managers /\ f \in Managers \ {w}
          BY DEF Managers, BackupAssumption
        <5>3. Place(f) \notin Holding
          BY <5>1, <5>2, AloneInside DEF Holding
        <5> QED
          BY <5>3 DEF Holding
      <4> QED
        BY <1>1, <1>10, <4>1, <4>2
    <3> QED
      BY <1>3, <3>1 DEF Managers
  <2>2. UNCHANGED <<app, sub>>
    BY <1>1
  <2>3. (\A f \in Freezes, a \in Apps :
           sub[f][a] = "acting" => \E u \in Thaws : sub[u][a] \in {"todo", "raised"})'
    BY <1>10, <2>2 DEF Undo
  <2>4. (\A a \in Apps :
           app[a] = "frozen" => \E u \in Thaws : sub[u][a] \in {"todo", "acting", "raised"})'
    BY <1>10, <2>2 DEF Undo
  <2>5. ASSUME NEW u \in Thaws, NEW a \in Apps,
               Place(u)' \in {"clear", "done"}, sub'[u][a] = "todo"
        PROVE  Stuck'
    <3>1. Place(u) \in {"clear", "done"} /\ sub[u][a] = "todo"
      BY <1>3, <1>5, <2>2, <2>5
    <3> QED
      BY <1>7, <1>10, <3>1 DEF Undo
  <2> QED
    BY <2>1, <2>3, <2>4, <2>5 DEF Undo
<1> QED
  BY <1>8, <1>9, <1>10 DEF Calm

(* The thaw task lets the system run: no other thaw task is there and no   *)
(* freeze or backup has begun.                                             *)
LEMMA ThawFinallyKeeps ==
  ASSUME Facts, NEW t \in Thaws, ThawFinally(t)
  PROVE  IInv'
<1> USE KindsApart DEF Facts
<1>1. /\ Place(t) = "end" /\ SetState(t, "running", "clear")
      /\ \A a \in Apps : sub[t][a] # "todo"
      /\ UNCHANGED <<CoreUnsaved, lock, thawTask, thawEvent, app, appLock, sub>>
  BY DEF ThawFinally, Place, managerVars, Gathered
<1>2. Shift(t, "clear") /\ state' = "running"
  <2>1. /\ Moved(t, "clear") /\ state' = "running"
        /\ writes' \subseteq [by : Tasks, value : CoreStates]
    BY <1>1, ThawShift, SetStateMoves DEF CoreStates
  <2>2. Allowed(t, "clear") /\ "running" \in CoreStates
    BY ThawShift DEF CoreStates
  <2> QED
    BY <1>1, ThawShift, <2>1, <2>2 DEF Shift, CoreUnsaved
<1>3. /\ Base' /\ StartOver /\ StartOver'
      /\ Place(t)' = "clear" /\ \A u \in Tasks \ {t} : Place(u)' = Place(u)
      /\ \A u \in Managers : Place(u)' = Place(u)
      /\ Alone' <=> Alone
  <2>1. UNCHANGED <<lock, AppVars>> /\ Place(t) # "idle"
    BY <1>1 DEF AppVars
  <2>2. thawTask' \in Thaws \cup {NoTask} /\ thawEvent' \in BOOLEAN
    BY <1>1, ThawShift DEF DataTypes
  <2> QED
    BY <1>2, <2>1, <2>2, ThawGoesOn
<1>4. SUFFICES ASSUME Calm
               PROVE  Calm' /\ (Undo => Undo')
  BY <1>3 DEF IInv
<1>5. \A u \in Thaws \ {t} : Place(u)' = Place(u)
  BY <1>3
<1>6. Active(t) /\ ~Alone /\ ~Stuck
  BY <1>1, <1>4 DEF Active, Calm, Apart, Stuck
<1>7. \A u \in Thaws : ~Active(u)' /\ (u # t => ~Active(u))
  BY <1>3, <1>4, <1>5, <1>6 DEF Active, Calm, Apart
<1>8. Apart'
  <2>1. \A f \in Freezes : Place(f)' # "query"
    BY <1>3, <1>6 DEF Alone, Managers
  <2>2. \A o \in Backups : Place(o)' # "work"
    BY <1>3, <1>6 DEF Alone, Managers
  <2> QED
    BY <1>7, <2>1, <2>2 DEF Apart
<1>9. Answered'
  <2>1. thawTask # NoTask => Active(thawTask)' \/ Place(thawTask)' = "clear"
    <3>1. thawTask # NoTask => thawTask \in Thaws
      BY ThawShift DEF DataTypes
    <3>2. ASSUME NEW w \in Thaws, w = thawTask
          PROVE  Place(w)' = "clear"
      <4>1. w = t \/ Place(w) = "clear"
        BY <1>4, <1>6, <1>7, <3>2, KindsApart DEF Calm, Answered, BackupAssumption
      <4> QED
        BY <1>3, <1>5, <4>1
    <3> QED
      BY <1>1, <3>1, <3>2
  <2>2. thawEvent => \E w \in ThawCalls : Place(w)' = "await thaw"
    BY <1>3, <1>4, <1>6 DEF Calm, Answered, Managers
  <2> QED
    BY <1>1, <1>3, <2>1, <2>2 DEF Answered
<1>10. ASSUME Undo
       PROVE  Undo'
  <2>1. UNCHANGED <<app, sub>>
    BY <1>1
  <2>2. \A f \in Freezes : Place(f)' = Place(f)
    BY <1>3 DEF Managers
  <2>3. ASSUME NEW u \in Thaws
        PROVE  /\ Place(u) \in {"thaw", "thaw wait", "done"} =>
                    Place(u)' \in {"thaw", "thaw wait", "done"}
               /\ Place(u)' \in {"clear", "done"} => Place(u) \in {"clear", "done"} \/ u = t
    BY <1>1, <1>5
  <2> QED
    BY <1>1, <1>6, <1>10, <2>1, <2>2, <2>3, UndoKept
<1> QED
  BY <1>8, <1>9, <1>10 DEF Calm

LEMMA ClearKeeps ==
  ASSUME Facts, NEW t \in Thaws, Clear(t)
  PROVE  IInv'
<1> USE KindsApart DEF Facts
<1>1. /\ Place(t) = "clear" /\ Goto(t, "done") /\ UNCHANGED <<state, writes, after>>
      /\ thawTask' = NoTask /\ thawEvent' = FALSE
      /\ UNCHANGED <<CoreUnsaved, lock, app, appLock, sub>>
  BY DEF Clear, Place, CoreKept, AppVars
<1>2. Shift(t, "done")
  <2>1. Moved(t, "done") /\ Allowed(t, "done") /\ DataTypes
    BY <1>1, ThawShift, GotoMoves
  <2> QED
    BY <1>1, ThawShift, <2>1 DEF Shift, DataTypes, CoreUnsaved
<1>3. /\ Base' /\ StartOver /\ StartOver'
      /\ Place(t)' = "done" /\ \A u \in Tasks \ {t} : Place(u)' = Place(u)
      /\ \A u \in Managers : Place(u)' = Place(u)
      /\ Alone' <=> Alone
  <2>1. UNCHANGED <<lock, AppVars>> /\ Place(t) # "idle"
    BY <1>1 DEF AppVars
  <2> QED
    BY <1>1, <1>2, <2>1, ThawGoesOn
<1>4. SUFFICES ASSUME Calm
               PROVE  Calm' /\ (Undo => Undo')
  BY <1>3 DEF IInv
<1>5. \A u \in Thaws \ {t} : Place(u)' = Place(u)
  BY <1>3
<1>6. \A u \in Thaws : Active(u)' <=> Active(u)
  BY <1>1, <1>3, <1>5 DEF Active
<1>7. Stuck => Stuck'
  BY <1>1, <1>3, <1>6 DEF Stuck
<1>8. Apart'
  BY <1>1, <1>3, <1>4, <1>6 DEF Calm, Apart, Managers
<1>9. Answered'
  BY <1>1 DEF Answered
<1>10. Undo => Undo'
  <2>1. UNCHANGED <<app, sub>>
    BY <1>1
  <2>2. \A f \in Freezes : Place(f)' = Place(f)
    BY <1>3 DEF Managers
  <2>3. ASSUME NEW u \in Thaws
        PROVE  /\ Place(u) \in {"thaw", "thaw wait", "done"} =>
                    Place(u)' \in {"thaw", "thaw wait", "done"}
               /\ Place(u)' \in {"clear", "done"} => Place(u) \in {"clear", "done"}
    BY <1>1, <1>5
  <2> QED
    BY <1>7, <2>1, <2>2, <2>3, UndoKept
<1> QED
  BY <1>8, <1>9, <1>10 DEF Calm

(* thaw_all sets the event for a thaw task that is there, and leaves when  *)
(* none is.                                                                *)
LEMMA ThawCallsKeep ==
  ASSUME Facts, NEW w \in Managers, ThawCall(w) \/ ThawAwaited(w)
  PROVE  IInv'
<1> USE KindsApart DEF Facts
<1>1. PICK place \in {"await thaw", "done"} :
        /\ Goto(w, place) /\ UNCHANGED <<state, writes, after, CoreUnsaved, thawTask, AppVars>>
        /\ IF place = "done"
             THEN /\ Place(w) = "await thaw" /\ \A t \in Thaws : Place(t) \in {"idle", "done"}
                  /\ lock' = NoTask /\ thawEvent' = thawEvent
             ELSE /\ w \in ThawCalls /\ Place(w) = "idle" /\ state = "freeze"
                  /\ thawTask # NoTask /\ lock = NoTask /\ lock' = w /\ thawEvent' = TRUE
  <2>1. CASE ThawCall(w)
    BY <2>1 DEF ThawCall, Acquire, Place, CoreKept
  <2>2. CASE ThawAwaited(w)
    <3>1. Place(w) = "await thaw" /\ \A t \in Thaws : Place(t) \in {"idle", "done"}
      BY <2>2 DEF ThawAwaited, Place
    <3>2. w \notin Backups \cup Restores
      BY <3>1 DEF IInv, Base, Roles, Allowed, Managers, BackupPlaces
    <3> QED
      BY <2>2, <3>1, <3>2 DEF ThawAwaited, Release, CoreKept, ThawVars
  <2> QED
    BY <2>1, <2>2
<1>2. /\ w \in ThawCalls /\ w \notin Freezes \cup Thaws \cup Backups \cup Restores
      /\ w \in Others /\ DataTypes /\ StartOver
  <2>1. w \in ThawCalls
    BY <1>1 DEF IInv, Base, Roles, Allowed, Managers, BackupPlaces, FreezePlaces
  <2>2. w \in Others /\ DataTypes /\ (state = "freeze" \/ Place(w) # "idle")
    BY <1>1 DEF Managers, IInv, Base
  <2> QED
    BY <2>1, <2>2 DEF BackupAssumption, IInv, Base, Started
<1>3. Shift(w, place)
  <2>1. Moved(w, place) /\ Allowed(w, place)
    <3>1. place \in AllPlaces \ {"saving"} /\ Allowed(w, place)
      BY <1>2, PlacesKnown DEF Allowed, FreezePlaces
    <3> QED
      BY <1>1, <1>2, <3>1, GotoMoves
  <2> QED
    BY <1>1, <1>2, <2>1 DEF Shift, Goto, DataTypes, CoreUnsaved
<1>4. LockShift(w, place)
  BY <1>1, <1>2 DEF LockShift, Holding, IInv, Base, Locked
<1>5. /\ Base' /\ StartOver'
      /\ Place(w)' = place /\ \A u \in Tasks \ {w} : Place(u)' = Place(u)
  BY <1>1, <1>2, <1>3, <1>4, ShiftKeeps DEF DataTypes
<1>6. SUFFICES ASSUME Calm
               PROVE  Calm' /\ (Undo => Undo')
  BY <1>5 DEF IInv
<1>7. \A u \in Freezes \cup Backups \cup Thaws : Place(u)' = Place(u)
  BY <1>2, <1>5
<1>8. (\A t \in Thaws : Active(t)' <=> Active(t)) /\ (Alone' <=> Alone)
  BY <1>7 DEF Active, Alone
<1>9. Stuck => Stuck'
  BY <1>1, <1>5, <1>8 DEF Stuck
<1>10. Apart'
  BY <1>1, <1>6, <1>7, <1>8 DEF Calm, Apart
<1>11. Answered'
  <2>1. ASSUME NEW t \in Thaws, t = thawTask
        PROVE  Active(t)' \/ Place(t)' = "clear" \/ Stuck'
    BY <1>6, <1>7, <1>8, <1>9, <2>1, KindsApart DEF Calm, Answered, BackupAssumption
  <2>2. thawTask' = thawTask /\ (thawTask # NoTask => thawTask \in Thaws)
    BY <1>1, <1>2 DEF DataTypes
  <2>3. thawTask' # NoTask => Active(thawTask)' \/ Place(thawTask)' = "clear" \/ Stuck'
    BY <2>1, <2>2
  <2>4. CASE place = "done"
    <3>1. \A t \in Thaws : ~Active(t) /\ Place(t) # "clear"
      BY <1>1, <2>4 DEF Active
    <3>2. thawEvent => Stuck
      BY <1>6, <3>1 DEF Calm, Answered
    <3>3. thawEvent' => Stuck'
      BY <1>1, <1>9, <2>4, <3>2
    <3> QED
      BY <2>3, <3>3 DEF Answered
  <2>5. CASE place = "await thaw"
    <3>1. ~Stuck /\ thawTask \in Thaws
      BY <1>1, <2>2, <2>5 DEF Stuck, ClosingStates
    <3>2. Active(thawTask) \/ Place(thawTask) = "clear"
      BY <1>1, <1>6, <2>5, <3>1 DEF Calm, Answered
    <3>3. \E t \in Thaws : Active(t)' \/ Place(t)' = "clear"
      BY <1>7, <1>8, <3>1, <3>2
    <3>4. \E u \in ThawCalls : Place(u)' = "await thaw"
      BY <1>2, <1>5, <2>5
    <3> QED
      BY <2>3, <3>3, <3>4 DEF Answered
  <2> QED
    BY <2>4, <2>5
<1>12. Undo => Undo'
  <2>1. UNCHANGED <<app, sub>>
    BY <1>1 DEF AppVars
  <2> QED
    BY <1>7, <1>9, <2>1, UndoKept
<1> QED
  BY <1>10, <1>11, <1>12 DEF Calm

-----------------------------------------------------------------------------
(* The calls on the apps                                                   *)

(* No task moves: only what is known of the apps can change.               *)
LEMMA AppFrame ==
  ASSUME Facts, UNCHANGED <<coreVars, lock, ThawVars>>,
         DataTypes', AppLocks', Restores = {} /\ ~earlyTimeout => Undo'
  PROVE  IInv'
<1>1. UNCHANGED <<state, pc, after, lock, thawTask, thawEvent>>
  BY DEF coreVars, ThawVars
<1>2. Roles' /\ Started' /\ Locked'
  BY <1>1 DEF Facts, IInv, Base, Roles, Allowed, Started, StartOver, Locked, Place
<1>4. Saveless'
  BY <1>1 DEF Facts, IInv, Base, Saveless
<1>3. Calm => Calm'
  <2>1. Apart => Apart'
    BY <1>1 DEF Apart, Active, Alone, Place
  <2>2. Answered => Answered'
    BY <1>1 DEF Answered, Active, Alone, Stuck, StartOver, Place
  <2> QED
    BY <2>1, <2>2 DEF Calm
<1> QED
  BY <1>2, <1>3, <1>4 DEF Facts, IInv, Base

\* The call on app a that x has gathered is now at r, and nothing else about calls.
Called(x, a, r) ==
  /\ sub' \in [Freezes \cup Thaws -> [Apps -> SubStates]]
  /\ sub'[x][a] = r
  /\ \A y \in Freezes \cup Thaws, b \in Apps :
       y # x \/ b # a => sub'[y][b] = sub[y][b]

LEMMA SetSubCalls ==
  ASSUME DataTypes, NEW x \in Freezes \cup Thaws, NEW a \in Apps, NEW r \in SubStates,
         SetSub(x, a, r)
  PROVE  Called(x, a, r)
BY DEF SetSub, Called, DataTypes

(* The lock of app a changes hands with the call on it.                    *)
LEMMA CallLocks ==
  ASSUME Facts, NEW x \in Freezes \cup Thaws, NEW a \in Apps, NEW r \in SubStates,
         Called(x, a, r), UNCHANGED <<coreVars, lock, ThawVars>>,
         app' \in [Apps -> {"running", "stopped", "frozen"}],
         Place(x) \notin {"idle", "query"} \/ r = "none",
         \/ appLock' = appLock /\ sub[x][a] # "acting" /\ r # "acting"
         \/ appLock[a] = NoTask /\ appLock' = [appLock EXCEPT ![a] = x] /\ r = "acting"
         \/ sub[x][a] = "acting" /\ appLock' = [appLock EXCEPT ![a] = NoTask] /\ r # "acting"
  PROVE  DataTypes' /\ AppLocks'
<1> USE DEF Facts
<1>1. DataTypes /\ AppLocks
  BY DEF IInv, Base
<1>2. UNCHANGED <<state, runFile, writes, pc, after, shutdownEvent, watchdog, stopped>>
      /\ UNCHANGED <<lock, thawTask, thawEvent>>
  BY DEF coreVars, ThawVars
<1>3. appLock' \in [Apps -> Freezes \cup Thaws \cup {User, NoTask}]
  BY <1>1 DEF DataTypes
<1>4. DataTypes'
  BY <1>1, <1>2, <1>3 DEF DataTypes, Called
<1>5. NoTask \notin Freezes \cup Thaws
  BY DEF BackupAssumption, Tasks, Managers
<1>6. ASSUME NEW y \in Freezes \cup Thaws, NEW b \in Apps
      PROVE  appLock'[b] = y <=> sub'[y][b] = "acting"
  <2>1. appLock[b] = y <=> sub[y][b] = "acting"
    BY <1>1 DEF AppLocks
  <2>2. appLock[a] = x <=> sub[x][a] = "acting"
    BY <1>1 DEF AppLocks
  <2> QED
    BY <1>1, <1>5, <2>1, <2>2 DEF Called, DataTypes
<1>7. \A u : Place(u)' = Place(u)
  BY <1>2 DEF Place
<1>8. ASSUME NEW f \in Freezes, NEW b \in Apps, Place(f)' \in {"idle", "query"}
      PROVE  sub'[f][b] = "none"
  BY <1>1, <1>7, <1>8 DEF AppLocks, Called
<1>9. ASSUME NEW t \in Thaws, NEW b \in Apps, Place(t)' = "idle"
      PROVE  sub'[t][b] = "none"
  BY <1>1, <1>7, <1>9 DEF AppLocks, Called
<1>10. AppLocks'
  BY <1>6, <1>8, <1>9 DEF AppLocks
<1> QED
  BY <1>4, <1>10

(* A call changes what is still to undo.                                   *)
LEMMA CallUndo ==
  ASSUME Facts, Undo, NEW x \in Freezes \cup Thaws, NEW a \in Apps, NEW r \in SubStates \ {"todo"},
         Called(x, a, r), UNCHANGED coreVars,
         \* A call begins its app while its thaw task is still to end it.
         x \in Freezes => sub[x][a] \in {"todo", "acting"},
         x \in Freezes /\ r = "acting" => Place(x) = "begin" /\ sub[x][a] = "todo",
         \* A thaw task ends it when its freeze is over.
         x \in Thaws => Place(x) \notin {"thaw", "thaw wait", "done"} \/ sub[x][a] # "todo",
         x \in Thaws => r = "raised" \/ \A f \in Freezes : sub[f][a] # "acting",
         \A b \in Apps : app'[b] = "frozen" =>
            \/ app[b] = "frozen" /\ (x \in Thaws /\ b = a => r \in {"acting", "raised"})
            \/ b = a /\ x \in Freezes /\ sub[x][a] = "acting"
  PROVE  Undo'
<1> USE DEF Facts
<1>1. UNCHANGED <<state, pc, after>> /\ \A u : Place(u)' = Place(u)
  BY DEF coreVars, Place
<1>2. Stuck' <=> Stuck
  BY <1>1 DEF Stuck, StartOver, Alone, Active, Place
<1>3. ASSUME NEW f \in Freezes
      PROVE  f \notin Thaws
  BY DEF BackupAssumption, Managers
<1>4. (\A f \in Freezes, b \in Apps :
         Place(f) \in {"inform", "begin"} /\ sub[f][b] = "todo" =>
           \E t \in Thaws : Place(t) \in {"thaw", "thaw wait", "done"} /\ sub[t][b] = "todo")'
  <2>1. ASSUME NEW f \in Freezes, NEW b \in Apps,
               Place(f)' \in {"inform", "begin"}, sub'[f][b] = "todo"
        PROVE  \E t \in Thaws : Place(t)' \in {"thaw", "thaw wait", "done"} /\ sub'[t][b] = "todo"
    <3>1. Place(f) \in {"inform", "begin"} /\ sub[f][b] = "todo"
      BY <1>1, <2>1 DEF Called
    <3>2. PICK t \in Thaws : Place(t) \in {"thaw", "thaw wait", "done"} /\ sub[t][b] = "todo"
      BY <3>1 DEF Undo
    <3>3. t # x \/ b # a
      BY <3>2
    <3> QED
      BY <1>1, <3>2, <3>3 DEF Called
  <2> QED
    BY <2>1
<1>5. (\A f \in Freezes, b \in Apps :
         sub[f][b] = "acting" => \E t \in Thaws : sub[t][b] \in {"todo", "raised"})'
  <2>1. ASSUME NEW f \in Freezes, NEW b \in Apps, sub'[f][b] = "acting"
        PROVE  \E t \in Thaws : sub'[t][b] \in {"todo", "raised"}
    <3>1. PICK t \in Thaws : sub[t][b] \in {"todo", "raised"}
      <4>1. CASE sub[f][b] = "acting"
        BY <4>1 DEF Undo
      <4>2. CASE sub[f][b] # "acting"
        <5>1. f = x /\ b = a /\ r = "acting"
          BY <2>1, <4>2 DEF Called
        <5> QED
          BY <5>1 DEF Undo
      <4> QED
        BY <4>1, <4>2
    <3>2. CASE t = x /\ b = a
      <4>1. f # x /\ sub[f][a] = "acting"
        BY <1>3, <2>1, <3>2 DEF Called
      <4> QED
        BY <3>2, <4>1 DEF Called
    <3>3. CASE t # x \/ b # a
      BY <3>1, <3>3 DEF Called
    <3> QED
      BY <3>2, <3>3
  <2> QED
    BY <2>1
<1>6. (\A b \in Apps :
         app[b] = "frozen" => \E t \in Thaws : sub[t][b] \in {"todo", "acting", "raised"})'
  <2>1. ASSUME NEW b \in Apps, app'[b] = "frozen"
        PROVE  \E t \in Thaws : sub'[t][b] \in {"todo", "acting", "raised"}
    <3>1. CASE app[b] = "frozen" /\ (x \in Thaws /\ b = a => r \in {"acting", "raised"})
      <4>1. PICK t \in Thaws : sub[t][b] \in {"todo", "acting", "raised"}
        BY <3>1 DEF Undo
      <4> QED
        BY <3>1, <4>1 DEF Called
    <3>2. CASE b = a /\ x \in Freezes /\ sub[x][a] = "acting"
      <4>1. PICK t \in Thaws : sub[t][a] \in {"todo", "raised"}
        BY <3>2 DEF Undo
      <4> QED
        BY <1>3, <3>2, <4>1 DEF Called
    <3> QED
      BY <2>1, <3>1, <3>2
  <2> QED
    BY <2>1
<1>7. (\A t \in Thaws, b \in Apps :
         Place(t) \in {"clear", "done"} /\ sub[t][b] = "todo" => Stuck)'
  <2>1. ASSUME NEW t \in Thaws, NEW b \in Apps,
               Place(t)' \in {"clear", "done"}, sub'[t][b] = "todo"
        PROVE  Stuck'
    <3>1. sub[t][b] = "todo"
      BY <2>1 DEF Called
    <3> QED
      BY <1>1, <1>2, <2>1, <3>1 DEF Undo
  <2> QED
    BY <2>1
<1> QED
  BY <1>4, <1>5, <1>6, <1>7 DEF Undo

(* Where the calls of a freeze or a thaw task run.                         *)
LEMMA CallPlaces ==
  ASSUME Facts, NEW x \in Freezes \cup Thaws, NEW a \in Apps
  PROVE  /\ DataTypes /\ AppLocks /\ (appLock[a] = x <=> sub[x][a] = "acting")
         /\ pc[x] \in {"begin", "end"} /\ x \in Freezes => Place(x) = "begin"
         /\ pc[x] \in {"begin", "end"} /\ x \in Thaws => Place(x) = "end"
         /\ sub[x][a] # "none" => Place(x) # "idle" /\ (x \in Freezes => Place(x) # "query")
         /\ x \in Thaws => Place(x) # "query"
         /\ appLock[a] = NoTask \/ appLock[a] = x =>
              \A y \in Freezes \cup Thaws : y # x => sub[y][a] # "acting"
<1>1. x \in Others /\ (x \in Freezes <=> x \notin Thaws) /\ NoTask \notin Freezes \cup Thaws
  BY KindsApart DEF Facts, BackupAssumption, Managers, Tasks
<1>2. DataTypes /\ AppLocks /\ Allowed(x, Place(x))
  BY <1>1, KindsApart DEF Facts, IInv, Base, Roles
<1>3. pc[x] \in {"begin", "end"} => Place(x) = pc[x]
  BY DEF Place
<1>4. (x \in Freezes => Place(x) # "end") /\ (x \in Thaws => Place(x) \notin {"begin", "query"})
  BY <1>2 DEF Allowed, FreezePlaces, ThawPlaces
<1>5. sub[x][a] # "none" => Place(x) # "idle" /\ (x \in Freezes => Place(x) # "query")
  BY <1>1, <1>2 DEF AppLocks
<1>6. appLock[a] = NoTask \/ appLock[a] = x =>
        \A y \in Freezes \cup Thaws : y # x => sub[y][a] # "acting"
  BY <1>1, <1>2 DEF AppLocks
<1>7. appLock[a] = x <=> sub[x][a] = "acting"
  BY <1>2 DEF AppLocks
<1> QED
  BY <1>1, <1>2, <1>3, <1>4, <1>5, <1>6, <1>7

LEMMA SubStartKeeps ==
  ASSUME Facts, NEW x \in Freezes \cup Thaws, NEW a \in Apps, SubStart(x, a)
  PROVE  IInv'
<1>1. /\ sub[x][a] = "todo" /\ pc[x] \in {"begin", "end"}
      /\ UNCHANGED <<coreVars, lock, ThawVars>> /\ UNCHANGED app
  BY DEF SubStart
<1>2. DataTypes /\ Place(x) \in {"begin", "end"} /\ (x \in Thaws => Place(x) = "end")
      /\ (x \in Freezes => Place(x) = "begin")
  BY <1>1, CallPlaces
<1>3. app' \in [Apps -> {"running", "stopped", "frozen"}]
  BY <1>1, <1>2 DEF DataTypes
<1>4. CASE /\ appLock[a] = NoTask /\ SetSub(x, a, "acting")
           /\ appLock' = [appLock EXCEPT ![a] = x]
  <2>1. Called(x, a, "acting")
    BY <1>2, <1>4, SetSubCalls DEF SubStates
  <2>2. DataTypes' /\ AppLocks'
    BY <1>1, <1>2, <1>3, <1>4, <2>1, CallLocks DEF SubStates
  <2>3. \A f \in Freezes : sub[f][a] # "acting"
    BY <1>1, <1>4, CallPlaces
  <2>4. Undo => Undo'
    BY <1>1, <1>2, <2>1, <2>3, CallUndo DEF SubStates
  <2> QED
    BY <1>1, <2>2, <2>4, AppFrame DEF Facts, IInv
<1>5. CASE SetSub(x, a, "raised") /\ UNCHANGED appLock
  <2>1. Called(x, a, "raised")
    BY <1>2, <1>5, SetSubCalls DEF SubStates
  <2>2. DataTypes' /\ AppLocks'
    BY <1>1, <1>2, <1>3, <1>5, <2>1, CallLocks DEF SubStates
  <2>3. Undo => Undo'
    BY <1>1, <1>2, <2>1, CallUndo DEF SubStates
  <2> QED
    BY <1>1, <2>2, <2>3, AppFrame DEF Facts, IInv
<1> QED
  BY <1>4, <1>5 DEF SubStart, LockApp

\* A running call of x on app a ends with r.
CallEnds(x, a, r) ==
  /\ sub[x][a] = "acting" /\ SetSub(x, a, r) /\ FreeApp(a)
  /\ UNCHANGED <<coreVars, lock, ThawVars>>

LEMMA CallEndsLocks ==
  ASSUME Facts, NEW x \in Freezes \cup Thaws, NEW a \in Apps,
         NEW r \in {"ok", "not running", "raised"}, CallEnds(x, a, r),
         app' \in [Apps -> {"running", "stopped", "frozen"}]
  PROVE  DataTypes' /\ AppLocks' /\ Called(x, a, r)
<1>1. DataTypes /\ r \in SubStates
  BY DEF Facts, IInv, Base, SubStates
<1>2. Called(x, a, r)
  BY <1>1, SetSubCalls DEF CallEnds
<1>3. Place(x) \notin {"idle", "query"}
  BY CallPlaces DEF CallEnds
<1> QED
  BY <1>1, <1>2, <1>3, CallLocks DEF CallEnds, FreeApp

LEMMA BeginDoneKeeps ==
  ASSUME Facts, NEW x \in Freezes \cup Thaws, NEW a \in Apps, BeginDone(x, a)
  PROVE  IInv'
<1>1. PICK r \in {"ok", "not running", "raised"} :
        /\ x \in Freezes /\ CallEnds(x, a, r)
        /\ app' = app \/ app' = [app EXCEPT ![a] = "frozen"]
  BY DEF BeginDone, CallEnds
<1>2. DataTypes /\ x \notin Thaws /\ sub[x][a] = "acting"
  BY <1>1 DEF Facts, IInv, Base, BackupAssumption, Managers, CallEnds
<1>3. app' \in [Apps -> {"running", "stopped", "frozen"}]
  BY <1>1, <1>2 DEF DataTypes
<1>4. DataTypes' /\ AppLocks' /\ Called(x, a, r)
  BY <1>1, <1>3, CallEndsLocks
<1>5. Undo => Undo'
  <2>1. r \in SubStates \ {"todo"} /\ r # "acting" /\ UNCHANGED coreVars
    BY <1>1 DEF SubStates, CallEnds
  <2>2. \A b \in Apps : app'[b] = "frozen" => app[b] = "frozen" \/ b = a
    BY <1>1, <1>2 DEF DataTypes
  <2> QED
    BY <1>1, <1>2, <1>4, <2>1, <2>2, CallUndo
<1> QED
  BY <1>1, <1>4, <1>5, AppFrame DEF CallEnds, Facts, IInv

LEMMA EndDoneKeeps ==
  ASSUME Facts, NEW x \in Freezes \cup Thaws, NEW a \in Apps, EndDone(x, a)
  PROVE  IInv'
<1>1. PICK r \in {"ok", "raised"} :
        /\ x \in Thaws /\ CallEnds(x, a, r)
        /\ \/ r = "raised" /\ app' = app
           \/ app' = [app EXCEPT ![a] = "running"]
  BY DEF EndDone, CallEnds
<1>2. DataTypes /\ x \notin Freezes /\ sub[x][a] = "acting"
  BY <1>1 DEF Facts, IInv, Base, BackupAssumption, Managers, CallEnds
<1>3. app' \in [Apps -> {"running", "stopped", "frozen"}]
  BY <1>1, <1>2 DEF DataTypes
<1>4. DataTypes' /\ AppLocks' /\ Called(x, a, r)
  BY <1>1, <1>3, CallEndsLocks
<1>5. Undo => Undo'
  <2>1. r \in SubStates \ {"todo"} /\ r # "acting" /\ UNCHANGED coreVars
    BY <1>1 DEF SubStates, CallEnds
  <2>2. \A f \in Freezes : sub[f][a] # "acting"
    BY <1>2, CallPlaces
  <2>3. \A b \in Apps : app'[b] = "frozen" => app[b] = "frozen" /\ (b = a => r = "raised")
    BY <1>1, <1>2 DEF DataTypes
  <2> QED
    BY ZenonT(30), <1>1, <1>2, <1>4, <2>1, <2>2, <2>3, CallUndo
<1> QED
  BY <1>1, <1>4, <1>5, AppFrame DEF CallEnds, Facts, IInv

(* Others start and stop the app.                                          *)
LEMMA UserKeeps ==
  ASSUME Facts, NEW a \in Apps, UserStart(a) \/ UserDone(a)
  PROVE  IInv'
<1>1. /\ UNCHANGED <<coreVars, lock, ThawVars, sub>>
      /\ \/ appLock[a] = NoTask /\ appLock' = [appLock EXCEPT ![a] = User] /\ app' = app
         \/ /\ appLock[a] = User /\ appLock' = [appLock EXCEPT ![a] = NoTask]
            /\ \E s \in {"running", "stopped", app[a]} : app' = [app EXCEPT ![a] = s]
  BY DEF UserStart, UserDone, LockApp, FreeApp
<1>2. DataTypes /\ AppLocks
  BY DEF Facts, IInv, Base
<1>3. UNCHANGED <<state, runFile, writes, pc, after, shutdownEvent, watchdog, stopped>>
      /\ UNCHANGED <<lock, thawTask, thawEvent, sub>>
  BY <1>1 DEF coreVars, ThawVars
<1>4. /\ appLock' \in [Apps -> Freezes \cup Thaws \cup {User, NoTask}]
      /\ app' \in [Apps -> {"running", "stopped", "frozen"}]
      /\ \A b \in Apps : app'[b] = "frozen" => app[b] = "frozen"
  BY <1>1, <1>2 DEF DataTypes
<1>5. DataTypes'
  BY <1>2, <1>3, <1>4 DEF DataTypes
<1>6. {User, NoTask} \cap (Freezes \cup Thaws) = {}
  BY KindsApart DEF Facts, BackupAssumption, Managers, Tasks
<1>7. AppLocks'
  <2>1. ASSUME NEW y \in Freezes \cup Thaws, NEW b \in Apps
        PROVE  appLock'[b] = y <=> sub'[y][b] = "acting"
    <3>1. appLock[b] = y <=> sub[y][b] = "acting"
      BY <1>2 DEF AppLocks
    <3>2. appLock'[b] = y <=> appLock[b] = y
      BY <1>1, <1>2, <1>6 DEF DataTypes
    <3> QED
      BY <1>3, <3>1, <3>2
  <2>2. \A u : Place(u)' = Place(u)
    BY <1>3 DEF Place
  <2> QED
    BY <1>2, <1>3, <2>1, <2>2 DEF AppLocks
<1>8. ASSUME Undo
      PROVE  Undo'
  <2>1. \A u : Place(u)' = Place(u)
    BY <1>3 DEF Place
  <2>2. Stuck' <=> Stuck
    BY <1>3 DEF Stuck, StartOver, Alone, Active, Place
  <2>3. (\A b \in Apps :
           app[b] = "frozen" => \E t \in Thaws : sub[t][b] \in {"todo", "acting", "raised"})'
    BY <1>3, <1>4, <1>8 DEF Undo
  <2>4. (\A f \in Freezes, b \in Apps :
           Place(f) \in {"inform", "begin"} /\ sub[f][b] = "todo" =>
             \E t \in Thaws : Place(t) \in {"thaw", "thaw wait", "done"} /\ sub[t][b] = "todo")'
    BY <1>3, <1>8, <2>1 DEF Undo
  <2>5. (\A f \in Freezes, b \in Apps :
           sub[f][b] = "acting" => \E t \in Thaws : sub[t][b] \in {"todo", "raised"})'
    BY <1>3, <1>8 DEF Undo
  <2>6. (\A t \in Thaws, b \in Apps :
           Place(t) \in {"clear", "done"} /\ sub[t][b] = "todo" => Stuck)'
    BY <1>3, <1>8, <2>1, <2>2 DEF Undo
  <2> QED
    BY <2>3, <2>4, <2>5, <2>6 DEF Undo
<1> QED
  BY <1>1, <1>5, <1>7, <1>8, AppFrame DEF Facts, IInv

-----------------------------------------------------------------------------
(* The invariant                                                           *)

LEMMA ManagerKeeps ==
  ASSUME Facts, ManagerNext
  PROVE  IInv'
<1>1. ASSUME NEW o \in Managers,
             BackupCall(o) \/ RestoreCall(o) \/ FreezeCall(o) \/ ThawCall(o) \/ ManagerStep(o)
      PROVE  IInv'
  <2>1. CASE \/ BackupCall(o) \/ RestoreCall(o) \/ RestoreEnter(o) \/ ChecksPassed(o)
             \/ ChecksFailed(o) \/ WorkDone(o) \/ Leave(o)
    BY <2>1, BackupStep
  <2>2. CASE FreezeCall(o)
    BY <2>2, FreezeCallKeeps
  <2>3. CASE \E t \in Thaws : QueryApps(o, t)
    BY <2>3, QueryAppsKeeps
  <2>4. CASE QueryFailed(o) \/ Inform(o) \/ InformFailed(o) \/ FreezeDone(o)
    BY <2>4, FreezeEnds
  <2>5. CASE ThawCall(o) \/ ThawAwaited(o)
    BY <2>5, ThawCallsKeep
  <2> QED
    BY <1>1, <2>1, <2>2, <2>3, <2>4, <2>5 DEF ManagerStep
<1>2. ASSUME NEW t \in Thaws, ThawStep(t)
      PROVE  IInv'
  BY <1>2, ThawStartKeeps, ThawBeginsKeeps, ThawFinallyKeeps, ClearKeeps DEF ThawStep
<1>3. ASSUME NEW a \in Apps, AppStep(a) \/ UserStart(a) \/ UserDone(a)
      PROVE  IInv'
  <2>1. CASE AppStep(a)
    BY <2>1, SubStartKeeps, BeginDoneKeeps, EndDoneKeeps DEF AppStep
  <2>2. CASE UserStart(a) \/ UserDone(a)
    BY <2>2, UserKeeps
  <2> QED
    BY <1>3, <2>1, <2>2
<1> QED
  BY <1>1, <1>2, <1>3 DEF ManagerNext

LEMMA InitOK ==
  ASSUME TasksAssumption, BackupAssumption, MInit
  PROVE  IInv
<1>1. /\ state = "initialize" /\ writes = {} /\ pc = [t \in Tasks |-> "idle"]
      /\ after = [t \in Tasks |-> "idle"] /\ lock = NoTask /\ thawTask = NoTask
      /\ thawEvent = FALSE
      /\ app \in [Apps -> {"running", "stopped"}] /\ appLock = [a \in Apps |-> NoTask]
      /\ sub = [x \in Freezes \cup Thaws |-> [a \in Apps |-> "none"]]
  BY DEF MInit, Init
<1>2. \A t \in Tasks : Place(t) = "idle"
  BY <1>1 DEF Place
<1>3. DataTypes
  <2>1. "idle" \in AllPlaces \ {"saving"} /\ "none" \in SubStates
    BY DEF AllPlaces, ManagerPlaces, SubStates
  <2>2. runFile \in CoreStates /\ state \in CoreStates
    BY DEF MInit, Init, CoreStates
  <2>3. shutdownEvent \in BOOLEAN /\ watchdog \in BOOLEAN /\ stopped \in BOOLEAN
    BY DEF MInit, Init
  <2>4. app \in [Apps -> {"running", "stopped", "frozen"}]
    BY <1>1
  <2>5. appLock \in [Apps -> Freezes \cup Thaws \cup {User, NoTask}]
        /\ sub \in [Freezes \cup Thaws -> [Apps -> SubStates]]
    BY <1>1, <2>1
  <2>6. pc \in [Tasks -> AllPlaces] /\ after \in [Tasks -> AllPlaces \ {"saving"}]
    BY <1>1, <2>1
  <2> QED
    BY <1>1, <2>2, <2>3, <2>4, <2>5, <2>6 DEF DataTypes
<1>4. Roles
  <2>1. \A t \in Tasks : Allowed(t, "idle")
    BY DEF Allowed, StartPlaces, RebootPlaces, SignalPlaces, BackupPlaces, FreezePlaces,
           ThawPlaces
  <2> QED
    BY <1>2, <2>1 DEF Roles
<1>5. Managers \cup Thaws \subseteq Tasks /\ NoTask \notin Managers \cup Thaws
  BY DEF BackupAssumption, Tasks
<1>6. Freezes \cup Backups \cup ThawCalls \subseteq Tasks
  BY <1>5 DEF Managers
<1>saveless. Saveless
  BY <1>1, <1>6 DEF Saveless
<1>7. Started
  BY <1>1, <1>2 DEF Started, Tasks
<1>8. Locked
  BY <1>1, <1>2, <1>5 DEF Locked, Holding
<1>9. AppLocks
  BY <1>1, <1>5 DEF AppLocks, Managers
<1>10. Calm
  <2>1. \A t \in Thaws : ~Active(t)
    BY <1>2, <1>5 DEF Active
  <2>2. \A x \in Freezes \cup Backups : Place(x) = "idle"
    BY <1>2, <1>6
  <2> QED
    BY <1>1, <2>1, <2>2 DEF Calm, Apart, Answered
<1>11. Undo
  <2>1. \A f \in Freezes, a \in Apps : sub[f][a] = "none"
    BY <1>1
  <2>2. \A t \in Thaws, a \in Apps : sub[t][a] = "none"
    BY <1>1
  <2>3. \A a \in Apps : app[a] # "frozen"
    BY <1>1
  <2> QED
    BY <2>1, <2>2, <2>3 DEF Undo
<1> QED
  BY <1>3, <1>4, <1>7, <1>8, <1>9, <1>10, <1>11, <1>saveless DEF IInv, Base

LEMMA StutterOK ==
  ASSUME Facts, UNCHANGED vars
  PROVE  IInv'
<1>1. UNCHANGED <<coreVars, lock, ThawVars>> /\ UNCHANGED <<app, appLock, sub>>
  BY DEF vars, managerVars, ThawVars
<1>2. UNCHANGED <<state, runFile, writes, pc, after, shutdownEvent, watchdog, stopped>>
      /\ UNCHANGED <<lock, thawTask, thawEvent>>
  BY <1>1 DEF coreVars, ThawVars
<1>3. DataTypes'
  BY <1>1, <1>2 DEF Facts, IInv, Base, DataTypes
<1>4. AppLocks'
  BY <1>1, <1>2 DEF Facts, IInv, Base, AppLocks, Place
<1>5. Undo => Undo'
  <2>1. \A u : Place(u)' = Place(u)
    BY <1>2 DEF Place
  <2>2. Stuck' <=> Stuck
    BY <1>2 DEF Stuck, StartOver, Alone, Active, Place
  <2> QED
    BY <1>1, <2>1, <2>2, UndoKept
<1> QED
  BY <1>1, <1>3, <1>4, <1>5, AppFrame DEF Facts, IInv

(* The invariant of every system, and of the systems without restores.     *)
THEOREM Invariance == MSpec => []IInv
<1>1. MInit => IInv
  BY TasksAssumption, BackupAssumption, InitOK
<1>2. IInv /\ [MNext]_vars => IInv'
  <2> SUFFICES ASSUME IInv, [MNext]_vars
               PROVE  IInv'
    OBVIOUS
  <2>1. Facts
    BY TasksAssumption, BackupAssumption DEF Facts
  <2>2. CASE CoreNext /\ UNCHANGED managerVars
    <3>1. Stage
      BY <2>1, <2>2 DEF Stage, Facts, IInv
    <3> QED
      BY <2>2, <3>1, CoreKeeps
  <2>3. CASE ManagerNext
    BY <2>1, <2>3, ManagerKeeps
  <2>4. CASE UNCHANGED vars
    BY <2>1, <2>4, StutterOK
  <2> QED
    BY <2>2, <2>3, <2>4 DEF MNext
<1> QED
  BY <1>1, <1>2, PTL DEF MSpec

-----------------------------------------------------------------------------
(* What follows from it                                                    *)

(* Types hold, and a call on an app runs exactly while it holds the app's  *)
(* lock (App.begin_backup, App.end_backup).                                *)
THEOREM TypeCorrect == MSpec => []MTypeOK
<1>1. IInv => MTypeOK
  <2> SUFFICES ASSUME IInv
               PROVE  MTypeOK
    OBVIOUS
  <2> USE TasksAssumption, BackupAssumption, KindsApart
  <2>1. DataTypes /\ Roles /\ AppLocks
    BY DEF IInv, Base
  <2>2. ASSUME NEW t \in Tasks
        PROVE  pc[t] \in {"saving", Place(t)} /\ Allowed(t, Place(t)) /\ pc[t] \in AllPlaces
    BY <2>1 DEF Roles, Place, DataTypes
  <2>3. ASSUME NEW o \in Others
        PROVE  pc[o] \in ManagerPlaces
    <3>1. o \in Backups \cup Restores \cup Freezes \cup ThawCalls \cup Thaws
      OBVIOUS
    <3> QED
      BY <2>2, <3>1 DEF Allowed, BackupPlaces, FreezePlaces, ThawPlaces, ManagerPlaces
  <2>4. CoreTypeOK
    <3>1. \A t \in {startTask} \cup Reboots \cup Signals : Allowed(t, Place(t))
      BY <2>2 DEF Tasks
    <3> QED
      BY <2>1, <3>1 DEF CoreTypeOK, DataTypes, Allowed
  <2> QED
    BY <2>1, <2>3, <2>4 DEF MTypeOK, DataTypes, AppLocks
<1> QED
  BY <1>1, Invariance, PTL

(* Without restores a backup is made of a frozen system: nothing sets it   *)
(* RUNNING again while the backup is written (BackupManager._do_backup).   *)
THEOREM FrozenThroughout ==
  ASSUME Restores = {}
  PROVE  MSpec => []BackupStaysFrozen
<1>1. IInv => BackupStaysFrozen
  BY DEF IInv, Calm, Apart, Frozen, BackupStaysFrozen, Place
<1> QED
  BY <1>1, Invariance, PTL

(* Without restores a signal of thaw_all ends the freeze it was given for  *)
(* and never a later one (BackupManager._thaw_event).                      *)
THEOREM FreshSignals ==
  ASSUME Restores = {}
  PROVE  MSpec => []SignalIsFresh
<1>1. IInv => SignalIsFresh
  <2> SUFFICES ASSUME IInv, NEW t \in Thaws, pc[t] \in {"thaw", "thaw wait"}, thawEvent
               PROVE  \E w \in ThawCalls : pc[w] = "await thaw"
    BY DEF SignalIsFresh
  <2>1. Active(t) /\ ~Stuck
    BY DEF Active, Place, Stuck
  <2>2. PICK w \in ThawCalls : Place(w) = "await thaw"
    BY <2>1 DEF IInv, Calm, Answered
  <2>3. pc[w] # "saving"
    BY DEF IInv, Base, Saveless
  <2> QED
    BY <2>2, <2>3 DEF Place
<1> QED
  BY <1>1, Invariance, PTL

(* Without restores, and with a thaw timeout that is not shorter than the  *)
(* freeze, who is left frozen is an app whose end_backup failed, nobody    *)
(* else (BackupManager._thaw_all).                                         *)
THEOREM NobodyLeftFrozen ==
  ASSUME Restores = {}, ~earlyTimeout
  PROVE  MSpec => []LeftFrozenOnlyByFailure
<1>1. IInv => LeftFrozenOnlyByFailure
  <2> SUFFICES ASSUME IInv, \A o \in Others : pc[o] \in {"idle", "done"}, state = "running",
                      \A a \in Apps : appLock[a] = NoTask,
                      NEW a \in Apps, app[a] = "frozen"
               PROVE  \E t \in Thaws : sub[t][a] = "raised"
    BY DEF LeftFrozenOnlyByFailure
  <2> USE TasksAssumption, BackupAssumption, KindsApart
  <2>1. PICK t \in Thaws : sub[t][a] \in {"todo", "acting", "raised"}
    BY DEF IInv, Undo
  <2>2. Place(t) = pc[t] /\ Place(t) \in {"idle", "done"}
    BY DEF Place
  <2>3. sub[t][a] # "acting"
    <3>1. NoTask \notin Thaws
      BY DEF Tasks
    <3> QED
      BY <3>1 DEF IInv, Base, AppLocks
  <2>4. Place(t) # "idle"
    BY <2>1 DEF IInv, Base, AppLocks
  <2>5. ~Stuck
    BY DEF Stuck, ClosingStates
  <2>6. sub[t][a] # "todo"
    BY <2>2, <2>4, <2>5 DEF IInv, Undo
  <2> QED
    BY <2>1, <2>3, <2>6
<1> QED
  BY <1>1, Invariance, PTL

=============================================================================
