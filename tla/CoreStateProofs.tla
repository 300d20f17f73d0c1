--------------------------- MODULE CoreStateProofs ---------------------------
(***************************************************************************)
(* Proofs about CoreState on its own: types, one shutdown and only after   *)
(* the start, the watchdog off while services are torn down, and the order *)
(* of the states, for any number of reboot requests and signals.           *)
(***************************************************************************)
EXTENDS CoreState, TLAPS

-----------------------------------------------------------------------------
(* The inductive invariant                                                 *)

CorePlaces == {"saving"} \cup StartPlaces \cup SignalPlaces

Types ==
  /\ state \in CoreStates \ {"freeze"}
  /\ runFile \in CoreStates
  /\ writes \subseteq [by : Tasks, value : CoreStates]
  /\ pc \in [Tasks -> CorePlaces]
  /\ after \in [Tasks -> CorePlaces]
  /\ shutdownEvent \in BOOLEAN /\ watchdog \in BOOLEAN /\ stopped \in BOOLEAN

\* A task is at one of the places, or its state is being saved on the way there.
Heads(t, places) == pc[t] \in places \/ (pc[t] = "saving" /\ after[t] \in places)

\* Where each kind of task can be.
Roles ==
  /\ \/ pc[startTask] = "idle"
     \/ Heads(startTask, {"start", "prepare", "boot", "finally", "done"})
  /\ \A t \in Reboots : Heads(t, {"idle", "shutdown", "await event", "teardown"})
  /\ \A t \in Signals : Heads(t, {"idle", "shutdown", "await event", "teardown", "stop",
                                  "last boot", "stages", "loop stop", "done"})
  /\ \A t \in Others : pc[t] = "idle"

StartOver == Heads(startTask, {"done"})

\* Nobody reboots or stops before start() is under way.
Beginning ==
  /\ pc[startTask] = "idle" => state = "initialize"
  /\ Heads(startTask, {"start"}) => state = "setup"
  /\ pc[startTask] = "idle" \/ Heads(startTask, {"start"}) =>
       \A t \in Tasks \ {startTask} : pc[t] = "idle"

\* RUNNING and SHUTDOWN are reached through the end of start() alone.
RunningStarted == state \in {"running", "shutdown"} => StartOver

\* A shutdown in progress or over keeps the state at the end of its life.
ShutdownStays ==
  (\E t \in Tasks : ShuttingDown(t)) \/ shutdownEvent =>
     StartOver /\ state \in ClosingStates

IInv ==
  /\ Types
  /\ Roles
  /\ Beginning
  /\ RunningStarted
  /\ ShutdownStays
  /\ ShutdownOnce
  /\ WatchdogOffInTeardown

-----------------------------------------------------------------------------
(* set_state                                                               *)

\* The state is s, and t is at place or on its way there.
Moved(t, s, place) ==
  /\ state' = s
  /\ writes' \subseteq [by : Tasks, value : CoreStates]
  /\ pc' \in [Tasks -> CorePlaces] /\ after' \in [Tasks -> CorePlaces]
  /\ pc'[t] = place \/ (pc'[t] = "saving" /\ after'[t] = place)
  /\ \A u \in Tasks \ {t} : pc'[u] = pc[u] /\ after'[u] = after[u]

LEMMA SetStateMoves ==
  ASSUME Types, NEW t \in Tasks, NEW s \in CoreStates, NEW place \in CorePlaces,
         SetState(t, s, place)
  PROVE  Moved(t, s, place)
<1>1. CASE state = s
  BY <1>1 DEF SetState, Goto, Types, Moved
<1>2. CASE state # s
  <2>1. [by |-> t, value |-> s] \in [by : Tasks, value : CoreStates]
    OBVIOUS
  <2>2. /\ writes' = writes \cup {[by |-> t, value |-> s]}
        /\ pc' = [pc EXCEPT ![t] = "saving"]
        /\ after' = [after EXCEPT ![t] = place]
        /\ state' = s
    BY <1>2 DEF SetState, Goto
  <2> QED
    BY <2>1, <2>2 DEF Types, Moved, CorePlaces, StartPlaces, RebootPlaces, SignalPlaces
<1> QED
  BY <1>1, <1>2

-----------------------------------------------------------------------------
(* What every step keeps                                                   *)

(* Types.                                                                  *)
LEMMA TypesKept ==
  ASSUME TasksAssumption, IInv, CoreNext
  PROVE  Types'
<1> USE DEF TasksAssumption, IInv, Types, Tasks
<1>1. CASE Setup
  BY ZenonT(30), <1>1, SetStateMoves DEF Setup, Unsaved, Moved, CorePlaces, StartPlaces,
     RebootPlaces, SignalPlaces, CoreStates
<1>2. CASE Start
  BY <1>2, SetStateMoves DEF Start, Unsaved, Moved, CorePlaces, StartPlaces, RebootPlaces,
     SignalPlaces, CoreStates
<1>3. CASE Prepare
  BY ZenonT(30), <1>3 DEF Prepare, Goto, CorePlaces, StartPlaces, RebootPlaces, SignalPlaces,
     CoreStates
<1>4. CASE Booted
  BY <1>4 DEF Booted, Goto, CorePlaces, StartPlaces, RebootPlaces, SignalPlaces, CoreStates
<1>5. CASE StartFinally
  BY ZenonT(30), <1>5, SetStateMoves DEF StartFinally, Unsaved, Moved, CorePlaces,
     StartPlaces, RebootPlaces, SignalPlaces, CoreStates
<1>6. ASSUME NEW w \in writes, Write(w)
      PROVE  Types'
  BY <1>6 DEF Write, CorePlaces, StartPlaces, RebootPlaces, SignalPlaces, CoreStates
<1>7. ASSUME NEW t \in Tasks, Saved(t)
      PROVE  Types'
  BY <1>7 DEF Saved, Goto, CorePlaces, StartPlaces, RebootPlaces, SignalPlaces, CoreStates
<1>8. ASSUME NEW t \in Tasks, Shutdown(t)
      PROVE  Types'
  <2>1. CASE Goto(t, Return(t)) /\ UNCHANGED <<state, writes, after>>
    BY <1>8, <2>1 DEF Shutdown, Unsaved, Goto, Return, CorePlaces, StartPlaces, RebootPlaces,
       SignalPlaces
  <2>2. CASE Goto(t, "await event") /\ UNCHANGED <<state, writes, after>>
    BY <1>8, <2>2 DEF Shutdown, Unsaved, Goto, CorePlaces, StartPlaces, RebootPlaces, SignalPlaces
  <2>3. CASE SetState(t, "shutdown", "teardown")
    BY <1>8, <2>3, SetStateMoves DEF Shutdown, Unsaved, Moved, CorePlaces, StartPlaces,
       RebootPlaces, SignalPlaces, CoreStates
  <2> QED
    BY <1>8, <2>1, <2>2, <2>3 DEF Shutdown
<1>9. ASSUME NEW t \in Tasks, ShutdownAwaited(t)
      PROVE  Types'
  BY <1>9 DEF ShutdownAwaited, Return, Goto, CorePlaces, StartPlaces, RebootPlaces,
     SignalPlaces, CoreStates
<1>10. ASSUME NEW t \in Tasks, Teardown(t)
      PROVE  Types'
  BY <1>10 DEF Teardown, Return, Goto, CorePlaces, StartPlaces, RebootPlaces, SignalPlaces,
     CoreStates
<1>11. ASSUME NEW t \in Tasks, Stop(t)
      PROVE  Types'
  <2>1. CASE UNCHANGED <<state, writes, after>>
    BY <1>11, <2>1 DEF Stop, StopUnlessStopping, SetState, Goto, Unsaved, CorePlaces,
       StartPlaces, RebootPlaces, SignalPlaces
  <2>2. CASE SetState(t, "stopping", "stages")
    BY <1>11, <2>2, SetStateMoves DEF Stop, Unsaved, Moved, CorePlaces, StartPlaces,
       RebootPlaces, SignalPlaces, CoreStates
  <2> QED
    BY <1>11, <2>1, <2>2 DEF Stop, StopUnlessStopping
<1>12. ASSUME NEW t \in Tasks, LastBootStored(t)
      PROVE  Types'
  <2>1. CASE UNCHANGED <<state, writes, after>>
    BY <1>12, <2>1 DEF LastBootStored, StopUnlessStopping, SetState, Goto, Unsaved,
       CorePlaces, StartPlaces, RebootPlaces, SignalPlaces
  <2>2. CASE SetState(t, "stopping", "stages")
    BY <1>12, <2>2, SetStateMoves DEF LastBootStored, Unsaved, Moved, CorePlaces, StartPlaces,
       RebootPlaces, SignalPlaces, CoreStates
  <2> QED
    BY <1>12, <2>1, <2>2 DEF LastBootStored, StopUnlessStopping
<1>13. ASSUME NEW t \in Tasks, StagesOver(t)
      PROVE  Types'
  BY <1>13, SetStateMoves DEF StagesOver, Unsaved, Moved, CorePlaces, StartPlaces,
     RebootPlaces, SignalPlaces, CoreStates
<1>14. ASSUME NEW t \in Tasks, LoopStop(t)
      PROVE  Types'
  BY <1>14 DEF LoopStop, Goto, CorePlaces, StartPlaces, RebootPlaces, SignalPlaces, CoreStates
<1>15. ASSUME NEW t \in Tasks, Reboot(t)
      PROVE  Types'
  BY <1>15 DEF Reboot, Goto, CorePlaces, StartPlaces, RebootPlaces, SignalPlaces, CoreStates
<1>16. ASSUME NEW t \in Tasks, Signal(t)
      PROVE  Types'
  BY <1>16 DEF Signal, Cancelled, CorePlaces, StartPlaces, RebootPlaces, SignalPlaces, CoreStates
<1>17. ASSUME NEW t \in Tasks, StopRequested(t)
      PROVE  Types'
  BY <1>17 DEF StopRequested, Goto, CorePlaces, StartPlaces, RebootPlaces, SignalPlaces,
     CoreStates
<1>18. ASSUME NEW t \in Tasks, UpdateItself(t)
      PROVE  Types'
  BY <1>18 DEF UpdateItself, CorePlaces, StartPlaces, RebootPlaces, SignalPlaces, CoreStates
<1> QED
  BY <1>1, <1>2, <1>3, <1>4, <1>5, <1>6, <1>7, <1>8, <1>9, <1>10, <1>11, <1>12, <1>13,
     <1>14, <1>15, <1>16, <1>17, <1>18 DEF CoreNext, StartStep, TaskStep

(* Every kind of task stays on its own way.                                *)
LEMMA RolesKept ==
  ASSUME TasksAssumption, IInv, CoreNext
  PROVE  Roles'
<1> USE DEF TasksAssumption, IInv, Types, Tasks
<1>1. CASE Setup
  BY <1>1 DEF Setup, SetState, Goto, Unsaved, Roles, Heads
<1>2. CASE Start
  BY <1>2 DEF Start, SetState, Goto, Unsaved, Roles, Heads
<1>3. CASE Prepare
  BY <1>3 DEF Prepare, Goto, Roles, Heads
<1>4. CASE Booted
  BY <1>4 DEF Booted, Goto, Roles, Heads
<1>5. CASE StartFinally
  BY <1>5 DEF StartFinally, SetState, Goto, Unsaved, Roles, Heads
<1>6. ASSUME NEW w \in writes, Write(w)
      PROVE  Roles'
  BY <1>6 DEF Write, Roles, Heads
<1>7. ASSUME NEW t \in Tasks, Saved(t)
      PROVE  Roles'
  BY <1>7 DEF Saved, Goto, Roles, Heads
<1>8. ASSUME NEW t \in Tasks, Shutdown(t)
      PROVE  Roles'
  BY ZenonT(30), <1>8 DEF Shutdown, Return, SetState, Goto, Unsaved, Roles, Heads
<1>9. ASSUME NEW t \in Tasks, ShutdownAwaited(t)
      PROVE  Roles'
  BY <1>9 DEF ShutdownAwaited, Return, Goto, Roles, Heads
<1>10. ASSUME NEW t \in Tasks, Teardown(t)
      PROVE  Roles'
  BY <1>10 DEF Teardown, Return, Goto, Roles, Heads
<1>11. ASSUME NEW t \in Tasks, Stop(t)
      PROVE  Roles'
  BY ZenonT(30), <1>11 DEF Stop, StopUnlessStopping, SetState, Goto, Unsaved, Roles, Heads
<1>12. ASSUME NEW t \in Tasks, LastBootStored(t)
      PROVE  Roles'
  BY <1>12 DEF LastBootStored, StopUnlessStopping, SetState, Goto, Unsaved, Roles, Heads
<1>13. ASSUME NEW t \in Tasks, StagesOver(t)
      PROVE  Roles'
  BY ZenonT(30), <1>13 DEF StagesOver, SetState, Goto, Unsaved, Roles, Heads
<1>14. ASSUME NEW t \in Tasks, LoopStop(t)
      PROVE  Roles'
  BY <1>14 DEF LoopStop, Goto, Roles, Heads
<1>15. ASSUME NEW t \in Tasks, Reboot(t)
      PROVE  Roles'
  BY <1>15 DEF Reboot, Goto, Roles, Heads
<1>16. ASSUME NEW t \in Tasks, Signal(t)
      PROVE  Roles'
  BY ZenonT(30), <1>16 DEF Signal, Cancelled, Roles, Heads
<1>17. ASSUME NEW t \in Tasks, StopRequested(t)
      PROVE  Roles'
  BY <1>17 DEF StopRequested, Goto, Roles, Heads
<1>18. ASSUME NEW t \in Tasks, UpdateItself(t)
      PROVE  Roles'
  BY <1>18 DEF UpdateItself, Roles, Heads
<1> QED
  BY <1>1, <1>2, <1>3, <1>4, <1>5, <1>6, <1>7, <1>8, <1>9, <1>10, <1>11, <1>12, <1>13,
     <1>14, <1>15, <1>16, <1>17, <1>18 DEF CoreNext, StartStep, TaskStep

(* Nothing reboots or stops the Supervisor before start() is under way, or *)
(* cancels it but for good.                                                *)
LEMMA BeginningKept ==
  ASSUME TasksAssumption, IInv, CoreNext
  PROVE  Beginning'
<1> USE DEF TasksAssumption, IInv, Types, Tasks
<1>1. CASE Setup
  BY <1>1 DEF Setup, SetState, Goto, Unsaved, Beginning, Heads, Roles, ValidApiStates
<1>2. CASE Start
  BY <1>2 DEF Start, SetState, Goto, Unsaved, Beginning, Heads, Roles, ValidApiStates
<1>3. CASE Prepare
  BY <1>3 DEF Prepare, Goto, Beginning, Heads, Roles, ValidApiStates
<1>4. CASE Booted
  BY <1>4 DEF Booted, Goto, Beginning, Heads, Roles, ValidApiStates
<1>5. CASE StartFinally
  BY <1>5 DEF StartFinally, SetState, Goto, Unsaved, Beginning, Heads, Roles, ValidApiStates
<1>6. ASSUME NEW w \in writes, Write(w)
      PROVE  Beginning'
  BY <1>6 DEF Write, Beginning, Heads, Roles, ValidApiStates
<1>7. ASSUME NEW t \in Tasks, Saved(t)
      PROVE  Beginning'
  BY <1>7 DEF Saved, Goto, Beginning, Heads, Roles, ValidApiStates
<1>8. ASSUME NEW t \in Tasks, Shutdown(t)
      PROVE  Beginning'
  BY <1>8 DEF Shutdown, Return, SetState, Goto, Unsaved, Beginning, Heads, Roles,
     ValidApiStates
<1>9. ASSUME NEW t \in Tasks, ShutdownAwaited(t)
      PROVE  Beginning'
  BY <1>9 DEF ShutdownAwaited, Return, Goto, Beginning, Heads, Roles, ValidApiStates
<1>10. ASSUME NEW t \in Tasks, Teardown(t)
      PROVE  Beginning'
  BY <1>10 DEF Teardown, Return, Goto, Beginning, Heads, Roles, ValidApiStates
<1>11. ASSUME NEW t \in Tasks, Stop(t)
      PROVE  Beginning'
  BY <1>11 DEF Stop, StopUnlessStopping, SetState, Goto, Unsaved, Beginning, Heads, Roles,
     ValidApiStates
<1>12. ASSUME NEW t \in Tasks, LastBootStored(t)
      PROVE  Beginning'
  BY <1>12 DEF LastBootStored, StopUnlessStopping, SetState, Goto, Unsaved, Beginning,
     Heads, Roles, ValidApiStates
<1>13. ASSUME NEW t \in Tasks, StagesOver(t)
      PROVE  Beginning'
  BY <1>13 DEF StagesOver, SetState, Goto, Unsaved, Beginning, Heads, Roles, ValidApiStates
<1>14. ASSUME NEW t \in Tasks, LoopStop(t)
      PROVE  Beginning'
  BY <1>14 DEF LoopStop, Goto, Beginning, Heads, Roles, ValidApiStates
<1>15. ASSUME NEW t \in Tasks, Reboot(t)
      PROVE  Beginning'
  BY <1>15 DEF Reboot, Goto, Beginning, Heads, Roles, ValidApiStates
<1>16. ASSUME NEW t \in Tasks, Signal(t)
      PROVE  Beginning'
  BY <1>16 DEF Signal, Cancelled, Beginning, Heads, Roles, ValidApiStates
<1>17. ASSUME NEW t \in Tasks, StopRequested(t)
      PROVE  Beginning'
  BY <1>17 DEF StopRequested, Goto, Beginning, Heads, Roles, ValidApiStates
<1>18. ASSUME NEW t \in Tasks, UpdateItself(t)
      PROVE  Beginning'
  BY <1>18 DEF UpdateItself, Beginning, Heads, Roles, ValidApiStates
<1> QED
  BY <1>1, <1>2, <1>3, <1>4, <1>5, <1>6, <1>7, <1>8, <1>9, <1>10, <1>11, <1>12, <1>13,
     <1>14, <1>15, <1>16, <1>17, <1>18 DEF CoreNext, StartStep, TaskStep

(* Only the end of start() makes the Supervisor RUNNING.                   *)
LEMMA RunningStartedKept ==
  ASSUME TasksAssumption, IInv, CoreNext
  PROVE  RunningStarted'
<1> USE DEF TasksAssumption, IInv, Types, Tasks
<1>1. CASE Setup
  BY <1>1 DEF Setup, SetState, Goto, Unsaved, RunningStarted, StartOver, Heads, Roles
<1>2. CASE Start
  BY <1>2 DEF Start, SetState, Goto, Unsaved, RunningStarted, StartOver, Heads, Roles
<1>3. CASE Prepare
  BY <1>3 DEF Prepare, Goto, RunningStarted, StartOver, Heads, Roles
<1>4. CASE Booted
  BY <1>4 DEF Booted, Goto, RunningStarted, StartOver, Heads, Roles
<1>5. CASE StartFinally
  BY <1>5 DEF StartFinally, SetState, Goto, Unsaved, RunningStarted, StartOver, Heads, Roles
<1>6. ASSUME NEW w \in writes, Write(w)
      PROVE  RunningStarted'
  BY <1>6 DEF Write, RunningStarted, StartOver, Heads, Roles
<1>7. ASSUME NEW t \in Tasks, Saved(t)
      PROVE  RunningStarted'
  BY <1>7 DEF Saved, Goto, RunningStarted, StartOver, Heads, Roles
<1>8. ASSUME NEW t \in Tasks, Shutdown(t)
      PROVE  RunningStarted'
  <2>1. t # startTask
    BY <1>8 DEF Shutdown, Roles, Heads
  <2>2. CASE UNCHANGED <<state, writes, after>> /\ (Goto(t, Return(t)) \/ Goto(t, "await event"))
    BY <2>1, <2>2 DEF Goto, RunningStarted, StartOver, Heads
  <2>3. CASE SetState(t, "shutdown", "teardown") /\ state = "running"
    <3>1. Moved(t, "shutdown", "teardown")
      BY <2>3, SetStateMoves DEF CorePlaces, StartPlaces, RebootPlaces, SignalPlaces, CoreStates
    <3> QED
      BY <2>1, <2>3, <3>1 DEF Moved, RunningStarted, StartOver, Heads
  <2> QED
    BY <1>8, <2>2, <2>3 DEF Shutdown, StartingStates, CoreStates
<1>9. ASSUME NEW t \in Tasks, ShutdownAwaited(t)
      PROVE  RunningStarted'
  BY <1>9 DEF ShutdownAwaited, Return, Goto, RunningStarted, StartOver, Heads, Roles
<1>10. ASSUME NEW t \in Tasks, Teardown(t)
      PROVE  RunningStarted'
  BY <1>10 DEF Teardown, Return, Goto, RunningStarted, StartOver, Heads, Roles
<1>11. ASSUME NEW t \in Tasks, Stop(t)
      PROVE  RunningStarted'
  BY <1>11 DEF Stop, StopUnlessStopping, SetState, Goto, Unsaved, RunningStarted,
     StartOver, Heads, Roles
<1>12. ASSUME NEW t \in Tasks, LastBootStored(t)
      PROVE  RunningStarted'
  BY <1>12 DEF LastBootStored, StopUnlessStopping, SetState, Goto, Unsaved,
     RunningStarted, StartOver, Heads, Roles
<1>13. ASSUME NEW t \in Tasks, StagesOver(t)
      PROVE  RunningStarted'
  BY <1>13 DEF StagesOver, SetState, Goto, Unsaved, RunningStarted, StartOver, Heads, Roles
<1>14. ASSUME NEW t \in Tasks, LoopStop(t)
      PROVE  RunningStarted'
  BY <1>14 DEF LoopStop, Goto, RunningStarted, StartOver, Heads, Roles
<1>15. ASSUME NEW t \in Tasks, Reboot(t)
      PROVE  RunningStarted'
  BY <1>15 DEF Reboot, Goto, RunningStarted, StartOver, Heads, Roles
<1>16. ASSUME NEW t \in Tasks, Signal(t)
      PROVE  RunningStarted'
  BY <1>16 DEF Signal, Cancelled, RunningStarted, StartOver, Heads, Roles
<1>17. ASSUME NEW t \in Tasks, StopRequested(t)
      PROVE  RunningStarted'
  BY <1>17 DEF StopRequested, Goto, RunningStarted, StartOver, Heads, Roles
<1>18. ASSUME NEW t \in Tasks, UpdateItself(t)
      PROVE  RunningStarted'
  BY <1>18 DEF UpdateItself, RunningStarted, StartOver, Heads, Roles
<1> QED
  BY <1>1, <1>2, <1>3, <1>4, <1>5, <1>6, <1>7, <1>8, <1>9, <1>10, <1>11, <1>12, <1>13,
     <1>14, <1>15, <1>16, <1>17, <1>18 DEF CoreNext, StartStep, TaskStep

(* No task leads out of the closing states once a shutdown has begun.      *)
LEMMA ShutdownStaysKept ==
  ASSUME TasksAssumption, IInv, CoreNext
  PROVE  ShutdownStays'
<1> USE DEF TasksAssumption, IInv, Types, Tasks
<1>1. CASE Setup
  BY <1>1 DEF Setup, SetState, Goto, Unsaved, ShutdownStays, ShuttingDown, StartOver,
     Heads, RunningStarted, ClosingStates, StartingStates, CoreStates
<1>2. CASE Start
  BY <1>2 DEF Start, SetState, Goto, Unsaved, ShutdownStays, ShuttingDown, StartOver,
     Heads, RunningStarted, ClosingStates, StartingStates, CoreStates
<1>3. CASE Prepare
  BY <1>3 DEF Prepare, Goto, ShutdownStays, ShuttingDown, StartOver, Heads,
     RunningStarted, ClosingStates, StartingStates, CoreStates
<1>4. CASE Booted
  BY <1>4 DEF Booted, Goto, ShutdownStays, ShuttingDown, StartOver, Heads, RunningStarted,
     ClosingStates, StartingStates, CoreStates
<1>5. CASE StartFinally
  BY <1>5 DEF StartFinally, SetState, Goto, Unsaved, ShutdownStays, ShuttingDown,
     StartOver, Heads, RunningStarted, ClosingStates, StartingStates, CoreStates
<1>6. ASSUME NEW w \in writes, Write(w)
      PROVE  ShutdownStays'
  BY <1>6 DEF Write, ShutdownStays, ShuttingDown, StartOver, Heads, RunningStarted,
     ClosingStates, StartingStates, CoreStates
<1>7. ASSUME NEW t \in Tasks, Saved(t)
      PROVE  ShutdownStays'
  BY <1>7 DEF Saved, Goto, ShutdownStays, ShuttingDown, StartOver, Heads, RunningStarted,
     ClosingStates, StartingStates, CoreStates
<1>8. ASSUME NEW t \in Tasks, Shutdown(t)
      PROVE  ShutdownStays'
  BY <1>8 DEF Shutdown, Return, SetState, Goto, Unsaved, ShutdownStays, ShuttingDown,
     StartOver, Heads, RunningStarted, ClosingStates, StartingStates, CoreStates
<1>9. ASSUME NEW t \in Tasks, ShutdownAwaited(t)
      PROVE  ShutdownStays'
  BY <1>9 DEF ShutdownAwaited, Return, Goto, ShutdownStays, ShuttingDown, StartOver,
     Heads, RunningStarted, ClosingStates, StartingStates, CoreStates
<1>10. ASSUME NEW t \in Tasks, Teardown(t)
      PROVE  ShutdownStays'
  BY <1>10 DEF Teardown, Return, Goto, ShutdownStays, ShuttingDown, StartOver, Heads,
     RunningStarted, ClosingStates, StartingStates, CoreStates
<1>11. ASSUME NEW t \in Tasks, Stop(t)
      PROVE  ShutdownStays'
  BY <1>11 DEF Stop, StopUnlessStopping, SetState, Goto, Unsaved, ShutdownStays,
     ShuttingDown, StartOver, Heads, RunningStarted, ClosingStates, StartingStates,
     CoreStates
<1>12. ASSUME NEW t \in Tasks, LastBootStored(t)
      PROVE  ShutdownStays'
  BY <1>12 DEF LastBootStored, StopUnlessStopping, SetState, Goto, Unsaved, ShutdownStays,
     ShuttingDown, StartOver, Heads, RunningStarted, ClosingStates, StartingStates,
     CoreStates
<1>13. ASSUME NEW t \in Tasks, StagesOver(t)
      PROVE  ShutdownStays'
  BY <1>13 DEF StagesOver, SetState, Goto, Unsaved, ShutdownStays, ShuttingDown,
     StartOver, Heads, RunningStarted, ClosingStates, StartingStates, CoreStates
<1>14. ASSUME NEW t \in Tasks, LoopStop(t)
      PROVE  ShutdownStays'
  BY <1>14 DEF LoopStop, Goto, ShutdownStays, ShuttingDown, StartOver, Heads,
     RunningStarted, ClosingStates, StartingStates, CoreStates
<1>15. ASSUME NEW t \in Tasks, Reboot(t)
      PROVE  ShutdownStays'
  BY <1>15 DEF Reboot, Goto, ShutdownStays, ShuttingDown, StartOver, Heads,
     RunningStarted, ClosingStates, StartingStates, CoreStates
<1>16. ASSUME NEW t \in Tasks, Signal(t)
      PROVE  ShutdownStays'
  BY <1>16 DEF Signal, Cancelled, ShutdownStays, ShuttingDown, StartOver, Heads,
     RunningStarted, ClosingStates, StartingStates, CoreStates
<1>17. ASSUME NEW t \in Tasks, StopRequested(t)
      PROVE  ShutdownStays'
  BY <1>17 DEF StopRequested, Goto, ShutdownStays, ShuttingDown, StartOver, Heads,
     RunningStarted, ClosingStates, StartingStates, CoreStates
<1>18. ASSUME NEW t \in Tasks, UpdateItself(t)
      PROVE  ShutdownStays'
  BY <1>18 DEF UpdateItself, ShutdownStays, ShuttingDown, StartOver, Heads,
     RunningStarted, ClosingStates, StartingStates, CoreStates
<1> QED
  BY <1>1, <1>2, <1>3, <1>4, <1>5, <1>6, <1>7, <1>8, <1>9, <1>10, <1>11, <1>12, <1>13,
     <1>14, <1>15, <1>16, <1>17, <1>18 DEF CoreNext, StartStep, TaskStep

(* Who would shut down a second time finds SHUTDOWN or a later state.      *)
LEMMA ShutdownOnceKept ==
  ASSUME TasksAssumption, IInv, CoreNext
  PROVE  ShutdownOnce'
<1> USE DEF TasksAssumption, IInv, Types, Tasks
<1>1. CASE Setup
  BY <1>1 DEF Setup, SetState, Goto, Unsaved, ShutdownOnce, ShuttingDown, ShutdownStays,
     ClosingStates, StartingStates, CoreStates
<1>2. CASE Start
  BY <1>2 DEF Start, SetState, Goto, Unsaved, ShutdownOnce, ShuttingDown, ShutdownStays,
     ClosingStates, StartingStates, CoreStates
<1>3. CASE Prepare
  BY <1>3 DEF Prepare, Goto, ShutdownOnce, ShuttingDown, ShutdownStays, ClosingStates,
     StartingStates, CoreStates
<1>4. CASE Booted
  BY <1>4 DEF Booted, Goto, ShutdownOnce, ShuttingDown, ShutdownStays, ClosingStates,
     StartingStates, CoreStates
<1>5. CASE StartFinally
  BY <1>5 DEF StartFinally, SetState, Goto, Unsaved, ShutdownOnce, ShuttingDown,
     ShutdownStays, ClosingStates, StartingStates, CoreStates
<1>6. ASSUME NEW w \in writes, Write(w)
      PROVE  ShutdownOnce'
  BY <1>6 DEF Write, ShutdownOnce, ShuttingDown, ShutdownStays, ClosingStates,
     StartingStates, CoreStates
<1>7. ASSUME NEW t \in Tasks, Saved(t)
      PROVE  ShutdownOnce'
  BY <1>7 DEF Saved, Goto, ShutdownOnce, ShuttingDown, ShutdownStays, ClosingStates,
     StartingStates, CoreStates
<1>8. ASSUME NEW t \in Tasks, Shutdown(t)
      PROVE  ShutdownOnce'
  <2>1. CASE UNCHANGED <<state, writes, after>> /\ (Goto(t, Return(t)) \/ Goto(t, "await event"))
    BY ZenonT(30), <1>8, <2>1 DEF Shutdown, Return, Goto, Unsaved, ShutdownOnce, ShuttingDown
  <2>2. CASE SetState(t, "shutdown", "teardown") /\ state = "running"
    <3>1. Moved(t, "shutdown", "teardown")
      BY <2>2, SetStateMoves DEF CorePlaces, StartPlaces, RebootPlaces, SignalPlaces, CoreStates
    <3>2. ~shutdownEvent' /\ \A u \in Tasks : ~ShuttingDown(u)
      BY <1>8, <2>2 DEF Shutdown, Unsaved, ShutdownStays, ClosingStates
    <3>3. \A u \in Tasks \ {t} : ~ShuttingDown(u)'
      BY <3>1, <3>2 DEF Moved, ShuttingDown
    <3> QED
      BY <3>2, <3>3 DEF ShutdownOnce
  <2> QED
    BY <1>8, <2>1, <2>2 DEF Shutdown, StartingStates, CoreStates
<1>9. ASSUME NEW t \in Tasks, ShutdownAwaited(t)
      PROVE  ShutdownOnce'
  BY <1>9 DEF ShutdownAwaited, Return, Goto, ShutdownOnce, ShuttingDown, ShutdownStays,
     ClosingStates, StartingStates, CoreStates
<1>10. ASSUME NEW t \in Tasks, Teardown(t)
      PROVE  ShutdownOnce'
  BY <1>10 DEF Teardown, Return, Goto, ShutdownOnce, ShuttingDown, ShutdownStays,
     ClosingStates, StartingStates, CoreStates
<1>11. ASSUME NEW t \in Tasks, Stop(t)
      PROVE  ShutdownOnce'
  <2>1. CASE UNCHANGED <<state, writes, after>>
    BY ZenonT(30), <1>11, <2>1 DEF Stop, StopUnlessStopping, SetState, Goto, Unsaved, ShutdownOnce,
       ShuttingDown
  <2>2. CASE SetState(t, "stopping", "stages")
    <3>1. Moved(t, "stopping", "stages")
      BY <2>2, SetStateMoves DEF CorePlaces, StartPlaces, RebootPlaces, SignalPlaces, CoreStates
    <3>2. ~ShuttingDown(t)' /\ \A u \in Tasks \ {t} : ShuttingDown(u)' <=> ShuttingDown(u)
      BY <3>1 DEF Moved, ShuttingDown
    <3> QED
      BY <1>11, <3>2 DEF Stop, Unsaved, ShutdownOnce
  <2> QED
    BY <1>11, <2>1, <2>2 DEF Stop, StopUnlessStopping
<1>12. ASSUME NEW t \in Tasks, LastBootStored(t)
      PROVE  ShutdownOnce'
  <2>1. CASE UNCHANGED <<state, writes, after>>
    BY <1>12, <2>1 DEF LastBootStored, StopUnlessStopping, SetState, Goto, Unsaved,
       ShutdownOnce, ShuttingDown
  <2>2. CASE SetState(t, "stopping", "stages")
    <3>1. Moved(t, "stopping", "stages")
      BY <2>2, SetStateMoves DEF CorePlaces, StartPlaces, RebootPlaces, SignalPlaces, CoreStates
    <3>2. ~ShuttingDown(t)' /\ \A u \in Tasks \ {t} : ShuttingDown(u)' <=> ShuttingDown(u)
      BY <3>1 DEF Moved, ShuttingDown
    <3> QED
      BY <1>12, <3>2 DEF LastBootStored, Unsaved, ShutdownOnce
  <2> QED
    BY <1>12, <2>1, <2>2 DEF LastBootStored, StopUnlessStopping
<1>13. ASSUME NEW t \in Tasks, StagesOver(t)
      PROVE  ShutdownOnce'
  <2>1. SetState(t, "close", "loop stop") /\ shutdownEvent' = shutdownEvent
    BY <1>13 DEF StagesOver, Unsaved
  <2>2. Moved(t, "close", "loop stop")
    BY <2>1, SetStateMoves DEF CorePlaces, StartPlaces, RebootPlaces, SignalPlaces, CoreStates
  <2>3. ~ShuttingDown(t)' /\ \A u \in Tasks \ {t} : ShuttingDown(u)' <=> ShuttingDown(u)
    BY <2>2 DEF Moved, ShuttingDown
  <2> QED
    BY <2>1, <2>3 DEF ShutdownOnce
<1>14. ASSUME NEW t \in Tasks, LoopStop(t)
      PROVE  ShutdownOnce'
  BY <1>14 DEF LoopStop, Goto, ShutdownOnce, ShuttingDown, ShutdownStays, ClosingStates,
     StartingStates, CoreStates
<1>15. ASSUME NEW t \in Tasks, Reboot(t)
      PROVE  ShutdownOnce'
  BY <1>15 DEF Reboot, Goto, ShutdownOnce, ShuttingDown, ShutdownStays, ClosingStates,
     StartingStates, CoreStates
<1>16. ASSUME NEW t \in Tasks, Signal(t)
      PROVE  ShutdownOnce'
  BY <1>16 DEF Signal, Cancelled, ShutdownOnce, ShuttingDown, ShutdownStays,
     ClosingStates, StartingStates, CoreStates
<1>17. ASSUME NEW t \in Tasks, StopRequested(t)
      PROVE  ShutdownOnce'
  BY <1>17 DEF StopRequested, Goto, ShutdownOnce, ShuttingDown, ShutdownStays,
     ClosingStates, StartingStates, CoreStates
<1>18. ASSUME NEW t \in Tasks, UpdateItself(t)
      PROVE  ShutdownOnce'
  BY <1>18 DEF UpdateItself, ShutdownOnce, ShuttingDown, ShutdownStays, ClosingStates,
     StartingStates, CoreStates
<1> QED
  BY <1>1, <1>2, <1>3, <1>4, <1>5, <1>6, <1>7, <1>8, <1>9, <1>10, <1>11, <1>12, <1>13,
     <1>14, <1>15, <1>16, <1>17, <1>18 DEF CoreNext, StartStep, TaskStep

(* Announcing SHUTDOWN or STOPPING comes before the teardown, and CLOSE is the *)
(* last state.                                                             *)
LEMMA WatchdogOffInTeardownKept ==
  ASSUME TasksAssumption, IInv, CoreNext
  PROVE  WatchdogOffInTeardown'
<1> USE DEF TasksAssumption, IInv, Types, Tasks
<1>1. CASE Setup
  BY <1>1 DEF Setup, SetState, Goto, Unsaved, WatchdogOffInTeardown, ShuttingDown,
     ShutdownStays, StartOver, Heads, ClosingStates, CoreStates
<1>2. CASE Start
  BY <1>2 DEF Start, SetState, Goto, Unsaved, WatchdogOffInTeardown, ShuttingDown,
     ShutdownStays, StartOver, Heads, ClosingStates, CoreStates
<1>3. CASE Prepare
  BY <1>3 DEF Prepare, Goto, WatchdogOffInTeardown, ShuttingDown, ShutdownStays,
     StartOver, Heads, ClosingStates, CoreStates
<1>4. CASE Booted
  BY <1>4 DEF Booted, Goto, WatchdogOffInTeardown, ShuttingDown, ShutdownStays, StartOver,
     Heads, ClosingStates, CoreStates
<1>5. CASE StartFinally
  BY <1>5 DEF StartFinally, SetState, Goto, Unsaved, WatchdogOffInTeardown, ShuttingDown,
     ShutdownStays, StartOver, Heads, ClosingStates, CoreStates
<1>6. ASSUME NEW w \in writes, Write(w)
      PROVE  WatchdogOffInTeardown'
  BY <1>6 DEF Write, WatchdogOffInTeardown, ShuttingDown, ShutdownStays, StartOver, Heads,
     ClosingStates, CoreStates
<1>7. ASSUME NEW t \in Tasks, Saved(t)
      PROVE  WatchdogOffInTeardown'
  BY <1>7 DEF Saved, Goto, WatchdogOffInTeardown, ShuttingDown, ShutdownStays, StartOver,
     Heads, ClosingStates, CoreStates
<1>8. ASSUME NEW t \in Tasks, Shutdown(t)
      PROVE  WatchdogOffInTeardown'
  BY <1>8 DEF Shutdown, Return, SetState, Goto, Unsaved, WatchdogOffInTeardown,
     ShuttingDown, ShutdownStays, StartOver, Heads, ClosingStates, CoreStates
<1>9. ASSUME NEW t \in Tasks, ShutdownAwaited(t)
      PROVE  WatchdogOffInTeardown'
  BY <1>9 DEF ShutdownAwaited, Return, Goto, WatchdogOffInTeardown, ShuttingDown,
     ShutdownStays, StartOver, Heads, ClosingStates, CoreStates
<1>10. ASSUME NEW t \in Tasks, Teardown(t)
      PROVE  WatchdogOffInTeardown'
  BY <1>10 DEF Teardown, Return, Goto, WatchdogOffInTeardown, ShuttingDown, ShutdownStays,
     StartOver, Heads, ClosingStates, CoreStates
<1>11. ASSUME NEW t \in Tasks, Stop(t)
      PROVE  WatchdogOffInTeardown'
  BY <1>11 DEF Stop, StopUnlessStopping, SetState, Goto, Unsaved, WatchdogOffInTeardown,
     ShuttingDown, ShutdownStays, StartOver, Heads, ClosingStates, CoreStates
<1>12. ASSUME NEW t \in Tasks, LastBootStored(t)
      PROVE  WatchdogOffInTeardown'
  BY <1>12 DEF LastBootStored, StopUnlessStopping, SetState, Goto, Unsaved,
     WatchdogOffInTeardown, ShuttingDown, ShutdownStays, StartOver, Heads, ClosingStates,
     CoreStates
<1>13. ASSUME NEW t \in Tasks, StagesOver(t)
      PROVE  WatchdogOffInTeardown'
  BY <1>13 DEF StagesOver, SetState, Goto, Unsaved, WatchdogOffInTeardown, ShuttingDown,
     ShutdownStays, StartOver, Heads, ClosingStates, CoreStates
<1>14. ASSUME NEW t \in Tasks, LoopStop(t)
      PROVE  WatchdogOffInTeardown'
  BY <1>14 DEF LoopStop, Goto, WatchdogOffInTeardown, ShuttingDown, ShutdownStays,
     StartOver, Heads, ClosingStates, CoreStates
<1>15. ASSUME NEW t \in Tasks, Reboot(t)
      PROVE  WatchdogOffInTeardown'
  BY <1>15 DEF Reboot, Goto, WatchdogOffInTeardown, ShuttingDown, ShutdownStays,
     StartOver, Heads, ClosingStates, CoreStates
<1>16. ASSUME NEW t \in Tasks, Signal(t)
      PROVE  WatchdogOffInTeardown'
  BY <1>16 DEF Signal, Cancelled, WatchdogOffInTeardown, ShuttingDown, ShutdownStays,
     StartOver, Heads, ClosingStates, CoreStates
<1>17. ASSUME NEW t \in Tasks, StopRequested(t)
      PROVE  WatchdogOffInTeardown'
  BY <1>17 DEF StopRequested, Goto, WatchdogOffInTeardown, ShuttingDown, ShutdownStays,
     StartOver, Heads, ClosingStates, CoreStates
<1>18. ASSUME NEW t \in Tasks, UpdateItself(t)
      PROVE  WatchdogOffInTeardown'
  BY <1>18 DEF UpdateItself, WatchdogOffInTeardown, ShuttingDown, ShutdownStays,
     StartOver, Heads, ClosingStates, CoreStates
<1> QED
  BY <1>1, <1>2, <1>3, <1>4, <1>5, <1>6, <1>7, <1>8, <1>9, <1>10, <1>11, <1>12, <1>13,
     <1>14, <1>15, <1>16, <1>17, <1>18 DEF CoreNext, StartStep, TaskStep

-----------------------------------------------------------------------------
(* Theorems                                                                *)

LEMMA InitOK == ASSUME TasksAssumption, Init PROVE IInv
<1> USE DEF TasksAssumption, Init, Tasks
<1>1. Types /\ Roles
  BY DEF Types, Roles, Heads, CorePlaces, StartPlaces, RebootPlaces, SignalPlaces, CoreStates
<1>2. Beginning /\ RunningStarted /\ ShutdownStays
  BY DEF Beginning, RunningStarted, ShutdownStays, ShuttingDown, Heads
<1>3. ShutdownOnce /\ WatchdogOffInTeardown
  BY DEF ShutdownOnce, WatchdogOffInTeardown, ShuttingDown
<1> QED
  BY <1>1, <1>2, <1>3 DEF IInv

LEMMA StutterOK == ASSUME IInv, UNCHANGED coreVars PROVE IInv'
<1> USE DEF coreVars, IInv
<1>1. Types' /\ Roles' /\ Beginning' /\ RunningStarted'
  BY DEF Types, Roles, Beginning, RunningStarted, StartOver, Heads
<1>2. ShutdownStays' /\ ShutdownOnce' /\ WatchdogOffInTeardown'
  BY DEF ShutdownStays, ShutdownOnce, WatchdogOffInTeardown, ShuttingDown, StartOver, Heads
<1> QED
  BY <1>1, <1>2

(* The inductive invariant holds of every behaviour.                       *)
THEOREM Invariance == Spec => []IInv
<1>1. Init => IInv
  BY TasksAssumption, InitOK
<1>2. IInv /\ [CoreNext]_coreVars => IInv'
  <2> SUFFICES ASSUME IInv, [CoreNext]_coreVars
               PROVE  IInv'
    OBVIOUS
  <2>1. CASE CoreNext
    BY <2>1, TasksAssumption, TypesKept, RolesKept, BeginningKept, RunningStartedKept,
       ShutdownStaysKept, ShutdownOnceKept, WatchdogOffInTeardownKept DEF IInv
  <2>2. CASE UNCHANGED coreVars
    BY <2>2, StutterOK
  <2> QED
    BY <2>1, <2>2
<1> QED
  BY <1>1, <1>2, PTL DEF Spec

(* States, places of tasks and writes of the state file keep their types   *)
(* (Core.set_state).                                                       *)
THEOREM TypeCorrect == Spec => []CoreTypeOK
<1>1. IInv => CoreTypeOK
  BY DEF IInv, Types, CoreTypeOK, Roles, Heads, Place, StartPlaces, RebootPlaces, SignalPlaces
<1> QED
  BY <1>1, Invariance, PTL

(* One caller at a time tears down, and none again (Core.shutdown).        *)
THEOREM OneShutdown == Spec => []ShutdownOnce
<1>1. IInv => ShutdownOnce
  BY DEF IInv
<1> QED
  BY <1>1, Invariance, PTL

(* Services are torn down only after start() has ended (Core.shutdown).    *)
THEOREM TornDownAfterStart == Spec => []TeardownAfterStart
<1>1. IInv => TeardownAfterStart
  BY DEF IInv, ShutdownStays, StartOver, Heads, TeardownAfterStart
<1> QED
  BY <1>1, Invariance, PTL

(* While services are torn down the watchdog of Home Assistant is off      *)
(* (HomeAssistantCore._supervisor_state_changed).                          *)
THEOREM WatchdogOff == Spec => []WatchdogOffInTeardown
<1>1. IInv => WatchdogOffInTeardown
  BY DEF IInv
<1> QED
  BY <1>1, Invariance, PTL

(* Only the end of start() leads out of a closing state, and only after    *)
(* stop() began.                                                           *)
THEOREM GoesForward == Spec => Forward
<1> DEFINE Back == /\ state \in {"stopping", "close"} /\ state' = "running"
                   /\ pc[startTask] = "finally"
<1>1. ASSUME IInv, [CoreNext]_coreVars, state \in ClosingStates, state' \notin ClosingStates
      PROVE  Back
  <2> USE DEF IInv, Types
  <2>1. state' # state /\ CoreNext
    BY <1>1 DEF coreVars
  <2>2. CASE StartStep
    <3>1. StartFinally
      BY <1>1, <2>1, <2>2 DEF StartStep, Setup, Start, Prepare, Booted, Beginning, Heads,
         ClosingStates
    <3>2. pc[startTask] = "finally" /\ state' = "running"
      BY <2>1, <3>1 DEF StartFinally, SetState
    <3>3. state # "shutdown"
      BY <1>1, <3>2 DEF RunningStarted, StartOver, Heads
    <3> QED
      BY <1>1, <3>2, <3>3 DEF ClosingStates
  <2>3. ASSUME NEW t \in Tasks, TaskStep(t)
        PROVE  FALSE
    BY <1>1, <2>1, <2>3 DEF TaskStep, Saved, Shutdown, ShutdownAwaited, Teardown, Stop,
       LastBootStored, StagesOver, LoopStop, StopUnlessStopping, SetState, ClosingStates
  <2>4. ASSUME NEW w \in writes, Write(w)
        PROVE  FALSE
    BY <2>1, <2>4 DEF Write
  <2>5. ASSUME NEW t \in Tasks, Reboot(t) \/ Signal(t) \/ StopRequested(t) \/ UpdateItself(t)
        PROVE  FALSE
    BY <2>1, <2>5 DEF Reboot, Signal, StopRequested, UpdateItself
  <2> QED
    BY <2>1, <2>2, <2>3, <2>4, <2>5 DEF CoreNext
<1>2. IInv /\ [CoreNext]_coreVars =>
        [(state \in ClosingStates /\ state' \notin ClosingStates) => Back]_coreVars
  BY <1>1
<1> QED
  BY <1>2, Invariance, PTL DEF Spec, Forward

=============================================================================
