------------------------------ MODULE CoreState ------------------------------
(***************************************************************************)
(* The life cycle of the Supervisor: Core in core.py with its callers, the *)
(* startup task and the signal handler of __main__.py and the host API's   *)
(* reboot and power off (host/control.py).  Each caller is a task; a step  *)
(* is the code between two awaits.                                         *)
(***************************************************************************)
EXTENDS Naturals, FiniteSets

CONSTANTS
  startTask,    \* the task of __main__ that runs setup() and start()
  Reboots,      \* API requests to reboot or power off the host
  Signals,      \* stop_supervisor tasks of the signal handler, self updates
  Others        \* tasks of other components that call set_state

Tasks == {startTask} \cup Reboots \cup Signals \cup Others

ASSUME TasksAssumption ==
  /\ startTask \notin Reboots \cup Signals \cup Others
  /\ Reboots \cap Signals = {}
  /\ Others \cap (Reboots \cup Signals) = {}

CoreStates == {"initialize", "setup", "startup", "running", "freeze",
               "shutdown", "stopping", "close"}
\* Mutant of StartingStates: STARTUP forgotten.
StartingStatesShort == {"initialize", "setup"}

StartingStates == {"initialize", "setup", "startup"}
ClosingStates == {"shutdown", "stopping", "close"}
ValidApiStates == {"startup", "running", "freeze"}

VARIABLES
  state,          \* Core._state
  runFile,        \* content of the file RUN_SUPERVISOR_STATE
  writes,         \* writes of that file the executor has not done yet
  pc,             \* where each task stands
  after,          \* where a task goes when its set_state returns
  shutdownEvent,  \* Core._shutdown_event
  watchdog,       \* Home Assistant's watchdog listener is registered
  stopped         \* the event loop has stopped

coreVars == <<state, runFile, writes, pc, after, shutdownEvent, watchdog, stopped>>

Init ==
  /\ state = "initialize"
  /\ runFile = "initialize"
  /\ writes = {}
  /\ pc = [t \in Tasks |-> "idle"]
  /\ after = [t \in Tasks |-> "idle"]
  /\ shutdownEvent = FALSE
  /\ watchdog = TRUE
  /\ stopped = FALSE

Goto(t, place) == pc' = [pc EXCEPT ![t] = place]

-----------------------------------------------------------------------------
(* set_state: the state changes at once, the file and the event follow     *)

SetState(t, s, place) ==
  IF state = s
    THEN Goto(t, place) /\ UNCHANGED <<state, writes, after>>
    ELSE /\ state' = s
         /\ writes' = writes \cup {[by |-> t, value |-> s]}
         /\ Goto(t, "saving")
         /\ after' = [after EXCEPT ![t] = place]

Write(w) ==
  /\ w \in writes
  /\ runFile' = w.value
  /\ writes' = writes \ {w}
  /\ UNCHANGED <<state, pc, after, shutdownEvent, watchdog, stopped>>

\* Mutant of Saved: only STOPPING drops the watchdog.
SavedOnlyStopping(t) ==
  /\ pc[t] = "saving"
  /\ \A w \in writes : w.by # t
  /\ Goto(t, after[t])
  /\ watchdog' = (watchdog /\ state # "stopping")
  /\ UNCHANGED <<state, runFile, writes, after, shutdownEvent, stopped>>

\* The event carries the state of this moment; Home Assistant drops its
\* watchdog listener when a closing state is announced.
Saved(t) ==
  /\ pc[t] = "saving"
  /\ \A w \in writes : w.by # t
  /\ Goto(t, after[t])
  /\ watchdog' = (watchdog /\ state \notin {"shutdown", "stopping"})
  /\ UNCHANGED <<state, runFile, writes, after, shutdownEvent, stopped>>

Unsaved == <<runFile, shutdownEvent, watchdog, stopped>>

-----------------------------------------------------------------------------
(* setup() and start()                                                     *)

Setup ==
  /\ pc[startTask] = "idle"
  /\ state = "initialize"
  /\ SetState(startTask, "setup", "start")
  /\ UNCHANGED Unsaved

Start ==
  /\ pc[startTask] = "start"
  /\ SetState(startTask, "startup", "prepare")
  /\ UNCHANGED Unsaved

\* Diagnostics, boot slot and update information, outside the try statement.
Prepare ==
  /\ pc[startTask] = "prepare"
  /\ \E place \in {"boot", "done"} : Goto(startTask, place)
  /\ UNCHANGED <<state, runFile, writes, after, shutdownEvent, watchdog, stopped>>

\* The Supervisor updates itself: update() makes a task that calls stop().
UpdateItself(t) ==
  /\ pc[startTask] = "prepare"
  /\ t \in Signals /\ pc[t] = "idle"
  /\ pc' = [pc EXCEPT ![startTask] = "done", ![t] = "stop"]
  /\ UNCHANGED <<state, runFile, writes, after, shutdownEvent, watchdog, stopped>>

\* Apps and Home Assistant are started, or fail to: finally either way.
Booted ==
  /\ pc[startTask] = "boot"
  /\ Goto(startTask, "finally")
  /\ UNCHANGED <<state, runFile, writes, after, shutdownEvent, watchdog, stopped>>

StartFinally ==
  /\ pc[startTask] = "finally"
  /\ SetState(startTask, "running", "done")
  /\ UNCHANGED Unsaved

\* Where start() goes when its task is cancelled: its finally clause belongs
\* to the try statement of the boot sequence.
Cancelled(place) == IF place = "boot" THEN "finally" ELSE "done"

-----------------------------------------------------------------------------
(* shutdown()                                                              *)

\* Mutant of Return: every shutdown goes on to stop the Supervisor.
ReturnStops(t) == IF t \in Tasks THEN "stop" ELSE "idle"

Return(t) == IF t \in Signals THEN "stop" ELSE "idle"

\* Mutant of Shutdown: nobody waits for the shutdown in progress.
ShutdownAgain(t) ==
  /\ pc[t] = "shutdown"
  /\ IF state \in StartingStates \cup {"stopping", "close"}
       THEN Goto(t, Return(t)) /\ UNCHANGED <<state, writes, after>>
       ELSE SetState(t, "shutdown", "teardown")
  /\ UNCHANGED Unsaved

Shutdown(t) ==
  /\ pc[t] = "shutdown"
  /\ IF state \in StartingStates \cup {"stopping", "close"}
       THEN Goto(t, Return(t)) /\ UNCHANGED <<state, writes, after>>
     ELSE IF state = "shutdown"
       THEN Goto(t, "await event") /\ UNCHANGED <<state, writes, after>>
     ELSE SetState(t, "shutdown", "teardown")
  /\ UNCHANGED Unsaved

ShutdownAwaited(t) ==
  /\ pc[t] = "await event"
  /\ shutdownEvent
  /\ Goto(t, Return(t))
  /\ UNCHANGED <<state, runFile, writes, after, shutdownEvent, watchdog, stopped>>

\* Mutant of Teardown: a failure skips setting the event.
TeardownNoFinally(t) ==
  /\ pc[t] = "teardown"
  /\ \E ok \in BOOLEAN : shutdownEvent' = (shutdownEvent \/ ok)
  /\ Goto(t, Return(t))
  /\ UNCHANGED <<state, runFile, writes, after, watchdog, stopped>>

\* Mutant of Teardown: RUNNING again afterwards, as after a restore.
TeardownThenRunning(t) ==
  /\ pc[t] = "teardown"
  /\ shutdownEvent' = TRUE
  /\ SetState(t, "running", Return(t))
  /\ UNCHANGED <<runFile, watchdog, stopped>>

\* teardown_services() and the plugins, done or failed, and finally the event.
Teardown(t) ==
  /\ pc[t] = "teardown"
  /\ shutdownEvent' = TRUE
  /\ Goto(t, Return(t))
  /\ UNCHANGED <<state, runFile, writes, after, watchdog, stopped>>

\* reboot() and shutdown() of SystemControl, where the OS leaves it to us.
Reboot(t) ==
  /\ t \in Reboots
  /\ pc[t] = "idle"
  /\ state \in ValidApiStates
  /\ Goto(t, "shutdown")
  /\ UNCHANGED <<state, runFile, writes, after, shutdownEvent, watchdog, stopped>>

-----------------------------------------------------------------------------
(* stop()                                                                  *)

\* The handler cancels a startup in progress; shutdown() precedes stop() when
\* the host goes down.  Handlers are installed once start() is a task.
Signal(t) ==
  /\ t \in Signals
  /\ pc[t] = "idle"
  /\ state \notin {"initialize"}
  /\ ~(pc[startTask] = "saving" /\ after[startTask] = "start")
  /\ \E place \in {"shutdown", "stop"} :
       pc' = [pc EXCEPT ![t] = place,
                        ![startTask] = Cancelled(@)]
  /\ UNCHANGED <<state, runFile, writes, after, shutdownEvent, watchdog, stopped>>

\* Supervisor.update() and restart(), by the API: a task that calls stop().
StopRequested(t) ==
  /\ t \in Signals
  /\ pc[t] = "idle"
  /\ state \in ValidApiStates
  /\ Goto(t, "stop")
  /\ UNCHANGED <<state, runFile, writes, after, shutdownEvent, watchdog, stopped>>

\* Mutant of StopUnlessStopping: a shutdown in progress counts as a stop.
StopUnlessClosing(t) ==
  IF state \in ClosingStates
    THEN Goto(t, "done") /\ UNCHANGED <<state, writes, after>>
    ELSE SetState(t, "stopping", "stages")

StopUnlessStopping(t) ==
  IF state \in {"stopping", "close"}
    THEN Goto(t, "done") /\ UNCHANGED <<state, writes, after>>
    ELSE SetState(t, "stopping", "stages")

\* Storing the last boot is an await before the state is looked at again.
Stop(t) ==
  /\ pc[t] = "stop"
  /\ IF state \in {"running", "shutdown"}
       THEN Goto(t, "last boot") /\ UNCHANGED <<state, writes, after>>
       ELSE StopUnlessStopping(t)
  /\ UNCHANGED Unsaved

LastBootStored(t) ==
  /\ pc[t] = "last boot"
  /\ StopUnlessStopping(t)
  /\ UNCHANGED Unsaved

\* The two stages end by themselves or after ten seconds each.
StagesOver(t) ==
  /\ pc[t] = "stages"
  /\ SetState(t, "close", "loop stop")
  /\ UNCHANGED Unsaved

\* loop.stop() ends run_forever().  While the startup task is not done it ends
\* run_until_complete() instead, which raises; __main__ logs that and calls
\* run_forever().
LoopStop(t) ==
  /\ pc[t] = "loop stop"
  /\ stopped' = (pc[startTask] = "done")
  /\ Goto(t, "done")
  /\ UNCHANGED <<state, runFile, writes, after, shutdownEvent, watchdog>>

-----------------------------------------------------------------------------

StartStep == Setup \/ Start \/ Prepare \/ Booted \/ StartFinally

TaskStep(t) ==
  \/ Saved(t)
  \/ Shutdown(t) \/ ShutdownAwaited(t) \/ Teardown(t)
  \/ Stop(t) \/ LastBootStored(t) \/ StagesOver(t) \/ LoopStop(t)

CoreNext ==
  /\ ~stopped
  /\ \/ StartStep
     \/ \E w \in writes : Write(w)
     \/ \E t \in Tasks : TaskStep(t) \/ Reboot(t) \/ Signal(t) \/ StopRequested(t)
                          \/ UpdateItself(t)

\* A system without backups: nobody else calls set_state.
Spec == Init /\ [][CoreNext]_coreVars

(* Tasks run, file writes return, apps and plugins stop within their       *)
(* timeouts and the boot sequence ends.  Nothing makes a signal or a       *)
(* reboot request arrive.                                                  *)
CoreFairness ==
  /\ WF_coreVars(~stopped /\ StartStep)
  /\ WF_coreVars(~stopped /\ \E w \in writes : Write(w))
  /\ \A t \in Tasks : WF_coreVars(~stopped /\ TaskStep(t))

FairSpec == Spec /\ CoreFairness

-----------------------------------------------------------------------------
(* Properties                                                              *)

\* Where a task is, or goes once its state is saved.
Place(t) == IF pc[t] = "saving" THEN after[t] ELSE pc[t]

\* The places of each kind of task.
StartPlaces == {"idle", "start", "prepare", "boot", "finally", "done"}
RebootPlaces == {"idle", "shutdown", "await event", "teardown"}
SignalPlaces == RebootPlaces \cup {"stop", "last boot", "stages", "loop stop", "done"}

(* Types; and a task keeps to its own code: what reboots the host tears    *)
(* down and leaves stop() to the signal that follows (host/control.py,     *)
(* __main__.py), and start() is run by the startup task alone.             *)
CoreTypeOK ==
  /\ state \in CoreStates
  /\ runFile \in CoreStates
  /\ writes \subseteq [by : Tasks, value : CoreStates]
  /\ Place(startTask) \in StartPlaces
  /\ \A t \in Reboots : Place(t) \in RebootPlaces
  /\ \A t \in Signals : Place(t) \in SignalPlaces
  /\ {shutdownEvent, watchdog, stopped} \subseteq BOOLEAN

ShuttingDown(t) == "teardown" \in {pc[t], IF pc[t] = "saving" THEN after[t] ELSE ""}

Stopping(t) == pc[t] \in {"stages", "loop stop"}
                 \/ (pc[t] = "saving" /\ after[t] \in {"stages", "loop stop"})

(* "Reentrant: concurrent callers observe state == SHUTDOWN and await the  *)
(* in-flight shutdown rather than re-running the sequence"                 *)
(* (Core.shutdown): one caller at a time tears down, and none again once a *)
(* teardown is over.                                                       *)
ShutdownOnce ==
  \A t, u \in Tasks :
    ShuttingDown(t) /\ ShuttingDown(u) => t = u /\ ~shutdownEvent

(* "Nothing coherent to shut down before startup completes"                *)
(* (Core.shutdown): services are torn down only after start() has reached  *)
(* its end.                                                                *)
TeardownAfterStart ==
  (\E t \in Tasks : ShuttingDown(t)) =>
     pc[startTask] = "done" \/ (pc[startTask] = "saving" /\ after[startTask] = "done")

(* Home Assistant's watchdog does not restart what shutdown() stops        *)
(* (HomeAssistantCore._supervisor_state_changed): while services are torn  *)
(* down its listener is gone, unless the loop is about to stop anyway.     *)
WatchdogOffInTeardown ==
  (\E t \in Tasks : pc[t] = "teardown") => ~watchdog \/ state = "close"

(* Nothing goes back to RUNNING once the Supervisor shuts down or stops,   *)
(* but for the end of start(), which may still do so after stop() began:   *)
(* then, and only then, may a closing state be left for an earlier one.    *)
Forward ==
  [][(state \in ClosingStates /\ state' \notin ClosingStates) =>
        /\ state \in {"stopping", "close"} /\ state' = "running"
        /\ pc[startTask] = "finally"]_coreVars

(* Every caller of shutdown() gets its answer, or the loop stops.          *)
ShutdownReturns ==
  \A t \in Tasks : (pc[t] = "shutdown") ~> (pc[t] \in {"idle", "stop"} \/ stopped)

(* A Supervisor whose start() is over and that is told to stop does stop   *)
(* (Core.stop), whoever else shuts it down or stops it at the same time.   *)
StopStops ==
  \A t \in Signals :
    (pc[t] = "stop" /\ pc[startTask] = "done" /\ state \notin {"stopping", "close"})
      ~> stopped

=============================================================================
