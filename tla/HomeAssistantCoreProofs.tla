----------------------- MODULE HomeAssistantCoreProofs -----------------------
(***************************************************************************)
(* Proofs about HomeAssistantCore: types, the images that an update, its   *)
(* rollback and its cleanup keep, the version of a running Core and the    *)
(* truth of a good end, for any number of versions, watches, operations    *)
(* and faults.                                                             *)
(***************************************************************************)
EXTENDS HomeAssistantCore, TLAPS

-----------------------------------------------------------------------------
(* The inductive invariant                                                 *)

Places == {"none", "ready", "halt", "restart", "stop", "remove", "query", "pull",
           "record", "begin", "run", "block", "verify"}

JobTypes == [op : {"none", "start", "stop", "restart", "rebuild", "update"},
             pc : Places, to : Versions \cup {Nothing}, rollback : Versions \cup {Nothing},
             was : BOOLEAN, back : BOOLEAN, owner : Watchers \cup {Nothing}]

WatchTypes == [pc : {"idle", "poll", "wait", "again"}, seen : {"failed", "unhealthy"},
               attempts : 0 .. MaxAttempts - 1]

\* Which operation is at which place.
Fits(op, pc) ==
  /\ op = "none" <=> pc = "none"
  /\ pc \in {"query", "pull", "record", "verify"} => op = "update"
  /\ pc = "restart" => op = "restart"
  /\ pc \in {"stop", "remove"} <=> op = "stop"
  /\ pc = "halt" => op \in {"update", "rebuild"}

\* A watch waits for an operation exactly while it owns it.
WatchWaits == \A w \in Watchers : watch[w].pc = "wait" <=> job.owner = w

JobOK ==
  /\ job \in JobTypes
  /\ watch \in [Watchers -> WatchTypes]
  /\ job.op = "none" => job = NoJob
  /\ Fits(job.op, job.pc)
  /\ job.op \in {"stop", "update"} => job.owner = Nothing
  /\ job.op = "update" => job.to \in Versions
  /\ WatchWaits

DataTypes ==
  /\ container \in [state : {"missing", "stopped", "failed", "up", "unhealthy"},
                    version : Versions \cup {Nothing}]
  /\ images \subseteq Versions
  /\ meta \in Versions /\ version \in Versions /\ saved \in Versions
  /\ errorState \in BOOLEAN /\ slipped \in BOOLEAN

\* A container keeps its image, and has the version in memory unless it slipped.
ContainerKnown ==
  /\ container.state = "missing" <=> container.version = Nothing
  /\ container.state # "missing" => container.version \in images
  /\ container.state # "missing" /\ ~slipped => container.version = version
  /\ At("begin") => container.state # "missing"
  /\ At("record") \/ (At("ready") /\ job.op = "update") =>
       container.state = "missing" \/ slipped

\* From the pull of an update to its record the instance is ahead of the version
\* in memory, and stays so if the stop between them times out; what follows the
\* record finds them equal.  Once start goes on, the version is saved.
Saved ==
  /\ ImagesKept
  /\ meta \in images
  /\ job.op = "update" /\ job.pc \in {"ready", "begin", "run", "block", "verify"} =>
       meta = version
  /\ At("run") => saved = version
  /\ job.op = "update" /\ job.pc \in {"begin", "block", "verify"} =>
       saved = version \/ slipped

IInv == JobOK /\ DataTypes /\ ContainerKnown /\ Saved

-----------------------------------------------------------------------------
(* What an operation and its watch become                                  *)

Ended ==
  /\ job' = NoJob
  /\ watch' \in [Watchers -> WatchTypes]
  /\ \A w \in Watchers : watch'[w].pc # "wait"

\* The operation goes on; a watch may begin.
Moved(p) ==
  /\ job' = [job EXCEPT !.pc = p]
  /\ watch' \in [Watchers -> WatchTypes]
  /\ \A w \in Watchers : watch'[w].pc = "wait" <=> watch[w].pc = "wait"

LEMMA NoJobType ==
  NoJob \in JobTypes /\ NoJob.op = "none" /\ NoJob.pc = "none" /\ NoJob.owner = Nothing
BY DEF NoJob, JobTypes, Places

(* A watch that counts a failed attempt gives up or looks again.           *)
LEMMA FailedWatch ==
  ASSUME HomeAssistantAssumption, NEW w \in WatchTypes
  PROVE  Failed(w) \in WatchTypes /\ Failed(w).pc # "wait"
<1>1. NoWatch \in WatchTypes /\ NoWatch.pc # "wait"
  BY DEF NoWatch, WatchTypes, HomeAssistantAssumption
<1>2. CASE w.attempts + 1 >= MaxAttempts
  BY <1>1, <1>2 DEF Failed
<1>3. CASE ~(w.attempts + 1 >= MaxAttempts)
  <2> DEFINE n == w.attempts + 1
  <2>1. n \in 0 .. MaxAttempts - 1
    BY <1>3 DEF WatchTypes, HomeAssistantAssumption
  <2>2. Failed(w) = [w EXCEPT !.attempts = n, !.pc = "poll"]
    BY <1>3 DEF Failed
  <2> HIDE DEF n
  <2> QED
    BY <2>1, <2>2 DEF WatchTypes
<1> QED
  BY <1>2, <1>3

(* An operation that ends, however it does, leaves no watch waiting.       *)
LEMMA EndEnds ==
  ASSUME HomeAssistantAssumption, JobOK, NEW r, End(r)
  PROVE  Ended /\ last' = r
<1> USE DEF HomeAssistantAssumption, JobOK, WatchWaits
<1>1. job' = NoJob /\ last' = r
  BY DEF End
<1>2. CASE job.owner = Nothing
  <2>1. watch' = watch
    BY <1>2 DEF End
  <2>2. ASSUME NEW w \in Watchers
        PROVE  watch[w].pc # "wait"
    BY <1>2
  <2> QED
    BY <1>1, <2>1, <2>2 DEF Ended
<1>3. CASE job.owner # Nothing
  <2> DEFINE o == job.owner
  <2>1. o \in Watchers
    BY <1>3 DEF JobTypes
  <2>2. watch' = [watch EXCEPT ![o] = Told(watch[o], r)]
    BY <1>3, <2>1 DEF End
  <2>3. watch[o] \in WatchTypes
    BY <2>1
  <2>4. Told(watch[o], r) \in {NoWatch, [watch[o] EXCEPT !.pc = "again"], Failed(watch[o])}
    BY DEF Told
  <2>5. Told(watch[o], r) \in WatchTypes /\ Told(watch[o], r).pc # "wait"
    BY <2>3, <2>4, FailedWatch DEF WatchTypes, NoWatch
  <2>6. ASSUME NEW w \in Watchers
        PROVE  watch'[w].pc # "wait"
    BY <2>1, <2>2, <2>5, <1>3
  <2> QED
    BY <1>1, <2>2, <2>5, <2>6 DEF Ended
<1> QED
  BY <1>2, <1>3

(* An event that starts a watch disturbs no other.                         *)
LEMMA NotifyKeeps ==
  ASSUME HomeAssistantAssumption, JobOK, NEW s \in {"failed", "unhealthy"}, Notify(s)
  PROVE  /\ watch' \in [Watchers -> WatchTypes]
         /\ \A w \in Watchers : watch'[w].pc = "wait" <=> watch[w].pc = "wait"
<1>1. PICK w \in Watchers :
        /\ watch[w] = NoWatch
        /\ watch' = [watch EXCEPT ![w] = [NoWatch EXCEPT !.pc = "poll", !.seen = s]]
  BY DEF Notify
<1> DEFINE new == [NoWatch EXCEPT !.pc = "poll", !.seen = s]
<1>2. new \in WatchTypes /\ new.pc = "poll" /\ NoWatch.pc = "idle"
  <2>1. NoWatch \in WatchTypes /\ NoWatch.pc = "idle"
    BY DEF NoWatch, WatchTypes, HomeAssistantAssumption
  <2> QED
    BY <2>1 DEF WatchTypes
<1>3. watch' = [watch EXCEPT ![w] = new]
  BY <1>1
<1> HIDE DEF new
<1> QED
  BY <1>1, <1>2, <1>3 DEF JobOK

(* How start, restart and rebuild end, and how update goes on after start. *)
LEMMA StartedEnds ==
  ASSUME HomeAssistantAssumption, JobOK, NEW r \in {"ok", "error", "abort"}, Started(r),
         job.op # "none"
  PROVE  /\ Ended \/ (job.op = "update" /\ r # "abort" /\ Moved("verify"))
         /\ saved' = IF job.op = "update" /\ r = "ok" THEN version ELSE saved
         /\ Ended => last' = r
         /\ job' = NoJob /\ r = "ok" /\ job.op = "update" => job.back
<1>1. CASE job.op = "update" /\ r = "ok"
  <2>1. saved' = version /\ IF job.back THEN End("ok") ELSE Goto("verify")
    BY <1>1 DEF Started
  <2> QED
    BY <1>1, <2>1, EndEnds DEF Goto, Moved, JobOK, Ended, NoJob, JobTypes
<1>2. CASE job.op = "update" /\ r = "error"
  <2>1. saved' = saved /\ IF job.back THEN End("error") ELSE Goto("verify")
    BY <1>2 DEF Started
  <2> QED
    BY <1>2, <2>1, EndEnds DEF Goto, Moved, JobOK, Ended, NoJob, JobTypes
<1>3. CASE job.op # "update" \/ r = "abort"
  <2>1. saved' = saved /\ End(r)
    BY <1>3 DEF Started
  <2> QED
    BY <1>3, <2>1, EndEnds DEF Ended
<1> QED
  BY <1>1, <1>2, <1>3

(* The four things a step does to the operation: nothing, move, end, begin *)
LEMMA MovedKeeps ==
  ASSUME JobOK, job.op # "none", NEW p \in Places, Fits(job.op, p), Moved(p)
  PROVE  JobOK' /\ job'.pc = p /\ job'.op = job.op /\ job' # NoJob
BY DEF JobOK, JobTypes, Moved, WatchWaits, Fits, NoJob

LEMMA EndedKeeps ==
  ASSUME HomeAssistantAssumption, JobOK, Ended
  PROVE  JobOK' /\ job'.pc = "none" /\ job'.op = "none"
BY NoJobType DEF HomeAssistantAssumption, JobOK, Ended, WatchWaits, Fits

LEMMA BegunKeeps ==
  ASSUME HomeAssistantAssumption, JobOK, job = NoJob, NEW j \in JobTypes, job' = j,
         j.op # "none", Fits(j.op, j.pc), j.owner = Nothing,
         j.op = "update" => j.to \in Versions, watch' = watch
  PROVE  JobOK'
BY NoJobType DEF HomeAssistantAssumption, JobOK, WatchWaits

LEMMA SameJobKeeps ==
  ASSUME JobOK, job' = job, watch' \in [Watchers -> WatchTypes],
         \A w \in Watchers : watch'[w].pc = "wait" <=> watch[w].pc = "wait"
  PROVE  JobOK'
BY DEF JobOK, WatchWaits

(* A call of the user begins one operation at its first place.             *)
LEMMA CallJob ==
  ASSUME HomeAssistantAssumption, JobOK,
         Start \/ Rebuild \/ Restart \/ Stop \/ (\E to \in Versions : Update(to)),
         DataTypes
  PROVE  JobOK' /\ job = NoJob /\ job'.pc \notin {"record", "run", "begin", "block", "verify"}
         /\ ~(job'.op = "update" /\ job'.pc \in {"halt", "ready"})
<1> USE DEF Job, UserCall
<1>1. ASSUME NEW op \in {"start", "rebuild", "restart", "stop"},
             NEW pc \in {"ready", "halt", "restart", "stop", "remove"},
             Fits(op, pc), UserCall(Job(op, pc, Nothing))
      PROVE  JobOK' /\ job = NoJob /\ job'.pc = pc /\ job'.op = op
  <2>1. /\ Job(op, pc, Nothing) \in JobTypes
        /\ Job(op, pc, Nothing).op = op /\ Job(op, pc, Nothing).pc = pc
        /\ Job(op, pc, Nothing).owner = Nothing
    BY NoJobType DEF JobTypes, Places
  <2> QED
    BY <1>1, <2>1, BegunKeeps
<1>2. CASE Start \/ Rebuild \/ Restart \/ Stop
  BY <1>1, <1>2 DEF Start, Rebuild, Restart, Stop, Fits
<1>3. ASSUME NEW to \in Versions, Update(to)
      PROVE  JobOK' /\ job = NoJob /\ job'.pc = "query"
  <2> DEFINE back == IF errorState THEN Nothing ELSE version
             j == [Job("update", "query", Nothing) EXCEPT !.to = to, !.rollback = back]
  <2>1. job = NoJob /\ job' = j /\ watch' = watch
    BY <1>3 DEF Update
  <2>2. back \in Versions \cup {Nothing}
    BY DEF DataTypes
  <2> HIDE DEF back
  <2>3. j \in JobTypes /\ j.op = "update" /\ j.pc = "query" /\ j.owner = Nothing /\ j.to = to
    <3>1. Job("update", "query", Nothing) \in JobTypes
      BY NoJobType DEF JobTypes, Places
    <3>2. /\ Job("update", "query", Nothing).op = "update"
          /\ Job("update", "query", Nothing).pc = "query"
          /\ Job("update", "query", Nothing).owner = Nothing
      BY NoJobType DEF JobTypes
    <3> QED
      BY <2>2, <3>1, <3>2 DEF JobTypes
  <2> QED
    BY <2>1, <2>3, BegunKeeps DEF Fits
<1> QED
  BY <1>2, <1>3 DEF Start, Rebuild, Restart, Stop, Job, NoJob

-----------------------------------------------------------------------------
(* The steps                                                               *)

DataOK == DataTypes /\ ContainerKnown /\ Saved

LEMMA GotoMoves ==
  ASSUME JobOK, NEW p, Goto(p)
  PROVE  Moved(p) /\ last' = last
BY DEF Goto, Moved, JobOK

LEMMA CallKeeps ==
  ASSUME HomeAssistantAssumption, IInv,
         Start \/ Rebuild \/ Restart \/ Stop \/ (\E to \in Versions : Update(to))
  PROVE  IInv'
<1>1. /\ JobOK' /\ job = NoJob
      /\ job'.pc \notin {"record", "run", "begin", "block", "verify"}
      /\ ~(job'.op = "update" /\ job'.pc \in {"halt", "ready"})
  BY CallJob DEF IInv
<1>2. UNCHANGED <<docker, state, slipped>>
  BY DEF Start, Rebuild, Restart, Stop, Update, UserCall, ghosts
<1> QED
  BY <1>1, <1>2, NoJobType DEF IInv, DataTypes, ContainerKnown, Saved, ImagesKept, At, docker, state

LEMMA QueryKeeps ==
  ASSUME HomeAssistantAssumption, IInv, Query
  PROVE  IInv'
<1>1. job.pc = "query" /\ job.op = "update" /\ JobOK
  BY DEF Query, At, IInv, JobOK, Fits
<1>2. JobOK' /\ job'.pc \in {"pull", "none"}
  <2>1. CASE End("abort")
    BY <1>1, <2>1, EndEnds, EndedKeeps
  <2>2. CASE job' = [job EXCEPT !.was = Running, !.pc = "pull"] /\ watch' = watch
    <3>1. Running \in BOOLEAN
      BY DEF Running
    <3> QED
      BY <1>1, <2>2, <3>1 DEF JobOK, JobTypes, WatchWaits, Fits, NoJob, Places
  <2> QED
    BY <2>1, <2>2 DEF Query
<1>3. UNCHANGED <<docker, state, slipped>>
  BY DEF Query
<1> QED
  BY <1>1, <1>2, <1>3 DEF IInv, DataTypes, ContainerKnown, Saved, ImagesKept, At, docker, state

LEMMA PullKeeps ==
  ASSUME HomeAssistantAssumption, IInv, Pull
  PROVE  IInv'
<1>1. job.pc = "pull" /\ job.op = "update" /\ job.to \in Versions /\ JobOK
  BY DEF Pull, At, IInv, JobOK, Fits
<1>2. UNCHANGED <<container, version, saved, errorState, slipped>>
  BY DEF Pull
<1>3. CASE End("error") /\ UNCHANGED <<images, meta>>
  <2>1. JobOK' /\ job'.pc = "none"
    BY <1>1, <1>3, EndEnds, EndedKeeps
  <2> QED
    BY <1>1, <1>2, <1>3, <2>1 DEF IInv, DataTypes, ContainerKnown, Saved, ImagesKept, At
<1>4. CASE images' = images \cup {job.to} /\ meta' = job.to /\ Goto("halt")
  <2>1. JobOK' /\ job'.pc = "halt" /\ job'.op = "update"
    BY <1>1, <1>4, GotoMoves, MovedKeeps DEF Fits, Places
  <2> QED
    BY <1>1, <1>2, <1>4, <2>1 DEF IInv, DataTypes, ContainerKnown, Saved, ImagesKept, At
<1> QED
  BY <1>3, <1>4 DEF Pull

\* What may be left of a container by a stop that fails is that container or none.
LEMMA HalfwayLeaves ==
  ASSUME DataTypes, NEW delete \in BOOLEAN, container.state # "missing",
         NEW c \in Halfway(delete)
  PROVE  c = Gone \/ \E s \in {"stopped", "failed", "up", "unhealthy"} :
                       c = [state |-> s, version |-> container.version]
BY DEF Halfway, DataTypes

LEMMA TimeoutKeeps ==
  ASSUME HomeAssistantAssumption, IInv, job.op # "none", NEW delete \in BOOLEAN,
         HaltTimesOut(delete), UNCHANGED <<images, state>>
  PROVE  IInv'
<1>1. JobOK' /\ job'.pc = "none" /\ job'.op = "none"
  BY EndEnds, EndedKeeps DEF HaltTimesOut, IInv
<1>2. CASE container' = Gone
  <2>1. slipped' = Unsaved
    BY <1>2 DEF HaltTimesOut
  <2> QED
    BY <1>1, <1>2, <2>1
       DEF IInv, DataTypes, ContainerKnown, Saved, ImagesKept, At, state, Gone, Unsaved,
           HomeAssistantAssumption
<1>3. ASSUME container' # Gone, NEW s \in {"stopped", "failed", "up", "unhealthy"},
             container' = [state |-> s, version |-> container.version]
      PROVE  IInv'
  <2>1. slipped' = slipped /\ container.state # "missing"
    BY <1>3 DEF HaltTimesOut
  <2> QED
    BY <1>1, <1>3, <2>1
       DEF IInv, DataTypes, ContainerKnown, Saved, ImagesKept, At, state
<1> QED
  BY <1>2, <1>3, HalfwayLeaves DEF HaltTimesOut, IInv

LEMMA HaltKeeps ==
  ASSUME HomeAssistantAssumption, IInv, Halt
  PROVE  IInv'
<1>1. job.pc = "halt" /\ job.op \in {"update", "rebuild"} /\ JobOK
  BY DEF Halt, At, IInv, JobOK, Fits
<1>2. UNCHANGED <<images, state>>
  BY DEF Halt
<1>3. ASSUME Moved(AfterHalt)
      PROVE  JobOK' /\ job'.pc = AfterHalt /\ job'.op = job.op
  BY <1>1, <1>3, MovedKeeps DEF AfterHalt, Fits, Places
<1>4. CASE container' = Gone /\ slipped' = Unsaved /\ Goto(AfterHalt)
  <2>1. JobOK' /\ job'.pc = AfterHalt /\ job'.op = job.op
    BY <1>1, <1>3, <1>4, GotoMoves
  <2> QED
    BY <1>1, <1>2, <1>4, <2>1
       DEF IInv, DataTypes, ContainerKnown, Saved, ImagesKept, At, state, Gone, Unsaved, AfterHalt,
           HomeAssistantAssumption
<1>5. ASSUME Moved(AfterHalt), container.state # "missing", slipped' = TRUE,
             NEW s \in {"stopped", "failed", "up", "unhealthy"},
             container' = [state |-> s, version |-> container.version]
      PROVE  IInv'
  BY <1>1, <1>2, <1>3, <1>5
     DEF IInv, DataTypes, ContainerKnown, Saved, ImagesKept, At, state, AfterHalt
<1>6. CASE /\ container.state # "missing" /\ container' \in Halfway(FALSE)
           /\ slipped' = TRUE /\ Goto(AfterHalt)
  <2>1. Moved(AfterHalt)
    BY <1>1, <1>6, GotoMoves
  <2>2. PICK s \in {"stopped", "failed", "up", "unhealthy"} :
          container' = [state |-> s, version |-> container.version]
    BY <1>6 DEF Halfway, IInv, DataTypes
  <2> QED
    BY <1>5, <1>6, <2>1, <2>2
<1>7. CASE /\ Running /\ container' = [container EXCEPT !.state = "failed"]
           /\ slipped' = TRUE /\ Notify("failed")
           /\ job' = [job EXCEPT !.pc = AfterHalt]
  <2>1. Moved(AfterHalt)
    BY <1>1, <1>7, NotifyKeeps DEF Moved
  <2>2. container' = [state |-> "failed", version |-> container.version]
    BY <1>7 DEF IInv, DataTypes
  <2> QED
    BY <1>5, <1>7, <2>1, <2>2 DEF Running
<1>8. CASE HaltTimesOut(TRUE)
  BY <1>1, <1>2, <1>8, TimeoutKeeps
<1> QED
  BY <1>4, <1>6, <1>7, <1>8 DEF Halt

LEMMA RecordKeeps ==
  ASSUME HomeAssistantAssumption, IInv, Record
  PROVE  IInv'
<1>1. job.pc = "record" /\ job.op = "update" /\ JobOK
  BY DEF Record, At, IInv, JobOK, Fits
<1>2. UNCHANGED <<docker, meta, errorState, slipped>> /\ version' = meta
  BY DEF Record
<1>3. CASE Goto("ready") /\ saved' = saved
  <2>1. JobOK' /\ job'.pc = "ready"
    BY <1>1, <1>3, GotoMoves, MovedKeeps DEF Fits, Places
  <2> QED
    BY <1>1, <1>2, <1>3, <2>1
       DEF IInv, DataTypes, ContainerKnown, Saved, ImagesKept, At, docker
<1>4. CASE End("ok") /\ saved' = meta
  <2>1. JobOK' /\ job'.pc = "none"
    BY <1>1, <1>4, EndEnds, EndedKeeps
  <2> QED
    BY <1>1, <1>2, <1>4, <2>1
       DEF IInv, DataTypes, ContainerKnown, Saved, ImagesKept, At, docker
<1> QED
  BY <1>3, <1>4 DEF Record

LEMMA StartedKeeps ==
  ASSUME HomeAssistantAssumption, JobOK, NEW r \in {"ok", "error", "abort"}, Started(r),
         job.op # "none"
  PROVE  /\ JobOK'
         /\ \/ job'.pc = "none"
            \/ job.op = "update" /\ r # "abort" /\ job'.pc = "verify" /\ job'.op = "update"
         /\ saved' = IF job.op = "update" /\ r = "ok" THEN version ELSE saved
BY StartedEnds, EndedKeeps, MovedKeeps DEF Fits, Places

LEMMA ReadyKeeps ==
  ASSUME HomeAssistantAssumption, IInv, Ready
  PROVE  IInv'
<1>1. job.pc = "ready" /\ job.op \notin {"none", "stop"} /\ JobOK
  BY DEF Ready, At, IInv, JobOK, Fits
<1>2. UNCHANGED <<docker, meta, version, errorState, slipped>>
  BY DEF Ready
<1>3. CASE Running /\ Started("ok")
  BY <1>1, <1>2, <1>3, StartedKeeps
     DEF IInv, DataTypes, ContainerKnown, Saved, ImagesKept, At, docker
<1>4. CASE container.state # "missing" /\ container.version = version
           /\ Goto("begin") /\ saved' = saved
  <2>1. JobOK' /\ job'.pc = "begin" /\ job'.op = job.op
    BY <1>1, <1>4, GotoMoves, MovedKeeps DEF Fits, Places
  <2> QED
    BY <1>1, <1>2, <1>4, <2>1
       DEF IInv, DataTypes, ContainerKnown, Saved, ImagesKept, At, docker
<1>5. CASE Goto("run") /\ saved' = version
  <2>1. JobOK' /\ job'.pc = "run" /\ job'.op = job.op
    BY <1>1, <1>5, GotoMoves, MovedKeeps DEF Fits, Places
  <2> QED
    BY <1>1, <1>2, <1>5, <2>1
       DEF IInv, DataTypes, ContainerKnown, Saved, ImagesKept, At, docker
<1> QED
  BY <1>3, <1>4, <1>5 DEF Ready

LEMMA BeginKeeps ==
  ASSUME HomeAssistantAssumption, IInv, Begin
  PROVE  IInv'
<1>1. job.pc = "begin" /\ job.op \notin {"none", "stop"} /\ JobOK
  BY DEF Begin, At, IInv, JobOK, Fits
<1>2. UNCHANGED <<images, meta, version, errorState, slipped>>
  BY DEF Begin
<1>3. container' \in {container, [container EXCEPT !.state = "up"]}
  BY DEF Begin
<1>4. CASE Goto("block") /\ saved' = saved
  <2>1. JobOK' /\ job'.pc = "block" /\ job'.op = job.op
    BY <1>1, <1>4, GotoMoves, MovedKeeps DEF Fits, Places
  <2> QED
    BY <1>1, <1>2, <1>3, <1>4, <2>1
       DEF IInv, DataTypes, ContainerKnown, Saved, ImagesKept, At
<1>5. CASE Started("error")
  BY <1>1, <1>2, <1>3, <1>5, StartedKeeps
     DEF IInv, DataTypes, ContainerKnown, Saved, ImagesKept, At
<1> QED
  BY <1>4, <1>5 DEF Begin

LEMMA RunKeeps ==
  ASSUME HomeAssistantAssumption, IInv, Run
  PROVE  IInv'
<1>1. job.pc = "run" /\ job.op \notin {"none", "stop"} /\ JobOK /\ saved = version
  BY DEF Run, At, IInv, JobOK, Fits, Saved
<1>2. UNCHANGED <<images, version, errorState>>
  BY DEF Run
<1>3. meta' \in {meta, version} /\ (job.op = "update" => meta = version)
  BY <1>1 DEF Run, IInv, Saved
<1>4. \/ slipped' = slipped /\ container' \in {container, Gone}
      \/ \E s \in {"stopped", "failed", "up"} :
           slipped' \in {FALSE, slipped} /\ container' = [state |-> s, version |-> version]
  BY DEF Run
<1>5. /\ JobOK' /\ saved' = version /\ job'.pc \in {"none", "block", "verify"}
      /\ job'.op \in {"none", job.op}
  <2>1. CASE Goto("block") /\ saved' = saved
    BY <1>1, <2>1, GotoMoves, MovedKeeps DEF Fits, Places
  <2>2. ASSUME NEW r \in {"error", "abort"}, Started(r)
        PROVE  JobOK' /\ saved' = version /\ job'.pc \in {"none", "verify"}
               /\ job'.op \in {"none", job.op}
    <3>1. JobOK' /\ saved' = version /\ job'.pc \in {"none", "verify"}
          /\ (job'.pc = "verify" => job.op = "update")
      BY <1>1, <2>2, StartedKeeps
    <3>2. CASE job'.pc = "none"
      BY <3>1, <3>2 DEF JobOK, Fits
    <3>3. CASE job'.pc = "verify"
      BY <3>1, <3>3 DEF JobOK, Fits
    <3> QED
      BY <3>1, <3>2, <3>3
  <2> QED
    BY <2>1, <2>2 DEF Run
<1>6. Saved'
  BY <1>1, <1>2, <1>3, <1>4, <1>5 DEF IInv, DataTypes, Saved, ImagesKept, At
<1>7. DataTypes' /\ ContainerKnown'
  <2>1. CASE slipped' = slipped /\ container' \in {container, Gone}
    BY <1>1, <1>2, <1>3, <1>5, <2>1 DEF IInv, DataTypes, ContainerKnown, At, Gone
  <2>2. ASSUME NEW s \in {"stopped", "failed", "up"},
               slipped' \in {FALSE, slipped}, container' = [state |-> s, version |-> version]
        PROVE  DataTypes' /\ ContainerKnown'
    BY <1>1, <1>2, <1>3, <1>5, <2>2
       DEF IInv, DataTypes, ContainerKnown, Saved, ImagesKept, At, HomeAssistantAssumption
  <2> QED
    BY <1>4, <2>1, <2>2
<1> QED
  BY <1>5, <1>6, <1>7 DEF IInv

LEMMA RestartKeeps ==
  ASSUME HomeAssistantAssumption, IInv, RestartContainer
  PROVE  IInv'
<1>1. job.pc = "restart" /\ job.op = "restart" /\ JobOK
  BY DEF RestartContainer, At, IInv, JobOK, Fits
<1>2. UNCHANGED <<images, meta, version, errorState, slipped>>
  BY DEF RestartContainer
<1>3. \/ container' = container
      \/ container.state # "missing"
         /\ container' \in {[container EXCEPT !.state = s] : s \in {"stopped", "up"}}
  BY DEF RestartContainer
<1>4. CASE Goto("block") /\ saved' = saved
  <2>1. JobOK' /\ job'.pc = "block" /\ job'.op = job.op
    BY <1>1, <1>4, GotoMoves, MovedKeeps DEF Fits, Places
  <2> QED
    BY <1>1, <1>2, <1>3, <1>4, <2>1
       DEF IInv, DataTypes, ContainerKnown, Saved, ImagesKept, At
<1>5. ASSUME NEW r \in {"error", "abort"}, Started(r)
      PROVE  IInv'
  BY <1>1, <1>2, <1>3, <1>5, StartedKeeps
     DEF IInv, DataTypes, ContainerKnown, Saved, ImagesKept, At
<1> QED
  BY <1>4, <1>5 DEF RestartContainer

LEMMA BlockKeeps ==
  ASSUME HomeAssistantAssumption, IInv, Block \/ DockerFails
  PROVE  IInv'
<1>1. job.pc \in {"ready", "block"} /\ job.op \notin {"none", "stop"} /\ JobOK
  BY DEF Block, DockerFails, At, IInv, JobOK, Fits
<1>2. UNCHANGED <<docker, meta, version, slipped>> /\ errorState' \in BOOLEAN
  BY DEF Block, DockerFails, IInv, DataTypes
<1>3. \/ job.pc = "block" /\ (Started("ok") \/ Started("error"))
      \/ Started("abort")
  BY DEF Block, DockerFails, At
<1>4. JobOK' /\ job'.pc \in {"none", "verify"} /\ saved' \in {saved, version}
  BY <1>1, <1>3, StartedKeeps
<1>5. job'.pc = "verify" => job.op = "update" /\ job.pc = "block"
  BY <1>1, <1>3, StartedKeeps
<1> QED
  BY <1>1, <1>2, <1>4, <1>5
     DEF IInv, DataTypes, ContainerKnown, Saved, ImagesKept, At, docker

LEMMA VerifyKeeps ==
  ASSUME HomeAssistantAssumption, IInv, Verify
  PROVE  IInv'
<1>1. job.pc = "verify" /\ job.op = "update" /\ JobOK /\ meta = version
      /\ (saved = version \/ slipped)
  BY DEF Verify, At, IInv, JobOK, Fits, Saved
<1>2. UNCHANGED <<container, meta, version, saved, slipped>> /\ errorState' \in BOOLEAN
  BY DEF Verify, IInv, DataTypes
<1>3. JobOK' /\ job'.pc \in {"none", "pull"}
  <2>1. ASSUME NEW r, End(r)
        PROVE  JobOK' /\ job'.pc = "none"
    BY <1>1, <2>1, EndEnds, EndedKeeps
  <2>2. CASE /\ job.rollback # Nothing /\ watch' = watch
             /\ job' = [job EXCEPT !.pc = "pull", !.to = job.rollback, !.back = TRUE]
    BY <1>1, <2>2 DEF JobOK, JobTypes, WatchWaits, Fits, NoJob, Places
  <2> QED
    BY <2>1, <2>2 DEF Verify
<1>4. images' \in {images, Cleaned}
  BY DEF Verify
<1>5. images' \subseteq images /\ meta \in images'
      /\ (container.version \in images => container.version \in images')
  BY <1>4 DEF IInv, Saved, Cleaned
<1> QED
  BY <1>1, <1>2, <1>3, <1>5 DEF IInv, DataTypes, ContainerKnown, Saved, ImagesKept, At

LEMMA StopKeeps ==
  ASSUME HomeAssistantAssumption, IInv, StopContainer
  PROVE  IInv'
<1>1. job.pc \in {"stop", "remove"} /\ job.op = "stop" /\ JobOK
  BY DEF StopContainer, At, IInv, JobOK, Fits
<1>2. UNCHANGED <<images, state>>
  BY DEF StopContainer
<1>3. JobOK' /\ job'.pc = "none" /\ job'.op = "none"
  <2>1. ASSUME NEW r, End(r)
        PROVE  JobOK' /\ job'.pc = "none" /\ job'.op = "none"
    BY <1>1, <2>1, EndEnds, EndedKeeps
  <2>2. CASE Notify("failed") /\ job' = NoJob
    <3>1. job.owner = Nothing
      BY <1>1 DEF JobOK
    <3>2. Ended
      BY <1>1, <2>2, <3>1, NotifyKeeps DEF Ended, JobOK, WatchWaits, HomeAssistantAssumption
    <3> QED
      BY <1>1, <3>2, EndedKeeps
  <2> QED
    BY <2>1, <2>2 DEF StopContainer, HaltTimesOut
<1>4. CASE container' = Gone /\ slipped' = Unsaved
  BY <1>1, <1>2, <1>3, <1>4
     DEF IInv, DataTypes, ContainerKnown, Saved, ImagesKept, At, state, Gone, Unsaved,
         HomeAssistantAssumption
<1>5. CASE container' = container /\ container.state = "missing" /\ slipped' = Unsaved
  BY <1>1, <1>2, <1>3, <1>5
     DEF IInv, DataTypes, ContainerKnown, Saved, ImagesKept, At, state, Unsaved
<1>6. CASE container' = container /\ slipped' \in {slipped, TRUE}
  BY <1>1, <1>2, <1>3, <1>6
     DEF IInv, DataTypes, ContainerKnown, Saved, ImagesKept, At, state
<1>7. ASSUME container.state # "missing", slipped' = slipped \/ slipped' = TRUE,
             NEW s \in {"stopped", "failed"}, container' = [container EXCEPT !.state = s]
      PROVE  IInv'
  <2>1. container'.state # "missing" /\ container'.version = container.version
    BY <1>7 DEF IInv, DataTypes
  <2>2. DataTypes'
    BY <1>2, <1>7 DEF IInv, DataTypes, state
  <2> QED
    BY <1>1, <1>2, <1>3, <1>7, <2>1, <2>2
       DEF IInv, ContainerKnown, Saved, ImagesKept, At, state
<1>8. slipped \in BOOLEAN
  BY DEF IInv, DataTypes
<1> QED
  <2>1. CASE /\ container' = CASE At("remove")          -> Gone
                               [] At("stop") /\ Running ->
                                    [container EXCEPT !.state = "stopped"]
                               [] OTHER                 -> container
             /\ slipped' = IF container'.state = "missing" THEN Unsaved ELSE slipped
    <3>1. CASE At("remove")
      <4>1. container' = Gone
        BY <2>1, <3>1 DEF At
      <4> QED
        BY <1>4, <2>1, <4>1 DEF Gone
    <3>2. CASE ~At("remove") /\ Running
      <4>1. container' = [container EXCEPT !.state = "stopped"]
        BY <1>1, <2>1, <3>2 DEF At
      <4>2. container'.state = "stopped"
        BY <4>1 DEF IInv, DataTypes
      <4> QED
        BY <1>7, <2>1, <3>2, <4>1, <4>2 DEF Running
    <3>3. CASE ~At("remove") /\ ~Running
      BY <1>5, <1>6, <2>1, <3>3
    <3> QED
      BY <3>1, <3>2, <3>3
  <2>2. CASE Running /\ container' = [container EXCEPT !.state = "failed"] /\ slipped' = slipped
    BY <1>7, <2>2 DEF Running
  <2>3. CASE container' = container /\ slipped' = (slipped \/ At("remove"))
    BY <1>6, <1>8, <2>3
  <2>4. CASE Running /\ container' = [container EXCEPT !.state = "stopped"] /\ slipped' = TRUE
    BY <1>7, <2>4 DEF Running
  <2>5. CASE HaltTimesOut(At("remove"))
    BY <1>1, <1>2, <2>5, TimeoutKeeps DEF At
  <2> QED
    BY <2>1, <2>2, <2>3, <2>4, <2>5 DEF StopContainer

LEMMA OutsideKeeps ==
  ASSUME HomeAssistantAssumption, IInv, Crash \/ Recover
  PROVE  IInv'
<1>1. UNCHANGED <<images, state, job, slipped>> /\ JobOK
  BY DEF Crash, Recover, ghosts, IInv
<1>2. JobOK'
  <2>1. watch' = watch \/ \E s \in {"failed", "unhealthy"} : Notify(s)
    BY DEF Crash, Recover
  <2> QED
    BY <1>1, <2>1, NotifyKeeps, SameJobKeeps DEF JobOK
<1>3. \E s \in {"failed", "unhealthy", "up"} : container' = [container EXCEPT !.state = s]
  BY DEF Crash, Recover
<1>4. container.state # "missing"
  BY DEF Crash, Recover, Running
<1> QED
  BY <1>1, <1>2, <1>3, <1>4 DEF IInv, DataTypes, ContainerKnown, Saved, ImagesKept, At, state

LEMMA WatchKeeps ==
  ASSUME HomeAssistantAssumption, IInv, NEW w \in Watchers, Watch(w)
  PROVE  IInv'
<1>1. UNCHANGED <<docker, state, slipped>> /\ JobOK
  BY DEF Watch, WatchPoll, WatchFails, WatchAgain, ghosts, IInv
<1>2. ASSUME UNCHANGED job, watch[w].pc # "wait",
             NEW v \in WatchTypes, v.pc # "wait", watch' = [watch EXCEPT ![w] = v]
      PROVE  JobOK' /\ job' = job
  BY <1>1, <1>2, SameJobKeeps DEF JobOK
<1>3. ASSUME job = NoJob, watch' = [watch EXCEPT ![w].pc = "wait"],
             NEW op, NEW pc, job' = Job(op, pc, w),
             <<op, pc>> \in {<<"restart", "restart">>, <<"start", "ready">>, <<"rebuild", "halt">>}
      PROVE  JobOK' /\ job = NoJob /\ job'.op = op /\ job'.pc = pc
  <2>1. /\ Job(op, pc, w) \in JobTypes
        /\ Job(op, pc, w).op = op /\ Job(op, pc, w).pc = pc /\ Job(op, pc, w).owner = w
    BY <1>3, NoJobType DEF Job, JobTypes, Places
  <2>2. watch' \in [Watchers -> WatchTypes]
    BY <1>1, <1>3 DEF JobOK, WatchTypes
  <2> QED
    BY <1>1, <1>3, <2>1, <2>2, NoJobType DEF JobOK, WatchWaits, Fits, HomeAssistantAssumption
<1>4. NoWatch \in WatchTypes /\ NoWatch.pc = "idle"
  BY DEF NoWatch, WatchTypes, HomeAssistantAssumption
<1>5. watch[w] \in WatchTypes
  BY <1>1 DEF JobOK
<1>6. \/ JobOK' /\ job' = job
      \/ /\ JobOK' /\ job = NoJob /\ job'.op \in {"restart", "start", "rebuild"}
         /\ job'.pc \in {"restart", "ready", "halt"}
  <2>1. CASE WatchPoll(w)
    <3>1. CASE watch' = [watch EXCEPT ![w] = NoWatch] /\ UNCHANGED job
      BY <1>2, <1>4, <2>1, <3>1 DEF WatchPoll
    <3>2. CASE /\ WatchFree
               /\ watch' = [watch EXCEPT ![w].pc = "wait"]
               /\ job' = CASE watch[w].seen = "unhealthy" -> Job("restart", "restart", w)
                           [] watch[w].seen = "failed" /\ watch[w].attempts = 0 ->
                                Job("start", "ready", w)
                           [] OTHER -> Job("rebuild", "halt", w)
      <4>1. job = NoJob
        BY <3>2 DEF WatchFree
      <4>2. job' \in {Job("restart", "restart", w), Job("start", "ready", w),
                      Job("rebuild", "halt", w)}
        BY <3>2
      <4> QED
        BY <1>3, <3>2, <4>1, <4>2
    <3> QED
      BY <2>1, <3>1, <3>2 DEF WatchPoll
  <2>2. CASE WatchFails(w)
    BY <1>2, <1>4, <2>2 DEF WatchFails
  <2>3. CASE WatchAgain(w)
    BY <1>2, <1>3, <1>5, <2>3, FailedWatch DEF WatchAgain
  <2> QED
    BY <2>1, <2>2, <2>3 DEF Watch
<1> QED
  BY <1>1, <1>6, NoJobType
     DEF IInv, DataTypes, ContainerKnown, Saved, ImagesKept, At, docker, state

LEMMA ReloadKeeps ==
  ASSUME HomeAssistantAssumption, IInv, Reload
  PROVE  IInv'
<1>1. job' = NoJob /\ slipped' = FALSE /\ errorState' = FALSE /\ UNCHANGED docker
  BY DEF Reload
<1>2. JobOK'
  <2>1. watch' \in [Watchers -> WatchTypes] /\ \A w \in Watchers : watch'[w].pc # "wait"
    <3>1. NoWatch \in WatchTypes /\ NoWatch.pc = "idle"
      BY DEF NoWatch, WatchTypes, HomeAssistantAssumption
    <3>2. CASE watch' = [w \in Watchers |-> NoWatch]
      BY <3>1, <3>2
    <3>3. ASSUME NEW w \in Watchers,
                 watch' = [[x \in Watchers |-> NoWatch] EXCEPT
                             ![w].pc = "poll", ![w].seen = "unhealthy"]
          PROVE  watch' \in [Watchers -> WatchTypes] /\ \A x \in Watchers : watch'[x].pc # "wait"
      BY <3>1, <3>3 DEF WatchTypes
    <3> QED
      BY <3>2, <3>3 DEF Reload
  <2>2. Ended
    BY <1>1, <2>1 DEF Ended
  <2> QED
    BY <2>2, EndedKeeps DEF IInv
<1>3. meta' = (IF container.state = "missing" THEN saved ELSE container.version)
      /\ version' = meta' /\ saved' = meta'
      /\ (saved \in images \/ container.state # "missing")
  BY DEF Reload
<1>4. meta' \in images /\ meta' \in Versions
  BY <1>3 DEF IInv, DataTypes, ContainerKnown
<1> QED
  BY <1>1, <1>2, <1>3, <1>4, NoJobType
     DEF IInv, DataTypes, ContainerKnown, Saved, ImagesKept, At, docker

-----------------------------------------------------------------------------
(* What holds of every behaviour                                           *)

LEMMA InitKeeps ==
  ASSUME HomeAssistantAssumption, Init
  PROVE  IInv
<1>1. PICK v \in Versions :
        /\ container = Gone \/ \E s \in {"stopped", "failed", "up"} :
                                 container = [state |-> s, version |-> v]
        /\ images = {v} /\ meta = v /\ version = v /\ saved = v
        /\ errorState = FALSE /\ slipped = FALSE
        /\ job = NoJob /\ watch = [w \in Watchers |-> NoWatch]
  BY DEF Init
<1>2. JobOK
  <2>1. NoWatch \in WatchTypes /\ NoWatch.pc = "idle"
    BY DEF NoWatch, WatchTypes, HomeAssistantAssumption
  <2> QED
    BY <1>1, <2>1, NoJobType DEF JobOK, Fits, WatchWaits, HomeAssistantAssumption
<1>3. DataTypes /\ ContainerKnown
  <2>1. CASE container = Gone
    BY <1>1, <2>1, NoJobType DEF DataTypes, ContainerKnown, At, Gone
  <2>2. ASSUME NEW s \in {"stopped", "failed", "up"}, container = [state |-> s, version |-> v]
        PROVE  DataTypes /\ ContainerKnown
    BY <1>1, <2>2, NoJobType DEF DataTypes, ContainerKnown, At, HomeAssistantAssumption
  <2> QED
    BY <1>1, <2>1, <2>2
<1>4. Saved
  BY <1>1, NoJobType DEF Saved, ImagesKept, At
<1> QED
  BY <1>2, <1>3, <1>4 DEF IInv

LEMMA StepKeeps ==
  ASSUME HomeAssistantAssumption, IInv, [Next]_vars
  PROVE  IInv'
<1>1. CASE UNCHANGED vars
  BY <1>1 DEF vars, docker, state, ghosts, IInv, JobOK, WatchWaits, DataTypes, ContainerKnown,
              Saved, ImagesKept, At
<1>2. CASE Next
  BY <1>2, CallKeeps, QueryKeeps, PullKeeps, HaltKeeps, RecordKeeps, ReadyKeeps, BeginKeeps,
     RunKeeps, RestartKeeps, BlockKeeps, VerifyKeeps, StopKeeps, OutsideKeeps, WatchKeeps,
     ReloadKeeps DEF Next, JobStep
<1> QED
  BY <1>1, <1>2

(* The inductive invariant: which operation stands where, which version    *)
(* each of container, memory, disk and instance has there, and what is     *)
(* left of that when a stop fails silently.                                *)
THEOREM Invariance == Spec => []IInv
<1>1. Init => IInv
  BY HomeAssistantAssumption, InitKeeps
<1>2. IInv /\ [Next]_vars => IInv'
  BY HomeAssistantAssumption, StepKeeps
<1> QED
  BY <1>1, <1>2, PTL DEF Spec

(* Every variable keeps its type, no watch exceeds its attempts, and a     *)
(* watch waits for an operation exactly while it owns it                   *)
(* (_restart_after_problem).                                               *)
THEOREM TypeCorrect == Spec => []HTypeOK
<1>1. IInv => HTypeOK
  BY HomeAssistantAssumption
     DEF IInv, JobOK, JobTypes, WatchTypes, WatchWaits, DataTypes, HTypeOK, HomeAssistantAssumption
<1> QED
  BY <1>1, Invariance, PTL

(* Whatever fails or restarts in an update, its rollback and its cleanup,  *)
(* the images of the versions in use and on disk are kept                  *)
(* (HomeAssistantCore.update, DockerAPI.cleanup_old_images).               *)
THEOREM Images == Spec => []ImagesKept
<1>1. IInv => ImagesKept
  BY DEF IInv, Saved
<1> QED
  BY <1>1, Invariance, PTL

(* A running Core has the version that the Supervisor knows, in every step *)
(* of an update, unless Docker kept a container that was to be removed     *)
(* (HomeAssistantCore._start_update, DockerInterface._run).                *)
THEOREM Recorded == Spec => []RunsRecorded
<1>1. IInv => RunsRecorded
  BY DEF IInv, ContainerKnown, RunsRecorded, Running
<1> QED
  BY <1>1, Invariance, PTL

(* An update of a running Core ends well only if the version it leaves     *)
(* behind has answered (HomeAssistantCore.update).                         *)
THEOREM Truthful == Spec => UpdateTruthful
<1> DEFINE Good == /\ job.op = "update" /\ job.was
                   /\ job'.op = "none" /\ last' = "ok"
<1>1. ASSUME IInv, Next, Good
      PROVE  answered' = version' \/ slipped'
  <2> USE HomeAssistantAssumption
  <2>1. JobOK /\ job.op = "update" /\ job.was /\ job # NoJob
    BY <1>1, NoJobType DEF IInv
  <2>2. ASSUME NEW r, End(r)
        PROVE  r = "ok"
    BY <1>1, <2>1, <2>2, EndEnds
  <2>3. ASSUME NEW r \in {"ok", "error", "abort"}, Started(r)
        PROVE  r = "ok" /\ job.back
    <3>1. Ended
      BY <1>1, <2>1, <2>3, StartedEnds DEF Moved, JobOK, JobTypes
    <3> QED
      BY <1>1, <2>1, <2>3, <3>1, StartedEnds DEF Ended
  <2>4. ASSUME NEW p, Goto(p)
        PROVE  FALSE
    BY <1>1, <2>1, <2>4 DEF Goto, JobOK, JobTypes
  <2>5. ASSUME Running
        PROVE  container.version = version \/ slipped
    BY <1>1, <2>5 DEF IInv, ContainerKnown, Running
  <2>6. CASE Query \/ Pull
    BY <1>1, <2>1, <2>2, <2>4, <2>6 DEF Query, Pull, JobOK, JobTypes
  <2>7. CASE Halt
    BY <1>1, <2>1, <2>2, <2>4, <2>7 DEF Halt, HaltTimesOut, AfterHalt, JobOK, JobTypes
  <2>8. CASE Record
    BY <2>1, <2>4, <2>8 DEF Record
  <2>9. CASE Ready
    BY <1>1, <2>1, <2>4, <2>9 DEF Ready, IInv, ContainerKnown, At, Running
  <2>10. CASE Begin \/ Run \/ RestartContainer \/ DockerFails
    BY <2>3, <2>4, <2>10 DEF Begin, Run, RestartContainer, DockerFails
  <2>11. CASE Block
    BY <2>3, <2>5, <2>11 DEF Block
  <2>12. CASE Verify
    BY <1>1, <2>1, <2>2, <2>5, <2>12 DEF Verify, JobOK, JobTypes
  <2>13. CASE StopContainer
    BY <1>1, <2>1, <2>13 DEF StopContainer, JobOK, Fits
  <2>14. CASE \/ Start \/ Rebuild \/ Restart \/ Stop
              \/ \E to \in Versions : Update(to)
    BY <2>1, <2>14 DEF Start, Rebuild, Restart, Stop, Update, UserCall
  <2>15. CASE Crash \/ Recover \/ (\E w \in Watchers : Watch(w))
    <3>1. job = NoJob \/ job' = job
      BY <2>15 DEF Crash, Recover, Watch, WatchPoll, WatchFails, WatchAgain, WatchFree
    <3> QED
      BY <1>1, <2>1, <3>1
  <2>16. CASE Reload
    BY <1>1, <2>16 DEF Reload
  <2> QED
    BY <1>1, <2>6, <2>7, <2>8, <2>9, <2>10, <2>11, <2>12, <2>13, <2>14, <2>15, <2>16
       DEF Next, JobStep
<1>2. IInv /\ [Next]_vars => [Good => answered' = version' \/ slipped']_vars
  BY <1>1
<1> QED
  BY <1>2, Invariance, PTL DEF Spec, UpdateTruthful

=============================================================================
