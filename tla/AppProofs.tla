------------------------------ MODULE AppProofs ------------------------------
(***************************************************************************)
(* Proofs about App: the two locks, an app that the user stopped stays     *)
(* stopped, its state follows its container, and its watchdog is armed,    *)
(* for any number of watches, attempts, events, faults and operations.     *)
(***************************************************************************)
EXTENDS App, TLAPS

-----------------------------------------------------------------------------
(* The inductive invariant                                                 *)

Events == Down \cup {"running", "healthy", "unhealthy"}
Operations == {"none", "start", "stop", "restart", "update", "rebuild"}
JobPlaces == {"none", "query", "prepare", "run", "reply", "halt", "remove", "pull", "refresh",
              "image"}
WatchPlaces == {"unused", "poll", "clean", "wait", "done"}

Jobs == [op : Operations, pc : JobPlaces, up : BOOLEAN, owner : Watchers \cup {User},
         clean : BOOLEAN]
Watches == [pc : WatchPlaces, seen : Down \cup {"unhealthy"}, attempts : Nat]

Types ==
  /\ healthcheck \in BOOLEAN
  /\ container \in {"missing"} \cup Down \cup Up
  /\ events \in Seq(Events)
  /\ state \in {"stopped", "error", "startup", "started"}
  /\ manualStop \in BOOLEAN /\ startupEvent \in BOOLEAN /\ busy \in BOOLEAN
  /\ job \in Jobs
  /\ watch \in [Watchers -> Watches]
  /\ \A w \in Watchers : watch[w].attempts < MaxAttempts
  /\ userStopped \in BOOLEAN /\ unseen \in BOOLEAN /\ survived \in BOOLEAN /\ begun \in BOOLEAN

\* Who calls an operation waits for it.
Owned == \A w \in Watchers : watch[w].pc = "wait" <=> job.owner = w

\* The instance is held by the operation or by one watch that cleans up.
Holding == {"halt", "remove", "run", "reply", "pull", "image"}

Held ==
  /\ busy <=> job.pc \in Holding \/ \E w \in Watchers : watch[w].pc = "clean"
  /\ \A w \in Watchers : watch[w].pc = "clean" =>
       job.pc \notin Holding /\ \A v \in Watchers : watch[v].pc = "clean" => v = w

\* A container is started, or cleaned away, only where none runs.
StartsDown ==
  (job.pc \in {"prepare", "run"} \/ \E w \in Watchers : watch[w].pc = "clean") =>
    container \notin Up

\* That the container is down is told by the last event, or was told.
Seen ==
  container \notin Up =>
    IF events = <<>> THEN state \in {"stopped", "error"} ELSE events[Len(events)] \in Down

\* So is what it is, if nothing failed since.
Telling(c) ==
  CASE c = "missing"  -> Down
    [] c = "starting" -> {"running", "unhealthy"}
    [] OTHER          -> {c}

Following(c) ==
  CASE c = "missing"  -> {"stopped", "error"}
    [] c = "starting" -> {"startup", "started"}
    [] OTHER          -> {DeriveState(c)}

Followed ==
  ~unseen => IF events = <<>> THEN state \in Following(container)
                              ELSE events[Len(events)] \in Telling(container)

\* Who waits for a started app is told, unless an event is to come that the app
\* is down.
Pending(kinds) == \E i \in 1 .. Len(events) : events[i] \in kinds

Told == state = "started" /\ ~startupEvent => Pending(Down)

\* What turns the watchdog off is a stop under way, and what turns it on is to come.
Armed ==
  manualStop /\ container \in Up /\ begun /\ ~survived =>
    Pending({"running"}) \/ job.pc \in {"halt", "remove"}

\* After the user's stop there is no container, and nobody is to start one.
StoppedForGood ==
  userStopped =>
    /\ container = "missing"
    /\ job.pc \notin {"query", "prepare", "run", "reply"} /\ ~job.up /\ job.op # "restart"
    /\ \A w \in Watchers : watch[w].pc # "clean"

IInv ==
  /\ Types /\ Owned /\ Held /\ StartsDown
  /\ Seen /\ Followed /\ Told
  /\ Armed /\ StoppedForGood

Signs == Seen /\ Followed /\ Told

OtherTypes ==
  /\ healthcheck \in BOOLEAN
  /\ container \in {"missing"} \cup Down \cup Up
  /\ events \in Seq(Events)
  /\ state \in {"stopped", "error", "startup", "started"}
  /\ manualStop \in BOOLEAN /\ startupEvent \in BOOLEAN
  /\ userStopped \in BOOLEAN /\ unseen \in BOOLEAN /\ survived \in BOOLEAN /\ begun \in BOOLEAN

-----------------------------------------------------------------------------
(* What a step does to the operation and to the watches                    *)

\* The operation is at a place now; the watches that clean up are the same.
JobTo(place) ==
  /\ job' \in Jobs /\ watch' \in [Watchers -> Watches]
  /\ \A w \in Watchers : watch'[w].attempts < MaxAttempts
  /\ Owned'
  /\ job'.pc = place
  /\ \A w \in Watchers : watch'[w].pc = "clean" <=> watch[w].pc = "clean"

\* Who comes to hold the instance finds it free, and who goes on lets go of it.
LockMoves(place) ==
  \/ job.pc \in Holding /\ IF place \in Holding THEN busy' = TRUE ELSE busy' = FALSE
  \/ job.pc \notin Holding /\ place \in Holding /\ ~busy /\ busy' = TRUE
  \/ job.pc \notin Holding /\ place \notin Holding /\ busy' = busy

LEMMA Kept ==
  ASSUME IInv, NEW place \in JobPlaces, JobTo(place), LockMoves(place),
         place \in {"prepare", "run"} => container \notin Up,
         container' \in Up => container \in Up,
         OtherTypes', Signs', Armed', StoppedForGood'
  PROVE  IInv'
<1>1. busy' \in BOOLEAN
  BY DEF LockMoves, IInv, Types
<1>2. Types' /\ Owned'
  BY <1>1 DEF Types, JobTo, OtherTypes
<1>3. Held'
  <2>1. ASSUME NEW w \in Watchers, watch[w].pc = "clean"
        PROVE  job.pc \notin Holding /\ busy /\ place \notin Holding
    BY <2>1 DEF IInv, Held, LockMoves
  <2>2. busy' <=> job'.pc \in Holding \/ \E w \in Watchers : watch'[w].pc = "clean"
    <3>1. CASE \E w \in Watchers : watch[w].pc = "clean"
      BY <2>1, <3>1 DEF JobTo, LockMoves
    <3>2. CASE ~\E w \in Watchers : watch[w].pc = "clean"
      <4>1. busy \in BOOLEAN /\ (busy <=> job.pc \in Holding)
        BY <3>2 DEF IInv, Types, Held
      <4> QED
        BY <3>2, <4>1 DEF JobTo, LockMoves
    <3> QED
      BY <3>1, <3>2
  <2>3. ASSUME NEW w \in Watchers, watch'[w].pc = "clean"
        PROVE  job'.pc \notin Holding /\ \A v \in Watchers : watch'[v].pc = "clean" => v = w
    BY <2>1, <2>3 DEF JobTo, IInv, Held
  <2> QED
    BY <2>2, <2>3 DEF Held
<1>4. StartsDown'
  BY DEF StartsDown, JobTo, IInv
<1> QED
  BY <1>2, <1>3, <1>4 DEF IInv, Signs

LEMMA GotoJob ==
  ASSUME Types, Owned, NEW place \in JobPlaces, Goto(place)
  PROVE  JobTo(place) /\ job'.up = job.up /\ job'.op = job.op
BY DEF Types, Owned, Goto, JobTo, Jobs

LEMMA StartJob ==
  ASSUME Types, Owned, BeginStart(job), UNCHANGED watch
  PROVE  JobTo("query") /\ job'.up = job.up /\ job'.op = job.op
BY DEF Types, Owned, BeginStart, JobTo, Jobs, JobPlaces

LEMMA NoJobTypes ==
  /\ NoJob \in Jobs /\ NoJob.op = "none" /\ NoJob.pc = "none" /\ ~NoJob.up
  /\ NoJob.owner = User
BY DEF NoJob, Jobs, Operations, JobPlaces

(* A watch whose attempt failed tries again or is done.                    *)
LEMMA FailedWatch ==
  ASSUME AppAssumption, NEW w \in Watches, w.attempts < MaxAttempts
  PROVE  /\ Failed(w) \in Watches /\ Failed(w).attempts < MaxAttempts
         /\ Failed(w).pc \in {"poll", "done"}
         /\ Done \in Watches /\ Done.attempts < MaxAttempts /\ Done.pc = "done"
         /\ Unused \in Watches /\ Unused.attempts < MaxAttempts /\ Unused.pc = "unused"
<1>1. MaxAttempts \in Nat /\ MaxAttempts > 0
  BY DEF AppAssumption
<1>2. Unused \in Watches /\ Unused.attempts < MaxAttempts /\ Unused.pc = "unused"
  BY <1>1 DEF Unused, Watches, WatchPlaces, Down
<1>3. Done \in Watches /\ Done.attempts < MaxAttempts /\ Done.pc = "done"
  BY <1>1 DEF Done, Unused, Watches, WatchPlaces, Down
<1>4. CASE w.attempts + 1 >= MaxAttempts
  <2>1. Failed(w) = Done
    BY <1>4 DEF Failed
  <2> QED
    BY <1>2, <1>3, <2>1
<1>5. CASE ~(w.attempts + 1 >= MaxAttempts)
  <2>1. Failed(w) = [w EXCEPT !.attempts = w.attempts + 1, !.pc = "poll"]
    BY <1>5 DEF Failed
  <2>2. w.attempts + 1 \in Nat /\ w.attempts + 1 < MaxAttempts
    BY <1>1, <1>5 DEF Watches
  <2> QED
    BY <1>2, <1>3, <2>1, <2>2 DEF Watches, WatchPlaces
<1> QED
  BY <1>2, <1>3, <1>4, <1>5

LEMMA EndJob ==
  ASSUME AppAssumption, Types, Owned, NEW result, End(result)
  PROVE  JobTo("none") /\ ~job'.up /\ job'.op = "none"
<1>1. job' = NoJob
  BY DEF End
<1>2. CASE job.owner = User
  <2>1. watch' = watch /\ \A w \in Watchers : watch[w].pc # "wait"
    BY <1>2 DEF End, Owned, AppAssumption
  <2> QED
    BY <1>1, <2>1, NoJobTypes DEF JobTo, Owned, Types, AppAssumption
<1>3. CASE job.owner # User
  <2> DEFINE o == job.owner
             new == IF result = "error" THEN Failed(watch[o]) ELSE Done
  <2>1. o \in Watchers /\ watch[o].pc = "wait" /\ watch' = [watch EXCEPT ![o] = new]
    BY <1>3 DEF Types, Jobs, Owned, End
  <2>2. new \in Watches /\ new.attempts < MaxAttempts /\ new.pc \in {"poll", "done"}
    BY <2>1, FailedWatch DEF Types
  <2> HIDE DEF new
  <2>3. /\ watch' \in [Watchers -> Watches] /\ watch'[o] = new
        /\ \A w \in Watchers \ {o} : watch'[w] = watch[w] /\ watch[w].pc # "wait"
    BY <2>1, <2>2 DEF Types, Owned
  <2> QED
    BY <1>1, <2>1, <2>2, <2>3, NoJobTypes DEF JobTo, Owned, Types, AppAssumption
<1> QED
  BY <1>2, <1>3

\* How an operation goes on after it stopped the container.
LEMMA StopEndsJob ==
  ASSUME AppAssumption, Types, Owned, NEW result, StopEnds(result)
  PROVE  \E place \in {"query", "refresh", "none"} :
           /\ JobTo(place)
           /\ place = "query" => job.op = "restart"
           /\ job'.up => job.up
           /\ job'.op \in {job.op, "none"}
<1>1. CASE job.op = "restart"
  BY <1>1, StartJob DEF StopEnds
<1>2. CASE job.op = "update" /\ result = "ok"
  <2>1. Goto("refresh") /\ "refresh" \in JobPlaces
    BY <1>2 DEF StopEnds, JobPlaces
  <2> QED
    BY <2>1, GotoJob
<1>3. CASE ~(job.op = "restart") /\ ~(job.op = "update" /\ result = "ok")
  <2>1. End(result)
    BY <1>3 DEF StopEnds
  <2> QED
    BY <2>1, EndJob
<1> QED
  BY <1>1, <1>2, <1>3

LEMMA HaltEndsJob ==
  ASSUME AppAssumption, Types, Owned, NEW result, HaltEnds(result), busy = TRUE
  PROVE  \E place \in {"query", "refresh", "none", "image"} :
           /\ JobTo(place)
           /\ place = "query" => job.op = "restart"
           /\ job'.up => job.up
           /\ job'.op \in {job.op, "none"}
           /\ IF place = "image" THEN busy' = TRUE ELSE busy' = FALSE
           /\ job.op = "stop" => place = "none"
<1>1. CASE job.op = "rebuild"
  <2>1. Goto("image") /\ busy' = busy /\ "image" \in JobPlaces
    BY <1>1 DEF HaltEnds, JobPlaces
  <2> QED
    BY <1>1, <2>1, GotoJob
<1>2. CASE job.op # "rebuild"
  <2>1. StopEnds(result) /\ busy' = FALSE
    BY <1>2 DEF HaltEnds
  <2>2. CASE job.op = "stop"
    <3>1. End(result)
      BY <2>1, <2>2 DEF StopEnds
    <3> QED
      BY <2>1, <3>1, EndJob
  <2>3. CASE job.op # "stop"
    BY <2>1, <2>3, StopEndsJob
  <2> QED
    BY <2>2, <2>3
<1> QED
  BY <1>1, <1>2

\* How an operation goes on after a timeout of Docker.
LEMMA TimesOutJob ==
  ASSUME AppAssumption, Types, Owned, HaltTimesOut
  PROVE  \E place \in {"query", "none"} :
           /\ JobTo(place)
           /\ place = "query" => job.op = "rebuild" /\ job.up
           /\ job'.up => job.up
           /\ job'.op \in {job.op, "none"}
           /\ busy' = FALSE
<1>1. CASE job.op = "rebuild" /\ job.up
  <2>1. BeginStart(job) /\ UNCHANGED watch /\ busy' = FALSE
    BY <1>1 DEF HaltTimesOut
  <2> QED
    BY <1>1, <2>1, StartJob
<1>2. CASE ~(job.op = "rebuild" /\ job.up)
  <2>1. End("abort") /\ busy' = FALSE
    BY <1>2 DEF HaltTimesOut
  <2> QED
    BY <2>1, EndJob
<1> QED
  BY <1>1, <1>2

-----------------------------------------------------------------------------
(* What a step does to the container, its events and the state of the app  *)

LEMMA SignsFrame ==
  ASSUME IInv, UNCHANGED <<healthcheck, container, events, state, startupEvent, unseen>>
  PROVE  Signs'
BY DEF IInv, Signs, Seen, Followed, Following, DeriveState, Told, Pending

(* An event joins those under way.                                         *)
LEMMA EventJoins ==
  ASSUME IInv, NEW s, NEW e \in Events, Becomes(s, e)
  PROVE  /\ events' \in Seq(Events) /\ events' # <<>> /\ events'[Len(events')] = e
         /\ \A kinds : Pending(kinds) \/ e \in kinds => Pending(kinds)'
         /\ container' = s /\ unseen' = FALSE
<1>1. events \in Seq(Events) /\ events' = Append(events, e)
  BY DEF Becomes, IInv, Types
<1>2. Len(events') = Len(events) + 1 /\ Len(events) \in Nat
  BY <1>1
<1>3. events'[Len(events) + 1] = e /\ \A i \in 1 .. Len(events) : events'[i] = events[i]
  BY <1>1
<1>4. ASSUME NEW kinds, Pending(kinds) \/ e \in kinds
      PROVE  Pending(kinds)'
  BY <1>2, <1>3, <1>4 DEF Pending
<1> QED
  BY <1>1, <1>2, <1>3, <1>4 DEF Becomes

LEMMA BecomesSigns ==
  ASSUME IInv, NEW s, NEW e \in Events, Becomes(s, e), e \in Telling(s), s \in Up \/ e \in Down,
         UNCHANGED <<state, startupEvent>>
  PROVE  Signs'
<1>1. /\ events' # <<>> /\ events'[Len(events')] = e
      /\ container' = s /\ unseen' = FALSE
      /\ Pending(Down) => Pending(Down)'
  BY EventJoins
<1>2. Seen'
  BY <1>1 DEF Seen
<1>3. Followed'
  BY <1>1 DEF Followed
<1>4. Told'
  BY <1>1 DEF Told, IInv
<1> QED
  BY <1>2, <1>3, <1>4 DEF Signs

LEMMA ErrorSigns ==
  ASSUME IInv, UNCHANGED events, state' = "error", unseen' = TRUE,
         container' \notin Up => container \notin Up
  PROVE  Signs'
BY DEF IInv, Signs, Seen, Followed, Told

(* A container that does not run goes without an event.                    *)
LEMMA GoneSigns ==
  ASSUME IInv, container \notin Up, container' = "missing",
         UNCHANGED <<healthcheck, events, state, startupEvent, unseen>>
  PROVE  Signs'
<1>1. container \in {"missing"} \cup Down /\ container \notin {"starting"}
  BY DEF IInv, Types, Up
<1>2. Following(container) \subseteq {"stopped", "error"} /\ Telling(container) \subseteq Down
  BY <1>1 DEF Following, Telling, DeriveState, Down
<1>3. Seen' /\ Told'
  BY DEF IInv, Seen, Told, Pending
<1>4. Followed'
  BY <1>2 DEF IInv, Followed, Following, Telling
<1> QED
  BY <1>3, <1>4 DEF Signs

(* A start forgets who was told, when the app is not up.                   *)
LEMMA ClearedSigns ==
  ASSUME IInv, container \notin Up,
         UNCHANGED <<healthcheck, container, events, state, unseen>>
  PROVE  Signs'
<1>1. Seen' /\ Followed'
  BY DEF IInv, Seen, Followed, Following, DeriveState
<1>2. state = "started" => Pending(Down)
  <2>1. events # <<>> => Len(events) \in 1 .. Len(events)
    BY DEF IInv, Types
  <2> QED
    BY <2>1 DEF IInv, Seen, Pending
<1>3. Told'
  BY <1>2 DEF Told, Pending
<1> QED
  BY <1>1, <1>3 DEF Signs

(* The first event is delivered.                                           *)
LEMMA DeliveredSigns ==
  ASSUME IInv, events # <<>>, events' = Tail(events),
         UpdateState(DeriveState(Head(events))), UNCHANGED <<healthcheck, container, unseen>>
  PROVE  /\ Signs' /\ events' \in Seq(Events)
         /\ state' \in {"stopped", "error", "startup", "started"} /\ startupEvent' \in BOOLEAN
         /\ \A kinds : Pending(kinds) /\ Head(events) \notin kinds => Pending(kinds)'
<1>1. events \in Seq(Events) /\ Len(events) \in Nat \ {0} /\ Head(events) = events[1]
      /\ Head(events) \in Events
  BY DEF IInv, Types
<1>2. events' \in Seq(Events) /\ Len(events') = Len(events) - 1
      /\ \A i \in 1 .. Len(events) - 1 : events'[i] = events[i + 1]
  BY <1>1
<1>3. ASSUME NEW kinds, Pending(kinds), Head(events) \notin kinds
      PROVE  Pending(kinds)'
  <2>1. PICK i \in 1 .. Len(events) : events[i] \in kinds
    BY <1>3 DEF Pending
  <2>2. i - 1 \in 1 .. Len(events') /\ events'[i - 1] = events[i]
    BY <1>1, <1>2, <1>3, <2>1
  <2> QED
    BY <2>1, <2>2 DEF Pending
<1>4. ASSUME Len(events) = 1
      PROVE  Seen' /\ Followed'
  <2>1. events' = <<>> /\ events[Len(events)] = Head(events)
    BY <1>1, <1>2, <1>4
  <2>2. state' = DeriveState(Head(events))
    BY DEF UpdateState
  <2>3. Seen'
    BY <2>1, <2>2 DEF IInv, Seen, DeriveState, Down
  <2>4. Followed'
    <3>1. ASSUME ~unseen
          PROVE  state' \in Following(container)'
      <4>1. Head(events) \in Telling(container)
        BY <2>1, <3>1 DEF IInv, Followed
      <4>2. CASE container = "missing"
        BY <2>2, <4>1, <4>2 DEF Telling, Following, DeriveState, Down
      <4>3. CASE container = "starting"
        BY <2>2, <4>1, <4>3 DEF Telling, Following, DeriveState
      <4>4. CASE container \notin {"missing", "starting"}
        <5>1. Head(events) = container
          BY <4>1, <4>4 DEF Telling
        <5>2. Following(container)' = {DeriveState(container)}
          BY <4>4 DEF Following, DeriveState
        <5> QED
          BY <2>2, <5>1, <5>2
      <4> QED
        BY <4>2, <4>3, <4>4
    <3> QED
      BY <2>1, <3>1 DEF Followed
  <2> QED
    BY <2>3, <2>4
<1>5. ASSUME Len(events) # 1
      PROVE  Seen' /\ Followed'
  <2>1. Len(events) - 1 \in 1 .. Len(events) - 1
    <3>1. ASSUME NEW n \in Nat \ {0}, n # 1
          PROVE  n - 1 \in 1 .. n - 1
      BY <3>1
    <3> QED
      BY <1>1, <1>5, <3>1
  <2>2. events'[Len(events) - 1] = events[(Len(events) - 1) + 1]
    BY <1>2, <2>1
  <2>3. events' # <<>> /\ events'[Len(events')] = events[Len(events)]
    BY <1>1, <1>2, <1>5, <2>2
  <2>4. Seen'
    BY <2>3 DEF IInv, Seen
  <2>5. Telling(container)' = Telling(container)
    BY DEF Telling
  <2> QED
    BY <2>3, <2>4, <2>5 DEF IInv, Followed
<1>6. Told'
  <2>1. ASSUME state' = "started", ~startupEvent'
        PROVE  Pending(Down)'
    <3>1. state = "started" /\ ~startupEvent /\ DeriveState(Head(events)) = "started"
      BY <2>1 DEF UpdateState, IInv, Types
    <3>2. Pending(Down) /\ Head(events) \notin Down
      BY <3>1 DEF IInv, Told, DeriveState, Down
    <3> QED
      BY <1>3, <3>2
  <2> QED
    BY <2>1 DEF Told
<1>7. Seen' /\ Followed'
  BY <1>4, <1>5
<1>8. state' \in {"stopped", "error", "startup", "started"} /\ startupEvent' \in BOOLEAN
  <2>1. state' = DeriveState(Head(events))
    BY DEF UpdateState
  <2>2. DeriveState(Head(events)) \in {"stopped", "error", "startup", "started"}
    BY DEF DeriveState
  <2>3. startupEvent' \in BOOLEAN
    BY DEF UpdateState, IInv, Types
  <2> QED
    BY <2>1, <2>2, <2>3
<1> QED
  BY <1>2, <1>3, <1>6, <1>7, <1>8 DEF Signs

-----------------------------------------------------------------------------
(* Calls of the user                                                       *)

Facts == AppAssumption /\ IInv

(* What the frame of a step keeps.                                         *)
LEMMA SameTypes ==
  ASSUME IInv, UNCHANGED <<healthcheck, docker, app>>,
         manualStop' \in BOOLEAN, userStopped' \in BOOLEAN,
         unseen' = unseen /\ survived' = survived /\ begun' = begun
  PROVE  OtherTypes' /\ Signs'
<1>1. OtherTypes'
  BY DEF IInv, Types, OtherTypes, docker, app
<1>2. Signs'
  BY SignsFrame DEF docker, app
<1> QED
  BY <1>1, <1>2

LEMMA ErrorTypes ==
  ASSUME IInv, UNCHANGED <<healthcheck, docker>>, OperationError,
         manualStop' \in BOOLEAN, userStopped' \in BOOLEAN,
         survived' \in BOOLEAN /\ begun' = begun
  PROVE  OtherTypes' /\ Signs'
<1>1. state' = "error" /\ startupEvent' \in BOOLEAN /\ unseen' = TRUE
  BY DEF OperationError, UpdateState, IInv, Types
<1>2. OtherTypes'
  BY <1>1 DEF IInv, Types, OtherTypes, docker
<1>3. Signs'
  BY <1>1, ErrorSigns DEF docker
<1> QED
  BY <1>2, <1>3

(* A call of the user finds no operation.                                  *)
LEMMA UserJob ==
  ASSUME Facts, job = NoJob, job' \in Jobs, job'.owner = User, UNCHANGED watch
  PROVE  JobTo(job'.pc)
BY NoJobTypes DEF Facts, IInv, Types, Owned, JobTo, AppAssumption

\* The operation in BeginStop.
LEMMA StopJob ==
  ASSUME NEW j \in Jobs, BeginStop(j)
  PROVE  /\ job' \in Jobs /\ job'.pc = "halt" /\ job'.op = j.op /\ job'.owner = j.owner
         /\ job'.up = j.up /\ manualStop' = TRUE /\ busy' = TRUE
<1>1. ("running" \notin Range(events)) \in BOOLEAN
  OBVIOUS
<1> QED
  BY <1>1 DEF BeginStop, Jobs, JobPlaces

LEMMA JobOps ==
  ASSUME NEW op \in Operations
  PROVE  /\ Job(op) \in Jobs /\ Job(op).op = op /\ Job(op).pc = "none" /\ Job(op).up = FALSE
         /\ Job(op).owner = User
BY DEF Job, NoJob, Jobs, JobPlaces

LEMMA StartKeeps ==
  ASSUME Facts, Start
  PROVE  IInv'
<1>1. /\ job = NoJob /\ job' \in Jobs /\ job'.pc = "query" /\ job'.owner = User
      /\ UNCHANGED <<healthcheck, docker, app, manualStop, busy, watch>>
      /\ unseen' = unseen /\ survived' = survived /\ begun' = begun /\ userStopped' = FALSE
  <2>1. Job("start") \in Jobs /\ Job("start").owner = User
    BY JobOps DEF Operations
  <2> QED
    BY <2>1 DEF Start, UserCall, BeginStart, Jobs, JobPlaces
<1>2. JobTo("query") /\ LockMoves("query")
  BY <1>1, UserJob, NoJobTypes DEF LockMoves, Holding
<1>3. OtherTypes' /\ Signs'
  <2>1. manualStop' \in BOOLEAN /\ userStopped' \in BOOLEAN
    BY <1>1 DEF Facts, IInv, Types
  <2> QED
    BY <1>1, <2>1, SameTypes DEF Facts
<1>4. Armed'
  BY <1>1, NoJobTypes DEF Facts, IInv, Armed, Pending, docker
<1>5. StoppedForGood'
  BY <1>1 DEF StoppedForGood
<1> QED
  BY <1>1, <1>2, <1>3, <1>4, <1>5, Kept DEF Facts, docker, JobPlaces

(* While a watch holds the instance its container is down.                 *)
LEMMA BusyDown ==
  ASSUME Facts, job = NoJob, busy
  PROVE  container \notin Up
BY NoJobTypes DEF Facts, IInv, Held, Holding, StartsDown

LEMMA StopKeeps ==
  ASSUME Facts, Stop
  PROVE  IInv'
<1>1. /\ job = NoJob /\ manualStop' = TRUE
      /\ UNCHANGED <<healthcheck, docker, watch>>
      /\ userStopped' = userStopped /\ survived' = survived /\ begun' = begun
  BY DEF Stop, UserCall, BeginStop
<1>2. userStopped \in BOOLEAN /\ survived \in BOOLEAN
  BY DEF Facts, IInv, Types
<1>3. CASE ~busy /\ BeginStop(Job("stop")) /\ UNCHANGED <<app, unseen>>
  <2>1. /\ job' \in Jobs /\ job'.pc = "halt" /\ job'.op = "stop" /\ job'.owner = User
        /\ job'.up = FALSE /\ busy' = TRUE
    BY <1>3, StopJob, JobOps DEF Operations
  <2>2. JobTo("halt") /\ LockMoves("halt")
    BY <1>1, <1>3, <2>1, UserJob, NoJobTypes DEF LockMoves, Holding
  <2>3. OtherTypes' /\ Signs'
    BY <1>1, <1>2, <1>3, SameTypes DEF Facts
  <2>4. Armed'
    BY <2>1 DEF Armed
  <2>5. StoppedForGood'
    BY <1>1, <2>1 DEF Facts, IInv, StoppedForGood, docker
  <2> QED
    BY <1>1, <2>2, <2>3, <2>4, <2>5, Kept DEF Facts, docker, JobPlaces
<1>4. CASE busy /\ OperationError /\ UNCHANGED <<busy, job>>
  <2>1. JobTo("none") /\ LockMoves("none")
    BY <1>1, <1>4, UserJob, NoJobTypes DEF LockMoves, Holding
  <2>2. OtherTypes' /\ Signs'
    BY <1>1, <1>2, <1>4, ErrorTypes DEF Facts
  <2>3. Armed'
    BY <1>1, <1>4, BusyDown DEF Armed, docker
  <2>4. StoppedForGood'
    BY <1>1, <1>4 DEF Facts, IInv, StoppedForGood, docker
  <2> QED
    BY <1>1, <2>1, <2>2, <2>3, <2>4, Kept DEF Facts, docker, JobPlaces
<1> QED
  BY <1>3, <1>4 DEF Stop

LEMMA RestartKeeps ==
  ASSUME Facts, Restart
  PROVE  IInv'
<1>1. /\ job = NoJob /\ manualStop' = TRUE
      /\ UNCHANGED <<healthcheck, docker, watch>>
      /\ userStopped' = FALSE /\ survived' = survived /\ begun' = begun
  BY DEF Restart, UserCall, BeginStop
<1>2. survived \in BOOLEAN
  BY DEF Facts, IInv, Types
<1>3. StoppedForGood'
  BY <1>1 DEF StoppedForGood
<1>4. CASE ~busy /\ BeginStop(Job("restart")) /\ UNCHANGED <<app, unseen>>
  <2>1. /\ job' \in Jobs /\ job'.pc = "halt" /\ job'.owner = User /\ busy' = TRUE
    BY <1>4, StopJob, JobOps DEF Operations
  <2>2. JobTo("halt") /\ LockMoves("halt")
    BY <1>1, <1>4, <2>1, UserJob, NoJobTypes DEF LockMoves, Holding
  <2>3. OtherTypes' /\ Signs'
    BY <1>1, <1>2, <1>4, SameTypes DEF Facts
  <2>4. Armed'
    BY <2>1 DEF Armed
  <2> QED
    BY <1>1, <1>3, <2>2, <2>3, <2>4, Kept DEF Facts, docker, JobPlaces
<1>5. CASE busy /\ OperationError /\ BeginStart(Job("restart")) /\ UNCHANGED busy
  <2>1. job' \in Jobs /\ job'.pc = "query" /\ job'.owner = User
    <3>1. Job("restart") \in Jobs /\ Job("restart").owner = User
      BY JobOps DEF Operations
    <3> QED
      BY <1>5, <3>1 DEF BeginStart, Jobs, JobPlaces
  <2>2. JobTo("query") /\ LockMoves("query")
    BY <1>1, <1>5, <2>1, UserJob, NoJobTypes DEF LockMoves, Holding
  <2>3. OtherTypes' /\ Signs'
    BY <1>1, <1>2, <1>5, ErrorTypes DEF Facts
  <2>4. Armed'
    BY <1>1, <1>5, BusyDown DEF Armed, docker
  <2> QED
    BY <1>1, <1>3, <2>2, <2>3, <2>4, Kept DEF Facts, docker, JobPlaces
<1> QED
  BY <1>4, <1>5 DEF Restart

LEMMA UpdateKeeps ==
  ASSUME Facts, Update
  PROVE  IInv'
<1>1. /\ job = NoJob /\ ~busy /\ busy' = TRUE
      /\ UNCHANGED <<healthcheck, docker, app, manualStop, watch>>
      /\ UNCHANGED <<userStopped, unseen, survived, begun>>
  BY DEF Update, UserCall, ghosts
<1>2. /\ job' \in Jobs /\ job'.pc = "pull" /\ job'.owner = User /\ job'.op = "update"
      /\ job'.up = FALSE
  <2>1. /\ Job("update") \in Jobs /\ Job("update").owner = User /\ Job("update").op = "update"
        /\ Job("update").up = FALSE
    BY JobOps DEF Operations
  <2> QED
    BY <2>1 DEF Update, Jobs, JobPlaces
<1>3. JobTo("pull") /\ LockMoves("pull")
  BY <1>1, <1>2, UserJob, NoJobTypes DEF LockMoves, Holding
<1>4. OtherTypes' /\ Signs'
  <2>1. manualStop' \in BOOLEAN /\ userStopped' \in BOOLEAN
    BY <1>1 DEF Facts, IInv, Types
  <2> QED
    BY <1>1, <2>1, SameTypes DEF Facts
<1>5. Armed'
  BY <1>1, NoJobTypes DEF Facts, IInv, Armed, Pending, docker
<1>6. StoppedForGood'
  BY <1>1, <1>2 DEF Facts, IInv, StoppedForGood, docker
<1> QED
  BY <1>1, <1>3, <1>4, <1>5, <1>6, Kept DEF Facts, docker, JobPlaces

(* A stopped app whose events are delivered was not up when an update or a *)
(* rebuild looks.                                                          *)
LEMMA StoppedNotUp ==
  ASSUME Facts, userStopped, ~ReadStale
  PROVE  ~WasUp
BY DEF ReadStale, Facts, IInv, StoppedForGood, Seen, WasUp, Up

LEMMA RebuildKeeps ==
  ASSUME Facts, Rebuild
  PROVE  IInv'
<1>1. /\ job = NoJob /\ UNCHANGED <<healthcheck, docker, app, manualStop, watch>>
      /\ userStopped' = (userStopped /\ ~ReadStale)
      /\ UNCHANGED <<unseen, survived, begun>>
  BY DEF Rebuild, UserCall
<1>2. WasUp \in BOOLEAN /\ (userStopped' => userStopped /\ ~WasUp) /\ userStopped' \in BOOLEAN
  <2>1. (userStopped /\ ~ReadStale) \in BOOLEAN /\ WasUp \in BOOLEAN
    BY DEF WasUp
  <2>2. userStopped' => userStopped /\ ~WasUp
    BY <1>1, StoppedNotUp
  <2> QED
    BY <1>1, <2>1, <2>2
<1>3. OtherTypes' /\ Signs'
  <2>1. manualStop' \in BOOLEAN /\ userStopped' \in BOOLEAN
    BY <1>1, <1>2 DEF Facts, IInv, Types
  <2> QED
    BY <1>1, <2>1, SameTypes DEF Facts
<1>4. Armed'
  BY <1>1, NoJobTypes DEF Facts, IInv, Armed, Pending, docker
<1>5. PICK place \in {"halt", "query"} :
        /\ job' \in Jobs /\ job'.pc = place /\ job'.owner = User /\ job'.op = "rebuild"
        /\ job'.up = WasUp
        /\ IF place = "halt" THEN ~busy /\ busy' = TRUE ELSE busy' = busy /\ WasUp
  <2>1. /\ Job("rebuild") \in Jobs /\ Job("rebuild").owner = User
        /\ Job("rebuild").op = "rebuild"
    BY JobOps DEF Operations
  <2>2. CASE ~busy /\ busy' = TRUE /\ job' = [Job("rebuild") EXCEPT !.pc = "halt", !.up = WasUp]
    BY <1>2, <2>1, <2>2 DEF Jobs, JobPlaces
  <2>3. CASE /\ busy /\ WasUp /\ UNCHANGED busy
             /\ BeginStart([Job("rebuild") EXCEPT !.up = TRUE])
    <3>1. WasUp = TRUE
      BY <1>2, <2>3
    <3> QED
      BY <2>1, <2>3, <3>1 DEF BeginStart, Jobs, JobPlaces
  <2> QED
    BY <2>2, <2>3 DEF Rebuild
<1>6. JobTo(place) /\ LockMoves(place)
  BY <1>1, <1>5, UserJob, NoJobTypes DEF LockMoves, Holding
<1>7. StoppedForGood'
  BY <1>1, <1>2, <1>5 DEF Facts, IInv, StoppedForGood, docker
<1> QED
  BY <1>1, <1>3, <1>4, <1>5, <1>6, <1>7, Kept DEF Facts, docker, JobPlaces

-----------------------------------------------------------------------------
(* The steps of the operations                                             *)

(* A step that leaves all but the operation and the locks.                 *)
LEMMA OnlyJob ==
  ASSUME Facts, NEW place \in JobPlaces, JobTo(place), LockMoves(place),
         place \in {"prepare", "run"} => container \notin Up,
         UNCHANGED <<healthcheck, docker, app, manualStop, ghosts>>,
         job.pc \in {"halt", "remove"} => place \in {"halt", "remove"},
         userStopped => place \notin {"query", "prepare", "run", "reply"},
         userStopped => ~job'.up /\ job'.op # "restart"
  PROVE  IInv'
<1>1. UNCHANGED <<userStopped, unseen, survived, begun>>
  BY DEF ghosts
<1>2. OtherTypes' /\ Signs'
  <2>1. manualStop' \in BOOLEAN /\ userStopped' \in BOOLEAN
    BY <1>1 DEF Facts, IInv, Types
  <2> QED
    BY <1>1, <2>1, SameTypes DEF Facts
<1>3. Armed'
  BY <1>1 DEF Facts, IInv, Armed, Pending, docker, JobTo
<1>4. StoppedForGood'
  BY <1>1 DEF Facts, IInv, StoppedForGood, docker, JobTo
<1> QED
  BY <1>2, <1>3, <1>4, Kept DEF Facts, docker

LEMMA QueryKeeps ==
  ASSUME Facts, Query
  PROVE  IInv'
<1>1. /\ job.pc = "query" /\ UNCHANGED <<healthcheck, docker, app, manualStop, ghosts>>
      /\ busy' = busy
  BY DEF Query, At
<1>2. ~userStopped
  BY <1>1 DEF Facts, IInv, StoppedForGood
<1>3. CASE End("ok") \/ End("abort")
  <2>1. JobTo("none")
    BY <1>3, EndJob DEF Facts, IInv
  <2> QED
    BY <1>1, <1>2, <2>1, OnlyJob DEF LockMoves, Holding, JobPlaces
<1>4. CASE container \notin Up /\ Goto("prepare")
  <2>1. JobTo("prepare")
    BY <1>4, GotoJob DEF Facts, IInv, JobPlaces
  <2> QED
    BY <1>1, <1>2, <1>4, <2>1, OnlyJob DEF LockMoves, Holding, JobPlaces
<1> QED
  BY <1>3, <1>4 DEF Query

LEMMA RefreshImageKeep ==
  ASSUME Facts, Refresh \/ Image
  PROVE  IInv'
<1>1. IF job.up THEN BeginStart(job) /\ UNCHANGED watch ELSE End("ok")
  BY Zenon DEF Refresh, Image
<1>0. /\ UNCHANGED <<healthcheck, docker, app, manualStop, ghosts>>
      /\ job.pc \in {"refresh", "image"}
      /\ IF job.pc = "refresh" THEN busy' = busy ELSE busy' = FALSE
  <2>1. CASE Refresh
    BY <2>1 DEF Refresh, At
  <2>2. CASE Image
    BY <2>2 DEF Image, At
  <2> QED
    BY <2>1, <2>2
<1>2. CASE job.up
  <2>1. JobTo("query")
    BY <1>0, <1>1, <1>2, StartJob DEF Facts, IInv
  <2>2. ~userStopped
    BY <1>2 DEF Facts, IInv, StoppedForGood
  <2> QED
    BY <1>0, <1>1, <2>1, <2>2, OnlyJob DEF LockMoves, Holding, JobPlaces
<1>3. CASE ~job.up
  <2>1. JobTo("none") /\ ~job'.up /\ job'.op = "none"
    BY <1>0, <1>1, <1>3, EndJob DEF Facts, IInv
  <2> QED
    BY <1>0, <1>1, <2>1, OnlyJob DEF LockMoves, Holding, JobPlaces
<1> QED
  BY <1>2, <1>3

LEMMA PullKeeps ==
  ASSUME Facts, Pull
  PROVE  IInv'
<1>1. /\ job.pc = "pull" /\ UNCHANGED <<healthcheck, docker, app>>
      /\ UNCHANGED <<unseen, survived, begun>>
      /\ job \in Jobs /\ Types /\ Owned
  BY DEF Pull, At, Facts, IInv, Types
<1>2. CASE /\ WasUp /\ BeginStop([job EXCEPT !.up = TRUE]) /\ UNCHANGED watch
           /\ userStopped' = (userStopped /\ ~ReadStale)
  <2>1. [job EXCEPT !.up = TRUE] \in Jobs /\ [job EXCEPT !.up = TRUE].owner = job.owner
    BY <1>1 DEF Jobs
  <2>2. /\ job' \in Jobs /\ job'.pc = "halt" /\ job'.owner = job.owner /\ busy' = TRUE
        /\ manualStop' = TRUE
    BY <1>2, <2>1, StopJob
  <2>3. JobTo("halt")
    BY <1>1, <1>2, <2>2 DEF JobTo, Types, Owned
  <2>4. LockMoves("halt")
    BY <1>1, <2>2 DEF LockMoves, Holding
  <2>5. userStopped' = FALSE
    BY <1>2, StoppedNotUp DEF ReadStale
  <2>6. OtherTypes' /\ Signs'
    BY <1>1, <2>2, <2>5, SameTypes DEF Facts
  <2>7. Armed' /\ StoppedForGood'
    BY <2>2, <2>5 DEF Armed, StoppedForGood
  <2> QED
    BY <1>1, <2>3, <2>4, <2>6, <2>7, Kept DEF Facts, docker, JobPlaces
<1>3. CASE Goto("refresh") /\ busy' = FALSE /\ UNCHANGED <<manualStop, userStopped>>
  <2>1. JobTo("refresh") /\ job'.up = job.up /\ job'.op = job.op
    BY <1>1, <1>3, GotoJob DEF JobPlaces
  <2>2. userStopped => ~job.up /\ job.op # "restart"
    BY DEF Facts, IInv, StoppedForGood
  <2> QED
    BY <1>1, <1>3, <2>1, <2>2, OnlyJob DEF LockMoves, Holding, JobPlaces, ghosts
<1>4. CASE End("error") /\ busy' = FALSE /\ UNCHANGED <<manualStop, userStopped>>
  <2>1. JobTo("none") /\ ~job'.up /\ job'.op = "none"
    BY <1>1, <1>4, EndJob DEF Facts
  <2> QED
    BY <1>1, <1>4, <2>1, OnlyJob DEF LockMoves, Holding, JobPlaces, ghosts
<1> QED
  BY <1>2, <1>3, <1>4 DEF Pull

LEMMA ReplyKeeps ==
  ASSUME Facts, Reply
  PROVE  IInv'
<1>1. /\ job.pc = "reply" /\ UNCHANGED <<healthcheck, docker, manualStop>> /\ busy' = FALSE
      /\ UNCHANGED <<userStopped, survived, begun>> /\ Types
  BY DEF Reply, At, Facts, IInv
<1>2. ~userStopped
  BY <1>1 DEF Facts, IInv, StoppedForGood
<1>3. JobTo("none") /\ LockMoves("none")
  <2>1. JobTo("none")
    BY EndJob DEF Reply, Facts, IInv
  <2> QED
    BY <1>1, <2>1 DEF LockMoves, Holding
<1>4. OtherTypes' /\ Signs'
  <2>1. CASE UNCHANGED <<app, unseen>>
    BY <1>1, <2>1, SameTypes DEF Facts, Types
  <2>2. CASE OperationError
    BY <1>1, <2>2, ErrorTypes DEF Facts, Types
  <2> QED
    BY <2>1, <2>2 DEF Reply
<1>5. Armed'
  BY <1>1 DEF Facts, IInv, Armed, Pending, docker
<1>6. StoppedForGood'
  BY <1>1, <1>2 DEF StoppedForGood
<1> QED
  BY <1>1, <1>3, <1>4, <1>5, <1>6, Kept DEF Facts, docker, JobPlaces

LEMMA PrepareKeeps ==
  ASSUME Facts, Prepare
  PROVE  IInv'
<1>1. /\ job.pc = "prepare" /\ UNCHANGED <<healthcheck, docker, manualStop>>
      /\ UNCHANGED <<userStopped, survived, begun>> /\ Types /\ Owned
  BY DEF Prepare, At, Facts, IInv
<1>2. ~userStopped /\ container \notin Up
  BY <1>1 DEF Facts, IInv, StoppedForGood, StartsDown
<1>3. Armed' /\ StoppedForGood'
  BY <1>1, <1>2 DEF Armed, StoppedForGood, docker
<1>4. CASE /\ ~busy /\ startupEvent' = FALSE /\ busy' = TRUE /\ Goto("run")
           /\ UNCHANGED <<state, unseen>>
  <2>1. JobTo("run") /\ LockMoves("run")
    BY <1>1, <1>4, GotoJob DEF JobPlaces, LockMoves, Holding
  <2>2. Signs' /\ OtherTypes'
    <3>1. Signs'
      BY <1>1, <1>2, <1>4, ClearedSigns DEF Facts, docker
    <3> QED
      BY <1>1, <1>4, <3>1 DEF OtherTypes, Types, docker
  <2> QED
    BY <1>1, <1>2, <1>3, <2>1, <2>2, Kept DEF Facts, docker, JobPlaces
<1>5. CASE /\ busy' = busy /\ End("error")
           /\ \/ UNCHANGED <<app, unseen>>
              \/ /\ state' = "error" /\ startupEvent' = (state = "startup")
                 /\ unseen' = TRUE
  <2>1. JobTo("none") /\ LockMoves("none")
    <3>1. JobTo("none")
      BY <1>1, <1>5, EndJob DEF Facts
    <3> QED
      BY <1>1, <1>5, <3>1 DEF LockMoves, Holding
  <2>2. CASE UNCHANGED <<app, unseen>>
    <3>1. OtherTypes' /\ Signs'
      BY <1>1, <2>2, SameTypes DEF Facts, Types
    <3> QED
      BY <1>1, <1>3, <2>1, <3>1, Kept DEF Facts, docker, JobPlaces
  <2>3. CASE state' = "error" /\ startupEvent' = (state = "startup") /\ unseen' = TRUE
    <3>1. (state = "startup") \in BOOLEAN
      OBVIOUS
    <3>2. Signs'
      BY <1>1, <2>3, ErrorSigns DEF Facts, docker
    <3>3. OtherTypes'
      BY <1>1, <2>3, <3>1 DEF OtherTypes, Types, docker
    <3> QED
      BY <1>1, <1>3, <2>1, <3>2, <3>3, Kept DEF Facts, docker, JobPlaces
  <2> QED
    BY <1>5, <2>2, <2>3
<1> QED
  BY <1>4, <1>5 DEF Prepare

(* stop_container: the container is looked at and stopped.                 *)
LEMMA HaltKeeps ==
  ASSUME Facts, Halt
  PROVE  IInv'
<1>1. /\ job.pc = "halt" /\ UNCHANGED <<healthcheck, manualStop, userStopped, begun>>
      /\ Types /\ Owned
  BY DEF Halt, At, Facts, IInv
<1>2. busy = TRUE
  BY <1>1 DEF Facts, IInv, Held, Holding, Types
<1>3. userStopped => container = "missing" /\ ~job.up /\ job.op # "restart"
                       /\ \A w \in Watchers : watch[w].pc # "clean"
  BY DEF Facts, IInv, StoppedForGood
<1>4. ASSUME Goto("remove"), UNCHANGED <<app, busy, survived>>
      PROVE  /\ JobTo("remove") /\ LockMoves("remove") /\ Armed'
             /\ container' = "missing" \/ ~userStopped => StoppedForGood'
  <2>1. JobTo("remove") /\ job'.up = job.up /\ job'.op = job.op
    BY <1>1, <1>4, GotoJob DEF JobPlaces
  <2>2. LockMoves("remove")
    BY <1>1, <1>2, <1>4 DEF LockMoves, Holding
  <2>3. Armed'
    BY <2>1 DEF Armed, JobTo
  <2>4. container' = "missing" \/ ~userStopped => StoppedForGood'
    BY <1>1, <1>3, <2>1 DEF StoppedForGood, JobTo
  <2> QED
    BY <2>1, <2>2, <2>3, <2>4
<1>5. ASSUME NEW s \in Down, container \in Up, Becomes(s, s), Goto("remove"),
             UNCHANGED <<app, busy, survived>>
      PROVE  IInv'
  <2>1. s \in Events /\ s \in Telling(s) /\ s \notin Up
    BY DEF Events, Down, Telling, Up
  <2>2. Signs' /\ events' \in Seq(Events) /\ container' = s /\ unseen' = FALSE
    BY <1>1, <1>5, <2>1, BecomesSigns, EventJoins DEF Facts, app
  <2>3. OtherTypes'
    BY <1>1, <1>5, <2>2 DEF OtherTypes, Types, app
  <2>4. ~userStopped
    BY <1>3, <1>5 DEF Up
  <2> QED
    BY <1>4, <1>5, <2>1, <2>2, <2>3, <2>4, Kept DEF Facts, JobPlaces
<1>6. ASSUME Goto("remove"), UNCHANGED <<docker, app, busy, unseen, survived>>
      PROVE  IInv'
  <2>1. OtherTypes' /\ Signs'
    BY <1>1, <1>6, SameTypes DEF Facts, Types
  <2>2. container' = container
    BY <1>6 DEF docker
  <2> QED
    BY <1>3, <1>4, <1>6, <2>1, <2>2, Kept DEF Facts, JobPlaces
<1>7. ASSUME HaltEnds("error"), UNCHANGED docker,
             survived' = (survived \/ container \in Up),
             UNCHANGED <<app, unseen>> \/ OperationError
      PROVE  IInv'
  <2>1. PICK place \in {"query", "refresh", "none", "image"} :
          /\ JobTo(place)
          /\ place = "query" => job.op = "restart"
          /\ job'.up => job.up
          /\ job'.op \in {job.op, "none"}
          /\ IF place = "image" THEN busy' = TRUE ELSE busy' = FALSE
    BY <1>1, <1>2, <1>7, HaltEndsJob DEF Facts
  <2>2. LockMoves(place)
    BY <1>1, <2>1 DEF LockMoves, Holding
  <2>3. survived' \in BOOLEAN /\ (container \in Up => survived')
    <3>1. (survived \/ container \in Up) \in BOOLEAN
      OBVIOUS
    <3> QED
      BY <1>7, <3>1
  <2>4. OtherTypes' /\ Signs'
    <3>1. CASE UNCHANGED <<app, unseen>>
      <4>1. Signs'
        BY <1>1, <1>7, <3>1, SignsFrame DEF Facts, docker, app
      <4> QED
        BY <1>1, <1>7, <2>3, <3>1, <4>1 DEF OtherTypes, Types, docker, app
    <3>2. CASE OperationError
      BY <1>1, <1>7, <2>3, <3>2, ErrorTypes DEF Facts, Types
    <3> QED
      BY <1>7, <3>1, <3>2
  <2>5. container' = container
    BY <1>7 DEF docker
  <2>6. Armed'
    BY <2>3, <2>5 DEF Armed
  <2>7. StoppedForGood'
    BY <1>1, <1>3, <2>1, <2>5 DEF StoppedForGood, JobTo
  <2> QED
    BY <2>1, <2>2, <2>4, <2>5, <2>6, <2>7, Kept DEF Facts, JobPlaces
<1>8. ASSUME container \in Up, HaltTimesOut, UNCHANGED app,
             \/ (\E s \in Down : Becomes(s, s)) /\ UNCHANGED survived
             \/ survived' = TRUE /\ UNCHANGED <<docker, unseen>>
      PROVE  IInv'
  <2>1. PICK place \in {"query", "none"} : JobTo(place) /\ busy' = FALSE
    BY <1>1, <1>8, TimesOutJob DEF Facts
  <2>2. LockMoves(place)
    BY <1>1, <2>1 DEF LockMoves, Holding
  <2>3. StoppedForGood'
    BY <1>1, <1>3, <1>8 DEF StoppedForGood, Up
  <2>4. CASE survived' = TRUE /\ UNCHANGED <<docker, unseen>>
    <3>1. Signs'
      BY <1>1, <1>8, <2>4, SignsFrame DEF Facts, docker, app
    <3>2. OtherTypes' /\ Armed'
      BY <1>1, <1>8, <2>4 DEF OtherTypes, Types, docker, app, Armed
    <3> QED
      BY <1>8, <2>1, <2>2, <2>3, <2>4, <3>1, <3>2, Kept DEF Facts, JobPlaces
  <2>5. ASSUME NEW s \in Down, Becomes(s, s), UNCHANGED survived
        PROVE  IInv'
    <3>1. s \in Events /\ s \in Telling(s) /\ s \notin Up
      BY DEF Events, Down, Telling, Up
    <3>2. Signs' /\ events' \in Seq(Events) /\ container' = s /\ unseen' = FALSE
      BY <1>1, <1>8, <2>5, <3>1, BecomesSigns, EventJoins DEF Facts, app
    <3>3. OtherTypes' /\ Armed'
      BY <1>1, <1>8, <2>5, <3>1, <3>2 DEF OtherTypes, Types, app, Armed
    <3> QED
      BY <1>8, <2>1, <2>2, <2>3, <3>1, <3>2, <3>3, Kept DEF Facts, JobPlaces
  <2> QED
    BY <1>8, <2>4, <2>5
<1>9. \/ \E s \in Down : container \in Up /\ Becomes(s, s) /\ Goto("remove")
                           /\ UNCHANGED <<app, busy, survived>>
      \/ Goto("remove") /\ UNCHANGED <<docker, app, busy, unseen, survived>>
      \/ /\ HaltEnds("error") /\ UNCHANGED docker
         /\ survived' = (survived \/ container \in Up)
         /\ UNCHANGED <<app, unseen>> \/ OperationError
      \/ /\ container \in Up /\ HaltTimesOut /\ UNCHANGED app
         /\ \/ (\E s \in Down : Becomes(s, s)) /\ UNCHANGED survived
            \/ survived' = TRUE /\ UNCHANGED <<docker, unseen>>
  BY Zenon DEF Halt
<1> QED
  BY <1>5, <1>6, <1>7, <1>8, <1>9

(* delete, which is the end of stop.                                       *)
LEMMA RemoveKeeps ==
  ASSUME Facts, Remove
  PROVE  IInv'
<1>1. /\ job.pc = "remove" /\ UNCHANGED <<healthcheck, app, manualStop, begun>>
      /\ HaltEnds("ok") \/ HaltTimesOut
      /\ Deleted \/ UNCHANGED <<docker, unseen>>
      /\ survived' = (survived \/ container' \in Up)
      /\ Types /\ Owned
  BY DEF Remove, At, Facts, IInv
<1>2. busy = TRUE /\ \A w \in Watchers : watch[w].pc # "clean"
  BY <1>1 DEF Facts, IInv, Held, Holding, Types
<1>3. PICK place \in {"query", "refresh", "none", "image"} :
        /\ JobTo(place)
        /\ place = "query" => job.op = "restart" \/ job.up
        /\ job'.up => job.up
        /\ job'.op \in {job.op, "none"}
        /\ IF place = "image" THEN busy' = TRUE ELSE busy' = FALSE
  <2>1. CASE HaltEnds("ok")
    BY <1>1, <1>2, <2>1, HaltEndsJob DEF Facts
  <2>2. CASE HaltTimesOut
    BY <1>1, <2>2, TimesOutJob DEF Facts
  <2> QED
    BY <1>1, <2>1, <2>2
<1>4. LockMoves(place)
  BY <1>1, <1>3 DEF LockMoves, Holding
<1>5. survived' \in BOOLEAN /\ (container' \in Up => survived')
  <2>1. (survived \/ container' \in Up) \in BOOLEAN
    OBVIOUS
  <2> QED
    BY <1>1, <2>1
<1>6. /\ Signs' /\ events' \in Seq(Events) /\ unseen' \in BOOLEAN
      /\ container' \in {container, "missing"}
  <2>1. CASE container \in Up /\ Becomes("missing", "failed")
    <3>1. "failed" \in Events /\ "failed" \in Telling("missing") /\ "failed" \in Down
      BY DEF Events, Down, Telling
    <3>2. Signs'
      BY <1>1, <2>1, <3>1, BecomesSigns DEF Facts, app
    <3> QED
      BY <2>1, <3>1, <3>2, EventJoins DEF Facts
  <2>2. CASE container \notin Up /\ container' = "missing" /\ UNCHANGED <<events, unseen>>
    <3>1. Signs'
      BY <1>1, <2>2, GoneSigns DEF Facts, app
    <3> QED
      BY <1>1, <2>2, <3>1 DEF Types
  <2>3. CASE UNCHANGED <<docker, unseen>>
    <3>1. Signs'
      BY <1>1, <2>3, SignsFrame DEF Facts, app, docker
    <3> QED
      BY <1>1, <2>3, <3>1 DEF Types, docker
  <2> QED
    BY <1>1, <2>1, <2>2, <2>3 DEF Deleted
<1>7. /\ userStopped' \in BOOLEAN
      /\ userStopped' => userStopped \/ (job.op = "stop" /\ container' = "missing")
  <2>1. (userStopped \/ (job.op = "stop" /\ job.clean /\ container' = "missing")) \in BOOLEAN
    OBVIOUS
  <2>2. userStopped' = (userStopped \/ (job.op = "stop" /\ job.clean /\ container' = "missing"))
    BY Zenon DEF Remove
  <2>3. userStopped' => userStopped \/ (job.op = "stop" /\ container' = "missing")
    BY <2>2, Zenon
  <2> QED
    BY <2>1, <2>2, <2>3
<1>8. OtherTypes'
  BY <1>1, <1>5, <1>6, <1>7 DEF OtherTypes, Types, app
<1>9. Armed'
  BY <1>5 DEF Armed
<1>10. StoppedForGood'
  <2>1. CASE userStopped
    <3>1. container = "missing" /\ ~job.up /\ job.op # "restart"
      BY <2>1 DEF Facts, IInv, StoppedForGood
    <3> QED
      BY <1>2, <1>3, <1>6, <3>1 DEF StoppedForGood, JobTo
  <2>2. CASE job.op = "stop" /\ container' = "missing"
    <3>1. PICK result \in {"ok", "abort"} : End(result)
      BY <1>1, <2>2 DEF HaltEnds, StopEnds, HaltTimesOut
    <3>2. ~job'.up /\ job'.op = "none"
      BY <1>1, <3>1, EndJob DEF Facts
    <3>3. job'.pc = "none"
      BY <3>1, NoJobTypes DEF End
    <3> QED
      BY <1>2, <1>3, <2>2, <3>2, <3>3 DEF StoppedForGood, JobTo
  <2> QED
    BY <1>7, <2>1, <2>2 DEF StoppedForGood
<1>11. container' \in Up => container \in Up
  BY <1>6 DEF Up
<1> QED
  BY <1>3, <1>4, <1>6, <1>8, <1>9, <1>10, <1>11, Kept DEF Facts, JobPlaces

(* A new container.  No watch cleans up meanwhile.                         *)
LEMMA RunKeeps ==
  ASSUME Facts, Run
  PROVE  IInv'
<1>1. /\ job.pc = "run" /\ UNCHANGED <<healthcheck, manualStop, userStopped>>
      /\ Types /\ Owned /\ container \notin Up /\ ~userStopped
      /\ \A w \in Watchers : watch[w].pc # "clean"
  BY DEF Run, At, Facts, IInv, StartsDown, StoppedForGood, Held, Holding
<1>2. StoppedForGood'
  BY <1>1 DEF StoppedForGood
<1>3. CASE /\ Becomes(IF healthcheck THEN "starting" ELSE "running", "running")
           /\ Goto("reply") /\ survived' = FALSE /\ begun' = TRUE
           /\ UNCHANGED <<app, busy>>
  <2>1. PICK s \in {"starting", "running"} : Becomes(s, "running")
    BY <1>3
  <2>2. s \in Up /\ "running" \in Events /\ "running" \in Telling(s)
    BY DEF Up, Events, Telling
  <2>3. /\ Signs' /\ events' \in Seq(Events) /\ container' = s /\ unseen' = FALSE
        /\ Pending({"running"})'
    BY <1>1, <1>3, <2>1, <2>2, BecomesSigns, EventJoins DEF Facts, app
  <2>4. OtherTypes'
    BY <1>1, <1>3, <2>2, <2>3 DEF OtherTypes, Types, app
  <2>5. JobTo("reply")
    BY <1>1, <1>3, GotoJob DEF JobPlaces
  <2>6. Types' /\ Owned'
    BY <1>1, <1>3, <2>4, <2>5 DEF Types, OtherTypes, JobTo
  <2>7. Held' /\ StartsDown'
    BY <1>1, <1>3, <2>5 DEF Held, StartsDown, JobTo, Facts, IInv, Holding
  <2>8. Armed'
    BY <2>3 DEF Armed
  <2> QED
    BY <1>2, <2>3, <2>6, <2>7, <2>8 DEF IInv, Signs
<1>4. ASSUME NEW r \in {"error", "conflict"}, End(r),
             IF r = "error" THEN UpdateState("error") ELSE UNCHANGED app,
             container' \in {container, "missing"} \cup Down, unseen' = TRUE, busy' = FALSE,
             UNCHANGED <<events, survived, begun>>
      PROVE  IInv'
  <2>1. container' \notin Up
    BY <1>1, <1>4 DEF Down, Up
  <2>2. JobTo("none") /\ LockMoves("none")
    <3>1. JobTo("none")
      BY <1>1, <1>4, EndJob DEF Facts
    <3> QED
      BY <1>1, <1>4, <3>1 DEF LockMoves, Holding
  <2>3. CASE UpdateState("error")
    <3>1. state' = "error" /\ startupEvent' \in BOOLEAN
      BY <1>1, <2>3 DEF UpdateState, Types
    <3>2. Signs'
      BY <1>1, <1>4, <3>1, ErrorSigns DEF Facts
    <3>3. OtherTypes'
      BY <1>1, <1>4, <3>1 DEF OtherTypes, Types
    <3> QED
      BY <1>2, <2>1, <2>2, <3>2, <3>3, Kept DEF Facts, JobPlaces, Armed
  <2>4. CASE UNCHANGED app
    <3>1. Signs'
      BY <1>1, <1>4, <2>4 DEF Signs, Seen, Followed, Told, Pending, app, Facts, IInv
    <3>2. OtherTypes'
      BY <1>1, <1>4, <2>4 DEF OtherTypes, Types, app
    <3> QED
      BY <1>2, <2>1, <2>2, <3>1, <3>2, Kept DEF Facts, JobPlaces, Armed
  <2> QED
    BY <1>4, <2>3, <2>4
<1> QED
  BY <1>3, <1>4 DEF Run

-----------------------------------------------------------------------------
(* Docker                                                                  *)

(* The operation goes on, the locks stay, and no watch begins or ends to   *)
(* clean up.                                                               *)
LEMMA SameJob ==
  ASSUME Facts, UNCHANGED <<busy, job>>,
         watch' \in [Watchers -> Watches],
         \A w \in Watchers : /\ watch'[w].attempts < MaxAttempts
                             /\ watch'[w].pc = "clean" <=> watch[w].pc = "clean"
                             /\ watch'[w].pc = "wait" <=> watch[w].pc = "wait"
  PROVE  /\ JobTo(job.pc) /\ job.pc \in JobPlaces
         /\ LockMoves(job.pc)
<1>1. Types /\ Owned /\ Held /\ job \in Jobs
  BY DEF Facts, IInv, Types
<1>2. Owned'
  BY <1>1 DEF Owned
<1>4. JobTo(job.pc) /\ job.pc \in JobPlaces
  BY <1>1, <1>2 DEF JobTo, Jobs
<1>5. job.pc \in Holding => busy = TRUE
  BY <1>1 DEF Held, Types
<1>6. LockMoves(job.pc)
  BY <1>5 DEF LockMoves
<1> QED
  BY <1>1, <1>2, <1>4, <1>6

LEMMA CrashKeeps ==
  ASSUME Facts, Crash
  PROVE  IInv'
<1>1. /\ container \in Up /\ UNCHANGED <<healthcheck, app, manualStop, busy, job, watch>>
      /\ UNCHANGED <<userStopped, survived, begun>> /\ Types
  BY DEF Crash, Facts, IInv
<1>2. PICK s \in Down : Becomes(s, s)
  BY Zenon DEF Crash
<1>3. s \in Events /\ s \in Telling(s) /\ s \notin Up
  BY DEF Events, Down, Telling, Up
<1>4. Signs' /\ events' \in Seq(Events) /\ container' = s /\ unseen' = FALSE
  BY <1>1, <1>2, <1>3, BecomesSigns, EventJoins DEF Facts, app
<1>5. OtherTypes'
  BY <1>1, <1>3, <1>4 DEF OtherTypes, Types, app
<1>6. JobTo(job.pc) /\ LockMoves(job.pc) /\ job.pc \in JobPlaces
  BY <1>1, SameJob DEF Types
<1>7. Armed'
  BY <1>3, <1>4 DEF Armed
<1>8. StoppedForGood'
  BY <1>1 DEF Facts, IInv, StoppedForGood, Up
<1>9. job.pc \in {"prepare", "run"} => container \notin Up
  BY DEF Facts, IInv, StartsDown
<1> QED
  BY <1>1, <1>3, <1>4, <1>5, <1>6, <1>7, <1>8, <1>9, Kept DEF Facts

LEMMA HealthKeeps ==
  ASSUME Facts, Health
  PROVE  IInv'
<1>1. /\ container \in Up /\ UNCHANGED <<healthcheck, app, manualStop, busy, job, watch>>
      /\ UNCHANGED <<userStopped, survived, begun>> /\ Types
  BY DEF Health, Facts, IInv
<1>2. PICK s \in {"healthy", "unhealthy"} : Becomes(s, s)
  BY Zenon DEF Health
<1>3. s \in Events /\ s \in Telling(s) /\ s \in Up
  BY DEF Events, Telling, Up
<1>4. /\ Signs' /\ events' \in Seq(Events) /\ container' = s /\ unseen' = FALSE
      /\ Pending({"running"}) => Pending({"running"})'
  BY <1>1, <1>2, <1>3, BecomesSigns, EventJoins DEF Facts, app
<1>5. OtherTypes'
  BY <1>1, <1>3, <1>4 DEF OtherTypes, Types, app
<1>6. JobTo(job.pc) /\ LockMoves(job.pc) /\ job.pc \in JobPlaces
  BY <1>1, SameJob DEF Types
<1>7. Armed'
  BY <1>1, <1>4 DEF Facts, IInv, Armed
<1>8. StoppedForGood'
  BY <1>1 DEF Facts, IInv, StoppedForGood, Up
<1>9. job.pc \in {"prepare", "run"} => container \notin Up
  BY DEF Facts, IInv, StartsDown
<1> QED
  BY <1>1, <1>4, <1>5, <1>6, <1>7, <1>8, <1>9, Kept DEF Facts

LEMMA DeliverKeeps ==
  ASSUME Facts, Deliver
  PROVE  IInv'
<1> DEFINE seen == Head(events)
<1>1. /\ events # <<>> /\ events' = Tail(events) /\ UpdateState(DeriveState(seen))
      /\ UNCHANGED <<healthcheck, container, busy, job, ghosts>> /\ Types
  BY DEF Deliver, Facts, IInv
<1>2. manualStop' = (manualStop /\ seen # "running")
  BY DEF Deliver, ManualStopAfter
<1>3. seen \in Events
  BY <1>1 DEF Types
<1>4. /\ watch' \in [Watchers -> Watches]
      /\ \A w \in Watchers : /\ watch'[w].attempts < MaxAttempts
                             /\ watch'[w].pc = "clean" <=> watch[w].pc = "clean"
                             /\ watch'[w].pc = "wait" <=> watch[w].pc = "wait"
  <2>1. CASE UNCHANGED watch
    BY <1>1, <2>1 DEF Types
  <2>2. CASE /\ seen \in Down \cup {"unhealthy"} /\ UnusedWatch # {}
             /\ \E w \in UnusedWatch :
                  watch' = [watch EXCEPT ![w].pc = "poll", ![w].seen = seen]
    <3>1. PICK w \in UnusedWatch : watch' = [watch EXCEPT ![w].pc = "poll", ![w].seen = seen]
      BY <2>2
    <3>2. w \in Watchers /\ watch[w].pc = "unused"
      BY <3>1 DEF UnusedWatch
    <3> QED
      BY <1>1, <2>2, <3>1, <3>2 DEF Types, Watches, WatchPlaces
  <2>3. \/ UNCHANGED watch
        \/ /\ seen \in Down \cup {"unhealthy"} /\ UnusedWatch # {}
           /\ watch' = [watch EXCEPT ![CHOOSE w \in UnusedWatch : TRUE].pc = "poll",
                                     ![CHOOSE w \in UnusedWatch : TRUE].seen = seen]
    BY Zenon DEF Deliver
  <2>4. UnusedWatch # {} => (CHOOSE w \in UnusedWatch : TRUE) \in UnusedWatch
    OBVIOUS
  <2> QED
    BY <2>1, <2>2, <2>3, <2>4
<1>5. /\ Signs' /\ events' \in Seq(Events)
      /\ state' \in {"stopped", "error", "startup", "started"} /\ startupEvent' \in BOOLEAN
      /\ Pending({"running"}) /\ seen \notin {"running"} => Pending({"running"})'
  BY <1>1, DeliveredSigns DEF Facts, ghosts
<1>6. manualStop' \in BOOLEAN /\ (manualStop' => manualStop /\ seen # "running")
  <2>1. (manualStop /\ seen # "running") \in BOOLEAN
    OBVIOUS
  <2> QED
    BY <1>2, <2>1
<1>7. OtherTypes'
  BY <1>1, <1>5, <1>6 DEF OtherTypes, Types, ghosts
<1>8. JobTo(job.pc) /\ LockMoves(job.pc) /\ job.pc \in JobPlaces
  BY <1>1, <1>4, SameJob
<1>9. Armed'
  BY <1>1, <1>5, <1>6 DEF Facts, IInv, Armed, ghosts
<1>10. StoppedForGood'
  BY <1>1, <1>4 DEF Facts, IInv, StoppedForGood, ghosts
<1>11. job.pc \in {"prepare", "run"} => container \notin Up
  BY DEF Facts, IInv, StartsDown
<1> QED
  BY <1>1, <1>5, <1>7, <1>8, <1>9, <1>10, <1>11, Kept DEF Facts

-----------------------------------------------------------------------------
(* The watchdog                                                            *)

(* One watch goes on with what it has.                                     *)
LEMMA WatchMoves ==
  ASSUME Facts, NEW w \in Watchers, NEW new \in Watches, new.attempts < MaxAttempts,
         watch' = [watch EXCEPT ![w] = new]
  PROVE  /\ watch' \in [Watchers -> Watches] /\ watch'[w] = new
         /\ \A v \in Watchers : watch'[v].attempts < MaxAttempts
         /\ \A v \in Watchers \ {w} : watch'[v] = watch[v]
BY DEF Facts, IInv, Types

(* Nothing but a watch that looks.                                         *)
LEMMA OnlyWatch ==
  ASSUME Facts, NEW w \in Watchers, NEW new \in Watches, new.attempts < MaxAttempts,
         watch' = [watch EXCEPT ![w] = new], watch[w].pc = "poll", new.pc \in {"poll", "done"},
         UNCHANGED <<healthcheck, docker, app, manualStop, busy, job, ghosts>>
  PROVE  IInv'
<1>1. /\ watch' \in [Watchers -> Watches]
      /\ \A v \in Watchers : /\ watch'[v].attempts < MaxAttempts
                             /\ watch'[v].pc = "clean" <=> watch[v].pc = "clean"
                             /\ watch'[v].pc = "wait" <=> watch[v].pc = "wait"
  BY WatchMoves
<1>2. JobTo(job.pc) /\ LockMoves(job.pc) /\ job.pc \in JobPlaces
  BY <1>1, SameJob
<1>3. job.pc \in {"prepare", "run"} => container \notin Up
  BY DEF Facts, IInv, StartsDown
<1>4. userStopped => /\ job.pc \notin {"query", "prepare", "run", "reply"}
                     /\ ~job'.up /\ job'.op # "restart"
  BY DEF Facts, IInv, StoppedForGood
<1> QED
  BY <1>2, <1>3, <1>4, OnlyJob

LEMMA FailedNow ==
  ASSUME Facts, NEW w \in Watchers
  PROVE  /\ Failed(watch[w]) \in Watches /\ Failed(watch[w]).attempts < MaxAttempts
         /\ Failed(watch[w]).pc \in {"poll", "done"}
         /\ Done \in Watches /\ Done.attempts < MaxAttempts /\ Done.pc = "done"
BY FailedWatch DEF Facts, IInv, Types

\* Its call of an operation.
LEMMA Calls ==
  ASSUME Facts, NEW w \in Watchers, job = NoJob, watch[w].pc \in {"poll", "clean"},
         job' \in Jobs, job'.owner = w, watch' = [watch EXCEPT ![w].pc = "wait"]
  PROVE  /\ Owned' /\ watch' \in [Watchers -> Watches] /\ watch'[w].pc = "wait"
         /\ \A v \in Watchers : watch'[v].attempts < MaxAttempts
         /\ \A v \in Watchers \ {w} : watch'[v] = watch[v]
<1>1. /\ watch' \in [Watchers -> Watches] /\ watch'[w].pc = "wait"
      /\ \A v \in Watchers : watch'[v].attempts < MaxAttempts
      /\ \A v \in Watchers \ {w} : watch'[v] = watch[v]
  BY DEF Facts, IInv, Types, Watches, WatchPlaces
<1>2. \A v \in Watchers : watch[v].pc # "wait"
  BY NoJobTypes DEF Facts, IInv, Owned, AppAssumption
<1> QED
  BY <1>1, <1>2 DEF Owned

LEMMA CallOps ==
  ASSUME NEW w \in Watchers, NEW op \in Operations
  PROVE  /\ Call(op, w) \in Jobs /\ Call(op, w).owner = w /\ Call(op, w).op = op
         /\ Call(op, w).up = FALSE
<1>1. Job(op) \in Jobs /\ Job(op).op = op /\ Job(op).up = FALSE
  BY JobOps
<1> QED
  BY <1>1 DEF Call, Jobs

LEMMA WatchStarts ==
  ASSUME Facts, NEW w \in Watchers, watch[w].pc \in {"poll", "clean"}, WatchStart(w)
  PROVE  /\ Owned' /\ watch' \in [Watchers -> Watches] /\ watch'[w].pc # "clean"
         /\ \A v \in Watchers : watch'[v].attempts < MaxAttempts
         /\ \A v \in Watchers \ {w} : watch'[v] = watch[v]
         /\ job' \in Jobs
         /\ job' = job \/ (job.pc = "none" /\ job'.pc = "query")
<1>1. CASE job = NoJob
  <2>1. Call("start", w) \in Jobs /\ Call("start", w).owner = w
    BY CallOps DEF Operations
  <2>2. /\ job' \in Jobs /\ job'.owner = w /\ job'.pc = "query"
        /\ watch' = [watch EXCEPT ![w].pc = "wait"]
    BY <1>1, <2>1 DEF WatchStart, BeginStart, Jobs, JobPlaces
  <2> QED
    BY <1>1, <2>2, Calls, NoJobTypes
<1>2. CASE job # NoJob
  <2>1. job' = job /\ watch' = [watch EXCEPT ![w] = Failed(watch[w])]
    BY <1>2 DEF WatchStart
  <2>2. /\ Failed(watch[w]) \in Watches /\ Failed(watch[w]).attempts < MaxAttempts
        /\ Failed(watch[w]).pc \in {"poll", "done"}
    BY FailedNow
  <2>3. /\ watch' \in [Watchers -> Watches] /\ watch'[w] = Failed(watch[w])
        /\ \A v \in Watchers : watch'[v].attempts < MaxAttempts
        /\ \A v \in Watchers \ {w} : watch'[v] = watch[v]
    BY <2>1, <2>2, WatchMoves
  <2>4. Owned' /\ job' \in Jobs
    BY <2>1, <2>2, <2>3 DEF Facts, IInv, Types, Owned
  <2> QED
    BY <2>1, <2>2, <2>3, <2>4
<1> QED
  BY <1>1, <1>2

\* A watch that finds the problem it saw finds a container.
LEMMA ProblemSeen ==
  ASSUME Facts, NEW w \in Watchers, CurrentState = watch[w].seen
  PROVE  /\ container # "missing" /\ ~userStopped
         /\ watch[w].seen = "failed" => container = "failed"
<1>1. watch[w].seen \in Down \cup {"unhealthy"}
  BY DEF Facts, IInv, Types, Watches
<1>2. container # "missing" /\ (watch[w].seen = "failed" => container = "failed")
  BY <1>1 DEF CurrentState, Down
<1> QED
  BY <1>2 DEF Facts, IInv, StoppedForGood

LEMMA WatchPollKeeps ==
  ASSUME Facts, NEW w \in Watchers, WatchPoll(w)
  PROVE  IInv'
<1>1. /\ watch[w].pc = "poll" /\ UNCHANGED <<healthcheck, docker, app, ghosts>>
      /\ Types
  BY DEF WatchPoll, Facts, IInv
<1>2. UNCHANGED <<userStopped, unseen, survived, begun>>
  BY <1>1 DEF ghosts
<1>3. CASE watch' = [watch EXCEPT ![w] = Done] /\ UNCHANGED <<manualStop, busy, job>>
  BY <1>1, <1>3, FailedNow, OnlyWatch
<1>4. CASE /\ CurrentState = watch[w].seen /\ ~busy /\ watch[w].seen = "failed"
           /\ busy' = TRUE /\ watch' = [watch EXCEPT ![w].pc = "clean"]
           /\ UNCHANGED <<manualStop, job>>
  <2>1. container \notin Up /\ container' = container /\ ~userStopped
    BY <1>1, <1>4, ProblemSeen DEF Up, docker
  <2>2. /\ watch' \in [Watchers -> Watches] /\ watch'[w].pc = "clean"
        /\ \A v \in Watchers : watch'[v].attempts < MaxAttempts
        /\ \A v \in Watchers \ {w} : watch'[v] = watch[v]
    BY <1>1, <1>4 DEF Types, Watches, WatchPlaces
  <2>3. OtherTypes' /\ Signs'
    BY <1>1, <1>2, <1>4, SameTypes DEF Facts, Types
  <2>4. Types'
    BY <1>1, <1>4, <2>2, <2>3 DEF Types, OtherTypes
  <2>5. Owned'
    BY <1>1, <1>4, <2>2 DEF Facts, IInv, Owned
  <2>6. job.pc \notin Holding /\ \A v \in Watchers : watch[v].pc # "clean"
    BY <1>4 DEF Facts, IInv, Held
  <2>7. Held'
    BY <1>4, <2>2, <2>6 DEF Held
  <2>8. StartsDown' /\ Armed' /\ StoppedForGood'
    BY <1>2, <2>1 DEF StartsDown, Armed, StoppedForGood
  <2> QED
    BY <2>3, <2>4, <2>5, <2>7, <2>8 DEF IInv, Signs
<1>5. CASE CurrentState = watch[w].seen /\ WatchStart(w) /\ UNCHANGED <<manualStop, busy>>
  <2>1. ~userStopped
    BY <1>5, ProblemSeen
  <2>2. /\ Owned' /\ watch' \in [Watchers -> Watches] /\ watch'[w].pc # "clean"
        /\ \A v \in Watchers : watch'[v].attempts < MaxAttempts
        /\ \A v \in Watchers \ {w} : watch'[v] = watch[v]
        /\ job' \in Jobs
        /\ job' = job \/ (job.pc = "none" /\ job'.pc = "query")
    BY <1>1, <1>5, WatchStarts
  <2>3. JobTo(job'.pc) /\ job'.pc \in JobPlaces
    BY <1>1, <2>2 DEF JobTo, Jobs
  <2>4. LockMoves(job'.pc)
    BY <1>5, <2>2 DEF LockMoves, Holding, Facts, IInv, Held, Types
  <2>5. job'.pc \in {"prepare", "run"} => container \notin Up
    BY <2>2 DEF Facts, IInv, StartsDown
  <2>6. job.pc \in {"halt", "remove"} => job'.pc \in {"halt", "remove"}
    BY <2>2
  <2> QED
    BY <1>1, <1>5, <2>1, <2>3, <2>4, <2>5, <2>6, OnlyJob
<1>6. CASE /\ CurrentState = watch[w].seen /\ ~busy /\ job = NoJob
           /\ BeginStop(Call("restart", w)) /\ watch' = [watch EXCEPT ![w].pc = "wait"]
  <2>1. ~userStopped
    BY <1>6, ProblemSeen
  <2>2. Call("restart", w) \in Jobs /\ Call("restart", w).owner = w
    BY CallOps DEF Operations
  <2>3. job' \in Jobs /\ job'.pc = "halt" /\ job'.owner = w /\ manualStop' = TRUE /\ busy' = TRUE
    BY <1>6, <2>2, StopJob
  <2>4. /\ Owned' /\ watch' \in [Watchers -> Watches] /\ watch'[w].pc = "wait"
        /\ \A v \in Watchers : watch'[v].attempts < MaxAttempts
        /\ \A v \in Watchers \ {w} : watch'[v] = watch[v]
    BY <1>1, <1>6, <2>3, Calls
  <2>5. JobTo("halt")
    BY <1>1, <2>3, <2>4 DEF JobTo
  <2>6. LockMoves("halt")
    BY <1>6, <2>3, NoJobTypes DEF LockMoves, Holding
  <2>7. OtherTypes' /\ Signs'
    BY <1>1, <1>2, <2>3, SameTypes DEF Facts, Types
  <2>8. Armed' /\ StoppedForGood'
    BY <1>2, <2>1, <2>3 DEF Armed, StoppedForGood
  <2> QED
    BY <1>1, <2>5, <2>6, <2>7, <2>8, Kept DEF Facts, docker, JobPlaces
<1>7. CASE watch' = [watch EXCEPT ![w] = Failed(watch[w])] /\ UNCHANGED <<manualStop, busy, job>>
  BY <1>1, <1>7, FailedNow, OnlyWatch
<1>8. \/ watch' = [watch EXCEPT ![w] = Done] /\ UNCHANGED <<manualStop, busy, job>>
      \/ /\ CurrentState = watch[w].seen /\ ~busy /\ watch[w].seen = "failed"
         /\ busy' = TRUE /\ watch' = [watch EXCEPT ![w].pc = "clean"]
         /\ UNCHANGED <<manualStop, job>>
      \/ CurrentState = watch[w].seen /\ WatchStart(w) /\ UNCHANGED <<manualStop, busy>>
      \/ CurrentState = watch[w].seen /\ ~busy /\ WatchRestart(w)
  BY Zenon DEF WatchPoll
<1>9. WatchRestart(w) =>
        \/ /\ job = NoJob
           /\ BeginStop(Call("restart", w)) /\ watch' = [watch EXCEPT ![w].pc = "wait"]
        \/ /\ watch' = [watch EXCEPT ![w] = Failed(watch[w])]
           /\ UNCHANGED <<manualStop, busy, job>>
  BY DEF WatchRestart
<1> QED
  BY <1>3, <1>4, <1>5, <1>6, <1>7, <1>8, <1>9

LEMMA WatchFailsKeeps ==
  ASSUME Facts, NEW w \in Watchers, WatchFails(w)
  PROVE  IInv'
BY FailedNow, OnlyWatch DEF WatchFails

(* The failed container goes, and the watch starts the app.                *)
LEMMA WatchCleanKeeps ==
  ASSUME Facts, NEW w \in Watchers, WatchClean(w)
  PROVE  IInv'
<1>1. /\ watch[w].pc = "clean" /\ container' \in {container, "missing"}
      /\ UNCHANGED <<healthcheck, events, app, manualStop, ghosts>> /\ busy' = FALSE
      /\ WatchStart(w) \/ (watch' = [watch EXCEPT ![w] = Done] /\ UNCHANGED job)
      /\ Types /\ Owned
  BY DEF WatchClean, Facts, IInv
<1>2. /\ container \notin Up /\ container' \notin Up /\ ~userStopped
      /\ job.pc \notin Holding /\ \A v \in Watchers \ {w} : watch[v].pc # "clean"
  BY <1>1 DEF Facts, IInv, StartsDown, Up, StoppedForGood, Held
<1>3. /\ Owned' /\ watch' \in [Watchers -> Watches] /\ watch'[w].pc # "clean"
      /\ \A v \in Watchers : watch'[v].attempts < MaxAttempts
      /\ \A v \in Watchers \ {w} : watch'[v] = watch[v]
      /\ job' \in Jobs
      /\ job' = job \/ (job.pc = "none" /\ job'.pc = "query")
  <2>1. CASE WatchStart(w)
    BY <1>1, <2>1, WatchStarts
  <2>2. CASE watch' = [watch EXCEPT ![w] = Done] /\ UNCHANGED job
    BY <1>1, <2>2, FailedWatch DEF Facts, Types, Owned
  <2> QED
    BY <1>1, <2>1, <2>2
<1>4. UNCHANGED <<userStopped, unseen, survived, begun>>
  BY <1>1 DEF ghosts
<1>5. Signs'
  <2>1. CASE container' = "missing"
    BY <1>1, <1>2, <1>4, <2>1, GoneSigns DEF Facts, app
  <2>2. CASE container' = container
    BY <1>1, <1>4, <2>2, SignsFrame DEF Facts, app
  <2> QED
    BY <1>1, <2>1, <2>2
<1>6. Types'
  BY <1>1, <1>3, <1>4 DEF Types, app
<1>7. Held'
  <2>1. job'.pc \notin Holding
    BY <1>2, <1>3 DEF Holding
  <2> QED
    BY <1>1, <1>2, <1>3, <2>1 DEF Held
<1>8. StartsDown' /\ Armed' /\ StoppedForGood'
  BY <1>2, <1>4 DEF StartsDown, Armed, StoppedForGood
<1> QED
  BY <1>3, <1>5, <1>6, <1>7, <1>8 DEF IInv, Signs

-----------------------------------------------------------------------------
(* The Supervisor starts                                                   *)

(* What it attaches to is what it is told, and what it sets as state.      *)
LEMMA AttachedTells ==
  ASSUME healthcheck \in BOOLEAN, container \in {"missing"} \cup Down \cup Up
  PROVE  /\ Attached \in Seq(Events)
         /\ DeriveState(CurrentState) \in {"stopped", "error", "startup", "started"}
         /\ container = "missing" => Attached = <<>> /\ DeriveState(CurrentState) = "stopped"
         /\ container # "missing" =>
              /\ Attached # <<>> /\ Attached[Len(Attached)] \in Telling(container)
              /\ container \notin Up => Attached[Len(Attached)] \in Down
<1>1. DeriveState(CurrentState) \in {"stopped", "error", "startup", "started"}
  BY DEF DeriveState
<1>2. CASE container = "missing"
  <2>1. Attached = <<>> /\ CurrentState = "missing"
    BY <1>2 DEF Attached, CurrentState
  <2> QED
    BY <1>1, <1>2, <2>1 DEF DeriveState
<1>3. CASE container # "missing"
  <2>1. CurrentState \in Events /\ CurrentState \in Telling(container)
        /\ (container \notin Up => CurrentState \in Down)
    BY <1>3 DEF CurrentState, Events, Telling, Down, Up
  <2> HIDE DEF CurrentState
  <2>2. Attached = <<CurrentState>>
    BY Zenon, <1>3 DEF Attached
  <2>3. Attached \in Seq(Events) /\ Attached # <<>> /\ Attached[Len(Attached)] = CurrentState
    <3>1. ASSUME NEW e \in Events
          PROVE  /\ <<e>> \in Seq(Events) /\ <<e>> # <<>> /\ Len(<<e>>) = 1
                 /\ <<e>>[1] = e
      OBVIOUS
    <3> QED
      BY <2>1, <2>2, <3>1
  <2> QED
    BY <1>1, <1>3, <2>1, <2>3
<1> QED
  BY <1>2, <1>3

(* No operation, no watch.                                                 *)
LEMMA NoWatches ==
  ASSUME AppAssumption, NEW watches, watches = [w \in Watchers |-> Unused]
  PROVE  /\ watches \in [Watchers -> Watches]
         /\ \A w \in Watchers : watches[w].pc = "unused" /\ watches[w].attempts < MaxAttempts
BY DEF Unused, Watches, WatchPlaces, Down, AppAssumption

LEMMA InitOK ==
  ASSUME AppAssumption, Init
  PROVE  IInv
<1>1. container \in {"missing"} \cup Down \cup Up /\ healthcheck \in BOOLEAN
  BY DEF Init, Up
<1>2. /\ Attached \in Seq(Events)
      /\ DeriveState(CurrentState) \in {"stopped", "error", "startup", "started"}
      /\ container = "missing" => Attached = <<>> /\ DeriveState(CurrentState) = "stopped"
      /\ container # "missing" =>
           /\ Attached # <<>> /\ Attached[Len(Attached)] \in Telling(container)
           /\ container \notin Up => Attached[Len(Attached)] \in Down
  BY <1>1, AttachedTells
<1>3. /\ watch \in [Watchers -> Watches]
      /\ \A w \in Watchers : watch[w].pc = "unused" /\ watch[w].attempts < MaxAttempts
  BY NoWatches DEF Init
<1>4. events = Attached /\ state = DeriveState(CurrentState) /\ job = NoJob
  BY DEF Init
<1>5. startupEvent \in BOOLEAN /\ (state = "started" => startupEvent)
  <2>1. (state = "started") \in BOOLEAN
    OBVIOUS
  <2>2. startupEvent = (state = "started")
    BY DEF Init
  <2> QED
    BY <2>1, <2>2
<1>6. Types
  <2>1. /\ manualStop \in BOOLEAN /\ busy \in BOOLEAN /\ userStopped \in BOOLEAN
        /\ unseen \in BOOLEAN /\ survived \in BOOLEAN /\ begun \in BOOLEAN
    BY DEF Init
  <2> QED
    BY <1>1, <1>2, <1>3, <1>4, <1>5, <2>1, NoJobTypes DEF Types
<1>7. Owned /\ Held /\ StartsDown
  <2>1. busy = FALSE
    BY DEF Init
  <2> QED
    BY <1>3, <1>4, <2>1, NoJobTypes DEF Owned, Held, StartsDown, Holding, AppAssumption
<1>8. Seen /\ Followed /\ Told
  BY <1>2, <1>4, <1>5 DEF Seen, Followed, Told, Following, Up
<1>9. Armed /\ StoppedForGood
  BY DEF Init, Armed, StoppedForGood
<1> QED
  BY <1>6, <1>7, <1>8, <1>9 DEF IInv

(* load: a Supervisor that starts looks at what there is.                  *)
LEMMA LoadKeeps ==
  ASSUME Facts, Load
  PROVE  IInv'
<1>1. container \in {"missing"} \cup Down \cup Up /\ healthcheck \in BOOLEAN
  BY DEF Facts, IInv, Types
<1>2. /\ Attached \in Seq(Events)
      /\ DeriveState(CurrentState) \in {"stopped", "error", "startup", "started"}
      /\ container = "missing" => Attached = <<>> /\ DeriveState(CurrentState) = "stopped"
      /\ container # "missing" =>
           /\ Attached # <<>> /\ Attached[Len(Attached)] \in Telling(container)
           /\ container \notin Up => Attached[Len(Attached)] \in Down
  BY <1>1, AttachedTells
<1>3. /\ watch' \in [Watchers -> Watches]
      /\ \A w \in Watchers : watch'[w].pc = "unused" /\ watch'[w].attempts < MaxAttempts
  BY NoWatches DEF Load, Facts
<1>4. /\ events' = Attached /\ state' = DeriveState(CurrentState) /\ job' = NoJob
      /\ UNCHANGED <<healthcheck, container, userStopped>>
  BY DEF Load
<1>5. startupEvent' \in BOOLEAN /\ (state' = "started" => startupEvent')
  <2>1. (state' = "started") \in BOOLEAN
    OBVIOUS
  <2>2. startupEvent' = (state' = "started")
    BY DEF Load
  <2>3. startupEvent' \in BOOLEAN
    BY Zenon, <2>1, <2>2
  <2>4. state' = "started" => startupEvent'
    BY Zenon, <2>2
  <2> QED
    BY <2>3, <2>4
<1>6. Types'
  <2>1. /\ manualStop' \in BOOLEAN /\ busy' \in BOOLEAN /\ userStopped' \in BOOLEAN
        /\ unseen' \in BOOLEAN /\ survived' \in BOOLEAN /\ begun' \in BOOLEAN
    BY DEF Load, Facts, IInv, Types
  <2> QED
    BY <1>1, <1>2, <1>3, <1>4, <1>5, <2>1, NoJobTypes DEF Types
<1>7. Owned' /\ Held' /\ StartsDown'
  <2>1. busy' = FALSE
    BY DEF Load
  <2> QED
    BY <1>3, <1>4, <2>1, NoJobTypes DEF Owned, Held, StartsDown, Holding, Facts, AppAssumption
<1>8. Seen' /\ Followed' /\ Told'
  <2>1. Seen' /\ Told'
    BY <1>2, <1>4, <1>5 DEF Seen, Told, Up
  <2>2. Followed'
    BY <1>2, <1>4 DEF Followed, Following, Telling
  <2> QED
    BY <2>1, <2>2
<1>9. Armed' /\ StoppedForGood'
  <2>1. begun' = FALSE
    BY DEF Load
  <2> QED
    BY <1>3, <1>4, <2>1, NoJobTypes DEF Armed, StoppedForGood, Facts, IInv
<1> QED
  BY <1>6, <1>7, <1>8, <1>9 DEF IInv

-----------------------------------------------------------------------------
(* The theorems                                                            *)

(* The inductive invariant holds throughout.                               *)
THEOREM Invariance == Spec => []IInv
<1>1. Init => IInv
  BY AppAssumption, InitOK
<1>2. IInv /\ [Next]_vars => IInv'
  <2> SUFFICES ASSUME IInv, [Next]_vars
               PROVE  IInv'
    OBVIOUS
  <2>0. Facts
    BY AppAssumption DEF Facts
  <2>1. CASE UNCHANGED vars
    <3>1. /\ UNCHANGED <<healthcheck, container, events, state, startupEvent, manualStop>>
          /\ UNCHANGED <<busy, job, watch, userStopped, unseen, survived, begun>>
      BY <2>1 DEF vars, docker, app, ghosts
    <3>2. Signs'
      BY <3>1, SignsFrame
    <3>3. Types' /\ Owned' /\ Held' /\ StartsDown'
      BY <3>1 DEF IInv, Types, Owned, Held, StartsDown
    <3>4. Armed' /\ StoppedForGood'
      BY <3>1 DEF IInv, Armed, Pending, StoppedForGood
    <3> QED
      BY <3>2, <3>3, <3>4 DEF IInv, Signs
  <2>2. CASE Start \/ Stop \/ Restart \/ Update \/ Rebuild
    BY <2>0, <2>2, StartKeeps, StopKeeps, RestartKeeps, UpdateKeeps, RebuildKeeps
  <2>3. CASE JobStep
    BY <2>0, <2>3, HaltKeeps, RemoveKeeps, QueryKeeps, PrepareKeeps, RunKeeps, ReplyKeeps,
       PullKeeps, RefreshImageKeep DEF JobStep
  <2>4. CASE \E w \in Watchers : WatchStep(w)
    BY <2>0, <2>4, WatchPollKeeps, WatchFailsKeeps, WatchCleanKeeps DEF WatchStep
  <2>5. CASE Deliver \/ Crash \/ Health \/ Load
    BY <2>0, <2>5, DeliverKeeps, CrashKeeps, HealthKeeps, LoadKeeps
  <2> QED
    BY <2>1, <2>2, <2>3, <2>4, <2>5 DEF Next
<1> QED
  BY <1>1, <1>2, PTL DEF Spec

(* Types, and the two locks: the instance is held exactly by the operation *)
(* that works on the container or by the watch that cleans up.             *)
THEOREM TypeCorrect == Spec => []AppTypeOK
<1>1. IInv => AppTypeOK
  <2> SUFFICES ASSUME IInv
               PROVE  AppTypeOK
    OBVIOUS
  <2>1. {manualStop, startupEvent, busy} \subseteq BOOLEAN
    BY DEF IInv, Types
  <2>2. busy <=> \/ job.pc \in {"halt", "remove", "run", "reply", "pull", "image"}
                 \/ \E w \in Watchers : watch[w].pc = "clean"
    BY Zenon DEF IInv, Held, Holding
  <2> QED
    BY <2>1, <2>2 DEF AppTypeOK, IInv, Types, Owned
<1> QED
  BY <1>1, Invariance, PTL

(* An app that the user stopped is not started again: not by a watch that  *)
(* began before, not by a late event, not by an update or a rebuild.       *)
THEOREM Stopped == Spec => []StaysStopped
<1>1. IInv => StaysStopped
  BY DEF IInv, StoppedForGood, StaysStopped, Up
<1> QED
  BY <1>1, Invariance, PTL

(* With nothing under way the state of the app is that of its container,   *)
(* and who waits for a started app is told (container_state_changed).      *)
THEOREM Follows == Spec => []StateFollows
<1>1. IInv => StateFollows
  <2> SUFFICES ASSUME IInv, events = <<>>, ~unseen
               PROVE  /\ state \in CASE container = "missing" -> {"stopped", "error"}
                                     [] container = "starting" -> {"startup", "started"}
                                     [] OTHER -> {DeriveState(container)}
                      /\ state = "started" => startupEvent
    BY Zenon DEF StateFollows, Quiet
  <2>1. state \in Following(container)
    BY DEF IInv, Followed
  <2>2. ~Pending(Down)
    BY DEF Pending
  <2> QED
    BY <2>1, <2>2 DEF Following, IInv, Told
<1> QED
  BY <1>1, Invariance, PTL

(* The watchdog looks after a running app that the Supervisor started: no  *)
(* operation leaves it off (manual_stop).                                  *)
THEOREM Watched == Spec => []WatchdogArmed
<1>1. IInv => WatchdogArmed
  <2>1. events = <<>> => ~Pending({"running"})
    BY DEF Pending
  <2>2. job = NoJob => job.pc \notin {"halt", "remove"}
    BY NoJobTypes
  <2> QED
    BY <2>1, <2>2 DEF IInv, Armed, WatchdogArmed, Quiet
<1> QED
  BY <1>1, Invariance, PTL

=============================================================================
