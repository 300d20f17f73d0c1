-------------------------------- MODULE Jobs --------------------------------
(***************************************************************************)
(* The job framework: the @Job wrapper (jobs/decorator.py), the job        *)
(* registry (JobManager in jobs/__init__.py) and the re-entrant group lock *)
(* (jobs/job_group.py).                                                    *)
(*                                                                         *)
(* Every call of a decorated method creates one SupervisorJob, so a call   *)
(* is identified with its job.  The context variable _CURRENT_JOB of the   *)
(* asyncio task that makes the call is the parent of the new job until the *)
(* job starts, and the job itself while its method runs; no separate       *)
(* variable is needed for it.  A step is the code between two awaits.      *)
(***************************************************************************)
EXTENDS Naturals, Sequences, FiniteSets

CONSTANTS
  Jobs,         \* identities of SupervisorJob objects (uuid4)
  NoJob,        \* None: no lock owner, no parent job
  Methods,      \* decorated methods, one per object they are bound to
  Locks,        \* one per JobGroup and one per decorator with its own lock
  concurrency,  \* Methods -> Concurrencies, the decorator's argument
  lockOf,       \* Methods -> Locks, the lock the concurrency policy uses
  cleanup,      \* methods whose job is removed when done
  conditions,   \* methods with JobConditions that may not be met
  throttled,    \* methods with a throttle that may skip or refuse the call
  awaits,       \* Methods -> SUBSET Methods, calls awaited one at a time
  gathers,      \* Methods -> SUBSET Methods, calls made by asyncio.gather
  entryPoints   \* methods called by tasks that have no current job

Concurrencies == {"none", "reject", "queue", "group_reject", "group_queue"}

IsGroup(m) == concurrency[m] \in {"group_reject", "group_queue"}

ASSUME JobsAssumption ==
  /\ NoJob \notin Jobs
  /\ concurrency \in [Methods -> Concurrencies]
  /\ lockOf \in [Methods -> Locks]
  /\ awaits \in [Methods -> SUBSET Methods]
  /\ gathers \in [Methods -> SUBSET Methods]
  /\ cleanup \subseteq Methods
  /\ conditions \subseteq Methods
  /\ throttled \subseteq Methods
  /\ entryPoints \subseteq Methods

(* A lock belongs either to a JobGroup or to one decorator.                *)
ASSUME LockKindAssumption ==
  \A m, n \in Methods :
    (lockOf[m] = lockOf[n] /\ IsGroup(m) /\ concurrency[n] # "none") => IsGroup(n)

(* No group method of the code gathers methods of its own group.           *)
ASSUME GatherAssumption ==
  \A m \in Methods : IsGroup(m) =>
    \A n \in gathers[m] : ~(IsGroup(n) /\ lockOf[n] = lockOf[m])

(* No call that left the methods of a lock comes back to them: below a     *)
(* method with a lock others of its group are only called by such.         *)
ASSUME ReturnAssumption ==
  \A l \in Locks :
    LET inside == {m \in Methods : concurrency[m] # "none" /\ lockOf[m] = l} IN
    \E below \in SUBSET (Methods \ inside) :
      \A m \in inside \cup below :
        awaits[m] \cup gathers[m] \subseteq
          below \cup (IF m \in inside /\ IsGroup(m) THEN inside ELSE {})

VARIABLES
  jobs,        \* JobManager._jobs: the registered jobs
  method,      \* the method a job belongs to
  parent,      \* SupervisorJob.parent_id
  done,        \* SupervisorJob.done
  pc,          \* where the wrapper of the job stands
  outcome,     \* how the wrapper ended
  awaiting,    \* the calls a running method is waiting for
  todo,        \* gathered coroutines whose task has not begun
  owner,       \* JobGroup._lock_owner
  parentJobs,  \* JobGroup._parent_jobs
  locked,      \* asyncio.Lock: held
  waiters      \* asyncio.Lock: queue of waiting calls

callVars == <<method, parent>>
lockVars == <<owner, parentJobs, locked, waiters>>
bodyVars == <<awaiting, todo>>
vars == <<jobs, method, parent, done, pc, outcome, awaiting, todo,
          owner, parentJobs, locked, waiters>>

NoMethod == "no method"

Places == {"unused", "scheduled", "called", "waiting", "running", "ended"}

Lock(j) == lockOf[method[j]]
Mode(j) == concurrency[method[j]]
InGroup(j) == IsGroup(method[j])

Init ==
  /\ jobs = {}
  /\ method = [j \in Jobs |-> NoMethod]
  /\ parent = [j \in Jobs |-> NoJob]
  /\ done = [j \in Jobs |-> "None"]
  /\ pc = [j \in Jobs |-> "unused"]
  /\ outcome = [j \in Jobs |-> "none"]
  /\ awaiting = [j \in Jobs |-> {}]
  /\ todo = [j \in Jobs |-> {}]
  /\ owner = [l \in Locks |-> NoJob]
  /\ parentJobs = [l \in Locks |-> <<>>]
  /\ locked = [l \in Locks |-> FALSE]
  /\ waiters = [l \in Locks |-> <<>>]

-----------------------------------------------------------------------------
(* JobManager                                                              *)

\* new_job: register a job of method m whose parent is the current job p.
NewJob(j, m, p, place) ==
  /\ pc[j] = "unused"
  /\ jobs' = jobs \cup {j}
  /\ method' = [method EXCEPT ![j] = m]
  /\ parent' = [parent EXCEPT ![j] = p]
  /\ pc' = [pc EXCEPT ![j] = place]
  /\ UNCHANGED <<done, outcome, lockVars>>

\* remove_job of a registered job: the job, and below every removed job that is
\* done its sub jobs.
SubJobsFollow(C, dn) ==
  \A k \in jobs : (parent[k] \in C /\ dn[parent[k]] = "True") => k \in C

Removed(j, dn) ==
  {k \in jobs : \A C \in SUBSET jobs :
                  (j \in C /\ SubJobsFollow(C, dn)) => k \in C}

\* Mutant of Leave: only methods with cleanup remove their job.
LeaveKeepingUnstarted(j, dn, o) ==
  /\ done' = dn
  /\ jobs' = IF method[j] \in cleanup /\ j \in jobs THEN jobs \ Removed(j, dn) ELSE jobs
  /\ pc' = [pc EXCEPT ![j] = "ended"]
  /\ outcome' = [outcome EXCEPT ![j] = o]

\* The finally clause of the wrapper.  remove_job raises JobNotFound for a
\* job that is no longer registered.
Leave(j, dn, o) ==
  LET remove == dn[j] = "None" \/ method[j] \in cleanup IN
  /\ done' = dn
  /\ jobs' = IF remove /\ j \in jobs THEN jobs \ Removed(j, dn) ELSE jobs
  /\ pc' = [pc EXCEPT ![j] = "ended"]
  /\ outcome' = [outcome EXCEPT ![j] =
                   IF remove /\ j \notin jobs THEN "raised" ELSE o]

-----------------------------------------------------------------------------
(* Calls                                                                   *)

\* A task without a current job (an API request, a scheduled task, a task
\* made by sys_create_task) calls a decorated method.
Call(j, m) ==
  /\ m \in entryPoints
  /\ NewJob(j, m, NoJob, "called")
  /\ UNCHANGED bodyVars

\* schedule_job: the job exists before its method is called in a new task.
ScheduleJob(j, m) ==
  /\ m \in entryPoints
  /\ NewJob(j, m, NoJob, "scheduled")
  /\ UNCHANGED bodyVars

RunScheduled(j) ==
  /\ pc[j] = "scheduled"
  /\ pc' = [pc EXCEPT ![j] = "called"]
  /\ UNCHANGED <<jobs, callVars, done, outcome, bodyVars, lockVars>>

\* A running method has the control back when everything it awaits is over.
Resumable(j) ==
  /\ pc[j] = "running"
  /\ todo[j] = {}
  /\ \A k \in awaiting[j] : pc[k] = "ended"

\* A running method awaits another decorated method.
Await(p, j, m) ==
  /\ Resumable(p)
  /\ m \in awaits[method[p]]
  /\ NewJob(j, m, p, "called")
  /\ awaiting' = [awaiting EXCEPT ![p] = {j}]
  /\ UNCHANGED todo

\* asyncio.gather wraps every coroutine in a task that copies the context.
BeginGather(p) ==
  /\ Resumable(p)
  /\ gathers[method[p]] # {}
  /\ todo' = [todo EXCEPT ![p] = gathers[method[p]]]
  /\ awaiting' = [awaiting EXCEPT ![p] = {}]
  /\ UNCHANGED <<jobs, callVars, done, pc, outcome, lockVars>>

\* The task of a gathered coroutine begins.
StartGathered(p, j, m) ==
  /\ m \in todo[p]
  /\ NewJob(j, m, p, "called")
  /\ todo' = [todo EXCEPT ![p] = @ \ {m}]
  /\ awaiting' = [awaiting EXCEPT ![p] = @ \cup {j}]

\* gather raises as soon as one of its coroutines does and leaves the others
\* running.  Its tasks all begin in the pass of the event loop that follows
\* gather, so none is left to begin when it raises.
GatherFailed(j) ==
  /\ pc[j] = "running"
  /\ todo[j] = {}
  /\ \E k \in awaiting[j] : pc[k] = "ended" /\ outcome[k] = "raised"

-----------------------------------------------------------------------------
(* Entering: conditions, concurrency control, throttling                   *)

\* JobGroup.has_lock raises RuntimeError when the current job, the parent of
\* the new one, is no longer registered.
CurrentJobLost(j) ==
  owner[Lock(j)] # NoJob /\ parent[j] # NoJob /\ parent[j] \notin jobs

\* Mutants of HasLock: any current job will do; the new job itself is compared.
HasLockAnyJob(j) == owner[Lock(j)] # NoJob /\ parent[j] \in jobs

HasLockNewJob(j) == owner[Lock(j)] # NoJob /\ j \in jobs /\ j = owner[Lock(j)]

HasLock(j) ==
  /\ owner[Lock(j)] # NoJob
  /\ parent[j] \in jobs
  /\ parent[j] = owner[Lock(j)]

\* asyncio.Lock.acquire returns at once only when nobody waits.
LockFree(l) == ~locked[l] /\ waiters[l] = <<>>

Refused(j) ==
  \/ Mode(j) = "group_reject" /\ owner[Lock(j)] # NoJob /\ ~HasLock(j)
  \/ Mode(j) = "reject" /\ locked[Lock(j)]

Broken(j) == InGroup(j) /\ CurrentJobLost(j)

Admitted(j) ==
  /\ ~Broken(j)
  /\ \/ Mode(j) = "none"
     \/ InGroup(j) /\ HasLock(j)
     \/ ~Refused(j) /\ LockFree(Lock(j))

\* Mutants of TakeOwnership: the stack grows on every acquire(); it never grows.
TakeOwnershipAlwaysPush(j, nested) ==
  IF InGroup(j)
    THEN /\ owner' = [owner EXCEPT ![Lock(j)] = j]
         /\ parentJobs' = [parentJobs EXCEPT ![Lock(j)] = Append(@, owner[Lock(j)])]
    ELSE UNCHANGED <<owner, parentJobs>>

TakeOwnershipNeverPush(j, nested) ==
  IF InGroup(j)
    THEN owner' = [owner EXCEPT ![Lock(j)] = j] /\ UNCHANGED parentJobs
    ELSE UNCHANGED <<owner, parentJobs>>

\* Ownership after acquire(): the owner becomes the parent on the stack.
TakeOwnership(j, nested) ==
  IF InGroup(j)
    THEN /\ owner' = [owner EXCEPT ![Lock(j)] = j]
         /\ parentJobs' = IF nested
                            THEN [parentJobs EXCEPT ![Lock(j)] = Append(@, owner[Lock(j)])]
                            ELSE parentJobs
    ELSE UNCHANGED <<owner, parentJobs>>

\* job.start(): the method begins to run.
Start(j) ==
  /\ pc' = [pc EXCEPT ![j] = "running"]
  /\ done' = [done EXCEPT ![j] = "False"]
  /\ UNCHANGED <<jobs, callVars, outcome, bodyVars>>

Enter(j) ==
  LET nested == InGroup(j) /\ HasLock(j) IN
  /\ pc[j] = "called"
  /\ Admitted(j)
  /\ TakeOwnership(j, nested)
  /\ locked' = IF Mode(j) = "none" \/ nested THEN locked
                                             ELSE [locked EXCEPT ![Lock(j)] = TRUE]
  /\ UNCHANGED waiters
  /\ Start(j)

\* The lock is taken, the throttle skips (ok) or refuses (raised) the call,
\* and the lock is given back, all without an await.
EnterThrottled(j) ==
  /\ pc[j] = "called"
  /\ method[j] \in throttled
  /\ Admitted(j)
  /\ \E o \in {"ok", "raised"} : Leave(j, done, o)
  /\ UNCHANGED <<callVars, bodyVars, lockVars>>

\* A condition is not met: logged, or raised as on_condition.
ConditionFails(j) ==
  /\ pc[j] = "called"
  /\ method[j] \in conditions
  /\ \E o \in {"ok", "raised"} : Leave(j, done, o)
  /\ UNCHANGED <<callVars, bodyVars, lockVars>>

Reject(j) ==
  /\ pc[j] = "called"
  /\ Broken(j) \/ Refused(j)
  /\ Leave(j, done, "raised")
  /\ UNCHANGED <<callVars, bodyVars, lockVars>>

Enqueue(j) ==
  /\ pc[j] = "called"
  /\ ~(Broken(j) \/ Refused(j) \/ Admitted(j))
  /\ waiters' = [waiters EXCEPT ![Lock(j)] = Append(@, j)]
  /\ pc' = [pc EXCEPT ![j] = "waiting"]
  /\ UNCHANGED <<jobs, callVars, done, outcome, bodyVars, owner, parentJobs, locked>>

\* release() has woken the first waiter; its task resumes in acquire().
Woken(j) ==
  /\ pc[j] = "waiting"
  /\ ~locked[Lock(j)]
  /\ waiters[Lock(j)] # <<>>
  /\ Head(waiters[Lock(j)]) = j

Wake(j) ==
  /\ Woken(j)
  /\ waiters' = [waiters EXCEPT ![Lock(j)] = Tail(@)]
  /\ locked' = [locked EXCEPT ![Lock(j)] = TRUE]
  /\ TakeOwnership(j, FALSE)
  /\ Start(j)

WakeThrottled(j) ==
  /\ Woken(j)
  /\ method[j] \in throttled
  /\ waiters' = [waiters EXCEPT ![Lock(j)] = Tail(@)]
  /\ \E o \in {"ok", "raised"} : Leave(j, done, o)
  /\ UNCHANGED <<callVars, bodyVars, owner, parentJobs, locked>>

\* The waiting task is cancelled (CancelledError inside acquire()).
CancelWait(j) ==
  /\ pc[j] = "waiting"
  /\ \E i \in DOMAIN waiters[Lock(j)] :
       /\ waiters[Lock(j)][i] = j
       /\ waiters' = [waiters EXCEPT ![Lock(j)] = SubSeq(@, 1, i - 1) \o SubSeq(@, i + 1, Len(@))]
  /\ Leave(j, done, "raised")
  /\ UNCHANGED <<callVars, bodyVars, owner, parentJobs, locked>>

-----------------------------------------------------------------------------
(* Leaving                                                                 *)

\* Mutants of ReleaseGroup: every release frees the lock; the asyncio lock is
\* never released.
ReleaseGroupWhole(j) ==
  LET l == Lock(j) IN
  /\ owner' = [owner EXCEPT ![l] = NoJob]
  /\ parentJobs' = [parentJobs EXCEPT ![l] = <<>>]
  /\ locked' = [locked EXCEPT ![l] = FALSE]
  /\ UNCHANGED waiters

ReleaseGroupOwnerOnly(j) ==
  LET l == Lock(j)
      n == Len(parentJobs[l]) IN
  /\ owner' = [owner EXCEPT ![l] = IF n > 0 THEN parentJobs[l][n] ELSE NoJob]
  /\ parentJobs' = [parentJobs EXCEPT ![l] = SubSeq(@, 1, n - 1)]
  /\ UNCHANGED <<locked, waiters>>

\* JobGroup.release: back to the parent on the stack, or free the lock.
ReleaseGroup(j) ==
  LET l == Lock(j)
      n == Len(parentJobs[l]) IN
  IF owner[l] # j THEN UNCHANGED lockVars      \* raises JobException
  ELSE IF n > 0
    THEN /\ owner' = [owner EXCEPT ![l] = parentJobs[l][n]]
         /\ parentJobs' = [parentJobs EXCEPT ![l] = SubSeq(@, 1, n - 1)]
         /\ UNCHANGED <<locked, waiters>>
    ELSE /\ owner' = [owner EXCEPT ![l] = NoJob]
         /\ locked' = [locked EXCEPT ![l] = FALSE]
         /\ UNCHANGED <<parentJobs, waiters>>

Release(j) ==
  IF InGroup(j)
    THEN ReleaseGroup(j)
    ELSE /\ locked' = IF Mode(j) = "none" THEN locked
                                          ELSE [locked EXCEPT ![Lock(j)] = FALSE]
         /\ UNCHANGED <<owner, parentJobs, waiters>>

\* The method returns (o = "ok") or raises, job.start() ends, the lock is
\* released and the job cleaned up.
Finish(j, o) ==
  /\ Resumable(j) \/ (GatherFailed(j) /\ o = "raised")
  /\ Release(j)
  /\ Leave(j, [done EXCEPT ![j] = "True"],
           IF InGroup(j) /\ owner[Lock(j)] # j THEN "raised" ELSE o)
  /\ UNCHANGED <<callVars, bodyVars>>

\* DELETE /jobs/{uuid}: only of a job that is done.
ApiRemoveJob(j) ==
  /\ j \in jobs
  /\ done[j] = "True"
  /\ jobs' = jobs \ Removed(j, done)
  /\ UNCHANGED <<callVars, done, pc, outcome, bodyVars, lockVars>>

\* The SupervisorJob object is garbage: nothing refers to it any more.
Forget(j) ==
  /\ pc[j] = "ended"
  /\ j \notin jobs
  /\ todo[j] = {}
  /\ \A k \in Jobs : parent[k] # j /\ (j \in awaiting[k] => pc[k] = "ended")
  /\ \A l \in Locks : owner[l] # j /\ \A i \in DOMAIN parentJobs[l] : parentJobs[l][i] # j
  /\ method' = [method EXCEPT ![j] = NoMethod]
  /\ parent' = [parent EXCEPT ![j] = NoJob]
  /\ done' = [done EXCEPT ![j] = "None"]
  /\ pc' = [pc EXCEPT ![j] = "unused"]
  /\ outcome' = [outcome EXCEPT ![j] = "none"]
  /\ awaiting' = [k \in Jobs |-> IF k = j THEN {} ELSE awaiting[k] \ {j}]
  /\ UNCHANGED <<jobs, todo, lockVars>>

-----------------------------------------------------------------------------

Wrapper(j) ==
  \/ RunScheduled(j) \/ Enter(j) \/ EnterThrottled(j) \/ ConditionFails(j)
  \/ Reject(j) \/ Enqueue(j) \/ Wake(j) \/ WakeThrottled(j)

Return(j) == \E o \in {"ok", "raised"} : Finish(j, o)

Next ==
  \E j \in Jobs :
    \/ \E m \in Methods : Call(j, m) \/ ScheduleJob(j, m)
    \/ \E p \in Jobs, m \in Methods : Await(p, j, m) \/ StartGathered(p, j, m)
    \/ BeginGather(j)
    \/ Wrapper(j)
    \/ CancelWait(j)
    \/ Return(j)
    \/ ApiRemoveJob(j)
    \/ Forget(j)

Spec == Init /\ [][Next]_vars

(* The event loop resumes every task that can go on.  A method makes       *)
(* finitely many calls and returns or raises: Return is enabled again and  *)
(* again until then, hence strong fairness.  A fresh uuid is always there: *)
(* identities are recycled only because Jobs is finite, so Forget is fair  *)
(* and a gathered task begins once some identity is free again and again.  *)
(* Nothing is assumed of API calls and cancellations.                      *)
Fairness ==
  /\ \A j \in Jobs : WF_vars(Wrapper(j)) /\ SF_vars(Return(j))
  /\ WF_vars(\E j \in Jobs : Forget(j))
  /\ \A p \in Jobs, m \in UNION {gathers[n] : n \in Methods} :
       SF_vars(\E j \in Jobs : StartGathered(p, j, m))

FairSpec == Spec /\ Fairness

-----------------------------------------------------------------------------
(* Properties                                                              *)

GroupLocks == {lockOf[m] : m \in {n \in Methods : IsGroup(n)}}

\* The calls inside a group lock, outermost first.
Chain(l) == IF owner[l] = NoJob THEN <<>> ELSE Append(parentJobs[l], owner[l])

TypeOK ==
  /\ jobs \subseteq Jobs
  /\ method \in [Jobs -> Methods \cup {NoMethod}]
  /\ parent \in [Jobs -> Jobs \cup {NoJob}]
  /\ done \in [Jobs -> {"None", "False", "True"}]
  /\ pc \in [Jobs -> Places]
  /\ outcome \in [Jobs -> {"none", "ok", "raised"}]
  /\ awaiting \in [Jobs -> SUBSET Jobs]
  /\ todo \in [Jobs -> SUBSET Methods]
  /\ owner \in [Locks -> Jobs \cup {NoJob}]
  /\ parentJobs \in [Locks -> Seq(Jobs)]
  /\ locked \in [Locks -> BOOLEAN]
  /\ waiters \in [Locks -> Seq(Jobs)]
  /\ \A j \in Jobs : pc[j] # "unused" => method[j] \in Methods

\* The running calls that went through the lock l.
Holders(l) == {j \in Jobs : pc[j] = "running" /\ Mode(j) # "none" /\ Lock(j) = l}

\* a made the call b, directly or through other decorated methods.
Ancestor(a, b) ==
  \A C \in SUBSET Jobs :
    (\A k \in C \cup {b} : parent[k] \in Jobs => parent[k] \in C) => a \in C

(* Mutual exclusion over a JobGroup and over a decorator's own lock        *)
(* (JobGroup.acquire, Job._handle_concurrency_control): two running calls  *)
(* that share a lock are a caller and a callee, and share it only through  *)
(* a group.                                                                *)
MutualExclusion ==
  \A l \in Locks : \A j, k \in Holders(l) :
    j # k => /\ InGroup(j) /\ InGroup(k)
             /\ Ancestor(j, k) \/ Ancestor(k, j)

(* "ensures locks are always released" (Job._concurrency_control): a lock  *)
(* is held exactly while a call that went through it runs, the owner of a  *)
(* group is the innermost of those calls, and release() finds it.          *)
LocksAccountedFor ==
  \A l \in Locks :
    /\ locked[l] <=> Holders(l) # {}
    /\ l \in GroupLocks =>
         Holders(l) = {Chain(l)[i] : i \in DOMAIN Chain(l)}

(* JobManager._jobs holds every call from its creation until its wrapper   *)
(* ends, unless its caller ended before it (a gathered call), and then     *)
(* only jobs that ran and are kept for the API.                            *)
RegistryExact ==
  \A j \in Jobs :
    /\ pc[j] \in {"scheduled", "called", "waiting", "running"} =>
         j \in jobs \/ (parent[j] # NoJob /\ pc[parent[j]] = "ended")
    /\ j \in jobs /\ pc[j] = "ended" => done[j] = "True" /\ method[j] \notin cleanup

(* A job waiting for a lock does not wait for its own caller: "Methods can *)
(* call other methods on the same group without deadlock".                 *)
NoWaitForCaller ==
  \A j \in Jobs : pc[j] = "waiting" =>
    \A k \in Holders(Lock(j)) : ~Ancestor(k, j)

(* Every call of a decorated method comes to an end: it is refused or runs *)
(* once the calls ahead of it in the lock's queue are over.                *)
CallsEnd ==
  \A j \in Jobs : (pc[j] \in {"called", "waiting", "running"}) ~> (pc[j] = "ended")

(* The wrapper, the registry and JobGroup together implement the stack of  *)
(* calls of module GroupLock.                                              *)
GL == INSTANCE GroupLock WITH chain <- [l \in GroupLocks |-> Chain(l)]

ImplementsGroupLock == GL!Spec

=============================================================================
