----------------------------- MODULE JobsProofs -----------------------------
(***************************************************************************)
(* Proofs about Jobs, for any jobs, methods and locks.                     *)
(***************************************************************************)
EXTENDS Jobs, SequenceTheorems, WellFoundedInduction, TLAPS

-----------------------------------------------------------------------------
(* Type correctness                                                        *)

(* A call ends with its job removed or kept, whichever way (Job.__call__,  *)
(* the finally clause of wrapper): what Leave changes keeps its type.      *)
LEMMA LeaveTypes ==
  ASSUME TypeOK, NEW j \in Jobs, NEW dn \in [Jobs -> {"None", "False", "True"}],
         NEW o \in {"ok", "raised"}, Leave(j, dn, o)
  PROVE  /\ jobs' \subseteq Jobs
         /\ done' \in [Jobs -> {"None", "False", "True"}]
         /\ pc' \in [Jobs -> Places]
         /\ outcome' \in [Jobs -> {"none", "ok", "raised"}]
         /\ \A k \in Jobs : pc'[k] # "unused" => pc[k] # "unused" \/ k = j
BY DEF TypeOK, Leave, Places

(* Nothing but the lock variables is touched by release() (JobGroup and    *)
(* Job._release_concurrency_control), and they keep their types.           *)
LEMMA ReleaseTypes ==
  ASSUME JobsAssumption, TypeOK, NEW j \in Jobs, method[j] \in Methods, Release(j)
  PROVE  /\ owner' \in [Locks -> Jobs \cup {NoJob}]
         /\ parentJobs' \in [Locks -> Seq(Jobs)]
         /\ locked' \in [Locks -> BOOLEAN]
         /\ waiters' \in [Locks -> Seq(Jobs)]
<1> DEFINE l == Lock(j)
<1>1. l \in Locks
  BY DEF JobsAssumption, Lock
<1>2. CASE InGroup(j)
  <2>1. ReleaseGroup(j)
    BY <1>2 DEF Release
  <2>2. CASE owner[l] # j
    BY <2>1, <2>2 DEF ReleaseGroup, lockVars, TypeOK
  <2>3. CASE owner[l] = j /\ Len(parentJobs[l]) > 0
    <3>1. parentJobs[l] \in Seq(Jobs)
      BY <1>1 DEF TypeOK
    <3> DEFINE n == Len(parentJobs[l])
    <3>2. n \in Nat /\ n >= 1
      BY <3>1, <2>3
    <3>3. parentJobs[l][n] \in Jobs
      BY <3>1, <3>2
    <3>4. SubSeq(parentJobs[l], 1, n - 1) \in Seq(Jobs)
      BY <3>1, <3>2, SubSeqProperties
    <3>5. /\ owner' = [owner EXCEPT ![l] = parentJobs[l][n]]
          /\ parentJobs' = [parentJobs EXCEPT ![l] = SubSeq(parentJobs[l], 1, n - 1)]
          /\ UNCHANGED <<locked, waiters>>
      BY <2>1, <2>3 DEF ReleaseGroup
    <3> HIDE DEF n, l
    <3> QED
      BY <3>3, <3>4, <3>5, <1>1 DEF TypeOK
  <2>4. CASE owner[l] = j /\ ~(Len(parentJobs[l]) > 0)
    BY <2>1, <2>4, <1>1 DEF ReleaseGroup, TypeOK
  <2> QED
    BY <2>2, <2>3, <2>4
<1>3. CASE ~InGroup(j)
  BY <1>3, <1>1 DEF Release, TypeOK, lockVars
<1> QED
  BY <1>2, <1>3

(* TypeOK holds initially (JobManager and JobGroup are built empty).       *)
LEMMA InitTypes == JobsAssumption /\ Init => TypeOK
BY EmptySeq DEF JobsAssumption, Init, TypeOK, Places

(* Registering a job (JobManager.new_job) keeps the types of the registry. *)
LEMMA NewJobTypes ==
  ASSUME TypeOK, NEW j \in Jobs, NEW m \in Methods, NEW p \in Jobs \cup {NoJob},
         NEW place \in {"scheduled", "called"}, NewJob(j, m, p, place)
  PROVE  /\ jobs' \subseteq Jobs
         /\ method' \in [Jobs -> Methods \cup {NoMethod}]
         /\ parent' \in [Jobs -> Jobs \cup {NoJob}]
         /\ pc' \in [Jobs -> Places]
         /\ \A k \in Jobs : pc'[k] # "unused" => method'[k] \in Methods
         /\ UNCHANGED <<done, outcome, owner, parentJobs, locked, waiters>>
BY DEF TypeOK, NewJob, Places, lockVars

(* Taking a group's ownership (JobGroup.acquire) keeps the types.          *)
LEMMA OwnershipTypes ==
  ASSUME JobsAssumption, TypeOK, NEW j \in Jobs, method[j] \in Methods,
         NEW nested \in BOOLEAN, nested => HasLock(j), TakeOwnership(j, nested)
  PROVE  /\ owner' \in [Locks -> Jobs \cup {NoJob}]
         /\ parentJobs' \in [Locks -> Seq(Jobs)]
<1>1. Lock(j) \in Locks
  BY DEF JobsAssumption, Lock
<1>2. CASE ~InGroup(j)
  BY <1>2 DEF TakeOwnership, TypeOK
<1>3. CASE InGroup(j) /\ nested
  <2>1. owner[Lock(j)] \in Jobs /\ parentJobs[Lock(j)] \in Seq(Jobs)
    BY <1>1, <1>3 DEF HasLock, TypeOK
  <2>2. Append(parentJobs[Lock(j)], owner[Lock(j)]) \in Seq(Jobs)
    BY <2>1, AppendProperties
  <2>3. /\ owner' = [owner EXCEPT ![Lock(j)] = j]
        /\ parentJobs' = [parentJobs EXCEPT ![Lock(j)] =
                            Append(parentJobs[Lock(j)], owner[Lock(j)])]
    BY <1>3 DEF TakeOwnership
  <2> QED
    BY <1>1, <2>2, <2>3 DEF TypeOK
<1>4. CASE InGroup(j) /\ ~nested
  BY ZenonT(30), <1>1, <1>4 DEF TakeOwnership, TypeOK
<1> QED
  BY <1>2, <1>3, <1>4

(* A call that starts to run (SupervisorJob.start) keeps the types.        *)
LEMMA StartTypes ==
  ASSUME TypeOK, NEW j \in Jobs, pc[j] # "unused", Start(j)
  PROVE  /\ UNCHANGED <<jobs, method, parent, outcome, awaiting, todo>>
         /\ pc' \in [Jobs -> Places]
         /\ done' \in [Jobs -> {"None", "False", "True"}]
         /\ \A k \in Jobs : pc'[k] # "unused" => method'[k] \in Methods
BY DEF TypeOK, Start, Places, callVars, bodyVars

(* The head of a queue of waiters leaves it (asyncio.Lock).                *)
LEMMA DequeueTypes ==
  ASSUME JobsAssumption, TypeOK, NEW j \in Jobs, method[j] \in Methods,
         waiters[Lock(j)] # <<>>,
         waiters' = [waiters EXCEPT ![Lock(j)] = Tail(waiters[Lock(j)])]
  PROVE  waiters' \in [Locks -> Seq(Jobs)]
<1>1. Lock(j) \in Locks
  BY DEF JobsAssumption, Lock
<1>2. waiters[Lock(j)] \in Seq(Jobs)
  BY <1>1 DEF TypeOK
<1>3. Tail(waiters[Lock(j)]) \in Seq(Jobs)
  BY <1>2, HeadTailProperties
<1> QED
  BY <1>1, <1>3 DEF TypeOK

(* Every step of the job framework keeps the types.                        *)
LEMMA StepTypes == JobsAssumption /\ TypeOK /\ [Next]_vars => TypeOK'
<1> SUFFICES ASSUME JobsAssumption, TypeOK, [Next]_vars
             PROVE  TypeOK'
  OBVIOUS
<1> USE DEF callVars, bodyVars, lockVars
<1>1. ASSUME NEW j \in Jobs, NEW m \in Methods, NEW place \in {"scheduled", "called"},
             NEW p \in Jobs \cup {NoJob}, NewJob(j, m, p, place),
             awaiting' \in [Jobs -> SUBSET Jobs], todo' \in [Jobs -> SUBSET Methods]
      PROVE  TypeOK'
  BY <1>1, NewJobTypes DEF TypeOK
<1>2. ASSUME NEW j \in Jobs, NEW m \in Methods, Call(j, m) \/ ScheduleJob(j, m)
      PROVE  TypeOK'
  BY <1>1, <1>2 DEF Call, ScheduleJob, TypeOK
<1>3. ASSUME NEW p \in Jobs, NEW j \in Jobs, NEW m \in Methods, Await(p, j, m)
      PROVE  TypeOK'
  BY <1>1, <1>3 DEF Await, TypeOK
<1>4. ASSUME NEW p \in Jobs, NEW j \in Jobs, NEW m \in Methods, StartGathered(p, j, m)
      PROVE  TypeOK'
  BY <1>1, <1>4 DEF StartGathered, TypeOK
<1>5. ASSUME NEW p \in Jobs, BeginGather(p)
      PROVE  TypeOK'
  <2>1. gathers[method[p]] \in SUBSET Methods
    BY <1>5 DEF BeginGather, Resumable, TypeOK, JobsAssumption
  <2> QED
    BY <1>5, <2>1 DEF BeginGather, TypeOK
<1>6. ASSUME NEW j \in Jobs, RunScheduled(j)
      PROVE  TypeOK'
  BY <1>6 DEF RunScheduled, TypeOK, Places
<1>7. ASSUME NEW j \in Jobs, Enter(j)
      PROVE  TypeOK'
  <2>1. pc[j] # "unused" /\ method[j] \in Methods
    BY <1>7 DEF Enter, TypeOK
  <2>2. Start(j)
    BY <1>7 DEF Enter
  <2>3. TakeOwnership(j, InGroup(j) /\ HasLock(j))
    BY <1>7 DEF Enter
  <2>4. (InGroup(j) /\ HasLock(j)) \in BOOLEAN
    BY DEF InGroup, IsGroup, HasLock
  <2>5. /\ owner' \in [Locks -> Jobs \cup {NoJob}]
        /\ parentJobs' \in [Locks -> Seq(Jobs)]
    BY <2>1, <2>3, <2>4, OwnershipTypes
  <2>6. locked' \in [Locks -> BOOLEAN] /\ waiters' = waiters
    BY <1>7 DEF Enter, TypeOK
  <2> QED
    BY <2>1, <2>2, <2>5, <2>6, StartTypes DEF TypeOK
<1>8. ASSUME NEW j \in Jobs, NEW dn \in [Jobs -> {"None", "False", "True"}],
             NEW o \in {"ok", "raised"}, Leave(j, dn, o), pc[j] # "unused",
             UNCHANGED <<callVars, bodyVars>>,
             owner' \in [Locks -> Jobs \cup {NoJob}],
             parentJobs' \in [Locks -> Seq(Jobs)],
             locked' \in [Locks -> BOOLEAN],
             waiters' \in [Locks -> Seq(Jobs)]
      PROVE  TypeOK'
  BY <1>8, LeaveTypes DEF TypeOK
<1>9. ASSUME NEW j \in Jobs, EnterThrottled(j) \/ ConditionFails(j) \/ Reject(j)
      PROVE  TypeOK'
  <2>1. PICK o \in {"ok", "raised"} : Leave(j, done, o)
    BY <1>9 DEF EnterThrottled, ConditionFails, Reject
  <2>2. pc[j] # "unused" /\ UNCHANGED <<callVars, bodyVars>> /\ UNCHANGED lockVars
    BY <1>9 DEF EnterThrottled, ConditionFails, Reject
  <2>3. /\ done \in [Jobs -> {"None", "False", "True"}]
        /\ owner' \in [Locks -> Jobs \cup {NoJob}]
        /\ parentJobs' \in [Locks -> Seq(Jobs)]
        /\ locked' \in [Locks -> BOOLEAN]
        /\ waiters' \in [Locks -> Seq(Jobs)]
    BY <2>2 DEF TypeOK
  <2>4. /\ jobs' \subseteq Jobs
        /\ done' \in [Jobs -> {"None", "False", "True"}]
        /\ pc' \in [Jobs -> Places]
        /\ outcome' \in [Jobs -> {"none", "ok", "raised"}]
        /\ \A k \in Jobs : pc'[k] # "unused" => pc[k] # "unused" \/ k = j
    BY <2>1, <2>3, LeaveTypes
  <2> QED
    BY <2>2, <2>3, <2>4 DEF TypeOK
<1>10. ASSUME NEW j \in Jobs, Enqueue(j)
       PROVE  TypeOK'
  <2>1. Lock(j) \in Locks
    BY <1>10 DEF Enqueue, TypeOK, JobsAssumption, Lock
  <2>2. Append(waiters[Lock(j)], j) \in Seq(Jobs)
    BY <2>1, AppendProperties DEF TypeOK
  <2> QED
    BY <1>10, <2>1, <2>2 DEF Enqueue, TypeOK, Places
<1>11. ASSUME NEW j \in Jobs, Woken(j)
       PROVE  pc[j] # "unused" /\ method[j] \in Methods /\ waiters[Lock(j)] # <<>>
  BY <1>11 DEF Woken, TypeOK
<1>12. ASSUME NEW j \in Jobs, Wake(j)
       PROVE  TypeOK'
  <2>1. Start(j) /\ TakeOwnership(j, FALSE)
    BY <1>12 DEF Wake
  <2>2. waiters' \in [Locks -> Seq(Jobs)]
    BY <1>11, <1>12, DequeueTypes DEF Wake
  <2>3. locked' \in [Locks -> BOOLEAN]
    BY <1>12 DEF Wake, TypeOK
  <2>4. /\ owner' \in [Locks -> Jobs \cup {NoJob}]
        /\ parentJobs' \in [Locks -> Seq(Jobs)]
    BY <1>11, <1>12, <2>1, OwnershipTypes DEF Wake
  <2> QED
    BY <1>11, <1>12, <2>1, <2>2, <2>3, <2>4, StartTypes DEF Wake, TypeOK
<1>13. ASSUME NEW j \in Jobs, WakeThrottled(j)
       PROVE  TypeOK'
  <2>1. PICK o \in {"ok", "raised"} : Leave(j, done, o)
    BY <1>13 DEF WakeThrottled
  <2>2. waiters' \in [Locks -> Seq(Jobs)]
    BY <1>11, <1>13, DequeueTypes DEF WakeThrottled
  <2>3. pc[j] # "unused" /\ UNCHANGED <<callVars, bodyVars, owner, parentJobs, locked>>
    BY <1>11, <1>13 DEF WakeThrottled
  <2>4. /\ done \in [Jobs -> {"None", "False", "True"}]
        /\ owner' \in [Locks -> Jobs \cup {NoJob}]
        /\ parentJobs' \in [Locks -> Seq(Jobs)]
        /\ locked' \in [Locks -> BOOLEAN]
    BY <2>3 DEF TypeOK
  <2> QED
    BY <1>8, <2>1, <2>2, <2>3, <2>4
<1>14. ASSUME NEW j \in Jobs, CancelWait(j)
       PROVE  TypeOK'
  <2> DEFINE l == Lock(j)
  <2>1. l \in Locks /\ waiters[l] \in Seq(Jobs)
    BY <1>14 DEF CancelWait, TypeOK, JobsAssumption, Lock
  <2>2. PICK i \in DOMAIN waiters[l] :
          waiters' = [waiters EXCEPT ![l] = SubSeq(waiters[l], 1, i - 1)
                                            \o SubSeq(waiters[l], i + 1, Len(waiters[l]))]
    BY <1>14 DEF CancelWait
  <2>3. i \in 1 .. Len(waiters[l])
    BY <2>1, LenProperties
  <2> DEFINE before == SubSeq(waiters[l], 1, i - 1)
             after == SubSeq(waiters[l], i + 1, Len(waiters[l]))
  <2>4. before \in Seq(Jobs)
    BY <2>1, <2>3, SubSeqProperties, ElementOfSeq
  <2>5. after \in Seq(Jobs)
    BY <2>1, <2>3, SubSeqProperties, ElementOfSeq
  <2>6. before \o after \in Seq(Jobs)
    BY <2>4, <2>5, ConcatProperties
  <2>7. waiters' \in [Locks -> Seq(Jobs)]
    BY <2>1, <2>2, <2>6 DEF TypeOK
  <2> QED
    BY <1>8, <1>14, <2>7 DEF CancelWait, TypeOK
<1>15. ASSUME NEW j \in Jobs, NEW o \in {"ok", "raised"}, Finish(j, o)
       PROVE  TypeOK'
  <2> DEFINE dn == [done EXCEPT ![j] = "True"]
             u == IF InGroup(j) /\ owner[Lock(j)] # j THEN "raised" ELSE o
  <2>1. pc[j] # "unused" /\ method[j] \in Methods
    BY <1>15 DEF Finish, Resumable, GatherFailed, TypeOK
  <2>2. dn \in [Jobs -> {"None", "False", "True"}] /\ u \in {"ok", "raised"}
    BY DEF TypeOK
  <2>3. Release(j) /\ Leave(j, dn, u) /\ UNCHANGED <<callVars, bodyVars>>
    BY <1>15 DEF Finish
  <2>4. /\ owner' \in [Locks -> Jobs \cup {NoJob}]
        /\ parentJobs' \in [Locks -> Seq(Jobs)]
        /\ locked' \in [Locks -> BOOLEAN]
        /\ waiters' \in [Locks -> Seq(Jobs)]
    BY <2>1, <2>3, ReleaseTypes
  <2> HIDE DEF dn, u
  <2> QED
    BY ZenonT(30), <1>8, <2>1, <2>2, <2>3, <2>4
<1>16. ASSUME NEW j \in Jobs, ApiRemoveJob(j)
       PROVE  TypeOK'
  BY <1>16 DEF ApiRemoveJob, TypeOK
<1>17. ASSUME NEW j \in Jobs, Forget(j)
       PROVE  TypeOK'
  BY <1>17 DEF Forget, TypeOK, Places
<1>18. CASE UNCHANGED vars
  BY <1>18 DEF vars, TypeOK
<1>19. CASE Next
  BY <1>2, <1>3, <1>4, <1>5, <1>6, <1>7, <1>9, <1>10, <1>12, <1>13, <1>14, <1>15,
     <1>16, <1>17, <1>19 DEF Next, Wrapper, Return
<1> QED
  BY <1>18, <1>19

(* TypeOK is an invariant of the job framework.                            *)
THEOREM TypeCorrect == Spec => []TypeOK
<1>1. Init => TypeOK
  BY JobsAssumption, InitTypes
<1>2. TypeOK /\ [Next]_vars => TypeOK'
  BY JobsAssumption, StepTypes
<1> QED
  BY <1>1, <1>2, PTL DEF Spec

-----------------------------------------------------------------------------
(* The inductive invariant                                                 *)

\* The coroutines a method has yet to gather are calls of its own.
TodoOwn ==
  \A p \in Jobs : todo[p] # {} => pc[p] = "running" /\ todo[p] \subseteq gathers[method[p]]

\* A call that has not entered is awaited by the method that made it, alone
\* unless it is gathered, and the object of that method is still there.
Awaited ==
  \A j \in Jobs : parent[j] \in Jobs =>
    /\ pc[parent[j]] # "unused" /\ pc[j] # "scheduled"
    /\ pc[j] \in {"called", "waiting"} =>
         /\ j \in awaiting[parent[j]]
         /\ \/ method[j] \in gathers[method[parent[j]]]
            \/ awaiting[parent[j]] = {j} /\ todo[parent[j]] = {}

WaitersLock == \A j \in Jobs : pc[j] = "waiting" => Mode(j) # "none"

\* A group lock is locked exactly while it has an owner.
GroupLocked(l) ==
  /\ locked[l] <=> owner[l] # NoJob
  /\ owner[l] = NoJob => parentJobs[l] = <<>>

\* The chain of a group holds each of its running calls once.
ChainHolds(l) ==
  /\ \A i \in 1 .. Len(Chain(l)) : Chain(l)[i] \in Holders(l)
  /\ \A i, k \in 1 .. Len(Chain(l)) : Chain(l)[i] = Chain(l)[k] => i = k
  /\ \A j \in Holders(l) : \E i \in 1 .. Len(Chain(l)) : Chain(l)[i] = j

\* Every call of a chain but the innermost awaits the next one and nothing else.
ChainAwaits(l) ==
  \A i \in 1 .. Len(Chain(l)) - 1 :
    /\ awaiting[Chain(l)[i]] = {Chain(l)[i + 1]}
    /\ todo[Chain(l)[i]] = {}
    /\ parent[Chain(l)[i + 1]] = Chain(l)[i]

GroupOK(l) == GroupLocked(l) /\ ChainHolds(l) /\ ChainAwaits(l)

\* A decorator's own lock has at most one holder.
OwnOK(l) ==
  /\ locked[l] <=> Holders(l) # {}
  /\ \A j, k \in Holders(l) : j = k

LocksOK ==
  /\ \A l \in GroupLocks : GroupOK(l)
  /\ \A l \in Locks \ GroupLocks : OwnOK(l)

IInv == TypeOK /\ TodoOwn /\ Awaited /\ WaitersLock /\ LocksOK

-----------------------------------------------------------------------------
(* Chains                                                                  *)

(* The chain of a group is a sequence of jobs that ends in the owner.      *)
LEMMA ChainSeq ==
  ASSUME JobsAssumption, TypeOK, NEW l \in Locks
  PROVE  /\ Chain(l) \in Seq(Jobs)
         /\ owner[l] = NoJob => Chain(l) = <<>>
         /\ owner[l] # NoJob => /\ owner[l] \in Jobs
                                /\ Len(Chain(l)) = Len(parentJobs[l]) + 1
                                /\ Chain(l)[Len(Chain(l))] = owner[l]
<1>1. owner[l] \in Jobs \cup {NoJob} /\ parentJobs[l] \in Seq(Jobs)
  BY DEF TypeOK
<1>2. CASE owner[l] = NoJob
  BY <1>2, EmptySeq DEF Chain
<1>3. CASE owner[l] # NoJob
  BY <1>1, <1>3, AppendProperties DEF Chain
<1> QED
  BY <1>2, <1>3

(* acquire() by the parent's callee makes the chain longer by one call.    *)
LEMMA ChainPush ==
  ASSUME JobsAssumption, TypeOK, NEW l \in Locks, NEW j \in Jobs, owner[l] # NoJob,
         owner'[l] = j, parentJobs'[l] = Append(parentJobs[l], owner[l])
  PROVE  Chain(l)' = Append(Chain(l), j)
<1>1. j # NoJob
  BY DEF JobsAssumption
<1> QED
  BY <1>1 DEF Chain

(* release() takes the innermost call off the chain.                       *)
LEMMA ChainPop ==
  ASSUME JobsAssumption, TypeOK, NEW l \in Locks, owner[l] # NoJob,
         \/ /\ Len(parentJobs[l]) > 0
            /\ owner'[l] = parentJobs[l][Len(parentJobs[l])]
            /\ parentJobs'[l] = SubSeq(parentJobs[l], 1, Len(parentJobs[l]) - 1)
         \/ /\ Len(parentJobs[l]) = 0
            /\ owner'[l] = NoJob
  PROVE  Chain(l)' = SubSeq(Chain(l), 1, Len(Chain(l)) - 1)
<1> DEFINE s == parentJobs[l]
           n == Len(parentJobs[l])
<1>1. s \in Seq(Jobs) /\ owner[l] \in Jobs /\ n \in Nat
  BY DEF TypeOK
<1>2. Chain(l) = Append(s, owner[l]) /\ Len(Chain(l)) = n + 1
  BY <1>1, AppendProperties DEF Chain
<1>3. CASE n > 0
  <2>1. SubSeq(Append(s, owner[l]), 1, n) = s
    <3>1. Append(s, owner[l]) = s \o <<owner[l]>>
      BY <1>1, AppendIsConcat
    <3>2. <<owner[l]>> \in Seq(Jobs)
      BY <1>1
    <3>3. SubSeq(s \o <<owner[l]>>, 1, n) = SubSeq(s, 1, n)
      BY <1>1, <1>3, <3>2, SubSeqOfConcat1
    <3> QED
      BY <1>1, <3>1, <3>3, SubSeqFull
  <2>2. s[n] \in Jobs /\ SubSeq(s, 1, n - 1) \in Seq(Jobs)
    BY <1>1, <1>3, SubSeqProperties, ElementOfSeq
  <2>3. Append(SubSeq(s, 1, n - 1), s[n]) = s
    <3>1. Append(SubSeq(s, 1, n - 1), s[n]) = SubSeq(s, 1, n - 1) \o <<s[n]>>
      BY <2>2, AppendIsConcat
    <3>2. SubSeq(s, 1, n) = SubSeq(s, 1, n - 1) \o <<s[n]>>
      <4>1. 1 \in 1 .. Len(s) /\ n \in 1 .. Len(s)
        BY <1>1, <1>3
      <4> HIDE DEF s, n
      <4> QED
        BY <1>1, <4>1, SubSeqRecursiveSecond
    <3> QED
      BY <1>1, <3>1, <3>2, SubSeqFull
  <2>4. Chain(l)' = Append(SubSeq(s, 1, n - 1), s[n])
    <3>1. owner'[l] = s[n] /\ parentJobs'[l] = SubSeq(s, 1, n - 1)
      BY <1>3
    <3>2. s[n] # NoJob
      BY <2>2 DEF JobsAssumption
    <3> HIDE DEF s, n
    <3> QED
      BY <3>1, <3>2 DEF Chain
  <2> QED
    BY <1>1, <1>2, <2>1, <2>3, <2>4
<1>4. CASE n = 0
  <2>1. Chain(l)' = <<>>
    BY <1>4 DEF Chain
  <2> QED
    BY <1>2, <1>4, <2>1, SubSeqEmpty
<1> QED
  BY <1>1, <1>3, <1>4

-----------------------------------------------------------------------------
(* One lock across one step                                                *)

\* A running call that awaits one running call goes on awaiting it.
WaitsKept ==
  \A p, k \in Jobs :
    /\ pc[p] = "running" /\ pc[k] = "running"
    /\ awaiting[p] = {k} /\ todo[p] = {}
    => /\ awaiting'[p] = {k} /\ todo'[p] = {}
       /\ parent'[k] = parent[k]

(* The group locks of the methods are locks.                               *)
LEMMA GroupLocksAreLocks == JobsAssumption => GroupLocks \subseteq Locks
BY DEF JobsAssumption, GroupLocks

(* A chain's calls are running jobs, and all but the last await the next.  *)
LEMMA ChainElements ==
  ASSUME JobsAssumption, TypeOK, NEW l \in GroupLocks, GroupOK(l)
  PROVE  /\ Chain(l) \in Seq(Jobs) /\ Len(Chain(l)) \in Nat
         /\ \A i \in 1 .. Len(Chain(l)) : Chain(l)[i] \in Jobs /\ pc[Chain(l)[i]] = "running"
         /\ owner[l] # NoJob =>
              /\ owner[l] \in Jobs /\ Len(Chain(l)) > 0
              /\ Chain(l)[Len(Chain(l))] = owner[l]
<1>1. l \in Locks
  BY GroupLocksAreLocks
<1>2. Chain(l) \in Seq(Jobs) /\ Len(Chain(l)) \in Nat
  BY <1>1, ChainSeq
<1>3. parentJobs[l] \in Seq(Jobs)
  BY <1>1 DEF TypeOK
<1> QED
  BY <1>1, <1>2, <1>3, ChainSeq DEF GroupOK, ChainHolds, Holders

(* A lock nobody takes or releases stays accounted for.                    *)
LEMMA QuietGroup ==
  ASSUME JobsAssumption, TypeOK, NEW l \in GroupLocks, GroupOK(l), WaitsKept,
         owner'[l] = owner[l], parentJobs'[l] = parentJobs[l], locked'[l] = locked[l],
         Holders(l)' = Holders(l)
  PROVE  GroupOK(l)' /\ Chain(l)' = Chain(l)
<1>1. Chain(l)' = Chain(l)
  BY DEF Chain
<1>2. GroupLocked(l)'
  BY DEF GroupOK, GroupLocked
<1>3. ChainHolds(l)'
  BY <1>1 DEF GroupOK, ChainHolds
<1>4. ChainAwaits(l)'
  <2> SUFFICES ASSUME NEW i \in 1 .. Len(Chain(l)) - 1
               PROVE  /\ awaiting'[Chain(l)[i]] = {Chain(l)[i + 1]}
                      /\ todo'[Chain(l)[i]] = {}
                      /\ parent'[Chain(l)[i + 1]] = Chain(l)[i]
    BY <1>1 DEF ChainAwaits
  <2>1. i \in 1 .. Len(Chain(l)) /\ i + 1 \in 1 .. Len(Chain(l))
    BY ChainElements
  <2> DEFINE p == Chain(l)[i]
             k == Chain(l)[i + 1]
  <2>2. p \in Jobs /\ k \in Jobs /\ pc[p] = "running" /\ pc[k] = "running"
    BY <2>1, ChainElements
  <2>3. awaiting[p] = {k} /\ todo[p] = {} /\ parent[k] = p
    BY DEF GroupOK, ChainAwaits
  <2> QED
    BY <2>2, <2>3 DEF WaitsKept
<1> QED
  BY <1>1, <1>2, <1>3, <1>4 DEF GroupOK

(* A call enters on top of the chain.                                      *)
LEMMA GroupPush ==
  ASSUME JobsAssumption, TypeOK, NEW l \in GroupLocks, GroupOK(l), WaitsKept,
         NEW j \in Jobs, j \notin Holders(l),
         Holders(l)' = Holders(l) \cup {j}, Chain(l)' = Append(Chain(l), j),
         owner'[l] = j, locked'[l] = TRUE,
         owner[l] # NoJob =>
           /\ awaiting'[owner[l]] = {j} /\ todo'[owner[l]] = {} /\ parent'[j] = owner[l]
  PROVE  GroupOK(l)'
<1> DEFINE c == Chain(l)
           n == Len(Chain(l))
<1>1. /\ c \in Seq(Jobs) /\ n \in Nat
      /\ Len(Append(c, j)) = n + 1
      /\ \A i \in 1 .. n : Append(c, j)[i] = c[i]
      /\ Append(c, j)[n + 1] = j
  BY ChainElements, AppendProperties
<1>2. \A i \in 1 .. n : c[i] \in Holders(l) /\ c[i] # j
  BY DEF GroupOK, ChainHolds
<1>3. GroupLocked(l)'
  BY DEF GroupLocked, JobsAssumption
<1>4. ChainHolds(l)'
  <2>1. \A i \in 1 .. n + 1 : Append(c, j)[i] \in Holders(l) \cup {j}
    BY <1>1, <1>2
  <2>2. \A i, k \in 1 .. n + 1 : Append(c, j)[i] = Append(c, j)[k] => i = k
    <3>1. \A i, k \in 1 .. n : c[i] = c[k] => i = k
      BY DEF GroupOK, ChainHolds
    <3> HIDE DEF c, n
    <3> QED
      BY <1>1, <1>2, <3>1
  <2>3. ASSUME NEW h \in Holders(l) \cup {j}
        PROVE  \E i \in 1 .. n + 1 : Append(c, j)[i] = h
    <3>1. CASE h = j
      BY <1>1, <3>1
    <3>2. CASE h # j
      <4>1. PICK i \in 1 .. n : c[i] = h
        BY <3>2 DEF GroupOK, ChainHolds
      <4> QED
        BY <1>1, <4>1
    <3> QED
      BY <3>1, <3>2
  <2> QED
    BY <1>1, <2>1, <2>2, <2>3 DEF ChainHolds
<1>5. ChainAwaits(l)'
  <2> DEFINE e == Chain(l)'
  <2>0. Len(e) - 1 = n /\ e = Append(c, j)
    BY <1>1
  <2> SUFFICES ASSUME NEW i \in 1 .. n
               PROVE  /\ awaiting'[e[i]] = {e[i + 1]}
                      /\ todo'[e[i]] = {}
                      /\ parent'[e[i + 1]] = e[i]
    <3> HIDE DEF n
    <3> QED
      BY <2>0 DEF ChainAwaits
  <2>1. CASE i < n
    <3> DEFINE p == c[i]
               k == c[i + 1]
    <3>1. i \in 1 .. n /\ i + 1 \in 1 .. n /\ i \in 1 .. n - 1
      BY <1>1, <2>1
    <3>2. p \in Jobs /\ k \in Jobs /\ pc[p] = "running" /\ pc[k] = "running"
      BY <3>1, ChainElements
    <3>3. awaiting[p] = {k} /\ todo[p] = {} /\ parent[k] = p
      BY <3>1 DEF GroupOK, ChainAwaits
    <3>4. awaiting'[p] = {k} /\ todo'[p] = {} /\ parent'[k] = p
      BY <3>2, <3>3 DEF WaitsKept
    <3>5. Append(c, j)[i] = p /\ Append(c, j)[i + 1] = k
      BY <1>1, <3>1
    <3> QED
      BY <2>0, <3>4, <3>5
  <2>2. CASE i = n
    <3>1. owner[l] # NoJob
      <4>1. CASE owner[l] = NoJob
        BY <1>1, <2>2, <4>1, EmptySeq DEF Chain
      <4> QED
        BY <4>1
    <3>2. c[n] = owner[l]
      BY <3>1, ChainElements
    <3>3. Append(c, j)[i] = owner[l] /\ Append(c, j)[i + 1] = j
      BY <1>1, <2>2, <3>2
    <3> QED
      BY <2>0, <3>1, <3>3
  <2> QED
    BY <1>1, <2>1, <2>2
<1> QED
  BY <1>3, <1>4, <1>5 DEF GroupOK

(* The innermost call leaves.                                              *)
LEMMA GroupPop ==
  ASSUME JobsAssumption, TypeOK, NEW l \in GroupLocks, GroupOK(l), WaitsKept,
         owner[l] # NoJob,
         Holders(l)' = Holders(l) \ {owner[l]},
         Chain(l)' = SubSeq(Chain(l), 1, Len(Chain(l)) - 1),
         locked'[l] <=> owner'[l] # NoJob,
         owner'[l] = NoJob => parentJobs'[l] = <<>>
  PROVE  GroupOK(l)'
<1> DEFINE c == Chain(l)
           n == Len(Chain(l))
           d == Chain(l)'
<1>1. c \in Seq(Jobs) /\ n \in Nat \ {0} /\ c[n] = owner[l]
  BY ChainElements
<1>2. Len(d) = n - 1 /\ \A i \in 1 .. n - 1 : d[i] = c[i]
  <2>1. \A i \in 1 .. n - 1 : c[i] \in Jobs
    BY <1>1, ElementOfSeq
  <2>2. d = SubSeq(c, 1, n - 1) /\ 1 \in Int /\ n - 1 \in Int
    BY <1>1
  <2> HIDE DEF c, d, n
  <2>3. /\ Len(d) = IF 1 <= n - 1 THEN (n - 1) - 1 + 1 ELSE 0
        /\ \A i \in 1 .. (n - 1) - 1 + 1 : d[i] = c[1 + i - 1]
    BY <2>1, <2>2, SubSeqProperties
  <2> QED
    BY <1>1, <2>3
<1>3. \A i, k \in 1 .. n : c[i] = c[k] => i = k
  BY DEF GroupOK, ChainHolds
<1>4. GroupLocked(l)'
  BY DEF GroupLocked
<1>5. ChainHolds(l)'
  <2>1. \A i \in 1 .. n - 1 : c[i] \in Holders(l) \ {owner[l]}
    <3>1. \A i \in 1 .. n : c[i] \in Holders(l)
      BY DEF GroupOK, ChainHolds
    <3> QED
      BY <1>1, <1>3, <3>1
  <2>2. \A i, k \in 1 .. n - 1 : c[i] = c[k] => i = k
    BY <1>1, <1>3
  <2>3. ASSUME NEW h \in Holders(l) \ {owner[l]}
        PROVE  \E i \in 1 .. n - 1 : c[i] = h
    <3>1. PICK i \in 1 .. n : c[i] = h
      BY DEF GroupOK, ChainHolds
    <3> QED
      BY <1>1, <3>1
  <2>4. /\ \A i \in 1 .. Len(d) : d[i] \in Holders(l)'
        /\ \A i, k \in 1 .. Len(d) : d[i] = d[k] => i = k
        /\ \A h \in Holders(l)' : \E i \in 1 .. Len(d) : d[i] = h
    <3> HIDE DEF c, n, d
    <3> QED
      BY <1>2, <2>1, <2>2, <2>3
  <2> QED
    BY <2>4 DEF ChainHolds
<1>6. ChainAwaits(l)'
  <2> SUFFICES ASSUME NEW i \in 1 .. n - 2
               PROVE  /\ awaiting'[d[i]] = {d[i + 1]}
                      /\ todo'[d[i]] = {}
                      /\ parent'[d[i + 1]] = d[i]
    <3>1. Len(d) - 1 = n - 2
      BY <1>1, <1>2
    <3> HIDE DEF n
    <3> QED
      BY <3>1 DEF ChainAwaits
  <2>1. i \in 1 .. n /\ i + 1 \in 1 .. n /\ i \in 1 .. n - 1 /\ i + 1 \in 1 .. n - 1
    BY <1>1
  <2> DEFINE p == c[i]
             k == c[i + 1]
  <2>2. p \in Jobs /\ k \in Jobs /\ pc[p] = "running" /\ pc[k] = "running"
    BY <2>1, ChainElements
  <2>3. awaiting[p] = {k} /\ todo[p] = {} /\ parent[k] = p
    BY <2>1 DEF GroupOK, ChainAwaits
  <2>4. awaiting'[p] = {k} /\ todo'[p] = {} /\ parent'[k] = p
    BY <2>2, <2>3 DEF WaitsKept
  <2>5. d[i] = p /\ d[i + 1] = k
    BY <1>2, <2>1
  <2> QED
    BY <2>4, <2>5
<1> QED
  BY <1>4, <1>5, <1>6 DEF GroupOK

-----------------------------------------------------------------------------
(* The steps: who waits, who runs, who holds                               *)

(* While a method awaits a call nothing else of it changes: Job.wrapper    *)
(* and asyncio.gather give it the control back only afterwards.            *)
LEMMA StepWaits == JobsAssumption /\ TypeOK /\ [Next]_vars => WaitsKept
<1> SUFFICES ASSUME JobsAssumption, TypeOK, [Next]_vars,
                    NEW q \in Jobs, NEW k \in Jobs,
                    pc[q] = "running", pc[k] = "running",
                    awaiting[q] = {k}, todo[q] = {}
             PROVE  awaiting'[q] = {k} /\ todo'[q] = {} /\ parent'[k] = parent[k]
  BY DEF WaitsKept
<1> USE DEF callVars, bodyVars, lockVars
<1>1. ~Resumable(q)
  BY DEF Resumable
<1>2. ASSUME NEW j \in Jobs, NEW m \in Methods, Call(j, m) \/ ScheduleJob(j, m)
      PROVE  awaiting'[q] = {k} /\ todo'[q] = {} /\ parent'[k] = parent[k]
  BY <1>2 DEF Call, ScheduleJob, NewJob, TypeOK
<1>3. ASSUME NEW p \in Jobs, NEW j \in Jobs, NEW m \in Methods,
             Await(p, j, m) \/ StartGathered(p, j, m)
      PROVE  awaiting'[q] = {k} /\ todo'[q] = {} /\ parent'[k] = parent[k]
  <2>1. p # q
    BY <1>1, <1>3 DEF Await, StartGathered
  <2> QED
    BY <1>3, <2>1 DEF Await, StartGathered, NewJob, TypeOK
<1>4. ASSUME NEW p \in Jobs, BeginGather(p)
      PROVE  awaiting'[q] = {k} /\ todo'[q] = {} /\ parent'[k] = parent[k]
  <2>1. p # q
    BY <1>1, <1>4 DEF BeginGather
  <2> QED
    BY <1>4, <2>1 DEF BeginGather, TypeOK
<1>5. ASSUME NEW j \in Jobs, Wrapper(j) \/ CancelWait(j) \/ Return(j) \/ ApiRemoveJob(j)
      PROVE  awaiting'[q] = {k} /\ todo'[q] = {} /\ parent'[k] = parent[k]
  <2>1. UNCHANGED <<parent, awaiting, todo>>
    BY <1>5 DEF Wrapper, RunScheduled, Enter, EnterThrottled, ConditionFails, Reject,
                Enqueue, Wake, WakeThrottled, CancelWait, Return, Finish, ApiRemoveJob,
                Start
  <2> QED
    BY <2>1
<1>6. ASSUME NEW j \in Jobs, Forget(j)
      PROVE  awaiting'[q] = {k} /\ todo'[q] = {} /\ parent'[k] = parent[k]
  BY <1>6 DEF Forget, TypeOK
<1>7. CASE UNCHANGED vars
  BY <1>7 DEF vars
<1>8. CASE Next
  BY <1>2, <1>3, <1>4, <1>5, <1>6, <1>8 DEF Next
<1> QED
  BY <1>7, <1>8

\* No call takes or releases a lock, begins or ends to run.
QuietStep ==
  /\ UNCHANGED <<owner, parentJobs, locked>>
  /\ \A j \in Jobs : /\ pc'[j] = "running" <=> pc[j] = "running"
                     /\ pc[j] = "running" => method'[j] = method[j]

QuietAction(j) ==
  \/ \E m \in Methods : Call(j, m) \/ ScheduleJob(j, m)
  \/ \E p \in Jobs, m \in Methods : Await(p, j, m) \/ StartGathered(p, j, m)
  \/ BeginGather(j)
  \/ RunScheduled(j) \/ EnterThrottled(j) \/ ConditionFails(j)
  \/ Reject(j) \/ Enqueue(j) \/ WakeThrottled(j)
  \/ CancelWait(j) \/ ApiRemoveJob(j) \/ Forget(j)

(* Calls that are made, refused, queued, cancelled, cleaned up or throttled*)
(* leave the locks as they are.                                            *)
LEMMA QuietActions ==
  ASSUME TypeOK, NEW j \in Jobs, QuietAction(j)
  PROVE  QuietStep
<1> USE DEF callVars, bodyVars, lockVars, TypeOK
<1>1. CASE \E m \in Methods : Call(j, m) \/ ScheduleJob(j, m)
  BY <1>1 DEF Call, ScheduleJob, NewJob, QuietStep
<1>2. CASE \E p \in Jobs, m \in Methods : Await(p, j, m) \/ StartGathered(p, j, m)
  BY <1>2 DEF Await, StartGathered, NewJob, QuietStep
<1>3. CASE BeginGather(j) \/ RunScheduled(j) \/ Enqueue(j) \/ ApiRemoveJob(j) \/ Forget(j)
  BY <1>3 DEF BeginGather, RunScheduled, Enqueue, ApiRemoveJob, Forget, QuietStep
<1>4. CASE EnterThrottled(j) \/ ConditionFails(j) \/ Reject(j)
  BY <1>4 DEF EnterThrottled, ConditionFails, Reject, Leave, QuietStep
<1>5. CASE WakeThrottled(j)
  BY <1>5 DEF WakeThrottled, Woken, Leave, QuietStep
<1>6. CASE CancelWait(j)
  BY <1>6 DEF CancelWait, Leave, QuietStep
<1> QED
  BY <1>1, <1>2, <1>3, <1>4, <1>5, <1>6 DEF QuietAction

(* Those steps keep every lock accounted for.                              *)
LEMMA QuietLocks ==
  ASSUME JobsAssumption, TypeOK, LocksOK, WaitsKept, QuietStep
  PROVE  LocksOK'
<1>1. \A l : Holders(l)' = Holders(l)
  BY DEF Holders, QuietStep, Mode, Lock
<1>2. ASSUME NEW l \in GroupLocks
      PROVE  GroupOK(l)'
  <2>1. GroupOK(l)
    BY DEF LocksOK
  <2>2. owner'[l] = owner[l] /\ parentJobs'[l] = parentJobs[l] /\ locked'[l] = locked[l]
    BY DEF QuietStep
  <2> QED
    BY <1>1, <2>1, <2>2, QuietGroup
<1>3. ASSUME NEW l \in Locks \ GroupLocks
      PROVE  OwnOK(l)'
  BY <1>1 DEF LocksOK, OwnOK, QuietStep
<1> QED
  BY <1>2, <1>3 DEF LocksOK

(* Which kind of lock a method uses.                                       *)
LEMMA LockKinds ==
  ASSUME JobsAssumption, LockKindAssumption, NEW j \in Jobs, method[j] \in Methods
  PROVE  /\ Lock(j) \in Locks
         /\ InGroup(j) => Lock(j) \in GroupLocks /\ Mode(j) # "none"
         /\ ~InGroup(j) /\ Mode(j) # "none" => Lock(j) \notin GroupLocks
BY DEF JobsAssumption, LockKindAssumption, Lock, InGroup, IsGroup, Mode, GroupLocks

(* A call that starts joins the holders of its lock.                       *)
LEMMA StartHolders ==
  ASSUME TypeOK, NEW j \in Jobs, Start(j), pc[j] # "running"
  PROVE  /\ \A l : j \notin Holders(l)
         /\ \A l : Holders(l)' = IF Mode(j) # "none" /\ Lock(j) = l
                                  THEN Holders(l) \cup {j} ELSE Holders(l)
BY DEF TypeOK, Start, Holders, Mode, Lock, callVars

(* A call that takes its lock when nobody holds it (JobGroup.acquire or    *)
(* the decorator's lock, at once or after it waited).                      *)
LEMMA FreshLocks ==
  ASSUME JobsAssumption, LockKindAssumption, TypeOK, LocksOK, WaitsKept,
         NEW j \in Jobs, pc[j] \in {"called", "waiting"}, Mode(j) # "none",
         ~locked[Lock(j)], TakeOwnership(j, FALSE), Start(j),
         locked' = [locked EXCEPT ![Lock(j)] = TRUE]
  PROVE  LocksOK'
<1>1. method[j] \in Methods /\ pc[j] # "running"
  BY DEF TypeOK
<1>2. PICK L \in Locks : L = Lock(j)
  BY <1>1, LockKinds
<1>3. /\ j \notin Holders(L)
      /\ Holders(L)' = Holders(L) \cup {j}
      /\ \A l : l # L => Holders(l)' = Holders(l)
  BY <1>1, <1>2, StartHolders
<1>4. \A l \in Locks : l # L =>
        owner'[l] = owner[l] /\ parentJobs'[l] = parentJobs[l] /\ locked'[l] = locked[l]
  BY <1>2 DEF TakeOwnership, TypeOK
<1>5. locked'[L] = TRUE
  BY <1>2 DEF TypeOK
<1>6. ASSUME NEW l \in GroupLocks
      PROVE  GroupOK(l)'
  <2>1. l \in Locks /\ GroupOK(l)
    BY GroupLocksAreLocks DEF LocksOK
  <2>2. CASE l # L
    BY <1>3, <1>4, <2>1, <2>2, QuietGroup
  <2>3. CASE l = L
    <3>1. InGroup(j)
      BY <1>1, <1>2, <2>3, LockKinds
    <3>2. owner[L] = NoJob /\ parentJobs[L] = <<>>
      BY <1>2, <2>1, <2>3 DEF GroupOK, GroupLocked
    <3>3. owner'[L] = j /\ parentJobs'[L] = <<>>
      BY <1>2, <3>1, <3>2 DEF TakeOwnership, TypeOK
    <3>4. Chain(L) = <<>> /\ Chain(L)' = Append(Chain(L), j)
      BY <3>2, <3>3 DEF Chain, JobsAssumption
    <3> QED
      BY <1>3, <1>5, <2>1, <2>3, <3>2, <3>3, <3>4, GroupPush
  <2> QED
    BY <2>2, <2>3
<1>7. ASSUME NEW l \in Locks \ GroupLocks
      PROVE  OwnOK(l)'
  <2>1. OwnOK(l)
    BY DEF LocksOK
  <2>2. CASE l # L
    BY <1>3, <1>4, <2>1, <2>2 DEF OwnOK
  <2>3. CASE l = L
    <3>1. Holders(L) = {}
      BY <1>2, <2>1, <2>3 DEF OwnOK
    <3> QED
      BY <1>3, <1>5, <2>3, <3>1 DEF OwnOK
  <2> QED
    BY <2>2, <2>3
<1> QED
  BY <1>6, <1>7 DEF LocksOK

(* A call enters: with no lock, on top of its caller, or first.            *)
LEMMA EnterLocks ==
  ASSUME JobsAssumption, LockKindAssumption, GatherAssumption, IInv, WaitsKept,
         NEW j \in Jobs, Enter(j)
  PROVE  LocksOK'
<1>1. /\ TypeOK /\ LocksOK /\ Awaited
      /\ pc[j] = "called" /\ method[j] \in Methods /\ Start(j) /\ Admitted(j)
      /\ UNCHANGED <<method, parent, awaiting, todo>>
  BY DEF IInv, Enter, Start, TypeOK, callVars, bodyVars
<1>0. PICK L \in Locks : L = Lock(j)
  BY <1>1, LockKinds
<1>2. CASE Mode(j) = "none"
  <2>1. ~InGroup(j)
    BY <1>2 DEF Mode, InGroup, IsGroup
  <2>2. UNCHANGED <<owner, parentJobs, locked>>
    BY <1>2, <2>1 DEF Enter, TakeOwnership
  <2>3. \A l : Holders(l)' = Holders(l)
    BY <1>1, <1>2, StartHolders
  <2>4. ASSUME NEW l \in GroupLocks
        PROVE  GroupOK(l)'
    <3>1. GroupOK(l)
      BY <1>1 DEF LocksOK
    <3> QED
      BY <1>1, <2>2, <2>3, <3>1, QuietGroup
  <2>5. ASSUME NEW l \in Locks \ GroupLocks
        PROVE  OwnOK(l)'
    BY <1>1, <2>2, <2>3 DEF LocksOK, OwnOK
  <2> QED
    BY <2>4, <2>5 DEF LocksOK
<1>3. CASE InGroup(j) /\ HasLock(j)
  <2>1. L \in GroupLocks /\ L \in Locks /\ Mode(j) # "none"
    BY <1>0, <1>1, <1>3, LockKinds
  <2>2. GroupOK(L)
    BY <1>0, <1>1, <2>1 DEF LocksOK
  <2>3. parent[j] = owner[L] /\ owner[L] # NoJob /\ owner[L] \in Jobs
    BY <1>0, <1>1, <1>3, <2>1 DEF HasLock, TypeOK
  <2>4. owner[L] \in Holders(L)
    BY <1>0, <1>1, <2>1, <2>2, <2>3, ChainElements DEF GroupOK, ChainHolds
  <2>5. awaiting[owner[L]] = {j} /\ todo[owner[L]] = {}
    <3> DEFINE p == owner[L]
    <3>1. p \in Jobs /\ method[p] \in Methods /\ Lock(p) = L
      BY <1>0, <1>1, <2>4 DEF Holders, TypeOK
    <3>2. InGroup(p)
      BY <2>1, <2>4, <3>1, LockKinds DEF Holders
    <3>3. method[j] \notin gathers[method[p]]
      BY <1>0, <1>3, <3>1, <3>2 DEF GatherAssumption, InGroup, Lock
    <3> QED
      BY <1>0, <1>1, <2>3, <3>3 DEF Awaited
  <2>6. owner' = [owner EXCEPT ![L] = j] /\ locked' = locked
        /\ parentJobs' = [parentJobs EXCEPT ![L] = Append(parentJobs[L], owner[L])]
    BY <1>0, <1>3 DEF Enter, TakeOwnership
  <2>7. /\ j \notin Holders(L)
        /\ Holders(L)' = Holders(L) \cup {j}
        /\ \A l : l # L => Holders(l)' = Holders(l)
    BY <1>0, <1>1, <2>1, StartHolders
  <2>8. ASSUME NEW l \in GroupLocks
        PROVE  GroupOK(l)'
    <3>1. l \in Locks /\ GroupOK(l)
      BY <1>0, <1>1, GroupLocksAreLocks DEF LocksOK
    <3>2. CASE l # L
      <4>1. owner'[l] = owner[l] /\ parentJobs'[l] = parentJobs[l] /\ locked'[l] = locked[l]
        BY <1>0, <1>1, <2>6, <3>1, <3>2 DEF TypeOK
      <4> QED
        BY <1>0, <1>1, <2>7, <3>1, <3>2, <4>1, QuietGroup
    <3>3. CASE l = L
      <4>1. owner'[L] = j /\ parentJobs'[L] = Append(parentJobs[L], owner[L])
        BY <1>0, <1>1, <2>1, <2>6 DEF TypeOK
      <4>2. Chain(L)' = Append(Chain(L), j)
        BY <1>0, <1>1, <2>1, <2>3, <4>1, ChainPush
      <4>3. locked'[L] = TRUE
        BY <1>0, <1>1, <2>1, <2>2, <2>3, <2>6 DEF GroupOK, GroupLocked, TypeOK
      <4>4. awaiting'[owner[L]] = {j} /\ todo'[owner[L]] = {} /\ parent'[j] = owner[L]
        BY <1>0, <1>1, <2>3, <2>5
      <4> QED
        BY <1>0, <1>1, <2>1, <2>2, <2>7, <3>3, <4>1, <4>2, <4>3, <4>4, GroupPush
    <3> QED
      BY <3>2, <3>3
  <2>9. ASSUME NEW l \in Locks \ GroupLocks
        PROVE  OwnOK(l)'
    BY <1>0, <1>1, <2>1, <2>6, <2>7 DEF LocksOK, OwnOK
  <2> QED
    BY <2>8, <2>9 DEF LocksOK
<1>4. CASE Mode(j) # "none" /\ ~(InGroup(j) /\ HasLock(j))
  <2>1. ~locked[L]
    BY <1>0, <1>1, <1>4 DEF Admitted, LockFree
  <2>2. TakeOwnership(j, FALSE)
    BY <1>0, <1>4 DEF Enter, TakeOwnership
  <2>3. locked' = [locked EXCEPT ![L] = TRUE]
    BY <1>0, <1>4 DEF Enter
  <2> QED
    BY <1>0, <1>1, <1>4, <2>1, <2>2, <2>3, FreshLocks
<1> QED
  BY <1>2, <1>3, <1>4

(* A waiting call is woken.                                                *)
LEMMA WakeLocks ==
  ASSUME JobsAssumption, LockKindAssumption, IInv, WaitsKept, NEW j \in Jobs, Wake(j)
  PROVE  LocksOK'
<1>1. TypeOK /\ LocksOK /\ pc[j] = "waiting" /\ Mode(j) # "none" /\ ~locked[Lock(j)]
  BY DEF IInv, Wake, Woken, WaitersLock
<1>2. /\ TakeOwnership(j, FALSE) /\ Start(j)
      /\ locked' = [locked EXCEPT ![Lock(j)] = TRUE]
  BY DEF Wake
<1> QED
  BY <1>1, <1>2, FreshLocks

(* A call that ends to run leaves the holders of its lock.                 *)
LEMMA FinishHolders ==
  ASSUME TypeOK, NEW j \in Jobs, NEW o, Finish(j, o)
  PROVE  \A l : Holders(l)' = Holders(l) \ {j}
<1>1. pc' = [pc EXCEPT ![j] = "ended"] /\ UNCHANGED method
  BY DEF Finish, Leave, callVars
<1> QED
  BY <1>1 DEF TypeOK, Holders, Mode, Lock

(* A call ends: only the innermost call of a group can, release() finds    *)
(* it, and hands the group to the call that waits for it or frees it.      *)
LEMMA FinishLocks ==
  ASSUME JobsAssumption, LockKindAssumption, IInv, WaitsKept,
         NEW j \in Jobs, NEW o \in {"ok", "raised"}, Finish(j, o)
  PROVE  LocksOK'
<1>1. /\ TypeOK /\ LocksOK /\ Release(j)
      /\ pc[j] = "running" /\ method[j] \in Methods
  BY DEF IInv, Finish, Resumable, GatherFailed, TypeOK
<1>2. PICK L \in Locks : L = Lock(j)
  BY <1>1, LockKinds
<1>3. \A l : Holders(l)' = Holders(l) \ {j}
  BY <1>1, FinishHolders
<1>4. \A l : l # L => Holders(l)' = Holders(l)
  BY <1>2, <1>3 DEF Holders
<1>5. ASSUME NEW l \in GroupLocks, Holders(l)' = Holders(l),
             owner'[l] = owner[l], parentJobs'[l] = parentJobs[l], locked'[l] = locked[l]
      PROVE  GroupOK(l)'
  BY <1>1, <1>5, QuietGroup DEF LocksOK
<1>6. CASE InGroup(j)
  <2>1. L \in GroupLocks /\ Mode(j) # "none" /\ ReleaseGroup(j)
    BY <1>1, <1>2, <1>6, LockKinds DEF Release
  <2>2. GroupOK(L)
    BY <1>1, <2>1 DEF LocksOK
  <2>3. PICK i \in 1 .. Len(Chain(L)) : Chain(L)[i] = j
    BY <1>1, <1>2, <2>1, <2>2 DEF GroupOK, ChainHolds, Holders
  <2>4. Chain(L) \in Seq(Jobs) /\ Len(Chain(L)) \in Nat
    BY <1>1, <2>1, <2>2, ChainElements
  <2>5. i = Len(Chain(L))
    <3> SUFFICES ASSUME i # Len(Chain(L))
                 PROVE  FALSE
      OBVIOUS
    <3>1. i \in 1 .. Len(Chain(L)) - 1 /\ i + 1 \in 1 .. Len(Chain(L))
      BY <2>4
    <3>2. PICK k : k = Chain(L)[i + 1]
      OBVIOUS
    <3>3. pc[k] = "running"
      BY <1>1, <2>1, <2>2, <3>1, <3>2, ChainElements
    <3>4. awaiting[j] = {k}
      BY <2>2, <2>3, <3>1, <3>2 DEF GroupOK, ChainAwaits
    <3> QED
      BY <3>3, <3>4 DEF Finish, Resumable, GatherFailed
  <2>6. owner[L] = j /\ owner[L] # NoJob
    <3>1. owner[L] # NoJob
      BY <1>1, <2>3, <2>4, ChainSeq, EmptySeq
    <3> QED
      BY <1>1, <2>1, <2>2, <2>3, <2>5, <3>1, ChainElements
  <2>7. parentJobs[L] \in Seq(Jobs) /\ Len(parentJobs[L]) \in Nat
    BY <1>1 DEF TypeOK
  <2>8. \/ /\ Len(parentJobs[L]) > 0
           /\ owner' = [owner EXCEPT ![L] = parentJobs[L][Len(parentJobs[L])]]
           /\ parentJobs' = [parentJobs EXCEPT ![L] =
                               SubSeq(parentJobs[L], 1, Len(parentJobs[L]) - 1)]
           /\ locked' = locked
        \/ /\ Len(parentJobs[L]) = 0
           /\ owner' = [owner EXCEPT ![L] = NoJob]
           /\ parentJobs' = parentJobs
           /\ locked' = [locked EXCEPT ![L] = FALSE]
    BY <1>2, <2>1, <2>6, <2>7 DEF ReleaseGroup
  <2>9. Chain(L)' = SubSeq(Chain(L), 1, Len(Chain(L)) - 1)
    <3>1. \/ /\ Len(parentJobs[L]) > 0
             /\ owner'[L] = parentJobs[L][Len(parentJobs[L])]
             /\ parentJobs'[L] = SubSeq(parentJobs[L], 1, Len(parentJobs[L]) - 1)
          \/ /\ Len(parentJobs[L]) = 0
             /\ owner'[L] = NoJob
      BY <1>1, <2>8 DEF TypeOK
    <3> QED
      BY <1>1, <2>6, <3>1, ChainPop
  <2>10. /\ locked'[L] <=> owner'[L] # NoJob
         /\ owner'[L] = NoJob => parentJobs'[L] = <<>>
    <3>1. CASE Len(parentJobs[L]) > 0
      <4>1. parentJobs[L][Len(parentJobs[L])] \in Jobs
        BY <2>7, <3>1, ElementOfSeq
      <4>2. owner'[L] \in Jobs /\ locked'[L] = locked[L]
        BY <1>1, <2>8, <3>1, <4>1 DEF TypeOK
      <4> QED
        BY <2>2, <2>6, <4>2 DEF GroupOK, GroupLocked, JobsAssumption
    <3>2. CASE Len(parentJobs[L]) = 0
      <4>1. owner'[L] = NoJob /\ parentJobs'[L] = parentJobs[L] /\ locked'[L] = FALSE
        BY <1>1, <2>8, <3>2 DEF TypeOK
      <4>2. parentJobs[L] = <<>>
        BY <2>7, <3>2, EmptySeq
      <4> QED
        BY <4>1, <4>2
    <3> QED
      BY <2>7, <3>1, <3>2
  <2>11. ASSUME NEW l \in GroupLocks
         PROVE  GroupOK(l)'
    <3>1. CASE l = L
      BY <1>1, <1>3, <2>1, <2>2, <2>6, <2>9, <2>10, <3>1, GroupPop
    <3>2. CASE l # L
      BY <1>1, <1>4, <1>5, <2>8, <3>2, GroupLocksAreLocks DEF TypeOK
    <3> QED
      BY <3>1, <3>2
  <2>12. ASSUME NEW l \in Locks \ GroupLocks
         PROVE  OwnOK(l)'
    <3>1. l # L
      BY <2>1
    <3>2. locked'[l] = locked[l]
      BY <1>1, <2>8, <3>1 DEF TypeOK
    <3> QED
      BY <1>1, <1>4, <3>1, <3>2 DEF LocksOK, OwnOK
  <2> QED
    BY <2>11, <2>12 DEF LocksOK
<1>7. CASE ~InGroup(j)
  <2>1. owner' = owner /\ parentJobs' = parentJobs
    BY <1>1, <1>7 DEF Release
  <2>2. CASE Mode(j) = "none"
    <3>1. locked' = locked
      BY <1>1, <1>7, <2>2 DEF Release
    <3>2. \A l : Holders(l)' = Holders(l)
      BY <1>3, <2>2 DEF Holders
    <3>3. ASSUME NEW l \in GroupLocks
          PROVE  GroupOK(l)'
      BY <1>5, <2>1, <3>1, <3>2
    <3>4. ASSUME NEW l \in Locks \ GroupLocks
          PROVE  OwnOK(l)'
      BY <1>1, <3>1, <3>2 DEF LocksOK, OwnOK
    <3> QED
      BY <3>3, <3>4 DEF LocksOK
  <2>3. CASE Mode(j) # "none"
    <3>1. L \notin GroupLocks
      BY <1>1, <1>2, <1>7, <2>3, LockKinds
    <3>2. locked' = [locked EXCEPT ![L] = FALSE]
      BY <1>1, <1>2, <1>7, <2>3 DEF Release
    <3>3. ASSUME NEW l \in GroupLocks
          PROVE  GroupOK(l)'
      BY <1>1, <1>4, <1>5, <2>1, <3>1, <3>2, GroupLocksAreLocks DEF TypeOK
    <3>4. ASSUME NEW l \in Locks \ GroupLocks
          PROVE  OwnOK(l)'
      <4>1. OwnOK(l)
        BY <1>1 DEF LocksOK
      <4>2. CASE l # L
        BY <1>1, <1>4, <3>2, <4>1, <4>2 DEF OwnOK, TypeOK
      <4>3. CASE l = L
        <5>1. j \in Holders(L)
          BY <1>1, <1>2, <2>3 DEF Holders
        <5>2. Holders(L)' = {}
          BY <1>3, <4>1, <4>3, <5>1 DEF OwnOK
        <5>3. locked'[L] = FALSE
          BY <1>1, <3>2 DEF TypeOK
        <5> QED
          BY <4>3, <5>2, <5>3 DEF OwnOK
      <4> QED
        BY <4>2, <4>3
    <3> QED
      BY <3>3, <3>4 DEF LocksOK
  <2> QED
    BY <2>2, <2>3
<1> QED
  BY <1>6, <1>7

-----------------------------------------------------------------------------
(* The steps: what a method awaits                                         *)

BodyOK == TodoOwn /\ Awaited /\ WaitersLock

(* Calls that a task without a current job makes have no parent.           *)
LEMMA CallBody ==
  ASSUME JobsAssumption, TypeOK, BodyOK, NEW j \in Jobs, NEW m \in Methods,
         Call(j, m) \/ ScheduleJob(j, m)
  PROVE  BodyOK'
<1>1. PICK place \in {"called", "scheduled"} : NewJob(j, m, NoJob, place)
  BY DEF Call, ScheduleJob
<1>2. /\ pc[j] = "unused"
      /\ method' = [method EXCEPT ![j] = m]
      /\ parent' = [parent EXCEPT ![j] = NoJob]
      /\ pc' = [pc EXCEPT ![j] = place]
      /\ UNCHANGED <<awaiting, todo>>
  BY <1>1 DEF NewJob, Call, ScheduleJob, bodyVars
<1>3. TodoOwn'
  BY <1>2 DEF BodyOK, TodoOwn, TypeOK
<1>4. Awaited'
  BY <1>2 DEF BodyOK, Awaited, TypeOK, JobsAssumption
<1>5. WaitersLock'
  BY <1>2 DEF BodyOK, WaitersLock, TypeOK, Mode
<1> QED
  BY <1>3, <1>4, <1>5 DEF BodyOK

(* A method that awaits one call awaits it alone.                          *)
LEMMA AwaitBody ==
  ASSUME JobsAssumption, TypeOK, BodyOK, NEW p \in Jobs, NEW j \in Jobs, NEW m \in Methods,
         Await(p, j, m)
  PROVE  BodyOK'
<1>1. /\ pc[j] = "unused" /\ Resumable(p) /\ p # j
      /\ method' = [method EXCEPT ![j] = m]
      /\ parent' = [parent EXCEPT ![j] = p]
      /\ pc' = [pc EXCEPT ![j] = "called"]
      /\ awaiting' = [awaiting EXCEPT ![p] = {j}]
      /\ todo' = todo
  BY DEF Await, NewJob, Resumable
<1>2. TodoOwn'
  BY <1>1 DEF BodyOK, TodoOwn, TypeOK
<1>3. Awaited'
  <2> SUFFICES ASSUME NEW h \in Jobs, parent'[h] \in Jobs
               PROVE  /\ pc'[parent'[h]] # "unused" /\ pc'[h] # "scheduled"
                      /\ pc'[h] \in {"called", "waiting"} =>
                           /\ h \in awaiting'[parent'[h]]
                           /\ \/ method'[h] \in gathers[method'[parent'[h]]]
                              \/ awaiting'[parent'[h]] = {h} /\ todo'[parent'[h]] = {}
    BY DEF Awaited
  <2>1. CASE h = j
    BY <1>1, <2>1 DEF TypeOK, Resumable
  <2>2. CASE h # j
    <3>1. parent'[h] = parent[h] /\ pc'[h] = pc[h] /\ method'[h] = method[h]
      BY <1>1, <2>2 DEF TypeOK
    <3>2. pc[parent[h]] # "unused" /\ parent[h] # j
      BY <1>1, <3>1 DEF BodyOK, Awaited
    <3>3. pc[h] \in {"called", "waiting"} => parent[h] # p
      BY <1>1, <3>1 DEF BodyOK, Awaited, Resumable
    <3> QED
      BY <1>1, <3>1, <3>2, <3>3 DEF BodyOK, Awaited, TypeOK
  <2> QED
    BY <2>1, <2>2
<1>4. WaitersLock'
  BY <1>1 DEF BodyOK, WaitersLock, TypeOK, Mode
<1> QED
  BY <1>2, <1>3, <1>4 DEF BodyOK

(* A gathered call is one of the calls its method gathers.                 *)
LEMMA GatheredBody ==
  ASSUME JobsAssumption, TypeOK, BodyOK, NEW p \in Jobs, NEW j \in Jobs, NEW m \in Methods,
         StartGathered(p, j, m)
  PROVE  BodyOK'
<1>1. /\ pc[j] = "unused" /\ m \in todo[p]
      /\ method' = [method EXCEPT ![j] = m]
      /\ parent' = [parent EXCEPT ![j] = p]
      /\ pc' = [pc EXCEPT ![j] = "called"]
      /\ todo' = [todo EXCEPT ![p] = todo[p] \ {m}]
      /\ awaiting' = [awaiting EXCEPT ![p] = awaiting[p] \cup {j}]
  BY DEF StartGathered, NewJob
<1>2. pc[p] = "running" /\ todo[p] \subseteq gathers[method[p]] /\ p # j
  BY <1>1 DEF BodyOK, TodoOwn
<1>3. TodoOwn'
  <2> SUFFICES ASSUME NEW q \in Jobs, todo'[q] # {}
               PROVE  pc'[q] = "running" /\ todo'[q] \subseteq gathers[method'[q]]
    BY DEF TodoOwn
  <2>1. todo'[q] \subseteq todo[q] /\ todo[q] # {}
    BY <1>1 DEF TypeOK
  <2>2. pc[q] = "running" /\ todo[q] \subseteq gathers[method[q]]
    BY <2>1 DEF BodyOK, TodoOwn
  <2> QED
    BY <1>1, <2>1, <2>2 DEF TypeOK
<1>4. Awaited'
  <2> SUFFICES ASSUME NEW h \in Jobs, parent'[h] \in Jobs
               PROVE  /\ pc'[parent'[h]] # "unused" /\ pc'[h] # "scheduled"
                      /\ pc'[h] \in {"called", "waiting"} =>
                           /\ h \in awaiting'[parent'[h]]
                           /\ \/ method'[h] \in gathers[method'[parent'[h]]]
                              \/ awaiting'[parent'[h]] = {h} /\ todo'[parent'[h]] = {}
    BY DEF Awaited
  <2>1. CASE h = j
    BY <1>1, <1>2, <2>1 DEF TypeOK
  <2>2. CASE h # j
    <3>1. parent'[h] = parent[h] /\ pc'[h] = pc[h] /\ method'[h] = method[h]
      BY <1>1, <2>2 DEF TypeOK
    <3>2. pc[parent[h]] # "unused" /\ parent[h] # j /\ pc[h] # "scheduled"
      BY <1>1, <3>1 DEF BodyOK, Awaited
    <3>3. method'[parent[h]] = method[parent[h]] /\ pc'[parent[h]] = pc[parent[h]]
      BY <1>1, <3>1, <3>2 DEF TypeOK
    <3>4. ASSUME pc[h] \in {"called", "waiting"}
          PROVE  /\ h \in awaiting[parent[h]]
                 /\ \/ method[h] \in gathers[method[parent[h]]]
                    \/ awaiting[parent[h]] = {h} /\ todo[parent[h]] = {}
      BY <3>1, <3>4 DEF BodyOK, Awaited
    <3>5. CASE parent[h] = p
      BY <1>1, <3>1, <3>2, <3>3, <3>4, <3>5 DEF TypeOK
    <3>6. CASE parent[h] # p
      BY <1>1, <3>1, <3>2, <3>3, <3>4, <3>6 DEF TypeOK
    <3> QED
      BY <3>5, <3>6
  <2> QED
    BY <2>1, <2>2
<1>5. WaitersLock'
  BY <1>1 DEF BodyOK, WaitersLock, TypeOK, Mode
<1> QED
  BY <1>3, <1>4, <1>5 DEF BodyOK

(* gather begins when everything awaited before is over.                   *)
LEMMA BeginGatherBody ==
  ASSUME JobsAssumption, TypeOK, BodyOK, NEW p \in Jobs, BeginGather(p)
  PROVE  BodyOK'
<1>1. /\ Resumable(p)
      /\ todo' = [todo EXCEPT ![p] = gathers[method[p]]]
      /\ awaiting' = [awaiting EXCEPT ![p] = {}]
      /\ UNCHANGED <<method, parent, pc>>
  BY DEF BeginGather, callVars
<1>2. TodoOwn'
  BY <1>1 DEF BodyOK, TodoOwn, TypeOK, Resumable
<1>3. Awaited'
  <2>1. ASSUME NEW h \in Jobs, parent[h] = p
        PROVE  pc[h] \notin {"called", "waiting"}
    BY <1>1, <2>1 DEF BodyOK, Awaited, Resumable
  <2> QED
    BY <1>1, <2>1 DEF BodyOK, Awaited, TypeOK
<1>4. WaitersLock'
  BY <1>1 DEF BodyOK, WaitersLock, Mode
<1> QED
  BY <1>2, <1>3, <1>4 DEF BodyOK

(* A call that enters, waits or leaves changes its own place only.         *)
LEMMA PlaceBody ==
  ASSUME JobsAssumption, TypeOK, BodyOK, NEW j \in Jobs,
         NEW place \in {"called", "waiting", "running", "ended"},
         pc' = [pc EXCEPT ![j] = place],
         UNCHANGED <<method, parent, awaiting, todo>>,
         pc[j] = "running" => todo[j] = {},
         place = "called" => parent[j] \notin Jobs,
         place = "waiting" => pc[j] = "called" /\ Mode(j) # "none"
  PROVE  BodyOK'
<1>1. TodoOwn'
  BY DEF BodyOK, TodoOwn, TypeOK
<1>2. Awaited'
  <2> SUFFICES ASSUME NEW h \in Jobs, parent[h] \in Jobs
               PROVE  /\ pc'[parent[h]] # "unused" /\ pc'[h] # "scheduled"
                      /\ pc'[h] \in {"called", "waiting"} =>
                           /\ h \in awaiting[parent[h]]
                           /\ \/ method[h] \in gathers[method[parent[h]]]
                              \/ awaiting[parent[h]] = {h} /\ todo[parent[h]] = {}
    BY DEF Awaited
  <2>1. pc[parent[h]] # "unused" /\ pc[h] # "scheduled"
    BY DEF BodyOK, Awaited
  <2>2. pc'[h] \in {"called", "waiting"} => pc[h] \in {"called", "waiting"}
    BY DEF TypeOK
  <2> QED
    BY <2>1, <2>2 DEF BodyOK, Awaited, TypeOK
<1>3. WaitersLock'
  BY DEF BodyOK, WaitersLock, TypeOK, Mode
<1> QED
  BY <1>1, <1>2, <1>3 DEF BodyOK

(* Only a job nothing refers to is forgotten.                              *)
LEMMA ForgetBody ==
  ASSUME JobsAssumption, TypeOK, BodyOK, NEW j \in Jobs, Forget(j)
  PROVE  BodyOK'
<1>1. /\ todo[j] = {} /\ pc[j] = "ended"
      /\ \A k \in Jobs : parent[k] # j
      /\ method' = [method EXCEPT ![j] = NoMethod]
      /\ parent' = [parent EXCEPT ![j] = NoJob]
      /\ pc' = [pc EXCEPT ![j] = "unused"]
      /\ awaiting' = [k \in Jobs |-> IF k = j THEN {} ELSE awaiting[k] \ {j}]
      /\ todo' = todo
  BY DEF Forget
<1>2. TodoOwn'
  BY <1>1 DEF BodyOK, TodoOwn, TypeOK
<1>3. Awaited'
  <2> SUFFICES ASSUME NEW h \in Jobs, parent'[h] \in Jobs
               PROVE  /\ pc'[parent'[h]] # "unused" /\ pc'[h] # "scheduled"
                      /\ pc'[h] \in {"called", "waiting"} =>
                           /\ h \in awaiting'[parent'[h]]
                           /\ \/ method'[h] \in gathers[method'[parent'[h]]]
                              \/ awaiting'[parent'[h]] = {h} /\ todo'[parent'[h]] = {}
    BY DEF Awaited
  <2>1. h # j /\ parent'[h] = parent[h] /\ parent[h] # j
    BY <1>1 DEF TypeOK, JobsAssumption
  <2>2. pc'[h] = pc[h] /\ method'[h] = method[h] /\ method'[parent[h]] = method[parent[h]]
        /\ pc'[parent[h]] = pc[parent[h]]
    BY <1>1, <2>1 DEF TypeOK
  <2>3. awaiting'[parent[h]] = awaiting[parent[h]] \ {j} /\ todo'[parent[h]] = todo[parent[h]]
    BY <1>1, <2>1
  <2>4. /\ pc[parent[h]] # "unused" /\ pc[h] # "scheduled"
        /\ pc[h] \in {"called", "waiting"} =>
             /\ h \in awaiting[parent[h]]
             /\ \/ method[h] \in gathers[method[parent[h]]]
                \/ awaiting[parent[h]] = {h} /\ todo[parent[h]] = {}
    BY <2>1 DEF BodyOK, Awaited
  <2> QED
    BY <2>1, <2>2, <2>3, <2>4
<1>4. WaitersLock'
  BY <1>1 DEF BodyOK, WaitersLock, TypeOK, Mode
<1> QED
  BY <1>2, <1>3, <1>4 DEF BodyOK

(* Every step keeps what is known of calls that are awaited.               *)
LEMMA StepBody ==
  ASSUME JobsAssumption, TypeOK, BodyOK, [Next]_vars
  PROVE  BodyOK'
<1> USE DEF callVars, bodyVars, lockVars
<1>1. ASSUME NEW j \in Jobs, RunScheduled(j)
      PROVE  BodyOK'
  <2>1. pc[j] = "scheduled" /\ parent[j] \notin Jobs
    BY <1>1 DEF RunScheduled, BodyOK, Awaited
  <2> QED
    BY <1>1, <2>1, PlaceBody DEF RunScheduled
<1>2. ASSUME NEW j \in Jobs, pc[j] \in {"called", "waiting"}, Start(j)
      PROVE  BodyOK'
  BY <1>2, PlaceBody DEF Start
<1>3. ASSUME NEW j \in Jobs, Enter(j) \/ Wake(j)
      PROVE  BodyOK'
  BY <1>2, <1>3 DEF Enter, Wake, Woken
<1>4. ASSUME NEW j \in Jobs, NEW dn, NEW o, Leave(j, dn, o),
             pc[j] = "running" => todo[j] = {},
             UNCHANGED <<method, parent, awaiting, todo>>
      PROVE  BodyOK'
  BY <1>4, PlaceBody DEF Leave
<1>5. ASSUME NEW j \in Jobs,
             \/ EnterThrottled(j) \/ ConditionFails(j) \/ Reject(j)
             \/ WakeThrottled(j) \/ CancelWait(j) \/ Return(j)
      PROVE  BodyOK'
  <2>1. \E dn, o : Leave(j, dn, o)
    BY <1>5 DEF EnterThrottled, ConditionFails, Reject, WakeThrottled, CancelWait,
                Return, Finish
  <2>2. pc[j] = "running" => todo[j] = {}
    BY <1>5 DEF EnterThrottled, ConditionFails, Reject, WakeThrottled, Woken, CancelWait,
                Return, Finish, Resumable, GatherFailed
  <2>3. UNCHANGED <<method, parent, awaiting, todo>>
    BY <1>5 DEF EnterThrottled, ConditionFails, Reject, WakeThrottled, CancelWait,
                Return, Finish
  <2> QED
    BY <1>4, <2>1, <2>2, <2>3
<1>6. ASSUME NEW j \in Jobs, Enqueue(j)
      PROVE  BodyOK'
  <2>1. pc[j] = "called" /\ Mode(j) # "none"
    BY <1>6 DEF Enqueue, Admitted
  <2> QED
    BY <1>6, <2>1, PlaceBody DEF Enqueue
<1>7. ASSUME NEW j \in Jobs, ApiRemoveJob(j)
      PROVE  BodyOK'
  <2>1. UNCHANGED <<method, parent, pc, awaiting, todo>>
    BY <1>7 DEF ApiRemoveJob
  <2> QED
    BY <2>1 DEF BodyOK, TodoOwn, Awaited, WaitersLock, Mode
<1>8. CASE UNCHANGED vars
  BY <1>8 DEF vars, BodyOK, TodoOwn, Awaited, WaitersLock, Mode
<1>9. CASE Next
  BY <1>1, <1>3, <1>5, <1>6, <1>7, <1>9, CallBody, AwaitBody, GatheredBody, BeginGatherBody,
     ForgetBody DEF Next, Wrapper
<1> QED
  BY <1>8, <1>9

(* Every step keeps the locks accounted for.                               *)
LEMMA StepLocks ==
  ASSUME JobsAssumption, LockKindAssumption, GatherAssumption, IInv, [Next]_vars
  PROVE  LocksOK'
<1>1. TypeOK /\ LocksOK /\ WaitsKept
  BY StepWaits DEF IInv
<1>2. ASSUME NEW j \in Jobs, QuietAction(j)
      PROVE  LocksOK'
  BY <1>1, <1>2, QuietActions, QuietLocks
<1>3. ASSUME NEW j \in Jobs, Enter(j)
      PROVE  LocksOK'
  BY <1>1, <1>3, EnterLocks
<1>4. ASSUME NEW j \in Jobs, Wake(j)
      PROVE  LocksOK'
  BY <1>1, <1>4, WakeLocks
<1>5. ASSUME NEW j \in Jobs, NEW o \in {"ok", "raised"}, Finish(j, o)
      PROVE  LocksOK'
  BY <1>1, <1>5, FinishLocks
<1>6. CASE UNCHANGED vars
  <2>1. QuietStep
    BY <1>6 DEF vars, QuietStep
  <2> QED
    BY <1>1, <2>1, QuietLocks
<1>7. CASE Next
  <2>1. PICK j \in Jobs : QuietAction(j) \/ Enter(j) \/ Wake(j) \/ Return(j)
    BY <1>7 DEF Next, Wrapper, QuietAction
  <2> QED
    BY <1>2, <1>3, <1>4, <1>5, <2>1 DEF Return
<1> QED
  BY <1>6, <1>7

(* IInv is inductive.                                                      *)
LEMMA InitIInv ==
  ASSUME JobsAssumption, Init
  PROVE  IInv
<1>1. TypeOK
  BY InitTypes
<1>2. TodoOwn /\ Awaited /\ WaitersLock
  BY DEF Init, TodoOwn, Awaited, WaitersLock, JobsAssumption
<1>3. \A l \in Locks : Holders(l) = {} /\ Chain(l) = <<>> /\ owner[l] = NoJob
                       /\ parentJobs[l] = <<>> /\ locked[l] = FALSE
  BY DEF Init, Holders, Chain
<1>4. ASSUME NEW l \in GroupLocks
      PROVE  GroupOK(l)
  <2>1. l \in Locks
    BY GroupLocksAreLocks
  <2>2. Len(Chain(l)) = 0
    BY <1>3, <2>1
  <2> QED
    BY <1>3, <2>1, <2>2 DEF GroupOK, GroupLocked, ChainHolds, ChainAwaits
<1>5. ASSUME NEW l \in Locks \ GroupLocks
      PROVE  OwnOK(l)
  BY <1>3 DEF OwnOK
<1> QED
  BY <1>1, <1>2, <1>4, <1>5 DEF IInv, LocksOK

(* The inductive invariant holds in every reachable state.                 *)
THEOREM Invariance == Spec => []IInv
<1>1. Init => IInv
  BY JobsAssumption, InitIInv
<1>2. IInv /\ [Next]_vars => IInv'
  <2> SUFFICES ASSUME IInv, [Next]_vars
               PROVE  IInv'
    OBVIOUS
  <2>1. TypeOK /\ BodyOK
    BY DEF IInv, BodyOK
  <2>2. TypeOK' /\ BodyOK' /\ LocksOK'
    BY <2>1, JobsAssumption, LockKindAssumption, GatherAssumption, StepTypes, StepBody,
       StepLocks
  <2> QED
    BY <2>2 DEF IInv, BodyOK
<1> QED
  BY <1>1, <1>2, PTL DEF Spec

-----------------------------------------------------------------------------
(* What follows from the invariant                                         *)

(* "ensures locks are always released": a lock is held exactly while a     *)
(* call that went through it runs, and a group's owner and stack are those *)
(* calls, whatever ends them (JobGroup, Job._concurrency_control).         *)
THEOREM LocksHeld == Spec => []LocksAccountedFor
<1>1. IInv => LocksAccountedFor
  <2> SUFFICES ASSUME IInv, NEW l \in Locks
               PROVE  /\ locked[l] <=> Holders(l) # {}
                      /\ l \in GroupLocks =>
                           Holders(l) = {Chain(l)[i] : i \in DOMAIN Chain(l)}
    BY DEF LocksAccountedFor
  <2>1. CASE l \notin GroupLocks
    BY <2>1 DEF IInv, LocksOK, OwnOK
  <2>2. CASE l \in GroupLocks
    <3>1. TypeOK /\ GroupOK(l)
      BY <2>2 DEF IInv, LocksOK
    <3>2. Chain(l) \in Seq(Jobs) /\ DOMAIN Chain(l) = 1 .. Len(Chain(l))
      BY <2>2, <3>1, JobsAssumption, ChainElements, LenProperties
    <3>3. Holders(l) = {Chain(l)[i] : i \in DOMAIN Chain(l)}
      BY <3>1, <3>2 DEF GroupOK, ChainHolds
    <3>4. owner[l] = NoJob => DOMAIN Chain(l) = {}
      <4>1. ASSUME owner[l] = NoJob
            PROVE  Len(Chain(l)) = 0
        BY <4>1, EmptySeq DEF Chain
      <4> QED
        BY <3>2, <4>1
    <3>5. owner[l] # NoJob => Len(Chain(l)) \in DOMAIN Chain(l)
      BY <2>2, <3>1, <3>2, JobsAssumption, ChainElements
    <3>6. locked[l] <=> owner[l] # NoJob
      BY <3>1 DEF GroupOK, GroupLocked
    <3> QED
      BY <3>3, <3>4, <3>5, <3>6
  <2> QED
    BY <2>1, <2>2
<1> QED
  BY <1>1, Invariance, PTL

(* The calls of a chain are callers of the calls above them.               *)
LEMMA ChainAncestors ==
  ASSUME JobsAssumption, TypeOK, NEW l \in GroupLocks, GroupOK(l),
         NEW i \in 1 .. Len(Chain(l)), NEW k \in 1 .. Len(Chain(l)), i < k
  PROVE  Ancestor(Chain(l)[i], Chain(l)[k])
<1> SUFFICES ASSUME NEW C \in SUBSET Jobs,
                    \A h \in C \cup {Chain(l)[k]} : parent[h] \in Jobs => parent[h] \in C,
                    Chain(l)[i] \notin C
             PROVE  FALSE
  BY DEF Ancestor
<1> DEFINE c == Chain(l)
           n == Len(Chain(l))
           \* distances from the top of the calls that are not in C
           T == {d \in 1 .. k - i : c[k - d] \notin C}
           R == {xy \in Nat \X Nat : xy[1] < xy[2]}
<1>1. n \in Nat /\ \A h \in 1 .. n : c[h] \in Jobs
  BY ChainElements
<1>2. k - i \in T
  BY <1>1
<1>3. IsWellFoundedOn(R, Nat)
  BY NatLessThanWellFounded DEF R, OpToRel
<1>4. PICK d \in T : \A e \in T : ~ (<<e, d>> \in R)
  <2>1. T \subseteq Nat
    BY <1>1
  <2>2. T # {}
    BY <1>2
  <2> HIDE DEF T, R
  <2> QED
    BY <1>3, <2>1, <2>2, WFMin
<1>5. d \in 1 .. k - i /\ c[k - d] \notin C
  OBVIOUS
<1>6. c[k - d + 1] \in C \cup {c[k]}
  <2>1. CASE d = 1
    BY <1>1, <1>5, <2>1
  <2>2. CASE d > 1
    <3>1. d - 1 \in 1 .. k - i /\ <<d - 1, d>> \in R
      BY <1>1, <1>5, <2>2
    <3>2. d - 1 \notin T
      BY <1>4, <3>1
    <3>3. c[k - (d - 1)] \in C
      BY <3>1, <3>2
    <3>4. k - (d - 1) = k - d + 1
      BY <1>1, <1>5
    <3> HIDE DEF c
    <3> QED
      BY <3>3, <3>4
  <2> QED
    BY <1>1, <1>5, <2>1, <2>2
<1>7. k - d \in 1 .. n - 1
  BY <1>1, <1>5
<1>8. parent[c[k - d + 1]] = c[k - d]
  BY <1>7 DEF GroupOK, ChainAwaits
<1>9. c[k - d] \in Jobs
  BY <1>1, <1>7
<1> QED
  BY <1>5, <1>6, <1>8, <1>9

(* Two running calls that share a lock are a caller and a callee, and      *)
(* share it through a group: REJECT and QUEUE methods never run twice at   *)
(* once, and two methods of a JobGroup only one inside the other.          *)
THEOREM Exclusion == Spec => []MutualExclusion
<1>1. IInv => MutualExclusion
  <2> SUFFICES ASSUME IInv, NEW l \in Locks, NEW j \in Holders(l), NEW k \in Holders(l), j # k
               PROVE  InGroup(j) /\ InGroup(k) /\ (Ancestor(j, k) \/ Ancestor(k, j))
    BY DEF MutualExclusion
  <2>1. l \in GroupLocks
    BY DEF IInv, LocksOK, OwnOK
  <2>2. TypeOK /\ GroupOK(l)
    BY <2>1 DEF IInv, LocksOK
  <2>3. InGroup(j) /\ InGroup(k)
    <3>1. ASSUME NEW h \in Holders(l)
          PROVE  InGroup(h)
      BY <2>1, <2>2, JobsAssumption, LockKindAssumption, LockKinds DEF Holders, TypeOK
    <3> QED
      BY <3>1
  <2>4. PICK i \in 1 .. Len(Chain(l)) : Chain(l)[i] = j
    BY <2>2 DEF GroupOK, ChainHolds
  <2>5. PICK h \in 1 .. Len(Chain(l)) : Chain(l)[h] = k
    BY <2>2 DEF GroupOK, ChainHolds
  <2>6. i < h \/ h < i
    <3>1. Len(Chain(l)) \in Nat /\ i # h
      BY <2>1, <2>2, <2>4, <2>5, JobsAssumption, ChainElements
    <3> QED
      BY <3>1
  <2> QED
    BY <2>1, <2>2, <2>3, <2>4, <2>5, <2>6, JobsAssumption, ChainAncestors
<1> QED
  BY <1>1, Invariance, PTL

-----------------------------------------------------------------------------
(* Refinement of GroupLock                                                 *)

Chains == [l \in GroupLocks |-> Chain(l)]

(* What entering does to the chains of the groups.                         *)
LEMMA EnterChains ==
  ASSUME JobsAssumption, LockKindAssumption, IInv, NEW j \in Jobs,
         Enter(j) \/ Wake(j)
  PROVE  UNCHANGED Chains \/ \E l \in GroupLocks : GL!EnterFromOutside(l, j)
                                                 \/ GL!EnterNested(l, j)
<1>1. TypeOK /\ LocksOK /\ method[j] \in Methods
  BY DEF IInv, Enter, Wake, Woken, TypeOK
<1>2. CASE ~InGroup(j)
  <2>1. UNCHANGED <<owner, parentJobs>>
    BY <1>2 DEF Enter, Wake, TakeOwnership
  <2> QED
    BY <2>1 DEF Chains, Chain
<1>3. CASE InGroup(j)
  <2>1. PICK L \in GroupLocks : L = Lock(j) /\ L \in Locks
    BY <1>1, <1>3, LockKinds, JobsAssumption
  <2>2. GroupOK(L)
    BY <1>1, <2>1 DEF LocksOK
  <2>3. ASSUME NEW s,
               owner' = [owner EXCEPT ![L] = j], Chain(L)' = s,
               \A l \in Locks : l # L => parentJobs'[l] = parentJobs[l]
        PROVE  Chains' = [Chains EXCEPT ![L] = s]
    <3>1. \A l \in GroupLocks : l # L => Chain(l)' = Chain(l)
      BY <1>1, <2>3, GroupLocksAreLocks DEF Chain, TypeOK
    <3> QED
      BY <2>1, <2>3, <3>1 DEF Chains
  <2>4. CASE Enter(j) /\ HasLock(j)
    <3>1. /\ owner[L] # NoJob /\ parent[j] = owner[L]
          /\ owner' = [owner EXCEPT ![L] = j]
          /\ parentJobs' = [parentJobs EXCEPT ![L] = Append(parentJobs[L], owner[L])]
      BY <1>3, <2>1, <2>4 DEF HasLock, Enter, TakeOwnership
    <3>2. owner'[L] = j /\ parentJobs'[L] = Append(parentJobs[L], owner[L])
      BY <1>1, <2>1, <3>1 DEF TypeOK
    <3>3. Chain(L)' = Append(Chain(L), j)
      BY <1>1, <2>1, <3>1, <3>2, ChainPush
    <3>4. Chains' = [Chains EXCEPT ![L] = Append(Chain(L), j)]
      BY <1>1, <2>1, <2>3, <3>1, <3>3 DEF TypeOK
    <3>5. Len(Chain(L)) > 0 /\ Chain(L)[Len(Chain(L))] = owner[L] /\ Chain(L) # <<>>
      BY <1>1, <2>1, <2>2, <3>1, ChainElements
    <3>6. GL!EnterNested(L, j)
      BY <2>1, <3>1, <3>4, <3>5 DEF GL!EnterNested, GL!Top, Chains
    <3> QED
      BY <2>1, <3>6
  <2>5. CASE Wake(j) \/ (Enter(j) /\ ~HasLock(j))
    <3>1. Mode(j) # "none"
      BY <1>1, <1>3, LockKinds
    <3>2. ~locked[L] /\ TakeOwnership(j, FALSE)
      BY <1>3, <2>1, <2>5, <3>1 DEF Wake, Woken, Enter, Admitted, LockFree, TakeOwnership
    <3>3. /\ owner[L] = NoJob /\ parentJobs[L] = <<>>
          /\ owner' = [owner EXCEPT ![L] = j] /\ parentJobs' = parentJobs
      BY <1>3, <2>1, <2>2, <3>2 DEF GroupOK, GroupLocked, TakeOwnership
    <3>4. owner'[L] = j
      BY <1>1, <2>1, <3>3 DEF TypeOK
    <3>5. Chain(L) = <<>> /\ Chain(L)' = <<j>>
      <4>1. parentJobs'[L] = <<>> /\ j # NoJob
        BY <3>3 DEF JobsAssumption
      <4>2. Chain(L)' = Append(<<>>, j)
        BY <3>4, <4>1 DEF Chain
      <4> QED
        BY <3>3, <4>2 DEF Chain
    <3>6. Chains' = [Chains EXCEPT ![L] = <<j>>]
      BY <2>3, <3>3, <3>5
    <3>7. GL!EnterFromOutside(L, j)
      BY <2>1, <3>5, <3>6 DEF GL!EnterFromOutside, Chains
    <3> QED
      BY <2>1, <3>7
  <2> QED
    BY <2>4, <2>5
<1> QED
  BY <1>2, <1>3

(* What leaving does to the chains of the groups.                          *)
LEMMA FinishChains ==
  ASSUME JobsAssumption, LockKindAssumption, IInv, NEW j \in Jobs, NEW o, Finish(j, o)
  PROVE  UNCHANGED Chains \/ \E l \in GroupLocks : GL!LeaveTop(l)
<1>1. TypeOK /\ LocksOK /\ method[j] \in Methods /\ Release(j)
  BY DEF IInv, Finish, Resumable, GatherFailed, TypeOK
<1>2. CASE UNCHANGED <<owner, parentJobs>>
  BY <1>2 DEF Chains, Chain
<1>3. CASE ~UNCHANGED <<owner, parentJobs>>
  <2>1. InGroup(j)
    BY <1>1, <1>3 DEF Release
  <2>2. PICK L \in GroupLocks : L = Lock(j) /\ L \in Locks
    BY <1>1, <2>1, LockKinds
  <2>3. owner[L] = j /\ owner[L] # NoJob
    BY <1>1, <1>3, <2>1, <2>2 DEF Release, ReleaseGroup, lockVars, JobsAssumption
  <2>4. parentJobs[L] \in Seq(Jobs) /\ Len(parentJobs[L]) \in Nat
    BY <1>1, <2>2 DEF TypeOK
  <2>5. \/ /\ Len(parentJobs[L]) > 0
           /\ owner' = [owner EXCEPT ![L] = parentJobs[L][Len(parentJobs[L])]]
           /\ parentJobs' = [parentJobs EXCEPT ![L] =
                               SubSeq(parentJobs[L], 1, Len(parentJobs[L]) - 1)]
        \/ /\ Len(parentJobs[L]) = 0
           /\ owner' = [owner EXCEPT ![L] = NoJob]
           /\ parentJobs' = parentJobs
    BY <1>1, <2>1, <2>2, <2>3, <2>4 DEF Release, ReleaseGroup
  <2>6. \/ /\ Len(parentJobs[L]) > 0
           /\ owner'[L] = parentJobs[L][Len(parentJobs[L])]
           /\ parentJobs'[L] = SubSeq(parentJobs[L], 1, Len(parentJobs[L]) - 1)
        \/ /\ Len(parentJobs[L]) = 0
           /\ owner'[L] = NoJob
    BY <1>1, <2>2, <2>5 DEF TypeOK
  <2>7. Chain(L)' = SubSeq(Chain(L), 1, Len(Chain(L)) - 1)
    BY <1>1, <2>2, <2>3, <2>6, ChainPop
  <2>8. \A l \in GroupLocks : l # L => Chain(l)' = Chain(l)
    BY <1>1, <2>5, GroupLocksAreLocks DEF Chain, TypeOK
  <2>9. Chains' = [Chains EXCEPT ![L] = SubSeq(Chain(L), 1, Len(Chain(L)) - 1)]
    BY <2>2, <2>7, <2>8 DEF Chains
  <2>10. Chain(L) # <<>>
    BY <1>1, <2>2, <2>3, ChainElements DEF LocksOK
  <2>11. GL!LeaveTop(L)
    BY <2>2, <2>9, <2>10 DEF GL!LeaveTop, Chains
  <2> QED
    BY <2>2, <2>11
<1> QED
  BY <1>2, <1>3

(* The wrapper, the registry and JobGroup implement the stack of calls.    *)
THEOREM Refinement == Spec => ImplementsGroupLock
<1>1. Init => GL!Init
  <2> SUFFICES ASSUME Init
               PROVE  GL!Init
    OBVIOUS
  <2>1. \A l \in GroupLocks : Chain(l) = <<>>
    BY JobsAssumption, GroupLocksAreLocks DEF Init, Chain
  <2> QED
    BY <2>1 DEF GL!Init
<1>2. IInv /\ [Next]_vars => [GL!Next]_Chains
  <2> SUFFICES ASSUME IInv, [Next]_vars
               PROVE  GL!Next \/ UNCHANGED Chains
    OBVIOUS
  <2>1. CASE UNCHANGED vars
    BY <2>1 DEF vars, Chains, Chain
  <2>2. ASSUME NEW j \in Jobs, QuietAction(j)
        PROVE  UNCHANGED Chains
    <3>1. UNCHANGED <<owner, parentJobs>>
      BY <2>2, QuietActions DEF IInv, QuietStep
    <3> QED
      BY <3>1 DEF Chains, Chain
  <2>3. CASE Next
    <3>1. PICK j \in Jobs : QuietAction(j) \/ Enter(j) \/ Wake(j) \/ Return(j)
      BY <2>3 DEF Next, Wrapper, QuietAction
    <3>2. CASE Enter(j) \/ Wake(j)
      BY <3>2, JobsAssumption, LockKindAssumption, EnterChains DEF GL!Next
    <3>3. CASE Return(j)
      BY <3>3, JobsAssumption, LockKindAssumption, FinishChains DEF GL!Next, Return
    <3> QED
      BY <2>2, <3>1, <3>2, <3>3
  <2> QED
    BY <2>1, <2>3
<1> QED
  BY <1>1, <1>2, Invariance, PTL DEF Spec, ImplementsGroupLock, GL!Spec, Chains

-----------------------------------------------------------------------------
(* The registry                                                            *)

\* A job that is done has ended, and one that did not start is not done.
DoneWhenEnded ==
  \A j \in Jobs : /\ done[j] = "True" => pc[j] = "ended"
                  /\ pc[j] \in {"unused", "scheduled", "called", "waiting"} => done[j] = "None"

RegistryOK == DoneWhenEnded /\ RegistryExact /\ \A j \in jobs : pc[j] # "unused"

(* remove_job takes the job itself and jobs whose parent it takes, if that *)
(* parent is done.                                                         *)
LEMMA RemovedJobs ==
  ASSUME NEW j \in jobs, NEW dn
  PROVE  \A k \in Removed(j, dn) :
           /\ k \in jobs
           /\ k = j \/ (parent[k] \in Removed(j, dn) /\ dn[parent[k]] = "True")
<1> DEFINE R == Removed(j, dn)
           D == {k \in R : k = j \/ (parent[k] \in R /\ dn[parent[k]] = "True")}
<1>1. R \subseteq jobs /\ j \in R
  BY DEF Removed
<1>2. ASSUME NEW k \in jobs, parent[k] \in R, dn[parent[k]] = "True"
      PROVE  k \in R
  BY <1>2 DEF Removed, SubJobsFollow
<1>3. D \in SUBSET jobs /\ j \in D /\ SubJobsFollow(D, dn)
  <2>1. ASSUME NEW k \in jobs, parent[k] \in D, dn[parent[k]] = "True"
        PROVE  k \in D
    BY <1>2, <2>1
  <2> QED
    BY <1>1, <2>1 DEF SubJobsFollow
<1>4. \A k \in R : k \in D
  <2>1. ASSUME NEW k \in Removed(j, dn)
        PROVE  k \in D
    BY <1>3 DEF Removed
  <2> QED
    BY <2>1
<1> QED
  BY <1>1, <1>4

(* What a wrapper's end does to the registry (the finally clause).         *)
LEMMA LeaveRegistry ==
  ASSUME TypeOK, RegistryOK, NEW j \in Jobs, NEW dn, NEW o, Leave(j, dn, o),
         UNCHANGED <<method, parent>>,
         pc[j] \in {"called", "waiting", "running"},
         \/ dn = done /\ pc[j] # "running"
         \/ dn = [done EXCEPT ![j] = "True"]
  PROVE  RegistryOK'
<1> DEFINE remove == dn[j] = "None" \/ method[j] \in cleanup
<1>1. /\ done' = dn /\ pc' = [pc EXCEPT ![j] = "ended"]
      /\ jobs' = IF remove /\ j \in jobs THEN jobs \ Removed(j, dn) ELSE jobs
  BY DEF Leave
<1>2. /\ \A k \in Jobs \ {j} : pc'[k] = pc[k] /\ done'[k] = done[k]
      /\ pc'[j] = "ended" /\ done'[j] \in {"None", "True"} /\ done'[j] = dn[j]
  BY <1>1 DEF TypeOK, RegistryOK, DoneWhenEnded
<1>3. DoneWhenEnded'
  BY <1>2 DEF RegistryOK, DoneWhenEnded
<1>4. \A k \in jobs' : k \in jobs /\ pc'[k] # "unused"
  BY <1>1, <1>2 DEF RegistryOK, TypeOK
<1>5. ASSUME NEW k \in Jobs, pc'[k] \in {"scheduled", "called", "waiting", "running"}
      PROVE  k \in jobs' \/ (parent[k] # NoJob /\ pc'[parent[k]] = "ended")
  <2>1. k # j /\ pc'[k] = pc[k]
    BY <1>2, <1>5
  <2>2. k \in jobs \/ (parent[k] # NoJob /\ pc[parent[k]] = "ended")
    BY <1>5, <2>1 DEF RegistryOK, RegistryExact
  <2>3. CASE parent[k] # NoJob /\ pc[parent[k]] = "ended"
    BY <1>1, <1>2, <2>3 DEF TypeOK
  <2>4. CASE k \in jobs /\ remove /\ j \in jobs /\ k \in Removed(j, dn)
    <3>1. parent[k] \in jobs /\ dn[parent[k]] = "True"
      BY <2>1, <2>4, RemovedJobs
    <3>3. parent[k] \in Jobs
      BY <3>1 DEF TypeOK
    <3>4. pc'[parent[k]] = "ended"
      BY <1>1, <1>3, <3>1, <3>3 DEF DoneWhenEnded
    <3>5. CASE parent[k] # NoJob
      BY <3>4, <3>5
    <3>6. CASE parent[k] = NoJob
      BY <3>3, <3>6, JobsAssumption DEF JobsAssumption
    <3> QED
      BY <3>5, <3>6
  <2>5. CASE k \in jobs /\ ~(remove /\ j \in jobs /\ k \in Removed(j, dn))
    BY <1>1, <2>5
  <2> QED
    BY <2>2, <2>3, <2>4, <2>5
<1>6. ASSUME NEW k \in jobs', pc'[k] = "ended"
      PROVE  done'[k] = "True" /\ method[k] \notin cleanup
  <2>1. CASE k # j
    BY <1>2, <1>4, <1>6, <2>1 DEF RegistryOK, RegistryExact, TypeOK
  <2>2. CASE k = j
    <3>1. ~remove
      <4>1. j \in jobs => j \in Removed(j, dn)
        BY DEF Removed
      <4> QED
        BY <1>1, <1>6, <2>2, <4>1
    <3> QED
      BY <1>2, <2>2, <3>1
  <2> QED
    BY <2>1, <2>2
<1> QED
  BY <1>3, <1>4, <1>5, <1>6 DEF RegistryOK, RegistryExact, TypeOK

LEMMA StepRegistry ==
  ASSUME IInv, RegistryOK, [Next]_vars
  PROVE  RegistryOK'
<1> USE DEF callVars, bodyVars, lockVars
<1>0. TypeOK /\ Awaited
  BY DEF IInv
<1>1. ASSUME NEW j \in Jobs, NEW m \in Methods, NEW p \in Jobs \cup {NoJob},
             NEW place \in {"scheduled", "called"}, NewJob(j, m, p, place)
      PROVE  RegistryOK'
  <2>1. /\ pc[j] = "unused" /\ j \notin jobs /\ jobs' = jobs \cup {j}
        /\ pc'[j] = place /\ done' = done
        /\ \A k \in Jobs \ {j} : /\ pc'[k] = pc[k] /\ parent'[k] = parent[k]
                                 /\ method'[k] = method[k] /\ parent[k] # j
    <3>1. \A k \in Jobs : parent[k] # j
      BY <1>0, <1>1 DEF NewJob, Awaited
    <3> QED
      BY <1>0, <1>1, <3>1 DEF NewJob, TypeOK, RegistryOK
  <2>2. DoneWhenEnded'
    BY <2>1 DEF RegistryOK, DoneWhenEnded
  <2>3. \A k \in jobs' : pc'[k] # "unused"
    BY <1>0, <2>1 DEF RegistryOK, TypeOK
  <2>4. RegistryExact'
    BY <1>0, <2>1 DEF RegistryOK, RegistryExact, TypeOK
  <2> QED
    BY <2>2, <2>3, <2>4 DEF RegistryOK
<1>2. ASSUME NEW j \in Jobs, NEW m \in Methods, Call(j, m) \/ ScheduleJob(j, m)
      PROVE  RegistryOK'
  BY <1>1, <1>2 DEF Call, ScheduleJob
<1>3. ASSUME NEW p \in Jobs, NEW j \in Jobs, NEW m \in Methods,
             Await(p, j, m) \/ StartGathered(p, j, m)
      PROVE  RegistryOK'
  BY <1>1, <1>3 DEF Await, StartGathered
<1>4. ASSUME NEW j \in Jobs, pc' = [pc EXCEPT ![j] = "called"], pc[j] = "scheduled",
             UNCHANGED <<jobs, method, parent, done>>
      PROVE  RegistryOK'
  BY <1>0, <1>4 DEF RegistryOK, RegistryExact, DoneWhenEnded, TypeOK
<1>5. ASSUME NEW j \in Jobs, pc[j] \in {"called", "waiting"}, Start(j)
      PROVE  RegistryOK'
  BY <1>0, <1>5 DEF Start, RegistryOK, RegistryExact, DoneWhenEnded, TypeOK
<1>6. ASSUME NEW j \in Jobs,
             \/ EnterThrottled(j) \/ ConditionFails(j) \/ Reject(j)
             \/ WakeThrottled(j) \/ CancelWait(j) \/ Return(j)
      PROVE  RegistryOK'
  <2>1. /\ UNCHANGED <<method, parent>> /\ pc[j] \in {"called", "waiting", "running"}
        /\ \E o, dn : /\ Leave(j, dn, o)
                      /\ \/ dn = done /\ pc[j] # "running"
                         \/ dn = [done EXCEPT ![j] = "True"]
    <3>1. CASE EnterThrottled(j) \/ ConditionFails(j) \/ Reject(j)
      BY <3>1 DEF EnterThrottled, ConditionFails, Reject
    <3>2. CASE WakeThrottled(j) \/ CancelWait(j)
      BY <3>2 DEF WakeThrottled, Woken, CancelWait
    <3>3. CASE Return(j)
      BY <3>3 DEF Return, Finish, Resumable, GatherFailed
    <3> QED
      BY <1>6, <3>1, <3>2, <3>3
  <2> QED
    BY <1>0, <2>1, LeaveRegistry
<1>7. ASSUME NEW j \in Jobs, Enqueue(j)
      PROVE  RegistryOK'
  BY <1>0, <1>7 DEF Enqueue, RegistryOK, RegistryExact, DoneWhenEnded, TypeOK
<1>8. ASSUME NEW j \in Jobs, ApiRemoveJob(j)
      PROVE  RegistryOK'
  <2>1. /\ UNCHANGED <<method, parent, done, pc>> /\ j \in jobs /\ done[j] = "True"
        /\ jobs' = jobs \ Removed(j, done)
    BY <1>8 DEF ApiRemoveJob
  <2>2. ASSUME NEW k \in Jobs, pc[k] \in {"scheduled", "called", "waiting", "running"}
        PROVE  k \in jobs' \/ (parent[k] # NoJob /\ pc[parent[k]] = "ended")
    <3>1. CASE k \in Removed(j, done)
      <4>1. k # j
        BY <2>1, <2>2 DEF RegistryOK, DoneWhenEnded
      <4>2. parent[k] \in jobs /\ done[parent[k]] = "True"
        BY <2>1, <3>1, <4>1, RemovedJobs
      <4>3. parent[k] \in Jobs /\ parent[k] # NoJob
        BY <1>0, <4>2, JobsAssumption DEF TypeOK, JobsAssumption
      <4> QED
        BY <4>2, <4>3 DEF RegistryOK, DoneWhenEnded
    <3>2. CASE k \notin Removed(j, done)
      BY <2>1, <2>2, <3>2 DEF RegistryOK, RegistryExact
    <3> QED
      BY <3>1, <3>2
  <2>3. DoneWhenEnded' /\ \A k \in jobs' : pc'[k] # "unused"
    BY <2>1 DEF RegistryOK, DoneWhenEnded
  <2> QED
    BY <2>1, <2>2, <2>3 DEF RegistryOK, RegistryExact
<1>9. ASSUME NEW j \in Jobs, Forget(j)
      PROVE  RegistryOK'
  <2>1. /\ jobs' = jobs /\ j \notin jobs
        /\ \A k \in Jobs \ {j} : /\ pc'[k] = pc[k] /\ parent'[k] = parent[k]
                                 /\ method'[k] = method[k] /\ done'[k] = done[k]
        /\ \A k \in Jobs : parent[k] # j
        /\ pc'[j] = "unused" /\ done'[j] = "None"
    BY <1>0, <1>9 DEF Forget, TypeOK
  <2>2. DoneWhenEnded' /\ \A k \in jobs' : pc'[k] # "unused"
    BY <1>0, <2>1 DEF RegistryOK, DoneWhenEnded, TypeOK
  <2>3. ASSUME NEW k \in Jobs, pc'[k] \in {"scheduled", "called", "waiting", "running"}
        PROVE  k \in jobs' \/ (parent'[k] # NoJob /\ pc'[parent'[k]] = "ended")
    <3>1. k # j /\ pc[k] = pc'[k] /\ parent'[k] = parent[k] /\ parent[k] # j
      BY <2>1, <2>3
    <3>2. CASE k \in jobs
      BY <2>1, <3>2
    <3>3. CASE parent[k] # NoJob /\ pc[parent[k]] = "ended"
      <4>1. parent[k] \in Jobs
        BY <1>0, <3>3 DEF TypeOK
      <4> QED
        BY <2>1, <3>1, <3>3, <4>1
    <3> QED
      BY <2>3, <3>1, <3>2, <3>3 DEF RegistryOK, RegistryExact
  <2>4. ASSUME NEW k \in Jobs, k \in jobs', pc'[k] = "ended"
        PROVE  done'[k] = "True" /\ method'[k] \notin cleanup
    BY <2>1, <2>4 DEF RegistryOK, RegistryExact
  <2>5. RegistryExact'
    BY <2>3, <2>4 DEF RegistryExact
  <2> QED
    BY <2>2, <2>5 DEF RegistryOK
<1>10. ASSUME UNCHANGED <<jobs, method, parent, done, pc>>
       PROVE  RegistryOK'
  BY <1>10 DEF RegistryOK, RegistryExact, DoneWhenEnded
<1>11. CASE Next
  <2>1. PICK j \in Jobs :
          \/ \E m \in Methods : Call(j, m) \/ ScheduleJob(j, m)
          \/ \E p \in Jobs, m \in Methods : Await(p, j, m) \/ StartGathered(p, j, m)
          \/ BeginGather(j) \/ Wrapper(j) \/ CancelWait(j) \/ Return(j)
          \/ ApiRemoveJob(j) \/ Forget(j)
    BY <1>11 DEF Next
  <2>2. ASSUME Wrapper(j)
        PROVE  RegistryOK'
    BY <1>4, <1>5, <1>6, <1>7, <2>2 DEF Wrapper, RunScheduled, Enter, Wake, Woken
  <2> QED
    BY <1>2, <1>3, <1>6, <1>8, <1>9, <1>10, <2>1, <2>2 DEF BeginGather
<1> QED
  BY <1>10, <1>11 DEF vars

(* JobManager._jobs holds every call from its creation until its wrapper   *)
(* ends, unless its caller ended before it, and then only jobs that ran    *)
(* and are kept.  remove_job, which looks at the parent's done flag where  *)
(* it means the sub job's, can only drop jobs of callers that are over.    *)
THEOREM Registry == Spec => []RegistryExact
<1>1. Init => RegistryOK
  BY DEF Init, RegistryOK, RegistryExact, DoneWhenEnded
<1>2. IInv /\ RegistryOK /\ [Next]_vars => RegistryOK'
  BY StepRegistry
<1>3. RegistryOK => RegistryExact
  BY DEF RegistryOK
<1> QED
  BY <1>1, <1>2, <1>3, Invariance, PTL DEF Spec

-----------------------------------------------------------------------------
(* Nobody waits for its own caller                                         *)

\* A call was made by a method of the code that makes it, in the caller's
\* running method, and an awaited one that has not entered keeps it running.
CallersOK ==
  \A j \in Jobs : parent[j] \in Jobs =>
    /\ pc[parent[j]] \in {"running", "ended"}
    /\ method[j] \in awaits[method[parent[j]]] \cup gathers[method[parent[j]]]
    /\ (pc[j] \in {"called", "waiting"} /\ method[j] \notin gathers[method[parent[j]]])
         => pc[parent[j]] = "running"

(* What a step does to the calls: at most one job u changes its caller or  *)
(* its method (new_job, or the object is gone), nobody's caller is u, and  *)
(* only a call that has not entered begins to run.                         *)
LEMMA StepCalls ==
  ASSUME JobsAssumption, IInv, [Next]_vars, NEW d \in Jobs
  PROVE  \E u \in Jobs :
           /\ \/ UNCHANGED <<method, parent>>
              \/ /\ pc[u] = "unused" \/ pc'[u] = "unused"
                 /\ pc'[u] \notin {"waiting", "running"}
                 /\ \A y \in Jobs \ {u} : /\ method'[y] = method[y] /\ parent'[y] = parent[y]
                                          /\ pc'[y] = pc[y] /\ parent[y] # u
           /\ \A y \in Jobs : pc'[y] = "running" => pc[y] \in {"called", "waiting", "running"}
           /\ \A y \in Jobs : pc'[y] = "waiting" => pc[y] = "waiting" \/ Enqueue(y)
<1>0. TypeOK /\ Awaited
  BY DEF IInv
<1> USE <1>0
<1>1. \A y \in Jobs : parent[y] \in Jobs => pc[parent[y]] # "unused"
  BY DEF Awaited
<1>2. ASSUME NEW u \in Jobs, NEW m \in Methods, NEW p \in Jobs \cup {NoJob},
             NEW place \in {"called", "scheduled"}, NewJob(u, m, p, place)
      PROVE  /\ pc[u] = "unused" /\ pc'[u] = place
             /\ \A y \in Jobs \ {u} : /\ method'[y] = method[y] /\ parent'[y] = parent[y]
                                      /\ pc'[y] = pc[y] /\ parent[y] # u
  <2>1. \A y \in Jobs : parent[y] # u
    BY <1>1, <1>2 DEF NewJob
  <2> QED
    BY <1>2, <2>1 DEF NewJob, TypeOK
<1>3. ASSUME NEW u \in Jobs, NEW m \in Methods, Call(u, m) \/ ScheduleJob(u, m)
      PROVE  \E p \in Jobs \cup {NoJob}, place \in {"called", "scheduled"} :
               NewJob(u, m, p, place)
  BY <1>3 DEF Call, ScheduleJob
<1>4. ASSUME NEW u \in Jobs, NEW m \in Methods, NEW p \in Jobs,
             Await(p, u, m) \/ StartGathered(p, u, m)
      PROVE  \E place \in {"called", "scheduled"} : NewJob(u, m, p, place)
  BY <1>4 DEF Await, StartGathered
<1>5. ASSUME NEW u \in Jobs, Forget(u)
      PROVE  /\ pc'[u] = "unused"
             /\ \A y \in Jobs \ {u} : /\ method'[y] = method[y] /\ parent'[y] = parent[y]
                                      /\ pc'[y] = pc[y] /\ parent[y] # u
  BY <1>5 DEF Forget, TypeOK
<1>6. ASSUME NEW u \in Jobs,
             BeginGather(u) \/ RunScheduled(u) \/ ApiRemoveJob(u) \/ UNCHANGED vars
      PROVE  /\ UNCHANGED <<method, parent>>
             /\ \A y \in Jobs : pc'[y] \in {"running", "waiting"} => pc'[y] = pc[y]
  BY <1>6 DEF BeginGather, RunScheduled, ApiRemoveJob, callVars, vars, TypeOK
<1>7. ASSUME NEW u \in Jobs, Enter(u) \/ Wake(u)
      PROVE  /\ UNCHANGED <<method, parent>>
             /\ pc[u] \in {"called", "waiting"} /\ pc'[u] = "running"
             /\ \A y \in Jobs \ {u} : pc'[y] = pc[y]
  BY <1>7 DEF Enter, Wake, Woken, Start, callVars, TypeOK
<1>8. ASSUME NEW u \in Jobs,
             \/ EnterThrottled(u) \/ ConditionFails(u) \/ Reject(u) \/ WakeThrottled(u)
             \/ CancelWait(u) \/ Return(u)
      PROVE  /\ UNCHANGED <<method, parent>>
             /\ pc'[u] = "ended"
             /\ \A y \in Jobs \ {u} : pc'[y] = pc[y]
  BY <1>8 DEF EnterThrottled, ConditionFails, Reject, WakeThrottled, CancelWait, Return,
              Finish, Leave, callVars, TypeOK
<1>9. ASSUME NEW u \in Jobs, Enqueue(u)
      PROVE  /\ UNCHANGED <<method, parent>>
             /\ \A y \in Jobs \ {u} : pc'[y] = pc[y]
             /\ pc'[u] = "waiting"
  BY <1>9 DEF Enqueue, callVars, TypeOK
<1>10. CASE UNCHANGED vars
  BY <1>6, <1>10
<1>11. CASE Next
  <2>1. PICK u \in Jobs :
          \/ \E m \in Methods : Call(u, m) \/ ScheduleJob(u, m)
          \/ \E p \in Jobs, m \in Methods : Await(p, u, m) \/ StartGathered(p, u, m)
          \/ BeginGather(u) \/ Wrapper(u) \/ CancelWait(u) \/ Return(u)
          \/ ApiRemoveJob(u) \/ Forget(u)
    BY <1>11 DEF Next
  <2>2. CASE \E m \in Methods : Call(u, m) \/ ScheduleJob(u, m)
    <3>1. \E m \in Methods, p \in Jobs \cup {NoJob}, place \in {"called", "scheduled"} :
            NewJob(u, m, p, place)
      BY <2>2, <1>3
    <3> QED
      BY <3>1, <1>2
  <2>3. CASE \E p \in Jobs, m \in Methods : Await(p, u, m) \/ StartGathered(p, u, m)
    <3>1. \E m \in Methods, p \in Jobs \cup {NoJob}, place \in {"called", "scheduled"} :
            NewJob(u, m, p, place)
      BY <2>3, <1>4
    <3> QED
      BY <3>1, <1>2
  <2>4. CASE Forget(u)
    BY <2>4, <1>5
  <2>5. CASE BeginGather(u) \/ RunScheduled(u) \/ ApiRemoveJob(u)
    BY <2>5, <1>6
  <2>6. CASE Enter(u) \/ Wake(u)
    BY <2>6, <1>7
  <2>7. CASE \/ EnterThrottled(u) \/ ConditionFails(u) \/ Reject(u) \/ WakeThrottled(u)
             \/ CancelWait(u) \/ Return(u)
    BY <2>7, <1>8
  <2>8. CASE Enqueue(u)
    BY <2>8, <1>9
  <2> QED
    BY <2>1, <2>2, <2>3, <2>4, <2>5, <2>6, <2>7, <2>8 DEF Wrapper
<1> QED
  BY <1>10, <1>11 DEF vars

(* Whoever called a call before a step is as before, for every call but    *)
(* the one made or forgotten.                                              *)
LEMMA AncestorKept ==
  ASSUME NEW u \in Jobs, NEW k \in Jobs, NEW x \in Jobs,
         \/ UNCHANGED parent
         \/ x # u /\ \A y \in Jobs \ {u} : parent'[y] = parent[y] /\ parent[y] # u,
         Ancestor(k, x)'
  PROVE  Ancestor(k, x)
<1> SUFFICES ASSUME NEW C \in SUBSET Jobs,
                    \A h \in C \cup {x} : parent[h] \in Jobs => parent[h] \in C
             PROVE  k \in C
  BY DEF Ancestor
<1>1. \A D \in SUBSET Jobs :
        (\A h \in D \cup {x} : parent'[h] \in Jobs => parent'[h] \in D) => k \in D
  BY DEF Ancestor
<1>2. CASE UNCHANGED parent
  BY <1>1, <1>2
<1>3. CASE x # u /\ \A y \in Jobs \ {u} : parent'[y] = parent[y] /\ parent[y] # u
  <2> DEFINE D == C \ {u}
  <2>1. D \in SUBSET Jobs
    OBVIOUS
  <2>2. ASSUME NEW h \in D \cup {x}, parent'[h] \in Jobs
        PROVE  parent'[h] \in D
    BY <1>3, <2>2
  <2>3. k \in D
    BY <1>1, <2>1, <2>2
  <2> QED
    BY <2>3
<1> QED
  BY <1>2, <1>3

(* The callers of a call all run or are over.                              *)
LEMMA AncestorsBegun ==
  ASSUME CallersOK, NEW k \in Jobs, NEW x \in Jobs, Ancestor(k, x)
  PROVE  pc[k] \in {"running", "ended"}
<1> DEFINE C == {y \in Jobs : pc[y] \in {"running", "ended"}}
<1>1. C \in SUBSET Jobs
  OBVIOUS
<1>2. \A h \in C \cup {x} : parent[h] \in Jobs => parent[h] \in C
  BY DEF CallersOK
<1>3. k \in C
  BY <1>1, <1>2 DEF Ancestor
<1> QED
  BY <1>3

(* A call that has to wait was not made, however indirectly, by a call     *)
(* that went through the same lock: the innermost of those would be its    *)
(* caller, awaiting it alone, and so the owner whose callees are let in.   *)
LEMMA EnqueueApart ==
  ASSUME JobsAssumption, LockKindAssumption, GatherAssumption, ReturnAssumption,
         IInv, CallersOK, NEW j \in Jobs, Enqueue(j),
         NEW k \in Holders(Lock(j)), Ancestor(k, j)
  PROVE  FALSE
<1> DEFINE l == Lock(j)
           inside == {m \in Methods : concurrency[m] # "none" /\ lockOf[m] = l}
           p == parent[j]
<1>1. /\ TypeOK /\ Awaited /\ LocksOK
      /\ pc[j] = "called" /\ ~Broken(j) /\ ~Refused(j) /\ ~Admitted(j)
  BY DEF IInv, Enqueue
<1>2. method[j] \in Methods /\ Mode(j) # "none" /\ l \in Locks
  BY <1>1 DEF TypeOK, Admitted, Lock, JobsAssumption
<1>3. k \in Jobs /\ pc[k] = "running" /\ method[k] \in inside
  BY <1>1 DEF Holders, Mode, Lock, TypeOK
<1>4. PICK below \in SUBSET (Methods \ inside) :
        \A m \in inside \cup below :
          awaits[m] \cup gathers[m] \subseteq
            below \cup (IF m \in inside /\ IsGroup(m) THEN inside ELSE {})
  BY <1>2 DEF ReturnAssumption
<1>5. method[j] \in inside
  BY <1>2 DEF Mode, Lock
<1>6. p \in Jobs /\ method[p] \in inside
  <2>1. SUFFICES ASSUME ~(p \in Jobs /\ method[p] \in inside)
                 PROVE  FALSE
    OBVIOUS
  <2> DEFINE C == {y \in Jobs : method[y] \notin inside \cup below}
  <2>2. C \in SUBSET Jobs
    OBVIOUS
  <2>3. ASSUME NEW h \in C \cup {j}, parent[h] \in Jobs
        PROVE  parent[h] \in C
    <3>1. method[h] \in awaits[method[parent[h]]] \cup gathers[method[parent[h]]]
      BY <2>3 DEF CallersOK
    <3>2. method[h] \notin below
      BY <1>5, <2>3
    <3>3. method[parent[h]] \notin below
      BY <1>4, <3>1, <3>2
    <3>4. method[parent[h]] \notin inside
      BY <1>4, <2>1, <2>3, <3>1, <3>2
    <3> QED
      BY <2>3, <3>3, <3>4
  <2>4. k \in C
    BY <2>2, <2>3 DEF Ancestor
  <2> QED
    BY <1>3, <2>4
<1>7. method[j] \in awaits[method[p]] \cup gathers[method[p]] /\ method[j] \notin below
  BY <1>5, <1>6 DEF CallersOK
<1>8. IsGroup(method[p])
  BY <1>4, <1>6, <1>7
<1>9. InGroup(j) /\ IsGroup(method[j])
  BY <1>2, <1>6, <1>8 DEF LockKindAssumption, InGroup, Mode, Lock
<1>10. method[j] \notin gathers[method[p]]
  BY <1>6, <1>8, <1>9 DEF GatherAssumption, Lock
<1>11. awaiting[p] = {j} /\ todo[p] = {}
  BY <1>1, <1>6, <1>10 DEF Awaited
<1>12. pc[p] = "running"
  BY <1>1, <1>6, <1>10 DEF CallersOK
<1>13. p \in Holders(l)
  BY <1>6, <1>12 DEF Holders, Mode, Lock
<1>14. l \in GroupLocks /\ GroupOK(l)
  BY <1>1, <1>2, <1>9 DEF GroupLocks, LocksOK, Lock
<1>15. PICK i \in 1 .. Len(Chain(l)) : Chain(l)[i] = p
  BY <1>13, <1>14 DEF GroupOK, ChainHolds
<1>16. Len(Chain(l)) \in Nat /\ Chain(l) # <<>>
  BY <1>1, <1>2, <1>15, ChainSeq, LenProperties
<1>17. i = Len(Chain(l))
  <2>1. SUFFICES ASSUME i # Len(Chain(l))
                 PROVE  FALSE
    OBVIOUS
  <2>2. i \in 1 .. Len(Chain(l)) - 1 /\ i + 1 \in 1 .. Len(Chain(l))
    BY <1>16, <2>1
  <2>3. Chain(l)[i + 1] = j
    <3>1. awaiting[Chain(l)[i]] = {Chain(l)[i + 1]}
      BY <1>14, <2>2 DEF GroupOK, ChainAwaits
    <3> QED
      BY <1>11, <1>15, <3>1
  <2>4. j \in Holders(l)
    BY <1>14, <2>2, <2>3 DEF GroupOK, ChainHolds
  <2> QED
    BY <1>1, <2>4 DEF Holders
<1>18. owner[l] # NoJob /\ p = owner[l]
  BY <1>1, <1>2, <1>15, <1>16, <1>17, ChainSeq
<1>19. p \in jobs
  BY <1>1, <1>6, <1>9, <1>18, JobsAssumption DEF Broken, CurrentJobLost, JobsAssumption
<1> QED
  BY <1>1, <1>9, <1>18, <1>19 DEF Admitted, HasLock

(* Every step keeps what is known of the callers.                          *)
LEMMA StepCallers ==
  ASSUME JobsAssumption, IInv, CallersOK, [Next]_vars
  PROVE  CallersOK'
<1>0. TypeOK /\ TodoOwn /\ Awaited
  BY DEF IInv
<1> USE <1>0
<1> DEFINE Known(y) == /\ pc'[parent'[y]] \in {"running", "ended"}
                       /\ method'[y] \in awaits[method'[parent'[y]]]
                                           \cup gathers[method'[parent'[y]]]
                       /\ (/\ pc'[y] \in {"called", "waiting"}
                           /\ method'[y] \notin gathers[method'[parent'[y]]])
                            => pc'[parent'[y]] = "running"
<1>1. ASSUME NEW u \in Jobs, NEW m \in Methods, NEW p \in Jobs \cup {NoJob},
             NEW place \in {"called", "scheduled"}, NewJob(u, m, p, place),
             p \in Jobs => pc[p] = "running" /\ m \in awaits[method[p]] \cup gathers[method[p]]
      PROVE  CallersOK'
  <2>1. /\ \A y \in Jobs \ {u} : /\ method'[y] = method[y] /\ parent'[y] = parent[y]
                                 /\ pc'[y] = pc[y]
        /\ method'[u] = m /\ parent'[u] = p /\ pc[u] = "unused"
    BY <1>1 DEF NewJob, TypeOK
  <2>2. ASSUME NEW y \in Jobs, parent'[y] \in Jobs
        PROVE  Known(y)
    <3>1. CASE y = u
      <4>1. p \in Jobs /\ p # u /\ pc'[p] = "running" /\ method'[p] = method[p]
        BY <1>1, <2>1, <2>2, <3>1
      <4> QED
        BY <1>1, <2>1, <3>1, <4>1
    <3>2. CASE y # u
      <4>1. parent'[y] = parent[y] /\ parent[y] \in Jobs \ {u}
        BY <2>1, <2>2, <3>2 DEF Awaited
      <4> QED
        BY <2>1, <3>2, <4>1 DEF CallersOK
    <3> QED
      BY <3>1, <3>2
  <2> QED
    BY <2>2 DEF CallersOK
<1>2. ASSUME NEW u \in Jobs, NEW m \in Methods, Call(u, m) \/ ScheduleJob(u, m)
      PROVE  CallersOK'
  <2>1. PICK place \in {"called", "scheduled"} : NewJob(u, m, NoJob, place)
    BY <1>2 DEF Call, ScheduleJob
  <2>2. NoJob \notin Jobs
    BY DEF JobsAssumption
  <2> QED
    BY <1>1, <2>1, <2>2
<1>3. ASSUME NEW p \in Jobs, NEW u \in Jobs, NEW m \in Methods,
             Await(p, u, m) \/ StartGathered(p, u, m)
      PROVE  CallersOK'
  <2>1. pc[p] = "running" /\ m \in awaits[method[p]] \cup gathers[method[p]]
    BY <1>3 DEF Await, Resumable, StartGathered, TodoOwn
  <2>2. NewJob(u, m, p, "called")
    BY <1>3 DEF Await, StartGathered
  <2> QED
    BY <1>1, <2>1, <2>2
<1>4. ASSUME UNCHANGED <<method, parent>>, NEW u \in Jobs,
             \A y \in Jobs \ {u} : pc'[y] = pc[y],
             \/ pc'[u] = pc[u]
             \/ pc[u] = "scheduled" /\ pc'[u] = "called"
             \/ pc[u] \in {"called", "waiting"} /\ pc'[u] \in {"waiting", "running", "ended"}
             \/ pc[u] = "running" /\ pc'[u] = "ended" /\ (Resumable(u) \/ GatherFailed(u))
      PROVE  CallersOK'
  <2>1. ASSUME NEW y \in Jobs, parent[y] \in Jobs
        PROVE  Known(y)
    <3>1. /\ pc[parent[y]] \in {"running", "ended"} /\ pc[y] # "scheduled"
          /\ method[y] \in awaits[method[parent[y]]] \cup gathers[method[parent[y]]]
      BY <2>1 DEF CallersOK, Awaited
    <3>2. pc'[parent[y]] \in {"running", "ended"}
      BY <1>4, <2>1, <3>1
    <3>3. ASSUME pc'[y] \in {"called", "waiting"}, method[y] \notin gathers[method[parent[y]]]
          PROVE  pc'[parent[y]] = "running"
      <4>1. pc[y] \in {"called", "waiting"}
        BY <1>4, <3>1, <3>3
      <4>2. pc[parent[y]] = "running" /\ awaiting[parent[y]] = {y}
        BY <2>1, <3>3, <4>1 DEF CallersOK, Awaited
      <4>3. ~Resumable(parent[y]) /\ ~GatherFailed(parent[y])
        BY <4>1, <4>2 DEF Resumable, GatherFailed
      <4> QED
        BY <1>4, <2>1, <4>2, <4>3
    <3> QED
      BY <1>4, <3>1, <3>2, <3>3
  <2> QED
    BY <1>4, <2>1 DEF CallersOK
<1>5. ASSUME NEW u \in Jobs,
             BeginGather(u) \/ Wrapper(u) \/ CancelWait(u) \/ Return(u) \/ ApiRemoveJob(u)
      PROVE  CallersOK'
  <2>1. UNCHANGED <<method, parent>>
    BY <1>5 DEF BeginGather, Wrapper, RunScheduled, Enter, EnterThrottled, ConditionFails,
                Reject, Enqueue, Wake, WakeThrottled, CancelWait, Return, Finish,
                ApiRemoveJob, Start, callVars
  <2>2. CASE BeginGather(u) \/ ApiRemoveJob(u)
    BY <1>4, <2>1, <2>2 DEF BeginGather, ApiRemoveJob
  <2>3. CASE RunScheduled(u) \/ Enqueue(u)
    <3>1. \A y \in Jobs \ {u} : pc'[y] = pc[y]
      BY <2>3 DEF RunScheduled, Enqueue, TypeOK
    <3>2. \/ pc[u] = "scheduled" /\ pc'[u] = "called"
          \/ pc[u] = "called" /\ pc'[u] = "waiting"
      BY <2>3 DEF RunScheduled, Enqueue, TypeOK
    <3> QED
      BY <1>4, <2>1, <3>1, <3>2
  <2>4. CASE Enter(u) \/ Wake(u)
    <3>1. \A y \in Jobs \ {u} : pc'[y] = pc[y]
      BY <2>4 DEF Enter, Wake, Start, TypeOK
    <3>2. pc[u] \in {"called", "waiting"} /\ pc'[u] = "running"
      BY <2>4 DEF Enter, Wake, Woken, Start, TypeOK
    <3> QED
      BY <1>4, <2>1, <3>1, <3>2
  <2>5. ASSUME NEW dn, NEW o, Leave(u, dn, o),
               \/ pc[u] \in {"called", "waiting"}
               \/ pc[u] = "running" /\ (Resumable(u) \/ GatherFailed(u))
        PROVE  CallersOK'
    <3>1. pc'[u] = "ended" /\ \A y \in Jobs \ {u} : pc'[y] = pc[y]
      BY <2>5 DEF Leave, TypeOK
    <3> QED
      BY <1>4, <2>1, <2>5, <3>1
  <2>6. CASE EnterThrottled(u) \/ ConditionFails(u) \/ Reject(u) \/ WakeThrottled(u)
             \/ CancelWait(u)
    <3>1. pc[u] \in {"called", "waiting"} /\ \E o \in {"ok", "raised"} : Leave(u, done, o)
      BY <2>6 DEF EnterThrottled, ConditionFails, Reject, WakeThrottled, Woken, CancelWait
    <3> QED
      BY <2>5, <3>1
  <2>7. CASE Return(u)
    <3>1. PICK o \in {"ok", "raised"} : Finish(u, o)
      BY <2>7 DEF Return
    <3>2. pc[u] = "running" /\ (Resumable(u) \/ GatherFailed(u))
      BY <3>1 DEF Finish, Resumable, GatherFailed
    <3>3. \E dn, r : Leave(u, dn, r)
      BY <3>1 DEF Finish
    <3> QED
      BY <2>5, <3>2, <3>3
  <2> QED
    BY <1>5, <2>2, <2>3, <2>4, <2>6, <2>7 DEF Wrapper
<1>6. ASSUME NEW u \in Jobs, Forget(u)
      PROVE  CallersOK'
  <2>1. /\ \A y \in Jobs \ {u} : /\ method'[y] = method[y] /\ parent'[y] = parent[y]
                                 /\ pc'[y] = pc[y] /\ parent[y] # u
        /\ parent'[u] = NoJob
    BY <1>6 DEF Forget, TypeOK
  <2>2. ASSUME NEW y \in Jobs, parent'[y] \in Jobs
        PROVE  Known(y)
    <3>1. y # u
      BY <2>1, <2>2 DEF JobsAssumption
    <3>2. parent'[y] = parent[y] /\ parent[y] \in Jobs \ {u}
      BY <2>1, <2>2, <3>1
    <3> QED
      BY <2>1, <3>1, <3>2 DEF CallersOK
  <2> QED
    BY <2>2 DEF CallersOK
<1>7. CASE UNCHANGED vars
  BY <1>7 DEF vars, CallersOK
<1>8. CASE Next
  BY <1>2, <1>3, <1>5, <1>6, <1>8 DEF Next
<1> QED
  BY <1>7, <1>8

(* A call waiting for a lock does not wait for one of its callers: "Methods *)
(* can call other methods on the same group without deadlock".             *)
THEOREM CallersLetIn == Spec => []NoWaitForCaller
<1>1. Init => CallersOK /\ NoWaitForCaller
  BY JobsAssumption DEF Init, CallersOK, NoWaitForCaller, JobsAssumption
<1>2. IInv /\ CallersOK /\ NoWaitForCaller /\ [Next]_vars => (CallersOK /\ NoWaitForCaller)'
  <2> SUFFICES ASSUME IInv, CallersOK, NoWaitForCaller, [Next]_vars
               PROVE  CallersOK' /\ NoWaitForCaller'
    OBVIOUS
  <2>1. CallersOK'
    BY JobsAssumption, StepCallers
  <2>2. ASSUME NEW x \in Jobs, pc'[x] = "waiting", NEW k \in Holders(Lock(x))',
               Ancestor(k, x)'
        PROVE  FALSE
    <3>1. PICK u \in Jobs :
            /\ \/ UNCHANGED <<method, parent>>
               \/ /\ pc[u] = "unused" \/ pc'[u] = "unused"
                  /\ pc'[u] \notin {"waiting", "running"}
                  /\ \A y \in Jobs \ {u} : /\ method'[y] = method[y] /\ parent'[y] = parent[y]
                                           /\ pc'[y] = pc[y] /\ parent[y] # u
            /\ \A y \in Jobs : pc'[y] = "running" => pc[y] \in {"called", "waiting", "running"}
            /\ \A y \in Jobs : pc'[y] = "waiting" => pc[y] = "waiting" \/ Enqueue(y)
      BY <2>2, JobsAssumption, StepCalls
    <3>2. k \in Jobs /\ pc'[k] = "running"
      BY DEF Holders
    <3>3. method'[k] = method[k] /\ method'[x] = method[x]
      BY <2>2, <3>1, <3>2
    <3>4. Ancestor(k, x)
      <4>1. UNCHANGED parent \/ (x # u /\ \A y \in Jobs \ {u} : parent'[y] = parent[y]
                                                              /\ parent[y] # u)
        BY <2>2, <3>1
      <4> QED
        BY <2>2, <3>2, <4>1, AncestorKept
    <3>5. pc[k] = "running"
      BY <3>1, <3>2, <3>4, AncestorsBegun
    <3>6. k \in Holders(Lock(x))
      BY <3>2, <3>3, <3>5 DEF Holders, Mode, Lock
    <3>7. Enqueue(x)
      BY <3>1, <2>2, <3>4, <3>6 DEF NoWaitForCaller
    <3> QED
      BY <3>4, <3>6, <3>7, EnqueueApart, JobsAssumption, LockKindAssumption,
         GatherAssumption, ReturnAssumption
  <2> QED
    BY <2>1, <2>2 DEF NoWaitForCaller
<1>3. (CallersOK /\ NoWaitForCaller) => NoWaitForCaller
  OBVIOUS
<1> QED
  BY <1>1, <1>2, <1>3, Invariance, PTL DEF Spec

=============================================================================
