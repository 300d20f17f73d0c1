------------------------------- MODULE MCJobs -------------------------------
(***************************************************************************)
(* Instances of Jobs.  The methods and who calls whom are those of the     *)
(* code: App.restart -> App.stop -> DockerInterface.stop, App.restore ->   *)
(* DockerApp.import_image -> the queued DockerApp.cleanup, Updater.        *)
(* fetch_data (QUEUE and THROTTLE), OSManager.update (REJECT) and          *)
(* BackupManager.freeze_all gathering App.begin_backup.  An entry point is *)
(* called by a task whose callers hold none of the locks of the instance.  *)
(***************************************************************************)
EXTENDS Jobs, TLC

CONSTANTS j1, j2, j3, j4

Symmetry == Permutations(Jobs)

MethodRow(c, l, calls, gathered) ==
  [c |-> c, l |-> l, calls |-> calls, gathered |-> gathered]

\* Nested calls inside one group and into another one, gathered calls of two
\* apps, and the locks of two decorators.
Calls ==
  [freeze     |-> MethodRow("group_reject", "backup", {}, {"begin", "beginB"}),
   begin      |-> MethodRow("group_reject", "app", {"stop"}, {}),
   beginB     |-> MethodRow("group_reject", "appB", {}, {}),
   stop       |-> MethodRow("group_reject", "app", {"ctr_stop"}, {}),
   restore    |-> MethodRow("group_reject", "app", {"ctr_import"}, {}),
   ctr_stop   |-> MethodRow("group_reject", "container", {}, {}),
   ctr_import |-> MethodRow("group_reject", "container", {"ctr_clean"}, {}),
   ctr_clean  |-> MethodRow("group_queue", "container", {}, {}),
   fetch      |-> MethodRow("queue", "fetch_data", {}, {}),
   os_update  |-> MethodRow("reject", "os_update", {}, {})]

ConcurrencyOf(t) == [m \in DOMAIN t |-> t[m].c]
LockTable(t) == [m \in DOMAIN t |-> t[m].l]
AwaitsOf(t) == [m \in DOMAIN t |-> t[m].calls]
GathersOf(t) == [m \in DOMAIN t |-> t[m].gathered]
LocksOf(t) == {t[m].l : m \in DOMAIN t}

CallMethods == DOMAIN Calls
CallLocks == LocksOf(Calls)
CallConcurrency == ConcurrencyOf(Calls)
CallLockOf == LockTable(Calls)
CallAwaits == AwaitsOf(Calls)
CallGathers == GathersOf(Calls)

=============================================================================
