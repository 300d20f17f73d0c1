CONSTANTS
  j1 = j1
  j2 = j2
  j3 = j3
  j4 = j4
  NoJob = NoJob
  Jobs = {j1, j2, j3, j4}
  Methods <- CallMethods
  Locks <- CallLocks
  concurrency <- CallConcurrency
  lockOf <- CallLockOf
  awaits <- CallAwaits
  gathers <- CallGathers
  cleanup = {"freeze", "restore", "begin", "beginB", "stop", "ctr_stop", "ctr_import", "ctr_clean", "fetch"}
  conditions = {"freeze", "fetch"}
  throttled = {"fetch"}
  entryPoints = {"freeze", "restore", "ctr_clean", "fetch", "os_update"}
SPECIFICATION Spec
SYMMETRY Symmetry
INVARIANTS
  TypeOK
  MutualExclusion
  LocksAccountedFor
  RegistryExact
  NoWaitForCaller
PROPERTY ImplementsGroupLock
