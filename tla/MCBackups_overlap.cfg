CONSTANTS
  startTask = startTask
  NoTask = NoTask
  User = User
  b1 = b1
  b2 = b2
  x1 = x1
  f1 = f1
  f2 = f2
  t1 = t1
  t2 = t2
  w1 = w1
  r1 = r1
  r2 = r2
  a1 = a1
  a2 = a2
  Reboots = {}
  Signals = {}
  Backups = {b1}
  Restores = {}
  Freezes = {f1, f2}
  Thaws = {t1, t2}
  ThawCalls = {w1}
  Apps = {a1, a2}
  cold = {a1}
  failing = {"query", "begin"}
  earlyTimeout = TRUE
  userApps = {}
  Others <- AllOthers
CHECK_DEADLOCK FALSE
SPECIFICATION MSpec
SYMMETRY Symmetry
INVARIANTS
  MTypeOK
  BackupStaysFrozen
  SignalIsFresh
