CONSTANTS
  startTask = startTask
  NoTask = NoTask
  User = User
  b1 = b1
  b2 = b2
  x1 = x1
  f1 = f1
  f2 = f2
  t1 = t1
  t2 = t2
  w1 = w1
  r1 = r1
  r2 = r2
  a1 = a1
  a2 = a2
  Reboots = {}
  Signals = {}
  Backups = {}
  Restores = {x1}
  Freezes = {f1}
  Thaws = {t1}
  ThawCalls = {}
  Apps = {a1, a2}
  cold = {a1}
  failing = {"checks", "inform", "begin", "end"}
  earlyTimeout = FALSE
  userApps = {a2}
  Others <- AllOthers
CHECK_DEADLOCK FALSE
SPECIFICATION MFairSpec
INVARIANT LeftFrozenOnlyByFailure
PROPERTIES
  FreezeUndone
