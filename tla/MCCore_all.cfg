CONSTANTS
  startTask = startTask
  r1 = r1
  r2 = r2
  s1 = s1
  s2 = s2
  Reboots = {r1, r2}
  Signals = {s1, s2}
  Others = {}
CHECK_DEADLOCK FALSE
SPECIFICATION FairSpec
INVARIANTS
  CoreTypeOK
  ShutdownOnce
  TeardownAfterStart
  WatchdogOffInTeardown
PROPERTIES
  Forward
  ShutdownReturns
  StopStops
