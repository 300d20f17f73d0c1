CONSTANTS
  Watchers = {w1, w2}
  MaxAttempts = 2
  MaxEvents = 2
  MaxFaults = 2
  MaxOps = 2
  User = User
SPECIFICATION LiveSpec
INVARIANTS
  AppTypeOK
  StaysStopped
  StateFollows
  WatchdogArmed
PROPERTIES
  AppRevived
CHECK_DEADLOCK FALSE
