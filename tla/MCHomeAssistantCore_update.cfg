CONSTANTS
  Versions = {v1, v2}
  Watchers = {w1, w2}
  MaxAttempts = 2
  MaxFaults = 4
  MaxOps = 2
  OverrideImage = TRUE
  Nothing = Nothing
SPECIFICATION LiveSpec
INVARIANTS
  HTypeOK
  ImagesKept
  RunsRecorded
PROPERTIES
  UpdateTruthful
  CoreRevived
CHECK_DEADLOCK FALSE
