CONSTANTS
  Methods = {"fetch", "restart"}
  Groups = {"g"}
  throttle <- MixedThrottle
  period <- MixedPeriod
  maxCalls <- MixedMaxCalls
  MaxTime = 7
SPECIFICATION Spec
INVARIANTS
  TypeOK
  RunsApart
  RunsLimited
  RefusedForCause
