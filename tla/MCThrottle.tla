----------------------------- MODULE MCThrottle -----------------------------
(***************************************************************************)
(* Instances of Throttle.                                                  *)
(***************************************************************************)
EXTENDS Throttle

\* One throttled and one rate limited method of two objects.
MixedThrottle == [fetch |-> "throttle", restart |-> "group_rate_limit"]
MixedPeriod == [fetch |-> 3, restart |-> 3]
MixedMaxCalls == [fetch |-> 1, restart |-> 2]

=============================================================================
