------------------------------ MODULE Throttle ------------------------------
(***************************************************************************)
(* Throttling of decorated methods (Job._handle_throttling and the state   *)
(* it keeps, jobs/decorator.py).  The check, the time stamp of the call    *)
(* and the start of the method are one step: nothing is awaited between    *)
(* them.  Time is counted twice: clock is what datetime.now() returns and  *)
(* may be set, elapsed is the time that really passed.                     *)
(***************************************************************************)
EXTENDS Integers, Sequences, FiniteSets

CONSTANTS
  Methods,      \* decorated methods with a throttle
  Groups,       \* group names, or {None} for an object that is no JobGroup
  throttle,     \* Methods -> Throttles
  period,       \* Methods -> throttle_period
  maxCalls,     \* Methods -> throttle_max_calls
  MaxTime       \* bound of both clocks

Throttles == {"throttle", "rate_limit", "group_throttle", "group_rate_limit"}

ASSUME ThrottleAssumption ==
  /\ throttle \in [Methods -> Throttles]
  /\ period \in [Methods -> Nat]
  /\ maxCalls \in [Methods -> Nat \ {0}]
  /\ MaxTime \in Nat

NeverCalled == -1

VARIABLES
  clock,             \* datetime.now()
  elapsed,           \* time since the start
  lastCall,          \* Job._last_call of the method, by group name
  rateLimitedCalls,  \* Job._rate_limited_calls of the method, by group name
  ran,               \* when each method really ran since the clock was set last
  adjusted,          \* the clock has been set
  refused            \* the method and group skipped or refused last, if any

vars == <<clock, elapsed, lastCall, rateLimitedCalls, ran, adjusted, refused>>

Keys == Methods \X Groups
Nobody == <<>>

Init ==
  /\ clock = 0
  /\ elapsed = 0
  /\ lastCall = [k \in Keys |-> NeverCalled]
  /\ rateLimitedCalls = [k \in Keys |-> <<>>]
  /\ ran = [k \in Keys |-> <<>>]
  /\ adjusted = FALSE
  /\ refused = Nobody

IsThrottle(m) == throttle[m] \in {"throttle", "group_throttle"}
IsRateLimit(m) == throttle[m] \in {"rate_limit", "group_rate_limit"}

\* Calls of the list that the period still covers.
Recent(k, calls) ==
  LET keep[i \in 0 .. Len(calls)] ==
        IF i = 0 THEN <<>>
        ELSE IF calls[i] + period[k[1]] > clock THEN Append(keep[i - 1], calls[i])
                                                ELSE keep[i - 1]
  IN keep[Len(calls)]

\* Mutant of Pruned: old calls are never dropped.
PrunedNever(k) == rateLimitedCalls[k]

\* The list is only looked through when it is full.
Pruned(k) ==
  IF Len(rateLimitedCalls[k]) >= maxCalls[k[1]]
    THEN Recent(k, rateLimitedCalls[k])
    ELSE rateLimitedCalls[k]

\* Mutants of Admitted: one call too many; one unit of time too early.
AdmittedOneMore(k) ==
  IF IsThrottle(k[1])
    THEN lastCall[k] = NeverCalled \/ clock >= lastCall[k] + period[k[1]]
    ELSE Len(Pruned(k)) <= maxCalls[k[1]]

AdmittedEarly(k) ==
  IF IsThrottle(k[1])
    THEN lastCall[k] = NeverCalled \/ clock + 1 >= lastCall[k] + period[k[1]]
    ELSE Len(Pruned(k)) < maxCalls[k[1]]

Admitted(k) ==
  IF IsThrottle(k[1])
    THEN lastCall[k] = NeverCalled \/ clock >= lastCall[k] + period[k[1]]
    ELSE Len(Pruned(k)) < maxCalls[k[1]]

\* The call goes through: it is stamped before the method begins.
CallRuns(k) ==
  /\ Admitted(k)
  /\ lastCall' = [lastCall EXCEPT ![k] = clock]
  /\ rateLimitedCalls' = IF IsRateLimit(k[1])
                           THEN [rateLimitedCalls EXCEPT ![k] = Append(Pruned(k), clock)]
                           ELSE rateLimitedCalls
  /\ ran' = [ran EXCEPT ![k] = Append(@, elapsed)]
  /\ refused' = Nobody
  /\ UNCHANGED <<clock, elapsed, adjusted>>

\* THROTTLE returns without running the method, RATE_LIMIT raises.
CallRefused(k) ==
  /\ ~Admitted(k)
  /\ rateLimitedCalls' = IF IsRateLimit(k[1])
                           THEN [rateLimitedCalls EXCEPT ![k] = Pruned(k)]
                           ELSE rateLimitedCalls
  /\ refused' = k
  /\ UNCHANGED <<clock, elapsed, lastCall, ran, adjusted>>

Tick ==
  /\ elapsed < MaxTime
  /\ clock < 2 * MaxTime
  /\ elapsed' = elapsed + 1
  /\ clock' = clock + 1
  /\ refused' = Nobody
  /\ UNCHANGED <<lastCall, rateLimitedCalls, ran, adjusted>>

\* Core._adjust_system_datetime, the API or NTP sets the system time.
SetClock ==
  /\ clock' \in 0 .. MaxTime
  /\ adjusted' = TRUE
  /\ ran' = [k \in Keys |-> <<>>]
  /\ refused' = Nobody
  /\ UNCHANGED <<elapsed, lastCall, rateLimitedCalls>>

Next ==
  \/ \E k \in Keys : CallRuns(k) \/ CallRefused(k)
  \/ Tick
  \/ SetClock

Spec == Init /\ [][Next]_vars

-----------------------------------------------------------------------------
(* Properties                                                              *)

\* Runs of k within the period of m that ends at time t.
RunsWithin(k, m, t) ==
  {i \in DOMAIN ran[k] : ran[k][i] <= t /\ ran[k][i] + period[m] > t}

(* Types; and the list of calls does not grow beyond throttle_max_calls.   *)
TypeOK ==
  /\ clock \in Nat /\ elapsed \in 0 .. MaxTime
  /\ lastCall \in [Keys -> Nat \cup {NeverCalled}]
  /\ \A k \in Keys : /\ rateLimitedCalls[k] \in Seq(Nat) /\ ran[k] \in Seq(Nat)
                   /\ Len(rateLimitedCalls[k]) <= maxCalls[k[1]]
  /\ adjusted \in BOOLEAN
  /\ refused \in Keys \cup {Nobody}

(* "THROTTLE: Skip execution if called within throttle_period"             *)
(* (JobThrottle): two runs of a method are at least a period apart, unless *)
(* the clock is set between them.                                          *)
RunsApart ==
  \A k \in Keys : IsThrottle(k[1]) =>
    \A t \in 0 .. MaxTime : Cardinality(RunsWithin(k, k[1], t)) <= 1

(* "RATE_LIMIT: Allow up to throttle_max_calls within throttle_period,     *)
(* then fail" (JobThrottle): no period of time in which the clock is not   *)
(* set holds more runs, although old calls are dropped only when the list  *)
(* is full, and although times from before the clock was set stay in it.   *)
RunsLimited ==
  \A k \in Keys : IsRateLimit(k[1]) =>
    \A t \in 0 .. MaxTime : Cardinality(RunsWithin(k, k[1], t)) <= maxCalls[k[1]]

(* The same two sentences the other way round: a call is skipped or        *)
(* refused only if the period before it holds the run, or all the runs,    *)
(* that forbid it.  A clock that was set back breaks this.                 *)
RefusedForCause ==
  refused # Nobody /\ ~adjusted =>
    Cardinality(RunsWithin(refused, refused[1], elapsed)) >=
      (IF IsThrottle(refused[1]) THEN 1 ELSE maxCalls[refused[1]])

=============================================================================
