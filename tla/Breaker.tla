------------------------------- MODULE Breaker -------------------------------
(***************************************************************************)
(* The per-provider circuit breaker of src/engine/circuit_breaker.py as a  *)
(* record and the operators that transform it.  The breaker has no await   *)
(* inside its lock, so every method is one atomic step of the asyncio      *)
(* event loop: CircuitBreaker and Failover use these operators in their    *)
(* actions.                                                                *)
(*                                                                         *)
(* The clock is kept as the time since the last recorded failure, which    *)
(* is all the code compares (circuit_breaker.py line 57); it saturates one *)
(* unit past RecoveryTimeout.  failure_count is only ever compared with    *)
(* the threshold, so it saturates at MaxFailures.                          *)
(***************************************************************************)
EXTENDS Integers

CONSTANTS
    FailureThreshold,   \* cb_failure_threshold
    RecoveryTimeout,    \* cb_recovery_timeout_seconds, in clock units
    HalfOpenMaxCalls,   \* cb_half_open_max_calls
    MaxFailures         \* bound: where failure_count saturates

(***************************************************************************)
(* A zero argument selects the default of settings.py ("x or default"), so *)
(* the three parameters are positive.                                      *)
(***************************************************************************)
ASSUME BreakerAssumption ==
    /\ FailureThreshold \in Nat \ {0}
    /\ RecoveryTimeout \in Nat \ {0}
    /\ HalfOpenMaxCalls \in Nat \ {0}
    /\ MaxFailures \in Nat
    /\ MaxFailures >= FailureThreshold

CircuitState == {"CLOSED", "OPEN", "HALF_OPEN"}

Expired == RecoveryTimeout + 1

BreakerRecord ==
    [state         : CircuitState,
     failures      : 0 .. MaxFailures,
     successes     : 0 .. HalfOpenMaxCalls - 1,
     halfOpenCalls : 0 .. HalfOpenMaxCalls,
     since         : 0 .. Expired]

\* __init__: _last_failure_time = 0.0 lies further back than any timeout.
NewBreaker ==
    [state         |-> "CLOSED",
     failures      |-> 0,
     successes     |-> 0,
     halfOpenCalls |-> 0,
     since         |-> Expired]

Least(m, n) == IF m < n THEN m ELSE n

\* One unit of time passes.
Age(b) == [b EXCEPT !.since = Least(@ + 1, Expired)]

-----------------------------------------------------------------------------
(***************************************************************************)
(* The property `state`: reading it moves an OPEN breaker whose timeout    *)
(* has expired to HALF_OPEN and frees every probe slot.  It does not clear *)
(* _success_count.                                                         *)
(***************************************************************************)
StateRead_Eager(b) ==
    IF b.state = "OPEN" /\ b.since >= RecoveryTimeout
    THEN [b EXCEPT !.state = "HALF_OPEN", !.halfOpenCalls = 0]
    ELSE b

StateRead_KeepSlots(b) ==
    IF b.state = "OPEN" /\ b.since > RecoveryTimeout
    THEN [b EXCEPT !.state = "HALF_OPEN"]
    ELSE b

StateRead(b) ==
    IF b.state = "OPEN" /\ b.since > RecoveryTimeout
    THEN [b EXCEPT !.state = "HALF_OPEN", !.halfOpenCalls = 0]
    ELSE b

CanExecute(b) ==
    \/ StateRead(b).state = "CLOSED"
    \/ /\ StateRead(b).state = "HALF_OPEN"
       /\ StateRead(b).halfOpenCalls < HalfOpenMaxCalls

\* execute() up to the await: a half-open breaker gives up one probe slot.
Admitted_NoSlot(b) == StateRead(b)

Admitted(b) ==
    IF StateRead(b).state = "HALF_OPEN"
    THEN [StateRead(b) EXCEPT !.halfOpenCalls = @ + 1]
    ELSE StateRead(b)

RecordSuccess_AnyState(b) ==
    IF b.successes + 1 >= HalfOpenMaxCalls
    THEN [b EXCEPT !.state = "CLOSED", !.successes = 0]
    ELSE [b EXCEPT !.successes = @ + 1]

RecordSuccess(b) ==
    CASE b.state = "HALF_OPEN" /\ b.successes + 1 >= HalfOpenMaxCalls ->
           [b EXCEPT !.state = "CLOSED", !.failures = 0, !.successes = 0]
      [] b.state = "HALF_OPEN" /\ b.successes + 1 < HalfOpenMaxCalls ->
           [b EXCEPT !.successes = @ + 1]
      [] b.state = "CLOSED" ->
           [b EXCEPT !.failures = IF @ > 0 THEN @ - 1 ELSE 0]
      [] b.state = "OPEN" -> b

\* _failure_count += 1 and _last_failure_time = now, whatever the state.
Failed(b) == [b EXCEPT !.failures = Least(@ + 1, MaxFailures), !.since = 0]

\* A HALF_OPEN breaker reopens on any failure, a CLOSED one at the threshold.
RecordFailure_NoReopen(b) ==
    IF b.state = "CLOSED" /\ Failed(b).failures >= FailureThreshold
    THEN [Failed(b) EXCEPT !.state = "OPEN"]
    ELSE Failed(b)

RecordFailure(b) ==
    IF \/ b.state = "HALF_OPEN"
       \/ b.state = "CLOSED" /\ Failed(b).failures >= FailureThreshold
    THEN [Failed(b) EXCEPT !.state = "OPEN"]
    ELSE Failed(b)

\* reset() leaves _last_failure_time alone.
ManualReset(b) ==
    [b EXCEPT !.state = "CLOSED", !.failures = 0,
              !.successes = 0, !.halfOpenCalls = 0]
=============================================================================
