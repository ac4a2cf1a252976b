----------------------------- MODULE BreakerLemmas -----------------------------
(***************************************************************************)
(* What each method of the circuit breaker preserves and establishes, as   *)
(* lemmas about the operators of Breaker: every proof about a module built *)
(* on them starts here.                                                    *)
(***************************************************************************)
EXTENDS Breaker, TLAPS

(***************************************************************************)
(* What every method of the breaker preserves, as a predicate on the       *)
(* record, so that the lemmas below serve every module built on Breaker.   *)
(***************************************************************************)
GoodBreaker(b) ==
    /\ b \in BreakerRecord
    /\ b.state = "CLOSED" <=> b.failures < FailureThreshold
    /\ b.state = "HALF_OPEN" => b.since > RecoveryTimeout

USE BreakerAssumption

(***************************************************************************)
(* A record is a breaker when each field is in its range: the form in      *)
(* which the updates of several fields at once are shown well typed.       *)
(***************************************************************************)
Fields == {"state", "failures", "successes", "halfOpenCalls", "since"}

WellFormed(c) ==
    /\ c = [f \in Fields |-> c[f]]
    /\ c.state \in CircuitState
    /\ c.failures \in 0 .. MaxFailures
    /\ c.successes \in 0 .. HalfOpenMaxCalls - 1
    /\ c.halfOpenCalls \in 0 .. HalfOpenMaxCalls
    /\ c.since \in 0 .. Expired

\* Field ranges give membership in the set of breakers.
LEMMA FieldByField ==
    ASSUME NEW c, WellFormed(c)
    PROVE  c \in BreakerRecord
BY DEF WellFormed, Fields, BreakerRecord

\* A new breaker is good.
LEMMA NewBreakerGood == GoodBreaker(NewBreaker)
BY DEF GoodBreaker, NewBreaker, BreakerRecord, CircuitState, Expired

\* The passing of time keeps a breaker good.
LEMMA AgeGood ==
    ASSUME NEW b, GoodBreaker(b)
    PROVE  GoodBreaker(Age(b)) /\ Age(b).state = b.state
BY DEF GoodBreaker, Age, Least, BreakerRecord, CircuitState, Expired

\* Reading `state` keeps a breaker good; it opens a round with no slot taken.
LEMMA StateReadGood ==
    ASSUME NEW b, GoodBreaker(b)
    PROVE  /\ GoodBreaker(StateRead(b))
           /\ StateRead(b).successes = b.successes
           /\ b.state # "OPEN" => StateRead(b) = b
           /\ StateRead(b).state = "HALF_OPEN" /\ b.state = "OPEN"
                => StateRead(b).halfOpenCalls = 0
<1> DEFINE c == [b EXCEPT !.state = "HALF_OPEN", !.halfOpenCalls = 0]
<1>1. CASE b.state = "OPEN" /\ b.since > RecoveryTimeout
  <2>1. StateRead(b) = c
    BY <1>1 DEF StateRead
  <2>2. /\ c.state = "HALF_OPEN" /\ c.failures = b.failures
        /\ c.successes = b.successes /\ c.halfOpenCalls = 0
        /\ c.since = b.since /\ c = [f \in Fields |-> c[f]]
    BY DEF GoodBreaker, BreakerRecord, Fields
  <2> HIDE DEF c
  <2>3. WellFormed(c)
    BY <2>2 DEF WellFormed, GoodBreaker, BreakerRecord, CircuitState
  <2>4. c \in BreakerRecord
    BY <2>3, FieldByField
  <2> QED
    BY <1>1, <2>1, <2>2, <2>4 DEF GoodBreaker
<1>2. CASE ~(b.state = "OPEN" /\ b.since > RecoveryTimeout)
  BY <1>2 DEF StateRead, GoodBreaker
<1> QED
  BY <1>1, <1>2

\* execute() admits only what can_execute() allows, so the slots never overflow.
LEMMA AdmittedGood ==
    ASSUME NEW b, GoodBreaker(b), CanExecute(b)
    PROVE  /\ GoodBreaker(Admitted(b))
           /\ Admitted(b).state = StateRead(b).state
           /\ Admitted(b).successes = b.successes
           /\ Admitted(b).state = "HALF_OPEN"
                => Admitted(b).halfOpenCalls = StateRead(b).halfOpenCalls + 1
<1> DEFINE c == StateRead(b)
<1>1. GoodBreaker(c) /\ c.successes = b.successes
  BY StateReadGood
<1>2. c.state = "CLOSED" \/ (c.state = "HALF_OPEN" /\ c.halfOpenCalls < HalfOpenMaxCalls)
  BY DEF CanExecute
<1>3. Admitted(b) = IF c.state = "HALF_OPEN"
                    THEN [c EXCEPT !.halfOpenCalls = @ + 1] ELSE c
  BY DEF Admitted
<1> HIDE DEF c
<1>4. /\ GoodBreaker(Admitted(b))
      /\ Admitted(b).state = c.state
      /\ Admitted(b).successes = b.successes
      /\ Admitted(b).state = "HALF_OPEN"
           => Admitted(b).halfOpenCalls = c.halfOpenCalls + 1
  BY <1>1, <1>2, <1>3 DEF GoodBreaker, BreakerRecord, CircuitState, Expired
<1> QED
  BY <1>4 DEF c

(***************************************************************************)
(* record_success() keeps a breaker good.  It leaves a HALF_OPEN breaker   *)
(* HALF_OPEN only by counting one more success, and opens no round.        *)
(***************************************************************************)
LEMMA RecordSuccessGood ==
    ASSUME NEW b, GoodBreaker(b)
    PROVE  /\ GoodBreaker(RecordSuccess(b))
           /\ RecordSuccess(b).state = "HALF_OPEN" =>
                /\ b.state = "HALF_OPEN"
                /\ RecordSuccess(b).successes = b.successes + 1
                /\ RecordSuccess(b).halfOpenCalls = b.halfOpenCalls
<1>1. CASE b.state = "HALF_OPEN" /\ b.successes + 1 >= HalfOpenMaxCalls
  <2> DEFINE c == [b EXCEPT !.state = "CLOSED", !.failures = 0, !.successes = 0]
  <2>1. RecordSuccess(b) = c
    BY <1>1 DEF RecordSuccess, GoodBreaker, BreakerRecord
  <2>2. /\ c.state = "CLOSED" /\ c.failures = 0 /\ c.successes = 0
        /\ c.halfOpenCalls = b.halfOpenCalls /\ c.since = b.since
        /\ c = [f \in Fields |-> c[f]]
    BY DEF GoodBreaker, BreakerRecord, Fields
  <2> HIDE DEF c
  <2>3. WellFormed(c)
    BY <2>2 DEF WellFormed, GoodBreaker, BreakerRecord, CircuitState
  <2>4. c \in BreakerRecord
    BY <2>3, FieldByField
  <2> QED
    BY <2>1, <2>2, <2>4 DEF GoodBreaker
<1>2. CASE b.state = "HALF_OPEN" /\ b.successes + 1 < HalfOpenMaxCalls
  BY <1>2 DEF GoodBreaker, RecordSuccess, BreakerRecord, CircuitState, Expired
<1>3. CASE b.state = "CLOSED"
  BY <1>3 DEF GoodBreaker, RecordSuccess, BreakerRecord, CircuitState, Expired
<1>4. CASE b.state = "OPEN"
  BY <1>4 DEF GoodBreaker, RecordSuccess, BreakerRecord, CircuitState, Expired
<1> QED
  BY <1>1, <1>2, <1>3, <1>4 DEF GoodBreaker, BreakerRecord, CircuitState

\* record_failure() keeps a breaker good and never leaves it HALF_OPEN.
LEMMA RecordFailureGood ==
    ASSUME NEW b, GoodBreaker(b)
    PROVE  GoodBreaker(RecordFailure(b)) /\ RecordFailure(b).state # "HALF_OPEN"
<1> DEFINE c == Failed(b)
<1>1. /\ c.state = b.state /\ c.since = 0
      /\ c.failures = Least(b.failures + 1, MaxFailures)
      /\ c.successes = b.successes /\ c.halfOpenCalls = b.halfOpenCalls
      /\ c = [f \in Fields |-> c[f]]
  BY DEF GoodBreaker, BreakerRecord, Failed, Fields
<1>2. RecordFailure(b) = IF \/ b.state = "HALF_OPEN"
                            \/ b.state = "CLOSED" /\ c.failures >= FailureThreshold
                         THEN [c EXCEPT !.state = "OPEN"] ELSE c
  BY DEF RecordFailure
<1> HIDE DEF c
<1>3. WellFormed(c)
  BY <1>1 DEF WellFormed, GoodBreaker, BreakerRecord, CircuitState, Least, Expired
<1>4. c \in BreakerRecord
  BY <1>3, FieldByField
<1> QED
  BY <1>1, <1>2, <1>4 DEF GoodBreaker, BreakerRecord, CircuitState, Least, Expired

\* reset() keeps a breaker good and closes it.
LEMMA ManualResetGood ==
    ASSUME NEW b, GoodBreaker(b)
    PROVE  GoodBreaker(ManualReset(b)) /\ ManualReset(b).state = "CLOSED"
<1> DEFINE c == ManualReset(b)
<1>1. /\ c.state = "CLOSED" /\ c.failures = 0 /\ c.successes = 0
      /\ c.halfOpenCalls = 0 /\ c.since = b.since
      /\ c = [f \in Fields |-> c[f]]
  BY DEF GoodBreaker, BreakerRecord, ManualReset, Fields
<1> HIDE DEF c
<1>2. WellFormed(c)
  BY <1>1 DEF WellFormed, GoodBreaker, BreakerRecord, CircuitState
<1>3. c \in BreakerRecord
  BY <1>2, FieldByField
<1>4. GoodBreaker(c) /\ c.state = "CLOSED"
  BY <1>1, <1>3 DEF GoodBreaker
<1> QED
  BY <1>4 DEF c
=============================================================================
