----------------------------- MODULE BreakerProofs -----------------------------
(***************************************************************************)
(* Proofs about the circuit breaker, for every threshold, timeout, number  *)
(* of probe slots and set of concurrent calls.                             *)
(***************************************************************************)
EXTENDS BreakerRounds, BreakerLemmas, FiniteSetTheorems

(***************************************************************************)
(* The invariant of the history, given the good breaker: what is left to   *)
(* show of BreakerInv once the lemmas above have dealt with the record.    *)
(***************************************************************************)
HistoryInv ==
    /\ running \in SUBSET Calls
    /\ probes \in SUBSET running
    /\ confirmed \in Nat
    /\ lost \in Nat
    /\ SlotsAccounted
    /\ NoRound

USE BreakerAssumption

\* BreakerInv is the good breaker together with the history's invariant.
LEMMA BreakerInvSplit == BreakerInv <=> GoodBreaker(cb) /\ HistoryInv
BY DEF BreakerInv, TypeOK, ClosedBelowThreshold, HalfOpenIsQuiet, GoodBreaker,
       HistoryInv

\* A set of calls in flight is finite, and counts one more or one less call.
LEMMA CountCalls ==
    ASSUME NEW S \in SUBSET Calls, NEW c
    PROVE  /\ Cardinality(S) \in Nat
           /\ Cardinality({}) = 0
           /\ c \notin S => Cardinality(S \union {c}) = Cardinality(S) + 1
           /\ c \in S => Cardinality(S \ {c}) = Cardinality(S) - 1
<1>1. IsFiniteSet(S)
  BY CallsAssumption, FS_Subset DEF CallsAssumption
<1> QED
  BY <1>1, FS_CardinalityType, FS_EmptySet, FS_AddElement, FS_RemoveElement

\* A call that ends gives back one probe if it was a probe, none otherwise.
LEMMA DropProbe ==
    ASSUME probes \in SUBSET Calls, NEW c
    PROVE  /\ One(c) \in {0, 1}
           /\ Cardinality(probes \ {c}) = Cardinality(probes) - One(c)
           /\ Cardinality(probes) \in Nat
<1>1. Cardinality(probes) \in Nat
  BY CountCalls
<1>2. CASE c \in probes
  <2>1. Cardinality(probes \ {c}) = Cardinality(probes) - 1
    BY <1>2, CountCalls
  <2> QED
    BY <1>1, <1>2, <2>1 DEF One
<1>3. CASE c \notin probes
  <2>1. probes \ {c} = probes
    BY <1>3
  <2> QED
    BY <1>1, <1>3, <2>1 DEF One
<1> QED
  BY <1>2, <1>3

\* Initially there is no round.
LEMMA BreakerInvInit == Init => BreakerInv
<1> SUFFICES ASSUME Init PROVE GoodBreaker(cb) /\ HistoryInv
  BY BreakerInvSplit
<1>1. GoodBreaker(cb)
  BY NewBreakerGood DEF Init, InitBreaker
<1>2. HistoryInv
  BY DEF Init, InitBreaker, HistoryInv, SlotsAccounted, NoRound, NewBreaker
<1> QED
  BY <1>1, <1>2

\* Every step of the breaker and its callers preserves the invariant.
LEMMA BreakerInvNext == BreakerInv /\ [Next]_vars => BreakerInv'
<1> SUFFICES ASSUME GoodBreaker(cb), HistoryInv, [Next]_vars
             PROVE  GoodBreaker(cb') /\ HistoryInv'
  BY BreakerInvSplit DEF BreakerInv, TypeOK, ClosedBelowThreshold,
     HalfOpenIsQuiet, GoodBreaker, HistoryInv
<1> USE DEF HistoryInv
<1>a. probes \in SUBSET Calls /\ Cardinality({}) = 0
  BY CountCalls
<1>1. ASSUME NEW c \in Calls, RAdmit(c)
      PROVE  GoodBreaker(cb') /\ HistoryInv'
  <2>1. /\ c \notin running /\ running' = running \union {c}
        /\ CanExecute(cb) /\ cb' = Admitted(cb)
    BY <1>1 DEF RAdmit, Admit
  <2>2. GoodBreaker(cb')
    BY <2>1, AdmittedGood
  <2>3. cb'.state = "HALF_OPEN" =>
          /\ cb'.halfOpenCalls = Cardinality(probes) + confirmed + lost + 1
          /\ confirmed <= cb'.successes
    <3>1. cb.state = "HALF_OPEN" \/ cb.state = "OPEN" \/ cb.state = "CLOSED"
      BY DEF GoodBreaker, BreakerRecord, CircuitState
    <3>2. CASE cb.state = "HALF_OPEN"
      BY <2>1, <3>2, AdmittedGood, StateReadGood DEF SlotsAccounted
    <3>3. CASE cb.state = "OPEN"
      <4>1. probes = {} /\ confirmed = 0 /\ lost = 0
        BY <3>3 DEF NoRound
      <4>2. cb'.state = "HALF_OPEN" => cb'.halfOpenCalls = 0 + 1
        BY <2>1, <3>3, AdmittedGood, StateReadGood
      <4>3. cb'.successes \in Nat
        BY <2>2 DEF GoodBreaker, BreakerRecord
      <4> QED
        BY <1>a, <4>1, <4>2, <4>3
    <3>4. CASE cb.state = "CLOSED"
      BY <2>1, <3>4, AdmittedGood, StateReadGood
    <3> QED
      BY <3>1, <3>2, <3>3, <3>4
  <2>4. Cardinality(probes \union {c}) = Cardinality(probes) + 1
    BY <1>a, <2>1, CountCalls
  <2>5. Cardinality(probes) \in Nat
    BY <1>a, CountCalls
  <2> QED
    BY <1>1, <2>1, <2>2, <2>3, <2>4, <2>5 DEF RAdmit, Round, SlotsAccounted, NoRound
<1>2. ASSUME NEW c \in Calls, RSucceed(c)
      PROVE  GoodBreaker(cb') /\ HistoryInv'
  <2>1. /\ c \in running /\ running' = running \ {c}
        /\ cb' = RecordSuccess(cb)
    BY <1>2 DEF RSucceed, Succeed
  <2>2. GoodBreaker(cb')
    BY <2>1, RecordSuccessGood
  <2>3. cb'.state = "HALF_OPEN" =>
          /\ cb'.halfOpenCalls = Cardinality(probes) + confirmed + lost
          /\ confirmed + 1 <= cb'.successes
    <3> SUFFICES ASSUME cb'.state = "HALF_OPEN"
                 PROVE  /\ cb'.halfOpenCalls = Cardinality(probes) + confirmed + lost
                        /\ confirmed + 1 <= cb'.successes
      OBVIOUS
    <3>1. /\ cb.state = "HALF_OPEN" /\ cb'.successes = cb.successes + 1
          /\ cb'.halfOpenCalls = cb.halfOpenCalls
      BY <2>1, RecordSuccessGood
    <3>2. cb.successes \in Nat
      BY DEF GoodBreaker, BreakerRecord
    <3> QED
      BY <3>1, <3>2 DEF SlotsAccounted
  <2>4. /\ One(c) \in {0, 1}
        /\ Cardinality(probes \ {c}) = Cardinality(probes) - One(c)
        /\ Cardinality(probes) \in Nat
    BY <1>a, DropProbe
  <2>5. cb'.successes \in Nat
    BY <2>2 DEF GoodBreaker, BreakerRecord
  <2> QED
    BY <1>2, <2>1, <2>2, <2>3, <2>4, <2>5
    DEF RSucceed, Round, SlotsAccounted, NoRound
<1>3. ASSUME NEW c \in Calls, RFail(c)
      PROVE  GoodBreaker(cb') /\ HistoryInv'
  <2>1. /\ running' = running \ {c}
        /\ cb' = RecordFailure(cb) \/ cb' = RecordFailure(RecordFailure(cb))
    BY <1>3 DEF RFail, Fail, FailUnexpected
  <2>2. GoodBreaker(cb') /\ cb'.state # "HALF_OPEN"
    BY <2>1, RecordFailureGood
  <2> QED
    BY <1>3, <2>1, <2>2 DEF RFail, Round, SlotsAccounted, NoRound
<1>4. ASSUME NEW c \in Calls, RCancel(c)
      PROVE  GoodBreaker(cb') /\ HistoryInv'
  <2>1. running' = running \ {c} /\ cb' = cb
    BY <1>4 DEF RCancel, Cancel
  <2>2. /\ One(c) \in {0, 1}
        /\ Cardinality(probes \ {c}) = Cardinality(probes) - One(c)
        /\ Cardinality(probes) \in Nat
    BY <1>a, DropProbe
  <2> QED
    BY <1>4, <2>1, <2>2 DEF RCancel, Round, SlotsAccounted, NoRound
<1>5. CASE ROther
  <2>1. /\ running' = running
        /\ \/ cb' = RecordFailure(cb) \/ cb' = StateRead(cb)
           \/ cb' = ManualReset(cb) \/ cb' = Age(cb)
    BY <1>5 DEF ROther, ConnectFailure, ReadState, Reset, Tick
  <2>2. Round(probes, confirmed, lost)
    BY <1>5 DEF ROther
  <2>3. CASE cb' = RecordFailure(cb)
    BY <2>1, <2>2, <2>3, RecordFailureGood DEF Round, SlotsAccounted, NoRound
  <2>4. CASE cb' = ManualReset(cb)
    BY <2>1, <2>2, <2>4, ManualResetGood DEF Round, SlotsAccounted, NoRound
  <2>5. CASE cb' = Age(cb)
    <3>1. /\ cb'.halfOpenCalls = cb.halfOpenCalls
          /\ cb'.successes = cb.successes
      BY <2>5 DEF Age, GoodBreaker, BreakerRecord
    <3> QED
      BY <2>1, <2>2, <2>5, <3>1, AgeGood DEF Round, SlotsAccounted, NoRound
  <2>6. CASE cb' = StateRead(cb)
    <3>1. CASE cb.state = "OPEN"
      <4>1. probes = {} /\ confirmed = 0 /\ lost = 0
        BY <3>1 DEF NoRound
      <4>2. cb'.successes \in Nat
        BY <2>6, StateReadGood DEF GoodBreaker, BreakerRecord
      <4> QED
        BY <2>1, <2>2, <2>6, <3>1, <1>a, <4>1, <4>2, StateReadGood
        DEF Round, SlotsAccounted, NoRound
    <3>2. CASE cb.state # "OPEN"
      BY <2>1, <2>2, <2>6, <3>2, StateReadGood DEF Round, SlotsAccounted, NoRound
    <3> QED
      BY <3>1, <3>2
  <2> QED
    BY <2>1, <2>3, <2>4, <2>5, <2>6
<1>6. CASE UNCHANGED vars
  BY <1>6 DEF vars, SlotsAccounted, NoRound
<1> QED
  BY <1>1, <1>2, <1>3, <1>4, <1>5, <1>6 DEF Next

-----------------------------------------------------------------------------
(***************************************************************************)
(* The inductive invariant holds throughout every behaviour.               *)
(***************************************************************************)
THEOREM BreakerInvariance == Spec => []BreakerInv
BY BreakerInvInit, BreakerInvNext, PTL DEF Spec

(***************************************************************************)
(* Type correctness: in particular _half_open_calls never exceeds          *)
(* half_open_max_calls and _success_count never reaches it.                *)
(***************************************************************************)
THEOREM BreakerTypeCorrect == Spec => []TypeOK
<1>1. BreakerInv => TypeOK
  BY DEF BreakerInv
<1> QED
  BY <1>1, BreakerInvariance, PTL

(***************************************************************************)
(* The state of the circuit and its failure count always agree.            *)
(***************************************************************************)
THEOREM BreakerClosedBelowThreshold == Spec => []ClosedBelowThreshold
<1>1. BreakerInv => ClosedBelowThreshold
  BY DEF BreakerInv
<1> QED
  BY <1>1, BreakerInvariance, PTL

(***************************************************************************)
(* A HALF_OPEN circuit has been free of failures for the recovery timeout. *)
(***************************************************************************)
THEOREM BreakerHalfOpenIsQuiet == Spec => []HalfOpenIsQuiet
<1>1. BreakerInv => HalfOpenIsQuiet
  BY DEF BreakerInv
<1> QED
  BY <1>1, BreakerInvariance, PTL

(***************************************************************************)
(* Every probe slot given up in a half-open round is accounted for.        *)
(***************************************************************************)
THEOREM BreakerSlotsAccounted == Spec => []SlotsAccounted
<1>1. BreakerInv => SlotsAccounted
  BY DEF BreakerInv
<1> QED
  BY <1>1, BreakerInvariance, PTL

(***************************************************************************)
(* A half-open circuit none of whose probes was cancelled is never stuck:  *)
(* if all slots are taken and none is held by a probe in flight, each was  *)
(* confirmed, and the last success would have closed the circuit.          *)
(***************************************************************************)
THEOREM BreakerNoWedge == Spec => []NoWedge
<1>1. BreakerInv => NoWedge
  <2> SUFFICES ASSUME BreakerInv, cb.state = "HALF_OPEN", lost = 0, probes = {}
               PROVE  CanExecute(cb)
    BY DEF NoWedge
  <2>1. cb.halfOpenCalls = confirmed /\ confirmed <= cb.successes
    <3>1. Cardinality(probes) = 0
      BY FS_EmptySet
    <3> QED
      BY <3>1 DEF BreakerInv, SlotsAccounted, TypeOK
  <2>2. cb.successes \in 0 .. HalfOpenMaxCalls - 1
    BY DEF BreakerInv, TypeOK, BreakerRecord
  <2>3. cb.halfOpenCalls < HalfOpenMaxCalls
    BY <2>1, <2>2 DEF BreakerInv, TypeOK
  <2>4. StateRead(cb) = cb
    BY DEF StateRead
  <2> QED
    BY <2>3, <2>4 DEF CanExecute
<1> QED
  BY <1>1, BreakerInvariance, PTL

(***************************************************************************)
(* An OPEN circuit whose timeout runs admits nothing, and stays OPEN when  *)
(* a call that was admitted earlier ends, however it ends.                 *)
(***************************************************************************)
THEOREM BreakerOpenShuts == Spec => OpenShuts
<1>1. ASSUME BreakerInv, [Next]_vars, cb.state = "OPEN", cb.since <= RecoveryTimeout
      PROVE  /\ running' \subseteq running
             /\ running' # running => cb'.state = "OPEN"
  <2>1. GoodBreaker(cb)
    BY <1>1, BreakerInvSplit
  <2>2. cb.since \in Int
    BY <2>1 DEF GoodBreaker, BreakerRecord, Expired
  <2>3. StateRead(cb) = cb /\ ~CanExecute(cb)
    BY <1>1, <2>2 DEF StateRead, CanExecute
  <2>4. RecordSuccess(cb).state = "OPEN"
    BY <1>1 DEF RecordSuccess
  <2>5. /\ RecordFailure(cb).state = "OPEN"
        /\ RecordFailure(RecordFailure(cb)).state = "OPEN"
    <3>1. ASSUME NEW b \in BreakerRecord, b.state = "OPEN"
          PROVE  RecordFailure(b).state = "OPEN"
      BY <3>1 DEF RecordFailure, Failed, BreakerRecord
    <3>2. RecordFailure(cb) \in BreakerRecord
      BY <2>1, RecordFailureGood DEF GoodBreaker
    <3> QED
      BY <1>1, <2>1, <3>1, <3>2 DEF GoodBreaker
  <2>6. ASSUME NEW c \in Calls, RAdmit(c) PROVE FALSE
    BY <2>3, <2>6 DEF RAdmit, Admit
  <2>7. ASSUME NEW c \in Calls, RSucceed(c) \/ RFail(c) \/ RCancel(c)
        PROVE  running' \subseteq running /\ cb'.state = "OPEN"
    BY <1>1, <2>4, <2>5, <2>7
    DEF RSucceed, RFail, RCancel, Succeed, Fail, FailUnexpected, Cancel
  <2>8. CASE ROther \/ UNCHANGED vars
    BY <2>8 DEF ROther, ConnectFailure, ReadState, Reset, Tick, vars
  <2> QED
    BY <1>1, <2>6, <2>7, <2>8 DEF Next
<1> QED
  BY <1>1, BreakerInvariance, PTL DEF Spec, OpenShuts
=============================================================================
