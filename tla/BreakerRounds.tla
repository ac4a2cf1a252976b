----------------------------- MODULE BreakerRounds -----------------------------
(***************************************************************************)
(* CircuitBreaker with history variables that tell apart what the code     *)
(* does not: the probes of the present half-open round from the stragglers *)
(* of earlier states.  A round begins when an expired OPEN breaker is read *)
(* and ends when the breaker closes or reopens.                            *)
(***************************************************************************)
EXTENDS CircuitBreaker

VARIABLES
    probes,      \* calls in flight that this round admitted
    confirmed,   \* probes of this round that succeeded
    lost         \* probes of this round that were cancelled

history == <<probes, confirmed, lost>>

vars == <<cb, running, probes, confirmed, lost>>

Init ==
    /\ InitBreaker
    /\ probes = {}
    /\ confirmed = 0
    /\ lost = 0

(***************************************************************************)
(* How the history follows a step of the breaker: within a round the       *)
(* probes become p, the counters c and l; otherwise there is no round.     *)
(***************************************************************************)
Round(p, c, l) ==
    /\ probes'    = IF cb'.state = "HALF_OPEN" THEN p ELSE {}
    /\ confirmed' = IF cb'.state = "HALF_OPEN" THEN c ELSE 0
    /\ lost'      = IF cb'.state = "HALF_OPEN" THEN l ELSE 0

One(c) == IF c \in probes THEN 1 ELSE 0

RAdmit(c) ==
    Admit(c) /\ Round(probes \union {c}, confirmed, lost)

RSucceed(c) ==
    Succeed(c) /\ Round(probes \ {c}, confirmed + One(c), lost)

RFail(c) ==
    /\ Fail(c) \/ FailUnexpected(c)
    /\ Round(probes \ {c}, confirmed, lost)

RCancel(c) ==
    Cancel(c) /\ Round(probes \ {c}, confirmed, lost + One(c))

ROther ==
    /\ ConnectFailure \/ ReadState \/ Reset \/ Tick
    /\ Round(probes, confirmed, lost)

Next ==
    \/ \E c \in Calls : RAdmit(c) \/ RSucceed(c) \/ RFail(c) \/ RCancel(c)
    \/ ROther

Spec == Init /\ [][Next]_vars

-----------------------------------------------------------------------------
(***************************************************************************)
(* Fairness.  Time passes; the poller that owns c calls again as long as   *)
(* it is let through (the recorders sample twice a second, the warm loop   *)
(* for as long as the process lives); and a call ends, since every HTTP    *)
(* client of the providers has a timeout.  Nothing forces a cancellation,  *)
(* a reset, or which way a call ends.                                      *)
(***************************************************************************)
Fairness ==
    /\ WF_vars(Tick /\ ROther)
    /\ \A c \in Calls : /\ WF_vars(RAdmit(c))
                        /\ WF_vars(RSucceed(c) \/ RFail(c))

FairSpec == Spec /\ Fairness

-----------------------------------------------------------------------------
TypeOK ==
    /\ cb \in BreakerRecord
    /\ running \in SUBSET Calls
    /\ probes \in SUBSET running
    /\ confirmed \in Nat
    /\ lost \in Nat

(***************************************************************************)
(* The circuit is CLOSED exactly while fewer than failure_threshold        *)
(* failures are on the books.  Neither a late success, nor a failure that  *)
(* arrives OPEN, nor a half-open failure, nor a reset, whatever the        *)
(* order, leaves a CLOSED breaker at its threshold or an OPEN one below.   *)
(***************************************************************************)
ClosedBelowThreshold ==
    cb.state = "CLOSED" <=> cb.failures < FailureThreshold

(***************************************************************************)
(* While a breaker is HALF_OPEN no failure, of a probe or of a straggler   *)
(* from an earlier state or of a connect(), has been recorded for longer   *)
(* than recovery_timeout.                                                  *)
(***************************************************************************)
HalfOpenIsQuiet ==
    cb.state = "HALF_OPEN" => cb.since > RecoveryTimeout

(***************************************************************************)
(* Every probe slot that the round has given up (_half_open_calls) is held *)
(* by a probe in flight, or its probe succeeded and is in _success_count,  *)
(* or its probe was cancelled.  No other interleaving consumes a slot.     *)
(***************************************************************************)
SlotsAccounted ==
    cb.state = "HALF_OPEN" =>
        /\ cb.halfOpenCalls = Cardinality(probes) + confirmed + lost
        /\ confirmed <= cb.successes

\* Outside a round the history is empty.
NoRound ==
    cb.state # "HALF_OPEN" => probes = {} /\ confirmed = 0 /\ lost = 0

(***************************************************************************)
(* The inductive invariant of the breaker: however calls, stragglers,      *)
(* cancellations, connect() failures and resets interleave, the counters   *)
(* stay in range, the state agrees with the failures on the books, a       *)
(* HALF_OPEN breaker is quiet and accounts for its slots, and a round      *)
(* leaves nothing behind (record_success, record_failure, execute).        *)
(***************************************************************************)
BreakerInv ==
    /\ TypeOK
    /\ ClosedBelowThreshold
    /\ HalfOpenIsQuiet
    /\ SlotsAccounted
    /\ NoRound

(***************************************************************************)
(* A half-open breaker none of whose probes was cancelled can make         *)
(* progress: can_execute() admits another call or a probe is in flight.    *)
(***************************************************************************)
NoWedge ==
    cb.state = "HALF_OPEN" /\ lost = 0 => CanExecute(cb) \/ probes # {}

(***************************************************************************)
(* A failing provider is cut off for a full recovery_timeout: an OPEN      *)
(* breaker lets a call in, and changes state other than by reset(), only   *)
(* when no failure was recorded for longer than the timeout.  Calls that   *)
(* were admitted before and end while it is OPEN do not close it.          *)
(***************************************************************************)
OpenShuts ==
    [][ cb.state = "OPEN" /\ cb.since <= RecoveryTimeout =>
            /\ running' \subseteq running
            /\ running' # running => cb'.state = "OPEN" ]_vars

\* From some time on no call and no connect() fails.
OutageEnds == <>[][~ConnectFailure /\ \A c \in Calls : ~RFail(c)]_vars

(***************************************************************************)
(* "Self-Healing ... auto-recovery" (README.md line 58): once the provider *)
(* has stopped failing, the breaker is CLOSED again and again.             *)
(***************************************************************************)
RecoversAfterOutage ==
    OutageEnds => []<>(cb.state = "CLOSED")

(***************************************************************************)
(* What the code guarantees of it: the breaker recovers if none of its     *)
(* half-open probes is ever cancelled (execute() lines 128-134), whatever  *)
(* stragglers, connect() failures and resets came before.                  *)
(***************************************************************************)
RecoversUnlessCancelled ==
    OutageEnds /\ [](lost = 0) => []<>(cb.state = "CLOSED")
=============================================================================
