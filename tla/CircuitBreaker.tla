---------------------------- MODULE CircuitBreaker ----------------------------
(***************************************************************************)
(* One circuit breaker and the calls that pass through it.  A call is in   *)
(* flight from the await in execute() to the moment its outcome is         *)
(* recorded; any number of calls interleave at that await, and a call may  *)
(* outlive the state it was admitted in.                                   *)
(***************************************************************************)
EXTENDS Breaker, FiniteSets

CONSTANTS
    Calls,        \* tasks that may call execute(), concurrently
    Cancellable   \* those whose task may be cancelled during the await

ASSUME CallsAssumption ==
    /\ IsFiniteSet(Calls)
    /\ Cancellable \subseteq Calls

VARIABLES
    cb,       \* the breaker, a BreakerRecord
    running   \* the calls between admission and outcome

breakerVars == <<cb, running>>

InitBreaker ==
    /\ cb = NewBreaker
    /\ running = {}

-----------------------------------------------------------------------------
(***************************************************************************)
(* execute() up to the awaited provider call.  can_execute() and the slot  *)
(* increment run without a suspension point between them.  A refused call  *)
(* raises CircuitOpenError and changes nothing.                            *)
(***************************************************************************)
Admit(c) ==
    /\ c \notin running
    /\ CanExecute(cb)
    /\ cb' = Admitted(cb)
    /\ running' = running \union {c}

\* The awaited call returns: record_success().
Succeed(c) ==
    /\ c \in running
    /\ cb' = RecordSuccess(cb)
    /\ running' = running \ {c}

\* The awaited call raises a ProviderError: record_failure(), re-raise.
Fail(c) ==
    /\ c \in running
    /\ cb' = RecordFailure(cb)
    /\ running' = running \ {c}

\* Any other exception: execute() records it and so does fetch_quote().
FailUnexpected(c) ==
    /\ c \in running
    /\ cb' = RecordFailure(RecordFailure(cb))
    /\ running' = running \ {c}

\* CancelledError is not an Exception: neither outcome is recorded.
Cancel(c) ==
    /\ c \in running \cap Cancellable
    /\ running' = running \ {c}
    /\ UNCHANGED cb

(***************************************************************************)
(* fetch_quote() awaits provider.connect() between can_execute() and       *)
(* execute(); when it raises, record_failure() is called for a request     *)
(* that was never admitted, in whatever state the breaker is by then.      *)
(***************************************************************************)
ConnectFailure ==
    /\ cb' = RecordFailure(cb)
    /\ UNCHANGED running

\* can_execute(), is_open, to_dict(), list_status(): the state is read.
ReadState ==
    /\ cb' = StateRead(cb)
    /\ UNCHANGED running

Reset ==
    /\ cb' = ManualReset(cb)
    /\ UNCHANGED running

Tick ==
    /\ cb.since < Expired
    /\ cb' = Age(cb)
    /\ UNCHANGED running

NextBreaker ==
    \/ \E c \in Calls : \/ Admit(c)
                        \/ Succeed(c)
                        \/ Fail(c)
                        \/ FailUnexpected(c)
                        \/ Cancel(c)
    \/ ConnectFailure
    \/ ReadState
    \/ Reset
    \/ Tick

SpecBreaker == InitBreaker /\ [][NextBreaker]_breakerVars
=============================================================================
