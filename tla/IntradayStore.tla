----------------------------- MODULE IntradayStore -----------------------------
(***************************************************************************)
(* The path of one symbol's 1-second candles from the in-memory ring of    *)
(* live_candles.py to the durable store of intraday_store.py.              *)
(*                                                                         *)
(* A bar's contents are the samples recorded in its second, and all that   *)
(* matters of them is how many there are: build() is a function of the     *)
(* samples, so a bar with fewer samples is a stale version of it.  Seconds *)
(* are numbered from 1.  flush_live_to_store() takes its snapshot of the   *)
(* ring before its first await; the database commits, and the coroutine    *)
(* resumes and moves the high-water mark, at two later times.  The ring    *)
(* and the mark are lost with the process, the store is not.               *)
(***************************************************************************)
EXTENDS Integers, FiniteSets

CONSTANTS
    Flushers,     \* tasks that flush this symbol: on-demand and watchlist recorder
    MaxSecond,    \* bound: seconds of the session
    MaxSamples    \* bound: samples in one second

ASSUME StoreAssumption ==
    /\ IsFiniteSet(Flushers)
    /\ MaxSecond \in Nat \ {0}
    /\ MaxSamples \in Nat \ {0}

Seconds == 1 .. MaxSecond

VARIABLES
    now,     \* the current second
    ring,    \* ring[t]: samples of second t in memory
    hwm,     \* _LAST_FLUSH_TS of the key, 0 when it has none
    store,   \* store[t]: samples behind the row of second t, 0 for no row
    flush    \* per flusher: idle, or the rows it carries and how far it is

vars == <<now, ring, hwm, store, flush>>

Counts == 0 .. MaxSamples

Idle == [stage |-> "idle", rows |-> [t \in Seconds |-> 0], last |-> 0]

Init ==
    /\ now = 1
    /\ ring = [t \in Seconds |-> 0]
    /\ hwm = 0
    /\ store = [t \in Seconds |-> 0]
    /\ flush = [f \in Flushers |-> Idle]

\* The bars build() returns: the seconds that have a sample.
Bars == {t \in Seconds : ring[t] > 0}

-----------------------------------------------------------------------------
\* record(): a sample is stamped with the present time.
Record ==
    /\ ring[now] < MaxSamples
    /\ ring' = [ring EXCEPT ![now] = @ + 1]
    /\ UNCHANGED <<now, hwm, store, flush>>

NextSecond ==
    /\ now < MaxSecond
    /\ now' = now + 1
    /\ UNCHANGED <<ring, hwm, store, flush>>

\* flush_live_to_store() up to its first await: the rows at or after the mark.
FlushBegin_SkipForming(f) ==
    /\ flush[f].stage = "idle"
    /\ Bars # {}
    /\ \E last \in Bars :
        /\ \A t \in Bars : t <= last
        /\ flush' = [flush EXCEPT ![f] =
                       [stage |-> "sent",
                        rows  |-> [t \in Seconds |-> IF t > hwm THEN ring[t] ELSE 0],
                        last  |-> last]]
    /\ UNCHANGED <<now, ring, hwm, store>>

FlushBegin(f) ==
    /\ flush[f].stage = "idle"
    /\ Bars # {}
    /\ \E last \in Bars :
        /\ \A t \in Bars : t <= last
        /\ flush' = [flush EXCEPT ![f] =
                       [stage |-> "sent",
                        rows  |-> [t \in Seconds |-> IF t >= hwm THEN ring[t] ELSE 0],
                        last  |-> last]]
    /\ UNCHANGED <<now, ring, hwm, store>>

\* The database commits the upsert: every row sent replaces the stored one.
Commit_Replaces(f) ==
    /\ flush[f].stage = "sent"
    /\ store' = flush[f].rows
    /\ flush' = [flush EXCEPT ![f].stage = "committed"]
    /\ UNCHANGED <<now, ring, hwm>>

Commit(f) ==
    /\ flush[f].stage = "sent"
    /\ store' = [t \in Seconds |-> IF flush[f].rows[t] > 0
                                   THEN flush[f].rows[t] ELSE store[t]]
    /\ flush' = [flush EXCEPT ![f].stage = "committed"]
    /\ UNCHANGED <<now, ring, hwm>>

\* The flusher resumes after the commit and moves the mark.
FlushEnd(f) ==
    /\ flush[f].stage = "committed"
    /\ hwm' = flush[f].last
    /\ flush' = [flush EXCEPT ![f] = Idle]
    /\ UNCHANGED <<now, ring, store>>

\* The upsert, or the close of the session after the commit, raises.
FlushFails_Marks(f) ==
    /\ flush[f].stage # "idle"
    /\ hwm' = flush[f].last
    /\ flush' = [flush EXCEPT ![f] = Idle]
    /\ UNCHANGED <<now, ring, store>>

FlushFails(f) ==
    /\ flush[f].stage # "idle"
    /\ flush' = [flush EXCEPT ![f] = Idle]
    /\ UNCHANGED <<now, ring, hwm, store>>

\* The process dies and comes up again, not within the second.
Restart ==
    /\ now < MaxSecond
    /\ now' = now + 1
    /\ ring' = [t \in Seconds |-> 0]
    /\ hwm' = 0
    /\ flush' = [f \in Flushers |-> Idle]
    /\ UNCHANGED store

Next ==
    \/ Record
    \/ NextSecond
    \/ Restart
    \/ \E f \in Flushers : \/ FlushBegin(f)
                           \/ Commit(f)
                           \/ FlushEnd(f)
                           \/ FlushFails(f)

Spec == Init /\ [][Next]_vars

-----------------------------------------------------------------------------
TypeOK ==
    /\ now \in Seconds
    /\ ring \in [Seconds -> Counts]
    /\ hwm \in 0 .. MaxSecond
    /\ store \in [Seconds -> Counts]
    /\ flush \in [Flushers -> [stage : {"idle", "sent", "committed"},
                               rows  : [Seconds -> Counts],
                               last  : 0 .. MaxSecond]]

(***************************************************************************)
(* "The last (forming) bar is re-flushed once next cycle so its final      *)
(* value is corrected" (intraday_store.py lines 71-72): a bar older than   *)
(* the high-water mark, which no later flush sends again, is in the store  *)
(* with every sample the ring has of it.                                   *)
(***************************************************************************)
MarkedBarsAreFinal ==
    \A t \in Seconds : t < hwm /\ ring[t] > 0 => store[t] = ring[t]

(***************************************************************************)
(* "Safe to call repeatedly during a session" (flush_live_to_store): no    *)
(* flush replaces a stored row by an older snapshot of the same second,    *)
(* not after a failed flush and not after a restart.                       *)
(***************************************************************************)
StoredNeverShrinks ==
    [][\A t \in Seconds : store[t] <= store'[t]]_vars

(***************************************************************************)
(* What makes them hold when one task flushes the symbol.  The rows in     *)
(* flight are a snapshot of the ring: final for every second before the    *)
(* one it was taken in, and never behind the store.  Once they are         *)
(* committed, every bar up to the mark to come is stored as sent.          *)
(***************************************************************************)
SnapshotOK(f) ==
    LET s == flush[f]
    IN  s.stage # "idle" =>
          /\ s.last <= now
          /\ \A t \in Seconds : s.rows[t] <= ring[t]
          /\ \A t \in Seconds : t < s.last /\ t >= hwm => s.rows[t] = ring[t]
          /\ \A t \in Seconds : s.rows[t] > 0 => store[t] <= s.rows[t]
          /\ s.stage = "committed" =>
               \A t \in Seconds : s.rows[t] > 0 => store[t] = s.rows[t]

StoreInv ==
    /\ TypeOK
    /\ hwm <= now
    /\ \A t \in Seconds : t > now => ring[t] = 0 /\ store[t] = 0
    /\ store[now] <= ring[now]
    /\ \A t \in Seconds : ring[t] > 0 => store[t] <= ring[t]
    /\ MarkedBarsAreFinal
    /\ \A f \in Flushers : SnapshotOK(f)
=============================================================================
