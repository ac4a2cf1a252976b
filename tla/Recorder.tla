------------------------------- MODULE Recorder -------------------------------
(***************************************************************************)
(* The on-demand sampler of src/engine/live_candles.py for one symbol: a   *)
(* background task that is started by a read, samples the live price in a  *)
(* loop, flushes its candles to the durable store and stops when nobody    *)
(* has read for a while.  Its readers are the two endpoints of             *)
(* superbrain.py that start it, /intraday and /stream.                     *)
(*                                                                         *)
(* Every step runs to the next await of the code.  Times are kept as ages  *)
(* in one unit (some seconds); both saturate where the code stops          *)
(* comparing.  What a sample holds is the matter of SampleStream, what a   *)
(* flush writes that of IntradayStore.                                     *)
(***************************************************************************)
EXTENDS Integers, FiniteSets

CONSTANTS
    Tasks,          \* identities of recorder tasks, reused once a task is done
    NoTask,         \* _tasks holds no task for the key
    Readers,        \* clients of /intraday and /stream
    IdleTTL,        \* IDLE_TTL_S
    FlushInterval   \* STORE_FLUSH_INTERVAL_S

ASSUME RecorderAssumption ==
    /\ IsFiniteSet(Tasks)
    /\ NoTask \notin Tasks
    /\ IdleTTL \in Nat \ {0}
    /\ FlushInterval \in Nat

VARIABLES
    db,          \* "up" if db_manager.is_connected; settled at start-up
    task,        \* _tasks[key]
    pc,          \* where each task is suspended
    sinceRead,   \* age of _last_read[key]
    sinceFlush,  \* age of the local last_flush of each task
    reader       \* what each client is doing

vars == <<db, task, pc, sinceRead, sinceFlush, reader>>

Idle == IdleTTL + 1

Older(age, cap) == IF age < cap THEN age + 1 ELSE cap

Init ==
    /\ db \in {"up", "down"}
    /\ task = NoTask
    /\ pc = [t \in Tasks |-> "done"]
    /\ sinceRead = Idle
    /\ sinceFlush = [t \in Tasks |-> 0]
    /\ reader = [r \in Readers |-> "away"]

-----------------------------------------------------------------------------
(***************************************************************************)
(* ensure_recorder(): touch _last_read, then start a task unless one is    *)
(* registered and not done.  The lock is never held across an await, so    *)
(* the call is one step.                                                   *)
(***************************************************************************)
Registered == \E t \in Tasks : task = t /\ pc[t] # "done"

StartTask ==
    \E t \in Tasks :
        /\ pc[t] = "done"
        /\ task' = t
        /\ pc' = [pc EXCEPT ![t] = "top"]
        /\ sinceFlush' = [sinceFlush EXCEPT ![t] = 0]

EnsureRecorder_Restart ==
    /\ sinceRead' = 0
    /\ LET going == \E t \in Tasks : task = t /\ pc[t] \notin {"done", "final"}
       IN  \/ going /\ UNCHANGED <<task, pc, sinceFlush>>
           \/ ~going /\ StartTask

EnsureRecorder_NoTouch ==
    /\ UNCHANGED sinceRead
    /\ \/ Registered /\ UNCHANGED <<task, pc, sinceFlush>>
       \/ ~Registered /\ StartTask

EnsureRecorder ==
    /\ sinceRead' = 0
    /\ \/ Registered /\ UNCHANGED <<task, pc, sinceFlush>>
       \/ ~Registered /\ StartTask

\* sb_intraday(): ensure_recorder(), then the await of sample_once().
IntradayCall(r) ==
    /\ reader[r] = "away"
    /\ EnsureRecorder
    /\ reader' = [reader EXCEPT ![r] = "sampling"]
    /\ UNCHANGED db

\* sample_once() is back; build() touches _last_read and the reply is sent.
IntradayReply(r) ==
    /\ reader[r] = "sampling"
    /\ sinceRead' = 0
    /\ reader' = [reader EXCEPT ![r] = "away"]
    /\ UNCHANGED <<db, task, pc, sinceFlush>>

\* sb_stream(): ensure_recorder() once, before the generator starts.
StreamOpen(r) ==
    /\ reader[r] = "away"
    /\ EnsureRecorder
    /\ reader' = [reader EXCEPT ![r] = "streaming"]
    /\ UNCHANGED db

\* One round of the generator: latest_tick() touches _last_read.
StreamPoll(r) ==
    /\ reader[r] = "streaming"
    /\ sinceRead' = 0
    /\ UNCHANGED <<db, task, pc, sinceFlush, reader>>

\* maxSeconds reached, or the client went away.
StreamClose(r) ==
    /\ reader[r] = "streaming"
    /\ reader' = [reader EXCEPT ![r] = "away"]
    /\ UNCHANGED <<db, task, pc, sinceRead, sinceFlush>>

-----------------------------------------------------------------------------
\* _tasks.pop(key), whichever task is registered.
Leave(t) ==
    /\ pc' = [pc EXCEPT ![t] = "done"]
    /\ task' = NoTask

(***************************************************************************)
(* The top of the loop.  A recorder nobody read for IdleTTL breaks out; in *)
(* the finally block its last flush awaits the database, if there is one,  *)
(* after build() has touched _last_read.                                   *)
(***************************************************************************)
LoopTop_NoBreak(t) ==
    /\ pc[t] = "top"
    /\ pc' = [pc EXCEPT ![t] = "fetch"]
    /\ UNCHANGED <<db, task, sinceRead, sinceFlush, reader>>

LoopTop(t) ==
    /\ pc[t] = "top"
    /\ \/ /\ sinceRead <= IdleTTL
          /\ pc' = [pc EXCEPT ![t] = "fetch"]
          /\ UNCHANGED <<task, sinceRead>>
       \/ /\ sinceRead > IdleTTL
          /\ \/ /\ db = "up"
                /\ sinceRead' = 0
                /\ pc' = [pc EXCEPT ![t] = "final"]
                /\ UNCHANGED task
             \/ /\ db = "down"
                /\ Leave(t)
                /\ UNCHANGED sinceRead
    /\ UNCHANGED <<db, sinceFlush, reader>>

(***************************************************************************)
(* The fetch is back, with a tick or with an exception: the loop goes on   *)
(* in either case.  When a flush is due and a database is connected,       *)
(* flush_live_to_store() calls build(), which touches _last_read, and      *)
(* awaits the upsert; without a database it returns at once.               *)
(***************************************************************************)
Sampled(t) ==
    /\ pc[t] = "fetch"
    /\ \/ /\ sinceFlush[t] < FlushInterval
          /\ pc' = [pc EXCEPT ![t] = "sleep"]
          /\ UNCHANGED <<sinceRead, sinceFlush>>
       \/ /\ sinceFlush[t] >= FlushInterval
          /\ sinceFlush' = [sinceFlush EXCEPT ![t] = 0]
          /\ \/ /\ db = "up"
                /\ sinceRead' = 0
                /\ pc' = [pc EXCEPT ![t] = "flush"]
             \/ /\ db = "down"
                /\ pc' = [pc EXCEPT ![t] = "sleep"]
                /\ UNCHANGED sinceRead
    /\ UNCHANGED <<db, task, reader>>

\* The upsert committed or raised; the loop sleeps out its period.
Flushed(t) ==
    /\ pc[t] = "flush"
    /\ pc' = [pc EXCEPT ![t] = "sleep"]
    /\ UNCHANGED <<db, task, sinceRead, sinceFlush, reader>>

Wake(t) ==
    /\ pc[t] = "sleep"
    /\ pc' = [pc EXCEPT ![t] = "top"]
    /\ UNCHANGED <<db, task, sinceRead, sinceFlush, reader>>

\* The last flush is over and the task ends.
Stop(t) ==
    /\ pc[t] = "final"
    /\ Leave(t)
    /\ UNCHANGED <<db, sinceRead, sinceFlush, reader>>

(***************************************************************************)
(* One unit of time.  A stream polls several times in a unit (every 0.2    *)
(* s), so time does not pass it by.                                        *)
(***************************************************************************)
Tick ==
    /\ (\E r \in Readers : reader[r] = "streaming") => sinceRead = 0
    /\ sinceRead' = Older(sinceRead, Idle)
    /\ sinceFlush' = [t \in Tasks |-> Older(sinceFlush[t], FlushInterval)]
    /\ UNCHANGED <<db, task, pc, reader>>

Loop(t) == LoopTop(t) \/ Sampled(t) \/ Flushed(t) \/ Wake(t) \/ Stop(t)

Next ==
    \/ \E r \in Readers : \/ IntradayCall(r)
                          \/ IntradayReply(r)
                          \/ StreamOpen(r)
                          \/ StreamPoll(r)
                          \/ StreamClose(r)
    \/ \E t \in Tasks : Loop(t)
    \/ Tick

Spec == Init /\ [][Next]_vars

(***************************************************************************)
(* The event loop runs every task that is ready, every upstream and        *)
(* database call returns or times out, streams poll and time passes.       *)
(* Clients owe nothing: they may stay away or keep a stream open.          *)
(***************************************************************************)
FairSpec ==
    /\ Spec
    /\ WF_vars(Tick)
    /\ \A t \in Tasks : WF_vars(Loop(t))
    /\ \A r \in Readers : WF_vars(StreamPoll(r)) /\ WF_vars(IntradayReply(r))

-----------------------------------------------------------------------------
TypeOK ==
    /\ db \in {"up", "down"}
    /\ task \in Tasks \cup {NoTask}
    /\ pc \in [Tasks -> {"done", "top", "fetch", "flush", "sleep", "final"}]
    /\ sinceRead \in 0 .. Idle
    /\ sinceFlush \in [Tasks -> 0 .. FlushInterval]
    /\ reader \in [Readers -> {"away", "sampling", "streaming"}]

(***************************************************************************)
(* The registry and the event loop agree: a recorder task is running       *)
(* exactly when it is the one _tasks names (ensure_recorder, the pop at    *)
(* the end of _record_loop).  So a symbol never has two samplers, status() *)
(* never reports a dead one, and the pop, which takes whatever is there,   *)
(* never drops somebody else's task.                                       *)
(***************************************************************************)
RegistryExact ==
    \A t \in Tasks : pc[t] # "done" <=> task = t

\* The two together, which a step preserves.
RecorderInv == TypeOK /\ RegistryExact

(***************************************************************************)
(* "A per-symbol background recorder ... auto-stops after an idle window   *)
(* (no reads)" (live_candles.py lines 9-10): once every client is gone for *)
(* good, the recorder ends.                                                *)
(***************************************************************************)
IdleStops ==
    <>[](\A r \in Readers : reader[r] = "away") => <>[](task = NoTask)

(***************************************************************************)
(* What the code guarantees of it: without a database, where nothing but   *)
(* a reader's build() or latest_tick() touches _last_read.                 *)
(***************************************************************************)
IdleStopsWithoutDb == db = "down" => IdleStops

(***************************************************************************)
(* An open /stream is fed (sb_stream's "keep the recorder alive", and      *)
(* ensure_recorder's "Start (or keep alive) the background sampler"): as   *)
(* long as it stays open, the recorder fetches again and again.            *)
(***************************************************************************)
StreamIsFed ==
    \A r \in Readers :
        []<>(\/ reader[r] # "streaming"
             \/ \E t \in Tasks : pc[t] = "fetch")

(***************************************************************************)
(* What the code guarantees of it: without a database the last flush does  *)
(* not suspend, so ensure_recorder() never meets a recorder that has       *)
(* already decided to stop.                                                *)
(***************************************************************************)
StreamIsFedWithoutDb == db = "down" => StreamIsFed
=============================================================================
