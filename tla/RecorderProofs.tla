---------------------------- MODULE RecorderProofs ----------------------------
(***************************************************************************)
(* Proofs about live prices.  Of Recorder: the task registry is exact for  *)
(* any number of task identities and readers, with or without a database,  *)
(* whatever the idle window and the flush interval.  Of LiveQuotes:        *)
(* callers share one fetch per symbol, as SingleFlight has it, none is     *)
(* left waiting, and no opening price older than the session before the    *)
(* last is given out, for any symbols, exchanges and requests.             *)
(***************************************************************************)
EXTENDS Recorder, LiveQuotes, TLAPS

(***************************************************************************)
(* ensure_recorder() keeps the types and the registry: it starts a task    *)
(* only when the registered one, and so every one, is done.                *)
(***************************************************************************)
LEMMA EnsureKeeps ==
    ASSUME RecorderInv, EnsureRecorder
    PROVE  /\ task' \in Tasks \cup {NoTask}
           /\ pc' \in [Tasks -> {"done", "top", "fetch", "flush", "sleep", "final"}]
           /\ sinceRead' \in 0 .. Idle
           /\ sinceFlush' \in [Tasks -> 0 .. FlushInterval]
           /\ RegistryExact'
<1>1. 0 \in 0 .. Idle /\ 0 \in 0 .. FlushInterval
    BY RecorderAssumption DEF Idle
<1>2. CASE Registered /\ UNCHANGED <<task, pc, sinceFlush>>
    BY <1>1, <1>2 DEF RecorderInv, TypeOK, EnsureRecorder, RegistryExact
<1>3. CASE ~Registered /\ StartTask
  <2>1. PICK t \in Tasks :
            /\ pc[t] = "done"
            /\ task' = t
            /\ pc' = [pc EXCEPT ![t] = "top"]
            /\ sinceFlush' = [sinceFlush EXCEPT ![t] = 0]
      BY <1>3 DEF StartTask
  <2>2. \A u \in Tasks : pc[u] = "done"
      BY <1>3 DEF Registered, RecorderInv, RegistryExact
  <2> QED
      BY <1>1, <2>1, <2>2 DEF RecorderInv, TypeOK, EnsureRecorder, RegistryExact
<1> QED
    BY <1>2, <1>3 DEF EnsureRecorder

(***************************************************************************)
(* A step of the recorder task itself keeps the registry: the task that    *)
(* pops the entry is the one it names.                                     *)
(***************************************************************************)
LEMMA LoopKeeps ==
    ASSUME NEW t \in Tasks, RecorderInv, Loop(t) PROVE RecorderInv'
<1>1. 0 \in 0 .. Idle /\ 0 \in 0 .. FlushInterval
    BY RecorderAssumption DEF Idle
<1>2. task = t /\ task # NoTask
    BY RecorderAssumption
       DEF RecorderInv, RegistryExact, Loop, LoopTop, Sampled, Flushed, Wake, Stop
<1>3. CASE LoopTop(t)
    BY <1>1, <1>2, <1>3, RecorderAssumption
       DEF RecorderInv, TypeOK, RegistryExact, LoopTop, Leave
<1>4. CASE Sampled(t)
    BY <1>1, <1>2, <1>4 DEF RecorderInv, TypeOK, RegistryExact, Sampled
<1>5. CASE Flushed(t)
    BY <1>2, <1>5 DEF RecorderInv, TypeOK, RegistryExact, Flushed
<1>6. CASE Wake(t)
    BY <1>2, <1>6 DEF RecorderInv, TypeOK, RegistryExact, Wake
<1>7. CASE Stop(t)
    BY <1>2, <1>7, RecorderAssumption
       DEF RecorderInv, TypeOK, RegistryExact, Stop, Leave
<1> QED
    BY <1>3, <1>4, <1>5, <1>6, <1>7 DEF Loop

-----------------------------------------------------------------------------
(***************************************************************************)
(* The types and the registry hold in every reachable state.               *)
(***************************************************************************)
THEOREM RecorderInvariance == Spec => []RecorderInv
<1>1. Init => RecorderInv
    BY RecorderAssumption DEF Init, RecorderInv, TypeOK, RegistryExact, Idle
<1>2. ASSUME RecorderInv, [Next]_vars PROVE RecorderInv'
  <2>1. 0 \in 0 .. Idle
      BY RecorderAssumption DEF Idle
  <2>2. ASSUME NEW r \in Readers, IntradayCall(r) PROVE RecorderInv'
      BY <1>2, <2>2, EnsureKeeps DEF IntradayCall, RecorderInv, TypeOK
  <2>3. ASSUME NEW r \in Readers, IntradayReply(r) PROVE RecorderInv'
      BY <1>2, <2>1, <2>3 DEF IntradayReply, RecorderInv, TypeOK, RegistryExact
  <2>4. ASSUME NEW r \in Readers, StreamOpen(r) PROVE RecorderInv'
      BY <1>2, <2>4, EnsureKeeps DEF StreamOpen, RecorderInv, TypeOK
  <2>5. ASSUME NEW r \in Readers, StreamPoll(r) PROVE RecorderInv'
      BY <1>2, <2>1, <2>5 DEF StreamPoll, RecorderInv, TypeOK, RegistryExact
  <2>6. ASSUME NEW r \in Readers, StreamClose(r) PROVE RecorderInv'
      BY <1>2, <2>6 DEF StreamClose, RecorderInv, TypeOK, RegistryExact
  <2>7. ASSUME NEW t \in Tasks, Loop(t) PROVE RecorderInv'
      BY <1>2, <2>7, LoopKeeps
  <2>8. CASE Tick
    <3>1. sinceRead' \in 0 .. Idle
        BY <1>2, <2>8, RecorderAssumption DEF RecorderInv, TypeOK, Tick, Older, Idle
    <3>2. sinceFlush' \in [Tasks -> 0 .. FlushInterval]
        BY <1>2, <2>8, RecorderAssumption DEF RecorderInv, TypeOK, Tick, Older
    <3> QED
        BY <1>2, <2>8, <3>1, <3>2 DEF RecorderInv, TypeOK, RegistryExact, Tick
  <2>9. CASE UNCHANGED vars
      BY <1>2, <2>9 DEF vars, RecorderInv, TypeOK, RegistryExact
  <2> QED
      BY <1>2, <2>2, <2>3, <2>4, <2>5, <2>6, <2>7, <2>8, <2>9 DEF Next
<1> QED
    BY <1>1, <1>2, PTL DEF Spec

(***************************************************************************)
(* A symbol never has two samplers and the registry never names a dead     *)
(* one, for any number of tasks and readers and any intervals.             *)
(***************************************************************************)
THEOREM RecorderRegistryExact == Spec => []RegistryExact
<1>1. RecorderInv => RegistryExact
    BY DEF RecorderInv
<1> QED
    BY <1>1, RecorderInvariance, PTL

-----------------------------------------------------------------------------
(***************************************************************************)
(* The live quotes, whose callers share a fetch as the readers above share *)
(* a recorder: for any symbols, exchanges, requests and times to live.     *)
(***************************************************************************)
(***************************************************************************)
(* The inductive invariant.  The registry and the tasks name each other    *)
(* (Linked): a fetch that runs is the registered one of its key and what   *)
(* is registered runs for its key, so there is one per key; and whoever    *)
(* waits does so for the registered one (ProcsGood), so no one is missed   *)
(* when it ends.                                                           *)
(***************************************************************************)
MaybeTick == QuoteTick \cup {None}

KeptGood ==
    /\ now \in 0 .. MaxTime
    /\ DOMAIN cache = Keys
    /\ \A k \in Keys : cache[k] # None => cache[k].tick \in QuoteTick

ParkedGood == \A s \in Symbols : parked[s] # None => parked[s].q \in QuoteTick

OpensGood == \A s \in Symbols : sessionOpen[s] # None => sessionOpen[s].open \in Nat

FetchRecord == [key : Keys, all : BOOLEAN]

Linked ==
    /\ inflight \in [Keys -> FetchTasks \cup {None}]
    /\ fetches \in [FetchTasks -> FetchRecord \cup {None}]
    /\ \A t \in FetchTasks : fetches[t] # None => inflight[fetches[t].key] = t
    /\ \A k \in Keys : inflight[k] # None =>
           fetches[inflight[k]] # None /\ fetches[inflight[k]].key = k

ProcRecord ==
    [pc : {"idle", "quote", "batch", "live", "open", "dead"}, ex : Exchanges, fast : BOOLEAN,
     by : [Symbols -> MaybeTick], got : [Symbols -> MaybeTick],
     need : [Symbols -> FetchTasks \cup {None}], day : Nat, since : Nat]

WaitPcs == {"quote", "live", "open"}

\* A caller in the middle of something: each of its opens is for a quote it has.
OpensWanted(q) ==
    q.pc = "open" => \A s \in Symbols : q.got[s] # None \/ q.need[s] # None => q.by[s] # None

WaitsForRegistered(q) ==
    q.pc \in WaitPcs => \A s \in Symbols : q.need[s] # None => inflight[<<q.ex, s>>] = q.need[s]

ProcsGood ==
    /\ proc \in [Procs -> ProcRecord]
    /\ \A r \in Requests : proc[r].pc # "dead"
    /\ \A p \in Procs : OpensWanted(proc[p]) /\ WaitsForRegistered(proc[p])

QuotesInv == KeptGood /\ ParkedGood /\ OpensGood /\ Linked /\ ProcsGood

\* The number of a session is a number.
LEMMA SessionNat == ASSUME LiveConstants, now \in 0 .. MaxTime
                    PROVE  Day(now) \in Nat /\ Session(now) \in Nat
<1> DEFINE q == now \div DayLen
<1>1. now \in Nat /\ DayLen \in Nat /\ DayLen > 0
  BY DEF LiveConstants
<1>2. q \in Int /\ DayLen * q <= now /\ now < DayLen * q + DayLen
  BY <1>1
<1> HIDE DEF q
<1>3. q >= 0
  <2> SUFFICES ASSUME q < 0 PROVE FALSE
    BY <1>2
  <2>1. -q - 1 \in Nat
    BY <1>2
  <2>2. DayLen * (-q - 1) >= 0
    BY <1>1, <2>1
  <2>3. DayLen * (-q - 1) = -(DayLen * q) - DayLen
    BY <1>1, <1>2
  <2>4. DayLen * q \in Int
    BY <1>1, <1>2
  <2> QED BY <1>1, <1>2, <2>2, <2>3, <2>4
<1>4. q \in Nat /\ q + 1 \in Nat /\ q + 0 \in Nat
  BY <1>2, <1>3
<1> QED
  BY <1>4 DEF q, Day, Session

\* What the callers can be set to.
LEMMA IdleProc ==
    ASSUME LiveConstants
    PROVE  /\ NoRequest \in ProcRecord /\ NoRequest.pc = "idle"
           /\ Nothing \in [Symbols -> MaybeTick]
           /\ Nothing \in [Symbols -> FetchTasks \cup {None}]
<1>1. Nothing \in [Symbols -> MaybeTick] /\ Nothing \in [Symbols -> FetchTasks \cup {None}]
  BY DEF Nothing, MaybeTick
<1> QED
  BY <1>1 DEF NoRequest, ProcRecord, LiveConstants

\* A caller goes on without waiting for a fetch.
LEMMA ProcSet ==
    ASSUME ProcsGood, NEW p \in Procs, NEW q \in ProcRecord, q.pc \notin WaitPcs,
           p \in Requests => q.pc # "dead", proc' = [proc EXCEPT ![p] = q], inflight' = inflight
    PROVE  ProcsGood'
<1>1. q.pc # "open"
  BY DEF WaitPcs
<1>2. /\ proc' \in [Procs -> ProcRecord] /\ proc'[p] = q
      /\ \A x \in Procs : x # p => proc'[x] = proc[x]
  BY DEF ProcsGood
<1>3. \A r \in Requests : r \in Procs
  BY DEF Procs
<1>4. \A r \in Requests : proc'[r].pc # "dead"
  BY <1>2, <1>3 DEF ProcsGood
<1>5. OpensWanted(q) /\ WaitsForRegistered(q)
  BY <1>1 DEF OpensWanted, WaitsForRegistered
<1>6. \A x \in Procs : OpensWanted(proc'[x]) /\ WaitsForRegistered(proc'[x])
  BY <1>2, <1>5 DEF ProcsGood
<1>7. \A x \in Procs : (OpensWanted(proc[x]) /\ WaitsForRegistered(proc[x]))'
  BY <1>6 DEF OpensWanted, WaitsForRegistered
<1> QED
  BY <1>2, <1>4, <1>7 DEF ProcsGood

\* _live_quote() for several symbols: who is not served from the cache waits for the
\* registered fetch of its key, started here if there was none.
LEMMA Awaited ==
    ASSUME LiveConstants, KeptGood, Linked, ProcsGood, NEW p \in Procs, NEW S \in SUBSET Symbols,
           NEW rec \in ProcRecord, rec.pc \in WaitPcs,
           rec.pc = "open" => \A s \in S : rec.by[s] # None,
           Await(p, S, rec)
    PROVE  Linked' /\ ProcsGood'
<1> DEFINE start == {k \in {rec.ex} \X S : ~Fresh(k) /\ inflight[k] = None}
           new == CHOOSE f \in FreeTasks(start) : TRUE
           A == [s \in Symbols |-> IF s \in S /\ ~Fresh(<<rec.ex, s>>) THEN inflight'[<<rec.ex, s>>] ELSE None]
           B == [s \in Symbols |-> IF s \in S /\ Fresh(<<rec.ex, s>>) THEN cache[<<rec.ex, s>>].tick ELSE None]
           q == [rec EXCEPT !.need = A, !.got = B]
<1>1. /\ FreeTasks(start) # {}
      /\ inflight' = [k \in Keys |-> IF k \in start THEN new[k] ELSE inflight[k]]
      /\ fetches' = [t \in FetchTasks |-> IF \E k \in start : new[k] = t
                                          THEN [key |-> CHOOSE k \in start : new[k] = t, all |-> FALSE]
                                          ELSE fetches[t]]
      /\ proc' = [proc EXCEPT ![p] = q]
  BY DEF Await, Wait
<1>2. rec.ex \in Exchanges
  BY DEF ProcRecord
<1>3. \A k \in start : k \in Keys /\ inflight[k] = None
  BY <1>2 DEF Keys
<1>4. /\ \A k \in start : new[k] \in FetchTasks /\ fetches[new[k]] = None
      /\ \A j, k \in start : new[j] = new[k] => j = k
  <2>1. new \in FreeTasks(start)
    BY <1>1
  <2> HIDE DEF new, start
  <2> QED BY <2>1 DEF FreeTasks
<1>5. \A s \in Symbols : <<rec.ex, s>> \in Keys
  BY <1>2 DEF Keys
<1> HIDE DEF start, new
<1>6. None \notin FetchTasks /\ None \notin FetchRecord
  BY DEF LiveConstants, FetchRecord, Keys
<1>7. /\ inflight \in [Keys -> FetchTasks \cup {None}]
      /\ fetches \in [FetchTasks -> FetchRecord \cup {None}]
      /\ \A t \in FetchTasks : fetches[t] # None => inflight[fetches[t].key] = t
      /\ \A k \in Keys : inflight[k] # None =>
           fetches[inflight[k]] # None /\ fetches[inflight[k]].key = k
  BY DEF Linked
<1>8. inflight' \in [Keys -> FetchTasks \cup {None}]
  BY <1>1, <1>4, <1>7
<1>9. \A k \in start : fetches'[new[k]] = [key |-> k, all |-> FALSE]
  <2> TAKE k \in start
  <2>1. (CHOOSE j \in start : new[j] = new[k]) = k
    BY <1>4
  <2> QED BY <1>1, <1>4, <2>1
<1>10. \A t \in FetchTasks : fetches'[t] = fetches[t] \/ \E k \in start : t = new[k]
  BY <1>1
<1>11. \A k \in start : [key |-> k, all |-> FALSE] \in FetchRecord /\ fetches'[new[k]].key = k
                        /\ fetches'[new[k]] # None
  <2> TAKE k \in start
  <2>1. [key |-> k, all |-> FALSE] \in FetchRecord
    BY <1>3 DEF FetchRecord
  <2> QED BY <1>6, <1>9, <2>1
<1>12. fetches' \in [FetchTasks -> FetchRecord \cup {None}]
  <2>1. ASSUME NEW t \in FetchTasks PROVE fetches'[t] \in FetchRecord \cup {None}
    <3>1. CASE fetches'[t] = fetches[t]
      BY <1>7, <3>1
    <3>2. CASE \E k \in start : t = new[k]
      <4>1. PICK k \in start : t = new[k]
        BY <3>2
      <4> QED BY <1>9, <1>11, <4>1
    <3> QED BY <1>10, <3>1, <3>2
  <2>2. fetches' = [t \in FetchTasks |-> fetches'[t]]
    BY <1>1
  <2> QED BY <2>1, <2>2
<1>13. \A k \in Keys : /\ k \in start => inflight'[k] = new[k]
                       /\ k \notin start => inflight'[k] = inflight[k]
  BY <1>1
<1>14. ASSUME NEW t \in FetchTasks, fetches'[t] # None PROVE inflight'[fetches'[t].key] = t
  <2>1. CASE \E k \in start : t = new[k]
    <3>1. PICK k \in start : t = new[k]
      BY <2>1
    <3> QED BY <1>3, <1>11, <1>13, <3>1
  <2>2. CASE ~ \E k \in start : t = new[k]
    <3>1. fetches'[t] = fetches[t] /\ fetches[t] \in FetchRecord /\ inflight[fetches[t].key] = t
      BY <1>7, <1>10, <1>14, <2>2
    <3>2. fetches[t].key \in Keys
      BY <3>1 DEF FetchRecord
    <3>3. fetches[t].key \notin start
      BY <1>3, <1>6, <3>1
    <3> QED BY <1>13, <3>1, <3>2, <3>3
  <2> QED BY <2>1, <2>2
<1>15. ASSUME NEW k \in Keys, inflight'[k] # None
       PROVE  fetches'[inflight'[k]] # None /\ fetches'[inflight'[k]].key = k
  <2>1. CASE k \in start
    BY <1>11, <1>13, <2>1
  <2>2. CASE k \notin start
    <3>1. inflight'[k] = inflight[k] /\ inflight[k] \in FetchTasks
      BY <1>7, <1>13, <1>15, <2>2
    <3>2. fetches[inflight[k]] # None /\ fetches[inflight[k]].key = k
      BY <1>7, <1>15, <3>1
    <3>3. ~ \E j \in start : inflight[k] = new[j]
      BY <1>4, <3>2
    <3>4. fetches'[inflight[k]] = fetches[inflight[k]]
      BY <1>10, <3>1, <3>3
    <3> QED BY <3>1, <3>2, <3>4
  <2> QED BY <2>1, <2>2
<1>16. Linked'
  BY <1>8, <1>12, <1>14, <1>15 DEF Linked
<1>17. A \in [Symbols -> FetchTasks \cup {None}]
  BY <1>5, <1>8
<1>18. B \in [Symbols -> MaybeTick]
  <2>1. \A s \in Symbols : Fresh(<<rec.ex, s>>) => cache[<<rec.ex, s>>].tick \in QuoteTick
    BY <1>5 DEF KeptGood, Fresh
  <2> QED BY <2>1 DEF MaybeTick
<1>19. /\ \A s \in Symbols : A[s] # None => s \in S /\ A[s] = inflight'[<<rec.ex, s>>]
       /\ \A s \in Symbols : B[s] # None => s \in S
  OBVIOUS
<1> HIDE DEF A, B
<1>20. /\ q \in ProcRecord /\ q.need = A /\ q.got = B
       /\ q.pc = rec.pc /\ q.ex = rec.ex /\ q.by = rec.by
  <2> DEFINE q1 == [rec EXCEPT !.need = A]
             q2 == [q1 EXCEPT !.got = B]
  <2>1. q1 \in ProcRecord /\ q1.need = A /\ q1.pc = rec.pc /\ q1.ex = rec.ex /\ q1.by = rec.by
    BY <1>17 DEF ProcRecord
  <2>2. q = q2
    OBVIOUS
  <2> HIDE DEF q1
  <2>3. /\ q2 \in ProcRecord /\ q2.need = A /\ q2.got = B /\ q2.pc = rec.pc /\ q2.ex = rec.ex
        /\ q2.by = rec.by
    BY <1>18, <2>1 DEF ProcRecord
  <2> HIDE DEF q2, q
  <2> QED BY <2>2, <2>3
<1> HIDE DEF q
<1>21. /\ proc' \in [Procs -> ProcRecord] /\ proc'[p] = q
       /\ \A x \in Procs : x # p => proc'[x] = proc[x]
  BY <1>1, <1>20 DEF ProcsGood
<1>22. \A r \in Requests : proc'[r].pc # "dead"
  <2>1. \A r \in Requests : r \in Procs
    BY DEF Procs
  <2>2. q.pc # "dead"
    BY <1>20 DEF WaitPcs
  <2> QED BY <1>21, <2>1, <2>2 DEF ProcsGood
<1>23. OpensWanted(proc[p])'
  <2>1. \A s \in Symbols : rec.pc = "open" /\ (A[s] # None \/ B[s] # None) => rec.by[s] # None
    BY <1>19
  <2> QED BY <1>20, <1>21, <2>1 DEF OpensWanted
<1>24. WaitsForRegistered(proc[p])'
  BY <1>19, <1>20, <1>21 DEF WaitsForRegistered
<1>25. ASSUME NEW x \in Procs, x # p PROVE (OpensWanted(proc[x]) /\ WaitsForRegistered(proc[x]))'
  <2>1. proc'[x] = proc[x] /\ OpensWanted(proc[x]) /\ WaitsForRegistered(proc[x])
        /\ proc[x] \in ProcRecord
    BY <1>21, <1>25 DEF ProcsGood
  <2>2. proc[x].ex \in Exchanges /\ proc[x].need \in [Symbols -> FetchTasks \cup {None}]
    BY <2>1 DEF ProcRecord
  <2>3. ASSUME NEW s \in Symbols, proc[x].pc \in WaitPcs, proc[x].need[s] # None
        PROVE  inflight'[<<proc[x].ex, s>>] = proc[x].need[s]
    <3>1. inflight[<<proc[x].ex, s>>] = proc[x].need[s]
      BY <2>1, <2>3 DEF WaitsForRegistered
    <3>2. <<proc[x].ex, s>> \in Keys
      BY <2>2 DEF Keys
    <3>3. <<proc[x].ex, s>> \notin start
      BY <1>3, <2>3, <3>1
    <3> QED BY <1>13, <3>1, <3>2, <3>3
  <2> QED BY <2>1, <2>3 DEF OpensWanted, WaitsForRegistered
<1>26. ProcsGood'
  BY <1>21, <1>22, <1>23, <1>24, <1>25 DEF ProcsGood
<1> QED
  BY <1>16, <1>26

\* _do_live_fetch() ends: everyone who waits for it gets its tick, and nobody else.
LEMMA FetchEnds ==
    ASSUME LiveConstants, Linked, ProcsGood, NEW t \in FetchTasks, fetches[t] # None,
           NEW x \in MaybeTick, proc' = Delivered(t, x), inflight' = Popped(t),
           fetches' = [fetches EXCEPT ![t] = None]
    PROVE  Linked' /\ ProcsGood'
<1> DEFINE k == fetches[t].key
           s0 == k[2]
<1>1. /\ inflight \in [Keys -> FetchTasks \cup {None}]
      /\ fetches \in [FetchTasks -> FetchRecord \cup {None}]
      /\ \A u \in FetchTasks : fetches[u] # None => inflight[fetches[u].key] = u
      /\ \A j \in Keys : inflight[j] # None =>
           fetches[inflight[j]] # None /\ fetches[inflight[j]].key = j
  BY DEF Linked
<1>2. None \notin FetchTasks /\ t # None
  BY DEF LiveConstants
<1>3. fetches[t] \in FetchRecord /\ k \in Keys /\ inflight[k] = t
  BY <1>1 DEF FetchRecord
<1>4. s0 \in Symbols
  BY <1>3 DEF Keys
<1> HIDE DEF k
<1>5. inflight' = [inflight EXCEPT ![k] = None]
  BY DEF Popped, k
<1>6. /\ inflight' \in [Keys -> FetchTasks \cup {None}] /\ inflight'[k] = None
      /\ \A j \in Keys : j # k => inflight'[j] = inflight[j]
  BY <1>1, <1>3, <1>5
<1>7. /\ fetches' \in [FetchTasks -> FetchRecord \cup {None}] /\ fetches'[t] = None
      /\ \A u \in FetchTasks : u # t => fetches'[u] = fetches[u]
  BY <1>1
<1>8. Linked'
  <2>1. ASSUME NEW u \in FetchTasks, fetches'[u] # None PROVE inflight'[fetches'[u].key] = u
    <3>1. u # t /\ fetches'[u] = fetches[u] /\ fetches[u] \in FetchRecord /\ inflight[fetches[u].key] = u
      BY <1>1, <1>7, <2>1
    <3>2. fetches[u].key \in Keys /\ fetches[u].key # k
      BY <1>3, <3>1 DEF FetchRecord
    <3> QED BY <1>6, <3>1, <3>2
  <2>2. ASSUME NEW j \in Keys, inflight'[j] # None
        PROVE  fetches'[inflight'[j]] # None /\ fetches'[inflight'[j]].key = j
    <3>1. j # k /\ inflight'[j] = inflight[j] /\ inflight[j] \in FetchTasks
      BY <1>1, <1>6, <2>2
    <3>2. fetches[inflight[j]] # None /\ fetches[inflight[j]].key = j
      BY <1>1, <2>2, <3>1
    <3>3. inflight[j] # t
      BY <3>1, <3>2 DEF k
    <3> QED BY <1>7, <3>1, <3>2, <3>3
  <2> QED BY <1>6, <1>7, <2>1, <2>2 DEF Linked
<1> HIDE DEF s0
<1>9. ASSUME NEW p \in Procs
      PROVE  /\ proc'[p] \in ProcRecord /\ proc'[p].pc = proc[p].pc /\ proc'[p].ex = proc[p].ex
             /\ proc'[p].by = proc[p].by
             /\ \A s \in Symbols : proc'[p].need[s] # None => proc'[p].need[s] = proc[p].need[s]
             /\ \A s \in Symbols : proc[p].pc \in WaitPcs => proc'[p].need[s] # t
             /\ \A s \in Symbols : proc'[p].got[s] # None => proc[p].got[s] # None \/ proc[p].need[s] # None
  <2> DEFINE o == proc[p]
  <2>1. /\ o \in ProcRecord /\ OpensWanted(o) /\ WaitsForRegistered(o)
    BY <1>9 DEF ProcsGood
  <2>2. o.ex \in Exchanges /\ o.need \in [Symbols -> FetchTasks \cup {None}] /\ o.got \in [Symbols -> MaybeTick]
    BY <2>1 DEF ProcRecord
  <2>3. ASSUME NEW s \in Symbols, o.pc \in WaitPcs, o.need[s] = t PROVE s = s0
    <3>1. inflight[<<o.ex, s>>] = t /\ <<o.ex, s>> \in Keys
      BY <1>2, <2>1, <2>2, <2>3 DEF WaitsForRegistered, Keys
    <3>2. k = <<o.ex, s>>
      BY <1>1, <1>2, <3>1 DEF k
    <3> QED BY <3>2 DEF s0
  <2>4. CASE o.pc \in WaitPcs /\ \E s \in Symbols : o.need[s] = t
    <3> DEFINE A == [o.need EXCEPT ![s0] = None]
               B == [o.got EXCEPT ![s0] = x]
               q1 == [o EXCEPT !.need = A]
               q2 == [q1 EXCEPT !.got = B]
    <3>1. proc'[p] = [o EXCEPT !.need[s0] = None, !.got[s0] = x]
      BY <1>9, <2>4 DEF Delivered, Waiting, WaitPcs, s0, k
    <3>2. proc'[p] = q2
      BY <2>1, <3>1 DEF ProcRecord
    <3>3. /\ A \in [Symbols -> FetchTasks \cup {None}] /\ B \in [Symbols -> MaybeTick]
          /\ A[s0] = None /\ \A s \in Symbols : s # s0 => A[s] = o.need[s] /\ B[s] = o.got[s]
      BY <1>4, <2>2
    <3> HIDE DEF A, B
    <3>4. q1 \in ProcRecord /\ q1.need = A /\ q1.pc = o.pc /\ q1.ex = o.ex /\ q1.by = o.by
      BY <2>1, <3>3 DEF ProcRecord
    <3> HIDE DEF q1
    <3>5. /\ q2 \in ProcRecord /\ q2.need = A /\ q2.got = B /\ q2.pc = o.pc /\ q2.ex = o.ex
          /\ q2.by = o.by
      BY <3>3, <3>4 DEF ProcRecord
    <3>6. o.need[s0] # None
      BY <1>2, <2>3, <2>4
    <3>7. \A s \in Symbols : A[s] # None => A[s] = o.need[s]
      BY <3>3
    <3>8. \A s \in Symbols : A[s] # t
      BY <1>2, <2>3, <2>4, <3>3
    <3>9. \A s \in Symbols : B[s] # None => o.got[s] # None \/ o.need[s] # None
      BY <3>3, <3>6
    <3> HIDE DEF q2, o
    <3>10. /\ proc'[p].need = A /\ proc'[p].got = B /\ proc'[p].pc = o.pc /\ proc'[p].ex = o.ex
           /\ proc'[p].by = o.by /\ proc'[p] \in ProcRecord
      BY <3>2, <3>5
    <3> QED BY <3>7, <3>8, <3>9, <3>10 DEF o
  <2>5. CASE ~(o.pc \in WaitPcs /\ \E s \in Symbols : o.need[s] = t)
    <3>1. proc'[p] = o
      BY <1>9, <2>5 DEF Delivered, Waiting, WaitPcs
    <3> QED BY <2>1, <2>5, <3>1
  <2> QED BY <2>4, <2>5
<1>10. proc' \in [Procs -> ProcRecord]
  <2>1. proc' = [p \in Procs |-> proc'[p]]
    BY DEF Delivered
  <2> QED BY <1>9, <2>1
<1>11. \A r \in Requests : proc'[r].pc # "dead"
  <2>1. \A r \in Requests : r \in Procs
    BY DEF Procs
  <2> QED BY <1>9, <2>1 DEF ProcsGood
<1>12. ASSUME NEW p \in Procs PROVE (OpensWanted(proc[p]) /\ WaitsForRegistered(proc[p]))'
  <2>1. OpensWanted(proc[p]) /\ WaitsForRegistered(proc[p]) /\ proc[p].ex \in Exchanges
    BY <1>12 DEF ProcsGood, ProcRecord
  <2>2. OpensWanted(proc[p])'
    <3>1. ASSUME NEW s \in Symbols, proc'[p].pc = "open", proc'[p].got[s] # None \/ proc'[p].need[s] # None
          PROVE  proc'[p].by[s] # None
      <4>1. proc[p].pc = "open" /\ (proc[p].got[s] # None \/ proc[p].need[s] # None)
        BY <1>9, <3>1
      <4> QED BY <1>9, <2>1, <4>1 DEF OpensWanted
    <3> QED BY <3>1 DEF OpensWanted
  <2>3. WaitsForRegistered(proc[p])'
    <3>1. ASSUME NEW s \in Symbols, proc'[p].pc \in WaitPcs, proc'[p].need[s] # None
          PROVE  inflight'[<<proc'[p].ex, s>>] = proc'[p].need[s]
      <4>1. /\ proc[p].pc \in WaitPcs /\ proc'[p].need[s] = proc[p].need[s] /\ proc[p].need[s] # t
            /\ proc[p].need[s] # None /\ proc'[p].ex = proc[p].ex
        BY <1>9, <3>1
      <4>2. inflight[<<proc[p].ex, s>>] = proc[p].need[s]
        BY <2>1, <4>1 DEF WaitsForRegistered
      <4>3. <<proc[p].ex, s>> \in Keys /\ <<proc[p].ex, s>> # k
        BY <1>3, <2>1, <4>1, <4>2 DEF Keys
      <4> QED BY <1>6, <4>1, <4>2, <4>3
    <3> QED BY <3>1 DEF WaitsForRegistered
  <2> QED BY <2>2, <2>3
<1>13. ProcsGood'
  BY <1>10, <1>11, <1>12 DEF ProcsGood
<1> QED
  BY <1>8, <1>13

\* The end of a bulk path: the warm loop parks quotes, a request is done.
LEMMA Finished ==
    ASSUME LiveConstants, ProcsGood, ParkedGood, NEW p \in Procs,
           NEW by \in [Symbols -> MaybeTick], Finish(p, by), inflight' = inflight
    PROVE  ProcsGood' /\ ParkedGood'
<1>1. NoRequest \in ProcRecord /\ NoRequest.pc = "idle"
  BY IdleProc
<1>2. proc' = [proc EXCEPT ![p] = NoRequest]
  BY DEF Finish
<1> DEFINE idle == NoRequest
<1>3. idle \in ProcRecord /\ idle.pc \notin WaitPcs /\ idle.pc # "dead" /\ proc' = [proc EXCEPT ![p] = idle]
  BY <1>1, <1>2 DEF WaitPcs
<1> HIDE DEF idle
<1>4. ProcsGood'
  BY <1>3, ProcSet
<1>5. ParkedGood'
  <2>1. CASE p = Warm
    <3>1. parked' = [s \in Symbols |-> IF by[s] = None THEN parked[s] ELSE [at |-> now, q |-> by[s]]]
      BY <2>1 DEF Finish
    <3>2. \A s \in Symbols : by[s] # None => by[s] \in QuoteTick
      BY DEF MaybeTick
    <3> QED BY <3>1, <3>2 DEF ParkedGood
  <2>2. CASE p # Warm
    BY <2>2 DEF Finish, ParkedGood
  <2> QED BY <2>1, <2>2
<1> QED
  BY <1>4, <1>5

\* Filling in the opens that are kept leaves quotes quotes.
LEMMA FilledTicks ==
    ASSUME QuotesInv, NEW by \in [Symbols -> MaybeTick]
    PROVE  [s \in Symbols |-> IF by[s] # None /\ by[s].open = NoOpen /\ Dated(s)
                              THEN [by[s] EXCEPT !.open = sessionOpen[s].open] ELSE by[s]]
             \in [Symbols -> MaybeTick]
<1> DEFINE filled == [s \in Symbols |->
                        IF by[s] # None /\ by[s].open = NoOpen /\ Dated(s)
                        THEN [by[s] EXCEPT !.open = sessionOpen[s].open] ELSE by[s]]
<1>1. ASSUME NEW s \in Symbols PROVE filled[s] \in MaybeTick
  <2>1. CASE by[s] # None /\ by[s].open = NoOpen /\ Dated(s)
    <3>1. by[s] \in QuoteTick
      BY <2>1 DEF MaybeTick
    <3>2. sessionOpen[s].open \in Nat
      BY <2>1 DEF Dated, QuotesInv, OpensGood
    <3>3. [by[s] EXCEPT !.open = sessionOpen[s].open] \in QuoteTick
      BY <3>1, <3>2 DEF QuoteTick
    <3> QED BY <2>1, <3>3 DEF MaybeTick
  <2>2. CASE ~(by[s] # None /\ by[s].open = NoOpen /\ Dated(s))
    BY <2>2
  <2> QED BY <2>1, <2>2
<1> QED
  BY <1>1

\* The caller that _fill_open() leaves at its await.
LEMMA OpenRecord ==
    ASSUME LiveConstants, QuotesInv, NEW p \in Procs, NEW filled \in [Symbols -> MaybeTick]
    PROVE  LET rec == [proc[p] EXCEPT !.pc = "open", !.by = filled, !.day = Day(now)]
           IN  rec \in ProcRecord /\ rec.pc = "open" /\ rec.by = filled
<1> DEFINE rec == [proc[p] EXCEPT !.pc = "open", !.by = filled, !.day = Day(now)]
           q1 == [proc[p] EXCEPT !.pc = "open"]
           q2 == [q1 EXCEPT !.by = filled]
           q3 == [q2 EXCEPT !.day = Day(now)]
<1>1. proc[p] \in ProcRecord
  BY DEF QuotesInv, ProcsGood
<1>2. q1 \in ProcRecord /\ q1.pc = "open"
  BY <1>1 DEF ProcRecord
<1>3. rec = q3
  OBVIOUS
<1> HIDE DEF q1
<1>4. q2 \in ProcRecord /\ q2.pc = "open" /\ q2.by = filled
  BY <1>2 DEF ProcRecord
<1> HIDE DEF q2
<1>5. Day(now) \in Nat
  BY SessionNat DEF QuotesInv, KeptGood
<1>6. q3 \in ProcRecord /\ q3.pc = "open" /\ q3.by = filled
  BY <1>4, <1>5 DEF ProcRecord
<1> HIDE DEF q3, rec
<1>7. rec \in ProcRecord /\ rec.pc = "open" /\ rec.by = filled
  BY <1>3, <1>6
<1> QED
  BY <1>7 DEF rec

\* _fill_open(): with nothing left to fetch the quotes go out, otherwise their
\* opens are awaited.
LEMMA OpenFilled ==
    ASSUME LiveConstants, QuotesInv, NEW p \in Procs, NEW by \in [Symbols -> MaybeTick],
           FillOpen(p, by), UNCHANGED <<now, cache, sessionOpen>>
    PROVE  QuotesInv'
<1> DEFINE filled == [s \in Symbols |->
                        IF by[s] # None /\ by[s].open = NoOpen /\ Dated(s)
                        THEN [by[s] EXCEPT !.open = sessionOpen[s].open] ELSE by[s]]
           wanted == {s \in Symbols : filled[s] # None /\ filled[s].open = NoOpen}
           rec == [proc[p] EXCEPT !.pc = "open", !.by = filled, !.day = Day(now)]
           all == IF proc[p].fast THEN by ELSE filled
<1>1. \/ Finish(p, all) /\ UNCHANGED <<inflight, fetches>>
      \/ Await(p, wanted, rec) /\ UNCHANGED parked
  BY DEF FillOpen
<1>2. filled \in [Symbols -> MaybeTick]
  BY FilledTicks
<1>3. wanted \in SUBSET Symbols /\ \A s \in wanted : filled[s] # None
  OBVIOUS
<1> HIDE DEF filled, wanted
<1>4. all \in [Symbols -> MaybeTick]
  BY <1>2
<1>5. proc[p] \in ProcRecord
  BY DEF QuotesInv, ProcsGood
<1>6. KeptGood' /\ OpensGood'
  BY DEF QuotesInv, KeptGood, OpensGood
<1>7. CASE Finish(p, all) /\ UNCHANGED <<inflight, fetches>>
  <2> HIDE DEF all
  <2>1. ProcsGood' /\ ParkedGood'
    BY <1>4, <1>7, Finished DEF QuotesInv
  <2>2. Linked'
    BY <1>7 DEF QuotesInv, Linked
  <2> QED BY <1>6, <2>1, <2>2 DEF QuotesInv
<1>8. CASE Await(p, wanted, rec) /\ UNCHANGED parked
  <2>6. rec \in ProcRecord /\ rec.pc = "open" /\ rec.by = filled
    BY <1>2, OpenRecord
  <2> HIDE DEF rec
  <2>7. rec.pc \in WaitPcs /\ \A s \in wanted : rec.by[s] # None
    BY <1>3, <2>6 DEF WaitPcs
  <2>8. Linked' /\ ProcsGood'
    BY <1>3, <1>8, <2>6, <2>7, Awaited DEF QuotesInv
  <2>9. ParkedGood'
    BY <1>8 DEF QuotesInv, ParkedGood
  <2> QED BY <1>6, <2>8, <2>9 DEF QuotesInv
<1> QED
  BY <1>1, <1>7, <1>8

\* A step of _do_live_fetch().
LEMMA FetchKeeps ==
    ASSUME LiveConstants, QuotesInv, NEW t \in FetchTasks, Fetch(t)
    PROVE  QuotesInv'
<1>1. fetches[t] # None /\ fetches[t] \in FetchRecord /\ fetches[t].key \in Keys
  <2>1. fetches[t] # None
    BY DEF Fetch, FetchTick, FetchNothing, FetchAgain
  <2> QED BY <2>1 DEF QuotesInv, Linked, FetchRecord
<1>2. ASSUME NEW open \in Nat \cup {NoOpen}, FetchTick(t, open) PROVE QuotesInv'
  <2> DEFINE x == FeedTick(open)
  <2>1. x \in QuoteTick
    BY DEF FeedTick, QuoteTick
  <2>2. /\ cache' = [cache EXCEPT ![fetches[t].key] = [at |-> now, tick |-> x]]
        /\ proc' = Delivered(t, x) /\ inflight' = Popped(t)
        /\ fetches' = [fetches EXCEPT ![t] = None] /\ UNCHANGED <<now, parked, sessionOpen>>
    BY <1>2 DEF FetchTick
  <2> HIDE DEF x
  <2>3. x \in MaybeTick
    BY <2>1 DEF MaybeTick
  <2>4. Linked' /\ ProcsGood'
    BY <1>1, <2>2, <2>3, FetchEnds DEF QuotesInv
  <2>5. KeptGood'
    BY <2>1, <2>2 DEF QuotesInv, KeptGood
  <2>6. ParkedGood' /\ OpensGood'
    BY <2>2 DEF QuotesInv, ParkedGood, OpensGood
  <2> QED BY <2>4, <2>5, <2>6 DEF QuotesInv
<1>3. CASE FetchNothing(t)
  <2>1. /\ proc' = Delivered(t, None) /\ inflight' = Popped(t)
        /\ fetches' = [fetches EXCEPT ![t] = None] /\ UNCHANGED <<now, cache, parked, sessionOpen>>
    BY <1>3 DEF FetchNothing
  <2>2. None \in MaybeTick
    BY DEF MaybeTick
  <2>3. Linked' /\ ProcsGood'
    BY <1>1, <2>1, <2>2, FetchEnds DEF QuotesInv
  <2> QED BY <2>1, <2>3 DEF QuotesInv, KeptGood, ParkedGood, OpensGood
<1>4. CASE FetchAgain(t)
  <2>1. /\ fetches' = [fetches EXCEPT ![t].all = TRUE]
        /\ UNCHANGED <<now, cache, inflight, parked, sessionOpen, proc>>
    BY <1>4 DEF FetchAgain
  <2> DEFINE f == [fetches[t] EXCEPT !.all = TRUE]
  <2>2. f \in FetchRecord /\ f.key = fetches[t].key
    BY <1>1 DEF FetchRecord
  <2>3. fetches' = [fetches EXCEPT ![t] = f]
    BY <2>1
  <2> HIDE DEF f
  <2>4. None \notin FetchRecord
    BY DEF LiveConstants, FetchRecord, Keys
  <2>5. /\ fetches' \in [FetchTasks -> FetchRecord \cup {None}]
        /\ \A u \in FetchTasks : /\ fetches'[u] # None <=> fetches[u] # None
                                 /\ fetches[u] # None => fetches'[u].key = fetches[u].key
    BY <1>1, <2>2, <2>3, <2>4 DEF QuotesInv, Linked
  <2>6. Linked'
    <3>1. \A u \in FetchTasks : fetches'[u] # None => inflight'[fetches'[u].key] = u
      BY <2>1, <2>5 DEF QuotesInv, Linked
    <3>2. \A k \in Keys : inflight'[k] # None =>
             fetches'[inflight'[k]] # None /\ fetches'[inflight'[k]].key = k
      BY <2>1, <2>5 DEF QuotesInv, Linked
    <3> QED BY <2>1, <2>5, <3>1, <3>2 DEF QuotesInv, Linked
  <2>7. ProcsGood'
    BY <2>1 DEF QuotesInv, ProcsGood, OpensWanted, WaitsForRegistered
  <2> QED BY <2>1, <2>6, <2>7 DEF QuotesInv, KeptGood, ParkedGood, OpensGood
<1>5. Session(now) \in Nat
  BY SessionNat DEF QuotesInv, KeptGood
<1> QED
  BY <1>2, <1>3, <1>4, <1>5 DEF Fetch

\* _batch_quotes() with the rows of the batch feed, and with the live quotes.
LEMMA BatchKeeps ==
    ASSUME LiveConstants, QuotesInv, NEW p \in Procs,
           \/ \E R \in BatchRows(p) : Batch(p, R)
           \/ LiveDone(p)
    PROVE  QuotesInv'
<1>1. /\ proc[p] \in ProcRecord
      /\ proc[p].by \in [Symbols -> MaybeTick] /\ proc[p].got \in [Symbols -> MaybeTick]
  BY DEF QuotesInv, ProcsGood, ProcRecord
<1>2. ASSUME NEW R, Batch(p, R) PROVE QuotesInv'
  <2> DEFINE missing == {s \in Symbols : proc[p].by[s] = None}
             by == [s \in Symbols |-> IF s \in R \cap missing THEN BatchTick ELSE proc[p].by[s]]
             rec == [proc[p] EXCEPT !.pc = "live", !.by = by]
  <2>1. /\ \/ FillOpen(p, by)
           \/ Await(p, missing \ R, rec) /\ UNCHANGED parked
        /\ UNCHANGED <<now, cache, sessionOpen>>
    BY <1>2 DEF Batch
  <2>2. by \in [Symbols -> MaybeTick]
    <3>1. BatchTick \in MaybeTick
      BY DEF BatchTick, QuoteTick, MaybeTick, NoOpen
    <3> QED BY <1>1, <3>1
  <2>3. missing \ R \in SUBSET Symbols
    OBVIOUS
  <2> HIDE DEF missing, by
  <2>4. CASE FillOpen(p, by)
    BY <2>1, <2>2, <2>4, OpenFilled
  <2>5. CASE Await(p, missing \ R, rec) /\ UNCHANGED parked
    <3> DEFINE q1 == [proc[p] EXCEPT !.pc = "live"]
               q2 == [q1 EXCEPT !.by = by]
    <3>1. q1 \in ProcRecord /\ q1.pc = "live"
      BY <1>1 DEF ProcRecord
    <3>2. rec = q2
      OBVIOUS
    <3> HIDE DEF q1
    <3>3. q2 \in ProcRecord /\ q2.pc = "live"
      BY <2>2, <3>1 DEF ProcRecord
    <3> HIDE DEF q2
    <3>4. rec \in ProcRecord /\ rec.pc = "live"
      BY <3>2, <3>3
    <3> DEFINE S == missing \ R
    <3> HIDE DEF rec
    <3>5. S \in SUBSET Symbols /\ Await(p, S, rec)
      BY <2>3, <2>5
    <3> HIDE DEF S
    <3>6. rec.pc \in WaitPcs /\ rec.pc # "open"
      BY <3>4 DEF WaitPcs
    <3>7. Linked' /\ ProcsGood'
      BY <3>4, <3>5, <3>6, Awaited DEF QuotesInv
    <3> QED BY <2>1, <2>5, <3>7 DEF QuotesInv, KeptGood, ParkedGood, OpensGood
  <2> QED BY <2>1, <2>4, <2>5
<1>3. CASE LiveDone(p)
  <2> DEFINE by == [s \in Symbols |-> IF proc[p].got[s] = None THEN proc[p].by[s] ELSE proc[p].got[s]]
  <2>1. FillOpen(p, by) /\ UNCHANGED <<now, cache, sessionOpen>>
    BY <1>3 DEF LiveDone
  <2>2. by \in [Symbols -> MaybeTick]
    BY <1>1
  <2> HIDE DEF by
  <2> QED BY <2>1, <2>2, OpenFilled
<1> QED
  BY <1>2, <1>3

\* The second half of _fill_open(): the opens that came are kept and go out.
LEMMA OpenDoneKeeps ==
    ASSUME LiveConstants, QuotesInv, NEW p \in Procs, OpenDone(p)
    PROVE  QuotesInv'
<1> DEFINE got == proc[p].got
           by == [s \in Symbols |-> IF ~Opened(got[s]) THEN proc[p].by[s]
                                    ELSE [proc[p].by[s] EXCEPT !.open = got[s].open]]
<1>1. /\ proc[p] \in ProcRecord /\ OpensWanted(proc[p]) /\ proc[p].pc = "open"
      /\ proc[p].by \in [Symbols -> MaybeTick] /\ got \in [Symbols -> MaybeTick]
  BY DEF QuotesInv, ProcsGood, ProcRecord, OpenDone
<1>2. /\ sessionOpen' = [s \in Symbols |-> IF ~Opened(got[s]) THEN sessionOpen[s]
                                           ELSE [day |-> proc[p].day, open |-> got[s].open]]
      /\ Finish(p, by)
      /\ UNCHANGED <<now, cache, inflight, fetches>>
  BY DEF OpenDone
<1>3. \A s \in Symbols : Opened(got[s]) => got[s].open \in Nat /\ proc[p].by[s] \in QuoteTick
  <2> SUFFICES ASSUME NEW s \in Symbols, Opened(got[s])
               PROVE  got[s].open \in Nat /\ proc[p].by[s] \in QuoteTick
    OBVIOUS
  <2>1. got[s] # None /\ got[s].open # NoOpen
    BY DEF Opened
  <2>2. got[s] \in QuoteTick
    BY <1>1, <2>1 DEF MaybeTick
  <2>3. proc[p].by[s] # None
    BY <1>1, <2>1 DEF OpensWanted
  <2> QED BY <1>1, <2>1, <2>2, <2>3 DEF MaybeTick, QuoteTick
<1>4. by \in [Symbols -> MaybeTick]
  <2> SUFFICES ASSUME NEW s \in Symbols PROVE by[s] \in MaybeTick
    OBVIOUS
  <2>1. CASE Opened(got[s])
    <3>1. [proc[p].by[s] EXCEPT !.open = got[s].open] \in QuoteTick
      BY <1>3, <2>1 DEF QuoteTick
    <3> QED BY <2>1, <3>1 DEF MaybeTick
  <2>2. CASE ~Opened(got[s])
    BY <1>1, <2>2
  <2> QED BY <2>1, <2>2
<1>5. OpensGood'
  BY <1>2, <1>3 DEF QuotesInv, OpensGood
<1> HIDE DEF by
<1>6. ProcsGood' /\ ParkedGood'
  BY <1>2, <1>4, Finished DEF QuotesInv
<1>7. KeptGood' /\ Linked'
  BY <1>2 DEF QuotesInv, KeptGood, Linked
<1> QED
  BY <1>5, <1>6, <1>7 DEF QuotesInv

\* A step that leaves the registry, the fetches and what is kept alone.
LEMMA OnlyProc ==
    ASSUME QuotesInv, UNCHANGED <<now, cache, inflight, fetches, parked, sessionOpen>>, ProcsGood'
    PROVE  QuotesInv'
<1>1. KeptGood' /\ ParkedGood' /\ OpensGood'
  BY DEF QuotesInv, KeptGood, ParkedGood, OpensGood
<1>2. Linked'
  BY DEF QuotesInv, Linked
<1> QED
  BY <1>1, <1>2 DEF QuotesInv

\* /quote/{symbol}, from its call to its answer.
LEMMA QuoteKeeps ==
    ASSUME LiveConstants, QuotesInv, NEW r \in Procs,
           \/ \E ex \in Exchanges, s \in Symbols : Quote(r, ex, s)
           \/ QuoteDone(r)
    PROVE  QuotesInv'
<1>1. NoRequest \in ProcRecord /\ NoRequest.pc = "idle"
  BY IdleProc
<1> DEFINE idle == NoRequest
<1>2. ASSUME NEW ex \in Exchanges, NEW s \in Symbols, Quote(r, ex, s) PROVE QuotesInv'
  <2> DEFINE rec == [idle EXCEPT !.pc = "quote", !.ex = ex, !.since = now]
             q1 == [idle EXCEPT !.pc = "quote"]
             q2 == [q1 EXCEPT !.ex = ex]
             q3 == [q2 EXCEPT !.since = now]
  <2>1. Await(r, {s}, rec) /\ UNCHANGED <<now, cache, parked, sessionOpen>>
    BY <1>2 DEF Quote
  <2>2. idle \in ProcRecord
    BY <1>1
  <2> HIDE DEF idle
  <2>3. q1 \in ProcRecord /\ q1.pc = "quote"
    BY <2>2 DEF ProcRecord
  <2>4. rec = q3
    OBVIOUS
  <2> HIDE DEF q1
  <2>5. q2 \in ProcRecord /\ q2.pc = "quote"
    BY <2>3 DEF ProcRecord
  <2> HIDE DEF q2
  <2>5a. q3 \in ProcRecord /\ q3.pc = "quote"
    BY <2>5 DEF ProcRecord, QuotesInv, KeptGood
  <2> HIDE DEF q3
  <2>6. rec \in ProcRecord /\ rec.pc \in WaitPcs /\ rec.pc # "open"
    BY <2>4, <2>5a DEF WaitPcs
  <2> DEFINE S == {s}
  <2> HIDE DEF rec
  <2>7. S \in SUBSET Symbols /\ Await(r, S, rec)
    BY <2>1
  <2> HIDE DEF S
  <2>8. Linked' /\ ProcsGood'
    BY <2>6, <2>7, Awaited DEF QuotesInv
  <2> QED BY <2>1, <2>8 DEF QuotesInv, KeptGood, ParkedGood, OpensGood
<1>3. CASE QuoteDone(r)
  <2>1. /\ proc' = [proc EXCEPT ![r] = idle]
        /\ UNCHANGED <<now, cache, inflight, fetches, parked, sessionOpen>>
    BY <1>3 DEF QuoteDone
  <2>2. idle \in ProcRecord /\ idle.pc \notin WaitPcs /\ idle.pc # "dead"
    BY <1>1 DEF WaitPcs
  <2> HIDE DEF idle
  <2>3. ProcsGood'
    BY <2>1, <2>2, ProcSet DEF QuotesInv
  <2> QED BY <2>1, <2>3, OnlyProc
<1> QED
  BY <1>2, <1>3

\* /quotes, /screen and the warm loop turn to the batch feed.
LEMMA ToBatch ==
    ASSUME LiveConstants, QuotesInv, NEW p \in Procs, NEW ex \in Exchanges, NEW fast \in BOOLEAN,
           NEW by \in [Symbols -> MaybeTick],
           proc' = [proc EXCEPT ![p] = [NoRequest EXCEPT !.pc = "batch", !.ex = ex, !.fast = fast, !.by = by, !.since = now]],
           UNCHANGED <<now, cache, inflight, fetches, parked, sessionOpen>>
    PROVE  QuotesInv'
<1> DEFINE idle == NoRequest
           rec == [idle EXCEPT !.pc = "batch", !.ex = ex, !.fast = fast, !.by = by, !.since = now]
           q1 == [idle EXCEPT !.pc = "batch"]
           q2 == [q1 EXCEPT !.ex = ex]
           q3 == [q2 EXCEPT !.fast = fast]
           q4 == [q3 EXCEPT !.by = by]
           q5 == [q4 EXCEPT !.since = now]
<1>1. idle \in ProcRecord /\ proc' = [proc EXCEPT ![p] = rec]
  BY IdleProc
<1> HIDE DEF idle
<1>2. q1 \in ProcRecord /\ q1.pc = "batch"
  BY <1>1 DEF ProcRecord
<1>3. rec = q5
  OBVIOUS
<1> HIDE DEF q1
<1>4. q2 \in ProcRecord /\ q2.pc = "batch"
  BY <1>2 DEF ProcRecord
<1> HIDE DEF q2
<1>5. q3 \in ProcRecord /\ q3.pc = "batch"
  BY <1>4 DEF ProcRecord
<1> HIDE DEF q3
<1>6. q4 \in ProcRecord /\ q4.pc = "batch"
  BY <1>5 DEF ProcRecord
<1> HIDE DEF q4
<1>6a. q5 \in ProcRecord /\ q5.pc = "batch"
  BY <1>6 DEF ProcRecord, QuotesInv, KeptGood
<1> HIDE DEF q5
<1>7. rec \in ProcRecord /\ rec.pc \notin WaitPcs /\ rec.pc # "dead"
  BY <1>3, <1>6a DEF WaitPcs
<1> HIDE DEF rec
<1>8. ProcsGood'
  BY <1>1, <1>7, ProcSet DEF QuotesInv
<1> QED
  BY <1>8, OnlyProc

\* The start of a bulk path: from the parked quotes, or from nothing.
LEMMA BulkKeeps ==
    ASSUME LiveConstants, QuotesInv, NEW r \in Procs, NEW ex \in Exchanges, NEW fast \in BOOLEAN,
           NEW warm \in BOOLEAN, Bulk(r, ex, fast, warm)
    PROVE  QuotesInv'
<1> DEFINE by == [s \in Symbols |-> IF warm THEN WarmGet(s, fast) ELSE None]
<1>1. by \in [Symbols -> MaybeTick]
  <2>1. \A s \in Symbols : WarmGet(s, fast) \in MaybeTick
    BY DEF WarmGet, MaybeTick, QuotesInv, ParkedGood
  <2> QED BY <2>1 DEF MaybeTick
<1>2. /\ \/ UNCHANGED proc
         \/ proc' = [proc EXCEPT ![r] = [NoRequest EXCEPT !.pc = "batch", !.ex = ex, !.fast = fast, !.by = by, !.since = now]]
      /\ UNCHANGED <<now, cache, inflight, fetches, parked, sessionOpen>>
  BY DEF Bulk
<1> HIDE DEF by
<1>3. CASE UNCHANGED proc
  <2>1. ProcsGood'
    BY <1>2, <1>3 DEF QuotesInv, ProcsGood, OpensWanted, WaitsForRegistered
  <2> QED BY <1>2, <2>1, OnlyProc
<1>4. CASE proc' = [proc EXCEPT ![r] = [NoRequest EXCEPT !.pc = "batch", !.ex = ex, !.fast = fast, !.by = by, !.since = now]]
  BY <1>1, <1>2, <1>4, ToBatch
<1> QED
  BY <1>2, <1>3, <1>4

\* The warm loop's round begins.
LEMMA WarmKeeps == ASSUME LiveConstants, QuotesInv, WarmTop PROVE QuotesInv'
<1> DEFINE idle == NoRequest
           rec == [idle EXCEPT !.pc = "batch", !.fast = WarmFast, !.since = now]
           q1 == [idle EXCEPT !.pc = "batch"]
           q2 == [q1 EXCEPT !.fast = WarmFast]
           q3 == [q2 EXCEPT !.since = now]
<1>1. /\ idle \in ProcRecord /\ proc' = [proc EXCEPT ![Warm] = rec]
      /\ UNCHANGED <<now, cache, inflight, fetches, parked, sessionOpen>>
  BY IdleProc DEF WarmTop
<1> HIDE DEF idle
<1>2. q1 \in ProcRecord /\ q1.pc = "batch"
  BY <1>1 DEF ProcRecord
<1>3. rec = q3
  OBVIOUS
<1> HIDE DEF q1
<1>4. q2 \in ProcRecord /\ q2.pc = "batch"
  BY <1>2 DEF ProcRecord, LiveConstants
<1> HIDE DEF q2
<1>4a. q3 \in ProcRecord /\ q3.pc = "batch"
  BY <1>4 DEF ProcRecord, QuotesInv, KeptGood
<1> HIDE DEF q3
<1>5. rec \in ProcRecord /\ rec.pc \notin WaitPcs /\ rec.pc # "dead"
  BY <1>3, <1>4a DEF WaitPcs
<1> HIDE DEF rec
<1>6. Warm \in Procs
  BY DEF Procs
<1>7. ProcsGood'
  BY <1>1, <1>5, <1>6, ProcSet DEF QuotesInv
<1> QED
  BY <1>1, <1>7, OnlyProc

\* A request is cancelled with the fetches it awaits and all who await one of them:
\* nobody is left waiting, and no registration is left without its fetch.
LEMMA CancelKeeps ==
    ASSUME LiveConstants, QuotesInv, NEW r \in Requests, Cancel(r)
    PROVE  QuotesInv'
<1> DEFINE hit == {proc[r].need[s] : s \in Symbols} \cap FetchTasks
           victims == {p \in Procs : Waiting(p) /\ \E s \in Symbols : proc[p].need[s] \in hit}
           dead == [NoRequest EXCEPT !.pc = "dead"]
<1>1. /\ proc' = [p \in Procs |-> IF p = Warm /\ p \in victims THEN dead
                                      ELSE IF p = r \/ p \in victims THEN NoRequest ELSE proc[p]]
      /\ inflight' = [k \in Keys |-> IF inflight[k] \in hit THEN None ELSE inflight[k]]
      /\ fetches' = [t \in FetchTasks |-> IF t \in hit THEN None ELSE fetches[t]]
      /\ UNCHANGED <<now, cache, parked, sessionOpen>>
  BY DEF Cancel
<1>2. hit \subseteq FetchTasks /\ None \notin FetchTasks
  BY DEF LiveConstants
<1> HIDE DEF hit
<1>3. \A p \in Procs : p \notin victims => proc[p].pc \notin WaitPcs \/ \A s \in Symbols : proc[p].need[s] \notin hit
  BY DEF Waiting, WaitPcs
<1> HIDE DEF victims
<1>4. /\ NoRequest \in ProcRecord /\ NoRequest.pc = "idle"
      /\ dead \in ProcRecord /\ dead.pc = "dead"
  <2> DEFINE idle == NoRequest
  <2>1. idle \in ProcRecord /\ idle.pc = "idle"
    BY IdleProc
  <2> HIDE DEF idle
  <2>2. [idle EXCEPT !.pc = "dead"] \in ProcRecord /\ [idle EXCEPT !.pc = "dead"].pc = "dead"
    BY <2>1 DEF ProcRecord
  <2> QED BY <2>1, <2>2 DEF idle
<1> HIDE DEF dead
<1>5. Linked'
  <2>1. /\ inflight \in [Keys -> FetchTasks \cup {None}]
        /\ fetches \in [FetchTasks -> FetchRecord \cup {None}]
        /\ \A t \in FetchTasks : fetches[t] # None => inflight[fetches[t].key] = t
        /\ \A k \in Keys : inflight[k] # None =>
             fetches[inflight[k]] # None /\ fetches[inflight[k]].key = k
    BY DEF QuotesInv, Linked
  <2>2. inflight' \in [Keys -> FetchTasks \cup {None}] /\ fetches' \in [FetchTasks -> FetchRecord \cup {None}]
    BY <1>1, <2>1
  <2>3. ASSUME NEW t \in FetchTasks, fetches'[t] # None PROVE inflight'[fetches'[t].key] = t
    <3>1. t \notin hit /\ fetches'[t] = fetches[t]
      BY <1>1, <2>3
    <3>2. fetches[t] \in FetchRecord /\ inflight[fetches[t].key] = t
      BY <2>1, <2>3, <3>1
    <3>3. fetches[t].key \in Keys
      BY <3>2 DEF FetchRecord
    <3> QED BY <1>1, <3>1, <3>2, <3>3
  <2>4. ASSUME NEW k \in Keys, inflight'[k] # None
        PROVE  fetches'[inflight'[k]] # None /\ fetches'[inflight'[k]].key = k
    <3>1. inflight[k] \notin hit /\ inflight'[k] = inflight[k] /\ inflight[k] \in FetchTasks
      BY <1>1, <2>1, <2>4
    <3> QED BY <1>1, <2>1, <2>4, <3>1
  <2> QED BY <2>2, <2>3, <2>4 DEF Linked
<1>6. proc \in [Procs -> ProcRecord] /\ \A p \in Requests : proc[p].pc # "dead" /\ p \in Procs /\ p # Warm
  BY DEF QuotesInv, ProcsGood, Procs, LiveConstants
<1>7. proc' \in [Procs -> ProcRecord]
  BY <1>1, <1>4, <1>6
<1>8. \A p \in Requests : proc'[p].pc # "dead"
  BY <1>1, <1>4, <1>6
<1>9. ASSUME NEW p \in Procs PROVE (OpensWanted(proc[p]) /\ WaitsForRegistered(proc[p]))'
  <2>1. CASE proc'[p].pc \notin WaitPcs
    BY <2>1 DEF OpensWanted, WaitsForRegistered, WaitPcs
  <2>2. CASE proc'[p].pc \in WaitPcs
    <3>1. p \notin victims /\ proc'[p] = proc[p]
      BY <1>1, <1>4, <1>9, <2>2 DEF WaitPcs
    <3>2. OpensWanted(proc[p]) /\ WaitsForRegistered(proc[p]) /\ proc[p].ex \in Exchanges
      BY <1>6, <1>9 DEF QuotesInv, ProcsGood, ProcRecord
    <3>3. ASSUME NEW s \in Symbols, proc[p].need[s] # None
          PROVE  inflight'[<<proc[p].ex, s>>] = proc[p].need[s]
      <4>1. inflight[<<proc[p].ex, s>>] = proc[p].need[s] /\ proc[p].need[s] \notin hit
        BY <1>3, <1>9, <2>2, <3>1, <3>2, <3>3 DEF WaitsForRegistered
      <4>2. <<proc[p].ex, s>> \in Keys
        BY <3>2 DEF Keys
      <4> QED BY <1>1, <4>1, <4>2
    <3> QED BY <3>1, <3>2, <3>3 DEF OpensWanted, WaitsForRegistered
  <2> QED BY <2>1, <2>2
<1>10. ProcsGood'
  BY <1>7, <1>8, <1>9 DEF ProcsGood
<1> QED
  BY <1>1, <1>5, <1>10 DEF QuotesInv, KeptGood, ParkedGood, OpensGood

\* Time passes: entries are forgotten and none is made.
LEMMA ClockKeeps == ASSUME LiveConstants, QuotesInv, Clock PROVE QuotesInv'
<1>1. KeptGood'
  BY DEF QuotesInv, KeptGood, Clock, LiveConstants
<1>2. ParkedGood' /\ OpensGood'
  BY DEF QuotesInv, ParkedGood, OpensGood, Clock
<1>3. Linked'
  BY DEF QuotesInv, Linked, Clock
<1>4. ProcsGood'
  BY DEF QuotesInv, ProcsGood, OpensWanted, WaitsForRegistered, Clock
<1> QED
  BY <1>1, <1>2, <1>3, <1>4 DEF QuotesInv

\* QuotesInv holds at first, and every step of a request, a fetch, the warm loop or
\* the clock keeps it.
LEMMA QuotesInductive ==
    ASSUME LiveConstants
    PROVE  /\ LiveInit => QuotesInv
           /\ QuotesInv /\ [LiveNext]_liveVars => QuotesInv'
<1>1. LiveInit => QuotesInv
  <2> SUFFICES ASSUME LiveInit PROVE QuotesInv
    OBVIOUS
  <2>1. KeptGood
    BY DEF LiveInit, KeptGood, LiveConstants
  <2>2. ParkedGood /\ OpensGood
    BY DEF LiveInit, ParkedGood, OpensGood, Nothing
  <2>3. Linked
    BY DEF LiveInit, Linked
  <2>4. NoRequest \in ProcRecord /\ NoRequest.pc = "idle" /\ proc = [p \in Procs |-> NoRequest]
    BY IdleProc DEF LiveInit
  <2>5. \A r \in Requests : r \in Procs
    BY DEF Procs
  <2>6. ProcsGood
    BY <2>4, <2>5 DEF ProcsGood, OpensWanted, WaitsForRegistered, WaitPcs
  <2> QED BY <2>1, <2>2, <2>3, <2>6 DEF QuotesInv
<1>2. QuotesInv /\ [LiveNext]_liveVars => QuotesInv'
  <2> SUFFICES ASSUME QuotesInv, [LiveNext]_liveVars PROVE QuotesInv'
    OBVIOUS
  <2>1. CASE UNCHANGED liveVars
    <3>1. ProcsGood'
      BY <2>1 DEF liveVars, QuotesInv, ProcsGood, OpensWanted, WaitsForRegistered
    <3> QED BY <2>1, <3>1, OnlyProc DEF liveVars
  <2>2. CASE \E t \in FetchTasks : Fetch(t)
    BY <2>2, FetchKeeps
  <2>3. ASSUME NEW p \in Procs, Progress(p) PROVE QuotesInv'
    BY <2>3, BatchKeeps, OpenDoneKeeps, QuoteKeeps DEF Progress
  <2>4. ASSUME NEW r \in Requests, \E ex \in Exchanges, s \in Symbols : Quote(r, ex, s) PROVE QuotesInv'
    <3>1. r \in Procs
      BY DEF Procs
    <3> QED BY <2>4, <3>1, QuoteKeeps
  <2>5. ASSUME NEW r \in Requests,
               (\E ex \in Exchanges, fast, warm \in BOOLEAN : Bulk(r, ex, fast, warm)) \/ Screen(r)
        PROVE  QuotesInv'
    <3>1. r \in Procs /\ NSE \in Exchanges
      BY DEF Procs, LiveConstants
    <3>2. \E ex \in Exchanges, fast, warm \in BOOLEAN : Bulk(r, ex, fast, warm)
      BY <2>5, <3>1 DEF Screen
    <3> QED BY <3>1, <3>2, BulkKeeps
  <2> QED
    BY <2>1, <2>2, <2>3, <2>4, <2>5, CancelKeeps, WarmKeeps, ClockKeeps DEF LiveNext
<1> QED
  BY <1>1, <1>2

(***************************************************************************)
(* Concurrent readers of a symbol share one upstream fetch, and nobody is  *)
(* left waiting for one that is over, however requests are cancelled and   *)
(* whatever the feeds answer (_live_quote, _batch_quotes, _fill_open).     *)
(***************************************************************************)
THEOREM LiveQuotesSafe == LiveSpec => []LiveInv
<1> USE LiveAssumption
<1>1. (LiveInit => QuotesInv) /\ (QuotesInv /\ [LiveNext]_liveVars => QuotesInv')
  BY QuotesInductive
<1>2. QuotesInv => LiveInv
  <2> SUFFICES ASSUME QuotesInv PROVE LiveInv
    OBVIOUS
  <2>1. LiveTypeOK
    <3>1. \A p \in Procs : proc[p].pc \in {"idle", "quote", "batch", "live", "open", "dead"}
      BY DEF QuotesInv, ProcsGood, ProcRecord
    <3>2. \A r \in Requests : proc[r].pc # "dead"
      BY DEF QuotesInv, ProcsGood
    <3> QED BY <3>1, <3>2 DEF LiveTypeOK, QuotesInv, KeptGood, ParkedGood, OpensGood, Linked
  <2>2. SharesOneFetch
    BY DEF SharesOneFetch, QuotesInv, Linked
  <2>3. AwaitedTasksRun
    <3> SUFFICES ASSUME NEW p \in Procs, NEW s \in Symbols, Waiting(p), proc[p].need[s] # None
                 PROVE  /\ fetches[proc[p].need[s]] # None
                        /\ fetches[proc[p].need[s]].key = <<proc[p].ex, s>>
                        /\ inflight[<<proc[p].ex, s>>] = proc[p].need[s]
      BY DEF AwaitedTasksRun
    <3>1. inflight[<<proc[p].ex, s>>] = proc[p].need[s]
      BY DEF QuotesInv, ProcsGood, WaitsForRegistered, Waiting, WaitPcs
    <3>2. <<proc[p].ex, s>> \in Keys
      BY DEF QuotesInv, ProcsGood, ProcRecord, Keys
    <3> QED BY <3>1, <3>2 DEF QuotesInv, Linked
  <2> QED BY <2>1, <2>2, <2>3 DEF LiveInv
<1> QED
  BY <1>1, <1>2, PTL DEF LiveSpec

-----------------------------------------------------------------------------
(***************************************************************************)
(* Days and sessions.                                                      *)
(***************************************************************************)
\* A product that is one step further is a factor larger.
LEMMA Products == \A q, r, d \in Int : d > 0 /\ q < r => d * q + d <= d * r
<1> SUFFICES ASSUME NEW q \in Int, NEW r \in Int, NEW d \in Int, d > 0, q < r
             PROVE  d * q + d <= d * r
  OBVIOUS
<1>1. r - q - 1 \in Nat /\ d \in Nat
  OBVIOUS
<1>2. d * (r - q - 1) >= 0
  BY <1>1
<1>3. d * (r - q - 1) = d * r - d * q - d
  OBVIOUS
<1>4. d * r \in Int /\ d * q \in Int
  OBVIOUS
<1> QED
  BY <1>2, <1>3, <1>4

\* A day's hours, and when its session counts (ist_clock's market hours).
LEMMA DayAndSession ==
    ASSUME LiveConstants, NEW t \in Int
    PROVE  /\ Day(t) \in Int /\ DayLen * Day(t) \in Int
           /\ DayLen * Day(t) <= t /\ t < DayLen * Day(t) + DayLen
           /\ t - DayLen * Day(t) >= OpenFrom => Session(t) = Day(t) + 1
           /\ t - DayLen * Day(t) < OpenFrom => Session(t) = Day(t)
<1>1. DayLen \in Nat /\ DayLen > 0 /\ OpenFrom \in Nat
  BY DEF LiveConstants
<1>2. /\ t \div DayLen \in Int /\ DayLen * (t \div DayLen) <= t
      /\ t < DayLen * (t \div DayLen) + DayLen
  BY <1>1
<1>3. t % DayLen = t - DayLen * (t \div DayLen)
  BY <1>1
<1> DEFINE d == t \div DayLen
           r == t % DayLen
<1>4. Day(t) = d /\ Session(t) = d + (IF r >= OpenFrom THEN 1 ELSE 0)
  BY DEF Day, Session
<1>5. d \in Int /\ DayLen * d \in Int /\ DayLen * d <= t /\ t < DayLen * d + DayLen /\ r = t - DayLen * d
  BY <1>1, <1>2, <1>3
<1> HIDE DEF d, r
<1> QED
  BY <1>1, <1>4, <1>5

\* Days follow each other.
LEMMA LaterDay ==
    ASSUME LiveConstants, NEW s \in Int, NEW t \in Int, s <= t
    PROVE  Day(s) <= Day(t) /\ Day(s) \in Int /\ Day(t) \in Int
<1>1. /\ Day(s) \in Int /\ Day(t) \in Int
      /\ DayLen * Day(s) <= s /\ t < DayLen * Day(t) + DayLen
      /\ DayLen * Day(s) \in Int /\ DayLen * Day(t) \in Int
  BY DayAndSession
<1>2. DayLen \in Int /\ DayLen > 0
  BY DEF LiveConstants
<1>3. Day(t) < Day(s) => DayLen * Day(t) + DayLen <= DayLen * Day(s)
  BY <1>1, <1>2, Products
<1> QED
  BY <1>1, <1>2, <1>3

\* A tick still in _live_q_cache has the open of a session that began before today's
\* midnight or later: the cache is too short-lived to carry one over the evening.
LEMMA CachedIsOfToday ==
    ASSUME LiveConstants, ShortLived, NEW s \in Int, NEW t \in Int, s <= t, t - s < LiveTTL
    PROVE  Session(s) >= Day(t) /\ Session(s) \in Int
<1> DEFINE d == Day(s)
           e == Day(t)
<1>1. /\ d \in Int /\ DayLen * d \in Int /\ DayLen * d <= s /\ s < DayLen * d + DayLen
      /\ s - DayLen * d >= OpenFrom => Session(s) = d + 1
      /\ s - DayLen * d < OpenFrom => Session(s) = d
  BY DayAndSession
<1>2. e \in Int /\ DayLen * e \in Int /\ DayLen * e <= t
  BY DayAndSession
<1>3. /\ DayLen \in Int /\ DayLen > 0 /\ OpenFrom \in Nat /\ OpenFrom <= DayLen /\ LiveTTL \in Nat
      /\ LiveTTL - 1 <= DayLen - OpenFrom
  BY DEF LiveConstants, ShortLived
<1> HIDE DEF d, e
<1>4. d < e => DayLen * d + DayLen <= DayLen * e
  BY <1>1, <1>2, <1>3, Products
<1>5. d + 1 < e => DayLen * (d + 1) + DayLen <= DayLen * e
  BY <1>1, <1>2, <1>3, Products
<1>6. DayLen * (d + 1) = DayLen * d + DayLen
  BY <1>1, <1>3
<1>7. e <= d + 1
  BY <1>1, <1>2, <1>3, <1>5, <1>6
<1>8. CASE s - DayLen * d >= OpenFrom
  BY <1>1, <1>2, <1>7, <1>8 DEF e
<1>9. CASE s - DayLen * d < OpenFrom
  BY <1>1, <1>2, <1>3, <1>4, <1>9 DEF e
<1> QED
  BY <1>1, <1>3, <1>8, <1>9

\* What is of day b or later is, a night later at most, one session old at most.
LEMMA NightIsLong ==
    ASSUME LiveConstants, NEW s \in Int, NEW t \in Int, s <= t, t - s <= OpenFrom
    PROVE  Session(t) - 1 <= Day(s) /\ Day(s) \in Int /\ Session(t) \in Int
<1> DEFINE d == Day(s)
           e == Day(t)
<1>1. d \in Int /\ DayLen * d \in Int /\ s < DayLen * d + DayLen
  BY DayAndSession
<1>2. /\ e \in Int /\ DayLen * e \in Int /\ DayLen * e <= t /\ t < DayLen * e + DayLen
      /\ t - DayLen * e >= OpenFrom => Session(t) = e + 1
      /\ t - DayLen * e < OpenFrom => Session(t) = e
  BY DayAndSession
<1>3. DayLen \in Int /\ DayLen > 0 /\ OpenFrom \in Nat /\ OpenFrom <= DayLen
  BY DEF LiveConstants
<1> HIDE DEF d, e
<1>4. d < e => DayLen * d + DayLen <= DayLen * e
  BY <1>1, <1>2, <1>3, Products
<1>5. d + 1 < e => DayLen * (d + 1) + DayLen <= DayLen * e
  BY <1>1, <1>2, <1>3, Products
<1>6. DayLen * (d + 1) = DayLen * d + DayLen
  BY <1>1, <1>3
<1>7. e <= d + 1
  BY <1>1, <1>2, <1>3, <1>5, <1>6
<1>8. CASE t - DayLen * e >= OpenFrom
  BY <1>1, <1>2, <1>3, <1>4, <1>8 DEF d
<1>9. CASE t - DayLen * e < OpenFrom
  BY <1>1, <1>2, <1>7, <1>9 DEF d
<1> QED
  BY <1>2, <1>3, <1>8, <1>9

(***************************************************************************)
(* How long ago an opening price can have been fetched.  A cached tick has *)
(* one given in the session of its fetch; an open of _SESSION_OPEN was not *)
(* fetched in a session before the date it is kept under; and whatever a   *)
(* caller has in hand is dated by when it began, or by the parked quotes   *)
(* it began with.                                                          *)
(***************************************************************************)
NotBefore(x, d) == x # None /\ x.open # NoOpen => x.open >= d

AllNotBefore(f, d) == \A s \in Symbols : NotBefore(f[s], d)

CacheAges ==
    \A k \in Keys : cache[k] # None =>
        cache[k].at \in 0 .. now /\ NotBefore(cache[k].tick, Session(cache[k].at))

OpenAges ==
    \A s \in Symbols : sessionOpen[s] # None =>
        sessionOpen[s].day \in Nat /\ sessionOpen[s].open >= sessionOpen[s].day

ParkedAges ==
    \A s \in Symbols : parked[s] # None =>
        parked[s].at \in 0 .. now /\ NotBefore(parked[s].q, Day(parked[s].at - MaxRequest))

\* How much older than a caller its oldest quote can be: a request may begin with
\* parked quotes.
Reach(p) == IF p = Warm THEN 0 ELSE WarmTTL - 1 + MaxRequest

Timely(t, q) == q.since <= t /\ t - q.since <= MaxRequest

CallerAges(t, p, q) ==
    q.pc \notin {"idle", "dead"} =>
        /\ Timely(t, q)
        /\ AllNotBefore(q.by, Day(q.since - Reach(p)))
        /\ q.pc \in WaitPcs => AllNotBefore(q.got, Day(q.since))
        /\ q.pc = "open" => /\ Day(q.since) <= q.day /\ q.day <= Day(t)
                            /\ AllNotBefore(q.got, q.day)

CallersAges == \A p \in Procs : CallerAges(now, p, proc[p])

AgesInv == CacheAges /\ OpenAges /\ ParkedAges /\ CallersAges /\ OpenFetchedRecently

\* Not before a day is not before an earlier one.
LEMMA Earlier ==
    ASSUME NEW f \in [Symbols -> MaybeTick], NEW d \in Int, NEW e \in Int, e <= d, AllNotBefore(f, d)
    PROVE  AllNotBefore(f, e)
<1> SUFFICES ASSUME NEW s \in Symbols, f[s] # None, f[s].open # NoOpen PROVE f[s].open >= e
  BY DEF AllNotBefore, NotBefore
<1>1. f[s] \in QuoteTick /\ f[s].open >= d
  BY DEF AllNotBefore, NotBefore, MaybeTick
<1>2. f[s].open \in Int
  BY <1>1 DEF QuoteTick, NoOpen
<1> QED
  BY <1>1, <1>2

\* The days that bound what a caller has.
LEMMA CallerDays ==
    ASSUME LiveConstants, NEW p \in Procs, NEW q \in ProcRecord, Timely(now, q), now \in 0 .. MaxTime
    PROVE  /\ q.since \in Nat /\ q.since - Reach(p) \in Int /\ q.since - Reach(p) <= q.since /\ now \in Nat
           /\ Day(q.since - Reach(p)) \in Int /\ Day(q.since) \in Nat /\ Day(now) \in Nat
           /\ Day(q.since - Reach(p)) <= Day(q.since) /\ Day(q.since) <= Day(now)
<1>1. q.since \in Nat /\ now \in Nat /\ Reach(p) \in Nat /\ q.since <= now
  BY DEF ProcRecord, Reach, Timely, LiveConstants
<1> DEFINE a == q.since
           b == a - Reach(p)
<1>2. a \in Int /\ b \in Int /\ b <= a /\ now \in Int /\ a <= now /\ 0 <= a
  BY <1>1
<1> HIDE DEF a, b
<1>3. Day(b) <= Day(a) /\ Day(b) \in Int /\ Day(a) \in Int
  BY <1>2, LaterDay
<1>4. Day(a) <= Day(now) /\ Day(now) \in Int
  BY <1>2, LaterDay
<1>5. Day(0) <= Day(a)
  BY <1>2, LaterDay
<1>6. Day(0) = 0
  BY DEF Day, LiveConstants
<1> QED
  BY <1>1, <1>2, <1>3, <1>4, <1>5, <1>6 DEF a, b

\* A caller goes on.
LEMMA AgeSet ==
    ASSUME QuotesInv, CallersAges, NEW p \in Procs, NEW q, CallerAges(now, p, q),
           proc' = [proc EXCEPT ![p] = q], now' = now
    PROVE  CallersAges'
<1>1. proc'[p] = q /\ \A x \in Procs : x # p => proc'[x] = proc[x]
  BY DEF QuotesInv, ProcsGood
<1>2. \A x \in Procs : CallerAges(now, x, proc'[x])
  BY <1>1 DEF CallersAges
<1> QED
  BY <1>2 DEF CallersAges, CallerAges, Timely, AllNotBefore, NotBefore

\* What is given out now and not before the day of a moment within the night is of the
\* last session or the one before it.
LEMMA Presentable ==
    ASSUME LiveConstants, NEW x \in MaybeTick, NEW b \in Int, now \in 0 .. MaxTime, b <= now,
           now - b <= OpenFrom, NotBefore(x, Day(b))
    PROVE  x # None /\ x.open # NoOpen => x.open >= Session(now) - 1
<1> SUFFICES ASSUME x # None, x.open # NoOpen PROVE x.open >= Session(now) - 1
  OBVIOUS
<1>1. x.open \in Int
  BY DEF MaybeTick, QuoteTick, NoOpen
<1>2. now \in Int
  BY DEF LiveConstants
<1>3. Session(now) - 1 <= Day(b) /\ Day(b) \in Int /\ Session(now) \in Int
  BY <1>2, NightIsLong
<1>4. x.open >= Day(b)
  BY DEF NotBefore
<1> QED
  BY <1>1, <1>3, <1>4

\* _live_quote(): what the cache answers at once is of today.
LEMMA AwaitAges ==
    ASSUME LiveConstants, ShortLived, QuotesInv, CacheAges, CallersAges, NEW p \in Procs,
           NEW S \in SUBSET Symbols, NEW rec \in ProcRecord, rec.pc \in WaitPcs, Timely(now, rec),
           AllNotBefore(rec.by, Day(rec.since - Reach(p))),
           rec.pc = "open" => rec.day = Day(now),
           Await(p, S, rec), now' = now
    PROVE  CallersAges'
<1> DEFINE A == [s \in Symbols |-> IF s \in S /\ ~Fresh(<<rec.ex, s>>) THEN inflight'[<<rec.ex, s>>] ELSE None]
           B == [s \in Symbols |-> IF s \in S /\ Fresh(<<rec.ex, s>>) THEN cache[<<rec.ex, s>>].tick ELSE None]
           q == [rec EXCEPT !.need = A, !.got = B]
<1>1. proc' = [proc EXCEPT ![p] = q]
  BY DEF Await, Wait
<1>2. now \in Nat /\ now \in 0 .. MaxTime /\ rec.ex \in Exchanges
  BY DEF QuotesInv, KeptGood, ProcRecord, LiveConstants
<1>3. B \in [Symbols -> MaybeTick] /\ AllNotBefore(B, Day(now))
  <2>1. ASSUME NEW s \in Symbols PROVE B[s] \in MaybeTick /\ NotBefore(B[s], Day(now))
    <3>1. CASE ~(s \in S /\ Fresh(<<rec.ex, s>>))
      BY <3>1 DEF MaybeTick, NotBefore
    <3>2. CASE s \in S /\ Fresh(<<rec.ex, s>>)
      <4> DEFINE k == <<rec.ex, s>>
                 x == cache[k].tick
                 a == cache[k].at
      <4>1. B[s] = x /\ k \in Keys
        BY <1>2, <3>2 DEF Keys
      <4>2. cache[k] # None /\ now - a < LiveTTL
        BY <3>2 DEF Fresh
      <4>3. a \in 0 .. now /\ NotBefore(x, Session(a)) /\ x \in QuoteTick
        BY <4>1, <4>2 DEF CacheAges, QuotesInv, KeptGood
      <4> HIDE DEF k, x, a, B
      <4>4. a \in Int /\ now \in Int /\ a <= now
        BY <1>2, <4>3
      <4>5. Session(a) >= Day(now) /\ Session(a) \in Int
        BY <4>2, <4>4, CachedIsOfToday
      <4>6. Day(now) \in Int
        BY <4>4, LaterDay
      <4>7. x.open \in Int
        BY <4>3 DEF QuoteTick, NoOpen
      <4>8. NotBefore(x, Day(now))
        BY <4>3, <4>5, <4>6, <4>7 DEF NotBefore
      <4> QED BY <4>1, <4>3, <4>8 DEF MaybeTick
    <3> QED BY <3>1, <3>2
  <2> QED BY <2>1 DEF AllNotBefore
<1> HIDE DEF A, B
<1>4. q.got = B /\ q.pc = rec.pc /\ q.by = rec.by /\ q.since = rec.since /\ q.day = rec.day
  BY DEF ProcRecord
<1> HIDE DEF q
<1>5. /\ Day(rec.since) \in Nat /\ Day(now) \in Nat /\ Day(rec.since) <= Day(now)
  BY <1>2, CallerDays
<1>6. AllNotBefore(B, Day(rec.since))
  BY <1>3, <1>5, Earlier
<1>7. CallerAges(now, p, q)
  <2>1. Timely(now, q)
    BY <1>4 DEF Timely
  <2> QED BY <1>3, <1>4, <1>5, <1>6, <2>1 DEF CallerAges
<1> QED
  BY <1>1, <1>7, AgeSet

\* The end of a bulk path: what is parked or given out is as young as its caller.
LEMMA FinishAges ==
    ASSUME LiveConstants, ShortLived, QuotesInv, AgesInv, NEW p \in Procs,
           NEW by \in [Symbols -> MaybeTick], Timely(now, proc[p]),
           AllNotBefore(by, Day(proc[p].since - Reach(p))),
           Finish(p, by), now' = now
    PROVE  CallersAges' /\ ParkedAges' /\ OpenFetchedRecently'
<1> DEFINE a == proc[p].since
           b == a - Reach(p)
<1>1. now \in 0 .. MaxTime /\ now \in Nat /\ proc[p] \in ProcRecord /\ MaxRequest \in Nat /\ WarmTTL \in Nat \ {0}
  BY DEF QuotesInv, KeptGood, ProcsGood, LiveConstants
<1>2. /\ a \in Nat /\ b \in Int /\ b <= a /\ Day(b) \in Int /\ a <= now /\ now - a <= MaxRequest
  BY <1>1, CallerDays DEF Timely
<1>3. AllNotBefore(by, Day(b))
  OBVIOUS
<1>4. CallersAges'
  <2> DEFINE idle == NoRequest
  <2>1. idle.pc = "idle" /\ proc' = [proc EXCEPT ![p] = idle]
    BY IdleProc DEF Finish
  <2> HIDE DEF idle
  <2>2. CallerAges(now, p, idle)
    BY <2>1 DEF CallerAges
  <2> QED BY <2>1, <2>2, AgeSet DEF AgesInv
<1>5. CASE p = Warm
  <2>1. /\ parked' = [s \in Symbols |-> IF by[s] = None THEN parked[s] ELSE [at |-> now, q |-> by[s]]]
        /\ answer' = None
    BY <1>5 DEF Finish, Silent
  <2>2. AllNotBefore(by, Day(now - MaxRequest))
    <3> DEFINE c == now - MaxRequest
    <3>1. b = a
      BY <1>2, <1>5 DEF Reach
    <3>2. c \in Int /\ c <= b
      BY <1>1, <1>2, <3>1
    <3> HIDE DEF a, b, c
    <3>3. Day(c) <= Day(b) /\ Day(c) \in Int
      BY <1>2, <3>2, LaterDay
    <3>4. AllNotBefore(by, Day(c))
      BY <1>2, <1>3, <3>3, Earlier
    <3> QED BY <3>4 DEF c
  <2>3. ParkedAges'
    <3> SUFFICES ASSUME NEW s \in Symbols, parked'[s] # None
                 PROVE  /\ parked'[s].at \in 0 .. now
                        /\ NotBefore(parked'[s].q, Day(parked'[s].at - MaxRequest))
      BY DEF ParkedAges, NotBefore
    <3>1. CASE by[s] = None
      BY <2>1, <3>1 DEF AgesInv, ParkedAges
    <3>2. CASE by[s] # None
      <4>1. parked'[s].at = now /\ parked'[s].q = by[s]
        BY <2>1, <3>2
      <4>2. NotBefore(by[s], Day(now - MaxRequest))
        BY <2>2 DEF AllNotBefore
      <4> QED BY <1>1, <4>1, <4>2
    <3> QED BY <3>1, <3>2
  <2>4. OpenFetchedRecently'
    BY <2>1 DEF OpenFetchedRecently
  <2> QED BY <1>4, <2>3, <2>4
<1>6. CASE p # Warm
  <2>1. /\ \E s \in Symbols : answer' = IF by[s] = None THEN None ELSE [ex |-> proc[p].ex, q |-> by[s]]
        /\ UNCHANGED parked
    BY <1>6 DEF Finish
  <2>2. ParkedAges'
    BY <2>1 DEF AgesInv, ParkedAges, NotBefore
  <2>3. PICK s \in Symbols : answer' = IF by[s] = None THEN None ELSE [ex |-> proc[p].ex, q |-> by[s]]
    BY <2>1
  <2>4. now - b <= OpenFrom /\ b <= now
    <3>1. Reach(p) = WarmTTL - 1 + MaxRequest
      BY <1>6 DEF Reach
    <3>2. WarmTTL - 1 + 2 * MaxRequest <= OpenFrom /\ OpenFrom \in Nat
      BY DEF ShortLived, LiveConstants
    <3> QED BY <1>1, <1>2, <3>1, <3>2
  <2> DEFINE x == by[s]
  <2>5. x \in MaybeTick /\ NotBefore(x, Day(b))
    BY <1>3 DEF AllNotBefore
  <2> HIDE DEF b, x
  <2>6. x # None /\ x.open # NoOpen => x.open >= Session(now) - 1
    BY <1>1, <1>2, <2>4, <2>5, Presentable
  <2>7. answer' # None => x # None /\ answer'.q = x
    BY <2>3 DEF x
  <2>8. OpenFetchedRecently'
    BY <2>6, <2>7 DEF OpenFetchedRecently, Session, Day
  <2> QED BY <1>4, <2>2, <2>8
<1> QED
  BY <1>5, <1>6

\* _fill_open(): an open kept under today's date is of today.
LEMMA FillAges ==
    ASSUME LiveConstants, ShortLived, QuotesInv, AgesInv, NEW p \in Procs,
           NEW by \in [Symbols -> MaybeTick], Timely(now, proc[p]),
           AllNotBefore(by, Day(proc[p].since - Reach(p))),
           FillOpen(p, by), UNCHANGED <<now, cache, sessionOpen>>
    PROVE  AgesInv'
<1> DEFINE filled == [s \in Symbols |->
                        IF by[s] # None /\ by[s].open = NoOpen /\ Dated(s)
                        THEN [by[s] EXCEPT !.open = sessionOpen[s].open] ELSE by[s]]
           wanted == {s \in Symbols : filled[s] # None /\ filled[s].open = NoOpen}
           rec == [proc[p] EXCEPT !.pc = "open", !.by = filled, !.day = Day(now)]
           all == IF proc[p].fast THEN by ELSE filled
           floor == Day(proc[p].since - Reach(p))
<1>1. \/ Finish(p, all)
      \/ Await(p, wanted, rec) /\ UNCHANGED parked /\ answer' = None
  BY DEF FillOpen, Silent
<1>2. proc[p] \in ProcRecord /\ now \in 0 .. MaxTime
  BY DEF QuotesInv, ProcsGood, KeptGood
<1>3. floor \in Int /\ Day(now) \in Nat /\ floor <= Day(now)
  <2>1. Day(proc[p].since) \in Nat /\ floor \in Int /\ Day(now) \in Nat
        /\ floor <= Day(proc[p].since) /\ Day(proc[p].since) <= Day(now)
    BY <1>2, CallerDays
  <2> HIDE DEF floor
  <2> QED BY <2>1
<1>4. ASSUME NEW s \in Symbols PROVE filled[s] \in MaybeTick /\ NotBefore(filled[s], floor)
  <2>1. CASE by[s] # None /\ by[s].open = NoOpen /\ Dated(s)
    <3>1. by[s] \in QuoteTick /\ filled[s] = [by[s] EXCEPT !.open = sessionOpen[s].open]
      BY <2>1 DEF MaybeTick
    <3>2. sessionOpen[s].open \in Nat /\ sessionOpen[s].open >= Day(now)
      BY <2>1 DEF Dated, QuotesInv, OpensGood, AgesInv, OpenAges
    <3>3. filled[s] \in QuoteTick /\ filled[s].open = sessionOpen[s].open
      BY <3>1, <3>2 DEF QuoteTick
    <3> HIDE DEF filled, floor
    <3> QED BY <1>3, <3>2, <3>3 DEF MaybeTick, NotBefore
  <2>2. CASE ~(by[s] # None /\ by[s].open = NoOpen /\ Dated(s))
    BY <2>2 DEF AllNotBefore
  <2> QED BY <2>1, <2>2
<1>5. filled \in [Symbols -> MaybeTick] /\ AllNotBefore(filled, floor) /\ AllNotBefore(by, floor)
  BY <1>4 DEF AllNotBefore
<1>6. wanted \in SUBSET Symbols
  OBVIOUS
<1> HIDE DEF filled, wanted
<1>7. all \in [Symbols -> MaybeTick] /\ AllNotBefore(all, floor)
  BY <1>5
<1>8. CacheAges' /\ OpenAges'
  BY DEF AgesInv, CacheAges, OpenAges, NotBefore, Session, Day
<1>9. CASE Finish(p, all)
  <2> HIDE DEF all
  <2>1. CallersAges' /\ ParkedAges' /\ OpenFetchedRecently'
    BY <1>7, <1>9, FinishAges
  <2> QED BY <1>8, <2>1 DEF AgesInv
<1>10. CASE Await(p, wanted, rec) /\ UNCHANGED parked /\ answer' = None
  <2>1. /\ rec.pc = "open" /\ rec.by = filled /\ rec.day = Day(now) /\ rec.since = proc[p].since
    BY <1>2 DEF ProcRecord
  <2>2. rec \in ProcRecord
    <3> DEFINE q1 == [proc[p] EXCEPT !.pc = "open"]
               q2 == [q1 EXCEPT !.by = filled]
               q3 == [q2 EXCEPT !.day = Day(now)]
    <3>1. q1 \in ProcRecord
      BY <1>2 DEF ProcRecord
    <3>2. rec = q3
      OBVIOUS
    <3> HIDE DEF q1
    <3>3. q2 \in ProcRecord
      BY <1>5, <3>1 DEF ProcRecord
    <3> HIDE DEF q2
    <3>4. q3 \in ProcRecord
      BY <1>3, <3>3 DEF ProcRecord
    <3> HIDE DEF q3
    <3> QED BY <3>2, <3>4
  <2> HIDE DEF rec
  <2>3. Timely(now, rec) /\ AllNotBefore(rec.by, Day(rec.since - Reach(p))) /\ rec.pc \in WaitPcs
    BY <1>5, <2>1 DEF Timely, WaitPcs
  <2>4. CallersAges'
    BY <1>6, <1>10, <2>1, <2>2, <2>3, AwaitAges DEF AgesInv
  <2>5. ParkedAges' /\ OpenFetchedRecently'
    BY <1>10 DEF AgesInv, ParkedAges, NotBefore, OpenFetchedRecently
  <2> QED BY <1>8, <2>4, <2>5 DEF AgesInv
<1> QED
  BY <1>1, <1>9, <1>10

\* A step that gives no answer and leaves what is kept alone.
LEMMA AgesKept ==
    ASSUME AgesInv, UNCHANGED <<now, cache, parked, sessionOpen>>, CallersAges', OpenFetchedRecently'
    PROVE  AgesInv'
BY DEF AgesInv, CacheAges, OpenAges, ParkedAges, NotBefore, Session, Day

\* A fetch that ends is of now, for those who waited for it and for the cache.
LEMMA DeliveredAges ==
    ASSUME LiveConstants, QuotesInv, CallersAges, NEW t \in FetchTasks, fetches[t] # None,
           NEW x \in MaybeTick, NotBefore(x, Day(now)), proc' = Delivered(t, x), now' = now
    PROVE  CallersAges'
<1> DEFINE s0 == fetches[t].key[2]
<1>1. s0 \in Symbols /\ now \in 0 .. MaxTime
  BY DEF QuotesInv, Linked, KeptGood, FetchRecord, Keys
<1> HIDE DEF s0
<1>2. ASSUME NEW p \in Procs PROVE CallerAges(now, p, proc'[p])
  <2> DEFINE o == proc[p]
  <2>1. o \in ProcRecord /\ CallerAges(now, p, o)
    BY <1>2 DEF QuotesInv, ProcsGood, CallersAges
  <2>2. CASE ~(o.pc \in WaitPcs /\ \E s \in Symbols : o.need[s] = t)
    <3>1. proc'[p] = o
      BY <1>2, <2>2 DEF Delivered, Waiting, WaitPcs
    <3> QED BY <2>1, <3>1
  <2>3. CASE o.pc \in WaitPcs /\ \E s \in Symbols : o.need[s] = t
    <3> DEFINE B == [o.got EXCEPT ![s0] = x]
               q == proc'[p]
    <3>1. q = [o EXCEPT !.need[s0] = None, !.got[s0] = x]
      BY <1>2, <2>3 DEF Delivered, Waiting, WaitPcs, s0
    <3>2. q.pc = o.pc /\ q.by = o.by /\ q.since = o.since /\ q.day = o.day /\ q.got = B
      BY <2>1, <3>1 DEF ProcRecord
    <3>3. /\ Timely(now, o) /\ AllNotBefore(o.by, Day(o.since - Reach(p)))
          /\ AllNotBefore(o.got, Day(o.since))
          /\ o.pc = "open" => /\ Day(o.since) <= o.day /\ o.day <= Day(now)
                              /\ AllNotBefore(o.got, o.day)
      BY <2>1, <2>3 DEF CallerAges, WaitPcs
    <3>4. /\ Day(o.since) \in Nat /\ Day(now) \in Nat /\ Day(o.since) <= Day(now)
      BY <1>1, <2>1, <3>3, CallerDays
    <3>5. o.day \in Nat /\ o.got \in [Symbols -> MaybeTick]
      BY <2>1 DEF ProcRecord
    <3> HIDE DEF o, q
    <3>6. ASSUME NEW d \in Int, d <= Day(now), AllNotBefore(o.got, d) PROVE AllNotBefore(B, d)
      <4> SUFFICES ASSUME NEW s \in Symbols PROVE NotBefore(B[s], d)
        BY DEF AllNotBefore
      <4>1. CASE s = s0
        <5>1. B[s] = x
          BY <1>1, <3>5, <4>1
        <5>2. x # None => x.open \in Int
          BY DEF MaybeTick, QuoteTick, NoOpen
        <5> QED BY <3>4, <3>6, <5>1, <5>2 DEF NotBefore
      <4>2. CASE s # s0
        BY <3>5, <3>6, <4>2 DEF AllNotBefore
      <4> QED BY <4>1, <4>2
    <3> HIDE DEF B
    <3>7. AllNotBefore(B, Day(o.since))
      BY <3>3, <3>4, <3>6
    <3>8. o.pc = "open" => AllNotBefore(B, o.day)
      BY <3>3, <3>5, <3>6
    <3>9. Timely(now, q)
      BY <3>2, <3>3 DEF Timely
    <3>10. CallerAges(now, p, q)
      BY <3>2, <3>3, <3>7, <3>8, <3>9 DEF CallerAges
    <3> QED BY <3>10 DEF q
  <2> QED BY <2>2, <2>3
<1> QED
  BY <1>2 DEF CallersAges, CallerAges, Timely, AllNotBefore, NotBefore

\* The steps of _do_live_fetch().
LEMMA FetchAges ==
    ASSUME LiveConstants, QuotesInv, AgesInv, NEW t \in FetchTasks, Fetch(t)
    PROVE  AgesInv'
<1>1. now \in 0 .. MaxTime /\ now \in Nat /\ DOMAIN cache = Keys /\ answer' = None
  BY DEF QuotesInv, KeptGood, Fetch, FetchTick, FetchNothing, FetchAgain, Silent
<1>2. OpenFetchedRecently'
  BY <1>1 DEF OpenFetchedRecently
<1>3. fetches[t] # None /\ fetches[t].key \in Keys
  <2>1. fetches[t] # None
    BY DEF Fetch, FetchTick, FetchNothing, FetchAgain
  <2> QED BY <2>1 DEF QuotesInv, Linked, FetchRecord
<1>4. Day(now) \in Nat /\ Session(now) \in Nat /\ Session(now) >= Day(now)
  <2>1. Day(now) \in Nat /\ Session(now) \in Nat
    BY <1>1, SessionNat
  <2>2. /\ now \in Int /\ DayLen * Day(now) \in Int /\ OpenFrom \in Nat
        /\ now - DayLen * Day(now) >= OpenFrom => Session(now) = Day(now) + 1
        /\ now - DayLen * Day(now) < OpenFrom => Session(now) = Day(now)
    BY <1>1, DayAndSession DEF LiveConstants
  <2> QED BY <2>1, <2>2
<1>5. ASSUME NEW open \in Nat \cup {NoOpen}, open = NoOpen \/ open = Session(now),
             FetchTick(t, open)
      PROVE  AgesInv'
  <2> DEFINE x == FeedTick(open)
             k == fetches[t].key
             new == [at |-> now, tick |-> x]
  <2>1. x \in QuoteTick /\ x.open = open
    BY DEF FeedTick, QuoteTick
  <2>2. cache' = [cache EXCEPT ![k] = new] /\ proc' = Delivered(t, x) /\ UNCHANGED <<now, parked, sessionOpen>>
    BY <1>5 DEF FetchTick
  <2>3. new.at = now /\ new.tick = x
    OBVIOUS
  <2> HIDE DEF x, k, new
  <2>4. x \in MaybeTick /\ NotBefore(x, Day(now)) /\ NotBefore(x, Session(now))
    BY <1>4, <1>5, <2>1 DEF MaybeTick, NotBefore
  <2>5. CallersAges'
    BY <1>3, <2>2, <2>4, DeliveredAges DEF AgesInv
  <2>6. CacheAges'
    <3> SUFFICES ASSUME NEW j \in Keys, cache'[j] # None
                 PROVE  cache'[j].at \in 0 .. now /\ NotBefore(cache'[j].tick, Session(cache'[j].at))
      BY <2>2 DEF CacheAges, NotBefore, Session, Day
    <3>1. CASE j = k
      <4>1. cache'[j] = new
        BY <1>1, <2>2, <3>1
      <4> QED BY <1>1, <2>3, <2>4, <4>1
    <3>2. CASE j # k
      <4>1. cache'[j] = cache[j]
        BY <1>1, <2>2, <3>2
      <4> QED BY <4>1 DEF AgesInv, CacheAges
    <3> QED BY <3>1, <3>2
  <2>7. ParkedAges' /\ OpenAges'
    BY <2>2 DEF AgesInv, ParkedAges, OpenAges, NotBefore
  <2> QED BY <1>2, <2>5, <2>6, <2>7 DEF AgesInv
<1>6. CASE FetchNothing(t)
  <2>1. proc' = Delivered(t, None) /\ UNCHANGED <<now, cache, parked, sessionOpen>>
    BY <1>6 DEF FetchNothing
  <2>2. None \in MaybeTick /\ NotBefore(None, Day(now))
    BY DEF MaybeTick, NotBefore
  <2>3. CallersAges'
    BY <1>3, <2>1, <2>2, DeliveredAges DEF AgesInv
  <2> QED BY <1>2, <2>1, <2>3, AgesKept
<1>7. CASE FetchAgain(t)
  <2>1. UNCHANGED <<now, cache, parked, sessionOpen, proc>>
    BY <1>7 DEF FetchAgain
  <2>2. CallersAges'
    BY <2>1 DEF AgesInv, CallersAges, CallerAges, Timely, AllNotBefore, NotBefore
  <2> QED BY <1>2, <2>1, <2>2, AgesKept
<1> QED
  BY <1>4, <1>5, <1>6, <1>7 DEF Fetch

\* What a caller that is waiting or has its batch pending may rely on.
LEMMA CallerFacts ==
    ASSUME LiveConstants, QuotesInv, AgesInv, NEW p \in Procs,
           proc[p].pc \in {"quote", "batch", "live", "open"}
    PROVE  /\ proc[p] \in ProcRecord /\ Timely(now, proc[p]) /\ now \in 0 .. MaxTime
           /\ proc[p].by \in [Symbols -> MaybeTick] /\ proc[p].got \in [Symbols -> MaybeTick]
           /\ AllNotBefore(proc[p].by, Day(proc[p].since - Reach(p)))
           /\ proc[p].pc # "batch" => AllNotBefore(proc[p].got, Day(proc[p].since))
           /\ proc[p].pc # "batch" => AllNotBefore(proc[p].got, Day(proc[p].since - Reach(p)))
<1>1. proc[p] \in ProcRecord /\ now \in 0 .. MaxTime /\ CallerAges(now, p, proc[p])
  BY DEF QuotesInv, ProcsGood, KeptGood, AgesInv, CallersAges
<1>2. proc[p].by \in [Symbols -> MaybeTick] /\ proc[p].got \in [Symbols -> MaybeTick]
  BY <1>1 DEF ProcRecord
<1>3. /\ Timely(now, proc[p]) /\ AllNotBefore(proc[p].by, Day(proc[p].since - Reach(p)))
      /\ proc[p].pc # "batch" => AllNotBefore(proc[p].got, Day(proc[p].since))
  BY <1>1 DEF CallerAges, WaitPcs
<1>4. /\ Day(proc[p].since - Reach(p)) \in Int /\ Day(proc[p].since) \in Nat
      /\ Day(proc[p].since - Reach(p)) <= Day(proc[p].since)
  BY <1>1, <1>3, CallerDays
<1> DEFINE d == Day(proc[p].since)
           e == Day(proc[p].since - Reach(p))
           g == proc[p].got
<1>5. /\ d \in Int /\ e \in Int /\ e <= d /\ g \in [Symbols -> MaybeTick]
      /\ proc[p].pc # "batch" => AllNotBefore(g, d)
  BY <1>2, <1>3, <1>4
<1> HIDE DEF d, e, g
<1>6. proc[p].pc # "batch" => AllNotBefore(g, e)
  BY <1>5, Earlier
<1> QED
  BY <1>1, <1>2, <1>3, <1>6 DEF g, e

\* _batch_quotes(): the batch feed has no open, the live quotes are of this request.
LEMMA BatchAges ==
    ASSUME LiveConstants, ShortLived, QuotesInv, AgesInv, NEW p \in Procs,
           \/ \E R \in BatchRows(p) : Batch(p, R)
           \/ LiveDone(p)
    PROVE  AgesInv'
<1> DEFINE floor == Day(proc[p].since - Reach(p))
<1>1. proc[p].pc \in {"quote", "batch", "live", "open"}
  BY DEF Batch, LiveDone
<1>2. /\ proc[p] \in ProcRecord /\ Timely(now, proc[p])
      /\ proc[p].by \in [Symbols -> MaybeTick] /\ proc[p].got \in [Symbols -> MaybeTick]
      /\ AllNotBefore(proc[p].by, floor)
      /\ proc[p].pc # "batch" => AllNotBefore(proc[p].got, floor)
  BY <1>1, CallerFacts
<1>3. ASSUME NEW R, Batch(p, R) PROVE AgesInv'
  <2> DEFINE missing == {s \in Symbols : proc[p].by[s] = None}
             by == [s \in Symbols |-> IF s \in R \cap missing THEN BatchTick ELSE proc[p].by[s]]
             rec == [proc[p] EXCEPT !.pc = "live", !.by = by]
             S == missing \ R
  <2>1. /\ \/ FillOpen(p, by)
           \/ Await(p, S, rec) /\ UNCHANGED parked /\ answer' = None
        /\ UNCHANGED <<now, cache, sessionOpen>>
    BY <1>3 DEF Batch, Silent
  <2>2. ASSUME NEW s \in Symbols PROVE by[s] \in MaybeTick /\ NotBefore(by[s], floor)
    <3>1. BatchTick \in MaybeTick /\ NotBefore(BatchTick, floor)
      BY DEF BatchTick, QuoteTick, MaybeTick, NoOpen, NotBefore
    <3>2. proc[p].by[s] \in MaybeTick /\ NotBefore(proc[p].by[s], floor)
      BY <1>2 DEF AllNotBefore
    <3> QED BY <3>1, <3>2
  <2>3. by \in [Symbols -> MaybeTick] /\ AllNotBefore(by, floor)
    BY <2>2 DEF AllNotBefore
  <2>4. S \in SUBSET Symbols
    OBVIOUS
  <2> HIDE DEF missing, by, S
  <2>5. CASE FillOpen(p, by)
    BY <1>2, <2>1, <2>3, <2>5, FillAges
  <2>6. CASE Await(p, S, rec) /\ UNCHANGED parked /\ answer' = None
    <3> DEFINE q1 == [proc[p] EXCEPT !.pc = "live"]
               q2 == [q1 EXCEPT !.by = by]
    <3>1. q1 \in ProcRecord /\ q1.pc = "live" /\ q1.since = proc[p].since
      BY <1>2 DEF ProcRecord
    <3>2. rec = q2
      OBVIOUS
    <3> HIDE DEF q1
    <3>3. q2 \in ProcRecord /\ q2.pc = "live" /\ q2.since = proc[p].since /\ q2.by = by
      BY <2>3, <3>1 DEF ProcRecord
    <3> HIDE DEF q2
    <3>4. rec \in ProcRecord /\ rec.pc = "live" /\ rec.since = proc[p].since /\ rec.by = by
      BY <3>2, <3>3
    <3> HIDE DEF rec
    <3>5. /\ rec.pc \in WaitPcs /\ rec.pc # "open" /\ Timely(now, rec)
          /\ AllNotBefore(rec.by, Day(rec.since - Reach(p)))
      BY <1>2, <2>3, <3>4 DEF WaitPcs, Timely
    <3>6. CallersAges'
      BY <2>1, <2>4, <2>6, <3>4, <3>5, AwaitAges DEF AgesInv
    <3>7. OpenFetchedRecently'
      BY <2>6 DEF OpenFetchedRecently
    <3> QED BY <2>1, <2>6, <3>6, <3>7, AgesKept
  <2> QED BY <2>1, <2>5, <2>6
<1>4. CASE LiveDone(p)
  <2> DEFINE by == [s \in Symbols |-> IF proc[p].got[s] = None THEN proc[p].by[s] ELSE proc[p].got[s]]
  <2>1. FillOpen(p, by) /\ UNCHANGED <<now, cache, sessionOpen>> /\ proc[p].pc = "live"
    BY <1>4 DEF LiveDone
  <2>2. ASSUME NEW s \in Symbols PROVE by[s] \in MaybeTick /\ NotBefore(by[s], floor)
    <3>1. proc[p].by[s] \in MaybeTick /\ NotBefore(proc[p].by[s], floor)
      BY <1>2 DEF AllNotBefore
    <3>2. proc[p].got[s] \in MaybeTick /\ NotBefore(proc[p].got[s], floor)
      BY <1>2, <2>1 DEF AllNotBefore
    <3> QED BY <3>1, <3>2
  <2>3. by \in [Symbols -> MaybeTick] /\ AllNotBefore(by, floor)
    BY <2>2 DEF AllNotBefore
  <2> HIDE DEF by
  <2> QED BY <1>2, <2>1, <2>3, FillAges
<1> QED
  BY <1>3, <1>4

\* The second half of _fill_open(): an open goes under the date read before the
\* await, and no open that came is of a session before that date.
LEMMA OpenDoneAges ==
    ASSUME LiveConstants, ShortLived, QuotesInv, AgesInv, NEW p \in Procs, OpenDone(p)
    PROVE  AgesInv'
<1> DEFINE got == proc[p].got
           by == [s \in Symbols |-> IF ~Opened(got[s]) THEN proc[p].by[s]
                                    ELSE [proc[p].by[s] EXCEPT !.open = got[s].open]]
           floor == Day(proc[p].since - Reach(p))
<1>1. proc[p].pc = "open" /\ OpensWanted(proc[p])
  BY DEF OpenDone, QuotesInv, ProcsGood
<1>2. /\ sessionOpen' = [s \in Symbols |-> IF ~Opened(got[s]) THEN sessionOpen[s]
                                           ELSE [day |-> proc[p].day, open |-> got[s].open]]
      /\ Finish(p, by)
      /\ UNCHANGED <<now, cache>>
  BY DEF OpenDone
<1>3. /\ proc[p] \in ProcRecord /\ Timely(now, proc[p])
      /\ proc[p].by \in [Symbols -> MaybeTick] /\ got \in [Symbols -> MaybeTick]
      /\ AllNotBefore(proc[p].by, floor) /\ AllNotBefore(got, floor)
  BY <1>1, CallerFacts
<1>4. AllNotBefore(got, proc[p].day) /\ proc[p].day \in Nat
  <2>1. CallerAges(now, p, proc[p])
    BY DEF AgesInv, CallersAges
  <2> QED BY <1>1, <1>3, <2>1 DEF CallerAges, ProcRecord
<1>5. ASSUME NEW s \in Symbols, Opened(got[s])
      PROVE  /\ got[s].open \in Nat /\ got[s].open >= proc[p].day /\ got[s].open >= floor
             /\ proc[p].by[s] \in QuoteTick
  <2>1. got[s] # None /\ got[s].open # NoOpen
    BY <1>5 DEF Opened
  <2>2. got[s] \in QuoteTick
    BY <1>3, <2>1 DEF MaybeTick
  <2>3. proc[p].by[s] # None
    BY <1>1, <2>1 DEF OpensWanted
  <2>4. got[s].open >= proc[p].day /\ got[s].open >= floor
    BY <1>3, <1>4, <2>1 DEF AllNotBefore, NotBefore
  <2> QED BY <1>3, <2>1, <2>2, <2>3, <2>4 DEF MaybeTick, QuoteTick
<1>6. ASSUME NEW s \in Symbols PROVE by[s] \in MaybeTick /\ NotBefore(by[s], floor)
  <2>1. CASE Opened(got[s])
    <3> DEFINE y == [proc[p].by[s] EXCEPT !.open = got[s].open]
    <3>1. y \in QuoteTick /\ y.open = got[s].open
      BY <1>5, <2>1 DEF QuoteTick
    <3>2. by[s] = y
      BY <2>1
    <3> HIDE DEF y, by, got, floor
    <3> QED BY <1>5, <2>1, <3>1, <3>2 DEF MaybeTick, NotBefore
  <2>2. CASE ~Opened(got[s])
    BY <1>3, <2>2 DEF AllNotBefore
  <2> QED BY <2>1, <2>2
<1>7. by \in [Symbols -> MaybeTick] /\ AllNotBefore(by, floor)
  BY <1>6 DEF AllNotBefore
<1>8. OpenAges'
  <2> SUFFICES ASSUME NEW s \in Symbols, sessionOpen'[s] # None
               PROVE  sessionOpen'[s].day \in Nat /\ sessionOpen'[s].open >= sessionOpen'[s].day
    BY DEF OpenAges
  <2>1. CASE Opened(got[s])
    <3>1. sessionOpen'[s].day = proc[p].day /\ sessionOpen'[s].open = got[s].open
      BY <1>2, <2>1
    <3> HIDE DEF got
    <3> QED BY <1>4, <1>5, <2>1, <3>1
  <2>2. CASE ~Opened(got[s])
    BY <1>2, <2>2 DEF AgesInv, OpenAges
  <2> QED BY <2>1, <2>2
<1> HIDE DEF by
<1>9. CallersAges' /\ ParkedAges' /\ OpenFetchedRecently'
  BY <1>2, <1>3, <1>7, FinishAges
<1>10. CacheAges'
  BY <1>2 DEF AgesInv, CacheAges, NotBefore, Session, Day
<1> QED
  BY <1>8, <1>9, <1>10 DEF AgesInv

\* /quote/{symbol}: its quote came after it began, or from the cache as it began.
LEMMA QuoteAges ==
    ASSUME LiveConstants, ShortLived, QuotesInv, AgesInv, NEW r \in Procs,
           \/ \E ex \in Exchanges, s \in Symbols : Quote(r, ex, s)
           \/ QuoteDone(r)
    PROVE  AgesInv'
<1> DEFINE idle == NoRequest
<1>1. idle \in ProcRecord /\ idle.pc = "idle" /\ \A s \in Symbols : idle.by[s] = None
  BY IdleProc DEF NoRequest, Nothing
<1>2. now \in 0 .. MaxTime /\ now \in Nat /\ MaxRequest \in Nat
  BY DEF QuotesInv, KeptGood, LiveConstants
<1>3. ASSUME NEW ex \in Exchanges, NEW s \in Symbols, Quote(r, ex, s) PROVE AgesInv'
  <2> DEFINE rec == [idle EXCEPT !.pc = "quote", !.ex = ex, !.since = now]
             q1 == [idle EXCEPT !.pc = "quote"]
             q2 == [q1 EXCEPT !.ex = ex]
             q3 == [q2 EXCEPT !.since = now]
             S == {s}
  <2>1. /\ S \in SUBSET Symbols /\ Await(r, S, rec) /\ answer' = None
        /\ UNCHANGED <<now, cache, parked, sessionOpen>>
    BY <1>3 DEF Quote, Silent
  <2> HIDE DEF idle, S
  <2>2. q1 \in ProcRecord /\ q1.pc = "quote" /\ q1.by = idle.by
    BY <1>1 DEF ProcRecord
  <2>3. rec = q3
    OBVIOUS
  <2> HIDE DEF q1
  <2>4. q2 \in ProcRecord /\ q2.pc = "quote" /\ q2.by = idle.by
    BY <2>2 DEF ProcRecord
  <2> HIDE DEF q2
  <2>5. q3 \in ProcRecord /\ q3.pc = "quote" /\ q3.by = idle.by /\ q3.since = now
    BY <1>2, <2>4 DEF ProcRecord
  <2> HIDE DEF q3
  <2>6. /\ rec \in ProcRecord /\ rec.pc = "quote" /\ rec.by = idle.by /\ rec.since = now
    BY <2>3, <2>5
  <2> HIDE DEF rec
  <2>7. /\ rec.pc \in WaitPcs /\ rec.pc # "open" /\ Timely(now, rec)
        /\ AllNotBefore(rec.by, Day(rec.since - Reach(r)))
    BY <1>1, <1>2, <2>6 DEF WaitPcs, Timely, AllNotBefore, NotBefore
  <2>8. CallersAges'
    BY <2>1, <2>6, <2>7, AwaitAges DEF AgesInv
  <2>9. OpenFetchedRecently'
    BY <2>1 DEF OpenFetchedRecently
  <2> QED BY <2>1, <2>8, <2>9, AgesKept
<1>4. CASE QuoteDone(r)
  <2> DEFINE full == {s \in Symbols : proc[r].got[s] # None}
             x == proc[r].got[CHOOSE s \in full : TRUE]
             b == proc[r].since
  <2>1. /\ proc' = [proc EXCEPT ![r] = idle] /\ proc[r].pc = "quote"
        /\ answer' = IF full = {} THEN None ELSE [ex |-> proc[r].ex, q |-> x]
        /\ UNCHANGED <<now, cache, parked, sessionOpen>>
    BY <1>4 DEF QuoteDone
  <2>2. CallerAges(now, r, idle)
    BY <1>1 DEF CallerAges
  <2> HIDE DEF idle
  <2>3. CallersAges'
    BY <2>1, <2>2, AgeSet DEF AgesInv
  <2>4. /\ proc[r] \in ProcRecord /\ Timely(now, proc[r]) /\ proc[r].got \in [Symbols -> MaybeTick]
        /\ AllNotBefore(proc[r].got, Day(b))
    BY <2>1, CallerFacts
  <2>5. full # {} => x \in MaybeTick /\ NotBefore(x, Day(b))
    <3>1. full # {} => (CHOOSE s \in full : TRUE) \in Symbols
      OBVIOUS
    <3> QED BY <2>4, <3>1 DEF AllNotBefore
  <2>6. b \in Int /\ b <= now /\ now - b <= OpenFrom
    <3>1. b \in Nat /\ b <= now /\ now - b <= MaxRequest
      BY <2>4 DEF ProcRecord, Timely
    <3>2. WarmTTL - 1 + 2 * MaxRequest <= OpenFrom /\ OpenFrom \in Nat /\ WarmTTL \in Nat \ {0}
      BY DEF ShortLived, LiveConstants
    <3> QED BY <1>2, <3>1, <3>2
  <2> HIDE DEF full, x, b
  <2>7. full # {} => (x # None /\ x.open # NoOpen => x.open >= Session(now) - 1)
    BY <1>2, <2>5, <2>6, Presentable
  <2>8. answer' # None => full # {} /\ answer'.q = x
    BY <2>1
  <2>9. full # {} => x # None
    <3>1. full # {} => (CHOOSE s \in full : TRUE) \in full
      OBVIOUS
    <3> QED BY <3>1 DEF full, x
  <2>10. OpenFetchedRecently'
    BY <2>1, <2>7, <2>8, <2>9 DEF OpenFetchedRecently, Session, Day
  <2> QED BY <2>1, <2>3, <2>10, AgesKept
<1> QED
  BY <1>3, <1>4

\* _warm_get(): a parked quote that is given out or built on was parked less than
\* WarmTTL ago.
LEMMA BulkAges ==
    ASSUME LiveConstants, ShortLived, QuotesInv, AgesInv, NEW r \in Requests, NEW ex \in Exchanges,
           NEW fast \in BOOLEAN, NEW warm \in BOOLEAN, Bulk(r, ex, fast, warm)
    PROVE  AgesInv'
<1> DEFINE by == [s \in Symbols |-> IF warm THEN WarmGet(s, fast) ELSE None]
           idle == NoRequest
           rec == [idle EXCEPT !.pc = "batch", !.ex = ex, !.fast = fast, !.by = by, !.since = now]
           c == now - Reach(r)
<1>1. /\ \/ UNCHANGED proc /\ \E s \in Symbols : by[s] # None /\ answer' = [ex |-> ex, q |-> by[s]]
         \/ proc' = [proc EXCEPT ![r] = rec] /\ answer' = None
      /\ UNCHANGED <<now, cache, parked, sessionOpen>>
  BY DEF Bulk, Silent
<1>2. /\ now \in 0 .. MaxTime /\ now \in Nat /\ MaxRequest \in Nat /\ WarmTTL \in Nat \ {0} /\ OpenFrom \in Nat
      /\ r \in Procs /\ Reach(r) = WarmTTL - 1 + MaxRequest /\ WarmTTL - 1 + 2 * MaxRequest <= OpenFrom
  BY DEF QuotesInv, KeptGood, LiveConstants, ShortLived, Procs, Reach
<1>3. c \in Int /\ c <= now /\ now - c <= OpenFrom
  BY <1>2
<1>4. ASSUME NEW s \in Symbols PROVE by[s] \in MaybeTick /\ NotBefore(by[s], Day(c))
  <2>1. CASE by[s] = None
    BY <2>1 DEF MaybeTick, NotBefore
  <2>2. CASE by[s] # None
    <3> DEFINE x == parked[s].q
               a == parked[s].at
    <3>1. parked[s] # None /\ now - a < WarmTTL /\ by[s] = x
      BY <2>2 DEF WarmGet
    <3>2. x \in QuoteTick /\ a \in 0 .. now /\ NotBefore(x, Day(a - MaxRequest))
      BY <3>1 DEF QuotesInv, ParkedGood, AgesInv, ParkedAges
    <3> DEFINE b == a - MaxRequest
    <3>3. b \in Int /\ c <= b
      BY <1>2, <3>1, <3>2
    <3> HIDE DEF x, a, b, c, by
    <3>4. Day(c) <= Day(b) /\ Day(c) \in Int /\ Day(b) \in Int
      BY <1>3, <3>3, LaterDay
    <3>5. x.open \in Int
      BY <3>2 DEF QuoteTick, NoOpen
    <3>6. NotBefore(x, Day(b))
      BY <3>2 DEF b
    <3>7. NotBefore(x, Day(c))
      BY <3>4, <3>5, <3>6 DEF NotBefore
    <3> QED BY <3>1, <3>2, <3>7 DEF MaybeTick
  <2> QED BY <2>1, <2>2
<1>5. CASE UNCHANGED proc /\ \E s \in Symbols : by[s] # None /\ answer' = [ex |-> ex, q |-> by[s]]
  <2>1. PICK s \in Symbols : by[s] # None /\ answer' = [ex |-> ex, q |-> by[s]]
    BY <1>5
  <2> DEFINE x == by[s]
  <2>2. x \in MaybeTick /\ NotBefore(x, Day(c)) /\ x # None /\ answer'.q = x
    BY <1>4, <2>1
  <2> HIDE DEF x, c, by
  <2>3. x # None /\ x.open # NoOpen => x.open >= Session(now) - 1
    BY <1>2, <1>3, <2>2, Presentable
  <2>4. OpenFetchedRecently'
    BY <1>1, <2>2, <2>3 DEF OpenFetchedRecently, Session, Day
  <2>5. CallersAges'
    BY <1>1, <1>5 DEF AgesInv, CallersAges, CallerAges, Timely, AllNotBefore, NotBefore
  <2> QED BY <1>1, <2>4, <2>5, AgesKept
<1>6. CASE proc' = [proc EXCEPT ![r] = rec] /\ answer' = None
  <2>1. AllNotBefore(by, Day(c))
    BY <1>4 DEF AllNotBefore
  <2>2. idle \in ProcRecord
    BY IdleProc
  <2> HIDE DEF by, idle
  <2>3. rec.pc = "batch" /\ rec.by = by /\ rec.since = now
    BY <2>2 DEF ProcRecord
  <2> HIDE DEF rec
  <2>4. CallerAges(now, r, rec)
    <3>1. Timely(now, rec) /\ rec.pc \notin WaitPcs /\ rec.pc # "open"
      BY <1>2, <2>3 DEF Timely, WaitPcs
    <3> QED BY <2>1, <2>3, <3>1 DEF CallerAges
  <2>5. CallersAges'
    BY <1>1, <1>2, <1>6, <2>4, AgeSet DEF AgesInv
  <2>6. OpenFetchedRecently'
    BY <1>6 DEF OpenFetchedRecently
  <2> QED BY <1>1, <2>5, <2>6, AgesKept
<1> QED
  BY <1>1, <1>5, <1>6

\* The warm loop's round begins with nothing.
LEMMA WarmAges == ASSUME LiveConstants, QuotesInv, AgesInv, WarmTop PROVE AgesInv'
<1> DEFINE idle == NoRequest
           rec == [idle EXCEPT !.pc = "batch", !.fast = WarmFast, !.since = now]
<1>1. /\ proc' = [proc EXCEPT ![Warm] = rec] /\ answer' = None
      /\ UNCHANGED <<now, cache, parked, sessionOpen>>
  BY DEF WarmTop, Silent
<1>2. idle \in ProcRecord /\ \A s \in Symbols : idle.by[s] = None
  BY IdleProc DEF NoRequest, Nothing
<1>3. now \in Nat /\ MaxRequest \in Nat /\ Warm \in Procs
  BY DEF QuotesInv, KeptGood, LiveConstants, Procs
<1> HIDE DEF idle
<1>4. rec.pc = "batch" /\ rec.by = idle.by /\ rec.since = now
  BY <1>2 DEF ProcRecord
<1> HIDE DEF rec
<1>5. CallerAges(now, Warm, rec)
  <2>1. Timely(now, rec) /\ rec.pc \notin WaitPcs /\ rec.pc # "open"
    BY <1>3, <1>4 DEF Timely, WaitPcs
  <2>2. AllNotBefore(rec.by, Day(rec.since - Reach(Warm)))
    BY <1>2, <1>4 DEF AllNotBefore, NotBefore
  <2> QED BY <2>1, <2>2 DEF CallerAges
<1>6. CallersAges'
  BY <1>1, <1>3, <1>5, AgeSet DEF AgesInv
<1>7. OpenFetchedRecently'
  BY <1>1 DEF OpenFetchedRecently
<1> QED
  BY <1>1, <1>6, <1>7, AgesKept

\* A cancellation leaves a caller as it is or with nothing.
LEMMA CancelAges ==
    ASSUME LiveConstants, QuotesInv, AgesInv, NEW r \in Requests, Cancel(r)
    PROVE  AgesInv'
<1> DEFINE dead == [NoRequest EXCEPT !.pc = "dead"]
<1>1. /\ \A p \in Procs : proc'[p] = proc[p] \/ proc'[p] = NoRequest \/ proc'[p] = dead
      /\ answer' = None /\ UNCHANGED <<now, cache, parked, sessionOpen>>
  BY DEF Cancel, Silent
<1>2. NoRequest.pc = "idle" /\ dead.pc = "dead"
  BY DEF NoRequest
<1> HIDE DEF dead
<1>3. \A p \in Procs : CallerAges(now, p, proc'[p])
  <2> TAKE p \in Procs
  <2>1. CASE proc'[p] = proc[p]
    BY <2>1 DEF AgesInv, CallersAges
  <2>2. CASE proc'[p] = NoRequest \/ proc'[p] = dead
    <3>1. proc'[p].pc \in {"idle", "dead"}
      BY <1>2, <2>2
    <3> QED BY <3>1 DEF CallerAges
  <2> QED BY <1>1, <2>1, <2>2
<1>4. CallersAges'
  BY <1>1, <1>3 DEF CallersAges, CallerAges, Timely, AllNotBefore, NotBefore
<1>5. OpenFetchedRecently'
  BY <1>1 DEF OpenFetchedRecently
<1> QED
  BY <1>1, <1>4, <1>5, AgesKept

\* Time passes: entries and callers get older, within their bounds.
LEMMA ClockAges == ASSUME LiveConstants, QuotesInv, AgesInv, Clock PROVE AgesInv'
<1>1. /\ now' = now + 1 /\ UNCHANGED <<sessionOpen, proc>> /\ answer' = None
      /\ \A p \in Procs : Busy(p) => now - proc[p].since < MaxRequest
      /\ \A k \in Keys : cache'[k] = cache[k] \/ cache'[k] = None
      /\ \A s \in Symbols : parked'[s] = parked[s] \/ parked'[s] = None
  BY DEF Clock, Silent
<1>2. now \in Nat /\ now \in 0 .. MaxTime /\ MaxRequest \in Nat
  BY DEF QuotesInv, KeptGood, LiveConstants
<1>3. CacheAges'
  <2> SUFFICES ASSUME NEW k \in Keys, cache'[k] # None
               PROVE  cache'[k].at \in 0 .. now' /\ NotBefore(cache'[k].tick, Session(cache'[k].at))
    BY DEF CacheAges, NotBefore, Session, Day
  <2>1. cache'[k] = cache[k] /\ cache[k].at \in 0 .. now /\ NotBefore(cache[k].tick, Session(cache[k].at))
    BY <1>1 DEF AgesInv, CacheAges
  <2> QED BY <1>1, <1>2, <2>1
<1>4. ParkedAges'
  <2> SUFFICES ASSUME NEW s \in Symbols, parked'[s] # None
               PROVE  parked'[s].at \in 0 .. now' /\ NotBefore(parked'[s].q, Day(parked'[s].at - MaxRequest))
    BY DEF ParkedAges, NotBefore
  <2>1. /\ parked'[s] = parked[s] /\ parked[s].at \in 0 .. now
        /\ NotBefore(parked[s].q, Day(parked[s].at - MaxRequest))
    BY <1>1 DEF AgesInv, ParkedAges
  <2> QED BY <1>1, <1>2, <2>1
<1>5. OpenAges'
  BY <1>1 DEF AgesInv, OpenAges
<1>6. ASSUME NEW p \in Procs PROVE CallerAges(now', p, proc'[p])
  <2> DEFINE q == proc[p]
             n == now'
  <2>1. q \in ProcRecord /\ CallerAges(now, p, q) /\ proc'[p] = q
    BY <1>1 DEF QuotesInv, ProcsGood, AgesInv, CallersAges
  <2>2. q.pc \notin {"idle", "dead"} => now - q.since < MaxRequest
    BY <1>1 DEF Busy
  <2>3. q.since \in Nat /\ q.day \in Nat
    BY <2>1 DEF ProcRecord
  <2>4. n \in Int /\ now \in Int /\ now <= n /\ n = now + 1
    BY <1>1, <1>2
  <2> HIDE DEF n, q
  <2>5. Day(now) <= Day(n) /\ Day(n) \in Int /\ Day(now) \in Int
    BY <2>4, LaterDay
  <2>6. q.pc \notin {"idle", "dead"} => Timely(n, q)
    BY <1>2, <2>1, <2>2, <2>3, <2>4 DEF CallerAges, Timely
  <2>7. q.pc = "open" => q.day <= Day(n)
    BY <2>1, <2>3, <2>5 DEF CallerAges
  <2>8. CallerAges(n, p, q)
    BY <2>1, <2>6, <2>7 DEF CallerAges
  <2> QED BY <2>1, <2>8 DEF n
<1>7. CallersAges'
  BY <1>6 DEF CallersAges, CallerAges, Timely, AllNotBefore, NotBefore, Day
<1>8. OpenFetchedRecently'
  BY <1>1 DEF OpenFetchedRecently
<1> QED
  BY <1>3, <1>4, <1>5, <1>7, <1>8 DEF AgesInv

(***************************************************************************)
(* An opening price that /quote or /quotes gives out was fetched in this   *)
(* session or the one before it, however long fetches overlap midnight and *)
(* the bell, wherever the quote was kept in between (_live_q_cache,        *)
(* _SESSION_OPEN, _warm_cache) and for any number of symbols in a request. *)
(* The day's hours must outlast what is kept: ShortLived.  Which day the   *)
(* price is of is the feed's affair: an archive may give an older one's.   *)
(***************************************************************************)
THEOREM OpensFetchedRecently == LiveSpec => []OpenFetchedRecently
<1> USE LiveAssumption
<1>1. (LiveInit => QuotesInv) /\ (QuotesInv /\ [LiveNext]_liveVars => QuotesInv')
  BY QuotesInductive
<1>2. LiveInit => AgesInv
  <2> SUFFICES ASSUME LiveInit PROVE AgesInv
    OBVIOUS
  <2>1. CacheAges
    BY DEF LiveInit, CacheAges
  <2>2. OpenAges /\ ParkedAges
    BY DEF LiveInit, OpenAges, ParkedAges, Nothing
  <2>3. \A p \in Procs : proc[p].pc = "idle"
    BY DEF LiveInit, NoRequest
  <2>4. CallersAges
    BY <2>3 DEF CallersAges, CallerAges
  <2>5. OpenFetchedRecently
    BY DEF LiveInit, OpenFetchedRecently
  <2> QED BY <2>1, <2>2, <2>4, <2>5 DEF AgesInv
<1>3. QuotesInv /\ AgesInv /\ [LiveNext]_liveVars => AgesInv'
  <2> SUFFICES ASSUME QuotesInv, AgesInv, [LiveNext]_liveVars PROVE AgesInv'
    OBVIOUS
  <2>1. CASE UNCHANGED liveVars
    <3>1. CallersAges'
      BY <2>1 DEF liveVars, AgesInv, CallersAges, CallerAges, Timely, AllNotBefore, NotBefore
    <3>2. OpenFetchedRecently'
      BY <2>1 DEF liveVars, AgesInv, OpenFetchedRecently, Session, Day
    <3> QED BY <2>1, <3>1, <3>2, AgesKept DEF liveVars
  <2>2. CASE \E t \in FetchTasks : Fetch(t)
    BY <2>2, FetchAges
  <2>3. ASSUME NEW p \in Procs, Progress(p) PROVE AgesInv'
    BY <2>3, BatchAges, OpenDoneAges, QuoteAges DEF Progress
  <2>4. ASSUME NEW r \in Requests, \E ex \in Exchanges, s \in Symbols : Quote(r, ex, s) PROVE AgesInv'
    <3>1. r \in Procs
      BY DEF Procs
    <3> QED BY <2>4, <3>1, QuoteAges
  <2>5. ASSUME NEW r \in Requests,
               (\E ex \in Exchanges, fast, warm \in BOOLEAN : Bulk(r, ex, fast, warm)) \/ Screen(r)
        PROVE  AgesInv'
    <3>1. NSE \in Exchanges
      BY DEF LiveConstants
    <3>2. \E ex \in Exchanges, fast, warm \in BOOLEAN : Bulk(r, ex, fast, warm)
      BY <2>5, <3>1 DEF Screen
    <3> QED BY <3>2, BulkAges
  <2> QED
    BY <2>1, <2>2, <2>3, <2>4, <2>5, CancelAges, WarmAges, ClockAges DEF LiveNext
<1>4. AgesInv => OpenFetchedRecently
  BY DEF AgesInv
<1> QED
  BY <1>1, <1>2, <1>3, <1>4, PTL DEF LiveSpec
-----------------------------------------------------------------------------
(***************************************************************************)
(* The refinement of SingleFlight: each step of the live quotes is a       *)
(* caller joining flights, a flight landing, a caller giving up, or none   *)
(* of these.                                                               *)
(***************************************************************************)
\* Who is not waiting has no task left to cancel.
AtRest == \A p \in Procs : ~Waiting(p) => proc[p].need = Nothing

\* Who waits for nothing is on no flight, before a step and after it.
LEMMA NotJoined ==
    ASSUME NEW p \in Procs
    PROVE  /\ ~Waiting(p) \/ proc[p].need = Nothing => Joined[p] = {}
           /\ (~Waiting(p))' \/ proc'[p].need = Nothing => Joined'[p] = {}
<1>1. \A k \in Keys : k[2] \in Symbols /\ Nothing[k[2]] = None
  BY DEF Keys, Nothing
<1>2. ~Waiting(p) \/ proc[p].need = Nothing => Joined[p] = {}
  BY <1>1 DEF Joined
<1>3. (~Waiting(p))' \/ proc'[p].need = Nothing => Joined'[p] = {}
  BY <1>1 DEF Joined
<1> QED
  BY <1>2, <1>3

\* A caller that does nothing stays on its flights.
LEMMA SameJoined ==
    ASSUME NEW p \in Procs, proc'[p] = proc[p]
    PROVE  Joined'[p] = Joined[p] /\ (Waiting(p)' <=> Waiting(p))
<1>1. Waiting(p)' <=> Waiting(p)
  BY DEF Waiting
<1>2. Joined'[p] = Joined[p]
  BY <1>1 DEF Joined
<1> QED
  BY <1>1, <1>2

\* A step that leaves the in-flight table and everybody's flights alone is none of
\* SingleFlight's.
LEMMA NoFlight ==
    ASSUME inflight' = inflight, \A p \in Procs : Joined'[p] = Joined[p]
    PROVE  UNCHANGED Flights!flightVars
<1>1. Flying' = Flying
  BY DEF Flying
<1>2. Joined' = [p \in Procs |-> Joined'[p]] /\ Joined = [p \in Procs |-> Joined[p]]
  BY DEF Joined
<1>3. Joined' = Joined
  BY <1>2
<1> QED
  BY <1>1, <1>3 DEF Flights!flightVars

\* A step of one caller that is on no flight before it and on none after it, or that
\* starts a request which first asks the batch feed.
LEMMA OneProc ==
    ASSUME QuotesInv, AtRest, NEW p \in Procs, NEW q, proc' = [proc EXCEPT ![p] = q],
           ~Waiting(p) \/ proc[p].need = Nothing, q.pc \notin WaitPcs, q.need = Nothing,
           inflight' = inflight
    PROVE  AtRest' /\ UNCHANGED Flights!flightVars
<1>1. proc'[p] = q /\ \A x \in Procs : x # p => proc'[x] = proc[x]
  BY DEF QuotesInv, ProcsGood
<1>2. Joined[p] = {} /\ Joined'[p] = {}
  BY <1>1, NotJoined
<1>3. \A x \in Procs : Joined'[x] = Joined[x]
  BY <1>1, <1>2, SameJoined
<1>4. AtRest'
  <2> SUFFICES ASSUME NEW x \in Procs, ~Waiting(x)' PROVE proc'[x].need = Nothing'
    BY DEF AtRest
  <2>1. Nothing' = Nothing
    BY DEF Nothing
  <2>2. CASE x = p
    BY <1>1, <2>1, <2>2
  <2>3. CASE x # p
    BY <1>1, <2>1, <2>3, SameJoined DEF AtRest
  <2> QED BY <2>2, <2>3
<1> QED
  BY <1>3, <1>4, NoFlight

\* _live_quote() for several symbols: the caller joins a flight for each that is not
\* served from the cache.
LEMMA AwaitJoins ==
    ASSUME LiveConstants, QuotesInv, AtRest, NEW p \in Procs, NEW S \in SUBSET Symbols,
           NEW rec \in ProcRecord, rec.pc \in WaitPcs, Await(p, S, rec),
           ~Waiting(p) \/ proc[p].need = Nothing
    PROVE  AtRest' /\ \E K \in SUBSET Keys : Flights!Join(p, K)
<1> DEFINE K == {k \in {rec.ex} \X S : ~Fresh(k)}
           start == {k \in {rec.ex} \X S : ~Fresh(k) /\ inflight[k] = None}
           new == CHOOSE f \in FreeTasks(start) : TRUE
           A == [s \in Symbols |-> IF s \in S /\ ~Fresh(<<rec.ex, s>>) THEN inflight'[<<rec.ex, s>>] ELSE None]
           B == [s \in Symbols |-> IF s \in S /\ Fresh(<<rec.ex, s>>) THEN cache[<<rec.ex, s>>].tick ELSE None]
           q == [rec EXCEPT !.need = A, !.got = B]
<1>1. /\ FreeTasks(start) # {}
      /\ inflight' = [k \in Keys |-> IF k \in start THEN new[k] ELSE inflight[k]]
      /\ proc' = [proc EXCEPT ![p] = q]
  BY DEF Await, Wait
<1>2. rec.ex \in Exchanges
  BY DEF ProcRecord
<1>3. K \subseteq Keys /\ start \subseteq K /\ \A k \in K : k \notin start => inflight[k] # None
  BY <1>2 DEF Keys
<1>4. \A s \in Symbols : s \in S /\ ~Fresh(<<rec.ex, s>>) <=> <<rec.ex, s>> \in K
  OBVIOUS
<1>5. \A k \in start : new[k] \in FetchTasks /\ new[k] # None
  <2>1. new \in FreeTasks(start) /\ None \notin FetchTasks
    BY <1>1 DEF LiveConstants
  <2> HIDE DEF new, start
  <2> QED BY <2>1 DEF FreeTasks
<1>6. q.need = A /\ q.pc = rec.pc /\ q.ex = rec.ex
  BY DEF ProcRecord
<1> HIDE DEF start, new, K
<1>7. \A k \in Keys : inflight'[k] # None <=> inflight[k] # None \/ k \in K
  BY <1>1, <1>3, <1>5
<1>8. Flying' = Flying \cup K
  BY <1>3, <1>7 DEF Flying
<1>9. \A k \in Keys : k[1] = rec.ex /\ A[k[2]] # None <=> k \in K
  <2> SUFFICES ASSUME NEW k \in Keys PROVE k[1] = rec.ex /\ A[k[2]] # None <=> k \in K
    OBVIOUS
  <2>1. k = <<k[1], k[2]>> /\ k[2] \in Symbols
    BY DEF Keys
  <2>2. CASE k[1] = rec.ex
    BY <1>3, <1>4, <1>7, <2>1, <2>2
  <2>3. CASE k[1] # rec.ex
    BY <2>3 DEF K
  <2> QED BY <2>2, <2>3
<1> HIDE DEF A, B, q
<1>10. proc'[p] = q /\ \A x \in Procs : x # p => proc'[x] = proc[x]
  BY <1>1 DEF QuotesInv, ProcsGood
<1>11. Waiting(p)'
  BY <1>6, <1>10 DEF Waiting, WaitPcs
<1>12. Joined'[p] = K
  <2>1. Joined'[p] = {k \in Keys : k[1] = proc'[p].ex /\ proc'[p].need[k[2]] # None}
    BY <1>11 DEF Joined
  <2>2. Joined'[p] = {k \in Keys : k \in K}
    BY <1>6, <1>9, <1>10, <2>1
  <2> QED BY <1>3, <2>2
<1>13. Joined' = [Joined EXCEPT ![p] = K]
  <2>1. Joined' = [x \in Procs |-> Joined'[x]] /\ Joined = [x \in Procs |-> Joined[x]]
    BY DEF Joined
  <2>2. \A x \in Procs : x # p => Joined'[x] = Joined[x]
    BY <1>10, SameJoined
  <2> QED BY <1>12, <2>1, <2>2
<1>14. Joined[p] = {}
  BY NotJoined
<1>15. Flights!Join(p, K)
  BY <1>8, <1>13, <1>14 DEF Flights!Join
<1>16. AtRest'
  <2> SUFFICES ASSUME NEW x \in Procs, ~Waiting(x)' PROVE proc'[x].need = Nothing'
    BY DEF AtRest
  <2>1. x # p /\ Nothing' = Nothing
    BY <1>11 DEF Nothing
  <2> QED BY <1>10, <2>1, SameJoined DEF AtRest
<1> QED
  BY <1>3, <1>15, <1>16
\* _do_live_fetch(): its end is the landing of its key's flight, for all who are on it.
LEMMA FetchLands ==
    ASSUME LiveConstants, QuotesInv, AtRest, NEW t \in FetchTasks, Fetch(t)
    PROVE  AtRest' /\ (UNCHANGED Flights!flightVars \/ \E k \in Keys : Flights!Land(k))
<1> DEFINE k == fetches[t].key
<1>1. fetches[t] # None /\ k \in Keys /\ inflight[k] = t
  <2>1. fetches[t] # None
    BY DEF Fetch, FetchTick, FetchNothing, FetchAgain
  <2>2. fetches[t] \in FetchRecord /\ inflight[k] = t
    BY <2>1 DEF QuotesInv, Linked
  <2> QED BY <2>1, <2>2 DEF FetchRecord
<1>2. CASE FetchAgain(t)
  <2>1. inflight' = inflight /\ proc' = proc
    BY <1>2 DEF FetchAgain
  <2>2. AtRest'
    BY <2>1 DEF AtRest, Waiting, Nothing
  <2>3. \A p \in Procs : Joined'[p] = Joined[p]
    BY <2>1, SameJoined
  <2> QED BY <2>1, <2>2, <2>3, NoFlight
<1>3. ASSUME NEW x, proc' = Delivered(t, x), inflight' = Popped(t)
      PROVE  AtRest' /\ Flights!Land(k)
  <2>1. /\ inflight \in [Keys -> FetchTasks \cup {None}] /\ None \notin FetchTasks
        /\ \A j \in Keys : inflight[j] # None => fetches[inflight[j]].key = j
    BY DEF QuotesInv, Linked, LiveConstants
  <2>2. /\ k \in Flying /\ Flying' = Flying \ {k}
    <3>1. inflight' = [inflight EXCEPT ![k] = None]
      BY <1>3 DEF Popped
    <3> QED BY <1>1, <2>1, <3>1 DEF Flying
  <2>3. k = <<k[1], k[2]>> /\ k[1] \in Exchanges /\ k[2] \in Symbols
    BY <1>1 DEF Keys
  <2> HIDE DEF k
  <2>4. ASSUME NEW p \in Procs
        PROVE  /\ Joined'[p] = Joined[p] \ {k}
               /\ ~Waiting(p)' => proc'[p].need = Nothing
    <3> DEFINE o == proc[p]
    <3>1. o \in ProcRecord /\ WaitsForRegistered(o)
      BY <2>4 DEF QuotesInv, ProcsGood
    <3>2. o.ex \in Exchanges /\ o.need \in [Symbols -> FetchTasks \cup {None}] /\ o.got \in [Symbols -> MaybeTick]
      BY <3>1 DEF ProcRecord
    <3>3. ASSUME NEW s \in Symbols, Waiting(p), o.need[s] = t PROVE o.ex = k[1] /\ s = k[2]
      <4>1. inflight[<<o.ex, s>>] = t /\ <<o.ex, s>> \in Keys
        BY <2>1, <3>1, <3>2, <3>3 DEF WaitsForRegistered, Waiting, WaitPcs, Keys
      <4>2. k = <<o.ex, s>>
        BY <2>1, <4>1 DEF k
      <4> QED BY <4>2
    <3>4. CASE Waiting(p) /\ \E s \in Symbols : o.need[s] = t
      <4> DEFINE A == [o.need EXCEPT ![k[2]] = None]
      <4>1. o.ex = k[1] /\ o.need[k[2]] = t
        BY <3>3, <3>4
      <4>2. proc'[p] = [o EXCEPT !.need[k[2]] = None, !.got[k[2]] = x]
        BY <1>3, <2>4, <3>4 DEF Delivered, k
      <4>3. proc'[p].need = A /\ proc'[p].pc = o.pc /\ proc'[p].ex = o.ex
        BY <3>1, <4>2 DEF ProcRecord
      <4>4. A[k[2]] = None /\ \A s \in Symbols : s # k[2] => A[s] = o.need[s]
        BY <2>3, <3>2
      <4> HIDE DEF A
      <4>5. Waiting(p)'
        BY <3>4, <4>3 DEF Waiting
      <4>6. Joined'[p] = {j \in Keys : j[1] = o.ex /\ A[j[2]] # None}
        BY <4>3, <4>5 DEF Joined
      <4>7. Joined[p] = {j \in Keys : j[1] = o.ex /\ o.need[j[2]] # None}
        BY <3>4 DEF Joined
      <4>8. \A j \in Keys : /\ j[2] \in Symbols
                            /\ j[1] = o.ex /\ A[j[2]] # None <=> j[1] = o.ex /\ o.need[j[2]] # None /\ j # k
        <5> SUFFICES ASSUME NEW j \in Keys
                     PROVE  /\ j[2] \in Symbols
                            /\ j[1] = o.ex /\ A[j[2]] # None <=> j[1] = o.ex /\ o.need[j[2]] # None /\ j # k
          OBVIOUS
        <5>1. j = <<j[1], j[2]>> /\ j[2] \in Symbols
          BY DEF Keys
        <5>2. CASE j[2] = k[2]
          BY <2>3, <4>1, <4>4, <5>1, <5>2
        <5>3. CASE j[2] # k[2]
          BY <4>4, <5>1, <5>3
        <5> QED BY <5>2, <5>3
      <4>9. Joined'[p] = Joined[p] \ {k}
        BY <4>6, <4>7, <4>8
      <4> QED BY <4>5, <4>9
    <3>5. CASE ~(Waiting(p) /\ \E s \in Symbols : o.need[s] = t)
      <4>1. proc'[p] = proc[p]
        BY <1>3, <2>4, <3>5 DEF Delivered
      <4>2. k \notin Joined[p]
        <5> SUFFICES ASSUME k \in Joined[p] PROVE FALSE
          OBVIOUS
        <5>1. Waiting(p) /\ k[1] = o.ex /\ o.need[k[2]] # None
          BY DEF Joined
        <5>2. inflight[<<o.ex, k[2]>>] = o.need[k[2]]
          BY <2>3, <3>1, <5>1 DEF WaitsForRegistered, Waiting, WaitPcs
        <5>3. o.need[k[2]] = t
          BY <1>1, <2>3, <5>1, <5>2 DEF k
        <5> QED BY <2>3, <3>5, <5>1, <5>3
      <4>3. ~Waiting(p)' => proc'[p].need = Nothing
        BY <4>1, SameJoined DEF AtRest
      <4> QED BY <4>1, <4>2, <4>3, SameJoined
    <3> QED BY <3>4, <3>5
  <2>5. Joined' = [p \in Procs |-> Joined[p] \ {k}]
    <3>1. Joined' = [p \in Procs |-> Joined'[p]]
      BY DEF Joined
    <3> QED BY <2>4, <3>1
  <2>6. AtRest'
    BY <2>4 DEF AtRest, Nothing
  <2> QED BY <2>2, <2>5, <2>6 DEF Flights!Land
<1>4. ASSUME NEW open, FetchTick(t, open) PROVE AtRest' /\ Flights!Land(k)
  BY <1>3, <1>4 DEF FetchTick
<1>5. CASE FetchNothing(t)
  <2>1. proc' = Delivered(t, None) /\ inflight' = Popped(t)
    BY <1>5 DEF FetchNothing
  <2>2. AtRest' /\ Flights!Land(k)
    BY <1>3, <2>1
  <2> QED BY <1>1, <2>2
<1> QED
  BY <1>1, <1>2, <1>4, <1>5 DEF Fetch

\* A cancelled request gives up its flights, and with them everybody on one of them.
LEMMA CancelGivesUp ==
    ASSUME LiveConstants, QuotesInv, AtRest, NEW r \in Requests, Cancel(r)
    PROVE  AtRest' /\ Flights!GiveUp(r)
<1> DEFINE hit == {proc[r].need[s] : s \in Symbols} \cap FetchTasks
           victims == {p \in Procs : Waiting(p) /\ \E s \in Symbols : proc[p].need[s] \in hit}
           dead == [NoRequest EXCEPT !.pc = "dead"]
<1>1. /\ proc' = [p \in Procs |-> IF p = Warm /\ p \in victims THEN dead
                                      ELSE IF p = r \/ p \in victims THEN NoRequest ELSE proc[p]]
      /\ inflight' = [k \in Keys |-> IF inflight[k] \in hit THEN None ELSE inflight[k]]
  BY DEF Cancel
<1>2. /\ inflight \in [Keys -> FetchTasks \cup {None}] /\ None \notin FetchTasks /\ r \in Procs
      /\ \A j, k \in Keys : inflight[j] # None /\ inflight[j] = inflight[k] => j = k
  BY DEF QuotesInv, Linked, LiveConstants, Procs
<1>3. ASSUME NEW p \in Procs
      PROVE  /\ proc[p].ex \in Exchanges /\ proc[p].need \in [Symbols -> FetchTasks \cup {None}]
             /\ \A s \in Symbols : proc[p].need[s] # None =>
                  /\ Waiting(p) /\ <<proc[p].ex, s>> \in Joined[p]
                  /\ inflight[<<proc[p].ex, s>>] = proc[p].need[s]
             /\ \A k \in Joined[p] : /\ k \in Keys /\ k[2] \in Symbols /\ Waiting(p)
                                     /\ inflight[k] = proc[p].need[k[2]] /\ inflight[k] # None
  <2>1. proc[p] \in ProcRecord /\ WaitsForRegistered(proc[p]) /\ (~Waiting(p) => proc[p].need = Nothing)
    BY <1>3 DEF QuotesInv, ProcsGood, AtRest
  <2>2. proc[p].ex \in Exchanges /\ proc[p].need \in [Symbols -> FetchTasks \cup {None}]
    BY <2>1 DEF ProcRecord
  <2>3. ASSUME NEW s \in Symbols, proc[p].need[s] # None
        PROVE  /\ Waiting(p) /\ <<proc[p].ex, s>> \in Joined[p]
               /\ inflight[<<proc[p].ex, s>>] = proc[p].need[s]
    <3>1. Waiting(p)
      BY <2>1, <2>3 DEF Nothing
    <3>2. <<proc[p].ex, s>> \in Keys
      BY <2>2 DEF Keys
    <3> QED BY <1>3, <2>1, <2>3, <3>1, <3>2 DEF Joined, WaitsForRegistered, Waiting, WaitPcs
  <2>4. ASSUME NEW k \in Joined[p]
        PROVE  /\ k \in Keys /\ k[2] \in Symbols /\ Waiting(p)
               /\ inflight[k] = proc[p].need[k[2]] /\ inflight[k] # None
    <3>1. k \in Keys /\ Waiting(p) /\ k[1] = proc[p].ex /\ proc[p].need[k[2]] # None
      BY <1>3, <2>4 DEF Joined
    <3>2. k = <<k[1], k[2]>> /\ k[2] \in Symbols
      BY <3>1 DEF Keys
    <3> QED BY <2>3, <3>1, <3>2
  <2> QED BY <2>2, <2>3, <2>4
<1>4. \A k \in Keys : inflight[k] \in hit <=> k \in Joined[r]
  <2> SUFFICES ASSUME NEW k \in Keys PROVE inflight[k] \in hit <=> k \in Joined[r]
    OBVIOUS
  <2>1. ASSUME inflight[k] \in hit PROVE k \in Joined[r]
    <3>1. PICK s \in Symbols : proc[r].need[s] = inflight[k] /\ inflight[k] \in FetchTasks
      BY <2>1
    <3>2. <<proc[r].ex, s>> \in Joined[r] /\ inflight[<<proc[r].ex, s>>] = inflight[k]
      BY <1>2, <1>3, <3>1
    <3> QED BY <1>2, <1>3, <3>1, <3>2
  <2>2. ASSUME k \in Joined[r] PROVE inflight[k] \in hit
    BY <1>2, <1>3, <2>2
  <2> QED BY <2>1, <2>2
<1>5. \A p \in Procs : p \in victims <=> Joined[p] \cap Joined[r] # {}
  <2> SUFFICES ASSUME NEW p \in Procs PROVE p \in victims <=> Joined[p] \cap Joined[r] # {}
    OBVIOUS
  <2> HIDE DEF hit
  <2>0. \A h \in hit : h # None
    BY <1>2 DEF hit
  <2>1. ASSUME p \in victims PROVE Joined[p] \cap Joined[r] # {}
    <3>1. PICK s \in Symbols : proc[p].need[s] \in hit
      BY <2>1
    <3>2. <<proc[p].ex, s>> \in Joined[p] /\ inflight[<<proc[p].ex, s>>] \in hit
      BY <1>3, <2>0, <3>1
    <3>3. <<proc[p].ex, s>> \in Joined[r]
      BY <1>3, <1>4, <3>2
    <3> QED BY <3>2, <3>3
  <2>2. ASSUME NEW k \in Joined[p], k \in Joined[r] PROVE p \in victims
    <3>1. k \in Keys /\ k[2] \in Symbols /\ Waiting(p) /\ inflight[k] = proc[p].need[k[2]]
      BY <1>3, <2>2
    <3>2. inflight[k] \in hit
      BY <1>4, <2>2, <3>1
    <3> QED BY <3>1, <3>2
  <2> QED BY <2>1, <2>2
<1> HIDE DEF hit, victims
<1>6. Flying' = Flying \ Joined[r]
  BY <1>1, <1>4 DEF Flying
<1>7. /\ NoRequest.pc = "idle" /\ NoRequest.need = Nothing
      /\ dead.pc = "dead" /\ dead.need = Nothing
  BY DEF NoRequest
<1> HIDE DEF dead
<1>8. ASSUME NEW p \in Procs
      PROVE  /\ Joined'[p] = IF p = r \/ Joined[p] \cap Joined[r] # {} THEN {} ELSE Joined[p]
             /\ ~Waiting(p)' => proc'[p].need = Nothing
  <2>1. CASE p = r \/ p \in victims
    <3>1. proc'[p] = dead \/ proc'[p] = NoRequest
      BY <1>1, <1>8, <2>1
    <3>2. proc'[p].need = Nothing
      BY <1>7, <3>1
    <3> QED BY <1>5, <1>8, <2>1, <3>2, NotJoined
  <2>2. CASE ~(p = r \/ p \in victims)
    <3>1. proc'[p] = proc[p]
      BY <1>1, <1>8, <2>2
    <3> QED BY <1>5, <1>8, <2>2, <3>1, SameJoined DEF AtRest
  <2> QED BY <2>1, <2>2
<1>9. Joined' = [p \in Procs |-> IF p = r \/ Joined[p] \cap Joined[r] # {} THEN {} ELSE Joined[p]]
  <2>1. Joined' = [p \in Procs |-> Joined'[p]]
    BY DEF Joined
  <2> QED BY <1>8, <2>1
<1>10. AtRest'
  BY <1>8 DEF AtRest, Nothing
<1> QED
  BY <1>6, <1>9, <1>10 DEF Flights!GiveUp
\* The end of a bulk path is no step of a flight: nothing is awaited any more.
LEMMA FinishRests ==
    ASSUME QuotesInv, AtRest, NEW p \in Procs, NEW by, Finish(p, by), inflight' = inflight,
           ~Waiting(p) \/ proc[p].need = Nothing
    PROVE  AtRest' /\ UNCHANGED Flights!flightVars
<1> DEFINE idle == NoRequest
<1>1. idle.pc \notin WaitPcs /\ idle.need = Nothing /\ proc' = [proc EXCEPT ![p] = idle]
  BY DEF Finish, NoRequest, WaitPcs
<1> HIDE DEF idle
<1> QED
  BY <1>1, OneProc

\* _fill_open(): its fetches, if there are any, are joined.
LEMMA FillJoins ==
    ASSUME LiveConstants, QuotesInv, AtRest, NEW p \in Procs, NEW by \in [Symbols -> MaybeTick],
           FillOpen(p, by), UNCHANGED <<now, cache, sessionOpen>>,
           ~Waiting(p) \/ proc[p].need = Nothing
    PROVE  AtRest' /\ [Flights!Next]_(Flights!flightVars)
<1> DEFINE filled == [s \in Symbols |->
                        IF by[s] # None /\ by[s].open = NoOpen /\ Dated(s)
                        THEN [by[s] EXCEPT !.open = sessionOpen[s].open] ELSE by[s]]
           wanted == {s \in Symbols : filled[s] # None /\ filled[s].open = NoOpen}
           rec == [proc[p] EXCEPT !.pc = "open", !.by = filled, !.day = Day(now)]
           all == IF proc[p].fast THEN by ELSE filled
<1>1. \/ Finish(p, all) /\ UNCHANGED <<inflight, fetches>>
      \/ Await(p, wanted, rec) /\ UNCHANGED parked
  BY DEF FillOpen
<1>2. filled \in [Symbols -> MaybeTick]
  BY FilledTicks
<1>3. wanted \in SUBSET Symbols
  OBVIOUS
<1> HIDE DEF filled, wanted
<1>5. CASE Finish(p, all) /\ UNCHANGED <<inflight, fetches>>
  BY <1>5, FinishRests
<1>6. CASE Await(p, wanted, rec) /\ UNCHANGED parked
  <2>1. rec \in ProcRecord /\ rec.pc = "open"
    BY <1>2, OpenRecord
  <2> HIDE DEF rec
  <2>2. rec.pc \in WaitPcs
    BY <2>1 DEF WaitPcs
  <2>3. AtRest' /\ \E K \in SUBSET Keys : Flights!Join(p, K)
    BY <1>3, <1>6, <2>1, <2>2, AwaitJoins
  <2> QED BY <2>3 DEF Flights!Next
<1> QED
  BY <1>1, <1>5, <1>6

\* A request or the warm loop goes on: it joins flights, or none of them notices.
LEMMA ProgressJoins ==
    ASSUME LiveConstants, QuotesInv, AtRest, NEW p \in Procs, Progress(p)
    PROVE  AtRest' /\ [Flights!Next]_(Flights!flightVars)
<1>1. /\ proc[p] \in ProcRecord
      /\ proc[p].by \in [Symbols -> MaybeTick] /\ proc[p].got \in [Symbols -> MaybeTick]
  BY DEF QuotesInv, ProcsGood, ProcRecord
<1>2. ASSUME NEW R, Batch(p, R) PROVE AtRest' /\ [Flights!Next]_(Flights!flightVars)
  <2> DEFINE missing == {s \in Symbols : proc[p].by[s] = None}
             by == [s \in Symbols |-> IF s \in R \cap missing THEN BatchTick ELSE proc[p].by[s]]
             rec == [proc[p] EXCEPT !.pc = "live", !.by = by]
  <2>1. /\ \/ FillOpen(p, by)
           \/ Await(p, missing \ R, rec) /\ UNCHANGED parked
        /\ UNCHANGED <<now, cache, sessionOpen>> /\ proc[p].pc = "batch"
    BY <1>2 DEF Batch
  <2>2. by \in [Symbols -> MaybeTick]
    <3>1. BatchTick \in MaybeTick
      BY DEF BatchTick, QuoteTick, MaybeTick, NoOpen
    <3> QED BY <1>1, <3>1
  <2>3. missing \ R \in SUBSET Symbols
    OBVIOUS
  <2>4. ~Waiting(p)
    BY <2>1 DEF Waiting
  <2> HIDE DEF missing, by
  <2>5. CASE FillOpen(p, by)
    BY <2>1, <2>2, <2>4, <2>5, FillJoins
  <2>6. CASE Await(p, missing \ R, rec) /\ UNCHANGED parked
    <3> DEFINE q1 == [proc[p] EXCEPT !.pc = "live"]
               q2 == [q1 EXCEPT !.by = by]
               S == missing \ R
    <3>1. q1 \in ProcRecord /\ q1.pc = "live"
      BY <1>1 DEF ProcRecord
    <3>2. rec = q2
      OBVIOUS
    <3> HIDE DEF q1
    <3>3. q2 \in ProcRecord /\ q2.pc = "live"
      BY <2>2, <3>1 DEF ProcRecord
    <3> HIDE DEF q2
    <3>4. rec \in ProcRecord /\ rec.pc \in WaitPcs
      BY <3>2, <3>3 DEF WaitPcs
    <3> HIDE DEF rec
    <3>5. S \in SUBSET Symbols /\ Await(p, S, rec)
      BY <2>3, <2>6
    <3> HIDE DEF S
    <3>6. AtRest' /\ \E K \in SUBSET Keys : Flights!Join(p, K)
      BY <2>4, <3>4, <3>5, AwaitJoins
    <3> QED BY <3>6 DEF Flights!Next
  <2> QED BY <2>1, <2>5, <2>6
<1>3. CASE LiveDone(p)
  <2> DEFINE by == [s \in Symbols |-> IF proc[p].got[s] = None THEN proc[p].by[s] ELSE proc[p].got[s]]
  <2>1. FillOpen(p, by) /\ UNCHANGED <<now, cache, sessionOpen>> /\ proc[p].need = Nothing
    BY <1>3 DEF LiveDone, Ready
  <2>2. by \in [Symbols -> MaybeTick]
    BY <1>1
  <2> HIDE DEF by
  <2> QED BY <2>1, <2>2, FillJoins
<1>4. CASE OpenDone(p)
  <2>1. /\ \E by : Finish(p, by)
        /\ inflight' = inflight /\ proc[p].need = Nothing
    BY <1>4 DEF OpenDone, Ready
  <2> QED BY <2>1, FinishRests
<1>5. CASE QuoteDone(p)
  <2> DEFINE idle == NoRequest
  <2>1. /\ idle.pc \notin WaitPcs /\ idle.need = Nothing /\ proc' = [proc EXCEPT ![p] = idle]
        /\ inflight' = inflight /\ proc[p].need = Nothing
    BY <1>5 DEF QuoteDone, Ready, NoRequest, WaitPcs
  <2> HIDE DEF idle
  <2> QED BY <2>1, OneProc
<1> QED
  BY <1>2, <1>3, <1>4, <1>5 DEF Progress

\* A request arrives, or a round of the warm loop begins.
LEMMA ArrivalJoins ==
    ASSUME LiveConstants, QuotesInv, AtRest, NEW p \in Procs,
           \/ \E ex \in Exchanges, s \in Symbols : Quote(p, ex, s)
           \/ \E ex \in Exchanges, fast, warm \in BOOLEAN : Bulk(p, ex, fast, warm)
           \/ p = Warm /\ WarmTop
    PROVE  AtRest' /\ [Flights!Next]_(Flights!flightVars)
<1> DEFINE idle == NoRequest
<1>1. /\ idle \in ProcRecord /\ idle.need = Nothing /\ idle.pc = "idle"
      /\ Nothing \in [Symbols -> MaybeTick]
  BY IdleProc DEF NoRequest
<1>2. proc[p] = idle
  BY DEF Quote, Bulk, WarmTop
<1>3. ASSUME NEW ex \in Exchanges, NEW s \in Symbols, Quote(p, ex, s)
      PROVE  AtRest' /\ [Flights!Next]_(Flights!flightVars)
  <2> DEFINE rec == [NoRequest EXCEPT !.pc = "quote", !.ex = ex, !.since = now]
             q1 == [idle EXCEPT !.pc = "quote"]
             q2 == [q1 EXCEPT !.ex = ex]
             q3 == [q2 EXCEPT !.since = now]
  <2>1. Await(p, {s}, rec) /\ now \in Nat
    <3>1. Await(p, {s}, rec)
      BY <1>3 DEF Quote
    <3> HIDE DEF rec
    <3>2. now \in Nat
      BY DEF QuotesInv, KeptGood, LiveConstants
    <3> QED BY <3>1, <3>2
  <2>2. rec = q3
    OBVIOUS
  <2> HIDE DEF idle, rec
  <2>3. q1 \in ProcRecord /\ q1.pc = "quote"
    BY <1>1 DEF ProcRecord
  <2> HIDE DEF q1
  <2>4. q2 \in ProcRecord /\ q2.pc = "quote"
    BY <2>3 DEF ProcRecord
  <2> HIDE DEF q2
  <2>5. q3 \in ProcRecord /\ q3.pc = "quote"
    BY <2>1, <2>4 DEF ProcRecord
  <2> HIDE DEF q3
  <2>6. rec \in ProcRecord /\ rec.pc \in WaitPcs
    BY <2>2, <2>5 DEF WaitPcs
  <2>7. AtRest' /\ \E K \in SUBSET Keys : Flights!Join(p, K)
    BY <1>1, <1>2, <2>1, <2>6, AwaitJoins
  <2> QED BY <2>7 DEF Flights!Next
<1>4. ASSUME NEW ex \in Exchanges, NEW fast \in BOOLEAN, NEW warm \in BOOLEAN, Bulk(p, ex, fast, warm)
      PROVE  AtRest' /\ [Flights!Next]_(Flights!flightVars)
  <2> DEFINE by == [s \in Symbols |-> IF warm THEN WarmGet(s, fast) ELSE None]
             q == [NoRequest EXCEPT !.pc = "batch", !.ex = ex, !.fast = fast, !.by = by, !.since = now]
  <2>1. /\ inflight' = inflight
        /\ proc' = proc \/ proc' = [proc EXCEPT ![p] = q]
    BY <1>4 DEF Bulk
  <2> HIDE DEF by
  <2>2. q.pc \notin WaitPcs /\ q.need = Nothing
    BY DEF NoRequest, WaitPcs
  <2> HIDE DEF q, idle
  <2>3. CASE proc' = proc
    <3>1. AtRest'
      BY <2>3 DEF AtRest, Waiting, Nothing
    <3>2. \A x \in Procs : Joined'[x] = Joined[x]
      BY <2>3, SameJoined
    <3> QED BY <2>1, <3>1, <3>2, NoFlight
  <2>4. CASE proc' = [proc EXCEPT ![p] = q]
    BY <1>1, <1>2, <2>1, <2>2, <2>4, OneProc
  <2> QED BY <2>1, <2>3, <2>4
<1>5. CASE p = Warm /\ WarmTop
  <2> DEFINE q == [NoRequest EXCEPT !.pc = "batch", !.fast = WarmFast, !.since = now]
  <2>1. q.pc \notin WaitPcs /\ q.need = Nothing
    BY DEF NoRequest, WaitPcs
  <2>2. proc' = [proc EXCEPT ![p] = q] /\ inflight' = inflight
    BY <1>5 DEF WarmTop
  <2> HIDE DEF q, idle
  <2> QED BY <1>1, <1>2, <2>1, <2>2, OneProc
<1> QED
  BY <1>3, <1>4, <1>5

(***************************************************************************)
(* _live_quote() and its in-flight table implement SingleFlight, whatever  *)
(* is cached, parked or cancelled: who asks for a symbol joins the fetch   *)
(* that is under way, a fetch that ends does so for all who joined it, and *)
(* only a cancellation takes a caller off its fetches otherwise.           *)
(***************************************************************************)
THEOREM QuotesShareFlights == LiveSpec => SharesFlights
<1> USE LiveAssumption
<1>1. (LiveInit => QuotesInv) /\ (QuotesInv /\ [LiveNext]_liveVars => QuotesInv')
  BY QuotesInductive
<1>2. LiveInit => AtRest /\ Flights!Init
  <2> SUFFICES ASSUME LiveInit PROVE AtRest /\ Flights!Init
    OBVIOUS
  <2>1. \A p \in Procs : proc[p].need = Nothing
    BY DEF LiveInit, NoRequest
  <2>2. \A p \in Procs : Joined[p] = {}
    BY <2>1, NotJoined
  <2>3. Joined = [p \in Procs |-> Joined[p]]
    BY DEF Joined
  <2>4. Joined = [p \in Procs |-> {}]
    BY <2>2, <2>3
  <2>5. Flying = {}
    BY DEF LiveInit, Flying
  <2> QED BY <2>1, <2>4, <2>5 DEF AtRest, Flights!Init
<1>3. QuotesInv /\ AtRest /\ [LiveNext]_liveVars => AtRest' /\ [Flights!Next]_(Flights!flightVars)
  <2> SUFFICES ASSUME QuotesInv, AtRest, [LiveNext]_liveVars
               PROVE  AtRest' /\ [Flights!Next]_(Flights!flightVars)
    OBVIOUS
  <2>1. CASE UNCHANGED liveVars \/ Clock
    <3>1. inflight' = inflight /\ proc' = proc
      BY <2>1 DEF liveVars, Clock
    <3>2. AtRest'
      BY <3>1 DEF AtRest, Waiting, Nothing
    <3> QED BY <3>1, <3>2, SameJoined, NoFlight
  <2>2. ASSUME NEW t \in FetchTasks, Fetch(t) PROVE AtRest' /\ [Flights!Next]_(Flights!flightVars)
    <3>1. AtRest' /\ (UNCHANGED Flights!flightVars \/ \E k \in Keys : Flights!Land(k))
      BY <2>2, FetchLands
    <3> QED BY <3>1 DEF Flights!Next
  <2>3. ASSUME NEW r \in Requests, Cancel(r) PROVE AtRest' /\ [Flights!Next]_(Flights!flightVars)
    <3>1. AtRest' /\ Flights!GiveUp(r)
      BY <2>3, CancelGivesUp
    <3>2. r \in Procs
      BY DEF Procs
    <3> QED BY <3>1, <3>2 DEF Flights!Next
  <2>4. ASSUME NEW r \in Requests,
               \/ \E ex \in Exchanges, s \in Symbols : Quote(r, ex, s)
               \/ \E ex \in Exchanges, fast, warm \in BOOLEAN : Bulk(r, ex, fast, warm)
               \/ Screen(r)
        PROVE  AtRest' /\ [Flights!Next]_(Flights!flightVars)
    <3>1. r \in Procs /\ NSE \in Exchanges
      BY DEF Procs, LiveConstants
    <3>2. \/ \E ex \in Exchanges, s \in Symbols : Quote(r, ex, s)
          \/ \E ex \in Exchanges, fast, warm \in BOOLEAN : Bulk(r, ex, fast, warm)
      BY <2>4, <3>1 DEF Screen
    <3> QED BY <3>1, <3>2, ArrivalJoins
  <2>5. CASE WarmTop
    <3>1. Warm \in Procs
      BY DEF Procs
    <3> QED BY <2>5, <3>1, ArrivalJoins
  <2> QED
    BY <2>1, <2>2, <2>3, <2>4, <2>5, ProgressJoins DEF LiveNext
<1> QED
  BY <1>1, <1>2, <1>3, PTL DEF LiveSpec, SharesFlights, Flights!Spec
===============================================================================
