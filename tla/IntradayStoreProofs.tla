-------------------------- MODULE IntradayStoreProofs --------------------------
(***************************************************************************)
(* Proofs about the durable store.  Of IntradayStore: when at most one     *)
(* task flushes the symbol, the high-water mark of flush_live_to_store()   *)
(* is sound for any number of seconds and samples, failed flushes and      *)
(* restarts included.  Of Capture: over days, for every retention and      *)
(* every patience of the watchdog, a day that is called captured has rows, *)
(* and only a process whose loop is stuck is killed.                       *)
(***************************************************************************)
EXTENDS IntradayStore, Capture, WellFoundedInduction, TLAPS

\* At most one task flushes the symbol.
OneFlusher == \A f, g \in Flushers : f = g

\* The type of one entry of flush, by its fields.
FlushType ==
    [stage : {"idle", "sent", "committed"}, rows : [Seconds -> Counts], last : 0 .. MaxSecond]

(***************************************************************************)
(* The initial state, where nothing is recorded or stored, satisfies the   *)
(* invariant.                                                              *)
(***************************************************************************)
LEMMA StoreInvInit == Init => StoreInv
BY StoreAssumption DEF Init, StoreInv, TypeOK, MarkedBarsAreFinal, SnapshotOK,
     Idle, Seconds, Counts

(***************************************************************************)
(* record() grows the current second only, which no mark has passed and no *)
(* snapshot in flight claims to be final.                                  *)
(***************************************************************************)
LEMMA RecordKeeps == StoreInv /\ Record => StoreInv'
<1> SUFFICES ASSUME StoreInv, Record PROVE StoreInv'
    OBVIOUS
<1>1. TypeOK'
    BY StoreAssumption DEF StoreInv, TypeOK, Record, Seconds, Counts
<1>2. \A t \in Seconds : ring[t] <= ring'[t] /\ (t # now => ring'[t] = ring[t])
    BY StoreAssumption DEF StoreInv, TypeOK, Record, Seconds, Counts
<1>3. MarkedBarsAreFinal'
    BY <1>2, StoreAssumption
       DEF StoreInv, TypeOK, Record, MarkedBarsAreFinal, Seconds, Counts
<1>4. ASSUME NEW f \in Flushers PROVE SnapshotOK(f)'
  <2>1. flush'[f] = flush[f]
      BY DEF Record
  <2>2. flush[f].rows \in [Seconds -> Nat] /\ flush[f].last \in Nat
      BY StoreAssumption DEF StoreInv, TypeOK, Seconds, Counts
  <2>3. now \in Nat /\ \A t \in Seconds : t \in Nat /\ ring[t] \in Nat /\ ring'[t] \in Nat
    <3>1. ring \in [Seconds -> Counts] /\ ring' \in [Seconds -> Counts] /\ now \in Seconds
        BY <1>1 DEF StoreInv, TypeOK
    <3>2. \A n \in Counts : n \in Nat
        BY StoreAssumption DEF Counts
    <3>3. \A t \in Seconds : t \in Nat
        BY StoreAssumption DEF Seconds
    <3> QED
        BY <3>1, <3>2, <3>3
  <2>4. \A t \in Seconds : flush[f].rows[t] \in Nat
      BY <2>2
  <2>5. SnapshotOK(f)
      BY DEF StoreInv
  <2>6. now' = now /\ hwm' = hwm /\ store' = store
      BY DEF Record
  <2> QED
      BY <1>2, <2>1, <2>2, <2>3, <2>4, <2>5, <2>6 DEF SnapshotOK
<1>5. (hwm <= now)' /\ (store[now] <= ring[now])'
    BY <1>2, StoreAssumption DEF StoreInv, TypeOK, Record, Seconds, Counts
<1>6. (\A t \in Seconds : t > now => ring[t] = 0 /\ store[t] = 0)'
    BY <1>2, StoreAssumption DEF StoreInv, TypeOK, Record, Seconds, Counts
<1>7. (\A t \in Seconds : ring[t] > 0 => store[t] <= ring[t])'
  <2> SUFFICES ASSUME NEW t \in Seconds PROVE store'[t] <= ring'[t] \/ ~(ring'[t] > 0)
      BY DEF Record
  <2>1. CASE t = now
      BY <2>1, <1>5 DEF Record
  <2>2. CASE t # now
      BY <2>2, <1>2 DEF StoreInv, Record
  <2> QED
      BY <2>1, <2>2
<1> QED
    BY <1>1, <1>3, <1>4, <1>5, <1>6, <1>7 DEF StoreInv

(***************************************************************************)
(* Time moves on to a second without samples or rows.                      *)
(***************************************************************************)
LEMMA NextSecondKeeps == StoreInv /\ NextSecond => StoreInv'
<1> SUFFICES ASSUME StoreInv, NextSecond PROVE StoreInv'
    OBVIOUS
<1>1. TypeOK' /\ now \in Nat /\ now' = now + 1 /\ now' \in Seconds
    BY StoreAssumption DEF StoreInv, TypeOK, NextSecond, Seconds
<1>2. hwm \in Nat /\ ring' = ring /\ store' = store /\ flush' = flush /\ hwm' = hwm
    BY StoreAssumption DEF StoreInv, TypeOK, NextSecond
<1>3. ring[now'] = 0 /\ store[now'] = 0
    BY <1>1 DEF StoreInv
<1>4. ASSUME NEW f \in Flushers PROVE SnapshotOK(f)'
  <2>1. SnapshotOK(f) /\ flush[f].last \in Nat
      BY StoreAssumption DEF StoreInv, TypeOK
  <2> QED
      BY <1>1, <1>2, <2>1 DEF SnapshotOK
<1>5. MarkedBarsAreFinal'
    BY <1>2 DEF StoreInv, MarkedBarsAreFinal
<1>6. (\A t \in Seconds : t > now => ring[t] = 0 /\ store[t] = 0)'
    BY <1>1, <1>2 DEF StoreInv, Seconds
<1> QED
    BY <1>1, <1>2, <1>3, <1>4, <1>5, <1>6 DEF StoreInv

(***************************************************************************)
(* A restart empties the ring and clears the mark: nothing is left for the *)
(* mark to be wrong about, and the second that follows has no row.         *)
(***************************************************************************)
LEMMA RestartKeeps == StoreInv /\ Restart => StoreInv'
<1> SUFFICES ASSUME StoreInv, Restart PROVE StoreInv'
    OBVIOUS
<1>1. TypeOK'
    BY StoreAssumption DEF StoreInv, TypeOK, Restart, Idle, Seconds, Counts
<1>2. now \in Nat /\ now' = now + 1 /\ now' \in Seconds /\ hwm' = 0 /\ store' = store
    BY StoreAssumption DEF StoreInv, TypeOK, Restart, Seconds
<1>3. \A t \in Seconds : ring'[t] = 0
    BY DEF Restart
<1>4. \A f \in Flushers : SnapshotOK(f)'
    BY DEF Restart, SnapshotOK, Idle
<1>5. MarkedBarsAreFinal'
    BY <1>3 DEF MarkedBarsAreFinal
<1>6. (\A t \in Seconds : t > now => ring[t] = 0 /\ store[t] = 0)'
    BY <1>2, <1>3 DEF StoreInv, Seconds
<1>7. (store[now] <= ring[now])'
    BY <1>2, <1>3 DEF StoreInv
<1> QED
    BY <1>1, <1>2, <1>3, <1>4, <1>5, <1>6, <1>7 DEF StoreInv

(***************************************************************************)
(* flush_live_to_store() up to its await takes a snapshot of the ring; its *)
(* last bar is not in the future.                                          *)
(***************************************************************************)
LEMMA FlushBeginKeeps ==
    ASSUME NEW f \in Flushers, StoreInv, FlushBegin(f) PROVE StoreInv'
<1>1. PICK last \in Bars :
        flush' = [flush EXCEPT ![f] =
                    [stage |-> "sent",
                     rows  |-> [t \in Seconds |-> IF t >= hwm THEN ring[t] ELSE 0],
                     last  |-> last]]
    BY DEF FlushBegin
<1> DEFINE s == [stage |-> "sent",
                 rows  |-> [t \in Seconds |-> IF t >= hwm THEN ring[t] ELSE 0],
                 last  |-> last]
<1>2. last \in Seconds /\ last <= now /\ now \in Nat /\ hwm \in Nat
    BY StoreAssumption DEF StoreInv, TypeOK, Bars, Seconds, Counts
<1>3. ring \in [Seconds -> Counts] /\ store \in [Seconds -> Counts]
    BY DEF StoreInv, TypeOK
<1>4. s.stage = "sent" /\ s.last = last /\ s.rows \in [Seconds -> Counts]
    BY <1>3, StoreAssumption DEF Counts
<1>5. \A t \in Seconds : s.rows[t] = IF t >= hwm THEN ring[t] ELSE 0
    OBVIOUS
<1>6. s \in FlushType
    BY <1>2, <1>4 DEF FlushType, Seconds
<1> HIDE DEF s
<1>7. TypeOK'
    BY <1>1, <1>6 DEF StoreInv, TypeOK, FlushBegin, FlushType, s
<1>8. ASSUME NEW g \in Flushers PROVE SnapshotOK(g)'
  <2>1. CASE g # f
      BY <2>1, <1>1 DEF StoreInv, TypeOK, FlushBegin, SnapshotOK
  <2>2. CASE g = f
    <3>1. flush'[g] = s
        BY <2>2, <1>1 DEF StoreInv, TypeOK, s
    <3> QED
        BY <3>1, <1>2, <1>3, <1>4, <1>5
           DEF StoreInv, FlushBegin, SnapshotOK, Seconds, Counts
  <2> QED
      BY <2>1, <2>2
<1> QED
    BY <1>7, <1>8 DEF StoreInv, FlushBegin, MarkedBarsAreFinal

(***************************************************************************)
(* A commit replaces rows by newer snapshots of the same seconds.  This is *)
(* the step two flushers break: the second snapshot to be committed may be *)
(* the older one.                                                          *)
(***************************************************************************)
LEMMA CommitKeeps ==
    ASSUME NEW f \in Flushers, OneFlusher, StoreInv, Commit(f) PROVE StoreInv'
<1> DEFINE s == flush[f]
<1>1. s \in FlushType /\ s.rows \in [Seconds -> Counts] /\ s.last \in Nat
    BY StoreAssumption DEF StoreInv, TypeOK, FlushType
<1>2. ring \in [Seconds -> Counts] /\ store \in [Seconds -> Counts] /\ hwm \in Nat /\ now \in Seconds
    BY StoreAssumption DEF StoreInv, TypeOK
<1>3. /\ flush' = [flush EXCEPT ![f] = [s EXCEPT !.stage = "committed"]]
      /\ now' = now /\ ring' = ring /\ hwm' = hwm
    BY DEF Commit
<1>4. \A t \in Seconds : store'[t] = IF s.rows[t] > 0 THEN s.rows[t] ELSE store[t]
    BY DEF Commit
<1>5. /\ s.last <= now
      /\ \A t \in Seconds : s.rows[t] <= ring[t]
      /\ \A t \in Seconds : t < s.last /\ t >= hwm => s.rows[t] = ring[t]
      /\ \A t \in Seconds : s.rows[t] > 0 => store[t] <= s.rows[t]
    BY DEF StoreInv, SnapshotOK, Commit
<1>6. /\ [s EXCEPT !.stage = "committed"] \in FlushType
      /\ [s EXCEPT !.stage = "committed"].stage = "committed"
      /\ [s EXCEPT !.stage = "committed"].rows = s.rows
      /\ [s EXCEPT !.stage = "committed"].last = s.last
    BY <1>1 DEF FlushType
<1>7. flush'[f].stage = "committed" /\ flush'[f].rows = s.rows /\ flush'[f].last = s.last
    BY <1>3, <1>6 DEF StoreInv, TypeOK
<1>8. TypeOK'
  <2>1. store' \in [Seconds -> Counts]
      BY <1>1, <1>2 DEF Commit
  <2>2. flush' \in [Flushers -> FlushType]
      BY <1>3, <1>6 DEF StoreInv, TypeOK, FlushType
  <2> QED
      BY <1>3, <2>1, <2>2 DEF StoreInv, TypeOK, FlushType
<1>9. \A t \in Seconds : ring[t] \in Nat /\ store[t] \in Nat /\ s.rows[t] \in Nat
    BY <1>1, <1>2, StoreAssumption DEF Counts
<1> HIDE DEF s
<1>10. ASSUME NEW g \in Flushers PROVE SnapshotOK(g)'
  <2>1. g = f
      BY DEF OneFlusher
  <2> QED
      BY <2>1, <1>3, <1>4, <1>5, <1>7, <1>9 DEF SnapshotOK
<1>11. MarkedBarsAreFinal'
  <2> SUFFICES ASSUME NEW t \in Seconds, t < hwm, ring[t] > 0 PROVE store'[t] = ring[t]
      BY <1>3 DEF MarkedBarsAreFinal
  <2>1. store[t] = ring[t]
      BY DEF StoreInv, MarkedBarsAreFinal
  <2> QED
      BY <2>1, <1>4, <1>5, <1>9
<1>12. /\ \A t \in Seconds : t > now => ring[t] = 0 /\ store'[t] = 0
       /\ store'[now] <= ring[now]
       /\ \A t \in Seconds : ring[t] > 0 => store'[t] <= ring[t]
    BY <1>2, <1>4, <1>5, <1>9 DEF StoreInv
<1> QED
    BY <1>3, <1>8, <1>10, <1>11, <1>12 DEF StoreInv

(***************************************************************************)
(* The flusher moves the mark to the last bar it sent: every earlier bar   *)
(* was either before the old mark or in the snapshot, final and committed. *)
(***************************************************************************)
LEMMA FlushEndKeeps ==
    ASSUME NEW f \in Flushers, OneFlusher, StoreInv, FlushEnd(f) PROVE StoreInv'
<1> DEFINE s == flush[f]
<1>1. s.rows \in [Seconds -> Counts] /\ s.last \in 0 .. MaxSecond
    BY StoreAssumption DEF StoreInv, TypeOK
<1>2. ring \in [Seconds -> Counts] /\ store \in [Seconds -> Counts] /\ hwm \in Nat
    BY StoreAssumption DEF StoreInv, TypeOK
<1>3. hwm' = s.last /\ now' = now /\ ring' = ring /\ store' = store
    BY DEF FlushEnd
<1>4. /\ s.last <= now
      /\ \A t \in Seconds : t < s.last /\ t >= hwm => s.rows[t] = ring[t]
      /\ \A t \in Seconds : s.rows[t] > 0 => store[t] = s.rows[t]
    BY DEF StoreInv, SnapshotOK, FlushEnd
<1>5. Idle \in FlushType /\ Idle.stage = "idle"
    BY StoreAssumption DEF Idle, FlushType, Counts
<1>6. flush'[f] = Idle /\ flush' \in [Flushers -> FlushType]
    BY <1>5 DEF StoreInv, TypeOK, FlushEnd, FlushType
<1>7. TypeOK'
    BY <1>1, <1>3, <1>6 DEF StoreInv, TypeOK, FlushType
<1>8. \A g \in Flushers : SnapshotOK(g)'
    BY <1>5, <1>6 DEF OneFlusher, SnapshotOK
<1>9. MarkedBarsAreFinal'
  <2> SUFFICES ASSUME NEW t \in Seconds, t < s.last, ring[t] > 0 PROVE store[t] = ring[t]
      BY <1>3 DEF MarkedBarsAreFinal
  <2>1. CASE t < hwm
      BY <2>1 DEF StoreInv, MarkedBarsAreFinal
  <2>2. CASE t >= hwm
      BY <2>2, <1>4
  <2> QED
      BY <2>1, <2>2, <1>2 DEF Seconds
<1> QED
    BY <1>3, <1>4, <1>7, <1>8, <1>9 DEF StoreInv

(***************************************************************************)
(* A flush that fails leaves the mark alone, so its rows are sent again.   *)
(***************************************************************************)
LEMMA FlushFailsKeeps ==
    ASSUME NEW f \in Flushers, OneFlusher, StoreInv, FlushFails(f) PROVE StoreInv'
<1>1. Idle \in FlushType /\ Idle.stage = "idle"
    BY StoreAssumption DEF Idle, FlushType, Counts
<1>2. flush'[f] = Idle /\ flush' \in [Flushers -> FlushType]
    BY <1>1 DEF StoreInv, TypeOK, FlushFails, FlushType
<1>3. TypeOK'
    BY <1>2 DEF StoreInv, TypeOK, FlushFails, FlushType
<1>4. \A g \in Flushers : SnapshotOK(g)'
    BY <1>1, <1>2 DEF OneFlusher, SnapshotOK
<1> QED
    BY <1>3, <1>4 DEF StoreInv, FlushFails, MarkedBarsAreFinal

-----------------------------------------------------------------------------
(***************************************************************************)
(* With one flusher the invariant holds in every reachable state.          *)
(***************************************************************************)
THEOREM StoreInvariance ==
    ASSUME OneFlusher PROVE Spec => []StoreInv
<1>1. ASSUME StoreInv, [Next]_vars PROVE StoreInv'
  <2>1. CASE Record
      BY <1>1, <2>1, RecordKeeps
  <2>2. CASE NextSecond
      BY <1>1, <2>2, NextSecondKeeps
  <2>3. CASE Restart
      BY <1>1, <2>3, RestartKeeps
  <2>4. ASSUME NEW f \in Flushers, FlushBegin(f) PROVE StoreInv'
      BY <1>1, <2>4, FlushBeginKeeps
  <2>5. ASSUME NEW f \in Flushers, Commit(f) PROVE StoreInv'
      BY <1>1, <2>5, CommitKeeps
  <2>6. ASSUME NEW f \in Flushers, FlushEnd(f) PROVE StoreInv'
      BY <1>1, <2>6, FlushEndKeeps
  <2>7. ASSUME NEW f \in Flushers, FlushFails(f) PROVE StoreInv'
      BY <1>1, <2>7, FlushFailsKeeps
  <2>8. CASE UNCHANGED vars
      BY <1>1, <2>8
         DEF vars, StoreInv, TypeOK, MarkedBarsAreFinal, SnapshotOK
  <2> QED
      BY <1>1, <2>1, <2>2, <2>3, <2>4, <2>5, <2>6, <2>7, <2>8 DEF Next
<1> QED
    BY <1>1, StoreInvInit, PTL DEF Spec

(***************************************************************************)
(* The mark of flush_live_to_store() is sound when one task flushes the    *)
(* symbol: a bar it will not send again is stored in its final form.       *)
(***************************************************************************)
THEOREM StoreMarkedBarsAreFinal ==
    ASSUME OneFlusher PROVE Spec => []MarkedBarsAreFinal
<1>1. StoreInv => MarkedBarsAreFinal
    BY DEF StoreInv
<1> QED
    BY <1>1, StoreInvariance, PTL

(***************************************************************************)
(* With one flusher no flush, failed flush or restart ever replaces a      *)
(* stored row by an older snapshot.                                        *)
(***************************************************************************)
THEOREM StoreNeverShrinks ==
    ASSUME OneFlusher PROVE Spec => StoredNeverShrinks
<1>1. ASSUME StoreInv, [Next]_vars
      PROVE [\A t \in Seconds : store[t] <= store'[t]]_vars
  <2>1. \A t \in Seconds : store[t] \in Nat
      BY <1>1 DEF StoreInv, TypeOK, Counts
  <2>2. CASE UNCHANGED store
      BY <2>1, <2>2
  <2>3. ASSUME NEW f \in Flushers, Commit(f)
        PROVE \A t \in Seconds : store[t] <= store'[t]
    <3>1. SnapshotOK(f) /\ flush[f].stage # "idle"
        BY <1>1, <2>3 DEF StoreInv, Commit
    <3>2. \A t \in Seconds : flush[f].rows[t] > 0 => store[t] <= flush[f].rows[t]
        BY <3>1 DEF SnapshotOK
    <3> QED
        BY <2>1, <2>3, <3>2 DEF Commit
  <2> QED
      BY <1>1, <2>2, <2>3
         DEF Next, Record, NextSecond, Restart, FlushBegin, FlushEnd, FlushFails, vars
<1> QED
    BY <1>1, StoreInvariance, PTL DEF Spec, StoredNeverShrinks

-----------------------------------------------------------------------------
(***************************************************************************)
(* Capture.  Three parts, each of the state that some actions leave alone. *)
(* The watchdog counts polls since the last beat it saw run, which differ  *)
(* by at most one from the polls since the loop got stuck (DogInv): a loop *)
(* that runs is never two polls behind.                                    *)
(***************************************************************************)
DogInv ==
    /\ up \in {"up", "down", "killed"} /\ stall \in BOOLEAN /\ beat \in BOOLEAN
    /\ stale \in 0 .. Wedge + 1 /\ stuck \in 0 .. Wedge + 1
    /\ up = "up" =>
          /\ stale <= Wedge
          /\ beat = FALSE => stale = 0
          /\ stall = TRUE => stuck <= stale /\ stale <= stuck + 1
          /\ stall = FALSE => stuck = 0 /\ stale <= 1
    /\ OnlyTheWedgedDie

\* A loop runs if and only if there is a list to record.
LoopInv ==
    /\ wl \in Lists
    /\ loop \in [pc : {"off", "top", "fetch", "flush", "sleep", "closed"}, has : BOOLEAN]
    /\ up = "up" => (loop.pc = "off" <=> wl = "empty")

ReadTyped == read \in [pc : {"idle", "cut"}] \cup [pc : {"rows"}, day : Ages]

\* A flush under way has something to send, so that the mark is a candle, and one.
StoredInv ==
    /\ tail \subseteq Ages /\ mark \subseteq Ages /\ rows \subseteq Ages
    /\ \A a, b \in mark : a = b
    /\ loop.pc = "flush" => tail \cup mark # {}
    /\ ReadTyped
    /\ CapturedHasRows

CapInv == DogInv /\ LoopInv /\ StoredInv

\* A non-empty set of ages, such as that of the candles sent, has a least, which Min is.
LEMMA MinOfAges ==
    ASSUME NEW S \in SUBSET Nat, S # {}
    PROVE  Min(S) \in S
<1> DEFINE R == OpToRel(<, Nat)
<1>1. IsWellFoundedOn(R, Nat)
  BY NatLessThanWellFounded, Zenon
<1>2. \A x, y \in Nat : x < y => <<x, y>> \in R
  BY DEF OpToRel
<1> HIDE DEF R
<1>3. PICK m \in S : \A n \in S : ~ (<<n, m>> \in R)
  BY <1>1, WFMin
<1>4. \A n \in S : n \in Nat /\ m \in Nat
  OBVIOUS
<1>5. \A n \in S : ~(n < m)
  BY <1>2, <1>3, <1>4
<1>6. \A n \in S : m <= n
  BY <1>4, <1>5
<1> QED
  BY <1>6 DEF Min

\* Past midnight an age is one more, up to the bound.
LEMMA OlderAges ==
    ASSUME CaptureConstants
    PROVE  /\ \A a \in Ages : DayLater(a) \in Ages
           /\ \A S \in SUBSET Ages : Older(S) \subseteq Ages
<1>1. \A a \in Ages : DayLater(a) \in Ages
  <2> SUFFICES ASSUME NEW a \in 0 .. Keep + 1
               PROVE  Min({a + 1, Keep + 1}) \in 0 .. Keep + 1
    BY DEF Ages, DayLater
  <2>1. Keep \in Nat /\ a \in Nat /\ a + 1 \in Nat /\ Keep + 1 \in Nat
    BY DEF CaptureConstants
  <2>2. \E x \in {a + 1, Keep + 1} : \A y \in {a + 1, Keep + 1} : x <= y
    BY <2>1
  <2>3. /\ Min({a + 1, Keep + 1}) \in {a + 1, Keep + 1}
        /\ Min({a + 1, Keep + 1}) <= Keep + 1
    BY <2>2 DEF Min
  <2> QED
    BY <2>1, <2>3
<1> QED
  BY <1>1 DEF Older

\* The watchdog's variables, when the loop is not involved.
LEMMA DogFrame ==
    ASSUME DogInv, UNCHANGED dog
    PROVE  DogInv'
BY DEF dog, DogInv, OnlyTheWedgedDie

\* The end of a process leaves nothing to be wrong about.
LEMMA EndedKeeps ==
    ASSUME CapInv, NEW how \in {"down", "killed"}, Ended(how)
    PROVE  LoopInv' /\ StoredInv'
<1>1. LoopInv'
  BY DEF Ended, Off, Lists, LoopInv
<1>2. rows' \subseteq Ages
  BY DEF Ended, Sent, CapInv, StoredInv
<1>3. /\ tail' = {} /\ mark' = {} /\ read' = [pc |-> "idle"] /\ loop' = [pc |-> "off", has |-> FALSE]
  BY DEF Ended, NoRead, Off
<1> QED
  BY <1>1, <1>2, <1>3 DEF StoredInv, ReadTyped, CapturedHasRows

\* The steps of the watchdog, of the event loop and of the process.
LEMMA DogKeeps ==
    ASSUME CaptureConstants, CapInv,
           Boot \/ Shutdown \/ Stall \/ StallEnds \/ Beat \/ Poll
    PROVE  CapInv'
<1>0. DogInv /\ LoopInv /\ StoredInv /\ Wedge \in Nat
  BY DEF CapInv, CaptureConstants
<1>1. ASSUME UNCHANGED <<lists, stored, read>>, UNCHANGED up PROVE LoopInv' /\ StoredInv'
  BY <1>0, <1>1 DEF lists, stored, LoopInv, StoredInv, ReadTyped, CapturedHasRows
<1>2. CASE Boot
  <2>1. DogInv'
    <3>1. up' = "up" /\ stall' = FALSE /\ stuck' = 0 /\ stale' = 0 /\ beat' = TRUE
      BY <1>2 DEF Boot, StartWatchdog
    <3>2. stall' \in BOOLEAN /\ beat' \in BOOLEAN
      BY <3>1
    <3>3. stale' \in 0 .. Wedge + 1 /\ stuck' \in 0 .. Wedge + 1 /\ stale' <= Wedge /\ stale' <= 1
      BY <1>0, <3>1
    <3> QED
      BY <1>0, <3>1, <3>2, <3>3 DEF DogInv, OnlyTheWedgedDie
  <2>2. LoopInv' /\ loop'.pc # "flush"
    BY <1>2 DEF Boot, EnvWatchlist, StartLoop, Off, LoopInv
  <2>3. StoredInv'
    BY <1>0, <1>2, <2>2 DEF Boot, stored, StoredInv, ReadTyped, CapturedHasRows
  <2> QED
    BY <2>1, <2>2, <2>3 DEF CapInv
<1>3. CASE Shutdown
  <2>1. DogInv'
    <3>1. up' = "down" /\ stall' = FALSE /\ stuck' = 0 /\ stale' = 0 /\ beat' = FALSE
      BY <1>3 DEF Shutdown, Ended
    <3>2. stall' \in BOOLEAN /\ beat' \in BOOLEAN
      BY <1>0, <3>1 DEF DogInv
    <3>3. stale' \in 0 .. Wedge + 1 /\ stuck' \in 0 .. Wedge + 1 /\ stale' <= Wedge /\ stale' <= 1
      BY <1>0, <3>1 DEF DogInv
    <3> QED
      BY <1>0, <3>1, <3>2, <3>3 DEF DogInv, OnlyTheWedgedDie
  <2> QED
    BY <1>0, <1>3, <2>1, EndedKeeps DEF Shutdown, CapInv
<1>4. CASE Stall
  <2>1. DogInv'
    BY <1>0, <1>4 DEF Stall, Runs, DogInv, OnlyTheWedgedDie
  <2> QED
    BY <1>1, <1>4, <2>1 DEF Stall, CapInv
<1>5. CASE StallEnds
  <2>1. DogInv'
    <3>1. up' = "up" /\ stall' = FALSE /\ stuck' = 0 /\ stale' = 0 /\ beat' = FALSE
      <4>1. up = "up" /\ up' = up /\ stall' = FALSE /\ stuck' = 0 /\ beat' = FALSE
        BY <1>5 DEF StallEnds
      <4>2. CASE beat = TRUE
        BY <1>5, <4>1, <4>2 DEF StallEnds
      <4>3. CASE beat = FALSE
        BY <1>0, <1>5, <4>1, <4>3 DEF StallEnds, DogInv
      <4> QED
        BY <1>0, <4>2, <4>3 DEF DogInv
    <3>2. stall' \in BOOLEAN /\ beat' \in BOOLEAN
      BY <1>0, <3>1 DEF DogInv
    <3>3. stale' \in 0 .. Wedge + 1 /\ stuck' \in 0 .. Wedge + 1 /\ stale' <= Wedge /\ stale' <= 1
      BY <1>0, <3>1 DEF DogInv
    <3> QED
      BY <1>0, <3>1, <3>2, <3>3 DEF DogInv, OnlyTheWedgedDie
  <2> QED
    BY <1>1, <1>5, <2>1 DEF StallEnds, CapInv
<1>6. CASE Beat
  <2>1. DogInv'
    <3>1. up' = "up" /\ stall' = FALSE /\ stuck' = 0 /\ stale' = 0 /\ beat' = FALSE
      <4>1. up = "up" /\ stall = FALSE /\ UNCHANGED <<up, stall, stuck>> /\ stale' = 0 /\ beat' = FALSE
        BY <1>0, <1>6 DEF Beat, Runs, DogInv
      <4> QED
        BY <1>0, <4>1 DEF DogInv
    <3>2. stall' \in BOOLEAN /\ beat' \in BOOLEAN
      BY <1>0, <3>1 DEF DogInv
    <3>3. stale' \in 0 .. Wedge + 1 /\ stuck' \in 0 .. Wedge + 1 /\ stale' <= Wedge /\ stale' <= 1
      BY <1>0, <3>1 DEF DogInv
    <3> QED
      BY <1>0, <3>1, <3>2, <3>3 DEF DogInv, OnlyTheWedgedDie
  <2> QED
    BY <1>1, <1>6, <2>1 DEF Beat, CapInv
<1>7. CASE Poll
  <2>1. /\ up = "up" /\ stale' = stale + 1 /\ stale' \in 1 .. Wedge + 1
        /\ stuck' = (IF stall THEN stuck + 1 ELSE stuck) /\ stuck' \in Nat
        /\ stall' = stall /\ ~(beat /\ ~stall)
        /\ stall => stuck' <= stale' /\ stale' <= stuck' + 1
        /\ ~stall => stuck' = 0 /\ stale' = 1
    BY <1>0, <1>7 DEF Poll, DogInv
  <2>2. CASE ~Wedged(stale') /\ beat' = TRUE /\ UNCHANGED <<up, db, lists, stored, read>>
    <3>1. stale' <= Wedge
      BY <1>0, <2>1, <2>2 DEF Wedged
    <3>2. DogInv'
      BY <1>0, <2>1, <2>2, <3>1 DEF DogInv, OnlyTheWedgedDie
    <3> QED
      BY <1>1, <2>2, <3>2 DEF CapInv
  <2>3. CASE MayBeWedged(stale') /\ Ended("killed")
    <3>1. stale' >= Wedge /\ up' = "killed" /\ beat' = FALSE
      BY <2>3 DEF MayBeWedged, Ended
    <3>2. stuck' \in 0 .. Wedge + 1
      BY <1>0, <2>1
    <3>3. stuck' >= Wedge - 1
      BY <1>0, <2>1, <3>1
    <3>4. DogInv'
      <4>1. stall' \in BOOLEAN /\ beat' \in BOOLEAN
        BY <1>0, <2>1, <3>1 DEF DogInv
      <4>2. stale' \in 0 .. Wedge + 1 /\ stuck' \in 0 .. Wedge + 1
        BY <1>0, <2>1, <3>2
      <4> QED
        BY <3>1, <3>3, <4>1, <4>2 DEF DogInv, OnlyTheWedgedDie
    <3> QED
      BY <2>3, <3>4, EndedKeeps DEF CapInv
  <2> QED
    BY <1>7, <2>2, <2>3 DEF Poll
<1> QED
  BY <1>2, <1>3, <1>4, <1>5, <1>6, <1>7

\* The steps of the watchlist recorder.
LEMMA LoopKeeps ==
    ASSUME CaptureConstants, CapInv,
           \/ \E l \in Lists : SetWatchlist(l)
           \/ LoopTop \/ Wake \/ FetchRaises \/ Flushed \/ CaptureFlushFails
           \/ \E got, due \in BOOLEAN : Fetched(got, due)
    PROVE  CapInv'
<1>0. DogInv /\ LoopInv /\ StoredInv /\ loop.pc \in {"off", "top", "fetch", "flush", "sleep", "closed"}
  BY DEF CapInv, LoopInv
<1>1. ASSUME NEW c \in {"top", "sleep", "flush"}, Goto(c), loop.pc # "off", UNCHANGED <<wl, up>>
      PROVE  LoopInv' /\ loop'.pc = c
  BY <1>0, <1>1 DEF Goto, LoopInv
<1>2. ASSUME loop'.pc # "flush" \/ loop.pc = "flush", UNCHANGED stored, UNCHANGED read PROVE StoredInv'
  BY <1>0, <1>2 DEF stored, StoredInv, ReadTyped, CapturedHasRows
<1>3. ASSUME NEW l \in Lists, SetWatchlist(l) PROVE CapInv'
  <2>1. LoopInv' /\ (loop'.pc # "flush" \/ loop.pc = "flush")
    BY <1>0, <1>3 DEF SetWatchlist, StartLoop, dog, LoopInv
  <2> QED
    BY <1>0, <1>2, <1>3, <2>1, DogFrame DEF SetWatchlist, CapInv
<1>4. CASE LoopTop
  <2>1. loop' \in {[pc |-> "fetch", has |-> wl = "with"], [pc |-> "closed", has |-> FALSE]}
    BY <1>4 DEF LoopTop
  <2>2. /\ loop' \in [pc : {"off", "top", "fetch", "flush", "sleep", "closed"}, has : BOOLEAN]
        /\ loop'.pc \in {"fetch", "closed"}
    <3>1. [pc |-> "fetch", has |-> wl = "with"] \in [pc : {"fetch"}, has : BOOLEAN]
      BY Zenon
    <3>2. [pc |-> "closed", has |-> FALSE] \in [pc : {"closed"}, has : BOOLEAN]
      OBVIOUS
    <3> QED
      BY <2>1, <3>1, <3>2
  <2>3. LoopInv'
    BY <1>0, <1>4, <2>2 DEF LoopTop, dog, LoopInv
  <2> QED
    BY <1>0, <1>2, <1>4, <2>2, <2>3, DogFrame DEF LoopTop, CapInv
<1>5. CASE Wake
  BY <1>0, <1>1, <1>2, <1>5, DogFrame DEF Wake, dog, CapInv
<1>6. CASE FetchRaises
  BY <1>0, <1>1, <1>2, <1>6, DogFrame DEF FetchRaises, dog, CapInv
<1>7. CASE Flushed
  <2>1. LoopInv' /\ loop'.pc = "sleep"
    BY <1>1, <1>7 DEF Flushed, dog
  <2>2. Sent \subseteq Ages /\ Sent # {} /\ Sent \subseteq Nat
    BY <1>0, <1>7 DEF Flushed, Sent, StoredInv, Ages, CaptureConstants
  <2>3. Min(Sent) \in Ages
    BY <2>2, MinOfAges
  <2>4. StoredInv'
    BY <1>0, <1>7, <2>1, <2>2, <2>3 DEF Flushed, StoredInv, ReadTyped, CapturedHasRows
  <2> QED
    BY <1>0, <1>7, <2>1, <2>4, DogFrame DEF Flushed, CapInv
<1>8. CASE CaptureFlushFails
  <2>1. LoopInv' /\ loop'.pc = "sleep"
    BY <1>1, <1>8 DEF CaptureFlushFails, dog
  <2>2. Sent \subseteq Ages
    BY <1>0 DEF Sent, StoredInv
  <2>3. StoredInv'
    BY <1>0, <1>8, <2>1, <2>2 DEF CaptureFlushFails, StoredInv, ReadTyped, CapturedHasRows
  <2> QED
    BY <1>0, <1>8, <2>1, <2>3, DogFrame DEF CaptureFlushFails, CapInv
<1>9. ASSUME NEW got \in BOOLEAN, NEW due \in BOOLEAN, Fetched(got, due) PROVE CapInv'
  <2>1. /\ tail' \subseteq tail \cup {0} /\ mark' \subseteq mark
        /\ UNCHANGED <<dog, wl, rows, read>>
        /\ loop.pc = "fetch"
        /\ \/ Goto("sleep")
           \/ Goto("flush") /\ tail' \cup mark' # {}
    BY <1>9 DEF Fetched, Recorded
  <2>2. LoopInv' /\ (loop'.pc = "flush" => tail' \cup mark' # {})
    BY <1>1, <2>1 DEF dog
  <2>3. 0 \in Ages
    BY DEF Ages, CaptureConstants
  <2>4. StoredInv'
    BY <1>0, <2>1, <2>2, <2>3 DEF StoredInv, ReadTyped, CapturedHasRows
  <2> QED
    BY <1>0, <2>1, <2>2, <2>4, DogFrame DEF CapInv
<1> QED
  BY <1>3, <1>4, <1>5, <1>6, <1>7, <1>8, <1>9

\* The steps of the retention, of past-day reads and of the calendar.
LEMMA DaysKeep ==
    ASSUME CaptureConstants, CapInv,
           \/ \E d \in Ages \ {0} : Prune(d)
           \/ \E day \in Ages \ {0} : ReadCount(day)
           \/ ReadRows \/ Bell \/ Midnight
    PROVE  CapInv'
<1>0. DogInv /\ LoopInv /\ StoredInv
  BY DEF CapInv
<1>1. UNCHANGED dog /\ UNCHANGED lists
  BY DEF Prune, ReadCount, ReadRows, Bell, Midnight
<1>2. DogInv' /\ LoopInv'
  BY <1>0, <1>1, DogFrame DEF lists, dog, LoopInv
<1> SUFFICES StoredInv'
  BY <1>2 DEF CapInv
<1>3. 0 \in Ages
  BY DEF Ages, CaptureConstants
<1>4. ASSUME NEW d \in Ages \ {0}, Prune(d) PROVE StoredInv'
  <2>1. /\ rows' \in {{a \in rows : a < d}, {a \in rows : a <= d}}
        /\ read' = (IF read.pc = "rows" /\ d <= read.day THEN Cut ELSE read)
        /\ UNCHANGED <<tail, mark, loop>>
    BY <1>1, <1>4 DEF Prune, Pruned, lists
  <2>2. ReadTyped' /\ CapturedHasRows'
    <3>1. CASE read.pc = "rows" /\ d <= read.day
      BY <2>1, <3>1 DEF Cut, ReadTyped, CapturedHasRows
    <3>2. CASE read.pc = "rows" /\ ~(d <= read.day)
      <4>1. read.day \in Nat /\ d \in Nat /\ read.day \in rows /\ read' = read
        BY <1>0, <2>1, <3>2 DEF StoredInv, ReadTyped, CapturedHasRows, Ages, CaptureConstants
      <4>2. read.day \in rows'
        BY <2>1, <3>2, <4>1
      <4> QED
        BY <1>0, <4>1, <4>2 DEF StoredInv, ReadTyped, CapturedHasRows
    <3>3. CASE read.pc # "rows"
      BY <1>0, <2>1, <3>3 DEF StoredInv, ReadTyped, CapturedHasRows
    <3> QED
      BY <3>1, <3>2, <3>3
  <2>3. rows' \subseteq Ages
    BY <1>0, <2>1 DEF StoredInv
  <2> QED
    BY <1>0, <2>1, <2>2, <2>3 DEF StoredInv
<1>5. ASSUME NEW day \in Ages \ {0}, ReadCount(day) PROVE StoredInv'
  BY <1>0, <1>1, <1>5 DEF ReadCount, Counted, stored, lists, StoredInv, ReadTyped, CapturedHasRows
<1>6. CASE ReadRows
  <2>1. read' = [pc |-> "idle"] /\ UNCHANGED <<tail, mark, rows, loop>>
    BY <1>1, <1>6 DEF ReadRows, NoRead, stored, lists
  <2>2. ReadTyped' /\ CapturedHasRows'
    BY <2>1 DEF ReadTyped, CapturedHasRows
  <2> QED
    BY <1>0, <2>1, <2>2 DEF StoredInv
<1>7. CASE Bell
  <2>1. UNCHANGED <<tail, mark, rows, loop, read>>
    BY <1>1, <1>7 DEF Bell, stored, lists
  <2>2. ReadTyped' /\ CapturedHasRows'
    BY <1>0, <2>1 DEF StoredInv, ReadTyped, CapturedHasRows
  <2> QED
    BY <1>0, <2>1, <2>2 DEF StoredInv
<1>8. CASE Midnight
  <2>1. /\ tail' = Older(tail) /\ mark' = Older(mark) /\ rows' = Older(rows)
        /\ read' = (IF read.pc = "rows" THEN [read EXCEPT !.day = DayLater(@)] ELSE read)
        /\ loop' = loop
    BY <1>1, <1>8 DEF Midnight, lists
  <2>2. tail' \subseteq Ages /\ mark' \subseteq Ages /\ rows' \subseteq Ages
    BY <1>0, <2>1, OlderAges DEF StoredInv
  <2>3. (\A a, b \in mark' : a = b) /\ (tail \cup mark # {} => tail' \cup mark' # {})
    <3>1. \A S : \A y \in Older(S) : \E a \in S : y = DayLater(a)
      BY DEF Older
    <3>2. \A S : \A a \in S : DayLater(a) \in Older(S)
      BY DEF Older
    <3>3. \A a, b \in mark' : a = b
      <4> SUFFICES ASSUME NEW a \in mark', NEW b \in mark' PROVE a = b
        OBVIOUS
      <4>1. PICK x \in mark : a = DayLater(x)
        BY <2>1, <3>1
      <4>2. PICK y \in mark : b = DayLater(y)
        BY <2>1, <3>1
      <4>3. x = y
        BY <1>0 DEF StoredInv
      <4> QED
        BY <4>1, <4>2, <4>3
    <3>4. tail \cup mark # {} => tail' \cup mark' # {}
      BY <2>1, <3>2
    <3> QED
      BY <3>3, <3>4
  <2>4. CASE read.pc = "rows"
    <3> DEFINE x == DayLater(read.day)
    <3>1. read \in [pc : {"rows"}, day : Ages] /\ read.day \in rows
      BY <1>0, <2>4 DEF StoredInv, ReadTyped, CapturedHasRows
    <3>2. x \in Ages /\ x \in rows'
      BY <2>1, <3>1, OlderAges DEF Older
    <3>3. read' = [read EXCEPT !.day = x]
      BY <2>1, <2>4
    <3> HIDE DEF x
    <3>4. read' \in [pc : {"rows"}, day : Ages] /\ read'.day = x
      BY <3>1, <3>2, <3>3
    <3>5. ReadTyped' /\ CapturedHasRows'
      BY <3>2, <3>4 DEF ReadTyped, CapturedHasRows
    <3> QED
      BY <1>0, <2>1, <2>2, <2>3, <3>5 DEF StoredInv
  <2>5. CASE read.pc # "rows"
    <3>1. ReadTyped' /\ CapturedHasRows'
      BY <1>0, <2>1, <2>5 DEF StoredInv, ReadTyped, CapturedHasRows
    <3> QED
      BY <1>0, <2>1, <2>2, <2>3, <3>1 DEF StoredInv
  <2> QED
    BY <2>4, <2>5
<1> QED
  BY <1>4, <1>5, <1>6, <1>7, <1>8

(***************************************************************************)
(* For every retention and every patience of the watchdog, whatever stalls *)
(* and ends: a process is only killed after its loop was stuck for all but *)
(* one of the WATCHDOG_WEDGE_S intervals (watchdog.py), a past day that    *)
(* read_past_intraday() calls captured has rows unless a prune that was to *)
(* take it came between the two queries (intraday_store.py), and the       *)
(* recorder's loop runs if and only if there is a list                     *)
(* (watchlist_recorder.py).                                                *)
(***************************************************************************)
THEOREM CaptureSafe == CaptureSpec => []CaptureInv
<1> USE CaptureAssumption
<1>1. CaptureInit => CapInv
  <2> SUFFICES ASSUME CaptureInit PROVE CapInv
    OBVIOUS
  <2>1. DogInv
    <3>1. up = "down" /\ stall = FALSE /\ stuck = 0 /\ stale = 0 /\ beat = FALSE
      BY DEF CaptureInit
    <3>2. stall \in BOOLEAN /\ beat \in BOOLEAN
      BY <3>1
    <3>3. stale \in 0 .. Wedge + 1 /\ stuck \in 0 .. Wedge + 1
      BY <3>1 DEF CaptureConstants
    <3> QED
      BY <3>1, <3>2, <3>3 DEF DogInv, OnlyTheWedgedDie
  <2>2. LoopInv
    BY DEF CaptureInit, Off, Lists, LoopInv
  <2>3. StoredInv
    BY DEF CaptureInit, Off, NoRead, StoredInv, ReadTyped, CapturedHasRows
  <2> QED
    BY <2>1, <2>2, <2>3 DEF CapInv
<1>2. CapInv /\ [CaptureNext]_captureVars => CapInv'
  <2> SUFFICES ASSUME CapInv, [CaptureNext]_captureVars PROVE CapInv'
    OBVIOUS
  <2>1. CASE UNCHANGED captureVars
    <3>1. UNCHANGED dog /\ UNCHANGED <<wl, loop, tail, mark, rows, read>>
      BY <2>1 DEF captureVars, lists, stored
    <3>2. DogInv'
      BY <3>1, DogFrame DEF CapInv
    <3>3. LoopInv'
      BY <3>1 DEF dog, CapInv, LoopInv
    <3>4. StoredInv'
      BY <3>1 DEF CapInv, StoredInv, ReadTyped, CapturedHasRows
    <3> QED
      BY <3>2, <3>3, <3>4 DEF CapInv
  <2>2. CASE CaptureNext
    BY <2>2, DogKeeps, LoopKeeps, DaysKeep, Zenon DEF CaptureNext
  <2> QED
    BY <2>1, <2>2
<1>3. CapInv => CaptureInv
  <2> SUFFICES ASSUME CapInv PROVE CaptureInv
    OBVIOUS
  <2>1. \A a, b \in mark : a = b
    BY DEF CapInv, StoredInv
  <2>2. /\ up \in {"up", "down", "killed"} /\ stall \in BOOLEAN /\ beat \in BOOLEAN
        /\ stale \in 0 .. Wedge + 1 /\ stuck \in 0 .. Wedge + 1
    BY DEF CapInv, DogInv
  <2>3. /\ wl \in Lists
        /\ loop.pc \in {"off", "top", "fetch", "flush", "sleep", "closed"}
        /\ up = "up" => (loop.pc = "off" <=> wl = "empty")
    BY DEF CapInv, LoopInv
  <2>4. tail \cup mark \cup rows \subseteq Ages
    BY DEF CapInv, StoredInv
  <2>5. CaptureTypeOK
    BY <2>1, <2>2, <2>3, <2>4, Zenon DEF CaptureTypeOK
  <2> QED
    BY <2>5 DEF CapInv, DogInv, StoredInv, CaptureInv
<1> QED
  BY <1>1, <1>2, <1>3, PTL DEF CaptureSpec
================================================================================
