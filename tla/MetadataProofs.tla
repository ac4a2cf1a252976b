--------------------------- MODULE MetadataProofs ---------------------------
(***************************************************************************)
(* Proofs about the symbol resolver and the archive loaders under the      *)
(* requests that use both, for every number of concurrent requests, of     *)
(* symbols and of days, and for all intervals.                             *)
(***************************************************************************)
EXTENDS Metadata, TLAPS

USE TickertapeAssumption, ArchivesAssumption, MetadataAssumption

-----------------------------------------------------------------------------
(***************************************************************************)
(* The resolver.  SearchesSpared is not inductive: a call that sleeps off  *)
(* the gap ("pace") holds the lock already, and nobody but the holder can  *)
(* bring the cooldown or the gap back.                                     *)
(***************************************************************************)
ResState ==
         [pc : {"idle"}]
    \cup [pc : {"map", "list", "search", "pace", "query"}, sym : Symbols]

TtTyped ==
    /\ {mapLock, searchLock} \subseteq Tasks \cup {None}
    /\ gap \in 0 .. MinGap /\ cooldown \in 0 .. Cooldown /\ mapAge \in 0 .. MapTTL
    /\ res \in [Tasks -> ResState]

OneSearcher ==
    \A t \in Tasks : At(t, "pace") \/ At(t, "query") => searchLock = t /\ cooldown = 0

NoGapInQuery == \A t \in Tasks : At(t, "query") => gap = 0

ResolverInv == TtTyped /\ OneSearcher /\ NoGapInQuery

\* The states of a call of resolve().
LEMMA ResStates ==
    /\ NoCall \in ResState /\ NoCall.pc = "idle"
    /\ \A c \in {"map", "list", "search", "pace", "query"}, s \in Symbols :
          [pc |-> c, sym |-> s] \in ResState
    /\ \A x \in ResState : x.pc # "idle" => x.sym \in Symbols
<1>1. NoCall \in ResState /\ NoCall.pc = "idle"
  BY DEF ResState, NoCall
<1>2. \A c \in {"map", "list", "search", "pace", "query"}, s \in Symbols :
          [pc |-> c, sym |-> s] \in ResState
  BY DEF ResState
<1>3. \A x \in ResState : x.pc # "idle" => x.sym \in Symbols
  BY DEF ResState
<1> QED
  BY <1>1, <1>2, <1>3

\* A call goes to x: the others stay where they are.
LEMMA ResMoves ==
    ASSUME TtTyped, NEW t \in Tasks, NEW x \in ResState, res' = [res EXCEPT ![t] = x]
    PROVE  res' \in [Tasks -> ResState] /\ res'[t] = x /\ \A u \in Tasks \ {t} : res'[u] = res[u]
BY DEF TtTyped

(***************************************************************************)
(* A call that is not about to query moves, and /search is left alone: the *)
(* invariant of the resolver stays.                                        *)
(***************************************************************************)
LEMMA ResolverFrame ==
    ASSUME ResolverInv, NEW t \in Tasks, NEW x \in ResState, res' = [res EXCEPT ![t] = x],
           x.pc \notin {"pace", "query"}, UNCHANGED <<searchLock, gap, cooldown>>,
           mapLock' \in Tasks \cup {None}, mapAge' \in 0 .. MapTTL
    PROVE  ResolverInv'
<1>1. res' \in [Tasks -> ResState] /\ res'[t] = x /\ \A u \in Tasks \ {t} : res'[u] = res[u]
  BY ResMoves DEF ResolverInv
<1>2. TtTyped'
  BY <1>1 DEF ResolverInv, TtTyped
<1>3. OneSearcher' /\ NoGapInQuery'
  BY <1>1 DEF ResolverInv, OneSearcher, NoGapInQuery, At
<1> QED
  BY <1>2, <1>3 DEF ResolverInv

\* After the map: a call ends, or waits for the lock of /search.
LEMMA LookUpGoes ==
    ASSUME NEW t \in Tasks, NEW s \in Symbols, NEW map, LookUp(t, s, map)
    PROVE  \E x \in ResState : res' = [res EXCEPT ![t] = x] /\ x.pc \in {"idle", "search"}
<1>1. \/ res' = [res EXCEPT ![t] = NoCall]
      \/ res' = [res EXCEPT ![t] = [pc |-> "search", sym |-> s]]
  BY DEF LookUp, Return, Goto
<1> QED
  BY <1>1, ResStates

\* Every step of a call of resolve() preserves the invariant.
LEMMA ResolverNext ==
    ASSUME ResolverInv, NEW t \in Tasks, (\E s \in Symbols : Resolve(t, s)) \/ TtStep(t)
    PROVE  ResolverInv'
<1>0. TtTyped /\ OneSearcher /\ NoGapInQuery /\ res[t] \in ResState
  BY DEF ResolverInv, TtTyped
<1>1. ASSUME NEW s \in Symbols, Resolve(t, s) PROVE ResolverInv'
  <2>0. UNCHANGED <<mapAge, mapLock, searchLock, gap, cooldown>> /\ res[t] = NoCall
    BY <1>1 DEF Resolve
  <2>1. PICK x \in ResState : res' = [res EXCEPT ![t] = x] /\ x.pc \in {"idle", "search", "map"}
    <3>1. CASE s \in sids
      <4>1. res' = [res EXCEPT ![t] = NoCall]
        BY <1>0, <1>1, <2>0, <3>1 DEF Resolve, TtTyped
      <4> QED
        BY <4>1, ResStates
    <3>2. CASE s \notin sids /\ MapFresh
      BY <1>1, <3>2, LookUpGoes DEF Resolve
    <3>3. CASE s \notin sids /\ ~MapFresh
      BY <1>1, <3>3, ResStates DEF Resolve, Goto
    <3> QED
      BY <3>1, <3>2, <3>3
  <2> QED
    BY <1>0, <2>0, <2>1, ResolverFrame DEF TtTyped
<1>2. CASE LockMap(t)
  <2>0. res[t].sym \in Symbols /\ UNCHANGED <<mapAge, searchLock, gap, cooldown>>
    BY <1>0, <1>2, ResStates DEF LockMap, At
  <2>1. PICK x \in ResState : res' = [res EXCEPT ![t] = x] /\ x.pc \in {"idle", "search", "list"}
    <3>1. CASE MapFresh
      BY <1>2, <2>0, <3>1, LookUpGoes DEF LockMap
    <3>2. CASE ~MapFresh
      BY <1>2, <2>0, <3>2, ResStates DEF LockMap, Goto
    <3> QED
      BY <3>1, <3>2
  <2>2. mapLock' \in Tasks \cup {None}
    BY <1>0, <1>2 DEF LockMap, TtTyped
  <2> QED
    BY <1>0, <2>0, <2>1, <2>2, ResolverFrame DEF TtTyped
<1>3. ASSUME NEW L, MapArrives(t, L) PROVE ResolverInv'
  <2>0. /\ res[t].sym \in Symbols /\ UNCHANGED <<searchLock, gap, cooldown>>
        /\ mapLock' = None /\ mapAge' \in {mapAge, 0}
    BY <1>0, <1>3, ResStates DEF MapArrives, At
  <2>1. PICK x \in ResState : res' = [res EXCEPT ![t] = x] /\ x.pc \in {"idle", "search"}
    BY <1>3, <2>0, LookUpGoes DEF MapArrives
  <2>2. mapAge' \in 0 .. MapTTL
    BY <1>0, <2>0 DEF TtTyped
  <2> QED
    BY <2>0, <2>1, <2>2, ResolverFrame
<1>4. CASE LockSearch(t)
  <2>0. /\ res[t].sym \in Symbols /\ searchLock = None
        /\ UNCHANGED <<mapAge, mapLock, gap, cooldown>>
    BY <1>0, <1>4, ResStates DEF LockSearch, At
  <2>1. CASE cooldown > 0
    <3>1. res' = [res EXCEPT ![t] = NoCall] /\ UNCHANGED searchLock
      BY <1>4, <2>1 DEF LockSearch, Return
    <3> QED
      BY <1>0, <2>0, <3>1, ResStates, ResolverFrame DEF TtTyped
  <2>2. CASE ~(cooldown > 0)
    <3>1. PICK x \in ResState : /\ res' = [res EXCEPT ![t] = x]
                                /\ x.pc = IF gap > 0 THEN "pace" ELSE "query"
      BY <1>4, <2>0, <2>2, ResStates DEF LockSearch, Goto
    <3>2. searchLock' = t /\ cooldown = 0
      BY <1>0, <1>4, <2>2 DEF LockSearch, TtTyped
    <3>3. \A u \in Tasks \ {t} : ~At(u, "pace") /\ ~At(u, "query")
      BY <1>0, <2>0 DEF OneSearcher
    <3>4. res' \in [Tasks -> ResState] /\ res'[t] = x /\ \A u \in Tasks \ {t} : res'[u] = res[u]
      BY <1>0, <3>1, ResMoves
    <3>5. TtTyped'
      BY <1>0, <2>0, <3>2, <3>4 DEF TtTyped
    <3>6. OneSearcher'
      BY <2>0, <3>2, <3>3, <3>4 DEF OneSearcher, At
    <3>7. NoGapInQuery'
      BY <1>0, <2>0, <3>1, <3>3, <3>4 DEF NoGapInQuery, At, TtTyped
    <3> QED
      BY <3>5, <3>6, <3>7 DEF ResolverInv
  <2> QED
    BY <2>1, <2>2
<1>5. CASE Paced(t)
  <2>0. /\ At(t, "pace") /\ gap = 0 /\ res[t].sym \in Symbols
        /\ UNCHANGED <<mapAge, mapLock, searchLock, gap, cooldown>>
    BY <1>0, <1>5, ResStates DEF Paced, At
  <2>1. PICK x \in ResState : res' = [res EXCEPT ![t] = x] /\ x.pc = "query"
    BY <1>5, <2>0, ResStates DEF Paced, Goto
  <2>2. res' \in [Tasks -> ResState] /\ res'[t] = x /\ \A u \in Tasks \ {t} : res'[u] = res[u]
    BY <1>0, <2>1, ResMoves
  <2> QED
    BY <1>0, <2>0, <2>2 DEF ResolverInv, TtTyped, OneSearcher, NoGapInQuery, At
<1>6. ASSUME NEW reply \in Replies, SearchArrives(t, reply) PROVE ResolverInv'
  <2>1. /\ searchLock = t /\ searchLock' = None
        /\ gap' = MinGap /\ cooldown' \in {cooldown, Cooldown}
        /\ UNCHANGED <<mapAge, mapLock>> /\ res' = [res EXCEPT ![t] = NoCall]
    BY <1>0, <1>6 DEF SearchArrives, OneSearcher, Return
  <2>2. res' \in [Tasks -> ResState] /\ res'[t] = NoCall /\ \A u \in Tasks \ {t} : res'[u] = res[u]
    BY <1>0, <2>1, ResStates, ResMoves
  <2>3. \A u \in Tasks : res'[u].pc \notin {"pace", "query"}
    BY <1>0, <2>1, <2>2, ResStates DEF OneSearcher, At
  <2>4. TtTyped'
    BY <1>0, <2>1, <2>2 DEF TtTyped
  <2> QED
    BY <2>3, <2>4 DEF ResolverInv, OneSearcher, NoGapInQuery, At
<1> QED
  BY <1>1, <1>2, <1>3, <1>4, <1>5, <1>6 DEF TtStep

-----------------------------------------------------------------------------
(***************************************************************************)
(* The archives.  That the NSE file never goes back needs to know where a  *)
(* walk can be: it is at or before the day its position counts from, since *)
(* midnight may have passed meanwhile (WalkBehindClock), and of NSE it is  *)
(* still at days after the file's (NseWalkAhead).                          *)
(***************************************************************************)
CallState ==
         [pc : {"idle"}]
    \cup [pc : {"lock"}, at : Loaders]
    \cup [pc : {"get"}, at : Loaders, day : Int, back : Nat]

ArTyped ==
    /\ day \in 0 .. MaxDay
    /\ loaded \in [Loaders -> (0 .. MaxDay) \cup {NoFile}]
    /\ rest \in [Loaders -> 0 .. Hour + Retry]
    /\ lock \in [Loaders -> Callers \cup {NoFile}]
    /\ call \in [Callers -> CallState]

WalkBehindClock ==
    /\ \A c \in Callers : call[c].pc = "get" => call[c].day + call[c].back <= day
    /\ \A v \in Loaders : loaded[v] # NoFile => loaded[v] <= day

NseWalkAhead ==
    \A c \in Callers :
        call[c].pc = "get" /\ call[c].at = NSE /\ loaded[NSE] # NoFile => call[c].day > loaded[NSE]

LoaderInv == ArTyped /\ OneWalkAtATime /\ WalkBehindClock /\ NseWalkAhead

\* The states of a call of ensure_loaded().
LEMMA CallStates ==
    /\ Out \in CallState /\ Out.pc = "idle"
    /\ \A v \in Loaders : [pc |-> "lock", at |-> v] \in CallState
    /\ \A v \in Loaders, d \in Int, k \in Nat :
          [pc |-> "get", at |-> v, day |-> d, back |-> k] \in CallState
    /\ \A x \in CallState :
          /\ x.pc # "idle" => x.at \in Loaders
          /\ x.pc = "get" => x.day \in Int /\ x.back \in Nat
<1>1. Out \in CallState /\ Out.pc = "idle"
  BY DEF CallState, Out
<1>2. \A v \in Loaders : [pc |-> "lock", at |-> v] \in CallState
  BY DEF CallState
<1>3. \A v \in Loaders, d \in Int, k \in Nat :
          [pc |-> "get", at |-> v, day |-> d, back |-> k] \in CallState
  BY DEF CallState
<1>4. \A x \in CallState :
          /\ x.pc # "idle" => x.at \in Loaders
          /\ x.pc = "get" => x.day \in Int /\ x.back \in Nat
  BY DEF CallState
<1> QED
  BY <1>1, <1>2, <1>3, <1>4

\* A call goes to x: the others stay where they are.
LEMMA CallGoes ==
    ASSUME ArTyped, NEW c \in Callers, NEW x \in CallState, call' = [call EXCEPT ![c] = x]
    PROVE  call' \in [Callers -> CallState] /\ call'[c] = x /\ \A u \in Callers \ {c} : call'[u] = call[u]
BY DEF ArTyped

\* A call that is not walking, and will not be, moves.
LEMMA LoaderFrame ==
    ASSUME LoaderInv, NEW c \in Callers, NEW x \in CallState, call' = [call EXCEPT ![c] = x],
           call[c].pc # "get", x.pc # "get", UNCHANGED <<day, loaded, rest, lock>>
    PROVE  LoaderInv'
<1>1. call' \in [Callers -> CallState] /\ call'[c] = x /\ \A u \in Callers \ {c} : call'[u] = call[u]
  BY CallGoes DEF LoaderInv
<1>2. ArTyped'
  BY <1>1 DEF LoaderInv, ArTyped
<1>3. OneWalkAtATime'
  BY <1>1 DEF LoaderInv, OneWalkAtATime
<1>4. WalkBehindClock' /\ NseWalkAhead'
  BY <1>1 DEF LoaderInv, WalkBehindClock, NseWalkAhead
<1> QED
  BY <1>2, <1>3, <1>4 DEF LoaderInv

\* A walk ends, with a file or without: its lock is free and nobody walks there.
LEMMA WalkEnds ==
    ASSUME LoaderInv, NEW c \in Callers, NEW v \in Loaders,
           lock[v] = c \/ (lock[v] = NoFile /\ call[c].pc = "lock"),
           call[c].pc = "get" => call[c].at = v,
           call' = [call EXCEPT ![c] = Out], lock' = [lock EXCEPT ![v] = NoFile]
    PROVE  /\ call' \in [Callers -> CallState] /\ call'[c] = Out
           /\ \A u \in Callers \ {c} : call'[u] = call[u]
           /\ lock' \in [Loaders -> Callers \cup {NoFile}]
           /\ OneWalkAtATime'
           /\ \A u \in Callers : ~(call'[u].pc = "get" /\ call'[u].at = v)
<1>0. ArTyped /\ OneWalkAtATime
  BY DEF LoaderInv
<1>1. call' \in [Callers -> CallState] /\ call'[c] = Out /\ \A u \in Callers \ {c} : call'[u] = call[u]
  BY <1>0, CallStates, CallGoes
<1>2. /\ lock' \in [Loaders -> Callers \cup {NoFile}]
      /\ lock'[v] = NoFile /\ \A w \in Loaders \ {v} : lock'[w] = lock[w]
  BY <1>0 DEF ArTyped
<1>3. \A u \in Callers : ~(call'[u].pc = "get" /\ call'[u].at = v)
  BY <1>0, <1>1, CallStates DEF OneWalkAtATime
<1>4. OneWalkAtATime'
  <2> SUFFICES ASSUME NEW w \in Loaders, NEW u \in Callers
               PROVE  (lock'[w] = u) <=> (call'[u].pc = "get" /\ call'[u].at = w)
    BY DEF OneWalkAtATime
  <2>1. CASE w = v
    BY <1>2, <1>3, <2>1
  <2>2. CASE w # v /\ u # c
    BY <1>0, <1>1, <1>2, <2>2 DEF OneWalkAtATime
  <2>3. CASE w # v /\ u = c
    BY <1>0, <1>1, <1>2, <2>3, CallStates DEF OneWalkAtATime
  <2> QED
    BY <2>1, <2>2, <2>3
<1> QED
  BY <1>1, <1>2, <1>3, <1>4

(***************************************************************************)
(* The walk goes on, to `back` days before today: it ends there or asks    *)
(* for a file that the loader does not have, nor, of NSE, a later one.     *)
(***************************************************************************)
LEMMA Walks ==
    ASSUME LoaderInv, NEW c \in Callers, NEW v \in Loaders, NEW back \in Nat, Walk(c, v, back),
           lock[v] = c \/ (lock[v] = NoFile /\ call[c].pc = "lock"),
           call[c].pc = "get" => call[c].at = v,
           v = NSE /\ loaded[NSE] # NoFile => day - back >= loaded[NSE],
           UNCHANGED <<day, loaded>>, rest' \in [Loaders -> 0 .. Hour + Retry]
    PROVE  LoaderInv'
<1>0. ArTyped /\ OneWalkAtATime /\ WalkBehindClock /\ NseWalkAhead
  BY DEF LoaderInv
<1>1. CASE back = Back \/ Have(v, day - back)
  <2>1. call' = [call EXCEPT ![c] = Out] /\ lock' = [lock EXCEPT ![v] = NoFile]
    BY <1>1 DEF Walk
  <2>2. /\ call' \in [Callers -> CallState] /\ call'[c] = Out
        /\ \A u \in Callers \ {c} : call'[u] = call[u]
        /\ lock' \in [Loaders -> Callers \cup {NoFile}]
        /\ OneWalkAtATime'
    BY <2>1, WalkEnds
  <2>3. ArTyped'
    BY <1>0, <2>2 DEF ArTyped
  <2>4. WalkBehindClock' /\ NseWalkAhead'
    BY <1>0, <2>2, CallStates DEF WalkBehindClock, NseWalkAhead
  <2> QED
    BY <2>2, <2>3, <2>4 DEF LoaderInv
<1>2. CASE ~(back = Back \/ Have(v, day - back))
  <2> DEFINE x == [pc |-> "get", at |-> v, day |-> day - back, back |-> back]
  <2>0. day - back \in Int /\ day \in Int
    BY <1>0 DEF ArTyped
  <2>1. x \in CallState /\ x.pc = "get" /\ x.at = v /\ x.day = day - back /\ x.back = back
    BY <2>0, CallStates
  <2>2. call' = [call EXCEPT ![c] = x] /\ lock' = [lock EXCEPT ![v] = c]
    BY <1>2 DEF Walk
  <2> HIDE DEF x
  <2>3. call' \in [Callers -> CallState] /\ call'[c] = x /\ \A u \in Callers \ {c} : call'[u] = call[u]
    BY <1>0, <2>1, <2>2, CallGoes
  <2>4. /\ lock' \in [Loaders -> Callers \cup {NoFile}]
        /\ lock'[v] = c /\ \A w \in Loaders \ {v} : lock'[w] = lock[w]
    BY <1>0, <2>2 DEF ArTyped
  <2>5. ArTyped'
    BY <1>0, <2>3, <2>4 DEF ArTyped
  <2>6. OneWalkAtATime'
    <3> SUFFICES ASSUME NEW w \in Loaders, NEW u \in Callers
                 PROVE  (lock'[w] = u) <=> (call'[u].pc = "get" /\ call'[u].at = w)
      BY DEF OneWalkAtATime
    <3>1. CASE u = c /\ w = v
      BY <2>1, <2>3, <2>4, <3>1
    <3>2. CASE u = c /\ w # v
      BY <1>0, <2>1, <2>3, <2>4, <3>2 DEF OneWalkAtATime
    <3>3. CASE u # c /\ w = v
      BY <1>0, <2>3, <2>4, <3>3 DEF OneWalkAtATime
    <3>4. CASE u # c /\ w # v
      BY <1>0, <2>3, <2>4, <3>4 DEF OneWalkAtATime
    <3> QED
      BY <3>1, <3>2, <3>3, <3>4
  <2>7. WalkBehindClock'
    BY <1>0, <2>0, <2>1, <2>3 DEF WalkBehindClock
  <2>8. v = NSE /\ loaded[NSE] # NoFile => day - back > loaded[NSE]
    <3>1. v = NSE => loaded[NSE] # day - back
      BY <1>2 DEF Have
    <3>2. loaded[NSE] # NoFile => loaded[NSE] \in Int
      BY <1>0 DEF ArTyped
    <3> QED
      BY <2>0, <3>1, <3>2
  <2>9. NseWalkAhead'
    BY <1>0, <2>1, <2>3, <2>8 DEF NseWalkAhead
  <2> QED
    BY <2>5, <2>6, <2>7, <2>9 DEF LoaderInv
<1> QED
  BY <1>1, <1>2

\* Every step of a call of ensure_loaded() preserves the invariant.
LEMMA LoaderNext ==
    ASSUME LoaderInv, NEW c \in Callers, (\E v \in Loaders : Ensure(c, v)) \/ ArStep(c)
    PROVE  LoaderInv'
<1>0. ArTyped /\ OneWalkAtATime /\ WalkBehindClock /\ NseWalkAhead /\ call[c] \in CallState
  BY DEF LoaderInv, ArTyped
<1>1. ASSUME NEW v \in Loaders, Ensure(c, v) PROVE LoaderInv'
  <2> DEFINE x == [pc |-> "lock", at |-> v]
  <2>1. x \in CallState /\ x.pc = "lock"
    BY CallStates
  <2>2. call' = [call EXCEPT ![c] = x]
    BY <1>1 DEF Ensure
  <2> HIDE DEF x
  <2> QED
    BY <1>1, <2>1, <2>2, CallStates, LoaderFrame DEF Ensure
<1>2. CASE Locked(c)
  <2> DEFINE v == call[c].at
  <2>0. v \in Loaders /\ call[c].pc = "lock" /\ lock[v] = NoFile /\ UNCHANGED <<day, loaded>>
    BY <1>0, <1>2, CallStates DEF Locked
  <2>1. CASE rest[v] > 0
    BY <1>2, <2>0, <2>1, CallStates, LoaderFrame DEF Locked
  <2>2. CASE ~(rest[v] > 0)
    <3>1. rest' \in [Loaders -> 0 .. Hour + Retry] /\ Walk(c, v, 0)
      <4>1. rest' \in {rest, [rest EXCEPT ![v] = Retry]} /\ Walk(c, v, 0)
        BY <1>2, <2>2 DEF Locked
      <4>2. Retry \in 0 .. Hour + Retry
        OBVIOUS
      <4> QED
        BY <1>0, <4>1, <4>2 DEF ArTyped
    <3>2. v = NSE /\ loaded[NSE] # NoFile => day - 0 >= loaded[NSE]
      BY <1>0 DEF WalkBehindClock, ArTyped
    <3> HIDE DEF v
    <3> QED
      BY <2>0, <3>1, <3>2, Walks
  <2> QED
    BY <2>1, <2>2
<1>3. CASE Downloaded(c)
  <2> DEFINE v == call[c].at
             d == call[c].day
  <2>0. /\ v \in Loaders /\ call[c].pc = "get" /\ d \in 0 .. MaxDay /\ d <= day
        /\ lock[v] = c /\ UNCHANGED day /\ day \in Nat
    BY <1>0, <1>3, CallStates DEF Downloaded, WalkBehindClock, ArTyped, OneWalkAtATime
  <2>1. /\ loaded' = [loaded EXCEPT ![v] = d] /\ rest' = [rest EXCEPT ![v] = Hour]
        /\ call' = [call EXCEPT ![c] = Out] /\ lock' = [lock EXCEPT ![v] = NoFile]
    BY <1>3 DEF Downloaded
  <2>2. /\ call' \in [Callers -> CallState] /\ call'[c] = Out
        /\ \A u \in Callers \ {c} : call'[u] = call[u]
        /\ lock' \in [Loaders -> Callers \cup {NoFile}]
        /\ OneWalkAtATime'
        /\ \A u \in Callers : ~(call'[u].pc = "get" /\ call'[u].at = v)
    <3>1. call[c].pc = "get" => call[c].at = v
      OBVIOUS
    <3> HIDE DEF v, d
    <3> QED
      BY <2>0, <2>1, <3>1, WalkEnds
  <2> HIDE DEF v, d
  <2>3. Hour \in 0 .. Hour + Retry
    OBVIOUS
  <2>4. ArTyped'
    BY <1>0, <2>0, <2>1, <2>2, <2>3 DEF ArTyped
  <2>5. WalkBehindClock'
    BY <1>0, <2>0, <2>1, <2>2, CallStates DEF WalkBehindClock, ArTyped
  <2>6. NseWalkAhead'
    BY <1>0, <2>0, <2>1, <2>2, CallStates DEF NseWalkAhead, ArTyped
  <2> QED
    BY <2>2, <2>4, <2>5, <2>6 DEF LoaderInv
<1>4. CASE NotDownloaded(c)
  <2> DEFINE v == call[c].at
             k == call[c].back + 1
  <2>0. /\ v \in Loaders /\ call[c].pc = "get" /\ k \in Nat /\ lock[v] = c /\ Walk(c, v, k)
        /\ UNCHANGED <<day, loaded, rest>>
    BY <1>0, <1>4, CallStates DEF NotDownloaded, OneWalkAtATime
  <2>1. v = NSE /\ loaded[NSE] # NoFile => day - k >= loaded[NSE]
    <3>1. v = NSE /\ loaded[NSE] # NoFile => call[c].day > loaded[NSE] /\ loaded[NSE] \in Int
      BY <1>0, <2>0 DEF NseWalkAhead, ArTyped
    <3>2. call[c].day + call[c].back <= day /\ call[c].day \in Int /\ call[c].back \in Nat /\ day \in Int
      BY <1>0, <2>0, CallStates DEF WalkBehindClock, ArTyped
    <3> QED
      BY <3>1, <3>2
  <2>2. rest' \in [Loaders -> 0 .. Hour + Retry]
    BY <1>0, <2>0 DEF ArTyped
  <2>3. call[c].pc = "get" => call[c].at = v
    OBVIOUS
  <2> HIDE DEF v, k
  <2> QED
    BY <2>0, <2>1, <2>2, <2>3, Walks
<1> QED
  BY <1>1, <1>2, <1>3, <1>4 DEF ArStep

-----------------------------------------------------------------------------
(***************************************************************************)
(* The requests compose the two: each of their steps is a step of a call   *)
(* of the resolver, or of one of the archives, or neither.                 *)
(***************************************************************************)
RequestsInv == ResolverInv /\ LoaderInv

\* Nothing is under way when the process starts.
LEMMA RequestsInit == Init => RequestsInv
<1> SUFFICES ASSUME Init PROVE RequestsInv
  OBVIOUS
<1>1. TtTyped
  BY ResStates DEF Init, TtInit, TtTyped
<1>2. \A t \in Tasks : res[t].pc = "idle"
  BY ResStates DEF Init, TtInit
<1>3. OneSearcher /\ NoGapInQuery
  BY <1>2 DEF OneSearcher, NoGapInQuery, At
<1>4. ArTyped
  BY CallStates DEF Init, ArInit, ArTyped
<1>5. (\A c \in Callers : call[c].pc = "idle") /\ (\A v \in Loaders : lock[v] = NoFile /\ loaded[v] = NoFile)
  BY CallStates DEF Init, ArInit
<1>6. OneWalkAtATime /\ WalkBehindClock /\ NseWalkAhead
  BY <1>5 DEF OneWalkAtATime, WalkBehindClock, NseWalkAhead
<1> QED
  BY <1>1, <1>3, <1>4, <1>6 DEF RequestsInv, ResolverInv, LoaderInv

\* Time passes: timers run down, and midnight only moves the clock away from the walks.
LEMMA TimePasses ==
    ASSUME RequestsInv, Clock
    PROVE  RequestsInv'
<1>0. /\ TtTyped /\ OneSearcher /\ NoGapInQuery
      /\ ArTyped /\ OneWalkAtATime /\ WalkBehindClock /\ NseWalkAhead
  BY DEF RequestsInv, ResolverInv, LoaderInv
<1>1. UNCHANGED <<mapLock, searchLock, res, loaded, lock, call>>
  BY DEF Clock
<1>2. gap' \in 0 .. MinGap /\ (gap = 0 => gap' = 0)
  BY <1>0 DEF Clock, TtTick, TtTyped
<1>3. cooldown' \in 0 .. Cooldown /\ (cooldown = 0 => cooldown' = 0)
  BY <1>0 DEF Clock, TtTick, TtTyped
<1>4. mapAge' \in 0 .. MapTTL
  BY <1>0 DEF Clock, TtTick, TtTyped
<1>5. ResolverInv'
  BY <1>0, <1>1, <1>2, <1>3, <1>4 DEF ResolverInv, TtTyped, OneSearcher, NoGapInQuery, At
<1>6. day' \in 0 .. MaxDay /\ day' >= day /\ day \in Int
  BY <1>0 DEF Clock, ArTick, ArTyped
<1>7. rest' \in [Loaders -> 0 .. Hour + Retry]
  BY <1>0 DEF Clock, ArTick, ArTyped
<1>8. ArTyped'
  BY <1>0, <1>1, <1>6, <1>7 DEF ArTyped
<1>9. WalkBehindClock'
  <2>1. \A c \in Callers : call[c].pc = "get" => call[c].day \in Int /\ call[c].back \in Nat
    BY <1>0, CallStates DEF ArTyped
  <2>2. \A v \in Loaders : loaded[v] # NoFile => loaded[v] \in Int
    BY <1>0 DEF ArTyped
  <2> QED
    BY <1>0, <1>1, <1>6, <2>1, <2>2 DEF WalkBehindClock
<1>10. OneWalkAtATime' /\ NseWalkAhead'
  BY <1>0, <1>1 DEF OneWalkAtATime, NseWalkAhead
<1> QED
  BY <1>5, <1>8, <1>9, <1>10 DEF RequestsInv, LoaderInv

\* What a step of the requests is to the resolver and to the archives; a call of the one
\* begins only if none of the other is under way.
LEMMA StepOfEither ==
    ASSUME Next
    PROVE  \/ Clock
           \/ \E t \in Tasks : /\ \/ \E s \in Symbols : Resolve(t, s)
                                  \/ TtStep(t)
                               /\ res[t] = NoCall => call[t] = Out
                               /\ UNCHANGED arVars
           \/ \E t \in Tasks : /\ \/ \E v \in Loaders : Ensure(t, v)
                                  \/ ArStep(t)
                               /\ call[t] = Out => res[t] = NoCall
                               /\ UNCHANGED ttVars
           \/ UNCHANGED <<ttVars, arVars>>
           \/ \E t \in Tasks : Cancel(t)
<1>0. BSE \in Loaders /\ NSE \in Loaders
  BY DEF BSE
<1> DEFINE Res(t) == /\ (\E s \in Symbols : Resolve(t, s)) \/ TtStep(t)
                     /\ res[t] = NoCall => call[t] = Out
                     /\ UNCHANGED arVars
           Arc(t) == /\ (\E v \in Loaders : Ensure(t, v)) \/ ArStep(t)
                     /\ call[t] = Out => res[t] = NoCall
                     /\ UNCHANGED ttVars
           Neither == UNCHANGED <<ttVars, arVars>>
<1>1. ASSUME NEW t \in Tasks, NEW s \in Symbols, Begin(t, s) PROVE Res(t)
  BY <1>1 DEF Begin, Idle, Waiting
<1>2. ASSUME NEW t \in Tasks, NEW v \in Loaders, SourceDetails(t, v)
      PROVE  (\E w \in Loaders : Ensure(t, w)) \/ UNCHANGED arVars
  BY <1>0, <1>2 DEF SourceDetails, NseDetails, BseDetails
<1>3. ASSUME NEW t \in Tasks, NseQuote(t) \/ BseQuote(t) \/ ResolveCode(t) PROVE Arc(t)
  BY <1>0, <1>3 DEF NseQuote, BseQuote, ResolveCode, Load, Served, Asks, Idle, Waiting
<1>4. ASSUME NEW t \in Tasks, NEW connected \in BOOLEAN, Universe(t, connected) PROVE Arc(t)
  BY <1>0, <1>4 DEF Universe, Snapshot, Served, Asks, Idle, Waiting
<1>5. ASSUME NEW t \in Tasks, AskIsin(t) PROVE Arc(t)
  BY <1>0, <1>5 DEF AskIsin, Asks, Waiting
<1>6. ASSUME NEW t \in Tasks, NEW v \in Loaders, Details(t, v) \/ SecondSource(t, v)
      PROVE  Arc(t) \/ Neither
  <2>1. SourceDetails(t, v) /\ UNCHANGED ttVars /\ ~Waiting(t)
    BY <1>6 DEF Details, SecondSource, Served, Asks, Idle
  <2> QED BY <1>2, <2>1 DEF Waiting
<1>7. ASSUME NEW t \in Tasks, Done(t) \/ NeedService(t) \/ ServiceBuilt(t) PROVE Neither
  BY <1>7 DEF Done, NeedService, ServiceBuilt
<1>12. ASSUME NEW t \in Tasks, BuildService(t) PROVE Arc(t)
  BY <1>12 DEF BuildService, Asks, Waiting
<1>8. ASSUME NEW t \in Tasks, TtStep(t), UNCHANGED <<arVars, further, service>> PROVE Res(t)
  <2>1. res[t].pc # "idle"
    BY <1>8 DEF TtStep, LockMap, MapArrives, LockSearch, Paced, SearchArrives, At
  <2>2. res[t] # NoCall
    BY <2>1, ResStates
  <2> QED BY <1>8, <2>2
<1>9. ASSUME NEW t \in Tasks, ArStep(t), UNCHANGED <<ttVars, further, service>> PROVE Arc(t)
  <2>1. call[t].pc # "idle"
    BY <1>9 DEF ArStep, Locked, Downloaded, NotDownloaded
  <2>2. call[t] # Out
    BY <2>1, CallStates
  <2> QED BY <1>9, <2>2
<1> HIDE DEF Res, Arc, Neither
<1>10. ASSUME NEW t \in Tasks, Step(t) PROVE Res(t) \/ Arc(t) \/ Neither
  BY <1>5, <1>6, <1>7, <1>8, <1>9, <1>10, <1>12, Zenon DEF Step
<1>11. \/ Clock \/ (\E t \in Tasks : Res(t)) \/ (\E t \in Tasks : Arc(t)) \/ Neither
       \/ \E t \in Tasks : Cancel(t)
  BY <1>1, <1>3, <1>4, <1>6, <1>7, <1>10, Zenon DEF Next
<1> QED
  BY <1>11, Zenon DEF Res, Arc, Neither

(***************************************************************************)
(* A cancelled request gives back what it holds, with the NSE archive's    *)
(* file if it was building the providers.                                  *)
(***************************************************************************)
LEMMA CancelledResolver ==
    ASSUME ResolverInv, NEW t \in Tasks, TtCancel(t)
    PROVE  ResolverInv'
<1>0. TtTyped /\ OneSearcher /\ NoGapInQuery
  BY DEF ResolverInv
<1>1. res' = [res EXCEPT ![t] = NoCall] /\ UNCHANGED <<mapAge, gap, cooldown>>
  BY DEF TtCancel, Return
<1>2. res' \in [Tasks -> ResState] /\ res'[t] = NoCall /\ \A u \in Tasks \ {t} : res'[u] = res[u]
  BY <1>0, <1>1, ResStates, ResMoves
<1>3. /\ mapLock' \in Tasks \cup {None} /\ searchLock' \in Tasks \cup {None}
      /\ \A u \in Tasks \ {t} : searchLock = u => searchLock' = u
  BY <1>0 DEF TtCancel, TtTyped
<1>4. TtTyped'
  BY <1>0, <1>1, <1>2, <1>3 DEF TtTyped
<1>5. OneSearcher' /\ NoGapInQuery'
  BY <1>0, <1>1, <1>2, <1>3, ResStates DEF OneSearcher, NoGapInQuery, At
<1> QED BY <1>4, <1>5 DEF ResolverInv

LEMMA CancelledLoader ==
    ASSUME LoaderInv, NEW c \in Tasks, ArCancel(c),
           \/ UNCHANGED <<loaded, rest>>
           \/ /\ loaded' = [loaded EXCEPT ![NSE] = NoFile]
              /\ rest' = [rest EXCEPT ![NSE] = 0]
    PROVE  LoaderInv'
<1>0. ArTyped /\ OneWalkAtATime /\ WalkBehindClock /\ NseWalkAhead /\ c \in Callers
  BY DEF LoaderInv
<1>1. call' \in [Callers -> CallState] /\ call'[c] = Out /\ \A u \in Callers \ {c} : call'[u] = call[u]
  BY <1>0, CallStates, CallGoes DEF ArCancel
<1>2. /\ lock' \in [Loaders -> Callers \cup {NoFile}]
      /\ \A v \in Loaders : lock'[v] = IF lock[v] = c THEN NoFile ELSE lock[v]
  BY <1>0 DEF ArCancel, ArTyped
<1>3. /\ loaded' \in [Loaders -> (0 .. MaxDay) \cup {NoFile}]
      /\ rest' \in [Loaders -> 0 .. Hour + Retry]
      /\ \A v \in Loaders : loaded'[v] # NoFile => loaded'[v] = loaded[v]
  BY <1>0 DEF ArTyped
<1>4. ArTyped'
  BY <1>0, <1>1, <1>2, <1>3 DEF ArTyped, ArCancel
<1>5. OneWalkAtATime'
  BY <1>0, <1>1, <1>2, CallStates DEF OneWalkAtATime
<1>6. WalkBehindClock' /\ NseWalkAhead'
  BY <1>0, <1>1, <1>3, CallStates DEF WalkBehindClock, NseWalkAhead, ArCancel
<1> QED BY <1>4, <1>5, <1>6 DEF LoaderInv

\* Every step of a request, of the archives and of the clock preserves both invariants.
LEMMA RequestsNext == RequestsInv /\ [Next]_vars => RequestsInv'
<1> SUFFICES ASSUME RequestsInv, [Next]_vars PROVE RequestsInv'
  OBVIOUS
<1>0. ResolverInv /\ LoaderInv
  BY DEF RequestsInv
<1>1. ASSUME UNCHANGED ttVars PROVE ResolverInv'
  BY <1>0, <1>1 DEF ttVars, ResolverInv, TtTyped, OneSearcher, NoGapInQuery, At
<1>2. ASSUME UNCHANGED arVars PROVE LoaderInv'
  BY <1>0, <1>2 DEF arVars, LoaderInv, ArTyped, OneWalkAtATime, WalkBehindClock, NseWalkAhead
<1>3. CASE Clock
  BY <1>3, TimePasses
<1>4. ASSUME NEW t \in Tasks, (\E s \in Symbols : Resolve(t, s)) \/ TtStep(t), UNCHANGED arVars
      PROVE  RequestsInv'
  BY <1>0, <1>2, <1>4, ResolverNext DEF RequestsInv
<1>5. ASSUME NEW t \in Tasks, (\E v \in Loaders : Ensure(t, v)) \/ ArStep(t), UNCHANGED ttVars
      PROVE  RequestsInv'
  <2>1. t \in Callers
    OBVIOUS
  <2> QED
    BY <1>0, <1>1, <1>5, <2>1, LoaderNext DEF RequestsInv
<1>6. CASE UNCHANGED <<ttVars, arVars>>
  BY <1>1, <1>2, <1>6 DEF RequestsInv
<1>7. CASE UNCHANGED vars
  BY <1>6, <1>7 DEF vars
<1>8. ASSUME NEW t \in Tasks, Cancel(t) PROVE RequestsInv'
  BY <1>0, <1>8, CancelledResolver, CancelledLoader DEF Cancel, RequestsInv
<1> QED
  BY <1>3, <1>4, <1>5, <1>6, <1>7, <1>8, StepOfEither, Zenon

-----------------------------------------------------------------------------
(***************************************************************************)
(* The locks.  That nobody waits with a lock in hand needs no more than    *)
(* that a call of the resolver and one of the archives do not overlap.     *)
(***************************************************************************)
LEMMA LocksOfResolver ==
    ASSUME ResolverInv, NoHolderWaits, NEW t \in Tasks,
           (\E s \in Symbols : Resolve(t, s)) \/ TtStep(t)
    PROVE  /\ \A u \in Tasks \ {t} : res'[u] = res[u]
           /\ \A u \in Tasks : (mapLock = u <=> At(u, "list"))'
           /\ \A u \in Tasks : (searchLock = u <=> At(u, "pace") \/ At(u, "query"))'
<1>0. TtTyped /\ res[t] \in ResState /\ None \notin Tasks
  BY DEF ResolverInv, TtTyped
<1>1. \A u \in Tasks : /\ mapLock = u <=> res[u].pc = "list"
                       /\ searchLock = u <=> res[u].pc \in {"pace", "query"}
  BY DEF NoHolderWaits, At
<1>2. ASSUME NEW x \in ResState, res' = [res EXCEPT ![t] = x],
             \A u \in Tasks \ {t} : mapLock' = u <=> mapLock = u,
             \A u \in Tasks \ {t} : searchLock' = u <=> searchLock = u,
             mapLock' = t <=> x.pc = "list",
             searchLock' = t <=> x.pc \in {"pace", "query"}
      PROVE  /\ \A u \in Tasks \ {t} : res'[u] = res[u]
             /\ \A u \in Tasks : (mapLock = u <=> At(u, "list"))'
             /\ \A u \in Tasks : (searchLock = u <=> At(u, "pace") \/ At(u, "query"))'
  <2>1. res'[t] = x /\ \A u \in Tasks \ {t} : res'[u] = res[u]
    BY <1>0, <1>2, ResMoves
  <2>2. \A u \in Tasks : /\ mapLock' = u <=> res'[u].pc = "list"
                         /\ searchLock' = u <=> res'[u].pc \in {"pace", "query"}
    <3> SUFFICES ASSUME NEW u \in Tasks
                 PROVE  /\ mapLock' = u <=> res'[u].pc = "list"
                        /\ searchLock' = u <=> res'[u].pc \in {"pace", "query"}
      OBVIOUS
    <3>1. CASE u = t
      BY <1>2, <2>1, <3>1
    <3>2. CASE u # t
      BY <1>1, <1>2, <2>1, <3>2
    <3> QED BY <3>1, <3>2
  <2> QED BY <2>1, <2>2 DEF At
<1>3. ASSUME NEW s \in Symbols, Resolve(t, s)
      PROVE  \E x \in ResState : res' = [res EXCEPT ![t] = x] /\ x.pc \in {"idle", "search", "map"}
  <2>1. CASE s \in sids
    <3>1. res' = [res EXCEPT ![t] = NoCall]
      BY <1>0, <1>3, <2>1 DEF Resolve, TtTyped
    <3> QED BY <3>1, ResStates
  <2>2. CASE s \notin sids /\ MapFresh
    BY <1>3, <2>2, LookUpGoes DEF Resolve
  <2>3. CASE s \notin sids /\ ~MapFresh
    BY <1>3, <2>3, ResStates DEF Resolve, Goto
  <2> QED BY <2>1, <2>2, <2>3
<1>4. ASSUME NEW s \in Symbols, Resolve(t, s)
      PROVE  mapLock' = mapLock /\ searchLock' = searchLock /\ mapLock # t /\ searchLock # t
  BY <1>1, <1>4, ResStates DEF Resolve
<1>5. CASE LockMap(t)
  <2>1. res[t].sym \in Symbols /\ res[t].pc = "map" /\ mapLock = None /\ searchLock' = searchLock /\ searchLock # t
    BY <1>0, <1>1, <1>5, ResStates DEF LockMap, At
  <2>2. CASE MapFresh
    <3>1. mapLock' = mapLock /\ \E x \in ResState : res' = [res EXCEPT ![t] = x] /\ x.pc \in {"idle", "search"}
      BY <1>5, <2>1, <2>2, LookUpGoes DEF LockMap
    <3> QED BY <1>0, <1>2, <2>1, <3>1
  <2>3. CASE ~MapFresh
    <3>1. mapLock' = t /\ \E x \in ResState : res' = [res EXCEPT ![t] = x] /\ x.pc = "list"
      BY <1>5, <2>1, <2>3, ResStates DEF LockMap, Goto
    <3> QED BY <1>0, <1>2, <2>1, <3>1
  <2> QED BY <2>2, <2>3
<1>6. ASSUME NEW L, MapArrives(t, L)
      PROVE  /\ mapLock = t /\ mapLock' = None /\ searchLock' = searchLock /\ searchLock # t
             /\ \E x \in ResState : res' = [res EXCEPT ![t] = x] /\ x.pc \in {"idle", "search"}
  <2>1. res[t].sym \in Symbols /\ res[t].pc = "list"
    BY <1>0, <1>6, ResStates DEF MapArrives, At
  <2> QED BY <1>1, <1>6, <2>1, LookUpGoes DEF MapArrives
<1>7. CASE LockSearch(t)
  <2>1. res[t].sym \in Symbols /\ res[t].pc = "search" /\ searchLock = None /\ mapLock' = mapLock /\ mapLock # t
    BY <1>0, <1>1, <1>7, ResStates DEF LockSearch, At
  <2>2. CASE cooldown > 0
    <3>1. searchLock' = searchLock /\ \E x \in ResState : res' = [res EXCEPT ![t] = x] /\ x.pc = "idle"
      BY <1>7, <2>2, ResStates DEF LockSearch, Return
    <3> QED BY <1>0, <1>2, <2>1, <3>1
  <2>3. CASE ~(cooldown > 0)
    <3>1. searchLock' = t /\ \E x \in ResState : res' = [res EXCEPT ![t] = x] /\ x.pc \in {"pace", "query"}
      BY <1>7, <2>1, <2>3, ResStates DEF LockSearch, Goto
    <3> QED BY <1>0, <1>2, <2>1, <3>1
  <2> QED BY <2>2, <2>3
<1>8. CASE Paced(t)
  <2>1. /\ res[t].sym \in Symbols /\ res[t].pc = "pace" /\ mapLock' = mapLock /\ searchLock' = searchLock
        /\ mapLock # t /\ searchLock = t
    BY <1>0, <1>1, <1>8, ResStates DEF Paced, At
  <2>2. \E x \in ResState : res' = [res EXCEPT ![t] = x] /\ x.pc = "query"
    BY <1>8, <2>1, ResStates DEF Paced, Goto
  <2> QED BY <1>2, <2>1, <2>2
<1>9. ASSUME NEW reply \in Replies, SearchArrives(t, reply)
      PROVE  /\ searchLock = t /\ searchLock' = None /\ mapLock' = mapLock /\ mapLock # t
             /\ \E x \in ResState : res' = [res EXCEPT ![t] = x] /\ x.pc = "idle"
  BY <1>1, <1>9, ResStates DEF SearchArrives, Return, At
<1>10. CASE \E s \in Symbols : Resolve(t, s)
  BY <1>2, <1>3, <1>4, <1>10
<1>11. CASE \E L : MapArrives(t, L)
  BY <1>0, <1>2, <1>6, <1>11
<1>12. CASE \E reply \in Replies : SearchArrives(t, reply)
  BY <1>0, <1>2, <1>9, <1>12
<1> QED
  BY <1>5, <1>7, <1>8, <1>10, <1>11, <1>12 DEF TtStep

\* A step of a call of the archives moves this call only.
LEMMA OthersStay ==
    ASSUME LoaderInv, NEW t \in Tasks, (\E v \in Loaders : Ensure(t, v)) \/ ArStep(t)
    PROVE  \A u \in Tasks \ {t} : call'[u] = call[u]
<1>1. DOMAIN call = Tasks
  BY DEF LoaderInv, ArTyped
<1>2. \E x : call' = [call EXCEPT ![t] = x]
  BY DEF Ensure, ArStep, Locked, Downloaded, NotDownloaded, Walk
<1> QED BY <1>1, <1>2

LEMMA HoldersNext ==
    ASSUME RequestsInv, NoHolderWaits, [Next]_vars
    PROVE  NoHolderWaits'
<1>0. ResolverInv /\ LoaderInv
  BY DEF RequestsInv
<1>1. CASE UNCHANGED <<mapLock, searchLock, res, call>>
  BY <1>1 DEF NoHolderWaits, At
<1>2. ASSUME NEW t \in Tasks, (\E s \in Symbols : Resolve(t, s)) \/ TtStep(t),
             res[t] = NoCall => call[t] = Out, UNCHANGED arVars
      PROVE  NoHolderWaits'
  <2>1. /\ \A u \in Tasks \ {t} : res'[u] = res[u]
        /\ \A u \in Tasks : (mapLock = u <=> At(u, "list"))'
        /\ \A u \in Tasks : (searchLock = u <=> At(u, "pace") \/ At(u, "query"))'
    BY <1>0, <1>2, LocksOfResolver
  <2>2. call' = call
    BY <1>2 DEF arVars
  <2>3. \A u \in Tasks : res'[u] = NoCall \/ call'[u] = Out
    BY <1>2, <2>1, <2>2 DEF NoHolderWaits
  <2> QED BY <2>1, <2>3 DEF NoHolderWaits
<1>3. ASSUME NEW t \in Tasks, (\E v \in Loaders : Ensure(t, v)) \/ ArStep(t),
             call[t] = Out => res[t] = NoCall, UNCHANGED ttVars
      PROVE  NoHolderWaits'
  <2>1. UNCHANGED <<mapLock, searchLock, res>>
    BY <1>3 DEF ttVars
  <2>2. \A u \in Tasks \ {t} : call'[u] = call[u]
    BY <1>0, <1>3, OthersStay
  <2>3. \A u \in Tasks : res[u] = NoCall \/ call'[u] = Out
    BY <1>3, <2>2 DEF NoHolderWaits
  <2> QED BY <2>1, <2>3 DEF NoHolderWaits, At
<1>4. CASE Clock \/ UNCHANGED <<ttVars, arVars>> \/ UNCHANGED vars
  BY <1>1, <1>4 DEF Clock, vars, ttVars, arVars
<1>5. ASSUME NEW t \in Tasks, Cancel(t) PROVE NoHolderWaits'
  <2>1. /\ res'[t] = NoCall /\ \A u \in Tasks \ {t} : res'[u] = res[u]
        /\ call'[t] = Out /\ \A u \in Tasks \ {t} : call'[u] = call[u]
    BY <1>0, <1>5 DEF Cancel, TtCancel, Return, ArCancel, ResolverInv, LoaderInv, TtTyped, ArTyped
  <2>2. /\ \A u \in Tasks \ {t} : (mapLock' = u <=> mapLock = u) /\ (searchLock' = u <=> searchLock = u)
        /\ mapLock' # t /\ searchLock' # t
    BY <1>5 DEF Cancel, TtCancel
  <2> QED BY <2>1, <2>2, ResStates DEF NoHolderWaits, At
<1> QED
  BY <1>2, <1>3, <1>4, <1>5, StepOfEither, Zenon

(***************************************************************************)
(* The service.  Its lock is taken before any other: a request that wants  *)
(* it is in no call but, when it holds the lock, the load of the NSE file. *)
(***************************************************************************)
Wishes == Loaders \cup {None, "isin", "details", Ready}

ServiceInv ==
    /\ service \in Tasks \cup {None, Ready}
    /\ further \in [Tasks -> Wishes]
    /\ ServiceFirst

\* A step of t's request leaves the others where they are.
LEMMA ServiceFrame ==
    ASSUME ServiceInv, NEW t \in Tasks, NEW x \in Wishes, further' = [further EXCEPT ![t] = x],
           \A u \in Tasks \ {t} : res'[u] = res[u] /\ call'[u] = call[u],
           \/ service' = service
           \/ service = None /\ service' = t
           \/ service = t /\ service' \in {None, Ready},
           x = Ready => res'[t] = NoCall /\ (call'[t] = Out \/ service' = t),
           service' = t => x = Ready
    PROVE  ServiceInv'
<1>1. further' \in [Tasks -> Wishes] /\ further'[t] = x /\ \A u \in Tasks \ {t} : further'[u] = further[u]
  BY DEF ServiceInv
<1>2. service' \in Tasks \cup {None, Ready} /\ \A u \in Tasks \ {t} : service' = u <=> service = u
  BY DEF ServiceInv
<1>3. ServiceFirst'
  <2> SUFFICES ASSUME NEW u \in Tasks
               PROVE  /\ further'[u] = Ready => res'[u] = NoCall /\ (call'[u] = Out \/ service' = u)
                      /\ service' = u => further'[u] = Ready
    BY DEF ServiceFirst
  <2>1. CASE u = t
    BY <1>1, <2>1
  <2>2. CASE u # t
    BY <1>1, <1>2, <2>2 DEF ServiceInv, ServiceFirst
  <2> QED BY <2>1, <2>2
<1> QED BY <1>1, <1>2, <1>3 DEF ServiceInv

LEMMA ServiceNext ==
    ASSUME RequestsInv, NoHolderWaits, ServiceInv, [Next]_vars
    PROVE  ServiceInv'
<1>0. /\ ResolverInv /\ LoaderInv /\ ServiceFirst
      /\ NSE \in Loaders /\ BSE \in Loaders /\ Callers = Tasks
      /\ DOMAIN res = Tasks /\ DOMAIN call = Tasks
  BY DEF RequestsInv, ServiceInv, BSE, ResolverInv, LoaderInv, TtTyped, ArTyped
<1>1. \A w \in Wishes : w = Ready <=> w \notin Loaders \cup {None, "isin", "details"}
  BY DEF Wishes
<1>2. ASSUME NEW t \in Tasks, (\E s \in Symbols : Resolve(t, s)) \/ TtStep(t)
      PROVE  \A u \in Tasks \ {t} : res'[u] = res[u]
  BY <1>0, <1>2, LocksOfResolver
<1>3. ASSUME NEW t \in Tasks, (\E v \in Loaders : Ensure(t, v)) \/ ArStep(t)
      PROVE  \A u \in Tasks \ {t} : call'[u] = call[u]
  BY <1>0, <1>3, OthersStay
<1>4. ASSUME NEW t \in Tasks, NEW v \in Loaders, SourceDetails(t, v)
      PROVE  \A u \in Tasks \ {t} : call'[u] = call[u]
  BY <1>0, <1>3, <1>4 DEF SourceDetails, NseDetails, BseDetails, arVars
<1>5. ASSUME NEW t \in Tasks, NEW s \in Symbols, Begin(t, s) PROVE ServiceInv'
  <2>1. /\ further' = [further EXCEPT ![t] = "isin"] /\ further[t] = None
        /\ call' = call /\ service' = service
    BY <1>5 DEF Begin, MayAsk, Idle, arVars
  <2>2. service' # t /\ "isin" \in Wishes /\ "isin" # Ready
    BY <1>0, <1>1, <2>1 DEF ServiceFirst, Wishes
  <2>3. \A u \in Tasks \ {t} : res'[u] = res[u]
    BY <1>2, <1>5 DEF Begin
  <2> QED BY <2>1, <2>2, <2>3, ServiceFrame
<1>6. ASSUME NEW t \in Tasks, NeedService(t) \/ ServiceBuilt(t) PROVE ServiceInv'
  <2>1. UNCHANGED <<res, call>>
    BY <1>6 DEF NeedService, ServiceBuilt, ttVars, arVars
  <2>2. CASE NeedService(t)
    <3>1. /\ further' = [further EXCEPT ![t] = Ready] /\ res[t] = NoCall /\ call[t] = Out
          /\ service' = service
      BY <2>2 DEF NeedService, MayAsk, Idle, Asks, Waiting
    <3> QED BY <2>1, <3>1, ServiceFrame DEF Wishes
  <2>3. CASE ServiceBuilt(t)
    <3>1. /\ service = t /\ service' = Ready /\ further' = further /\ call[t] = Out
          /\ further[t] = Ready /\ res[t] = NoCall
      BY <1>0, <2>3 DEF ServiceBuilt, ServiceFirst
    <3>2. further' = [further EXCEPT ![t] = Ready]
      BY <3>1 DEF ServiceInv
    <3> QED BY <2>1, <3>1, <3>2, ServiceFrame DEF Wishes
  <2> QED BY <1>6, <2>2, <2>3
<1>7. ASSUME NEW t \in Tasks, BuildService(t) PROVE ServiceInv'
  <2>1. /\ service = None /\ service' = t /\ further' = further /\ further[t] = Ready
        /\ Ensure(t, NSE) /\ res' = res /\ res[t] = NoCall
    BY <1>7 DEF BuildService, Asks, Waiting, ttVars
  <2>2. further' = [further EXCEPT ![t] = Ready]
    BY <2>1 DEF ServiceInv
  <2> QED BY <1>0, <1>3, <2>1, <2>2, ServiceFrame DEF Wishes
<1>8. ASSUME NEW t \in Tasks, NseQuote(t) \/ BseQuote(t) \/ ResolveCode(t) PROVE ServiceInv'
  <2>1. PICK v \in Loaders : Load(t, v)
    BY <1>0, <1>8 DEF NseQuote, BseQuote, ResolveCode
  <2>2. /\ service' = service /\ service = Ready /\ res' = res /\ Ensure(t, v)
        /\ further' = [further EXCEPT ![t] = None]
    BY <2>1 DEF Load, Served, MayAsk, ttVars
  <2> QED BY <1>3, <2>2, ServiceFrame DEF Wishes
<1>9. ASSUME NEW t \in Tasks, NEW connected \in BOOLEAN, Universe(t, connected) PROVE ServiceInv'
  <2>1. /\ service' = service /\ service = Ready /\ res' = res /\ \E v \in Loaders : Ensure(t, v)
        /\ \E x \in {None, BSE} : further' = [further EXCEPT ![t] = x]
    BY <1>0, <1>9 DEF Universe, Served, Snapshot, MayAsk, ttVars
  <2> QED BY <1>0, <1>3, <2>1, ServiceFrame DEF Wishes
<1>10. ASSUME NEW t \in Tasks, AskIsin(t) PROVE ServiceInv'
  <2>1. /\ service' = service /\ further[t] = "isin" /\ res' = res /\ Ensure(t, BSE)
        /\ further' = [further EXCEPT ![t] = "details"]
    BY <1>10 DEF AskIsin, Asks, MayAsk, ttVars
  <2>2. service # t /\ "details" \in Wishes /\ "details" # Ready
    BY <1>0, <2>1 DEF ServiceFirst, Wishes
  <2> QED BY <1>0, <1>3, <2>1, <2>2, ServiceFrame
<1>11. ASSUME NEW t \in Tasks, NEW v \in Loaders, Details(t, v) PROVE ServiceInv'
  <2>1. /\ service' = service /\ service = Ready /\ res' = res /\ SourceDetails(t, v)
        /\ \E x \in {NSE, BSE} : further' = [further EXCEPT ![t] = x]
    BY <1>11 DEF Details, Served, MayAsk, ttVars
  <2> QED BY <1>0, <1>4, <2>1, ServiceFrame DEF Wishes
<1>12. ASSUME NEW t \in Tasks, NEW v \in Loaders, SecondSource(t, v) PROVE ServiceInv'
  <2>1. /\ service' = service /\ further[t] = v /\ res' = res /\ SourceDetails(t, v)
        /\ further' = [further EXCEPT ![t] = None]
    BY <1>12 DEF SecondSource, Asks, MayAsk, ttVars
  <2>2. service # t
    BY <1>0, <2>1 DEF ServiceFirst
  <2> QED BY <1>4, <2>1, <2>2, ServiceFrame DEF Wishes
<1>13. ASSUME NEW t \in Tasks, Done(t) PROVE ServiceInv'
  <2>1. /\ service' = service /\ res' = res /\ call' = call
        /\ further' = [further EXCEPT ![t] = None] /\ (further[t] = Ready => service = Ready)
    BY <1>13 DEF Done, MayAsk, ttVars, arVars
  <2>2. service # t
    BY <1>0, <2>1 DEF ServiceFirst
  <2> QED BY <2>1, <2>2, ServiceFrame DEF Wishes
<1>14. ASSUME NEW t \in Tasks, Cancel(t) PROVE ServiceInv'
  <2>1. /\ service' # t /\ (service' = service \/ (service = t /\ service' = None))
        /\ further' = [further EXCEPT ![t] = None]
    BY <1>14 DEF Cancel, MayAsk
  <2>2. \A u \in Tasks \ {t} : res'[u] = res[u] /\ call'[u] = call[u]
    BY <1>0, <1>14 DEF Cancel, TtCancel, Return, ArCancel, ResolverInv, LoaderInv, TtTyped, ArTyped
  <2> QED BY <2>1, <2>2, ServiceFrame DEF Wishes
<1>15. ASSUME NEW t \in Tasks, TtStep(t), UNCHANGED <<arVars, further, service>> PROVE ServiceInv'
  <2>1. res[t].pc # "idle"
    BY <1>15 DEF TtStep, LockMap, MapArrives, LockSearch, Paced, SearchArrives, At
  <2>2. further[t] # Ready /\ service # t
    BY <1>0, <2>1, ResStates DEF ServiceFirst
  <2>3. further' = [further EXCEPT ![t] = further[t]] /\ further[t] \in Wishes
    BY <1>15 DEF ServiceInv
  <2>4. call' = call /\ service' = service
    BY <1>15 DEF arVars
  <2> QED BY <1>2, <1>15, <2>2, <2>3, <2>4, ServiceFrame
<1>16. ASSUME NEW t \in Tasks, ArStep(t), UNCHANGED <<ttVars, further, service>> PROVE ServiceInv'
  <2>1. call[t] # Out /\ res' = res /\ service' = service
    BY <1>16, CallStates DEF ArStep, Locked, Downloaded, NotDownloaded, ttVars
  <2>2. (further[t] = Ready => res[t] = NoCall /\ service = t) /\ (service = t => further[t] = Ready)
    BY <1>0, <2>1 DEF ServiceFirst
  <2>3. further' = [further EXCEPT ![t] = further[t]] /\ further[t] \in Wishes
    BY <1>16 DEF ServiceInv
  <2> QED BY <1>3, <1>16, <2>1, <2>2, <2>3, ServiceFrame
<1>17. CASE Clock \/ UNCHANGED vars
  <2>1. UNCHANGED <<res, call, further, service>>
    BY <1>17 DEF Clock, vars, ttVars, arVars
  <2> QED BY <2>1 DEF ServiceInv, ServiceFirst
<1>18. ASSUME NEW t \in Tasks, Step(t) PROVE ServiceInv'
  BY <1>6, <1>7, <1>10, <1>12, <1>13, <1>15, <1>16, <1>18, Zenon DEF Step
<1> QED
  BY <1>5, <1>6, <1>8, <1>9, <1>11, <1>14, <1>17, <1>18, Zenon DEF Next

(***************************************************************************)
(* For any number of concurrent requests, also when they are cancelled:    *)
(* /search is asked by one call at a time, never within the gap or the     *)
(* cooldown of another that ended (tickertape.py, _search), a loader walks *)
(* for one call at a time (nse_archive.py and bse_master.py,               *)
(* ensure_loaded), and locks are taken in one order: the service's         *)
(* (market_data.py, _controller) and then one of the others.               *)
(***************************************************************************)
THEOREM MetadataSafe == Spec => []MetadataInv
<1>1. RequestsInv /\ NoHolderWaits /\ ServiceInv => MetadataInv
  <2> SUFFICES ASSUME RequestsInv, NoHolderWaits, ServiceInv PROVE MetadataInv
    OBVIOUS
  <2>1. SearchesSpared
    BY DEF RequestsInv, ResolverInv, OneSearcher, NoGapInQuery, SearchesSpared
  <2>2. TypeOK
    BY DEF RequestsInv, ResolverInv, LoaderInv, TtTyped, ArTyped, ServiceInv, TypeOK
  <2> QED
    BY <2>1, <2>2 DEF RequestsInv, LoaderInv, ServiceInv, MetadataInv
<1>2. Init => NoHolderWaits
  BY ResStates DEF Init, TtInit, ArInit, NoHolderWaits, At
<1>3. RequestsInv /\ NoHolderWaits /\ [Next]_vars => NoHolderWaits'
  BY HoldersNext
<1>4. Init => ServiceInv
  BY DEF Init, TtInit, ArInit, ServiceInv, ServiceFirst, Wishes
<1>5. RequestsInv /\ NoHolderWaits /\ ServiceInv /\ [Next]_vars => ServiceInv'
  BY ServiceNext
<1> QED
  BY <1>1, <1>2, <1>3, <1>4, <1>5, RequestsInit, RequestsNext, PTL DEF Spec

\* Only a download puts a file in place, and of NSE a later one than the one it has; one
\* is dropped only with providers that nobody has yet.
LEMMA NseGoesForward ==
    ASSUME RequestsInv, [Next]_vars
    PROVE  [service = Ready /\ loaded[NSE] # NoFile =>
               loaded'[NSE] # NoFile /\ loaded'[NSE] >= loaded[NSE]]_loaded
<1> SUFFICES ASSUME loaded' # loaded, service = Ready, loaded[NSE] # NoFile
             PROVE  loaded'[NSE] # NoFile /\ loaded'[NSE] >= loaded[NSE]
  OBVIOUS
<1>1. \E c \in Callers : Downloaded(c)
  <2>1. \A c \in Callers : ArStep(c) => Downloaded(c)
    BY DEF ArStep, Locked, NotDownloaded
  <2>2. ~Clock /\ ~UNCHANGED arVars /\ ~UNCHANGED vars
    BY DEF Clock, arVars, vars
  <2>3. \A c \in Callers, v \in Loaders : ~Ensure(c, v)
    BY DEF Ensure
  <2>4. \A c \in Tasks : ~Cancel(c)
    BY DEF Cancel
  <2> QED
    BY <2>1, <2>2, <2>3, <2>4, StepOfEither
<1>2. PICK c \in Callers : Downloaded(c)
  BY <1>1
<1>3. /\ call[c] \in CallState /\ call[c].pc = "get" /\ call[c].day >= 0
      /\ loaded' = [loaded EXCEPT ![call[c].at] = call[c].day]
      /\ loaded \in [Loaders -> (0 .. MaxDay) \cup {NoFile}] /\ RequestsInv'
  BY <1>2, RequestsNext DEF RequestsInv, LoaderInv, ArTyped, Downloaded
<1>4. loaded'[NSE] = IF call[c].at = NSE THEN call[c].day ELSE loaded[NSE]
  BY <1>3
<1>5. loaded[NSE] \in 0 .. MaxDay
  BY <1>3
<1>6. CASE call[c].at = NSE
  <2>1. call[c].day > loaded[NSE] /\ call[c].day \in 0 .. MaxDay
    <3>1. call[c].day > loaded[NSE] /\ call[c].day + call[c].back <= day
      BY <1>3, <1>6 DEF RequestsInv, LoaderInv, NseWalkAhead, WalkBehindClock
    <3>2. call[c].day \in Int /\ call[c].back \in Nat /\ day \in 0 .. MaxDay
      BY <1>3, CallStates DEF RequestsInv, LoaderInv, ArTyped
    <3> QED
      BY <1>3, <3>1, <3>2
  <2> QED
    BY <1>4, <1>5, <1>6, <2>1
<1>7. CASE call[c].at # NSE
  BY <1>4, <1>5, <1>7
<1> QED
  BY <1>6, <1>7

(***************************************************************************)
(* The NSE archive that is served never replaces its file by an older one, *)
(* whatever downloads fail and also when midnight passes during a walk     *)
(* (nse_archive.py, _ensure_loaded): a walk that would reach the date of   *)
(* the file it has stops there.                                            *)
(***************************************************************************)
THEOREM NsePricesNeverGoBack == Spec => NseNeverGoesBack
<1>1. RequestsInv /\ [Next]_vars =>
          [service = Ready /\ loaded[NSE] # NoFile =>
              loaded'[NSE] # NoFile /\ loaded'[NSE] >= loaded[NSE]]_loaded
  BY NseGoesForward
<1> QED
  BY <1>1, RequestsInit, RequestsNext, PTL DEF Spec, NseNeverGoesBack
=============================================================================
