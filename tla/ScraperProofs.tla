---------------------------- MODULE ScraperProofs ----------------------------
(***************************************************************************)
(* Proofs about the sessions of NSEScraper and NSEPublic, for every proxy  *)
(* list and every number of concurrent calls; and, below, about the ticker *)
(* cache that the scraped quotes go into, for every number of requests and *)
(* of WebSocket clients and all times to live.                             *)
(***************************************************************************)
EXTENDS Scraper, TickerCache, FiniteSetTheorems, TLAPS

USE ScraperAssumption

(***************************************************************************)
(* The states of a call.                                                   *)
(***************************************************************************)
Thens == {"get0", "connect", "get1", "get2", "reconnect", "get3"}

TaskState ==
         [pc : {"idle", "close"}]
    \cup [pc : {"lock"}, then : Thens]
    \cup [pc : {"home"}, then : Thens, live : BOOLEAN]
    \cup [pc : {"get"}, n : 0 .. 3, live : BOOLEAN]

PublicState ==
         [pc : {"idle"}]
    \cup [pc : {"warm", "close"}, left : Nat]
    \cup [pc : {"get"}, left : Nat, live : BOOLEAN]

\* The proxy of a session: one of the list, or none.
Routes == Proxies \cup {None}

(***************************************************************************)
(* The inductive invariant.  QuietIsUsable is not inductive: `connected`   *)
(* may be set by a call that is long on its way, so what has to be kept is *)
(* that a session exists once any call has begun (SessionKept), and that a *)
(* closed one has a call in "close" that will replace it, or had one that  *)
(* was cancelled.  RefreshOnce needs the states of the calls to be typed.  *)
(***************************************************************************)
ScraperTyped ==
    /\ session \in Session \cup {None}
    /\ proxy \in Proxies \cup {None}
    /\ connected \in BOOLEAN /\ fresh \in BOOLEAN /\ abandoned \in BOOLEAN
    /\ lock \in Tasks \cup {None}
    /\ task \in [Tasks -> TaskState]

SessionKept ==
    /\ connected => session # None
    /\ \A t \in Tasks : task[t].pc # "idle" => session # None

ClosedIsReplaced ==
    session # None /\ (\A t \in Tasks : task[t].pc # "close") => session.open \/ abandoned

ScraperSide ==
    /\ ScraperTyped
    /\ session # None => session.via = proxy
    /\ RefreshOnce
    /\ SessionKept
    /\ ClosedIsReplaced

PublicSide ==
    /\ public \in [session : Session \cup {None}, proxy : Proxies \cup {None}]
    /\ ptask \in [PublicTasks -> PublicState]
    /\ public.session # None => public.session.via = public.proxy
    /\ \A t \in PublicTasks : ptask[t].pc # "idle" => public.session # None

SessionInv == parked \subseteq Proxies /\ ScraperSide /\ PublicSide

-----------------------------------------------------------------------------
\* current() gives a proxy of the list, also if all are parked, or none if it is empty.
LEMMA AliveIsListed == ASSUME NEW dead PROVE Alive(dead) \in SUBSET Routes
BY DEF Alive, Routes

\* rotate() parks proxies of the list only.
LEMMA ParkedIsListed ==
    ASSUME parked \subseteq Proxies, NEW bad \in Proxies \cup {None}
    PROVE  Parked(bad) \subseteq Proxies
BY DEF Parked

\* What the state of a call has, and where a call may go.
LEMMA TaskStates ==
    /\ Idle \in TaskState /\ Idle.pc = "idle"
    /\ [pc |-> "close"] \in TaskState
    /\ \A h \in Thens : ToRefresh(h) \in TaskState /\ ToRefresh(h).pc = "lock"
    /\ \A n \in 0 .. 3, s \in Session : Get(n, s) \in TaskState /\ Get(n, s).pc = "get"
    /\ \A h \in Thens, v \in BOOLEAN : [pc |-> "home", then |-> h, live |-> v] \in TaskState
    /\ \A x \in TaskState :
          /\ x.pc \in {"idle", "lock", "home", "get", "close"}
          /\ x.pc \in {"lock", "home"} => x.then \in Thens
          /\ x.pc = "get" => x.n \in 0 .. 3
<1>1. /\ Idle \in TaskState /\ Idle.pc = "idle"
      /\ [pc |-> "close"] \in TaskState
  BY DEF TaskState, Idle
<1>2. \A h \in Thens : ToRefresh(h) \in TaskState /\ ToRefresh(h).pc = "lock"
  BY DEF TaskState, ToRefresh
<1>3. \A n \in 0 .. 3, s \in Session : Get(n, s) \in TaskState /\ Get(n, s).pc = "get"
  BY DEF TaskState, Get, Session
<1>4. \A h \in Thens, v \in BOOLEAN : [pc |-> "home", then |-> h, live |-> v] \in TaskState
  BY DEF TaskState
<1>5. \A x \in TaskState :
          /\ x.pc \in {"idle", "lock", "home", "get", "close"}
          /\ x.pc \in {"lock", "home"} => x.then \in Thens
          /\ x.pc = "get" => x.n \in 0 .. 3
  BY DEF TaskState
<1> QED
  BY <1>1, <1>2, <1>3, <1>4, <1>5

\* The states of a call of NSEPublic.
LEMMA PublicStates ==
    /\ Idle \in PublicState
    /\ \A k \in Nat, c \in {"warm", "close"} : [pc |-> c, left |-> k] \in PublicState
    /\ \A k \in Nat, v \in BOOLEAN : [pc |-> "get", left |-> k, live |-> v] \in PublicState
    /\ \A x \in PublicState :
          /\ x.pc \in {"idle", "warm", "get", "close"}
          /\ x.pc # "idle" => x.left \in Nat
<1>1. Idle \in PublicState
  BY DEF PublicState, Idle
<1>2. \A k \in Nat, c \in {"warm", "close"} : [pc |-> c, left |-> k] \in PublicState
  BY DEF PublicState
<1>3. \A k \in Nat, v \in BOOLEAN : [pc |-> "get", left |-> k, live |-> v] \in PublicState
  BY DEF PublicState
<1>4. \A x \in PublicState :
          /\ x.pc \in {"idle", "warm", "get", "close"}
          /\ x.pc # "idle" => x.left \in Nat
  BY DEF PublicState
<1> QED
  BY <1>1, <1>2, <1>3, <1>4

\* A call of the scraper goes to x: the others stay where they are.
LEMMA TaskMoves ==
    ASSUME ScraperTyped, NEW t \in Tasks, NEW x \in TaskState, task' = [task EXCEPT ![t] = x]
    PROVE  /\ task' \in [Tasks -> TaskState]
           /\ task'[t] = x
           /\ \A u \in Tasks \ {t} : task'[u] = task[u]
BY DEF ScraperTyped

\* _refresh_cookies() is over: the call is at its GET, or at the door again.
LEMMA ReturnedGoes ==
    ASSUME ScraperSide, NEW t \in Tasks, NEW f \in BOOLEAN, task[t].pc \in {"lock", "home"}, Returned(t, f)
    PROVE  \E x \in TaskState : task' = [task EXCEPT ![t] = x] /\ x.pc \in {"get", "lock"}
<1>1. task[t].then \in Thens /\ session \in Session
  BY TaskStates DEF ScraperSide, ScraperTyped, SessionKept
<1> DEFINE x == CASE task[t].then = "get0" -> Get(0, session)
                  [] task[t].then = "connect" -> IF f THEN Get(1, session) ELSE ToRefresh("get1")
                  [] task[t].then = "get1" -> Get(1, session)
                  [] task[t].then = "get2" -> Get(2, session)
                  [] task[t].then = "reconnect" -> IF f THEN Get(3, session) ELSE ToRefresh("get3")
                  [] task[t].then = "get3" -> Get(3, session)
<1>2. task' = [task EXCEPT ![t] = x]
  BY DEF Returned, Set
<1>3. x \in {Get(0, session), Get(1, session), Get(2, session), Get(3, session),
             ToRefresh("get1"), ToRefresh("get3")}
  BY <1>1 DEF Thens
<1> HIDE DEF x
<1>4. x \in TaskState /\ x.pc \in {"get", "lock"}
  BY <1>1, <1>3, TaskStates DEF Thens
<1> QED
  BY <1>2, <1>4

-----------------------------------------------------------------------------
(***************************************************************************)
(* A call moves and the session stays: what is left to show is the lock,   *)
(* the cookies and that no closed session loses its call in "close".       *)
(***************************************************************************)
LEMMA CallMoves ==
    ASSUME ScraperSide, NEW t \in Tasks, NEW x \in TaskState, task' = [task EXCEPT ![t] = x],
           UNCHANGED <<session, proxy>>, session # None, abandoned' \in BOOLEAN,
           IF task[t].pc = "close" THEN abandoned' = (abandoned \/ ~session.open)
                                   ELSE UNCHANGED abandoned,
           connected' \in BOOLEAN, fresh' \in BOOLEAN, lock' \in Tasks \cup {None}, RefreshOnce'
    PROVE  ScraperSide'
<1>1. /\ task' \in [Tasks -> TaskState]
      /\ task'[t] = x
      /\ \A u \in Tasks \ {t} : task'[u] = task[u]
  BY TaskMoves DEF ScraperSide
<1>2. ScraperTyped'
  BY <1>1 DEF ScraperSide, ScraperTyped
<1>3. SessionKept'
  BY DEF ScraperSide, SessionKept
<1>4. ClosedIsReplaced'
  <2>1. CASE task[t].pc = "close"
    BY <1>1, <2>1 DEF ClosedIsReplaced
  <2>2. CASE task[t].pc # "close"
    BY <1>1, <2>2 DEF ScraperSide, ClosedIsReplaced
  <2> QED
    BY <2>1, <2>2
<1> QED
  BY <1>2, <1>3, <1>4 DEF ScraperSide

\* connect() builds a session through the proxy it records, and the call goes on.
LEMMA Builds ==
    ASSUME ScraperSide, NEW t \in Tasks, NEW then \in Thens, Build(t, parked, then),
           task[t].pc \in {"idle", "close"}, UNCHANGED lock, connected' \in BOOLEAN,
           fresh' = fresh \/ fresh' = FALSE
    PROVE  ScraperSide'
<1>1. PICK p \in Routes : proxy' = p /\ session' = [via |-> p, open |-> TRUE] /\ abandoned' = FALSE
  BY AliveIsListed DEF Build
<1>2a. session' \in Session /\ session'.via = proxy' /\ session'.open
  BY <1>1 DEF Session, Routes
<1>2. session' \in Session /\ session' # None /\ session'.via = proxy' /\ session'.open
  BY <1>2a
<1>3. /\ task' \in [Tasks -> TaskState]
      /\ task'[t].pc = "lock"
      /\ \A u \in Tasks \ {t} : task'[u] = task[u]
  <2>1. ToRefresh(then) \in TaskState /\ ToRefresh(then).pc = "lock"
    BY TaskStates
  <2>2. task' = [task EXCEPT ![t] = ToRefresh(then)]
    BY DEF Build, Set
  <2> QED
    BY <2>1, <2>2, TaskMoves DEF ScraperSide
<1>4. ScraperTyped'
  BY <1>1, <1>2, <1>3 DEF ScraperSide, ScraperTyped, Routes
<1>5. RefreshOnce'
  BY <1>3 DEF ScraperSide, ScraperTyped, RefreshOnce
<1> QED
  BY <1>2, <1>4, <1>5 DEF ScraperSide, SessionKept, ClosedIsReplaced

\* Every step of the scraper's calls preserves its side of the invariant.
LEMMA ScraperSideNext ==
    ASSUME ScraperSide, parked \subseteq Proxies, NEW t \in Tasks,
           Fetch(t) \/ HealthCheck(t) \/ Step(t) \/ Cancel(t)
    PROVE  ScraperSide' /\ parked' \subseteq Proxies
<1>0. ScraperTyped /\ RefreshOnce /\ SessionKept
  BY DEF ScraperSide
<1>1. CASE Fetch(t)
  <2>1. CASE connected
    <3>1. session \in Session /\ session # None
      BY <1>0, <2>1 DEF ScraperTyped, SessionKept
    <3>2. PICK x \in TaskState : task' = [task EXCEPT ![t] = x] /\ x.pc \in {"get", "lock"}
      BY <1>1, <2>1, <3>1, TaskStates DEF Fetch, Set, Thens
    <3>3. /\ UNCHANGED <<session, proxy, connected, fresh, lock, parked, abandoned>>
          /\ task[t].pc = "idle"
      BY <1>1, <2>1 DEF Fetch, Idle
    <3>4. RefreshOnce'
      BY <1>0, <3>2, <3>3, TaskMoves DEF ScraperTyped, RefreshOnce
    <3> QED
      BY <1>0, <3>1, <3>2, <3>3, <3>4, CallMoves DEF ScraperTyped
  <2>2. CASE ~connected
    <3>1. /\ Build(t, parked, "connect") /\ UNCHANGED <<parked, connected, fresh, lock>>
          /\ task[t].pc = "idle"
      BY <1>1, <2>2 DEF Fetch, Idle
    <3>2. "connect" \in Thens /\ connected' \in BOOLEAN
      BY <1>0, <3>1 DEF Thens, ScraperTyped
    <3> QED
      BY <3>1, <3>2, Builds
  <2> QED
    BY <2>1, <2>2
<1>2. CASE HealthCheck(t)
  <2>1. session \in Session /\ session # None
    BY <1>0, <1>2 DEF HealthCheck, ScraperTyped, SessionKept
  <2>1a. /\ Get(0, session) \in TaskState /\ Get(0, session).pc = "get"
         /\ ToRefresh("get0") \in TaskState /\ ToRefresh("get0").pc = "lock"
    BY <2>1, TaskStates DEF Thens
  <2>1b. \/ task' = [task EXCEPT ![t] = Get(0, session)]
         \/ task' = [task EXCEPT ![t] = ToRefresh("get0")]
    BY <1>2 DEF HealthCheck, Set
  <2>2. PICK x \in TaskState : task' = [task EXCEPT ![t] = x] /\ x.pc \in {"get", "lock"}
    BY <2>1a, <2>1b
  <2>3. /\ UNCHANGED <<session, proxy, connected, fresh, lock, parked, abandoned>>
        /\ task[t].pc = "idle"
    BY <1>2 DEF HealthCheck, Idle
  <2>4. RefreshOnce'
    BY <1>0, <2>2, <2>3, TaskMoves DEF ScraperTyped, RefreshOnce
  <2> QED
    BY <1>0, <2>1, <2>2, <2>3, <2>4, CallMoves DEF ScraperTyped
<1>3. CASE Refresh(t)
  <2>0. /\ task[t].pc = "lock" /\ lock = None /\ UNCHANGED <<parked, session, proxy, fresh, abandoned>>
        /\ session \in Session /\ session # None
    BY <1>0, <1>3 DEF Refresh, ScraperTyped, SessionKept
  <2>1. CASE fresh
    <3>1. Returned(t, TRUE) /\ UNCHANGED lock
      BY <1>3, <2>1 DEF Refresh
    <3>2. PICK x \in TaskState : task' = [task EXCEPT ![t] = x] /\ x.pc \in {"get", "lock"}
      BY <2>0, <3>1, ReturnedGoes
    <3>3. RefreshOnce'
      BY <1>0, <2>0, <3>1, <3>2, TaskMoves DEF ScraperTyped, RefreshOnce
    <3>4. connected' \in BOOLEAN
      BY <3>1 DEF Returned
    <3> QED
      BY <1>0, <2>0, <3>1, <3>2, <3>3, <3>4, CallMoves DEF ScraperTyped
  <2>2. CASE ~fresh
    <3> DEFINE x == [pc |-> "home", then |-> task[t].then, live |-> session.open]
    <3>1. x \in TaskState /\ x.pc = "home"
      BY <1>0, <2>0, TaskStates DEF ScraperTyped, Session
    <3>2. lock' = t /\ task' = [task EXCEPT ![t] = x] /\ UNCHANGED connected
      BY <1>3, <2>2 DEF Refresh, Set
    <3> HIDE DEF x
    <3>3. RefreshOnce'
      BY <1>0, <2>0, <2>2, <3>1, <3>2, TaskMoves DEF ScraperTyped, RefreshOnce
    <3> QED
      BY <1>0, <2>0, <3>1, <3>2, <3>3, CallMoves DEF ScraperTyped
  <2> QED
    BY <2>1, <2>2
<1>4. ASSUME task[t].pc = "home", lock' = None, fresh' \in BOOLEAN, connected' \in BOOLEAN,
             NEW x \in TaskState, task' = [task EXCEPT ![t] = x], x.pc \in {"get", "lock", "idle"},
             UNCHANGED <<parked, session, proxy, abandoned>>
      PROVE  ScraperSide' /\ parked' \subseteq Proxies
  <2>1. session # None /\ lock = t
    BY <1>0, <1>4 DEF SessionKept, RefreshOnce
  <2>2. RefreshOnce'
    BY <1>0, <1>4, <2>1, TaskMoves DEF ScraperTyped, RefreshOnce
  <2> QED
    BY <1>0, <1>4, <2>1, <2>2, CallMoves DEF ScraperTyped
<1>5. ASSUME NEW ok \in BOOLEAN, Home(t, ok) PROVE ScraperSide' /\ parked' \subseteq Proxies
  <2>1. PICK x \in TaskState : task' = [task EXCEPT ![t] = x] /\ x.pc \in {"get", "lock"}
    BY <1>5, ReturnedGoes DEF Home
  <2>2. connected' \in BOOLEAN
    BY <1>5 DEF Home, Returned
  <2> QED
    BY <1>4, <1>5, <2>1, <2>2 DEF Home
<1>6. CASE HomeRaises(t)
  BY <1>0, <1>4, <1>6, TaskStates DEF HomeRaises, End, ScraperTyped
<1>7. ASSUME NEW how \in Hows, Answered(t, how) PROVE ScraperSide' /\ parked' \subseteq Proxies
  <2>0. /\ task[t].pc = "get" /\ UNCHANGED <<proxy, connected, fresh, lock, abandoned>>
        /\ session \in Session /\ session # None
    BY <1>0, <1>7 DEF Answered, ScraperTyped, SessionKept
  <2>1. ASSUME NEW x \in TaskState, task' = [task EXCEPT ![t] = x], x.pc # "home",
               UNCHANGED <<session, parked>>
        PROVE  ScraperSide' /\ parked' \subseteq Proxies
    <3>1. RefreshOnce'
      BY <1>0, <2>0, <2>1, TaskMoves DEF ScraperTyped, RefreshOnce
    <3> QED
      BY <1>0, <2>0, <2>1, <3>1, CallMoves DEF ScraperTyped
  <2>2. ASSUME parked' = Parked(proxy), session' = [session EXCEPT !.open = FALSE],
               task' = [task EXCEPT ![t] = [pc |-> "close"]]
        PROVE  ScraperSide' /\ parked' \subseteq Proxies
    <3>1. /\ task' \in [Tasks -> TaskState]
          /\ task'[t].pc = "close"
          /\ \A u \in Tasks \ {t} : task'[u] = task[u]
      BY <1>0, <2>2, TaskStates, TaskMoves
    <3>2. session' \in Session /\ session' # None /\ session'.via = session.via
      BY <2>0, <2>2 DEF Session
    <3>3. parked' \subseteq Proxies
      BY <1>0, <2>2, ParkedIsListed DEF ScraperTyped
    <3>4. ScraperTyped'
      BY <1>0, <2>0, <3>1, <3>2 DEF ScraperTyped
    <3>5. RefreshOnce'
      BY <1>0, <2>0, <3>1 DEF ScraperTyped, RefreshOnce
    <3> QED
      BY <2>0, <3>1, <3>2, <3>3, <3>4, <3>5 DEF ScraperSide, SessionKept, ClosedIsReplaced
  <2>3. \/ task' = [task EXCEPT ![t] = ToRefresh("get2")] /\ UNCHANGED <<parked, session>>
        \/ /\ parked' = Parked(proxy)
           /\ session' = [session EXCEPT !.open = FALSE]
           /\ task' = [task EXCEPT ![t] = [pc |-> "close"]]
        \/ task' = [task EXCEPT ![t] = Idle] /\ UNCHANGED <<parked, session>>
    BY <1>7 DEF Answered, Set, End
  <2> QED
    BY <2>1, <2>2, <2>3, TaskStates DEF Thens
<1>8. CASE Rebuild(t)
  BY <1>0, <1>8, Builds DEF Rebuild, Thens
<1>9. CASE Cancel(t)
  <2>1. /\ task[t].pc # "idle" /\ session # None
        /\ lock' = (IF lock = t THEN None ELSE lock) /\ task' = [task EXCEPT ![t] = Idle]
        /\ UNCHANGED <<parked, session, proxy, connected, fresh>>
        /\ abandoned' = (abandoned \/ (task[t].pc = "close" /\ ~session.open))
    <3>1. task[t] \in TaskState /\ task[t] # Idle
      BY <1>0, <1>9 DEF ScraperTyped, Cancel
    <3>2. task[t].pc # "idle"
      BY <3>1 DEF TaskState, Idle
    <3> QED
      BY <1>0, <1>9, <3>2 DEF Cancel, End, SessionKept
  <2>2. abandoned' \in BOOLEAN /\ lock' \in Tasks \cup {None}
    BY <1>0, <2>1 DEF ScraperTyped
  <2>3. IF task[t].pc = "close" THEN abandoned' = (abandoned \/ ~session.open) ELSE UNCHANGED abandoned
    BY <1>0, <2>1 DEF ScraperTyped
  <2>4. RefreshOnce'
    BY <1>0, <2>1, TaskStates, TaskMoves DEF ScraperTyped, RefreshOnce
  <2> QED
    BY <1>0, <2>1, <2>2, <2>3, <2>4, TaskStates, CallMoves DEF ScraperTyped
<1> QED
  BY <1>1, <1>2, <1>3, <1>5, <1>6, <1>7, <1>8, <1>9 DEF Step

-----------------------------------------------------------------------------
\* A call of NSEPublic makes at least one attempt, and finitely many.
LEMMA AttemptsCounted == MaxAttempts \in Nat
<1>1. Cardinality(Proxies) \in Nat
  BY FS_CardinalityType
<1>2. Min({Cardinality(Proxies), 3}) \in {Cardinality(Proxies), 3}
  <2>1. \E x \in {Cardinality(Proxies), 3} : \A y \in {Cardinality(Proxies), 3} : x =< y
    BY <1>1
  <2> QED
    BY <2>1 DEF Min
<1> QED
  BY <1>1, <1>2 DEF MaxAttempts

\* A call of NSEPublic goes to x: the others stay where they are.
LEMMA PublicMoves ==
    ASSUME PublicSide, NEW t \in PublicTasks, NEW x \in PublicState, ptask' = [ptask EXCEPT ![t] = x]
    PROVE  /\ ptask' \in [PublicTasks -> PublicState]
           /\ \A u \in PublicTasks : u # t => ptask'[u] = ptask[u]
BY DEF PublicSide

\* _ensure_session() and _rotate_session() build a session through the proxy they record.
LEMMA PublicBuilds ==
    ASSUME PublicSide, NEW t \in PublicTasks, NEW left \in Nat, PublicBuild(t, left)
    PROVE  PublicSide'
<1>1. PICK p \in Routes : public' = [session |-> [via |-> p, open |-> TRUE], proxy |-> p]
  BY AliveIsListed DEF PublicBuild
<1>2. public'.session \in Session /\ public'.proxy = p /\ public'.session.via = p
  BY <1>1 DEF Session, Routes
<1>3. public'.session # None
  BY <1>2
<1>4. public' \in [session : Session \cup {None}, proxy : Proxies \cup {None}]
  BY <1>1, <1>2 DEF Routes
<1>5. ptask' \in [PublicTasks -> PublicState]
  <2>1. [pc |-> "warm", left |-> left] \in PublicState
    BY PublicStates
  <2> QED
    BY <2>1, PublicMoves DEF PublicBuild
<1> QED
  BY <1>2, <1>3, <1>4, <1>5 DEF PublicSide

\* Every step of a call of NSEPublic preserves its side of the invariant.
LEMMA PublicSideNext ==
    ASSUME PublicSide, parked \subseteq Proxies, NEW t \in PublicTasks,
           PublicCall(t, 1) \/ PublicCall(t, MaxAttempts) \/ PublicStep(t) \/ PublicCancel(t)
    PROVE  PublicSide' /\ parked' \subseteq Proxies
<1>0. ptask[t] \in PublicState
  BY DEF PublicSide
<1>1. ASSUME NEW x \in PublicState, ptask' = [ptask EXCEPT ![t] = x], UNCHANGED <<public, parked>>,
             x.pc # "idle" => public.session # None
      PROVE  PublicSide' /\ parked' \subseteq Proxies
  <2>1. ptask' \in [PublicTasks -> PublicState] /\ \A u \in PublicTasks : u # t => ptask'[u] = ptask[u]
    BY <1>1, PublicMoves
  <2>2. ptask'[t] = x
    BY <1>1 DEF PublicSide
  <2> QED
    BY <1>1, <2>1, <2>2 DEF PublicSide
<1>2. ASSUME NEW k \in Nat, PublicCall(t, k) PROVE PublicSide' /\ parked' \subseteq Proxies
  <2>1. CASE public.session = None
    BY <1>2, <2>1, PublicBuilds DEF PublicCall
  <2>2. CASE public.session # None
    <3>1. [pc |-> "get", left |-> k, live |-> public.session.open] \in PublicState
      BY <2>2, PublicStates DEF PublicSide, Session
    <3> QED
      BY <1>1, <1>2, <2>2, <3>1 DEF PublicCall, PublicGet
  <2> QED
    BY <2>1, <2>2
<1>3. CASE PublicWarm(t)
  <2>1. ptask[t].pc = "warm" /\ ptask[t].left \in Nat /\ public.session \in Session /\ public.session # None
    BY <1>0, <1>3, PublicStates DEF PublicWarm, PublicSide
  <2>2. [pc |-> "get", left |-> ptask[t].left, live |-> public.session.open] \in PublicState
    BY <2>1, PublicStates DEF Session
  <2> QED
    BY <1>1, <1>3, <2>1, <2>2 DEF PublicWarm, PublicGet
<1>4. ASSUME NEW how \in Hows, PublicAnswered(t, how) PROVE PublicSide' /\ parked' \subseteq Proxies
  <2>0. public.session \in Session /\ public.session # None /\ ptask[t].left \in Nat
    BY <1>0, <1>4, PublicStates DEF PublicAnswered, PublicSide
  <2>1. CASE how \in {"refused", "raised"} /\ ptask[t].left > 1
    <3> DEFINE x == [pc |-> "close", left |-> ptask[t].left - 1]
    <3>0. ptask[t].left - 1 \in Nat
      BY <2>0, <2>1
    <3>1. x \in PublicState
      BY <3>0, PublicStates
    <3>2. ptask' = [ptask EXCEPT ![t] = x]
      BY <1>4, <2>1 DEF PublicAnswered
    <3> HIDE DEF x
    <3>3. public' = [public EXCEPT !.session = [public.session EXCEPT !.open = FALSE]]
      BY <1>4, <2>1 DEF PublicAnswered
    <3>4. /\ [public.session EXCEPT !.open = FALSE] \in Session
          /\ [public.session EXCEPT !.open = FALSE].via = public.session.via
      BY <2>0 DEF Session
    <3>5. /\ public' \in [session : Session \cup {None}, proxy : Proxies \cup {None}]
          /\ public'.session \in Session /\ public'.proxy = public.proxy
          /\ public'.session.via = public.session.via
      BY <3>3, <3>4 DEF PublicSide
    <3>6. parked' \subseteq Proxies
      BY <1>4, <2>1, ParkedIsListed DEF PublicAnswered, PublicSide
    <3>7. ptask' \in [PublicTasks -> PublicState]
      BY <3>1, <3>2, PublicMoves
    <3>8. public'.session # None
      BY <3>5
    <3> QED
      BY <2>0, <3>5, <3>6, <3>7, <3>8 DEF PublicSide
  <2>2. CASE ~(how \in {"refused", "raised"} /\ ptask[t].left > 1)
    BY <1>1, <1>4, <2>2, PublicStates DEF PublicAnswered, Idle
  <2> QED
    BY <2>1, <2>2
<1>5. CASE PublicRebuild(t)
  <2>1. ptask[t].left \in Nat
    BY <1>0, <1>5, PublicStates DEF PublicRebuild
  <2> QED
    BY <1>5, <2>1, PublicBuilds DEF PublicRebuild
<1>6. CASE PublicCancel(t)
  BY <1>1, <1>6, PublicStates DEF PublicCancel, Idle
<1> QED
  BY <1>2, <1>3, <1>4, <1>5, <1>6, AttemptsCounted DEF PublicStep

-----------------------------------------------------------------------------
\* The invariant holds at first, and every step preserves it.
LEMMA SessionInvInit == Init => SessionInv
<1> SUFFICES ASSUME Init PROVE SessionInv
  OBVIOUS
<1>1. \A t \in Tasks : task[t] = Idle /\ task[t].pc = "idle"
  BY DEF Init, Idle
<1>2. ScraperTyped
  BY TaskStates DEF Init, ScraperTyped
<1>3. ScraperSide
  BY <1>1, <1>2 DEF Init, ScraperSide, RefreshOnce, SessionKept, ClosedIsReplaced
<1>4. PublicSide
  BY PublicStates DEF Init, PublicSide, Idle
<1> QED
  BY <1>3, <1>4 DEF Init, SessionInv

\* Every step of a call, a rotation or a refresh keeps it.
LEMMA SessionInvNext == SessionInv /\ [Next]_vars => SessionInv'
<1> SUFFICES ASSUME SessionInv, [Next]_vars PROVE SessionInv'
  OBVIOUS
<1>0. parked \subseteq Proxies /\ ScraperSide /\ PublicSide
  BY DEF SessionInv
<1>1. UNCHANGED scraper => ScraperSide'
  BY <1>0 DEF scraper, ScraperSide, ScraperTyped, RefreshOnce, SessionKept, ClosedIsReplaced
<1>2. UNCHANGED <<public, ptask>> => PublicSide'
  BY <1>0 DEF PublicSide
<1>3. ASSUME NEW t \in Tasks, Fetch(t) \/ HealthCheck(t) \/ Step(t) \/ Cancel(t) PROVE SessionInv'
  <2>1. UNCHANGED <<public, ptask>>
    BY <1>3 DEF Fetch, HealthCheck, Step, Refresh, Home, HomeRaises, Answered, Rebuild, Cancel
  <2> QED
    BY <1>0, <1>2, <1>3, <2>1, ScraperSideNext DEF SessionInv
<1>4. ASSUME NEW t \in PublicTasks,
             PublicCall(t, 1) \/ PublicCall(t, MaxAttempts) \/ PublicStep(t) \/ PublicCancel(t)
      PROVE  SessionInv'
  <2>1. UNCHANGED scraper
    BY <1>4 DEF PublicCall, PublicStep, PublicWarm, PublicAnswered, PublicRebuild, PublicCancel
  <2> QED
    BY <1>0, <1>1, <1>4, <2>1, PublicSideNext DEF SessionInv
<1>5. ASSUME NEW p \in Proxies, CoolDown(p) PROVE SessionInv'
  BY <1>0, <1>1, <1>2, <1>5 DEF CoolDown, SessionInv
<1>6. CASE CookiesAge
  <2>1. ScraperSide'
    BY <1>0, <1>6 DEF CookiesAge, ScraperSide, ScraperTyped, RefreshOnce, SessionKept, ClosedIsReplaced
  <2> QED
    BY <1>0, <1>2, <1>6, <2>1 DEF CookiesAge, SessionInv
<1>7. CASE UNCHANGED vars
  BY <1>0, <1>1, <1>2, <1>7 DEF vars, scraper, SessionInv
<1> QED
  BY <1>3, <1>4, <1>5, <1>6, <1>7 DEF Next

(***************************************************************************)
(* ScraperInv of the run, for every proxy list and any number of calls:    *)
(* the proxy that rotate() would park is the one the session goes through, *)
(* and _refresh_cookies() fetches the homepage once for all who need it.   *)
(***************************************************************************)
THEOREM ScraperSafe == Spec => []ScraperInv
<1>1. SessionInv => ScraperInv
  <2> SUFFICES ASSUME SessionInv PROVE ScraperInv
    OBVIOUS
  <2>1. TypeOK
    BY TaskStates, PublicStates DEF SessionInv, ScraperSide, PublicSide, ScraperTyped, TypeOK
  <2> QED
    BY <2>1 DEF SessionInv, ScraperSide, PublicSide, ScraperInv, RoutesThroughItsProxy
<1> QED
  BY <1>1, SessionInvInit, SessionInvNext, PTL DEF Spec

(***************************************************************************)
(* QuietIsUsable: connect() and _rotate_session(), however they overlap,   *)
(* never leave the scraper connected without a session; and it is left     *)
(* with a closed one that no call will replace only by a rotation that was *)
(* cancelled while it closed it, for every proxy list, an empty one too.   *)
(***************************************************************************)
THEOREM QuietScraperIsUsable == Spec => []QuietIsUsable
<1>1. SessionInv => QuietIsUsable
  BY DEF SessionInv, ScraperSide, SessionKept, ClosedIsReplaced, QuietIsUsable
<1> QED
  BY <1>1, SessionInvInit, SessionInvNext, PTL DEF Spec

-----------------------------------------------------------------------------
(***************************************************************************)
(* The ticker cache, which the feeds' answers go into, and the clients     *)
(* that are fed from it: for any symbols, any number of requests and of    *)
(* clients, any times to live and any depth of the book.                   *)
(***************************************************************************)

(***************************************************************************)
(* The inductive invariant.  That a forced answer is never cached rests on *)
(* the numbers: whatever is on its way into the cache or was published has *)
(* been answered already (n <= ticks) by a source that was not forced, so  *)
(* an answer that comes now is none of them.                               *)
(***************************************************************************)
Shared(n) == n <= ticks /\ n \notin forced

TickHash == [n : Ticks, age : 0 .. TickTTL]
BookHash == [lv : [1 .. Levels -> Ticks], age : 0 .. DepthTTL]

StoreTyped ==
    /\ open \in BOOLEAN
    /\ ticks \in Ticks
    /\ latest \in [Symbols -> TickHash]
    /\ book \in [Symbols -> BookHash]
    /\ served \in 0 .. TickTTL /\ served < TickTTL
    /\ forced \subseteq 1 .. ticks
    /\ writes \in Seq(Write)

StoreShared ==
    /\ \A s \in Symbols : Shared(latest[s].n)
    /\ \A i \in DOMAIN writes : Shared(writes[i].n)

Waits == [pc : {"fetch", "eod"}, sym : Symbols, own : BOOLEAN, rest : SUBSET Symbols]
Answering == [pc : {"answer"}, sym : Symbols, own : BOOLEAN, rest : SUBSET Symbols, n : 1 .. MaxTicks]

ReadersGood ==
    /\ req \in [Readers -> {NoRequest} \cup Waits \cup Answering]
    /\ \A r \in Readers : req[r].pc = "answer" =>
           req[r].n <= ticks /\ (req[r].own = FALSE => req[r].n \notin forced)

ClientsTyped ==
    /\ DOMAIN filter \subseteq Clients /\ subs = DOMAIN filter
    /\ queue \in [Clients -> Seq(Message)]
    /\ got \in [Clients -> Seq(Message)]
    /\ due \in [Clients -> Seq(Message)]
    /\ listener \in [Clients -> {"none", "alive", "broken"}]
    /\ \A c \in Clients \ subs : queue[c] = <<>> /\ listener[c] = "none"

DueShared == \A c \in Clients : \A i \in DOMAIN due[c] : Shared(due[c][i].n)

TickerInv == StoreTyped /\ StoreShared /\ ReadersGood /\ ClientsTyped /\ DueShared

\* What a step leaves alone stays as it was.
LEMMA StoreStays ==
    StoreTyped /\ StoreShared /\ UNCHANGED <<open, ticks, latest, book, served, forced, writes>>
        => (StoreTyped /\ StoreShared)'
BY DEF StoreTyped, StoreShared, Shared

\* The same of the requests.
LEMMA ReadersStay == ReadersGood /\ UNCHANGED <<req, ticks, forced>> => ReadersGood'
BY DEF ReadersGood

\* The same of the WebSocket clients.
LEMMA ClientsStay ==
    ClientsTyped /\ DueShared /\ UNCHANGED <<filter, subs, queue, listener, got, due, ticks, forced>>
        => (ClientsTyped /\ DueShared)'
BY DEF ClientsTyped, DueShared, Shared

\* hgetall() gives a hash of the kind it found, or none; a tick it gives is not expired.
LEMMA TickReads ==
    ASSUME CacheConstants, StoreTyped, StoreShared, NEW s \in Symbols
    PROVE  /\ TickRead(s) \in TickHash /\ Shared(TickRead(s).n)
           /\ TickRead(s).n # 0 => TickRead(s).age < TickTTL
<1>1. latest[s] \in TickHash /\ latest[s].age \in 0 .. TickTTL /\ Shared(latest[s].n)
  BY DEF StoreTyped, StoreShared, TickHash
<1>2. 0 \in Ticks /\ 0 \in 0 .. TickTTL /\ TickTTL \in Nat /\ ticks \in Nat
  BY DEF CacheConstants, Ticks, StoreTyped
<1>3. Absent \in TickHash /\ Absent.n = 0
  BY <1>2 DEF Absent, TickHash
<1>4. Shared(0)
  BY <1>2 DEF Shared, StoreTyped
<1>5. CASE latest[s].age = TickTTL
  BY <1>3, <1>4, <1>5 DEF TickRead, Expired
<1>6. CASE latest[s].age # TickTTL
  <2>1. TickRead(s) = latest[s]
    BY <1>6 DEF TickRead, Expired
  <2> QED BY <1>1, <1>2, <1>6, <2>1
<1> QED
  BY <1>5, <1>6

\* hgetall() gives a book of the kind it found, or none.
LEMMA BookReads ==
    ASSUME CacheConstants, StoreTyped, NEW s \in Symbols
    PROVE  BookRead(s) \in BookHash
<1>1. book[s] \in BookHash
  BY DEF StoreTyped
<1>2. 0 \in Ticks /\ 0 \in 0 .. DepthTTL
  BY DEF CacheConstants, Ticks
<1>3. NoLevels \in [1 .. Levels -> Ticks]
  BY <1>2 DEF NoLevels
<1>4. NoBook \in BookHash
  BY <1>2, <1>3 DEF NoBook, BookHash
<1> QED
  BY <1>1, <1>4 DEF BookRead

\* What a request is waiting for.
LEMMA Waiters ==
    ASSUME ReadersGood, NEW r \in Readers
    PROVE  /\ req[r].pc \in {"fetch", "eod"} => req[r] \in Waits
           /\ req[r].pc = "answer" => req[r] \in Answering
<1>1. req[r] \in {NoRequest} \cup Waits \cup Answering
  BY DEF ReadersGood
<1>2. /\ NoRequest.pc = "idle"
      /\ \A q \in Waits : q.pc \in {"fetch", "eod"}
      /\ \A q \in Answering : q.pc = "answer"
  BY DEF NoRequest, Waits, Answering
<1>3. "answer" \notin {"fetch", "eod"} /\ "idle" \notin {"fetch", "eod"} /\ "idle" # "answer"
  OBVIOUS
<1> QED
  BY <1>1, <1>2, <1>3

\* A request is set to wait for something, or is done.
LEMMA ReaderSet ==
    ASSUME ReadersGood, NEW r \in Readers, NEW q \in {NoRequest} \cup Waits,
           req' = [req EXCEPT ![r] = q], UNCHANGED <<ticks, forced>>
    PROVE  ReadersGood'
<1>1. q.pc # "answer"
  BY DEF NoRequest, Waits
<1>2. /\ req' \in [Readers -> {NoRequest} \cup Waits \cup Answering]
      /\ \A x \in Readers : req'[x] = q \/ req'[x] = req[x]
  BY DEF ReadersGood
<1> QED
  BY <1>1, <1>2 DEF ReadersGood

\* A request that goes to the feeds waits for them.
LEMMA AskingIsWaiting ==
    ASSUME NEW s \in Symbols, NEW own \in BOOLEAN, NEW rest \in SUBSET Symbols
    PROVE  Asking(s, own, rest) \in Waits
BY DEF Asking, Waits

\* After one symbol a bulk request waits for the next, or is done.
LEMMA FollowingIsWaiting ==
    ASSUME NEW r, req[r] \in Waits \cup Answering
    PROVE  Following(r) \in {NoRequest} \cup Waits
<1>1. req[r].own \in BOOLEAN /\ req[r].rest \in SUBSET Symbols
  BY DEF Waits, Answering
<1>2. CASE req[r].rest = {}
  BY <1>2 DEF Following
<1>3. CASE req[r].rest # {}
  <2> DEFINE s == CHOOSE x \in req[r].rest : TRUE
  <2>1. s \in Symbols
    BY <1>1, <1>3
  <2>2. Following(r) = Asking(s, req[r].own, req[r].rest \ {s})
    BY <1>3 DEF Following
  <2> HIDE DEF s
  <2>3. req[r].rest \ {s} \in SUBSET Symbols
    BY <1>1
  <2> QED BY <1>1, <2>1, <2>2, <2>3, AskingIsWaiting
<1> QED
  BY <1>2, <1>3

\* The hash of one symbol is read or written.
LEMMA LatestSet ==
    ASSUME StoreTyped, StoreShared, NEW s \in Symbols, NEW h \in TickHash, Shared(h.n),
           latest' = [latest EXCEPT ![s] = h], UNCHANGED <<open, ticks, book, forced, writes>>,
           served' \in 0 .. TickTTL, served' < TickTTL
    PROVE  (StoreTyped /\ StoreShared)'
<1>1. latest' \in [Symbols -> TickHash] /\ \A x \in Symbols : latest'[x] = h \/ latest'[x] = latest[x]
  BY DEF StoreTyped
<1>2. StoreTyped'
  BY <1>1 DEF StoreTyped
<1>3. StoreShared'
  BY <1>1 DEF StoreShared, Shared
<1> QED
  BY <1>2, <1>3

\* get_quote() and get_bulk_quotes() up to their first await, and the database's answer.
LEMMA ReadSteps ==
    ASSUME CacheConstants, TickerInv, NEW r \in Readers,
           \/ \E s \in Symbols : \/ QuoteHit(r, s) \/ QuoteMiss(r, s) \/ QuoteForced(r, s)
           \/ BulkQuotes(r) \/ EodRow(r) \/ EodMissing(r) \/ FeedFails(r)
    PROVE  TickerInv'
<1>1. StoreTyped /\ StoreShared /\ ReadersGood /\ ClientsTyped /\ DueShared
  BY DEF TickerInv
<1>2. served \in 0 .. TickTTL /\ served < TickTTL /\ {} \in SUBSET Symbols
  BY <1>1 DEF StoreTyped
<1>3. ASSUME NEW s \in Symbols, QuoteHit(r, s) PROVE TickerInv'
  <2> DEFINE h == TickRead(s)
  <2>1. /\ h.n # 0 /\ served' = h.age /\ latest' = [latest EXCEPT ![s] = h]
        /\ UNCHANGED <<open, book, writes, ticks, req, forced, filter, subs, queue, listener, got, due>>
    BY <1>3 DEF QuoteHit, CacheAge, wsVars
  <2>2. h \in TickHash /\ Shared(h.n) /\ (h.n # 0 => h.age < TickTTL)
    BY <1>1, TickReads
  <2> HIDE DEF h
  <2>3. h.age \in 0 .. TickTTL
    BY <2>2 DEF TickHash
  <2>4. (StoreTyped /\ StoreShared)'
    BY <1>1, <2>1, <2>2, <2>3, LatestSet
  <2> QED BY <1>1, <2>1, <2>4, ReadersStay, ClientsStay DEF TickerInv
<1>4. ASSUME NEW s \in Symbols, QuoteMiss(r, s) PROVE TickerInv'
  <2> DEFINE a == Asking(s, FALSE, {})
             q == IF open THEN a ELSE [a EXCEPT !.pc = "eod"]
             h == Absent
  <2>1. /\ latest' = [latest EXCEPT ![s] = h] /\ req' = [req EXCEPT ![r] = q]
        /\ UNCHANGED <<open, book, writes, ticks, served, forced, filter, subs, queue, listener, got, due>>
    BY <1>4 DEF QuoteMiss, wsVars
  <2>2. a \in Waits
    BY <1>2, AskingIsWaiting
  <2>3. q \in Waits
    <3> HIDE DEF a
    <3>1. [a EXCEPT !.pc = "eod"] \in Waits
      BY <2>2 DEF Waits
    <3> QED BY <2>2, <3>1
  <2> HIDE DEF a, q
  <2>4. h \in TickHash /\ h.n = 0
    BY DEF Absent, TickHash, CacheConstants, Ticks
  <2>5. Shared(0)
    BY <1>1 DEF Shared, StoreTyped, Ticks, CacheConstants
  <2> HIDE DEF h
  <2>6. (StoreTyped /\ StoreShared)'
    BY <1>1, <1>2, <2>1, <2>4, <2>5, LatestSet
  <2>7. ReadersGood'
    BY <1>1, <2>1, <2>3, ReaderSet
  <2> QED BY <1>1, <2>1, <2>6, <2>7, ClientsStay DEF TickerInv
<1>5. ASSUME NEW s \in Symbols, QuoteForced(r, s) PROVE TickerInv'
  <2> DEFINE q == Asking(s, TRUE, {})
  <2>1. /\ req' = [req EXCEPT ![r] = q]
        /\ UNCHANGED <<open, latest, book, writes, ticks, served, forced, filter, subs, queue, listener, got, due>>
    BY <1>5 DEF QuoteForced, cacheVars, wsVars
  <2>2. q \in Waits
    BY <1>2, AskingIsWaiting
  <2> HIDE DEF q
  <2>3. ReadersGood'
    BY <1>1, <2>1, <2>2, ReaderSet
  <2> QED BY <1>1, <2>1, <2>3, StoreStays, ClientsStay DEF TickerInv
<1>6. CASE BulkQuotes(r)
  <2> DEFINE first == CHOOSE s \in Missing : TRUE
             q == Asking(first, FALSE, Missing \ {first})
  <2>1. /\ Missing # {} /\ req' = [req EXCEPT ![r] = q]
        /\ latest' = [s \in Symbols |-> TickRead(s)]
        /\ UNCHANGED <<open, book, writes, ticks, served, forced, filter, subs, queue, listener, got, due>>
    BY <1>6 DEF BulkQuotes, wsVars
  <2>2. Missing \subseteq Symbols
    BY DEF Missing
  <2>3. first \in Symbols /\ Missing \ {first} \in SUBSET Symbols
    BY <2>1, <2>2
  <2> HIDE DEF first
  <2>4. q \in Waits
    BY <2>3, AskingIsWaiting
  <2> HIDE DEF q
  <2>5. \A s \in Symbols : latest'[s] \in TickHash /\ Shared(latest'[s].n)
    BY <1>1, <2>1, TickReads
  <2>6. latest' \in [Symbols -> TickHash]
    BY <2>1, <2>5
  <2>7. StoreTyped'
    BY <1>1, <2>1, <2>6 DEF StoreTyped
  <2>8. StoreShared'
    BY <1>1, <2>1, <2>5 DEF StoreShared, Shared
  <2>9. ReadersGood'
    BY <1>1, <2>1, <2>4, ReaderSet
  <2> QED BY <1>1, <2>1, <2>7, <2>8, <2>9, ClientsStay DEF TickerInv
<1>7. ASSUME NEW q \in {NoRequest} \cup Waits, req' = [req EXCEPT ![r] = q],
             UNCHANGED <<open, latest, book, writes, ticks, served, forced, filter, subs, queue, listener, got, due>>
      PROVE  TickerInv'
  <2>1. ReadersGood'
    BY <1>1, <1>7, ReaderSet
  <2> QED BY <1>1, <1>7, <2>1, StoreStays, ClientsStay DEF TickerInv
<1>8. CASE EodRow(r)
  BY <1>7, <1>8 DEF EodRow, cacheVars, wsVars
<1>9. CASE EodMissing(r)
  <2> DEFINE q == [req[r] EXCEPT !.pc = "fetch"]
  <2>1. req[r] \in Waits
    BY <1>1, <1>9, Waiters DEF EodMissing
  <2>2. q \in Waits
    BY <2>1 DEF Waits
  <2>3. /\ req' = [req EXCEPT ![r] = q]
        /\ UNCHANGED <<open, latest, book, writes, ticks, served, forced, filter, subs, queue, listener, got, due>>
    BY <1>1, <1>9 DEF EodMissing, cacheVars, wsVars, ReadersGood
  <2> HIDE DEF q
  <2> QED BY <1>7, <2>2, <2>3
<1>10. CASE FeedFails(r)
  <2>1. req[r] \in Waits
    BY <1>1, <1>10, Waiters DEF FeedFails
  <2>2. Following(r) \in {NoRequest} \cup Waits
    BY <2>1, FollowingIsWaiting
  <2>3. /\ req' = [req EXCEPT ![r] = Following(r)]
        /\ UNCHANGED <<open, latest, book, writes, ticks, served, forced, filter, subs, queue, listener, got, due>>
    BY <1>10 DEF FeedFails, cacheVars, wsVars
  <2> QED BY <1>7, <2>2, <2>3
<1> QED
  BY <1>3, <1>4, <1>5, <1>6, <1>8, <1>9, <1>10

\* The feed's answer has a number nothing in the cache or on its way has: what was
\* shared stays so, whether or not the source was forced.
LEMMA FeedAnswersStep ==
    ASSUME CacheConstants, TickerInv, NEW r \in Readers, FeedAnswers(r)
    PROVE  TickerInv'
<1>1. StoreTyped /\ StoreShared /\ ReadersGood /\ ClientsTyped /\ DueShared
  BY DEF TickerInv
<1>2. /\ req[r].pc = "fetch" /\ ticks < MaxTicks /\ ticks' = ticks + 1
      /\ forced' = IF req[r].own THEN forced \cup {ticks'} ELSE forced
      /\ UNCHANGED <<open, latest, book, writes, served, filter, subs, queue, listener, got, due>>
  BY DEF FeedAnswers, cacheVars, wsVars
<1>3. req[r] \in Waits
  BY <1>1, <1>2, Waiters
<1> DEFINE q == [pc |-> "answer", sym |-> req[r].sym, own |-> req[r].own, rest |-> req[r].rest, n |-> ticks']
<1>4. req' = [req EXCEPT ![r] = q]
  BY <1>1 DEF FeedAnswers, ReadersGood
<1>5. ticks \in Nat /\ MaxTicks \in Nat /\ ticks' \in 1 .. MaxTicks /\ ticks' \in Ticks
  BY <1>1, <1>2 DEF StoreTyped, Ticks, CacheConstants
<1>6. q \in Answering /\ q.own = req[r].own /\ q.n = ticks' /\ q.pc = "answer"
  BY <1>3, <1>5 DEF Waits, Answering
<1> HIDE DEF q
<1>7. forced \subseteq 1 .. ticks /\ forced' \subseteq 1 .. ticks' /\ forced' \subseteq forced \cup {ticks'}
  <2>1. forced \subseteq 1 .. ticks
    BY <1>1 DEF StoreTyped
  <2>2. forced' = forced \cup {ticks'} \/ forced' = forced
    BY <1>2, Zenon
  <2>3. \A n \in 1 .. ticks : n \in 1 .. ticks'
    BY <1>2, <1>5
  <2>4. ticks' \in 1 .. ticks'
    BY <1>5
  <2> QED BY <2>1, <2>2, <2>3, <2>4
<1>8. \A n \in Nat : Shared(n) => n <= ticks' /\ n \notin forced'
  <2> SUFFICES ASSUME NEW n \in Nat, Shared(n) PROVE n <= ticks' /\ n \notin forced'
    OBVIOUS
  <2>1. n <= ticks /\ n \notin forced
    BY DEF Shared
  <2>2. n <= ticks' /\ n # ticks'
    BY <1>2, <1>5, <2>1
  <2> QED BY <1>7, <2>1, <2>2
<1>9. StoreTyped'
  BY <1>1, <1>2, <1>5, <1>7 DEF StoreTyped
<1>10. StoreShared'
  <2>1. \A s \in Symbols : latest[s].n \in Nat
    BY <1>1 DEF StoreTyped, TickHash, Ticks
  <2>2. \A i \in DOMAIN writes : writes[i].n \in Nat
    <3>1. \A i \in DOMAIN writes : writes[i] \in Write
      BY <1>1 DEF StoreTyped
    <3> QED BY <3>1 DEF Write
  <2> QED BY <1>1, <1>2, <1>8, <2>1, <2>2 DEF StoreShared, Shared
<1>11. ReadersGood'
  <2>1. /\ req' \in [Readers -> {NoRequest} \cup Waits \cup Answering]
        /\ req'[r] = q /\ \A x \in Readers \ {r} : req'[x] = req[x]
    BY <1>1, <1>4, <1>6 DEF ReadersGood
  <2>2. q.n <= ticks' /\ (q.own = FALSE => q.n \notin forced')
    <3>1. q.n <= ticks'
      BY <1>5, <1>6
    <3>2. ASSUME q.own = FALSE PROVE q.n \notin forced'
      <4>1. ~req[r].own
        BY <1>6, <3>2
      <4>2. forced' = forced
        BY <1>2, <4>1
      <4>3. ticks' \notin forced
        BY <1>2, <1>5, <1>7
      <4> QED BY <1>6, <4>2, <4>3
    <3> QED BY <3>1, <3>2
  <2>3. ASSUME NEW x \in Readers \ {r}, req[x].pc = "answer"
        PROVE  req[x].n <= ticks' /\ (req[x].own = FALSE => req[x].n \notin forced')
    <3>1. req[x].n \in Nat
      BY <1>1, <2>3, Waiters DEF Answering
    <3>2. req[x].n <= ticks /\ (req[x].own = FALSE => req[x].n \notin forced)
      BY <1>1, <2>3 DEF ReadersGood
    <3>3. req[x].n <= ticks' /\ req[x].n # ticks'
      BY <1>2, <1>5, <3>1, <3>2
    <3> QED BY <1>7, <3>2, <3>3
  <2> QED BY <2>1, <2>2, <2>3 DEF ReadersGood
<1>12. (ClientsTyped /\ DueShared)'
  <2>1. \A c \in Clients : \A i \in DOMAIN due[c] : due[c][i].n \in Nat
    <3>1. \A c \in Clients : \A i \in DOMAIN due[c] : due[c][i] \in Message
      BY <1>1 DEF ClientsTyped
    <3> QED BY <3>1 DEF Message
  <2>2. DueShared'
    BY <1>1, <1>2, <1>8, <2>1 DEF DueShared, Shared
  <2>3. ClientsTyped'
    BY <1>1, <1>2 DEF ClientsTyped
  <2> QED BY <2>2, <2>3
<1> QED
  BY <1>9, <1>10, <1>11, <1>12 DEF TickerInv

\* get_quote_through() returns: only an answer that was not forced goes into the cache.
LEMMA ReturnStep ==
    ASSUME CacheConstants, TickerInv, NEW r \in Readers, Return(r)
    PROVE  TickerInv'
<1>1. StoreTyped /\ StoreShared /\ ReadersGood /\ ClientsTyped /\ DueShared
  BY DEF TickerInv
<1>2. /\ req[r].pc = "answer" /\ req' = [req EXCEPT ![r] = Following(r)]
      /\ UNCHANGED <<open, latest, book, ticks, served, forced, filter, subs, queue, listener, got, due>>
  BY DEF Return, wsVars
<1>3. req[r] \in Answering
  BY <1>1, <1>2, Waiters
<1>4. ReadersGood'
  <2>1. Following(r) \in {NoRequest} \cup Waits
    BY <1>3, FollowingIsWaiting
  <2> QED BY <1>1, <1>2, <2>1, ReaderSet
<1>5. (ClientsTyped /\ DueShared)'
  BY <1>1, <1>2, ClientsStay
<1>6. CASE req[r].own
  <2>1. writes' = writes
    BY <1>6 DEF Return
  <2> QED BY <1>1, <1>2, <1>4, <1>5, <2>1, StoreStays DEF TickerInv
<1>7. CASE ~req[r].own
  <2>1. PICK k \in 0 .. Levels : writes' = Append(writes, [sym |-> req[r].sym, n |-> req[r].n, depth |-> k])
    BY <1>7 DEF Return
  <2> DEFINE w == [sym |-> req[r].sym, n |-> req[r].n, depth |-> k]
  <2>2. w \in Write /\ w.n = req[r].n
    BY <1>3 DEF Answering, Write
  <2>3. Shared(w.n)
    <3>1. req[r].own = FALSE
      BY <1>3, <1>7 DEF Answering
    <3> QED BY <1>1, <1>2, <2>2, <3>1 DEF ReadersGood, Shared
  <2>4. writes' = Append(writes, w) /\ writes \in Seq(Write)
    BY <1>1, <2>1 DEF StoreTyped
  <2> HIDE DEF w
  <2>5. /\ writes' \in Seq(Write)
        /\ \A i \in DOMAIN writes' : writes'[i] = w \/ (i \in DOMAIN writes /\ writes'[i] = writes[i])
    BY <2>2, <2>4
  <2>6. StoreTyped'
    BY <1>1, <1>2, <2>5 DEF StoreTyped
  <2>7. StoreShared'
    BY <1>1, <1>2, <2>3, <2>5 DEF StoreShared, Shared
  <2> QED BY <1>4, <1>5, <2>6, <2>7 DEF TickerInv
<1> QED
  BY <1>6, <1>7

\* _write_cache(): the hash, the book and the publications.
LEMMA WriteStep ==
    ASSUME CacheConstants, TickerInv, WriteCache
    PROVE  TickerInv'
<1>1. StoreTyped /\ StoreShared /\ ReadersGood /\ ClientsTyped /\ DueShared
  BY DEF TickerInv
<1> DEFINE w == Head(writes)
           h == Hash(w)
           m == [sym |-> w.sym, n |-> w.n]
<1>2. /\ writes # <<>> /\ writes' = Tail(writes)
      /\ latest' = [latest EXCEPT ![w.sym] = h]
      /\ IF w.depth = 0 THEN book' = book
         ELSE book' = [book EXCEPT ![w.sym] = [lv |-> Merged(book[w.sym].lv, w), age |-> 0]]
      /\ queue' = [c \in Clients |-> IF c \in subs THEN Append(queue[c], m) ELSE queue[c]]
      /\ due' = [c \in Clients |-> IF c \in subs THEN Append(due[c], m) ELSE due[c]]
      /\ UNCHANGED <<open, ticks, req, served, forced, filter, subs, listener, got>>
  <2>1. w.depth # 0 => SetDepth(w)
    BY DEF WriteCache
  <2>2. w.depth # 0 => book' = [book EXCEPT ![w.sym] = [lv |-> Merged(book[w.sym].lv, w), age |-> 0]]
    BY <1>1, <2>1 DEF SetDepth, StoreTyped
  <2> QED BY <2>2 DEF WriteCache, SetTick, Published, readVars
<1>3. writes \in Seq(Write)
  BY <1>1 DEF StoreTyped
<1>4. w \in Write /\ Shared(w.n)
  <2>1. 1 \in DOMAIN writes /\ w = writes[1]
    BY <1>2, <1>3
  <2> QED BY <1>1, <1>3, <2>1 DEF StoreShared
<1>5. /\ writes' \in Seq(Write)
      /\ \A i \in DOMAIN writes' : i + 1 \in DOMAIN writes /\ writes'[i] = writes[i + 1]
  BY <1>2, <1>3
<1> HIDE DEF w
<1>6. w.sym \in Symbols /\ w.n \in 1 .. MaxTicks /\ w.n \in Ticks /\ w.depth \in 0 .. Levels
  BY <1>4 DEF Write, Ticks, CacheConstants
<1>7. h \in TickHash /\ h.n = w.n
  BY <1>6 DEF Hash, TickHash, CacheConstants
<1>8. m \in Message /\ m.n = w.n
  BY <1>6 DEF Message
<1> HIDE DEF h, m
<1>9. book' \in [Symbols -> BookHash]
  <2>1. book \in [Symbols -> BookHash]
    BY <1>1 DEF StoreTyped
  <2>2. book[w.sym].lv \in [1 .. Levels -> Ticks]
    BY <1>6, <2>1 DEF BookHash
  <2>3. Merged(book[w.sym].lv, w) \in [1 .. Levels -> Ticks]
    BY <1>6, <2>2 DEF Merged
  <2>4. [lv |-> Merged(book[w.sym].lv, w), age |-> 0] \in BookHash
    BY <2>3 DEF BookHash, CacheConstants
  <2> QED BY <1>2, <2>1, <2>4
<1>10. latest' \in [Symbols -> TickHash] /\ \A s \in Symbols : latest'[s] = h \/ latest'[s] = latest[s]
  BY <1>1, <1>2, <1>7 DEF StoreTyped
<1>11. StoreTyped'
  BY <1>1, <1>2, <1>5, <1>9, <1>10 DEF StoreTyped
<1>12. StoreShared'
  <2>1. \A s \in Symbols : Shared(latest'[s].n)
    BY <1>1, <1>4, <1>7, <1>10 DEF StoreShared
  <2>2. \A i \in DOMAIN writes' : Shared(writes'[i].n)
    BY <1>1, <1>5 DEF StoreShared
  <2> QED BY <1>2, <2>1, <2>2 DEF StoreShared, Shared
<1>13. ReadersGood'
  BY <1>1, <1>2, ReadersStay
<1>14. /\ queue' \in [Clients -> Seq(Message)] /\ due' \in [Clients -> Seq(Message)]
       /\ \A c \in Clients : \A i \in DOMAIN due'[c] :
              due'[c][i] = m \/ (i \in DOMAIN due[c] /\ due'[c][i] = due[c][i])
  <2>1. \A c \in Clients : queue[c] \in Seq(Message) /\ due[c] \in Seq(Message)
    BY <1>1 DEF ClientsTyped
  <2>2. \A c \in Clients : queue'[c] \in Seq(Message) /\ due'[c] \in Seq(Message)
    BY <1>2, <1>8, <2>1
  <2>3. ASSUME NEW c \in Clients, NEW i \in DOMAIN due'[c]
        PROVE  due'[c][i] = m \/ (i \in DOMAIN due[c] /\ due'[c][i] = due[c][i])
    <3>1. due[c] \in Seq(Message)
      BY <2>1
    <3>2. CASE c \in subs
      <4>1. due'[c] = Append(due[c], m)
        BY <1>2, <3>2
      <4> QED BY <1>8, <2>3, <3>1, <4>1
    <3>3. CASE c \notin subs
      BY <1>2, <2>3, <3>3
    <3> QED BY <3>2, <3>3
  <2> QED BY <1>2, <2>2, <2>3
<1>15. ClientsTyped'
  BY <1>1, <1>2, <1>14 DEF ClientsTyped
<1>16. DueShared'
  <2>1. \A c \in Clients : \A i \in DOMAIN due'[c] : Shared(due'[c][i].n)
    BY <1>1, <1>4, <1>8, <1>14 DEF DueShared
  <2> QED BY <1>2, <2>1 DEF DueShared, Shared
<1> QED
  BY <1>11, <1>12, <1>13, <1>15, <1>16 DEF TickerInv

\* A client comes, is sent a message, loses its listener or leaves.
LEMMA ClientSteps ==
    ASSUME CacheConstants, TickerInv, NEW c \in Clients,
           \/ \E f \in Symbols \cup {All} : Connect(c, f)
           \/ Forward(c) \/ SendFails(c) \/ Leave(c)
    PROVE  TickerInv'
<1>1. StoreTyped /\ StoreShared /\ ReadersGood /\ ClientsTyped /\ DueShared
  BY DEF TickerInv
<1>2. UNCHANGED <<open, latest, book, writes, ticks, req, served, forced>>
  BY DEF Connect, Forward, SendFails, Leave, cacheVars, readVars
<1>3. (StoreTyped /\ StoreShared)' /\ ReadersGood'
  BY <1>1, <1>2, StoreStays, ReadersStay
<1>4. <<>> \in Seq(Message) /\ DOMAIN <<>> = {}
  OBVIOUS
<1>5. ASSUME NEW f, Connect(c, f) PROVE (ClientsTyped /\ DueShared)'
  <2>1. /\ filter' = [d \in DOMAIN filter \cup {c} |-> IF d = c THEN f ELSE filter[d]]
        /\ subs' = subs \cup {c} /\ due' = [due EXCEPT ![c] = <<>>]
        /\ listener' = [listener EXCEPT ![c] = "alive"] /\ got' = [got EXCEPT ![c] = <<>>]
        /\ queue' = queue
    BY <1>5 DEF Connect, Subscribe
  <2>2. DOMAIN filter' = DOMAIN filter \cup {c}
    BY <2>1
  <2>3. ClientsTyped'
    BY <1>1, <1>4, <2>1, <2>2 DEF ClientsTyped
  <2>4. \A d \in Clients : due'[d] = <<>> \/ due'[d] = due[d]
    BY <1>1, <2>1 DEF ClientsTyped
  <2>5. DueShared'
    BY <1>1, <1>2, <1>4, <2>4 DEF DueShared, Shared
  <2> QED BY <2>3, <2>5
<1>6. ASSUME queue[c] # <<>> PROVE c \in subs /\ Tail(queue[c]) \in Seq(Message) /\ Head(queue[c]) \in Message
  <2>1. queue[c] \in Seq(Message)
    BY <1>1 DEF ClientsTyped
  <2>2. c \in subs
    BY <1>1, <1>6 DEF ClientsTyped
  <2> QED BY <1>6, <2>1, <2>2
<1>7. CASE Forward(c)
  <2>1. /\ queue[c] # <<>> /\ queue' = [queue EXCEPT ![c] = Tail(queue[c])]
        /\ \/ got' = got
           \/ got' = [got EXCEPT ![c] = Append(got[c], Head(queue[c]))]
        /\ UNCHANGED <<filter, subs, listener, due>>
    BY <1>1, <1>7 DEF Forward, ClientsTyped
  <2>2. got' \in [Clients -> Seq(Message)]
    <3>1. got \in [Clients -> Seq(Message)] /\ got[c] \in Seq(Message)
      BY <1>1 DEF ClientsTyped
    <3>2. Append(got[c], Head(queue[c])) \in Seq(Message)
      BY <1>6, <2>1, <3>1
    <3> QED BY <2>1, <3>1, <3>2
  <2>3. /\ queue' \in [Clients -> Seq(Message)]
        /\ \A d \in Clients \ subs : queue'[d] = queue[d]
    BY <1>1, <1>6, <2>1 DEF ClientsTyped
  <2>4. ClientsTyped'
    BY <1>1, <2>1, <2>2, <2>3 DEF ClientsTyped
  <2>5. DueShared'
    BY <1>1, <1>2, <2>1 DEF DueShared, Shared
  <2> QED BY <1>3, <2>4, <2>5 DEF TickerInv
<1>8. CASE SendFails(c)
  <2>1. /\ queue[c] # <<>> /\ queue' = [queue EXCEPT ![c] = Tail(queue[c])]
        /\ listener' = [listener EXCEPT ![c] = "broken"]
        /\ UNCHANGED <<filter, subs, got, due>>
    BY <1>1, <1>8 DEF SendFails, ClientsTyped
  <2>2. /\ queue' \in [Clients -> Seq(Message)]
        /\ listener' \in [Clients -> {"none", "alive", "broken"}]
        /\ \A d \in Clients \ subs : queue'[d] = queue[d] /\ listener'[d] = listener[d]
    BY <1>1, <1>6, <2>1 DEF ClientsTyped
  <2>3. ClientsTyped'
    BY <1>1, <2>1, <2>2 DEF ClientsTyped
  <2>4. DueShared'
    BY <1>1, <1>2, <2>1 DEF DueShared, Shared
  <2> QED BY <1>3, <2>3, <2>4 DEF TickerInv
<1>9. CASE Leave(c)
  <2>1. /\ filter' = [d \in DOMAIN filter \ {c} |-> filter[d]]
        /\ subs' = subs \ {c}
        /\ queue' = [queue EXCEPT ![c] = <<>>] /\ due' = [due EXCEPT ![c] = <<>>]
        /\ listener' = [listener EXCEPT ![c] = "none"] /\ got' = [got EXCEPT ![c] = <<>>]
    BY <1>9 DEF Leave, Unsubscribe
  <2>2. DOMAIN filter' = DOMAIN filter \ {c}
    BY <2>1
  <2>3. ClientsTyped'
    BY <1>1, <1>4, <2>1, <2>2 DEF ClientsTyped
  <2>4. \A d \in Clients : due'[d] = <<>> \/ due'[d] = due[d]
    BY <1>1, <2>1 DEF ClientsTyped
  <2>5. DueShared'
    BY <1>1, <1>2, <1>4, <2>4 DEF DueShared, Shared
  <2> QED BY <1>3, <2>3, <2>5 DEF TickerInv
<1> QED
  BY <1>3, <1>5, <1>7, <1>8, <1>9 DEF TickerInv

\* get_depth(), the clock and the bell.
LEMMA OtherSteps ==
    ASSUME CacheConstants, TickerInv,
           (\E s \in Symbols : ReadDepth(s)) \/ Clock \/ Bell
    PROVE  TickerInv'
<1>1. StoreTyped /\ StoreShared /\ ReadersGood /\ ClientsTyped /\ DueShared
  BY DEF TickerInv
<1>2. UNCHANGED <<writes, ticks, req, served, forced, filter, subs, queue, listener, got, due>>
  BY DEF ReadDepth, Clock, Bell, cacheVars, readVars, wsVars
<1>3. ReadersGood' /\ (ClientsTyped /\ DueShared)'
  BY <1>1, <1>2, ReadersStay, ClientsStay
<1>4. ASSUME NEW s \in Symbols, ReadDepth(s) PROVE TickerInv'
  <2>1. BookRead(s) \in BookHash
    BY <1>1, BookReads
  <2>2. book' \in [Symbols -> BookHash] /\ UNCHANGED <<open, latest>>
    BY <1>1, <1>4, <2>1 DEF ReadDepth, StoreTyped
  <2>3. (StoreTyped /\ StoreShared)'
    BY <1>1, <1>2, <2>2 DEF StoreTyped, StoreShared, Shared
  <2> QED BY <1>3, <2>3 DEF TickerInv
<1>5. CASE Clock
  <2>1. ASSUME NEW s \in Symbols
        PROVE  latest'[s] \in TickHash /\ (latest'[s].n = latest[s].n \/ latest'[s].n = 0)
    <3>1. latest[s] \in TickHash /\ latest[s].age \in 0 .. TickTTL /\ TickTTL \in Nat
      BY <1>1 DEF StoreTyped, TickHash, CacheConstants
    <3>2. latest'[s] = IF latest[s].n = 0 THEN Absent ELSE Older(latest[s], TickTTL)
      BY <1>5 DEF Clock
    <3>3. Absent \in TickHash /\ Absent.n = 0
      BY <3>1 DEF Absent, TickHash, Ticks, CacheConstants
    <3>4. latest[s].age < TickTTL => latest[s].age + 1 \in 0 .. TickTTL
      BY <3>1
    <3>5. Older(latest[s], TickTTL) \in TickHash /\ Older(latest[s], TickTTL).n = latest[s].n
      BY <3>1, <3>4 DEF Older, TickHash
    <3> QED BY <3>2, <3>3, <3>5
  <2>2. ASSUME NEW s \in Symbols PROVE book'[s] \in BookHash
    <3>1. book[s] \in BookHash /\ book[s].age \in 0 .. DepthTTL /\ DepthTTL \in Nat
      BY <1>1 DEF StoreTyped, BookHash, CacheConstants
    <3>2. book'[s] = IF book[s].lv = NoLevels THEN NoBook ELSE Older(book[s], DepthTTL)
      BY <1>5 DEF Clock
    <3>3. NoLevels \in [1 .. Levels -> Ticks]
      BY DEF NoLevels, Ticks, CacheConstants
    <3>4. NoBook \in BookHash
      BY <3>1, <3>3 DEF NoBook, BookHash
    <3>5. book[s].age < DepthTTL => book[s].age + 1 \in 0 .. DepthTTL
      BY <3>1
    <3>6. Older(book[s], DepthTTL) \in BookHash
      BY <3>1, <3>5 DEF Older, BookHash
    <3> QED BY <3>2, <3>4, <3>6
  <2>3. latest' \in [Symbols -> TickHash] /\ book' \in [Symbols -> BookHash] /\ open' = open
    <3>1. DOMAIN latest' = Symbols /\ DOMAIN book' = Symbols /\ open' = open
      BY <1>5 DEF Clock
    <3>2. latest' = [s \in Symbols |-> latest'[s]] /\ book' = [s \in Symbols |-> book'[s]]
      BY <1>5 DEF Clock
    <3> QED BY <2>1, <2>2, <3>1, <3>2
  <2>4. StoreTyped'
    BY <1>1, <1>2, <2>3 DEF StoreTyped
  <2>5. Shared(0)
    BY <1>1 DEF Shared, StoreTyped, Ticks, CacheConstants
  <2>6. StoreShared'
    <3>1. \A s \in Symbols : Shared(latest'[s].n)
      BY <1>1, <2>1, <2>5 DEF StoreShared
    <3> QED BY <1>1, <1>2, <3>1 DEF StoreShared, Shared
  <2> QED BY <1>3, <2>4, <2>6 DEF TickerInv
<1>6. CASE Bell
  <2>1. UNCHANGED <<latest, book>> /\ open' \in BOOLEAN
    BY <1>6 DEF Bell, cacheVars
  <2>2. StoreTyped'
    BY <1>1, <1>2, <2>1 DEF StoreTyped
  <2>3. StoreShared'
    BY <1>1, <1>2, <2>1 DEF StoreShared, Shared
  <2> QED BY <1>3, <2>2, <2>3 DEF TickerInv
<1> QED
  BY <1>4, <1>5, <1>6

\* The cache is empty and nobody is connected.
LEMMA TickerInit == ASSUME CacheConstants, CacheInit PROVE TickerInv
<1>1. /\ 0 \in Ticks /\ 0 \in 0 .. TickTTL /\ 0 \in 0 .. DepthTTL /\ 0 < TickTTL
  BY DEF CacheConstants, Ticks
<1>2. Absent \in TickHash /\ Absent.n = 0
  BY <1>1 DEF Absent, TickHash
<1>3. NoLevels \in [1 .. Levels -> Ticks]
  BY <1>1 DEF NoLevels
<1>4. NoBook \in BookHash
  BY <1>1, <1>3 DEF NoBook, BookHash
<1>5. StoreTyped
  BY <1>1, <1>2, <1>4 DEF CacheInit, StoreTyped
<1>6. StoreShared
  BY <1>2 DEF CacheInit, StoreShared, Shared
<1>7. ReadersGood
  BY DEF CacheInit, ReadersGood, NoRequest
<1>8. ClientsTyped /\ DueShared
  BY DEF CacheInit, ClientsTyped, DueShared
<1> QED
  BY <1>5, <1>6, <1>7, <1>8 DEF TickerInv

\* Every step keeps the invariant.
LEMMA TickerNext ==
    ASSUME CacheConstants, TickerInv, [CacheNext]_tickerVars
    PROVE  TickerInv'
<1>1. ASSUME NEW r \in Readers,
             \/ \E s \in Symbols : \/ QuoteHit(r, s) \/ QuoteMiss(r, s) \/ QuoteForced(r, s)
             \/ BulkQuotes(r) \/ EodRow(r) \/ EodMissing(r) \/ FeedFails(r)
      PROVE  TickerInv'
  BY <1>1, ReadSteps
<1>2. ASSUME NEW r \in Readers, FeedAnswers(r) \/ Return(r) PROVE TickerInv'
  BY <1>2, FeedAnswersStep, ReturnStep
<1>3. CASE WriteCache
  BY <1>3, WriteStep
<1>4. ASSUME NEW c \in Clients,
             \/ \E f \in Symbols \cup {All} : Connect(c, f)
             \/ Forward(c) \/ SendFails(c) \/ Leave(c)
      PROVE  TickerInv'
  BY <1>4, ClientSteps
<1>5. CASE (\E s \in Symbols : ReadDepth(s)) \/ Clock \/ Bell
  BY <1>5, OtherSteps
<1>6. CASE UNCHANGED tickerVars
  BY <1>6, StoreStays, ReadersStay, ClientsStay
     DEF TickerInv, tickerVars, cacheVars, readVars, wsVars
<1> QED
  BY <1>1, <1>2, <1>3, <1>4, <1>5, <1>6, Zenon DEF CacheNext

(***************************************************************************)
(* CacheInv of the run, for any number of symbols, requests and clients:   *)
(* hgetall() gives out no tick past its time, an answer of a forced source *)
(* (write_cache = False) is neither cached nor published, and exactly the  *)
(* clients whose handler runs are subscribed.                              *)
(***************************************************************************)
THEOREM TickerCacheSafe == CacheSpec => []CacheInv
<1> USE CacheAssumption
<1>1. CacheInit => TickerInv
  BY TickerInit
<1>2. TickerInv /\ [CacheNext]_tickerVars => TickerInv'
  BY TickerNext
<1>3. TickerInv => CacheInv
  <2> SUFFICES ASSUME TickerInv PROVE CacheInv
    OBVIOUS
  <2>1. StoreTyped /\ StoreShared /\ ReadersGood /\ ClientsTyped /\ DueShared
    BY DEF TickerInv
  <2>2. forced \subseteq 1 .. MaxTicks
    BY <2>1 DEF StoreTyped, Ticks, CacheConstants
  <2>3. CacheTypeOK
    BY <2>1, <2>2 DEF StoreTyped, TickHash, BookHash, ClientsTyped, CacheTypeOK
  <2>4. NothingExpiredServed
    BY <2>1 DEF StoreTyped, NothingExpiredServed
  <2>5. ForcedStaysPrivate
    BY <2>1 DEF StoreShared, DueShared, Shared, ForcedStaysPrivate
  <2>6. SubscribedWhileServed
    BY <2>1 DEF ClientsTyped, SubscribedWhileServed
  <2> QED BY <2>3, <2>4, <2>5, <2>6 DEF CacheInv
<1> QED
  BY <1>1, <1>2, <1>3, PTL DEF CacheSpec

-----------------------------------------------------------------------------
(***************************************************************************)
(* The stream.  Of the published messages d a client with filter f has the *)
(* end q in its queue and was sent the wanted ones g of the rest.  This is *)
(* inductive by itself; what it says of the cache rests on DueShows: the   *)
(* last message published about a symbol is the tick that is cached.       *)
(***************************************************************************)
PlacesWanted(d, q, f) == {i \in 1 .. Len(d) - Len(q) : f \in {All, d[i].sym}}

Conveyed(d, q, g, f) ==
    /\ Len(d) - Len(q) >= 0
    /\ \A i \in DOMAIN q : q[i] = d[Len(d) - Len(q) + i]
    /\ Picks(g, d, PlacesWanted(d, q, f))

StreamInv == \A c \in DOMAIN filter : listener[c] = "alive" => Conveyed(due[c], queue[c], got[c], filter[c])

DueShows ==
    \A c \in DOMAIN filter, s \in Symbols :
        latest[s].n # 0 => \A i \in LastOf(due[c], s) : due[c][i].n = latest[s].n

\* StreamInv is the run's property, a client at a time.
LEMMA StreamIsProperty == StreamInv <=> NothingLostOrDoubled
BY DEF StreamInv, NothingLostOrDoubled, Conveyed, PlacesWanted, Wanted

\* The same places of a longer sequence.
LEMMA PicksKept ==
    ASSUME NEW seq, NEW all, NEW more, NEW P, Picks(seq, all, P), \A p \in P : more[p] = all[p]
    PROVE  Picks(seq, more, P)
<1>1. PICK at \in [DOMAIN seq -> P] :
          /\ \A p \in P : \E i \in DOMAIN seq : at[i] = p
          /\ \A i, j \in DOMAIN seq : i < j => at[i] < at[j]
          /\ \A i \in DOMAIN seq : seq[i] = all[at[i]]
  BY DEF Picks
<1>2. \A i \in DOMAIN seq : seq[i] = more[at[i]]
  BY <1>1
<1> QED BY <1>1, <1>2, Zenon DEF Picks

\* One more place, after all the others.
LEMMA PicksMore ==
    ASSUME NEW seq \in Seq(Message), NEW all, NEW P \in SUBSET Nat, NEW k \in Nat, all[k] \in Message,
           \A p \in P : p < k, Picks(seq, all, P)
    PROVE  Picks(Append(seq, all[k]), all, P \cup {k})
<1>1. PICK at \in [DOMAIN seq -> P] :
          /\ \A p \in P : \E i \in DOMAIN seq : at[i] = p
          /\ \A i, j \in DOMAIN seq : i < j => at[i] < at[j]
          /\ \A i \in DOMAIN seq : seq[i] = all[at[i]]
  BY DEF Picks
<1> DEFINE l == Len(seq)
           new == Append(seq, all[k])
           to == [i \in 1 .. l + 1 |-> IF i = l + 1 THEN k ELSE at[i]]
<1>2. /\ l \in Nat /\ DOMAIN seq = 1 .. l /\ DOMAIN new = 1 .. l + 1
      /\ new[l + 1] = all[k] /\ \A i \in 1 .. l : new[i] = seq[i]
  OBVIOUS
<1> HIDE DEF l, new
<1>3. /\ l + 1 \in 1 .. l + 1 /\ \A i \in 1 .. l : i \in 1 .. l + 1 /\ i # l + 1
      /\ \A i \in 1 .. l + 1 : i # l + 1 => i \in 1 .. l
      /\ \A i, j \in 1 .. l + 1 : i < j => i # l + 1
  BY <1>2
<1>4. to[l + 1] = k /\ \A i \in 1 .. l : to[i] = at[i]
  BY <1>3
<1>5. to \in [1 .. l + 1 -> P \cup {k}]
  BY <1>1, <1>2, <1>3
<1> HIDE DEF to
<1>6. \A p \in P \cup {k} : \E i \in 1 .. l + 1 : to[i] = p
  BY <1>1, <1>2, <1>3, <1>4
<1>7. ASSUME NEW i \in 1 .. l + 1, NEW j \in 1 .. l + 1, i < j PROVE to[i] < to[j]
  <2>1. i \in 1 .. l /\ to[i] = at[i] /\ at[i] \in P
    BY <1>1, <1>2, <1>3, <1>4, <1>7
  <2>2. CASE j = l + 1
    BY <1>4, <2>1, <2>2
  <2>3. CASE j # l + 1
    <3>1. j \in 1 .. l /\ to[j] = at[j]
      BY <1>3, <1>4, <2>3
    <3> QED BY <1>1, <1>2, <1>7, <2>1, <3>1
  <2> QED BY <2>2, <2>3
<1>8. ASSUME NEW i \in 1 .. l + 1 PROVE new[i] = all[to[i]]
  <2>1. CASE i = l + 1
    BY <1>2, <1>4, <2>1
  <2>2. CASE i # l + 1
    <3>1. i \in 1 .. l /\ to[i] = at[i]
      BY <1>3, <1>4, <2>2
    <3> QED BY <1>1, <1>2, <3>1
  <2> QED BY <2>1, <2>2
<1>9. Picks(new, all, P \cup {k})
  <2>1. DOMAIN new = 1 .. l + 1
    BY <1>2
  <2>2. /\ to \in [DOMAIN new -> P \cup {k}]
        /\ \A p \in P \cup {k} : \E i \in DOMAIN new : to[i] = p
        /\ \A i, j \in DOMAIN new : i < j => to[i] < to[j]
        /\ \A i \in DOMAIN new : new[i] = all[to[i]]
    BY <1>5, <1>6, <1>7, <1>8, <2>1
  <2> QED BY <2>2, Zenon DEF Picks
<1> QED BY <1>9 DEF new

\* A client that has just subscribed.
LEMMA NothingYet == ASSUME NEW f PROVE Conveyed(<<>>, <<>>, <<>>, f)
<1>1. Len(<<>>) = 0 /\ DOMAIN <<>> = {}
  OBVIOUS
<1>2. PlacesWanted(<<>>, <<>>, f) = {}
  BY <1>1 DEF PlacesWanted
<1>3. Picks(<<>>, <<>>, {})
  <2>1. <<>> \in [DOMAIN <<>> -> {}]
    OBVIOUS
  <2> QED BY <1>1, <2>1 DEF Picks
<1>4. Len(<<>>) - Len(<<>>) >= 0
  BY <1>1
<1> QED BY <1>1, <1>2, <1>3, <1>4, Zenon DEF Conveyed

\* publish() appends to what is due and to the queue.
LEMMA PublishedKeeps ==
    ASSUME NEW d \in Seq(Message), NEW q \in Seq(Message), NEW g, NEW f, NEW m \in Message, Conveyed(d, q, g, f)
    PROVE  Conveyed(Append(d, m), Append(q, m), g, f)
<1> DEFINE d1 == Append(d, m)
           q1 == Append(q, m)
           k == Len(d) - Len(q)
<1>1. /\ Len(d) \in Nat /\ Len(q) \in Nat /\ k \in Nat /\ k <= Len(d)
      /\ DOMAIN d = 1 .. Len(d) /\ DOMAIN q = 1 .. Len(q)
  BY DEF Conveyed
<1>2. /\ Len(d1) = Len(d) + 1 /\ Len(q1) = Len(q) + 1 /\ DOMAIN q1 = 1 .. Len(q) + 1
      /\ \A i \in 1 .. Len(d) : d1[i] = d[i]
      /\ \A i \in 1 .. Len(q) : q1[i] = q[i]
      /\ d1[Len(d) + 1] = m /\ q1[Len(q) + 1] = m
  OBVIOUS
<1>3. Len(d1) - Len(q1) = k
  BY <1>1, <1>2
<1> HIDE DEF d1, q1
<1>4. ASSUME NEW i \in DOMAIN q1 PROVE q1[i] = d1[k + i]
  <2>1. CASE i = Len(q) + 1
    <3>1. k + i = Len(d) + 1
      BY <1>1, <2>1
    <3> QED BY <1>2, <2>1, <3>1
  <2>2. CASE i # Len(q) + 1
    <3>1. i \in 1 .. Len(q) /\ k + i \in 1 .. Len(d)
      BY <1>1, <1>2, <2>2
    <3>2. q[i] = d[k + i]
      BY <1>1, <3>1 DEF Conveyed
    <3> QED BY <1>2, <3>1, <3>2
  <2> QED BY <2>1, <2>2
<1>5. \A i \in 1 .. k : d1[i] = d[i]
  BY <1>1, <1>2
<1> HIDE DEF k
<1>6. PlacesWanted(d1, q1, f) = {i \in 1 .. k : f \in {All, d[i].sym}}
  BY <1>3, <1>5 DEF PlacesWanted
<1>7. PlacesWanted(d, q, f) = {i \in 1 .. k : f \in {All, d[i].sym}}
  BY DEF PlacesWanted, k
<1>8. Picks(g, d1, PlacesWanted(d1, q1, f))
  <2>1. Picks(g, d, PlacesWanted(d1, q1, f))
    BY <1>6, <1>7 DEF Conveyed
  <2>2. \A p \in PlacesWanted(d1, q1, f) : d1[p] = d[p]
    BY <1>5, <1>6
  <2> QED BY <2>1, <2>2, PicksKept, Zenon
<1>9. Conveyed(d1, q1, g, f)
  BY <1>1, <1>3, <1>4, <1>8 DEF Conveyed, k
<1> QED BY <1>9 DEF d1, q1

\* The listener takes the first message of the queue and sends it if it is wanted.
LEMMA ForwardKeeps ==
    ASSUME NEW d \in Seq(Message), NEW q \in Seq(Message), NEW g \in Seq(Message), NEW f,
           Conveyed(d, q, g, f), q # <<>>
    PROVE  Conveyed(d, Tail(q), IF f \in {All, Head(q).sym} THEN Append(g, Head(q)) ELSE g, f)
<1> DEFINE q1 == Tail(q)
           h == Head(q)
           k == Len(d) - Len(q)
           n == k + 1
<1>1. /\ Len(d) \in Nat /\ Len(q) \in Nat \ {0} /\ k \in Nat /\ n <= Len(d) /\ n \in Nat /\ n >= 1
      /\ DOMAIN d = 1 .. Len(d) /\ DOMAIN q = 1 .. Len(q)
  BY DEF Conveyed
<1>2. /\ Len(q1) = Len(q) - 1 /\ h = q[1] /\ DOMAIN q1 = 1 .. Len(q) - 1
      /\ \A i \in 1 .. Len(q) - 1 : q1[i] = q[i + 1]
  OBVIOUS
<1>3. h = d[n] /\ h \in Message
  <2>1. 1 \in DOMAIN q
    BY <1>1
  <2> QED BY <1>2, <2>1 DEF Conveyed
<1>4. Len(d) - Len(q1) = n
  BY <1>1, <1>2
<1> HIDE DEF q1, h, k
<1>5. ASSUME NEW i \in DOMAIN q1 PROVE q1[i] = d[n + i]
  <2>1. i + 1 \in DOMAIN q /\ k + (i + 1) = n + i /\ i \in 1 .. Len(q) - 1
    <3>1. i \in 1 .. Len(q) - 1
      BY <1>2
    <3>2. i \in Int /\ k \in Int
      BY <1>1, <3>1
    <3>3. k + (i + 1) = k + 1 + i
      BY <3>2
    <3>4. i + 1 \in 1 .. Len(q)
      BY <1>1, <3>1
    <3> QED BY <1>1, <3>1, <3>3, <3>4
  <2>2. q[i + 1] = d[k + (i + 1)]
    BY <2>1 DEF Conveyed, k
  <2> QED BY <1>2, <2>1, <2>2
<1> DEFINE P == PlacesWanted(d, q, f)
           P1 == PlacesWanted(d, q1, f)
<1>6. /\ P \in SUBSET Nat /\ \A p \in P : p < n
      /\ P1 = IF f \in {All, d[n].sym} THEN P \cup {n} ELSE P
  <2>1. /\ 1 .. n = (1 .. k) \cup {n} /\ \A p \in 1 .. k : p \in Nat /\ p < n
    BY <1>1
  <2> HIDE DEF n
  <2>2. P1 = {i \in 1 .. n : f \in {All, d[i].sym}}
    BY <1>4 DEF PlacesWanted
  <2> QED BY <2>1, <2>2 DEF PlacesWanted, k
<1>7. Picks(g, d, P)
  BY DEF Conveyed
<1> HIDE DEF P, P1, n
<1>8. CASE f \in {All, h.sym}
  <2>1. Picks(Append(g, d[n]), d, P \cup {n})
    BY <1>1, <1>3, <1>6, <1>7, PicksMore
  <2>2. Picks(Append(g, h), d, P1)
    BY <1>3, <1>6, <1>8, <2>1
  <2> QED BY <1>1, <1>4, <1>5, <1>8, <2>2 DEF Conveyed, P1, q1, h
<1>9. CASE f \notin {All, h.sym}
  <2>1. Picks(g, d, P1)
    BY <1>3, <1>6, <1>7, <1>9
  <2> QED BY <1>1, <1>4, <1>5, <1>9, <2>1 DEF Conveyed, P1, q1, h
<1> QED BY <1>8, <1>9

\* Once its queue is empty, the last message a client was sent about a symbol is the
\* last one published about it.
LEMMA CaughtUp ==
    ASSUME NEW d \in Seq(Message), NEW g \in Seq(Message), NEW f, Conveyed(d, <<>>, g, f),
           NEW s, NEW i \in LastOf(g, s)
    PROVE  \E p \in LastOf(d, s) : g[i] = d[p]
<1> DEFINE P == PlacesWanted(d, <<>>, f)
<1>1. PICK at \in [DOMAIN g -> P] :
          /\ \A p \in P : \E j \in DOMAIN g : at[j] = p
          /\ \A j, k \in DOMAIN g : j < k => at[j] < at[k]
          /\ \A j \in DOMAIN g : g[j] = d[at[j]]
  BY DEF Conveyed, Picks
<1>2. P = {p \in DOMAIN d : f \in {All, d[p].sym}} /\ DOMAIN d \subseteq Nat /\ DOMAIN g \subseteq Nat
  <2>1. Len(d) - Len(<<>>) = Len(d) /\ DOMAIN d = 1 .. Len(d)
    OBVIOUS
  <2> QED BY <2>1 DEF PlacesWanted
<1> HIDE DEF P
<1>3. i \in DOMAIN g /\ g[i].sym = s /\ \A j \in DOMAIN g : j > i => g[j].sym # s
  BY DEF LastOf
<1>4. at[i] \in DOMAIN d /\ d[at[i]].sym = s /\ f \in {All, s} /\ g[i] = d[at[i]]
  BY <1>1, <1>2, <1>3
<1>5. ASSUME NEW p \in DOMAIN d, p > at[i] PROVE d[p].sym # s
  <2> SUFFICES ASSUME d[p].sym = s PROVE FALSE
    OBVIOUS
  <2>1. PICK j \in DOMAIN g : at[j] = p
    BY <1>1, <1>2, <1>4
  <2>2. g[j].sym = s
    BY <1>1, <2>1
  <2>3. ~(j > i)
    BY <1>3, <2>2
  <2>4. j < i \/ j = i
    BY <1>2, <1>3, <2>3
  <2>5. at[j] <= at[i]
    BY <1>1, <1>2, <1>3, <1>4, <2>1, <2>4
  <2> QED BY <1>2, <1>4, <1>5, <2>1, <2>5
<1> QED BY <1>4, <1>5 DEF LastOf

\* After m the last message about s in d1 is m, or the one that was the last in d.
Follows(d, d1, m, s) ==
    \A i \in LastOf(d1, s) :
        /\ m.sym = s => d1[i] = m
        /\ m.sym # s => i \in LastOf(d, s) /\ d1[i] = d[i]

\* The last message about a symbol after one more.
LEMMA LastOfAppended ==
    ASSUME NEW d \in Seq(Message), NEW m \in Message, NEW s
    PROVE  Follows(d, Append(d, m), m, s)
<1> DEFINE d1 == Append(d, m)
<1>0. d1 = Append(d, m)
  OBVIOUS
<1> HIDE DEF d1
<1> SUFFICES ASSUME NEW i \in LastOf(d1, s)
             PROVE  /\ m.sym = s => d1[i] = m
                    /\ m.sym # s => i \in LastOf(d, s) /\ d1[i] = d[i]
  BY <1>0 DEF Follows
<1> DEFINE l == Len(d)
<1>1. /\ l \in Nat /\ DOMAIN d = 1 .. l /\ DOMAIN d1 = 1 .. l + 1 /\ d1[l + 1] = m
      /\ \A j \in 1 .. l : d1[j] = d[j]
  BY <1>0
<1> HIDE DEF l
<1>2. i \in 1 .. l + 1 /\ d1[i].sym = s /\ \A j \in 1 .. l + 1 : j > i => d1[j].sym # s
  BY <1>1 DEF LastOf
<1>3. CASE i = l + 1
  BY <1>1, <1>2, <1>3
<1>4. CASE i # l + 1
  <2>1. i \in 1 .. l /\ l + 1 \in 1 .. l + 1 /\ l + 1 > i /\ \A j \in 1 .. l : j \in 1 .. l + 1
    BY <1>1, <1>2, <1>4
  <2>2. m.sym # s
    BY <1>1, <1>2, <2>1
  <2>3. i \in LastOf(d, s)
    BY <1>1, <1>2, <2>1 DEF LastOf
  <2> QED BY <1>1, <2>1, <2>2, <2>3
<1> QED BY <1>3, <1>4

\* What the clients have is as before, and no hash has another tick.
LEMMA StreamStays ==
    ASSUME StreamInv, DueShows, UNCHANGED wsVars,
           \A s \in Symbols : latest'[s].n = latest[s].n \/ latest'[s].n = 0
    PROVE  (StreamInv /\ DueShows)'
<1>1. UNCHANGED <<filter, queue, listener, got, due>>
  BY DEF wsVars
<1>2. StreamInv'
  BY <1>1 DEF StreamInv
<1>3. DueShows'
  BY <1>1 DEF DueShows
<1> QED BY <1>2, <1>3

\* A step that neither writes the cache nor serves a client at most drops a hash.
LEMMA HashesFade ==
    ASSUME CacheConstants, TickerInv,
           \/ \E r \in Readers :
                 \/ \E s \in Symbols : QuoteHit(r, s) \/ QuoteMiss(r, s) \/ QuoteForced(r, s)
                 \/ BulkQuotes(r) \/ EodRow(r) \/ EodMissing(r)
                 \/ FeedAnswers(r) \/ FeedFails(r) \/ Return(r)
           \/ \E s \in Symbols : ReadDepth(s)
           \/ Clock \/ Bell
    PROVE  UNCHANGED wsVars /\ \A s \in Symbols : latest'[s].n = latest[s].n \/ latest'[s].n = 0
<1>1. latest \in [Symbols -> TickHash] /\ Absent.n = 0
  BY DEF TickerInv, StoreTyped, Absent
<1>2. \A s \in Symbols : TickRead(s).n = latest[s].n \/ TickRead(s).n = 0
  BY <1>1 DEF TickRead
<1>3. ASSUME NEW r \in Readers, NEW s \in Symbols, QuoteHit(r, s) \/ QuoteMiss(r, s) \/ QuoteForced(r, s)
      PROVE  UNCHANGED wsVars /\ \A x \in Symbols : latest'[x].n = latest[x].n \/ latest'[x].n = 0
  <2>1. UNCHANGED wsVars
    BY <1>3 DEF QuoteHit, QuoteMiss, QuoteForced
  <2>2. \/ latest' = latest \/ latest' = [latest EXCEPT ![s] = TickRead(s)]
        \/ latest' = [latest EXCEPT ![s] = Absent]
    BY <1>3 DEF QuoteHit, QuoteMiss, QuoteForced, cacheVars
  <2> QED BY <1>1, <1>2, <2>1, <2>2
<1>4. ASSUME NEW r \in Readers, BulkQuotes(r)
      PROVE  UNCHANGED wsVars /\ \A x \in Symbols : latest'[x].n = latest[x].n \/ latest'[x].n = 0
  BY <1>2, <1>4 DEF BulkQuotes
<1>5. ASSUME NEW r \in Readers, EodRow(r) \/ EodMissing(r) \/ FeedAnswers(r) \/ FeedFails(r) \/ Return(r)
      PROVE  UNCHANGED wsVars /\ latest' = latest
  BY <1>5 DEF EodRow, EodMissing, FeedAnswers, FeedFails, Return, cacheVars
<1>6. ASSUME (\E s \in Symbols : ReadDepth(s)) \/ Bell PROVE UNCHANGED wsVars /\ latest' = latest
  BY <1>6 DEF ReadDepth, Bell, cacheVars
<1>7. ASSUME Clock
      PROVE  UNCHANGED wsVars /\ \A x \in Symbols : latest'[x].n = latest[x].n \/ latest'[x].n = 0
  <2>1. UNCHANGED wsVars
    BY <1>7 DEF Clock
  <2>2. ASSUME NEW x \in Symbols PROVE latest'[x].n = latest[x].n \/ latest'[x].n = 0
    <3>1. latest'[x] = IF latest[x].n = 0 THEN Absent ELSE Older(latest[x], TickTTL)
      BY <1>7 DEF Clock
    <3>2. Older(latest[x], TickTTL).n = latest[x].n
      BY <1>1 DEF Older, TickHash
    <3> QED BY <1>1, <3>1, <3>2
  <2> QED BY <2>1, <2>2
<1> QED BY <1>3, <1>4, <1>5, <1>6, <1>7

\* _write_cache(): every subscribed client gets the tick that the hash now holds.
LEMMA WriteStreams ==
    ASSUME TickerInv, StreamInv, DueShows, WriteCache
    PROVE  (StreamInv /\ DueShows)'
<1> DEFINE w == Head(writes)
           m == [sym |-> w.sym, n |-> w.n]
<1>1. /\ \A c \in Clients : queue[c] \in Seq(Message) /\ due[c] \in Seq(Message)
      /\ DOMAIN filter \subseteq Clients /\ subs = DOMAIN filter
  BY DEF TickerInv, ClientsTyped
<1>2. latest \in [Symbols -> TickHash]
  BY DEF TickerInv, StoreTyped
<1>3. w \in Write /\ m \in Message
  <2>1. writes \in Seq(Write) /\ writes # <<>>
    BY DEF TickerInv, StoreTyped, WriteCache
  <2>2. w \in Write
    BY <2>1
  <2> QED BY <2>2 DEF Write, Message
<1>4. /\ latest' = [latest EXCEPT ![w.sym] = Hash(w)]
      /\ queue' = [c \in Clients |-> IF c \in subs THEN Append(queue[c], m) ELSE queue[c]]
      /\ due' = [c \in Clients |-> IF c \in subs THEN Append(due[c], m) ELSE due[c]]
      /\ UNCHANGED <<filter, listener, got>>
  BY DEF WriteCache, SetTick, Published
<1>5. w.sym \in Symbols /\ m.sym = w.sym /\ m.n = w.n /\ Hash(w).n = w.n
  BY <1>3 DEF Write, Hash
<1> HIDE DEF w, m
<1>6. \A c \in DOMAIN filter : queue'[c] = Append(queue[c], m) /\ due'[c] = Append(due[c], m)
  BY <1>1, <1>4
<1>7. StreamInv'
  <2> SUFFICES ASSUME NEW c \in DOMAIN filter, listener[c] = "alive"
               PROVE  Conveyed(due'[c], queue'[c], got[c], filter[c])
    BY <1>4 DEF StreamInv
  <2>1. Conveyed(due[c], queue[c], got[c], filter[c]) /\ c \in Clients
    BY <1>1 DEF StreamInv
  <2>2. due[c] \in Seq(Message) /\ queue[c] \in Seq(Message)
    BY <1>1, <2>1
  <2>3. Conveyed(Append(due[c], m), Append(queue[c], m), got[c], filter[c])
    BY <1>3, <2>1, <2>2, PublishedKeeps, Zenon
  <2> QED BY <1>6, <2>3
<1>8. DueShows'
  <2> SUFFICES ASSUME NEW c \in DOMAIN filter, NEW s \in Symbols, latest'[s].n # 0,
                      NEW i \in LastOf(due'[c], s)
               PROVE  due'[c][i].n = latest'[s].n
    BY <1>4 DEF DueShows
  <2>1. due'[c] = Append(due[c], m)
    BY <1>6
  <2>2. due[c] \in Seq(Message)
    BY <1>1
  <2>3. Follows(due[c], Append(due[c], m), m, s)
    BY <1>3, <2>2, LastOfAppended, Zenon
  <2>4. Follows(due[c], due'[c], m, s)
    BY <2>3, <2>1, Zenon
  <2>5. CASE m.sym = s
    <3>1. due'[c][i] = m
      BY <2>5, <2>4 DEF Follows
    <3> QED BY <1>2, <1>4, <1>5, <2>5, <3>1
  <2>6. CASE m.sym # s
    <3>1. i \in LastOf(due[c], s) /\ due'[c][i] = due[c][i]
      BY <2>6, <2>4 DEF Follows
    <3>2. latest'[s] = latest[s]
      BY <1>2, <1>4, <1>5, <2>6
    <3> QED BY <3>1, <3>2 DEF DueShows
  <2> QED BY <2>5, <2>6
<1> QED BY <1>7, <1>8

\* A client comes, is sent a message, loses its listener or leaves; the others keep
\* what they have.
LEMMA ClientStreams ==
    ASSUME TickerInv, StreamInv, DueShows, NEW c \in Clients,
           \/ \E f \in Symbols \cup {All} : Connect(c, f)
           \/ Forward(c) \/ SendFails(c) \/ Leave(c)
    PROVE  (StreamInv /\ DueShows)'
<1>1. /\ queue \in [Clients -> Seq(Message)] /\ due \in [Clients -> Seq(Message)]
      /\ got \in [Clients -> Seq(Message)] /\ DOMAIN listener = Clients
      /\ DOMAIN filter \subseteq Clients /\ \A d \in Clients \ DOMAIN filter : queue[d] = <<>>
  BY DEF TickerInv, ClientsTyped
<1>2. latest' = latest
  BY DEF Connect, Forward, SendFails, Leave, cacheVars
<1>3. ASSUME \A d \in DOMAIN filter' \ {c} :
                 /\ d \in DOMAIN filter /\ filter'[d] = filter[d] /\ listener'[d] = listener[d]
                 /\ queue'[d] = queue[d] /\ due'[d] = due[d] /\ got'[d] = got[d],
             c \in DOMAIN filter' /\ listener'[c] = "alive" =>
                 Conveyed(due'[c], queue'[c], got'[c], filter'[c]),
             c \in DOMAIN filter' => due'[c] = <<>> \/ (c \in DOMAIN filter /\ due'[c] = due[c])
      PROVE  (StreamInv /\ DueShows)'
  <2>1. ASSUME NEW d \in DOMAIN filter', listener'[d] = "alive"
        PROVE  Conveyed(due'[d], queue'[d], got'[d], filter'[d])
    BY <1>3, <2>1 DEF StreamInv
  <2>2. ASSUME NEW d \in DOMAIN filter', NEW s \in Symbols, latest'[s].n # 0, NEW i \in LastOf(due'[d], s)
        PROVE  due'[d][i].n = latest'[s].n
    <3>1. due'[d] # <<>>
      BY <2>2 DEF LastOf
    <3>2. d \in DOMAIN filter /\ due'[d] = due[d]
      BY <1>3, <3>1
    <3> QED BY <1>2, <2>2, <3>2 DEF DueShows
  <2> QED BY <2>1, <2>2 DEF StreamInv, DueShows
<1>4. ASSUME NEW f, Connect(c, f) PROVE (StreamInv /\ DueShows)'
  <2>1. /\ filter' = [d \in DOMAIN filter \cup {c} |-> IF d = c THEN f ELSE filter[d]]
        /\ c \notin DOMAIN filter /\ due' = [due EXCEPT ![c] = <<>>]
        /\ listener' = [listener EXCEPT ![c] = "alive"] /\ got' = [got EXCEPT ![c] = <<>>]
        /\ queue' = queue
    BY <1>4 DEF Connect, Subscribe
  <2>2. queue'[c] = <<>> /\ due'[c] = <<>> /\ got'[c] = <<>> /\ filter'[c] = f
    BY <1>1, <2>1
  <2>3. Conveyed(due'[c], queue'[c], got'[c], filter'[c])
    BY <2>2, NothingYet
  <2>4. \A d \in DOMAIN filter' \ {c} :
            /\ d \in DOMAIN filter /\ filter'[d] = filter[d] /\ listener'[d] = listener[d]
            /\ queue'[d] = queue[d] /\ due'[d] = due[d] /\ got'[d] = got[d]
    BY <1>1, <2>1
  <2> QED BY <1>3, <2>2, <2>3, <2>4
<1>5. CASE Forward(c)
  <2>1. /\ listener[c] = "alive" /\ queue[c] # <<>> /\ queue' = [queue EXCEPT ![c] = Tail(queue[c])]
        /\ got' = IF Wanted(c, Head(queue[c])) THEN [got EXCEPT ![c] = Append(got[c], Head(queue[c]))]
                  ELSE got
        /\ UNCHANGED <<filter, listener, due>>
    BY <1>1, <1>5 DEF Forward
  <2>2. c \in DOMAIN filter
    BY <1>1, <2>1
  <2>3. /\ queue'[c] = Tail(queue[c])
        /\ got'[c] = IF filter[c] \in {All, Head(queue[c]).sym} THEN Append(got[c], Head(queue[c])) ELSE got[c]
    BY <1>1, <2>1 DEF Wanted
  <2>4. Conveyed(due[c], queue[c], got[c], filter[c])
    BY <2>1, <2>2 DEF StreamInv
  <2>5. Conveyed(due[c], queue'[c], got'[c], filter[c])
    BY <1>1, <2>1, <2>3, <2>4, ForwardKeeps
  <2>6. \A d \in DOMAIN filter' \ {c} :
            /\ d \in DOMAIN filter /\ filter'[d] = filter[d] /\ listener'[d] = listener[d]
            /\ queue'[d] = queue[d] /\ due'[d] = due[d] /\ got'[d] = got[d]
    BY <1>1, <2>1
  <2> QED BY <1>3, <2>1, <2>2, <2>5, <2>6
<1>6. CASE SendFails(c)
  <2>1. /\ queue' = [queue EXCEPT ![c] = Tail(queue[c])] /\ listener' = [listener EXCEPT ![c] = "broken"]
        /\ UNCHANGED <<filter, got, due>>
    BY <1>1, <1>6 DEF SendFails
  <2>2. listener'[c] # "alive"
    BY <1>1, <2>1
  <2>3. \A d \in DOMAIN filter' \ {c} :
            /\ d \in DOMAIN filter /\ filter'[d] = filter[d] /\ listener'[d] = listener[d]
            /\ queue'[d] = queue[d] /\ due'[d] = due[d] /\ got'[d] = got[d]
    BY <1>1, <2>1
  <2> QED BY <1>3, <2>1, <2>2, <2>3
<1>7. CASE Leave(c)
  <2>1. /\ filter' = [d \in DOMAIN filter \ {c} |-> filter[d]]
        /\ queue' = [queue EXCEPT ![c] = <<>>] /\ due' = [due EXCEPT ![c] = <<>>]
        /\ listener' = [listener EXCEPT ![c] = "none"] /\ got' = [got EXCEPT ![c] = <<>>]
    BY <1>7 DEF Leave, Unsubscribe
  <2>2. c \notin DOMAIN filter'
    BY <2>1
  <2>3. \A d \in DOMAIN filter' \ {c} :
            /\ d \in DOMAIN filter /\ filter'[d] = filter[d] /\ listener'[d] = listener[d]
            /\ queue'[d] = queue[d] /\ due'[d] = due[d] /\ got'[d] = got[d]
    BY <1>1, <2>1
  <2> QED BY <1>3, <2>2, <2>3
<1> QED BY <1>4, <1>5, <1>6, <1>7

\* The invariant of the stream, from the first state on.
LEMMA StreamInductive ==
    ASSUME CacheConstants
    PROVE  /\ CacheInit => StreamInv /\ DueShows
           /\ TickerInv /\ StreamInv /\ DueShows /\ [CacheNext]_tickerVars => (StreamInv /\ DueShows)'
<1>1. CacheInit => StreamInv /\ DueShows
  BY DEF CacheInit, StreamInv, DueShows
<1>2. ASSUME TickerInv, StreamInv, DueShows, [CacheNext]_tickerVars PROVE (StreamInv /\ DueShows)'
  <2>1. CASE UNCHANGED tickerVars
    <3>1. UNCHANGED wsVars /\ latest' = latest
      BY <2>1 DEF tickerVars, cacheVars
    <3> QED BY <1>2, <3>1, StreamStays
  <2>2. CASE WriteCache
    BY <1>2, <2>2, WriteStreams
  <2>3. ASSUME NEW c \in Clients,
               \/ \E f \in Symbols \cup {All} : Connect(c, f)
               \/ Forward(c) \/ SendFails(c) \/ Leave(c)
        PROVE  (StreamInv /\ DueShows)'
    BY <1>2, <2>3, ClientStreams
  <2>4. CASE \/ \E r \in Readers :
                   \/ \E s \in Symbols : QuoteHit(r, s) \/ QuoteMiss(r, s) \/ QuoteForced(r, s)
                   \/ BulkQuotes(r) \/ EodRow(r) \/ EodMissing(r)
                   \/ FeedAnswers(r) \/ FeedFails(r) \/ Return(r)
             \/ \E s \in Symbols : ReadDepth(s)
             \/ Clock \/ Bell
    <3>1. UNCHANGED wsVars /\ \A s \in Symbols : latest'[s].n = latest[s].n \/ latest'[s].n = 0
      BY <1>2, <2>4, HashesFade
    <3> QED BY <1>2, <3>1, StreamStays
  <2> QED BY <1>2, <2>1, <2>2, <2>3, <2>4, Zenon DEF CacheNext
<1> QED BY <1>1, <1>2

(***************************************************************************)
(* A WebSocket client with a live listener (_pubsub_listener) is sent      *)
(* every tick of its filter published since it subscribed, once and in     *)
(* the order of publication, for any number of clients and symbols.        *)
(***************************************************************************)
THEOREM NoTickLostOrDoubled == CacheSpec => []NothingLostOrDoubled
<1> USE CacheAssumption
<1>1. (CacheInit => TickerInv) /\ (TickerInv /\ [CacheNext]_tickerVars => TickerInv')
  BY TickerInit, TickerNext
<1>2. StreamInv => NothingLostOrDoubled
  BY StreamIsProperty
<1> QED
  BY <1>1, <1>2, StreamInductive, PTL DEF CacheSpec

(***************************************************************************)
(* A client that has caught up knows the cached tick of every symbol it    *)
(* was sent something about, as set_tick() writes the hash and publishes   *)
(* in one pipeline: whatever expires, is written or read in between.       *)
(***************************************************************************)
THEOREM CaughtUpClientsKnow == CacheSpec => []StreamShowsCache
<1> USE CacheAssumption
<1>1. (CacheInit => TickerInv) /\ (TickerInv /\ [CacheNext]_tickerVars => TickerInv')
  BY TickerInit, TickerNext
<1>2. TickerInv /\ StreamInv /\ DueShows => StreamShowsCache
  <2> SUFFICES ASSUME TickerInv, StreamInv, DueShows, NEW c \in DOMAIN filter, NEW s \in Symbols,
                      listener[c] = "alive", queue[c] = <<>>, latest[s].n # 0,
                      NEW i \in LastOf(got[c], s)
               PROVE  got[c][i].n = latest[s].n
    BY DEF StreamShowsCache
  <2>1. c \in Clients /\ due[c] \in Seq(Message) /\ got[c] \in Seq(Message)
    BY DEF TickerInv, ClientsTyped
  <2>2. Conveyed(due[c], <<>>, got[c], filter[c])
    BY DEF StreamInv
  <2>3. \E p \in LastOf(due[c], s) : got[c][i] = due[c][p]
    BY <2>1, <2>2, CaughtUp
  <2> QED BY <2>3 DEF DueShows
<1> QED
  BY <1>1, <1>2, StreamInductive, PTL DEF CacheSpec
=============================================================================
