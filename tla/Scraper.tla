------------------------------- MODULE Scraper -------------------------------
(***************************************************************************)
(* The NSE clients that go through the proxy pool: NSEScraper              *)
(* (src/providers/nse_scraper.py), whose concurrent fetch_quote() calls    *)
(* share one session and its cookies, NSEPublic (nse_public.py), and the   *)
(* ProxyPool (proxy_pool.py) they share.                                   *)
(*                                                                         *)
(* One action is what a task does between two awaits.  A proxy on cooldown *)
(* is in `parked`; each strategy of current() picks one of those that are  *)
(* not, so it is any of them; with no PROXY_LIST a session has none (None). *)
(* A call may be cancelled at every await.                                 *)
(***************************************************************************)
EXTENDS Integers, FiniteSets, FiniteSetsExt

CONSTANTS
    Proxies,      \* PROXY_LIST
    Tasks,        \* calls of NSEScraper.fetch_quote() and health_check()
    PublicTasks,  \* calls of NSEPublic
    None

Session == [via : Proxies \cup {None}, open : BOOLEAN]

ASSUME ScraperAssumption ==
    /\ IsFiniteSet(Proxies)
    /\ None \notin Proxies \cup Tasks \cup Session

VARIABLES
    parked,     \* ProxyPool: the proxies on cooldown
    session,    \* NSEScraper._session: its proxy, and whether it is still open
    proxy,      \* NSEScraper._proxy
    connected,  \* NSEScraper._is_connected
    fresh,      \* the cookies are younger than session_refresh_interval_seconds
    lock,       \* the task in _refresh_cookies()
    task,       \* what each call of NSEScraper is doing
    abandoned,  \* history: a rotation was cancelled while it closed this session
    public,     \* NSEPublic: _session and _proxy
    ptask       \* what each call of NSEPublic is doing

scraper == <<session, proxy, connected, fresh, lock, task, abandoned>>
vars == <<parked, session, proxy, connected, fresh, lock, task, abandoned, public, ptask>>

Idle == [pc |-> "idle"]

Init ==
    /\ parked = {}
    /\ session = None /\ proxy = None /\ connected = FALSE
    /\ fresh = FALSE /\ lock = None
    /\ task = [t \in Tasks |-> Idle] /\ abandoned = FALSE
    /\ public = [session |-> None, proxy |-> None]
    /\ ptask = [t \in PublicTasks |-> Idle]

-----------------------------------------------------------------------------
\* ProxyPool.current(): all parked means any.
Alive_Strict(dead) == Proxies \ dead

Alive(dead) ==
    CASE Proxies = {} -> {None}
      [] Proxies # {} /\ Proxies \subseteq dead -> Proxies
      [] OTHER -> Proxies \ dead

\* rotate() parks the bad proxy.
Parked(bad) == IF bad = None THEN parked ELSE parked \cup {bad}

\* _COOLDOWN_S have passed.
CoolDown(p) ==
    /\ p \in parked
    /\ parked' = parked \ {p}
    /\ UNCHANGED <<scraper, public, ptask>>

-----------------------------------------------------------------------------
\* A task goes to the door of _refresh_cookies(), whence it returns to `then`; or it
\* sends its n-th GET through the session s, live if that is open.
ToRefresh(then) == [pc |-> "lock", then |-> then]
Get(n, s) == [pc |-> "get", n |-> n, live |-> s.open]
Set(t, state) == task' = [task EXCEPT ![t] = state]

\* connect(), called with dead the parked proxies.
Build_PickTwice(t, dead, then) ==
    /\ \E p, q \in Alive(dead) :
          /\ proxy' = p
          /\ session' = [via |-> q, open |-> TRUE]
    /\ abandoned' = FALSE
    /\ Set(t, ToRefresh(then))

Build(t, dead, then) ==
    /\ \E p \in Alive(dead) :
          /\ proxy' = p
          /\ session' = [via |-> p, open |-> TRUE]
    /\ abandoned' = FALSE
    /\ Set(t, ToRefresh(then))

\* fetch_quote(): connect() if need be, then cookies if need be, then the first GET.
Fetch(t) ==
    /\ task[t] = Idle
    /\ IF connected
       THEN /\ Set(t, IF fresh THEN Get(1, session) ELSE ToRefresh("get1"))
            /\ UNCHANGED <<session, proxy, abandoned>>
       ELSE Build(t, parked, "connect")
    /\ UNCHANGED <<parked, connected, fresh, lock, public, ptask>>

\* health_check(): one GET, and nothing if there is no connection.
HealthCheck(t) ==
    /\ task[t] = Idle /\ connected
    /\ Set(t, IF fresh THEN Get(0, session) ELSE ToRefresh("get0"))
    /\ UNCHANGED <<parked, session, proxy, connected, fresh, lock, abandoned, public, ptask>>

\* Where a task goes after _refresh_cookies(), which left the cookies fresh or not.
\* A connect() is over; _ensure_fresh_cookies() follows it.
Returned(t, f) ==
    LET then == task[t].then IN
    /\ connected' = (connected \/ then \in {"connect", "reconnect"})
    /\ Set(t, CASE then = "get0" -> Get(0, session)
                [] then = "connect" -> IF f THEN Get(1, session) ELSE ToRefresh("get1")
                [] then = "get1" -> Get(1, session)
                [] then = "get2" -> Get(2, session)
                [] then = "reconnect" -> IF f THEN Get(3, session) ELSE ToRefresh("get3")
                [] then = "get3" -> Get(3, session))

\* _refresh_cookies() takes the lock; cookies that are fresh by then are kept.
Refresh(t) ==
    /\ task[t].pc = "lock" /\ lock = None
    /\ IF fresh
       THEN Returned(t, TRUE) /\ UNCHANGED lock
       ELSE lock' = t /\ Set(t, [pc |-> "home", then |-> task[t].then, live |-> session.open]) /\ UNCHANGED connected
    /\ UNCHANGED <<parked, session, proxy, fresh, abandoned, public, ptask>>

\* The homepage, or the browser after a 403, gave cookies (got) or did not.  A GET
\* of a closed session can only raise.
Home(t, got) ==
    /\ task[t].pc = "home" /\ task[t].live
    /\ lock' = None
    /\ fresh' = got
    /\ Returned(t, got)
    /\ UNCHANGED <<parked, session, proxy, abandoned, public, ptask>>

\* The call ends.
End(t) == task' = [task EXCEPT ![t] = Idle]

\* The GET of the homepage raised: ProviderError.
HomeRaises(t) ==
    /\ task[t].pc = "home"
    /\ lock' = None
    /\ End(t)
    /\ UNCHANGED <<parked, session, proxy, connected, fresh, abandoned, public, ptask>>

\* The answer to a GET.  A first 403 leads to _refresh_cookies() and a second GET; a
\* second one to _rotate_session(), if there is another proxy, and a third GET.
Answered(t, how) ==
    LET n == task[t].n IN
    /\ task[t].pc = "get" /\ (how = "raised" \/ task[t].live)
    /\ CASE how = "refused" /\ n = 1 ->
              Set(t, ToRefresh("get2")) /\ UNCHANGED <<parked, session>>
         [] how = "refused" /\ n = 2 /\ Cardinality(Proxies) > 1 ->
              /\ parked' = Parked(proxy)
              /\ session' = [session EXCEPT !.open = FALSE]
              /\ Set(t, [pc |-> "close"])
         [] OTHER -> End(t) /\ UNCHANGED <<parked, session>>
    /\ UNCHANGED <<proxy, connected, fresh, lock, abandoned, public, ptask>>

\* _rotate_session() after close(): everything is reset, then connect().
Rebuild_Connected(t) ==
    /\ task[t].pc = "close"
    /\ fresh' = FALSE
    /\ IF connected THEN session' = None /\ Set(t, ToRefresh("reconnect")) /\ UNCHANGED <<proxy, abandoned>>
       ELSE Build(t, parked, "reconnect")
    /\ UNCHANGED <<parked, connected, lock, public, ptask>>

Rebuild(t) ==
    /\ task[t].pc = "close"
    /\ fresh' = FALSE
    /\ connected' = FALSE
    /\ Build(t, parked, "reconnect")
    /\ UNCHANGED <<parked, lock, public, ptask>>

\* The call is cancelled: it gives _lock back and leaves all else as it is.  Only
\* Exception is caught around close(), so the session it was closing stays in place.
Cancel(t) ==
    /\ task[t] # Idle
    /\ lock' = IF lock = t THEN None ELSE lock
    /\ abandoned' = (abandoned \/ (task[t].pc = "close" /\ ~session.open))
    /\ End(t)
    /\ UNCHANGED <<parked, session, proxy, connected, fresh, public, ptask>>

\* The cookies are past their interval.
CookiesAge ==
    /\ fresh
    /\ fresh' = FALSE
    /\ UNCHANGED <<parked, session, proxy, connected, lock, task, abandoned, public, ptask>>

-----------------------------------------------------------------------------
\* NSEPublic: _nse_json() makes several attempts, fetch_indices() one.
MaxAttempts == IF Cardinality(Proxies) > 1 THEN Min({Cardinality(Proxies), 3}) ELSE 1

\* _ensure_session() builds a session if there is none; its GET of the homepage may
\* fail.
PublicBuild(t, left) ==
    /\ \E p \in Alive(parked) : public' = [session |-> [via |-> p, open |-> TRUE], proxy |-> p]
    /\ ptask' = [ptask EXCEPT ![t] = [pc |-> "warm", left |-> left]]

PublicGet(t, left) ==
    ptask' = [ptask EXCEPT ![t] = [pc |-> "get", left |-> left, live |-> public.session.open]]

PublicCall(t, attempts) ==
    /\ ptask[t] = Idle
    /\ attempts \in {1, MaxAttempts}
    /\ IF public.session = None THEN PublicBuild(t, attempts)
       ELSE PublicGet(t, attempts) /\ UNCHANGED public
    /\ UNCHANGED <<parked, scraper>>

PublicWarm(t) ==
    /\ ptask[t].pc = "warm"
    /\ PublicGet(t, ptask[t].left)
    /\ UNCHANGED <<parked, scraper, public>>

\* A block or an error: _rotate_session(), while there are attempts left.
PublicAnswered(t, how) ==
    /\ ptask[t].pc = "get" /\ (how = "raised" \/ ptask[t].live)
    /\ IF how \in {"refused", "raised"} /\ ptask[t].left > 1
       THEN /\ parked' = Parked(public.proxy)
            /\ public' = [public EXCEPT !.session.open = FALSE]
            /\ ptask' = [ptask EXCEPT ![t] = [pc |-> "close", left |-> @.left - 1]]
       ELSE /\ ptask' = [ptask EXCEPT ![t] = Idle]
            /\ UNCHANGED <<parked, public>>
    /\ UNCHANGED scraper

PublicRebuild(t) ==
    /\ ptask[t].pc = "close"
    /\ PublicBuild(t, ptask[t].left)
    /\ UNCHANGED <<parked, scraper>>

\* The call is cancelled; a session it was closing stays in place, and the next block
\* or error of a call with attempts left replaces it.
PublicCancel(t) ==
    /\ ptask[t] # Idle
    /\ ptask' = [ptask EXCEPT ![t] = Idle]
    /\ UNCHANGED <<parked, scraper, public>>

-----------------------------------------------------------------------------
Hows == {"ok", "refused", "other", "raised"}

Step(t) ==
    \/ Refresh(t)
    \/ \E got \in BOOLEAN : Home(t, got)
    \/ HomeRaises(t)
    \/ \E how \in Hows : Answered(t, how)
    \/ Rebuild(t)

PublicStep(t) ==
    \/ PublicWarm(t)
    \/ \E how \in Hows : PublicAnswered(t, how)
    \/ PublicRebuild(t)

Next ==
    \/ \E t \in Tasks : Fetch(t) \/ HealthCheck(t) \/ Step(t) \/ Cancel(t)
    \/ \E t \in PublicTasks :
          PublicCall(t, 1) \/ PublicCall(t, MaxAttempts) \/ PublicStep(t) \/ PublicCancel(t)
    \/ \E p \in Proxies : CoolDown(p)
    \/ CookiesAge

Spec == Init /\ [][Next]_vars

\* Every GET is answered or times out, and asyncio.Lock serves its waiters in turn.
FairSpec ==
    /\ Spec
    /\ \A t \in Tasks : SF_vars(Step(t))
    /\ \A t \in PublicTasks : WF_vars(PublicStep(t))

-----------------------------------------------------------------------------
\* Sessions go through proxies of the list, and tasks are where a task can be.
TypeOK ==
    /\ parked \subseteq Proxies
    /\ session # None => session \in Session
    /\ proxy \in Proxies \cup {None}
    /\ connected \in BOOLEAN /\ fresh \in BOOLEAN /\ abandoned \in BOOLEAN
    /\ lock \in Tasks \cup {None}
    /\ \A t \in Tasks : task[t].pc \in {"idle", "lock", "home", "get", "close"}
    /\ \A t \in PublicTasks : ptask[t].pc \in {"idle", "warm", "get", "close"}

\* A session goes out through the proxy that would be parked for it: _proxy and the
\* proxy of _session are the same, whichever calls overlap in connect().
RoutesThroughItsProxy ==
    /\ session # None => session.via = proxy
    /\ public.session # None => public.session.via = public.proxy

\* Whatever calls overlap in connect() and _rotate_session() or are cancelled, the
\* scraper is never left connected without a session; and if it is left connected with
\* a closed one, which nothing would ever replace, then the very rotation that closed
\* it was cancelled in close().  No late connect() and no other cancellation does that.
QuietIsUsable ==
    /\ connected => session # None
    /\ connected /\ (\A t \in Tasks : task[t].pc # "close") => session.open \/ abandoned

\* However many calls find the cookies stale, one fetches them: the homepage is
\* never fetched while the cookies are fresh, nor twice at a time.
RefreshOnce ==
    /\ \A t \in Tasks : task[t].pc = "home" => ~fresh /\ lock = t
    /\ lock # None => task[lock].pc = "home"

\* Every call ends: no call waits for ever for _lock or goes round in retries.
EveryFetchEnds ==
    /\ \A t \in Tasks : task[t] # Idle ~> task[t] = Idle
    /\ \A t \in PublicTasks : ptask[t] # Idle ~> ptask[t] = Idle

\* What every state satisfies: the types, the proxy that would be blamed being the one
\* in use, and one refresh of the cookies for all who need it.
ScraperInv == TypeOK /\ RoutesThroughItsProxy /\ RefreshOnce
=============================================================================
