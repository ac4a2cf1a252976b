------------------------------- MODULE Failover -------------------------------
(***************************************************************************)
(* The FailoverController of src/engine/failover.py: quote requests that   *)
(* cascade through the providers in priority order, each provider behind   *)
(* its own circuit breaker, with source toggles and provider sessions      *)
(* changing underneath.                                                    *)
(*                                                                         *)
(* A request runs without interruption between two awaits that suspend:    *)
(* provider.connect() and the provider call inside cb.execute().  (The     *)
(* breaker's own coroutines never suspend.)  So an action resumes one      *)
(* request with the outcome of its await and carries it to the next one,   *)
(* through every provider the loop skips on the way.                       *)
(***************************************************************************)
EXTENDS Breaker, FiniteSets

CONSTANTS
    Catalogue,   \* the registered providers, in the order of self._providers
    Requests,    \* tasks that call fetch_quote(), concurrently
    Queries,     \* the argument combinations they use
    Toggles      \* the names the source endpoint is called with

Providers == DOMAIN Catalogue

Last == Cardinality(Providers)

(***************************************************************************)
(* A provider: its name, the keyword its name starts with or contains (or  *)
(* none), its venue, whether it is a delayed feed, and its sort key.       *)
(***************************************************************************)
Keywords == {"nse", "bse", "yahoo"}

Names == {Catalogue[p].name : p \in Providers}

Sources == Keywords \union Names

Venues == {"NSE", "BSE", "BOTH"}

ProviderInfo == [name : Names, family : Keywords \union {"none"}, exchange : Venues, delayed : BOOLEAN, priority : Nat]

Query == [source : Sources \union {"auto"}, live : BOOLEAN,
          exchange : Venues \union {"any"}]

\* register_provider() keeps the list sorted by priority.
ASSUME FailoverAssumption ==
    /\ Last \in Nat
    /\ Providers = 1 .. Last
    /\ \A p \in Providers : Catalogue[p] \in ProviderInfo
    /\ \A p, q \in Providers : p < q => Catalogue[p].priority <= Catalogue[q].priority
    /\ Queries \subseteq Query
    /\ Queries # {}
    /\ Toggles \subseteq Sources

\* The breakers and toggles are kept by name.
ASSUME NamesDistinct == \A p, q \in Providers : Catalogue[p].name = Catalogue[q].name => p = q

VARIABLES
    cb,          \* _circuit_breakers
    enabled,     \* _enabled
    connected,   \* each provider's _is_connected
    pc,          \* where a request is: idle, connect, fetch, served, exhausted
    pos,         \* the provider it is at; Last + 1 when the list is exhausted
    req,         \* its arguments
    usable       \* history: the providers that could have served it all along

vars == <<cb, enabled, connected, pc, pos, req, usable>>

-----------------------------------------------------------------------------
\* _source_match: a provider's own name, or the keyword of its family.
SourceMatch(p, s) == s \in {Catalogue[p].name, Catalogue[p].family}

\* The filters of the cascade that depend on the request alone.
Wanted_AnyDelay(q, p) ==
    /\ q.exchange = "any" \/ Catalogue[p].exchange = q.exchange
    /\ q.source = "auto" \/ SourceMatch(p, q.source)

Wanted(q, p) ==
    /\ q.exchange = "any" \/ Catalogue[p].exchange = q.exchange
    /\ q.source = "auto" \/ SourceMatch(p, q.source)
    /\ ~(q.live /\ Catalogue[p].delayed /\ q.source = "auto")

\* The providers the loop does not skip, from position i on with breakers B.
Candidates(q, i, B) ==
    {p \in Providers : /\ p >= i
                       /\ enabled[p]
                       /\ Wanted(q, p)
                       /\ CanExecute(B[p])}

\* Where the loop stops, past the end when it stops nowhere.
FirstFrom(q, i, B) ==
    IF Candidates(q, i, B) = {}
    THEN Last + 1
    ELSE CHOOSE p \in Candidates(q, i, B) :
            \A o \in Candidates(q, i, B) : p <= o

(***************************************************************************)
(* The loop of fetch_quote() from position i, with the breakers at B.      *)
(* can_execute() reads the state of every provider that passes the other   *)
(* filters.  At the provider where it stops the request awaits connect()   *)
(* or, if connected, enters execute().                                     *)
(***************************************************************************)
Resume(r, q, i, B) ==
    LET stop == FirstFrom(q, i, B)
    IN  /\ pos' = [pos EXCEPT ![r] = stop]
        /\ pc' = [pc EXCEPT ![r] = IF stop = Last + 1 THEN "exhausted"
                                   ELSE IF connected[stop] THEN "fetch"
                                   ELSE "connect"]
        /\ cb' = [p \in Providers |->
                    IF p = stop /\ connected[p] THEN Admitted(B[p])
                    ELSE IF /\ i <= p /\ p <= stop
                            /\ enabled[p] /\ Wanted(q, p)
                         THEN StateRead(B[p])
                    ELSE B[p]]

(***************************************************************************)
(* The history: a provider stays usable for a request while it is enabled, *)
(* its breaker admits calls and it has not failed this request.            *)
(***************************************************************************)
StillUsable(failures) ==
    usable' = [r \in Requests |->
                 {p \in usable[r] : /\ enabled'[p] /\ CanExecute(cb'[p])
                                    /\ <<r, p>> \notin failures}]

\* What an idle request holds; nothing reads it.
NoQuery == CHOOSE q \in Queries : TRUE

-----------------------------------------------------------------------------
Init ==
    /\ cb = [p \in Providers |-> NewBreaker]
    /\ enabled = [p \in Providers |-> TRUE]
    /\ connected \in [Providers -> BOOLEAN]   \* connect_all() may fail for some
    /\ pc = [r \in Requests |-> "idle"]
    /\ pos = [r \in Requests |-> 1]
    /\ req = [r \in Requests |-> NoQuery]
    /\ usable = [r \in Requests |-> {}]

\* fetch_quote(q) up to its first await.
Begin(r, q) ==
    /\ pc[r] = "idle"
    /\ req' = [req EXCEPT ![r] = q]
    /\ Resume(r, q, 1, cb)
    /\ usable' = [x \in Requests |->
                    {p \in IF x = r THEN Providers ELSE usable[x] :
                        enabled[p] /\ CanExecute(cb'[p])}]
    /\ UNCHANGED <<enabled, connected>>

\* connect() returned: execute() asks the breaker again, not the toggle.
ConnectOk_NoRecheck(r) ==
    /\ pc[r] = "connect"
    /\ connected' = [connected EXCEPT ![pos[r]] = TRUE]
    /\ cb' = [cb EXCEPT ![pos[r]] = Admitted(cb[pos[r]])]
    /\ pc' = [pc EXCEPT ![r] = "fetch"]
    /\ UNCHANGED <<enabled, pos, req>>
    /\ StillUsable({})

ConnectOk(r) ==
    /\ pc[r] = "connect"
    /\ connected' = [connected EXCEPT ![pos[r]] = TRUE]
    /\ \/ /\ CanExecute(cb[pos[r]])
          /\ cb' = [cb EXCEPT ![pos[r]] = Admitted(cb[pos[r]])]
          /\ pc' = [pc EXCEPT ![r] = "fetch"]
          /\ UNCHANGED pos
       \/ /\ ~CanExecute(cb[pos[r]])   \* CircuitOpenError
          /\ Resume(r, req[r], pos[r] + 1, cb)
    /\ UNCHANGED <<enabled, req>>
    /\ StillUsable({})

\* connect() raised: the breaker counts a failure, the cascade goes on.
ConnectFails(r) ==
    /\ pc[r] = "connect"
    /\ Resume(r, req[r], pos[r] + 1, [cb EXCEPT ![pos[r]] = RecordFailure(@)])
    /\ UNCHANGED <<enabled, connected, req>>
    /\ StillUsable({<<r, pos[r]>>})

FetchOk(r) ==
    /\ pc[r] = "fetch"
    /\ cb' = [cb EXCEPT ![pos[r]] = RecordSuccess(@)]
    /\ pc' = [pc EXCEPT ![r] = "served"]
    /\ UNCHANGED <<enabled, connected, pos, req>>
    /\ StillUsable({})

\* The provider raised ProviderError: execute() recorded it.
FetchFails_Stops(r) ==
    /\ pc[r] = "fetch"
    /\ cb' = [cb EXCEPT ![pos[r]] = RecordFailure(@)]
    /\ pc' = [pc EXCEPT ![r] = "exhausted"]
    /\ pos' = [pos EXCEPT ![r] = Last + 1]
    /\ UNCHANGED <<enabled, connected, req>>
    /\ StillUsable({<<r, pos[r]>>})

FetchFails(r) ==
    /\ pc[r] = "fetch"
    /\ Resume(r, req[r], pos[r] + 1, [cb EXCEPT ![pos[r]] = RecordFailure(@)])
    /\ UNCHANGED <<enabled, connected, req>>
    /\ StillUsable({<<r, pos[r]>>})

\* Any other exception is recorded by execute() and by fetch_quote() again.
FetchRaises(r) ==
    /\ pc[r] = "fetch"
    /\ Resume(r, req[r], pos[r] + 1,
              [cb EXCEPT ![pos[r]] = RecordFailure(RecordFailure(@))])
    /\ UNCHANGED <<enabled, connected, req>>
    /\ StillUsable({<<r, pos[r]>>})

\* The task is cancelled at its await; no except clause sees CancelledError.
Cancelled(r) ==
    /\ pc[r] \in {"connect", "fetch"}
    /\ pc' = [pc EXCEPT ![r] = "idle"]
    /\ pos' = [pos EXCEPT ![r] = 1]
    /\ req' = [req EXCEPT ![r] = NoQuery]
    /\ UNCHANGED <<cb, enabled, connected>>
    /\ StillUsable({r} \X Providers)

\* The caller takes the tick, or the ProviderError "All providers failed".
Return(r) ==
    /\ pc[r] \in {"served", "exhausted"}
    /\ pc' = [pc EXCEPT ![r] = "idle"]
    /\ pos' = [pos EXCEPT ![r] = 1]
    /\ req' = [req EXCEPT ![r] = NoQuery]
    /\ UNCHANGED <<cb, enabled, connected>>
    /\ StillUsable({r} \X Providers)

(***************************************************************************)
(* A fetch whose provider answers 403 twice rebuilds its session: it is    *)
(* not connected while connect() runs, and if connect() raises stays so.   *)
(***************************************************************************)
RotateSession(r) ==
    /\ pc[r] = "fetch"
    /\ connected' = [connected EXCEPT ![pos[r]] = ~@]
    /\ UNCHANGED <<cb, enabled, pc, pos, req, usable>>

-----------------------------------------------------------------------------
\* set_enabled(s, v): one provider or a whole family.
SetEnabled(s, v) ==
    /\ enabled' = [p \in Providers |-> IF SourceMatch(p, s) THEN v ELSE enabled[p]]
    /\ UNCHANGED <<cb, connected, pc, pos, req>>
    /\ StillUsable({})

\* test_provider(), snapshots: connect outside the cascade.
TestProvider(p) ==
    /\ connected' = [connected EXCEPT ![p] = TRUE]
    /\ UNCHANGED <<cb, enabled, pc, pos, req, usable>>

\* One provider's turn in health_check_all(): its health_check() may connect it,
\* then cb.state is read, whether the check succeeded or not.
HealthCheck(p) ==
    /\ \E c \in {connected[p], TRUE} : connected' = [connected EXCEPT ![p] = c]
    /\ cb' = [cb EXCEPT ![p] = StateRead(@)]
    /\ UNCHANGED <<enabled, pc, pos, req>>
    /\ StillUsable({})

\* list_status() reads every breaker's state, without an await between them.
ListStatus ==
    /\ cb' = [p \in Providers |-> StateRead(cb[p])]
    /\ UNCHANGED <<enabled, connected, pc, pos, req>>
    /\ StillUsable({})

Tick ==
    /\ \E p \in Providers : cb[p].since < Expired
    /\ cb' = [p \in Providers |-> Age(cb[p])]
    /\ UNCHANGED <<enabled, connected, pc, pos, req>>
    /\ StillUsable({})

Next ==
    \/ \E r \in Requests : \/ \E q \in Queries : Begin(r, q)
                           \/ ConnectOk(r)
                           \/ ConnectFails(r)
                           \/ FetchOk(r)
                           \/ FetchFails(r)
                           \/ FetchRaises(r)
                           \/ Cancelled(r)
                           \/ Return(r)
                           \/ RotateSession(r)
    \/ \E s \in Toggles, v \in BOOLEAN : SetEnabled(s, v)
    \/ \E p \in Providers : TestProvider(p) \/ HealthCheck(p)
    \/ ListStatus
    \/ Tick

Spec == Init /\ [][Next]_vars

-----------------------------------------------------------------------------
TypeOK ==
    /\ cb \in [Providers -> BreakerRecord]
    /\ enabled \in [Providers -> BOOLEAN]
    /\ connected \in [Providers -> BOOLEAN]
    /\ pc \in [Requests -> {"idle", "connect", "fetch", "served", "exhausted"}]
    /\ pos \in [Requests -> 1 .. Last + 1]
    /\ req \in [Requests -> Queries]
    /\ usable \in [Requests -> SUBSET Providers]
    /\ \A r \in Requests : pc[r] \in {"connect", "fetch", "served"} => pos[r] \in Providers

(***************************************************************************)
(* "Tries each provider in priority order": wherever a request is, or was  *)
(* served, or gave up, no better provider that passes its filters was      *)
(* usable all the while, that is enabled, with a breaker that admits       *)
(* calls, and without a failure of this request.  In particular "All       *)
(* providers failed" is never raised past a provider that was fit.         *)
(***************************************************************************)
BestUsableFirst ==
    \A r \in Requests : pc[r] # "idle" =>
        \A p \in usable[r] : Wanted(req[r], p) => pos[r] <= p

(***************************************************************************)
(* "live quotes only ever come from NSE/BSE, never Yahoo" (failover.py     *)
(* line 77), and a pinned request never flips venue: whatever the cascade  *)
(* went through, what serves is on the pinned venue, and a live request    *)
(* with no forced source is not served by a delayed feed.                  *)
(***************************************************************************)
ServedAsAsked ==
    \A r \in Requests : pc[r] = "served" =>
        /\ req[r].exchange # "any" => Catalogue[pos[r]].exchange = req[r].exchange
        /\ req[r].live /\ req[r].source = "auto" => ~Catalogue[pos[r]].delayed

\* The requests that are inside provider p's execute().
InFlight(p) == {r \in Requests : pc[r] = "fetch" /\ pos[r] = p}

CB(p) == INSTANCE CircuitBreaker
            WITH cb <- cb[p], running <- InFlight(p),
                 Calls <- Requests, Cancellable <- Requests

(***************************************************************************)
(* The cascade uses each breaker only as the breaker allows: seen from     *)
(* provider p, every step of the controller, reading several breakers,     *)
(* failing at one and entering the next, is a step of CircuitBreaker.      *)
(* (\A p \in Providers : CB(p)!SpecBreaker, with the quantifier moved      *)
(* inside the box, the form TLC checks.)                                   *)
(***************************************************************************)
CascadeUsesBreakers ==
    /\ \A p \in Providers : CB(p)!InitBreaker
    /\ [][ \A p \in Providers :
              CB(p)!NextBreaker \/ UNCHANGED <<cb[p], InFlight(p)>> ]_vars

(***************************************************************************)
(* What every state satisfies: the types, and requests served as asked.    *)
(***************************************************************************)
FailoverInv == TypeOK /\ ServedAsAsked
=============================================================================
