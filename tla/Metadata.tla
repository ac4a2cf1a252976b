------------------------------ MODULE Metadata ------------------------------
(***************************************************************************)
(* What requests do with the resolver and the archives.  _enrich_meta() of *)
(* src/api/endpoints/superbrain.py resolves a symbol it does not know,     *)
(* asks for its ISIN and, without a sector, for its details; batch quotes  *)
(* and curves resolve a symbol; archive quotes, details and the BSE        *)
(* scraper load a file.  All but the resolver and the ISIN go through the  *)
(* providers that MarketDataService._controller() builds once, under a     *)
(* lock of its own, and that connecting the NSE archive loads its file.    *)
(***************************************************************************)
EXTENDS Tickertape, Archives

CONSTANT Ready

\* A request is a call of the resolver and of the archives; there are two archives.
ASSUME MetadataAssumption ==
    /\ Callers = Tasks /\ Loaders \ {NSE} # {}
    /\ Ready \notin Tasks \cup Loaders \cup {None, "isin", "details"}

VARIABLES
    further,     \* what each request may go on to ask: the ISIN, the details, a source, or
                 \* (Ready) whatever it wants of the providers
    service      \* MarketDataService: None, the task that builds it with its lock, or Ready

vars == <<ttVars, arVars, further, service>>

BSE == CHOOSE v \in Loaders : v # NSE

Init == TtInit /\ ArInit /\ further = [t \in Tasks |-> None] /\ service = None

Waiting(t) == res[t] # NoCall \/ call[t] # Out
Idle(t) == ~Waiting(t) /\ further[t] = None
MayAsk(t, x) == further' = [further EXCEPT ![t] = x]

\* resolve() for batch quotes or a curve, or for _enrich_meta() of a symbol without an
\* entry, which goes on.
Begin(t, s) ==
    /\ Idle(t)
    /\ Resolve(t, s)
    /\ MayAsk(t, "isin")
    /\ UNCHANGED <<arVars, service>>

\* t has what it waited for, and may ask x next.
Asks(t, x) == ~Waiting(t) /\ further[t] = x

\* _controller() without providers: to its lock.
NeedService(t) ==
    /\ service # Ready /\ (Idle(t) \/ Asks(t, "details"))
    /\ MayAsk(t, Ready)
    /\ UNCHANGED <<ttVars, arVars, service>>

\* With the lock: the providers are made and connected, of which the NSE archive loads
\* its file and no other waits for a lock.
BuildService(t) ==
    /\ service = None /\ Asks(t, Ready)
    /\ service' = t
    /\ Ensure(t, NSE)
    /\ UNCHANGED <<ttVars, further>>

ServiceBuilt(t) ==
    /\ service = t /\ call[t] = Out
    /\ service' = Ready
    /\ UNCHANGED <<ttVars, arVars, further>>

\* _controller() has the providers.
Served(t) == service = Ready /\ (Idle(t) \/ Asks(t, Ready))

\* connect() of an archive that is not connected loads its file; every call then makes
\* sure of it.
Load(t, v) ==
    /\ Served(t)
    /\ Ensure(t, v)
    /\ MayAsk(t, None)
    /\ UNCHANGED <<ttVars, service>>

\* A quote of a symbol from the NSE bhavcopy, and one from BSE's.
NseQuote(t) == Load(t, NSE)

BseQuote(t) == Load(t, BSE)

\* BSEScraper._resolve_code() of a symbol without a cached code, for a quote, the
\* depth or a curve.
ResolveCode(t) == Load(t, BSE)

\* get_all_snapshot() connects, and so loads, the NSE archive if it is not.
Snapshot(t) == Ensure(t, NSE)

\* /universe and /resolve: the snapshot, then, if anything matches, the ISINs, from the
\* BSE master.
Universe(t, connected) ==
    /\ Served(t)
    /\ IF connected THEN Ensure(t, BSE) ELSE Snapshot(t)
    /\ MayAsk(t, IF connected THEN None ELSE BSE)
    /\ UNCHANGED <<ttVars, service>>

\* get_isin(), from the BSE master; _enrich_meta() without a sector goes on.
AskIsin(t) ==
    /\ Asks(t, "isin")
    /\ Ensure(t, BSE)
    /\ MayAsk(t, "details")
    /\ UNCHANGED <<ttVars, service>>

\* fetch_details() of the NSE archive, which its connect() has loaded, or of the BSE
\* scraper, by the scrip code: a cached one, or the master's.
NseDetails(t) == Ensure(t, NSE)

BseDetails(t) == Ensure(t, BSE) \/ UNCHANGED arVars

SourceDetails(t, v) == IF v = NSE THEN NseDetails(t) ELSE BseDetails(t)

\* get_details() for /details or _enrich_meta(): NSE and then BSE, or BSE and then NSE.
Details(t, v) ==
    /\ Served(t) \/ (service = Ready /\ Asks(t, "details"))
    /\ SourceDetails(t, v)
    /\ MayAsk(t, IF v = NSE THEN BSE ELSE NSE)
    /\ UNCHANGED <<ttVars, service>>

\* The first source had none, or was the snapshot of /universe: the second.
SecondSource(t, v) ==
    /\ Asks(t, v)
    /\ SourceDetails(t, v)
    /\ MayAsk(t, None)
    /\ UNCHANGED <<ttVars, service>>

\* The request has what it wants, a sid, a sector, details or, with the providers, a
\* quote of another: it asks no more.
Done(t) ==
    /\ ~Waiting(t) /\ further[t] # None
    /\ further[t] = Ready => service = Ready
    /\ MayAsk(t, None)
    /\ UNCHANGED <<ttVars, arVars, service>>

\* A request is cancelled at its await.  Providers it was building are dropped, with
\* the file of their NSE archive; the BSE master is the module's own.
Cancel(t) ==
    /\ ~Idle(t)
    /\ TtCancel(t) /\ ArCancel(t)
    /\ MayAsk(t, None)
    /\ IF service = t
       THEN /\ service' = None
            /\ loaded' = [loaded EXCEPT ![NSE] = NoFile]
            /\ rest' = [rest EXCEPT ![NSE] = 0]
       ELSE UNCHANGED <<service, loaded, rest>>

Clock ==
    /\ TtTick /\ ArTick
    /\ UNCHANGED <<sids, listed, mapLock, searchLock, res, loaded, lock, call, further, service>>

Step(t) ==
    \/ TtStep(t) /\ UNCHANGED <<arVars, further, service>>
    \/ ArStep(t) /\ UNCHANGED <<ttVars, further, service>>
    \/ BuildService(t)
    \/ ServiceBuilt(t)
    \/ AskIsin(t)
    \/ \E v \in Loaders : SecondSource(t, v)
    \/ Done(t)

Next ==
    \/ \E t \in Tasks, s \in Symbols : Begin(t, s)
    \/ \E t \in Tasks, v \in Loaders : Details(t, v)
    \/ \E t \in Tasks :
          \/ NseQuote(t)
          \/ BseQuote(t)
          \/ ResolveCode(t)
          \/ \E connected \in BOOLEAN : Universe(t, connected)
          \/ NeedService(t)
          \/ Cancel(t)
    \/ \E t \in Tasks : Step(t)
    \/ Clock

Spec == Init /\ [][Next]_vars

\* Downloads and queries end (they have timeouts), time passes, and asyncio.Lock
\* serves its waiters in turn.
FairSpec ==
    /\ Spec
    /\ \A t \in Tasks : SF_vars(Step(t))
    /\ WF_vars(Clock)

-----------------------------------------------------------------------------
\* Every lock is held by a task or free, and every timer is within its range.
TypeOK ==
    /\ {mapLock, searchLock} \subseteq Tasks \cup {None}
    /\ service \in Tasks \cup {None, Ready}
    /\ gap \in 0 .. MinGap /\ cooldown \in 0 .. Cooldown /\ mapAge \in 0 .. MapTTL
    /\ \A v \in Loaders :
          /\ loaded[v] \in (0 .. MaxDay) \cup {NoFile}
          /\ rest[v] \in 0 .. Hour + Retry

\* Every request ends, whatever downloads and queries fail and whoever is cancelled: each
\* task is idle again and again, since the locks of the map, of /search, of a loader and
\* of the service are always given back.
EveryRequestEnds == \A t \in Tasks : []<>Idle(t)

\* Nobody waits for the lock of the map, of /search or of a loader while holding one of
\* them: each is held exactly by the call that is at the download, the sleep or the query
\* it is held across, and a request is in one call at a time.
NoHolderWaits ==
    \A t \in Tasks :
        /\ mapLock = t <=> At(t, "list")
        /\ searchLock = t <=> At(t, "pace") \/ At(t, "query")
        /\ res[t] = NoCall \/ call[t] = Out

\* The lock of the service comes first: who waits for it holds no other, and who holds
\* it, while the providers connect, waits for no lock but a loader's.
ServiceFirst ==
    \A t \in Tasks :
        /\ further[t] = Ready => res[t] = NoCall /\ (call[t] = Out \/ service = t)
        /\ service = t => further[t] = Ready

\* What every state satisfies: the types, one walk of a loader at a time, /search spared
\* during its gap and its cooldown, and the locks taken in one order.
MetadataInv == TypeOK /\ OneWalkAtATime /\ SearchesSpared /\ NoHolderWaits /\ ServiceFirst

\* The NSE prices that are served never go back to an earlier day's, whatever downloads
\* fail and also if midnight passes during a walk (_ensure_loaded stops at the date it has).
NseNeverGoesBack ==
    [][service = Ready /\ loaded[NSE] # NoFile =>
          loaded'[NSE] # NoFile /\ loaded'[NSE] >= loaded[NSE]]_loaded
=============================================================================
