----------------------------- MODULE Tickertape -----------------------------
(***************************************************************************)
(* The symbol resolver of src/engine/tickertape.py: the cache of sids, the *)
(* daily map of all listed tickers, and /search, which is rate-limited and *)
(* so goes through one lock, at a pace, and not at all for a while after a *)
(* refusal.  Elapsed times count down: `gap` is what is left of            *)
(* _SEARCH_MIN_GAP, `cooldown` of _SEARCH_COOLDOWN_S, `mapAge` the age of  *)
(* the map, capped at its TTL.                                             *)
(***************************************************************************)
EXTENDS Integers

CONSTANTS
    Symbols,
    Seeded,     \* _SID_SEED: the symbols whose sid is built in
    Tasks,      \* concurrent calls
    None,
    MinGap, Cooldown, MapTTL    \* _SEARCH_MIN_GAP, _SEARCH_COOLDOWN_S, _SIDMAP_TTL

ASSUME TickertapeAssumption ==
    /\ Seeded \subseteq Symbols
    /\ None \notin Symbols \cup Tasks
    /\ {MinGap, Cooldown, MapTTL} \subseteq Nat \ {0}

VARIABLES
    sids,        \* _sid_cache and _SID_SEED: the symbols with a sid
    listed,      \* _all_sids: the symbols in the map
    mapAge,      \* time since the map was loaded
    mapLock, searchLock,
    gap, cooldown,
    res          \* where each call of resolve() is

ttVars == <<sids, listed, mapAge, mapLock, searchLock, gap, cooldown, res>>

NoCall == [pc |-> "idle"]

TtInit ==
    /\ sids = Seeded
    /\ listed = {} /\ mapAge = 0
    /\ mapLock = None /\ searchLock = None
    /\ gap = 0 /\ cooldown = 0
    /\ res = [t \in Tasks |-> NoCall]

-----------------------------------------------------------------------------
MapFresh == listed # {} /\ mapAge < MapTTL

At(t, pc) == res[t].pc = pc
Goto(t, pc, s) == res' = [res EXCEPT ![t] = [pc |-> pc, sym |-> s]]
Return(t) == res' = [res EXCEPT ![t] = NoCall]

\* After _ensure_sid_map(): the map's sid, or _search() up to its lock.
LookUp(t, s, map) ==
    \/ s \in map /\ sids' = sids \cup {s} /\ Return(t)
    \/ s \notin map /\ cooldown > 0 /\ Return(t) /\ UNCHANGED sids
    \/ s \notin map /\ cooldown = 0 /\ Goto(t, "search", s) /\ UNCHANGED sids

\* resolve(): what is cached or seeded, the map, /search.
Resolve(t, s) ==
    /\ res[t] = NoCall
    /\ IF s \in sids THEN UNCHANGED <<sids, res>>
       ELSE IF MapFresh THEN LookUp(t, s, listed)
       ELSE Goto(t, "map", s) /\ UNCHANGED sids
    /\ UNCHANGED <<listed, mapAge, mapLock, searchLock, gap, cooldown>>

\* _ensure_sid_map() has its lock, and looks again before it asks for the list.
LockMap(t) ==
    /\ At(t, "map") /\ mapLock = None
    /\ IF MapFresh THEN LookUp(t, res[t].sym, listed) /\ UNCHANGED mapLock
       ELSE mapLock' = t /\ Goto(t, "list", res[t].sym) /\ UNCHANGED sids
    /\ UNCHANGED <<listed, mapAge, searchLock, gap, cooldown>>

\* The list arrives with the symbols L; an empty or failed one leaves the old map.
MapArrives(t, L) ==
    /\ At(t, "list")
    /\ mapLock' = None
    /\ listed' = (IF L = {} THEN listed ELSE L)
    /\ mapAge' = (IF L = {} THEN mapAge ELSE 0)
    /\ LookUp(t, res[t].sym, listed')
    /\ UNCHANGED <<searchLock, gap, cooldown>>

\* _search() has its lock: it gives up if the API refused somebody meanwhile, and
\* sleeps off the gap.
LockSearch_NoRecheck(t) ==
    /\ At(t, "search") /\ searchLock = None
    /\ searchLock' = t
    /\ Goto(t, IF gap > 0 THEN "pace" ELSE "query", res[t].sym)
    /\ UNCHANGED <<sids, listed, mapAge, mapLock, gap, cooldown>>

LockSearch(t) ==
    /\ At(t, "search") /\ searchLock = None
    /\ IF cooldown > 0 THEN Return(t) /\ UNCHANGED searchLock
       ELSE /\ searchLock' = t
            /\ Goto(t, IF gap > 0 THEN "pace" ELSE "query", res[t].sym)
    /\ UNCHANGED <<sids, listed, mapAge, mapLock, gap, cooldown>>

Paced(t) ==
    /\ At(t, "pace") /\ gap = 0
    /\ Goto(t, "query", res[t].sym)
    /\ UNCHANGED <<sids, listed, mapAge, mapLock, searchLock, gap, cooldown>>

\* _get_raw(): a request of /search is refused with 403, or it fails, or has no stocks,
\* or has some.
Replies == {"refused", "none", "stocks"}

\* /search answers.  The stock whose ticker is the symbol is preferred, else the first
\* is taken; its sid is kept for good.
SearchArrives(t, reply) ==
    /\ At(t, "query")
    /\ searchLock' = None
    /\ gap' = MinGap
    /\ cooldown' = (IF reply = "refused" THEN Cooldown ELSE cooldown)
    /\ sids' = (IF reply = "stocks" THEN sids \cup {res[t].sym} ELSE sids)
    /\ Return(t)
    /\ UNCHANGED <<listed, mapAge, mapLock>>

\* A cancelled call gives back the lock it has.  A cancelled query leaves the pace as it
\* was: _last_search_ts is only set once it ends.
TtCancel(t) ==
    /\ Return(t)
    /\ mapLock' = (IF mapLock = t THEN None ELSE mapLock)
    /\ searchLock' = (IF searchLock = t THEN None ELSE searchLock)
    /\ UNCHANGED <<sids, listed, mapAge, gap, cooldown>>

TtTick ==
    /\ gap' = IF gap > 0 THEN gap - 1 ELSE 0
    /\ cooldown' = IF cooldown > 0 THEN cooldown - 1 ELSE 0
    /\ mapAge' = IF listed # {} /\ mapAge < MapTTL THEN mapAge + 1 ELSE mapAge

TtStep(t) ==
    \/ LockMap(t)
    \/ \E L \in {{}} \cup {K \cup Seeded : K \in SUBSET Symbols} : MapArrives(t, L)
    \/ LockSearch(t)
    \/ Paced(t)
    \/ \E reply \in Replies : SearchArrives(t, reply)

-----------------------------------------------------------------------------
\* "serialize + pace /search through one lock; on 403, cooldown — stop calling
\* /search" (tickertape.py): a query is under way only if none has ended within the gap
\* or been refused within the cooldown, and there is one at a time.
SearchesSpared ==
    \A t \in Tasks : At(t, "query") => gap = 0 /\ cooldown = 0 /\ searchLock = t
=============================================================================
