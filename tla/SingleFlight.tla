---------------------------- MODULE SingleFlight ----------------------------
(***************************************************************************)
(* What sharing one upstream fetch per key promises, whoever fetches and   *)
(* whatever is cached: a caller joins the flight of each key it asks for,  *)
(* which begins if there is none; it lands for all who joined it at once;  *)
(* and a caller that is cancelled takes the flights it joined, and         *)
(* everybody on one of them, with it.  _live_quote() and its in-flight     *)
(* table (src/api/endpoints/superbrain.py) implement it: see LiveQuotes.   *)
(***************************************************************************)
CONSTANTS Keys, Callers

VARIABLES
    flying,    \* the keys that are being fetched
    joined     \* the flights each caller waits for

flightVars == <<flying, joined>>

Init ==
    /\ flying = {}
    /\ joined = [c \in Callers |-> {}]

Join(c, K) ==
    /\ joined[c] = {}
    /\ flying' = flying \cup K
    /\ joined' = [joined EXCEPT ![c] = K]

Land(k) ==
    /\ k \in flying
    /\ flying' = flying \ {k}
    /\ joined' = [c \in Callers |-> joined[c] \ {k}]

GiveUp(c) ==
    /\ flying' = flying \ joined[c]
    /\ joined' = [d \in Callers |-> IF d = c \/ joined[d] \cap joined[c] # {} THEN {} ELSE joined[d]]

Next ==
    \/ \E c \in Callers : GiveUp(c) \/ \E K \in SUBSET Keys : Join(c, K)
    \/ \E k \in Keys : Land(k)

Spec == Init /\ [][Next]_flightVars
=============================================================================
