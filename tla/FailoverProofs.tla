--------------------------- MODULE FailoverProofs ---------------------------
(***************************************************************************)
(* Proofs about the failover cascade, for every catalogue of providers,    *)
(* every set of concurrent requests and every setting of the breakers; and *)
(* about the sample stream, which keeps the sources the cascade switches   *)
(* between apart and claims no volume twice, for any number of fetching    *)
(* tasks and sources.                                                      *)
(***************************************************************************)
EXTENDS Failover, SampleStream, BreakerLemmas, WellFoundedInduction

USE BreakerAssumption, FailoverAssumption

(***************************************************************************)
(* The inductive invariant.  FailoverInv itself is not inductive: a        *)
(* request is served as asked because it is only ever at a provider that   *)
(* passed its filters, and the breakers stay in their range because they   *)
(* stay good.                                                              *)
(***************************************************************************)
AtWantedProvider ==
    \A r \in Requests : pc[r] \in {"connect", "fetch", "served"} => Wanted(req[r], pos[r])

CascadeInv ==
    /\ TypeOK
    /\ \A p \in Providers : GoodBreaker(cb[p])
    /\ AtWantedProvider

-----------------------------------------------------------------------------
\* A non-empty set of numbers, such as the candidates of the loop, has a least.
LEMMA LeastExists ==
    ASSUME NEW S \in SUBSET Nat, S # {}
    PROVE  \E m \in S : \A n \in S : m <= n
<1> DEFINE R == OpToRel(<, Nat)
<1>1. IsWellFoundedOn(R, Nat)
  BY NatLessThanWellFounded, Zenon
<1>2. \A x, y \in Nat : x < y => <<x, y>> \in R
  BY DEF OpToRel
<1> HIDE DEF R
<1>3. PICK m \in S : \A n \in S : ~ (<<n, m>> \in R)
  BY <1>1, WFMin
<1>4. \A n \in S : n \in Nat /\ m \in Nat
  OBVIOUS
<1>5. \A n \in S : ~(n < m)
  BY <1>2, <1>3, <1>4
<1> QED
  BY <1>4, <1>5

\* can_execute() gives the same answer again: reading the state is idempotent.
LEMMA CanExecuteAgain ==
    ASSUME NEW b, GoodBreaker(b)
    PROVE  CanExecute(StateRead(b)) <=> CanExecute(b)
<1>1. StateRead(StateRead(b)) = StateRead(b)
  <2>1. CASE b.state = "OPEN" /\ b.since > RecoveryTimeout
    <3>1. StateRead(b).state = "HALF_OPEN"
      BY <2>1 DEF StateRead, GoodBreaker, BreakerRecord
    <3> QED
      BY <3>1 DEF StateRead
  <2>2. CASE ~(b.state = "OPEN" /\ b.since > RecoveryTimeout)
    BY <2>2 DEF StateRead
  <2> QED
    BY <2>1, <2>2
<1> QED
  BY <1>1 DEF CanExecute

(***************************************************************************)
(* Where the loop of fetch_quote() stops: at the first candidate, or past  *)
(* the end if and only if there is none.                                   *)
(***************************************************************************)
LEMMA FirstFromLands ==
    ASSUME NEW q, NEW i, NEW B
    PROVE  /\ FirstFrom(q, i, B) \in 1 .. Last + 1
           /\ FirstFrom(q, i, B) # Last + 1 => FirstFrom(q, i, B) \in Candidates(q, i, B)
           /\ \A p \in Candidates(q, i, B) : FirstFrom(q, i, B) <= p
<1> DEFINE C == Candidates(q, i, B)
<1>1. C \in SUBSET (1 .. Last) /\ C \in SUBSET Nat /\ Last \in Nat
  BY DEF Candidates
<1>2. FirstFrom(q, i, B) = IF C = {} THEN Last + 1 ELSE CHOOSE p \in C : \A o \in C : p <= o
  BY DEF FirstFrom
<1> HIDE DEF C
<1>3. CASE C = {}
  BY <1>1, <1>2, <1>3 DEF C
<1>4. CASE C # {}
  <2>1. \E p \in C : \A o \in C : p <= o
    BY <1>1, <1>4, LeastExists
  <2>2. FirstFrom(q, i, B) \in C /\ \A o \in C : FirstFrom(q, i, B) <= o
    BY <1>2, <1>4, <2>1
  <2> QED
    BY <1>1, <2>2 DEF C
<1> QED
  BY <1>3, <1>4

(***************************************************************************)
(* What a run of the loop does, from position i with the breakers at B:    *)
(* the request lands on the best candidate, or past the end, and a breaker *)
(* is entered there, or read on the way, or left alone.                    *)
(***************************************************************************)
Landed(r, q, i, B) ==
    /\ pos' = [pos EXCEPT ![r] = pos'[r]] /\ pos'[r] \in 1 .. Last + 1
    /\ pc' = [pc EXCEPT ![r] = pc'[r]] /\ pc'[r] \in {"connect", "fetch", "exhausted"}
    /\ pc'[r] # "exhausted" => pos'[r] \in Candidates(q, i, B)
    /\ \A p \in Candidates(q, i, B) : pos'[r] <= p
    /\ cb' \in [Providers -> BreakerRecord]
    /\ \A p \in Providers : GoodBreaker(cb'[p])
    /\ \A p \in Providers :
          \/ /\ p = pos'[r] /\ pc'[r] = "fetch"
             /\ cb'[p] = Admitted(B[p]) /\ CanExecute(B[p])
          \/ /\ ~(p = pos'[r] /\ pc'[r] = "fetch")
             /\ cb'[p] \in {B[p], StateRead(B[p])}
    /\ \A p \in Providers : p < i => cb'[p] = B[p] /\ pos'[r] # p

\* Resume does that.
LEMMA ResumeLands ==
    ASSUME TypeOK, NEW r \in Requests, NEW q, NEW i \in 1 .. Last + 1, NEW B,
           \A p \in Providers : GoodBreaker(B[p]), Resume(r, q, i, B)
    PROVE  Landed(r, q, i, B)
<1> DEFINE stop == FirstFrom(q, i, B)
           go == IF stop = Last + 1 THEN "exhausted" ELSE IF connected[stop] THEN "fetch" ELSE "connect"
           C == Candidates(q, i, B)
<1>0. Last \in Nat /\ Providers = 1 .. Last
  OBVIOUS
<1>1. /\ stop \in 1 .. Last + 1
      /\ stop # Last + 1 => stop \in C
      /\ \A p \in C : stop <= p
  BY FirstFromLands
<1>2. \A p \in C : p \in Providers /\ p >= i /\ CanExecute(B[p])
  BY DEF Candidates
<1>3. pos' = [pos EXCEPT ![r] = stop] /\ pc' = [pc EXCEPT ![r] = go]
  BY DEF Resume
<1>4. \A p \in Providers :
         cb'[p] = IF p = stop /\ connected[p] THEN Admitted(B[p])
                  ELSE IF /\ i <= p /\ p <= stop
                          /\ enabled[p] /\ Wanted(q, p)
                       THEN StateRead(B[p])
                  ELSE B[p]
  BY DEF Resume
<1>4a. cb' = [p \in Providers |-> cb'[p]]
  BY DEF Resume
<1> HIDE DEF stop, C
<1>5. pos'[r] = stop /\ pc'[r] = go
  BY <1>3 DEF TypeOK
<1>6. go \in {"connect", "fetch", "exhausted"} /\ (go = "exhausted" <=> stop = Last + 1)
  OBVIOUS
<1>7. \A p \in Providers : (p = stop /\ go = "fetch") <=> (p = stop /\ connected[p])
  BY <1>0, <1>1
<1> HIDE DEF go
<1>8. ASSUME NEW p \in Providers
      PROVE  \/ /\ p = stop /\ go = "fetch"
                /\ cb'[p] = Admitted(B[p]) /\ CanExecute(B[p])
             \/ /\ ~(p = stop /\ go = "fetch")
                /\ cb'[p] \in {B[p], StateRead(B[p])}
  BY <1>0, <1>1, <1>2, <1>4, <1>7
<1>9. \A p \in Providers : GoodBreaker(cb'[p])
  BY <1>8, AdmittedGood, StateReadGood
<1>10. cb' \in [Providers -> BreakerRecord]
  BY <1>4a, <1>9 DEF GoodBreaker
<1>11. ASSUME NEW p \in Providers, p < i PROVE cb'[p] = B[p] /\ stop # p
  BY <1>0, <1>1, <1>2, <1>4, <1>11
<1> QED
  BY <1>1, <1>3, <1>5, <1>6, <1>8, <1>9, <1>10, <1>11 DEF Landed, C

\* The history only shrinks, and what stays in it is enabled and admits calls.
LEMMA StillUsableShrinks ==
    ASSUME TypeOK, NEW F, StillUsable(F)
    PROVE  /\ usable' \in [Requests -> SUBSET Providers]
           /\ \A x \in Requests : \A p \in usable'[x] :
                 p \in usable[x] /\ enabled'[p] /\ CanExecute(cb'[p]) /\ <<x, p>> \notin F
BY DEF TypeOK, StillUsable

-----------------------------------------------------------------------------
\* A run of the loop leaves the request at a provider it wants, or past the end.
LEMMA LandedInv ==
    ASSUME CascadeInv, NEW r \in Requests, NEW q \in Queries, NEW i, NEW B,
           Landed(r, q, i, B), req' = [req EXCEPT ![r] = q], enabled' = enabled,
           connected' \in [Providers -> BOOLEAN], usable' \in [Requests -> SUBSET Providers]
    PROVE  CascadeInv'
<1>1. \A p \in Candidates(q, i, B) : p \in Providers /\ Wanted(q, p)
  BY DEF Candidates
<1>2. /\ pc' \in [Requests -> {"idle", "connect", "fetch", "served", "exhausted"}]
      /\ pos' \in [Requests -> 1 .. Last + 1]
      /\ req' \in [Requests -> Queries] /\ req'[r] = q
  <2>1. ASSUME NEW n, n \in 1 .. Last + 1 PROVE [pos EXCEPT ![r] = n] \in [Requests -> 1 .. Last + 1]
    BY <2>1 DEF CascadeInv, TypeOK
  <2>2. ASSUME NEW n, n \in {"connect", "fetch", "exhausted"}
        PROVE  [pc EXCEPT ![r] = n] \in [Requests -> {"idle", "connect", "fetch", "served", "exhausted"}]
    BY <2>2 DEF CascadeInv, TypeOK
  <2>3. pos' \in [Requests -> 1 .. Last + 1]
    BY <2>1, Zenon DEF Landed
  <2>4. pc' \in [Requests -> {"idle", "connect", "fetch", "served", "exhausted"}]
    BY <2>2, Zenon DEF Landed
  <2>5. req' \in [Requests -> Queries] /\ req'[r] = q
    BY DEF CascadeInv, TypeOK
  <2> QED
    BY <2>3, <2>4, <2>5
<1>3. \A x \in Requests \ {r} : pc'[x] = pc[x] /\ pos'[x] = pos[x] /\ req'[x] = req[x]
  BY DEF CascadeInv, TypeOK, Landed
<1>4. pc'[r] \in {"connect", "fetch", "served"} => pos'[r] \in Providers /\ Wanted(q, pos'[r])
  BY <1>1 DEF Landed
<1>5. TypeOK'
  BY <1>2, <1>3, <1>4 DEF CascadeInv, TypeOK, Landed
<1>6. AtWantedProvider'
  <2> SUFFICES ASSUME NEW x \in Requests, pc'[x] \in {"connect", "fetch", "served"}
               PROVE  Wanted(req'[x], pos'[x])
    BY DEF AtWantedProvider, Wanted, SourceMatch
  <2>1. CASE x = r
    BY <1>2, <1>4, <2>1
  <2>2. CASE x # r
    BY <1>3, <2>2 DEF CascadeInv, AtWantedProvider
  <2> QED
    BY <2>1, <2>2
<1> QED
  BY <1>5, <1>6 DEF CascadeInv, Landed, GoodBreaker

\* The invariant holds at first.
LEMMA CascadeInvInit == Init => CascadeInv
<1> SUFFICES ASSUME Init PROVE CascadeInv
  OBVIOUS
<1>1. GoodBreaker(NewBreaker) /\ NewBreaker \in BreakerRecord
  BY NewBreakerGood DEF GoodBreaker
<1>2. NoQuery \in Queries
  BY DEF NoQuery
<1> QED
  BY <1>1, <1>2 DEF Init, CascadeInv, TypeOK, AtWantedProvider

\* Every step of a request, of the endpoints and of the clock preserves it.
LEMMA CascadeInvNext == CascadeInv /\ [Next]_vars => CascadeInv'
<1> SUFFICES ASSUME CascadeInv, [Next]_vars PROVE CascadeInv'
  OBVIOUS
<1> USE DEF CascadeInv
<1>0. NoQuery \in Queries
  BY DEF NoQuery
<1>1. ASSUME NEW r \in Requests, NEW q \in Queries, Begin(r, q) PROVE CascadeInv'
  <2>1. Landed(r, q, 1, cb)
    BY <1>1, ResumeLands DEF Begin
  <2>2. usable' \in [Requests -> SUBSET Providers]
    BY <1>1 DEF Begin, TypeOK
  <2> QED
    BY <1>1, <2>1, <2>2, LandedInv DEF Begin, TypeOK
<1>2. ASSUME NEW r \in Requests, ConnectOk(r) PROVE CascadeInv'
  <2>0. pos[r] \in Providers /\ pos[r] + 1 \in 1 .. Last + 1 /\ req[r] \in Queries
    BY <1>2 DEF ConnectOk, TypeOK
  <2>1. connected' \in [Providers -> BOOLEAN] /\ enabled' = enabled
    BY <1>2 DEF ConnectOk, TypeOK
  <2>2. usable' \in [Requests -> SUBSET Providers]
    BY <1>2, StillUsableShrinks DEF ConnectOk
  <2>3. CASE ~CanExecute(cb[pos[r]])
    <3>1. Landed(r, req[r], pos[r] + 1, cb)
      BY <1>2, <2>0, <2>3, ResumeLands DEF ConnectOk
    <3>2. req' = [req EXCEPT ![r] = req[r]]
      BY <1>2 DEF ConnectOk, TypeOK
    <3> QED
      BY <2>0, <2>1, <2>2, <3>1, <3>2, LandedInv
  <2>4. CASE CanExecute(cb[pos[r]])
    <3>1. GoodBreaker(Admitted(cb[pos[r]]))
      BY <2>0, <2>4, AdmittedGood
    <3>2. /\ cb' = [cb EXCEPT ![pos[r]] = Admitted(cb[pos[r]])]
          /\ pc[r] = "connect" /\ pc' = [pc EXCEPT ![r] = "fetch"] /\ UNCHANGED <<pos, req>>
      BY <1>2, <2>4 DEF ConnectOk
    <3>3. cb' \in [Providers -> BreakerRecord] /\ \A p \in Providers : GoodBreaker(cb'[p])
      BY <2>0, <3>1, <3>2 DEF TypeOK, GoodBreaker
    <3>4. TypeOK'
      BY <2>0, <2>1, <2>2, <3>2, <3>3 DEF TypeOK
    <3>5. AtWantedProvider'
      BY <3>2 DEF AtWantedProvider, TypeOK
    <3> QED
      BY <3>3, <3>4, <3>5 DEF GoodBreaker
  <2> QED
    BY <2>3, <2>4
<1>3. ASSUME NEW r \in Requests, NEW b, GoodBreaker(b), pc[r] \in {"connect", "fetch"},
             Resume(r, req[r], pos[r] + 1, [cb EXCEPT ![pos[r]] = b]),
             UNCHANGED <<enabled, connected, req>>, StillUsable({<<r, pos[r]>>})
      PROVE  CascadeInv'
  <2> DEFINE B == [cb EXCEPT ![pos[r]] = b]
  <2>0. pos[r] \in Providers /\ pos[r] + 1 \in 1 .. Last + 1 /\ req[r] \in Queries
    BY <1>3 DEF TypeOK
  <2>1. \A p \in Providers : GoodBreaker(B[p])
    BY <1>3 DEF TypeOK
  <2>2. Resume(r, req[r], pos[r] + 1, B)
    BY <1>3
  <2> HIDE DEF B
  <2>3. Landed(r, req[r], pos[r] + 1, B)
    BY <2>0, <2>1, <2>2, ResumeLands
  <2>4. req' = [req EXCEPT ![r] = req[r]] /\ usable' \in [Requests -> SUBSET Providers]
        /\ enabled' = enabled /\ connected' \in [Providers -> BOOLEAN]
    BY <1>3, StillUsableShrinks DEF TypeOK
  <2> QED
    BY <2>0, <2>3, <2>4, LandedInv
<1>4. ASSUME NEW r \in Requests, ConnectFails(r) PROVE CascadeInv'
  <2>1. GoodBreaker(RecordFailure(cb[pos[r]]))
    BY <1>4, RecordFailureGood DEF ConnectFails, TypeOK
  <2> QED
    BY <1>3, <1>4, <2>1 DEF ConnectFails
<1>5. ASSUME NEW r \in Requests, FetchFails(r) PROVE CascadeInv'
  <2>1. GoodBreaker(RecordFailure(cb[pos[r]]))
    BY <1>5, RecordFailureGood DEF FetchFails, TypeOK
  <2> QED
    BY <1>3, <1>5, <2>1 DEF FetchFails
<1>6. ASSUME NEW r \in Requests, FetchRaises(r) PROVE CascadeInv'
  <2>1. GoodBreaker(RecordFailure(RecordFailure(cb[pos[r]])))
    BY <1>6, RecordFailureGood DEF FetchRaises, TypeOK
  <2> QED
    BY <1>3, <1>6, <2>1 DEF FetchRaises
<1>7. ASSUME NEW r \in Requests, FetchOk(r) PROVE CascadeInv'
  <2>0. pos[r] \in Providers
    BY <1>7 DEF FetchOk, TypeOK
  <2>1. GoodBreaker(RecordSuccess(cb[pos[r]]))
    BY <2>0, RecordSuccessGood
  <2>2. cb' \in [Providers -> BreakerRecord] /\ \A p \in Providers : GoodBreaker(cb'[p])
    BY <1>7, <2>0, <2>1 DEF FetchOk, TypeOK, GoodBreaker
  <2>3. usable' \in [Requests -> SUBSET Providers]
    BY <1>7, StillUsableShrinks DEF FetchOk
  <2>4. TypeOK' /\ AtWantedProvider'
    BY <1>7, <2>0, <2>2, <2>3 DEF FetchOk, AtWantedProvider, TypeOK
  <2> QED
    BY <2>2, <2>4 DEF GoodBreaker
<1>8. ASSUME NEW r \in Requests, Cancelled(r) \/ Return(r) PROVE CascadeInv'
  <2>1. usable' \in [Requests -> SUBSET Providers]
    BY <1>8, StillUsableShrinks DEF Cancelled, Return
  <2>2. 1 \in 1 .. Last + 1
    OBVIOUS
  <2>3. /\ pc' = [pc EXCEPT ![r] = "idle"] /\ pos' = [pos EXCEPT ![r] = 1]
        /\ req' = [req EXCEPT ![r] = NoQuery] /\ UNCHANGED <<cb, enabled, connected>>
    BY <1>8 DEF Cancelled, Return
  <2>4. TypeOK'
    BY <1>0, <2>1, <2>2, <2>3 DEF TypeOK
  <2>5. AtWantedProvider'
    BY <2>3 DEF AtWantedProvider, TypeOK
  <2> QED
    BY <2>3, <2>4, <2>5 DEF GoodBreaker
<1>9. ASSUME NEW r \in Requests, RotateSession(r) PROVE CascadeInv'
  BY <1>9 DEF RotateSession, AtWantedProvider, TypeOK, GoodBreaker
<1>10. ASSUME NEW s \in Toggles, NEW v \in BOOLEAN, SetEnabled(s, v) PROVE CascadeInv'
  <2>1. usable' \in [Requests -> SUBSET Providers]
    BY <1>10, StillUsableShrinks DEF SetEnabled
  <2>2. enabled' \in [Providers -> BOOLEAN]
    BY <1>10 DEF SetEnabled, TypeOK
  <2> QED
    BY <1>10, <2>1, <2>2 DEF SetEnabled, AtWantedProvider, TypeOK, GoodBreaker
<1>11. ASSUME NEW p \in Providers, TestProvider(p) PROVE CascadeInv'
  BY <1>11 DEF TestProvider, AtWantedProvider, TypeOK, GoodBreaker
<1>12. ASSUME \A p \in Providers : GoodBreaker(cb'[p]), cb' = [p \in Providers |-> cb'[p]],
              UNCHANGED <<enabled, pc, pos, req>>, connected' \in [Providers -> BOOLEAN],
              StillUsable({})
       PROVE  CascadeInv'
  <2>1. usable' \in [Requests -> SUBSET Providers]
    BY <1>12, StillUsableShrinks
  <2>2. cb' \in [Providers -> BreakerRecord]
    BY <1>12 DEF GoodBreaker
  <2> QED
    BY <1>12, <2>1, <2>2 DEF AtWantedProvider, TypeOK, GoodBreaker
<1>13. ASSUME NEW p \in Providers, HealthCheck(p) PROVE CascadeInv'
  <2>1. GoodBreaker(StateRead(cb[p]))
    BY StateReadGood
  <2> QED
    BY <1>12, <1>13, <2>1 DEF HealthCheck, TypeOK
<1>14. CASE ListStatus
  <2>1. \A p \in Providers : GoodBreaker(StateRead(cb[p]))
    BY StateReadGood
  <2> QED
    BY <1>12, <1>14, <2>1 DEF ListStatus, TypeOK
<1>15. CASE Tick
  <2>1. \A p \in Providers : GoodBreaker(Age(cb[p]))
    BY AgeGood
  <2> QED
    BY <1>12, <1>15, <2>1 DEF Tick, TypeOK
<1>16. CASE UNCHANGED vars
  BY <1>16 DEF vars, AtWantedProvider, TypeOK, GoodBreaker
<1> QED
  BY <1>1, <1>2, <1>4, <1>5, <1>6, <1>7, <1>8, <1>9, <1>10, <1>11, <1>13, <1>14, <1>15, <1>16 DEF Next

(***************************************************************************)
(* FailoverInv of the run: every state is well typed, every provider of a  *)
(* served request passes its filters: the pinned venue, and no delayed     *)
(* feed for a live quote (fetch_quote).                                    *)
(***************************************************************************)
THEOREM FailoverSafe == Spec => []FailoverInv
<1>1. CascadeInv => FailoverInv
  <2> SUFFICES ASSUME CascadeInv, NEW r \in Requests, pc[r] = "served"
               PROVE  /\ req[r].exchange # "any" => Catalogue[pos[r]].exchange = req[r].exchange
                      /\ req[r].live /\ req[r].source = "auto" => ~Catalogue[pos[r]].delayed
    BY DEF CascadeInv, FailoverInv, ServedAsAsked
  <2>1. Wanted(req[r], pos[r])
    BY DEF CascadeInv, AtWantedProvider
  <2> QED
    BY <2>1 DEF Wanted
<1> QED
  BY <1>1, CascadeInvInit, CascadeInvNext, PTL DEF Spec

-----------------------------------------------------------------------------
(***************************************************************************)
(* A run of the loop passes no provider that is usable after it: each one  *)
(* from position i on was a candidate, and those before it were not usable.*)
(***************************************************************************)
LEMMA LandedIsBest ==
    ASSUME CascadeInv, BestUsableFirst, NEW r \in Requests, NEW q, NEW i \in 1 .. Last + 1, NEW B,
           \A p \in Providers : GoodBreaker(B[p]), Landed(r, q, i, B),
           req' = [req EXCEPT ![r] = q], enabled' = enabled,
           usable' \in [Requests -> SUBSET Providers],
           \A x \in Requests \ {r} : usable'[x] \subseteq usable[x],
           \A p \in usable'[r] : enabled[p] /\ CanExecute(cb'[p]) /\ (Wanted(q, p) => i <= p)
    PROVE  BestUsableFirst'
<1>1. SUFFICES ASSUME NEW x \in Requests, pc'[x] # "idle", NEW p \in usable'[x], Wanted(req'[x], p)
               PROVE  pos'[x] <= p
  BY DEF BestUsableFirst, Wanted, SourceMatch
<1>2. CASE x # r
  <2>1. pc'[x] = pc[x] /\ pos'[x] = pos[x] /\ req'[x] = req[x] /\ p \in usable[x]
    BY <1>1, <1>2 DEF Landed, CascadeInv, TypeOK
  <2> QED
    BY <1>1, <2>1 DEF BestUsableFirst
<1>3. CASE x = r
  <2>1. p \in Providers /\ req'[r] = q
    BY <1>1, <1>3 DEF CascadeInv, TypeOK
  <2>2. Wanted(q, p) /\ enabled[p] /\ CanExecute(cb'[p]) /\ i <= p
    BY <1>1, <1>3, <2>1
  <2>3. CanExecute(B[p])
    BY <2>1, <2>2, CanExecuteAgain DEF Landed
  <2>4. p \in Candidates(q, i, B)
    BY <2>1, <2>2, <2>3 DEF Candidates
  <2> QED
    BY <1>3, <2>4 DEF Landed
<1> QED
  BY <1>2, <1>3

\* No step puts a request past a provider that stays usable.
LEMMA BestUsableNext == CascadeInv /\ BestUsableFirst /\ [Next]_vars => BestUsableFirst'
<1> SUFFICES ASSUME CascadeInv, BestUsableFirst, [Next]_vars PROVE BestUsableFirst'
  OBVIOUS
<1>0. TypeOK /\ \A p \in Providers : GoodBreaker(cb[p])
  BY DEF CascadeInv
<1>1. ASSUME NEW r \in Requests, NEW q \in Queries, Begin(r, q) PROVE BestUsableFirst'
  <2>1. Landed(r, q, 1, cb)
    BY <1>0, <1>1, ResumeLands DEF Begin
  <2>2. usable' = [x \in Requests |-> {p \in IF x = r THEN Providers ELSE usable[x] :
                                          enabled[p] /\ CanExecute(cb'[p])}]
    BY <1>1 DEF Begin
  <2>3. \A p \in Providers : 1 <= p
    OBVIOUS
  <2>4. /\ usable' \in [Requests -> SUBSET Providers]
        /\ \A x \in Requests \ {r} : usable'[x] \subseteq usable[x]
        /\ \A p \in usable'[r] : enabled[p] /\ CanExecute(cb'[p]) /\ 1 <= p
    BY <1>0, <2>2, <2>3 DEF TypeOK
  <2>5. 1 \in 1 .. Last + 1
    OBVIOUS
  <2> QED
    BY <1>0, <1>1, <2>1, <2>4, <2>5, LandedIsBest DEF Begin
<1>2. ASSUME NEW r \in Requests, NEW B, NEW F, \A p \in Providers : GoodBreaker(B[p]),
             pc[r] \in {"connect", "fetch"}, Resume(r, req[r], pos[r] + 1, B),
             UNCHANGED <<enabled, req>>, StillUsable(F),
             <<r, pos[r]>> \in F \/ ~CanExecute(B[pos[r]])
      PROVE  BestUsableFirst'
  <2>0. pos[r] \in Providers /\ pos[r] + 1 \in 1 .. Last + 1
    BY <1>0, <1>2 DEF TypeOK
  <2>1. Landed(r, req[r], pos[r] + 1, B)
    BY <1>0, <1>2, <2>0, ResumeLands
  <2>2. /\ usable' \in [Requests -> SUBSET Providers]
        /\ \A x \in Requests : \A p \in usable'[x] :
              p \in usable[x] /\ enabled'[p] /\ CanExecute(cb'[p]) /\ <<x, p>> \notin F
    BY <1>0, <1>2, StillUsableShrinks
  <2>3. ASSUME NEW p \in usable'[r], Wanted(req[r], p) PROVE pos[r] + 1 <= p
    <3>1. p \in Providers /\ p \in usable[r] /\ CanExecute(cb'[p]) /\ <<r, p>> \notin F
      BY <2>2
    <3>2. pos[r] <= p
      BY <1>2, <2>3, <3>1 DEF BestUsableFirst
    <3>3. cb'[pos[r]] = B[pos[r]]
      BY <2>0, <2>1 DEF Landed
    <3>4. p # pos[r]
      BY <1>2, <3>1, <3>3
    <3> QED
      BY <2>0, <3>1, <3>2, <3>4
  <2>4. req' = [req EXCEPT ![r] = req[r]] /\ enabled' = enabled
    BY <1>0, <1>2 DEF TypeOK
  <2>5. /\ \A x \in Requests \ {r} : usable'[x] \subseteq usable[x]
        /\ \A p \in usable'[r] :
              enabled[p] /\ CanExecute(cb'[p]) /\ (Wanted(req[r], p) => pos[r] + 1 <= p)
    BY <2>2, <2>3, <2>4
  <2> QED
    BY <1>2, <2>0, <2>1, <2>2, <2>4, <2>5, LandedIsBest
<1>3. ASSUME NEW r \in Requests, NEW b, GoodBreaker(b), pc[r] \in {"connect", "fetch"},
             Resume(r, req[r], pos[r] + 1, [cb EXCEPT ![pos[r]] = b]),
             UNCHANGED <<enabled, req>>, StillUsable({<<r, pos[r]>>})
      PROVE  BestUsableFirst'
  <2> DEFINE B == [cb EXCEPT ![pos[r]] = b]
  <2>1. \A p \in Providers : GoodBreaker(B[p])
    BY <1>0, <1>3 DEF TypeOK
  <2>2. Resume(r, req[r], pos[r] + 1, B)
    BY <1>3
  <2> HIDE DEF B
  <2> QED
    BY <1>2, <1>3, <2>1, <2>2
<1>4. ASSUME NEW r \in Requests, ConnectFails(r) \/ FetchFails(r) \/ FetchRaises(r)
      PROVE  BestUsableFirst'
  <2>1. /\ GoodBreaker(RecordFailure(cb[pos[r]]))
        /\ GoodBreaker(RecordFailure(RecordFailure(cb[pos[r]])))
    BY <1>0, <1>4, RecordFailureGood DEF ConnectFails, FetchFails, FetchRaises, TypeOK
  <2> QED
    BY <1>3, <1>4, <2>1 DEF ConnectFails, FetchFails, FetchRaises
<1>5. ASSUME UNCHANGED req, StillUsable({}), UNCHANGED pos,
             \A r \in Requests : pc[r] = "idle" => pc'[r] = "idle"
      PROVE  BestUsableFirst'
  <2>1. SUFFICES ASSUME NEW x \in Requests, pc'[x] # "idle", NEW p \in usable'[x], Wanted(req'[x], p)
                 PROVE  pos'[x] <= p
    BY DEF BestUsableFirst, Wanted, SourceMatch
  <2>2. p \in usable[x] /\ req'[x] = req[x] /\ pos'[x] = pos[x] /\ pc[x] # "idle"
    BY <1>0, <1>5, <2>1, StillUsableShrinks
  <2> QED
    BY <2>1, <2>2 DEF BestUsableFirst
<1>6. ASSUME NEW r \in Requests, ConnectOk(r) PROVE BestUsableFirst'
  <2>1. CASE ~CanExecute(cb[pos[r]])
    BY <1>0, <1>2, <1>6, <2>1 DEF ConnectOk
  <2>2. CASE CanExecute(cb[pos[r]])
    <3>1. pc[r] = "connect" /\ pc' = [pc EXCEPT ![r] = "fetch"] /\ UNCHANGED <<pos, req>> /\ StillUsable({})
      BY <1>6, <2>2 DEF ConnectOk
    <3>2. \A x \in Requests : pc[x] = "idle" => pc'[x] = "idle"
      BY <1>0, <3>1 DEF TypeOK
    <3> QED
      BY <1>5, <3>1, <3>2
  <2> QED
    BY <2>1, <2>2
<1>7. ASSUME NEW r \in Requests, FetchOk(r) PROVE BestUsableFirst'
  <2>1. \A x \in Requests : pc[x] = "idle" => pc'[x] = "idle"
    BY <1>0, <1>7 DEF FetchOk, TypeOK
  <2> QED
    BY <1>5, <1>7, <2>1 DEF FetchOk
<1>8. ASSUME NEW r \in Requests, Cancelled(r) \/ Return(r) PROVE BestUsableFirst'
  <2>1. SUFFICES ASSUME NEW x \in Requests, pc'[x] # "idle", NEW p \in usable'[x], Wanted(req'[x], p)
                 PROVE  pos'[x] <= p
    BY DEF BestUsableFirst, Wanted, SourceMatch
  <2>2. /\ pc' = [pc EXCEPT ![r] = "idle"] /\ pos' = [pos EXCEPT ![r] = 1]
        /\ req' = [req EXCEPT ![r] = NoQuery]
    BY <1>8 DEF Cancelled, Return
  <2>3. x # r /\ pc'[x] = pc[x] /\ pos'[x] = pos[x] /\ req'[x] = req[x]
    BY <1>0, <2>1, <2>2 DEF TypeOK
  <2>4. p \in usable[x]
    BY <1>0, <1>8, <2>1, StillUsableShrinks DEF Cancelled, Return
  <2> QED
    BY <2>1, <2>3, <2>4 DEF BestUsableFirst
<1>9. ASSUME UNCHANGED <<pc, pos, req, usable>> PROVE BestUsableFirst'
  BY <1>9 DEF BestUsableFirst, Wanted, SourceMatch
<1>10. ASSUME NEW s \in Toggles, NEW v \in BOOLEAN, SetEnabled(s, v) PROVE BestUsableFirst'
  BY <1>5, <1>10 DEF SetEnabled
<1>11. ASSUME NEW p \in Providers, HealthCheck(p) PROVE BestUsableFirst'
  BY <1>5, <1>11 DEF HealthCheck
<1>12. CASE ListStatus \/ Tick
  BY <1>5, <1>12 DEF ListStatus, Tick
<1>13. ASSUME NEW r \in Requests, RotateSession(r) PROVE BestUsableFirst'
  BY <1>9, <1>13 DEF RotateSession
<1>14. ASSUME NEW p \in Providers, TestProvider(p) PROVE BestUsableFirst'
  BY <1>9, <1>14 DEF TestProvider
<1>15. CASE UNCHANGED vars
  BY <1>9, <1>15 DEF vars
<1> QED
  BY <1>1, <1>4, <1>6, <1>7, <1>8, <1>10, <1>11, <1>12, <1>13, <1>14, <1>15 DEF Next

(***************************************************************************)
(* "Tries each provider in priority order", for every catalogue: wherever  *)
(* a request is, served or out of providers, no better one was usable all  *)
(* along.                                                                  *)
(***************************************************************************)
THEOREM BestProviderFirst == Spec => []BestUsableFirst
<1>1. Init => BestUsableFirst
  BY DEF Init, BestUsableFirst
<1> QED
  BY <1>1, CascadeInvInit, CascadeInvNext, BestUsableNext, PTL DEF Spec

-----------------------------------------------------------------------------
\* What provider p's breaker sees of a step: a step of CircuitBreaker, or nothing.
BreakerStep(p) == CB(p)!NextBreaker \/ UNCHANGED <<cb[p], InFlight(p)>>

\* CircuitBreaker, as Failover instantiates it, has the methods of this breaker.
LEMMA SameMethods ==
    ASSUME NEW p, NEW b
    PROVE  /\ CB(p)!NewBreaker = NewBreaker
           /\ CB(p)!Expired = Expired
           /\ CB(p)!StateRead(b) = StateRead(b)
           /\ CB(p)!CanExecute(b) <=> CanExecute(b)
           /\ CB(p)!Admitted(b) = Admitted(b)
           /\ CB(p)!RecordSuccess(b) = RecordSuccess(b)
           /\ CB(p)!RecordFailure(b) = RecordFailure(b)
           /\ CB(p)!Age(b) = Age(b)
<1>1. CB(p)!Expired = Expired
  BY Zenon DEF CB!Expired, Expired
<1>2. CB(p)!NewBreaker = NewBreaker
  BY <1>1, Zenon DEF CB!NewBreaker, NewBreaker
<1>3. CB(p)!StateRead(b) = StateRead(b)
  BY Zenon DEF CB!StateRead, StateRead
<1>4. CB(p)!CanExecute(b) <=> CanExecute(b)
  BY <1>3, Zenon DEF CB!CanExecute, CanExecute
<1>5. CB(p)!Admitted(b) = Admitted(b)
  BY <1>3, Zenon DEF CB!Admitted, Admitted
<1>6. CB(p)!RecordSuccess(b) = RecordSuccess(b)
  BY Zenon DEF CB!RecordSuccess, RecordSuccess
<1>7. CB(p)!Age(b) = Age(b)
  BY <1>1, Zenon DEF CB!Age, Age, CB!Least, Least
<1>8. CB(p)!RecordFailure(b) = RecordFailure(b)
  BY Zenon DEF CB!RecordFailure, RecordFailure, CB!Failed, Failed, CB!Least, Least
<1> QED
  BY <1>1, <1>2, <1>3, <1>4, <1>5, <1>6, <1>7, <1>8

(***************************************************************************)
(* A run of the loop, seen from a provider whose breaker it did not touch  *)
(* before it and that the request is not inside of: its breaker is         *)
(* entered, or read, or left alone.                                        *)
(***************************************************************************)
LEMMA LandedIsBreakerStep ==
    ASSUME CascadeInv, NEW r \in Requests, NEW q, NEW i, NEW B, Landed(r, q, i, B),
           NEW p \in Providers, B[p] = cb[p], r \notin InFlight(p)
    PROVE  BreakerStep(p)
<1>1. \A x \in Requests \ {r} : pc'[x] = pc[x] /\ pos'[x] = pos[x]
  BY DEF Landed, CascadeInv, TypeOK
<1>2. CASE p = pos'[r] /\ pc'[r] = "fetch"
  <2>1. InFlight(p)' = InFlight(p) \union {r}
    BY <1>1, <1>2 DEF InFlight
  <2>2. cb'[p] = Admitted(cb[p]) /\ CanExecute(cb[p])
    BY <1>2 DEF Landed
  <2>3. CB(p)!Admit(r)
    BY <2>1, <2>2, SameMethods DEF CB!Admit
  <2> QED
    BY <2>3 DEF BreakerStep, CB!NextBreaker
<1>3. CASE ~(p = pos'[r] /\ pc'[r] = "fetch")
  <2>1. InFlight(p)' = InFlight(p)
    BY <1>1, <1>3 DEF InFlight
  <2>2. cb'[p] \in {cb[p], StateRead(cb[p])}
    BY <1>3 DEF Landed
  <2>3. CASE cb'[p] = cb[p]
    BY <2>1, <2>3 DEF BreakerStep
  <2>4. CASE cb'[p] = StateRead(cb[p])
    BY <2>1, <2>4, SameMethods DEF BreakerStep, CB!NextBreaker, CB!ReadState
  <2> QED
    BY <2>2, <2>3, <2>4
<1> QED
  BY <1>2, <1>3

\* Where no request enters or leaves a provider, its breaker may be read or grow older.
LEMMA QuietBreakerStep ==
    ASSUME NEW p \in Providers, UNCHANGED <<pc, pos>>,
           \/ cb'[p] \in {cb[p], StateRead(cb[p])}
           \/ cb[p].since < Expired /\ cb'[p] = Age(cb[p])
    PROVE  BreakerStep(p)
<1>1. InFlight(p)' = InFlight(p)
  BY DEF InFlight
<1>2. CASE cb'[p] = cb[p]
  BY <1>1, <1>2 DEF BreakerStep
<1>3. CASE cb'[p] = StateRead(cb[p])
  BY <1>1, <1>3, SameMethods DEF BreakerStep, CB!NextBreaker, CB!ReadState
<1>4. CASE cb[p].since < Expired /\ cb'[p] = Age(cb[p])
  BY <1>1, <1>4, SameMethods DEF BreakerStep, CB!NextBreaker, CB!Tick
<1> QED
  BY <1>2, <1>3, <1>4

\* Every step of the controller is a step of each breaker's specification.
LEMMA EveryStepIsBreakerStep ==
    ASSUME CascadeInv, [Next]_vars, NEW p \in Providers
    PROVE  BreakerStep(p)
<1>0. TypeOK /\ (\A o \in Providers : GoodBreaker(cb[o]))
  BY DEF CascadeInv
<1>1. ASSUME NEW r \in Requests, NEW q \in Queries, Begin(r, q) PROVE BreakerStep(p)
  <2>1. Landed(r, q, 1, cb)
    BY <1>0, <1>1, ResumeLands DEF Begin
  <2>2. r \notin InFlight(p)
    BY <1>1 DEF Begin, InFlight
  <2> QED
    BY <2>1, <2>2, LandedIsBreakerStep
<1>2. ASSUME NEW r \in Requests, NEW b, GoodBreaker(b), pc[r] \in {"connect", "fetch"},
             Resume(r, req[r], pos[r] + 1, [cb EXCEPT ![pos[r]] = b]),
             pc[r] = "connect" => b = RecordFailure(cb[pos[r]]),
             pc[r] = "fetch" => b = RecordFailure(cb[pos[r]]) \/ b = RecordFailure(RecordFailure(cb[pos[r]]))
      PROVE  BreakerStep(p)
  <2> DEFINE B == [cb EXCEPT ![pos[r]] = b]
  <2>0. pos[r] \in Providers /\ pos[r] + 1 \in 1 .. Last + 1
    BY <1>0, <1>2 DEF TypeOK
  <2>1. /\ \A o \in Providers : GoodBreaker(B[o])
        /\ B[pos[r]] = b
        /\ p # pos[r] => B[p] = cb[p]
    BY <1>0, <1>2, <2>0 DEF TypeOK
  <2>2. Resume(r, req[r], pos[r] + 1, B)
    BY <1>2
  <2> HIDE DEF B
  <2>3. Landed(r, req[r], pos[r] + 1, B)
    BY <1>0, <2>0, <2>1, <2>2, ResumeLands
  <2>4. CASE p # pos[r]
    <3>1. r \notin InFlight(p)
      BY <2>4 DEF InFlight
    <3> QED
      BY <2>1, <2>3, <2>4, <3>1, LandedIsBreakerStep
  <2>5. CASE p = pos[r]
    <3>1. cb'[p] = b /\ pos'[r] # p
      BY <2>0, <2>1, <2>3, <2>5 DEF Landed
    <3>2. \A x \in Requests \ {r} : pc'[x] = pc[x] /\ pos'[x] = pos[x]
      BY <1>0, <2>3 DEF Landed, TypeOK
    <3>3. InFlight(p)' = InFlight(p) \ {r}
      BY <3>1, <3>2 DEF InFlight
    <3>4. CASE pc[r] = "connect"
      <4>1. InFlight(p)' = InFlight(p)
        BY <3>3, <3>4 DEF InFlight
      <4>2. CB(p)!ConnectFailure
        BY <1>2, <2>5, <3>1, <3>4, <4>1, SameMethods DEF CB!ConnectFailure
      <4> QED
        BY <4>2 DEF BreakerStep, CB!NextBreaker
    <3>5. CASE pc[r] = "fetch"
      <4>1. r \in InFlight(p)
        BY <2>5, <3>5 DEF InFlight
      <4>2. CB(p)!Fail(r) \/ CB(p)!FailUnexpected(r)
        BY <1>2, <2>5, <3>1, <3>3, <3>5, <4>1, SameMethods DEF CB!Fail, CB!FailUnexpected
      <4> QED
        BY <4>2 DEF BreakerStep, CB!NextBreaker
    <3> QED
      BY <1>2, <3>4, <3>5
  <2> QED
    BY <2>4, <2>5
<1>3. ASSUME NEW r \in Requests, ConnectFails(r) \/ FetchFails(r) \/ FetchRaises(r)
      PROVE  BreakerStep(p)
  <2>1. /\ GoodBreaker(RecordFailure(cb[pos[r]]))
        /\ GoodBreaker(RecordFailure(RecordFailure(cb[pos[r]])))
    BY <1>0, <1>3, RecordFailureGood DEF ConnectFails, FetchFails, FetchRaises, TypeOK
  <2> QED
    BY <1>2, <1>3, <2>1 DEF ConnectFails, FetchFails, FetchRaises
<1>4. ASSUME NEW r \in Requests, ConnectOk(r) PROVE BreakerStep(p)
  <2>0. pc[r] = "connect" /\ pos[r] \in Providers /\ pos[r] + 1 \in 1 .. Last + 1
    BY <1>0, <1>4 DEF ConnectOk, TypeOK
  <2>1. r \notin InFlight(p)
    BY <2>0 DEF InFlight
  <2>2. CASE ~CanExecute(cb[pos[r]])
    <3>1. Landed(r, req[r], pos[r] + 1, cb)
      BY <1>0, <1>4, <2>0, <2>2, ResumeLands DEF ConnectOk
    <3> QED
      BY <2>1, <3>1, LandedIsBreakerStep
  <2>3. CASE CanExecute(cb[pos[r]])
    <3>1. /\ cb' = [cb EXCEPT ![pos[r]] = Admitted(cb[pos[r]])]
          /\ pc' = [pc EXCEPT ![r] = "fetch"] /\ pos' = pos
      BY <1>4, <2>3 DEF ConnectOk
    <3>2. CASE p = pos[r]
      <4>1. InFlight(p)' = InFlight(p) \union {r} /\ cb'[p] = Admitted(cb[p])
        BY <1>0, <3>1, <3>2 DEF InFlight, TypeOK
      <4>2. CB(p)!Admit(r)
        BY <2>1, <2>3, <3>2, <4>1, SameMethods DEF CB!Admit
      <4> QED
        BY <4>2 DEF BreakerStep, CB!NextBreaker
    <3>3. CASE p # pos[r]
      <4>1. InFlight(p)' = InFlight(p) /\ cb'[p] = cb[p]
        BY <1>0, <3>1, <3>3 DEF InFlight, TypeOK
      <4> QED
        BY <4>1 DEF BreakerStep
    <3> QED
      BY <3>2, <3>3
  <2> QED
    BY <2>2, <2>3
<1>5. ASSUME NEW r \in Requests, FetchOk(r) PROVE BreakerStep(p)
  <2>1. /\ cb' = [cb EXCEPT ![pos[r]] = RecordSuccess(cb[pos[r]])]
        /\ pc[r] = "fetch" /\ pc' = [pc EXCEPT ![r] = "served"] /\ pos' = pos
    BY <1>5 DEF FetchOk
  <2>2. CASE p = pos[r]
    <3>1. r \in InFlight(p) /\ InFlight(p)' = InFlight(p) \ {r} /\ cb'[p] = RecordSuccess(cb[p])
      BY <1>0, <2>1, <2>2 DEF InFlight, TypeOK
    <3>2. CB(p)!Succeed(r)
      BY <3>1, SameMethods DEF CB!Succeed
    <3> QED
      BY <3>2 DEF BreakerStep, CB!NextBreaker
  <2>3. CASE p # pos[r]
    <3>1. InFlight(p)' = InFlight(p) /\ cb'[p] = cb[p]
      BY <1>0, <2>1, <2>3 DEF InFlight, TypeOK
    <3> QED
      BY <3>1 DEF BreakerStep
  <2> QED
    BY <2>2, <2>3
<1>6. ASSUME NEW r \in Requests, Cancelled(r) \/ Return(r) PROVE BreakerStep(p)
  <2>1. /\ cb' = cb /\ pc' = [pc EXCEPT ![r] = "idle"] /\ pos' = [pos EXCEPT ![r] = 1]
    BY <1>6 DEF Cancelled, Return
  <2>2. InFlight(p)' = InFlight(p) \ {r}
    BY <1>0, <2>1 DEF InFlight, TypeOK
  <2>3. CASE r \in InFlight(p)
    <3>1. CB(p)!Cancel(r)
      BY <2>1, <2>2, <2>3 DEF CB!Cancel
    <3> QED
      BY <3>1 DEF BreakerStep, CB!NextBreaker
  <2>4. CASE r \notin InFlight(p)
    BY <2>1, <2>2, <2>4 DEF BreakerStep
  <2> QED
    BY <2>3, <2>4
<1>7. ASSUME NEW o \in Providers, HealthCheck(o) PROVE BreakerStep(p)
  <2>1. cb'[p] \in {cb[p], StateRead(cb[p])}
    BY <1>0, <1>7 DEF HealthCheck, TypeOK
  <2> QED
    BY <1>7, <2>1, QuietBreakerStep DEF HealthCheck
<1>8. CASE ListStatus
  BY <1>8, QuietBreakerStep DEF ListStatus
<1>9. CASE Tick
  <2>1. cb'[p] = Age(cb[p])
    BY <1>9 DEF Tick
  <2>2. cb[p].since \in 0 .. Expired /\ Expired \in Nat
    BY <1>0 DEF TypeOK, BreakerRecord, Expired
  <2>3. cb[p].since = Expired => Age(cb[p]) = cb[p]
    BY <1>0, <2>2 DEF Age, Least, TypeOK, BreakerRecord
  <2> QED
    BY <1>9, <2>1, <2>2, <2>3, QuietBreakerStep DEF Tick
<1>10. ASSUME UNCHANGED <<cb, pc, pos>> PROVE BreakerStep(p)
  BY <1>10, QuietBreakerStep
<1>11. ASSUME NEW r \in Requests, RotateSession(r) PROVE BreakerStep(p)
  BY <1>10, <1>11 DEF RotateSession
<1>12. ASSUME NEW s \in Toggles, NEW v \in BOOLEAN, SetEnabled(s, v) PROVE BreakerStep(p)
  BY <1>10, <1>12 DEF SetEnabled
<1>13. ASSUME NEW o \in Providers, TestProvider(o) PROVE BreakerStep(p)
  BY <1>10, <1>13 DEF TestProvider
<1>14. CASE UNCHANGED vars
  BY <1>10, <1>14 DEF vars
<1> QED
  BY <1>1, <1>3, <1>4, <1>5, <1>6, <1>7, <1>8, <1>9, <1>11, <1>12, <1>13, <1>14 DEF Next

(***************************************************************************)
(* The refinement, for every catalogue: seen from any provider, whatever   *)
(* the cascade, the endpoints and the clock do is what CircuitBreaker      *)
(* allows, so all that is proved of the breaker holds of each of them.     *)
(***************************************************************************)
THEOREM CascadeImplementsBreakers == Spec => CascadeUsesBreakers
<1>1. Init => \A p \in Providers : CB(p)!InitBreaker
  BY SameMethods DEF Init, InFlight, CB!InitBreaker
<1>2. CascadeInv /\ [Next]_vars =>
        [\A p \in Providers : CB(p)!NextBreaker \/ UNCHANGED <<cb[p], InFlight(p)>>]_vars
  BY EveryStepIsBreakerStep DEF BreakerStep
<1> QED
  BY <1>1, <1>2, CascadeInvInit, CascadeInvNext, PTL DEF Spec, CascadeUsesBreakers

-----------------------------------------------------------------------------
(***************************************************************************)
(* The samples.  NoInterleaving compares three samples; what a new sample  *)
(* needs to know is less: two samples of different sources are further     *)
(* apart than the TTL (SourcesApart), and the last sample is the owner's,  *)
(* at the time it was noted (LastIsOwners).  An answer, under way or       *)
(* recorded, is no older than a fetch may take (AnswersAged, SamplesAged). *)
(***************************************************************************)
Sample == [ts : Nat, src : StreamSources, cum : Nat, given : Nat]

StreamTyped ==
    /\ now \in Nat /\ ownerTs \in Nat
    /\ samples \in Seq(Sample)
    /\ DOMAIN fetch = Fetchers
    /\ \A f \in Fetchers : fetch[f] # Quiet =>
          fetch[f].src \in Feeds[f] /\ fetch[f].cum \in Nat /\ fetch[f].began \in Nat

InOrder ==
    /\ \A i, j \in DOMAIN samples : i <= j => samples[i].ts <= samples[j].ts
    /\ \A i \in DOMAIN samples : samples[i].ts <= ownerTs
    /\ ownerTs <= now

LastIsOwners ==
    /\ samples = <<>> <=> owner = NoSource
    /\ samples # <<>> => samples[Len(samples)].src = owner /\ samples[Len(samples)].ts = ownerTs

SourcesApart ==
    \A i, j \in DOMAIN samples :
        i < j /\ samples[i].src # samples[j].src => samples[j].ts - samples[i].ts > PrimaryTTL

AnswersAged ==
    \A f \in Fetchers : fetch[f] # Quiet =>
        fetch[f].began <= now /\ now - fetch[f].began <= MaxFetch

SamplesAged ==
    \A i \in DOMAIN samples :
        samples[i].given <= samples[i].ts /\ samples[i].ts - samples[i].given <= MaxFetch

StreamInv == StreamTyped /\ InOrder /\ LastIsOwners /\ SourcesApart /\ AnswersAged /\ SamplesAged

\* A sample has a time.
LEMMA SampleTimes ==
    ASSUME NEW q \in Seq(Sample)
    PROVE  \A i \in DOMAIN q : i \in Nat /\ q[i].ts \in Nat /\ q[i].given \in Nat /\ q[i].cum \in Nat
<1>1. \A i \in DOMAIN q : i \in Nat /\ q[i] \in Sample
  OBVIOUS
<1> QED
  BY <1>1 DEF Sample

\* What the ring holds after append(): the sample, and before it some of the old ones in
\* their order; all of them, or all but the first.
LEMMA RingPushed ==
    ASSUME StreamConstants, samples \in Seq(Sample), NEW x \in Sample
    PROVE  /\ Pushed(x) \in Seq(Sample)
           /\ Pushed(x) # <<>>
           /\ Pushed(x)[Len(Pushed(x))] = x
           /\ \E d \in {0, 1} : \A i \in 1 .. Len(Pushed(x)) - 1 :
                 i + d \in DOMAIN samples /\ Pushed(x)[i] = samples[i + d]
<1>0. Len(samples) \in Nat /\ SampleMaxLen \in Nat \ {0}
  BY DEF StreamConstants
<1>1. CASE Len(samples) < SampleMaxLen
  <2>1. Pushed(x) = Append(samples, x)
    BY <1>1 DEF Pushed
  <2> QED
    BY <2>1
<1>2. CASE ~(Len(samples) < SampleMaxLen)
  <2>1. Pushed(x) = Append(Tail(samples), x) /\ samples # <<>>
    BY <1>0, <1>2 DEF Pushed
  <2> QED
    BY <2>1
<1> QED
  BY <1>1, <1>2

\* A sample that record() keeps comes from the owner, or after the owner's TTL.
LEMMA RecordKeeps ==
    ASSUME StreamConstants, StreamInv, NEW f \in Fetchers, Record(f)
    PROVE  StreamInv'
<1>0. /\ StreamTyped /\ InOrder /\ LastIsOwners /\ SourcesApart /\ AnswersAged /\ SamplesAged
      /\ UNCHANGED now /\ fetch[f] # Quiet
      /\ fetch' = [fetch EXCEPT ![f] = Quiet]
      /\ PrimaryTTL \in Nat /\ MaxFetch \in Nat
  BY DEF StreamInv, Record, StreamConstants
<1>1. /\ DOMAIN fetch' = Fetchers
      /\ \A g \in Fetchers : fetch'[g] # Quiet =>
            fetch'[g].src \in Feeds[g] /\ fetch'[g].cum \in Nat /\ fetch'[g].began \in Nat
  BY <1>0 DEF StreamTyped
<1>4. AnswersAged'
  <2> SUFFICES ASSUME NEW g \in Fetchers, fetch'[g] # Quiet
               PROVE  fetch'[g].began <= now /\ now - fetch'[g].began <= MaxFetch
    BY <1>0 DEF AnswersAged
  <2>1. fetch'[g] = fetch[g]
    BY <1>0 DEF StreamTyped
  <2> QED BY <1>0, <2>1 DEF AnswersAged
<1>2. CASE Dropped(fetch[f].src) /\ UNCHANGED <<owner, ownerTs, samples>>
  BY <1>0, <1>1, <1>2, <1>4 DEF StreamInv, StreamTyped, InOrder, LastIsOwners, SourcesApart, SamplesAged
<1>3. CASE /\ ~Dropped(fetch[f].src) /\ owner' = fetch[f].src /\ ownerTs' = now
           /\ samples' = Pushed([ts |-> now, src |-> fetch[f].src,
                                cum |-> fetch[f].cum, given |-> fetch[f].began])
  <2> DEFINE x == [ts |-> now, src |-> fetch[f].src, cum |-> fetch[f].cum, given |-> fetch[f].began]
             n == Len(samples')
  <2>1. /\ x \in Sample /\ x.ts = now /\ x.src = fetch[f].src /\ x.src # NoSource
        /\ x.given <= now /\ now - x.given <= MaxFetch
    BY <1>0 DEF StreamTyped, Sample, StreamSources, StreamConstants, AnswersAged
  <2>2. samples' = Pushed(x)
    BY <1>3
  <2> HIDE DEF x
  <2>3. PICK d \in {0, 1} :
          /\ samples' \in Seq(Sample) /\ samples' # <<>> /\ samples'[n] = x
          /\ \A i \in 1 .. n - 1 : i + d \in DOMAIN samples /\ samples'[i] = samples[i + d]
    <3>1. samples \in Seq(Sample)
      BY <1>0 DEF StreamTyped
    <3>2. /\ Pushed(x) \in Seq(Sample) /\ Pushed(x) # <<>> /\ Pushed(x)[Len(Pushed(x))] = x
          /\ \E d \in {0, 1} : \A i \in 1 .. Len(Pushed(x)) - 1 :
                i + d \in DOMAIN samples /\ Pushed(x)[i] = samples[i + d]
      BY <2>1, <3>1, RingPushed, Zenon
    <3> QED BY <2>2, <3>2, Zenon
  <2>4. n \in Nat /\ n > 0 /\ DOMAIN samples' = 1 .. n
    BY <2>3
  <2>5. \A i \in DOMAIN samples : samples[i].ts \in Nat /\ samples[i].ts <= now /\ now \in Nat
    BY <1>0, SampleTimes DEF StreamTyped, InOrder
  <2> HIDE DEF n
  <2>6. StreamTyped'
    BY <1>0, <1>1, <1>3, <2>3 DEF StreamTyped
  <2>7. InOrder'
    <3>1. \A i \in 1 .. n : samples'[i].ts \in Nat /\ samples'[i].ts <= now
      <4>1. \A i \in 1 .. n : i = n \/ i \in 1 .. n - 1
        BY <2>4
      <4>2. now \in Nat /\ now <= now
        BY <1>0 DEF StreamTyped
      <4> QED
        BY <2>1, <2>3, <2>5, <4>1, <4>2
    <3>2. ASSUME NEW i \in 1 .. n, NEW j \in 1 .. n, i <= j PROVE samples'[i].ts <= samples'[j].ts
      <4>1. CASE j = n
        BY <2>1, <2>3, <3>1, <4>1
      <4>2. CASE j # n
        <5>1. i \in 1 .. n - 1 /\ j \in 1 .. n - 1 /\ i + d <= j + d
          BY <2>4, <3>2, <4>2
        <5> QED
          BY <1>0, <2>3, <5>1 DEF InOrder
      <4> QED
        BY <4>1, <4>2
    <3> QED
      BY <1>0, <1>3, <2>4, <2>5, <3>1, <3>2, SMTT(30) DEF InOrder, StreamTyped
  <2>8. LastIsOwners'
    BY <1>3, <2>1, <2>3 DEF LastIsOwners, n
  <2>9. \A i \in DOMAIN samples : samples[i].src # x.src => now - samples[i].ts > PrimaryTTL
    <3> SUFFICES ASSUME NEW i \in DOMAIN samples, samples[i].src # x.src
                 PROVE  now - samples[i].ts > PrimaryTTL
      OBVIOUS
    <3> DEFINE m == Len(samples)
    <3>1. m \in DOMAIN samples /\ m \in Nat /\ i \in 1 .. m /\ samples # <<>>
      BY <1>0 DEF StreamTyped
    <3>2. samples[m].src = owner /\ samples[m].ts = ownerTs /\ owner # NoSource
      BY <1>0, <3>1 DEF LastIsOwners
    <3>3. samples[i].ts <= ownerTs /\ ownerTs <= now /\ ownerTs \in Nat
      BY <1>0 DEF InOrder, StreamTyped
    <3> HIDE DEF m
    <3>4. CASE owner = x.src
      <4>1. i < m /\ samples[i].src # samples[m].src
        BY <3>1, <3>2, <3>4
      <4>2. samples[m].ts - samples[i].ts > PrimaryTTL
        BY <1>0, <3>1, <4>1 DEF SourcesApart
      <4> QED
        BY <1>0, <2>5, <3>2, <3>3, <4>2
    <3>5. CASE owner # x.src
      <4>1. ~(now - ownerTs <= PrimaryTTL)
        BY <1>3, <2>1, <3>2, <3>5 DEF Dropped
      <4> QED
        BY <1>0, <2>5, <3>3, <4>1
    <3> QED
      BY <3>4, <3>5
  <2>10. SourcesApart'
    <3> SUFFICES ASSUME NEW i \in 1 .. n, NEW j \in 1 .. n, i < j, samples'[i].src # samples'[j].src
                 PROVE  samples'[j].ts - samples'[i].ts > PrimaryTTL
      BY <2>4 DEF SourcesApart
    <3>1. CASE j = n
      BY <2>1, <2>3, <2>4, <2>9, <3>1
    <3>2. CASE j # n
      BY SMTT(30), <1>0, <2>3, <2>4, <3>2 DEF SourcesApart
    <3> QED
      BY <3>1, <3>2
  <2>11. SamplesAged'
    <3>1. \A i \in 1 .. n : i = n \/ i \in 1 .. n - 1
      BY <2>4
    <3> QED BY <1>0, <2>1, <2>3, <2>4, <3>1 DEF SamplesAged
  <2> QED
    BY <1>4, <2>6, <2>7, <2>8, <2>10, <2>11 DEF StreamInv
<1> QED
  BY <1>2, <1>3 DEF Record

LEMMA StreamInvInit == StreamInit => StreamInv
BY DEF StreamInit, StreamInv, StreamTyped, InOrder, LastIsOwners, SourcesApart, AnswersAged, SamplesAged

\* Every step keeps the invariant of the samples.
LEMMA StreamInvNext ==
    ASSUME StreamInv, [StreamNext]_streamVars
    PROVE  StreamInv'
<1> USE StreamAssumption
<1>0. /\ StreamTyped /\ InOrder /\ LastIsOwners /\ SourcesApart /\ AnswersAged /\ SamplesAged
      /\ now \in Nat /\ MaxFetch \in Nat
  BY DEF StreamInv, StreamTyped, StreamConstants
<1>1. CASE Clock
  <2>1. AnswersAged'
    BY <1>0, <1>1 DEF Clock, AnswersAged, StreamTyped
  <2> QED
    BY <1>0, <1>1, <2>1 DEF Clock, StreamInv, StreamTyped, InOrder, LastIsOwners, SourcesApart, SamplesAged
<1>2. ASSUME NEW f \in Fetchers, Fetch(f) PROVE StreamInv'
  <2>1. PICK s \in Feeds[f], v \in 0 .. MaxTotal :
          fetch' = [fetch EXCEPT ![f] = [src |-> s, cum |-> v, began |-> now]]
    BY <1>2 DEF Fetch
  <2>2. /\ fetch'[f] = [src |-> s, cum |-> v, began |-> now] /\ v \in Nat
        /\ \A g \in Fetchers \ {f} : fetch'[g] = fetch[g]
        /\ DOMAIN fetch' = Fetchers /\ UNCHANGED <<now, owner, ownerTs, samples>>
    BY <1>0, <1>2, <2>1 DEF Fetch, StreamTyped
  <2>3. StreamTyped'
    BY <1>0, <2>2 DEF StreamTyped
  <2>4. AnswersAged'
    BY <1>0, <2>2 DEF AnswersAged
  <2> QED
    BY <1>0, <2>2, <2>3, <2>4 DEF StreamInv, InOrder, LastIsOwners, SourcesApart, SamplesAged
<1>3. ASSUME NEW f \in Fetchers, Record(f) PROVE StreamInv'
  BY <1>3, RecordKeeps
<1>4. ASSUME NEW f \in Fetchers, NothingRecorded(f) PROVE StreamInv'
  <2>1. StreamTyped' /\ AnswersAged'
    BY <1>0, <1>4 DEF NothingRecorded, StreamTyped, AnswersAged
  <2> QED
    BY <1>0, <1>4, <2>1 DEF NothingRecorded, StreamInv, InOrder, LastIsOwners, SourcesApart, SamplesAged
<1>5. CASE UNCHANGED streamVars
  BY <1>0, <1>5 DEF streamVars, StreamInv, StreamTyped, InOrder, LastIsOwners, SourcesApart,
                    AnswersAged, SamplesAged
<1> QED
  BY <1>1, <1>2, <1>3, <1>4, <1>5 DEF StreamNext

(***************************************************************************)
(* The B2 rule of record() for any number of tasks, sources and samples,   *)
(* any TTL and any length of the ring: two feeds never interleave.  A      *)
(* source that comes back after another one was silent for the TTL, and so *)
(* was the other before it came back.                                      *)
(***************************************************************************)
THEOREM FeedsNeverInterleave == StreamSpec => []NoInterleaving
<1> USE StreamAssumption
<1>1. StreamInv /\ [StreamNext]_streamVars => StreamInv'
  BY StreamInvNext
<1>2. StreamInv => NoInterleaving
  <2> SUFFICES ASSUME StreamInv, NEW i \in DOMAIN samples, NEW j \in DOMAIN samples, NEW k \in DOMAIN samples,
                      i < j, j < k, samples[i].src = samples[k].src, samples[j].src # samples[i].src
               PROVE  samples[k].ts - samples[i].ts > 2 * PrimaryTTL
    BY DEF NoInterleaving
  <2>1. samples[j].ts - samples[i].ts > PrimaryTTL /\ samples[k].ts - samples[j].ts > PrimaryTTL
    BY DEF StreamInv, SourcesApart
  <2>2. samples[i].ts \in Nat /\ samples[j].ts \in Nat /\ samples[k].ts \in Nat /\ PrimaryTTL \in Nat
    BY SampleTimes DEF StreamInv, StreamTyped, StreamConstants
  <2> QED
    BY <2>1, <2>2
<1> QED
  BY <1>1, <1>2, StreamInvInit, PTL DEF StreamSpec

(***************************************************************************)
(* What a late answer may count again, for any TTL and any timeout: a      *)
(* source that takes the symbol over counts from a total given less than   *)
(* MaxFetch - PrimaryTTL before the last one recorded of any other, since  *)
(* the two are recorded more than the TTL apart and neither is older than  *)
(* a fetch may take.                                                       *)
(***************************************************************************)
THEOREM HandoversRecountLittle == StreamSpec => []RecountBounded
<1> USE StreamAssumption
<1>1. StreamInv /\ [StreamNext]_streamVars => StreamInv'
  BY StreamInvNext
<1>2. StreamInv => RecountBounded
  <2> SUFFICES ASSUME StreamInv, NEW i \in DOMAIN samples, NEW k \in DOMAIN samples,
                      i < k, samples[i].src # samples[k].src
               PROVE  samples[i].given - samples[k].given < MaxFetch - PrimaryTTL
    BY DEF RecountBounded
  <2>1. /\ samples[k].ts - samples[i].ts > PrimaryTTL
        /\ samples[i].given <= samples[i].ts /\ samples[k].ts - samples[k].given <= MaxFetch
    BY DEF StreamInv, SourcesApart, SamplesAged
  <2>2. /\ samples[i].ts \in Nat /\ samples[k].ts \in Nat /\ PrimaryTTL \in Nat
        /\ samples[i].given \in Nat /\ samples[k].given \in Nat /\ MaxFetch \in Nat
    BY SampleTimes DEF StreamInv, StreamTyped, StreamConstants
  <2> QED
    BY <2>1, <2>2
<1> QED
  BY <1>1, <1>2, StreamInvInit, PTL DEF StreamSpec
-----------------------------------------------------------------------------
(***************************************************************************)
(* The volume of the bars.  What the loop of build() adds up is a recursive*)
(* function; that there is one (VolumeRecurs) and what bounds it           *)
(* (ShareBounded, RunExact) are shown by the least number that fails.      *)
(***************************************************************************)
Added(B, n) == IF n \in B THEN Increase(n) ELSE 0

AddsUp(v, B, k) == v = [n \in 0 .. k |-> IF n = 0 THEN 0 ELSE v[n - 1] + Added(B, n)]

\* What AddsUp says of each number.
LEMMA AddsUpAt ==
    ASSUME NEW v, NEW B, NEW k \in Nat, AddsUp(v, B, k)
    PROVE  \A n \in 0 .. k : v[n] = IF n = 0 THEN 0 ELSE v[n - 1] + Added(B, n)
<1> DEFINE w == [n \in 0 .. k |-> IF n = 0 THEN 0 ELSE v[n - 1] + Added(B, n)]
<1>1. v = w
  BY Zenon DEF AddsUp
<1>2. \A n \in 0 .. k : w[n] = IF n = 0 THEN 0 ELSE v[n - 1] + Added(B, n)
  BY Zenon
<1> HIDE DEF w
<1> QED BY <1>1, <1>2, Zenon

\* The loop of build() has a result, however many samples it goes through.
LEMMA VolumeExists == \A B : \A k \in Nat : \E v : AddsUp(v, B, k)
<1> SUFFICES ASSUME NEW B PROVE \A k \in Nat : \E v : AddsUp(v, B, k)
  OBVIOUS
<1> DEFINE S == {k \in Nat : ~\E v : AddsUp(v, B, k)}
<1> SUFFICES S = {}
  BY Zenon
<1>1. ASSUME S # {} PROVE FALSE
  <2>1. PICK m \in S : \A n \in S : m <= n
    BY <1>1, LeastExists
  <2>2. m \in Nat /\ ~\E v : AddsUp(v, B, m)
    OBVIOUS
  <2>3. CASE m = 0
    <3> DEFINE v0 == [n \in 0 .. 0 |-> 0]
    <3>1. v0 = [n \in 0 .. 0 |-> IF n = 0 THEN 0 ELSE v0[n - 1] + Added(B, n)]
      OBVIOUS
    <3>2. AddsUp(v0, B, 0)
      BY <3>1 DEF AddsUp
    <3> QED BY <2>2, <2>3, <3>2, Zenon
  <2>4. CASE m # 0
    <3>1. m - 1 \in Nat /\ m - 1 \notin S
      BY <2>1, <2>2, <2>4
    <3>2. PICK v : AddsUp(v, B, m - 1)
      BY <3>1, Zenon
    <3>3. \A n \in 0 .. m - 1 : v[n] = IF n = 0 THEN 0 ELSE v[n - 1] + Added(B, n)
      BY <3>1, <3>2, AddsUpAt, Zenon
    <3> DEFINE w == [n \in 0 .. m |-> IF n = m THEN v[m - 1] + Added(B, m) ELSE v[n]]
    <3>4. \A n \in 0 .. m : w[n] = IF n = 0 THEN 0 ELSE w[n - 1] + Added(B, n)
      <4> SUFFICES ASSUME NEW n \in 0 .. m
                   PROVE  w[n] = IF n = 0 THEN 0 ELSE w[n - 1] + Added(B, n)
        OBVIOUS
      <4>1. CASE n = m
        BY <2>2, <2>4, <4>1
      <4>2. CASE n # m
        BY <2>2, <2>4, <3>3, <4>2
      <4> QED BY <4>1, <4>2
    <3>5. w = [n \in 0 .. m |-> w[n]]
      OBVIOUS
    <3> HIDE DEF w
    <3>6. w = [n \in 0 .. m |-> IF n = 0 THEN 0 ELSE w[n - 1] + Added(B, n)]
      BY <3>4, <3>5
    <3>7. AddsUp(w, B, m)
      BY <3>6 DEF AddsUp
    <3> QED BY <2>2, <3>7, Zenon
  <2> QED BY <2>3, <2>4
<1> QED BY <1>1

LEMMA VolumeRecurs ==
    ASSUME NEW B, Len(samples) \in Nat
    PROVE  \A n \in 0 .. Len(samples) : Volume(B)[n] = IF n = 0 THEN 0 ELSE Volume(B)[n - 1] + Added(B, n)
<1>1. \E v : AddsUp(v, B, Len(samples))
  BY VolumeExists, Zenon
<1>2. Volume(B) = CHOOSE v : AddsUp(v, B, Len(samples))
  BY Zenon DEF Volume, AddsUp, Added
<1>3. AddsUp(Volume(B), B, Len(samples))
  BY <1>1, <1>2, Zenon
<1> QED BY <1>3, AddsUpAt, Zenon

\* Samples of one source, after sample i of it (or that one, if it adds nothing) and not
\* after sample j, add no more than its total grew from i to j.
LEMMA ShareBounded ==
    ASSUME samples \in Seq(Sample), Clean, NEW s, NEW i \in From(s), NEW j \in From(s), i <= j,
           NEW I, \A k \in I : k \in From(s) /\ i <= k /\ k <= j /\ (k = i => Increase(k) = 0)
    PROVE  /\ Volume(I)[Len(samples)] \in Int
           /\ Volume(I)[Len(samples)] <= samples[j].cum - samples[i].cum
<1> DEFINE l == Len(samples)
           C(n) == samples[n].cum
           v == Volume(I)
           S == {n \in 0 .. l : ~(v[n] \in Int /\ \A q \in From(s) : i <= q /\ q <= j /\ (n <= q \/ q = j) => v[n] <= C(q) - C(i))}
<1>1. /\ l \in Nat /\ DOMAIN samples = 1 .. l /\ i \in 1 .. l /\ j \in 1 .. l
      /\ \A k \in From(s) : k \in 1 .. l /\ samples[k].src = s /\ C(k) \in Nat
      /\ \A k \in 1 .. l : samples[k].src = s => k \in From(s)
  BY SampleTimes DEF From
<1>2. \A k, q \in From(s) : k <= q => C(k) <= C(q)
  <2> SUFFICES ASSUME NEW k \in From(s), NEW q \in From(s), k <= q PROVE C(k) <= C(q)
    OBVIOUS
  <2>1. CASE k = q
    BY <1>1, <2>1
  <2>2. CASE k # q
    <3>1. k < q
      BY <1>1, <2>2
    <3> QED BY <1>1, <3>1 DEF Clean
  <2> QED BY <2>1, <2>2
<1>3. \A n \in 0 .. l : v[n] = IF n = 0 THEN 0 ELSE v[n - 1] + Added(I, n)
  BY <1>1, VolumeRecurs, Zenon
<1>4. ASSUME NEW k \in 1 .. l, Added(I, k) # 0
      PROVE  /\ k \in From(s) /\ i < k /\ k <= j /\ k - 1 \in From(s)
             /\ Added(I, k) = C(k) - C(k - 1)
  <2>1. k \in I /\ Increase(k) # 0
    BY <1>4 DEF Added
  <2>2. k \in From(s) /\ i <= k /\ k <= j /\ k # i
    BY <2>1
  <2>3. i < k
    BY <1>1, <2>2
  <2>4. k > 1 /\ samples[k].src = samples[k - 1].src /\ Increase(k) = C(k) - C(k - 1)
    BY <2>1 DEF Increase
  <2>5. k - 1 \in From(s)
    BY <1>1, <2>2, <2>4
  <2> QED BY <2>1, <2>2, <2>3, <2>4, <2>5 DEF Added
<1> HIDE DEF l, C, v
<1>5. ASSUME S # {} PROVE FALSE
  <2>1. PICK m \in S : \A n \in S : m <= n
    <3>1. S \in SUBSET Nat
      BY <1>1
    <3> QED BY <1>5, <3>1, LeastExists
  <2>2. m \in 0 .. l /\ ~(v[m] \in Int /\ \A q \in From(s) : i <= q /\ q <= j /\ (m <= q \/ q = j) => v[m] <= C(q) - C(i))
    BY <2>1
  <2>3. m # 0
    <3>1. ASSUME m = 0, NEW q \in From(s), i <= q PROVE v[m] \in Int /\ v[m] <= C(q) - C(i)
      <4>1. C(i) <= C(q) /\ C(i) \in Nat /\ C(q) \in Nat
        BY <1>1, <1>2, <3>1
      <4> QED BY <1>1, <1>3, <3>1, <4>1
    <3> QED BY <1>1, <2>2, <3>1
  <2>4. m \in 1 .. l /\ m - 1 \in 0 .. l /\ m - 1 \notin S
    BY <1>1, <2>1, <2>2, <2>3
  <2>5. /\ v[m - 1] \in Int /\ v[m] = v[m - 1] + Added(I, m)
        /\ \A q \in From(s) : i <= q /\ q <= j /\ (m - 1 <= q \/ q = j) => v[m - 1] <= C(q) - C(i)
    BY <1>3, <2>2, <2>3, <2>4
  <2>6. CASE Added(I, m) = 0
    <3>1. \A q \in From(s) : m <= q => m - 1 <= q
      BY <1>1, <2>4
    <3> QED BY <2>2, <2>5, <2>6, <3>1
  <2>7. CASE Added(I, m) # 0
    <3>1. m \in From(s) /\ i < m /\ m <= j /\ m - 1 \in From(s) /\ Added(I, m) = C(m) - C(m - 1)
      BY <1>4, <2>4, <2>7
    <3>2. i <= m - 1 /\ m - 1 <= j /\ m - 1 <= m - 1 /\ C(m) \in Nat /\ C(m - 1) \in Nat /\ C(i) \in Nat
      BY <1>1, <2>4, <3>1
    <3>3. v[m - 1] <= C(m - 1) - C(i)
      BY <2>5, <3>1, <3>2
    <3>4. v[m] \in Int /\ v[m] <= C(m) - C(i)
      BY <2>5, <3>1, <3>2, <3>3
    <3>5. ASSUME NEW q \in From(s), i <= q, q <= j, m <= q \/ q = j PROVE v[m] <= C(q) - C(i)
      <4>1. m <= q /\ C(q) \in Nat
        BY <1>1, <3>1, <3>5
      <4>2. C(m) <= C(q)
        BY <1>2, <3>1, <4>1
      <4> QED BY <3>2, <3>4, <4>1, <4>2
    <3> QED BY <2>2, <3>4, <3>5
  <2> QED BY <2>6, <2>7
<1>6. l \in 0 .. l /\ l \notin S
  BY <1>1, <1>5
<1>7. v[l] \in Int /\ v[l] <= C(j) - C(i)
  BY <1>1, <1>6
<1> QED BY <1>7 DEF l, C, v

\* The samples after i up to j, if they and i are of one source, add what its total grew.
LEMMA RunExact ==
    ASSUME samples \in Seq(Sample), Clean, NEW i \in DOMAIN samples, NEW j \in DOMAIN samples, i <= j,
           \A k \in i .. j : samples[k].src = samples[i].src
    PROVE  Volume((i + 1) .. j)[Len(samples)] = samples[j].cum - samples[i].cum
<1> DEFINE l == Len(samples)
           C(n) == samples[n].cum
           I == (i + 1) .. j
           v == Volume(I)
           sum(n) == IF n <= i THEN 0 ELSE IF n <= j THEN C(n) - C(i) ELSE C(j) - C(i)
           S == {n \in 0 .. l : v[n] # sum(n)}
<1>1. /\ l \in Nat /\ DOMAIN samples = 1 .. l /\ i \in 1 .. l /\ j \in 1 .. l
      /\ \A k \in 1 .. l : C(k) \in Nat
  BY SampleTimes
<1>2. \A n \in 0 .. l : v[n] = IF n = 0 THEN 0 ELSE v[n - 1] + Added(I, n)
  BY <1>1, VolumeRecurs, Zenon
<1>3. ASSUME NEW k \in I PROVE Added(I, k) = C(k) - C(k - 1)
  <2>1. k \in i .. j /\ k - 1 \in i .. j /\ k > 1 /\ k \in 1 .. l /\ k - 1 \in 1 .. l /\ k - 1 < k
    BY <1>1
  <2>2. samples[k].src = samples[k - 1].src
    BY <2>1
  <2>3. C(k) >= C(k - 1)
    BY <1>1, <2>1, <2>2 DEF Clean
  <2> QED BY <1>1, <2>1, <2>2, <2>3 DEF Added, Increase
<1>4. \A k \in 1 .. l : k \notin I => Added(I, k) = 0
  BY DEF Added
<1> HIDE DEF l, C, v
<1>5. ASSUME S # {} PROVE FALSE
  <2>1. PICK m \in S : \A n \in S : m <= n
    <3>1. S \in SUBSET Nat
      BY <1>1
    <3> QED BY <1>5, <3>1, LeastExists
  <2>2. m \in 0 .. l /\ v[m] # sum(m)
    BY <2>1
  <2>3. m # 0
    BY <1>1, <1>2, <2>2
  <2>4. m \in 1 .. l /\ m - 1 \in 0 .. l /\ m - 1 \notin S
    BY <1>1, <2>1, <2>2, <2>3
  <2>5. v[m] = sum(m - 1) + Added(I, m)
    BY <1>2, <2>2, <2>3, <2>4
  <2>6. CASE m \in I
    <3>1. Added(I, m) = C(m) - C(m - 1) /\ m - 1 \in 1 .. l
      BY <1>1, <1>3, <2>4, <2>6
    <3>2. sum(m) = C(m) - C(i)
      BY <1>1, <2>4, <2>6
    <3>3. sum(m - 1) = C(m - 1) - C(i)
      <4>1. CASE m - 1 = i
        BY <1>1, <4>1
      <4>2. CASE m - 1 # i
        BY <1>1, <2>4, <2>6, <4>2
      <4> QED BY <4>1, <4>2
    <3>4. C(m) \in Int /\ C(m - 1) \in Int /\ C(i) \in Int
      BY <1>1, <2>4, <3>1
    <3> HIDE DEF sum
    <3> QED BY <2>2, <2>5, <3>1, <3>2, <3>3, <3>4
  <2>7. CASE m \notin I
    <3>1. Added(I, m) = 0
      BY <1>4, <2>4, <2>7
    <3>2. sum(m - 1) = sum(m) /\ sum(m) \in Int
      <4>1. CASE m <= i
        BY <1>1, <2>4, <4>1
      <4>2. CASE m > j /\ m > i
        <5>1. CASE m - 1 = i
          <6>1. j = i
            BY <1>1, <2>4, <4>2, <5>1
          <6> QED BY <1>1, <2>4, <4>2, <5>1, <6>1
        <5>2. CASE m - 1 # i
          <6>1. CASE m - 1 = j
            BY <1>1, <2>4, <4>2, <5>2, <6>1
          <6>2. CASE m - 1 # j
            <7>1. ~(m - 1 <= i) /\ ~(m - 1 <= j) /\ ~(m <= i) /\ ~(m <= j)
              BY <1>1, <2>4, <4>2, <5>2, <6>2
            <7>2. sum(m) = C(j) - C(i) /\ sum(m - 1) = C(j) - C(i)
              BY <7>1
            <7> QED BY <1>1, <7>2
          <6> QED BY <6>1, <6>2
        <5> QED BY <5>1, <5>2
      <4> QED BY <1>1, <2>4, <2>7, <4>1, <4>2
    <3> HIDE DEF sum
    <3> QED BY <2>2, <2>5, <3>1, <3>2
  <2> QED BY <2>6, <2>7
<1>6. l \in 0 .. l /\ l \notin S
  BY <1>1, <1>5
<1>7. v[l] = sum(l)
  BY <1>6
<1>8. sum(l) = C(j) - C(i)
  <2>1. CASE l <= i
    BY <1>1, <2>1
  <2>2. CASE l > i
    <3>1. CASE l <= j
      BY <1>1, <2>2, <3>1
    <3>2. CASE l > j
      BY <1>1, <2>2, <3>2
    <3> QED BY <1>1, <3>1, <3>2
  <2> QED BY <1>1, <2>1, <2>2
<1> QED BY <1>7, <1>8 DEF l, C, v

\* A later time is not in an earlier bucket.
LEMMA BucketsInOrder ==
    ASSUME Width \in Nat \ {0}, NEW a \in Nat, NEW b \in Nat, a <= b
    PROVE  /\ a \div Width \in Int /\ b \div Width \in Int
           /\ a \div Width <= b \div Width
<1> DEFINE p == a \div Width
           q == b \div Width
<1>1. /\ p \in Int /\ Width * p <= a
      /\ q \in Int /\ b < Width * q + Width
  OBVIOUS
<1> HIDE DEF p, q
<1>2. ASSUME p > q PROVE FALSE
  <2>1. p >= q + 1
    BY <1>1, <1>2
  <2>2. Width * p >= Width * (q + 1)
    BY <1>1, <2>1
  <2>3. Width * (q + 1) = Width * q + Width
    BY <1>1
  <2> QED BY <1>1, <2>2, <2>3
<1> QED BY <1>1, <1>2 DEF p, q

(***************************************************************************)
(* The volume of the bars (live_candles.py), for any tasks, sources,       *)
(* totals, bar width, ring length, TTL and timeout: built from clean       *)
(* samples, a source's share of a bar is no more than its own total grew   *)
(* in it, and a bar without a hand-over carries exactly that.              *)
(***************************************************************************)
THEOREM BarsClaimOwnGrowth == StreamSpec => []NoVolumeInvented
<1> USE StreamAssumption
<1>1. StreamInv /\ [StreamNext]_streamVars => StreamInv'
  BY StreamInvNext
<1>2. StreamInv => NoVolumeInvented
  <2> SUFFICES ASSUME StreamInv, Clean PROVE NoVolumeInvented
    BY DEF NoVolumeInvented
  <2>1. samples \in Seq(Sample) /\ Width \in Nat \ {0} /\ DOMAIN samples = 1 .. Len(samples) /\ Len(samples) \in Nat
    BY DEF StreamInv, StreamTyped, StreamConstants
  <2>2. ASSUME NEW i \in DOMAIN samples, NEW k \in DOMAIN samples, k <= i
        PROVE  Bucket(k) \in Int /\ Bucket(i) \in Int /\ Bucket(k) <= Bucket(i)
    <3>1. samples[k].ts <= samples[i].ts /\ samples[k].ts \in Nat /\ samples[i].ts \in Nat
      BY <2>1, <2>2, SampleTimes DEF StreamInv, InOrder
    <3> QED BY <2>1, <3>1, BucketsInOrder DEF Bucket
  <2>3. ASSUME NEW s \in StreamSources, NEW b \in DOMAIN Build, NEW i \in From(s), NEW j \in From(s),
               Bucket(i) < b \/ \A k \in From(s) : i <= k,
               Bucket(j) = b,
               \A k \in From(s) \cap InBar(b) : k <= j
        PROVE  Share(s, b) <= samples[j].cum - samples[i].cum
    <3> DEFINE I == From(s) \cap InBar(b)
    <3>1. ASSUME NEW k \in I
          PROVE  k \in From(s) /\ i <= k /\ k <= j /\ (k = i => Increase(k) = 0)
      <4>1. /\ k \in From(s) /\ k <= j /\ Bucket(k) = b
            /\ k \in DOMAIN samples /\ i \in DOMAIN samples /\ samples[i].src = s
        BY <2>3 DEF InBar, From
      <4>2. CASE Bucket(i) < b
        <5>1. ~(k <= i)
          <6>1. ASSUME k <= i PROVE FALSE
            BY <2>2, <4>1, <4>2, <6>1
          <6> QED BY <6>1
        <5> QED BY <2>1, <4>1, <5>1
      <4>3. CASE \A q \in From(s) : i <= q
        <5>1. i <= k
          BY <4>1, <4>3
        <5>2. Increase(i) = 0
          <6>1. ASSUME i > 1, samples[i].src = samples[i - 1].src PROVE FALSE
            <7>1. i - 1 \in From(s) /\ ~(i <= i - 1)
              BY <2>1, <4>1, <6>1 DEF From
            <7> QED BY <4>3, <7>1
          <6> QED BY <6>1 DEF Increase
        <5> QED BY <4>1, <5>1, <5>2
      <4> QED BY <2>3, <4>2, <4>3
    <3>2. j \in I
      BY <2>3 DEF InBar, From
    <3>3. i <= j
      BY <3>1, <3>2
    <3> HIDE DEF I
    <3>4. Volume(I)[Len(samples)] <= samples[j].cum - samples[i].cum
      BY <2>1, <3>1, <3>3, ShareBounded
    <3> QED BY <3>4 DEF I, Share
  <2>4. ASSUME NEW b \in DOMAIN Build, NEW i \in DOMAIN samples, NEW j \in DOMAIN samples,
               InBar(b) = (i + 1) .. j,
               \A k \in i .. j : samples[k].src = samples[i].src
        PROVE  Build[b] = samples[j].cum - samples[i].cum
    <3>1. PICK k \in DOMAIN samples : Bucket(k) = b
      BY DEF Build
    <3>2. k \in (i + 1) .. j
      BY <2>4, <3>1 DEF InBar
    <3>3. i <= j
      BY <2>1, <3>2
    <3>4. Volume((i + 1) .. j)[Len(samples)] = samples[j].cum - samples[i].cum
      BY <2>1, <2>4, <3>3, RunExact
    <3> QED BY <2>4, <3>4 DEF Build
  <2> QED BY <2>3, <2>4 DEF NoVolumeInvented
<1> QED BY <1>1, <1>2, StreamInvInit, PTL DEF StreamSpec
=============================================================================
