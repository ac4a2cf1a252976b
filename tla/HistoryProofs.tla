---------------------------- MODULE HistoryProofs ----------------------------
(***************************************************************************)
(* Proofs about the candle endpoints and their cache, for any number of    *)
(* concurrent requests, any budget, any times to live and any length of a  *)
(* day.                                                                    *)
(***************************************************************************)
EXTENDS History, FiniteSetTheorems, SequenceTheorems, WellFoundedInduction, TLAPS

-----------------------------------------------------------------------------
\* The places from f on, counted from 1.
LEMMA Shifted ==
    \A f, l \in Int : f \in 1 .. l =>
        /\ \A i \in 1 .. l - f + 1 : f + i - 1 \in 1 .. l /\ f + i - 1 \in f .. l
        /\ \A i, j \in 1 .. l - f + 1 : f + i - 1 = f + j - 1 => i = j
        /\ \A j \in f .. l : j - f + 1 \in 1 .. l - f + 1 /\ f + (j - f + 1) - 1 = j
OBVIOUS

\* A place at or after p, counted from p.
LEMMA ShiftedBack ==
    \A i, p, l \in Int : p >= 1 /\ i >= p /\ i <= l - 1 =>
        i - (p - 1) \in 1 .. l - p /\ p + 1 + (i - (p - 1)) - 1 = i + 1
OBVIOUS

USE HistoryAssumption

-----------------------------------------------------------------------------
(***************************************************************************)
(* Days.  The day of a moment is that of no later one.                     *)
(***************************************************************************)
\* A moment lies within its day.
LEMMA DayBounds ==
    \A t \in Int : /\ Day(t) \in Int
                   /\ DayLen * Day(t) <= t /\ t < DayLen * Day(t) + DayLen
BY DEF Day

\* A product that is one step further is a factor larger.
LEMMA Multiples == \A q, r, d \in Int : d > 0 /\ q < r => d * q + d <= d * r
<1> SUFFICES ASSUME NEW q \in Int, NEW r \in Int, NEW d \in Int, d > 0, q < r
             PROVE  d * q + d <= d * r
  OBVIOUS
<1>1. r - q - 1 \in Nat /\ d \in Nat
  OBVIOUS
<1>2. d * (r - q - 1) >= 0
  BY <1>1
<1>3. d * (r - q - 1) = d * r - d * q - d
  OBVIOUS
<1>4. d * r \in Int /\ d * q \in Int
  OBVIOUS
<1> QED
  BY <1>2, <1>3, <1>4

\* Days follow each other.
LEMMA DayMonotonic == \A s, t \in Int : s <= t => Day(s) <= Day(t)
<1> SUFFICES ASSUME NEW s \in Int, NEW t \in Int, s <= t, ~(Day(s) <= Day(t))
             PROVE  FALSE
  OBVIOUS
<1>1. Day(s) \in Int /\ Day(t) \in Int
  BY DayBounds
<1>2. Day(t) < Day(s) /\ DayLen \in Int /\ DayLen > 0
  BY <1>1
<1>3. DayLen * Day(t) + DayLen <= DayLen * Day(s)
  BY <1>1, <1>2, Multiples
<1>4. DayLen * Day(t) \in Int /\ DayLen * Day(s) \in Int
  BY <1>1, <1>2
<1> QED
  BY <1>2, <1>3, <1>4, DayBounds

\* The first day is day 0.
LEMMA DayNat == \A t \in Nat : Day(t) \in Nat
<1>1. Day(0) = 0
  BY DEF Day
<1> TAKE t \in Nat
<1>2. Day(t) \in Int /\ Day(0) <= Day(t)
  BY DayBounds, DayMonotonic
<1> QED
  BY <1>1, <1>2

-----------------------------------------------------------------------------
(***************************************************************************)
(* The byte-bounded cache.  A cache of entries that are of days up to n.   *)
(***************************************************************************)
EntryRecord == [key : Kinds \X Nat, age : 0 .. HistTTL, val : SUBSET Nat]

CacheUpTo(c, n) ==
    /\ c \in Seq(EntryRecord)
    /\ \A i \in DOMAIN c : c[i].key[2] <= n /\ c[i].val \subseteq 0 .. c[i].key[2]

Unique(c) == \A i, j \in DOMAIN c : c[i].key = c[j].key => i = j

\* What an entry of the cache is.
LEMMA Entries ==
    ASSUME NEW n \in Nat, NEW c, CacheUpTo(c, n), NEW i \in DOMAIN c
    PROVE  /\ i \in Nat /\ i \in 1 .. Len(c) /\ c[i] \in EntryRecord
           /\ c[i].key[2] \in Nat /\ c[i].val \subseteq 0 .. n
           /\ IsFiniteSet(c[i].val)
<1>1. c[i] \in EntryRecord /\ i \in 1 .. Len(c) /\ Len(c) \in Nat
  BY DEF CacheUpTo
<1>2. c[i].key[2] \in Nat /\ c[i].key[2] <= n /\ c[i].val \subseteq 0 .. c[i].key[2]
  BY <1>1 DEF CacheUpTo, EntryRecord
<1>3. c[i].val \subseteq 0 .. n
  BY <1>2
<1>4. IsFiniteSet(0 .. n)
  BY FS_Interval
<1> QED
  BY <1>1, <1>2, <1>3, <1>4, FS_Subset

\* What the entries hold is finite, and a part of it is what a part of them holds.
LEMMA HeldFinite ==
    ASSUME NEW n \in Nat, NEW c, CacheUpTo(c, n), NEW I \in SUBSET DOMAIN c
    PROVE  IsFiniteSet(Held(c, I)) /\ BytesAt(c, I) \in Nat
<1> DEFINE B == (1 .. Len(c)) \X (-1 .. n)
<1>1. IsFiniteSet(B)
  <2>1. Len(c) \in Nat
    BY DEF CacheUpTo
  <2>2. IsFiniteSet(1 .. Len(c)) /\ IsFiniteSet(-1 .. n)
    BY <2>1, FS_Interval
  <2> QED
    BY <2>2, FS_Product
<1>2. Held(c, I) \subseteq B
  <2>1. \A i \in I : i \in 1 .. Len(c) /\ c[i].val \subseteq 0 .. n
    BY Entries
  <2>2. \A i \in I : c[i].val \cup {-1} \subseteq -1 .. n
    BY <2>1
  <2> QED
    BY <2>1, <2>2 DEF Held
<1> HIDE DEF B
<1>3. IsFiniteSet(Held(c, I))
  BY <1>1, <1>2, FS_Subset
<1> QED
  BY <1>3, FS_CardinalityType DEF BytesAt

\* Two parts of a cache take what each takes.
LEMMA BytesSplit ==
    ASSUME NEW n \in Nat, NEW c, CacheUpTo(c, n),
           NEW I \in SUBSET DOMAIN c, NEW J \in SUBSET DOMAIN c, I \cap J = {}
    PROVE  BytesAt(c, I \cup J) = BytesAt(c, I) + BytesAt(c, J)
<1>1. Held(c, I \cup J) = Held(c, I) \cup Held(c, J)
  BY Zenon DEF Held
<1>2. Held(c, I) \cap Held(c, J) = {}
  <2>1. \A K : \A x \in Held(c, K) : x[1] \in K
    BY DEF Held
  <2> QED
    BY <2>1
<1>3. IsFiniteSet(Held(c, I)) /\ IsFiniteSet(Held(c, J)) /\ BytesAt(c, I) \in Nat /\ BytesAt(c, J) \in Nat
  BY HeldFinite
<1>4. Cardinality(Held(c, I) \cup Held(c, J)) = BytesAt(c, I) + BytesAt(c, J) - Cardinality({})
  BY <1>2, <1>3, FS_Union DEF BytesAt
<1>5. Cardinality({}) = 0
  BY FS_EmptySet
<1>6. BytesAt(c, I \cup J) = BytesAt(c, I) + BytesAt(c, J) - 0
  BY <1>1, <1>4, <1>5 DEF BytesAt
<1> QED
  BY <1>3, <1>6

\* A one-to-one function onto a set is a bijection of the library.
LEMMA OneToOne ==
    ASSUME NEW S, NEW T, NEW f \in [S -> T],
           \A a, b \in S : f[a] = f[b] => a = b,
           \A t \in T : \E a \in S : f[a] = t
    PROVE  ExistsBijection(S, T)
<1>1. f \in Injection(S, T)
  BY DEF Injection, IsInjective
<1>2. f \in Surjection(S, T)
  BY DEF Surjection
<1> QED
  BY <1>1, <1>2, Zenon DEF ExistsBijection, Bijection

\* An entry takes its size.
LEMMA BytesOfOne ==
    ASSUME NEW n \in Nat, NEW c, CacheUpTo(c, n), NEW i \in DOMAIN c
    PROVE  BytesAt(c, {i}) = SizeOf(c[i].val)
<1> DEFINE V == c[i].val \cup {-1}
           f == [x \in V |-> <<i, x>>]
<1>1. IsFiniteSet(c[i].val) /\ -1 \notin c[i].val
  BY Entries
<1>2. IsFiniteSet(V) /\ Cardinality(V) = Cardinality(c[i].val) + 1
  BY <1>1, FS_AddElement
<1>3. Held(c, {i}) = {i} \X V
  BY DEF Held
<1> HIDE DEF V
<1>4. f \in [V -> {i} \X V] /\ \A x \in V : f[x] = <<i, x>>
  OBVIOUS
<1> HIDE DEF f
<1>5. ExistsBijection(V, {i} \X V)
  <2>1. \A a, b \in V : f[a] = f[b] => a = b
    BY <1>4
  <2>2. \A t \in {i} \X V : \E a \in V : f[a] = t
    BY <1>4
  <2> QED
    BY <1>4, <2>1, <2>2, OneToOne
<1> QED
  BY <1>2, <1>3, <1>5, FS_Bijection DEF BytesAt, SizeOf

\* Entries that hold the same, at other places, take the same.
LEMMA SameBytes ==
    ASSUME NEW n \in Nat, NEW c, CacheUpTo(c, n), NEW d, CacheUpTo(d, n),
           NEW g \in [DOMAIN d -> DOMAIN c], \A i, j \in DOMAIN d : g[i] = g[j] => i = j,
           \A i \in DOMAIN d : d[i].val = c[g[i]].val
    PROVE  Bytes(d) = BytesAt(c, {g[i] : i \in DOMAIN d})
<1> DEFINE H == Held(d, DOMAIN d)
           G == {g[i] : i \in DOMAIN d}
           K == Held(c, G)
           f == [p \in H |-> <<g[p[1]], p[2]>>]
<1>1. IsFiniteSet(H)
  BY HeldFinite
<1>2. \A p : p \in H <=> \E i \in DOMAIN d : \E x \in d[i].val \cup {-1} : p = <<i, x>>
  BY DEF Held
<1>3. \A p : p \in K <=> \E i \in DOMAIN d : \E x \in d[i].val \cup {-1} : p = <<g[i], x>>
  <2>1. \A p : p \in K <=> \E j \in G : \E x \in c[j].val \cup {-1} : p = <<j, x>>
    BY DEF Held
  <2> QED
    BY <2>1
<1> HIDE DEF H, K, G
<1>4. f \in [H -> K] /\ \A i \in DOMAIN d : \A x \in d[i].val \cup {-1} : f[<<i, x>>] = <<g[i], x>>
  BY <1>2, <1>3
<1> HIDE DEF f
<1>5. \A p, q \in H : f[p] = f[q] => p = q
  <2> SUFFICES ASSUME NEW p \in H, NEW q \in H, f[p] = f[q] PROVE p = q
    OBVIOUS
  <2>1. PICK i \in DOMAIN d : \E x \in d[i].val \cup {-1} : p = <<i, x>>
    BY <1>2
  <2>2. PICK x \in d[i].val \cup {-1} : p = <<i, x>>
    BY <2>1
  <2>3. PICK j \in DOMAIN d : \E y \in d[j].val \cup {-1} : q = <<j, y>>
    BY <1>2
  <2>4. PICK y \in d[j].val \cup {-1} : q = <<j, y>>
    BY <2>3
  <2>5. <<g[i], x>> = <<g[j], y>>
    BY <1>4, <2>2, <2>4
  <2>6. g[i] = g[j] /\ x = y
    BY <2>5
  <2> QED
    BY <2>2, <2>4, <2>6
<1>6. \A k \in K : \E p \in H : f[p] = k
  <2> TAKE k \in K
  <2>1. PICK i \in DOMAIN d : \E x \in d[i].val \cup {-1} : k = <<g[i], x>>
    BY <1>3
  <2>2. PICK x \in d[i].val \cup {-1} : k = <<g[i], x>>
    BY <2>1
  <2>3. <<i, x>> \in H
    BY <1>2
  <2>4. f[<<i, x>>] = k
    BY <1>4, <2>2
  <2> QED
    BY <2>3, <2>4
<1>7. ExistsBijection(H, K)
  BY <1>4, <1>5, <1>6, OneToOne
<1>8. Cardinality(K) = Cardinality(H)
  BY <1>1, <1>7, FS_Bijection
<1> QED
  BY <1>8 DEF Bytes, BytesAt, H, K, G

\* _evict() takes the entry of a key out, and with it what that entry takes.
LEMMA Removal ==
    ASSUME NEW n \in Nat, NEW c, CacheUpTo(c, n), Unique(c), NEW k
    PROVE  /\ CacheUpTo(Without(c, k), n) /\ Unique(Without(c, k)) /\ ~Has(Without(c, k), k)
           /\ Has(c, k) => Bytes(Without(c, k)) = Bytes(c) - SizeOf(Entry(c, k).val)
           /\ Has(c, k) => Len(Without(c, k)) = Len(c) - 1
<1>1. CASE ~Has(c, k)
  BY <1>1 DEF Without
<1>2. CASE Has(c, k)
  <2> DEFINE p == Place(c, k)
             d == Without(c, k)
             g == [i \in DOMAIN d |-> IF i < p THEN i ELSE i + 1]
  <2>1. p \in DOMAIN c /\ c[p].key = k /\ c \in Seq(EntryRecord)
    BY <1>2 DEF Has, Place, CacheUpTo
  <2>2. p \in 1 .. Len(c) /\ Len(c) \in Nat /\ DOMAIN c = 1 .. Len(c)
    BY <2>1
  <2>3. d = SubSeq(c, 1, p - 1) \o SubSeq(c, p + 1, Len(c))
    BY <1>2 DEF Without, RemoveAt
  <2> HIDE DEF p, d
  <2>4. /\ d \in Seq(EntryRecord) /\ Len(d) = Len(c) - 1
        /\ DOMAIN d = 1 .. Len(c) - 1
        /\ \A i \in DOMAIN d : d[i] = c[IF i < p THEN i ELSE i + 1]
    <3> DEFINE a == SubSeq(c, 1, p - 1)
               b == SubSeq(c, p + 1, Len(c))
    <3>1. \A i \in 1 .. Len(c) : c[i] \in EntryRecord
      BY <2>1
    <3>2. a \in Seq(EntryRecord) /\ Len(a) = p - 1 /\ \A i \in 1 .. p - 1 : a[i] = c[i]
      BY <2>1, <2>2, <3>1
    <3>3. /\ b \in Seq(EntryRecord) /\ Len(b) = Len(c) - p
          /\ \A i \in 1 .. Len(c) - p : b[i] = c[p + 1 + i - 1]
      <4> DEFINE q == p + 1
                 l == Len(c)
      <4>1. q \in Int /\ l \in Int /\ \A i \in q .. l : c[i] \in EntryRecord
        BY <2>2, <3>1
      <4>2. b = SubSeq(c, q, l)
        OBVIOUS
      <4> HIDE DEF b, q, l
      <4>3. /\ b \in Seq(EntryRecord)
            /\ Len(b) = IF q <= l THEN l - q + 1 ELSE 0
            /\ \A i \in 1 .. l - q + 1 : b[i] = c[q + i - 1]
        BY <4>1, <4>2, SubSeqProperties
      <4> USE DEF q, l
      <4>4. Len(c) - (p + 1) + 1 = Len(c) - p /\ (p + 1 <= Len(c) \/ Len(c) - p = 0)
        <5>1. p \in Int /\ Len(c) \in Int /\ p <= Len(c)
          BY <2>2
        <5> QED BY <5>1
      <4>5. Len(b) = Len(c) - p
        BY <4>3, <4>4
      <4> QED BY <4>3, <4>4, <4>5
    <3> HIDE DEF a, b
    <3>4. d = a \o b
      BY <2>3 DEF a, b
    <3>5. /\ d \in Seq(EntryRecord) /\ Len(d) = Len(c) - 1 /\ DOMAIN d = 1 .. Len(c) - 1
          /\ \A i \in DOMAIN d : d[i] = IF i <= Len(a) THEN a[i] ELSE b[i - Len(a)]
      <4>1. a \in Seq(EntryRecord) /\ b \in Seq(EntryRecord)
        BY <3>2, <3>3
      <4>2. /\ d \in Seq(EntryRecord) /\ Len(d) = Len(a) + Len(b) /\ DOMAIN d = 1 .. Len(d)
            /\ \A i \in 1 .. Len(d) : d[i] = IF i <= Len(a) THEN a[i] ELSE b[i - Len(a)]
        BY <3>4, <4>1
      <4>3. Len(a) + Len(b) = Len(c) - 1
        BY <2>2, <3>2, <3>3
      <4> QED BY <4>2, <4>3
    <3>6. ASSUME NEW i \in DOMAIN d, i < p PROVE d[i] = c[i]
      <4>1. i \in 1 .. p - 1 /\ i <= Len(a)
        <5>1. i \in Int /\ i >= 1 /\ p \in Int
          BY <2>2, <3>5, <3>6
        <5>2. i <= p - 1
          BY <3>6, <5>1
        <5> QED BY <3>2, <5>1, <5>2
      <4>2. d[i] = a[i]
        BY <3>5, <3>6, <4>1
      <4> QED BY <3>2, <4>1, <4>2
    <3>7. ASSUME NEW i \in DOMAIN d, ~(i < p) PROVE d[i] = c[i + 1]
      <4>1. i - (p - 1) \in 1 .. Len(c) - p /\ p + 1 + (i - (p - 1)) - 1 = i + 1
        <5>1. i \in Int /\ p \in Int /\ Len(c) \in Int /\ p >= 1 /\ i <= Len(c) - 1 /\ i >= p
          BY <2>2, <3>5, <3>7
        <5> QED BY <5>1, ShiftedBack, Zenon
      <4>2. d[i] = b[i - (p - 1)]
        BY <2>2, <3>2, <3>5, <3>7
      <4>3. b[i - (p - 1)] = c[p + 1 + (i - (p - 1)) - 1]
        BY <3>3, <4>1
      <4> QED BY <4>1, <4>2, <4>3
    <3> QED BY <3>5, <3>6, <3>7
  <2>5. /\ g \in [DOMAIN d -> DOMAIN c]
        /\ \A i \in DOMAIN d : d[i] = c[g[i]] /\ g[i] # p
        /\ \A i, j \in DOMAIN d : g[i] = g[j] => i = j
    <3>1. \A i \in DOMAIN d : i \in Int /\ g[i] = (IF i < p THEN i ELSE i + 1)
      BY <2>2, <2>4
    <3>2. \A i \in DOMAIN d : (IF i < p THEN i ELSE i + 1) \in DOMAIN c
      BY <2>2, <2>4
    <3>3. g \in [DOMAIN d -> DOMAIN c]
      BY <3>2
    <3> HIDE DEF g
    <3>4. \A i \in DOMAIN d : d[i] = c[g[i]]
      BY <2>4, <3>1
    <3>5. /\ \A i \in DOMAIN d : g[i] # p
          /\ \A i, j \in DOMAIN d : g[i] = g[j] => i = j
      BY <2>2, <3>1
    <3> QED BY <3>3, <3>4, <3>5
  <2>6. {g[i] : i \in DOMAIN d} = DOMAIN c \ {p}
    <3>1. \A j \in DOMAIN c \ {p} : \E i \in DOMAIN d : g[i] = j
      <4> SUFFICES ASSUME NEW j \in DOMAIN c, j # p PROVE \E i \in DOMAIN d : g[i] = j
        OBVIOUS
      <4>1. CASE j < p
        <5>1. j \in DOMAIN d /\ g[j] = j
          BY <2>2, <2>4, <4>1
        <5> QED BY <5>1
      <4>2. CASE j > p
        <5>1. j - 1 \in DOMAIN d /\ g[j - 1] = j
          BY <2>2, <2>4, <4>2
        <5> QED BY <5>1
      <4> QED BY <2>2, <4>1, <4>2
    <3> QED BY <2>5, <3>1
  <2> HIDE DEF g
  <2>7. CacheUpTo(d, n)
    BY <2>4, <2>5 DEF CacheUpTo
  <2>8. Unique(d)
    BY <2>5 DEF Unique
  <2>9. ~Has(d, k)
    BY <2>1, <2>5 DEF Has, Unique
  <2>10. Bytes(d) = BytesAt(c, DOMAIN c \ {p})
    BY <2>5, <2>6, <2>7, SameBytes
  <2>11. BytesAt(c, (DOMAIN c \ {p}) \cup {p}) = BytesAt(c, DOMAIN c \ {p}) + BytesAt(c, {p})
    BY <2>1, BytesSplit
  <2>12. (DOMAIN c \ {p}) \cup {p} = DOMAIN c
    BY <2>1
  <2>13. BytesAt(c, {p}) = SizeOf(c[p].val)
    BY <2>1, BytesOfOne
  <2>14. BytesAt(c, DOMAIN c \ {p}) \in Nat /\ BytesAt(c, {p}) \in Nat
    BY <2>1, HeldFinite
  <2>15. Bytes(d) = Bytes(c) - SizeOf(c[p].val)
    <3>1. Bytes(c) = Bytes(d) + SizeOf(c[p].val)
      BY <2>10, <2>11, <2>12, <2>13 DEF Bytes
    <3> QED BY <2>10, <2>13, <2>14, <3>1
  <2> QED
    BY <2>4, <2>7, <2>8, <2>9, <2>15 DEF d, p, Entry
<1> QED
  BY <1>1, <1>2

\* put() adds an entry, and what it takes.
LEMMA Addition ==
    ASSUME NEW n \in Nat, NEW c, CacheUpTo(c, n), Unique(c),
           NEW e \in EntryRecord, e.key[2] <= n, e.val \subseteq 0 .. e.key[2], ~Has(c, e.key)
    PROVE  /\ CacheUpTo(Append(c, e), n) /\ Unique(Append(c, e))
           /\ Bytes(Append(c, e)) = Bytes(c) + SizeOf(e.val)
<1> DEFINE d == Append(c, e)
           g == [i \in DOMAIN c |-> i]
           m == Len(c) + 1
<1>1. c \in Seq(EntryRecord) /\ Len(c) \in Nat /\ DOMAIN c = 1 .. Len(c)
  BY DEF CacheUpTo
<1>2. /\ d \in Seq(EntryRecord) /\ DOMAIN d = 1 .. m
      /\ \A i \in DOMAIN c : d[i] = c[i]
      /\ d[m] = e
  BY <1>1
<1>3. g \in [DOMAIN c -> DOMAIN d] /\ \A i \in DOMAIN c : g[i] = i
  BY <1>1, <1>2
<1>4. {g[i] : i \in DOMAIN c} = DOMAIN c
  BY <1>3
<1> HIDE DEF d, g
<1>5. \A i \in DOMAIN d : i \in DOMAIN c \/ i = m
  BY <1>1, <1>2
<1> HIDE DEF m
<1>6. CacheUpTo(d, n)
  BY <1>2, <1>5 DEF CacheUpTo
<1>7. Unique(d)
  BY <1>2, <1>5 DEF Unique, Has
<1>8. Bytes(c) = BytesAt(d, DOMAIN c)
  <2>1. \A i \in DOMAIN c : c[i].val = d[g[i]].val
    BY <1>2, <1>3
  <2>2. \A i, j \in DOMAIN c : g[i] = g[j] => i = j
    BY <1>3
  <2>3. Bytes(c) = BytesAt(d, {g[i] : i \in DOMAIN c})
    BY <1>3, <1>6, <2>1, <2>2, SameBytes
  <2> QED BY <1>4, <2>3
<1>9. /\ m \in DOMAIN d /\ DOMAIN c \subseteq DOMAIN d /\ DOMAIN c \cap {m} = {}
      /\ DOMAIN c \cup {m} = DOMAIN d
  BY <1>1, <1>2 DEF m
<1>10. BytesAt(d, DOMAIN c \cup {m}) = BytesAt(d, DOMAIN c) + BytesAt(d, {m})
  BY <1>6, <1>9, BytesSplit
<1>11. BytesAt(d, {m}) = SizeOf(e.val)
  BY <1>2, <1>6, <1>9, BytesOfOne
<1>12. Bytes(d) = Bytes(c) + SizeOf(e.val)
  BY <1>8, <1>9, <1>10, <1>11 DEF Bytes
<1> QED
  BY <1>6, <1>7, <1>12 DEF d

\* The oldest entries leave, and what they take.
LEMMA Suffix ==
    ASSUME NEW n \in Nat, NEW c, CacheUpTo(c, n), Unique(c), NEW f \in DOMAIN c
    PROVE  /\ CacheUpTo(SubSeq(c, f, Len(c)), n) /\ Unique(SubSeq(c, f, Len(c)))
           /\ Bytes(SubSeq(c, f, Len(c))) = Bytes(c) - BytesAt(c, 1 .. f - 1)
           /\ Len(SubSeq(c, f, Len(c))) = Len(c) - f + 1
<1> DEFINE d == SubSeq(c, f, Len(c))
           g == [i \in DOMAIN d |-> f + i - 1]
<1>1. c \in Seq(EntryRecord) /\ Len(c) \in Nat /\ DOMAIN c = 1 .. Len(c) /\ f \in 1 .. Len(c)
  BY DEF CacheUpTo
<1>2. /\ d \in Seq(EntryRecord) /\ Len(d) = Len(c) - f + 1
      /\ DOMAIN d = 1 .. Len(c) - f + 1
      /\ \A i \in DOMAIN d : d[i] = c[f + i - 1]
  <2>1. \A i \in f .. Len(c) : c[i] \in EntryRecord
    BY <1>1
  <2>2. f \in Int /\ Len(c) \in Int
    BY <1>1
  <2>3. /\ d \in Seq(EntryRecord)
        /\ Len(d) = IF f <= Len(c) THEN Len(c) - f + 1 ELSE 0
        /\ \A i \in 1 .. Len(c) - f + 1 : d[i] = c[f + i - 1]
    <3> DEFINE l == Len(c)
    <3>1. l \in Int /\ \A i \in f .. l : c[i] \in EntryRecord
      BY <2>1, <2>2
    <3> HIDE DEF l
    <3>2. /\ SubSeq(c, f, l) \in Seq(EntryRecord)
          /\ Len(SubSeq(c, f, l)) = IF f <= l THEN l - f + 1 ELSE 0
          /\ \A i \in 1 .. l - f + 1 : SubSeq(c, f, l)[i] = c[f + i - 1]
      BY <2>2, <3>1, SubSeqProperties
    <3> QED BY <3>2 DEF l
  <2> HIDE DEF d
  <2>4. Len(d) = Len(c) - f + 1 /\ DOMAIN d = 1 .. Len(c) - f + 1
    BY <1>1, <2>3
  <2> QED BY <2>3, <2>4
<1> HIDE DEF d
<1>3. /\ g \in [DOMAIN d -> DOMAIN c]
      /\ \A i \in DOMAIN d : d[i] = c[g[i]]
      /\ \A i, j \in DOMAIN d : g[i] = g[j] => i = j
  <2>0. f \in Int /\ Len(c) \in Int
    BY <1>1
  <2>1. \A i \in DOMAIN d : f + i - 1 \in DOMAIN c /\ g[i] = f + i - 1
    BY <1>1, <1>2, <2>0, Shifted, Zenon
  <2>2. \A i, j \in DOMAIN d : f + i - 1 = f + j - 1 => i = j
    BY <1>1, <1>2, <2>0, Shifted, Zenon
  <2>3. g \in [DOMAIN d -> DOMAIN c]
    BY <2>1
  <2> HIDE DEF g
  <2> QED BY <1>2, <2>1, <2>2, <2>3
<1>4. {g[i] : i \in DOMAIN d} = f .. Len(c)
  <2>0. f \in Int /\ Len(c) \in Int
    BY <1>1
  <2>1. \A j \in f .. Len(c) : j - f + 1 \in DOMAIN d /\ g[j - f + 1] = j
    BY <1>1, <1>2, <2>0, Shifted, Zenon
  <2>2. \A i \in DOMAIN d : g[i] \in f .. Len(c)
    BY <1>1, <1>2, <2>0, Shifted, Zenon
  <2> HIDE DEF g
  <2> QED BY <2>1, <2>2
<1> HIDE DEF g
<1>5. CacheUpTo(d, n)
  <2>1. \A i \in DOMAIN d : g[i] \in DOMAIN c /\ d[i] = c[g[i]]
    BY <1>3
  <2>2. \A j \in DOMAIN c : c[j].key[2] <= n /\ c[j].val \subseteq 0 .. c[j].key[2]
    BY DEF CacheUpTo
  <2> QED BY <1>2, <2>1, <2>2, Zenon DEF CacheUpTo
<1>6. Unique(d)
  BY <1>3 DEF Unique
<1>7. Bytes(d) = BytesAt(c, f .. Len(c))
  <2>1. \A i \in DOMAIN d : d[i].val = c[g[i]].val
    BY <1>3
  <2>2. Bytes(d) = BytesAt(c, {g[i] : i \in DOMAIN d})
    BY <1>3, <1>5, <2>1, SameBytes
  <2> QED BY <1>4, <2>2
<1> DEFINE I == 1 .. f - 1
           J == f .. Len(c)
<1>8. I \in SUBSET DOMAIN c /\ J \in SUBSET DOMAIN c /\ I \cap J = {} /\ I \cup J = DOMAIN c
  BY <1>1
<1> HIDE DEF I, J
<1>9. BytesAt(c, I \cup J) = BytesAt(c, I) + BytesAt(c, J)
  BY <1>8, BytesSplit
<1>10. BytesAt(c, I) \in Nat /\ BytesAt(c, J) \in Nat
  BY <1>8, HeldFinite
<1>11. Bytes(d) = Bytes(c) - BytesAt(c, I)
  <2>1. Bytes(d) = BytesAt(c, J)
    BY <1>7 DEF J
  <2>2. Bytes(c) = BytesAt(c, I) + BytesAt(c, J)
    BY <1>8, <1>9 DEF Bytes
  <2> QED BY <1>10, <2>1, <2>2
<1> QED
  BY <1>2, <1>5, <1>6, <1>11 DEF d, I

\* A set of natural numbers has a least one.
LEMMA LeastOf ==
    ASSUME NEW S \in SUBSET Nat, S # {}
    PROVE  \E m \in S : \A j \in S : m <= j
<1> DEFINE R == OpToRel(<, Nat)
<1>1. IsWellFoundedOn(R, Nat)
  BY NatLessThanWellFounded, Zenon
<1>2. \A x, y \in Nat : x < y => <<x, y>> \in R
  BY DEF OpToRel
<1> HIDE DEF R
<1>3. PICK m \in S : \A j \in S : ~ (<<j, m>> \in R)
  BY <1>1, WFMin
<1>4. \A j \in S : j \in Nat /\ m \in Nat
  OBVIOUS
<1>5. \A j \in S : ~(j < m)
  BY <1>2, <1>3, <1>4
<1> QED
  BY <1>4, <1>5

\* What the count is once _evict() has run.
LEMMA EvictedCount ==
    ASSUME NEW n \in Nat, CacheUpTo(hist, n), Unique(hist), bytes = Bytes(hist), NEW k
    PROVE  Evicted(k) = Bytes(Without(hist, k))
<1>1. CASE Has(hist, k)
  BY <1>1, Removal DEF Evicted
<1>2. CASE ~Has(hist, k)
  BY <1>2 DEF Evicted, Without
<1> QED
  BY <1>1, <1>2

\* put() leaves a cache of the same kind, whose count is exact and within the budget,
\* unless one entry alone is larger than it.
LEMMA StoredKeeps ==
    ASSUME NEW n \in Nat, CacheUpTo(hist, n), Unique(hist), bytes = Bytes(hist),
           NEW k \in Kinds \X Nat, k[2] <= n, NEW v \in SUBSET (0 .. k[2]), Put(k, v)
    PROVE  /\ CacheUpTo(hist', n) /\ Unique(hist') /\ bytes' = Bytes(hist')
           /\ bytes' <= HistBudget \/ Len(hist') = 1
<1> DEFINE w == Without(hist, k)
           e == [key |-> k, age |-> 0, val |-> v]
           c == Append(w, e)
           b == Evicted(k) + SizeOf(v)
           fits(i) == i = Len(c) \/ b - BytesAt(c, 1 .. i - 1) <= HistBudget
           F == {i \in DOMAIN c : fits(i)}
           first == CHOOSE i \in DOMAIN c : fits(i) /\ \A j \in 1 .. i - 1 : ~fits(j)
<1>1. CacheUpTo(w, n) /\ Unique(w) /\ ~Has(w, k) /\ Evicted(k) = Bytes(w)
  BY Removal, EvictedCount
<1>2. e \in EntryRecord /\ e.key = k /\ e.val = v
  <2>1. k[2] \in Nat
    OBVIOUS
  <2>2. v \subseteq Nat
    BY <2>1
  <2> QED
    BY <2>2 DEF EntryRecord
<1>3. /\ hist' = SubSeq(c, first, Len(c))
      /\ bytes' = b - BytesAt(c, 1 .. first - 1)
  BY DEF Put, Stored
<1>4. Len(w) \in Nat /\ Len(c) = Len(w) + 1 /\ DOMAIN c = 1 .. Len(c)
  BY <1>1 DEF CacheUpTo
<1> HIDE DEF w, e
<1>5. CacheUpTo(c, n) /\ Unique(c) /\ Bytes(c) = b
  <2>1. e.key[2] <= n /\ e.val \subseteq 0 .. e.key[2] /\ ~Has(w, e.key)
    BY <1>1, <1>2
  <2>2. CacheUpTo(c, n) /\ Unique(c) /\ Bytes(c) = Bytes(w) + SizeOf(e.val)
    BY <1>1, <1>2, <2>1, Addition, Zenon
  <2> QED BY <1>1, <1>2, <2>2
<1> HIDE DEF c, b
<1>6. first \in DOMAIN c /\ fits(first)
  <2>1. F \subseteq Nat /\ Len(c) \in F
    BY <1>4
  <2>2. PICK m \in F : \A j \in F : m <= j
    BY <2>1, LeastOf, Zenon
  <2>3. m \in DOMAIN c /\ fits(m) /\ m \in 1 .. Len(c)
    BY <1>4, <2>2
  <2>4. \A j \in 1 .. m - 1 : j \in DOMAIN c /\ ~(m <= j)
    BY <1>4, <2>3
  <2>5. \A j \in 1 .. m - 1 : ~fits(j)
    BY <2>2, <2>4
  <2> HIDE DEF fits
  <2> QED
    BY <2>3, <2>5, Zenon
<1> HIDE DEF first
<1>7. /\ CacheUpTo(hist', n) /\ Unique(hist')
      /\ Bytes(hist') = Bytes(c) - BytesAt(c, 1 .. first - 1)
      /\ Len(hist') = Len(c) - first + 1
  BY <1>3, <1>5, <1>6, Suffix
<1>8. bytes' = Bytes(hist')
  BY <1>3, <1>5, <1>7
<1>9. bytes' <= HistBudget \/ Len(hist') = 1
  <2>1. CASE first = Len(c)
    BY <1>4, <1>7, <2>1
  <2>2. CASE first # Len(c)
    BY <1>3, <1>6, <2>2
  <2> QED BY <2>1, <2>2
<1> QED
  BY <1>7, <1>8, <1>9

\* get() that finds nothing fresh leaves such a cache too.
LEMMA MissKeeps ==
    ASSUME NEW n \in Nat, CacheUpTo(hist, n), Unique(hist), bytes = Bytes(hist),
           bytes <= HistBudget \/ Len(hist) = 1, NEW k, Miss(k)
    PROVE  /\ CacheUpTo(hist', n) /\ Unique(hist') /\ bytes' = Bytes(hist')
           /\ bytes' <= HistBudget \/ Len(hist') = 1
<1>1. hist' = Without(hist, k) /\ bytes' = Bytes(hist')
  BY EvictedCount DEF Miss
<1>2. CacheUpTo(hist', n) /\ Unique(hist')
  BY <1>1, Removal
<1>3. CASE ~Has(hist, k)
  BY <1>1, <1>2, <1>3 DEF Without
<1>4. CASE Has(hist, k)
  <2> DEFINE p == Place(hist, k)
  <2>1. p \in DOMAIN hist
    BY <1>4 DEF Has, Place
  <2>2. Bytes(hist') = Bytes(hist) - SizeOf(hist[p].val) /\ Len(hist') = Len(hist) - 1
    BY <1>1, <1>4, Removal DEF Entry
  <2>3. SizeOf(hist[p].val) \in Nat
    <3>1. {p} \in SUBSET DOMAIN hist
      BY <2>1
    <3>2. BytesAt(hist, {p}) \in Nat
      BY <3>1, HeldFinite
    <3>3. BytesAt(hist, {p}) = SizeOf(hist[p].val)
      BY <2>1, BytesOfOne
    <3> QED BY <3>2, <3>3
  <2>4. Bytes(hist) \in Nat /\ Bytes(hist') \in Nat
    BY <1>2, HeldFinite DEF Bytes
  <2>5. CASE bytes <= HistBudget
    <3>1. bytes' <= bytes /\ bytes' \in Nat /\ bytes \in Nat
      BY <1>1, <2>2, <2>3, <2>4
    <3> QED BY <1>1, <1>2, <2>5, <3>1
  <2>6. CASE Len(hist) = 1
    <3>1. DOMAIN hist' = {}
      <4>1. Len(hist') = 0 /\ DOMAIN hist' = 1 .. Len(hist')
        BY <1>2, <2>2, <2>6 DEF CacheUpTo
      <4> QED BY <4>1
    <3>2. Held(hist', DOMAIN hist') = {}
      BY <3>1 DEF Held
    <3>3. bytes' = 0
      BY <1>1, <3>2, FS_EmptySet DEF Bytes, BytesAt
    <3> QED BY <1>1, <1>2, <3>3
  <2> QED BY <1>1, <1>2, <2>5, <2>6
<1> QED
  BY <1>3, <1>4

\* Aging changes neither the keys nor the candles.
LEMMA AgingKeeps ==
    ASSUME NEW n \in Nat, CacheUpTo(hist, n), Unique(hist),
           hist' = [i \in DOMAIN hist |-> Aged(hist[i], HistTTL)]
    PROVE  /\ CacheUpTo(hist', n) /\ Unique(hist')
           /\ Bytes(hist') = Bytes(hist) /\ Len(hist') = Len(hist)
<1>1. hist \in Seq(EntryRecord) /\ Len(hist) \in Nat /\ DOMAIN hist = 1 .. Len(hist)
  BY DEF CacheUpTo
<1>2. ASSUME NEW i \in DOMAIN hist
      PROVE  /\ Aged(hist[i], HistTTL) \in EntryRecord
             /\ Aged(hist[i], HistTTL).key = hist[i].key
             /\ Aged(hist[i], HistTTL).val = hist[i].val
  <2>1. hist[i] \in EntryRecord
    BY <1>1, <1>2
  <2>2. hist[i].age \in 0 .. HistTTL
    BY <2>1 DEF EntryRecord
  <2>3. (IF hist[i].age < HistTTL THEN hist[i].age + 1 ELSE HistTTL) \in 0 .. HistTTL
    BY <2>2
  <2> QED
    BY <2>1, <2>3 DEF Aged, EntryRecord
<1>3. /\ hist' \in Seq(EntryRecord) /\ Len(hist') = Len(hist)
      /\ DOMAIN hist' = DOMAIN hist
      /\ \A i \in DOMAIN hist : hist'[i].key = hist[i].key /\ hist'[i].val = hist[i].val
  <2>1. \A i \in 1 .. Len(hist) : Aged(hist[i], HistTTL) \in EntryRecord
    BY <1>1, <1>2
  <2>2. hist' \in [1 .. Len(hist) -> EntryRecord]
    BY <1>1, <2>1
  <2>3. hist' \in Seq(EntryRecord) /\ Len(hist') = Len(hist)
    BY <1>1, <2>2
  <2> QED BY <1>1, <1>2, <2>2, <2>3
<1>4. CacheUpTo(hist', n) /\ Unique(hist')
  <2>1. \A i \in DOMAIN hist' : /\ hist'[i].key[2] <= n
                               /\ hist'[i].val \subseteq 0 .. hist'[i].key[2]
    <3>1. \A i \in DOMAIN hist : hist[i].key[2] <= n /\ hist[i].val \subseteq 0 .. hist[i].key[2]
      BY DEF CacheUpTo
    <3> QED BY <1>3, <3>1, Zenon
  <2>2. CacheUpTo(hist', n)
    BY <1>3, <2>1 DEF CacheUpTo
  <2>3. Unique(hist')
    BY <1>3 DEF Unique
  <2> QED BY <2>2, <2>3
<1>5. Held(hist', DOMAIN hist') = Held(hist, DOMAIN hist)
  BY <1>3 DEF Held
<1> QED
  BY <1>3, <1>4, <1>5 DEF Bytes, BytesAt

\* A later day only allows more.
LEMMA CacheGrows ==
    ASSUME NEW n \in Nat, NEW m \in Nat, n <= m, NEW c, CacheUpTo(c, n)
    PROVE  CacheUpTo(c, m)
<1>1. \A i \in DOMAIN c : c[i].key[2] \in Nat
  BY Entries
<1> QED
  BY <1>1 DEF CacheUpTo

-----------------------------------------------------------------------------
(***************************************************************************)
(* The inductive invariant: the cache, today's candles, what the requests  *)
(* in flight carry, and the last answer.                                   *)
(***************************************************************************)
CacheGood ==
    /\ CacheUpTo(hist, Today) /\ Unique(hist)
    /\ bytes = Bytes(hist)
    /\ bytes <= HistBudget \/ Len(hist) = 1

\* Today's candles: their day was the current one no longer ago than their age and a
\* request's length.
TodayRecord == [age : 0 .. TodayTTL, days : SUBSET Nat]

TodayGood ==
    today # None =>
        /\ today \in TodayRecord
        /\ \A d \in today.days : d <= Today
        /\ today.age < TodayTTL => \A d \in today.days : Day(now - today.age - MaxRequest) <= d

RequestRecord ==
    [pc : {"idle", "yahoo", "points", "curve", "overlay", "db"}, kind : Kinds, end : Nat,
     since : Nat, days : SUBSET Nat, day : Nat, tries : {0, 1}, upto : Int]

\* A request asks for nothing after the current day and has not lasted too long.
Asked(q) ==
    /\ q \in RequestRecord
    /\ q.since <= now /\ now - q.since <= MaxRequest
    /\ q.end <= Today /\ q.upto <= q.end
    /\ \A d \in q.days : d <= q.end

\* The feeds' points are awaited for the day the request last saw as the current one,
\* and Yahoo's candles it has kept are of earlier days.
Awaits(q) ==
    /\ q.pc \in {"points", "curve"} => q.kind \in {"history", "intraday"}
    /\ q.pc = "overlay" => q.kind = "candles"
    /\ q.pc = "db" => q.kind \in {"historical", "eod"}
    /\ q.pc \in {"points", "curve"} /\ q.kind = "history" =>
           /\ Day(q.since) <= q.day /\ q.day <= q.end
           /\ \A d \in q.days : d < q.day

RequestsGood ==
    /\ req \in [Requests -> RequestRecord \cup {Idle}]
    /\ \A r \in Requests : req[r] # Idle => Asked(req[r]) /\ Awaits(req[r])

AnswerGood == TodayNeverYahoo /\ RangeRespected /\ DoubledOnlyAtMidnight

IInv == now \in 0 .. MaxTime /\ CacheGood /\ TodayGood /\ RequestsGood /\ AnswerGood

-----------------------------------------------------------------------------
(***************************************************************************)
(* Answers and requests.                                                   *)
(***************************************************************************)
\* What makes an answer good at the moment it is given.
GoodBars(k, e, bars) ==
    /\ k = "history" => /\ [day |-> Today, src |-> "yahoo"] \notin bars
                        /\ \A b \in bars : b.day <= e
    /\ \A b, c \in bars : b.day = c.day /\ b # c =>
           k = "history" /\ b.day < Today /\ Day(now - TodayTTL - MaxRequest) <= b.day

\* Candles of one source never come twice.
LEMMA OneSource ==
    ASSUME NEW k, NEW e, NEW D, NEW s, k # "history"
    PROVE  GoodBars(k, e, Bars(D, s))
<1>1. \A b \in Bars(D, s) : b = [day |-> b.day, src |-> s]
  BY DEF Bars
<1>2. \A b, c \in Bars(D, s) : b.day = c.day => b = c
  BY <1>1
<1> QED
  BY <1>2, Zenon DEF GoodBars

\* Yahoo's candles of earlier days and the scrapers' of days within the range, of
\* which only recent ones may be in both.
LEMMA TwoSources ==
    ASSUME NEW e, NEW D, NEW E, NEW s, s # "yahoo",
           \A d \in D : d < Today /\ d <= e, \A d \in E : d <= e,
           \A d \in D \cap E : Day(now - TodayTTL - MaxRequest) <= d,
           Today \in Nat, D \subseteq Nat
    PROVE  GoodBars("history", e, Bars(D, "yahoo") \cup Bars(E, s))
<1> DEFINE Y == Bars(D, "yahoo")
           S == Bars(E, s)
<1>1. \A b \in Y : b = [day |-> b.day, src |-> "yahoo"] /\ b.day \in D /\ b.src = "yahoo"
  BY DEF Bars
<1>2. \A b \in S : b = [day |-> b.day, src |-> s] /\ b.day \in E /\ b.src = s
  BY DEF Bars
<1> HIDE DEF Y, S
<1>3. [day |-> Today, src |-> "yahoo"] \notin Y \cup S
  <2> DEFINE t == [day |-> Today, src |-> "yahoo"]
  <2>1. t.day = Today /\ t.src = "yahoo"
    OBVIOUS
  <2> HIDE DEF t
  <2>2. t \notin S
    BY <1>2, <2>1
  <2>3. t \notin Y
    <3>1. ~(Today < Today)
      OBVIOUS
    <3> QED BY <1>1, <2>1, <3>1
  <2> QED BY <2>2, <2>3 DEF t
<1>4. \A b \in Y \cup S : b.day <= e
  BY <1>1, <1>2
<1>5. ASSUME NEW b \in Y \cup S, NEW c \in Y \cup S, b.day = c.day, b # c
      PROVE  b.day \in D \cap E
  <2>1. ~(b \in Y /\ c \in Y)
    BY <1>1, <1>5
  <2>2. ~(b \in S /\ c \in S)
    BY <1>2, <1>5
  <2> QED BY <1>1, <1>2, <1>5, <2>1, <2>2
<1>6. \A b, c \in Y \cup S : b.day = c.day /\ b # c =>
          b.day < Today /\ Day(now - TodayTTL - MaxRequest) <= b.day
  BY <1>5
<1> QED
  BY <1>3, <1>4, <1>6, Zenon DEF GoodBars, Y, S

\* A request that is answered leaves the others as they are.
LEMMA RequestDone ==
    ASSUME RequestsGood, NEW r \in Requests, NEW q, NEW bars, Answers(r, q, bars), now' = now,
           GoodBars(q.kind, q.end, bars)
    PROVE  RequestsGood' /\ AnswerGood'
<1>1. /\ req' = [req EXCEPT ![r] = Idle]
      /\ answer' = [kind |-> q.kind, end |-> q.end, bars |-> bars]
  BY DEF Answers
<1>2. answer'.kind = q.kind /\ answer'.end = q.end /\ answer'.bars = bars /\ Today' = Today
  BY <1>1 DEF Today
<1>3. AnswerGood'
  <2>1. TodayNeverYahoo' /\ RangeRespected'
    BY <1>2 DEF GoodBars, TodayNeverYahoo, RangeRespected
  <2>2. DoubledOnlyAtMidnight'
    BY <1>2 DEF GoodBars, DoubledOnlyAtMidnight
  <2> QED BY <2>1, <2>2 DEF AnswerGood
<1>4. req' \in [Requests -> RequestRecord \cup {Idle}]
  BY <1>1 DEF RequestsGood
<1>5. \A s \in Requests : req'[s] # Idle => req'[s] = req[s]
  BY <1>1 DEF RequestsGood
<1>6. \A s \in Requests : (req[s] # Idle => Asked(req[s]) /\ Awaits(req[s]))'
  BY <1>2, <1>5 DEF RequestsGood, Asked, Awaits
<1> QED
  BY <1>3, <1>4, <1>6 DEF RequestsGood

\* With no answer there is nothing to be wrong about.
LEMMA SilentIsGood == Silent => AnswerGood'
BY DEF Silent, AnswerGood, TodayNeverYahoo, RangeRespected, DoubledOnlyAtMidnight

\* A request that goes on.
LEMMA RequestGoes ==
    ASSUME RequestsGood, NEW r \in Requests, NEW q, NEW pc, Goes(r, q, pc), now' = now,
           Asked([q EXCEPT !.pc = pc]), Awaits([q EXCEPT !.pc = pc])
    PROVE  RequestsGood' /\ AnswerGood'
<1> DEFINE p == [q EXCEPT !.pc = pc]
<1>1. req' = [req EXCEPT ![r] = p] /\ AnswerGood'
  BY SilentIsGood DEF Goes
<1>2. Asked(p) /\ Awaits(p) /\ p \in RequestRecord
  BY DEF Asked
<1> HIDE DEF p
<1>3. req' \in [Requests -> RequestRecord \cup {Idle}]
  BY <1>1, <1>2 DEF RequestsGood
<1>4. \A s \in Requests : req'[s] = p \/ req'[s] = req[s]
  BY <1>1 DEF RequestsGood
<1>5. \A s \in Requests : req'[s] # Idle => Asked(req'[s]) /\ Awaits(req'[s])
  BY <1>2, <1>4 DEF RequestsGood
<1>6. \A s \in Requests : (req[s] # Idle => Asked(req[s]) /\ Awaits(req[s]))'
  BY <1>5 DEF Asked, Awaits, Today
<1> QED
  BY <1>1, <1>3, <1>6 DEF RequestsGood

\* Waiting elsewhere changes nothing of what is asked.
LEMMA Elsewhere ==
    ASSUME NEW q, Asked(q), NEW pc \in {"yahoo", "points", "curve", "overlay", "db"}
    PROVE  LET p == [q EXCEPT !.pc = pc] IN
           /\ Asked(p) /\ p.pc = pc
           /\ p.kind = q.kind /\ p.end = q.end /\ p.since = q.since /\ p.days = q.days /\ p.day = q.day
<1> DEFINE p == [q EXCEPT !.pc = pc]
<1>1. p \in RequestRecord /\ q \in RequestRecord
  BY DEF Asked, RequestRecord
<1>2. /\ p.pc = pc /\ p.kind = q.kind /\ p.end = q.end /\ p.since = q.since /\ p.days = q.days
      /\ p.day = q.day /\ p.upto = q.upto
  BY <1>1 DEF RequestRecord
<1> HIDE DEF p
<1>3. Asked(p)
  BY <1>1, <1>2 DEF Asked
<1> QED
  BY <1>2, <1>3 DEF p

-----------------------------------------------------------------------------
(***************************************************************************)
(* Every operation keeps the invariant.                                    *)
(***************************************************************************)
LEMMA TodayIsDay == ASSUME now \in 0 .. MaxTime PROVE now \in Nat /\ Today \in Nat
<1>1. now \in Nat
  OBVIOUS
<1> QED
  BY <1>1, DayNat DEF Today

\* What a step that leaves the clock alone need not look at again.
LEMMA CacheStays == CacheGood /\ UNCHANGED <<now, hist, bytes>> => CacheGood'
BY DEF CacheGood, Today, CacheUpTo, Unique

\* The same of the list of today's candles.
LEMMA TodayStays == TodayGood /\ UNCHANGED <<now, today>> => TodayGood'
BY DEF TodayGood, Today

\* sb_history() with the past's candles: of earlier days only, so that today's come
\* from the scrapers, and doubled only by today's list that midnight has overtaken.
LEMMA Assembled ==
    ASSUME now \in 0 .. MaxTime, RequestsGood, TodayGood, NEW r \in Requests, NEW q, Asked(q),
           q.kind \in {"history", "daily"}, NEW days \in SUBSET (0 .. q.end),
           Assemble(r, q, days), now' = now
    PROVE  RequestsGood' /\ AnswerGood'
<1>1. now \in Nat /\ Today \in Nat /\ q.end \in Nat /\ q.since \in Nat /\ q.since <= now /\ q.end <= Today
      /\ q \in RequestRecord
  BY TodayIsDay DEF Asked, RequestRecord
<1>2. CASE q.kind = "daily"
  <2>1. Answers(r, q, Bars(days, "yahoo"))
    BY <1>2 DEF Assemble
  <2>2. GoodBars(q.kind, q.end, Bars(days, "yahoo"))
    BY <1>2, OneSource
  <2> QED BY <2>1, <2>2, RequestDone
<1>3. CASE q.kind = "history" /\ Covers(q) /\ ~FreshToday
  <2> DEFINE p == [q EXCEPT !.days = Past(days), !.day = Today, !.upto = 0]
             o == [p EXCEPT !.pc = "points"]
  <2>1. Goes(r, p, "points")
    BY <1>3 DEF Assemble
  <2>2. Past(days) \in SUBSET Nat /\ \A d \in Past(days) : d < Today /\ d <= q.end
    <3>1. \A d \in days : d \in Nat /\ d <= q.end
      BY <1>1
    <3> QED BY <3>1 DEF Past
  <2>3. /\ p \in RequestRecord /\ p.kind = q.kind /\ p.end = q.end /\ p.since = q.since
        /\ p.days = Past(days) /\ p.day = Today /\ p.upto = 0
    <3> DEFINE D == Past(days)
               T == Today
    <3>1. D \in SUBSET Nat /\ T \in Nat /\ q \in RequestRecord
      BY <1>1, <2>2
    <3> HIDE DEF D, T
    <3> DEFINE p1 == [q EXCEPT !.days = D]
               p2 == [p1 EXCEPT !.day = T]
               p3 == [p2 EXCEPT !.upto = 0]
    <3>2. /\ p1 \in RequestRecord /\ p1.kind = q.kind /\ p1.end = q.end /\ p1.since = q.since
          /\ p1.days = D
      BY <3>1 DEF RequestRecord
    <3> HIDE DEF p1
    <3>3. /\ p2 \in RequestRecord /\ p2.kind = q.kind /\ p2.end = q.end /\ p2.since = q.since
          /\ p2.days = D /\ p2.day = T
      BY <3>1, <3>2 DEF RequestRecord
    <3> HIDE DEF p2
    <3>4. /\ p3 \in RequestRecord /\ p3.kind = q.kind /\ p3.end = q.end /\ p3.since = q.since
          /\ p3.days = D /\ p3.day = T /\ p3.upto = 0
      BY <3>3 DEF RequestRecord
    <3>5. p = p3
      BY DEF p1, p2, D, T
    <3> HIDE DEF p3, p
    <3> QED BY <3>4, <3>5 DEF D, T
  <2> HIDE DEF p
  <2>4. Asked(p)
    BY <1>1, <2>2, <2>3 DEF Asked
  <2>5. /\ Asked(o) /\ o.pc = "points" /\ o.kind = p.kind /\ o.end = p.end /\ o.since = p.since
        /\ o.days = p.days /\ o.day = p.day
    BY <2>4, Elsewhere
  <2> HIDE DEF o
  <2>6. Day(q.since) <= Today
    BY <1>1, DayMonotonic DEF Today
  <2>7. Awaits(o)
    BY <1>3, <2>2, <2>3, <2>5, <2>6 DEF Awaits, Covers
  <2> QED BY <2>1, <2>5, <2>7, RequestGoes DEF o
<1>4. CASE q.kind = "history" /\ ~(Covers(q) /\ ~FreshToday)
  <2> DEFINE E == IF Covers(q) THEN today.days ELSE {}
             bars == Bars(Past(days), "yahoo") \cup Bars(E, "scraper")
  <2>1. Answers(r, q, bars)
    <3>1. Bars(E, "scraper") = IF Covers(q) THEN Ohlc(today.days) ELSE {}
      BY DEF Ohlc, Bars
    <3> QED BY <1>4, <3>1 DEF Assemble
  <2>2. Past(days) \in SUBSET Nat /\ \A d \in Past(days) : d < Today /\ d <= q.end
    <3>1. \A d \in days : d \in Nat /\ d <= q.end
      BY <1>1
    <3> QED BY <3>1 DEF Past
  <2>3. CASE Covers(q)
    <3>1. /\ today \in TodayRecord /\ today.age < TodayTTL
          /\ \A d \in today.days : d <= Today /\ Day(now - today.age - MaxRequest) <= d
      BY <1>4, <2>3 DEF TodayGood, FreshToday
    <3>2. today.age \in Nat /\ today.days \subseteq Nat
      BY <3>1 DEF TodayRecord
    <3>3. /\ now - TodayTTL - MaxRequest \in Int /\ now - today.age - MaxRequest \in Int
          /\ now - TodayTTL - MaxRequest <= now - today.age - MaxRequest
      BY <1>1, <3>1, <3>2
    <3>4. Day(now - TodayTTL - MaxRequest) <= Day(now - today.age - MaxRequest)
      BY <3>3, DayMonotonic
    <3>5. Day(now - TodayTTL - MaxRequest) \in Int /\ Day(now - today.age - MaxRequest) \in Int
      BY <3>3, DayBounds
    <3>6. \A d \in E : d \in Nat /\ d <= q.end /\ Day(now - TodayTTL - MaxRequest) <= d
      <4>1. \A d \in today.days : d \in Nat /\ d <= Today /\ Day(now - today.age - MaxRequest) <= d
        BY <3>1, <3>2
      <4>2. E = today.days /\ Today = q.end
        BY <1>1, <2>3 DEF Covers
      <4> QED BY <3>4, <3>5, <4>1, <4>2
    <3> HIDE DEF E
    <3>7. GoodBars("history", q.end, bars)
      BY <1>1, <2>2, <3>6, TwoSources
    <3> QED BY <1>4, <2>1, <3>7, RequestDone
  <2>4. CASE ~Covers(q)
    <3>1. E = {}
      BY <2>4
    <3> HIDE DEF E
    <3>2. GoodBars("history", q.end, bars)
      BY <1>1, <2>2, <3>1, TwoSources
    <3> QED BY <1>4, <2>1, <3>2, RequestDone
  <2> QED BY <2>3, <2>4
<1> QED
  BY <1>2, <1>3, <1>4

\* What a request in flight is.
LEMMA InFlight ==
    ASSUME RequestsGood, NEW r \in Requests, req[r].pc # "idle"
    PROVE  Asked(req[r]) /\ Awaits(req[r])
<1>1. req[r] # Idle
  BY DEF Idle
<1> QED
  BY <1>1 DEF RequestsGood

\* Today's candles, when they come, are of the day the request waited for: not of one
\* that Yahoo's candles are of, and that day was the current one a request's length ago.
LEMMA TodayCached ==
    ASSUME now \in 0 .. MaxTime, RequestsGood, NEW r \in Requests, NEW q, Asked(q), Awaits(q),
           q.pc \in {"points", "curve"}, q.kind = "history", NEW S \in SUBSET {q.day},
           today' = [age |-> 0, days |-> S], now' = now,
           Answers(r, q, Bars(q.days, "yahoo") \cup Ohlc(S))
    PROVE  RequestsGood' /\ TodayGood' /\ AnswerGood'
<1>1. /\ now \in Nat /\ Today \in Nat /\ q.end \in Nat /\ q.since \in Nat /\ q.day \in Nat
      /\ q.days \subseteq Nat /\ q.since <= now /\ now - q.since <= MaxRequest /\ q.end <= Today
      /\ \A d \in q.days : d <= q.end
  BY TodayIsDay DEF Asked, RequestRecord
<1>2. /\ Day(q.since) <= q.day /\ q.day <= q.end
      /\ \A d \in q.days : d < q.day
  BY DEF Awaits
<1>3. TodayGood'
  <2>1. now - 0 - MaxRequest \in Int /\ now - 0 - MaxRequest <= q.since /\ q.since \in Int
    BY <1>1
  <2>2. Day(now - 0 - MaxRequest) <= Day(q.since)
    BY <2>1, DayMonotonic
  <2>3. Day(now - 0 - MaxRequest) \in Int /\ Day(q.since) \in Int
    BY <2>1, DayBounds
  <2>4. Day(now - 0 - MaxRequest) <= q.day /\ q.day <= Today
    BY <1>1, <1>2, <2>2, <2>3
  <2>5. today' \in TodayRecord /\ today'.age = 0 /\ today'.days = S
    <3>1. S \in SUBSET Nat /\ 0 \in 0 .. TodayTTL
      BY <1>1
    <3> QED BY <3>1 DEF TodayRecord
  <2>6. Today' = Today
    BY DEF Today
  <2>7. \A d \in S : d = q.day
    OBVIOUS
  <2> QED BY <2>4, <2>5, <2>6, <2>7 DEF TodayGood
<1>4. GoodBars("history", q.end, Bars(q.days, "yahoo") \cup Bars(S, "scraper"))
  <2>1. \A d \in q.days : d < Today /\ d <= q.end
    <3>1. \A d \in q.days : d \in Nat /\ d < q.day /\ d <= q.end
      BY <1>1, <1>2
    <3> QED BY <1>1, <1>2, <3>1
  <2>2. \A d \in S : d <= q.end
    BY <1>2
  <2>3. q.days \cap S = {}
    <3>1. q.day \notin q.days
      <4>1. ~(q.day < q.day)
        BY <1>1
      <4> QED BY <1>2, <4>1
    <3> QED BY <3>1
  <2> QED BY <1>1, <2>1, <2>2, <2>3, TwoSources
<1>5. RequestsGood' /\ AnswerGood'
  BY <1>4, RequestDone DEF Ohlc
<1> QED
  BY <1>3, <1>5

\* Points have come: _today_session_bars() and get_intraday_series().
LEMMA PointsUsed ==
    ASSUME now \in 0 .. MaxTime, RequestsGood, TodayGood, NEW r \in Requests, NEW q, Asked(q), Awaits(q),
           q.pc \in {"points", "curve"}, NEW curve, UsePoints(r, q, curve), now' = now
    PROVE  RequestsGood' /\ TodayGood' /\ AnswerGood'
<1>1. CASE q.kind = "intraday"
  <2>1. Answers(r, q, Bars(LatestSession(curve), "scraper")) /\ today' = today
    BY <1>1 DEF UsePoints, Ohlc
  <2>2. GoodBars(q.kind, q.end, Bars(LatestSession(curve), "scraper"))
    BY <1>1, OneSource
  <2> QED BY <2>1, <2>2, RequestDone, TodayStays
<1>2. CASE q.kind = "history"
  <2> DEFINE S == SessionBars(q, curve)
  <2>1. S \in SUBSET {q.day}
    BY DEF SessionBars
  <2>2. today' = [age |-> 0, days |-> S] /\ Answers(r, q, Bars(q.days, "yahoo") \cup Ohlc(S))
    BY <1>2 DEF UsePoints
  <2> HIDE DEF S
  <2> QED BY <1>2, <2>1, <2>2, TodayCached
<1> QED
  BY <1>1, <1>2 DEF Awaits

\* No points have come.
LEMMA NoPointsUsed ==
    ASSUME now \in 0 .. MaxTime, RequestsGood, TodayGood, NEW r \in Requests, NEW q, Asked(q), Awaits(q),
           q.pc \in {"points", "curve"}, NoPoints(r, q), now' = now
    PROVE  RequestsGood' /\ TodayGood' /\ AnswerGood'
<1>1. CASE q.kind = "intraday"
  <2> DEFINE o == [q EXCEPT !.pc = "yahoo"]
  <2>1. Goes(r, q, "yahoo") /\ today' = today
    BY <1>1 DEF NoPoints
  <2>2. Asked(o) /\ o.pc = "yahoo"
    BY Elsewhere
  <2> HIDE DEF o
  <2>3. Awaits(o)
    BY <2>2 DEF Awaits
  <2> QED BY <2>1, <2>2, <2>3, RequestGoes, TodayStays DEF o
<1>2. CASE q.kind = "history"
  <2>1. Ohlc({}) = {}
    BY DEF Ohlc, Bars
  <2>2. /\ today' = [age |-> 0, days |-> {}]
        /\ Answers(r, q, Bars(q.days, "yahoo") \cup Ohlc({}))
    BY <1>2, <2>1 DEF NoPoints
  <2>3. {} \in SUBSET {q.day}
    OBVIOUS
  <2> QED BY <1>2, <2>2, <2>3, TodayCached
<1> QED
  BY <1>1, <1>2 DEF Awaits

\* The NSE curve.
LEMMA NsePointsStep ==
    ASSUME IInv, NEW r \in Requests, NEW curve, NsePoints(r, curve)
    PROVE  IInv'
<1> DEFINE q == req[r]
           o == [q EXCEPT !.pc = "curve"]
<1>1. q.pc = "points" /\ UNCHANGED <<now, hist, bytes>>
  BY DEF NsePoints
<1>2. Asked(q) /\ Awaits(q) /\ RequestsGood /\ TodayGood /\ CacheGood /\ now \in 0 .. MaxTime
  BY <1>1, InFlight DEF IInv
<1>3. CacheGood' /\ now' \in 0 .. MaxTime
  BY <1>1, <1>2, CacheStays
<1>4. CASE curve # {}
  <2>1. UsePoints(r, q, curve)
    BY <1>4 DEF NsePoints
  <2> HIDE DEF q
  <2>2. RequestsGood' /\ TodayGood' /\ AnswerGood'
    BY <1>1, <1>2, <2>1, PointsUsed
  <2> QED BY <1>3, <2>2 DEF IInv
<1>5. CASE curve = {}
  <2>1. Goes(r, q, "curve") /\ today' = today
    BY <1>5 DEF NsePoints
  <2> HIDE DEF q
  <2>2. /\ Asked(o) /\ o.pc = "curve" /\ o.kind = q.kind /\ o.end = q.end /\ o.since = q.since
        /\ o.days = q.days /\ o.day = q.day
    BY <1>2, Elsewhere
  <2> HIDE DEF o
  <2>3. Awaits(o)
    BY <1>1, <1>2, <2>2 DEF Awaits
  <2>4. RequestsGood' /\ AnswerGood'
    BY <1>1, <1>2, <2>1, <2>2, <2>3, RequestGoes DEF o
  <2>5. TodayGood'
    BY <1>1, <1>2, <2>1, TodayStays
  <2> QED BY <1>3, <2>4, <2>5 DEF IInv
<1> QED
  BY <1>4, <1>5

\* The BSE curve, after one retry at most.
LEMMA BsePointsStep ==
    ASSUME IInv, NEW r \in Requests, NEW curve, BsePoints(r, curve)
    PROVE  IInv'
<1> DEFINE q == req[r]
           p == [q EXCEPT !.tries = 1]
           o == [p EXCEPT !.pc = "curve"]
<1>1. q.pc = "curve" /\ UNCHANGED <<now, hist, bytes>>
  BY DEF BsePoints
<1>2. Asked(q) /\ Awaits(q) /\ RequestsGood /\ TodayGood /\ CacheGood /\ now \in 0 .. MaxTime
  BY <1>1, InFlight DEF IInv
<1>3. CacheGood' /\ now' \in 0 .. MaxTime
  BY <1>1, <1>2, CacheStays
<1>4. CASE curve # {}
  <2>1. UsePoints(r, q, curve)
    BY <1>4 DEF BsePoints
  <2> HIDE DEF q
  <2>2. RequestsGood' /\ TodayGood' /\ AnswerGood'
    BY <1>1, <1>2, <2>1, PointsUsed
  <2> QED BY <1>3, <2>2 DEF IInv
<1>5. CASE curve = {} /\ q.tries = 0
  <2>1. Goes(r, p, "curve") /\ today' = today
    BY <1>5 DEF BsePoints
  <2> HIDE DEF q
  <2>2. /\ p \in RequestRecord /\ p.kind = q.kind /\ p.end = q.end /\ p.since = q.since
        /\ p.days = q.days /\ p.day = q.day /\ p.upto = q.upto
    BY <1>2 DEF Asked, RequestRecord
  <2> HIDE DEF p
  <2>3. Asked(p)
    BY <1>2, <2>2 DEF Asked
  <2>4. /\ Asked(o) /\ o.pc = "curve" /\ o.kind = p.kind /\ o.end = p.end /\ o.since = p.since
        /\ o.days = p.days /\ o.day = p.day
    BY <2>3, Elsewhere
  <2> HIDE DEF o
  <2>5. Awaits(o)
    BY <1>1, <1>2, <2>2, <2>4 DEF Awaits
  <2>6. RequestsGood' /\ AnswerGood'
    BY <1>1, <1>2, <2>1, <2>4, <2>5, RequestGoes DEF o
  <2>7. TodayGood'
    BY <1>1, <1>2, <2>1, TodayStays
  <2> QED BY <1>3, <2>6, <2>7 DEF IInv
<1>6. CASE curve = {} /\ q.tries # 0
  <2>1. NoPoints(r, q)
    BY <1>6 DEF BsePoints
  <2> HIDE DEF q
  <2>2. RequestsGood' /\ TodayGood' /\ AnswerGood'
    BY <1>1, <1>2, <2>1, NoPointsUsed
  <2> QED BY <1>3, <2>2 DEF IInv
<1> QED
  BY <1>4, <1>5, <1>6

\* A request as it arrives.
LEMMA NewRequest ==
    ASSUME now \in 0 .. MaxTime, NEW kind \in Kinds, NEW end \in 0 .. Today, NEW u \in Int, u <= end
    PROVE  LET q == [pc |-> "idle", kind |-> kind, end |-> end, since |-> now, days |-> {}, day |-> 0,
                     tries |-> 0, upto |-> u]
           IN Asked(q) /\ q.kind = kind /\ q.end = end
<1> DEFINE q == [pc |-> "idle", kind |-> kind, end |-> end, since |-> now, days |-> {}, day |-> 0,
                 tries |-> 0, upto |-> u]
<1>1. now \in Nat /\ Today \in Nat /\ end \in Nat /\ end <= Today
  BY TodayIsDay
<1>2. q \in RequestRecord
  BY <1>1 DEF RequestRecord
<1>3. q.since = now /\ q.end = end /\ q.upto = u /\ q.days = {} /\ q.kind = kind
  OBVIOUS
<1> HIDE DEF q
<1>4. Asked(q)
  BY <1>1, <1>2, <1>3 DEF Asked
<1> QED
  BY <1>3, <1>4 DEF q

\* /history arrives, and is answered from the caches or asks a feed.
LEMMA StartHistoryStep ==
    ASSUME IInv, NEW r \in Requests, NEW kind \in Kinds, NEW end \in 0 .. Today, NEW exact \in BOOLEAN,
           StartHistory(r, kind, end, exact)
    PROVE  IInv'
<1> DEFINE u == IF exact THEN end - 1 ELSE end
           q == [pc |-> "idle", kind |-> kind, end |-> end, since |-> now, days |-> {}, day |-> 0,
                 tries |-> 0, upto |-> u]
           k == Key(q)
           o == [q EXCEPT !.pc = "yahoo"]
<1>1. /\ kind \in {"history", "daily"} /\ UNCHANGED <<now, today>>
      /\ IF Hit(k) THEN Assemble(r, q, Entry(hist, k).val) /\ UNCHANGED <<hist, bytes>>
                   ELSE Miss(k) /\ Goes(r, q, "yahoo")
  BY DEF StartHistory
<1>2. RequestsGood /\ TodayGood /\ CacheGood /\ now \in 0 .. MaxTime
  BY DEF IInv
<1>3. now \in Nat /\ Today \in Nat /\ end \in Nat
  BY <1>2, TodayIsDay
<1>4. u \in Int /\ u <= end
  BY <1>3
<1> HIDE DEF u
<1>5. Asked(q) /\ q.kind = kind /\ q.end = end
  BY <1>2, <1>4, NewRequest
<1> HIDE DEF q
<1>6. k = <<kind, end>>
  BY <1>5 DEF Key
<1> HIDE DEF k
<1>7. TodayGood' /\ now' \in 0 .. MaxTime
  BY <1>1, <1>2, TodayStays
<1>8. CASE Hit(k)
  <2>1. Place(hist, k) \in DOMAIN hist /\ hist[Place(hist, k)].key = k
    BY <1>8 DEF Hit, Has, Place
  <2>2. Entry(hist, k).val \in SUBSET (0 .. q.end)
    <3>1. hist[Place(hist, k)].val \subseteq 0 .. k[2]
      BY <1>2, <2>1 DEF CacheGood, CacheUpTo
    <3>2. k[2] = q.end
      BY <1>5, <1>6
    <3> QED BY <3>1, <3>2 DEF Entry
  <2>3. RequestsGood' /\ AnswerGood'
    BY <1>1, <1>2, <1>5, <1>8, <2>2, Assembled
  <2>4. CacheGood'
    BY <1>1, <1>2, <1>8, CacheStays
  <2> QED BY <1>7, <2>3, <2>4 DEF IInv
<1>9. CASE ~Hit(k)
  <2>1. Asked(o) /\ o.pc = "yahoo"
    BY <1>5, Elsewhere
  <2> HIDE DEF o
  <2>2. Awaits(o)
    BY <2>1 DEF Awaits
  <2>3. RequestsGood' /\ AnswerGood'
    BY <1>1, <1>2, <1>9, <2>1, <2>2, RequestGoes DEF o
  <2>4. Today' = Today /\ Miss(k)
    BY <1>1, <1>9 DEF Today
  <2>5. CacheGood'
    BY <1>2, <1>3, <2>4, MissKeeps DEF CacheGood
  <2> QED BY <1>7, <2>3, <2>5 DEF IInv
<1> QED
  BY <1>8, <1>9

\* The other endpoints.
LEMMA StartStep ==
    ASSUME IInv, NEW r \in Requests, NEW kind \in Kinds, Start(r, kind)
    PROVE  IInv'
<1> DEFINE q == [pc |-> "idle", kind |-> kind, end |-> Today, since |-> now, days |-> {}, day |-> 0,
                 tries |-> 0, upto |-> Today]
<1>1. UNCHANGED <<now, hist, bytes, today>>
  BY DEF Start
<1>2. \/ kind = "candles" /\ Goes(r, q, "yahoo")
      \/ kind = "intraday" /\ Goes(r, q, "points")
      \/ kind \in {"historical", "eod"} /\ Goes(r, q, "db")
  BY DEF Start
<1>3. RequestsGood /\ TodayGood /\ CacheGood /\ now \in 0 .. MaxTime
  BY DEF IInv
<1>4. Today \in 0 .. Today /\ Today \in Int /\ Today <= Today
  BY <1>3, TodayIsDay
<1>5. Asked(q) /\ q.kind = kind
  BY <1>3, <1>4, NewRequest
<1> HIDE DEF q
<1>6. TodayGood' /\ CacheGood' /\ now' \in 0 .. MaxTime
  BY <1>1, <1>3, TodayStays, CacheStays
<1>7. ASSUME NEW pc \in {"yahoo", "points", "db"}, Goes(r, q, pc),
             pc = "points" => kind = "intraday", pc = "db" => kind \in {"historical", "eod"}
      PROVE  IInv'
  <2> DEFINE o == [q EXCEPT !.pc = pc]
  <2>1. Asked(o) /\ o.pc = pc /\ o.kind = q.kind
    <3>1. pc \in {"yahoo", "points", "curve", "overlay", "db"}
      BY <1>7
    <3> QED BY <1>5, <3>1, Elsewhere
  <2> HIDE DEF o
  <2>2. Awaits(o)
    BY <1>5, <1>7, <2>1 DEF Awaits
  <2>3. RequestsGood' /\ AnswerGood'
    BY <1>1, <1>3, <1>7, <2>1, <2>2, RequestGoes DEF o
  <2> QED BY <1>6, <2>3 DEF IInv
<1> QED
  BY <1>2, <1>7

\* The database's rows, or none.
LEMMA DbRowsStep ==
    ASSUME IInv, NEW r \in Requests, NEW days, DbRows(r, days)
    PROVE  IInv'
<1> DEFINE q == req[r]
           o == [q EXCEPT !.pc = "yahoo"]
<1>1. q.pc = "db" /\ UNCHANGED <<now, hist, bytes, today>>
  BY DEF DbRows
<1>2. Asked(q) /\ Awaits(q) /\ RequestsGood /\ TodayGood /\ CacheGood /\ now \in 0 .. MaxTime
  BY <1>1, InFlight DEF IInv
<1>3. CacheGood' /\ TodayGood' /\ now' \in 0 .. MaxTime
  BY <1>1, <1>2, CacheStays, TodayStays
<1>4. CASE days = {}
  <2>1. Goes(r, q, "yahoo")
    BY <1>4 DEF DbRows
  <2> HIDE DEF q
  <2>2. Asked(o) /\ o.pc = "yahoo"
    BY <1>2, Elsewhere
  <2> HIDE DEF o
  <2>3. Awaits(o)
    BY <2>2 DEF Awaits
  <2>4. RequestsGood' /\ AnswerGood'
    BY <1>1, <1>2, <2>1, <2>2, <2>3, RequestGoes DEF o
  <2> QED BY <1>3, <2>4 DEF IInv
<1>5. CASE days # {}
  <2>1. Answers(r, q, Selected(q, days))
    BY <1>5 DEF DbRows
  <2> HIDE DEF q
  <2>2. GoodBars(q.kind, q.end, Selected(q, days))
    <3>1. q.kind # "history"
      BY <1>1, <1>2 DEF Awaits
    <3> QED BY <3>1, OneSource DEF Selected, Eod
  <2>3. RequestsGood' /\ AnswerGood'
    BY <1>1, <1>2, <2>1, <2>2, RequestDone
  <2> QED BY <1>3, <2>3 DEF IInv
<1> QED
  BY <1>4, <1>5

\* The live quote over the last candle.
LEMMA LiveBarStep ==
    ASSUME IInv, NEW r \in Requests, NEW quote \in BOOLEAN, LiveBar(r, quote)
    PROVE  IInv'
<1> DEFINE q == req[r]
<1>1. /\ q.pc = "overlay" /\ UNCHANGED <<now, hist, bytes, today>>
      /\ Answers(r, q, Overlay(q.days, quote))
  BY DEF LiveBar
<1>2. Asked(q) /\ Awaits(q) /\ RequestsGood /\ TodayGood /\ CacheGood /\ now \in 0 .. MaxTime
  BY <1>1, InFlight DEF IInv
<1> HIDE DEF q
<1>3. CacheGood' /\ TodayGood' /\ now' \in 0 .. MaxTime
  BY <1>1, <1>2, CacheStays, TodayStays
<1>4. GoodBars(q.kind, q.end, Overlay(q.days, quote))
  <2> DEFINE D == q.days \ (IF quote THEN {Today} ELSE {})
             E == IF quote THEN {Today} ELSE {}
  <2>1. q.kind = "candles"
    BY <1>1, <1>2 DEF Awaits
  <2>2. \A b \in Bars(D, "yahoo") : b = [day |-> b.day, src |-> "yahoo"] /\ b.day \in D
    BY DEF Bars
  <2>3. \A b \in Bars(E, "live") : b = [day |-> b.day, src |-> "live"] /\ b.day \in E
    BY DEF Bars
  <2>4. D \cap E = {}
    OBVIOUS
  <2>5. Overlay(q.days, quote) = Bars(D, "yahoo") \cup Bars(E, "live")
    BY DEF Overlay
  <2> HIDE DEF D, E
  <2>6. \A b, c \in Bars(D, "yahoo") \cup Bars(E, "live") : b.day = c.day => b = c
    BY <2>2, <2>3, <2>4
  <2> QED BY <2>1, <2>5, <2>6, Zenon DEF GoodBars
<1>5. RequestsGood' /\ AnswerGood'
  BY <1>1, <1>2, <1>4, RequestDone
<1> QED
  BY <1>3, <1>5 DEF IInv

\* Yahoo's rows, or none: cached for /history, the answer of the other endpoints.
LEMMA YahooRowsStep ==
    ASSUME IInv, NEW r \in Requests, NEW ok \in BOOLEAN, YahooRows(r, ok)
    PROVE  IInv'
<1> DEFINE q == req[r]
           days == IF ok THEN 0 .. q.upto ELSE {}
<1>1. q.pc = "yahoo" /\ UNCHANGED <<now, today>>
  BY DEF YahooRows
<1>2. Asked(q) /\ RequestsGood /\ TodayGood /\ CacheGood /\ now \in 0 .. MaxTime
  BY <1>1, InFlight DEF IInv
<1>3. TodayGood' /\ now' \in 0 .. MaxTime /\ Today' = Today
  BY <1>1, <1>2, TodayStays DEF Today
<1>4. /\ q.end \in Nat /\ q.end <= Today /\ q.kind \in Kinds /\ q.upto \in Int /\ q.upto <= q.end
      /\ Today \in Nat /\ q \in RequestRecord
  BY <1>2, TodayIsDay DEF Asked, RequestRecord
<1>5. days \in SUBSET (0 .. q.end)
  BY <1>4
<1>6. CASE q.kind \in {"history", "daily"}
  <2>1. Put(Key(q), days) /\ Assemble(r, q, days)
    BY <1>6 DEF YahooRows
  <2> HIDE DEF days, q
  <2>2. RequestsGood' /\ AnswerGood'
    BY <1>1, <1>2, <1>5, <1>6, <2>1, Assembled
  <2>3. Key(q) \in Kinds \X Nat /\ Key(q)[2] = q.end
    BY <1>4 DEF Key
  <2> DEFINE k == Key(q)
  <2>4. k \in Kinds \X Nat /\ k[2] <= Today /\ days \in SUBSET (0 .. k[2]) /\ Put(k, days)
    BY <1>4, <1>5, <2>1, <2>3
  <2> HIDE DEF k
  <2>5. /\ CacheUpTo(hist', Today) /\ Unique(hist') /\ bytes' = Bytes(hist')
        /\ bytes' <= HistBudget \/ Len(hist') = 1
    BY <1>2, <1>4, <2>4, StoredKeeps DEF CacheGood
  <2>6. CacheGood'
    BY <1>3, <2>5 DEF CacheGood
  <2> QED BY <1>3, <2>2, <2>6 DEF IInv
<1>7. CASE q.kind = "candles"
  <2> DEFINE p == [q EXCEPT !.days = days]
             o == [p EXCEPT !.pc = "overlay"]
  <2>1. Goes(r, p, "overlay") /\ UNCHANGED <<hist, bytes>>
    BY <1>7 DEF YahooRows
  <2> HIDE DEF days, q
  <2>2. days \in SUBSET Nat /\ \A d \in days : d <= q.end
    BY <1>4, <1>5
  <2>3. /\ p \in RequestRecord /\ p.kind = q.kind /\ p.end = q.end /\ p.since = q.since
        /\ p.days = days /\ p.upto = q.upto
    BY <1>4, <2>2 DEF RequestRecord
  <2> HIDE DEF p
  <2>4. Asked(p)
    BY <1>2, <2>2, <2>3 DEF Asked
  <2>5. Asked(o) /\ o.pc = "overlay" /\ o.kind = p.kind
    BY <2>4, Elsewhere
  <2> HIDE DEF o
  <2>6. Awaits(o)
    BY <1>7, <2>3, <2>5 DEF Awaits
  <2>7. RequestsGood' /\ AnswerGood'
    BY <1>1, <1>2, <2>1, <2>5, <2>6, RequestGoes DEF o
  <2>8. CacheGood'
    BY <1>1, <1>2, <2>1, CacheStays
  <2> QED BY <1>3, <2>7, <2>8 DEF IInv
<1>8. CASE q.kind \in {"intraday", "historical", "eod"}
  <2>1. PICK D : Answers(r, q, Bars(D, "yahoo")) /\ UNCHANGED <<hist, bytes>>
    <3>1. CASE q.kind = "intraday"
      BY <3>1, Zenon DEF YahooRows
    <3>2. CASE q.kind = "historical"
      BY <3>2, Zenon DEF YahooRows
    <3>3. CASE q.kind = "eod"
      BY <3>3, Zenon DEF YahooRows, Eod
    <3> QED BY <1>8, <3>1, <3>2, <3>3
  <2> HIDE DEF days, q
  <2>2. GoodBars(q.kind, q.end, Bars(D, "yahoo"))
    BY <1>8, OneSource
  <2>3. RequestsGood' /\ AnswerGood'
    BY <1>1, <1>2, <2>1, <2>2, RequestDone
  <2>4. CacheGood'
    BY <1>1, <1>2, <2>1, CacheStays
  <2> QED BY <1>3, <2>3, <2>4 DEF IInv
<1> QED
  BY <1>4, <1>6, <1>7, <1>8 DEF Kinds

\* An empty cache is a good one.
LEMMA EmptyCache == ASSUME NEW n \in Nat PROVE CacheUpTo(<<>>, n) /\ Unique(<<>>) /\ Bytes(<<>>) = 0
<1>1. Held(<<>>, DOMAIN <<>>) = {}
  BY DEF Held
<1>2. Bytes(<<>>) = 0
  BY <1>1, FS_EmptySet DEF Bytes, BytesAt
<1> QED
  BY <1>2 DEF CacheUpTo, Unique

\* /cache/clear.
LEMMA ClearStep == ASSUME IInv, Clear PROVE IInv'
<1>1. /\ now' = now /\ hist' = <<>> /\ bytes' = 0 /\ today' = None /\ req' = req /\ AnswerGood'
      /\ now \in 0 .. MaxTime /\ Today' = Today
  BY SilentIsGood DEF Clear, IInv, Today
<1>2. Today \in Nat
  BY <1>1, TodayIsDay
<1>3. CacheGood'
  <2>1. CacheUpTo(hist', Today) /\ Unique(hist') /\ Bytes(hist') = 0
    BY <1>1, <1>2, EmptyCache
  <2> QED BY <1>1, <2>1 DEF CacheGood
<1>4. TodayGood'
  BY <1>1 DEF TodayGood
<1>5. RequestsGood'
  BY <1>1 DEF IInv, RequestsGood, Asked, Awaits
<1> QED
  BY <1>1, <1>3, <1>4, <1>5 DEF IInv

\* Time passes: days only get later, entries and requests older.
LEMMA ClockStep == ASSUME IInv, Clock PROVE IInv'
<1>1. /\ now \in 0 .. MaxTime /\ CacheGood /\ TodayGood /\ RequestsGood
      /\ now < MaxTime /\ now' = now + 1 /\ bytes' = bytes /\ req' = req /\ AnswerGood'
      /\ \A r \in Requests : req[r] # Idle => now - req[r].since < MaxRequest
  BY SilentIsGood DEF Clock, IInv
<1>2. now' \in 0 .. MaxTime /\ now \in Nat /\ Today \in Nat /\ Today' \in Nat /\ Today <= Today'
  <2>1. now' \in 0 .. MaxTime /\ now' \in Nat /\ now \in Nat /\ now <= now'
    BY <1>1
  <2>2. Day(now) \in Nat /\ Day(now') \in Nat /\ Day(now) <= Day(now')
    BY <2>1, DayNat, DayMonotonic
  <2> QED BY <2>1, <2>2 DEF Today
<1>3. CacheGood'
  <2>1. hist' = [i \in DOMAIN hist |-> Aged(hist[i], HistTTL)]
    BY DEF Clock
  <2>2. /\ CacheUpTo(hist', Today) /\ Unique(hist')
        /\ Bytes(hist') = Bytes(hist) /\ Len(hist') = Len(hist)
    BY <1>1, <1>2, <2>1, AgingKeeps DEF CacheGood
  <2>3. CacheUpTo(hist', Today')
    BY <1>2, <2>2, CacheGrows
  <2> QED BY <1>1, <2>2, <2>3 DEF CacheGood
<1>4. TodayGood'
  <2>1. CASE today = None
    BY <2>1 DEF Clock, TodayGood
  <2>2. CASE today # None
    <3>1. /\ today \in TodayRecord /\ \A d \in today.days : d <= Today
          /\ today.age < TodayTTL => \A d \in today.days : Day(now - today.age - MaxRequest) <= d
      BY <1>1, <2>2 DEF TodayGood
    <3>2. today.age \in 0 .. TodayTTL /\ today.days \in SUBSET Nat
      BY <3>1 DEF TodayRecord
    <3> DEFINE a == IF today.age < TodayTTL THEN today.age + 1 ELSE TodayTTL
    <3>3. a \in 0 .. TodayTTL
      BY <3>2
    <3>4. today' = [today EXCEPT !.age = a]
      BY <2>2 DEF Clock, Aged
    <3>5. a < TodayTTL => today.age < TodayTTL /\ now' - a - MaxRequest = now - today.age - MaxRequest
      BY <1>1, <1>2, <3>2
    <3> HIDE DEF a
    <3>6. today' \in TodayRecord /\ today'.age = a /\ today'.days = today.days
      BY <3>1, <3>3, <3>4 DEF TodayRecord
    <3>7. \A d \in today.days : d <= Today'
      BY <1>2, <3>1, <3>2
    <3>8. today'.age < TodayTTL => \A d \in today'.days : Day(now' - today'.age - MaxRequest) <= d
      BY <3>1, <3>5, <3>6
    <3> QED BY <3>6, <3>7, <3>8 DEF TodayGood
  <2> QED BY <2>1, <2>2
<1>5. RequestsGood'
  <2>1. ASSUME NEW r \in Requests, req[r] # Idle PROVE (Asked(req[r]) /\ Awaits(req[r]))'
    <3>1. Asked(req[r]) /\ Awaits(req[r]) /\ now - req[r].since < MaxRequest
      BY <1>1, <2>1 DEF RequestsGood
    <3>2. req[r].since \in Nat /\ req[r].end \in Nat
      BY <3>1 DEF Asked, RequestRecord
    <3>3. req[r].since <= now' /\ now' - req[r].since <= MaxRequest /\ req[r].end <= Today'
      BY <1>1, <1>2, <3>1, <3>2 DEF Asked
    <3>4. Asked(req[r])'
      BY <1>1, <3>1, <3>3 DEF Asked
    <3>5. Awaits(req[r])'
      BY <1>1, <3>1 DEF Awaits
    <3> QED BY <3>4, <3>5
  <2> QED BY <1>1, <2>1 DEF RequestsGood
<1> QED
  BY <1>1, <1>2, <1>3, <1>4, <1>5 DEF IInv

\* Before the first midnight nothing is cached and nobody asks.
LEMMA InitGood == Init => IInv
<1> SUFFICES ASSUME Init PROVE IInv
  OBVIOUS
<1>1. now \in 0 .. MaxTime
  BY DEF Init
<1>2. Today \in Nat
  BY <1>1, TodayIsDay
<1>3. CacheGood
  <2>1. CacheUpTo(hist, Today) /\ Unique(hist) /\ Bytes(hist) = 0
    BY <1>2, EmptyCache DEF Init
  <2> QED BY <2>1 DEF Init, CacheGood
<1>4. TodayGood /\ RequestsGood
  BY DEF Init, TodayGood, RequestsGood
<1>5. AnswerGood
  BY DEF Init, AnswerGood, TodayNeverYahoo, RangeRespected, DoubledOnlyAtMidnight
<1> QED
  BY <1>1, <1>3, <1>4, <1>5 DEF IInv

\* A step keeps the invariant.
LEMMA StepGood == IInv /\ [Next]_vars => IInv'
<1> SUFFICES ASSUME IInv, [Next]_vars PROVE IInv'
  OBVIOUS
<1>1. ASSUME NEW r \in Requests, NEW kind \in Kinds, NEW end \in 0 .. Today, NEW exact \in BOOLEAN,
             StartHistory(r, kind, end, exact)
      PROVE  IInv'
  BY <1>1, StartHistoryStep
<1>2. ASSUME NEW r \in Requests, NEW kind \in Kinds, Start(r, kind) PROVE IInv'
  BY <1>2, StartStep
<1>3. ASSUME NEW r \in Requests, Await(r) PROVE IInv'
  BY <1>3, YahooRowsStep, LiveBarStep, NsePointsStep, BsePointsStep, DbRowsStep, Zenon DEF Await
<1>4. CASE Clear
  BY <1>4, ClearStep
<1>5. CASE Clock
  BY <1>5, ClockStep
<1>6. CASE UNCHANGED vars
  <2>1. CacheGood' /\ TodayGood'
    BY <1>6, CacheStays, TodayStays DEF IInv, vars
  <2>2. RequestsGood'
    BY <1>6 DEF IInv, vars, RequestsGood, Asked, Awaits, Today
  <2>3. AnswerGood'
    BY <1>6 DEF IInv, vars, AnswerGood, TodayNeverYahoo, RangeRespected, DoubledOnlyAtMidnight, Today
  <2> QED BY <1>6, <2>1, <2>2, <2>3 DEF IInv, vars
<1> QED
  BY <1>1, <1>2, <1>3, <1>4, <1>5, <1>6, Zenon DEF Next

\* What the invariant says of the types and of the cache.
LEMMA GoodIsTyped == IInv => HistoryInv
<1> SUFFICES ASSUME IInv PROVE HistoryInv
  OBVIOUS
<1>1. now \in 0 .. MaxTime /\ Today \in Nat /\ CacheUpTo(hist, Today) /\ RequestsGood /\ CacheGood
  BY TodayIsDay DEF IInv, CacheGood
<1>2. bytes \in Nat
  BY <1>1, HeldFinite DEF CacheGood, Bytes
<1>3. ASSUME NEW i \in DOMAIN hist PROVE hist[i].age \in 0 .. HistTTL /\ hist[i].val \subseteq 0 .. Today
  <2>1. hist[i] \in EntryRecord /\ hist[i].val \subseteq 0 .. Today
    BY <1>1, <1>3, Entries
  <2> QED BY <2>1 DEF EntryRecord
<1>4. \A r \in Requests : req[r].pc \in {"idle", "yahoo", "points", "curve", "overlay", "db"}
  BY <1>1 DEF RequestsGood, RequestRecord, Idle
<1>5. TypeOK
  BY <1>1, <1>2, <1>3, <1>4 DEF TypeOK
<1>6. CacheBounded
  BY <1>1 DEF CacheGood, CacheBounded, Unique
<1> QED
  BY <1>5, <1>6 DEF HistoryInv

\* _HIST_CACHE's count is exactly what its entries take and stays within the budget, or
\* one entry alone is larger, no key is there twice, and nothing cached is of a day that
\* has not begun: whatever number of requests overlap, expire, overwrite and clear.
THEOREM HistorySafe == Spec => []HistoryInv
<1>1. IInv => HistoryInv
  BY GoodIsTyped
<1> QED
  BY <1>1, InitGood, StepGood, PTL DEF Spec

\* The "ARMED RULE" of sb_history(): an intraday /history never has the current day from
\* Yahoo, also if the request runs over midnight or meets another's cached lists.
THEOREM TodayIsNeverYahoos == Spec => []TodayNeverYahoo
<1>1. IInv => TodayNeverYahoo
  BY DEF IInv, AnswerGood
<1> QED
  BY <1>1, InitGood, StepGood, PTL DEF Spec

\* No answer of /history has a candle after the last date asked for, though the cache of
\* today's candles knows neither the range nor the date.
THEOREM RangeIsRespected == Spec => []RangeRespected
<1>1. IInv => RangeRespected
  BY DEF IInv, AnswerGood
<1> QED
  BY <1>1, InitGood, StepGood, PTL DEF Spec

\* A day comes from two sources only in an intraday /history, and only within the TTL of
\* today's candles and a request's length after midnight.
THEOREM DoublesOnlyAtMidnight == Spec => []DoubledOnlyAtMidnight
<1>1. IInv => DoubledOnlyAtMidnight
  BY DEF IInv, AnswerGood
<1> QED
  BY <1>1, InitGood, StepGood, PTL DEF Spec
=============================================================================
