------------------------------ MODULE AskProofs ------------------------------
(***************************************************************************)
(* What the pipeline of a question promises, proved for any asks,          *)
(* documents, answers of the model and limits.                             *)
(***************************************************************************)
EXTENDS Ask, FiniteSetTheorems, FunctionTheorems, SequenceTheorems,
        WellFoundedInduction, TLAPS

(***************************************************************************)
(* Lists, and the parts of them.                                           *)
(***************************************************************************)
\* Every set of natural numbers has a least one.
LEMMA LeastElement ==
    ASSUME NEW S \in SUBSET Nat, S # {}
    PROVE  \E m \in S : \A n \in S : m <= n
<1> DEFINE R == OpToRel(<, Nat)
<1>1. IsWellFoundedOn(R, Nat)
  BY NatLessThanWellFounded
<1>2. \A x, y \in Nat : y < x => <<y, x>> \in R
  BY DEF OpToRel
<1> HIDE DEF R
<1>3. PICK x \in S : \A y \in S : ~(<<y, x>> \in R)
  BY <1>1, WFMin
<1>4. \A y \in S : ~(y < x)
  BY <1>2, <1>3
<1> QED
  BY <1>3, <1>4

\* A list, whatever the model put in it.
Listed(es) == es \in Seq({es[i] : i \in DOMAIN es})

LEMMA ListedBy ==
    ASSUME NEW n \in Nat, NEW es, es = [i \in 1..n |-> es[i]]
    PROVE  Listed(es) /\ Len(es) = n
<1>1. es \in [1..n -> {es[i] : i \in DOMAIN es}]
  OBVIOUS
<1>2. es \in Seq({es[i] : i \in DOMAIN es})
  BY <1>1
<1> QED
  BY <1>2 DEF Listed

LEMMA ListedOf ==
    ASSUME NEW S, NEW es \in Seq(S)
    PROVE  Listed(es)
<1>1. DOMAIN es = 1..Len(es) /\ Len(es) \in Nat
  BY LenProperties
<1>2. es \in [1..Len(es) -> {es[i] : i \in DOMAIN es}]
  BY <1>1
<1> QED
  BY <1>1, <1>2 DEF Listed

LEMMA ListedPlaces ==
    ASSUME NEW es, Listed(es)
    PROVE  /\ DOMAIN es = 1..Len(es) /\ Len(es) \in Nat
           /\ IsFiniteSet(DOMAIN es) /\ Cardinality(DOMAIN es) = Len(es)
<1>1. DOMAIN es = 1..Len(es) /\ Len(es) \in Nat
  BY LenProperties DEF Listed
<1>2. IsFiniteSet(1..Len(es))
      /\ Cardinality(1..Len(es)) = IF 1 > Len(es) THEN 0 ELSE Len(es) - 1 + 1
  BY SMTT(30), <1>1, FS_Interval
<1>3. Cardinality(DOMAIN es) = Len(es)
  BY <1>1, <1>2
<1> QED
  BY <1>1, <1>2, <1>3

LEMMA ListedAppended ==
    ASSUME NEW es, NEW more, Listed(es), Listed(more)
    PROVE  /\ Listed(es \o more) /\ Len(es \o more) = Len(es) + Len(more)
           /\ \A i \in DOMAIN es : i \in DOMAIN (es \o more) /\ (es \o more)[i] = es[i]
           /\ \A i \in 1..Len(more) : (es \o more)[Len(es) + i] = more[i]
           /\ Range(es \o more) \subseteq Range(es) \cup Range(more)
<1> DEFINE S == {es[i] : i \in DOMAIN es} \cup {more[i] : i \in DOMAIN more}
<1>1. es \in Seq(S) /\ more \in Seq(S)
  BY SeqMonotonic DEF Listed
<1> HIDE DEF S
<1>2. es \o more \in Seq(S)
  BY <1>1, ConcatProperties
<1>3. /\ Len(es \o more) = Len(es) + Len(more)
      /\ \A i \in 1..(Len(es) + Len(more)) :
            (es \o more)[i] = IF i <= Len(es) THEN es[i] ELSE more[i - Len(es)]
  BY <1>1, ConcatProperties
<1>4. /\ DOMAIN es = 1..Len(es) /\ Len(es) \in Nat
      /\ DOMAIN more = 1..Len(more) /\ Len(more) \in Nat
  BY ListedPlaces
<1>5. DOMAIN (es \o more) = 1..(Len(es) + Len(more))
  BY <1>2, <1>3, LenProperties
<1>6. Listed(es \o more)
  BY <1>2, ListedOf
<1>7. \A i \in DOMAIN es : i \in DOMAIN (es \o more) /\ (es \o more)[i] = es[i]
  BY <1>3, <1>4, <1>5
<1>8. \A i \in 1..Len(more) : (es \o more)[Len(es) + i] = more[i]
  BY <1>3, <1>4
<1>9. ASSUME NEW i \in DOMAIN (es \o more), i \notin DOMAIN es
      PROVE  \E j \in DOMAIN more : (es \o more)[i] = more[j]
  <2>1. i - Len(es) \in DOMAIN more /\ (es \o more)[i] = more[i - Len(es)]
    BY <1>3, <1>4, <1>5, <1>9
  <2> QED
    BY <2>1
<1>10. Range(es \o more) \subseteq Range(es) \cup Range(more)
  <2> DEFINE all == es \o more
  <2>1. \A i \in DOMAIN all : i \in DOMAIN es => all[i] = es[i]
    BY <1>7
  <2>2. \A i \in DOMAIN all : i \notin DOMAIN es => \E j \in DOMAIN more : all[i] = more[j]
    BY <1>9
  <2> HIDE DEF all
  <2>3. Range(all) \subseteq Range(es) \cup Range(more)
    BY <2>1, <2>2 DEF Range
  <2> QED
    BY <2>3 DEF all
<1> QED
  BY <1>3, <1>6, <1>7, <1>8, <1>10

LEMMA ListedAppend ==
    ASSUME NEW es, NEW e, Listed(es)
    PROVE  /\ Listed(Append(es, e))
           /\ DOMAIN Append(es, e) = DOMAIN es \cup {Len(es) + 1}
           /\ Append(es, e)[Len(es) + 1] = e
           /\ \A i \in DOMAIN es : Append(es, e)[i] = es[i] /\ i # Len(es) + 1
<1> DEFINE S == {es[i] : i \in DOMAIN es} \cup {e}
<1>1. es \in Seq(S) /\ e \in S
  BY SeqMonotonic DEF Listed
<1> HIDE DEF S
<1>2. /\ Append(es, e) \in Seq(S) /\ Append(es, e)[Len(es) + 1] = e
      /\ Len(Append(es, e)) = Len(es) + 1
      /\ \A i \in 1..Len(es) : Append(es, e)[i] = es[i]
  BY <1>1, AppendProperties
<1>3. DOMAIN es = 1..Len(es) /\ Len(es) \in Nat
  BY ListedPlaces
<1>4. DOMAIN Append(es, e) = 1..(Len(es) + 1)
  BY <1>2, LenProperties
<1>5. DOMAIN Append(es, e) = DOMAIN es \cup {Len(es) + 1}
  BY <1>3, <1>4
<1>6. \A i \in DOMAIN es : Append(es, e)[i] = es[i] /\ i # Len(es) + 1
  BY <1>2, <1>3
<1>7. Listed(Append(es, e))
  BY <1>2, ListedOf
<1> QED
  BY <1>2, <1>5, <1>6, <1>7

LEMMA EmptyIsListed == Listed(<<>>) /\ DOMAIN <<>> = {} /\ Len(<<>>) = 0
  BY EmptySeq DEF Listed

-----------------------------------------------------------------------------
(***************************************************************************)
(* The route cache.                                                        *)
(***************************************************************************)
\* A route that may be used was let pass, as it is, for its query.
Vouched(d, e, routes) ==
    e.conf >= LookupMinConfidence =>
        \E r \in routes : /\ r.doc = d /\ r.intent = e.intent /\ r.kw = e.kw
                          /\ e.nodes \subseteq r.nodes

GoodEntry(d, e, routes) ==
    /\ DOMAIN e = {"intent", "kw", "nodes", "conf", "hits"}
    /\ e.conf \in Nat /\ e.hits \in Nat /\ IsFiniteSet(e.nodes)
    /\ Vouched(d, e, routes)

GoodRoutes(d, entries, routes) ==
    Listed(entries) /\ \A k \in DOMAIN entries : GoodEntry(d, entries[k], routes)

LEMMA MoreRoutes ==
    ASSUME NEW d, NEW entries, NEW routes, NEW more,
           routes \subseteq more, GoodRoutes(d, entries, routes)
    PROVE  GoodRoutes(d, entries, more)
  BY DEF GoodRoutes, GoodEntry, Vouched

\* One route at most is found, and it is one that may be used.
LEMMA FoundIsUsable ==
    ASSUME NEW d, NEW entries, NEW routes, GoodRoutes(d, entries, routes),
           NEW intnt, NEW kw, NEW e \in Lookup(entries, intnt, kw)
    PROVE  /\ Lookup(entries, intnt, kw) = {e} /\ IsFiniteSet(e.nodes)
           /\ \E r \in routes : /\ r.doc = d /\ r.intent = intnt /\ Alike(kw, r.kw)
                                /\ e.nodes \subseteq r.nodes
<1> DEFINE Best(k) == /\ k \in Usable(entries, intnt, kw)
                      /\ \A j \in Usable(entries, intnt, kw) :
                            /\ AtLeast(entries, kw, k, j)
                            /\ AtLeast(entries, kw, j, k) => k <= j
<1>1. \A f \in Lookup(entries, intnt, kw) : \E k : Best(k) /\ f = entries[k]
  BY DEF Lookup
<1>2. \A k, l : Best(k) /\ Best(l) => k <= l /\ l <= k
  OBVIOUS
<1>3. \A k \in Usable(entries, intnt, kw) : k \in Nat
  BY ListedPlaces DEF Usable, GoodRoutes
<1>4. ASSUME NEW k, NEW l, Best(k), Best(l)
      PROVE  k = l
  BY <1>2, <1>3, <1>4
<1>5. PICK k : Best(k) /\ e = entries[k]
  BY <1>1
<1>6. Lookup(entries, intnt, kw) = {e}
  BY <1>1, <1>4, <1>5
<1>7. /\ k \in DOMAIN entries /\ e.intent = intnt /\ e.conf >= LookupMinConfidence
      /\ Alike(kw, e.kw)
  BY <1>5 DEF Usable
<1>8. Vouched(d, e, routes) /\ IsFiniteSet(e.nodes)
  BY <1>5, <1>7 DEF GoodRoutes, GoodEntry
<1> QED
  BY <1>6, <1>7, <1>8 DEF Vouched

\* The order of hits has an entry for every place.
LEMMA ByHitsExists ==
    ASSUME NEW entries, Listed(entries),
           \A k \in DOMAIN entries : entries[k].hits \in Nat,
           NEW n \in 1..Len(entries)
    PROVE  \E k \in DOMAIN entries : Cardinality(Before(entries, k)) = n - 1
<1> DEFINE D == DOMAIN entries
           m == Len(entries)
           f == [k \in D |-> Cardinality(Before(entries, k))]
<1>1. D = 1..m /\ m \in Nat /\ IsFiniteSet(D) /\ Cardinality(D) = m
  BY ListedPlaces
<1>2. ASSUME NEW k \in D
      PROVE  /\ Before(entries, k) \in SUBSET D /\ k \notin Before(entries, k)
             /\ IsFiniteSet(Before(entries, k)) /\ Cardinality(Before(entries, k)) \in 0..(m - 1)
  <2>1. k \in Nat /\ entries[k].hits \in Nat
    BY <1>1
  <2>2. Before(entries, k) \in SUBSET D /\ k \notin Before(entries, k)
    BY <2>1 DEF Before
  <2>3. IsFiniteSet(Before(entries, k)) /\ Cardinality(Before(entries, k)) <= m
        /\ Cardinality(Before(entries, k)) # m
    BY <1>1, <2>2, FS_Subset
  <2>4. Cardinality(Before(entries, k)) \in Nat
    BY <2>3, FS_CardinalityType
  <2> QED
    BY <1>1, <2>2, <2>3, <2>4
<1>3. ASSUME NEW j \in D, NEW k \in D, j \in Before(entries, k)
      PROVE  f[j] # f[k]
  <2>1. \A i \in D : i \in Nat /\ entries[i].hits \in Nat
    BY <1>1
  <2>2. Before(entries, j) \in SUBSET Before(entries, k)
    BY <1>3, <2>1 DEF Before
  <2>3. Cardinality(Before(entries, j)) # Cardinality(Before(entries, k))
    BY <1>2, <1>3, <2>2, FS_Subset
  <2> QED
    BY <2>3
<1>4. \A j, k \in D : j # k => j \in Before(entries, k) \/ k \in Before(entries, j)
  BY <1>1 DEF Before
<1>5. \A j, k \in D : f[j] = f[k] => j = k
  BY <1>3, <1>4
<1>6. f \in [D -> 0..(m - 1)]
  BY <1>2
<1> HIDE DEF f
<1>7. f \in Injection(D, 0..(m - 1))
  BY <1>5, <1>6, Fun_IsInj
<1>8. IsFiniteSet(0..(m - 1)) /\ Cardinality(0..(m - 1)) = m
  <2> DEFINE l == m - 1
  <2>1. l \in Int /\ 0 \in Int
    BY <1>1
  <2> HIDE DEF l
  <2>2. IsFiniteSet(0..l)
    BY <2>1, FS_Interval
  <2>3. Cardinality(0..l) = IF 0 > l THEN 0 ELSE l - 0 + 1
    BY <2>1, FS_Interval
  <2>4. Cardinality(0..l) = m
    <3>1. m \in Nat /\ l = m - 1
      BY <1>1 DEF l
    <3> HIDE DEF m
    <3> QED
      BY <2>3, <3>1
  <2> QED
    BY <2>2, <2>4 DEF l
<1>9. f \in Surjection(D, 0..(m - 1))
  BY <1>1, <1>7, <1>8, FS_Injection
<1>10. \A t \in 0..(m - 1) : \E k \in D : f[k] = t
  <2> HIDE DEF D, m
  <2> QED
    BY <1>9, Fun_SurjectionProperties
<1>11. n - 1 \in 0..(m - 1)
  BY <1>1
<1> QED
  BY <1>10, <1>11 DEF f

LEMMA EvictKeeps ==
    ASSUME NEW d, NEW entries, NEW routes, GoodRoutes(d, entries, routes)
    PROVE  GoodRoutes(d, Evict(entries), routes)
<1>1. CASE Len(entries) <= MaxEntries
  BY <1>1 DEF Evict
<1>2. CASE ~(Len(entries) <= MaxEntries)
  <2> DEFINE ByHits(n) == CHOOSE k \in DOMAIN entries : Cardinality(Before(entries, k)) = n - 1
             new == [i \in 1..MaxEntries |-> entries[ByHits(Len(entries) - MaxEntries + i)]]
  <2>1. Evict(entries) = new
    BY <1>2, Zenon DEF Evict
  <2>2. Len(entries) \in Nat /\ Listed(entries)
    BY ListedPlaces DEF GoodRoutes
  <2>3. \A n \in 1..Len(entries) : ByHits(n) \in DOMAIN entries
    BY <2>2, ByHitsExists DEF GoodRoutes, GoodEntry
  <2>4. \A i \in 1..MaxEntries : Len(entries) - MaxEntries + i \in 1..Len(entries)
    BY <1>2, <2>2, EntriesAssumption
  <2> HIDE DEF ByHits
  <2>5. Listed(new)
    BY EntriesAssumption, ListedBy
  <2>6. \A i \in DOMAIN new : GoodEntry(d, new[i], routes)
    BY <2>3, <2>4 DEF GoodRoutes
  <2> HIDE DEF new
  <2> QED
    BY <2>1, <2>5, <2>6 DEF GoodRoutes
<1> QED
  BY <1>1, <1>2

LEMMA RecordedKeeps ==
    ASSUME NEW d, NEW entries, NEW routes, GoodRoutes(d, entries, routes),
           NEW intnt, NEW kw, NEW nodes, IsFiniteSet(nodes), NEW conf \in Nat,
           conf >= LookupMinConfidence =>
              \E r \in routes : /\ r.doc = d /\ r.intent = intnt /\ r.kw = kw
                                /\ nodes \subseteq r.nodes
    PROVE  GoodRoutes(d, Recorded(entries, intnt, kw, nodes, conf), routes)
<1> DEFINE same == {k \in DOMAIN entries : entries[k].intent = intnt /\ entries[k].kw = kw}
           new == [intent |-> intnt, kw |-> kw, nodes |-> nodes, conf |-> conf, hits |-> 1]
           upserted == [k \in DOMAIN entries |->
                          IF k \in same THEN Upsert(entries[k], nodes, conf) ELSE entries[k]]
<1>1. Recorded(entries, intnt, kw, nodes, conf) =
         IF nodes = {} \/ kw = {} THEN entries
         ELSE IF same # {} THEN upserted ELSE Evict(Append(entries, new))
  BY Zenon DEF Recorded
<1>2. Listed(entries)
  BY DEF GoodRoutes
<1>3. GoodRoutes(d, upserted, routes)
  <2>1. Listed(upserted)
    BY <1>2, ListedBy, ListedPlaces
  <2>2. ASSUME NEW k \in DOMAIN entries, k \in same
        PROVE  GoodEntry(d, Upsert(entries[k], nodes, conf), routes)
    <3> DEFINE e == entries[k]
               u == Upsert(e, nodes, conf)
    <3>1. GoodEntry(d, e, routes) /\ e.intent = intnt /\ e.kw = kw
      BY <2>2 DEF GoodRoutes
    <3> HIDE DEF e
    <3>2. /\ DOMAIN u = {"intent", "kw", "nodes", "conf", "hits"}
          /\ u.intent = e.intent /\ u.kw = e.kw /\ u.hits = e.hits + 1
          /\ u.nodes = (IF conf >= e.conf THEN nodes ELSE e.nodes)
          /\ u.conf = (IF conf >= e.conf THEN conf ELSE e.conf)
      BY <3>1 DEF Upsert, GoodEntry
    <3> HIDE DEF u
    <3>3. Vouched(d, u, routes)
      BY <3>1, <3>2 DEF GoodEntry, Vouched
    <3>4. GoodEntry(d, u, routes)
      BY <3>1, <3>2, <3>3 DEF GoodEntry
    <3> QED
      BY <3>4 DEF u, e
  <2>3. \A k \in DOMAIN upserted : GoodEntry(d, upserted[k], routes)
    BY <2>2 DEF GoodRoutes
  <2> QED
    BY <2>1, <2>3 DEF GoodRoutes
<1>4. GoodRoutes(d, Append(entries, new), routes)
  <2>1. GoodEntry(d, new, routes)
    BY DEF GoodEntry, Vouched
  <2> HIDE DEF new
  <2> QED
    BY <1>2, <2>1, ListedAppend DEF GoodRoutes
<1>5. GoodRoutes(d, Evict(Append(entries, new)), routes)
  BY <1>4, EvictKeeps
<1> HIDE DEF same, new, upserted
<1> QED
  BY <1>1, <1>3, <1>5

-----------------------------------------------------------------------------
(***************************************************************************)
(* The part of a list at some places, and evidence without duplicates.     *)
(***************************************************************************)
\* The k-th of some places is one with k places up to it.
LEMMA KthExists ==
    ASSUME NEW P \in SUBSET Nat, IsFiniteSet(P), NEW k \in 1..Cardinality(P)
    PROVE  Kth(P, k) \in P /\ Cardinality(UpTo(P, Kth(P, k))) = k
<1> DEFINE n == Cardinality(P)
           f == [i \in P |-> Cardinality(UpTo(P, i))]
<1>1. n \in Nat
  BY FS_CardinalityType
<1>2. ASSUME NEW i \in P
      PROVE  /\ IsFiniteSet(UpTo(P, i)) /\ UpTo(P, i) \subseteq P
             /\ Cardinality(UpTo(P, i)) \in 1..n
  <2>1. UpTo(P, i) \in SUBSET P /\ i \in UpTo(P, i)
    BY DEF UpTo
  <2>2. IsFiniteSet(UpTo(P, i)) /\ Cardinality(UpTo(P, i)) <= n
    BY <2>1, FS_Subset
  <2>3. Cardinality(UpTo(P, i)) \in Nat /\ Cardinality(UpTo(P, i)) # 0
    BY <2>1, <2>2, FS_CardinalityType, FS_EmptySet
  <2> QED
    BY <1>1, <2>1, <2>2, <2>3
<1>3. ASSUME NEW i \in P, NEW j \in P, i < j
      PROVE  f[i] # f[j]
  <2>1. UpTo(P, i) \in SUBSET UpTo(P, j) /\ j \in UpTo(P, j) /\ j \notin UpTo(P, i)
    <3>1. i \in Nat /\ j \in Nat /\ \A l \in P : l \in Nat
      OBVIOUS
    <3>2. \A l \in P : l <= i => l <= j
      BY <1>3, <3>1
    <3>3. UpTo(P, i) \subseteq UpTo(P, j)
      BY <3>2 DEF UpTo
    <3>4. j <= j /\ ~(j <= i)
      BY <1>3, <3>1
    <3> QED
      BY <3>3, <3>4 DEF UpTo
  <2>2. Cardinality(UpTo(P, j)) # Cardinality(UpTo(P, i))
    BY <1>2, <2>1, FS_Subset
  <2> QED
    BY <2>2
<1>4. f \in [P -> 1..n] /\ \A i, j \in P : f[i] = f[j] => i = j
  <2>1. f \in [P -> 1..n]
    BY <1>2
  <2>2. \A i, j \in P : i < j \/ i = j \/ j < i
    OBVIOUS
  <2> QED
    BY <1>3, <2>1, <2>2
<1>5. IsFiniteSet(1..n) /\ Cardinality(1..n) = n
  BY <1>1, FS_Interval
<1> HIDE DEF f
<1>6. f \in Injection(P, 1..n)
  BY <1>4, Fun_IsInj
<1>7. f \in Surjection(P, 1..n)
  BY <1>5, <1>6, FS_Injection
<1>8. PICK i \in P : f[i] = k
  <2>1. k \in 1..n
    OBVIOUS
  <2> HIDE DEF n
  <2>2. \A t \in 1..n : \E s \in P : f[s] = t
    BY <1>7, Fun_SurjectionProperties
  <2> QED
    BY <2>1, <2>2
<1>9. \E j \in P : Cardinality(UpTo(P, j)) = k
  BY <1>8 DEF f
<1> QED
  BY <1>9 DEF Kth

LEMMA UpToGrows ==
    ASSUME NEW P \in SUBSET Nat, IsFiniteSet(P), NEW i \in P, NEW j \in P
    PROVE  /\ i < j => Cardinality(UpTo(P, i)) < Cardinality(UpTo(P, j))
           /\ Cardinality(UpTo(P, i)) = Cardinality(UpTo(P, j)) => i = j
<1>1. \A l \in P : l \in Nat
  OBVIOUS
<1>2. \A k \in P : IsFiniteSet(UpTo(P, k)) /\ Cardinality(UpTo(P, k)) \in Nat
  <2> SUFFICES ASSUME NEW k \in P
               PROVE  IsFiniteSet(UpTo(P, k)) /\ Cardinality(UpTo(P, k)) \in Nat
    OBVIOUS
  <2>1. UpTo(P, k) \in SUBSET P
    BY DEF UpTo
  <2>2. IsFiniteSet(UpTo(P, k))
    BY <2>1, FS_Subset
  <2> QED
    BY <2>2, FS_CardinalityType
<1>3. ASSUME NEW k \in P, NEW l \in P, k < l
      PROVE  Cardinality(UpTo(P, k)) < Cardinality(UpTo(P, l))
  <2>1. k \in Nat /\ l \in Nat
    BY <1>1
  <2>2. UpTo(P, k) \in SUBSET UpTo(P, l)
    <3>1. \A m \in P : m <= k => m <= l
      BY <1>1, <1>3, <2>1
    <3> QED
      BY <3>1 DEF UpTo
  <2>3. l \in UpTo(P, l) /\ l \notin UpTo(P, k)
    BY <1>3, <2>1 DEF UpTo
  <2>4. /\ Cardinality(UpTo(P, k)) <= Cardinality(UpTo(P, l))
        /\ Cardinality(UpTo(P, l)) = Cardinality(UpTo(P, k)) => UpTo(P, l) = UpTo(P, k)
    BY <1>2, <2>2, FS_Subset
  <2>5. Cardinality(UpTo(P, k)) # Cardinality(UpTo(P, l))
    BY <2>3, <2>4
  <2> QED
    BY <1>2, <2>4, <2>5
<1>4. i < j \/ i = j \/ j < i
  BY <1>1
<1> QED
  BY <1>2, <1>3, <1>4

\* What At returns is the elements at the places, in their order.
LEMMA AtProperties ==
    ASSUME NEW seq, Listed(seq), NEW P \in SUBSET DOMAIN seq
    PROVE  /\ IsFiniteSet(P) /\ Cardinality(P) \in Nat
           /\ Listed(At(seq, P)) /\ Len(At(seq, P)) = Cardinality(P)
           /\ \A k \in DOMAIN At(seq, P) :
                 /\ k \in 1..Cardinality(P)
                 /\ Kth(P, k) \in P /\ At(seq, P)[k] = seq[Kth(P, k)]
           /\ \A k, l \in DOMAIN At(seq, P) : k < l => Kth(P, k) < Kth(P, l)
<1>1. DOMAIN seq = 1..Len(seq) /\ Len(seq) \in Nat /\ IsFiniteSet(DOMAIN seq)
  BY ListedPlaces
<1>2. IsFiniteSet(P) /\ P \in SUBSET Nat
  BY <1>1, FS_Subset
<1>3. Cardinality(P) \in Nat
  BY <1>2, FS_CardinalityType
<1>4. DOMAIN At(seq, P) = 1..Cardinality(P)
  BY DEF At
<1>5. \A k \in 1..Cardinality(P) : Kth(P, k) \in P /\ Cardinality(UpTo(P, Kth(P, k))) = k
  BY <1>2, KthExists
<1>6. \A k \in 1..Cardinality(P) : At(seq, P)[k] = seq[Kth(P, k)]
  BY DEF At
<1>7. At(seq, P) = [i \in 1..Cardinality(P) |-> At(seq, P)[i]]
  BY DEF At
<1>8. Listed(At(seq, P)) /\ Len(At(seq, P)) = Cardinality(P)
  BY <1>3, <1>7, ListedBy
<1>9. ASSUME NEW k \in 1..Cardinality(P), NEW l \in 1..Cardinality(P), k < l
      PROVE  Kth(P, k) < Kth(P, l)
  <2> DEFINE i == Kth(P, k)  j == Kth(P, l)
  <2>1. i \in P /\ j \in P /\ Cardinality(UpTo(P, i)) = k /\ Cardinality(UpTo(P, j)) = l
    BY <1>5
  <2>2. i \in Nat /\ j \in Nat /\ k \in Nat /\ l \in Nat
    BY <1>2, <2>1
  <2> HIDE DEF i, j
  <2>3. j < i => l < k
    BY <1>2, <2>1, UpToGrows
  <2>4. i # j
    BY <1>9, <2>1, <2>2
  <2>5. i < j
    BY <1>9, <2>2, <2>3, <2>4
  <2> QED
    BY <2>5 DEF i, j
<1> QED
  BY <1>2, <1>3, <1>4, <1>5, <1>6, <1>8, <1>9

LEMMA PrefixByPlaces ==
    ASSUME NEW s, NEW t, Listed(s), Listed(t), Len(s) <= Len(t),
           \A i \in DOMAIN s : s[i] = t[i]
    PROVE  IsPrefix(s, t)
<1>1. /\ DOMAIN s = 1..Len(s) /\ Len(s) \in Nat
      /\ DOMAIN t = 1..Len(t) /\ Len(t) \in Nat
  BY ListedPlaces
<1>2. SubSeq(s, 1, Len(s)) = [i \in 1..Len(s) |-> s[i]]
  BY <1>1, SubSeqProperties DEF Listed
<1>3. SubSeq(t, 1, Len(s)) = [i \in 1..Len(s) |-> t[i]]
  BY <1>1, SubSeqProperties DEF Listed
<1> QED
  BY <1>1, <1>2, <1>3 DEF IsPrefix

\* Places added behind the others only add elements behind the others.
LEMMA AtPrefix ==
    ASSUME NEW s, NEW t, Listed(s), Listed(t), Len(s) <= Len(t),
           \A i \in DOMAIN s : s[i] = t[i],
           NEW Q \in SUBSET DOMAIN t
    PROVE  IsPrefix(At(s, Q \cap DOMAIN s), At(t, Q))
<1> DEFINE P == Q \cap DOMAIN s
<1>1. /\ DOMAIN s = 1..Len(s) /\ Len(s) \in Nat
      /\ DOMAIN t = 1..Len(t) /\ Len(t) \in Nat
  BY ListedPlaces
<1>2. P \in SUBSET DOMAIN s /\ P \in SUBSET Q
  OBVIOUS
<1>3. /\ IsFiniteSet(P) /\ Cardinality(P) \in Nat /\ Listed(At(s, P))
      /\ Len(At(s, P)) = Cardinality(P)
  BY <1>2, AtProperties
<1>4. /\ IsFiniteSet(Q) /\ Cardinality(Q) \in Nat /\ Listed(At(t, Q))
      /\ Len(At(t, Q)) = Cardinality(Q)
  BY AtProperties
<1>5. Cardinality(P) <= Cardinality(Q)
  BY <1>2, <1>4, FS_Subset
<1>6. P \in SUBSET Nat /\ Q \in SUBSET Nat
  BY <1>1
<1>7. ASSUME NEW k \in 1..Cardinality(P)
      PROVE  At(s, P)[k] = At(t, Q)[k]
  <2> DEFINE i == Kth(P, k)  j == Kth(Q, k)
  <2>1. k \in 1..Cardinality(Q)
    BY <1>3, <1>4, <1>5
  <2>2. i \in P /\ Cardinality(UpTo(P, i)) = k
    BY <1>3, <1>6, KthExists
  <2>3. j \in Q /\ Cardinality(UpTo(Q, j)) = k
    BY <1>4, <1>6, <2>1, KthExists
  <2> HIDE DEF i, j
  <2>4. UpTo(P, i) = UpTo(Q, i)
    BY <1>1, <1>6, <2>2 DEF UpTo
  <2>5. i = j
    BY <1>4, <1>6, <2>2, <2>3, <2>4, UpToGrows
  <2>6. At(s, P)[k] = s[i] /\ At(t, Q)[k] = t[j]
    BY <2>1 DEF At, i, j
  <2> QED
    BY <2>2, <2>5, <2>6
<1>8. DOMAIN At(s, P) = 1..Cardinality(P)
  BY DEF At
<1> HIDE DEF P
<1>9. IsPrefix(At(s, P), At(t, Q))
  BY <1>3, <1>4, <1>5, <1>7, <1>8, PrefixByPlaces
<1> QED
  BY <1>9 DEF P

\* What is kept of evidence: exactly what is like nothing kept before it.
KeepsUnlike(evidence, n, kept) ==
    /\ kept \subseteq {i \in DOMAIN evidence : NewSource(evidence, i)}
    /\ \A i \in DOMAIN evidence : i <= n /\ NewSource(evidence, i) =>
          (i \in kept <=> \A j \in kept :
                             j < i => ~Alike(Text(evidence[j]), Text(evidence[i])))

LEMMA KeptUpTo ==
    ASSUME NEW evidence, Listed(evidence), NEW n \in 0..Len(evidence)
    PROVE  \E kept : KeepsUnlike(evidence, n, kept)
<1> DEFINE m == Len(evidence)
           Bad == {i \in 0..m : ~\E kept : KeepsUnlike(evidence, i, kept)}
<1>1. DOMAIN evidence = 1..m /\ m \in Nat
  BY ListedPlaces
<1>2. ASSUME Bad # {}
      PROVE  FALSE
  <2>1. Bad \in SUBSET Nat
    BY <1>1
  <2>2. PICK i \in Bad : \A j \in Bad : i <= j
    BY <1>2, <2>1, LeastElement
  <2>3. i \in 0..m /\ ~\E kept : KeepsUnlike(evidence, i, kept)
    OBVIOUS
  <2>4. i # 0
    <3>1. KeepsUnlike(evidence, 0, {})
      BY <1>1 DEF KeepsUnlike
    <3> QED
      BY <2>3, <3>1
  <2>5. i - 1 \in 0..m /\ ~(i <= i - 1)
    BY <1>1, <2>3, <2>4
  <2>6. i - 1 \notin Bad
    BY <2>2, <2>5
  <2>7. PICK K : KeepsUnlike(evidence, i - 1, K)
    BY <2>5, <2>6
  <2> DEFINE Unlike == \A j \in K : j < i => ~Alike(Text(evidence[j]), Text(evidence[i]))
             New == NewSource(evidence, i) /\ Unlike
             L == IF New THEN K \cup {i} ELSE K \ {i}
  <2>8. i \in DOMAIN evidence /\ \A j \in DOMAIN evidence : j \in Nat
    BY <1>1, <2>3, <2>4
  <2>9. \A j \in DOMAIN evidence : j <= i => j <= i - 1 \/ j = i
    BY <2>8
  <2>10. \A j \in DOMAIN evidence : j # i => (j \in L <=> j \in K)
    OBVIOUS
  <2>11. L \subseteq {j \in DOMAIN evidence : NewSource(evidence, j)}
    BY <2>7, <2>8 DEF KeepsUnlike
  <2>12. i \in L <=> New
    OBVIOUS
  <2>13. K \subseteq DOMAIN evidence /\ L \subseteq DOMAIN evidence
    BY <2>7, <2>11 DEF KeepsUnlike
  <2> HIDE DEF L
  <2>14. ASSUME NEW k \in DOMAIN evidence, k <= i, NewSource(evidence, k)
         PROVE  k \in L <=> \A j \in L :
                               j < k => ~Alike(Text(evidence[j]), Text(evidence[k]))
    <3>1. \A j \in DOMAIN evidence : j < k => j # i
      BY <2>8, <2>14
    <3>2. \A j \in DOMAIN evidence : j < k => (j \in L <=> j \in K)
      BY <2>10, <3>1
    <3>3. (\A j \in L : j < k => ~Alike(Text(evidence[j]), Text(evidence[k])))
          <=> (\A j \in K : j < k => ~Alike(Text(evidence[j]), Text(evidence[k])))
      BY <2>13, <3>2
    <3>4. CASE k = i
      BY <2>12, <2>14, <3>3, <3>4
    <3>5. CASE k # i
      <4>1. k <= i - 1
        BY <2>9, <2>14, <3>5
      <4>2. k \in K <=> \A j \in K :
                           j < k => ~Alike(Text(evidence[j]), Text(evidence[k]))
        BY <2>7, <2>14, <4>1 DEF KeepsUnlike
      <4> QED
        BY <2>10, <3>3, <3>5, <4>2
    <3> QED
      BY <3>4, <3>5
  <2>15. KeepsUnlike(evidence, i, L)
    BY <2>11, <2>14 DEF KeepsUnlike
  <2> QED
    BY <2>3, <2>15
<1> QED
  BY <1>2

LEMMA KeptIsOne ==
    ASSUME NEW evidence, Listed(evidence), NEW K, NEW L,
           KeepsUnlike(evidence, Len(evidence), K), KeepsUnlike(evidence, Len(evidence), L)
    PROVE  K = L
<1>1. /\ DOMAIN evidence = 1..Len(evidence) /\ Len(evidence) \in Nat
  BY ListedPlaces
<1>2. K \subseteq DOMAIN evidence /\ L \subseteq DOMAIN evidence
  BY DEF KeepsUnlike
<1> DEFINE Apart == {i \in DOMAIN evidence : ~(i \in K <=> i \in L)}
<1>3. ASSUME Apart # {}
      PROVE  FALSE
  <2>1. Apart \in SUBSET Nat
    BY <1>1
  <2>2. PICK i \in Apart : \A j \in Apart : i <= j
    BY <1>3, <2>1, LeastElement
  <2>3. i \in DOMAIN evidence /\ i <= Len(evidence) /\ i \in Nat
    BY <1>1
  <2>4. \A j \in DOMAIN evidence : j < i => (j \in K <=> j \in L)
    <3>1. \A j \in DOMAIN evidence : j < i => ~(i <= j)
      BY <1>1, <2>3
    <3> QED
      BY <2>2, <3>1
  <2>5. NewSource(evidence, i)
    BY <2>2 DEF KeepsUnlike
  <2>6. /\ i \in K <=> \A j \in K : j < i => ~Alike(Text(evidence[j]), Text(evidence[i]))
        /\ i \in L <=> \A j \in L : j < i => ~Alike(Text(evidence[j]), Text(evidence[i]))
    BY <2>3, <2>5 DEF KeepsUnlike
  <2>7. i \in K <=> i \in L
    BY <1>2, <2>4, <2>6
  <2> QED
    BY <2>2, <2>7
<1> QED
  BY <1>2, <1>3

LEMMA KeptOfKeeps ==
    ASSUME NEW evidence, Listed(evidence)
    PROVE  /\ KeepsUnlike(evidence, Len(evidence), KeptOf(evidence))
           /\ KeptOf(evidence) \in SUBSET DOMAIN evidence
           /\ Consolidated(evidence) = At(evidence, KeptOf(evidence))
<1>1. DOMAIN evidence = 1..Len(evidence) /\ Len(evidence) \in Nat
  BY ListedPlaces
<1>2. PICK K : KeepsUnlike(evidence, Len(evidence), K)
  BY <1>1, KeptUpTo
<1> DEFINE Rule(kept) == \A i \in DOMAIN evidence : NewSource(evidence, i) =>
              (i \in kept <=> \A j \in kept :
                                 j < i => ~Alike(Text(evidence[j]), Text(evidence[i])))
           Sources == {i \in DOMAIN evidence : NewSource(evidence, i)}
<1>3. \A kept : KeepsUnlike(evidence, Len(evidence), kept) <=> kept \in SUBSET Sources /\ Rule(kept)
  BY <1>1 DEF KeepsUnlike
<1>4. KeptOf(evidence) = CHOOSE kept \in SUBSET Sources : Rule(kept)
  BY Zenon DEF KeptOf
<1> HIDE DEF Rule, Sources
<1>5. KeptOf(evidence) \in SUBSET Sources /\ Rule(KeptOf(evidence))
  BY <1>2, <1>3, <1>4, Zenon
<1>6. KeepsUnlike(evidence, Len(evidence), KeptOf(evidence))
  BY <1>3, <1>5
<1>7. Consolidated(evidence) = At(evidence, KeptOf(evidence))
  BY Zenon DEF Consolidated
<1> QED
  BY <1>6, <1>7 DEF KeepsUnlike

\* No two pieces of consolidated evidence have one source or say the same.
LEMMA ConsolidatedIsUnlike ==
    ASSUME NEW evidence, Listed(evidence)
    PROVE  /\ Listed(Consolidated(evidence))
           /\ \A i, j \in DOMAIN Consolidated(evidence) : i < j =>
                 /\ Source(Consolidated(evidence)[i]) # Source(Consolidated(evidence)[j])
                 /\ ~Alike(Text(Consolidated(evidence)[i]), Text(Consolidated(evidence)[j]))
<1> DEFINE K == KeptOf(evidence)  found == At(evidence, K)
<1>1. /\ KeepsUnlike(evidence, Len(evidence), K) /\ K \in SUBSET DOMAIN evidence
      /\ Consolidated(evidence) = found
  BY KeptOfKeeps
<1> HIDE DEF K
<1>2. /\ Listed(found)
      /\ \A k \in DOMAIN found : Kth(K, k) \in K /\ found[k] = evidence[Kth(K, k)]
      /\ \A k, l \in DOMAIN found : k < l => Kth(K, k) < Kth(K, l)
  BY <1>1, AtProperties
<1> HIDE DEF found
<1>3. DOMAIN evidence = 1..Len(evidence) /\ Len(evidence) \in Nat
  BY ListedPlaces
<1>4. ASSUME NEW p \in K, NEW q \in K, p < q
      PROVE  /\ Source(evidence[p]) # Source(evidence[q])
             /\ ~Alike(Text(evidence[p]), Text(evidence[q]))
  <2>1. p \in DOMAIN evidence /\ q \in DOMAIN evidence
        /\ NewSource(evidence, p) /\ NewSource(evidence, q)
    BY <1>1 DEF KeepsUnlike
  <2>2. p \in 1..(q - 1) /\ q <= Len(evidence)
    BY <1>3, <1>4, <2>1
  <2>3. Source(evidence[p]) # Source(evidence[q])
    BY <2>1, <2>2 DEF NewSource
  <2>4. ~Alike(Text(evidence[p]), Text(evidence[q]))
    BY <1>1, <1>4, <2>1, <2>2 DEF KeepsUnlike
  <2> QED
    BY <2>3, <2>4
<1>5. ASSUME NEW i \in DOMAIN found, NEW j \in DOMAIN found, i < j
      PROVE  /\ Source(found[i]) # Source(found[j])
             /\ ~Alike(Text(found[i]), Text(found[j]))
  <2>1. Kth(K, i) \in K /\ Kth(K, j) \in K /\ Kth(K, i) < Kth(K, j)
    BY <1>2, <1>5
  <2>2. found[i] = evidence[Kth(K, i)] /\ found[j] = evidence[Kth(K, j)]
    BY <1>2
  <2> QED
    BY <1>4, <2>1, <2>2
<1> QED
  BY <1>1, <1>2, <1>5

\* More evidence behind the rest takes nothing away of what was kept.
LEMMA ConsolidatedGrows ==
    ASSUME NEW evidence, NEW more, Listed(evidence), Listed(more)
    PROVE  IsPrefix(Consolidated(evidence), Consolidated(evidence \o more))
<1> DEFINE all == evidence \o more  Q == KeptOf(all)  P == Q \cap DOMAIN evidence
<1>1. /\ Listed(all) /\ Len(evidence) <= Len(all)
      /\ \A i \in DOMAIN evidence : i \in DOMAIN all /\ all[i] = evidence[i]
  BY ListedAppended, ListedPlaces
<1> HIDE DEF all
<1>2. /\ KeepsUnlike(all, Len(all), Q) /\ Q \in SUBSET DOMAIN all
      /\ Consolidated(all) = At(all, Q)
  BY <1>1, KeptOfKeeps
<1>3. /\ DOMAIN evidence = 1..Len(evidence) /\ Len(evidence) \in Nat
      /\ DOMAIN all = 1..Len(all) /\ Len(all) \in Nat
  BY <1>1, ListedPlaces
<1>4. \A i \in DOMAIN evidence : \A j \in 1..(i - 1) : j \in DOMAIN evidence
  BY <1>3
<1>5. \A i \in DOMAIN evidence : NewSource(all, i) <=> NewSource(evidence, i)
  BY <1>1, <1>4 DEF NewSource
<1> HIDE DEF Q
<1>6. KeepsUnlike(evidence, Len(evidence), P)
  <2>1. P \subseteq {i \in DOMAIN evidence : NewSource(evidence, i)}
    BY <1>2, <1>5 DEF KeepsUnlike
  <2>2. ASSUME NEW i \in DOMAIN evidence, NewSource(evidence, i)
        PROVE  i \in P <=> \A j \in P :
                              j < i => ~Alike(Text(evidence[j]), Text(evidence[i]))
    <3>1. i \in DOMAIN all /\ i <= Len(all) /\ NewSource(all, i)
      BY <1>1, <1>3, <1>5, <2>2
    <3>2. i \in Q <=> \A j \in Q : j < i => ~Alike(Text(all[j]), Text(all[i]))
      BY <1>2, <3>1 DEF KeepsUnlike
    <3>3. \A j \in Q : j < i => j \in DOMAIN evidence
      BY <1>2, <1>3
    <3>4. \A j \in DOMAIN evidence : all[j] = evidence[j]
      BY <1>1
    <3> QED
      BY <3>2, <3>3, <3>4
  <2> QED
    BY <2>1, <2>2 DEF KeepsUnlike
<1>7. P = KeptOf(evidence)
  BY <1>6, KeptOfKeeps, KeptIsOne
<1>8. Consolidated(evidence) = At(evidence, P)
  BY <1>7, KeptOfKeeps
<1>9. IsPrefix(At(evidence, P), At(all, Q))
  BY <1>1, <1>2, AtPrefix
<1> QED
  BY <1>2, <1>8, <1>9 DEF all

-----------------------------------------------------------------------------
(***************************************************************************)
(* Lists joined, the documents of a plan, the calls of a team of scouts.   *)
(***************************************************************************)
\* The lists up to each, joined.
Joins(f, seqs, n) ==
    f = [i \in 1..n |-> IF i = 1 THEN seqs[i] ELSE f[i - 1] \o seqs[i]]

LEMMA JoinsExist ==
    ASSUME NEW seqs, Listed(seqs), NEW n \in 0..Len(seqs)
    PROVE  \E f : Joins(f, seqs, n)
<1> DEFINE m == Len(seqs)
           Bad == {i \in 0..m : ~\E f : Joins(f, seqs, i)}
<1>1. m \in Nat
  BY ListedPlaces
<1>2. ASSUME Bad # {}
      PROVE  FALSE
  <2>1. Bad \in SUBSET Nat
    BY <1>1
  <2>2. PICK i \in Bad : \A j \in Bad : i <= j
    BY <1>2, <2>1, LeastElement
  <2>3. i \in 0..m /\ ~\E f : Joins(f, seqs, i)
    OBVIOUS
  <2>4. i # 0
    <3>1. Joins([j \in 1..0 |-> j], seqs, 0)
      BY DEF Joins
    <3> QED
      BY <2>3, <3>1
  <2>5. i - 1 \in 0..m /\ ~(i <= i - 1)
    BY <1>1, <2>3, <2>4
  <2>6. i - 1 \notin Bad
    BY <2>2, <2>5
  <2>7. PICK f : Joins(f, seqs, i - 1)
    BY <2>5, <2>6
  <2> DEFINE g == [j \in 1..i |-> IF j = i THEN (IF i = 1 THEN seqs[i] ELSE f[i - 1] \o seqs[i])
                                  ELSE f[j]]
  <2>8. i \in Nat /\ i >= 1
    BY <1>1, <2>3, <2>4
  <2>9. ASSUME NEW j \in 1..i
        PROVE  g[j] = IF j = 1 THEN seqs[j] ELSE g[j - 1] \o seqs[j]
    <3>1. CASE j = i
      <4>1. j # 1 => j - 1 \in 1..i /\ j - 1 # i
        BY <2>8, <3>1
      <4> QED
        BY <3>1, <4>1
    <3>2. CASE j # i
      <4>1. j \in 1..(i - 1)
        BY <2>8, <3>2
      <4>2. f[j] = IF j = 1 THEN seqs[j] ELSE f[j - 1] \o seqs[j]
        BY <2>7, <4>1 DEF Joins
      <4>3. j # 1 => j - 1 \in 1..i /\ j - 1 # i
        BY <2>8, <4>1
      <4> QED
        BY <3>2, <4>2, <4>3
    <3> QED
      BY <3>1, <3>2
  <2>10. g = [j \in 1..i |-> IF j = 1 THEN seqs[j] ELSE g[j - 1] \o seqs[j]]
    <3>1. g = [j \in 1..i |-> g[j]]
      OBVIOUS
    <3> HIDE DEF g
    <3> QED
      BY <2>9, <3>1
  <2> HIDE DEF g
  <2>11. Joins(g, seqs, i)
    BY <2>10 DEF Joins
  <2> QED
    BY <2>3, <2>11
<1> QED
  BY <1>2

LEMMA JoinedIsListed ==
    ASSUME NEW seqs, Listed(seqs), \A i \in DOMAIN seqs : Listed(seqs[i])
    PROVE  Listed(FlattenSeq(seqs))
<1> DEFINE m == Len(seqs)
           f == CHOOSE f : Joins(f, seqs, m)
<1>1. DOMAIN seqs = 1..m /\ m \in Nat
  BY ListedPlaces
<1>2. CASE m = 0
  BY <1>2, Zenon DEF FlattenSeq
<1>3. CASE m # 0
  <2>1. FlattenSeq(seqs) = f[m]
    BY <1>3, Zenon DEF FlattenSeq, Joins
  <2>2. \E g : Joins(g, seqs, m)
    BY <1>1, JoinsExist
  <2> HIDE DEF m
  <2>3. Joins(f, seqs, m)
    BY <2>2, Zenon
  <2> HIDE DEF f
  <2> DEFINE Bad == {i \in 1..m : ~Listed(f[i])}
  <2>4. ASSUME Bad # {}
        PROVE  FALSE
    <3>0. Bad \in SUBSET Nat
      OBVIOUS
    <3>1. PICK i \in Bad : \A j \in Bad : i <= j
      BY <2>4, <3>0, LeastElement
    <3>2. i \in 1..m /\ ~Listed(f[i])
      OBVIOUS
    <3>3. f[i] = IF i = 1 THEN seqs[i] ELSE f[i - 1] \o seqs[i]
      BY <2>3, <3>2 DEF Joins
    <3>4. Listed(seqs[i])
      BY <1>1, <3>2
    <3>5. i # 1 => i - 1 \in 1..m /\ ~(i <= i - 1)
      BY <1>1, <3>2
    <3>6. i # 1 => Listed(f[i - 1])
      BY <3>1, <3>5
    <3> QED
      BY <3>2, <3>3, <3>4, <3>6, ListedAppended
  <2>5. m \in 1..m
    BY <1>1, <1>3
  <2> QED
    BY <2>1, <2>4, <2>5
<1> QED
  BY <1>2, <1>3

LEMMA FirstsProperties ==
    ASSUME NEW S, NEW seq, Listed(seq), \A i \in DOMAIN seq : seq[i] \in S
    PROVE  /\ Listed(Firsts(seq))
           /\ \A k \in DOMAIN Firsts(seq) : Firsts(seq)[k] \in S
           /\ \A k, l \in DOMAIN Firsts(seq) : Firsts(seq)[k] = Firsts(seq)[l] => k = l
<1> DEFINE P == {i \in DOMAIN seq : \A j \in 1..(i - 1) : seq[j] # seq[i]}
           first == At(seq, P)
<1>1. Firsts(seq) = first
  BY DEF Firsts
<1>2. P \in SUBSET DOMAIN seq
  OBVIOUS
<1>3. \A i \in P : \A j \in 1..(i - 1) : seq[j] # seq[i]
  OBVIOUS
<1>4. DOMAIN seq = 1..Len(seq) /\ Len(seq) \in Nat
  BY ListedPlaces
<1> HIDE DEF P
<1>5. /\ Listed(first) /\ Len(first) = Cardinality(P) /\ Cardinality(P) \in Nat
      /\ \A k \in DOMAIN first : /\ k \in 1..Cardinality(P)
                                 /\ Kth(P, k) \in P /\ first[k] = seq[Kth(P, k)]
      /\ \A k, l \in DOMAIN first : k < l => Kth(P, k) < Kth(P, l)
  BY <1>2, AtProperties
<1> HIDE DEF first
<1>6. ASSUME NEW k \in DOMAIN first, NEW l \in DOMAIN first, k < l
      PROVE  first[k] # first[l]
  <2>1. /\ Kth(P, k) \in P /\ Kth(P, l) \in P /\ Kth(P, k) < Kth(P, l)
        /\ first[k] = seq[Kth(P, k)] /\ first[l] = seq[Kth(P, l)]
    BY <1>5, <1>6
  <2>2. Kth(P, k) \in 1..(Kth(P, l) - 1)
    BY <1>2, <1>4, <2>1
  <2> QED
    BY <1>3, <2>1, <2>2
<1>7. \A k, l \in DOMAIN first : k < l \/ k = l \/ l < k
  BY <1>5
<1>8. \A k, l \in DOMAIN first : first[k] = first[l] => k = l
  BY <1>6, <1>7
<1>9. \A k \in DOMAIN first : first[k] \in S
  BY <1>2, <1>5
<1> QED
  BY <1>1, <1>5, <1>8, <1>9

\* A list of some things, none of them twice.
OnceEach(S, seq) ==
    /\ Listed(seq) /\ \A k \in DOMAIN seq : seq[k] \in S
    /\ \A k, l \in DOMAIN seq : seq[k] = seq[l] => k = l

LEMMA FirstsOfBoth ==
    ASSUME NEW S, NEW es, NEW more, Listed(es), Listed(more),
           \A i \in DOMAIN es : es[i] \in S, \A i \in DOMAIN more : more[i] \in S
    PROVE  OnceEach(S, Firsts(es \o more))
<1> DEFINE seq == es \o more
<1>1. Listed(seq) /\ Range(seq) \subseteq Range(es) \cup Range(more)
  BY ListedAppended
<1> HIDE DEF seq
<1>2. \A i \in DOMAIN seq : seq[i] \in S
  <2>1. \A e \in Range(es) \cup Range(more) : e \in S
    BY DEF Range
  <2>2. \A i \in DOMAIN seq : seq[i] \in Range(seq)
    BY DEF Range
  <2> QED
    BY <1>1, <2>1, <2>2
<1>3. /\ Listed(Firsts(seq)) /\ \A k \in DOMAIN Firsts(seq) : Firsts(seq)[k] \in S
      /\ \A k, l \in DOMAIN Firsts(seq) : Firsts(seq)[k] = Firsts(seq)[l] => k = l
  BY <1>1, <1>2, FirstsProperties
<1> QED
  BY <1>3 DEF seq, OnceEach

\* A set of naturals with a bound has a greatest one.
LEMMA GreatestElement ==
    ASSUME NEW S \in SUBSET Nat, S # {}, NEW b \in Nat, \A n \in S : n <= b
    PROVE  Max(S) \in S /\ \A n \in S : Max(S) >= n
<1> DEFINE T == {b - n : n \in S}
<1>1. T \in SUBSET Nat /\ T # {}
  <2>1. \A n \in S : b - n \in Nat
    <3>1. \A n \in S : n \in Nat /\ n <= b
      OBVIOUS
    <3> QED
      BY <3>1
  <2>2. PICK n \in S : TRUE
    OBVIOUS
  <2>3. b - n \in T
    OBVIOUS
  <2> QED
    BY <2>1, <2>3
<1>2. PICK t \in T : \A u \in T : t <= u
  BY <1>1, LeastElement
<1>3. PICK m \in S : t = b - m
  OBVIOUS
<1>4. ASSUME NEW n \in S
      PROVE  m >= n
  <2>1. b - m <= b - n
    BY <1>2, <1>3
  <2>2. m \in Nat /\ n \in Nat
    OBVIOUS
  <2> QED
    BY <2>1, <2>2
<1> QED
  BY <1>4 DEF Max

LEMMA PlanIsOfDocuments ==
    ASSUME NEW lines \in Seq(Nat)
    PROVE  /\ Listed(DispatchPlan(lines)) /\ Len(DispatchPlan(lines)) <= Len(lines)
           /\ \A i \in DOMAIN DispatchPlan(lines) : DispatchPlan(lines)[i] \in Docs
<1> DEFINE N == Named(lines)  n == Len(lines)  plan == DispatchPlan(lines)
<1>1. DOMAIN lines = 1..n /\ n \in Nat
  BY ListedOf, ListedPlaces
<1>2. N \in SUBSET (1..n) /\ \A k \in N : lines[k] \in DOMAIN Cards
  BY <1>1 DEF Named
<1>3. \A k \in N : k \in Nat
  BY <1>1, <1>2
<1>4. \A c \in DOMAIN Cards : Cards[c] \in Docs
  BY DEF Docs, Range
<1> HIDE DEF N
<1>5. CASE N = {}
  <2>1. Skipped(lines) = n
    BY <1>5 DEF Skipped, N
  <2>2. plan = [i \in 1..0 |-> plan[i]] /\ DOMAIN plan = {}
    BY <1>1, <2>1 DEF DispatchPlan
  <2> HIDE DEF plan
  <2>3. Listed(plan) /\ Len(plan) = 0
    BY <2>2, ListedBy
  <2> QED
    BY <1>1, <2>2, <2>3 DEF plan
<1>6. CASE N # {}
  <2>1. PICK m \in N : \A k \in N : m <= k
    BY <1>3, <1>6, LeastElement
  <2>2. Min(N) \in N /\ \A k \in N : Min(N) <= k
    BY <2>1 DEF Min
  <2> DEFINE l == Min(N) - 1  r == n - l
  <2>3. Skipped(lines) = l
    BY <1>6 DEF Skipped, N
  <2>4. l \in Nat /\ r \in Nat /\ r <= n
    <3>1. Min(N) \in 1..n
      BY <1>2, <2>2
    <3> QED
      BY <1>1, <3>1
  <2>5. plan = [i \in 1..r |-> Cards[lines[Latest(lines, i + l)]]]
    BY <2>3, Zenon DEF DispatchPlan
  <2>6. ASSUME NEW i \in 1..r
        PROVE  Latest(lines, i + l) \in N
    <3> DEFINE S == {j \in N : j <= i + l}
    <3>1. Min(N) <= i + l /\ i + l \in Nat
      BY SMTT(30), <1>3, <2>2, <2>4
    <3>2. S \in SUBSET Nat /\ S # {} /\ \A j \in S : j <= i + l
      BY <1>3, <2>2, <3>1
    <3>3. Max(S) \in S
      BY <3>1, <3>2, GreatestElement
    <3>4. Latest(lines, i + l) = Max(S)
      BY Zenon DEF Latest, N
    <3> QED
      BY <3>3, <3>4
  <2> HIDE DEF l, r, plan
  <2>7. DOMAIN plan = 1..r /\ \A i \in 1..r : plan[i] \in Docs
    BY <1>2, <1>4, <2>5, <2>6
  <2>8. plan = [i \in 1..r |-> plan[i]]
    BY <2>5, <2>7
  <2>9. Listed(plan) /\ Len(plan) = r
    BY <2>4, <2>8, ListedBy
  <2> QED
    BY <2>4, <2>7, <2>9 DEF plan
<1> QED
  BY <1>5, <1>6

-----------------------------------------------------------------------------
(***************************************************************************)
(* The invariant.  Its parts speak of one ask, by the values the variables *)
(* have for it.                                                            *)
(***************************************************************************)
Stages == {"waiting"} \cup Searching \cup Ended

\* A scout has asked as often as its stage allows, and used the cache only if
\* it ended with that.
ScoutOk(s) ==
    /\ DOMAIN s = {"doc", "stage", "read", "calls", "fromCache", "pool"}
    /\ s.doc \in Docs /\ s.stage \in Stages /\ Listed(s.read)
    /\ s.calls \in 0..3 /\ IsFiniteSet(s.pool)
    /\ s.stage \in {"waiting", "lost", "verify"} => s.calls = 0
    /\ s.stage = "pick" => s.calls <= 1
    /\ s.stage = "beam" => s.calls <= 2
    /\ s.fromCache => s.stage = "done"

DoneOf(team) == {k \in DOMAIN team : team[k].stage = "done"}

\* Scouts are out only while an ask searches, and those with a result are known.
TeamOk(ph, team, fin) ==
    /\ Listed(team) /\ Listed(fin) /\ Range(fin) = DoneOf(team)
    /\ \A k \in DOMAIN team : ScoutOk(team[k])
    /\ ph # "searching" => team = <<>> /\ fin = <<>>

\* What an ask has collected.
StateOk(st) ==
    /\ DOMAIN st = {"evidence", "dispatched", "calls", "found"}
    /\ Listed(st.evidence) /\ Listed(st.dispatched) /\ st.calls \in Nat
    /\ \A i \in DOMAIN st.dispatched : st.dispatched[i] \in Docs
    /\ \A i, j \in DOMAIN st.dispatched : st.dispatched[i] = st.dispatched[j] => i = j

\* Every request made but the first, the analysis, is counted, by the ask or by
\* a scout, and the rounds bound both.
CallsOk(ph, rd, team, st, md) ==
    /\ md \in Nat
    /\ ph \in {"idle", "reasoning", "planning"} => rd = 1 /\ st.calls = 0
    /\ ph \in {"idle", "reasoning"} => md = 0
    /\ ph = "planning" => md = 1
    /\ ph = "searching" =>
          /\ md <= st.calls + Cardinality(Calls(team, DOMAIN team)) + 1
          /\ rd = 1 => st.calls <= 1 /\ Len(team) <= MaxScouts
          /\ rd = 2 => st.calls <= 2 + 3 * MaxScouts /\ Len(team) <= Len(Cards)
    /\ ph = "answering" =>
          /\ md <= st.calls + 1
          /\ rd = 1 => st.calls <= 1 + 3 * MaxScouts
          /\ rd = 2 => st.calls <= 2 + 3 * (MaxScouts + Len(Cards))

\* The first answer has the evidence consolidated from what was collected by
\* then, and what is collected later comes behind it.
FoundOk(ph, rd, st, o) ==
    /\ rd \in 1..2 /\ (rd = 2 => ph \in {"searching", "answering"})
    /\ ph # "done" => Listed(o.evidence)
    /\ ph # "done" /\ rd = 1 => o.evidence = <<>>
    /\ ph = "searching" /\ rd = 2 =>
          o.evidence = Consolidated(st.evidence) /\ o.evidence # <<>>
    /\ ph = "answering" =>
          /\ st.found = Consolidated(st.evidence) /\ st.found # <<>>
          /\ rd = 2 => IsPrefix(o.evidence, st.found)

HitsOk(a, it, team, routes) ==
    \A k \in DOMAIN team : team[k].fromCache =>
        \E r \in routes : /\ r.doc = team[k].doc /\ r.intent = it
                          /\ Alike(KeywordsOf(a), r.kw)
                          /\ Range(team[k].read) \subseteq r.nodes

OutOk(ph, o, md) ==
    /\ ph \in {"idle", "reasoning", "planning"} => o = NoOutput
    /\ ph = "done" =>
         /\ o.answer # "none" =>
              /\ o.evidence # <<>>
              /\ \A i, j \in DOMAIN o.evidence : i < j =>
                    /\ Source(o.evidence[i]) # Source(o.evidence[j])
                    /\ ~Alike(Text(o.evidence[i]), Text(o.evidence[j]))
         /\ md <= o.calls + 1 \/ (o = NoOutput /\ md = 2)
         /\ o.calls <= 3 + 3 * (MaxScouts + Len(Cards))

AskOk(a, ph, it, rd, team, fin, st, o, md, routes) ==
    /\ TeamOk(ph, team, fin)
    /\ StateOk(st)
    /\ CallsOk(ph, rd, team, st, md)
    /\ FoundOk(ph, rd, st, o)
    /\ HitsOk(a, it, team, routes)
    /\ OutOk(ph, o, md)

CacheOk(cache, routes) ==
    DOMAIN cache = Docs /\ \A d \in Docs : GoodRoutes(d, cache[d], routes)

FunsInv ==
    /\ DOMAIN phase = Asks /\ DOMAIN intent = Asks /\ DOMAIN round = Asks
    /\ DOMAIN scouts = Asks /\ DOMAIN finished = Asks /\ DOMAIN state = Asks
    /\ DOMAIN out = Asks /\ DOMAIN made = Asks /\ DOMAIN mem = Asks

AskInv ==
    \A a \in Asks : AskOk(a, phase[a], intent[a], round[a], scouts[a], finished[a],
                          state[a], out[a], made[a], accepted)

RoutesInv ==
    CacheOk(file, accepted) /\ \A a \in Asks : CacheOk(mem[a], accepted)

IInv == FunsInv /\ AskInv /\ RoutesInv

-----------------------------------------------------------------------------
(***************************************************************************)
(* The requests scouts made, counted.                                      *)
(***************************************************************************)
LEMMA CallsAre ==
    ASSUME NEW team, NEW places
    PROVE  /\ \A k, n : <<k, n>> \in Calls(team, places) <=>
                           k \in places /\ n \in 1..team[k].calls
           /\ \A p \in Calls(team, places) : \E k, n : p = <<k, n>>
  BY DEF Calls

\* Requests are the same if each is one of the other.
LEMMA SameCalls ==
    ASSUME NEW team, NEW places, NEW new, NEW others,
           \A k, n : <<k, n>> \in Calls(team, places) <=> <<k, n>> \in Calls(new, others)
    PROVE  Calls(team, places) = Calls(new, others)
<1>1. ASSUME NEW p \in Calls(team, places)
      PROVE  p \in Calls(new, others)
  <2>1. \E k, n : p = <<k, n>>
    BY <1>1, CallsAre
  <2> QED
    BY <1>1, <2>1, Zenon
<1>2. ASSUME NEW p \in Calls(new, others)
      PROVE  p \in Calls(team, places)
  <2>1. \E k, n : p = <<k, n>>
    BY <1>2, CallsAre
  <2> QED
    BY <1>2, <2>1, Zenon
<1> QED
  BY <1>1, <1>2

LEMMA CallsAreBounded ==
    ASSUME NEW team, Listed(team), \A k \in DOMAIN team : team[k].calls \in 0..3,
           NEW places \in SUBSET DOMAIN team
    PROVE  /\ IsFiniteSet(Calls(team, places))
           /\ Cardinality(Calls(team, places)) \in Nat
           /\ Cardinality(Calls(team, places)) <= 3 * Len(team)
<1> DEFINE C == Calls(team, places)  D == DOMAIN team
<1>1. IsFiniteSet(D) /\ Cardinality(D) = Len(team) /\ Len(team) \in Nat
  BY ListedPlaces
<1>2. IsFiniteSet(1..3) /\ Cardinality(1..3) = 3
  <2>1. 1 \in Int /\ 3 \in Int
    OBVIOUS
  <2>2. IsFiniteSet(1..3) /\ Cardinality(1..3) = IF 1 > 3 THEN 0 ELSE 3 - 1 + 1
    BY <2>1, FS_Interval, Zenon
  <2> QED
    BY <2>2
<1>3. C \in SUBSET (D \X (1..3))
  BY DEF Calls
<1> HIDE DEF C, D
<1>4. IsFiniteSet(D \X (1..3)) /\ Cardinality(D \X (1..3)) = Cardinality(D) * Cardinality(1..3)
  BY <1>1, <1>2, FS_Product
<1>5. IsFiniteSet(C) /\ Cardinality(C) <= Cardinality(D \X (1..3))
  BY <1>3, <1>4, FS_Subset
<1>6. Cardinality(C) \in Nat
  BY <1>5, FS_CardinalityType
<1>7. Cardinality(D \X (1..3)) = 3 * Len(team)
  BY <1>1, <1>2, <1>4
<1> QED
  BY <1>5, <1>6, <1>7 DEF C

LEMMA CallsOfOthers ==
    ASSUME NEW team, NEW new, NEW places, \A j \in places : new[j].calls = team[j].calls
    PROVE  Calls(new, places) = Calls(team, places)
  BY Zenon DEF Calls

LEMMA CallsOneMore ==
    ASSUME NEW team, NEW new, NEW places, IsFiniteSet(Calls(team, places)),
           NEW k \in places, team[k].calls \in Nat, new[k].calls = team[k].calls + 1,
           \A j \in places \ {k} : new[j] = team[j]
    PROVE  Cardinality(Calls(new, places)) = Cardinality(Calls(team, places)) + 1
<1> DEFINE p == <<k, team[k].calls + 1>>
<1>1. p \notin Calls(team, places)
  BY CallsAre
<1>2. \A j, n : <<j, n>> \in Calls(new, places) <=>
                   <<j, n>> \in Calls(team, places) \/ <<j, n>> = p
  <2> SUFFICES ASSUME NEW j, NEW n
               PROVE  <<j, n>> \in Calls(new, places) <=>
                         <<j, n>> \in Calls(team, places) \/ <<j, n>> = p
    OBVIOUS
  <2>1. CASE j = k
    <3>1. n \in 1..(team[k].calls + 1) <=> n \in 1..team[k].calls \/ n = team[k].calls + 1
      OBVIOUS
    <3> QED
      BY <2>1, <3>1, CallsAre
  <2>2. CASE j # k
    <3>1. <<j, n>> # p /\ (j \in places => new[j] = team[j])
      BY <2>2
    <3> QED
      BY <3>1, CallsAre
  <2> QED
    BY <2>1, <2>2
<1>3. Calls(new, places) = Calls(team, places) \cup {p}
  BY <1>2, CallsAre
<1> QED
  BY ZenonT(30), <1>1, <1>3, FS_AddElement

LEMMA CallsOfSome ==
    ASSUME NEW team, NEW places, NEW some \in SUBSET places,
           \A k \in places \ some : team[k].calls = 0
    PROVE  Calls(team, places) = Calls(team, some)
<1>1. \A j, n : <<j, n>> \in Calls(team, places) <=> <<j, n>> \in Calls(team, some)
  <2> SUFFICES ASSUME NEW j, NEW n, j \in places \ some
               PROVE  ~(n \in 1..team[j].calls)
    BY CallsAre
  <2>1. team[j].calls = 0
    OBVIOUS
  <2> QED
    BY <2>1
<1> QED
  BY <1>1, SameCalls

\* A finite set of naturals has a greatest one.
LEMMA FiniteGreatest ==
    ASSUME NEW S \in SUBSET Nat, IsFiniteSet(S), S # {}
    PROVE  Max(S) \in S /\ \A n \in S : Max(S) >= n
<1> DEFINE c == Cardinality(S)  b == Kth(S, c)
<1>1. c \in 1..c
  <2>1. c \in Nat /\ c # 0
    BY FS_CardinalityType, FS_EmptySet
  <2> HIDE DEF c
  <2> QED
    BY <2>1
<1>2. b \in S /\ Cardinality(UpTo(S, b)) = c
  BY <1>1, KthExists
<1> HIDE DEF b
<1>3. UpTo(S, b) \in SUBSET S
  BY DEF UpTo
<1>4. UpTo(S, b) = S
  BY <1>2, <1>3, FS_Subset
<1>5. b \in Nat /\ \A n \in S : n <= b
  BY <1>2, <1>4 DEF UpTo
<1> QED
  BY <1>5, GreatestElement

LEMMA ScoutsAreBounded ==
    /\ MaxScouts \in Nat /\ Len(Cards) \in Nat /\ Len(Cards) <= MaxScouts
    /\ \A lines \in PlanAnswers : Len(lines) <= MaxScouts
<1> DEFINE S == {Len(lines) : lines \in PlanAnswers}  T == S \cup {Len(Cards)}
<1>1. \A lines \in PlanAnswers : Len(lines) \in Nat
  BY AskAssumption, LenProperties
<1>2. Len(Cards) \in Nat
  BY AskAssumption, LenProperties
<1>3. IsFiniteSet(S)
  <2> DEFINE f == [lines \in PlanAnswers |-> Len(lines)]
  <2>1. f \in Surjection(PlanAnswers, S)
    BY Fun_IsSurj
  <2>2. IsFiniteSet(PlanAnswers)
    BY AskAssumption
  <2> HIDE DEF f, S
  <2> QED
    BY <2>1, <2>2, FS_Surjection
<1>4. T \in SUBSET Nat /\ T # {}
  BY <1>1, <1>2
<1>5. Len(Cards) \in T /\ \A lines \in PlanAnswers : Len(lines) \in T
  OBVIOUS
<1> HIDE DEF S
<1>6. IsFiniteSet(T)
  BY <1>3, FS_AddElement
<1>7. MaxScouts = Max(T)
  BY DEF MaxScouts, S
<1> HIDE DEF T
<1>8. Max(T) \in T /\ \A n \in T : Max(T) >= n
  BY <1>4, <1>6, FiniteGreatest
<1>9. \A n \in T : n \in Nat
  BY <1>4
<1> QED
  BY <1>1, <1>2, <1>5, <1>7, <1>8, <1>9

\* As many documents at most as cards.
LEMMA FewDocuments ==
    ASSUME NEW docs, Listed(docs), \A i \in DOMAIN docs : docs[i] \in Docs,
           \A i, j \in DOMAIN docs : docs[i] = docs[j] => i = j
    PROVE  Len(docs) <= Len(Cards)
<1>1. DOMAIN Cards = 1..Len(Cards) /\ Len(Cards) \in Nat /\ IsFiniteSet(DOMAIN Cards)
      /\ Cardinality(DOMAIN Cards) = Len(Cards)
  BY AskAssumption, ListedOf, ListedPlaces
<1>2. Cards \in Surjection(DOMAIN Cards, Docs)
  <2>1. \A d \in Docs : \E k \in DOMAIN Cards : Cards[k] = d
    BY DEF Docs, Range
  <2>2. Cards \in [DOMAIN Cards -> Docs]
    BY <1>1, AskAssumption, LenProperties
  <2> QED
    BY <2>1, <2>2, Fun_IsSurj
<1>3. IsFiniteSet(Docs) /\ Cardinality(Docs) <= Len(Cards)
  BY <1>1, <1>2, FS_Surjection
<1>4. DOMAIN docs = 1..Len(docs) /\ Len(docs) \in Nat /\ IsFiniteSet(DOMAIN docs)
      /\ Cardinality(DOMAIN docs) = Len(docs)
  BY ListedPlaces
<1> DEFINE f == [i \in DOMAIN docs |-> docs[i]]
<1>5. f \in [DOMAIN docs -> Docs] /\ \A i, j \in DOMAIN docs : f[i] = f[j] => i = j
  OBVIOUS
<1> HIDE DEF f
<1>6. f \in Injection(DOMAIN docs, Docs)
  BY <1>5, Fun_IsInj
<1>7. Cardinality(DOMAIN docs) <= Cardinality(Docs)
  BY <1>3, <1>6, FS_Injection
<1>8. Cardinality(Docs) \in Nat
  BY <1>3, FS_CardinalityType
<1> QED
  BY <1>1, <1>3, <1>4, <1>7, <1>8

-----------------------------------------------------------------------------
(***************************************************************************)
(* What scouts read is a list.                                             *)
(***************************************************************************)
LEMMA RangeIsFinite ==
    ASSUME NEW es, Listed(es)
    PROVE  IsFiniteSet(Range(es))
<1> DEFINE f == [i \in DOMAIN es |-> es[i]]
<1>1. IsFiniteSet(DOMAIN es)
  BY ListedPlaces
<1>2. f \in Surjection(DOMAIN es, Range(es))
  <2>1. f \in [DOMAIN es -> Range(es)] /\ \A e \in Range(es) : \E i \in DOMAIN es : f[i] = e
    BY DEF Range
  <2> HIDE DEF f
  <2> QED
    BY <2>1, Fun_IsSurj
<1> HIDE DEF f
<1> QED
  BY <1>1, <1>2, FS_Surjection

LEMMA RankedIsListed ==
    ASSUME NEW a \in Asks, NEW d \in Docs
    PROVE  Listed(Ranked(a, d)) /\ Listed(FastReads[a][d])
<1> DEFINE g == Gathered(a, d)
           top == [i \in DOMAIN Toc[d] |-> [node |-> Toc[d][i], score |-> 101 - i]]
           nodes == [i \in DOMAIN g |-> g[i].node]
<1>1. Listed(top)
  <2>1. DOMAIN Toc[d] = 1..Len(Toc[d]) /\ Len(Toc[d]) \in Nat
    BY AskAssumption, ListedOf, ListedPlaces
  <2>2. top = [i \in 1..Len(Toc[d]) |-> top[i]]
    BY <2>1
  <2> QED
    BY <2>1, <2>2, ListedBy
<1>2. Listed(Proposals[QueryOf[a]][d])
  BY AskAssumption, ListedOf
<1>3. Listed(g)
  <2>1. g = IF Proposals[QueryOf[a]][d] # <<>> THEN Proposals[QueryOf[a]][d] ELSE top
    BY DEF Gathered
  <2> HIDE DEF g, top
  <2> QED
    BY <1>1, <1>2, <2>1
<1> HIDE DEF g
<1>4. IsFiniteSet(NodesOf(g))
  <2>1. DOMAIN g = 1..Len(g) /\ Len(g) \in Nat
    BY <1>3, ListedPlaces
  <2>2. Listed(nodes) /\ Range(nodes) = NodesOf(g)
    <3>1. nodes = [i \in 1..Len(g) |-> nodes[i]]
      BY <2>1
    <3> QED
      BY <2>1, <3>1, ListedBy DEF Range, NodesOf
  <2> HIDE DEF nodes
  <2> QED
    BY <2>2, RangeIsFinite
<1>5. Cardinality(NodesOf(g)) \in Nat
  BY <1>4, FS_CardinalityType
<1>6. Listed(RankedIn(g))
  <2> DEFINE r == RankedIn(g)
  <2>1. r = [i \in 1..Cardinality(NodesOf(g)) |-> r[i]]
    BY DEF RankedIn
  <2> HIDE DEF r
  <2>2. Listed(r)
    BY <1>5, <2>1, ListedBy
  <2> QED
    BY <2>2 DEF r
<1>7. Ranked(a, d) = RankedIn(g)
  BY DEF Ranked, Candidates, g
<1> DEFINE ranked == Ranked(a, d)
           close == Len(ranked) > 1 /\ ScoreIn(g, ranked[2]) + 10 >= ScoreIn(g, ranked[1])
           P == {i \in DOMAIN ranked : /\ i <= (IF close THEN 2 ELSE 1)
                                       /\ Words[d][ranked[i]] # {}}
<1>8. FastReads[a][d] = At(ranked, P)
  BY Zenon DEF FastReads, g
<1>9. P \in SUBSET DOMAIN ranked
  OBVIOUS
<1> HIDE DEF ranked, P
<1>10. Listed(ranked)
  BY <1>6, <1>7 DEF ranked
<1>11. Listed(At(ranked, P))
  BY <1>9, <1>10, AtProperties
<1> QED
  BY <1>8, <1>10, <1>11 DEF ranked

LEMMA AmongIsListed ==
    ASSUME NEW nodes, Listed(nodes), NEW pool
    PROVE  Listed(Among(nodes, pool))
<1> DEFINE P == {i \in DOMAIN nodes : nodes[i] \in pool}
<1>1. P \in SUBSET DOMAIN nodes
  OBVIOUS
<1>2. Among(nodes, pool) = At(nodes, P)
  BY DEF Among
<1> HIDE DEF P
<1> QED
  BY <1>1, <1>2, AtProperties

LEMMA TogetherIsListed ==
    ASSUME NEW s, Listed(s.read), NEW nodes, Listed(nodes), NEW read \in Together(s, nodes)
    PROVE  Listed(read)
<1> DEFINE P == {i \in DOMAIN nodes : /\ nodes[i] \notin Range(s.read)
                                      /\ Words[s.doc][nodes[i]] # {}}
           begun == At(nodes, P)
<1>1. Together(s, nodes) = {s.read \o [i \in DOMAIN begun |-> begun[p[i]]] :
                               p \in Permutations(DOMAIN begun)}
  BY Zenon DEF Together
<1>2. P \in SUBSET DOMAIN nodes
  OBVIOUS
<1> HIDE DEF P
<1>3. Listed(begun)
  BY <1>2, AtProperties
<1> HIDE DEF begun
<1>4. PICK p : read = s.read \o [i \in DOMAIN begun |-> begun[p[i]]]
  BY <1>1
<1> DEFINE more == [i \in DOMAIN begun |-> begun[p[i]]]
<1>5. Listed(more)
  <2>1. DOMAIN begun = 1..Len(begun) /\ Len(begun) \in Nat
    BY <1>3, ListedPlaces
  <2>2. more = [i \in 1..Len(begun) |-> more[i]]
    BY <2>1
  <2> HIDE DEF more
  <2> QED
    BY <2>1, <2>2, ListedBy
<1> HIDE DEF more
<1>6. Listed(s.read \o more)
  BY <1>5, ListedAppended
<1> QED
  BY <1>4, <1>6 DEF more

LEMMA BestAreListed ==
    ASSUME NEW ranked, Listed(ranked)
    PROVE  Listed(SubSeq(ranked, 1, Min({3, Len(ranked)})))
<1> DEFINE S == {ranked[i] : i \in DOMAIN ranked}  m == Min({3, Len(ranked)})
<1>1. ranked \in Seq(S) /\ DOMAIN ranked = 1..Len(ranked) /\ Len(ranked) \in Nat
  BY ListedPlaces DEF Listed
<1>2. m \in Nat /\ m <= Len(ranked)
  <2>1. {3, Len(ranked)} \in SUBSET Nat /\ {3, Len(ranked)} # {}
    BY <1>1
  <2>2. PICK l \in {3, Len(ranked)} : \A n \in {3, Len(ranked)} : l <= n
    BY <2>1, LeastElement
  <2>3. m \in {3, Len(ranked)} /\ \A n \in {3, Len(ranked)} : m <= n
    BY <2>2 DEF Min
  <2> HIDE DEF m
  <2>4. (m = 3 \/ m = Len(ranked)) /\ m <= Len(ranked)
    BY <2>3
  <2>5. Len(ranked) \in Nat
    BY <1>1
  <2> QED
    BY <2>4, <2>5
<1> HIDE DEF S, m
<1>3. \A i \in 1..m : ranked[i] \in S
  BY <1>1, <1>2 DEF S
<1>4. SubSeq(ranked, 1, m) \in Seq(S)
  BY <1>1, <1>2, <1>3, SubSeqProperties
<1> QED
  BY <1>4, ListedOf DEF m

LEMMA ChildrenAreFinite ==
    ASSUME NEW d \in Docs, NEW expand \in SUBSET Node, NEW pool
    PROVE  IsFiniteSet(ChildrenOf(d, expand, pool))
<1>1. ChildrenOf(d, expand, pool) \in SUBSET Node
  BY AskAssumption DEF ChildrenOf
<1> QED
  BY <1>1, AskAssumption, FS_Subset

LEMMA SetAsListed ==
    ASSUME NEW S, IsFiniteSet(S)
    PROVE  /\ Listed(SetToSeq(S))
           /\ \A f \in SetToSeqs(S) : Listed(f) /\ Range(f) \subseteq S
<1> DEFINE n == Cardinality(S)
<1>1. n \in Nat /\ ExistsBijection(1..n, S)
  BY FS_CardinalityType
<1> HIDE DEF n
<1>2. PICK f : f \in Bijection(1..n, S)
  BY <1>1 DEF ExistsBijection
<1>3. f \in [1..n -> S] /\ IsInjective(f)
  BY <1>2 DEF Bijection, Injection, IsInjective
<1>4. SetToSeq(S) \in [1..n -> S]
  <2>1. SetToSeq(S) = CHOOSE h \in [1..n -> S] : IsInjective(h)
    BY DEF SetToSeq, n
  <2> QED
    BY <1>3, <2>1
<1>5. \A h \in [1..n -> S] : Listed(h) /\ Range(h) \subseteq S
  <2> SUFFICES ASSUME NEW h \in [1..n -> S]
               PROVE  Listed(h) /\ Range(h) \subseteq S
    OBVIOUS
  <2>1. h = [i \in 1..n |-> h[i]]
    OBVIOUS
  <2> QED
    BY <1>1, <2>1, ListedBy DEF Range
<1>6. SetToSeqs(S) \subseteq [1..n -> S]
  BY Zenon DEF SetToSeqs, n
<1> QED
  BY <1>4, <1>5, <1>6

-----------------------------------------------------------------------------
(***************************************************************************)
(* Steps of an ask.                                                        *)
(***************************************************************************)
\* An ask keeps to itself what it changes, except for the file and what was
\* accepted.
OthersKeep(a) ==
    \A b \in Asks \ {a} :
        /\ phase'[b] = phase[b] /\ intent'[b] = intent[b] /\ round'[b] = round[b]
        /\ scouts'[b] = scouts[b] /\ finished'[b] = finished[b] /\ state'[b] = state[b]
        /\ out'[b] = out[b] /\ made'[b] = made[b] /\ mem'[b] = mem[b]

LEMMA MoreAccepted ==
    ASSUME NEW routes, NEW more, routes \subseteq more
    PROVE  /\ \A a, it, team : HitsOk(a, it, team, routes) => HitsOk(a, it, team, more)
           /\ \A cache : CacheOk(cache, routes) => CacheOk(cache, more)
<1>1. \A a, it, team : HitsOk(a, it, team, routes) => HitsOk(a, it, team, more)
  BY DEF HitsOk
<1>2. \A cache : CacheOk(cache, routes) => CacheOk(cache, more)
  BY MoreRoutes DEF CacheOk
<1> QED
  BY <1>1, <1>2

LEMMA OneAsk ==
    ASSUME IInv, NEW a \in Asks, FunsInv', OthersKeep(a), accepted \subseteq accepted',
           AskOk(a, phase'[a], intent'[a], round'[a], scouts'[a], finished'[a],
                 state'[a], out'[a], made'[a], accepted'),
           CacheOk(file', accepted'), CacheOk(mem'[a], accepted')
    PROVE  IInv'
<1>1. ASSUME NEW b \in Asks, b # a
      PROVE  /\ AskOk(b, phase'[b], intent'[b], round'[b], scouts'[b], finished'[b],
                      state'[b], out'[b], made'[b], accepted')
             /\ CacheOk(mem'[b], accepted')
  <2>1. /\ phase'[b] = phase[b] /\ intent'[b] = intent[b] /\ round'[b] = round[b]
        /\ scouts'[b] = scouts[b] /\ finished'[b] = finished[b] /\ state'[b] = state[b]
        /\ out'[b] = out[b] /\ made'[b] = made[b] /\ mem'[b] = mem[b]
    BY <1>1 DEF OthersKeep
  <2>2. /\ AskOk(b, phase[b], intent[b], round[b], scouts[b], finished[b],
                 state[b], out[b], made[b], accepted)
        /\ CacheOk(mem[b], accepted)
    BY DEF IInv, AskInv, RoutesInv
  <2>3. AskOk(b, phase[b], intent[b], round[b], scouts[b], finished[b],
              state[b], out[b], made[b], accepted')
    BY <2>2, MoreAccepted DEF AskOk
  <2>4. CacheOk(mem[b], accepted')
    BY <2>2, MoreAccepted
  <2> QED
    BY <2>1, <2>3, <2>4
<1>2. AskInv'
  BY <1>1 DEF AskInv
<1>3. RoutesInv'
  BY <1>1 DEF RoutesInv
<1> QED
  BY <1>2, <1>3 DEF IInv

\* An ask that leaves the caches alone.
LEMMA OneAskAlone ==
    ASSUME IInv, NEW a \in Asks, FunsInv', OthersKeep(a),
           AskOk(a, phase'[a], intent'[a], round'[a], scouts'[a], finished'[a],
                 state'[a], out'[a], made'[a], accepted),
           accepted' = accepted, file' = file, CacheOk(mem'[a], accepted)
    PROVE  IInv'
<1>1. CacheOk(file', accepted')
  BY DEF IInv, RoutesInv
<1> QED
  BY <1>1, OneAsk

LEMMA NothingYet ==
    /\ TeamOk("done", <<>>, <<>>) /\ StateOk(NewState)
    /\ \A routes : CacheOk(NoRoutes, routes)
    /\ \A a, it, routes : HitsOk(a, it, <<>>, routes)
<1>1. Listed(<<>>) /\ DOMAIN <<>> = {}
  BY EmptyIsListed
<1>2. Range(<<>>) = {} /\ DoneOf(<<>>) = {}
  BY <1>1 DEF Range, DoneOf
<1>3. TeamOk("done", <<>>, <<>>)
  BY <1>1, <1>2 DEF TeamOk
<1>4. StateOk(NewState)
  BY <1>1 DEF StateOk, NewState
<1>5. \A routes : CacheOk(NoRoutes, routes)
  BY <1>1 DEF CacheOk, NoRoutes, GoodRoutes
<1>6. \A a, it, routes : HitsOk(a, it, <<>>, routes)
  BY <1>1 DEF HitsOk
<1> QED
  BY <1>3, <1>4, <1>5, <1>6

LEMMA InitHolds == Init => IInv
<1> SUFFICES ASSUME Init
             PROVE  IInv
  OBVIOUS
<1>1. FunsInv
  BY DEF Init, FunsInv
<1>2. ASSUME NEW a \in Asks
      PROVE  AskOk(a, phase[a], intent[a], round[a], scouts[a], finished[a],
                   state[a], out[a], made[a], accepted)
  <2>1. /\ phase[a] = "idle" /\ round[a] = 1 /\ scouts[a] = <<>> /\ finished[a] = <<>>
        /\ state[a] = NewState /\ out[a] = NoOutput /\ made[a] = 0
    BY DEF Init, NoScouts
  <2>2. TeamOk("idle", <<>>, <<>>)
    BY NothingYet DEF TeamOk
  <2>3. CallsOk("idle", 1, <<>>, NewState, 0)
    BY DEF CallsOk, NewState
  <2>4. FoundOk("idle", 1, NewState, NoOutput)
    BY EmptyIsListed DEF FoundOk, NoOutput
  <2>5. OutOk("idle", NoOutput, 0)
    BY DEF OutOk
  <2> QED
    BY <2>1, <2>2, <2>3, <2>4, <2>5, NothingYet DEF AskOk
<1>3. RoutesInv
  BY NothingYet DEF Init, RoutesInv
<1> QED
  BY <1>1, <1>2, <1>3 DEF IInv, AskInv

\* Scouts that wait have done nothing.
LEMMA ScoutsWait ==
    ASSUME NEW docs, Listed(docs), \A k \in DOMAIN docs : docs[k] \in Docs
    PROVE  /\ TeamOk("searching", ScoutsFor(docs), <<>>)
           /\ Len(ScoutsFor(docs)) = Len(docs)
           /\ Cardinality(Calls(ScoutsFor(docs), DOMAIN ScoutsFor(docs))) \in Nat
           /\ \A a, it, routes : HitsOk(a, it, ScoutsFor(docs), routes)
<1> DEFINE team == ScoutsFor(docs)
<1>1. DOMAIN docs = 1..Len(docs) /\ Len(docs) \in Nat
  BY ListedPlaces
<1>2. team = [k \in 1..Len(docs) |-> team[k]]
  BY <1>1 DEF ScoutsFor
<1>3. DOMAIN team = DOMAIN docs /\ \A k \in DOMAIN docs : team[k] = Waiting(docs[k])
  BY DEF ScoutsFor
<1> HIDE DEF team
<1>4. Listed(team) /\ Len(team) = Len(docs)
  BY <1>1, <1>2, ListedBy
<1>5. ASSUME NEW d \in Docs
      PROVE  /\ ScoutOk(Waiting(d)) /\ Waiting(d).stage = "waiting"
             /\ ~Waiting(d).fromCache
  <2>1. Listed(<<>>) /\ IsFiniteSet({})
    BY EmptyIsListed, FS_EmptySet
  <2> QED
    BY <2>1 DEF ScoutOk, Waiting, Stages
<1>6. \A k \in DOMAIN team : /\ ScoutOk(team[k]) /\ team[k].stage = "waiting"
                             /\ ~team[k].fromCache /\ team[k].calls \in 0..3
  BY <1>3, <1>5 DEF ScoutOk
<1>7. Listed(<<>>) /\ Range(<<>>) = {}
  BY EmptyIsListed DEF Range
<1>8. DoneOf(team) = {}
  BY <1>6 DEF DoneOf
<1>9. TeamOk("searching", team, <<>>)
  BY <1>4, <1>6, <1>7, <1>8 DEF TeamOk
<1>10. Cardinality(Calls(team, DOMAIN team)) \in Nat
  BY <1>4, <1>6, CallsAreBounded
<1>11. \A a, it, routes : HitsOk(a, it, team, routes)
  BY <1>6 DEF HitsOk
<1> QED
  BY <1>4, <1>9, <1>10, <1>11 DEF team

LEMMA CardsAreListed == Listed(Cards) /\ \A k \in DOMAIN Cards : Cards[k] \in Docs
  BY AskAssumption, ListedOf DEF Docs, Range

LEMMA StartKeeps ==
    ASSUME IInv, NEW a \in Asks, Start(a)
    PROVE  IInv'
<1>1. FunsInv' /\ OthersKeep(a)
  BY DEF IInv, FunsInv, Start, OthersKeep
<1>2. /\ phase[a] = "idle" /\ phase'[a] = "reasoning"
      /\ intent' = intent /\ round' = round /\ scouts' = scouts /\ finished' = finished
      /\ state' = state /\ out' = out /\ made' = made /\ mem' = mem /\ file' = file
      /\ accepted' = accepted
  BY DEF IInv, FunsInv, Start
<1>3. /\ AskOk(a, phase[a], intent[a], round[a], scouts[a], finished[a],
               state[a], out[a], made[a], accepted)
      /\ CacheOk(mem[a], accepted)
  BY DEF IInv, AskInv, RoutesInv
<1>4. AskOk(a, "reasoning", intent[a], round[a], scouts[a], finished[a],
            state[a], out[a], made[a], accepted)
  BY <1>2, <1>3 DEF AskOk, TeamOk, CallsOk, FoundOk, OutOk
<1> QED
  BY <1>1, <1>2, <1>3, <1>4, OneAskAlone

LEMMA QueryAnalysedKeeps ==
    ASSUME IInv, NEW a \in Asks, QueryAnalysed(a)
    PROVE  IInv'
<1>1. FunsInv' /\ OthersKeep(a)
  BY DEF IInv, FunsInv, QueryAnalysed, OthersKeep
<1>2. /\ phase[a] = "reasoning"
      /\ round' = round /\ finished' = finished /\ state' = state /\ out' = out
      /\ made' = [made EXCEPT ![a] = @ + 1] /\ file' = file /\ accepted' = accepted
  BY DEF QueryAnalysed
<1>3. /\ AskOk(a, "reasoning", intent[a], round[a], scouts[a], finished[a],
               state[a], out[a], made[a], accepted)
      /\ CacheOk(mem[a], accepted) /\ CacheOk(file, accepted)
  BY <1>2 DEF IInv, AskInv, RoutesInv
<1>4. scouts[a] = <<>> /\ finished[a] = <<>> /\ round[a] = 1 /\ state[a].calls = 0
      /\ made[a] = 0 /\ out[a].evidence = <<>> /\ StateOk(state[a])
  BY <1>3 DEF AskOk, TeamOk, CallsOk, FoundOk
<1>5. /\ DOMAIN mem = Asks /\ DOMAIN phase = Asks /\ DOMAIN scouts = Asks
      /\ made'[a] = 1
  BY <1>2, <1>4 DEF IInv, FunsInv
<1>6. CASE phase' = [phase EXCEPT ![a] = "failed"] /\ UNCHANGED <<intent, scouts, mem>>
  <2>1. phase'[a] = "failed" /\ intent' = intent /\ scouts' = scouts /\ mem' = mem
    BY <1>5, <1>6
  <2>2. AskOk(a, "failed", intent[a], round[a], scouts[a], finished[a],
              state[a], out[a], 1, accepted)
    BY <1>3 DEF AskOk, TeamOk, CallsOk, FoundOk, OutOk
  <2> QED
    BY <1>1, <1>2, <1>3, <1>5, <2>1, <2>2, OneAskAlone
<1>7. CASE /\ mem' = [mem EXCEPT ![a] = file] /\ a \in Specified
           /\ phase' = [phase EXCEPT ![a] = "searching"]
           /\ scouts' = [scouts EXCEPT ![a] = ScoutsFor(Cards)]
  <2>1. mem'[a] = file /\ phase'[a] = "searching" /\ scouts'[a] = ScoutsFor(Cards)
    BY <1>5, <1>7
  <2> DEFINE team == ScoutsFor(Cards)
  <2>2. /\ TeamOk("searching", team, <<>>) /\ Len(team) = Len(Cards)
        /\ Cardinality(Calls(team, DOMAIN team)) \in Nat
        /\ \A b, it, routes : HitsOk(b, it, team, routes)
    BY CardsAreListed, ScoutsWait
  <2> HIDE DEF team
  <2>3. CallsOk("searching", 1, team, state[a], 1)
    BY <1>4, <2>2, ScoutsAreBounded DEF CallsOk
  <2>4. FoundOk("searching", 1, state[a], out[a])
    BY <1>4, EmptyIsListed DEF FoundOk
  <2>5. OutOk("searching", out[a], 1)
    BY DEF OutOk
  <2>6. AskOk(a, "searching", intent'[a], 1, team, <<>>, state[a], out[a], 1, accepted)
    BY <1>4, <2>2, <2>3, <2>4, <2>5 DEF AskOk
  <2> QED
    BY <1>1, <1>2, <1>3, <1>4, <1>5, <2>1, <2>6, OneAskAlone DEF team
<1>8. CASE /\ mem' = [mem EXCEPT ![a] = file]
           /\ phase' = [phase EXCEPT ![a] = "planning"] /\ scouts' = scouts
  <2>1. mem'[a] = file /\ phase'[a] = "planning" /\ scouts' = scouts
    BY <1>5, <1>8
  <2>2. TeamOk("planning", <<>>, <<>>)
    BY NothingYet DEF TeamOk
  <2>3. CallsOk("planning", 1, <<>>, state[a], 1)
    BY <1>4 DEF CallsOk
  <2>4. FoundOk("planning", 1, state[a], out[a])
    BY <1>4, EmptyIsListed DEF FoundOk
  <2>5. OutOk("planning", out[a], 1)
    BY <1>3 DEF OutOk, AskOk
  <2>6. AskOk(a, "planning", intent'[a], 1, <<>>, <<>>, state[a], out[a], 1, accepted)
    BY <1>4, <2>2, <2>3, <2>4, <2>5, NothingYet DEF AskOk
  <2> QED
    BY <1>1, <1>2, <1>3, <1>4, <1>5, <2>1, <2>6, OneAskAlone
<1> QED
  BY <1>6, <1>7, <1>8 DEF QueryAnalysed

\* An ask that returns leaves its answer and nothing else.
LEMMA ClosedKeeps ==
    ASSUME IInv, NEW a \in Asks, Closed(a), FunsInv', OthersKeep(a),
           made'[a] \in Nat, OutOk("done", out'[a], made'[a]),
           accepted' = accepted, file' = file
    PROVE  IInv'
<1>1. /\ phase'[a] = "done" /\ round'[a] = 1 /\ scouts'[a] = <<>>
      /\ finished'[a] = <<>> /\ state'[a] = NewState /\ mem'[a] = NoRoutes
  BY DEF IInv, FunsInv, Closed, NoScouts
<1>2. CallsOk("done", 1, <<>>, NewState, made'[a])
  BY DEF CallsOk
<1>3. FoundOk("done", 1, NewState, out'[a])
  BY DEF FoundOk
<1>4. AskOk(a, "done", intent'[a], 1, <<>>, <<>>, NewState, out'[a], made'[a], accepted)
  BY <1>2, <1>3, NothingYet DEF AskOk
<1> QED
  BY <1>1, <1>4, NothingYet, OneAskAlone

LEMMA TakenKeeps ==
    ASSUME IInv, NEW a \in Asks, Taken(a)
    PROVE  IInv'
<1>1. FunsInv' /\ OthersKeep(a)
  BY DEF IInv, FunsInv, Taken, OthersKeep
<1>2. /\ phase[a] = "done" /\ phase'[a] = "gone" /\ out'[a] = NoOutput /\ made'[a] = 0
      /\ intent' = intent /\ round' = round /\ scouts' = scouts /\ finished' = finished
      /\ state' = state /\ mem' = mem /\ file' = file /\ accepted' = accepted
  BY DEF IInv, FunsInv, Taken
<1>3. /\ AskOk(a, "done", intent[a], round[a], scouts[a], finished[a],
               state[a], out[a], made[a], accepted)
      /\ CacheOk(mem[a], accepted)
  BY <1>2 DEF IInv, AskInv, RoutesInv
<1>4. TeamOk("gone", scouts[a], finished[a])
  BY <1>3 DEF AskOk, TeamOk
<1>5. CallsOk("gone", round[a], scouts[a], state[a], 0)
  BY DEF CallsOk
<1>6. FoundOk("gone", round[a], state[a], NoOutput)
  BY <1>3, EmptyIsListed DEF AskOk, FoundOk, NoOutput
<1>7. OutOk("gone", NoOutput, 0)
  BY DEF OutOk
<1>8. AskOk(a, "gone", intent[a], round[a], scouts[a], finished[a],
            state[a], NoOutput, 0, accepted)
  BY <1>3, <1>4, <1>5, <1>6, <1>7 DEF AskOk
<1> QED
  BY <1>1, <1>2, <1>3, <1>8, OneAskAlone

LEMMA PlannedKeeps ==
    ASSUME IInv, NEW a \in Asks, Planned(a)
    PROVE  IInv'
<1>1. FunsInv
  BY DEF IInv
<1>2. phase[a] = "planning" /\ made' = [made EXCEPT ![a] = @ + 1]
      /\ file' = file /\ accepted' = accepted
  BY DEF Planned
<1>3. /\ AskOk(a, "planning", intent[a], round[a], scouts[a], finished[a],
               state[a], out[a], made[a], accepted)
      /\ CacheOk(mem[a], accepted)
  BY <1>2 DEF IInv, AskInv, RoutesInv
<1>4. /\ scouts[a] = <<>> /\ finished[a] = <<>> /\ round[a] = 1 /\ state[a].calls = 0
      /\ made[a] = 1 /\ out[a].evidence = <<>> /\ StateOk(state[a])
  BY <1>3 DEF AskOk, TeamOk, CallsOk, FoundOk
<1>5. made'[a] = 2
  BY <1>1, <1>2, <1>4 DEF FunsInv
<1>6. ASSUME NEW calls \in 0..1, Returned(a, "none", <<>>, calls)
      PROVE  IInv'
  <2>1. FunsInv' /\ OthersKeep(a)
    BY <1>1, <1>2, <1>6 DEF FunsInv, Returned, Closed, OthersKeep
  <2>2. out'[a] = [answer |-> "none", evidence |-> <<>>, calls |-> calls]
    BY <1>1, <1>6 DEF FunsInv, Returned
  <2>3. OutOk("done", out'[a], 2)
    BY <2>2, ScoutsAreBounded DEF OutOk, NoOutput
  <2> QED
    BY <1>2, <1>5, <1>6, <2>1, <2>3, ClosedKeeps DEF Returned
<1>7. ASSUME NEW lines \in PlanAnswers,
             phase' = [phase EXCEPT ![a] = "searching"],
             state' = [state EXCEPT ![a].calls = @ + 1],
             scouts' = [scouts EXCEPT ![a] = ScoutsFor(DispatchPlan(lines))],
             UNCHANGED <<intent, round, finished, out, mem>>
      PROVE  IInv'
  <2>1. FunsInv' /\ OthersKeep(a)
    BY <1>1, <1>2, <1>7 DEF FunsInv, OthersKeep
  <2> DEFINE docs == DispatchPlan(lines)  team == ScoutsFor(docs)
             st == [state[a] EXCEPT !.calls = 1]
  <2>2. phase'[a] = "searching" /\ scouts'[a] = team /\ state'[a] = st
    BY <1>1, <1>4, <1>7 DEF FunsInv
  <2>3. /\ StateOk(st) /\ st.calls = 1
    BY <1>4 DEF StateOk
  <2>4. lines \in Seq(Nat) /\ Len(lines) <= MaxScouts
    BY AskAssumption, ScoutsAreBounded
  <2>5. Listed(docs) /\ Len(docs) <= Len(lines) /\ \A k \in DOMAIN docs : docs[k] \in Docs
    BY <2>4, PlanIsOfDocuments
  <2> HIDE DEF docs, st
  <2>6. /\ TeamOk("searching", team, <<>>) /\ Len(team) = Len(docs)
        /\ Cardinality(Calls(team, DOMAIN team)) \in Nat
        /\ \A b, it, routes : HitsOk(b, it, team, routes)
    BY <2>5, ScoutsWait
  <2> HIDE DEF team
  <2>7. Len(team) <= MaxScouts
    BY <2>4, <2>5, <2>6, ListedPlaces, LenProperties, ScoutsAreBounded
  <2>8. CallsOk("searching", 1, team, st, 2)
    BY <2>3, <2>6, <2>7 DEF CallsOk
  <2>9. FoundOk("searching", 1, st, out[a])
    BY <1>4, EmptyIsListed DEF FoundOk
  <2>10. OutOk("searching", out[a], 2)
    BY DEF OutOk
  <2>11. AskOk(a, "searching", intent[a], 1, team, <<>>, st, out[a], 2, accepted)
    BY <2>3, <2>6, <2>8, <2>9, <2>10 DEF AskOk
  <2> QED
    BY <1>2, <1>3, <1>4, <1>5, <1>7, <2>1, <2>2, <2>11, OneAskAlone
<1> QED
  BY <1>6, <1>7 DEF Planned

LEMMA SynthesizedKeeps ==
    ASSUME IInv, NEW a \in Asks, Synthesized(a)
    PROVE  IInv'
<1> DEFINE calls == state[a].calls + 1
           o == [answer |-> "text", evidence |-> state[a].found, calls |-> calls]
<1>1. FunsInv
  BY DEF IInv
<1>2. /\ phase[a] = "answering" /\ made' = [made EXCEPT ![a] = @ + 1]
      /\ out' = [out EXCEPT ![a] = o] /\ file' = file /\ accepted' = accepted
  BY DEF Synthesized
<1>3. /\ AskOk(a, "answering", intent[a], round[a], scouts[a], finished[a],
               state[a], out[a], made[a], accepted)
      /\ CacheOk(mem[a], accepted)
  BY <1>2 DEF IInv, AskInv, RoutesInv
<1>4. /\ scouts[a] = <<>> /\ finished[a] = <<>> /\ StateOk(state[a])
      /\ made[a] \in Nat /\ state[a].calls \in Nat /\ made[a] <= state[a].calls + 1
      /\ round[a] = 1 => state[a].calls <= 1 + 3 * MaxScouts
      /\ round[a] = 2 => state[a].calls <= 2 + 3 * (MaxScouts + Len(Cards))
      /\ round[a] \in 1..2
      /\ state[a].found = Consolidated(state[a].evidence) /\ state[a].found # <<>>
  BY <1>3 DEF AskOk, TeamOk, CallsOk, FoundOk, StateOk
<1>5. made'[a] = made[a] + 1 /\ out'[a] = o /\ calls \in Nat /\ made'[a] <= calls + 1
  BY <1>1, <1>2, <1>4 DEF FunsInv
<1>6. CASE Closed(a)
  <2>1. FunsInv' /\ OthersKeep(a)
    BY <1>1, <1>2, <1>6 DEF FunsInv, Closed, OthersKeep
  <2>2. calls <= 3 + 3 * (MaxScouts + Len(Cards))
    BY <1>4, ScoutsAreBounded
  <2>3. \A i, j \in DOMAIN o.evidence : i < j =>
           /\ Source(o.evidence[i]) # Source(o.evidence[j])
           /\ ~Alike(Text(o.evidence[i]), Text(o.evidence[j]))
    BY <1>4, ConsolidatedIsUnlike DEF StateOk
  <2>4. o.evidence # <<>> /\ o.calls = calls
    BY <1>4
  <2> HIDE DEF o, calls
  <2>5. OutOk("done", o, made'[a])
    BY <1>5, <2>2, <2>3, <2>4 DEF OutOk
  <2>6. made'[a] \in Nat
    BY <1>4, <1>5
  <2> QED
    BY <1>2, <1>5, <1>6, <2>1, <2>5, <2>6, ClosedKeeps
<1>7. CASE /\ round[a] = 1
           /\ phase' = [phase EXCEPT ![a] = "searching"]
           /\ round' = [round EXCEPT ![a] = 2]
           /\ state' = [state EXCEPT ![a].calls = calls]
           /\ scouts' = [scouts EXCEPT ![a] = ScoutsFor(state[a].dispatched)]
           /\ UNCHANGED <<intent, finished, mem>>
  <2>1. FunsInv' /\ OthersKeep(a)
    BY <1>1, <1>2, <1>7 DEF FunsInv, OthersKeep
  <2> DEFINE docs == state[a].dispatched  team == ScoutsFor(docs)
             st == [state[a] EXCEPT !.calls = calls]
  <2>2. /\ phase'[a] = "searching" /\ round'[a] = 2 /\ scouts'[a] = team /\ state'[a] = st
        /\ intent' = intent /\ finished' = finished /\ mem' = mem
    BY <1>1, <1>7 DEF FunsInv
  <2>3. StateOk(st) /\ st.calls = calls /\ st.evidence = state[a].evidence
    BY <1>4 DEF StateOk
  <2>4. Listed(docs) /\ Len(docs) <= Len(Cards) /\ \A k \in DOMAIN docs : docs[k] \in Docs
    BY <1>4, FewDocuments DEF StateOk
  <2> HIDE DEF docs, st
  <2>5. /\ TeamOk("searching", team, <<>>) /\ Len(team) = Len(docs)
        /\ Cardinality(Calls(team, DOMAIN team)) \in Nat
        /\ \A b, it, routes : HitsOk(b, it, team, routes)
    BY <2>4, ScoutsWait
  <2> HIDE DEF team
  <2>6. calls <= 2 + 3 * MaxScouts
    BY <1>4, <1>7, ScoutsAreBounded
  <2>7. o.evidence = Consolidated(st.evidence) /\ o.evidence # <<>> /\ Listed(o.evidence)
    BY <1>4, <2>3, ConsolidatedIsUnlike DEF StateOk
  <2>8. made'[a] \in Nat
    BY <1>4, <1>5
  <2> HIDE DEF calls, o
  <2>9. CallsOk("searching", 2, team, st, made'[a])
    BY <1>5, <2>3, <2>4, <2>5, <2>6, <2>8 DEF CallsOk
  <2>10. FoundOk("searching", 2, st, o)
    BY <2>7 DEF FoundOk
  <2>11. OutOk("searching", o, made'[a])
    BY DEF OutOk
  <2>12. AskOk(a, "searching", intent[a], 2, team, <<>>, st, o, made'[a], accepted)
    BY <2>3, <2>5, <2>9, <2>10, <2>11 DEF AskOk
  <2> QED
    BY <1>2, <1>3, <1>4, <1>5, <2>1, <2>2, <2>12, OneAskAlone
<1> QED
  BY <1>6, <1>7 DEF Synthesized

-----------------------------------------------------------------------------
(***************************************************************************)
(* Steps of a scout.                                                       *)
(***************************************************************************)
\* What becomes of a team when one scout, not done yet, moves.
Moves(team, fin, k, s, new, last) ==
    /\ TeamOk("searching", team, fin) /\ k \in DOMAIN team /\ team[k].stage # "done"
    /\ ScoutOk(s) /\ Listed(new) /\ Len(new) = Len(team)
    /\ new[k] = s /\ \A j \in DOMAIN team \ {k} : new[j] = team[j]
    /\ last = IF s.stage = "done" THEN Append(fin, k) ELSE fin

LEMMA TeamMoves ==
    ASSUME NEW team, NEW fin, NEW k, NEW s, NEW new, NEW last,
           Moves(team, fin, k, s, new, last)
    PROVE  /\ TeamOk("searching", new, last) /\ Len(new) = Len(team)
           /\ s.calls = team[k].calls =>
                 Calls(new, DOMAIN new) = Calls(team, DOMAIN team)
           /\ s.calls = team[k].calls + 1 =>
                 Cardinality(Calls(new, DOMAIN new)) = Cardinality(Calls(team, DOMAIN team)) + 1
           /\ Cardinality(Calls(team, DOMAIN team)) \in Nat
<1> USE DEF Moves
<1>1. /\ Listed(team) /\ Listed(fin) /\ Range(fin) = DoneOf(team)
      /\ \A j \in DOMAIN team : ScoutOk(team[j])
  BY DEF TeamOk
<1>2. DOMAIN team = 1..Len(team) /\ Len(team) \in Nat
  BY <1>1, ListedPlaces
<1>3. /\ DOMAIN new = DOMAIN team /\ new[k] = s
      /\ \A j \in DOMAIN team \ {k} : new[j] = team[j]
  BY <1>2, ListedPlaces
<1>6. \A j \in DOMAIN new : ScoutOk(new[j])
  BY <1>1, <1>3
<1>7. Listed(last) /\ Range(last) = DoneOf(new)
  <2>1. CASE s.stage = "done"
    <3>1. last = Append(fin, k)
      BY <2>1
    <3>2. /\ Listed(last) /\ DOMAIN last = DOMAIN fin \cup {Len(fin) + 1}
          /\ last[Len(fin) + 1] = k /\ \A i \in DOMAIN fin : last[i] = fin[i]
      BY <1>1, <3>1, ListedAppend
    <3>3. Range(last) = Range(fin) \cup {k}
      BY <3>2 DEF Range
    <3>4. DoneOf(new) = DoneOf(team) \cup {k}
      BY <1>3, <2>1 DEF DoneOf
    <3> QED
      BY <1>1, <3>2, <3>3, <3>4
  <2>2. CASE s.stage # "done"
    <3>1. DoneOf(new) = DoneOf(team)
      BY <1>3, <2>2 DEF DoneOf
    <3> QED
      BY <1>1, <2>2, <3>1
  <2> QED
    BY <2>1, <2>2
<1>8. TeamOk("searching", new, last)
  BY <1>6, <1>7 DEF TeamOk
<1>9. \A j \in DOMAIN team : team[j].calls \in 0..3
  BY <1>1 DEF ScoutOk
<1>10. /\ IsFiniteSet(Calls(team, DOMAIN team))
       /\ Cardinality(Calls(team, DOMAIN team)) \in Nat
  BY <1>1, <1>9, CallsAreBounded
<1>11. ASSUME s.calls = team[k].calls
       PROVE  Calls(new, DOMAIN team) = Calls(team, DOMAIN team)
  <2>1. \A j \in DOMAIN team : new[j].calls = team[j].calls
    BY <1>3, <1>11
  <2> QED
    BY <2>1, CallsOfOthers
<1>12. ASSUME s.calls = team[k].calls + 1
       PROVE  Cardinality(Calls(new, DOMAIN team)) = Cardinality(Calls(team, DOMAIN team)) + 1
  <2>1. team[k].calls \in Nat /\ new[k].calls = team[k].calls + 1
    BY <1>3, <1>9, <1>12
  <2> DEFINE D == DOMAIN team
  <2>2. k \in D /\ (\A j \in D \ {k} : new[j] = team[j]) /\ IsFiniteSet(Calls(team, D))
    BY <1>3, <1>10
  <2> HIDE DEF D
  <2>3. Cardinality(Calls(new, D)) = Cardinality(Calls(team, D)) + 1
    BY <2>1, <2>2, CallsOneMore, Zenon
  <2> QED
    BY <2>3 DEF D
<1> QED
  BY <1>3, <1>8, <1>10, <1>11, <1>12

\* A step of a scout keeps the invariant, whatever it means for the caches, if
\* they and what it took of them are in order.
LEMMA ScoutMoves ==
    ASSUME IInv, NEW a \in Asks, phase[a] = "searching",
           NEW k \in DOMAIN scouts[a], scouts[a][k].stage # "done",
           NEW s, ScoutOk(s), Becomes(a, k, s),
           UNCHANGED <<phase, intent, round, state, out>>,
           \/ /\ made' = made
              /\ s.calls = scouts[a][k].calls \/ s.calls = scouts[a][k].calls + 1
           \/ made' = [made EXCEPT ![a] = @ + 1] /\ s.calls = scouts[a][k].calls + 1,
           s.fromCache => \E r \in accepted : /\ r.doc = s.doc /\ r.intent = intent[a]
                                              /\ Alike(KeywordsOf(a), r.kw)
                                              /\ Range(s.read) \subseteq r.nodes,
           accepted \subseteq accepted', DOMAIN mem' = Asks,
           \A b \in Asks \ {a} : mem'[b] = mem[b],
           CacheOk(file', accepted'), CacheOk(mem'[a], accepted')
    PROVE  IInv'
<1>1. FunsInv
  BY DEF IInv
<1>2. AskOk(a, "searching", intent[a], round[a], scouts[a], finished[a],
            state[a], out[a], made[a], accepted)
  BY DEF IInv, AskInv
<1>3. TeamOk("searching", scouts[a], finished[a]) /\ StateOk(state[a])
  BY <1>2 DEF AskOk
<1>4. FunsInv' /\ OthersKeep(a)
  BY <1>1 DEF FunsInv, Becomes, OthersKeep
<1>5. /\ phase'[a] = "searching" /\ intent' = intent /\ round' = round
      /\ state' = state /\ out' = out
  OBVIOUS
<1> DEFINE new == scouts'[a]  last == finished'[a]  team == scouts[a]
<1>6. new = [team EXCEPT ![k] = s]
  BY <1>1 DEF FunsInv, Becomes
<1>7. last = IF s.stage = "done" THEN Append(finished[a], k) ELSE finished[a]
  BY <1>1 DEF FunsInv, Becomes
<1>8. made'[a] = made[a] \/ made'[a] = made[a] + 1
  BY <1>1 DEF FunsInv
<1>9. \/ made'[a] = made[a] /\ s.calls = team[k].calls
      \/ s.calls = team[k].calls + 1
  BY <1>1 DEF FunsInv
<1> HIDE DEF new, last
<1>16. /\ Listed(new) /\ Len(new) = Len(team)
       /\ new[k] = s /\ \A j \in DOMAIN team \ {k} : new[j] = team[j]
  <2>1. Listed(team)
    BY <1>3 DEF TeamOk
  <2>2. DOMAIN team = 1..Len(team) /\ Len(team) \in Nat
    BY <2>1, ListedPlaces
  <2>3. new = [j \in 1..Len(team) |-> new[j]]
    BY <1>6, <2>2
  <2>4. Listed(new) /\ Len(new) = Len(team)
    BY <2>2, <2>3, ListedBy
  <2> QED
    BY <1>6, <2>4
<1>10. /\ TeamOk("searching", new, last) /\ Len(new) = Len(team)
       /\ s.calls = team[k].calls =>
             Calls(new, DOMAIN new) = Calls(team, DOMAIN team)
       /\ s.calls = team[k].calls + 1 =>
             Cardinality(Calls(new, DOMAIN new)) = Cardinality(Calls(team, DOMAIN team)) + 1
       /\ Cardinality(Calls(team, DOMAIN team)) \in Nat
  <2> DEFINE fin == finished[a]
  <2>1. k \in DOMAIN team /\ team[k].stage # "done" /\ TeamOk("searching", team, fin)
    BY <1>3
  <2>2. last = IF s.stage = "done" THEN Append(fin, k) ELSE fin
    BY <1>7
  <2> HIDE DEF team, fin
  <2>3. Moves(team, fin, k, s, new, last)
    BY <1>16, <2>1, <2>2 DEF Moves
  <2> QED
    BY <2>3, TeamMoves
<1>11. CallsOk("searching", round[a], new, state[a], made'[a])
  <2> DEFINE c == Cardinality(Calls(team, DOMAIN team))
             n == Cardinality(Calls(new, DOMAIN new))
  <2>1. CallsOk("searching", round[a], team, state[a], made[a]) /\ state[a].calls \in Nat
    BY <1>2 DEF AskOk, StateOk
  <2>2. /\ made[a] \in Nat /\ made[a] <= state[a].calls + c + 1
        /\ round[a] = 1 => state[a].calls <= 1 /\ Len(team) <= MaxScouts
        /\ round[a] = 2 => state[a].calls <= 2 + 3 * MaxScouts /\ Len(team) <= Len(Cards)
    BY <2>1 DEF CallsOk
  <2>3. /\ c \in Nat
        /\ (made'[a] = made[a] /\ n = c) \/ n = c + 1
    BY <1>9, <1>10
  <2> HIDE DEF c, n
  <2>4. made'[a] \in Nat /\ made'[a] <= state[a].calls + n + 1
    BY <1>8, <2>1, <2>2, <2>3
  <2> QED
    BY <1>10, <2>2, <2>4 DEF CallsOk, n
<1>12. HitsOk(a, intent[a], new, accepted')
  <2>1. HitsOk(a, intent[a], team, accepted')
    BY <1>2, MoreAccepted DEF AskOk
  <2>2. \A j \in DOMAIN new : j \in DOMAIN team /\ new[j] = IF j = k THEN s ELSE team[j]
    BY <1>6
  <2>3. s.fromCache => \E r \in accepted' : /\ r.doc = s.doc /\ r.intent = intent[a]
                                            /\ Alike(KeywordsOf(a), r.kw)
                                            /\ Range(s.read) \subseteq r.nodes
    OBVIOUS
  <2> QED
    BY <2>1, <2>2, <2>3 DEF HitsOk
<1>13. FoundOk("searching", round[a], state[a], out[a])
  BY <1>2 DEF AskOk
<1>14. OutOk("searching", out[a], made'[a])
  BY DEF OutOk
<1>15. AskOk(a, "searching", intent[a], round[a], new, last, state[a], out[a], made'[a], accepted')
  BY <1>3, <1>10, <1>11, <1>12, <1>13, <1>14 DEF AskOk
<1> QED
  BY <1>4, <1>5, <1>15, OneAsk DEF new, last

LEMMA DoneIsOk ==
    ASSUME NEW s, ScoutOk(s), NEW read, Listed(read), NEW calls \in 0..3
    PROVE  /\ ScoutOk(Done(s, read, calls))
           /\ Done(s, read, calls).doc = s.doc /\ Done(s, read, calls).read = read
           /\ Done(s, read, calls).calls = calls /\ Done(s, read, calls).stage = "done"
           /\ (Done(s, read, calls).fromCache <=> s.fromCache)
<1>1. IsFiniteSet({})
  BY FS_EmptySet
<1>2. DOMAIN s = {"doc", "stage", "read", "calls", "fromCache", "pool"} /\ s.doc \in Docs
  BY DEF ScoutOk
<1> DEFINE t == Done(s, read, calls)
<1>3. /\ DOMAIN t = {"doc", "stage", "read", "calls", "fromCache", "pool"}
      /\ t.doc = s.doc /\ t.stage = "done" /\ t.read = read /\ t.calls = calls
      /\ t.fromCache = s.fromCache /\ t.pool = {}
  BY <1>2 DEF Done
<1> HIDE DEF t
<1>4. ScoutOk(t)
  BY <1>1, <1>2, <1>3 DEF ScoutOk, Stages, Ended
<1> QED
  BY <1>3, <1>4 DEF t

\* A route that is recorded with confidence was let pass.
LEMMA RecordKeeps ==
    ASSUME IInv, NEW a \in Asks, NEW s, s.doc \in Docs, Listed(s.read), NEW conf \in Nat,
           accepted \subseteq accepted', Record(a, s, conf),
           conf >= LookupMinConfidence =>
              \E r \in accepted' : /\ r.doc = s.doc /\ r.intent = intent[a]
                                   /\ r.kw = KeywordsOf(a) /\ Range(s.read) \subseteq r.nodes
    PROVE  /\ DOMAIN mem' = Asks /\ \A b \in Asks \ {a} : mem'[b] = mem[b]
           /\ CacheOk(file', accepted') /\ CacheOk(mem'[a], accepted')
<1> DEFINE recorded == round[a] = 1 /\ s.read # <<>> /\ KeywordsOf(a) # {}
           entries == Recorded(mem[a][s.doc], intent[a], KeywordsOf(a), Range(s.read), conf)
<1>1. /\ mem' = IF recorded THEN [mem EXCEPT ![a][s.doc] = entries] ELSE mem
      /\ file' \in IF recorded THEN {file, mem'[a]} ELSE {file}
  BY Zenon DEF Record
<1>2. DOMAIN mem = Asks
  BY DEF IInv, FunsInv
<1>3. CacheOk(file, accepted') /\ CacheOk(mem[a], accepted')
  BY MoreAccepted DEF IInv, RoutesInv
<1>4. IsFiniteSet(Range(s.read))
  BY RangeIsFinite
<1>5. GoodRoutes(s.doc, mem[a][s.doc], accepted')
  BY <1>3 DEF CacheOk
<1>6. GoodRoutes(s.doc, entries, accepted')
  BY <1>4, <1>5, RecordedKeeps
<1> HIDE DEF entries
<1>7. CacheOk([mem[a] EXCEPT ![s.doc] = entries], accepted')
  BY <1>3, <1>6 DEF CacheOk
<1>8. mem'[a] = mem[a] \/ mem'[a] = [mem[a] EXCEPT ![s.doc] = entries]
  BY <1>1, <1>2
<1>9. CacheOk(mem'[a], accepted')
  BY <1>3, <1>7, <1>8
<1>10. CacheOk(file', accepted')
  BY <1>1, <1>3, <1>9
<1>11. DOMAIN mem' = Asks /\ \A b \in Asks \ {a} : mem'[b] = mem[b]
  BY <1>1, <1>2
<1> QED
  BY <1>9, <1>10, <1>11

\* What a scout is that begins.
LEMMA ExploredIsOk ==
    ASSUME NEW a \in Asks, NEW s, ScoutOk(s), s.calls = 0, ~s.fromCache
    PROVE  /\ ScoutOk(Explored(a, s)) /\ Explored(a, s).calls \in 0..1
           /\ ~Explored(a, s).fromCache
<1>1. s.doc \in Docs /\ DOMAIN s = {"doc", "stage", "read", "calls", "fromCache", "pool"}
      /\ Listed(s.read) /\ IsFiniteSet(s.pool)
  BY DEF ScoutOk
<1>2. Listed(FastReads[a][s.doc])
  BY <1>1, RankedIsListed
<1> DEFINE t == Explored(a, s)
<1> SUFFICES ScoutOk(t) /\ t.calls \in 0..1 /\ ~t.fromCache
  OBVIOUS
<1>3. CASE t = Done(s, <<>>, 0)
  <2>1. Listed(<<>>) /\ 0 \in 0..3
    BY EmptyIsListed
  <2> DEFINE d == Done(s, <<>>, 0)
  <2>2. ScoutOk(d) /\ d.calls = 0 /\ (d.fromCache <=> s.fromCache)
    BY <2>1, DoneIsOk
  <2>3. t = d
    BY <1>3
  <2> HIDE DEF t, d
  <2> QED
    BY <2>2, <2>3
<1>4. CASE t = [s EXCEPT !.stage = "pick"]
  <2>1. /\ DOMAIN t = DOMAIN s /\ t.stage = "pick" /\ t.doc = s.doc /\ t.read = s.read
        /\ t.calls = 0 /\ t.fromCache = s.fromCache /\ t.pool = s.pool
    BY <1>1, <1>4
  <2> HIDE DEF t
  <2> QED
    BY <1>1, <2>1 DEF ScoutOk, Stages, Searching
<1>5. CASE t = [s EXCEPT !.stage = "pick", !.calls = 1]
  <2>1. /\ DOMAIN t = DOMAIN s /\ t.stage = "pick" /\ t.doc = s.doc /\ t.read = s.read
        /\ t.calls = 1 /\ t.fromCache = s.fromCache /\ t.pool = s.pool
    BY <1>1, <1>5
  <2> HIDE DEF t
  <2> QED
    BY <1>1, <2>1 DEF ScoutOk, Stages, Searching
<1>6. CASE t = [s EXCEPT !.stage = "verify", !.read = FastReads[a][s.doc]]
  <2>1. /\ DOMAIN t = DOMAIN s /\ t.stage = "verify" /\ t.doc = s.doc
        /\ t.read = FastReads[a][s.doc]
        /\ t.calls = 0 /\ t.fromCache = s.fromCache /\ t.pool = s.pool
    BY <1>1, <1>6
  <2> HIDE DEF t
  <2> QED
    BY <1>1, <1>2, <2>1 DEF ScoutOk, Stages, Searching
<1>7. \/ t = Done(s, <<>>, 0) \/ t = [s EXCEPT !.stage = "pick"]
      \/ t = [s EXCEPT !.stage = "pick", !.calls = 1]
      \/ t = [s EXCEPT !.stage = "verify", !.read = FastReads[a][s.doc]]
  BY Zenon DEF Explored
<1> QED
  BY <1>3, <1>4, <1>5, <1>6, <1>7

LEMMA BegunIsOk ==
    ASSUME IInv, NEW a \in Asks, NEW s, ScoutOk(s), s.calls = 0, ~s.fromCache,
           NEW next \in Begun(a, s)
    PROVE  /\ ScoutOk(next) /\ next.calls \in 0..1
           /\ next.fromCache => \E r \in accepted : /\ r.doc = next.doc /\ r.intent = intent[a]
                                                    /\ Alike(KeywordsOf(a), r.kw)
                                                    /\ Range(next.read) \subseteq r.nodes
<1> DEFINE R == RouteNodes(a, s.doc)
<1>1. CASE R = {}
  <2>1. next = Explored(a, s)
    BY <1>1 DEF Begun
  <2> QED
    BY <2>1, ExploredIsOk
<1>2. CASE R # {}
  <2>1. PICK read \in SetToSeqs(R) : next = [Done(s, read, 0) EXCEPT !.fromCache = TRUE]
    BY <1>2 DEF Begun
  <2>2. s.doc \in Docs
    BY DEF ScoutOk
  <2>3. GoodRoutes(s.doc, mem[a][s.doc], accepted)
    BY <2>2 DEF IInv, RoutesInv, CacheOk
  <2> DEFINE L == Lookup(mem[a][s.doc], intent[a], KeywordsOf(a))
  <2>4. R \subseteq UNION {r.nodes : r \in L}
    BY DEF RouteNodes
  <2> HIDE DEF R
  <2>5. L # {}
    BY <1>2, <2>4
  <2>6. PICK e \in L : TRUE
    BY <2>5
  <2>7. /\ L = {e} /\ IsFiniteSet(e.nodes)
        /\ \E r \in accepted : /\ r.doc = s.doc /\ r.intent = intent[a]
                               /\ Alike(KeywordsOf(a), r.kw) /\ e.nodes \subseteq r.nodes
    BY <2>3, FoundIsUsable
  <2> HIDE DEF L
  <2>8. R \in SUBSET e.nodes
    BY <2>4, <2>7
  <2>9. IsFiniteSet(R)
    BY <2>7, <2>8, FS_Subset
  <2>10. Listed(read) /\ Range(read) \subseteq R
    BY <2>9, SetAsListed
  <2> DEFINE d == Done(s, read, 0)
  <2>11. /\ ScoutOk(d) /\ d.doc = s.doc /\ d.read = read /\ d.calls = 0 /\ d.stage = "done"
    <3>1. 0 \in 0..3
      OBVIOUS
    <3> QED
      BY <2>10, <3>1, DoneIsOk
  <2>12. next = [d EXCEPT !.fromCache = TRUE]
    BY <2>1
  <2> HIDE DEF d
  <2>13. DOMAIN d = {"doc", "stage", "read", "calls", "fromCache", "pool"} /\ IsFiniteSet(d.pool)
    BY <2>11 DEF ScoutOk
  <2>14. /\ DOMAIN next = DOMAIN d /\ next.doc = s.doc /\ next.read = read
         /\ next.calls = 0 /\ next.stage = "done" /\ next.pool = d.pool
    BY <2>11, <2>12, <2>13
  <2>15. ScoutOk(next)
    BY <2>2, <2>10, <2>13, <2>14 DEF ScoutOk, Stages, Ended
  <2>16. Range(next.read) \subseteq e.nodes
    BY <2>8, <2>10, <2>14
  <2> QED
    BY <2>7, <2>14, <2>15, <2>16
<1> QED
  BY <1>1, <1>2

LEMMA ScoutBeginsKeeps ==
    ASSUME IInv, NEW a \in Asks, NEW k \in DOMAIN scouts[a], ScoutBegins(a, k)
    PROVE  IInv'
<1> DEFINE s == scouts[a][k]  lost == [s EXCEPT !.stage = "lost"]
<1>1. PICK next \in Begun(a, s) \cup {lost} : Becomes(a, k, next)
  BY Zenon DEF ScoutBegins
<1>2. /\ phase[a] = "searching" /\ s.stage = "waiting"
      /\ UNCHANGED <<phase, intent, round, state, out, made, mem, file, accepted>>
  BY DEF ScoutBegins
<1>3. ScoutOk(s)
  BY DEF IInv, AskInv, AskOk, TeamOk
<1>4. s.calls = 0 /\ ~s.fromCache
  BY <1>2, <1>3 DEF ScoutOk
<1> HIDE DEF s
<1>5. ScoutOk(lost) /\ lost.calls = 0 /\ ~lost.fromCache
  <2>1. /\ s.doc \in Docs /\ Listed(s.read) /\ IsFiniteSet(s.pool)
        /\ DOMAIN s = {"doc", "stage", "read", "calls", "fromCache", "pool"}
    BY <1>3 DEF ScoutOk
  <2>2. /\ DOMAIN lost = DOMAIN s /\ lost.stage = "lost" /\ lost.doc = s.doc
        /\ lost.read = s.read /\ lost.calls = 0 /\ lost.fromCache = s.fromCache
        /\ lost.pool = s.pool
    BY <1>4, <2>1
  <2> HIDE DEF lost
  <2> QED
    BY <1>4, <2>1, <2>2 DEF ScoutOk, Stages, Ended
<1> HIDE DEF lost
<1>6. /\ ScoutOk(next) /\ next.calls \in 0..1
      /\ next.fromCache => \E r \in accepted : /\ r.doc = next.doc /\ r.intent = intent[a]
                                               /\ Alike(KeywordsOf(a), r.kw)
                                               /\ Range(next.read) \subseteq r.nodes
  BY <1>1, <1>3, <1>4, <1>5, BegunIsOk
<1>7. next.calls = s.calls \/ next.calls = s.calls + 1
  BY <1>4, <1>6
<1>8. /\ DOMAIN mem' = Asks /\ CacheOk(file', accepted') /\ CacheOk(mem'[a], accepted')
      /\ \A b \in Asks \ {a} : mem'[b] = mem[b]
  BY <1>2 DEF IInv, FunsInv, RoutesInv
<1> QED
  BY <1>1, <1>2, <1>6, <1>7, <1>8, ScoutMoves DEF s

\* A scout that asks once more and ends with what it read.
LEMMA ScoutEnds ==
    ASSUME IInv, NEW a \in Asks, phase[a] = "searching", NEW k \in DOMAIN scouts[a],
           scouts[a][k].stage \in Searching, NEW read, Listed(read), NEW conf \in Nat,
           Becomes(a, k, Done(scouts[a][k], read, scouts[a][k].calls + 1)),
           Record(a, Done(scouts[a][k], read, scouts[a][k].calls + 1), conf),
           made' = [made EXCEPT ![a] = @ + 1],
           UNCHANGED <<phase, intent, round, state, out>>, accepted \subseteq accepted',
           conf >= LookupMinConfidence =>
              \E r \in accepted' : /\ r.doc = scouts[a][k].doc /\ r.intent = intent[a]
                                   /\ r.kw = KeywordsOf(a) /\ Range(read) \subseteq r.nodes
    PROVE  IInv'
<1> DEFINE s == scouts[a][k]  calls == s.calls + 1  d == Done(s, read, calls)
<1>1. ScoutOk(s)
  BY DEF IInv, AskInv, AskOk, TeamOk
<1>2. calls \in 0..3 /\ s.stage # "done" /\ ~s.fromCache /\ s.doc \in Docs
  BY <1>1 DEF ScoutOk, Searching
<1>3. /\ ScoutOk(d) /\ d.doc = s.doc /\ d.read = read /\ d.calls = calls
      /\ (d.fromCache <=> s.fromCache)
  <2> HIDE DEF s, calls
  <2> QED
    BY <1>1, <1>2, DoneIsOk, Z3
<1>4. Becomes(a, k, d) /\ Record(a, d, conf)
  OBVIOUS
<1>5. conf >= LookupMinConfidence =>
         \E r \in accepted' : /\ r.doc = s.doc /\ r.intent = intent[a]
                              /\ r.kw = KeywordsOf(a) /\ Range(read) \subseteq r.nodes
  OBVIOUS
<1>6. d.calls = scouts[a][k].calls + 1 /\ scouts[a][k].stage # "done"
  BY <1>2, <1>3
<1> HIDE DEF d, calls, s
<1>7. /\ DOMAIN mem' = Asks /\ \A b \in Asks \ {a} : mem'[b] = mem[b]
      /\ CacheOk(file', accepted') /\ CacheOk(mem'[a], accepted')
  BY <1>2, <1>3, <1>4, <1>5, RecordKeeps
<1>8. ~d.fromCache
  BY <1>2, <1>3
<1> QED
  BY <1>3, <1>4, <1>6, <1>7, <1>8, ScoutMoves

\* A scout that asks once more and goes on.
LEMMA ScoutGoesOn ==
    ASSUME IInv, NEW a \in Asks, phase[a] = "searching", NEW k \in DOMAIN scouts[a],
           scouts[a][k].stage # "done", NEW s, ScoutOk(s), s.stage # "done",
           s.calls = scouts[a][k].calls + 1, Becomes(a, k, s),
           made' = [made EXCEPT ![a] = @ + 1],
           UNCHANGED <<phase, intent, round, state, out, mem, file, accepted>>
    PROVE  IInv'
<1>1. ~s.fromCache
  BY DEF ScoutOk
<1>2. /\ DOMAIN mem' = Asks /\ CacheOk(file', accepted') /\ CacheOk(mem'[a], accepted')
      /\ \A b \in Asks \ {a} : mem'[b] = mem[b]
  BY DEF IInv, FunsInv, RoutesInv
<1> QED
  BY <1>1, <1>2, ScoutMoves

LEMMA VerifiedKeeps ==
    ASSUME IInv, NEW a \in Asks, NEW k \in DOMAIN scouts[a], Verified(a, k)
    PROVE  IInv'
<1> DEFINE s == scouts[a][k]
           done == Done(s, s.read, s.calls + 1)
           route == [doc |-> s.doc, intent |-> intent[a], kw |-> KeywordsOf(a),
                     nodes |-> Range(s.read)]
           next == [s EXCEPT !.stage = "pick", !.calls = @ + 1]
<1>1. /\ phase[a] = "searching" /\ s.stage = "verify" /\ made' = [made EXCEPT ![a] = @ + 1]
      /\ UNCHANGED <<phase, intent, round, state, out>>
  BY DEF Verified, Asked
<1>2. ScoutOk(s)
  BY DEF IInv, AskInv, AskOk, TeamOk
<1>3. s.stage \in Searching /\ s.stage # "done" /\ Listed(s.read) /\ s.calls = 0
  BY <1>1, <1>2 DEF Searching, ScoutOk
<1>4. CASE Becomes(a, k, done) /\ Record(a, done, 85) /\ accepted' = accepted \cup {route}
  <2>1. /\ route \in accepted' /\ route.doc = s.doc /\ route.intent = intent[a]
        /\ route.kw = KeywordsOf(a) /\ Range(s.read) \subseteq route.nodes
    BY <1>4
  <2>2. accepted \subseteq accepted' /\ 85 \in Nat
    BY <1>4
  <2> QED
    BY <1>1, <1>3, <1>4, <2>1, <2>2, ScoutEnds
<1>5. CASE Becomes(a, k, next) /\ UNCHANGED <<mem, file, accepted>>
  <2>1. /\ s.doc \in Docs /\ IsFiniteSet(s.pool) /\ (s.fromCache => s.stage = "done")
        /\ DOMAIN s = {"doc", "stage", "read", "calls", "fromCache", "pool"}
    BY <1>2 DEF ScoutOk
  <2>2. /\ DOMAIN next = DOMAIN s /\ next.stage = "pick" /\ next.doc = s.doc
        /\ next.read = s.read /\ next.calls = 1 /\ next.fromCache = s.fromCache
        /\ next.pool = s.pool
    BY <1>3, <2>1
  <2>3. next.calls = s.calls + 1
    BY <1>3, <2>2
  <2> HIDE DEF next
  <2>4. ScoutOk(next)
    BY <1>1, <1>3, <2>1, <2>2 DEF ScoutOk, Stages, Searching
  <2>5. next.stage # "done"
    BY <2>2
  <2> QED
    BY <1>1, <1>3, <1>5, <2>3, <2>4, <2>5, ScoutGoesOn
<1> QED
  BY <1>4, <1>5, Zenon DEF Verified

LEMMA PickedKeeps ==
    ASSUME IInv, NEW a \in Asks, NEW k \in DOMAIN scouts[a], Picked(a, k)
    PROVE  IInv'
<1> DEFINE s == scouts[a][k]
           calls == s.calls + 1
           ranked == Ranked(a, s.doc)
           best == SubSeq(ranked, 1, Min({3, Len(ranked)}))
           targets(p) == Among(p.targets, Range(ranked))
           children(p) == IF p.done \/ ~BudgetLeft(calls) THEN {}
                          ELSE ChildrenOf(s.doc, p.expand, Range(ranked))
           next(p, read) == [s EXCEPT !.stage = "beam", !.read = read,
                                      !.calls = calls, !.pool = children(p)]
           ends(read) == Becomes(a, k, Done(s, read, calls)) /\ Record(a, Done(s, read, calls), 60)
<1>1. /\ phase[a] = "searching" /\ s.stage = "pick" /\ made' = [made EXCEPT ![a] = @ + 1]
      /\ UNCHANGED <<phase, intent, round, state, out, accepted>>
  BY DEF Picked, Asked
<1>2. ScoutOk(s)
  BY DEF IInv, AskInv, AskOk, TeamOk
<1>3. /\ s.stage \in Searching /\ s.stage # "done" /\ Listed(s.read) /\ s.doc \in Docs
      /\ s.calls \in 0..1 /\ ~s.fromCache /\ IsFiniteSet(s.pool)
      /\ DOMAIN s = {"doc", "stage", "read", "calls", "fromCache", "pool"}
  BY <1>1, <1>2 DEF Searching, ScoutOk
<1>4. Listed(ranked)
  BY <1>3, RankedIsListed
<1>5. \/ \E read \in Together(s, best) : ends(read)
      \/ \E p \in PickAnswers : \E read \in Together(s, targets(p)) :
            \/ ends(read)
            \/ Becomes(a, k, next(p, read)) /\ UNCHANGED <<mem, file>>
  BY Zenon DEF Picked
<1>6. ASSUME NEW read, Listed(read), ends(read)
      PROVE  IInv'
  <2>1. ~(60 >= LookupMinConfidence) /\ 60 \in Nat
    BY DEF LookupMinConfidence
  <2>2. accepted \subseteq accepted'
    BY <1>1
  <2> QED
    BY <1>1, <1>3, <1>6, <2>1, <2>2, ScoutEnds
<1>7. ASSUME NEW read \in Together(s, best)
      PROVE  Listed(read)
  <2>1. Listed(best)
    BY <1>4, BestAreListed
  <2> HIDE DEF best
  <2> QED
    BY <1>3, <2>1, TogetherIsListed
<1>8. ASSUME NEW p \in PickAnswers
      PROVE  /\ \A read \in Together(s, targets(p)) : Listed(read)
             /\ IsFiniteSet(children(p))
  <2>1. Listed(p.targets) /\ p.expand \in SUBSET Node
    BY AskAssumption, ListedOf
  <2>2. Listed(targets(p))
    BY <2>1, AmongIsListed
  <2>3. IsFiniteSet({}) /\ IsFiniteSet(ChildrenOf(s.doc, p.expand, Range(ranked)))
    BY <1>3, <2>1, ChildrenAreFinite, FS_EmptySet
  <2> HIDE DEF targets
  <2>4. \A read \in Together(s, targets(p)) : Listed(read)
    BY <1>3, <2>2, TogetherIsListed
  <2> QED
    BY <2>3, <2>4
<1>9. ASSUME NEW p \in PickAnswers, NEW read, Listed(read),
             Becomes(a, k, next(p, read)), UNCHANGED <<mem, file>>
      PROVE  IInv'
  <2> DEFINE c == children(p)  n == next(p, read)
  <2>1. IsFiniteSet(c)
    BY <1>8
  <2>2. n = [s EXCEPT !.stage = "beam", !.read = read, !.calls = calls, !.pool = c]
    OBVIOUS
  <2> HIDE DEF c, n, children
  <2>3. /\ DOMAIN n = DOMAIN s /\ n.stage = "beam" /\ n.doc = s.doc
        /\ n.read = read /\ n.calls = calls /\ n.fromCache = s.fromCache /\ n.pool = c
    BY <1>3, <2>2
  <2>4. ScoutOk(n)
    BY <1>3, <1>9, <2>1, <2>3 DEF ScoutOk, Stages, Searching
  <2>5. n.stage # "done" /\ n.calls = scouts[a][k].calls + 1
    BY <2>3
  <2>6. Becomes(a, k, n)
    BY <1>9 DEF n
  <2> QED
    BY <1>1, <1>3, <1>9, <2>4, <2>5, <2>6, ScoutGoesOn
<1> HIDE DEF ends, next, targets, best
<1> QED
  BY <1>5, <1>6, <1>7, <1>8, <1>9

LEMMA BeamedKeeps ==
    ASSUME IInv, NEW a \in Asks, NEW k \in DOMAIN scouts[a], Beamed(a, k)
    PROVE  IInv'
<1> DEFINE s == scouts[a][k]
           pool == s.pool \cup Range(Ranked(a, s.doc))
           picked == {c \in SUBSET s.pool : Cardinality(c) = Min({3, Cardinality(s.pool)})}
           some == {SetToSeq(c) : c \in picked}
           ends(read) == /\ Becomes(a, k, Done(s, read, s.calls + 1))
                         /\ Record(a, Done(s, read, s.calls + 1), 60)
<1>1. /\ phase[a] = "searching" /\ s.stage = "beam" /\ made' = [made EXCEPT ![a] = @ + 1]
      /\ UNCHANGED <<phase, intent, round, state, out, accepted>>
  BY DEF Beamed, Asked
<1>2. ScoutOk(s)
  BY DEF IInv, AskInv, AskOk, TeamOk
<1>3. s.stage \in Searching /\ s.stage # "done" /\ Listed(s.read) /\ IsFiniteSet(s.pool)
  BY <1>1, <1>2 DEF Searching, ScoutOk
<1>4. PICK ids \in BeamAnswers :
         \E chosen \in IF ids = <<>> THEN some ELSE {Among(ids, pool)} :
            \E read \in Together(s, chosen) : ends(read)
  BY Zenon DEF Beamed
<1>5. ASSUME NEW c \in picked
      PROVE  Listed(SetToSeq(c))
  <2>1. IsFiniteSet(c)
    BY <1>3, FS_Subset
  <2> QED
    BY <2>1, SetAsListed
<1>6. Listed(Among(ids, pool))
  BY AskAssumption, ListedOf, AmongIsListed
<1> HIDE DEF pool, picked, ends
<1>7. PICK chosen \in some \cup {Among(ids, pool)} : \E read \in Together(s, chosen) : ends(read)
  BY <1>4
<1>8. Listed(chosen)
  BY <1>5, <1>6, <1>7
<1>9. PICK read \in Together(s, chosen) : ends(read)
  BY <1>7
<1>10. Listed(read)
  BY <1>3, <1>8, <1>9, TogetherIsListed
<1>11. ~(60 >= LookupMinConfidence) /\ 60 \in Nat
  BY DEF LookupMinConfidence
<1>12. accepted \subseteq accepted'
  BY <1>1
<1> QED
  BY <1>1, <1>3, <1>9, <1>10, <1>11, <1>12, ScoutEnds DEF ends

-----------------------------------------------------------------------------
(***************************************************************************)
(* What was found, collected and consolidated.                             *)
(***************************************************************************)
\* What an ask collects: more evidence behind what it had, documents it was
\* not sent to twice, and every call its scouts counted.
LEMMA CollectedIsOk ==
    ASSUME IInv, NEW a \in Asks, phase[a] = "searching",
           \A k \in DOMAIN scouts[a] : scouts[a][k].stage \in Ended
    PROVE  /\ StateOk(CollectedState(a))
           /\ \E more : /\ Listed(more)
                        /\ CollectedState(a).evidence = state[a].evidence \o more
           /\ CollectedState(a).calls =
                 state[a].calls + Cardinality(Calls(scouts[a], DOMAIN scouts[a]))
<1> DEFINE team == scouts[a]  fin == finished[a]  st == state[a]  new == CollectedState(a)
           R == Results(a)
           evidences == [i \in DOMAIN R |-> EvidenceOf(R[i])]
           docs == [i \in DOMAIN R |-> R[i].doc]
           more == FlattenSeq(evidences)
<1>1. TeamOk("searching", team, fin) /\ StateOk(st)
  BY DEF IInv, AskInv, AskOk
<1>2. /\ Listed(team) /\ Listed(fin) /\ Range(fin) = DoneOf(team)
      /\ \A k \in DOMAIN team : ScoutOk(team[k])
  BY <1>1 DEF TeamOk
<1>3. DOMAIN fin = 1..Len(fin) /\ Len(fin) \in Nat
  BY <1>2, ListedPlaces
<1>4. DOMAIN R = 1..Len(fin) /\ \A i \in DOMAIN R : R[i] = team[fin[i]] /\ fin[i] \in DOMAIN team
  <2>1. \A i \in DOMAIN fin : fin[i] \in DOMAIN team
    BY <1>2 DEF Range, DoneOf
  <2> QED
    BY <1>3, <2>1 DEF Results
<1> HIDE DEF R
<1>5. \A i \in DOMAIN R : ScoutOk(R[i])
  BY <1>2, <1>4
<1>6. Listed(evidences) /\ \A i \in DOMAIN evidences : Listed(evidences[i])
  <2>1. evidences = [i \in 1..Len(fin) |-> evidences[i]] /\ DOMAIN evidences = DOMAIN R
    BY <1>4
  <2>2. ASSUME NEW s, ScoutOk(s)
        PROVE  Listed(EvidenceOf(s))
    <3> DEFINE e == EvidenceOf(s)
    <3>1. DOMAIN s.read = 1..Len(s.read) /\ Len(s.read) \in Nat
      BY <2>2, ListedPlaces DEF ScoutOk
    <3>2. e = [i \in 1..Len(s.read) |-> e[i]]
      BY <3>1 DEF EvidenceOf
    <3> HIDE DEF e
    <3>3. Listed(e)
      BY <3>1, <3>2, ListedBy
    <3> QED
      BY <3>3 DEF e
  <2>3. \A i \in DOMAIN R : evidences[i] = EvidenceOf(R[i])
    OBVIOUS
  <2> HIDE DEF evidences
  <2> QED
    BY <1>3, <1>5, <2>1, <2>2, <2>3, ListedBy
<1>7. Listed(docs) /\ \A i \in DOMAIN docs : docs[i] \in Docs
  <2>1. docs = [i \in 1..Len(fin) |-> docs[i]] /\ DOMAIN docs = DOMAIN R
    BY <1>4
  <2>2. \A i \in DOMAIN R : docs[i] \in Docs
    BY <1>5 DEF ScoutOk
  <2> HIDE DEF docs
  <2> QED
    BY <1>3, <2>1, <2>2, ListedBy
<1> HIDE DEF evidences, docs
<1>8. Listed(more)
  BY <1>6, JoinedIsListed
<1> HIDE DEF more
<1> DEFINE visited == Firsts(st.dispatched \o docs)
           counted == st.calls + Cardinality(Calls(team, Range(fin)))
<1>9. new = [evidence |-> st.evidence \o more, dispatched |-> visited,
             found |-> st.found, calls |-> counted]
  BY Zenon DEF CollectedState, more, evidences, docs, R
<1>10. /\ Listed(st.evidence) /\ Listed(st.dispatched) /\ st.calls \in Nat
       /\ \A i \in DOMAIN st.dispatched : st.dispatched[i] \in Docs
  BY <1>1 DEF StateOk
<1>11. Listed(st.evidence \o more)
  BY <1>8, <1>10, ListedAppended
<1>18. OnceEach(Docs, visited)
  BY <1>7, <1>10, FirstsOfBoth
<1>12. /\ Listed(visited) /\ \A i \in DOMAIN visited : visited[i] \in Docs
       /\ \A i, j \in DOMAIN visited : visited[i] = visited[j] => i = j
  <2> HIDE DEF visited
  <2> QED
    BY <1>18 DEF OnceEach
<1>13. Calls(team, DOMAIN team) = Calls(team, Range(fin))
  <2>1. Range(fin) \in SUBSET DOMAIN team
    BY <1>2 DEF DoneOf
  <2>2. \A k \in DOMAIN team \ Range(fin) : team[k].calls = 0
    BY <1>2 DEF DoneOf, ScoutOk, Ended
  <2> QED
    BY <2>1, <2>2, CallsOfSome
<1>14. Cardinality(Calls(team, DOMAIN team)) \in Nat
  BY <1>2, CallsAreBounded DEF ScoutOk
<1>15. counted = st.calls + Cardinality(Calls(team, DOMAIN team)) /\ counted \in Nat
  BY <1>10, <1>13, <1>14
<1> HIDE DEF visited, counted
<1>16. /\ DOMAIN new = {"evidence", "dispatched", "calls", "found"}
       /\ new.evidence = st.evidence \o more /\ new.dispatched = visited /\ new.calls = counted
  BY <1>9
<1> HIDE DEF new
<1>17. StateOk(new)
  BY <1>11, <1>12, <1>15, <1>16 DEF StateOk
<1> QED
  BY <1>8, <1>15, <1>16, <1>17 DEF new

LEMMA CollectedKeeps ==
    ASSUME IInv, NEW a \in Asks, Collected(a)
    PROVE  IInv'
<1> DEFINE new == CollectedState(a)  found == Consolidated(new.evidence)
           team == scouts[a]  c == Cardinality(Calls(team, DOMAIN team))
<1>1. FunsInv
  BY DEF IInv
<1>2. /\ phase[a] = "searching" /\ \A k \in DOMAIN team : team[k].stage \in Ended
      /\ made' = made /\ file' = file /\ accepted' = accepted
  BY DEF Collected
<1>3. /\ StateOk(new) /\ new.calls = state[a].calls + c
      /\ \E more : Listed(more) /\ new.evidence = state[a].evidence \o more
  BY <1>2, CollectedIsOk
<1>4. /\ AskOk(a, "searching", intent[a], round[a], team, finished[a],
               state[a], out[a], made[a], accepted)
      /\ CacheOk(mem[a], accepted)
  BY <1>2 DEF IInv, AskInv, RoutesInv
<1>5. /\ Listed(team) /\ \A k \in DOMAIN team : team[k].calls \in 0..3
      /\ StateOk(state[a]) /\ CallsOk("searching", round[a], team, state[a], made[a])
      /\ FoundOk("searching", round[a], state[a], out[a])
  BY <1>4 DEF AskOk, TeamOk, ScoutOk
<1>6. c \in Nat /\ c <= 3 * Len(team) /\ Len(team) \in Nat
  BY <1>5, CallsAreBounded, ListedPlaces
<1>7. \/ found = <<>> /\ Returned(a, "none", new.evidence, new.calls)
      \/ found # <<>> /\ Returned(a, "locations", found, new.calls)
      \/ /\ found # <<>> /\ phase' = [phase EXCEPT ![a] = "answering"]
         /\ state' = [state EXCEPT ![a] = [new EXCEPT !.found = found]]
         /\ scouts' = [scouts EXCEPT ![a] = NoScouts]
         /\ finished' = [finished EXCEPT ![a] = <<>>]
         /\ UNCHANGED <<intent, round, out, mem>>
  BY Zenon DEF Collected
<1> HIDE DEF new, c, team
<1>8. /\ made[a] \in Nat /\ state[a].calls \in Nat /\ new.calls \in Nat /\ made[a] <= new.calls + 1
      /\ round[a] = 1 => new.calls <= 1 + 3 * MaxScouts
      /\ round[a] = 2 => new.calls <= 2 + 3 * (MaxScouts + Len(Cards))
      /\ round[a] \in 1..2
  <2>1. /\ made[a] \in Nat /\ made[a] <= state[a].calls + c + 1 /\ state[a].calls \in Nat
        /\ round[a] = 1 => state[a].calls <= 1 /\ Len(team) <= MaxScouts
        /\ round[a] = 2 => state[a].calls <= 2 + 3 * MaxScouts /\ Len(team) <= Len(Cards)
    BY <1>5 DEF CallsOk, StateOk, c
  <2>2. round[a] \in 1..2
    BY <1>5 DEF FoundOk
  <2>3. new.calls = state[a].calls + c
    BY <1>3
  <2>4. MaxScouts \in Nat /\ Len(Cards) \in Nat
    BY ScoutsAreBounded
  <2> DEFINE n == new.calls  b == state[a].calls  l == Len(team)  m == Len(Cards)
  <2>5. /\ made[a] \in Nat /\ b \in Nat /\ n = b + c /\ made[a] <= b + c + 1
        /\ l \in Nat /\ m \in Nat /\ c \in Nat /\ c <= 3 * l
    BY <1>6, <2>1, <2>3, <2>4
  <2>6. round[a] = 1 => b <= 1 /\ l <= MaxScouts
    BY <2>1
  <2>7. round[a] = 2 => b <= 2 + 3 * MaxScouts /\ l <= m
    BY <2>1
  <2> HIDE DEF n, b, l, m, found
  <2>8. round[a] = 1 => n <= 1 + 3 * MaxScouts
    BY <2>4, <2>5, <2>6
  <2>9. round[a] = 2 => n <= 2 + 3 * (MaxScouts + m)
    BY <2>4, <2>5, <2>7
  <2>10. n \in Nat /\ made[a] <= n + 1
    BY <2>5
  <2> QED
    BY <2>2, <2>5, <2>8, <2>9, <2>10 DEF n, b, m
<1>9. new.calls <= 3 + 3 * (MaxScouts + Len(Cards))
  BY <1>8, ScoutsAreBounded
<1>10. ASSUME NEW answer, NEW evidence, Returned(a, answer, evidence, new.calls),
              answer = "none" \/ (evidence = found /\ found # <<>>)
       PROVE  IInv'
  <2> DEFINE o == [answer |-> answer, evidence |-> evidence, calls |-> new.calls]
  <2>1. FunsInv' /\ OthersKeep(a)
    BY <1>1, <1>2, <1>10 DEF FunsInv, Returned, Closed, OthersKeep
  <2>2. out'[a] = o
    BY <1>1, <1>10 DEF FunsInv, Returned
  <2>3. answer # "none" =>
           \A i, j \in DOMAIN evidence : i < j =>
              /\ Source(evidence[i]) # Source(evidence[j])
              /\ ~Alike(Text(evidence[i]), Text(evidence[j]))
    BY <1>3, <1>10, ConsolidatedIsUnlike DEF StateOk
  <2>4. o.answer = answer /\ o.evidence = evidence /\ o.calls = new.calls
    OBVIOUS
  <2> HIDE DEF o, found
  <2>5. OutOk("done", o, made[a])
    BY <1>8, <1>9, <1>10, <2>3, <2>4 DEF OutOk
  <2>6. made' = made
    BY <1>2
  <2> QED
    BY <1>2, <1>8, <1>10, <2>1, <2>2, <2>5, <2>6, ClosedKeeps DEF Returned
<1>11. CASE /\ found # <<>> /\ phase' = [phase EXCEPT ![a] = "answering"]
            /\ state' = [state EXCEPT ![a] = [new EXCEPT !.found = found]]
            /\ scouts' = [scouts EXCEPT ![a] = NoScouts]
            /\ finished' = [finished EXCEPT ![a] = <<>>]
            /\ UNCHANGED <<intent, round, out, mem>>
  <2> DEFINE st == [new EXCEPT !.found = found]
  <2>1. FunsInv' /\ OthersKeep(a)
    BY <1>1, <1>2, <1>11 DEF FunsInv, OthersKeep
  <2>2. /\ phase'[a] = "answering" /\ state'[a] = st /\ scouts'[a] = <<>>
        /\ finished'[a] = <<>> /\ intent' = intent /\ round' = round /\ out' = out
        /\ mem' = mem
    BY <1>1, <1>11 DEF FunsInv, NoScouts
  <2>3. /\ StateOk(st) /\ st.calls = new.calls /\ st.evidence = new.evidence
        /\ st.found = found
    BY <1>3 DEF StateOk
  <2>4. TeamOk("answering", <<>>, <<>>)
    BY NothingYet DEF TeamOk
  <2>5. round[a] = 2 => IsPrefix(out[a].evidence, found)
    <3>1. PICK more : Listed(more) /\ new.evidence = state[a].evidence \o more
      BY <1>3
    <3>2. round[a] = 2 => out[a].evidence = Consolidated(state[a].evidence)
      BY <1>5 DEF FoundOk
    <3>3. Listed(state[a].evidence)
      BY <1>5 DEF StateOk
    <3>4. IsPrefix(Consolidated(state[a].evidence), Consolidated(state[a].evidence \o more))
      BY <3>1, <3>3, ConsolidatedGrows
    <3> QED
      BY <3>1, <3>2, <3>4
  <2>6. found = Consolidated(new.evidence)
    OBVIOUS
  <2> HIDE DEF st, found
  <2>7. CallsOk("answering", round[a], <<>>, st, made[a])
    BY <1>8, <2>3 DEF CallsOk
  <2>8. FoundOk("answering", round[a], st, out[a])
    BY <1>5, <1>8, <1>11, <2>3, <2>5, <2>6 DEF FoundOk
  <2>9. OutOk("answering", out[a], made[a])
    BY DEF OutOk
  <2>10. AskOk(a, "answering", intent[a], round[a], <<>>, <<>>, st, out[a], made[a], accepted)
    BY <2>3, <2>4, <2>7, <2>8, <2>9, NothingYet DEF AskOk
  <2> QED
    BY <1>2, <1>4, <2>1, <2>2, <2>10, OneAskAlone
<1> HIDE DEF found
<1> QED
  BY <1>7, <1>10, <1>11

-----------------------------------------------------------------------------
(***************************************************************************)
(* Every step keeps the invariant, and what follows.                       *)
(***************************************************************************)
LEMMA NextKeeps == IInv /\ [Next]_vars => IInv'
<1> SUFFICES ASSUME IInv, [Next]_vars
             PROVE  IInv'
  OBVIOUS
<1>1. CASE UNCHANGED vars
  BY <1>1 DEF vars, IInv, FunsInv, AskInv, RoutesInv
<1>2. ASSUME NEW a \in Asks, Advance(a)
      PROVE  IInv'
  <2>1. CASE QueryAnalysed(a)
    BY <2>1, QueryAnalysedKeeps
  <2>2. CASE Planned(a)
    BY <2>2, PlannedKeeps
  <2>3. ASSUME NEW k \in DOMAIN scouts[a], ScoutBegins(a, k)
        PROVE  IInv'
    BY <2>3, ScoutBeginsKeeps
  <2>4. ASSUME NEW k \in DOMAIN scouts[a], Verified(a, k)
        PROVE  IInv'
    BY <2>4, VerifiedKeeps
  <2>5. ASSUME NEW k \in DOMAIN scouts[a], Picked(a, k)
        PROVE  IInv'
    BY <2>5, PickedKeeps
  <2>6. ASSUME NEW k \in DOMAIN scouts[a], Beamed(a, k)
        PROVE  IInv'
    BY <2>6, BeamedKeeps
  <2>7. CASE Collected(a)
    BY <2>7, CollectedKeeps
  <2>8. CASE Synthesized(a)
    BY <2>8, SynthesizedKeeps
  <2> QED
    BY <1>2, <2>1, <2>2, <2>3, <2>4, <2>5, <2>6, <2>7, <2>8 DEF Advance
<1> QED
  BY <1>1, <1>2, StartKeeps, TakenKeeps DEF Next

LEMMA AlwaysIInv == Spec => []IInv
  BY InitHolds, NextKeeps, PTL DEF Spec

\* A scout that skips the model has read what an earlier verification let pass
\* for the same intent and nearly the same keywords, for any number of asks
\* that overlap, however they rewrite the file of the cache.
THEOREM HitsWereAcceptedAlways == Spec => []HitsWereAccepted
<1>1. IInv => HitsWereAccepted
  BY DEF IInv, AskInv, AskOk, HitsOk, HitsWereAccepted
<1> QED
  BY <1>1, AlwaysIInv, PTL

\* An answer has evidence without duplicates, and reports every request made
\* after the analysis of the query, but for a plan that fails, and no more than
\* its rounds allow, for any documents, plans and answers of the model.
THEOREM OutputAlwaysHolds == Spec => []OutputHolds
<1>1. IInv => OutputHolds
  BY Zenon DEF IInv, AskInv, AskOk, OutOk, OutputHolds
<1> QED
  BY <1>1, AlwaysIInv, PTL

LEMMA IsPrefixOfItself ==
    ASSUME NEW es, Listed(es)
    PROVE  IsPrefix(es, es) /\ IsPrefix(<<>>, es)
<1>1. Len(es) \in Nat
  BY ListedPlaces
<1>2. IsPrefix(es, es)
  BY <1>1 DEF IsPrefix
<1>3. IsPrefix(<<>>, es)
  BY <1>1, EmptyIsListed, PrefixByPlaces
<1> QED
  BY <1>2, <1>3

\* What a step does to the output of an ask that has not returned.
LEMMA StepKeepsEvidence ==
    ASSUME IInv, IInv', [Next]_vars, NEW a \in Asks, phase[a] # "done"
    PROVE  IsPrefix(out[a].evidence, out'[a].evidence)
<1>1. /\ FunsInv /\ StateOk(state[a])
      /\ FoundOk(phase[a], round[a], state[a], out[a])
  BY DEF IInv, AskInv, AskOk
<1>2. Listed(out[a].evidence)
  BY <1>1 DEF FoundOk
<1>3. out'[a] = out[a] => IsPrefix(out[a].evidence, out'[a].evidence)
  BY <1>2, IsPrefixOfItself
<1>4. CASE UNCHANGED vars
  BY <1>3, <1>4 DEF vars
<1>5. CASE Planned(a)
  <2>1. phase[a] = "planning"
    BY <1>5 DEF Planned
  <2>2. round[a] = 1
    BY <2>1 DEF IInv, AskInv, AskOk, CallsOk
  <2>3. out[a].evidence = <<>>
    BY <1>1, <2>1, <2>2 DEF FoundOk
  <2>4. ASSUME NEW calls, Returned(a, "none", <<>>, calls)
        PROVE  IsPrefix(out[a].evidence, out'[a].evidence)
    <3>1. out'[a].evidence = <<>>
      BY <1>1, <2>4 DEF FunsInv, Returned
    <3> QED
      BY <1>2, <2>3, <3>1, IsPrefixOfItself
  <2>5. CASE out' = out
    BY <1>3, <2>5
  <2> QED
    BY <1>5, <2>4, <2>5 DEF Planned
<1>6. CASE Synthesized(a)
  <2>1. phase[a] = "answering" /\ out'[a].evidence = state[a].found
    BY <1>1, <1>6 DEF FunsInv, Synthesized
  <2>2. state[a].found = Consolidated(state[a].evidence) /\ round[a] \in 1..2
    BY <1>1, <2>1 DEF FoundOk
  <2>3. Listed(state[a].found)
    BY <1>1, <2>2, ConsolidatedIsUnlike DEF StateOk
  <2>4. CASE round[a] = 1
    <3>1. out[a].evidence = <<>>
      BY <1>1, <2>1, <2>4 DEF FoundOk
    <3> QED
      BY <2>1, <2>3, <3>1, IsPrefixOfItself
  <2>5. CASE round[a] = 2
    BY <1>1, <2>1, <2>5 DEF FoundOk
  <2> QED
    BY <2>2, <2>4, <2>5
<1>7. CASE Collected(a)
  <2> DEFINE new == CollectedState(a)  found == Consolidated(new.evidence)
  <2>1. phase[a] = "searching" /\ \A k \in DOMAIN scouts[a] : scouts[a][k].stage \in Ended
    BY <1>7 DEF Collected
  <2>2. StateOk(new) /\ \E more : Listed(more) /\ new.evidence = state[a].evidence \o more
    BY <2>1, CollectedIsOk
  <2>3. \/ found = <<>> /\ Returned(a, "none", new.evidence, new.calls)
        \/ Returned(a, "locations", found, new.calls)
        \/ out' = out
    BY <1>7, Zenon DEF Collected
  <2> HIDE DEF new
  <2>4. Listed(new.evidence) /\ Listed(found)
    BY <2>2, ConsolidatedIsUnlike DEF StateOk
  <2>5. round[a] = 2 => /\ IsPrefix(out[a].evidence, found) /\ out[a].evidence # <<>>
                        /\ Listed(out[a].evidence)
    <3>1. PICK more : Listed(more) /\ new.evidence = state[a].evidence \o more
      BY <2>2
    <3>2. round[a] = 2 => /\ out[a].evidence = Consolidated(state[a].evidence)
                          /\ out[a].evidence # <<>> /\ Listed(out[a].evidence)
      BY <1>1, <2>1 DEF FoundOk
    <3>3. IsPrefix(Consolidated(state[a].evidence), Consolidated(state[a].evidence \o more))
      BY <1>1, <3>1, ConsolidatedGrows DEF StateOk
    <3> QED
      BY <3>1, <3>2, <3>3
  <2>6. round[a] = 2 => found # <<>>
    <3>1. ASSUME NEW es, Listed(es), IsPrefix(es, <<>>)
          PROVE  es = <<>>
      <4>1. Len(es) \in Nat /\ Len(es) <= 0
        BY <3>1, EmptyIsListed, ListedPlaces DEF IsPrefix
      <4>2. es \in Seq({es[i] : i \in DOMAIN es}) /\ Len(es) = 0
        BY <3>1, <4>1 DEF Listed
      <4> QED
        BY <4>2, EmptySeq
    <3> HIDE DEF found
    <3> QED
      BY <2>5, <3>1
  <2>7. round[a] = 1 => out[a].evidence = <<>>
    BY <1>1, <2>1 DEF FoundOk
  <2>8. round[a] \in 1..2
    BY <1>1 DEF FoundOk
  <2>9. ASSUME NEW answer, NEW evidence, NEW calls, Returned(a, answer, evidence, calls)
        PROVE  out'[a].evidence = evidence
    BY <1>1, <2>9 DEF FunsInv, Returned
  <2> HIDE DEF found
  <2>10. CASE found = <<>> /\ Returned(a, "none", new.evidence, new.calls)
    <3>1. out[a].evidence = <<>> /\ out'[a].evidence = new.evidence
      BY <2>6, <2>7, <2>8, <2>9, <2>10
    <3> QED
      BY <2>4, <3>1, IsPrefixOfItself
  <2>11. CASE Returned(a, "locations", found, new.calls)
    <3>1. out'[a].evidence = found
      BY <2>9, <2>11
    <3>2. CASE round[a] = 1
      <4>1. IsPrefix(<<>>, found)
        BY <2>4, IsPrefixOfItself
      <4> QED
        BY <2>7, <3>1, <3>2, <4>1
    <3>3. CASE round[a] = 2
      BY <2>5, <3>1, <3>3
    <3> QED
      BY <2>8, <3>2, <3>3
  <2>12. CASE out' = out
    BY <1>3, <2>12
  <2> QED
    BY <2>3, <2>10, <2>11, <2>12
<1>8. ASSUME NEW b \in Asks, Taken(b)
      PROVE  out'[a] = out[a]
  BY <1>1, <1>8 DEF FunsInv, Taken
<1>9. ASSUME NEW b \in Asks, b # a, Planned(b) \/ Synthesized(b) \/ Collected(b)
      PROVE  out'[a] = out[a]
  <2>1. CASE Planned(b)
    BY <1>1, <1>9, <2>1 DEF FunsInv, Planned, Returned
  <2>2. CASE Synthesized(b)
    BY <1>1, <1>9, <2>2 DEF FunsInv, Synthesized
  <2>3. CASE Collected(b)
    BY <1>1, <1>9, <2>3 DEF FunsInv, Collected, Returned
  <2> QED
    BY <1>9, <2>1, <2>2, <2>3
<1>10. ASSUME NEW b \in Asks, Start(b) \/ QueryAnalysed(b)
       PROVE  out'[a] = out[a]
  BY <1>10 DEF Start, QueryAnalysed
<1>11. ASSUME NEW b \in Asks, NEW k \in DOMAIN scouts[b],
              ScoutBegins(b, k) \/ Verified(b, k) \/ Picked(b, k) \/ Beamed(b, k)
       PROVE  out'[a] = out[a]
  <2>1. CASE ScoutBegins(b, k)
    BY <2>1 DEF ScoutBegins
  <2>2. CASE Verified(b, k)
    BY <2>2 DEF Verified
  <2>3. CASE Picked(b, k)
    BY <2>3 DEF Picked
  <2>4. CASE Beamed(b, k)
    BY <2>4 DEF Beamed
  <2> QED
    BY <1>11, <2>1, <2>2, <2>3, <2>4
<1> QED
  BY <1>3, <1>4, <1>5, <1>6, <1>7, <1>8, <1>9, <1>10, <1>11 DEF Next, Advance

\* The evidence of a second answer begins with that of the first, for any
\* scouts that find anything in any order.
THEOREM GapAlwaysKeepsEvidence == Spec => GapKeepsEvidence
<1>1. IInv /\ IInv' /\ [Next]_vars =>
         [\A a \in Asks : phase[a] # "done" =>
             IsPrefix(out[a].evidence, out'[a].evidence)]_vars
  BY StepKeepsEvidence
<1> QED
  BY <1>1, AlwaysIInv, PTL DEF Spec, GapKeepsEvidence
=============================================================================
