--------------------------- MODULE CrossGraphProofs ---------------------------
(***************************************************************************)
(* What a finished graph says of the documents it was built from, proved   *)
(* for any documents, topics and limits.                                   *)
(***************************************************************************)
EXTENDS CrossGraph, FiniteSetTheorems, FunctionTheorems, SequenceTheorems, TLAPS

\* The profiles and the lists of the keyword index.
KeywordMaps == {ExtractKeywords(topics) : topics \in Topics}
Profile == [doc : Doc, keywords : KeywordMaps]
Weights == UNION {{keywords[k] : k \in DOMAIN keywords} : keywords \in KeywordMaps}
Listing == [doc : Doc, weight : Weights]

\* A document is added once.
ProfileInv ==
    /\ profiles \in Seq(Profile)
    /\ \A i, j \in DOMAIN profiles : profiles[i].doc = profiles[j].doc => i = j

\* The first so many profiles are nodes, and what is kept of each is among
\* its heaviest keywords.
Done == Cardinality(DOMAIN tops)
NodesInv ==
    /\ IsFiniteSet(DOMAIN tops) /\ Done <= Len(profiles)
    /\ DOMAIN tops = {profiles[i].doc : i \in 1..Done}
    /\ \A i \in 1..Done :
          DOMAIN tops[profiles[i].doc] \in Heaviest(profiles[i].keywords)

\* The index lists exactly the keywords kept, with their weights, and the
\* documents in the order they were added in.
IndexInv ==
    /\ \A k \in DOMAIN byKeyword : byKeyword[k] \in Seq(Listing)
    /\ \A k \in DOMAIN byKeyword : \A i \in DOMAIN byKeyword[k] :
          LET e == byKeyword[k][i] IN
          e.doc \in DOMAIN tops /\ k \in DOMAIN tops[e.doc] /\ e.weight = tops[e.doc][k]
    /\ \A k \in DOMAIN byKeyword : \A i, j \in DOMAIN byKeyword[k] :
          byKeyword[k][i].doc = byKeyword[k][j].doc => i = j
    /\ \A k \in DOMAIN byKeyword : \A i, j \in DOMAIN byKeyword[k] :
          i < j => Place(byKeyword[k][i].doc) < Place(byKeyword[k][j].doc)
    /\ \A d \in DOMAIN tops : \A k \in DOMAIN tops[d] :
          k \in DOMAIN byKeyword /\ \E i \in DOMAIN byKeyword[k] : byKeyword[k][i].doc = d

\* The edges found, none cut off yet.
EdgesFound ==
    /\ DOMAIN edges \subseteq Added
    /\ \A a \in DOMAIN edges : \A e \in edges[a] :
          e.source = a /\ e.target \in Added /\ Says(e)
    /\ \A a \in DOMAIN edges : \A e, f \in edges[a] : e.target = f.target => e = f
    /\ \A a, b \in Added : Related(a, b) =>
          a \in DOMAIN edges /\ \E e \in edges[a] : e.target = b

PhaseInv ==
    /\ phase \in {"collect", "nodes", "edges", "trim", "done"}
    /\ phase = "collect" => tops = <<>> /\ byKeyword = <<>>
    /\ phase = "nodes" => Done < Len(profiles)
    /\ phase \in {"edges", "trim", "done"} => DOMAIN tops = Added
    /\ phase \in {"collect", "nodes", "edges"} => edges = <<>>
    /\ phase = "trim" => EdgesFound
    /\ phase = "done" => DOMAIN edges \subseteq Added /\ EdgesAreHeaviest

IInv == ProfileInv /\ NodesInv /\ IndexInv /\ PhaseInv

-----------------------------------------------------------------------------
(***************************************************************************)
(* What is kept of a profile, of a list, of a set of edges.                *)
(***************************************************************************)
LEMMA OneToOne ==
    ASSUME NEW S, NEW T, NEW f \in [S -> T], IsFiniteSet(S),
           \A x, y \in S : f[x] = f[y] => x = y,
           \A y \in T : \E x \in S : f[x] = y
    PROVE  IsFiniteSet(T) /\ Cardinality(T) = Cardinality(S)
<1>1. f \in Injection(S, T)
  BY Fun_IsInj
<1>2. f \in Surjection(S, T)
  BY Fun_IsSurj
<1> QED
  BY <1>1, <1>2, FS_Surjection

LEMMA KeywordsAreFinite ==
    ASSUME NEW p \in Profile
    PROVE  IsFiniteSet(DOMAIN p.keywords)
<1>1. PICK topics \in Topics : p.keywords = ExtractKeywords(topics)
  BY DEF Profile, KeywordMaps
<1>2. DOMAIN p.keywords = DOMAIN topics
  BY <1>1, Zenon DEF ExtractKeywords
<1> QED
  BY <1>2, TopicAssumption

LEMMA HeaviestAreKept ==
    ASSUME NEW keywords, IsFiniteSet(DOMAIN keywords), NEW top \in Heaviest(keywords)
    PROVE  /\ top \subseteq DOMAIN keywords /\ IsFiniteSet(top)
           /\ Cardinality(top) <= MaxKeywords
           /\ \A k \in top, l \in DOMAIN keywords \ top : keywords[k] >= keywords[l]
<1>1. Cardinality(DOMAIN keywords) \in Nat
  BY FS_CardinalityType
<1>2. /\ top \subseteq DOMAIN keywords
      /\ Cardinality(top) = IF Cardinality(DOMAIN keywords) < MaxKeywords
                            THEN Cardinality(DOMAIN keywords) ELSE MaxKeywords
      /\ \A k \in top, l \in DOMAIN keywords \ top : keywords[k] >= keywords[l]
  BY DEF Heaviest, kSubset
<1>3. IsFiniteSet(top)
  BY <1>2, FS_Subset
<1>4. Cardinality(top) <= MaxKeywords
  BY <1>1, <1>2, LimitAssumption
<1> QED
  BY <1>2, <1>3, <1>4

LEMMA KeptEdges ==
    ASSUME NEW S, IsFiniteSet(S), NEW T \in Trimmed(S)
    PROVE  /\ T \subseteq S /\ IsFiniteSet(T) /\ Cardinality(T) <= MaxEdges
           /\ T # S => Cardinality(T) = MaxEdges
           /\ \A e \in T, f \in S \ T : e.weight >= f.weight
<1>1. Cardinality(S) \in Nat
  BY FS_CardinalityType
<1>2. /\ T \subseteq S
      /\ Cardinality(T) = IF Cardinality(S) < MaxEdges THEN Cardinality(S) ELSE MaxEdges
      /\ \A e \in T, f \in S \ T : e.weight >= f.weight
  BY DEF Trimmed, kSubset
<1>3. IsFiniteSet(T) /\ (Cardinality(S) = Cardinality(T) => S = T)
  BY <1>2, FS_Subset
<1>4. Cardinality(T) <= MaxEdges /\ (T # S => Cardinality(T) = MaxEdges)
  BY <1>1, <1>2, <1>3, LimitAssumption
<1> QED
  BY <1>2, <1>3, <1>4

LEMMA Places ==
    ASSUME NEW S, NEW s \in Seq(S)
    PROVE  /\ DOMAIN s = 1..Len(s) /\ Len(s) \in Nat
           /\ IsFiniteSet(DOMAIN s) /\ Cardinality(DOMAIN s) = Len(s)
           /\ \A i \in DOMAIN s : s[i] \in S
<1>1. DOMAIN s = 1..Len(s) /\ Len(s) \in Nat
  BY LenProperties
<1>2. IsFiniteSet(1..Len(s)) /\ Cardinality(1..Len(s)) = IF 1 > Len(s) THEN 0 ELSE Len(s) - 1 + 1
  BY <1>1, FS_Interval
<1>3. Cardinality(DOMAIN s) = Len(s)
  BY <1>1, <1>2
<1>4. \A i \in DOMAIN s : s[i] \in S
  BY <1>1, ElementOfSeq
<1> QED
  BY <1>1, <1>2, <1>3, <1>4
-----------------------------------------------------------------------------
(***************************************************************************)
(* What a pair of documents shares, read off the index, is what their      *)
(* keywords have in common, and so is an edge.                             *)
(***************************************************************************)
LEMMA NodesAreKept ==
    ASSUME ProfileInv, NodesInv
    PROVE  \A i \in 1..Done :
              /\ i \in DOMAIN profiles /\ profiles[i].doc \in DOMAIN tops
              /\ IsFiniteSet(DOMAIN tops[profiles[i].doc])
              /\ Cardinality(DOMAIN tops[profiles[i].doc]) <= MaxKeywords
<1> SUFFICES ASSUME NEW i \in 1..Done
             PROVE  /\ i \in DOMAIN profiles /\ profiles[i].doc \in DOMAIN tops
                    /\ IsFiniteSet(DOMAIN tops[profiles[i].doc])
                    /\ Cardinality(DOMAIN tops[profiles[i].doc]) <= MaxKeywords
  OBVIOUS
<1>1. Done \in Nat /\ Done <= Len(profiles)
  BY FS_CardinalityType DEF NodesInv, Done
<1>2. DOMAIN profiles = 1..Len(profiles) /\ Len(profiles) \in Nat
  BY Places DEF ProfileInv
<1>3. i \in DOMAIN profiles
  BY <1>1, <1>2
<1>4. profiles[i] \in Profile
  BY <1>3, Places DEF ProfileInv
<1>5. IsFiniteSet(DOMAIN profiles[i].keywords)
  BY <1>4, KeywordsAreFinite
<1>6. DOMAIN tops[profiles[i].doc] \in Heaviest(profiles[i].keywords)
  BY DEF NodesInv
<1>7. profiles[i].doc \in DOMAIN tops
  BY DEF NodesInv
<1> QED
  BY <1>3, <1>5, <1>6, <1>7, HeaviestAreKept

LEMMA NodeIsFinite ==
    ASSUME ProfileInv, NodesInv, NEW a \in DOMAIN tops
    PROVE  IsFiniteSet(DOMAIN tops[a]) /\ a \in Doc
<1>1. PICK i \in 1..Done : a = profiles[i].doc
  BY DEF NodesInv
<1>2. i \in DOMAIN profiles /\ IsFiniteSet(DOMAIN tops[a])
  BY <1>1, NodesAreKept
<1>3. profiles[i] \in Profile
  BY <1>2, Places DEF ProfileInv
<1> QED
  BY <1>1, <1>2, <1>3 DEF Profile

LEMMA NothingSharedWithItself ==
    ASSUME ProfileInv, NodesInv, IndexInv, NEW a
    PROVE  SharedBy(a, a) = {}
<1>1. ASSUME NEW k \in DOMAIN byKeyword, NEW p \in EntryPairs(k),
             {byKeyword[k][p[1]].doc, byKeyword[k][p[2]].doc} = {a, a}
      PROVE  FALSE
  <2>1. p[1] \in DOMAIN byKeyword[k] /\ p[2] \in DOMAIN byKeyword[k] /\ p[1] < p[2]
    BY DEF EntryPairs
  <2>2. byKeyword[k][p[1]].doc = byKeyword[k][p[2]].doc
    BY <1>1
  <2>3. p[1] = p[2]
    BY <2>1, <2>2 DEF IndexInv
  <2>4. p[1] \in Nat
    BY <2>1, Places DEF IndexInv
  <2> QED
    BY <2>1, <2>3, <2>4
<1> QED
  BY <1>1 DEF SharedBy

\* Two entries of a keyword that are of these documents.
Pair(a, b, k, p) == {byKeyword[k][p[1]].doc, byKeyword[k][p[2]].doc} = {a, b}

LEMMA SharedMember ==
    ASSUME NEW a, NEW b, NEW s
    PROVE  s \in SharedBy(a, b) <=>
              \E k \in DOMAIN byKeyword : \E p \in EntryPairs(k) :
                 Pair(a, b, k, p) /\ s = SharedKeyword(k, p)
<1> DEFINE Shown(k) == {SharedKeyword(k, p) : p \in {p \in EntryPairs(k) : Pair(a, b, k, p)}}
<1>1. SharedBy(a, b) = UNION {Shown(k) : k \in DOMAIN byKeyword}
  BY Zenon DEF SharedBy, Pair, SharedKeyword
<1>2. \A k : s \in Shown(k) <=>
         \E p \in EntryPairs(k) : Pair(a, b, k, p) /\ s = SharedKeyword(k, p)
  BY Zenon
<1> HIDE DEF Shown
<1>3. s \in UNION {Shown(k) : k \in DOMAIN byKeyword} <=> \E k \in DOMAIN byKeyword : s \in Shown(k)
  BY Zenon
<1> QED
  BY <1>1, <1>2, <1>3

\* A set that names every keyword two documents have in common, once.
Shows(a, b, shared) ==
    /\ \A s \in shared :
          /\ s = [keyword |-> s.keyword, source |-> s.source, target |-> s.target]
          /\ s.keyword \in Common(a, b)
    /\ \A k \in Common(a, b) : \E s \in shared : s.keyword = k
    /\ \A s, t \in shared : s.keyword = t.keyword => s = t

LEMMA ShowsAll ==
    ASSUME NEW a, NEW b, NEW shared, Shows(a, b, shared), IsFiniteSet(Common(a, b))
    PROVE  /\ IsFiniteSet(shared) /\ Cardinality(shared) = Cardinality(Common(a, b))
           /\ {s.keyword : s \in shared} = Common(a, b)
<1> DEFINE f == [k \in Common(a, b) |-> CHOOSE s \in shared : s.keyword = k]
<1>1. \A k \in Common(a, b) : f[k] \in shared /\ f[k].keyword = k
  BY DEF Shows
<1>2. f \in [Common(a, b) -> shared]
  BY <1>1
<1>3. \A k, l \in Common(a, b) : f[k] = f[l] => k = l
  BY <1>1
<1>4. \A s \in shared : \E k \in Common(a, b) : f[k] = s
  BY <1>1 DEF Shows
<1> HIDE DEF f
<1>5. IsFiniteSet(shared) /\ Cardinality(shared) = Cardinality(Common(a, b))
  BY <1>2, <1>3, <1>4, OneToOne
<1>6. {s.keyword : s \in shared} = Common(a, b)
  BY DEF Shows
<1> QED
  BY <1>5, <1>6

LEMMA SharedIsCommon ==
    ASSUME ProfileInv, NodesInv, IndexInv,
           NEW a \in DOMAIN tops, NEW b \in DOMAIN tops, a # b
    PROVE  Shows(a, b, SharedBy(a, b))
<1>1. \A s : s \in SharedBy(a, b) <=>
                \E k \in DOMAIN byKeyword : \E p \in EntryPairs(k) : Pair(a, b, k, p) /\ s = SharedKeyword(k, p)
  BY SharedMember
<1>2. ASSUME NEW k \in DOMAIN byKeyword, NEW p \in EntryPairs(k), Pair(a, b, k, p)
      PROVE  k \in Common(a, b)
  <2>1. p[1] \in DOMAIN byKeyword[k] /\ p[2] \in DOMAIN byKeyword[k]
    BY DEF EntryPairs
  <2>2. \A i \in DOMAIN byKeyword[k] :
           byKeyword[k][i].doc \in DOMAIN tops /\ k \in DOMAIN tops[byKeyword[k][i].doc]
    BY DEF IndexInv
  <2>3. \/ byKeyword[k][p[1]].doc = a /\ byKeyword[k][p[2]].doc = b
        \/ byKeyword[k][p[1]].doc = b /\ byKeyword[k][p[2]].doc = a
    BY <1>2 DEF Pair
  <2> QED
    BY <2>1, <2>2, <2>3 DEF Common
<1>3. ASSUME NEW k \in DOMAIN byKeyword, NEW p \in EntryPairs(k), NEW q \in EntryPairs(k),
             Pair(a, b, k, p), Pair(a, b, k, q)
      PROVE  p[1] = q[1] /\ p[2] = q[2]
  <2>1. /\ p[1] \in DOMAIN byKeyword[k] /\ p[2] \in DOMAIN byKeyword[k] /\ p[1] < p[2]
        /\ q[1] \in DOMAIN byKeyword[k] /\ q[2] \in DOMAIN byKeyword[k] /\ q[1] < q[2]
    BY DEF EntryPairs
  <2>2. \/ byKeyword[k][p[1]].doc = byKeyword[k][q[1]].doc /\ byKeyword[k][p[2]].doc = byKeyword[k][q[2]].doc
        \/ byKeyword[k][p[1]].doc = byKeyword[k][q[2]].doc /\ byKeyword[k][p[2]].doc = byKeyword[k][q[1]].doc
    BY <1>3 DEF Pair
  <2>3. \A i, j \in DOMAIN byKeyword[k] : byKeyword[k][i].doc = byKeyword[k][j].doc => i = j
    BY DEF IndexInv
  <2>4. (p[1] = q[1] /\ p[2] = q[2]) \/ (p[1] = q[2] /\ p[2] = q[1])
    BY <2>1, <2>2, <2>3
  <2>5. p[1] \in Nat /\ p[2] \in Nat
    BY <2>1, Places DEF IndexInv
  <2> QED
    BY <2>1, <2>4, <2>5
<1>4. ASSUME NEW k \in Common(a, b)
      PROVE  \E s \in SharedBy(a, b) : s.keyword = k
  <2>1. k \in DOMAIN byKeyword
    BY DEF Common, IndexInv
  <2>2. PICK i \in DOMAIN byKeyword[k] : byKeyword[k][i].doc = a
    BY DEF Common, IndexInv
  <2>3. PICK j \in DOMAIN byKeyword[k] : byKeyword[k][j].doc = b
    BY DEF Common, IndexInv
  <2>4. i \in Nat /\ j \in Nat /\ i # j
    BY <2>1, <2>2, <2>3, Places DEF IndexInv
  <2>5. \E p \in EntryPairs(k) : Pair(a, b, k, p)
    <3>1. CASE i < j
      <4>1. <<i, j>> \in EntryPairs(k)
        BY <3>1 DEF EntryPairs
      <4>2. Pair(a, b, k, <<i, j>>)
        BY <2>2, <2>3 DEF Pair
      <4> QED
        BY <4>1, <4>2
    <3>2. CASE j < i
      <4>1. <<j, i>> \in EntryPairs(k)
        BY <3>2 DEF EntryPairs
      <4>2. Pair(a, b, k, <<j, i>>)
        BY <2>2, <2>3 DEF Pair
      <4> QED
        BY <4>1, <4>2
    <3> QED
      BY <2>4, <3>1, <3>2
  <2>6. PICK p \in EntryPairs(k) : Pair(a, b, k, p)
    BY <2>5
  <2>7. SharedKeyword(k, p) \in SharedBy(a, b)
    BY <1>1, <2>1, <2>6
  <2> QED
    BY <2>7 DEF SharedKeyword
<1>5. ASSUME NEW s \in SharedBy(a, b)
      PROVE  /\ s = [keyword |-> s.keyword, source |-> s.source, target |-> s.target]
             /\ s.keyword \in Common(a, b)
  <2>1. PICK k \in DOMAIN byKeyword : \E p \in EntryPairs(k) : Pair(a, b, k, p) /\ s = SharedKeyword(k, p)
    BY <1>1
  <2>2. PICK p \in EntryPairs(k) : Pair(a, b, k, p) /\ s = SharedKeyword(k, p)
    BY <2>1
  <2>3. /\ s.keyword = k /\ s.source = byKeyword[k][p[1]].weight
        /\ s.target = byKeyword[k][p[2]].weight
    BY <2>2 DEF SharedKeyword
  <2> QED
    BY <1>2, <2>2, <2>3 DEF SharedKeyword
<1>6. ASSUME NEW s \in SharedBy(a, b), NEW t \in SharedBy(a, b), s.keyword = t.keyword
      PROVE  s = t
  <2>1. PICK k \in DOMAIN byKeyword : \E p \in EntryPairs(k) : Pair(a, b, k, p) /\ s = SharedKeyword(k, p)
    BY <1>1
  <2>2. PICK p \in EntryPairs(k) : Pair(a, b, k, p) /\ s = SharedKeyword(k, p)
    BY <2>1
  <2>3. PICK l \in DOMAIN byKeyword : \E q \in EntryPairs(l) : Pair(a, b, l, q) /\ t = SharedKeyword(l, q)
    BY <1>1
  <2>4. PICK q \in EntryPairs(l) : Pair(a, b, l, q) /\ t = SharedKeyword(l, q)
    BY <2>3
  <2>5. k = l
    BY <1>6, <2>2, <2>4 DEF SharedKeyword
  <2>6. p[1] = q[1] /\ p[2] = q[2]
    BY <1>3, <2>2, <2>4, <2>5
  <2> QED
    BY <2>2, <2>4, <2>5, <2>6 DEF SharedKeyword
<1> QED
  BY <1>4, <1>5, <1>6 DEF Shows

LEMMA SwappedShows ==
    ASSUME NEW a, NEW b, NEW shared, Shows(a, b, shared)
    PROVE  Shows(b, a, Swapped(shared))
<1>1. Common(b, a) = Common(a, b)
  BY DEF Common
<1>2. ASSUME NEW t \in Swapped(shared)
      PROVE  /\ t = [keyword |-> t.keyword, source |-> t.source, target |-> t.target]
             /\ t.keyword \in Common(b, a)
  <2>1. PICK s \in shared :
           t = [keyword |-> s.keyword, source |-> s.target, target |-> s.source]
    BY DEF Swapped
  <2>2. s.keyword \in Common(a, b)
    BY DEF Shows
  <2> QED
    BY <1>1, <2>1, <2>2
<1>3. ASSUME NEW k \in Common(b, a)
      PROVE  \E t \in Swapped(shared) : t.keyword = k
  <2>1. PICK s \in shared : s.keyword = k
    BY <1>1 DEF Shows
  <2> DEFINE t == [keyword |-> s.keyword, source |-> s.target, target |-> s.source]
  <2>2. t \in Swapped(shared)
    BY DEF Swapped
  <2> QED
    BY <2>1, <2>2
<1>4. ASSUME NEW t \in Swapped(shared), NEW u \in Swapped(shared), t.keyword = u.keyword
      PROVE  t = u
  <2>1. PICK r \in shared :
           t = [keyword |-> r.keyword, source |-> r.target, target |-> r.source]
    BY DEF Swapped
  <2>2. PICK s \in shared :
           u = [keyword |-> s.keyword, source |-> s.target, target |-> s.source]
    BY DEF Swapped
  <2>3. r = s
    BY <1>4, <2>1, <2>2 DEF Shows
  <2> QED
    BY <2>1, <2>2, <2>3
<1> QED
  BY <1>2, <1>3, <1>4 DEF Shows

LEMMA CommonIsFinite ==
    ASSUME ProfileInv, NodesInv, NEW a \in DOMAIN tops, NEW b \in DOMAIN tops
    PROVE  /\ IsFiniteSet(Common(a, b)) /\ IsFiniteSet(Either(a, b))
           /\ Cardinality(Common(a, b)) \in Nat
           /\ (Common(a, b) = {} <=> Cardinality(Common(a, b)) = 0)
           /\ Cardinality(Either(a, b)) = Cardinality(DOMAIN tops[a])
                 + Cardinality(DOMAIN tops[b]) - Cardinality(Common(a, b))
<1>1. IsFiniteSet(DOMAIN tops[a]) /\ IsFiniteSet(DOMAIN tops[b])
  BY NodeIsFinite
<1>2. IsFiniteSet(Common(a, b))
  BY <1>1, FS_Intersection DEF Common
<1>3. /\ IsFiniteSet(Either(a, b))
      /\ Cardinality(Either(a, b)) = Cardinality(DOMAIN tops[a])
            + Cardinality(DOMAIN tops[b]) - Cardinality(Common(a, b))
  BY <1>1, FS_Union DEF Common, Either
<1>4. Cardinality(Common(a, b)) \in Nat
  BY <1>2, FS_CardinalityType
<1>5. Common(a, b) = {} <=> Cardinality(Common(a, b)) = 0
  BY <1>2, FS_EmptySet
<1> QED
  BY <1>2, <1>3, <1>4, <1>5

LEMMA EnoughIsRelated ==
    ASSUME ProfileInv, NodesInv, IndexInv, NEW a \in DOMAIN tops, NEW b \in DOMAIN tops
    PROVE  Enough(a, b) <=> Related(a, b)
<1>1. CASE a = b
  <2>1. SharedBy(a, b) = {}
    BY <1>1, NothingSharedWithItself
  <2>2. Cardinality(SharedBy(a, b)) = 0
    BY <2>1, FS_EmptySet
  <2> QED
    BY <1>1, <2>2 DEF Enough, Related
<1>2. CASE a # b
  <2>1. Shows(a, b, SharedBy(a, b))
    BY <1>2, SharedIsCommon
  <2>2. Cardinality(SharedBy(a, b)) = Cardinality(Common(a, b))
    BY <2>1, CommonIsFinite, ShowsAll
  <2>3. UnionSize(a, b, SharedBy(a, b)) = Cardinality(Either(a, b))
    BY <2>2, CommonIsFinite DEF UnionSize
  <2>4. Cardinality(SharedBy(a, b)) > 0 <=> Common(a, b) # {}
    BY <2>2, CommonIsFinite
  <2> QED
    BY <1>2, <2>2, <2>3, <2>4 DEF Enough, Related
<1> QED
  BY <1>1, <1>2

LEMMA EdgeSays ==
    ASSUME ProfileInv, NodesInv, NEW a \in DOMAIN tops, NEW b \in DOMAIN tops,
           Related(a, b), NEW shared, Shows(a, b, shared),
           \A s \in shared : Weighs(a, b, s)
    PROVE  Says(Edge(a, b, shared))
<1> DEFINE e == Edge(a, b, shared)
<1>1. /\ e.source = a /\ e.target = b /\ e.shared = shared
      /\ e.weight = EdgeWeight(Cardinality(shared), UnionSize(a, b, shared))
  BY DEF Edge
<1>2. /\ Cardinality(shared) = Cardinality(Common(a, b))
      /\ {s.keyword : s \in shared} = Common(a, b)
  BY CommonIsFinite, ShowsAll
<1>3. UnionSize(a, b, shared) = Cardinality(Either(a, b))
  BY <1>2, CommonIsFinite DEF UnionSize
<1>4. e.weight = WeightOf(a, b)
  BY <1>1, <1>2, <1>3 DEF WeightOf
<1> HIDE DEF e
<1>5. Says(e)
  BY <1>1, <1>2, <1>4 DEF Says
<1> QED
  BY <1>5 DEF e

\* The evidence of the edge from one document to another.
Evidence(a, b) == IF a <= b THEN SharedBy(a, b) ELSE Swapped(SharedBy(b, a))

LEMMA EvidenceShows ==
    ASSUME ProfileInv, NodesInv, IndexInv,
           NEW a \in DOMAIN tops, NEW b \in DOMAIN tops, a # b
    PROVE  Shows(a, b, Evidence(a, b))
<1>1. Shows(a, b, SharedBy(a, b)) /\ Shows(b, a, SharedBy(b, a))
  BY SharedIsCommon
<1>2. Shows(a, b, Swapped(SharedBy(b, a)))
  BY <1>1, SwappedShows
<1> QED
  BY <1>1, <1>2 DEF Evidence

\* The place of a document is that of its profile.
LEMMA PlaceIs ==
    ASSUME ProfileInv, NEW i \in DOMAIN profiles
    PROVE  Place(profiles[i].doc) = i
<1>1. \E j \in DOMAIN profiles : profiles[j].doc = profiles[i].doc
  OBVIOUS
<1>2. /\ Place(profiles[i].doc) \in DOMAIN profiles
      /\ profiles[Place(profiles[i].doc)].doc = profiles[i].doc
  BY <1>1 DEF Place
<1> QED
  BY <1>2 DEF ProfileInv

LEMMA PlaceOfNode ==
    ASSUME ProfileInv, NodesInv, NEW a \in DOMAIN tops
    PROVE  Place(a) \in Nat /\ Place(a) <= Done
<1>1. PICK i \in 1..Done : a = profiles[i].doc
  BY DEF NodesInv
<1>2. i \in DOMAIN profiles
  BY NodesAreKept
<1>3. Place(a) = i
  BY <1>1, <1>2, PlaceIs
<1>4. Done \in Nat
  BY FS_CardinalityType DEF NodesInv, Done
<1> QED
  BY <1>3, <1>4

\* What a pair shares has the weight in the one added first in front.
LEMMA SharedInOrder ==
    ASSUME ProfileInv, NodesInv, IndexInv,
           NEW a \in DOMAIN tops, NEW b \in DOMAIN tops, a # b, NEW s \in SharedBy(a, b)
    PROVE  \/ /\ Place(a) < Place(b)
              /\ s.source = tops[a][s.keyword] /\ s.target = tops[b][s.keyword]
           \/ /\ Place(b) < Place(a)
              /\ s.source = tops[b][s.keyword] /\ s.target = tops[a][s.keyword]
<1>1. PICK k \in DOMAIN byKeyword :
         \E p \in EntryPairs(k) : Pair(a, b, k, p) /\ s = SharedKeyword(k, p)
  BY SharedMember
<1>2. PICK p \in EntryPairs(k) : Pair(a, b, k, p) /\ s = SharedKeyword(k, p)
  BY <1>1
<1>3. p[1] \in DOMAIN byKeyword[k] /\ p[2] \in DOMAIN byKeyword[k] /\ p[1] < p[2]
  BY DEF EntryPairs
<1>4. Place(byKeyword[k][p[1]].doc) < Place(byKeyword[k][p[2]].doc)
  BY <1>3 DEF IndexInv
<1>5. /\ s.keyword = k
      /\ s.source = tops[byKeyword[k][p[1]].doc][k]
      /\ s.target = tops[byKeyword[k][p[2]].doc][k]
  BY <1>2, <1>3 DEF SharedKeyword, IndexInv
<1>6. \/ byKeyword[k][p[1]].doc = a /\ byKeyword[k][p[2]].doc = b
      \/ byKeyword[k][p[1]].doc = b /\ byKeyword[k][p[2]].doc = a
  BY <1>2 DEF Pair
<1> QED
  BY <1>4, <1>5, <1>6

\* The weights of an edge are in place if the documents were added in the
\* order of their ids, and exchanged if not.
LEMMA EvidenceWeighs ==
    ASSUME ProfileInv, NodesInv, IndexInv,
           NEW a \in DOMAIN tops, NEW b \in DOMAIN tops, a # b, NEW s \in Evidence(a, b)
    PROVE  Weighs(a, b, s)
<1>1. a \in Nat /\ b \in Nat /\ Place(a) \in Nat /\ Place(b) \in Nat
  BY NodeIsFinite, PlaceOfNode, DocAssumption
<1>2. CASE a <= b
  <2>1. s \in SharedBy(a, b) /\ a < b
    BY <1>1, <1>2 DEF Evidence
  <2>2. CASE Place(a) < Place(b)
    <3>1. InOrder(a, b)
      BY <2>1, <2>2 DEF InOrder
    <3>2. s.source = tops[a][s.keyword] /\ s.target = tops[b][s.keyword]
      BY <1>1, <2>1, <2>2, SharedInOrder
    <3> QED
      BY <3>1, <3>2 DEF Weighs
  <2>3. CASE ~(Place(a) < Place(b))
    <3>1. ~InOrder(a, b)
      BY <2>1, <2>3 DEF InOrder
    <3>2. s.source = tops[b][s.keyword] /\ s.target = tops[a][s.keyword]
      BY <2>1, <2>3, SharedInOrder
    <3> QED
      BY <3>1, <3>2 DEF Weighs
  <2> QED
    BY <2>2, <2>3
<1>3. CASE ~(a <= b)
  <2>1. s \in Swapped(SharedBy(b, a)) /\ ~(a < b)
    BY <1>1, <1>3 DEF Evidence
  <2>2. PICK t \in SharedBy(b, a) :
           s = [keyword |-> t.keyword, source |-> t.target, target |-> t.source]
    BY <2>1 DEF Swapped
  <2>3. s.keyword = t.keyword /\ s.source = t.target /\ s.target = t.source
    BY <2>2
  <2>4. CASE Place(a) < Place(b)
    <3>1. ~InOrder(a, b)
      BY <2>1, <2>4 DEF InOrder
    <3>2. t.source = tops[a][t.keyword] /\ t.target = tops[b][t.keyword]
      BY <1>1, <2>2, <2>4, SharedInOrder
    <3> QED
      BY <2>3, <3>1, <3>2 DEF Weighs
  <2>5. CASE ~(Place(a) < Place(b))
    <3>1. InOrder(a, b)
      BY <2>1, <2>5 DEF InOrder
    <3>2. t.source = tops[b][t.keyword] /\ t.target = tops[a][t.keyword]
      BY <2>2, <2>5, SharedInOrder
    <3> QED
      BY <2>3, <3>1, <3>2 DEF Weighs
  <2> QED
    BY <2>4, <2>5
<1> QED
  BY <1>2, <1>3

LEMMA AllEdgesAreOfRelated ==
    ASSUME ProfileInv, NodesInv, IndexInv, DOMAIN tops = Added, NEW e
    PROVE  e \in AllEdges <=>
              \E a, b \in Added : Related(a, b) /\ e = Edge(a, b, Evidence(a, b))
<1>1. Added \subseteq Nat
  BY NodeIsFinite, DocAssumption
<1>2. \A a, b \in Added : (Related(a, b) <=> Related(b, a)) /\ (Related(a, b) => a # b)
  BY DEF Related, Common, Either
<1>3. \A a, b \in Added : Enough(a, b) <=> Related(a, b)
  BY EnoughIsRelated
<1>4. e \in AllEdges <=>
         \E p \in RelatedPairs : \/ e = Edge(p[1], p[2], SharedBy(p[1], p[2]))
                                 \/ e = Edge(p[2], p[1], Swapped(SharedBy(p[1], p[2])))
  BY DEF AllEdges
<1>5. ASSUME e \in AllEdges
      PROVE  \E a, b \in Added : Related(a, b) /\ e = Edge(a, b, Evidence(a, b))
  <2>1. PICK p \in RelatedPairs : \/ e = Edge(p[1], p[2], SharedBy(p[1], p[2]))
                                  \/ e = Edge(p[2], p[1], Swapped(SharedBy(p[1], p[2])))
    BY <1>4, <1>5
  <2>2. p[1] \in Added /\ p[2] \in Added /\ p[1] <= p[2] /\ Enough(p[1], p[2])
    BY DEF RelatedPairs
  <2>3. /\ Related(p[1], p[2]) /\ Related(p[2], p[1])
        /\ p[1] \in Nat /\ p[2] \in Nat /\ p[1] # p[2]
    BY <1>1, <1>2, <1>3, <2>2
  <2>4. /\ Evidence(p[1], p[2]) = SharedBy(p[1], p[2])
        /\ Evidence(p[2], p[1]) = Swapped(SharedBy(p[1], p[2]))
    BY <2>2, <2>3 DEF Evidence
  <2> QED
    BY <2>1, <2>2, <2>3, <2>4
<1>6. ASSUME NEW a \in Added, NEW b \in Added, Related(a, b), e = Edge(a, b, Evidence(a, b))
      PROVE  e \in AllEdges
  <2>1. a \in Nat /\ b \in Nat /\ a # b /\ Enough(a, b) /\ Enough(b, a)
    BY <1>1, <1>2, <1>3, <1>6
  <2>2. CASE a <= b
    <3>1. <<a, b>> \in RelatedPairs
      BY <2>1, <2>2 DEF RelatedPairs
    <3> QED
      BY <1>4, <1>6, <2>2, <3>1 DEF Evidence
  <2>3. CASE ~(a <= b)
    <3>1. <<b, a>> \in RelatedPairs
      BY <2>1, <2>3 DEF RelatedPairs
    <3> QED
      BY <1>4, <1>6, <2>3, <3>1 DEF Evidence
  <2> QED
    BY <2>2, <2>3
<1> QED
  BY <1>5, <1>6

-----------------------------------------------------------------------------
(***************************************************************************)
(* The invariant, one lemma for each action.                               *)
(***************************************************************************)
LEMMA EmptyGraph ==
    ASSUME tops = <<>>, byKeyword = <<>>, profiles \in Seq(Profile)
    PROVE  NodesInv /\ IndexInv /\ Done = 0
<1>1. DOMAIN tops = {} /\ DOMAIN byKeyword = {}
  BY EmptySeq
<1>2. Done = 0 /\ IsFiniteSet(DOMAIN tops)
  BY <1>1, FS_EmptySet DEF Done
<1>3. Len(profiles) \in Nat /\ 1..Done = {}
  BY <1>2, Places
<1> QED
  BY <1>1, <1>2, <1>3 DEF NodesInv, IndexInv

LEMMA EmptyGraphNext ==
    ASSUME tops' = <<>>, byKeyword' = <<>>, profiles' \in Seq(Profile)
    PROVE  NodesInv' /\ IndexInv'
<1>1. DOMAIN tops' = {} /\ DOMAIN byKeyword' = {}
  BY EmptySeq
<1>2. Done' = 0 /\ IsFiniteSet(DOMAIN tops')
  BY <1>1, FS_EmptySet DEF Done
<1>3. Len(profiles') \in Nat /\ 1..Done' = {}
  BY <1>2, Places
<1> QED
  BY <1>1, <1>2, <1>3 DEF NodesInv, IndexInv

\* What only the documents and their nodes decide.
LEMMA GraphUnchanged ==
    ASSUME ProfileInv, NodesInv, IndexInv, UNCHANGED <<profiles, tops, byKeyword>>
    PROVE  /\ ProfileInv' /\ NodesInv' /\ IndexInv' /\ Done' = Done /\ Added' = Added
           /\ \A a, b : Related(a, b)' <=> Related(a, b)
           /\ \A a, b : WeightOf(a, b)' = WeightOf(a, b)
           /\ \A e : Says(e)' <=> Says(e)
<1>1. ProfileInv' /\ Done' = Done /\ Added' = Added
  BY DEF ProfileInv, Done, Added
<1>2. NodesInv'
  BY <1>1 DEF NodesInv
<1>4. \A a, b : Common(a, b)' = Common(a, b) /\ Either(a, b)' = Either(a, b)
  BY DEF Common, Either
<1>5. \A a, b : /\ Related(a, b)' <=> Related(a, b)
                /\ WeightOf(a, b)' = WeightOf(a, b)
  BY <1>4 DEF Related, WeightOf
<1>6. \A d : Place(d)' = Place(d)
  BY Zenon DEF Place
<1>7. IndexInv'
  BY <1>6 DEF IndexInv
<1>8. \A a, b, s : Weighs(a, b, s)' <=> Weighs(a, b, s)
  BY <1>6 DEF Weighs, InOrder
<1>9. \A e : Says(e)' <=> Says(e)
  BY <1>4, <1>5, <1>8 DEF Says
<1> QED
  BY <1>1, <1>2, <1>5, <1>7, <1>9

LEMMA InitHolds == Init => IInv
<1> SUFFICES ASSUME Init PROVE IInv
  OBVIOUS
<1> USE DEF Init
<1>1. profiles \in Seq(Profile) /\ DOMAIN profiles = {} /\ DOMAIN edges = {}
  BY EmptySeq
<1>2. NodesInv /\ IndexInv
  BY <1>1, EmptyGraph
<1> QED
  BY <1>1, <1>2 DEF IInv, ProfileInv, PhaseInv

LEMMA AddDocumentKeeps ==
    ASSUME IInv, NEW d \in Doc, NEW topics \in Topics, AddDocument(d, topics)
    PROVE  IInv'
<1> USE DEF AddDocument
<1> DEFINE p == [doc |-> d, keywords |-> ExtractKeywords(topics)]
<1>2. p \in Profile /\ p.doc = d
  BY DEF Profile, KeywordMaps
<1> HIDE DEF p
<1>3. profiles \in Seq(Profile) /\ profiles' = Append(profiles, p)
  BY DEF IInv, ProfileInv, p
<1>4. /\ profiles' \in Seq(Profile) /\ DOMAIN profiles' = DOMAIN profiles \cup {Len(profiles) + 1}
      /\ profiles'[Len(profiles) + 1] = p
      /\ \A i \in DOMAIN profiles : profiles'[i] = profiles[i] /\ i # Len(profiles) + 1
  BY <1>2, <1>3, Places, AppendProperties
<1>5. \A i \in DOMAIN profiles : profiles[i].doc # d
  BY DEF Added
<1>6. ProfileInv'
  BY <1>2, <1>4, <1>5 DEF IInv, ProfileInv
<1>7. tops' = <<>> /\ byKeyword' = <<>>
  BY DEF IInv, PhaseInv
<1>8. NodesInv' /\ IndexInv'
  BY <1>4, <1>7, EmptyGraphNext
<1> QED
  BY <1>6, <1>7, <1>8 DEF IInv, PhaseInv

LEMMA CollectedKeeps ==
    ASSUME IInv, Collected
    PROVE  IInv'
<1> USE DEF Collected
<1>1. /\ tops = <<>> /\ byKeyword = <<>> /\ edges = <<>> /\ profiles \in Seq(Profile)
      /\ ProfileInv /\ NodesInv /\ IndexInv
  BY DEF IInv, PhaseInv, ProfileInv
<1>2. Done = 0
  BY <1>1, EmptyGraph
<1>3. ProfileInv' /\ NodesInv' /\ IndexInv' /\ Done' = 0
  BY <1>1, <1>2, GraphUnchanged
<1>4. CASE profiles = <<>>
  <2>1. Added' = {} /\ DOMAIN tops' = {} /\ DOMAIN edges' = {}
    BY <1>1, <1>4, EmptySeq DEF Added
  <2>2. EdgesAreHeaviest'
    BY <2>1 DEF EdgesAreHeaviest
  <2> QED
    BY <1>1, <1>3, <1>4, <2>1, <2>2 DEF IInv, PhaseInv
<1>5. CASE profiles # <<>>
  <2>1. 0 < Len(profiles)
    BY <1>1, <1>5, EmptySeq, Places
  <2> QED
    BY <1>1, <1>3, <1>5, <2>1 DEF IInv, PhaseInv
<1> QED
  BY <1>4, <1>5

LEMMA NewBuilderKeeps ==
    ASSUME IInv, NewBuilder
    PROVE  IInv'
<1> USE DEF NewBuilder
<1>1. profiles' \in Seq(Profile) /\ DOMAIN profiles' = {}
  BY EmptySeq
<1>2. NodesInv' /\ IndexInv'
  BY <1>1, EmptyGraphNext
<1> QED
  BY <1>1, <1>2 DEF IInv, ProfileInv, PhaseInv

LEMMA ComputeEdgesKeeps ==
    ASSUME IInv, ComputeEdges
    PROVE  IInv'
<1> USE DEF ComputeEdges
<1>1. ProfileInv /\ NodesInv /\ IndexInv /\ DOMAIN tops = Added
  BY DEF IInv, PhaseInv
<1>2. ProfileInv' /\ NodesInv' /\ IndexInv' /\ DOMAIN tops' = Added'
  BY <1>1, GraphUnchanged
<1>3. \A e \in AllEdges :
         e.source \in Added /\ e.target \in Added /\ Says(e)
  <2> SUFFICES ASSUME NEW e \in AllEdges
               PROVE  e.source \in Added /\ e.target \in Added /\ Says(e)
    OBVIOUS
  <2>1. PICK a, b \in Added : Related(a, b) /\ e = Edge(a, b, Evidence(a, b))
    BY <1>1, AllEdgesAreOfRelated
  <2>2. Shows(a, b, Evidence(a, b))
    BY <1>1, <2>1, EvidenceShows DEF Related
  <2>3. \A s \in Evidence(a, b) : Weighs(a, b, s)
    BY <1>1, <2>1, EvidenceWeighs DEF Related
  <2>4. Says(e)
    BY <1>1, <2>1, <2>2, <2>3, EdgeSays
  <2> QED
    BY <2>1, <2>4 DEF Edge
<1>4. \A e, f \in AllEdges : e.source = f.source /\ e.target = f.target => e = f
  <2> SUFFICES ASSUME NEW e \in AllEdges, NEW f \in AllEdges,
                      e.source = f.source, e.target = f.target
               PROVE  e = f
    OBVIOUS
  <2>1. PICK a, b \in Added : Related(a, b) /\ e = Edge(a, b, Evidence(a, b))
    BY <1>1, AllEdgesAreOfRelated
  <2>2. PICK c, d \in Added : Related(c, d) /\ f = Edge(c, d, Evidence(c, d))
    BY <1>1, AllEdgesAreOfRelated
  <2>3. a = c /\ b = d
    BY <2>1, <2>2 DEF Edge
  <2> QED
    BY <2>1, <2>2, <2>3
<1>5. \A a, b \in Added : Related(a, b) =>
         \E e \in AllEdges : e.source = a /\ e.target = b
  <2> SUFFICES ASSUME NEW a \in Added, NEW b \in Added, Related(a, b)
               PROVE  \E e \in AllEdges : e.source = a /\ e.target = b
    OBVIOUS
  <2>1. Edge(a, b, Evidence(a, b)) \in AllEdges
    BY <1>1, AllEdgesAreOfRelated
  <2> QED
    BY <2>1 DEF Edge
<1>6. /\ DOMAIN edges' = {e.source : e \in AllEdges}
      /\ \A a \in DOMAIN edges' : edges'[a] = {e \in AllEdges : e.source = a}
  OBVIOUS
<1>7. /\ \A a, b : Related(a, b)' <=> Related(a, b)
      /\ \A e : Says(e)' <=> Says(e)
      /\ Added' = Added
  BY <1>1, GraphUnchanged
<1>8. DOMAIN edges' \subseteq Added
  BY <1>3, <1>6
<1>9. ASSUME NEW a \in DOMAIN edges', NEW e \in edges'[a]
      PROVE  e \in AllEdges /\ e.source = a /\ e.target \in Added /\ Says(e)
  BY <1>3, <1>6
<1>10. ASSUME NEW a \in Added, NEW b \in Added, Related(a, b)
       PROVE  a \in DOMAIN edges' /\ \E e \in edges'[a] : e.target = b
  <2>1. PICK e \in AllEdges : e.source = a /\ e.target = b
    BY <1>5, <1>10
  <2>2. a \in DOMAIN edges' /\ e \in edges'[a]
    BY <1>6, <2>1
  <2> QED
    BY <2>1, <2>2
<1>11. ASSUME NEW a \in DOMAIN edges', NEW e \in edges'[a], NEW f \in edges'[a],
              e.target = f.target
       PROVE  e = f
  BY <1>4, <1>9, <1>11
<1>12. EdgesFound'
  <2>1. \A a \in DOMAIN edges' : \A e \in edges'[a] :
           e.source = a /\ e.target \in Added' /\ Says(e)'
    BY <1>7, <1>9
  <2>2. \A a \in DOMAIN edges' : \A e, f \in edges'[a] : e.target = f.target => e = f
    BY <1>11
  <2>3. \A a, b \in Added' : Related(a, b)' =>
           a \in DOMAIN edges' /\ \E e \in edges'[a] : e.target = b
    <3> SUFFICES ASSUME NEW a \in Added', NEW b \in Added', Related(a, b)'
                 PROVE  a \in DOMAIN edges' /\ \E e \in edges'[a] : e.target = b
      OBVIOUS
    <3>1. a \in Added /\ b \in Added /\ Related(a, b)
      BY <1>7
    <3> QED
      BY <1>10, <3>1
  <2>4. DOMAIN edges' \subseteq Added'
    BY <1>7, <1>8
  <2> QED
    BY <2>1, <2>2, <2>3, <2>4 DEF EdgesFound
<1> QED
  BY <1>2, <1>12 DEF IInv, PhaseInv

LEMMA TrimEdgesKeeps ==
    ASSUME IInv, TrimEdges
    PROVE  IInv'
<1> USE DEF TrimEdges
<1>1. ProfileInv /\ NodesInv /\ IndexInv /\ DOMAIN tops = Added /\ EdgesFound
  BY DEF IInv, PhaseInv
<1>2. ProfileInv' /\ NodesInv' /\ IndexInv' /\ DOMAIN tops' = Added'
  BY <1>1, GraphUnchanged
<1>3. IsFiniteSet(Added)
  BY <1>1 DEF NodesInv
<1>4. /\ DOMAIN edges' = DOMAIN edges
      /\ \A a \in DOMAIN edges : edges'[a] \in Trimmed(edges[a])
  OBVIOUS
<1>5. \A a \in DOMAIN edges : IsFiniteSet(edges[a])
  <2> SUFFICES ASSUME NEW a \in DOMAIN edges
               PROVE  IsFiniteSet(edges[a])
    OBVIOUS
  <2> DEFINE f == [e \in edges[a] |-> e.target]
  <2>1. f \in [edges[a] -> Added]
    BY <1>1 DEF EdgesFound
  <2>2. \A e, g \in edges[a] : f[e] = f[g] => e = g
    BY <1>1 DEF EdgesFound
  <2>3. f \in Injection(edges[a], Added)
    BY <2>1, <2>2, Fun_IsInj
  <2> QED
    BY <1>3, <2>3, FS_Injection
<1>6. \A a \in DOMAIN edges :
         /\ edges'[a] \subseteq edges[a] /\ IsFiniteSet(edges'[a])
         /\ Cardinality(edges'[a]) <= MaxEdges
         /\ edges'[a] # edges[a] => Cardinality(edges'[a]) = MaxEdges
         /\ \A e \in edges'[a], g \in edges[a] \ edges'[a] : e.weight >= g.weight
  BY <1>4, <1>5, KeptEdges
<1>7. /\ \A a, b : Related(a, b)' <=> Related(a, b)
      /\ \A a, b : WeightOf(a, b)' = WeightOf(a, b)
      /\ \A e : Says(e)' <=> Says(e)
      /\ Added' = Added
  BY <1>1, GraphUnchanged
<1>8. \A a : Neighbors(a)' = IF a \in DOMAIN edges THEN edges'[a] ELSE {}
  BY <1>4 DEF Neighbors
<1>9. ASSUME NEW a \in Added
      PROVE  /\ (Cardinality(Neighbors(a)) <= MaxEdges)'
             /\ \A e \in Neighbors(a)' : Says(e)'
  <2>1. CASE a \in DOMAIN edges
    <3>1. Neighbors(a)' = edges'[a] /\ edges'[a] \subseteq edges[a]
      BY <1>6, <1>8, <2>1
    <3>2. \A e \in edges[a] : Says(e)
      BY <1>1, <2>1 DEF EdgesFound
    <3> QED
      BY <1>6, <1>7, <2>1, <3>1, <3>2
  <2>2. CASE a \notin DOMAIN edges
    <3>1. Neighbors(a)' = {}
      BY <1>8, <2>2
    <3>2. Cardinality({}) = 0
      BY FS_EmptySet
    <3> QED
      BY <3>1, <3>2, LimitAssumption
  <2> QED
    BY <2>1, <2>2
<1>10. ASSUME NEW a \in Added, NEW b \in Added, Related(a, b)
       PROVE  \/ (Cardinality(EdgesTo(a, b)) = 1)'
              \/ /\ (EdgesTo(a, b) = {} /\ Cardinality(Neighbors(a)) = MaxEdges)'
                 /\ \A e \in Neighbors(a)' : e.weight >= WeightOf(a, b)'
  <2>1. a \in DOMAIN edges /\ \E e \in edges[a] : e.target = b
    BY <1>1, <1>10 DEF EdgesFound
  <2>2. PICK e \in edges[a] : e.target = b
    BY <2>1
  <2>3. /\ e.source = a /\ Says(e)
        /\ \A f \in edges[a] : f.target = b => f = e
    BY <1>1, <2>1, <2>2 DEF EdgesFound
  <2>4. e.weight = WeightOf(a, b)'
    BY <1>7, <2>2, <2>3 DEF Says
  <2>5. Neighbors(a)' = edges'[a] /\ edges'[a] \subseteq edges[a]
    BY <1>6, <1>8, <2>1
  <2>6. EdgesTo(a, b)' = {f \in edges'[a] : f.target = b}
    BY <2>5 DEF EdgesTo
  <2>7. CASE e \in edges'[a]
    <3>1. EdgesTo(a, b)' = {e}
      BY <2>2, <2>3, <2>5, <2>6, <2>7
    <3> QED
      BY <3>1, FS_Singleton
  <2>8. CASE e \notin edges'[a]
    <3>1. EdgesTo(a, b)' = {}
      BY <2>3, <2>5, <2>6, <2>8
    <3>2. Cardinality(edges'[a]) = MaxEdges
      BY <1>6, <2>1, <2>8
    <3>3. \A f \in edges'[a] : f.weight >= e.weight
      BY <1>6, <2>1, <2>8
    <3> QED
      BY <2>4, <2>5, <3>1, <3>2, <3>3
  <2> QED
    BY <2>7, <2>8
<1>11. EdgesAreHeaviest'
  <2>1. \A a \in Added' : /\ (Cardinality(Neighbors(a)) <= MaxEdges)'
                          /\ \A e \in Neighbors(a)' : Says(e)'
    BY <1>7, <1>9
  <2>2. ASSUME NEW a \in Added', NEW b \in Added', Related(a, b)'
        PROVE  \/ (Cardinality(EdgesTo(a, b)) = 1)'
               \/ /\ (EdgesTo(a, b) = {} /\ Cardinality(Neighbors(a)) = MaxEdges)'
                  /\ \A e \in Neighbors(a)' : e.weight >= WeightOf(a, b)'
    <3>1. a \in Added /\ b \in Added /\ Related(a, b)
      BY <1>7, <2>2
    <3> QED
      BY <1>10, <3>1
  <2> QED
    BY <2>1, <2>2 DEF EdgesAreHeaviest
<1>12. (DOMAIN edges \subseteq Added)'
  BY <1>1, <1>4, <1>7 DEF EdgesFound
<1> QED
  BY <1>2, <1>11, <1>12 DEF IInv, PhaseInv

LEMMA AddNodeKeeps ==
    ASSUME IInv, AddNode
    PROVE  IInv'
<1> DEFINE n == Done  p == profiles[n + 1]
<1>1. /\ ProfileInv /\ NodesInv /\ IndexInv /\ phase = "nodes"
      /\ n < Len(profiles) /\ edges = <<>>
  BY DEF IInv, PhaseInv, AddNode
<1>2. /\ n \in Nat /\ Len(profiles) \in Nat /\ DOMAIN profiles = 1..Len(profiles)
      /\ n + 1 \in DOMAIN profiles /\ p \in Profile
  <2>1. n \in Nat
    BY <1>1, FS_CardinalityType DEF NodesInv, Done
  <2>2. Len(profiles) \in Nat /\ DOMAIN profiles = 1..Len(profiles)
    BY <1>1, Places DEF ProfileInv
  <2>3. n + 1 \in DOMAIN profiles
    BY <1>1, <2>1, <2>2
  <2> QED
    BY <1>1, <2>1, <2>2, <2>3, Places DEF ProfileInv
<1>3. PICK top \in Heaviest(p.keywords) :
         /\ tops' = Extend(tops, p.doc, Restrict(p.keywords, top))
         /\ byKeyword' = [k \in DOMAIN byKeyword \cup top |->
                         IF k \in top THEN Append(ListFor(byKeyword, k), Entry(p, k)) ELSE byKeyword[k]]
  BY DEF AddNode, Done
<1>4. /\ phase' = IF DOMAIN tops' = Added THEN "edges" ELSE "nodes"
      /\ profiles' = profiles /\ edges' = edges
  BY DEF AddNode
<1>5. top \subseteq DOMAIN p.keywords
  BY <1>2, KeywordsAreFinite, HeaviestAreKept
<1>6. \A i \in 1..n : i \in DOMAIN profiles /\ i # n + 1 /\ profiles[i].doc # p.doc
  BY <1>1, <1>2 DEF ProfileInv
<1>7. p.doc \notin DOMAIN tops
  BY <1>1, <1>6 DEF NodesInv
<1>8. /\ DOMAIN tops' = DOMAIN tops \cup {p.doc}
      /\ tops'[p.doc] = Restrict(p.keywords, top)
      /\ \A d \in DOMAIN tops : tops'[d] = tops[d]
  BY <1>3, <1>7 DEF Extend
<1>9. /\ DOMAIN tops'[p.doc] = top
      /\ \A k \in top : tops'[p.doc][k] = p.keywords[k]
  BY <1>8 DEF Restrict
<1>10. Done' = n + 1 /\ IsFiniteSet(DOMAIN tops')
  <2>1. IsFiniteSet(DOMAIN tops)
    BY <1>1 DEF NodesInv
  <2>2. /\ IsFiniteSet(DOMAIN tops \cup {p.doc})
        /\ Cardinality(DOMAIN tops \cup {p.doc}) = Cardinality(DOMAIN tops) + 1
    <3> HIDE DEF p
    <3> QED
      BY <1>7, <2>1, FS_AddElement
  <2> QED
    BY <1>8, <2>2 DEF Done
<1>11. ProfileInv' /\ Added' = Added
  BY <1>1, <1>4 DEF ProfileInv, Added
<1> HIDE DEF n
<1>12. NodesInv'
  <2>1. Done' <= Len(profiles')
    BY <1>1, <1>2, <1>4, <1>10
  <2>2. 1..Done' = (1..n) \cup {n + 1}
    BY <1>2, <1>10
  <2>3. DOMAIN tops = {profiles[i].doc : i \in 1..n}
    BY <1>1 DEF NodesInv, n
  <2>4. DOMAIN tops' = {profiles'[i].doc : i \in 1..Done'}
    BY <1>4, <1>8, <2>2, <2>3
  <2>5. ASSUME NEW i \in 1..Done'
        PROVE  DOMAIN tops'[profiles'[i].doc] \in Heaviest(profiles'[i].keywords)
    <3>1. CASE i = n + 1
      BY <1>3, <1>4, <1>9, <3>1
    <3>2. CASE i \in 1..n
      <4>1. DOMAIN tops[profiles[i].doc] \in Heaviest(profiles[i].keywords)
        BY <1>1, <3>2 DEF NodesInv, n
      <4>2. profiles[i].doc \in DOMAIN tops
        BY <2>3, <3>2
      <4> QED
        BY <1>4, <1>8, <4>1, <4>2
    <3> QED
      BY <2>2, <3>1, <3>2
  <2> QED
    BY <1>10, <2>1, <2>4, <2>5 DEF NodesInv
<1>13. IndexInv'
  <2> HIDE DEF p
  <2>1. \A k \in top : Entry(p, k) \in Listing /\ Entry(p, k).doc = p.doc
                       /\ Entry(p, k).weight = p.keywords[k]
    BY <1>2, <1>5 DEF Entry, Listing, Profile, Weights
  <2>2. \A k : ListFor(byKeyword, k) \in Seq(Listing)
    BY <1>1, EmptySeq DEF ListFor, IndexInv
  <2>3. /\ DOMAIN byKeyword' = DOMAIN byKeyword \cup top
        /\ \A k \in top : byKeyword'[k] = Append(ListFor(byKeyword, k), Entry(p, k))
        /\ \A k \in DOMAIN byKeyword \ top : byKeyword'[k] = byKeyword[k]
    BY <1>3
  <2>4. ASSUME NEW k \in DOMAIN byKeyword, NEW i \in DOMAIN byKeyword[k]
        PROVE  /\ byKeyword[k][i].doc \in DOMAIN tops /\ byKeyword[k][i].doc # p.doc
               /\ k \in DOMAIN tops'[byKeyword[k][i].doc]
               /\ byKeyword[k][i].weight = tops'[byKeyword[k][i].doc][k]
    <3>1. /\ byKeyword[k][i].doc \in DOMAIN tops /\ k \in DOMAIN tops[byKeyword[k][i].doc]
          /\ byKeyword[k][i].weight = tops[byKeyword[k][i].doc][k]
      BY <1>1 DEF IndexInv
    <3> QED
      BY <1>7, <1>8, <3>1
  <2>5. ASSUME NEW k \in top
        PROVE  /\ byKeyword'[k] \in Seq(Listing)
               /\ DOMAIN byKeyword'[k] = DOMAIN ListFor(byKeyword, k) \cup {Len(ListFor(byKeyword, k)) + 1}
               /\ byKeyword'[k][Len(ListFor(byKeyword, k)) + 1] = Entry(p, k)
               /\ \A i \in DOMAIN ListFor(byKeyword, k) :
                     byKeyword'[k][i] = ListFor(byKeyword, k)[i] /\ k \in DOMAIN byKeyword
                     /\ ListFor(byKeyword, k)[i] = byKeyword[k][i] /\ i \in DOMAIN byKeyword[k]
               /\ k \in DOMAIN byKeyword => ListFor(byKeyword, k) = byKeyword[k]
    <3>1. k \notin DOMAIN byKeyword => DOMAIN ListFor(byKeyword, k) = {}
      BY EmptySeq DEF ListFor
    <3>2. k \in DOMAIN byKeyword => ListFor(byKeyword, k) = byKeyword[k]
      BY DEF ListFor
    <3>3. /\ byKeyword'[k] \in Seq(Listing)
          /\ DOMAIN byKeyword'[k] = DOMAIN ListFor(byKeyword, k) \cup {Len(ListFor(byKeyword, k)) + 1}
          /\ byKeyword'[k][Len(ListFor(byKeyword, k)) + 1] = Entry(p, k)
          /\ \A i \in DOMAIN ListFor(byKeyword, k) : byKeyword'[k][i] = ListFor(byKeyword, k)[i]
      BY <2>1, <2>2, <2>3, Places, AppendProperties
    <3> QED
      BY <3>1, <3>2, <3>3
  <2>6. \A k \in DOMAIN byKeyword' : byKeyword'[k] \in Seq(Listing)
    BY <1>1, <2>3, <2>5 DEF IndexInv
  <2>7. ASSUME NEW k \in DOMAIN byKeyword', NEW i \in DOMAIN byKeyword'[k]
        PROVE  /\ byKeyword'[k][i].doc \in DOMAIN tops'
               /\ k \in DOMAIN tops'[byKeyword'[k][i].doc]
               /\ byKeyword'[k][i].weight = tops'[byKeyword'[k][i].doc][k]
    <3>1. CASE k \notin top
      <4>1. k \in DOMAIN byKeyword /\ byKeyword'[k] = byKeyword[k]
        BY <2>3, <3>1
      <4> QED
        BY <1>8, <2>4, <4>1
    <3>2. CASE k \in top /\ i \in DOMAIN ListFor(byKeyword, k)
      <4>1. k \in DOMAIN byKeyword /\ byKeyword'[k][i] = byKeyword[k][i] /\ i \in DOMAIN byKeyword[k]
        BY <2>5, <3>2
      <4> QED
        BY <1>8, <2>4, <4>1
    <3>3. CASE k \in top /\ i = Len(ListFor(byKeyword, k)) + 1
      <4>1. byKeyword'[k][i] = Entry(p, k)
        BY <2>5, <3>3
      <4> QED
        BY <1>8, <1>9, <2>1, <3>3, <4>1 DEF p
    <3> QED
      BY <2>5, <3>1, <3>2, <3>3
  <2>8. ASSUME NEW k \in DOMAIN byKeyword', NEW i \in DOMAIN byKeyword'[k], NEW j \in DOMAIN byKeyword'[k],
               byKeyword'[k][i].doc = byKeyword'[k][j].doc
        PROVE  i = j
    <3>1. k \in DOMAIN byKeyword =>
             \A x, y \in DOMAIN byKeyword[k] : byKeyword[k][x].doc = byKeyword[k][y].doc => x = y
      BY <1>1 DEF IndexInv
    <3>2. CASE k \notin top
      <4>1. k \in DOMAIN byKeyword /\ byKeyword'[k] = byKeyword[k]
        BY <2>3, <3>2
      <4> QED
        BY <2>8, <3>1, <4>1
    <3>3. CASE k \in top
      <4> DEFINE last == Len(ListFor(byKeyword, k)) + 1
      <4>1. \A x \in DOMAIN ListFor(byKeyword, k) :
               /\ k \in DOMAIN byKeyword /\ x \in DOMAIN byKeyword[k]
               /\ byKeyword'[k][x].doc = byKeyword[k][x].doc /\ byKeyword'[k][x].doc # p.doc
        BY <2>4, <2>5, <3>3
      <4>2. byKeyword'[k][last].doc = p.doc
        BY <2>1, <2>5, <3>3
      <4>3. DOMAIN byKeyword'[k] = DOMAIN ListFor(byKeyword, k) \cup {last}
        BY <2>5, <3>3
      <4> HIDE DEF last
      <4> QED
        BY <2>8, <3>1, <4>1, <4>2, <4>3
    <3> QED
      BY <3>2, <3>3
  <2>9. ASSUME NEW d \in DOMAIN tops', NEW k \in DOMAIN tops'[d]
        PROVE  k \in DOMAIN byKeyword' /\ \E i \in DOMAIN byKeyword'[k] : byKeyword'[k][i].doc = d
    <3>1. CASE d = p.doc
      <4>1. k \in top
        BY <1>9, <3>1 DEF p
      <4> QED
        BY <2>1, <2>3, <2>5, <3>1, <4>1
    <3>2. CASE d \in DOMAIN tops
      <4>1. k \in DOMAIN tops[d]
        BY <1>8, <3>2
      <4>2. k \in DOMAIN byKeyword /\ \E i \in DOMAIN byKeyword[k] : byKeyword[k][i].doc = d
        BY <1>1, <3>2, <4>1 DEF IndexInv
      <4>3. PICK i \in DOMAIN byKeyword[k] : byKeyword[k][i].doc = d
        BY <4>2
      <4>4. i \in DOMAIN byKeyword'[k] /\ byKeyword'[k][i].doc = d
        <5>1. CASE k \in top
          <6>1. ListFor(byKeyword, k) = byKeyword[k]
            BY <2>5, <4>2, <5>1
          <6> QED
            BY <2>5, <4>3, <5>1, <6>1
        <5>2. CASE k \notin top
          BY <2>3, <4>2, <4>3, <5>2
        <5> QED
          BY <5>1, <5>2
      <4> QED
        BY <2>3, <4>2, <4>4
    <3> QED
      BY <1>8, <3>1, <3>2 DEF p
  <2>10. ASSUME NEW k \in DOMAIN byKeyword', NEW i \in DOMAIN byKeyword'[k],
                NEW j \in DOMAIN byKeyword'[k], i < j
         PROVE  Place(byKeyword'[k][i].doc) < Place(byKeyword'[k][j].doc)
    <3>1. k \in DOMAIN byKeyword =>
             \A x, y \in DOMAIN byKeyword[k] :
                x < y => Place(byKeyword[k][x].doc) < Place(byKeyword[k][y].doc)
      BY <1>1 DEF IndexInv
    <3>2. CASE k \notin top
      <4>1. k \in DOMAIN byKeyword /\ byKeyword'[k] = byKeyword[k]
        BY <2>3, <3>2
      <4> QED
        BY <2>10, <3>1, <4>1
    <3>3. CASE k \in top
      <4> DEFINE m == Len(ListFor(byKeyword, k))
      <4>1. m \in Nat /\ DOMAIN ListFor(byKeyword, k) = 1..m
        BY <2>2, Places
      <4>2. i \in 1..m /\ j \in 1..(m + 1) /\ (j \in 1..m \/ j = m + 1)
        BY <2>5, <2>10, <3>3, <4>1
      <4>3. \A x \in 1..m :
               /\ k \in DOMAIN byKeyword /\ x \in DOMAIN byKeyword[k]
               /\ byKeyword'[k][x].doc = byKeyword[k][x].doc
        BY <2>5, <3>3, <4>1
      <4>4. byKeyword'[k][m + 1].doc = p.doc
        BY <2>1, <2>5, <3>3
      <4> HIDE DEF m
      <4>5. CASE j \in 1..m
        BY <2>10, <3>1, <4>2, <4>3, <4>5
      <4>6. CASE j = m + 1
        <5>1. byKeyword[k][i].doc \in DOMAIN tops
          BY <2>4, <4>2, <4>3
        <5>2. Place(byKeyword[k][i].doc) \in Nat /\ Place(byKeyword[k][i].doc) <= n
          BY <1>1, <5>1, PlaceOfNode DEF n
        <5>3. Place(p.doc) = n + 1
          BY <1>1, <1>2, PlaceIs DEF p
        <5>4. Place(byKeyword[k][i].doc) < Place(p.doc)
          BY <1>2, <5>2, <5>3
        <5> QED
          BY <4>2, <4>3, <4>4, <4>6, <5>4
      <4> QED
        BY <4>2, <4>5, <4>6
    <3> QED
      BY <3>2, <3>3
  <2>11. \A d : Place(d)' = Place(d)
    BY <1>4, Zenon DEF Place
  <2>12. (\A k \in DOMAIN byKeyword : \A i, j \in DOMAIN byKeyword[k] :
            i < j => Place(byKeyword[k][i].doc) < Place(byKeyword[k][j].doc))'
    BY <2>10, <2>11
  <2> QED
    BY <2>6, <2>7, <2>8, <2>9, <2>12 DEF IndexInv
<1>14. PhaseInv'
  <2>1. CASE DOMAIN tops' = Added
    BY <1>1, <1>4, <1>11, <2>1 DEF PhaseInv
  <2>2. CASE DOMAIN tops' # Added
    <3>1. DOMAIN tops' = {profiles[i].doc : i \in 1..(n + 1)}
      BY <1>4, <1>10, <1>12 DEF NodesInv
    <3>2. n + 1 # Len(profiles)
      BY <1>2, <2>2, <3>1 DEF Added
    <3>3. n + 1 < Len(profiles)
      <4> DEFINE m == Len(profiles)
      <4>1. n \in Nat /\ m \in Nat /\ n < m /\ n + 1 # m
        BY <1>1, <1>2, <3>2 DEF n
      <4> HIDE DEF m
      <4>2. n + 1 < m
        BY <4>1
      <4> QED
        BY <4>2 DEF m
    <3>4. Done' < Len(profiles')
      BY <1>4, <1>10, <3>3
    <3> QED
      BY <1>1, <1>4, <2>2, <3>4 DEF PhaseInv
  <2> QED
    BY <2>1, <2>2
<1> QED
  BY <1>11, <1>12, <1>13, <1>14 DEF IInv

THEOREM InvariantHolds == Spec => []IInv
<1>1. IInv /\ [Next]_vars => IInv'
  <2> SUFFICES ASSUME IInv, [Next]_vars PROVE IInv'
    OBVIOUS
  <2>1. CASE \E d \in Doc, topics \in Topics : AddDocument(d, topics)
    BY <2>1, AddDocumentKeeps
  <2>2. CASE Collected
    BY <2>2, CollectedKeeps
  <2>3. CASE AddNode
    BY <2>3, AddNodeKeeps
  <2>4. CASE ComputeEdges
    BY <2>4, ComputeEdgesKeeps
  <2>5. CASE TrimEdges
    BY <2>5, TrimEdgesKeeps
  <2>6. CASE NewBuilder
    BY <2>6, NewBuilderKeeps
  <2>7. CASE UNCHANGED vars
    <3>1. ProfileInv' /\ NodesInv' /\ IndexInv'
      BY <2>7, GraphUnchanged DEF IInv, vars
    <3>2. PhaseInv'
      <4>1. /\ \A a, b : Related(a, b)' <=> Related(a, b)
            /\ \A a, b : WeightOf(a, b)' = WeightOf(a, b)
            /\ \A e : Says(e)' <=> Says(e)
            /\ Added' = Added /\ Done' = Done
        BY <2>7, GraphUnchanged DEF IInv, vars
      <4>2. \A a : Neighbors(a)' = Neighbors(a)
        BY <2>7 DEF Neighbors, vars
      <4>3. \A a, b : EdgesTo(a, b)' = EdgesTo(a, b)
        BY <4>2 DEF EdgesTo
      <4>4. EdgesAreHeaviest' <=> EdgesAreHeaviest
        BY <4>1, <4>2, <4>3 DEF EdgesAreHeaviest
      <4>5. EdgesFound' <=> EdgesFound
        BY <2>7, <4>1 DEF EdgesFound, vars
      <4> QED
        BY <2>7, <4>1, <4>4, <4>5 DEF IInv, PhaseInv, vars
    <3> QED
      BY <3>1, <3>2 DEF IInv
  <2> QED
    BY <2>1, <2>2, <2>3, <2>4, <2>5, <2>6, <2>7 DEF Next
<1> QED
  BY <1>1, InitHolds, PTL DEF Spec

\* What is kept of a document is found in the index, and the index lists no
\* document twice.
LEMMA NodesKeepHeaviest ==
    ASSUME ProfileInv, NodesInv, IndexInv, DOMAIN tops = Added
    PROVE  KeptAreHeaviest
<1>1. ASSUME NEW i \in DOMAIN profiles
      PROVE  LET p == profiles[i] kept == DOMAIN tops[p.doc] IN
             /\ Cardinality(kept) <= MaxKeywords
             /\ \A k \in kept, l \in DOMAIN p.keywords \ kept : p.keywords[k] >= p.keywords[l]
             /\ \A k \in DOMAIN p.keywords :
                   k \in kept <=> p.doc \in {e.doc : e \in ToSet(FindByKeyword(k))}
  <2> DEFINE p == profiles[i]  kept == DOMAIN tops[p.doc]
  <2>1. p \in Profile /\ p.doc \in DOMAIN tops
    BY Places DEF ProfileInv, Added
  <2>2. kept \in Heaviest(p.keywords)
    <3>1. PICK j \in 1..Done : profiles[j].doc = p.doc
      BY <2>1 DEF NodesInv
    <3>2. j \in DOMAIN profiles
      BY NodesAreKept
    <3>3. j = i
      BY <3>1, <3>2 DEF ProfileInv
    <3> QED
      BY <3>3 DEF NodesInv
  <2>3. IsFiniteSet(DOMAIN p.keywords)
    BY <2>1, KeywordsAreFinite
  <2>4. ASSUME NEW k
        PROVE  k \in kept <=> p.doc \in {e.doc : e \in ToSet(FindByKeyword(k))}
    <3>1. CASE k \in DOMAIN byKeyword
      <4>1. FindByKeyword(k) = byKeyword[k]
        BY <3>1 DEF FindByKeyword, ListFor
      <4>2. ToSet(byKeyword[k]) = {byKeyword[k][x] : x \in DOMAIN byKeyword[k]}
        BY DEF ToSet
      <4>3. \A x \in DOMAIN byKeyword[k] : k \in DOMAIN tops[byKeyword[k][x].doc]
        BY <3>1 DEF IndexInv
      <4>4. k \in kept => \E x \in DOMAIN byKeyword[k] : byKeyword[k][x].doc = p.doc
        BY <2>1 DEF IndexInv
      <4> QED
        BY <4>1, <4>2, <4>3, <4>4
    <3>2. CASE k \notin DOMAIN byKeyword
      <4>1. FindByKeyword(k) = <<>> /\ ToSet(<<>>) = {}
        BY <3>2, EmptySeq DEF FindByKeyword, ListFor, ToSet
      <4>2. k \notin kept
        BY <2>1, <3>2 DEF IndexInv
      <4> QED
        BY <4>1, <4>2
    <3> QED
      BY <3>1, <3>2
  <2>5. /\ Cardinality(kept) <= MaxKeywords
        /\ \A k \in kept, l \in DOMAIN p.keywords \ kept : p.keywords[k] >= p.keywords[l]
    BY <2>2, <2>3, HeaviestAreKept
  <2> QED
    BY <2>4, <2>5
<1>2. ASSUME NEW k \in DOMAIN byKeyword
      PROVE  Len(byKeyword[k]) = Cardinality({e.doc : e \in ToSet(byKeyword[k])})
  <2> DEFINE Docs == {e.doc : e \in ToSet(byKeyword[k])}
             f == [i \in DOMAIN byKeyword[k] |-> byKeyword[k][i].doc]
  <2>1. IsFiniteSet(DOMAIN byKeyword[k]) /\ Cardinality(DOMAIN byKeyword[k]) = Len(byKeyword[k])
    BY Places DEF IndexInv
  <2>2. Docs = {byKeyword[k][i].doc : i \in DOMAIN byKeyword[k]}
    BY DEF ToSet
  <2>3. f \in [DOMAIN byKeyword[k] -> Docs]
    BY <2>2
  <2>4. \A i, j \in DOMAIN byKeyword[k] : f[i] = f[j] => i = j
    BY DEF IndexInv
  <2>5. \A d \in Docs : \E i \in DOMAIN byKeyword[k] : f[i] = d
    BY <2>2
  <2> HIDE DEF f, Docs
  <2>6. Cardinality(Docs) = Cardinality(DOMAIN byKeyword[k])
    BY <2>1, <2>3, <2>4, <2>5, OneToOne
  <2> QED
    BY <2>1, <2>6 DEF Docs
<1> QED
  BY <1>1, <1>2 DEF KeptAreHeaviest

\* What a finished graph says of two documents is what their keywords say,
\* and the weights of what they share are in place or exchanged by the order
\* they were loaded in (builder.rs, build, compute_edges, trim_edges;
\* types.rs, add_node).
THEOREM GraphAlwaysSaysWhatIsShared == Spec => []GraphSaysWhatIsShared
<1>1. IInv => GraphSaysWhatIsShared
  BY NodesKeepHeaviest DEF IInv, PhaseInv, GraphSaysWhatIsShared
<1> QED
  BY <1>1, InvariantHolds, PTL

=============================================================================
