--------------------------- MODULE PipelineProofs ---------------------------
(***************************************************************************)
(* Proofs about Pipeline, for any set of passes in any number of groups,   *)
(* any failure policies, and compiles that share or do not share an id;    *)
(* and about the documents that come of it (Documents, Navigator), for any *)
(* sources and edits: what is collected from them, the shape of their      *)
(* trees, that their text is found, and what a compile reuses of an        *)
(* earlier version.                                                        *)
(***************************************************************************)
EXTENDS Pipeline, Navigator, FiniteSetTheorems, FunctionTheorems, SequenceTheorems,
        WellFoundedInduction, TLAPS

\* Every set of natural numbers has a least one.
LEMMA LeastElement ==
    ASSUME NEW S \in SUBSET Nat, S # {}
    PROVE  \E m \in S : \A n \in S : m <= n
<1> DEFINE R == OpToRel(<, Nat)
<1>1. IsWellFoundedOn(R, Nat)
  BY NatLessThanWellFounded
<1>2. \A x, y \in Nat : y < x => <<y, x>> \in R
  BY DEF OpToRel
<1> HIDE DEF R
<1>3. PICK x \in S : \A y \in S : ~(<<y, x>> \in R)
  BY <1>1, WFMin
<1>4. \A y \in S : ~(y < x)
  BY <1>2, <1>3
<1> QED
  BY <1>3, <1>4

LEMMA MinOf ==
    ASSUME NEW S \in SUBSET Nat, S # {}
    PROVE  Min(S) \in S /\ \A x \in S : Min(S) <= x
<1>1. PICK m \in S : \A x \in S : m <= x
  BY LeastElement
<1>2. Min(S) \in S /\ \A x \in S : Min(S) <= x
  BY <1>1 DEF Min
<1>3. QED
  BY <1>2

(***************************************************************************)
(* The rounds of the topological sort.                                     *)
(***************************************************************************)
Count == Cardinality(Pass)

LEMMA CountType == Count \in Nat
BY OrderAssumption, FS_CardinalityType DEF Count

\* What every round keeps of the list: no pass twice, each after the passes
\* it depends on, and each the least of those that were ready at its place.
KahnOrder(s) ==
    /\ s \in Seq(Pass)
    /\ \A i, j \in 1..Len(s) : s[i] = s[j] => i = j
    /\ \A i \in 1..Len(s) : \A d \in Deps[s[i]] : \E j \in 1..(i - 1) : s[j] = d
    /\ \A i \in 1..Len(s) : \A q \in Pass :
          /\ \A k \in 1..i : s[k] # q
          /\ \A d \in Deps[q] : \E k \in 1..(i - 1) : s[k] = d
          => Prio[s[i]] <= Prio[q]

LEMMA LeastPriority ==
    ASSUME NEW R \in SUBSET Pass, R # {}
    PROVE  \E p \in R : \A q \in R : Prio[p] <= Prio[q]
<1> DEFINE Ps == {Prio[q] : q \in R}
<1>1. Ps \in SUBSET Nat /\ Ps # {}
  BY OrderAssumption
<1>2. PICK m \in Ps : \A n \in Ps : m <= n
  BY <1>1, LeastElement
<1>3. QED
  BY <1>2

LEMMA PopStep ==
    ASSUME NEW s, KahnOrder(s)
    PROVE  /\ KahnOrder(Pop(s))
           /\ Ready(ToSet(s)) = {} => Pop(s) = s
           /\ Ready(ToSet(s)) # {} => Len(Pop(s)) = Len(s) + 1
<1>1. CASE Ready(ToSet(s)) = {}
  BY <1>1 DEF Pop
<1>2. CASE Ready(ToSet(s)) # {}
  <2> DEFINE R == Ready(ToSet(s))
  <2> DEFINE p == CHOOSE r \in R : \A q \in R : Prio[r] <= Prio[q]
  <2> DEFINE t == Append(s, p)
  <2>1. R \in SUBSET Pass
    BY DEF Ready
  <2>2. p \in R /\ \A q \in R : Prio[p] <= Prio[q]
    BY <1>2, <2>1, LeastPriority
  <2>3. Pop(s) = t
    BY <1>2 DEF Pop
  <2> HIDE DEF R, p
  <2>4. ToSet(s) = {s[i] : i \in 1..Len(s)}
    BY DEF ToSet, KahnOrder
  <2>5. /\ p \in Pass
        /\ \A i \in 1..Len(s) : s[i] # p
        /\ \A d \in Deps[p] : \E j \in 1..Len(s) : s[j] = d
    BY <2>2, <2>4 DEF R, Ready
  <2>6. /\ t \in Seq(Pass) /\ Len(t) = Len(s) + 1 /\ Len(s) \in Nat
        /\ \A i \in 1..Len(s) : t[i] = s[i]
        /\ t[Len(s) + 1] = p
    BY <2>5, AppendProperties, LenProperties DEF KahnOrder
  <2> HIDE DEF t
  <2>7. \A i, j \in 1..Len(t) : t[i] = t[j] => i = j
    BY <2>5, <2>6 DEF KahnOrder
  <2>8. ASSUME NEW i \in 1..Len(t), NEW d \in Deps[t[i]]
        PROVE  \E j \in 1..(i - 1) : t[j] = d
    <3>1. CASE i = Len(s) + 1
      BY <2>5, <2>6, <3>1
    <3>2. CASE i \in 1..Len(s)
      <4>1. PICK j \in 1..(i - 1) : s[j] = d
        BY <2>6, <3>2 DEF KahnOrder
      <4>2. j \in 1..Len(s)
        BY <2>6, <3>2
      <4>3. QED
        BY <2>6, <4>1, <4>2
    <3>3. QED
      BY <2>6, <3>1, <3>2
  <2>9. ASSUME NEW i \in 1..Len(t), NEW q \in Pass,
               \A k \in 1..i : t[k] # q,
               \A d \in Deps[q] : \E k \in 1..(i - 1) : t[k] = d
        PROVE  Prio[t[i]] <= Prio[q]
    <3>1. CASE i = Len(s) + 1
      <4>1. \A k \in 1..Len(s) : s[k] # q
        BY <2>6, <2>9, <3>1
      <4>2. \A d \in Deps[q] : \E k \in 1..Len(s) : s[k] = d
        BY <2>6, <2>9, <3>1
      <4>3. q \in R
        BY <2>4, <4>1, <4>2 DEF R, Ready
      <4>4. QED
        BY <2>2, <2>6, <3>1, <4>3
    <3>2. CASE i \in 1..Len(s)
      <4>1. \A k \in 1..i : k \in 1..Len(s) /\ t[k] = s[k]
        BY <2>6, <3>2
      <4>2. \A k \in 1..(i - 1) : k \in 1..Len(s) /\ t[k] = s[k]
        BY <2>6, <3>2
      <4>3. \A d \in Deps[q] : \E k \in 1..(i - 1) : s[k] = d
        BY <2>9, <4>2
      <4>4. QED
        BY <2>6, <2>9, <3>2, <4>1, <4>3 DEF KahnOrder
    <3>3. QED
      BY <2>6, <3>1, <3>2
  <2>10. KahnOrder(t)
    BY <2>6, <2>7, <2>8, <2>9 DEF KahnOrder
  <2>11. QED
    BY <1>2, <2>3, <2>6, <2>10
<1>3. QED
  BY <1>1, <1>2

\* There is a function that does the rounds, so Popped is one.
LEMMA PoppedRounds ==
    /\ Popped[0] = << >>
    /\ \A n \in 1..Count : Popped[n] = Pop(Popped[n - 1])
<1> DEFINE Rounds(f, k) ==
      f = [n \in 0..k |-> IF n = 0 THEN << >> ELSE Pop(f[n - 1])]
<1> DEFINE Bad == {k \in Nat : ~\E f : Rounds(f, k)}
<1> HIDE DEF Rounds
<1>1. Bad = {}
  <2> SUFFICES ASSUME Bad # {} PROVE FALSE
    OBVIOUS
  <2>1. PICK k \in Bad : \A n \in Bad : k <= n
    BY LeastElement
  <2>2. k # 0
    <3> DEFINE f == [n \in 0..0 |-> << >>]
    <3>1. Rounds(f, 0)
      BY DEF Rounds
    <3>2. 0 \notin Bad
      BY <3>1
    <3>3. QED
      BY <2>1, <3>2
  <2>3. k - 1 \in Nat /\ k \in Nat /\ k - 1 \notin Bad
    BY <2>1, <2>2
  <2>4. PICK f : Rounds(f, k - 1)
    BY <2>3
  <2> DEFINE g == [n \in 0..k |-> IF n = k THEN Pop(f[k - 1]) ELSE f[n]]
  <2>5. \A n \in 0..(k - 1) : f[n] = IF n = 0 THEN << >> ELSE Pop(f[n - 1])
    BY <2>4 DEF Rounds
  <2>6. \A n \in 0..k : g[n] = IF n = 0 THEN << >> ELSE Pop(g[n - 1])
    <3> TAKE n \in 0..k
    <3>1. CASE n = k
      <4>1. k - 1 \in 0..k /\ k - 1 # k /\ k \in 0..k
        BY <2>3
      <4>2. g[k] = Pop(f[k - 1]) /\ g[k - 1] = f[k - 1]
        BY <4>1
      <4>3. QED
        BY <2>2, <3>1, <4>2
    <3>2. CASE n # k
      <4>1. n \in 0..(k - 1)
        BY <2>3, <3>2
      <4>2. g[n] = f[n]
        BY <3>2
      <4>3. n # 0 => n - 1 \in 0..k /\ n - 1 # k
        BY <2>3, <4>1
      <4>4. n # 0 => g[n - 1] = f[n - 1]
        BY <4>3
      <4>5. QED
        BY <2>5, <4>1, <4>2, <4>4
    <3>3. QED
      BY <3>1, <3>2
  <2>7. Rounds(g, k)
    <3> HIDE DEF g
    <3>1. g = [n \in 0..k |-> g[n]]
      BY DEF g
    <3>2. QED
      BY <2>6, <3>1 DEF Rounds
  <2>8. QED
    BY <2>1, <2>7
<1>2. Count \in Nat
  BY CountType
<1>3. \E f : Rounds(f, Count)
  BY <1>1, <1>2
<1>4. Rounds(Popped, Count)
  BY <1>3 DEF Popped, Count, Rounds
<1>5. QED
  BY <1>2, <1>4 DEF Rounds

LEMMA PoppedOrder ==
    ASSUME NEW n \in 0..Count
    PROVE  /\ KahnOrder(Popped[n])
           /\ Len(Popped[n]) = n \/ Ready(ToSet(Popped[n])) = {}
           /\ Len(Popped[n]) <= n
<1> DEFINE Good(k) == /\ KahnOrder(Popped[k])
                      /\ Len(Popped[k]) = k \/ Ready(ToSet(Popped[k])) = {}
                      /\ Len(Popped[k]) <= k
<1> DEFINE Bad == {k \in 0..Count : ~Good(k)}
<1> SUFFICES ASSUME Bad # {} PROVE FALSE
  OBVIOUS
<1>1. PICK k \in Bad : \A m \in Bad : k <= m
  <2>1. Bad \in SUBSET Nat
    BY CountType
  <2>2. QED
    BY <2>1, LeastElement
<1>2. k # 0
  <2>1. KahnOrder(<< >>) /\ Len(<< >>) = 0
    BY EmptySeq DEF KahnOrder
  <2>2. Good(0)
    BY <2>1, PoppedRounds
  <2>3. QED
    BY <1>1, <2>2
<1>3. k - 1 \in 0..Count /\ k \in 1..Count /\ ~(k <= k - 1)
  BY <1>1, <1>2, CountType
<1>4. Good(k - 1)
  BY <1>1, <1>3
<1>5. Popped[k] = Pop(Popped[k - 1])
  BY <1>3, PoppedRounds
<1>6. Len(Popped[k - 1]) \in Nat
  BY <1>4, LenProperties DEF KahnOrder
<1>7. Good(k)
  BY <1>3, <1>4, <1>5, <1>6, PopStep
<1>8. QED
  BY <1>1, <1>7

LEMMA ResolvedOrder ==
    /\ KahnOrder(Resolved)
    /\ Len(Resolved) \in Nat
    /\ Len(Resolved) = Count \/ Ready(ToSet(Resolved)) = {}
    /\ ToSet(Resolved) = {Resolved[i] : i \in 1..Len(Resolved)}
    /\ ToSet(Resolved) \subseteq Pass
    /\ Len(Resolved) = Count <=> ToSet(Resolved) = Pass
<1>1. /\ KahnOrder(Resolved)
      /\ Len(Resolved) = Count \/ Ready(ToSet(Resolved)) = {}
  BY CountType, PoppedOrder DEF Resolved, Count
<1> DEFINE s == Resolved
<1> HIDE DEF s
<1>2. KahnOrder(s) /\ s \in Seq(Pass) /\ Len(s) \in Nat
  BY <1>1, LenProperties DEF s, KahnOrder
<1>3. ToSet(s) = {s[i] : i \in 1..Len(s)} /\ ToSet(s) \subseteq Pass
  BY <1>2 DEF ToSet
<1>4. s \in Bijection(1..Len(s), ToSet(s))
  <2>1. s \in [1..Len(s) -> ToSet(s)]
    BY <1>2, <1>3
  <2>2. s \in Injection(1..Len(s), ToSet(s))
    BY <1>2, <2>1 DEF KahnOrder, Injection, IsInjective
  <2>3. s \in Surjection(1..Len(s), ToSet(s))
    BY <1>3, <2>1 DEF Surjection
  <2>4. QED
    BY <2>2, <2>3 DEF Bijection
<1>5. IsFiniteSet(1..Len(s)) /\ Cardinality(1..Len(s)) = Len(s)
  BY <1>2, FS_Interval
<1>6. Cardinality(ToSet(s)) = Len(s)
  <2>1. ExistsBijection(1..Len(s), ToSet(s))
    BY <1>4 DEF ExistsBijection
  <2>2. QED
    BY <1>5, <2>1, FS_Bijection
<1>7. Len(s) = Count => ToSet(s) = Pass
  BY <1>3, <1>6, OrderAssumption, FS_Subset DEF Count
<1>8. QED
  BY <1>1, <1>2, <1>3, <1>6, <1>7 DEF s, Count

(***************************************************************************)
(* When there is an order, and what it is.                                 *)
(***************************************************************************)
\* Some registered passes wait for each other.
Cyclic == \E S \in SUBSET Pass : S # {} /\ \A p \in S : Deps[p] \cap S # {}

\* resolve_order fails exactly for a dependency that is not registered or for
\* a cycle; no other set of passes is refused, and none of those accepted.
THEOREM OrderExists == Resolves <=> UnknownDeps = {} /\ ~Cyclic
<1>1. ASSUME Resolves, NEW S \in SUBSET Pass, S # {},
             \A p \in S : Deps[p] \cap S # {}
      PROVE  FALSE
  <2> DEFINE Is == {i \in 1..Len(Resolved) : Resolved[i] \in S}
  <2>1. Is \in SUBSET Nat
    OBVIOUS
  <2>2. Is # {}
    BY <1>1, ResolvedOrder DEF Resolves, Count
  <2>3. PICK i \in Is : \A j \in Is : i <= j
    BY <2>1, <2>2, LeastElement
  <2>4. PICK d \in Deps[Resolved[i]] : d \in S
    BY <1>1, <2>3
  <2>5. PICK j \in 1..(i - 1) : Resolved[j] = d
    BY <2>3, <2>4, ResolvedOrder DEF KahnOrder
  <2>6. j \in Is /\ ~(i <= j)
    BY <2>3, <2>4, <2>5, ResolvedOrder
  <2>7. QED
    BY <2>3, <2>6
<1>2. ASSUME UnknownDeps = {}, ~Cyclic, Ready(ToSet(Resolved)) = {}
      PROVE  ToSet(Resolved) = Pass
  <2> DEFINE S == Pass \ ToSet(Resolved)
  <2>1. \A p \in S : Deps[p] \subseteq Pass
    BY <1>2 DEF UnknownDeps
  <2>2. \A p \in S : ~(Deps[p] \subseteq ToSet(Resolved))
    BY <1>2 DEF Ready
  <2>3. \A p \in S : Deps[p] \cap S # {}
    BY <2>1, <2>2
  <2>4. S = {}
    BY <1>2, <2>3 DEF Cyclic
  <2>5. QED
    BY <2>4, ResolvedOrder
<1>3. QED
  BY <1>1, <1>2, ResolvedOrder DEF Resolves, Cyclic, Count

LEMMA PositionFacts ==
    ASSUME Resolves
    PROVE  /\ Position \in [Pass -> 1..Count]
           /\ \A p \in Pass : Resolved[Position[p]] = p
           /\ \A i \in 1..Count : Resolved[i] \in Pass /\ Position[Resolved[i]] = i
           /\ \A p \in Pass : \A d \in Deps[p] :
                d \in Pass /\ Position[d] < Position[p]
<1>0. /\ Len(Resolved) = Count /\ UnknownDeps = {}
      /\ Pass = {Resolved[i] : i \in 1..Count}
      /\ KahnOrder(Resolved)
  BY ResolvedOrder DEF Resolves, Count
<1>1. \A p \in Pass : Position[p] \in 1..Count /\ Resolved[Position[p]] = p
  BY <1>0 DEF Position
<1>2. \A i \in 1..Count : Resolved[i] \in Pass
  BY <1>0
<1>3. \A i \in 1..Count : Position[Resolved[i]] = i
  BY <1>0, <1>1, <1>2 DEF KahnOrder
<1>4. ASSUME NEW p \in Pass, NEW d \in Deps[p]
      PROVE  d \in Pass /\ Position[d] < Position[p]
  <2>1. PICK j \in 1..(Position[p] - 1) : Resolved[j] = d
    BY <1>0, <1>1 DEF KahnOrder
  <2>2. j \in 1..Count /\ j < Position[p]
    BY <1>1, <2>1, CountType
  <2>3. QED
    BY <1>2, <1>3, <2>1, <2>2
<1>5. QED
  BY <1>1, <1>2, <1>3, <1>4 DEF Position

\* The order is topological, and the one that priorities and registration
\* decide: a pass comes before another of lower priority value only if that
\* other depends on it or on a pass after it.
THEOREM OrderIsByPriority ==
    ASSUME Resolves
    PROVE  /\ \A p \in Pass : \A d \in Deps[p] : Position[d] < Position[p]
           /\ \A p, q \in Pass : Position[p] < Position[q] =>
                \/ Prio[p] < Prio[q]
                \/ \E d \in Deps[q] : Position[p] <= Position[d]
<1>1. ASSUME NEW p \in Pass, NEW q \in Pass, Position[p] < Position[q],
             ~\E d \in Deps[q] : Position[p] <= Position[d]
      PROVE  Prio[p] < Prio[q]
  <2> DEFINE i == Position[p]
  <2>1. i \in 1..Count /\ Position[q] \in 1..Count /\ Resolved[i] = p
    BY PositionFacts
  <2>2. Len(Resolved) = Count /\ KahnOrder(Resolved)
    BY ResolvedOrder DEF Resolves, Count
  <2>3. ASSUME NEW k \in 1..i
        PROVE  Resolved[k] # q
    <3>1. k \in 1..Count /\ k < Position[q]
      BY <1>1, <2>1, CountType
    <3>2. Position[Resolved[k]] = k
      BY <3>1, PositionFacts
    <3>3. QED
      BY <2>1, <3>1, <3>2
  <2>4. \A d \in Deps[q] : \E k \in 1..(i - 1) : Resolved[k] = d
    <3> TAKE d \in Deps[q]
    <3>1. d \in Pass /\ Position[d] \in 1..Count /\ Resolved[Position[d]] = d
      BY PositionFacts
    <3>2. Position[d] \in 1..(i - 1)
      BY <1>1, <2>1, <3>1
    <3>3. QED
      BY <3>1, <3>2
  <2>5. Prio[p] <= Prio[q]
    BY <2>1, <2>2, <2>3, <2>4 DEF KahnOrder
  <2>6. Prio[p] # Prio[q] /\ Prio[p] \in Nat /\ Prio[q] \in Nat
    BY <1>1, <2>1, OrderAssumption
  <2>7. QED
    BY <2>5, <2>6
<1>2. QED
  BY <1>1, PositionFacts

(***************************************************************************)
(* The levels.                                                             *)
(***************************************************************************)
LEMMA MaxOf ==
    ASSUME NEW S \in SUBSET Nat, S # {}, NEW b \in Nat, \A x \in S : x <= b
    PROVE  Max(S) \in S /\ \A x \in S : x <= Max(S)
<1> DEFINE U == {n \in Nat : \A x \in S : x <= n}
<1>1. PICK m \in U : \A n \in U : m <= n
  BY LeastElement
<1>2. m \in S
  <2> SUFFICES ASSUME m \notin S PROVE FALSE
    OBVIOUS
  <2>1. \A x \in S : x < m
    BY <1>1
  <2>2. m \in Nat /\ m # 0
    <3>1. PICK x \in S : TRUE
      OBVIOUS
    <3>2. x \in Nat /\ x < m /\ m \in Nat
      BY <2>1, <3>1
    <3>3. QED
      BY <3>2
  <2>3. m - 1 \in Nat /\ \A x \in S : x <= m - 1
    BY <2>1, <2>2
  <2>4. m - 1 \in U /\ ~(m <= m - 1)
    BY <2>2, <2>3
  <2>5. QED
    BY <1>1, <2>4
<1>3. m \in S /\ \A x \in S : m >= x
  BY <1>1, <1>2
<1>4. Max(S) \in S /\ \A x \in S : Max(S) >= x
  BY <1>3 DEF Max
<1>5. QED
  BY <1>4

\* The levels of the passes that the i-th depends on.
DepLevels(f, i) == {f[Position[d]] : d \in Deps[Resolved[i]]}

\* There is a function that assigns the levels, so LevelAt is one.
LEMMA LevelRounds ==
    ASSUME Resolves
    PROVE  \A i \in 1..Count :
             LevelAt[i] = IF Deps[Resolved[i]] = {} THEN 0
                          ELSE 1 + Max(DepLevels(LevelAt, i))
<1> DEFINE AtRound(f, i) == IF Deps[Resolved[i]] = {} THEN 0
                       ELSE 1 + Max(DepLevels(f, i))
<1> DEFINE Rounds(f, k) == f = [i \in 1..k |-> AtRound(f, i)]
<1> DEFINE Bad == {k \in 0..Count : ~\E f : Rounds(f, k)}
<1>0. /\ Count \in Nat
      /\ \A i \in 1..Count : \A d \in Deps[Resolved[i]] : Position[d] \in 1..(i - 1)
  <2>1. Count \in Nat
    BY CountType
  <2>2. ASSUME NEW i \in 1..Count, NEW d \in Deps[Resolved[i]]
        PROVE  Position[d] \in 1..(i - 1)
    <3>1. Resolved[i] \in Pass /\ Position[Resolved[i]] = i
      BY PositionFacts
    <3>2. d \in Pass /\ Position[d] < i
      BY <3>1, PositionFacts
    <3>3. Position[d] \in 1..Count
      BY <3>2, PositionFacts
    <3>4. QED
      BY <2>1, <3>2, <3>3
  <2>3. QED
    BY <2>1, <2>2
<1>1. ASSUME NEW f, NEW g, NEW i \in 1..Count,
             \A j \in 1..(i - 1) : f[j] = g[j]
      PROVE  AtRound(f, i) = AtRound(g, i)
  <2>1. \A d \in Deps[Resolved[i]] : f[Position[d]] = g[Position[d]]
    BY <1>0, <1>1
  <2>2. DepLevels(f, i) = DepLevels(g, i)
    BY <2>1 DEF DepLevels
  <2>3. QED
    BY <2>2
<1> HIDE DEF At, Rounds
<1>2. Bad = {}
  <2> SUFFICES ASSUME Bad # {} PROVE FALSE
    OBVIOUS
  <2>0. Bad \in SUBSET Nat
    OBVIOUS
  <2>1. PICK k \in Bad : \A n \in Bad : k <= n
    BY <2>0, LeastElement
  <2>2. k # 0
    <3> DEFINE f == [i \in 1..0 |-> 0]
    <3>1. Rounds(f, 0)
      BY DEF Rounds
    <3>2. 0 \notin Bad
      BY <3>1
    <3>3. QED
      BY <2>1, <3>2
  <2>3. k \in 1..Count /\ k - 1 \in 0..Count /\ ~(k <= k - 1)
    BY <1>0, <2>1, <2>2
  <2>4. PICK f : Rounds(f, k - 1)
    BY <2>1, <2>3
  <2> DEFINE g == [i \in 1..k |-> IF i = k THEN AtRound(f, k) ELSE f[i]]
  <2>5. \A i \in 1..(k - 1) : f[i] = AtRound(f, i)
    BY <2>4 DEF Rounds
  <2>6. \A i \in 1..(k - 1) : g[i] = f[i]
    BY <2>3
  <2>7. g[k] = AtRound(f, k)
    BY <2>3
  <2>8. g = [i \in 1..k |-> g[i]]
    OBVIOUS
  <2> HIDE DEF g
  <2>9. \A i \in 1..k : g[i] = AtRound(g, i)
    <3> TAKE i \in 1..k
    <3>1. i \in 1..Count /\ \A j \in 1..(i - 1) : j \in 1..(k - 1)
      BY <1>0, <2>3
    <3>2. \A j \in 1..(i - 1) : f[j] = g[j]
      BY <2>6, <3>1
    <3>3. AtRound(f, i) = AtRound(g, i)
      BY <1>1, <3>1, <3>2
    <3>4. i = k \/ i \in 1..(k - 1)
      BY <2>3
    <3>5. QED
      BY <2>5, <2>6, <2>7, <3>3, <3>4
  <2>10. Rounds(g, k)
    BY <2>8, <2>9 DEF Rounds
  <2>11. QED
    BY <2>1, <2>10
<1>3. PICK f : Rounds(f, Count)
  BY <1>0, <1>2
<1>4. Len(Resolved) = Count
  BY ResolvedOrder DEF Resolves, Count
<1>5. f = [i \in 1..Len(Resolved) |->
             LET deps == Deps[Resolved[i]]
             IN IF deps = {} THEN 0
                ELSE 1 + Max({f[Position[d]] : d \in deps})]
  BY <1>3, <1>4 DEF Rounds, At, DepLevels
<1>6. LevelAt = [i \in 1..Len(Resolved) |->
             LET deps == Deps[Resolved[i]]
             IN IF deps = {} THEN 0
                ELSE 1 + Max({LevelAt[Position[d]] : d \in deps})]
  BY <1>5 DEF LevelAt
<1>7. QED
  BY <1>4, <1>6 DEF DepLevels

LEMMA LevelAtBound ==
    ASSUME Resolves
    PROVE  \A i \in 1..Count :
             /\ LevelAt[i] \in 0..(i - 1)
             /\ \A d \in Deps[Resolved[i]] :
                  Position[d] \in 1..(i - 1) /\ LevelAt[Position[d]] < LevelAt[i]
             /\ LevelAt[i] # 0 =>
                  \E d \in Deps[Resolved[i]] : LevelAt[Position[d]] + 1 = LevelAt[i]
<1> DEFINE Good(i) ==
      /\ LevelAt[i] \in 0..(i - 1)
      /\ \A d \in Deps[Resolved[i]] :
           Position[d] \in 1..(i - 1) /\ LevelAt[Position[d]] < LevelAt[i]
      /\ LevelAt[i] # 0 =>
           \E d \in Deps[Resolved[i]] : LevelAt[Position[d]] + 1 = LevelAt[i]
<1> DEFINE Bad == {i \in 1..Count : ~Good(i)}
<1> SUFFICES ASSUME Bad # {} PROVE FALSE
  OBVIOUS
<1>0. Count \in Nat /\ Bad \in SUBSET Nat
  BY CountType
<1>1. PICK i \in Bad : \A n \in Bad : i <= n
  BY <1>0, LeastElement
<1>2. i \in 1..Count /\ \A j \in 1..(i - 1) : j \in 1..Count /\ Good(j)
  BY <1>0, <1>1
<1>3. \A d \in Deps[Resolved[i]] : Position[d] \in 1..(i - 1)
  <2> TAKE d \in Deps[Resolved[i]]
  <2>1. Resolved[i] \in Pass /\ Position[Resolved[i]] = i
    BY <1>2, PositionFacts
  <2>2. d \in Pass /\ Position[d] < i
    BY <2>1, PositionFacts
  <2>3. Position[d] \in 1..Count
    BY <2>2, PositionFacts
  <2>4. QED
    BY <1>0, <1>2, <2>2, <2>3
<1>4. CASE Deps[Resolved[i]] = {}
  <2>1. LevelAt[i] = 0
    BY <1>2, <1>4, LevelRounds
  <2>2. QED
    BY <1>1, <1>2, <1>4, <2>1
<1>5. CASE Deps[Resolved[i]] # {}
  <2> DEFINE S == DepLevels(LevelAt, i)
  <2>1. LevelAt[i] = 1 + Max(S)
    BY <1>2, <1>5, LevelRounds
  <2>2. S # {} /\ S \in SUBSET Nat /\ i - 2 \in Nat /\ \A x \in S : x <= i - 2
    <3>1. S # {}
      BY <1>5 DEF DepLevels
    <3>2. \A d \in Deps[Resolved[i]] : LevelAt[Position[d]] \in 0..(Position[d] - 1)
      BY <1>2, <1>3
    <3>3. \A d \in Deps[Resolved[i]] : LevelAt[Position[d]] \in 0..(i - 2)
      BY <1>2, <1>3, <3>2
    <3>4. S \subseteq 0..(i - 2)
      BY <3>3 DEF DepLevels
    <3>5. QED
      BY <1>2, <3>1, <3>4
  <2> HIDE DEF S
  <2>3. /\ Max(S) \in S /\ Max(S) \in Nat /\ Max(S) <= i - 2
        /\ \A x \in S : x \in Nat /\ x <= Max(S)
    BY <2>2, MaxOf
  <2> HIDE DEF Good
  <2>4. LevelAt[i] \in 0..(i - 1)
    BY <1>2, <2>1, <2>3
  <2>5. \A d \in Deps[Resolved[i]] : LevelAt[Position[d]] \in S
    BY DEF S, DepLevels
  <2>6. \A d \in Deps[Resolved[i]] : LevelAt[Position[d]] < LevelAt[i]
    BY <2>1, <2>3, <2>5
  <2>7. \E d \in Deps[Resolved[i]] : LevelAt[Position[d]] = Max(S)
    BY <2>3 DEF S, DepLevels
  <2>8. \E d \in Deps[Resolved[i]] : LevelAt[Position[d]] + 1 = LevelAt[i]
    BY <2>1, <2>3, <2>7
  <2>9. Good(i)
    BY <1>3, <2>4, <2>6, <2>8 DEF Good
  <2>10. QED
    BY <1>1, <2>9
<1>6. QED
  BY <1>4, <1>5

\* What compute_execution_groups promises: a pass is in a later group than
\* all it depends on, so that the passes of a group do not depend on each
\* other, directly or not, and in no later group than it has to be.
THEOREM LevelsAreTight ==
    ASSUME Resolves
    PROVE  /\ Level \in [Pass -> Nat]
           /\ \A p \in Pass : \A d \in Deps[p] : d \in Pass /\ Level[d] < Level[p]
           /\ \A p \in Pass : Level[p] # 0 =>
                \E d \in Deps[p] : Level[d] + 1 = Level[p]
<1>1. \A p \in Pass :
        /\ Position[p] \in 1..Count /\ Resolved[Position[p]] = p
        /\ Level[p] = LevelAt[Position[p]]
        /\ \A d \in Deps[p] : d \in Pass
  BY PositionFacts DEF Level
<1>2. \A p \in Pass : LevelAt[Position[p]] \in Nat
  BY <1>1, LevelAtBound, CountType
<1>3. ASSUME NEW p \in Pass
      PROVE  /\ \A d \in Deps[p] : d \in Pass /\ Level[d] < Level[p]
             /\ Level[p] # 0 => \E d \in Deps[p] : Level[d] + 1 = Level[p]
  <2>1. \A d \in Deps[p] : Level[d] = LevelAt[Position[d]]
    BY <1>1
  <2>2. \A d \in Deps[p] : LevelAt[Position[d]] < LevelAt[Position[p]]
    BY <1>1, LevelAtBound
  <2>3. LevelAt[Position[p]] # 0 =>
          \E d \in Deps[p] : LevelAt[Position[d]] + 1 = LevelAt[Position[p]]
    BY <1>1, LevelAtBound
  <2>4. QED
    BY <1>1, <2>1, <2>2, <2>3
<1>4. Level \in [Pass -> Nat]
  BY <1>1, <1>2 DEF Level
<1>5. QED
  BY <1>3, <1>4

\* The groups that the loop goes through have no gap before the last one.
LEMMA NoEmptyLevel ==
    ASSUME Resolves, NEW p \in Pass, NEW l \in 0..Level[p]
    PROVE  \E q \in Pass : Level[q] = l
<1> DEFINE Above == {n \in Nat : \E q \in Pass : Level[q] = l + n}
<1>1. Level[p] \in Nat /\ Level[p] - l \in Above
  BY LevelsAreTight
<1>2. PICK n \in Above : \A k \in Above : n <= k
  BY <1>1, LeastElement
<1>3. n = 0
  <2> SUFFICES ASSUME n # 0 PROVE FALSE
    OBVIOUS
  <2>1. PICK q \in Pass : Level[q] = l + n
    BY <1>2
  <2>2. Level[q] # 0
    BY <1>1, <1>2, <2>1
  <2>3. PICK d \in Deps[q] : Level[d] + 1 = Level[q]
    BY <2>2, LevelsAreTight
  <2>4. d \in Pass /\ Level[d] \in Nat
    BY <2>3, LevelsAreTight
  <2>5. n - 1 \in Nat /\ Level[d] = l + (n - 1)
    BY <1>1, <1>2, <2>1, <2>3, <2>4
  <2>6. n - 1 \in Above
    BY <2>4, <2>5
  <2>7. QED
    BY <1>2, <2>5, <2>6
<1>4. QED
  BY <1>1, <1>2, <1>3

Active == phase \in {"open", "running", "saving"}

\* Where the loop over the groups is.
LoopInv ==
    /\ Active \/ phase = "done" => Resolves
    /\ Active => run \in 1..MaxRuns /\ input \in Input
    /\ Active => \A p \in Pass : Level[p] < level => HasResult(p)
    /\ phase = "saving" => \A p \in Group(level) : HasResult(p)
    /\ phase = "done" => \A p \in Pass : HasResult(p)
    /\ phase = "running" =>
         \A p \in Pass : /\ Level[p] = level => ~HasResult(p)
                         /\ st[p] = "running" => Level[p] = level
    /\ phase \in {"open", "saving"} => \A p \in Pass : st[p] # "running"

\* A compile goes on only past failures that its policies allow.
FailureInv ==
    \A p \in Pass : results[p] = "failure" => p \in Optional

\* With a pass, all passes of its group and of the earlier ones have results.
ClosedInv ==
    Active => \A p, q \in Pass :
                HasResult(p) /\ Level[q] <= Level[p] => HasResult(q)

EditsMainTree(p) == OnMainContext(p) /\ "tree" \in Writes[p]

\* The tree of the main context, against the results.
TreeInv ==
    Active =>
        /\ \A p \in ctx["tree"] :
             \/ HasResult(p)
             \/ phase = "running" /\ p \in Group(level) /\ st[p] = "ok"
        /\ \A p \in Pass \ Optional :
             HasResult(p) /\ EditsMainTree(p) => p \in ctx["tree"]
        /\ phase = "running" =>
             \A p \in Group(level) :
                st[p] = "ok" /\ EditsMainTree(p) => p \in ctx["tree"]

IndInv ==
    /\ TypeOK
    /\ LoopInv
    /\ FailureInv
    /\ ClosedInv
    /\ TreeInv
    /\ CheckpointIsConsistent

(***************************************************************************)
(* The contexts.                                                           *)
(***************************************************************************)
LEMMA NoOutputType == NoOutput \in [Field -> SUBSET Pass]
BY DEF NoOutput

\* What execute leaves behind is again a context; its tree gains at most p.
LEMMA WrittenType ==
    ASSUME NEW p \in Pass, NEW c \in [Field -> SUBSET Pass]
    PROVE  /\ Written(p, c) \in [Field -> SUBSET Pass]
           /\ Written(p, c)["tree"] = IF "tree" \in Writes[p]
                                      THEN c["tree"] \cup {p} ELSE c["tree"]
BY FieldAssumption DEF Written

LEMMA ReaderContextType ==
    ASSUME TypeOK, NEW p \in Pass
    PROVE  ReaderContext(p) \in [Field -> SUBSET Pass]
<1> DEFINE clone == [NoOutput EXCEPT !["tree"] = snap]
<1>1. clone \in [Field -> SUBSET Pass]
  BY NoOutputType DEF TypeOK
<1>2. Written(p, clone) \in [Field -> SUBSET Pass]
  BY <1>1, WrittenType
<1>3. QED
  BY <1>1, <1>2 DEF ReaderContext

\* The merge leaves the tree of the main context alone.
LEMMA MergedContextType ==
    ASSUME TypeOK
    PROVE  /\ MergedContext \in [Field -> SUBSET Pass]
           /\ MergedContext["tree"] = ctx["tree"]
<1>1. \A f \in Field : MergedContext[f] \in SUBSET Pass
  <2> SUFFICES ASSUME NEW f \in Field
               PROVE  MergedContext[f] \subseteq Pass
    OBVIOUS
  <2>1. LastDeclaring(f) \subseteq Pass
    BY DEF LastDeclaring, Readers, Group
  <2>2. \A p \in Pass : ReaderContext(p)[f] \subseteq Pass
    BY ReaderContextType
  <2>3. UNION {ReaderContext(p)[f] : p \in LastDeclaring(f)} \subseteq Pass
    BY <2>1, <2>2
  <2>4. ctx[f] \subseteq Pass
    BY DEF TypeOK
  <2>5. QED
    BY <2>3, <2>4 DEF MergedContext
<1>2. MergedContext["tree"] = ctx["tree"]
  BY FieldAssumption DEF MergedContext
<1>3. QED
  BY <1>1, <1>2 DEF MergedContext

LEMMA SavedType ==
    ASSUME TypeOK, LoopInv, Active
    PROVE  /\ Saved \in [Ids -> Checkpoint \cup {None}]
           /\ DocId[run] \in Ids
           /\ \A i \in Ids : i # DocId[run] => Saved[i] = ckpts[i]
           /\ Saved[DocId[run]].done = {p \in Pass : HasResult(p)}
           /\ Saved[DocId[run]].data["tree"] = ctx["tree"]
<1> DEFINE data == [f \in Field |-> IF f \in Persisted THEN ctx[f] ELSE {}]
<1> DEFINE new == [input |-> input, done |-> {p \in Pass : HasResult(p)},
                   data |-> data]
<1>1. DocId[run] \in Ids
  BY DEF LoopInv, Ids
<1>2. data \in [Field -> SUBSET Pass]
  BY DEF TypeOK
<1>3. new \in Checkpoint
  BY <1>2 DEF Checkpoint, LoopInv
<1>4. Saved = [ckpts EXCEPT ![DocId[run]] = new]
  BY DEF Saved
<1>5. data["tree"] = ctx["tree"]
  BY FieldAssumption
<1> HIDE DEF data
<1>6. QED
  BY <1>1, <1>3, <1>4, <1>5 DEF TypeOK

(***************************************************************************)
(* The initial states.                                                     *)
(***************************************************************************)
LEMMA InitIndInv == Init => IndInv
<1> SUFFICES ASSUME Init PROVE IndInv
  OBVIOUS
<1> USE DEF Init
<1>1. TypeOK
  BY NoOutputType, RunAssumption, AttemptsAssumption
     DEF TypeOK, Waiting, NoTries, NoResults
<1>2. LoopInv /\ ClosedInv /\ TreeInv
  BY DEF LoopInv, ClosedInv, TreeInv, Active
<1>3. FailureInv
  BY DEF FailureInv, NoResults
<1>4. CheckpointIsConsistent
  BY DEF CheckpointIsConsistent
<1>5. QED
  BY <1>1, <1>2, <1>3, <1>4 DEF IndInv

(***************************************************************************)
(* Types.                                                                  *)
(***************************************************************************)
LEMMA TypeStep == TypeOK /\ LoopInv /\ [Next]_vars => TypeOK'
<1> SUFFICES ASSUME TypeOK, LoopInv, [Next]_vars
             PROVE  TypeOK'
  OBVIOUS
<1>1. ASSUME NEW i \in Input, Start(i)
      PROVE  TypeOK'
  <2> DEFINE saved == ckpts[DocId[run + 1]]
  <2>1. run + 1 \in 1..MaxRuns /\ run' \in 0..MaxRuns
    BY <1>1, RunAssumption DEF Start, TypeOK
  <2>2. saved \in Checkpoint \cup {None}
    BY <2>1 DEF TypeOK, Ids
  <2>3. ctx' \in [Field -> SUBSET Pass]
    BY <1>1, <2>2, NoOutputType DEF Start, ValidForResume, Checkpoint
  <2>4. QED
    BY <1>1, <2>1, <2>3, AttemptsAssumption
       DEF Start, TypeOK, Waiting, NoTries
<1>2. CASE Interrupt
  BY <1>2 DEF Interrupt, TypeOK
<1>3. CASE OpenGroup
  BY <1>3, FieldAssumption DEF OpenGroup, TypeOK
<1>4. CASE SkipGroup
  BY <1>4 DEF SkipGroup, TypeOK
<1>5. ASSUME NEW p \in Pass, PassSucceeds(p)
      PROVE  TypeOK'
  BY <1>5, WrittenType DEF PassSucceeds, TypeOK
<1>6. ASSUME NEW p \in Pass, PassFails(p)
      PROVE  TypeOK'
  BY <1>6, AttemptsAssumption DEF PassFails, TypeOK
<1>7. CASE GroupCompletes
  BY <1>7, MergedContextType DEF GroupCompletes, TypeOK
<1>8. CASE GroupFails
  BY <1>8, SavedType DEF GroupFails, TypeOK, Active
<1>9. CASE SaveCheckpoint
  BY <1>9, SavedType DEF SaveCheckpoint, TypeOK, Active
<1>10. CASE Finish
  BY <1>10 DEF Finish, TypeOK
<1>11. CASE UNCHANGED vars
  BY <1>11 DEF vars, TypeOK
<1>12. QED
  BY <1>1, <1>2, <1>3, <1>4, <1>5, <1>6, <1>7, <1>8, <1>9, <1>10, <1>11
     DEF Next, Progress

(***************************************************************************)
(* The loop.                                                               *)
(***************************************************************************)
LEMMA FailureStep == TypeOK /\ FailureInv /\ [Next]_vars => FailureInv'
<1> SUFFICES ASSUME TypeOK, FailureInv, [Next]_vars
             PROVE  FailureInv'
  OBVIOUS
<1>1. ASSUME NEW i \in Input, Start(i)
      PROVE  FailureInv'
  BY <1>1 DEF Start, FailureInv
<1>2. CASE GroupCompletes
  BY <1>2 DEF GroupCompletes, FailureInv, Blocked, Finished, Group
<1>3. CASE results' = results
  BY <1>3 DEF FailureInv
<1>4. QED
  BY <1>1, <1>2, <1>3
     DEF Next, Progress, Interrupt, OpenGroup, SkipGroup, PassSucceeds,
         PassFails, GroupFails, SaveCheckpoint, Finish, vars

\* A resumed compile starts with the results of whole groups.
LEMMA ClosedStep ==
    TypeOK /\ LoopInv /\ ClosedInv /\ CheckpointIsConsistent /\ [Next]_vars
        => ClosedInv'
<1> SUFFICES ASSUME TypeOK, LoopInv, ClosedInv, CheckpointIsConsistent,
                    [Next]_vars
             PROVE  ClosedInv'
  OBVIOUS
<1>1. ASSUME NEW i \in Input, Start(i)
      PROVE  ClosedInv'
  <2>1. DocId[run + 1] \in Ids
    BY <1>1, RunAssumption DEF Start, TypeOK, Ids
  <2>2. QED
    BY <1>1, <2>1
       DEF Start, ValidForResume, ClosedInv, HasResult, CheckpointIsConsistent
<1>2. CASE GroupCompletes
  <2>1. \A p \in Pass : HasResult(p)' <=> HasResult(p) \/ Level[p] = level
    BY <1>2 DEF GroupCompletes, HasResult, Group, TypeOK
  <2>2. \A p \in Pass : Level[p] < level => HasResult(p)
    BY <1>2 DEF GroupCompletes, LoopInv, Active
  <2>3. \A p, q \in Pass : Level[p] \in Nat /\ Level[q] \in Nat /\ level \in Nat
    BY <1>2, LevelsAreTight DEF TypeOK, LoopInv, Active, GroupCompletes
  <2>4. ASSUME NEW p \in Pass, NEW q \in Pass, HasResult(p)',
               Level[q] <= Level[p]
        PROVE  HasResult(q)'
    <3>1. CASE HasResult(p)
      BY <3>1, <2>1, <2>4, <1>2 DEF ClosedInv, Active, GroupCompletes
    <3>2. CASE Level[p] = level
      BY <3>2, <2>1, <2>2, <2>3, <2>4
    <3>3. QED
      BY <2>1, <2>4, <3>1, <3>2
  <2>5. QED
    BY <2>4 DEF ClosedInv
<1>3. CASE results' = results /\ (Active' => Active)
  BY <1>3 DEF ClosedInv, HasResult
<1>4. QED
  BY <1>1, <1>2, <1>3
     DEF Next, Progress, Interrupt, OpenGroup, SkipGroup, PassSucceeds,
         PassFails, GroupFails, SaveCheckpoint, Finish, vars, Active

LEMMA LoopStep ==
    TypeOK /\ LoopInv /\ ClosedInv /\ [Next]_vars => LoopInv'
<1> SUFFICES ASSUME TypeOK, LoopInv, ClosedInv, [Next]_vars
             PROVE  LoopInv'
  OBVIOUS
<1>0. level \in Nat /\ (Active => \A p \in Pass : Level[p] \in Nat)
  BY LevelsAreTight DEF TypeOK, LoopInv
<1>1. ASSUME NEW i \in Input, Start(i)
      PROVE  LoopInv'
  <2>1. run' \in 1..MaxRuns /\ input' \in Input
    BY <1>1, RunAssumption DEF Start, TypeOK
  <2>2. phase' = "open" => Resolves /\ \A p \in Pass : Level[p] \in Nat
    BY <1>1, LevelsAreTight DEF Start
  <2>3. phase' \in {"open", "failed"} /\ level' = 0 /\ st' = Waiting
    BY <1>1 DEF Start
  <2>4. QED
    BY <2>1, <2>2, <2>3 DEF LoopInv, Active, Waiting
<1>2. CASE Interrupt
  BY <1>2 DEF Interrupt, LoopInv, Active
<1>3. CASE OpenGroup
  <2>1. \A p \in Pass : Level[p] = level => ~HasResult(p)
    BY <1>0, <1>3 DEF OpenGroup, ClosedInv, Active, Group
  <2>2. QED
    BY <1>3, <2>1 DEF OpenGroup, LoopInv, Active, HasResult, Group, TypeOK
<1>4. CASE SkipGroup
  <2>1. \A p \in Pass : Level[p] < level + 1 => HasResult(p)
    BY <1>0, <1>4 DEF SkipGroup, LoopInv, Active, Group
  <2>2. QED
    BY <1>4, <2>1 DEF SkipGroup, LoopInv, Active, HasResult, Group
<1>5. ASSUME NEW p \in Pass, PassSucceeds(p)
      PROVE  LoopInv'
  BY <1>5 DEF PassSucceeds, LoopInv, Active, HasResult, TypeOK
<1>6. ASSUME NEW p \in Pass, PassFails(p)
      PROVE  LoopInv'
  BY <1>6 DEF PassFails, LoopInv, Active, HasResult, TypeOK
<1>7. CASE GroupCompletes
  <2>1. \A p \in Pass : HasResult(p)' <=> HasResult(p) \/ Level[p] = level
    BY <1>7 DEF GroupCompletes, HasResult, Group, TypeOK
  <2>2. \A p \in Pass : st'[p] # "running"
    BY <1>7 DEF GroupCompletes, Finished, LoopInv, Group
  <2>3. QED
    BY <1>7, <2>1, <2>2 DEF GroupCompletes, LoopInv, Active, Group
<1>8. CASE GroupFails
  BY <1>8 DEF GroupFails, LoopInv, Active
<1>9. CASE SaveCheckpoint
  <2>1. \A p \in Pass : Level[p] < level + 1 => HasResult(p)
    BY <1>0, <1>9 DEF SaveCheckpoint, LoopInv, Active, Group
  <2>2. QED
    BY <1>9, <2>1 DEF SaveCheckpoint, LoopInv, Active, HasResult
<1>10. CASE Finish
  <2>1. ASSUME NEW p \in Pass
        PROVE  Level[p] < level
    <3>1. Resolves /\ Level[p] \in Nat
      BY <1>0, <1>10 DEF Finish, LoopInv, Active
    <3>2. \A l \in 0..Level[p] : Group(l) # {}
      BY <3>1, NoEmptyLevel DEF Group
    <3>3. QED
      BY <1>0, <1>10, <3>1, <3>2 DEF Finish
  <2>2. QED
    BY <1>10, <2>1 DEF Finish, LoopInv, Active, HasResult
<1>11. CASE UNCHANGED vars
  BY <1>11 DEF vars, LoopInv, Active, HasResult
<1>12. QED
  BY <1>1, <1>2, <1>3, <1>4, <1>5, <1>6, <1>7, <1>8, <1>9, <1>10, <1>11
     DEF Next, Progress

(***************************************************************************)
(* The tree and the checkpoints.                                           *)
(***************************************************************************)
LEMMA TreeStep == IndInv /\ [Next]_vars => TreeInv'
<1> SUFFICES ASSUME IndInv, [Next]_vars
             PROVE  TreeInv'
  OBVIOUS
<1> USE DEF IndInv
<1>1. ASSUME NEW i \in Input, Start(i)
      PROVE  TreeInv'
  <2> DEFINE saved == ckpts[DocId[run + 1]]
  <2>1. DocId[run + 1] \in Ids
    BY <1>1, RunAssumption DEF Start, TypeOK, Ids
  <2>2. CASE ValidForResume(saved, i)
    <3>1. saved # None /\ ctx' = saved.data
      BY <1>1, <2>2 DEF Start, ValidForResume
    <3>2. \A p \in Pass : HasResult(p)' <=> p \in saved.done
      BY <1>1, <2>2 DEF Start, HasResult
    <3>3. saved.data["tree"] \subseteq saved.done /\ saved.done \subseteq Pass
      BY <2>1, <3>1 DEF CheckpointIsConsistent, TypeOK, Checkpoint
    <3>4. \A p \in saved.done \ Optional :
            EditsMainTree(p) => p \in saved.data["tree"]
      BY <2>1, <3>1 DEF CheckpointIsConsistent, EditsMainTree
    <3>5. phase' # "running"
      BY <1>1 DEF Start
    <3>6. QED
      BY <3>1, <3>2, <3>3, <3>4, <3>5 DEF TreeInv, EditsMainTree, OnMainContext
  <2>3. CASE ~ValidForResume(saved, i)
    BY <1>1, <2>3, FieldAssumption
       DEF Start, TreeInv, HasResult, NoOutput
  <2>4. QED
    BY <2>2, <2>3
<1>2. CASE OpenGroup
  BY <1>2 DEF OpenGroup, TreeInv, Active, HasResult, Group, TypeOK
<1>3. ASSUME NEW p \in Pass, PassSucceeds(p)
      PROVE  TreeInv'
  <2>1. ctx \in [Field -> SUBSET Pass]
    BY DEF TypeOK
  <2>2. ctx["tree"] \subseteq ctx'["tree"] /\ ctx'["tree"] \subseteq ctx["tree"] \cup {p}
    BY <1>3, <2>1, WrittenType DEF PassSucceeds
  <2>3. EditsMainTree(p) => p \in ctx'["tree"]
    BY <1>3, <2>1, WrittenType DEF PassSucceeds, EditsMainTree
  <2>4. \A q \in Pass : EditsMainTree(q)' <=> EditsMainTree(q)
    BY DEF EditsMainTree, OnMainContext
  <2>5. /\ phase = "running" /\ phase' = "running" /\ level' = level
        /\ st \in [Pass -> {"waiting", "running", "ok", "err"}]
        /\ st' = [st EXCEPT ![p] = "ok"]
        /\ \A q \in Pass : HasResult(q)' <=> HasResult(q)
    BY <1>3 DEF PassSucceeds, HasResult, TypeOK
  <2>6. p \in Group(level) /\ Group(level') = Group(level)
    BY <1>3, <2>5 DEF PassSucceeds, LoopInv, Group
  <2>7. \A q \in ctx'["tree"] : HasResult(q)' \/ (q \in Group(level) /\ st'[q] = "ok")
    BY <2>1, <2>2, <2>5, <2>6, FieldAssumption DEF TreeInv, Active, Group
  <2>8. \A q \in Pass \ Optional :
          HasResult(q)' /\ EditsMainTree(q) => q \in ctx'["tree"]
    BY <2>2, <2>5 DEF TreeInv, Active
  <2>9. \A q \in Group(level) :
          st'[q] = "ok" /\ EditsMainTree(q) => q \in ctx'["tree"]
    BY <2>2, <2>3, <2>5 DEF TreeInv, Active, Group
  <2>10. QED
    BY <2>4, <2>5, <2>6, <2>7, <2>8, <2>9 DEF TreeInv, Active, Group
<1>4. ASSUME NEW p \in Pass, PassFails(p)
      PROVE  TreeInv'
  <2>1. \A q \in Pass : st'[q] = "ok" <=> st[q] = "ok"
    BY <1>4 DEF PassFails, TypeOK
  <2>2. ctx \in [Field -> SUBSET Pass]
    BY DEF TypeOK
  <2>3. QED
    BY <1>4, <2>1, <2>2, FieldAssumption
       DEF PassFails, TreeInv, Active, HasResult, Group, EditsMainTree
<1>5. CASE GroupCompletes
  <2>1. \A p \in Pass : HasResult(p)' <=> HasResult(p) \/ Level[p] = level
    BY <1>5 DEF GroupCompletes, HasResult, Group, TypeOK
  <2>2. ctx'["tree"] = ctx["tree"] /\ ctx["tree"] \subseteq Pass
    BY <1>5, MergedContextType, FieldAssumption DEF GroupCompletes, TypeOK
  <2>3. \A p \in ctx["tree"] : HasResult(p)'
    BY <1>5, <2>1, <2>2 DEF GroupCompletes, TreeInv, Active, Group
  <2>4. \A p \in Group(level) \ Optional : st[p] = "ok"
    BY <1>5 DEF GroupCompletes, Finished, Blocked
  <2>5. QED
    BY <1>5, <2>1, <2>2, <2>3, <2>4
       DEF GroupCompletes, TreeInv, Active, Group, EditsMainTree
<1>6. CASE Interrupt \/ GroupFails \/ Finish
  BY <1>6 DEF Interrupt, GroupFails, Finish, TreeInv, Active
<1>7. CASE SkipGroup \/ SaveCheckpoint
  BY <1>7 DEF SkipGroup, SaveCheckpoint, TreeInv, Active, HasResult, EditsMainTree
<1>8. CASE UNCHANGED vars
  BY <1>8 DEF vars, TreeInv, Active, HasResult, Group, EditsMainTree
<1>9. QED
  BY <1>1, <1>2, <1>3, <1>4, <1>5, <1>6, <1>7, <1>8 DEF Next, Progress

\* What a save writes during a compile is a consistent cut, provided that no
\* pass of the current group has edited the tree without a result.
LEMMA SavedIsConsistent ==
    ASSUME IndInv, Active, \A p \in ctx["tree"] : HasResult(p),
           ckpts' \in {ckpts, Saved}
    PROVE  CheckpointIsConsistent'
<1> USE DEF IndInv
<1>1. CASE ckpts' = ckpts
  BY <1>1 DEF CheckpointIsConsistent, OnMainContext
<1>2. CASE ckpts' = Saved
  <2>1. ASSUME NEW i \in Ids, i # DocId[run], ckpts'[i] # None
        PROVE  ckpts'[i] = ckpts[i]
    BY <1>2, <2>1, SavedType
  <2>2. ckpts'[DocId[run]].done = {p \in Pass : HasResult(p)}
    BY <1>2, SavedType
  <2>3. ckpts'[DocId[run]].data["tree"] = ctx["tree"] /\ ctx["tree"] \subseteq Pass
    BY <1>2, SavedType, FieldAssumption DEF TypeOK
  <2>4. \A p, q \in Pass :
          HasResult(p) /\ Level[q] <= Level[p] => HasResult(q)
    BY DEF ClosedInv
  <2>5. \A p \in Pass \ Optional :
          HasResult(p) /\ OnMainContext(p) /\ "tree" \in Writes[p]
            => p \in ctx["tree"]
    BY DEF TreeInv, EditsMainTree
  <2>6. QED
    BY <2>1, <2>2, <2>3, <2>4, <2>5 DEF CheckpointIsConsistent, OnMainContext
<1>3. QED
  BY <1>1, <1>2

LEMMA CheckpointStep == IndInv /\ [Next]_vars => CheckpointIsConsistent'
<1> SUFFICES ASSUME IndInv, [Next]_vars
             PROVE  CheckpointIsConsistent'
  OBVIOUS
<1> USE DEF IndInv
<1>1. CASE GroupFails
  <2>1. CASE Parallel(level)
    BY <1>1, <2>1 DEF GroupFails, CheckpointIsConsistent, OnMainContext
  <2>2. CASE ~Parallel(level)
    <3>1. \A p \in Group(level) : st[p] = "err"
      BY <1>1, <2>2 DEF GroupFails, Blocked, Parallel
    <3>2. \A p \in ctx["tree"] : HasResult(p)
      BY <1>1, <3>1 DEF GroupFails, TreeInv, Active
    <3>3. QED
      BY <1>1, <2>2, <3>2, SavedIsConsistent DEF GroupFails, Active
  <2>3. QED
    BY <2>1, <2>2
<1>2. CASE SaveCheckpoint
  <2>1. \A p \in ctx["tree"] : HasResult(p)
    BY <1>2 DEF SaveCheckpoint, TreeInv, Active
  <2>2. QED
    BY <1>2, <2>1, SavedIsConsistent DEF SaveCheckpoint, Active
<1>3. CASE Finish
  BY <1>3 DEF Finish, CheckpointIsConsistent, OnMainContext, TypeOK
<1>4. CASE ckpts' = ckpts
  BY <1>4 DEF CheckpointIsConsistent, OnMainContext
<1>5. QED
  BY <1>1, <1>2, <1>3, <1>4
     DEF Next, Progress, Start, Interrupt, OpenGroup, SkipGroup,
         PassSucceeds, PassFails, GroupCompletes, vars

LEMMA IndInvStep == IndInv /\ [Next]_vars => IndInv'
BY TypeStep, LoopStep, FailureStep, ClosedStep, TreeStep, CheckpointStep
   DEF IndInv

LEMMA IndInvAlways == Spec => []IndInv
BY InitIndInv, IndInvStep, PTL DEF Spec

(***************************************************************************)
(* The results.                                                            *)
(***************************************************************************)
\* The types, and with them the retry budget: no pass fails more often than
\* its policy allows and is executed again (execute_stage_with_policy).
THEOREM TypeCorrect == Spec => []TypeOK
<1>1. IndInv => TypeOK
  BY DEF IndInv
<1>2. QED
  BY <1>1, IndInvAlways, PTL

\* However the passes of a group interleave and fail, a pass executes only
\* when all it depends on have results, failed ones only if optional.
THEOREM DependenciesSettledAlways == Spec => []DependenciesSettled
<1>1. IndInv => DependenciesSettled
  <2> SUFFICES ASSUME IndInv, NEW p \in Pass, st[p] = "running",
                      phase = "running", NEW d \in Deps[p]
               PROVE  /\ HasResult(d)
                      /\ results[d] = "failure" => d \in Optional
    BY DEF DependenciesSettled
  <2>1. Resolves /\ Level[p] = level
    BY DEF IndInv, LoopInv, Active
  <2>2. d \in Pass /\ Level[d] < level
    BY <2>1, LevelsAreTight
  <2>3. QED
    BY <2>2 DEF IndInv, LoopInv, FailureInv, Active
<1>2. QED
  BY <1>1, IndInvAlways, PTL

\* A pass that has a result, of this compile or of the checkpoint it resumed
\* from, is not executed: no checkpoint splits a group.
THEOREM ExecutedOnceAlways == Spec => []ExecutedOnce
<1>1. IndInv => ExecutedOnce
  BY DEF IndInv, ExecutedOnce, LoopInv
<1>2. QED
  BY <1>1, IndInvAlways, PTL

\* Every checkpoint file, whenever the process dies and whichever saves fail,
\* is a consistent cut of a compile.
THEOREM CheckpointIsConsistentAlways == Spec => []CheckpointIsConsistent
<1>1. IndInv => CheckpointIsConsistent
  BY DEF IndInv
<1>2. QED
  BY <1>1, IndInvAlways, PTL

\* A compile that returns Ok, resumed or not, has settled every pass.
THEOREM OkMeansAllRanAlways == Spec => []OkMeansAllRan
<1>1. IndInv => OkMeansAllRan
  BY DEF IndInv, OkMeansAllRan, LoopInv, FailureInv
<1>2. QED
  BY <1>1, IndInvAlways, PTL

\* The tree only grows while a compile runs, and a new one forgets what the
\* passes of the one before did.
LEMMA MainTreeEditsStep ==
    TypeOK /\ MainTreeEditsKept /\ [Next]_vars => MainTreeEditsKept'
<1> SUFFICES ASSUME TypeOK, MainTreeEditsKept, [Next]_vars
             PROVE  MainTreeEditsKept'
  OBVIOUS
<1>0. \A q \in Pass : OnMainContext(q)' <=> OnMainContext(q)
  BY DEF OnMainContext
<1> USE <1>0 DEF MainTreeEditsKept
<1>1. ASSUME NEW i \in Input, Start(i)
      PROVE  MainTreeEditsKept'
  BY <1>1 DEF Start, Waiting
<1>2. CASE OpenGroup
  BY <1>2 DEF OpenGroup, TypeOK
<1>3. ASSUME NEW p \in Pass, PassSucceeds(p)
      PROVE  MainTreeEditsKept'
  <2>1. ctx \in [Field -> SUBSET Pass]
    BY DEF TypeOK
  <2>2. ctx["tree"] \subseteq ctx'["tree"]
    BY <1>3, <2>1, WrittenType DEF PassSucceeds
  <2>3. OnMainContext(p) /\ "tree" \in Writes[p] => p \in ctx'["tree"]
    BY <1>3, <2>1, WrittenType DEF PassSucceeds
  <2>4. st \in [Pass -> {"waiting", "running", "ok", "err"}]
          /\ st' = [st EXCEPT ![p] = "ok"]
    BY <1>3 DEF PassSucceeds, TypeOK
  <2>5. QED
    BY <2>2, <2>3, <2>4
<1>4. ASSUME NEW p \in Pass, PassFails(p)
      PROVE  MainTreeEditsKept'
  BY <1>4 DEF PassFails, TypeOK
<1>5. CASE GroupCompletes
  BY <1>5, MergedContextType DEF GroupCompletes
<1>6. CASE UNCHANGED <<st, ctx>>
  BY <1>6
<1>7. QED
  BY <1>1, <1>2, <1>3, <1>4, <1>5, <1>6
     DEF Next, Progress, Interrupt, SkipGroup, GroupFails, SaveCheckpoint,
         Finish, vars

\* A reader works on an older copy of the tree, and nothing of that copy
\* reaches the main context: what a pass did there stays to the end of the
\* compile, for any groups and any fields that are merged but the tree.
THEOREM MainTreeEditsKeptAlways == Spec => []MainTreeEditsKept
<1>1. Init => MainTreeEditsKept
  BY DEF Init, MainTreeEditsKept, Waiting
<1>2. IndInv => TypeOK
  BY DEF IndInv
<1>3. QED
  BY <1>1, <1>2, IndInvAlways, MainTreeEditsStep, PTL DEF Spec

\* The only reader that declares a field is the one it is taken from: its
\* output if it succeeded, nothing if it failed.
LEMMA MergedFromReader ==
    ASSUME Resolves, TypeOK, Finished, NEW p \in Readers(level),
           NEW f \in Declares[p] \cap Merged, f \in Writes[p]
    PROVE  MergedContext[f] = {p} <=> st[p] = "ok"
<1>1. p \in Pass /\ p \in Group(level) /\ f \in Field /\ f # "tree"
  BY MergeAssumption, FieldAssumption DEF Readers, Group
<1>2. LastDeclaring(f) = {p}
  <2>1. \A q \in Readers(level) : f \in Declares[q] => q = p
    BY MergeAssumption DEF Readers, Group
  <2>2. Position[p] \in Nat
    BY <1>1, PositionFacts, CountType
  <2>3. QED
    BY <2>1, <2>2 DEF LastDeclaring
<1>3. MergedContext[f] = ReaderContext(p)[f]
  BY <1>1, <1>2 DEF MergedContext
<1>4. ReaderContext(p)[f] = IF st[p] = "ok" THEN {p} ELSE {}
  BY <1>1 DEF ReaderContext, Written, NoOutput
<1>5. QED
  BY <1>3, <1>4

LEMMA DeclaredOutputsStep ==
    TypeOK /\ LoopInv /\ DeclaredOutputsMerged /\ [Next]_vars
        => DeclaredOutputsMerged'
<1> SUFFICES ASSUME TypeOK, LoopInv, DeclaredOutputsMerged, [Next]_vars
             PROVE  DeclaredOutputsMerged'
  OBVIOUS
<1>1. CASE GroupCompletes
  <2>1. Resolves
    BY <1>1 DEF GroupCompletes, LoopInv, Active
  <2>2. QED
    BY <1>1, <2>1, MergedFromReader
       DEF GroupCompletes, DeclaredOutputsMerged, Readers, Group
<1>2. CASE SkipGroup
  <2>1. phase' = "saving" => ~Parallel(level) /\ level' = level
    BY <1>2 DEF SkipGroup
  <2>2. ~Parallel(level) => Readers(level) = {}
    BY DEF Readers, OnMainContext, Group
  <2>3. level' = level => Readers(level)' = Readers(level)
    BY DEF Readers, Group, OnMainContext
  <2>4. QED
    BY <2>1, <2>2, <2>3 DEF DeclaredOutputsMerged
<1>3. CASE UNCHANGED vars
  BY <1>3 DEF vars, DeclaredOutputsMerged, Readers, Group, OnMainContext
<1>4. CASE phase' # "saving"
  BY <1>4 DEF DeclaredOutputsMerged
<1>5. QED
  BY <1>1, <1>2, <1>3, <1>4
     DEF Next, Progress, Start, Interrupt, OpenGroup, PassSucceeds, PassFails,
         GroupFails, SaveCheckpoint, Finish

\* Whichever passes of a group fail and in whatever order they end, what the
\* merge leaves in a field is the output of the reader that declares it, and
\* of that one only if it succeeded.
THEOREM DeclaredOutputsMergedAlways == Spec => []DeclaredOutputsMerged
<1>1. Init => DeclaredOutputsMerged
  BY DEF Init, DeclaredOutputsMerged
<1>2. IndInv => TypeOK /\ LoopInv
  BY DEF IndInv
<1>3. QED
  BY <1>1, <1>2, IndInvAlways, DeclaredOutputsStep, PTL DEF Spec

(***************************************************************************)
(* What a navigator collects from a document the passes have made.         *)
(***************************************************************************)
\* Evidence is a list, and there is none before the document is open.
EvidenceInv ==
    /\ evidence \in Seq(ToSet(evidence))
    /\ stage # "open" => evidence = <<>> /\ collected = {} /\ visited = {}
    /\ EvidenceIsCollected

NothingCollected ==
    /\ evidence = <<>> /\ collected = {}
    /\ stage # "open" => visited = {}

LEMMA NoEvidence == NothingCollected => EvidenceInv
<1> SUFFICES ASSUME evidence = <<>>, collected = {}, stage # "open" => visited = {}
             PROVE  EvidenceInv
  BY DEF NothingCollected
<1>1. DOMAIN evidence = {} /\ ToSet(evidence) = {}
  BY DEF ToSet
<1>2. evidence \in Seq(ToSet(evidence))
  BY <1>1
<1> DEFINE nodes == [i \in DOMAIN evidence |-> evidence[i].node]
<1>3. IsInjective(nodes) /\ ToSet(nodes) = {}
  BY <1>1 DEF IsInjective, ToSet
<1>4. EvidenceIsCollected
  BY <1>1, <1>3 DEF EvidenceIsCollected
<1>5. QED
  BY <1>2, <1>4 DEF EvidenceInv

\* Only the nodes visited are more.
LEMMA VisitStep ==
    ASSUME EvidenceInv, stage = "open", visited \subseteq visited',
           UNCHANGED <<stage, tree, evidence, collected>>
    PROVE  EvidenceInv'
<1>1. /\ collected' \subseteq visited'
      /\ \A n : HasText(n)' = HasText(n) /\ TitleOf(n)' = TitleOf(n)
  BY DEF EvidenceInv, EvidenceIsCollected, HasText, TitleOf
<1>2. EvidenceIsCollected'
  BY <1>1 DEF EvidenceInv, EvidenceIsCollected
<1>3. QED
  BY <1>2 DEF EvidenceInv

\* A node that was not collected before is.
LEMMA CollectStep ==
    ASSUME EvidenceInv, stage = "open", NEW n, n \notin collected,
           evidence' = IF HasText(n) THEN Append(evidence, Found(n)) ELSE evidence,
           collected' = collected \cup {n}, visited' = visited \cup {n},
           UNCHANGED <<stage, tree>>
    PROVE  EvidenceInv'
<1> DEFINE nodes == [i \in DOMAIN evidence |-> evidence[i].node]
<1>1. \A m : HasText(m)' = HasText(m) /\ TitleOf(m)' = TitleOf(m)
  BY DEF HasText, TitleOf
<1>2. /\ evidence \in Seq(ToSet(evidence))
      /\ IsInjective(nodes)
      /\ ToSet(nodes) = {m \in collected : HasText(m)}
      /\ collected' \subseteq visited'
      /\ \A i \in DOMAIN evidence :
            /\ evidence[i].text = tree.nodes[evidence[i].node].text
            /\ evidence[i].title = TitleOf(evidence[i].node)
  BY DEF EvidenceInv, EvidenceIsCollected
<1>3. CASE ~HasText(n)
  <2>1. {m \in collected' : HasText(m)} = {m \in collected : HasText(m)} /\ evidence' = evidence
    BY <1>3
  <2>2. EvidenceIsCollected'
    BY <1>1, <1>2, <2>1 DEF EvidenceIsCollected
  <2>3. QED
    BY <1>2, <2>1, <2>2 DEF EvidenceInv
<1>4. CASE HasText(n)
  <2> DEFINE k == Len(evidence) + 1
             after == [i \in DOMAIN evidence' |-> evidence'[i].node]
  <2>1. /\ evidence' = Append(evidence, Found(n))
        /\ Found(n).node = n /\ Found(n).text = tree.nodes[n].text /\ Found(n).title = TitleOf(n)
    BY <1>4 DEF Found
  <2>2. /\ Len(evidence) \in Nat /\ DOMAIN evidence = 1..Len(evidence)
        /\ DOMAIN evidence' = 1..k /\ evidence'[k] = Found(n)
        /\ \A i \in DOMAIN evidence : evidence'[i] = evidence[i]
    <3> DEFINE S == ToSet(evidence) \cup {Found(n)}
    <3>1. evidence \in Seq(S) /\ Found(n) \in S
      BY <1>2
    <3> HIDE DEF S
    <3>2. QED
      BY <2>1, <3>1, AppendProperties, LenProperties
  <2>3. DOMAIN evidence' = DOMAIN evidence \cup {k} /\ k \notin DOMAIN evidence
    BY <2>2
  <2> HIDE DEF k
  <2>4. evidence' \in Seq(ToSet(evidence'))
    <3>1. evidence' = [i \in 1..k |-> evidence'[i]]
      <4>1. evidence' \in Seq(ToSet(evidence) \cup {Found(n)})
        BY <1>2, <2>1, AppendProperties
      <4>2. QED
        BY <2>2, <4>1, LenProperties
    <3>2. \A i \in 1..k : evidence'[i] \in ToSet(evidence')
      BY <2>2 DEF ToSet
    <3>3. k \in Nat
      BY <2>2 DEF k
    <3>4. evidence' \in [1..k -> ToSet(evidence')]
      BY <3>1, <3>2
    <3> DEFINE T == ToSet(evidence')
    <3> HIDE DEF T
    <3>5. evidence' \in [1..k -> T] => evidence' \in Seq(T)
      BY <3>3, SeqDef
    <3>6. QED
      BY <3>4, <3>5 DEF T
  <2>5. after[k] = n /\ \A i \in DOMAIN evidence : after[i] = nodes[i] /\ nodes[i] # n
    <3>1. \A i \in DOMAIN evidence : nodes[i] \in collected
      BY <1>2 DEF ToSet
    <3>2. QED
      BY <2>1, <2>2, <2>3, <3>1
  <2>6. IsInjective(after)
    <3>1. DOMAIN nodes = DOMAIN evidence /\ DOMAIN after = DOMAIN evidence \cup {k}
      BY <2>3
    <3>2. \A i, j \in DOMAIN nodes : nodes[i] = nodes[j] => i = j
      BY <1>2 DEF IsInjective
    <3> HIDE DEF nodes, after
    <3>3. \A i, j \in DOMAIN after : after[i] = after[j] => i = j
      BY <2>5, <3>1, <3>2
    <3>4. QED
      BY <3>3 DEF IsInjective
  <2>7. ToSet(after) = ToSet(nodes) \cup {n}
    BY <2>3, <2>5 DEF ToSet
  <2>8. {m \in collected' : HasText(m)} = {m \in collected : HasText(m)} \cup {n}
    BY <1>4
  <2>9. \A i \in DOMAIN evidence' :
            /\ evidence'[i].text = tree.nodes[after[i]].text
            /\ evidence'[i].title = TitleOf(after[i])
    BY <1>2, <2>1, <2>2, <2>3, <2>5
  <2>10. EvidenceIsCollected'
    BY <1>1, <1>2, <2>6, <2>7, <2>8, <2>9 DEF EvidenceIsCollected
  <2>11. QED
    BY <2>4, <2>10 DEF EvidenceInv
<1>5. QED
  BY <1>3, <1>4

LEMMA EvidenceStep == EvidenceInv /\ [NavNext]_allVars => EvidenceInv'
<1> SUFFICES ASSUME EvidenceInv, [NavNext]_allVars PROVE EvidenceInv'
  OBVIOUS
<1>0. NothingCollected' => EvidenceInv'
  BY NoEvidence, PTL
<1>1. CASE stage # "open" /\ UNCHANGED <<visited, collected, evidence>>
  <2>1. evidence' = <<>> /\ collected' = {} /\ visited' = {}
    BY <1>1 DEF EvidenceInv
  <2>2. QED
    BY <1>0, <2>1 DEF NothingCollected
<1>2. CASE stage = "open" /\ UNCHANGED allVars
  BY <1>2, VisitStep DEF allVars, docVars, navVars
<1>3. ASSUME Compile, UNCHANGED navVars PROVE stage # "open"
  BY <1>3 DEF Compile, Parse, Build, EditTree, Index, OptimizeTree, Verify, Recompile
<1>4. ASSUME Open PROVE stage # "open" /\ UNCHANGED <<visited, collected, evidence>>
  BY <1>4 DEF Open
<1>5. ASSUME Navigate PROVE EvidenceInv'
  <2>1. stage = "open" /\ UNCHANGED <<stage, tree>>
    BY <1>5 DEF Navigate, Cd, Cat, CollectEvidence, CdByTitle, CdUp, CdRoot, Back,
                ClearEvidence, Moving, docVars
  <2>2. ASSUME NEW n \in Nodes(tree), Cat(n) PROVE EvidenceInv'
    <3>1. CASE n \in collected
      BY <2>1, <2>2, <3>1, VisitStep DEF Cat
    <3>2. CASE HasText(n) /\ n \notin collected
      BY <2>1, <2>2, <3>2, CollectStep DEF Cat
    <3>3. CASE ~HasText(n)
      BY <2>1, <2>2, <3>3, VisitStep DEF Cat
    <3>4. QED
      BY <3>1, <3>2, <3>3
  <2>3. ASSUME NEW n \in Nodes(tree), CollectEvidence(n) PROVE EvidenceInv'
    BY <2>1, <2>3, CollectStep DEF CollectEvidence
  <2>4. ASSUME ClearEvidence PROVE EvidenceInv'
    <3>1. evidence' = <<>> /\ collected' = {} /\ stage' = "open"
      BY <2>1, <2>4 DEF ClearEvidence
    <3>2. QED
      BY <1>0, <3>1 DEF NothingCollected
  <2>5. CASE visited \subseteq visited' /\ UNCHANGED <<evidence, collected>>
    BY <2>1, <2>5, VisitStep
  <2>6. QED
    BY <1>5, <2>2, <2>3, <2>4, <2>5
       DEF Navigate, Cd, CdByTitle, GoTo, CdUp, CdRoot, Back
<1>6. QED
  BY <1>1, <1>2, <1>3, <1>4, <1>5 DEF NavNext, navVars, allVars, docVars

\* Whatever is compiled, and however a worker moves about, collects, clears
\* and collects again, its evidence is what it has collected and the document
\* says (navigator.rs, cat, collect_evidence, clear_evidence).
THEOREM EvidenceIsCollectedAlways == NavSpec => []EvidenceIsCollected
<1>1. NavInit => EvidenceInv
  <2> SUFFICES ASSUME NavInit PROVE EvidenceInv
    OBVIOUS
  <2>1. evidence = <<>> /\ collected = {} /\ visited = {}
    BY DEF NavInit
  <2>2. QED
    BY <2>1, NoEvidence DEF NothingCollected
<1>2. EvidenceInv => EvidenceIsCollected
  BY DEF EvidenceInv
<1>3. QED
  BY <1>1, <1>2, EvidenceStep, PTL DEF NavSpec

(***************************************************************************)
(* Members of a sequence picked by their places (Subsequences).            *)
(***************************************************************************)
LEMMA KthExists ==
    ASSUME NEW P \in SUBSET Nat, IsFiniteSet(P), NEW k \in 1..Cardinality(P)
    PROVE  Kth(P, k) \in P /\ Cardinality(UpTo(P, Kth(P, k))) = k
<1> DEFINE n == Cardinality(P)
           f == [i \in P |-> Cardinality(UpTo(P, i))]
<1>1. n \in Nat
  BY FS_CardinalityType
<1>2. ASSUME NEW i \in P
      PROVE  /\ IsFiniteSet(UpTo(P, i)) /\ UpTo(P, i) \subseteq P
             /\ Cardinality(UpTo(P, i)) \in 1..n
  <2>1. UpTo(P, i) \in SUBSET P /\ i \in UpTo(P, i)
    BY DEF UpTo
  <2>2. IsFiniteSet(UpTo(P, i)) /\ Cardinality(UpTo(P, i)) <= n
    BY <2>1, FS_Subset
  <2>3. Cardinality(UpTo(P, i)) \in Nat /\ Cardinality(UpTo(P, i)) # 0
    BY <2>1, <2>2, FS_CardinalityType, FS_EmptySet
  <2> QED
    BY <1>1, <2>1, <2>2, <2>3
<1>3. ASSUME NEW i \in P, NEW j \in P, i < j
      PROVE  f[i] # f[j]
  <2>1. UpTo(P, i) \in SUBSET UpTo(P, j) /\ j \in UpTo(P, j) /\ j \notin UpTo(P, i)
    <3>1. i \in Nat /\ j \in Nat /\ \A l \in P : l \in Nat
      OBVIOUS
    <3>2. \A l \in P : l <= i => l <= j
      BY <1>3, <3>1
    <3>3. UpTo(P, i) \subseteq UpTo(P, j)
      BY <3>2 DEF UpTo
    <3>4. j <= j /\ ~(j <= i)
      BY <1>3, <3>1
    <3> QED
      BY <3>3, <3>4 DEF UpTo
  <2>2. Cardinality(UpTo(P, j)) # Cardinality(UpTo(P, i))
    BY <1>2, <2>1, FS_Subset
  <2> QED
    BY <2>2
<1>4. f \in [P -> 1..n] /\ \A i, j \in P : f[i] = f[j] => i = j
  <2>1. f \in [P -> 1..n]
    BY <1>2
  <2>2. \A i, j \in P : i < j \/ i = j \/ j < i
    OBVIOUS
  <2> QED
    BY <1>3, <2>1, <2>2
<1>5. IsFiniteSet(1..n) /\ Cardinality(1..n) = n
  BY <1>1, FS_Interval
<1> HIDE DEF f
<1>6. f \in Injection(P, 1..n)
  BY <1>4, Fun_IsInj
<1>7. f \in Surjection(P, 1..n)
  BY <1>5, <1>6, FS_Injection
<1>8. PICK i \in P : f[i] = k
  <2>1. k \in 1..n
    OBVIOUS
  <2> HIDE DEF n
  <2>2. \A t \in 1..n : \E s \in P : f[s] = t
    BY <1>7, Fun_SurjectionProperties
  <2> QED
    BY <2>1, <2>2
<1>9. \E p \in P : Cardinality(UpTo(P, p)) = k
  BY <1>8 DEF f
<1> QED
  BY <1>9 DEF Kth

LEMMA AtProperties ==
    ASSUME NEW S, NEW seq \in Seq(S), NEW P \in SUBSET DOMAIN seq
    PROVE  /\ At(seq, P) \in Seq(S)
           /\ Len(At(seq, P)) <= Len(seq)
           /\ \A k \in DOMAIN At(seq, P) : Kth(P, k) \in P /\ At(seq, P)[k] = seq[Kth(P, k)]
           /\ \A k, l \in DOMAIN At(seq, P) : Kth(P, k) = Kth(P, l) => k = l
<1>1. DOMAIN seq = 1..Len(seq) /\ Len(seq) \in Nat
  BY LenProperties
<1>2. IsFiniteSet(1..Len(seq)) /\ Cardinality(1..Len(seq)) = Len(seq)
  <2>1. 1 \in Int /\ Len(seq) \in Int
    BY <1>1
  <2>2. IsFiniteSet(1..Len(seq))
    BY <2>1, FS_Interval
  <2>3. Cardinality(1..Len(seq)) = IF 1 > Len(seq) THEN 0 ELSE Len(seq) - 1 + 1
    BY <2>1, FS_Interval
  <2> QED
    BY <1>1, <2>2, <2>3
<1>3. IsFiniteSet(P) /\ P \in SUBSET Nat /\ Cardinality(P) <= Len(seq)
  BY <1>1, <1>2, FS_Subset
<1>4. Cardinality(P) \in Nat
  BY <1>3, FS_CardinalityType
<1>5. DOMAIN At(seq, P) = 1..Cardinality(P)
  BY DEF At
<1>6. \A k \in 1..Cardinality(P) : Kth(P, k) \in P /\ Cardinality(UpTo(P, Kth(P, k))) = k
  BY <1>3, KthExists
<1>7. \A k \in 1..Cardinality(P) : At(seq, P)[k] = seq[Kth(P, k)]
  BY DEF At
<1>8. \A k \in 1..Cardinality(P) : seq[Kth(P, k)] \in S
  BY <1>1, <1>6, ElementOfSeq
<1>9. At(seq, P) \in Seq(S) /\ Len(At(seq, P)) = Cardinality(P)
  <2>1. At(seq, P) \in [1..Cardinality(P) -> S]
    BY <1>8 DEF At
  <2> QED
    BY <1>4, <2>1
<1> QED
  BY <1>3, <1>5, <1>6, <1>7, <1>9


(***************************************************************************)
(* Sequences.                                                              *)
(***************************************************************************)
LEMMA SeqFacts ==
    ASSUME NEW s, IsSeq(s)
    PROVE  /\ Len(s) \in Nat /\ DOMAIN s = 1..Len(s)
           /\ s = [i \in 1..Len(s) |-> s[i]]
BY LenProperties DEF IsSeq

LEMMA FunctionIsSeq ==
    ASSUME NEW n \in Nat, NEW s, DOMAIN s = 1..n, s = [i \in 1..n |-> s[i]]
    PROVE  IsSeq(s) /\ Len(s) = n
<1> DEFINE S == ToSet(s)
<1>1. \A i \in 1..n : s[i] \in S
  BY DEF ToSet
<1> HIDE DEF S
<1>2. s \in [1..n -> S]
  BY <1>1
<1>3. s \in Seq(S)
  BY <1>2, SeqDef
<1>4. Len(s) = n
  BY <1>3, LenProperties
<1>5. QED
  BY <1>3, <1>4 DEF IsSeq, S

LEMMA SeqInIsSeq ==
    ASSUME NEW S, NEW s \in Seq(S)
    PROVE  IsSeq(s)
<1>1. Len(s) \in Nat /\ DOMAIN s = 1..Len(s) /\ s \in [1..Len(s) -> S]
  BY LenProperties
<1>2. s = [i \in 1..Len(s) |-> s[i]]
  BY <1>1
<1>3. QED
  BY <1>1, <1>2, FunctionIsSeq

LEMMA SeqOfSuperset ==
    ASSUME NEW s, IsSeq(s), NEW S, ToSet(s) \subseteq S
    PROVE  s \in Seq(S)
<1>1. \A i \in 1..Len(s) : s[i] \in S
  BY SeqFacts DEF ToSet
<1>2. s \in [1..Len(s) -> S]
  BY <1>1, SeqFacts
<1>3. QED
  BY <1>2, SeqFacts, SeqDef

LEMMA AppendIsSeq ==
    ASSUME NEW s, IsSeq(s), NEW e
    PROVE  /\ IsSeq(Append(s, e)) /\ Len(Append(s, e)) = Len(s) + 1
           /\ \A i \in 1..Len(s) : Append(s, e)[i] = s[i]
           /\ Append(s, e)[Len(s) + 1] = e
<1> DEFINE S == ToSet(s) \cup {e}
<1>1. s \in Seq(S) /\ e \in S
  BY SeqOfSuperset
<1> HIDE DEF S
<1>2. /\ Append(s, e) \in Seq(S) /\ Len(Append(s, e)) = Len(s) + 1
      /\ \A i \in 1..Len(s) : Append(s, e)[i] = s[i]
      /\ Append(s, e)[Len(s) + 1] = e
  BY <1>1, AppendProperties
<1>3. QED
  BY <1>2, SeqInIsSeq

LEMMA ConcatIsSeq ==
    ASSUME NEW s, IsSeq(s), NEW t, IsSeq(t)
    PROVE  /\ IsSeq(s \o t) /\ Len(s \o t) = Len(s) + Len(t)
           /\ \A i \in 1..Len(s) : (s \o t)[i] = s[i]
           /\ \A i \in 1..Len(t) : (s \o t)[Len(s) + i] = t[i]
<1> DEFINE S == ToSet(s) \cup ToSet(t)
<1>1. s \in Seq(S) /\ t \in Seq(S)
  BY SeqOfSuperset
<1> HIDE DEF S
<1>2. s \o t \in Seq(S)
  BY <1>1, ConcatProperties
<1>3. IsSeq(s \o t)
  BY <1>2, SeqInIsSeq
<1>4. /\ Len(s \o t) = Len(s) + Len(t)
      /\ \A i \in 1..(Len(s) + Len(t)) :
            (s \o t)[i] = IF i <= Len(s) THEN s[i] ELSE t[i - Len(s)]
  BY <1>1, ConcatProperties
<1>5. /\ Len(s) \in Nat /\ Len(t) \in Nat
  BY SeqFacts
<1> DEFINE c == s \o t
<1> HIDE DEF c
<1>6. \A i \in 1..Len(s) : c[i] = s[i]
  BY <1>4, <1>5 DEF c
<1>7. \A i \in 1..Len(t) : c[Len(s) + i] = t[i]
  <2> TAKE i \in 1..Len(t)
  <2>1. /\ Len(s) + i \in 1..(Len(s) + Len(t)) /\ ~(Len(s) + i <= Len(s))
        /\ Len(s) + i - Len(s) = i
    BY <1>5
  <2>2. QED
    BY <1>4, <2>1 DEF c
<1>8. QED
  BY <1>3, <1>4, <1>6, <1>7 DEF c

LEMMA EmptyIsSeq == IsSeq(<<>>) /\ Len(<<>>) = 0 /\ ToSet(<<>>) = {}
<1>1. Len(<<>>) = 0 /\ DOMAIN <<>> = {}
  OBVIOUS
<1>2. ToSet(<<>>) = {} /\ IsSeq(<<>>)
  BY <1>1 DEF ToSet, IsSeq
<1>3. QED
  BY <1>1, <1>2

\* Two texts with a blank line between them.
LEMMA NewLineIsSeq ==
    ASSUME NEW text, IsSeq(text), NEW blank
    PROVE  IsSeq(NewLine(text, blank)) /\ Len(NewLine(text, blank)) = Len(text)
<1>1. Len(text) \in Nat /\ DOMAIN text = 1..Len(text)
  BY SeqFacts
<1> DEFINE line == NewLine(text, blank)
<1>2. DOMAIN line = 1..Len(text) /\ line = [i \in 1..Len(text) |-> line[i]]
  BY <1>1 DEF NewLine
<1> HIDE DEF line
<1>3. IsSeq(line) /\ Len(line) = Len(text)
  BY <1>1, <1>2, FunctionIsSeq
<1>4. QED
  BY <1>3 DEF line

\* What is said in a text stays in it when lines are broken and texts joined.
LEMMA EmptyIsText == IsText(<<>>) /\ Pieces(<<>>) = {}
BY EmptyIsSeq DEF IsText, Pieces

LEMMA ConcatIsText ==
    ASSUME NEW a, IsText(a), NEW b, IsText(b)
    PROVE  IsText(a \o b) /\ Pieces(a \o b) = Pieces(a) \cup Pieces(b)
<1> DEFINE c == a \o b
<1>1. /\ IsSeq(c) /\ Len(c) = Len(a) + Len(b)
      /\ \A i \in 1..Len(a) : c[i] = a[i]
      /\ \A i \in 1..Len(b) : c[Len(a) + i] = b[i]
  BY ConcatIsSeq DEF IsText
<1> HIDE DEF c
<1>2. /\ Len(a) \in Nat /\ DOMAIN a = 1..Len(a) /\ Len(b) \in Nat /\ DOMAIN b = 1..Len(b)
      /\ DOMAIN c = 1..(Len(a) + Len(b))
  BY <1>1, SeqFacts DEF IsText
<1>3. /\ \A i \in DOMAIN a : i \in DOMAIN c /\ c[i] = a[i]
      /\ \A i \in DOMAIN b : Len(a) + i \in DOMAIN c /\ c[Len(a) + i] = b[i]
  BY <1>1, <1>2
<1>4. \A i \in DOMAIN c : \/ \E j \in DOMAIN a : c[i] = a[j]
                          \/ \E j \in DOMAIN b : c[i] = b[j]
  <2> TAKE i \in DOMAIN c
  <2>1. CASE i <= Len(a)
    BY <1>1, <1>2, <2>1
  <2>2. CASE ~(i <= Len(a))
    <3>1. i - Len(a) \in 1..Len(b) /\ Len(a) + (i - Len(a)) = i
      BY <1>2, <2>2
    <3>2. QED
      BY <1>1, <1>2, <3>1
  <2>3. QED
    BY <2>1, <2>2
<1>5. Pieces(c) = Pieces(a) \cup Pieces(b)
  BY <1>3, <1>4 DEF Pieces
<1>6. IsText(c)
  BY <1>1, <1>4 DEF IsText
<1>7. QED
  BY <1>5, <1>6 DEF c

LEMMA OneIsText ==
    ASSUME NEW piece, DOMAIN piece = {"id", "heading", "line", "para", "size", "refs"}
    PROVE  IsText(<<piece>>) /\ Pieces(<<piece>>) = {piece.id}
<1> DEFINE one == <<piece>>
<1>1. DOMAIN one = {1} /\ 1..1 = {1} /\ one[1] = piece /\ one = [i \in 1..1 |-> one[i]]
  OBVIOUS
<1> HIDE DEF one
<1>2. IsSeq(one)
  BY <1>1, FunctionIsSeq
<1>3. QED
  BY <1>1, <1>2 DEF IsText, Pieces, one

LEMMA AppendIsText ==
    ASSUME NEW text, IsText(text),
           NEW piece, DOMAIN piece = {"id", "heading", "line", "para", "size", "refs"}
    PROVE  /\ IsText(Append(text, piece))
           /\ Pieces(Append(text, piece)) = Pieces(text) \cup {piece.id}
<1>1. IsText(<<piece>>) /\ Pieces(<<piece>>) = {piece.id}
  BY OneIsText
<1> DEFINE S == ToSet(text) \cup {piece}
<1>2. text \in Seq(S) /\ piece \in S
  BY SeqOfSuperset DEF IsText
<1> HIDE DEF S
<1>3. Append(text, piece) = text \o <<piece>>
  BY <1>2
<1>4. QED
  BY <1>1, <1>3, ConcatIsText

LEMMA NewLineIsText ==
    ASSUME NEW text, IsText(text), NEW blank
    PROVE  IsText(NewLine(text, blank)) /\ Pieces(NewLine(text, blank)) = Pieces(text)
<1> DEFINE line == NewLine(text, blank)
<1>1. IsSeq(line)
  BY NewLineIsSeq DEF IsText
<1>2. DOMAIN line = DOMAIN text
  BY DEF NewLine
<1>3. ASSUME NEW i \in DOMAIN text
      PROVE  /\ DOMAIN line[i] = {"id", "heading", "line", "para", "size", "refs"}
             /\ line[i].id = text[i].id
  <2>1. DOMAIN text[i] = {"id", "heading", "line", "para", "size", "refs"}
    BY DEF IsText
  <2>2. CASE i = 1
    <3>1. line[i] = [text[i] EXCEPT !.line = TRUE, !.para = @ \/ blank]
      BY <2>2 DEF NewLine
    <3>2. QED
      BY <2>1, <3>1
  <2>3. CASE i # 1
    BY <2>1, <2>3 DEF NewLine
  <2>4. QED
    BY <2>2, <2>3
<1> HIDE DEF line
<1>4. IsText(line) /\ Pieces(line) = Pieces(text)
  BY <1>1, <1>2, <1>3 DEF IsText, Pieces
<1>5. QED
  BY <1>4 DEF line

LEMMA JoinIsText ==
    ASSUME NEW a, IsText(a), NEW b, IsText(b)
    PROVE  IsText(Join(a, b)) /\ Pieces(Join(a, b)) = Pieces(a) \cup Pieces(b)
<1>1. IsText(NewLine(b, TRUE)) /\ Pieces(NewLine(b, TRUE)) = Pieces(b)
  BY NewLineIsText
<1>2. /\ IsText(a \o NewLine(b, TRUE))
      /\ Pieces(a \o NewLine(b, TRUE)) = Pieces(a) \cup Pieces(b)
  BY <1>1, ConcatIsText
<1>3. QED
  BY <1>2, EmptyIsText DEF Join

(***************************************************************************)
(* The shape of a tree.                                                    *)
(***************************************************************************)
\* Every node but the root hangs below one node, in one place, and has a
\* larger number; the cached leaves are the nodes without children, each once.
NodeShape(t, n) ==
    /\ {"title", "text", "parent", "kids"} \subseteq DOMAIN t.nodes[n]
    /\ IsSeq(Children(t, n)) /\ IsInjective(Children(t, n))
    /\ \A c \in ToSet(Children(t, n)) :
          c \in Nodes(t) /\ c > n /\ t.nodes[c].parent = n
    /\ n # Root => /\ t.nodes[n].parent \in Nodes(t)
                   /\ n \in ToSet(Children(t, t.nodes[n].parent))

LeavesExact(t) ==
    /\ IsSeq(t.leaves) /\ IsInjective(t.leaves)
    /\ ToSet(t.leaves) = {n \in Nodes(t) : IsLeaf(t, n)}

TreeShape(t) ==
    /\ DOMAIN t = {"nodes", "leaves"}
    /\ IsSeq(t.nodes) /\ Len(t.nodes) # 0
    /\ \A n \in Nodes(t) : NodeShape(t, n)
    /\ LeavesExact(t)

\* A pass that writes titles, texts, pages, ... leaves the shape as it is.
SameShape(s, t) ==
    /\ DOMAIN s = {"nodes", "leaves"}
    /\ IsSeq(s.nodes) /\ Len(s.nodes) = Len(t.nodes) /\ s.leaves = t.leaves
    /\ \A n \in Nodes(t) :
          /\ {"title", "text", "parent", "kids"} \subseteq DOMAIN s.nodes[n]
          /\ s.nodes[n].kids = t.nodes[n].kids /\ s.nodes[n].parent = t.nodes[n].parent

LEMMA SameShapeKeeps ==
    ASSUME NEW s, NEW t, TreeShape(t), SameShape(s, t)
    PROVE  TreeShape(s) /\ Nodes(s) = Nodes(t)
<1>1. Nodes(s) = Nodes(t)
  BY SeqFacts DEF TreeShape, SameShape, Nodes
<1>2. \A n \in Nodes(t) : Children(s, n) = Children(t, n)
  BY DEF SameShape, Children
<1>3. ASSUME NEW n \in Nodes(t) PROVE NodeShape(s, n)
  BY <1>1, <1>2 DEF TreeShape, SameShape, NodeShape
<1>4. LeavesExact(s)
  BY <1>1, <1>2 DEF TreeShape, SameShape, LeavesExact, IsLeaf
<1>5. QED
  BY <1>1, <1>3, <1>4 DEF TreeShape, SameShape

\* [t EXCEPT !.nodes = ...] where each node is written by itself.
LEMMA NodesWritten ==
    ASSUME NEW t, TreeShape(t), NEW nodes, DOMAIN nodes = Nodes(t),
           nodes = [n \in Nodes(t) |-> nodes[n]],
           \A n \in Nodes(t) :
              /\ DOMAIN nodes[n] = DOMAIN t.nodes[n]
              /\ nodes[n].kids = t.nodes[n].kids /\ nodes[n].parent = t.nodes[n].parent
    PROVE  /\ TreeShape([t EXCEPT !.nodes = nodes])
           /\ [t EXCEPT !.nodes = nodes].nodes = nodes
           /\ Nodes([t EXCEPT !.nodes = nodes]) = Nodes(t)
<1> DEFINE s == [t EXCEPT !.nodes = nodes]
<1>1. s.nodes = nodes /\ s.leaves = t.leaves /\ DOMAIN s = {"nodes", "leaves"}
  BY DEF TreeShape
<1>2. Len(t.nodes) \in Nat /\ Nodes(t) = 1..Len(t.nodes)
  BY SeqFacts DEF TreeShape, Nodes
<1>3. IsSeq(nodes) /\ Len(nodes) = Len(t.nodes)
  BY <1>2, FunctionIsSeq
<1> HIDE DEF s
<1>4. SameShape(s, t)
  BY <1>1, <1>3 DEF SameShape, TreeShape, NodeShape
<1>5. TreeShape(s) /\ Nodes(s) = Nodes(t)
  BY <1>4, SameShapeKeeps
<1>6. QED
  BY <1>1, <1>5 DEF s

LEMMA NewTreeShape ==
    ASSUME NEW title
    PROVE  /\ TreeShape(NewTree(title)) /\ Nodes(NewTree(title)) = {Root}
           /\ NewTree(title).nodes[Root].text = <<>>
<1> DEFINE t == NewTree(title)
           node == NewNode(title, <<>>, <<>>, 0)
<1>1. t.nodes = <<node>> /\ t.leaves = <<Root>> /\ DOMAIN t = {"nodes", "leaves"}
  BY DEF NewTree
<1> HIDE DEF t
<1>2. /\ node.kids = <<>> /\ node.text = <<>>
      /\ {"title", "text", "parent", "kids"} \subseteq DOMAIN node
  BY DEF NewNode
<1> HIDE DEF node
<1>3. /\ DOMAIN <<node>> = 1..1 /\ <<node>>[1] = node
      /\ DOMAIN <<Root>> = 1..1 /\ <<Root>>[1] = Root
      /\ <<node>> = [i \in 1..1 |-> <<node>>[i]] /\ <<Root>> = [i \in 1..1 |-> <<Root>>[i]]
  OBVIOUS
<1>4. IsSeq(t.nodes) /\ Len(t.nodes) = 1 /\ IsSeq(t.leaves)
  BY <1>1, <1>3, FunctionIsSeq
<1>5. Nodes(t) = {Root} /\ t.nodes[Root] = node /\ Children(t, Root) = <<>>
  BY <1>1, <1>2, <1>3 DEF Nodes, Root, Children
<1>6. IsInjective(<<>>) /\ IsInjective(t.leaves) /\ ToSet(t.leaves) = {Root}
  BY <1>1, <1>3 DEF IsInjective, ToSet, Root
<1>7. NodeShape(t, Root)
  BY <1>2, <1>5, <1>6, EmptyIsSeq DEF NodeShape
<1>8. LeavesExact(t)
  BY <1>4, <1>5, <1>6 DEF LeavesExact, IsLeaf
<1>9. TreeShape(t)
  BY <1>1, <1>4, <1>5, <1>7, <1>8 DEF TreeShape
<1>10. QED
  BY <1>2, <1>5, <1>9 DEF t

\* The texts of a tree, and what is said in them.
TextsSound(t) == \A n \in Nodes(t) : IsText(t.nodes[n].text)
TreePieces(t) == UNION {Pieces(t.nodes[n].text) : n \in Nodes(t)}
RawPieces(rs) == UNION {Pieces(rs[i].text) : i \in DOMAIN rs}

\* s says all that t says.
SaysAll(s, t) == TextsSound(s) /\ TreePieces(t) \subseteq TreePieces(s)

LEMMA SameTexts ==
    ASSUME NEW s, NEW t, Nodes(s) = Nodes(t),
           \A n \in Nodes(t) : s.nodes[n].text = t.nodes[n].text
    PROVE  /\ TreePieces(s) = TreePieces(t) /\ (TextsSound(s) <=> TextsSound(t))
           /\ TextsSound(t) => SaysAll(s, t)
BY DEF TreePieces, TextsSound, SaysAll

\* What At returns is all that is at the places.
LEMMA AtExact ==
    ASSUME NEW seq, IsSeq(seq), NEW P \in SUBSET DOMAIN seq
    PROVE  /\ IsSeq(At(seq, P))
           /\ ToSet(At(seq, P)) = {seq[i] : i \in P}
           /\ IsInjective(seq) => IsInjective(At(seq, P))
<1> DEFINE a == At(seq, P)
           S == ToSet(seq)
           m == Cardinality(P)
           f == [k \in 1..m |-> Kth(P, k)]
<1>1. seq \in Seq(S)
  BY DEF IsSeq
<1>2. DOMAIN seq = 1..Len(seq) /\ Len(seq) \in Nat
  BY SeqFacts
<1> HIDE DEF S
<1>3. /\ a \in Seq(S)
      /\ \A k \in DOMAIN a : Kth(P, k) \in P /\ a[k] = seq[Kth(P, k)]
      /\ \A k, l \in DOMAIN a : Kth(P, k) = Kth(P, l) => k = l
  BY <1>1, AtProperties
<1>4. DOMAIN a = 1..m
  BY DEF At
<1> HIDE DEF a
<1>5. IsFiniteSet(P) /\ m \in Nat
  <2>1. 1 \in Int /\ Len(seq) \in Int
    BY <1>2
  <2>2. IsFiniteSet(1..Len(seq))
    BY <2>1, FS_Interval
  <2>3. IsFiniteSet(P)
    BY <1>2, <2>2, FS_Subset
  <2>4. QED
    BY <2>3, FS_CardinalityType
<1>6. f \in Injection(1..m, P)
  BY <1>3, <1>4 DEF Injection, IsInjective
<1>7. Cardinality(1..m) = m
  BY <1>5, FS_Interval
<1>8. f \in Surjection(1..m, P)
  BY <1>5, <1>6, <1>7, FS_Injection
<1>9. \A i \in P : \E k \in 1..m : Kth(P, k) = i
  BY <1>8 DEF Surjection
<1>10. ToSet(a) = {seq[i] : i \in P}
  BY <1>3, <1>4, <1>9 DEF ToSet
<1>11. IsInjective(seq) => IsInjective(a)
  <2> SUFFICES ASSUME IsInjective(seq), NEW k \in DOMAIN a, NEW l \in DOMAIN a, a[k] = a[l]
               PROVE  k = l
    BY DEF IsInjective
  <2>1. Kth(P, k) \in DOMAIN seq /\ Kth(P, l) \in DOMAIN seq
    BY <1>3
  <2>2. Kth(P, k) = Kth(P, l)
    BY <1>3, <2>1 DEF IsInjective
  <2>3. QED
    BY <1>3, <2>2
<1>12. QED
  BY <1>3, <1>10, <1>11, SeqInIsSeq DEF a

\* add_child puts a node behind all others and below one of them.
LEMMA AddChildShape ==
    ASSUME NEW t, TreeShape(t), NEW parent \in Nodes(t), NEW title, NEW text
    PROVE  LET g == AddChild(t, parent, title, text)
               n == Len(t.nodes) + 1
           IN  /\ TreeShape(g) /\ Len(g.nodes) = n /\ Nodes(g) = Nodes(t) \cup {n}
               /\ \A m \in Nodes(t) : g.nodes[m].text = t.nodes[m].text
               /\ g.nodes[n].text = text
<1> DEFINE g == AddChild(t, parent, title, text)
           n == Len(t.nodes) + 1
           kid == NewNode(title, text, Append(t.nodes[parent].num, Len(Children(t, parent)) + 1),
                          parent)
           before == [t.nodes EXCEPT ![parent].kids = Append(@, n)]
           rest == At(t.leaves, {i \in DOMAIN t.leaves : t.leaves[i] # parent})
<1>1. /\ g.nodes = Append(before, kid) /\ g.leaves = Append(rest, n)
      /\ DOMAIN g = {"nodes", "leaves"}
  BY DEF AddChild
<1> HIDE DEF g
<1>2. /\ kid.kids = <<>> /\ kid.text = text /\ kid.parent = parent
      /\ {"title", "text", "parent", "kids"} \subseteq DOMAIN kid
  BY DEF NewNode
<1> HIDE DEF kid
<1>3. /\ Len(t.nodes) \in Nat /\ Nodes(t) = 1..Len(t.nodes) /\ n \in Nat /\ n \notin Nodes(t)
      /\ parent \in 1..Len(t.nodes)
  BY SeqFacts DEF TreeShape, Nodes
<1>4. /\ before = [m \in Nodes(t) |-> before[m]] /\ DOMAIN before = Nodes(t)
      /\ \A m \in Nodes(t) : m # parent => before[m] = t.nodes[m]
      /\ before[parent] = [t.nodes[parent] EXCEPT !.kids = Append(@, n)]
  BY <1>3 DEF Nodes
<1> HIDE DEF before, n
<1>5. \A m \in Nodes(t) : NodeShape(t, m)
  BY DEF TreeShape
<1>6. /\ before[parent].kids = Append(Children(t, parent), n)
      /\ DOMAIN before[parent] = DOMAIN t.nodes[parent]
      /\ before[parent].parent = t.nodes[parent].parent
      /\ before[parent].text = t.nodes[parent].text
  BY <1>4, <1>5 DEF NodeShape, Children
<1>7. IsSeq(before) /\ Len(before) = Len(t.nodes)
  BY <1>3, <1>4, FunctionIsSeq
<1>8. /\ IsSeq(g.nodes) /\ Len(g.nodes) = n /\ g.nodes[n] = kid
      /\ \A m \in Nodes(t) : g.nodes[m] = before[m]
  BY <1>1, <1>3, <1>7, AppendIsSeq DEF n
<1>9. Nodes(g) = Nodes(t) \cup {n}
  <2>1. Nodes(g) = 1..n
    BY <1>8, SeqFacts DEF Nodes
  <2>2. QED
    BY <1>3, <2>1 DEF n
<1>10. /\ Children(g, n) = <<>>
       /\ Children(g, parent) = Append(Children(t, parent), n)
       /\ \A m \in Nodes(t) : m # parent => Children(g, m) = Children(t, m)
  BY <1>2, <1>4, <1>6, <1>8 DEF Children
<1>11. \A m \in Nodes(t) : /\ g.nodes[m].parent = t.nodes[m].parent
                           /\ g.nodes[m].text = t.nodes[m].text
                           /\ DOMAIN g.nodes[m] = DOMAIN t.nodes[m]
  BY <1>4, <1>6, <1>8
<1>12. /\ IsSeq(Children(g, parent)) /\ IsInjective(Children(g, parent))
       /\ ToSet(Children(g, parent)) = ToSet(Children(t, parent)) \cup {n}
       /\ Children(g, parent) # <<>>
  <2> DEFINE kids == Children(t, parent)
             after == Append(kids, n)
  <2>1. IsSeq(kids) /\ IsInjective(kids) /\ n \notin ToSet(kids)
    BY <1>3, <1>5 DEF NodeShape
  <2> HIDE DEF kids
  <2>2. Len(kids) \in Nat /\ DOMAIN kids = 1..Len(kids)
    BY <2>1, SeqFacts
  <2>3. /\ IsSeq(after) /\ Len(after) = Len(kids) + 1
        /\ \A i \in 1..Len(kids) : after[i] = kids[i]
        /\ after[Len(kids) + 1] = n
    BY <2>1, AppendIsSeq
  <2> HIDE DEF after
  <2>4. DOMAIN after = DOMAIN kids \cup {Len(kids) + 1} /\ Len(kids) + 1 \notin DOMAIN kids
    BY <2>2, <2>3, SeqFacts
  <2>5. ToSet(after) = ToSet(kids) \cup {n}
    BY <2>2, <2>3, <2>4 DEF ToSet
  <2>6. IsInjective(after)
    BY <2>1, <2>2, <2>3, <2>4 DEF IsInjective, ToSet
  <2>7. after # <<>>
    BY <2>5, EmptyIsSeq
  <2>8. QED
    BY <1>10, <2>3, <2>5, <2>6, <2>7 DEF after, kids
<1>13. ASSUME NEW m \in Nodes(t) PROVE ToSet(Children(t, m)) \subseteq ToSet(Children(g, m))
  BY <1>10, <1>12
<1>14. NodeShape(g, n)
  <2>1. n # Root /\ IsInjective(<<>>)
    BY <1>3 DEF n, Root, IsInjective
  <2>2. g.nodes[n].parent = parent /\ n \in ToSet(Children(g, parent))
    BY <1>2, <1>8, <1>12
  <2>3. QED
    BY <1>2, <1>8, <1>9, <1>10, <2>1, <2>2, EmptyIsSeq DEF NodeShape
<1>15. ASSUME NEW m \in Nodes(t) PROVE NodeShape(g, m)
  <2>1. IsSeq(Children(g, m)) /\ IsInjective(Children(g, m))
    BY <1>5, <1>10, <1>12 DEF NodeShape
  <2>2. ASSUME NEW c \in ToSet(Children(g, m))
        PROVE  c \in Nodes(g) /\ c > m /\ g.nodes[c].parent = m
    <3>1. CASE c \in ToSet(Children(t, m))
      BY <1>5, <1>9, <1>11, <3>1 DEF NodeShape
    <3>2. CASE c \notin ToSet(Children(t, m))
      <4>1. m = parent /\ c = n
        BY <1>10, <1>12, <3>2
      <4>2. c > m
        BY <1>3, <4>1 DEF n
      <4>3. QED
        BY <1>2, <1>8, <1>9, <4>1, <4>2
    <3>3. QED
      BY <3>1, <3>2
  <2>3. m # Root => /\ g.nodes[m].parent \in Nodes(g)
                    /\ m \in ToSet(Children(g, g.nodes[m].parent))
    BY <1>5, <1>9, <1>11, <1>13 DEF NodeShape
  <2>4. QED
    BY <1>5, <1>11, <2>1, <2>2, <2>3 DEF NodeShape
<1>16. LeavesExact(g)
  <2> DEFINE P == {i \in DOMAIN t.leaves : t.leaves[i] # parent}
  <2>1. IsSeq(t.leaves) /\ IsInjective(t.leaves) /\ ToSet(t.leaves) = {m \in Nodes(t) : IsLeaf(t, m)}
    BY DEF TreeShape, LeavesExact
  <2>2. /\ IsSeq(rest) /\ IsInjective(rest)
        /\ ToSet(rest) = {t.leaves[i] : i \in P}
    BY <2>1, AtExact
  <2>3. ToSet(rest) = ToSet(t.leaves) \ {parent}
    BY <2>2 DEF ToSet
  <2> HIDE DEF rest, P
  <2>4. n \notin ToSet(rest)
    BY <1>3, <2>1, <2>3
  <2>5. /\ IsSeq(g.leaves) /\ Len(g.leaves) = Len(rest) + 1
        /\ \A i \in 1..Len(rest) : g.leaves[i] = rest[i]
        /\ g.leaves[Len(rest) + 1] = n
    BY <1>1, <2>2, AppendIsSeq
  <2>6. /\ DOMAIN rest = 1..Len(rest) /\ Len(rest) \in Nat
        /\ DOMAIN g.leaves = DOMAIN rest \cup {Len(rest) + 1} /\ Len(rest) + 1 \notin DOMAIN rest
    BY <2>2, <2>5, SeqFacts
  <2>7. ToSet(g.leaves) = ToSet(rest) \cup {n}
    BY <2>5, <2>6 DEF ToSet
  <2>8. IsInjective(g.leaves)
    BY <2>2, <2>4, <2>5, <2>6 DEF IsInjective, ToSet
  <2>9. {m \in Nodes(g) : IsLeaf(g, m)} = ({m \in Nodes(t) : IsLeaf(t, m)} \ {parent}) \cup {n}
    BY <1>3, <1>9, <1>10, <1>12 DEF IsLeaf
  <2>10. QED
    BY <2>1, <2>3, <2>5, <2>7, <2>8, <2>9 DEF LeavesExact
<1>17. TreeShape(g)
  BY <1>1, <1>3, <1>8, <1>9, <1>14, <1>15, <1>16 DEF TreeShape, n
<1>18. QED
  BY <1>2, <1>8, <1>9, <1>11, <1>17 DEF g, n

(***************************************************************************)
(* Passes that go through something step by step: a function of the steps  *)
(* done exists, and what a step keeps holds after all of them.             *)
(***************************************************************************)
Steps(S, n) == 0 \in S /\ \A k \in 1..n : k - 1 \in S => k \in S

LEMMA StepByStep ==
    ASSUME NEW n \in Nat, NEW S, Steps(S, n)
    PROVE  (\A k \in 0..n : k \in S) /\ n \in S
<1> DEFINE Bad == {k \in 0..n : k \notin S}
<1>1. Bad = {}
  <2> SUFFICES ASSUME Bad # {} PROVE FALSE
    OBVIOUS
  <2>1. Bad \in SUBSET Nat
    OBVIOUS
  <2>2. PICK k \in Bad : \A m \in Bad : k <= m
    BY <2>1, LeastElement
  <2>3. k # 0 /\ k \in 1..n /\ k - 1 \in 0..n
    BY <2>2 DEF Steps
  <2>4. k - 1 \in S
    BY <2>2, <2>3
  <2>5. QED
    BY <2>2, <2>3, <2>4 DEF Steps
<1>2. QED
  BY <1>1

\* One step more.
Extend(f, k, v) == [i \in 0..k |-> IF i = k THEN v ELSE f[i]]

LEMMA Extended ==
    ASSUME NEW k \in Nat \ {0}, NEW f, NEW v
    PROVE  /\ Extend(f, k, v) = [i \in 0..k |-> Extend(f, k, v)[i]]
           /\ Extend(f, k, v)[k] = v
           /\ \A i \in 0..(k - 1) : Extend(f, k, v)[i] = f[i]
<1>1. \A i \in 0..(k - 1) : i \in 0..k /\ i # k
  OBVIOUS
<1>2. QED
  BY <1>1 DEF Extend

(***************************************************************************)
(* split.                                                                  *)
(***************************************************************************)
LEMMA AddChunkShape ==
    ASSUME NEW t, TreeShape(t), NEW n \in Nodes(t), NEW title, NEW chunk
    PROVE  /\ TreeShape(AddChunk(t, n, title, chunk))
           /\ Nodes(AddChunk(t, n, title, chunk)) = Nodes(t) \cup {Len(t.nodes) + 1}
           /\ Len(t.nodes) + 1 \notin Nodes(t)
           /\ \A m \in Nodes(t) :
                 AddChunk(t, n, title, chunk).nodes[m].text = t.nodes[m].text
           /\ AddChunk(t, n, title, chunk).nodes[Len(t.nodes) + 1].text = chunk
<1> DEFINE g == AddChild(t, n, title, chunk)
           k == Len(g.nodes)
           nodes == [g.nodes EXCEPT ![k].tokens = Size(chunk)]
<1>1. /\ TreeShape(g) /\ Nodes(g) = Nodes(t) \cup {Len(t.nodes) + 1}
      /\ \A m \in Nodes(t) : g.nodes[m].text = t.nodes[m].text
      /\ g.nodes[Len(t.nodes) + 1].text = chunk
  BY AddChildShape
<1>7. Len(t.nodes) + 1 \notin Nodes(t)
  BY SeqFacts DEF TreeShape, Nodes
<1>2. AddChunk(t, n, title, chunk) = [g EXCEPT !.nodes = nodes]
  BY DEF AddChunk
<1> HIDE DEF g, k
<1>3. /\ DOMAIN nodes = Nodes(g) /\ nodes = [m \in Nodes(g) |-> nodes[m]]
      /\ \A m \in Nodes(g) :
            nodes[m] = IF m = k THEN [g.nodes[m] EXCEPT !.tokens = Size(chunk)] ELSE g.nodes[m]
  <2>1. IsSeq(g.nodes)
    BY <1>1 DEF TreeShape
  <2>2. QED
    BY <2>1, SeqFacts DEF Nodes
<1>4. ASSUME NEW m \in Nodes(g)
      PROVE  /\ DOMAIN nodes[m] = DOMAIN g.nodes[m]
             /\ nodes[m].kids = g.nodes[m].kids /\ nodes[m].parent = g.nodes[m].parent
             /\ nodes[m].text = g.nodes[m].text
  <2>1. {"title", "text", "parent", "kids"} \subseteq DOMAIN g.nodes[m]
    BY <1>1 DEF TreeShape, NodeShape
  <2> HIDE DEF nodes
  <2>2. CASE m = k
    BY <1>3, <2>1, <2>2
  <2>3. CASE m # k
    BY <1>3, <2>1, <2>3
  <2>4. QED
    BY <2>2, <2>3
<1> HIDE DEF nodes
<1>5. /\ TreeShape([g EXCEPT !.nodes = nodes])
      /\ [g EXCEPT !.nodes = nodes].nodes = nodes
      /\ Nodes([g EXCEPT !.nodes = nodes]) = Nodes(g)
  BY <1>1, <1>3, <1>4, NodesWritten
<1>6. QED
  BY <1>1, <1>2, <1>4, <1>5, <1>7

\* A text is split at places in it, and its chunks say what it said.
LEMMA SplitPointsInside ==
    ASSUME NEW text
    PROVE  FindSplitPoints(text) \subseteq DOMAIN text
<1>1. \A P : LargeChunks(text, P) \subseteq P
  BY DEF LargeChunks
<1>2. AtNewLines(text) \subseteq DOMAIN text
  BY DEF AtNewLines
<1> DEFINE headings == {i \in DOMAIN text : i > 1 /\ text[i].line /\ text[i].heading}
           paragraphs == {i \in DOMAIN text : i > 1 /\ text[i].para}
<1>3. headings \subseteq DOMAIN text /\ paragraphs \subseteq DOMAIN text
  OBVIOUS
<1>4. \/ FindSplitPoints(text) = {}
      \/ FindSplitPoints(text) = LargeChunks(text, headings)
      \/ FindSplitPoints(text) = LargeChunks(text, paragraphs)
      \/ FindSplitPoints(text) = AtNewLines(text)
  BY DEF FindSplitPoints
<1> HIDE DEF headings, paragraphs
<1>5. QED
  BY <1>1, <1>2, <1>3, <1>4

LEMMA PartIsText ==
    ASSUME NEW text, IsText(text), NEW i \in 1..Len(text), NEW e \in i..Len(text)
    PROVE  /\ IsText(SubSeq(text, i, e))
           /\ \A k \in i..e : text[k].id \in Pieces(SubSeq(text, i, e))
<1> DEFINE S == ToSet(text)
           u == SubSeq(text, i, e)
<1>1. text \in Seq(S) /\ Len(text) \in Nat /\ DOMAIN text = 1..Len(text)
  BY SeqFacts DEF IsText, IsSeq
<1> HIDE DEF S
<1>2. /\ SubSeq(text, i, e) \in Seq(S)
      /\ Len(SubSeq(text, i, e)) = IF i <= e THEN e - i + 1 ELSE 0
      /\ \A k \in 1..(e - i + 1) : SubSeq(text, i, e)[k] = text[i + k - 1]
  <2>1. i \in 1..(Len(text) + 1) /\ e \in (i - 1)..Len(text)
    BY <1>1
  <2>2. QED
    BY <1>1, <2>1, SubSeqProperties
<1>3. IsSeq(u) /\ Len(u) = e - i + 1 /\ \A k \in 1..(e - i + 1) : u[k] = text[i + k - 1]
  <2>1. IsSeq(SubSeq(text, i, e))
    BY <1>2, SeqInIsSeq
  <2>2. i <= e
    OBVIOUS
  <2>3. QED
    BY <1>2, <2>1, <2>2
<1> HIDE DEF u
<1>4. DOMAIN u = 1..(e - i + 1)
  BY <1>3, SeqFacts
<1>5. \A k \in DOMAIN u : i + k - 1 \in DOMAIN text /\ u[k] = text[i + k - 1]
  BY <1>1, <1>3, <1>4
<1>6. IsText(u)
  BY <1>3, <1>5 DEF IsText
<1>7. ASSUME NEW k \in i..e PROVE text[k].id \in Pieces(u)
  <2>1. k - i + 1 \in DOMAIN u /\ i + (k - i + 1) - 1 = k
    BY <1>1, <1>4
  <2>2. u[k - i + 1] = text[k]
    BY <1>5, <2>1
  <2>3. QED
    BY <2>1, <2>2 DEF Pieces
<1>8. QED
  BY <1>6, <1>7 DEF u

LEMMA ChunksSay ==
    ASSUME NEW text, IsText(text), NEW points \in SUBSET DOMAIN text, points # {}
    PROVE  LET chunks == Chunks(text, points)
           IN  /\ DOMAIN chunks \subseteq 1..Len(text)
               /\ \A i \in DOMAIN chunks : IsText(chunks[i])
               /\ \A x \in Pieces(text) : \E i \in DOMAIN chunks : x \in Pieces(chunks[i])
<1> DEFINE chunks == Chunks(text, points)
           starts == {1} \cup points
           ends(i) == {j - 1 : j \in {j \in points : j > i}} \cup {Len(text)}
<1>1. /\ DOMAIN chunks = starts
      /\ \A i \in starts : chunks[i] = SubSeq(text, i, Min(ends(i)))
  BY DEF Chunks
<1> HIDE DEF chunks
<1>2. Len(text) \in Nat /\ DOMAIN text = 1..Len(text) /\ Len(text) >= 1
  <2>1. Len(text) \in Nat /\ DOMAIN text = 1..Len(text)
    BY SeqFacts DEF IsText
  <2>2. PICK i \in points : i \in 1..Len(text)
    BY <2>1
  <2>3. QED
    BY <2>1, <2>2
<1>3. starts \subseteq 1..Len(text)
  BY <1>2
<1>4. ASSUME NEW i \in starts
      PROVE  Min(ends(i)) \in ends(i) /\ Min(ends(i)) \in i..Len(text)
  <2>1. ends(i) \in SUBSET Nat /\ ends(i) # {} /\ \A e \in ends(i) : e >= i
    BY <1>2, <1>3
  <2>2. Len(text) \in ends(i)
    OBVIOUS
  <2> HIDE DEF ends
  <2>3. Min(ends(i)) \in ends(i) /\ Min(ends(i)) <= Len(text)
    BY <2>1, <2>2, MinOf
  <2>4. QED
    BY <1>2, <1>3, <2>1, <2>3
<1>5. ASSUME NEW i \in starts PROVE IsText(chunks[i])
  <2> DEFINE e == Min(ends(i))
  <2>1. i \in 1..Len(text) /\ e \in i..Len(text) /\ chunks[i] = SubSeq(text, i, e)
    BY <1>1, <1>3, <1>4
  <2> HIDE DEF e
  <2>2. QED
    BY <2>1, PartIsText
<1>6. ASSUME NEW k \in DOMAIN text PROVE \E i \in starts : text[k].id \in Pieces(chunks[i])
  <2> DEFINE before == {j \in starts : j <= k}
             i == Max(before)
  <2>1. k \in Nat /\ k <= Len(text) /\ before \in SUBSET Nat /\ 1 \in before
    BY <1>2, <1>3
  <2>2. i \in before /\ \A j \in before : j <= i
    BY <2>1, MaxOf
  <2> HIDE DEF i
  <2>3. i \in starts /\ i <= k
    BY <2>2
  <2>4. \A j \in points : j > i => j > k
    BY <1>2, <1>3, <2>1, <2>2
  <2> DEFINE e == Min(ends(i))
  <2>5. e \in ends(i) /\ e \in i..Len(text)
    BY <1>4, <2>3
  <2>6. \A x \in ends(i) : x >= k
    BY <1>2, <2>1, <2>4
  <2>7. k \in i..e /\ e \in i..Len(text) /\ i \in 1..Len(text)
    <3> HIDE DEF e, ends
    <3>1. e >= k
      BY <2>5, <2>6
    <3>2. QED
      BY <1>3, <2>1, <2>3, <2>5, <3>1
  <2>8. text[k].id \in Pieces(SubSeq(text, i, e))
    <3> HIDE DEF e
    <3>1. QED
      BY <2>7, PartIsText
  <2>9. QED
    BY <1>1, <2>3, <2>8
<1>7. \A x \in Pieces(text) : \E i \in starts : x \in Pieces(chunks[i])
  BY <1>6 DEF Pieces
<1>8. QED
  BY <1>1, <1>3, <1>5, <1>7 DEF chunks

\* The chunks become children of the leaf; no node is lost, no text but that
\* of the leaf changes, and the chunks say what it said.
LEMMA SplitLeafSays ==
    ASSUME NEW t, TreeShape(t), TextsSound(t), NEW n \in Nodes(t)
    PROVE  /\ TreeShape(SplitLeaf(t, n)) /\ Nodes(t) \subseteq Nodes(SplitLeaf(t, n))
           /\ SaysAll(SplitLeaf(t, n), t)
<1> DEFINE text == t.nodes[n].text
           points == FindSplitPoints(text)
           chunks == Chunks(text, points)
           ChunkAt(i) == ChunkTitle(t.nodes[n].title, chunks[i],
                                    Cardinality(UpTo(DOMAIN chunks, i)))
           Step(s, i) == IF i \in DOMAIN chunks THEN AddChunk(s, n, ChunkAt(i), chunks[i]) ELSE s
           Done(f, k) == f = [i \in 0..k |-> IF i = 0 THEN t ELSE Step(f[i - 1], i)]
           split == CHOOSE f : Done(f, Len(text))
           last == split[Len(text)]
<1>1. SplitLeaf(t, n) = IF points = {} THEN t
                        ELSE [last EXCEPT !.nodes[n].text = <<>>, !.nodes[n].tokens = 0]
  BY DEF SplitLeaf
<1>13. IsText(text) /\ points \subseteq DOMAIN text
  BY SplitPointsInside DEF TextsSound
<1> HIDE DEF text, points
<1>14. points # {} =>
          /\ DOMAIN chunks \subseteq 1..Len(text)
          /\ \A i \in DOMAIN chunks : IsText(chunks[i])
          /\ \A x \in Pieces(text) : \E i \in DOMAIN chunks : x \in Pieces(chunks[i])
  BY <1>13, ChunksSay
<1> HIDE DEF chunks, ChunkAt
<1>2. Len(text) \in Nat
  BY <1>13, SeqFacts DEF IsText
<1> HIDE DEF Step, split
<1>3. Done(split, Len(text))
  <2> DEFINE S == {k \in 0..Len(text) : \E f : Done(f, k)}
  <2>1. 0 \in S
    <3> DEFINE f == [i \in 0..0 |-> t]
    <3>1. Done(f, 0)
      BY DEF Done
    <3> HIDE DEF f, Done
    <3>2. QED
      BY <1>2, <3>1
  <2>2. ASSUME NEW k \in 1..Len(text), k - 1 \in S PROVE k \in S
    <3>1. k \in Nat \ {0} /\ k \in 0..Len(text)
      BY <1>2
    <3> HIDE DEF Done
    <3>2. PICK f : Done(f, k - 1)
      BY <2>2
    <3> DEFINE v == Step(f[k - 1], k)
    <3> HIDE DEF v
    <3> DEFINE g == Extend(f, k, v)
    <3>3. /\ g = [i \in 0..k |-> g[i]] /\ g[k] = v
          /\ \A i \in 0..(k - 1) : g[i] = f[i]
      BY <3>1, Extended
    <3> HIDE DEF g
    <3>4. \A i \in 0..(k - 1) : f[i] = IF i = 0 THEN t ELSE Step(f[i - 1], i)
      BY <3>2 DEF Done
    <3>5. ASSUME NEW i \in 0..k PROVE g[i] = IF i = 0 THEN t ELSE Step(g[i - 1], i)
      <4>1. CASE i = k
        <5>1. g[k - 1] = f[k - 1] /\ k # 0 /\ k - 1 \in 0..(k - 1)
          BY <3>1, <3>3
        <5>2. QED
          BY <3>3, <4>1, <5>1 DEF v
      <4>2. CASE i # k
        <5>1. i \in 0..(k - 1) /\ (i # 0 => i - 1 \in 0..(k - 1))
          BY <3>1, <4>2
        <5>2. g[i] = f[i] /\ (i # 0 => g[i - 1] = f[i - 1])
          BY <3>3, <5>1
        <5>3. QED
          BY <3>4, <5>1, <5>2
      <4>3. QED
        BY <4>1, <4>2
    <3>6. Done(g, k)
      BY <3>3, <3>5 DEF Done
    <3>7. QED
      BY <3>1, <3>6
  <2> HIDE DEF S
  <2>3. Steps(S, Len(text))
    BY <2>1, <2>2 DEF Steps
  <2>4. Len(text) \in S
    BY <1>2, <2>3, StepByStep
  <2>5. \E f : Done(f, Len(text))
    <3> HIDE DEF Done
    <3>1. QED
      BY <2>4 DEF S
  <2> HIDE DEF Done
  <2>6. QED
    BY <2>5 DEF split
<1>4. /\ split[0] = t
      /\ \A i \in 1..Len(text) : split[i] = Step(split[i - 1], i)
  BY <1>2, <1>3
<1> HIDE DEF Done
<1> DEFINE Grown(s) == /\ TreeShape(s) /\ Nodes(t) \subseteq Nodes(s)
                       /\ \A m \in Nodes(t) : s.nodes[m].text = t.nodes[m].text
           Filled(s, k) == /\ \A m \in Nodes(s) \ Nodes(t) : IsText(s.nodes[m].text)
                           /\ \A i \in 1..k : i \in DOMAIN chunks =>
                                 \E m \in Nodes(s) \ Nodes(t) : s.nodes[m].text = chunks[i]
<1>5. Grown(last) /\ (points # {} => Filled(last, Len(text)))
  <2> DEFINE S == {k \in 0..Len(text) : Grown(split[k]) /\ (points # {} => Filled(split[k], k))}
  <2>1. 0 \in S
    BY <1>2, <1>4
  <2>2. ASSUME NEW k \in 1..Len(text), k - 1 \in S PROVE k \in S
    <3> DEFINE s == split[k - 1]
    <3>1. TreeShape(s) /\ n \in Nodes(s) /\ Grown(s)
      BY <2>2
    <3>2. split[k] = Step(s, k)
      BY <1>4
    <3>3. points # {} => Filled(s, k - 1)
      BY <2>2
    <3> HIDE DEF s
    <3>4. CASE k \notin DOMAIN chunks
      <4>1. split[k] = s
        BY <3>2, <3>4 DEF Step
      <4>2. \A i \in 1..k : i \in DOMAIN chunks => i \in 1..(k - 1)
        BY <1>2, <3>4
      <4>3. points # {} => Filled(s, k)
        BY <3>3, <4>2
      <4>4. QED
        BY <1>2, <3>1, <4>1, <4>3
    <3>5. CASE k \in DOMAIN chunks
      <4> DEFINE u == AddChunk(s, n, ChunkAt(k), chunks[k])
                 new == Len(s.nodes) + 1
      <4>1. split[k] = u
        BY <3>2, <3>5 DEF Step
      <4>2. /\ TreeShape(u) /\ Nodes(u) = Nodes(s) \cup {new} /\ new \notin Nodes(s)
            /\ \A m \in Nodes(s) : u.nodes[m].text = s.nodes[m].text
            /\ u.nodes[new].text = chunks[k]
        BY <3>1, AddChunkShape
      <4> HIDE DEF u, new
      <4>3. Grown(u)
        BY <3>1, <4>2
      <4>4. ASSUME points # {} PROVE Filled(u, k)
        <5>1. new \in Nodes(u) \ Nodes(t)
          BY <3>1, <4>2
        <5>2. ASSUME NEW m \in Nodes(u) \ Nodes(t) PROVE IsText(u.nodes[m].text)
          <6>1. CASE m = new
            BY <1>14, <3>5, <4>2, <4>4, <6>1
          <6>2. CASE m # new
            BY <3>3, <4>2, <4>4, <6>2
          <6>3. QED
            BY <6>1, <6>2
        <5>3. ASSUME NEW i \in 1..k, i \in DOMAIN chunks
              PROVE  \E m \in Nodes(u) \ Nodes(t) : u.nodes[m].text = chunks[i]
          <6>1. CASE i = k
            BY <4>2, <5>1, <6>1
          <6>2. CASE i # k
            <7>1. i \in 1..(k - 1)
              BY <1>2, <6>2
            <7>2. PICK m \in Nodes(s) \ Nodes(t) : s.nodes[m].text = chunks[i]
              BY <3>3, <4>4, <5>3, <7>1
            <7>3. QED
              BY <4>2, <7>2
          <6>3. QED
            BY <6>1, <6>2
        <5>4. QED
          BY <5>2, <5>3
      <4>5. QED
        BY <1>2, <4>1, <4>3, <4>4
    <3>6. QED
      BY <3>4, <3>5
  <2> HIDE DEF S
  <2>3. Steps(S, Len(text))
    BY <2>1, <2>2 DEF Steps
  <2>4. Len(text) \in S
    BY <1>2, <2>3, StepByStep
  <2>5. QED
    BY <2>4 DEF S
<1> HIDE DEF last
<1> DEFINE nodes == [last.nodes EXCEPT ![n].text = <<>>, ![n].tokens = 0]
<1>6. [last EXCEPT !.nodes[n].text = <<>>, !.nodes[n].tokens = 0] = [last EXCEPT !.nodes = nodes]
  <2>1. "nodes" \in DOMAIN last /\ n \in DOMAIN last.nodes
    BY <1>5 DEF TreeShape, Nodes
  <2>2. QED
    BY <2>1
<1>7. /\ DOMAIN nodes = Nodes(last) /\ nodes = [m \in Nodes(last) |-> nodes[m]]
      /\ \A m \in Nodes(last) : m # n => nodes[m] = last.nodes[m]
      /\ nodes[n] = [last.nodes[n] EXCEPT !.text = <<>>, !.tokens = 0]
  <2>1. IsSeq(last.nodes) /\ n \in DOMAIN last.nodes
    BY <1>5 DEF TreeShape, Nodes
  <2>2. QED
    BY <2>1, SeqFacts DEF Nodes
<1> HIDE DEF nodes
<1>8. ASSUME NEW m \in Nodes(last)
      PROVE  /\ DOMAIN nodes[m] = DOMAIN last.nodes[m]
             /\ nodes[m].kids = last.nodes[m].kids /\ nodes[m].parent = last.nodes[m].parent
             /\ nodes[m].text = IF m = n THEN <<>> ELSE last.nodes[m].text
  <2>1. {"title", "text", "parent", "kids"} \subseteq DOMAIN last.nodes[m]
    BY <1>5 DEF TreeShape, NodeShape
  <2>2. CASE m = n
    BY <1>7, <2>1, <2>2
  <2>3. CASE m # n
    BY <1>7, <2>1, <2>3
  <2>4. QED
    BY <2>2, <2>3
<1>9. /\ TreeShape([last EXCEPT !.nodes = nodes])
      /\ [last EXCEPT !.nodes = nodes].nodes = nodes
      /\ Nodes([last EXCEPT !.nodes = nodes]) = Nodes(last)
  BY <1>5, <1>7, <1>8, NodesWritten
<1> DEFINE after == [last EXCEPT !.nodes = nodes]
<1> HIDE DEF after
<1>10. CASE points = {}
  <2>1. SaysAll(t, t)
    BY SameTexts
  <2>2. QED
    BY <1>1, <1>10, <2>1
<1>11. CASE points # {}
  <2>1. SplitLeaf(t, n) = after
    BY <1>1, <1>6, <1>11 DEF after
  <2>2. /\ TreeShape(after) /\ Nodes(after) = Nodes(last) /\ Nodes(t) \subseteq Nodes(after)
        /\ after.nodes = nodes
    BY <1>5, <1>9 DEF after
  <2> HIDE DEF after
  <2>3. ASSUME NEW m \in Nodes(after) PROVE IsText(after.nodes[m].text)
    <3>1. CASE m = n
      BY <1>8, <2>2, <3>1, EmptyIsText
    <3>2. CASE m # n /\ m \in Nodes(t)
      BY <1>5, <1>8, <2>2, <3>2 DEF TextsSound
    <3>3. CASE m # n /\ m \notin Nodes(t)
      BY <1>5, <1>8, <1>11, <2>2, <3>3
    <3>4. QED
      BY <3>1, <3>2, <3>3
  <2>4. ASSUME NEW x \in TreePieces(t) PROVE x \in TreePieces(after)
    <3>1. PICK m \in Nodes(t) : x \in Pieces(t.nodes[m].text)
      BY DEF TreePieces
    <3>2. CASE m # n
      <4>1. m \in Nodes(after) /\ after.nodes[m].text = t.nodes[m].text
        BY <1>5, <1>8, <2>2, <3>2
      <4>2. QED
        BY <3>1, <4>1 DEF TreePieces
    <3>3. CASE m = n
      <4>1. PICK i \in DOMAIN chunks : x \in Pieces(chunks[i])
        BY <1>11, <1>14, <3>1, <3>3 DEF text
      <4>2. i \in 1..Len(text)
        BY <1>11, <1>14
      <4>3. PICK c \in Nodes(last) \ Nodes(t) : last.nodes[c].text = chunks[i]
        BY <1>5, <1>11, <4>2
      <4>4. c \in Nodes(after) /\ after.nodes[c].text = chunks[i]
        BY <1>8, <2>2, <4>3
      <4>5. QED
        BY <4>1, <4>4 DEF TreePieces
    <3>4. QED
      BY <3>2, <3>3
  <2>5. SaysAll(after, t)
    BY <2>3, <2>4 DEF SaysAll, TextsSound
  <2>6. QED
    BY <2>1, <2>2, <2>5
<1>12. QED
  BY <1>10, <1>11

\* Each leaf there was is split, or not.
LEMMA SplitTreeSays ==
    ASSUME NEW t, TreeShape(t), TextsSound(t)
    PROVE  TreeShape(SplitTree(t)) /\ SaysAll(SplitTree(t), t)
<1> DEFINE TokensOf(s, n) == IF s.nodes[n].tokens > 0 THEN s.nodes[n].tokens
                           ELSE Size(s.nodes[n].text)
           Step(s, i) == IF TokensOf(s, t.leaves[i]) > MaxTokens
                         THEN SplitLeaf(s, t.leaves[i]) ELSE s
           Done(f, k) == f = [i \in 0..k |-> IF i = 0 THEN t ELSE Step(f[i - 1], i)]
           n == Len(t.leaves)
           after == CHOOSE f : Done(f, n)
<1>1. SplitTree(t) = after[n]
  BY DEF SplitTree
<1>2. n \in Nat /\ \A i \in 1..n : t.leaves[i] \in Nodes(t)
  <2>1. IsSeq(t.leaves) /\ ToSet(t.leaves) \subseteq Nodes(t)
    BY DEF TreeShape, LeavesExact
  <2>2. QED
    BY <2>1, SeqFacts DEF ToSet
<1> HIDE DEF TokensOf, Step, n, after
<1>3. Done(after, n)
  <2> DEFINE S == {k \in 0..n : \E f : Done(f, k)}
  <2>1. 0 \in S
    <3> DEFINE f == [i \in 0..0 |-> t]
    <3>1. Done(f, 0)
      BY DEF Done
    <3> HIDE DEF f, Done
    <3>2. QED
      BY <1>2, <3>1
  <2>2. ASSUME NEW k \in 1..n, k - 1 \in S PROVE k \in S
    <3>1. k \in Nat \ {0} /\ k \in 0..n
      BY <1>2
    <3> HIDE DEF Done
    <3>2. PICK f : Done(f, k - 1)
      BY <2>2
    <3> DEFINE v == Step(f[k - 1], k)
    <3> HIDE DEF v
    <3> DEFINE g == Extend(f, k, v)
    <3>3. /\ g = [i \in 0..k |-> g[i]] /\ g[k] = v
          /\ \A i \in 0..(k - 1) : g[i] = f[i]
      BY <3>1, Extended
    <3> HIDE DEF g
    <3>4. \A i \in 0..(k - 1) : f[i] = IF i = 0 THEN t ELSE Step(f[i - 1], i)
      BY <3>2 DEF Done
    <3>5. ASSUME NEW i \in 0..k PROVE g[i] = IF i = 0 THEN t ELSE Step(g[i - 1], i)
      <4>1. CASE i = k
        <5>1. k # 0 /\ k - 1 \in 0..(k - 1)
          BY <3>1
        <5>2. g[k - 1] = f[k - 1]
          BY <3>3, <5>1
        <5>3. QED
          BY <3>3, <4>1, <5>1, <5>2 DEF v
      <4>2. CASE i # k
        <5>1. i \in 0..(k - 1) /\ (i # 0 => i - 1 \in 0..(k - 1))
          BY <3>1, <4>2
        <5>2. g[i] = f[i] /\ (i # 0 => g[i - 1] = f[i - 1])
          BY <3>3, <5>1
        <5>3. QED
          BY <3>4, <5>1, <5>2
      <4>3. QED
        BY <4>1, <4>2
    <3>6. Done(g, k)
      BY <3>3, <3>5 DEF Done
    <3>7. QED
      BY <3>1, <3>6
  <2> HIDE DEF S
  <2>3. Steps(S, n)
    BY <2>1, <2>2 DEF Steps
  <2>4. n \in S
    BY <1>2, <2>3, StepByStep
  <2>5. \E f : Done(f, n)
    <3> HIDE DEF Done
    <3>1. QED
      BY <2>4 DEF S
  <2> HIDE DEF Done
  <2>6. QED
    BY <2>5 DEF after
<1>4. /\ after[0] = t
      /\ \A i \in 1..n : after[i] = Step(after[i - 1], i)
  <2>1. \A i \in 0..n : after[i] = IF i = 0 THEN t ELSE Step(after[i - 1], i)
    BY <1>3
  <2> HIDE DEF Done
  <2>2. 0 \in 0..n /\ \A i \in 1..n : i \in 0..n /\ i # 0
    BY <1>2
  <2>3. QED
    BY <2>1, <2>2
<1> HIDE DEF Done
<1> DEFINE Fine(s) == /\ TreeShape(s) /\ Nodes(t) \subseteq Nodes(s)
                      /\ SaysAll(s, t)
           S == {k \in 0..n : Fine(after[k])}
<1>5. 0 \in S
  BY <1>2, <1>4, SameTexts
<1>6. ASSUME NEW k \in 1..n, k - 1 \in S PROVE k \in S
  <2> DEFINE s == after[k - 1]
  <2>1. Fine(s) /\ t.leaves[k] \in Nodes(t)
    BY <1>2, <1>6
  <2>2. after[k] = Step(s, k)
    BY <1>4
  <2> HIDE DEF s
  <2>3. Fine(SplitLeaf(s, t.leaves[k]))
    BY <2>1, SplitLeafSays DEF SaysAll
  <2>4. Fine(Step(s, k))
    BY <2>1, <2>3 DEF Step
  <2>5. QED
    BY <1>2, <2>2, <2>4
<1> HIDE DEF S
<1>7. Steps(S, n)
  BY <1>5, <1>6 DEF Steps
<1>8. n \in S
  BY <1>2, <1>7, StepByStep
<1>9. QED
  BY <1>1, <1>8 DEF S

(***************************************************************************)
(* build.                                                                  *)
(***************************************************************************)
\* What every node placed keeps.
Building(s, bound) ==
    /\ TreeShape(s.tree) /\ TextsSound(s.tree)
    /\ DOMAIN s.last = 0..bound
    /\ \A l \in 0..bound : s.last[l] = 0 \/ s.last[l] \in Nodes(s.tree)

LEMMA PlaceNodeShape ==
    ASSUME NEW s, NEW bound \in Nat, Building(s, bound),
           NEW r, r.level \in Nat, IsText(r.text)
    PROVE  /\ Building(PlaceNode(s, r), bound)
           /\ TreePieces(s.tree) \cup Pieces(r.text) \subseteq TreePieces(PlaceNode(s, r).tree)
<1> DEFINE lower == {l \in DOMAIN s.last : l < r.level /\ s.last[l] # 0}
           parent == IF lower = {} THEN Root ELSE s.last[Max(lower)]
           g == AddChild(s.tree, parent, r.title, r.text)
           n == Len(g.nodes)
           pages == IF r.page = 0 THEN <<>> ELSE <<r.page, r.page>>
           nodes == [g.nodes EXCEPT ![n].pages = pages, ![n].tokens = r.tokens]
           last == [l \in DOMAIN s.last |->
                      IF l < r.level THEN s.last[l] ELSE IF l = r.level THEN n ELSE 0]
<1>1. parent \in Nodes(s.tree)
  <2>1. Root \in Nodes(s.tree)
    <3>1. IsSeq(s.tree.nodes) /\ Len(s.tree.nodes) # 0
      BY DEF Building, TreeShape
    <3>2. QED
      BY <3>1, SeqFacts DEF Nodes, Root
  <2>2. CASE lower # {}
    <3>1. lower \in SUBSET Nat /\ \A l \in lower : l <= bound
      BY DEF Building
    <3> HIDE DEF lower
    <3>2. Max(lower) \in lower
      BY <2>2, <3>1, MaxOf
    <3>3. s.last[Max(lower)] \in Nodes(s.tree)
      BY <3>2 DEF lower, Building
    <3>4. QED
      BY <2>2, <3>3
  <2>3. QED
    BY <2>1, <2>2
<1> HIDE DEF parent
<1>2. /\ TreeShape(g) /\ Nodes(g) = Nodes(s.tree) \cup {n} /\ n = Len(s.tree.nodes) + 1
      /\ \A m \in Nodes(s.tree) : g.nodes[m].text = s.tree.nodes[m].text
      /\ g.nodes[n].text = r.text
  BY <1>1, AddChildShape DEF Building
<1>3. PlaceNode(s, r).last = last
  BY DEF PlaceNode, parent
<1>4. PlaceNode(s, r).tree = [g EXCEPT !.nodes[n].pages = pages, !.nodes[n].tokens = r.tokens]
  BY DEF PlaceNode, parent
<1> HIDE DEF g, n, pages
<1>5. [g EXCEPT !.nodes[n].pages = pages, !.nodes[n].tokens = r.tokens] = [g EXCEPT !.nodes = nodes]
  <2>1. "nodes" \in DOMAIN g /\ n \in DOMAIN g.nodes
    BY <1>2 DEF TreeShape, Nodes
  <2>2. QED
    BY <2>1
<1>6. /\ DOMAIN nodes = Nodes(g) /\ nodes = [m \in Nodes(g) |-> nodes[m]]
      /\ \A m \in Nodes(g) : m # n => nodes[m] = g.nodes[m]
      /\ nodes[n] = [g.nodes[n] EXCEPT !.pages = pages, !.tokens = r.tokens]
  <2>1. IsSeq(g.nodes) /\ n \in DOMAIN g.nodes
    BY <1>2 DEF TreeShape, Nodes
  <2>2. QED
    BY <2>1, SeqFacts DEF Nodes
<1> HIDE DEF nodes
<1>7. ASSUME NEW m \in Nodes(g)
      PROVE  /\ DOMAIN nodes[m] = DOMAIN g.nodes[m]
             /\ nodes[m].kids = g.nodes[m].kids /\ nodes[m].parent = g.nodes[m].parent
             /\ nodes[m].text = g.nodes[m].text
  <2>1. {"title", "text", "parent", "kids"} \subseteq DOMAIN g.nodes[m]
    BY <1>2 DEF TreeShape, NodeShape
  <2>2. CASE m = n
    BY <1>6, <2>1, <2>2
  <2>3. CASE m # n
    BY <1>6, <2>1, <2>3
  <2>4. QED
    BY <2>2, <2>3
<1> HIDE DEF last, lower
<1> DEFINE after == [g EXCEPT !.nodes = nodes]
<1>8. TreeShape(after) /\ after.nodes = nodes /\ Nodes(after) = Nodes(g)
  <2>1. TreeShape(g)
    BY <1>2
  <2>2. \A m \in Nodes(g) :
           /\ DOMAIN nodes[m] = DOMAIN g.nodes[m]
           /\ nodes[m].kids = g.nodes[m].kids /\ nodes[m].parent = g.nodes[m].parent
    BY <1>7
  <2>3. QED
    BY <1>6, <2>1, <2>2, NodesWritten
<1>9. PlaceNode(s, r).tree = after
  BY <1>4, <1>5
<1> HIDE DEF after
<1>10. TextsSound(after) /\ TreePieces(s.tree) \cup Pieces(r.text) \subseteq TreePieces(after)
  <2>1. \A m \in Nodes(g) : after.nodes[m].text = g.nodes[m].text
    BY <1>7, <1>8
  <2>2. \A m \in Nodes(g) : IsText(g.nodes[m].text)
    BY <1>2 DEF Building, TextsSound
  <2>3. TreePieces(s.tree) \subseteq TreePieces(g) /\ Pieces(r.text) \subseteq TreePieces(g)
    BY <1>2 DEF TreePieces
  <2>4. QED
    BY <1>8, <2>1, <2>2, <2>3 DEF TextsSound, TreePieces
<1>11. \A l \in 0..bound : last[l] = 0 \/ last[l] \in Nodes(after)
  BY <1>2, <1>8 DEF Building, last
<1>12. DOMAIN last = 0..bound
  BY DEF Building, last
<1>13. QED
  BY <1>3, <1>8, <1>9, <1>10, <1>11, <1>12 DEF Building

LEMMA LevelsBounded ==
    ASSUME NEW rs, IsRaw(rs), rs # <<>>
    PROVE  Max({rs[i].level : i \in DOMAIN rs}) \in Nat
<1> DEFINE levels == {rs[i].level : i \in DOMAIN rs}
           n == Len(rs)
           S == {k \in 0..n : \E b \in Nat : \A i \in 1..k : rs[i].level <= b}
<1>1. /\ n \in Nat /\ DOMAIN rs = 1..n /\ n # 0
      /\ \A i \in 1..n : rs[i].level \in Nat
  BY SeqFacts, EmptySeq DEF IsRaw, IsSeq
<1> HIDE DEF n
<1>2. 0 \in S
  BY <1>1
<1>3. ASSUME NEW k \in 1..n, k - 1 \in S PROVE k \in S
  <2>1. PICK b \in Nat : \A i \in 1..(k - 1) : rs[i].level <= b
    BY <1>3
  <2>2. rs[k].level \in Nat /\ k \in 0..n
    BY <1>1
  <2>3. PICK c \in Nat : b <= c /\ rs[k].level <= c
    BY <2>2
  <2>4. ASSUME NEW i \in 1..k PROVE rs[i].level <= c
    <3>1. CASE i = k
      BY <2>3, <3>1
    <3>2. CASE i # k
      <4>1. i \in 1..(k - 1) /\ i \in 1..n
        BY <1>1, <3>2
      <4>2. rs[i].level \in Nat /\ rs[i].level <= b
        BY <1>1, <2>1, <4>1
      <4>3. QED
        BY <2>3, <4>2
    <3>3. QED
      BY <3>1, <3>2
  <2>5. QED
    BY <2>2, <2>4
<1> HIDE DEF S
<1>4. n \in S
  <2>1. Steps(S, n)
    BY <1>2, <1>3 DEF Steps
  <2>2. QED
    BY <1>1, <2>1, StepByStep
<1>5. PICK b \in Nat : \A i \in 1..n : rs[i].level <= b
  BY <1>4 DEF S
<1>6. levels \in SUBSET Nat /\ levels # {} /\ \A l \in levels : l <= b
  BY <1>1, <1>5
<1> HIDE DEF levels
<1>7. Max(levels) \in levels
  BY <1>6, MaxOf
<1>8. QED
  BY <1>6, <1>7 DEF levels

LEMMA BuildTreeSays ==
    ASSUME NEW rs, IsRaw(rs), rs # <<>>, NEW name
    PROVE  /\ TreeShape(BuildTree(rs, name)) /\ TextsSound(BuildTree(rs, name))
           /\ RawPieces(rs) \subseteq TreePieces(BuildTree(rs, name))
<1> DEFINE bound == Max({rs[i].level : i \in DOMAIN rs})
           levels == 0..bound
           start == [tree |-> NewTree(Title(name)),
                     last |-> [l \in levels |-> IF l = 0 THEN Root ELSE 0]]
           Step(s, k) == PlaceNode(s, rs[k])
           Done(f, k) == f = [i \in 0..k |-> IF i = 0 THEN start ELSE Step(f[i - 1], i)]
           n == Len(rs)
           placed == CHOOSE f : Done(f, n)
<1>1. BuildTree(rs, name) = placed[n].tree
  BY DEF BuildTree
<1>2. n \in Nat /\ DOMAIN rs = 1..n /\ \A i \in 1..n : rs[i].level \in Nat /\ IsText(rs[i].text)
  BY SeqFacts DEF IsRaw
<1>3. bound \in Nat
  BY LevelsBounded
<1> HIDE DEF bound
<1>4. Building(start, bound)
  <2>1. /\ TreeShape(start.tree) /\ Nodes(start.tree) = {Root}
        /\ IsText(start.tree.nodes[Root].text)
    BY NewTreeShape, EmptyIsText
  <2>2. DOMAIN start.last = 0..bound /\ \A l \in 0..bound : start.last[l] \in {0, Root}
    OBVIOUS
  <2> HIDE DEF start
  <2>3. QED
    BY <2>1, <2>2 DEF Building, TextsSound
<1> HIDE DEF start, Step, n, placed
<1>5. Done(placed, n)
  <2> DEFINE S == {k \in 0..n : \E f : Done(f, k)}
  <2>1. 0 \in S
    <3> DEFINE f == [i \in 0..0 |-> start]
    <3>1. Done(f, 0)
      BY DEF Done
    <3> HIDE DEF f, Done
    <3>2. QED
      BY <1>2, <3>1
  <2>2. ASSUME NEW k \in 1..n, k - 1 \in S PROVE k \in S
    <3>1. k \in Nat \ {0} /\ k \in 0..n
      BY <1>2
    <3> HIDE DEF Done
    <3>2. PICK f : Done(f, k - 1)
      BY <2>2
    <3> DEFINE v == Step(f[k - 1], k)
    <3> HIDE DEF v
    <3> DEFINE g == Extend(f, k, v)
    <3>3. /\ g = [i \in 0..k |-> g[i]] /\ g[k] = v
          /\ \A i \in 0..(k - 1) : g[i] = f[i]
      BY <3>1, Extended
    <3> HIDE DEF g
    <3>4. \A i \in 0..(k - 1) : f[i] = IF i = 0 THEN start ELSE Step(f[i - 1], i)
      BY <3>2 DEF Done
    <3>5. ASSUME NEW i \in 0..k PROVE g[i] = IF i = 0 THEN start ELSE Step(g[i - 1], i)
      <4>1. CASE i = k
        <5>1. k # 0 /\ k - 1 \in 0..(k - 1)
          BY <3>1
        <5>2. g[k - 1] = f[k - 1]
          BY <3>3, <5>1
        <5>3. QED
          BY <3>3, <4>1, <5>1, <5>2 DEF v
      <4>2. CASE i # k
        <5>1. i \in 0..(k - 1) /\ (i # 0 => i - 1 \in 0..(k - 1))
          BY <3>1, <4>2
        <5>2. g[i] = f[i] /\ (i # 0 => g[i - 1] = f[i - 1])
          BY <3>3, <5>1
        <5>3. QED
          BY <3>4, <5>1, <5>2
      <4>3. QED
        BY <4>1, <4>2
    <3>6. Done(g, k)
      BY <3>3, <3>5 DEF Done
    <3>7. QED
      BY <3>1, <3>6
  <2> HIDE DEF S
  <2>3. Steps(S, n)
    BY <2>1, <2>2 DEF Steps
  <2>4. n \in S
    BY <1>2, <2>3, StepByStep
  <2>5. \E f : Done(f, n)
    <3> HIDE DEF Done
    <3>1. QED
      BY <2>4 DEF S
  <2> HIDE DEF Done
  <2>6. QED
    BY <2>5 DEF placed
<1>6. /\ placed[0] = start
      /\ \A i \in 1..n : placed[i] = Step(placed[i - 1], i)
  BY <1>2, <1>5
<1> HIDE DEF Done
<1> DEFINE Placed(k) == \A i \in 1..k : Pieces(rs[i].text) \subseteq TreePieces(placed[k].tree)
           S == {k \in 0..n : Building(placed[k], bound) /\ Placed(k)}
<1>7. 0 \in S
  BY <1>2, <1>4, <1>6
<1>8. ASSUME NEW k \in 1..n, k - 1 \in S PROVE k \in S
  <2>1. /\ Building(placed[k - 1], bound) /\ placed[k] = PlaceNode(placed[k - 1], rs[k])
        /\ Placed(k - 1)
    BY <1>6, <1>8 DEF Step
  <2>2. /\ Building(placed[k], bound)
        /\ TreePieces(placed[k - 1].tree) \subseteq TreePieces(placed[k].tree)
        /\ Pieces(rs[k].text) \subseteq TreePieces(placed[k].tree)
    BY <1>2, <1>3, <2>1, PlaceNodeShape
  <2>3. \A i \in 1..k : i = k \/ i \in 1..(k - 1)
    BY <1>2
  <2>4. Placed(k)
    BY <2>1, <2>2, <2>3
  <2>5. QED
    BY <1>2, <2>2, <2>4
<1> HIDE DEF S
<1>9. Steps(S, n)
  BY <1>7, <1>8 DEF Steps
<1>10. Building(placed[n], bound) /\ Placed(n)
  <2>1. n \in S
    BY <1>2, <1>9, StepByStep
  <2>2. QED
    BY <2>1 DEF S
<1>12. RawPieces(rs) \subseteq TreePieces(placed[n].tree)
  BY <1>2, <1>10 DEF RawPieces
<1>11. QED
  BY <1>1, <1>10, <1>12 DEF Building

(***************************************************************************)
(* thinning.                                                               *)
(***************************************************************************)
\* A text merged has what its node and the nodes below it said.
LEMMA MergedTextSays ==
    ASSUME NEW rs, IsRaw(rs), NEW i \in DOMAIN rs
    PROVE  /\ IsText(MergedText(rs, i))
           /\ Pieces(rs[i].text) \subseteq Pieces(MergedText(rs, i))
           /\ \A j \in Below(rs, i) : Pieces(rs[j].text) \subseteq Pieces(MergedText(rs, i))
<1> DEFINE n == Len(rs) - i
           Step(s, k) == IF i + k \in Below(rs, i) THEN Join(s, rs[i + k].text) ELSE s
           base == rs[i].text
           Done(f, k) == f = [j \in 0..k |-> IF j = 0 THEN base ELSE Step(f[j - 1], j)]
           joined == CHOOSE f : Done(f, n)
<1>1. MergedText(rs, i) = joined[n]
  BY DEF MergedText
<1>2. /\ n \in Nat /\ IsText(base)
      /\ \A k \in 1..n : i + k \in DOMAIN rs /\ IsText(rs[i + k].text)
  BY SeqFacts DEF IsRaw
<1>10. \A j \in Below(rs, i) : j - i \in 1..n /\ i + (j - i) = j
  BY SeqFacts DEF IsRaw, Below
<1>11. ASSUME NEW a, IsText(a), NEW k \in 1..n
       PROVE  /\ IsText(Step(a, k)) /\ Pieces(a) \subseteq Pieces(Step(a, k))
              /\ i + k \in Below(rs, i) => Pieces(rs[i + k].text) \subseteq Pieces(Step(a, k))
  BY <1>2, <1>11, JoinIsText
<1>12. base = rs[i].text
  OBVIOUS
<1> HIDE DEF Step, n, base, joined
<1>3. Done(joined, n)
  <2> DEFINE S == {k \in 0..n : \E f : Done(f, k)}
  <2>1. 0 \in S
    <3> DEFINE f == [j \in 0..0 |-> base]
    <3>1. Done(f, 0)
      BY DEF Done
    <3> HIDE DEF f, Done
    <3>2. QED
      BY <1>2, <3>1
  <2>2. ASSUME NEW k \in 1..n, k - 1 \in S PROVE k \in S
    <3>1. k \in Nat \ {0} /\ k \in 0..n
      BY <1>2
    <3> HIDE DEF Done
    <3>2. PICK f : Done(f, k - 1)
      BY <2>2
    <3> DEFINE v == Step(f[k - 1], k)
    <3> HIDE DEF v
    <3> DEFINE g == Extend(f, k, v)
    <3>3. /\ g = [j \in 0..k |-> g[j]] /\ g[k] = v
          /\ \A j \in 0..(k - 1) : g[j] = f[j]
      BY <3>1, Extended
    <3> HIDE DEF g
    <3>4. \A j \in 0..(k - 1) : f[j] = IF j = 0 THEN base ELSE Step(f[j - 1], j)
      BY <3>2 DEF Done
    <3>5. ASSUME NEW j \in 0..k PROVE g[j] = IF j = 0 THEN base ELSE Step(g[j - 1], j)
      <4>1. CASE j = k
        <5>1. k # 0 /\ k - 1 \in 0..(k - 1)
          BY <3>1
        <5>2. g[k - 1] = f[k - 1]
          BY <3>3, <5>1
        <5>3. QED
          BY <3>3, <4>1, <5>1, <5>2 DEF v
      <4>2. CASE j # k
        <5>1. j \in 0..(k - 1) /\ (j # 0 => j - 1 \in 0..(k - 1))
          BY <3>1, <4>2
        <5>2. g[j] = f[j] /\ (j # 0 => g[j - 1] = f[j - 1])
          BY <3>3, <5>1
        <5>3. QED
          BY <3>4, <5>1, <5>2
      <4>3. QED
        BY <4>1, <4>2
    <3>6. Done(g, k)
      BY <3>3, <3>5 DEF Done
    <3>7. QED
      BY <3>1, <3>6
  <2> HIDE DEF S
  <2>3. Steps(S, n)
    BY <2>1, <2>2 DEF Steps
  <2>4. n \in S
    BY <1>2, <2>3, StepByStep
  <2>5. \E f : Done(f, n)
    <3> HIDE DEF Done
    <3>1. QED
      BY <2>4 DEF S
  <2> HIDE DEF Done
  <2>6. QED
    BY <2>5 DEF joined
<1>4. /\ joined[0] = base
      /\ \A j \in 1..n : joined[j] = Step(joined[j - 1], j)
  BY <1>2, <1>3
<1> HIDE DEF Done
<1> DEFINE Said(k) == /\ IsText(joined[k]) /\ Pieces(base) \subseteq Pieces(joined[k])
                      /\ \A l \in 1..k : i + l \in Below(rs, i) =>
                            Pieces(rs[i + l].text) \subseteq Pieces(joined[k])
           S == {k \in 0..n : Said(k)}
<1>5. 0 \in S
  BY <1>2, <1>4
<1>6. ASSUME NEW k \in 1..n, k - 1 \in S PROVE k \in S
  <2>1. Said(k - 1) /\ joined[k] = Step(joined[k - 1], k)
    BY <1>4, <1>6
  <2>2. /\ IsText(joined[k]) /\ Pieces(joined[k - 1]) \subseteq Pieces(joined[k])
        /\ i + k \in Below(rs, i) => Pieces(rs[i + k].text) \subseteq Pieces(joined[k])
    BY <1>11, <2>1
  <2>3. \A l \in 1..k : l = k \/ l \in 1..(k - 1)
    BY <1>2
  <2>4. Said(k)
    BY <2>1, <2>2, <2>3
  <2>5. QED
    BY <1>2, <2>4
<1> HIDE DEF S
<1>7. Steps(S, n)
  BY <1>5, <1>6 DEF Steps
<1>8. Said(n)
  <2>1. n \in S
    BY <1>2, <1>7, StepByStep
  <2>2. QED
    BY <2>1 DEF S
<1>9. QED
  BY <1>1, <1>8, <1>10, <1>12

\* What every node looked at keeps: the first node stays, and if texts are
\* merged, some node that stays says what any raw node did.
Thinning(s, rs, merge) ==
    /\ IsRaw(s.raw) /\ DOMAIN s.raw = DOMAIN rs
    /\ s.keep \subseteq DOMAIN rs /\ 1 \in s.keep
    /\ merge => \A x \in RawPieces(rs) : \E j \in s.keep : x \in Pieces(s.raw[j].text)

LEMMA ThinNodeKeeps ==
    ASSUME NEW s, NEW rs, IsRaw(rs), NEW merge, Thinning(s, rs, merge),
           NEW i \in DOMAIN rs, NEW total
    PROVE  Thinning(ThinNode(s, i, total, merge), rs, merge)
<1> DEFINE merged == [s.raw EXCEPT ![i].text = MergedText(s.raw, i)]
           B == Below(s.raw, i)
<1>1. IsRaw(s.raw) /\ DOMAIN s.raw = DOMAIN rs
  BY DEF Thinning
<1>2. /\ IsText(MergedText(s.raw, i))
      /\ Pieces(s.raw[i].text) \subseteq Pieces(MergedText(s.raw, i))
      /\ \A j \in B : Pieces(s.raw[j].text) \subseteq Pieces(MergedText(s.raw, i))
  BY <1>1, MergedTextSays
<1>3. Len(s.raw) \in Nat /\ DOMAIN s.raw = 1..Len(s.raw) /\ i \in DOMAIN s.raw
  BY <1>1, SeqFacts DEF IsRaw
<1>4. /\ DOMAIN merged = DOMAIN s.raw /\ merged = [j \in 1..Len(s.raw) |-> merged[j]]
      /\ \A j \in DOMAIN s.raw : j # i => merged[j] = s.raw[j]
      /\ merged[i] = [s.raw[i] EXCEPT !.text = MergedText(s.raw, i)]
  <2>1. IsSeq(s.raw)
    BY <1>1 DEF IsRaw
  <2>2. QED
    BY <1>3, <2>1, SeqFacts
<1> HIDE DEF merged
<1>5. IsSeq(merged)
  BY <1>3, <1>4, FunctionIsSeq
<1>10. merged[i].text = MergedText(s.raw, i)
  <2>1. "text" \in DOMAIN s.raw[i]
    BY <1>1, <1>3 DEF IsRaw
  <2>2. QED
    BY <1>4, <2>1
<1>6. ASSUME NEW j \in DOMAIN merged
      PROVE  /\ DOMAIN merged[j] = {"title", "level", "text", "page", "tokens"}
             /\ merged[j].level \in Nat /\ IsText(merged[j].text)
  <2>1. /\ DOMAIN s.raw[j] = {"title", "level", "text", "page", "tokens"}
        /\ s.raw[j].level \in Nat /\ IsText(s.raw[j].text)
    BY <1>1, <1>4 DEF IsRaw
  <2>2. CASE j = i
    BY <1>2, <1>4, <2>1, <2>2
  <2>3. CASE j # i
    BY <1>4, <2>1, <2>3
  <2>4. QED
    BY <2>2, <2>3
<1>7. IsRaw(merged)
  BY <1>5, <1>6 DEF IsRaw
<1>8. 1 \notin B /\ i \notin B
  BY <1>3 DEF Below
<1> HIDE DEF B
<1>11. CASE i \notin s.keep \/ total[i] >= Thin
  <2>1. ThinNode(s, i, total, merge) = s
    BY <1>11 DEF ThinNode
  <2>2. QED
    BY <2>1
<1>12. CASE i \in s.keep /\ ~(total[i] >= Thin)
  <2> DEFINE new == IF merge THEN merged ELSE s.raw
             keep == s.keep \ B
             after == [raw |-> new, keep |-> keep]
  <2>1. ThinNode(s, i, total, merge) = after
    BY <1>12 DEF ThinNode, merged, B
  <2>2. IsRaw(new) /\ DOMAIN new = DOMAIN rs
    BY <1>1, <1>4, <1>7
  <2>3. keep \subseteq DOMAIN rs /\ 1 \in keep
    BY <1>8 DEF Thinning
  <2>4. ASSUME merge, NEW x \in RawPieces(rs) PROVE \E j \in keep : x \in Pieces(new[j].text)
    <3>1. PICK j \in s.keep : x \in Pieces(s.raw[j].text)
      BY <2>4 DEF Thinning
    <3>2. new = merged
      BY <2>4
    <3>3. j \in DOMAIN s.raw
      BY <1>1 DEF Thinning
    <3>4. CASE j = i \/ j \in B
      <4>1. x \in Pieces(new[i].text)
        BY <1>2, <1>10, <3>1, <3>2, <3>4
      <4>2. i \in keep
        BY <1>8, <1>12
      <4>3. QED
        BY <4>1, <4>2
    <3>5. CASE j # i /\ j \notin B
      <4>1. new[j] = s.raw[j] /\ j \in keep
        BY <1>4, <3>2, <3>3, <3>5
      <4>2. QED
        BY <3>1, <4>1
    <3>6. QED
      BY <3>4, <3>5
  <2> HIDE DEF new, keep
  <2>5. after.raw = new /\ after.keep = keep
    OBVIOUS
  <2> HIDE DEF after
  <2>6. Thinning(after, rs, merge)
    BY <2>2, <2>3, <2>4, <2>5 DEF Thinning
  <2>7. QED
    BY <2>1, <2>6
<1>13. QED
  BY <1>11, <1>12

LEMMA ThinnedKeeps ==
    ASSUME NEW rs, IsRaw(rs), rs # <<>>, NEW merge
    PROVE  Thinning(Thinned(rs, merge), rs, merge)
<1> DEFINE n == Len(rs)
           base == [raw |-> rs, keep |-> DOMAIN rs]
           Step(s, k) == ThinNode(s, n + 1 - k, Totals(rs), merge)
           Done(f, k) == f = [i \in 0..k |-> IF i = 0 THEN base ELSE Step(f[i - 1], i)]
           done == CHOOSE f : Done(f, n)
<1>1. Thinned(rs, merge) = done[n]
  BY DEF Thinned
<1>2. n \in Nat /\ DOMAIN rs = 1..n /\ n # 0
  BY SeqFacts, EmptySeq DEF IsRaw, IsSeq
<1>3. Thinning(base, rs, merge)
  <2>1. base.raw = rs /\ base.keep = DOMAIN rs
    OBVIOUS
  <2> HIDE DEF base
  <2>2. QED
    BY <1>2, <2>1 DEF Thinning, RawPieces
<1> HIDE DEF Step, n, base, done
<1>4. Done(done, n)
  <2> DEFINE S == {k \in 0..n : \E f : Done(f, k)}
  <2>1. 0 \in S
    <3> DEFINE f == [i \in 0..0 |-> base]
    <3>1. Done(f, 0)
      BY DEF Done
    <3> HIDE DEF f, Done
    <3>2. QED
      BY <1>2, <3>1
  <2>2. ASSUME NEW k \in 1..n, k - 1 \in S PROVE k \in S
    <3>1. k \in Nat \ {0} /\ k \in 0..n
      BY <1>2
    <3> HIDE DEF Done
    <3>2. PICK f : Done(f, k - 1)
      BY <2>2
    <3> DEFINE v == Step(f[k - 1], k)
    <3> HIDE DEF v
    <3> DEFINE g == Extend(f, k, v)
    <3>3. /\ g = [i \in 0..k |-> g[i]] /\ g[k] = v
          /\ \A i \in 0..(k - 1) : g[i] = f[i]
      BY <3>1, Extended
    <3> HIDE DEF g
    <3>4. \A i \in 0..(k - 1) : f[i] = IF i = 0 THEN base ELSE Step(f[i - 1], i)
      BY <3>2 DEF Done
    <3>5. ASSUME NEW i \in 0..k PROVE g[i] = IF i = 0 THEN base ELSE Step(g[i - 1], i)
      <4>1. CASE i = k
        <5>1. k # 0 /\ k - 1 \in 0..(k - 1)
          BY <3>1
        <5>2. g[k - 1] = f[k - 1]
          BY <3>3, <5>1
        <5>3. QED
          BY <3>3, <4>1, <5>1, <5>2 DEF v
      <4>2. CASE i # k
        <5>1. i \in 0..(k - 1) /\ (i # 0 => i - 1 \in 0..(k - 1))
          BY <3>1, <4>2
        <5>2. g[i] = f[i] /\ (i # 0 => g[i - 1] = f[i - 1])
          BY <3>3, <5>1
        <5>3. QED
          BY <3>4, <5>1, <5>2
      <4>3. QED
        BY <4>1, <4>2
    <3>6. Done(g, k)
      BY <3>3, <3>5 DEF Done
    <3>7. QED
      BY <3>1, <3>6
  <2> HIDE DEF S
  <2>3. Steps(S, n)
    BY <2>1, <2>2 DEF Steps
  <2>4. n \in S
    BY <1>2, <2>3, StepByStep
  <2>5. \E f : Done(f, n)
    <3> HIDE DEF Done
    <3>1. QED
      BY <2>4 DEF S
  <2> HIDE DEF Done
  <2>6. QED
    BY <2>5 DEF done
<1>5. /\ done[0] = base
      /\ \A i \in 1..n : done[i] = Step(done[i - 1], i)
  BY <1>2, <1>4
<1> HIDE DEF Done
<1> DEFINE S == {k \in 0..n : Thinning(done[k], rs, merge)}
<1>6. 0 \in S
  BY <1>2, <1>3, <1>5
<1>7. ASSUME NEW k \in 1..n, k - 1 \in S PROVE k \in S
  <2>1. Thinning(done[k - 1], rs, merge) /\ done[k] = Step(done[k - 1], k)
    BY <1>5, <1>7
  <2>2. n + 1 - k \in DOMAIN rs
    BY <1>2
  <2>3. Thinning(Step(done[k - 1], k), rs, merge)
    BY <2>1, <2>2, ThinNodeKeeps DEF Step
  <2>4. QED
    BY <1>2, <2>1, <2>3
<1> HIDE DEF S
<1>8. Steps(S, n)
  BY <1>6, <1>7 DEF Steps
<1>9. n \in S
  BY <1>2, <1>8, StepByStep
<1>10. QED
  BY <1>1, <1>9 DEF S

\* What thinning keeps of raw nodes are raw nodes again, and there are some;
\* unless it drops texts, they say what all of them said.
LEMMA KeptSays ==
    ASSUME NEW rs, IsRaw(rs), rs # <<>>, NEW thinning
    PROVE  /\ IsRaw(Kept(rs, thinning)) /\ Kept(rs, thinning) # <<>>
           /\ thinning \in {"off", "merge"} => RawPieces(rs) \subseteq RawPieces(Kept(rs, thinning))
<1> DEFINE merge == thinning = "merge"
           s == Thinned(rs, merge)
           keep == s.keep \cup Restored(rs, s.keep)
           kept == At(s.raw, keep)
<1>1. Thinning(s, rs, merge)
  BY ThinnedKeeps
<1>2. Kept(rs, thinning) = IF thinning = "off" THEN rs ELSE kept
  BY DEF Kept
<1>3. Restored(rs, s.keep) \subseteq DOMAIN rs
  BY DEF Restored
<1> HIDE DEF s
<1>4. keep \in SUBSET DOMAIN s.raw /\ s.keep \subseteq keep /\ 1 \in keep /\ IsRaw(s.raw)
  BY <1>1, <1>3 DEF Thinning
<1> HIDE DEF keep
<1>5. IsSeq(kept) /\ ToSet(kept) = {s.raw[i] : i \in keep}
  BY <1>4, AtExact DEF IsRaw
<1> HIDE DEF kept
<1>6. \A k \in DOMAIN kept : \E i \in DOMAIN s.raw : kept[k] = s.raw[i]
  BY <1>4, <1>5 DEF ToSet
<1>7. IsRaw(kept)
  BY <1>4, <1>5, <1>6 DEF IsRaw
<1>8. kept # <<>>
  BY <1>4, <1>5, EmptyIsSeq
<1>9. ASSUME merge PROVE RawPieces(rs) \subseteq RawPieces(kept)
  <2> SUFFICES ASSUME NEW x \in RawPieces(rs) PROVE x \in RawPieces(kept)
    OBVIOUS
  <2>1. PICK j \in s.keep : x \in Pieces(s.raw[j].text)
    BY <1>1, <1>9 DEF Thinning
  <2>2. PICK k \in DOMAIN kept : kept[k] = s.raw[j]
    BY <1>4, <1>5 DEF ToSet
  <2>3. QED
    BY <2>1, <2>2 DEF RawPieces
<1>10. QED
  BY <1>2, <1>7, <1>8, <1>9

(***************************************************************************)
(* Passes that write the nodes each by itself.                             *)
(***************************************************************************)
WrittenFrom(nodes, t) ==
    /\ DOMAIN nodes = Nodes(t) /\ nodes = [n \in Nodes(t) |-> nodes[n]]
    /\ \A n \in Nodes(t) :
          /\ DOMAIN nodes[n] = DOMAIN t.nodes[n]
          /\ nodes[n].kids = t.nodes[n].kids /\ nodes[n].parent = t.nodes[n].parent

LEMMA WrittenShape ==
    ASSUME NEW t, TreeShape(t), NEW nodes, WrittenFrom(nodes, t)
    PROVE  TreeShape([t EXCEPT !.nodes = nodes]) /\ Nodes([t EXCEPT !.nodes = nodes]) = Nodes(t)
           /\ [t EXCEPT !.nodes = nodes].nodes = nodes
BY NodesWritten DEF WrittenFrom

LEMMA NodeFields ==
    ASSUME NEW t, TreeShape(t), NEW n \in Nodes(t)
    PROVE  {"title", "text", "parent", "kids"} \subseteq DOMAIN t.nodes[n]
BY DEF TreeShape, NodeShape

LEMMA WrittenSays ==
    ASSUME NEW t, TreeShape(t), TextsSound(t), NEW nodes, WrittenFrom(nodes, t),
           \A n \in Nodes(t) : nodes[n].text = t.nodes[n].text
    PROVE  TreeShape([t EXCEPT !.nodes = nodes]) /\ SaysAll([t EXCEPT !.nodes = nodes], t)
<1> DEFINE s == [t EXCEPT !.nodes = nodes]
<1>1. TreeShape(s) /\ Nodes(s) = Nodes(t) /\ s.nodes = nodes
  BY WrittenShape
<1> HIDE DEF s
<1>2. SaysAll(s, t)
  BY <1>1, SameTexts
<1>3. QED
  BY <1>1, <1>2 DEF s

LEMMA AssignIdsSays ==
    ASSUME NEW t, TreeShape(t), TextsSound(t)
    PROVE  TreeShape(AssignIds(t)) /\ SaysAll(AssignIds(t), t)
<1> DEFINE key(n) == CHOOSE k \in 1..Len(t.nodes) : Traverse(t)[k] = n
           nodes == [n \in DOMAIN t.nodes |-> [t.nodes[n] EXCEPT !.key = key(n)]]
<1>1. AssignIds(t) = [t EXCEPT !.nodes = nodes]
  BY DEF AssignIds
<1> HIDE DEF key
<1>2. WrittenFrom(nodes, t) /\ \A n \in Nodes(t) : nodes[n].text = t.nodes[n].text
  BY NodeFields DEF WrittenFrom, Nodes
<1> HIDE DEF nodes
<1>3. QED
  BY <1>1, <1>2, WrittenSays

LEMMA AnnotatedSays ==
    ASSUME NEW t, TreeShape(t), TextsSound(t), NEW S
    PROVE  TreeShape(Annotated(t, S)) /\ SaysAll(Annotated(t, S), t)
<1> DEFINE nodes == [n \in DOMAIN t.nodes |->
               IF n \in S THEN [t.nodes[n] EXCEPT !.hints = 1, !.tags = {t.nodes[n].title.name}]
               ELSE t.nodes[n]]
<1>1. Annotated(t, S) = [t EXCEPT !.nodes = nodes]
  BY DEF Annotated
<1>2. WrittenFrom(nodes, t) /\ \A n \in Nodes(t) : nodes[n].text = t.nodes[n].text
  BY NodeFields DEF WrittenFrom, Nodes
<1> HIDE DEF nodes
<1>3. QED
  BY <1>1, <1>2, WrittenSays

LEMMA EnrichSays ==
    ASSUME NEW t, TreeShape(t), TextsSound(t)
    PROVE  TreeShape(Enrich(t)) /\ SaysAll(Enrich(t), t)
<1>1. TreeShape(PageRanges(t)) /\ SaysAll(PageRanges(t), t)
  <2> DEFINE range == CHOOSE f : f = [k \in Nodes(t) |->
                 LET below == {f[c] : c \in ToSet(Children(t, k))} \ {<<>>}
                 IN  IF below = {} THEN t.nodes[k].pages
                     ELSE <<Min({r[1] : r \in below}), Max({r[2] : r \in below})>>]
             nodes == [k \in 1..Len(t.nodes) |-> [t.nodes[k] EXCEPT !.pages = range[k]]]
  <2>1. PageRanges(t) = [t EXCEPT !.nodes = nodes]
    BY DEF PageRanges
  <2> HIDE DEF range
  <2>2. Nodes(t) = 1..Len(t.nodes)
    BY SeqFacts DEF TreeShape, Nodes
  <2>3. WrittenFrom(nodes, t) /\ \A n \in Nodes(t) : nodes[n].text = t.nodes[n].text
    BY <2>2, NodeFields DEF WrittenFrom
  <2> HIDE DEF nodes
  <2>4. TreeShape([t EXCEPT !.nodes = nodes]) /\ SaysAll([t EXCEPT !.nodes = nodes], t)
    BY <2>3, WrittenSays
  <2>5. QED
    BY <2>1, <2>4
<1>2. ASSUME NEW s, TreeShape(s), TextsSound(s)
      PROVE  TreeShape(ResolveReferences(s)) /\ SaysAll(ResolveReferences(s), s)
  <2> DEFINE Filled(refs) == [i \in DOMAIN refs |->
               [kind |-> refs[i].kind, target |-> refs[i].target, node |-> Resolve(s, refs[i])]]
             refs(n) == Filled(ExtractReferences(s.nodes[n].text))
             nodes == [n \in DOMAIN s.nodes |-> [s.nodes[n] EXCEPT !.refs = refs(n)]]
  <2>1. ResolveReferences(s) = [s EXCEPT !.nodes = nodes]
    BY DEF ResolveReferences
  <2> HIDE DEF refs
  <2>2. WrittenFrom(nodes, s) /\ \A n \in Nodes(s) : nodes[n].text = s.nodes[n].text
    BY <1>2, NodeFields DEF WrittenFrom, Nodes
  <2> HIDE DEF nodes
  <2>3. QED
    BY <1>2, <2>1, <2>2, WrittenSays
<1>3. QED
  BY <1>1, <1>2 DEF Enrich, SaysAll

\* A node that takes in the next has one behind it.
LEMMA TakersHaveNext ==
    ASSUME NEW t, TreeShape(t), NEW p \in Nodes(t), NEW m \in Takers(t, p)
    PROVE  NextSibling(t, m) \in Nodes(t)
<1> DEFINE kids == Children(t, p)
           Candidate(c) == IsLeaf(t, c) /\ t.nodes[c].tokens \in 1..(Small - 1)
           n == Len(kids)
           Rule(f, i) == /\ i < Len(kids) /\ Candidate(kids[i]) /\ Candidate(kids[i + 1])
                         /\ i > 1 => ~f[i - 1]
           takes == CHOOSE f : f = [i \in DOMAIN kids |-> Rule(f, i)]
           base == FALSE
           Step(b, i) == /\ i < Len(kids) /\ Candidate(kids[i]) /\ Candidate(kids[i + 1])
                         /\ i > 1 => ~b
           Done(f, k) == f = [i \in 0..k |-> IF i = 0 THEN base ELSE Step(f[i - 1], i)]
           steps == CHOOSE f : Done(f, n)
<1>1. Takers(t, p) = {kids[i] : i \in {i \in DOMAIN kids : takes[i]}}
  BY DEF Takers
<1>2. /\ IsSeq(kids) /\ IsInjective(kids)
      /\ \A c \in ToSet(kids) : c \in Nodes(t) /\ t.nodes[c].parent = p
      /\ DOMAIN kids = 1..n /\ n \in Nat
  BY SeqFacts DEF TreeShape, NodeShape
<1>3. \A f, i : Rule(f, i) = Step(f[i - 1], i)
  OBVIOUS
<1>4. \A f, i : Rule(f, i) => i < n
  OBVIOUS
<1> HIDE DEF kids, Candidate, n, Rule, base, Step, steps
<1>5. Done(steps, n)
  <2> DEFINE S == {k \in 0..n : \E f : Done(f, k)}
  <2>1. 0 \in S
    <3> DEFINE f == [i \in 0..0 |-> base]
    <3>1. Done(f, 0)
      BY DEF Done
    <3> HIDE DEF f, Done
    <3>2. QED
      BY <1>2, <3>1
  <2>2. ASSUME NEW k \in 1..n, k - 1 \in S PROVE k \in S
    <3>1. k \in Nat \ {0} /\ k \in 0..n
      BY <1>2
    <3> HIDE DEF Done
    <3>2. PICK f : Done(f, k - 1)
      BY <2>2
    <3> DEFINE v == Step(f[k - 1], k)
    <3> HIDE DEF v
    <3> DEFINE g == Extend(f, k, v)
    <3>3. /\ g = [i \in 0..k |-> g[i]] /\ g[k] = v
          /\ \A i \in 0..(k - 1) : g[i] = f[i]
      BY <3>1, Extended
    <3> HIDE DEF g
    <3>4. \A i \in 0..(k - 1) : f[i] = IF i = 0 THEN base ELSE Step(f[i - 1], i)
      BY <3>2 DEF Done
    <3>5. ASSUME NEW i \in 0..k PROVE g[i] = IF i = 0 THEN base ELSE Step(g[i - 1], i)
      <4>1. CASE i = k
        <5>1. k # 0 /\ k - 1 \in 0..(k - 1)
          BY <3>1
        <5>2. g[k - 1] = f[k - 1]
          BY <3>3, <5>1
        <5>3. QED
          BY <3>3, <4>1, <5>1, <5>2 DEF v
      <4>2. CASE i # k
        <5>1. i \in 0..(k - 1) /\ (i # 0 => i - 1 \in 0..(k - 1))
          BY <3>1, <4>2
        <5>2. g[i] = f[i] /\ (i # 0 => g[i - 1] = f[i - 1])
          BY <3>3, <5>1
        <5>3. QED
          BY <3>4, <5>1, <5>2
      <4>3. QED
        BY <4>1, <4>2
    <3>6. Done(g, k)
      BY <3>3, <3>5 DEF Done
    <3>7. QED
      BY <3>1, <3>6
  <2> HIDE DEF S
  <2>3. Steps(S, n)
    BY <2>1, <2>2 DEF Steps
  <2>4. n \in S
    BY <1>2, <2>3, StepByStep
  <2>5. \E f : Done(f, n)
    <3> HIDE DEF Done
    <3>1. QED
      BY <2>4 DEF S
  <2> HIDE DEF Done
  <2>6. QED
    BY <2>5 DEF steps
<1>6. /\ steps[0] = base
      /\ \A i \in 1..n : steps[i] = Step(steps[i - 1], i)
  BY <1>2, <1>5
<1> HIDE DEF Done
<1>7. \E f : f = [i \in DOMAIN kids |-> Rule(f, i)]
  <2> DEFINE g == [i \in 1..n |-> steps[i]]
  <2>1. ASSUME NEW i \in 1..n PROVE g[i] = Rule(g, i)
    <3>1. CASE i = 1
      <4>1. \A b, c : Step(b, 1) = Step(c, 1)
        BY DEF Step
      <4>2. g[i] = Step(steps[i - 1], i)
        BY <1>6
      <4>3. QED
        BY <1>3, <3>1, <4>1, <4>2
    <3>2. CASE i # 1
      <4>1. i - 1 \in 1..n
        BY <1>2, <3>2
      <4>2. g[i - 1] = steps[i - 1]
        BY <4>1
      <4>3. g[i] = Step(steps[i - 1], i)
        BY <1>6
      <4>4. QED
        BY <1>3, <4>2, <4>3
    <3>3. QED
      BY <3>1, <3>2
  <2>2. g = [i \in 1..n |-> g[i]]
    OBVIOUS
  <2> HIDE DEF g
  <2>3. g = [i \in DOMAIN kids |-> Rule(g, i)]
    BY <1>2, <2>1, <2>2
  <2>4. QED
    BY <2>3
<1>8. takes = [i \in DOMAIN kids |-> Rule(takes, i)]
  BY <1>7
<1> HIDE DEF takes
<1>9. PICK i \in DOMAIN kids : takes[i] /\ kids[i] = m
  BY <1>1
<1>10. i < n
  BY <1>4, <1>8, <1>9
<1>11. m \in ToSet(kids) /\ t.nodes[m].parent = p
  BY <1>2, <1>9 DEF ToSet
<1>12. (CHOOSE j \in DOMAIN kids : kids[j] = m) = i
  BY <1>2, <1>9 DEF IsInjective
<1>13. NextSibling(t, m) = kids[1 + i]
  BY <1>11, <1>12 DEF NextSibling, kids
<1>14. 1 + i \in DOMAIN kids
  BY <1>2, <1>10
<1>15. QED
  BY <1>2, <1>13, <1>14 DEF ToSet

\* A text that takes in another says what both said.
LEMMA MergeNextSays ==
    ASSUME NEW node, "text" \in DOMAIN node, IsText(node.text), NEW next, IsText(next.text)
    PROVE  /\ IsText(MergeNext(node, next).text)
           /\ Pieces(node.text) \cup Pieces(next.text) \subseteq Pieces(MergeNext(node, next).text)
<1> DEFINE heading == [id |-> next.title.name, heading |-> TRUE, line |-> TRUE,
                       para |-> TRUE, size |-> 1, refs |-> <<>>]
           rest == <<heading>> \o NewLine(next.text, FALSE)
           text == IF next.text = <<>> THEN node.text ELSE Join(node.text, rest)
<1>1. MergeNext(node, next).text = text
  BY DEF MergeNext
<1>2. DOMAIN heading = {"id", "heading", "line", "para", "size", "refs"}
  OBVIOUS
<1> HIDE DEF heading
<1>3. IsText(<<heading>>)
  BY <1>2, OneIsText
<1>4. IsText(NewLine(next.text, FALSE)) /\ Pieces(NewLine(next.text, FALSE)) = Pieces(next.text)
  BY NewLineIsText
<1>5. IsText(rest) /\ Pieces(next.text) \subseteq Pieces(rest)
  BY <1>3, <1>4, ConcatIsText
<1> HIDE DEF rest
<1>6. /\ IsText(Join(node.text, rest))
      /\ Pieces(Join(node.text, rest)) = Pieces(node.text) \cup Pieces(rest)
  BY <1>5, JoinIsText
<1>7. QED
  BY <1>1, <1>5, <1>6, EmptyIsText

LEMMA OptimizeSays ==
    ASSUME NEW t, TreeShape(t), TextsSound(t)
    PROVE  /\ TreeShape(Optimize(t)) /\ SaysAll(Optimize(t), t)
           /\ Nodes(Optimize(t)) = Nodes(t)
           /\ \A n \in Nodes(t) : Children(Optimize(t), n) = Children(t, n)
<1> DEFINE m == MergeSmallLeaves(t)
<1>1. /\ TreeShape(m) /\ SaysAll(m, t) /\ Nodes(m) = Nodes(t)
      /\ \A n \in Nodes(t) : Children(m, n) = Children(t, n)
  <2> DEFINE takers == UNION {Takers(t, n) : n \in Nodes(t)}
             taken == {NextSibling(t, n) : n \in takers}
             next(n) == t.nodes[NextSibling(t, n)]
             nodes == [n \in DOMAIN t.nodes |->
                         IF n \in takers THEN MergeNext(t.nodes[n], next(n))
                         ELSE IF n \in taken
                         THEN [t.nodes[n] EXCEPT !.text = <<>>, !.tokens = 0, !.title.mark = "merged"]
                         ELSE t.nodes[n]]
  <2>1. m = [t EXCEPT !.nodes = nodes]
    BY DEF MergeSmallLeaves
  <2>2. ASSUME NEW n \in takers
        PROVE  NextSibling(t, n) \in Nodes(t) /\ IsText(next(n).text)
    <3>1. NextSibling(t, n) \in Nodes(t)
      BY TakersHaveNext
    <3>2. QED
      BY <3>1 DEF TextsSound
  <2>12. \A n \in taken : \E k \in takers : n = NextSibling(t, k)
    OBVIOUS
  <2>13. \A n \in takers : n \in Nodes(t)
    <3> SUFFICES ASSUME NEW p \in Nodes(t), NEW n \in Takers(t, p) PROVE n \in Nodes(t)
      OBVIOUS
    <3>1. n \in ToSet(Children(t, p))
      BY DEF Takers, ToSet
    <3>2. QED
      BY <3>1 DEF TreeShape, NodeShape
  <2>14. \A n : next(n) = t.nodes[NextSibling(t, n)]
    OBVIOUS
  <2> HIDE DEF takers, taken, next
  <2>3. ASSUME NEW n \in Nodes(t)
        PROVE  /\ DOMAIN nodes[n] = DOMAIN t.nodes[n]
               /\ nodes[n].kids = t.nodes[n].kids /\ nodes[n].parent = t.nodes[n].parent
               /\ IsText(nodes[n].text)
               /\ n \in takers => Pieces(t.nodes[n].text) \cup Pieces(next(n).text)
                                     \subseteq Pieces(nodes[n].text)
               /\ n \notin takers /\ n \notin taken => nodes[n].text = t.nodes[n].text
    <3>1. {"title", "text", "parent", "kids"} \subseteq DOMAIN t.nodes[n]
      BY NodeFields
    <3>2. IsText(t.nodes[n].text)
      BY DEF TextsSound
    <3>3. CASE n \in takers
      <4>1. nodes[n] = MergeNext(t.nodes[n], next(n))
        BY <3>3 DEF Nodes
      <4> HIDE DEF nodes
      <4>2. /\ DOMAIN nodes[n] = DOMAIN t.nodes[n]
            /\ nodes[n].kids = t.nodes[n].kids /\ nodes[n].parent = t.nodes[n].parent
        BY <3>1, <4>1 DEF MergeNext
      <4>3. /\ IsText(nodes[n].text)
            /\ Pieces(t.nodes[n].text) \cup Pieces(next(n).text) \subseteq Pieces(nodes[n].text)
        BY <2>2, <3>1, <3>2, <3>3, <4>1, MergeNextSays
      <4>4. QED
        BY <3>3, <4>2, <4>3
    <3>4. CASE n \notin takers /\ n \in taken
      <4>1. nodes[n] = [t.nodes[n] EXCEPT !.text = <<>>, !.tokens = 0, !.title.mark = "merged"]
        BY <3>4 DEF Nodes
      <4> HIDE DEF nodes
      <4>2. nodes[n].text = <<>>
        BY <3>1, <4>1
      <4>3. QED
        BY <3>1, <3>4, <4>1, <4>2, EmptyIsText
    <3>5. CASE n \notin takers /\ n \notin taken
      <4>1. nodes[n] = t.nodes[n]
        BY <3>5 DEF Nodes
      <4> HIDE DEF nodes
      <4>2. QED
        BY <3>2, <3>5, <4>1
    <3>6. QED
      BY <3>3, <3>4, <3>5
  <2>4. DOMAIN nodes = Nodes(t) /\ nodes = [n \in Nodes(t) |-> nodes[n]]
    BY DEF Nodes
  <2> HIDE DEF nodes, m
  <2>5. WrittenFrom(nodes, t)
    BY <2>3, <2>4 DEF WrittenFrom
  <2>6. TreeShape(m) /\ Nodes(m) = Nodes(t) /\ m.nodes = nodes
    BY <2>1, <2>5, WrittenShape
  <2>7. \A n \in Nodes(t) : Children(m, n) = Children(t, n)
    BY <2>3, <2>6 DEF Children
  <2>8. ASSUME NEW x \in TreePieces(t) PROVE x \in TreePieces(m)
    <3>1. PICK n \in Nodes(t) : x \in Pieces(t.nodes[n].text)
      BY DEF TreePieces
    <3>2. CASE n \in takers
      <4>1. x \in Pieces(m.nodes[n].text)
        BY <2>3, <2>6, <3>1, <3>2
      <4>2. QED
        BY <2>6, <4>1 DEF TreePieces
    <3>3. CASE n \notin takers /\ n \in taken
      <4>1. PICK k \in takers : n = NextSibling(t, k)
        BY <2>12, <3>3
      <4>2. k \in Nodes(t) /\ next(k) = t.nodes[n]
        BY <2>13, <2>14, <4>1
      <4>3. x \in Pieces(m.nodes[k].text)
        BY <2>3, <2>6, <3>1, <4>1, <4>2
      <4>4. QED
        BY <2>6, <4>2, <4>3 DEF TreePieces
    <3>4. CASE n \notin takers /\ n \notin taken
      <4>1. m.nodes[n].text = t.nodes[n].text
        BY <2>3, <2>6, <3>4
      <4>2. QED
        BY <2>6, <3>1, <4>1 DEF TreePieces
    <3>5. QED
      BY <3>2, <3>3, <3>4
  <2>9. TextsSound(m)
    BY <2>3, <2>6 DEF TextsSound
  <2>10. QED
    BY <2>6, <2>7, <2>8, <2>9 DEF SaysAll
<1> HIDE DEF m
<1>2. /\ TreeShape(MarkEmpty(m)) /\ SaysAll(MarkEmpty(m), m) /\ Nodes(MarkEmpty(m)) = Nodes(m)
      /\ \A n \in Nodes(m) : Children(MarkEmpty(m), n) = Children(m, n)
  <2> DEFINE nodes == [n \in DOMAIN m.nodes |->
               IF n # Root /\ Len(Children(m, n)) = 1 /\ m.nodes[n].text = <<>>
               THEN [m.nodes[n] EXCEPT !.title.mark = "empty"] ELSE m.nodes[n]]
             after == [m EXCEPT !.nodes = nodes]
  <2>1. MarkEmpty(m) = after
    BY DEF MarkEmpty
  <2>2. ASSUME NEW n \in Nodes(m)
        PROVE  /\ DOMAIN nodes[n] = DOMAIN m.nodes[n]
               /\ nodes[n].kids = m.nodes[n].kids /\ nodes[n].parent = m.nodes[n].parent
               /\ nodes[n].text = m.nodes[n].text
    <3>1. {"title", "text", "parent", "kids"} \subseteq DOMAIN m.nodes[n]
      BY <1>1, NodeFields
    <3>2. \/ nodes[n] = [m.nodes[n] EXCEPT !.title.mark = "empty"]
          \/ nodes[n] = m.nodes[n]
      BY DEF Nodes
    <3> HIDE DEF nodes
    <3>3. QED
      BY <3>1, <3>2
  <2>3. DOMAIN nodes = Nodes(m) /\ nodes = [n \in Nodes(m) |-> nodes[n]]
    BY DEF Nodes
  <2> HIDE DEF nodes
  <2>4. WrittenFrom(nodes, m)
    BY <2>2, <2>3 DEF WrittenFrom
  <2>5. TreeShape(after) /\ Nodes(after) = Nodes(m) /\ after.nodes = nodes
    BY <1>1, <2>4, WrittenShape
  <2>6. SaysAll(after, m)
    BY <1>1, <2>2, <2>4, WrittenSays DEF SaysAll
  <2> HIDE DEF after
  <2>7. \A n \in Nodes(m) : Children(after, n) = Children(m, n)
    BY <2>2, <2>5 DEF Children
  <2>8. QED
    BY <2>1, <2>5, <2>6, <2>7
<1>3. Optimize(t) = MarkEmpty(m)
  BY DEF Optimize, m
<1>4. QED
  BY <1>1, <1>2, <1>3 DEF SaysAll

(***************************************************************************)
(* The Markdown parser.                                                    *)
(***************************************************************************)
LEMMA RawNodeFields ==
    ASSUME NEW title, NEW depth \in Nat, NEW text
    PROVE  LET node == RawNode(title, depth, text)
           IN  /\ DOMAIN node = {"title", "level", "text", "page", "tokens"}
               /\ node.level \in Nat /\ node.text = text
BY DEF RawNode

LEMMA AppendIsRaw ==
    ASSUME NEW rs, IsRaw(rs), NEW title, NEW depth \in Nat, NEW text, IsText(text)
    PROVE  LET after == Append(rs, RawNode(title, depth, text))
           IN  /\ IsRaw(after) /\ after # <<>>
               /\ RawPieces(after) = RawPieces(rs) \cup Pieces(text)
<1> DEFINE node == RawNode(title, depth, text)
           after == Append(rs, node)
<1>1. /\ DOMAIN node = {"title", "level", "text", "page", "tokens"}
      /\ node.level \in Nat /\ node.text = text
  BY RawNodeFields
<1> HIDE DEF node
<1>2. /\ IsSeq(after) /\ Len(after) = Len(rs) + 1 /\ after[Len(rs) + 1] = node
      /\ \A i \in 1..Len(rs) : after[i] = rs[i]
  BY AppendIsSeq DEF IsRaw
<1> HIDE DEF after
<1>3. Len(rs) \in Nat /\ DOMAIN rs = 1..Len(rs) /\ DOMAIN after = 1..(Len(rs) + 1)
  BY <1>2, SeqFacts DEF IsRaw
<1>4. ASSUME NEW i \in DOMAIN after
      PROVE  /\ DOMAIN after[i] = {"title", "level", "text", "page", "tokens"}
             /\ after[i].level \in Nat /\ IsText(after[i].text)
  <2>1. CASE i = Len(rs) + 1
    BY <1>1, <1>2, <2>1
  <2>2. CASE i # Len(rs) + 1
    <3>1. i \in DOMAIN rs /\ after[i] = rs[i]
      BY <1>2, <1>3, <2>2
    <3>2. QED
      BY <3>1 DEF IsRaw
  <2>3. QED
    BY <2>1, <2>2
<1>5. IsRaw(after)
  BY <1>2, <1>4 DEF IsRaw
<1>6. RawPieces(after) = RawPieces(rs) \cup Pieces(text)
  <2>1. /\ DOMAIN after = DOMAIN rs \cup {Len(rs) + 1}
        /\ \A i \in DOMAIN rs : after[i] = rs[i]
    BY <1>2, <1>3
  <2>2. QED
    BY <1>1, <1>2, <2>1 DEF RawPieces
<1>7. after # <<>>
  BY <1>2, <1>3, EmptyIsSeq
<1>8. QED
  BY <1>5, <1>6, <1>7 DEF after, node

\* What every event keeps.
Parsing(s) ==
    /\ DOMAIN s = {"nodes", "current", "buffer", "preamble", "ends"}
    /\ IsRaw(s.nodes) /\ s.current.level \in Nat
    /\ IsText(s.buffer) /\ IsText(s.preamble)

\* What was read and is in the buffer or in a node.
Said(s) == Pieces(s.buffer) \cup RawPieces(s.nodes)

LEMMA FinishNodeKeeps ==
    ASSUME NEW s, Parsing(s)
    PROVE  /\ Parsing(FinishNode(s))
           /\ s.current # NoNode /\ PreambleNode =>
                 /\ FinishNode(s).nodes # <<>>
                 /\ Said(s) \subseteq RawPieces(FinishNode(s).nodes)
<1> DEFINE first == s.nodes = <<>>
           moved == first /\ s.buffer # <<>>
           preamble == IF moved /\ PreambleNode THEN s.buffer ELSE s.preamble
           buffer == IF moved THEN <<>> ELSE s.buffer
           text == IF first THEN Join(preamble, buffer) ELSE buffer
           nodes == Append(s.nodes, RawNode(Title(s.current.name), s.current.level, text))
<1>1. IsText(preamble) /\ IsText(buffer)
  BY EmptyIsText DEF Parsing
<1>2. FinishNode(s) =
        IF s.current = NoNode
        THEN [s EXCEPT !.buffer = <<>>, !.preamble = preamble, !.ends = "text"]
        ELSE [nodes |-> nodes, current |-> NoNode, buffer |-> <<>>, ends |-> "text",
              preamble |-> IF first THEN <<>> ELSE preamble]
  BY DEF FinishNode
<1>8. /\ PreambleNode => Pieces(s.buffer) \subseteq Pieces(preamble) \cup Pieces(buffer)
      /\ ~first => buffer = s.buffer
  BY EmptyIsText
<1> HIDE DEF first, moved, preamble, buffer
<1>3. IsText(text)
  BY <1>1, JoinIsText
<1>9. PreambleNode => Pieces(s.buffer) \subseteq Pieces(text)
  <2>1. first => Pieces(text) = Pieces(preamble) \cup Pieces(buffer)
    BY <1>1, JoinIsText
  <2>2. QED
    BY <1>8, <2>1
<1> HIDE DEF text
<1>4. IsRaw(nodes) /\ nodes # <<>> /\ RawPieces(nodes) = RawPieces(s.nodes) \cup Pieces(text)
  BY <1>3, AppendIsRaw DEF Parsing
<1> HIDE DEF nodes
<1>5. CASE s.current = NoNode
  BY <1>1, <1>2, <1>5, EmptyIsText DEF Parsing
<1>6. CASE s.current # NoNode
  <2> DEFINE rest == IF first THEN <<>> ELSE preamble
             after == [nodes |-> nodes, current |-> NoNode, buffer |-> <<>>, ends |-> "text",
                       preamble |-> rest]
  <2>1. IsText(rest) /\ IsText(<<>>) /\ NoNode.level \in Nat
    BY <1>1, EmptyIsText DEF NoNode
  <2>2. FinishNode(s) = after
    BY <1>2, <1>6
  <2>5. after.nodes = nodes
    OBVIOUS
  <2> HIDE DEF rest
  <2>3. Parsing(after)
    BY <1>4, <2>1 DEF Parsing
  <2> HIDE DEF after
  <2>6. PreambleNode => Said(s) \subseteq RawPieces(nodes)
    BY <1>4, <1>9 DEF Said
  <2>4. QED
    BY <1>4, <2>2, <2>3, <2>5, <2>6
<1>7. QED
  BY <1>5, <1>6

LEMMA PutKeeps ==
    ASSUME NEW s, Parsing(s), NEW piece
    PROVE  /\ Parsing(Put(s, piece)) /\ Put(s, piece).current = s.current
           /\ Said(Put(s, piece)) = Said(s) \cup {piece.id}
<1> DEFINE new == [id |-> piece.id, heading |-> piece.heading,
                   line |-> s.ends # "text", para |-> s.ends = "blank",
                   size |-> piece.size, refs |-> piece.refs]
           after == [s EXCEPT !.buffer = Append(s.buffer, new), !.ends = "text"]
<1>1. Put(s, piece) = after
  BY DEF Put
<1>2. DOMAIN new = {"id", "heading", "line", "para", "size", "refs"} /\ new.id = piece.id
  OBVIOUS
<1> HIDE DEF new
<1>3. /\ IsText(Append(s.buffer, new))
      /\ Pieces(Append(s.buffer, new)) = Pieces(s.buffer) \cup {piece.id}
  BY <1>2, AppendIsText DEF Parsing
<1>4. /\ DOMAIN after = DOMAIN s /\ after.buffer = Append(s.buffer, new)
      /\ after.nodes = s.nodes /\ after.current = s.current /\ after.preamble = s.preamble
  BY DEF Parsing
<1> HIDE DEF after
<1>5. Parsing(after) /\ Said(after) = Said(s) \cup {piece.id}
  BY <1>3, <1>4 DEF Parsing, Said
<1>6. QED
  BY <1>1, <1>4, <1>5

LEMMA HeadingKeeps ==
    ASSUME NEW s, Parsing(s), NEW b
    PROVE  /\ Parsing(Heading(s, b))
           /\ b.level \in MinLevel..MaxLevel /\ b.name # "" => Heading(s, b).current # NoNode
           /\ s.current # NoNode /\ PreambleNode /\ b.name # "" =>
                 /\ Heading(s, b).current # NoNode
                 /\ Said(s) \subseteq Said(Heading(s, b))
<1>1. CASE b.level \in MinLevel..MaxLevel
  <2> DEFINE f == FinishNode(s)
             current == IF b.name = "" THEN NoNode ELSE [name |-> b.name, level |-> b.level]
             after == [f EXCEPT !.current = current]
  <2>1. /\ Parsing(f)
        /\ s.current # NoNode /\ PreambleNode => Said(s) \subseteq RawPieces(f.nodes)
    BY FinishNodeKeeps
  <2> HIDE DEF f
  <2>2. b.level \in Nat
    BY <1>1, LevelsAssumption
  <2>3. current.level \in Nat
    BY <2>2 DEF NoNode
  <2>4. b.name # "" => current # NoNode
    <3>1. SUFFICES ASSUME b.name # "", current = NoNode PROVE FALSE
      OBVIOUS
    <3>2. current.name = b.name
      BY <3>1
    <3>3. NoNode.name = ""
      BY DEF NoNode
    <3>4. QED
      BY <3>1, <3>2, <3>3
  <2> HIDE DEF current
  <2>5. /\ DOMAIN after = DOMAIN f /\ after.current = current /\ after.nodes = f.nodes
        /\ after.buffer = f.buffer /\ after.preamble = f.preamble
    BY <2>1 DEF Parsing
  <2>6. Heading(s, b) = after
    BY <1>1 DEF Heading, current, f
  <2> HIDE DEF after
  <2>7. Parsing(after)
    BY <2>1, <2>3, <2>5 DEF Parsing
  <2>8. RawPieces(f.nodes) \subseteq Said(after)
    BY <2>5 DEF Said
  <2>9. QED
    BY <2>1, <2>4, <2>5, <2>6, <2>7, <2>8
<1>2. CASE b.level \notin MinLevel..MaxLevel
  BY <1>2, PutKeeps DEF Heading
<1>3. QED
  BY <1>1, <1>2

LEMMA LineKeeps ==
    ASSUME NEW s, Parsing(s), NEW b
    PROVE  /\ Parsing(Line(s, b)) /\ Line(s, b).current = s.current
           /\ Said(s) \subseteq Said(Line(s, b))
           /\ b.kind = "text" => b.piece.id \in Said(Line(s, b))
<1> DEFINE Fine(v) == Parsing(v) /\ v.current = s.current /\ Said(s) \subseteq Said(v)
           before == [s EXCEPT !.ends = IF @ = "text" THEN "line" ELSE "blank"]
           after == Put(before, b.piece)
<1>1. ASSUME NEW v, Parsing(v), NEW ends
      PROVE  /\ Parsing([v EXCEPT !.ends = ends]) /\ Said([v EXCEPT !.ends = ends]) = Said(v)
             /\ [v EXCEPT !.ends = ends].current = v.current
  <2> DEFINE w == [v EXCEPT !.ends = ends]
  <2>1. /\ DOMAIN w = DOMAIN v /\ w.nodes = v.nodes /\ w.buffer = v.buffer
        /\ w.current = v.current /\ w.preamble = v.preamble
    BY <1>1 DEF Parsing
  <2> HIDE DEF w
  <2>2. Parsing(w) /\ Said(w) = Said(v) /\ w.current = v.current
    BY <1>1, <2>1 DEF Parsing, Said
  <2>3. QED
    BY <2>2 DEF w
<1>2. Parsing(before) /\ Said(before) = Said(s) /\ before.current = s.current
  BY <1>1
<1> HIDE DEF before
<1>3. Fine(after)
  <2>1. /\ Parsing(after) /\ after.current = before.current
        /\ Said(after) = Said(before) \cup {b.piece.id}
    BY <1>2, PutKeeps
  <2> HIDE DEF after
  <2>2. QED
    BY <1>2, <2>1
<1> HIDE DEF after
<1>4. Fine([after EXCEPT !.ends = "line"])
  BY <1>1, <1>3
<1>5. Fine([s EXCEPT !.ends = "blank"])
  BY <1>1
<1>6. Fine(Put(s, b.piece)) /\ b.piece.id \in Said(Put(s, b.piece))
  <2> DEFINE put == Put(s, b.piece)
  <2>1. /\ Parsing(put) /\ put.current = s.current
        /\ Said(put) = Said(s) \cup {b.piece.id}
    BY PutKeeps
  <2> HIDE DEF put
  <2>2. Fine(put) /\ b.piece.id \in Said(put)
    BY <2>1
  <2>3. QED
    BY <2>2 DEF put
<1>7. Fine(s)
  OBVIOUS
<1> HIDE DEF Fine
<1>8. CASE b.kind = "text"
  BY <1>6, <1>8 DEF Line, Fine
<1>9. CASE b.kind = "rule"
  BY <1>5, <1>9 DEF Line, Fine
<1>10. CASE b.kind = "code" /\ CodeBlocks
  <2>1. Line(s, b) = [after EXCEPT !.ends = "line"]
    BY <1>10 DEF Line, after, before
  <2>2. QED
    BY <1>4, <1>10, <2>1 DEF Fine
<1>11. CASE b.kind # "text" /\ b.kind # "rule" /\ ~(b.kind = "code" /\ CodeBlocks)
  <2>1. Line(s, b) = s
    BY <1>11 DEF Line
  <2>2. QED
    BY <1>7, <1>11, <2>1 DEF Fine
<1>12. QED
  BY <1>8, <1>9, <1>10, <1>11

\* Every text is below a heading with a title.
AllBelow(blocks) ==
    /\ PreambleNode /\ blocks # <<>>
    /\ \A i \in DOMAIN blocks : blocks[i].kind = "heading" => blocks[i].name # ""
    /\ blocks[1].kind = "heading" /\ blocks[1].level \in MinLevel..MaxLevel

LEMMA ExtractNodesSays ==
    ASSUME NEW blocks, IsSeq(blocks)
    PROVE  /\ IsRaw(ExtractNodes(blocks))
           /\ AllBelow(blocks) => \A i \in DOMAIN blocks : blocks[i].kind = "text" =>
                 blocks[i].piece.id \in RawPieces(ExtractNodes(blocks))
<1> DEFINE start == [nodes |-> <<>>, current |-> NoNode, buffer |-> <<>>,
                     preamble |-> <<>>, ends |-> "text"]
           n == Len(blocks)
           Step(s, i) == IF blocks[i].kind = "heading" THEN Heading(s, blocks[i])
                         ELSE Line(s, blocks[i])
           Done(f, k) == f = [i \in 0..k |-> IF i = 0 THEN start ELSE Step(f[i - 1], i)]
           after == CHOOSE f : Done(f, n)
           last == FinishNode(after[n])
<1>1. ExtractNodes(blocks) =
        IF last.nodes = <<>> /\ PreambleNode /\ last.preamble # <<>>
        THEN <<RawNode(Title("Introduction"), 0, last.preamble)>> ELSE last.nodes
  BY DEF ExtractNodes
<1>2. n \in Nat /\ DOMAIN blocks = 1..n /\ (blocks # <<>> => n # 0)
  BY SeqFacts, EmptySeq DEF IsSeq
<1>3. Parsing(start)
  <2>1. IsRaw(<<>>)
    BY EmptyIsSeq DEF IsRaw
  <2>2. QED
    BY <2>1, EmptyIsText DEF Parsing, NoNode
<1> HIDE DEF start, Step, n, after
<1>4. Done(after, n)
  <2> DEFINE S == {k \in 0..n : \E f : Done(f, k)}
  <2>1. 0 \in S
    <3> DEFINE f == [i \in 0..0 |-> start]
    <3>1. Done(f, 0)
      BY DEF Done
    <3> HIDE DEF f, Done
    <3>2. QED
      BY <1>2, <3>1
  <2>2. ASSUME NEW k \in 1..n, k - 1 \in S PROVE k \in S
    <3>1. k \in Nat \ {0} /\ k \in 0..n
      BY <1>2
    <3> HIDE DEF Done
    <3>2. PICK f : Done(f, k - 1)
      BY <2>2
    <3> DEFINE v == Step(f[k - 1], k)
    <3> HIDE DEF v
    <3> DEFINE g == Extend(f, k, v)
    <3>3. /\ g = [i \in 0..k |-> g[i]] /\ g[k] = v
          /\ \A i \in 0..(k - 1) : g[i] = f[i]
      BY <3>1, Extended
    <3> HIDE DEF g
    <3>4. \A i \in 0..(k - 1) : f[i] = IF i = 0 THEN start ELSE Step(f[i - 1], i)
      BY <3>2 DEF Done
    <3>5. ASSUME NEW i \in 0..k PROVE g[i] = IF i = 0 THEN start ELSE Step(g[i - 1], i)
      <4>1. CASE i = k
        <5>1. k # 0 /\ k - 1 \in 0..(k - 1)
          BY <3>1
        <5>2. g[k - 1] = f[k - 1]
          BY <3>3, <5>1
        <5>3. QED
          BY <3>3, <4>1, <5>1, <5>2 DEF v
      <4>2. CASE i # k
        <5>1. i \in 0..(k - 1) /\ (i # 0 => i - 1 \in 0..(k - 1))
          BY <3>1, <4>2
        <5>2. g[i] = f[i] /\ (i # 0 => g[i - 1] = f[i - 1])
          BY <3>3, <5>1
        <5>3. QED
          BY <3>4, <5>1, <5>2
      <4>3. QED
        BY <4>1, <4>2
    <3>6. Done(g, k)
      BY <3>3, <3>5 DEF Done
    <3>7. QED
      BY <3>1, <3>6
  <2> HIDE DEF S
  <2>3. Steps(S, n)
    BY <2>1, <2>2 DEF Steps
  <2>4. n \in S
    BY <1>2, <2>3, StepByStep
  <2>5. \E f : Done(f, n)
    <3> HIDE DEF Done
    <3>1. QED
      BY <2>4 DEF S
  <2> HIDE DEF Done
  <2>6. QED
    BY <2>5 DEF after
<1>5. /\ after[0] = start
      /\ \A i \in 1..n : after[i] = Step(after[i - 1], i)
  BY <1>2, <1>4
<1> HIDE DEF Done
<1> DEFINE Told(k) == /\ after[k].current # NoNode
                      /\ \A i \in 1..k : blocks[i].kind = "text" =>
                            blocks[i].piece.id \in Said(after[k])
           S == {k \in 0..n : Parsing(after[k]) /\ (AllBelow(blocks) /\ k # 0 => Told(k))}
<1>6. 0 \in S
  BY <1>2, <1>3, <1>5
<1>7. ASSUME NEW k \in 1..n, k - 1 \in S PROVE k \in S
  <2> DEFINE s == after[k - 1]
  <2>1. Parsing(s) /\ after[k] = Step(s, k) /\ (AllBelow(blocks) /\ k - 1 # 0 => Told(k - 1))
    BY <1>5, <1>7
  <2>2. Parsing(after[k])
    BY <2>1, HeadingKeeps, LineKeeps DEF Step
  <2>3. ASSUME AllBelow(blocks), k = 1 PROVE Told(k)
    <3>1. /\ blocks[k].kind = "heading" /\ blocks[k].level \in MinLevel..MaxLevel
          /\ blocks[k].name # ""
      BY <1>2, <2>3 DEF AllBelow
    <3>2. after[k].current # NoNode
      BY <2>1, <3>1, HeadingKeeps DEF Step
    <3>3. \A i \in 1..k : i = k
      BY <2>3
    <3>4. \A i \in 1..k : blocks[i].kind # "text"
      BY <3>1, <3>3
    <3>5. QED
      BY <3>2, <3>4
  <2>4. ASSUME AllBelow(blocks), k # 1 PROVE Told(k)
    <3>1. Told(k - 1)
      BY <1>2, <2>1, <2>4
    <3> HIDE DEF s
    <3>2. /\ after[k].current # NoNode /\ Said(s) \subseteq Said(after[k])
          /\ blocks[k].kind = "text" => blocks[k].piece.id \in Said(after[k])
      <4>1. CASE blocks[k].kind = "heading"
        <5>1. blocks[k].name # "" /\ PreambleNode
          BY <1>2, <2>4, <4>1 DEF AllBelow
        <5>2. s.current # NoNode
          BY <3>1 DEF s
        <5>3. after[k] = Heading(s, blocks[k])
          BY <2>1, <4>1 DEF Step
        <5>4. QED
          BY <2>1, <4>1, <5>1, <5>2, <5>3, HeadingKeeps
      <4>2. CASE blocks[k].kind # "heading"
        <5>1. s.current # NoNode
          BY <3>1 DEF s
        <5>2. after[k] = Line(s, blocks[k])
          BY <2>1, <4>2 DEF Step
        <5>3. QED
          BY <2>1, <5>1, <5>2, LineKeeps
      <4>3. QED
        BY <4>1, <4>2
    <3>3. \A i \in 1..k : i = k \/ i \in 1..(k - 1)
      BY <1>2
    <3>4. \A i \in 1..(k - 1) : blocks[i].kind = "text" => blocks[i].piece.id \in Said(s)
      BY <3>1 DEF s
    <3>5. QED
      BY <3>2, <3>3, <3>4
  <2>5. QED
    BY <1>2, <2>2, <2>3, <2>4
<1> HIDE DEF S
<1>8. Steps(S, n)
  BY <1>6, <1>7 DEF Steps
<1>9. n \in S
  BY <1>2, <1>8, StepByStep
<1>13. Parsing(after[n]) /\ (AllBelow(blocks) => Told(n))
  BY <1>2, <1>9 DEF S, AllBelow
<1>10. /\ Parsing(last)
       /\ after[n].current # NoNode /\ PreambleNode =>
             last.nodes # <<>> /\ Said(after[n]) \subseteq RawPieces(last.nodes)
  BY <1>13, FinishNodeKeeps
<1>14. AllBelow(blocks) =>
          /\ last.nodes # <<>>
          /\ \A i \in DOMAIN blocks : blocks[i].kind = "text" =>
                blocks[i].piece.id \in RawPieces(last.nodes)
  BY <1>2, <1>10, <1>13 DEF AllBelow
<1> HIDE DEF Told
<1> HIDE DEF last
<1> DEFINE node == RawNode(Title("Introduction"), 0, last.preamble)
<1>11. IsRaw(<<node>>)
  <2>1. IsRaw(Append(<<>>, node))
    <3>1. IsRaw(<<>>)
      BY EmptyIsSeq DEF IsRaw
    <3>2. IsText(last.preamble) /\ 0 \in Nat
      BY <1>10 DEF Parsing
    <3>3. QED
      BY <3>1, <3>2, AppendIsRaw
  <2> HIDE DEF node
  <2>2. Append(<<>>, node) = <<node>>
    OBVIOUS
  <2>3. QED
    BY <2>1, <2>2
<1>12. QED
  BY <1>1, <1>10, <1>11, <1>14 DEF Parsing

(***************************************************************************)
(* The trees of a compile.                                                 *)
(***************************************************************************)
\* The routes of an index lead to the children of a node and nowhere else.
Leads(nav, t) ==
    \A n \in Nodes(t) :
       {RoutesOf(nav, n)[i].node : i \in DOMAIN RoutesOf(nav, n)} = ToSet(Children(t, n))

LEMMA NavIndexLeads ==
    ASSUME NEW t, TreeShape(t)
    PROVE  Leads(NavIndex(t), t)
<1> DEFINE inner == {n \in Nodes(t) : ~IsLeaf(t, n)}
           routes == [n \in inner |-> [i \in DOMAIN Children(t, n) |-> Route(t, Children(t, n)[i])]]
<1>1. NavIndex(t).routes = routes
  BY DEF NavIndex
<1>2. \A c : Route(t, c).node = c
  BY DEF Route
<1> SUFFICES ASSUME NEW n \in Nodes(t)
             PROVE  {RoutesOf(NavIndex(t), n)[i].node : i \in DOMAIN RoutesOf(NavIndex(t), n)}
                       = ToSet(Children(t, n))
  BY DEF Leads
<1> DEFINE rows == RoutesOf(NavIndex(t), n)
<1>3. CASE IsLeaf(t, n)
  <2>1. rows = <<>>
    BY <1>1, <1>3 DEF RoutesOf
  <2>2. Children(t, n) = <<>>
    BY <1>3 DEF IsLeaf
  <2> HIDE DEF rows
  <2>3. {rows[i].node : i \in DOMAIN rows} = {}
    BY <2>1
  <2>4. QED
    BY <2>2, <2>3, EmptyIsSeq DEF rows
<1>4. CASE ~IsLeaf(t, n)
  <2>1. rows = [i \in DOMAIN Children(t, n) |-> Route(t, Children(t, n)[i])]
    BY <1>1, <1>4 DEF RoutesOf
  <2> HIDE DEF rows
  <2>2. /\ DOMAIN rows = DOMAIN Children(t, n)
        /\ \A i \in DOMAIN rows : rows[i].node = Children(t, n)[i]
    BY <1>2, <2>1
  <2>3. {rows[i].node : i \in DOMAIN rows} = ToSet(Children(t, n))
    BY <2>2 DEF ToSet
  <2>4. QED
    BY <2>3 DEF rows
<1>5. QED
  BY <1>3, <1>4

\* What the compile has made of the source so far: the texts of the source are
\* in the raw nodes, those of the raw nodes in the tree, and the routes of the
\* index lead from each node to its children.
Parsed == stage # "parse"
Built == stage \in {"edit", "index", "optimize", "verify", "done", "open"}
Indexed == stage \in {"optimize", "verify", "done", "open"}

DocInv ==
    /\ source \in Sources \cup {e[2] : e \in Edits} /\ opts \in Options
    /\ IsRaw(raw)
    /\ TreeShape(tree) /\ TextsSound(tree)
    /\ Parsed /\ source.format = "markdown" /\ AllBelow(source.blocks) =>
          \A i \in DOMAIN source.blocks : source.blocks[i].kind = "text" =>
             source.blocks[i].piece.id \in RawPieces(raw)
    /\ Built /\ opts.thinning # "drop" => RawPieces(raw) \subseteq TreePieces(tree)
    /\ Indexed => Leads(index.nav, tree)
    /\ old # NoOld => TreeShape(old[1])

LEMMA EmptyIsRaw == IsRaw(<<>>)
BY EmptyIsSeq DEF IsRaw

LEMMA NoTreeSound == TreeShape(NoTree) /\ TextsSound(NoTree)
BY NewTreeShape, EmptyIsText DEF NoTree, TextsSound

LEMMA DocInvInit == NavInit => DocInv
BY NoTreeSound, EmptyIsRaw DEF NavInit, DocInit, DocInv, Parsed, Built, Indexed

LEMMA DocInvStep == DocInv /\ [NavNext]_allVars => DocInv'
<1> SUFFICES ASSUME DocInv, [NavNext]_allVars PROVE DocInv'
  OBVIOUS
<1> USE DEF DocInv
<1>1. CASE UNCHANGED docVars
  BY <1>1 DEF docVars, Parsed, Built, Indexed, Leads
<1>2. CASE Parse
  <2>1. /\ source.format # "nodes" => raw' = ExtractNodes(source.blocks)
        /\ source.format = "nodes" => raw' = source.nodes
        /\ stage' = "build" /\ UNCHANGED <<source, opts, tree, index, derived, old>>
    BY <1>2 DEF Parse
  <2>2. IsSeq(source.blocks) /\ IsRaw(source.nodes)
    BY SourcesAssumption
  <2>3. IsRaw(raw')
    BY <2>1, <2>2, ExtractNodesSays
  <2>4. source.format = "markdown" /\ AllBelow(source.blocks) =>
          \A i \in DOMAIN source.blocks : source.blocks[i].kind = "text" =>
             source.blocks[i].piece.id \in RawPieces(raw')
    BY <2>1, <2>2, ExtractNodesSays
  <2>5. QED
    BY <2>1, <2>3, <2>4 DEF Built, Indexed
<1>3. CASE Build
  <2>1. CASE raw = <<>>
    BY <1>3, <2>1 DEF Build, Parsed, Built, Indexed
  <2>2. CASE raw # <<>>
    <3> DEFINE kept == Kept(raw, opts.thinning)
               t == BuildTree(kept, source.name)
    <3>1. /\ IsRaw(kept) /\ kept # <<>>
          /\ opts.thinning # "drop" => RawPieces(raw) \subseteq RawPieces(kept)
      BY <2>2, KeptSays, OptionsAssumption
    <3> HIDE DEF kept
    <3>2. TreeShape(t) /\ TextsSound(t) /\ RawPieces(kept) \subseteq TreePieces(t)
      BY <3>1, BuildTreeSays
    <3> HIDE DEF t
    <3>3. TreeShape(AssignIds(t)) /\ SaysAll(AssignIds(t), t)
      BY <3>2, AssignIdsSays
    <3>4. /\ tree' = AssignIds(t) /\ stage' = "edit" /\ stage = "build"
          /\ UNCHANGED <<source, opts, raw, index, derived, old>>
      BY <1>3, <2>2 DEF Build, t, kept
    <3>5. TreeShape(tree') /\ TextsSound(tree')
      BY <3>3, <3>4 DEF SaysAll
    <3>6. opts.thinning # "drop" => RawPieces(raw) \subseteq TreePieces(tree')
      BY <3>1, <3>2, <3>3, <3>4 DEF SaysAll
    <3>7. QED
      BY <3>4, <3>5, <3>6 DEF Parsed, Built, Indexed
  <2>3. QED
    BY <2>1, <2>2
<1>4. CASE EditTree
  <2> DEFINE split == IF opts.split THEN SplitTree(tree) ELSE tree
  <2>1. TreeShape(split) /\ SaysAll(split, tree)
    BY SplitTreeSays, SameTexts
  <2>2. /\ \/ \E S : tree' = Enrich(Annotated(split, S))
           \/ tree' = Enrich(tree)
           \/ tree' = split
        /\ stage = "edit" /\ stage' = "index" /\ UNCHANGED <<source, opts, raw, index, old>>
    BY <1>4 DEF EditTree
  <2> HIDE DEF split
  <2>3. TreeShape(tree') /\ SaysAll(tree', tree)
    <3>1. ASSUME NEW S, tree' = Enrich(Annotated(split, S))
          PROVE  TreeShape(tree') /\ SaysAll(tree', tree)
      <4>1. TreeShape(Annotated(split, S)) /\ SaysAll(Annotated(split, S), split)
        BY <2>1, AnnotatedSays DEF SaysAll
      <4>2. TreeShape(tree') /\ SaysAll(tree', Annotated(split, S))
        BY <3>1, <4>1, EnrichSays DEF SaysAll
      <4>3. QED
        BY <2>1, <4>1, <4>2 DEF SaysAll
    <3>2. CASE tree' = Enrich(tree)
      BY <3>2, EnrichSays
    <3>3. CASE tree' = split
      BY <2>1, <3>3
    <3>4. QED
      BY <2>2, <3>1, <3>2, <3>3
  <2>4. QED
    BY <2>2, <2>3 DEF Parsed, Built, Indexed, SaysAll
<1>5. CASE Index
  <2>1. /\ stage = "index" /\ stage' = "optimize" /\ UNCHANGED <<source, opts, raw, tree, old>>
        /\ index'.nav = NavIndex(tree)
    BY <1>5 DEF Index
  <2>2. Leads(index'.nav, tree')
    BY <2>1, NavIndexLeads
  <2>3. QED
    BY <2>1, <2>2 DEF Parsed, Built, Indexed
<1>6. CASE OptimizeTree
  <2>1. /\ stage = "optimize" /\ stage' = "verify" /\ tree' = Optimize(tree)
        /\ UNCHANGED <<source, opts, raw, index, derived, old>>
    BY <1>6 DEF OptimizeTree
  <2>2. /\ TreeShape(tree') /\ SaysAll(tree', tree) /\ Nodes(tree') = Nodes(tree)
        /\ \A n \in Nodes(tree) : Children(tree', n) = Children(tree, n)
    BY <2>1, OptimizeSays
  <2>3. Leads(index.nav, tree')
    BY <2>1, <2>2 DEF Leads, Indexed
  <2>4. QED
    BY <2>1, <2>2, <2>3 DEF Parsed, Built, Indexed, SaysAll
<1>7. CASE Verify
  BY <1>7 DEF Verify, Parsed, Built, Indexed
<1>8. CASE Recompile
  <2>1. old' = <<tree>> /\ old'[1] = tree
    BY <1>8 DEF Recompile
  <2>2. source' \in Sources \cup {e[2] : e \in Edits}
    BY <1>8 DEF Recompile
  <2>3. QED
    BY <1>8, <2>1, <2>2, EmptyIsRaw, NoTreeSound DEF Recompile, Parsed, Built, Indexed
<1>9. CASE Open
  BY <1>9 DEF Open, Parsed, Built, Indexed
<1>10. CASE Navigate
  <2>1. UNCHANGED docVars
    BY <1>10 DEF Navigate, Cd, Cat, CollectEvidence, CdByTitle, CdUp, CdRoot, Back,
                 ClearEvidence, Moving
  <2>2. QED
    BY <1>1, <2>1
<1>11. QED
  BY <1>1, <1>2, <1>3, <1>4, <1>5, <1>6, <1>7, <1>8, <1>9, <1>10
     DEF NavNext, Compile, allVars

\* Whatever the source, the edits and the options: the tree of every stage
\* is a tree, numbered from the root down, and the leaves it keeps are its
\* leaves, each once (tree.rs, add_child; build.rs, split.rs, optimize.rs).
THEOREM TreeShapeAlways == NavSpec => []TreeShape(tree)
<1>1. DocInv => TreeShape(tree)
  BY DEF DocInv
<1>2. QED
  BY <1>1, DocInvInit, DocInvStep, PTL DEF NavSpec

(***************************************************************************)
(* Traversals.                                                             *)
(***************************************************************************)
LEMMA AppendNew ==
    ASSUME NEW s, IsSeq(s), IsInjective(s), NEW e, e \notin ToSet(s)
    PROVE  IsInjective(Append(s, e)) /\ ToSet(Append(s, e)) = ToSet(s) \cup {e}
<1> DEFINE a == Append(s, e)
<1>1. /\ IsSeq(a) /\ Len(a) = Len(s) + 1 /\ a[Len(s) + 1] = e
      /\ \A i \in 1..Len(s) : a[i] = s[i]
  BY AppendIsSeq
<1> HIDE DEF a
<1>2. /\ Len(s) \in Nat /\ DOMAIN s = 1..Len(s)
      /\ DOMAIN a = DOMAIN s \cup {Len(s) + 1} /\ Len(s) + 1 \notin DOMAIN s
  BY <1>1, SeqFacts
<1>3. ToSet(a) = ToSet(s) \cup {e}
  BY <1>1, <1>2 DEF ToSet
<1>4. IsInjective(a)
  BY <1>1, <1>2 DEF IsInjective, ToSet
<1>5. QED
  BY <1>3, <1>4 DEF a

LEMMA ConcatDisjoint ==
    ASSUME NEW s, IsSeq(s), IsInjective(s), NEW t, IsSeq(t), IsInjective(t),
           ToSet(s) \cap ToSet(t) = {}
    PROVE  IsInjective(s \o t) /\ ToSet(s \o t) = ToSet(s) \cup ToSet(t)
<1> DEFINE c == s \o t
<1>1. /\ IsSeq(c) /\ Len(c) = Len(s) + Len(t)
      /\ \A i \in 1..Len(s) : c[i] = s[i]
      /\ \A i \in 1..Len(t) : c[Len(s) + i] = t[i]
  BY ConcatIsSeq
<1> HIDE DEF c
<1>2. /\ Len(s) \in Nat /\ DOMAIN s = 1..Len(s)
      /\ Len(t) \in Nat /\ DOMAIN t = 1..Len(t)
      /\ DOMAIN c = 1..(Len(s) + Len(t))
  BY <1>1, SeqFacts
<1>3. \A i \in DOMAIN c : \/ i \in DOMAIN s /\ c[i] = s[i]
                          \/ /\ i - Len(s) \in DOMAIN t /\ c[i] = t[i - Len(s)]
                             /\ i \notin DOMAIN s
  <2> TAKE i \in DOMAIN c
  <2>1. CASE i <= Len(s)
    BY <1>1, <1>2, <2>1
  <2>2. CASE ~(i <= Len(s))
    <3>1. i - Len(s) \in 1..Len(t) /\ Len(s) + (i - Len(s)) = i /\ i \notin DOMAIN s
      BY <1>2, <2>2
    <3>2. QED
      BY <1>1, <1>2, <3>1
  <2>3. QED
    BY <2>1, <2>2
<1>4. ToSet(c) = ToSet(s) \cup ToSet(t)
  <2>1. ToSet(c) \subseteq ToSet(s) \cup ToSet(t)
    BY <1>3 DEF ToSet
  <2>2. \A i \in DOMAIN s : i \in DOMAIN c /\ c[i] = s[i]
    BY <1>1, <1>2
  <2>3. \A i \in DOMAIN t : Len(s) + i \in DOMAIN c /\ c[Len(s) + i] = t[i]
    BY <1>1, <1>2
  <2>4. QED
    BY <2>1, <2>2, <2>3 DEF ToSet
<1>5. IsInjective(c)
  <2> SUFFICES ASSUME NEW i \in DOMAIN c, NEW j \in DOMAIN c, c[i] = c[j] PROVE i = j
    BY DEF IsInjective
  <2>1. CASE i \in DOMAIN s /\ j \in DOMAIN s
    BY <1>3, <1>2, <2>1 DEF IsInjective
  <2>2. CASE i \in DOMAIN s <=> j \notin DOMAIN s
    BY <1>3, <2>2 DEF ToSet
  <2>3. CASE i \notin DOMAIN s /\ j \notin DOMAIN s
    <3>1. i - Len(s) = j - Len(s)
      BY <1>3, <2>3 DEF IsInjective
    <3>2. QED
      BY <1>2, <3>1
  <2>4. QED
    BY <2>1, <2>2, <2>3
<1>6. QED
  BY <1>4, <1>5 DEF c

LEMMA ReverseFacts ==
    ASSUME NEW s, IsSeq(s)
    PROVE  /\ IsSeq(Reverse(s)) /\ ToSet(Reverse(s)) = ToSet(s)
           /\ IsInjective(s) => IsInjective(Reverse(s))
<1> DEFINE r == Reverse(s)
           n == Len(s)
<1>1. n \in Nat /\ DOMAIN s = 1..n
  BY SeqFacts
<1>2. /\ DOMAIN r = 1..n /\ r = [i \in 1..n |-> r[i]]
      /\ \A i \in 1..n : r[i] = s[n - i + 1]
  BY DEF Reverse
<1> HIDE DEF r, n
<1>3. \A i \in 1..n : n - i + 1 \in 1..n /\ n - (n - i + 1) + 1 = i
  BY <1>1
<1>4. IsSeq(r)
  BY <1>1, <1>2, FunctionIsSeq
<1>5. ToSet(r) = ToSet(s)
  BY <1>1, <1>2, <1>3 DEF ToSet
<1>6. IsInjective(s) => IsInjective(r)
  BY <1>1, <1>2, <1>3 DEF IsInjective
<1>7. QED
  BY <1>4, <1>5, <1>6 DEF r

LEMMA FrontFacts ==
    ASSUME NEW s, IsSeq(s), IsInjective(s), s # <<>>
    PROVE  /\ IsSeq(Front(s)) /\ IsInjective(Front(s))
           /\ Last(s) \in ToSet(s) /\ ToSet(Front(s)) = ToSet(s) \ {Last(s)}
<1> DEFINE f == Front(s)
           n == Len(s)
<1>1. n \in Nat /\ DOMAIN s = 1..n /\ n # 0
  BY SeqFacts, EmptySeq DEF IsSeq
<1>2. Last(s) = s[n]
  BY DEF Last
<1> DEFINE S == ToSet(s)
<1>10. s \in Seq(S)
  BY DEF IsSeq
<1> HIDE DEF S
<1>3. f = [i \in 1..(n - 1) |-> s[i]]
  <2>1. f = SubSeq(s, 1, n - 1)
    BY DEF Front
  <2>2. /\ SubSeq(s, 1, n - 1) \in Seq(S)
        /\ Len(SubSeq(s, 1, n - 1)) = IF 1 <= n - 1 THEN (n - 1) - 1 + 1 ELSE 0
        /\ \A i \in 1..(n - 1 - 1 + 1) : SubSeq(s, 1, n - 1)[i] = s[1 + i - 1]
    BY <1>1, <1>10, SubSeqProperties
  <2> DEFINE u == SubSeq(s, 1, n - 1)
  <2>3. IsSeq(u)
    BY <2>2, SeqInIsSeq
  <2>4. /\ Len(u) = IF 1 <= n - 1 THEN (n - 1) - 1 + 1 ELSE 0
        /\ \A i \in 1..(n - 1 - 1 + 1) : u[i] = s[1 + i - 1]
    BY <2>2
  <2> HIDE DEF u
  <2>5. DOMAIN u = 1..Len(u) /\ u = [i \in 1..Len(u) |-> u[i]]
    BY <2>3, SeqFacts
  <2> HIDE DEF n
  <2>9. n - 1 - 1 + 1 = n - 1 /\ \A i \in 1..(n - 1) : 1 + i - 1 = i
    BY <1>1
  <2>6. Len(u) = n - 1
    <3>1. CASE 1 <= n - 1
      BY <1>1, <2>4, <3>1
    <3>2. CASE ~(1 <= n - 1)
      <4>1. Len(u) = 0 /\ n = 1
        BY <1>1, <2>4, <3>2
      <4>2. QED
        BY <4>1
    <3>3. QED
      BY <3>1, <3>2
  <2>7. u = [i \in 1..(n - 1) |-> s[i]]
    <3>1. \A i \in 1..(n - 1) : u[i] = s[i]
      BY <2>4, <2>9
    <3>2. QED
      BY <2>5, <2>6, <3>1
  <2>8. QED
    BY <2>1, <2>7 DEF u
<1> HIDE DEF f, n
<1>4. DOMAIN f = 1..(n - 1) /\ n - 1 \in Nat /\ DOMAIN s = DOMAIN f \cup {n} /\ n \notin DOMAIN f
  BY <1>1, <1>3
<1>5. \A i \in DOMAIN f : f[i] = s[i]
  BY <1>3
<1>6. IsSeq(f)
  BY <1>3, <1>4, FunctionIsSeq
<1>7. IsInjective(f)
  BY <1>4, <1>5 DEF IsInjective
<1>8. ToSet(f) = ToSet(s) \ {s[n]} /\ s[n] \in ToSet(s)
  BY <1>4, <1>5 DEF IsInjective, ToSet
<1>9. QED
  BY <1>2, <1>6, <1>7, <1>8 DEF f

\* What traverse keeps: the nodes put out and those on the stack are no node
\* twice; the children of a node put out are among them, and the parent of a
\* node among them is out.
Walking(t, w) ==
    /\ DOMAIN w = {"out", "stack"}
    /\ IsSeq(w.out) /\ IsInjective(w.out) /\ IsSeq(w.stack) /\ IsInjective(w.stack)
    /\ ToSet(w.out) \cap ToSet(w.stack) = {}
    /\ ToSet(w.out) \cup ToSet(w.stack) \subseteq Nodes(t)
    /\ Root \in ToSet(w.out) \cup ToSet(w.stack)
    /\ \A n \in ToSet(w.out) :
          ToSet(Children(t, n)) \subseteq ToSet(w.out) \cup ToSet(w.stack)
    /\ \A n \in ToSet(w.out) \cup ToSet(w.stack) :
          n # Root => t.nodes[n].parent \in ToSet(w.out)

LEMMA WalkKeeps ==
    ASSUME NEW t, TreeShape(t), NEW w, Walking(t, w), w.stack # <<>>
    PROVE  LET v == [out |-> Append(w.out, Last(w.stack)),
                     stack |-> Front(w.stack) \o Reverse(Children(t, Last(w.stack)))]
           IN  Walking(t, v) /\ Len(v.out) = Len(w.out) + 1
<1> DEFINE n == Last(w.stack)
           F == Front(w.stack)
           K == Reverse(Children(t, n))
           out == Append(w.out, n)
           stack == F \o K
           O == ToSet(w.out)
           S == ToSet(w.stack)
           C == ToSet(Children(t, n))
<1>1. IsSeq(F) /\ IsInjective(F) /\ n \in S /\ ToSet(F) = S \ {n}
  BY FrontFacts DEF Walking
<1>2. n \in Nodes(t) /\ n \notin O
  BY <1>1 DEF Walking
<1>3. /\ IsSeq(Children(t, n)) /\ IsInjective(Children(t, n))
      /\ \A c \in C : c \in Nodes(t) /\ c > n /\ t.nodes[c].parent = n
  BY <1>2 DEF TreeShape, NodeShape
<1>4. IsSeq(K) /\ IsInjective(K) /\ ToSet(K) = C
  BY <1>3, ReverseFacts
<1>5. IsSeq(out) /\ IsInjective(out) /\ ToSet(out) = O \cup {n} /\ Len(out) = Len(w.out) + 1
  BY <1>2, AppendNew, AppendIsSeq DEF Walking
<1> HIDE DEF n, F, K, out
<1>6. /\ IsSeq(w.out) /\ O \cap S = {} /\ O \cup S \subseteq Nodes(t) /\ Root \in O \cup S
      /\ \A m \in O : ToSet(Children(t, m)) \subseteq O \cup S
      /\ \A m \in O \cup S : m # Root => t.nodes[m].parent \in O
  BY DEF Walking
<1>7. \A c \in C : c \notin O \cup S
  <2>1. SUFFICES ASSUME NEW c \in C, c \in O \cup S PROVE FALSE
    OBVIOUS
  <2>2. c # Root
    <3>1. c > n /\ n \in Nat /\ n >= 1
      BY <1>2, <1>3, SeqFacts DEF TreeShape, Nodes
    <3>2. c \in Nat
      BY <1>3, SeqFacts DEF TreeShape, Nodes
    <3>3. QED
      BY <3>1, <3>2 DEF Root
  <2>3. n \in O
    BY <1>3, <1>6, <2>1, <2>2
  <2>4. QED
    BY <1>2, <2>3
<1>8. IsSeq(stack) /\ IsInjective(stack) /\ ToSet(stack) = (S \ {n}) \cup C
  <2>1. ToSet(F) \cap ToSet(K) = {}
    BY <1>1, <1>4, <1>7
  <2>2. QED
    BY <1>1, <1>4, <2>1, ConcatIsSeq, ConcatDisjoint
<1> HIDE DEF stack
<1> DEFINE O2 == ToSet(out)
           S2 == ToSet(stack)
<1>9. O2 = O \cup {n} /\ S2 = (S \ {n}) \cup C /\ n \in S
  BY <1>1, <1>5, <1>8
<1> HIDE DEF O, S, O2, S2
<1>10. O2 \cap S2 = {} /\ O2 \cup S2 \subseteq Nodes(t) /\ Root \in O2 \cup S2
  <2>1. n \notin C
    BY <1>7, <1>9
  <2>2. QED
    BY <1>2, <1>3, <1>6, <1>7, <1>9, <2>1
<1>11. \A m \in O2 : ToSet(Children(t, m)) \subseteq O2 \cup S2
  <2> TAKE m \in O2
  <2>1. CASE m = n
    BY <1>9, <2>1
  <2>2. CASE m # n
    BY <1>6, <1>9, <2>2
  <2>3. QED
    BY <2>1, <2>2
<1>12. \A m \in O2 \cup S2 : m # Root => t.nodes[m].parent \in O2
  <2> TAKE m \in O2 \cup S2
  <2>1. CASE m \in C
    BY <1>3, <1>9, <2>1
  <2>2. CASE m \notin C
    BY <1>6, <1>9, <2>2
  <2>3. QED
    BY <2>1, <2>2
<1> DEFINE v == [out |-> out, stack |-> stack]
<1>13. v.out = out /\ v.stack = stack /\ DOMAIN v = {"out", "stack"}
  OBVIOUS
<1> HIDE DEF v
<1>14. Walking(t, v) /\ Len(v.out) = Len(w.out) + 1
  BY <1>5, <1>8, <1>10, <1>11, <1>12, <1>13 DEF Walking, O2, S2
<1>15. QED
  BY <1>14 DEF v, out, stack, n, F, K

\* traverse puts out every node, once.
LEMMA TraverseIsAll ==
    ASSUME NEW t, TreeShape(t)
    PROVE  /\ IsSeq(Traverse(t)) /\ IsInjective(Traverse(t))
           /\ ToSet(Traverse(t)) = Nodes(t)
<1> DEFINE n == Len(t.nodes)
           base == [out |-> <<>>, stack |-> <<Root>>]
           Step(w, k) ==
              IF w.stack = <<>> THEN w
              ELSE [out |-> Append(w.out, Last(w.stack)),
                    stack |-> Front(w.stack) \o Reverse(Children(t, Last(w.stack)))]
           Done(f, k) == f = [i \in 0..k |-> IF i = 0 THEN base ELSE Step(f[i - 1], i)]
           walk == CHOOSE f : Done(f, n)
<1>1. Traverse(t) = walk[n].out
  BY DEF Traverse
<1>2. n \in Nat /\ n # 0 /\ Nodes(t) = 1..n
  BY SeqFacts DEF TreeShape, Nodes
<1>3. Walking(t, base) /\ Len(base.out) = 0
  <2> DEFINE s == <<Root>>
  <2>1. DOMAIN s = 1..1 /\ s = [i \in 1..1 |-> s[i]] /\ s[1] = Root
    OBVIOUS
  <2>2. base.out = <<>> /\ base.stack = s /\ DOMAIN base = {"out", "stack"}
    OBVIOUS
  <2> HIDE DEF s, base
  <2>3. IsSeq(s) /\ IsInjective(s) /\ ToSet(s) = {Root}
    <3>1. 1 \in Nat /\ 1..1 = {1}
      OBVIOUS
    <3>2. IsSeq(s)
      BY <2>1, <3>1, FunctionIsSeq
    <3>3. QED
      BY <2>1, <3>1, <3>2 DEF IsInjective, ToSet
  <2>4. IsInjective(<<>>)
    BY DEF IsInjective
  <2>5. Root \in Nodes(t)
    BY <1>2 DEF Root
  <2>6. QED
    BY <2>2, <2>3, <2>4, <2>5, EmptyIsSeq DEF Walking
<1>4. ASSUME NEW w, Walking(t, w), NEW k \in Nat, w.stack = <<>> \/ Len(w.out) = k - 1
      PROVE  /\ Walking(t, Step(w, k))
             /\ Step(w, k).stack = <<>> \/ Len(Step(w, k).out) = k
  <2>1. CASE w.stack = <<>>
    BY <1>4, <2>1
  <2>2. CASE w.stack # <<>>
    <3> DEFINE v == [out |-> Append(w.out, Last(w.stack)),
                     stack |-> Front(w.stack) \o Reverse(Children(t, Last(w.stack)))]
    <3>1. Walking(t, v) /\ Len(v.out) = Len(w.out) + 1
      BY <1>4, <2>2, WalkKeeps
    <3>2. Step(w, k) = v
      BY <2>2
    <3> HIDE DEF v, Step
    <3>3. Len(w.out) = k - 1
      BY <1>4, <2>2
    <3>4. QED
      BY <3>1, <3>2, <3>3
  <2>3. QED
    BY <2>1, <2>2
<1> HIDE DEF Step, n, base, walk
<1>5. Done(walk, n)
  <2> DEFINE S == {k \in 0..n : \E f : Done(f, k)}
  <2>1. 0 \in S
    <3> DEFINE f == [i \in 0..0 |-> base]
    <3>1. Done(f, 0)
      BY DEF Done
    <3> HIDE DEF f, Done
    <3>2. QED
      BY <1>2, <3>1
  <2>2. ASSUME NEW k \in 1..n, k - 1 \in S PROVE k \in S
    <3>1. k \in Nat \ {0} /\ k \in 0..n
      BY <1>2
    <3> HIDE DEF Done
    <3>2. PICK f : Done(f, k - 1)
      BY <2>2
    <3> DEFINE v == Step(f[k - 1], k)
    <3> HIDE DEF v
    <3> DEFINE g == Extend(f, k, v)
    <3>3. /\ g = [i \in 0..k |-> g[i]] /\ g[k] = v
          /\ \A i \in 0..(k - 1) : g[i] = f[i]
      BY <3>1, Extended
    <3> HIDE DEF g
    <3>4. \A i \in 0..(k - 1) : f[i] = IF i = 0 THEN base ELSE Step(f[i - 1], i)
      BY <3>2 DEF Done
    <3>5. ASSUME NEW i \in 0..k PROVE g[i] = IF i = 0 THEN base ELSE Step(g[i - 1], i)
      <4>1. CASE i = k
        <5>1. k # 0 /\ k - 1 \in 0..(k - 1)
          BY <3>1
        <5>2. g[k - 1] = f[k - 1]
          BY <3>3, <5>1
        <5>3. QED
          BY <3>3, <4>1, <5>1, <5>2 DEF v
      <4>2. CASE i # k
        <5>1. i \in 0..(k - 1) /\ (i # 0 => i - 1 \in 0..(k - 1))
          BY <3>1, <4>2
        <5>2. g[i] = f[i] /\ (i # 0 => g[i - 1] = f[i - 1])
          BY <3>3, <5>1
        <5>3. QED
          BY <3>4, <5>1, <5>2
      <4>3. QED
        BY <4>1, <4>2
    <3>6. Done(g, k)
      BY <3>3, <3>5 DEF Done
    <3>7. QED
      BY <3>1, <3>6
  <2> HIDE DEF S
  <2>3. Steps(S, n)
    BY <2>1, <2>2 DEF Steps
  <2>4. n \in S
    BY <1>2, <2>3, StepByStep
  <2>5. \E f : Done(f, n)
    <3> HIDE DEF Done
    <3>1. QED
      BY <2>4 DEF S
  <2> HIDE DEF Done
  <2>6. QED
    BY <2>5 DEF walk
<1>6. /\ walk[0] = base
      /\ \A i \in 1..n : walk[i] = Step(walk[i - 1], i)
  BY <1>2, <1>5
<1> HIDE DEF Done
<1> DEFINE Q == {k \in 0..n : Walking(t, walk[k]) /\ (walk[k].stack = <<>> \/ Len(walk[k].out) = k)}
<1>7. 0 \in Q
  BY <1>2, <1>3, <1>6
<1>8. ASSUME NEW k \in 1..n, k - 1 \in Q PROVE k \in Q
  <2>1. k \in Nat /\ k \in 0..n
    BY <1>2
  <2>2. Walking(t, walk[k - 1]) /\ (walk[k - 1].stack = <<>> \/ Len(walk[k - 1].out) = k - 1)
    BY <1>8
  <2>3. Walking(t, Step(walk[k - 1], k))
        /\ (Step(walk[k - 1], k).stack = <<>> \/ Len(Step(walk[k - 1], k).out) = k)
    BY <2>1, <2>2, <1>4
  <2>4. QED
    BY <1>6, <2>1, <2>3
<1> HIDE DEF Q
<1>9. n \in Q
  <2>1. Steps(Q, n)
    BY <1>7, <1>8 DEF Steps
  <2>2. QED
    BY <1>2, <2>1, StepByStep
<1> DEFINE out == walk[n].out
           stack == walk[n].stack
<1>10. Walking(t, walk[n]) /\ (stack = <<>> \/ Len(out) = n)
  BY <1>9 DEF Q
<1>11. /\ IsSeq(out) /\ IsInjective(out) /\ ToSet(out) \subseteq Nodes(t)
       /\ Root \in ToSet(out) \cup ToSet(stack)
       /\ \A m \in ToSet(out) : ToSet(Children(t, m)) \subseteq ToSet(out) \cup ToSet(stack)
  BY <1>10 DEF Walking
<1> HIDE DEF out, stack
<1>12. Nodes(t) \subseteq ToSet(out)
  <2>1. CASE stack = <<>>
    <3>1. /\ Root \in ToSet(out)
          /\ \A m \in ToSet(out) : ToSet(Children(t, m)) \subseteq ToSet(out)
      BY <1>11, <2>1, EmptyIsSeq
    <3> DEFINE Missing == Nodes(t) \ ToSet(out)
    <3>2. SUFFICES ASSUME Missing # {} PROVE FALSE
      OBVIOUS
    <3>3. Missing \in SUBSET Nat
      BY <1>2
    <3>4. PICK m \in Missing : \A l \in Missing : m <= l
      BY <3>2, <3>3, LeastElement
    <3> DEFINE p == t.nodes[m].parent
    <3>5. m \in Nodes(t) /\ m # Root /\ m \notin ToSet(out)
      BY <3>1
    <3>6. p \in Nodes(t) /\ m \in ToSet(Children(t, p))
      BY <3>5 DEF TreeShape, NodeShape
    <3>7. m > p
      BY <3>6 DEF TreeShape, NodeShape
    <3>8. p \notin ToSet(out)
      BY <3>1, <3>5, <3>6
    <3>9. m <= p
      BY <3>4, <3>6, <3>8
    <3>10. QED
      BY <1>2, <3>5, <3>6, <3>7, <3>9
  <2>2. CASE Len(out) = n
    <3>1. DOMAIN out = 1..n /\ out = [i \in 1..n |-> out[i]]
      BY <1>11, <2>2, SeqFacts
    <3>2. out \in Injection(1..n, 1..n)
      <4>1. out \in [1..n -> 1..n]
        BY <1>2, <1>11, <3>1 DEF ToSet
      <4>2. \A i, j \in 1..n : out[i] = out[j] => i = j
        BY <1>11, <3>1 DEF IsInjective
      <4>3. QED
        BY <4>1, <4>2, Fun_IsInj
    <3>3. IsFiniteSet(1..n)
      BY <1>2, FS_Interval
    <3>4. out \in Surjection(1..n, 1..n)
      BY <3>2, <3>3, FS_Injection
    <3>5. QED
      BY <1>2, <3>1, <3>4 DEF Surjection, ToSet
  <2>3. QED
    BY <1>10, <2>1, <2>2
<1>13. QED
  BY <1>1, <1>11, <1>12 DEF out

(***************************************************************************)
(* Subtrees and fingerprints.                                              *)
(***************************************************************************)
ClosedBelow(t, S) == \A m \in S : ToSet(Children(t, m)) \subseteq S

\* collect_subtree returns the least set that has the node and the children
\* of what it has.
LEMMA SubtreeIsClosure ==
    ASSUME NEW t, TreeShape(t), NEW n \in Nodes(t)
    PROVE  /\ n \in Subtree(t, n) /\ Subtree(t, n) \subseteq Nodes(t)
           /\ ClosedBelow(t, Subtree(t, n))
           /\ \A S : n \in S /\ ClosedBelow(t, S) => Subtree(t, n) \subseteq S
<1> DEFINE N == Len(t.nodes)
           base == {n}
           Step(b, k) == b \cup UNION {ToSet(Children(t, m)) : m \in b}
           Done(f, k) == f = [i \in 0..k |-> IF i = 0 THEN base ELSE Step(f[i - 1], i)]
           below == CHOOSE f : Done(f, N)
<1>1. Subtree(t, n) = below[N]
  BY DEF Subtree
<1>2. N \in Nat /\ Nodes(t) = 1..N /\ n \in Nat /\ n >= 1 /\ n <= N
  BY SeqFacts DEF TreeShape, Nodes
<1>3. \A m \in Nodes(t) : \A c \in ToSet(Children(t, m)) : c \in Nodes(t) /\ c > m
  BY DEF TreeShape, NodeShape
<1>4. \A b, k : /\ b \subseteq Step(b, k)
                /\ \A m \in b : ToSet(Children(t, m)) \subseteq Step(b, k)
                /\ \A c \in Step(b, k) : c \in b \/ \E m \in b : c \in ToSet(Children(t, m))
  OBVIOUS
<1>14. n \in base /\ \A m \in base : m = n
  OBVIOUS
<1> HIDE DEF Step, N, base, below
<1>5. Done(below, N)
  <2> DEFINE S == {k \in 0..N : \E f : Done(f, k)}
  <2>1. 0 \in S
    <3> DEFINE f == [i \in 0..0 |-> base]
    <3>1. Done(f, 0)
      BY DEF Done
    <3> HIDE DEF f, Done
    <3>2. QED
      BY <1>2, <3>1
  <2>2. ASSUME NEW k \in 1..N, k - 1 \in S PROVE k \in S
    <3>1. k \in Nat \ {0} /\ k \in 0..N
      BY <1>2
    <3> HIDE DEF Done
    <3>2. PICK f : Done(f, k - 1)
      BY <2>2
    <3> DEFINE v == Step(f[k - 1], k)
    <3> HIDE DEF v
    <3> DEFINE g == Extend(f, k, v)
    <3>3. /\ g = [i \in 0..k |-> g[i]] /\ g[k] = v
          /\ \A i \in 0..(k - 1) : g[i] = f[i]
      BY <3>1, Extended
    <3> HIDE DEF g
    <3>4. \A i \in 0..(k - 1) : f[i] = IF i = 0 THEN base ELSE Step(f[i - 1], i)
      BY <3>2 DEF Done
    <3>5. ASSUME NEW i \in 0..k PROVE g[i] = IF i = 0 THEN base ELSE Step(g[i - 1], i)
      <4>1. CASE i = k
        <5>1. k # 0 /\ k - 1 \in 0..(k - 1)
          BY <3>1
        <5>2. g[k - 1] = f[k - 1]
          BY <3>3, <5>1
        <5>3. QED
          BY <3>3, <4>1, <5>1, <5>2 DEF v
      <4>2. CASE i # k
        <5>1. i \in 0..(k - 1) /\ (i # 0 => i - 1 \in 0..(k - 1))
          BY <3>1, <4>2
        <5>2. g[i] = f[i] /\ (i # 0 => g[i - 1] = f[i - 1])
          BY <3>3, <5>1
        <5>3. QED
          BY <3>4, <5>1, <5>2
      <4>3. QED
        BY <4>1, <4>2
    <3>6. Done(g, k)
      BY <3>3, <3>5 DEF Done
    <3>7. QED
      BY <3>1, <3>6
  <2> HIDE DEF S
  <2>3. Steps(S, N)
    BY <2>1, <2>2 DEF Steps
  <2>4. N \in S
    BY <1>2, <2>3, StepByStep
  <2>5. \E f : Done(f, N)
    <3> HIDE DEF Done
    <3>1. QED
      BY <2>4 DEF S
  <2> HIDE DEF Done
  <2>6. QED
    BY <2>5 DEF below
<1>6. /\ below[0] = base
      /\ \A i \in 1..N : below[i] = Step(below[i - 1], i)
  BY <1>2, <1>5
<1> HIDE DEF Done
<1> DEFINE Mono == {k \in 0..N : \A i \in 0..k : below[i] \subseteq below[k]}
<1>7. ASSUME NEW k \in 0..N, NEW i \in 0..k PROVE below[i] \subseteq below[k]
  <2>1. 0 \in Mono
    BY <1>2
  <2>2. ASSUME NEW l \in 1..N, l - 1 \in Mono PROVE l \in Mono
    <3>1. l \in Nat /\ l \in 0..N
      BY <1>2
    <3>2. below[l] = Step(below[l - 1], l)
      BY <1>6
    <3>3. below[l - 1] \subseteq below[l]
      BY <1>4, <3>2
    <3>4. ASSUME NEW j \in 0..l PROVE below[j] \subseteq below[l]
      <4>1. CASE j = l
        BY <4>1
      <4>2. CASE j # l
        <5>1. j \in 0..(l - 1)
          BY <3>1, <4>2
        <5>2. below[j] \subseteq below[l - 1]
          BY <2>2, <5>1
        <5>3. QED
          BY <3>3, <5>2
      <4>3. QED
        BY <4>1, <4>2
    <3>5. QED
      BY <3>1, <3>4
  <2> HIDE DEF Mono
  <2>3. Steps(Mono, N)
    BY <2>1, <2>2 DEF Steps
  <2>4. k \in Mono
    BY <1>2, <2>3, StepByStep
  <2>5. QED
    BY <2>4 DEF Mono
<1> DEFINE Early == {k \in 0..N : \A m \in below[k] :
                        m \in Nodes(t) /\ m >= n /\ m \in below[m - n]}
<1>8. 0 \in Early
  <2>1. below[0] = base /\ n - n = 0
    BY <1>2, <1>6
  <2>2. ASSUME NEW m \in below[0] PROVE m \in Nodes(t) /\ m >= n /\ m \in below[m - n]
    <3>1. m = n
      BY <1>14, <2>1
    <3>2. m - n = 0
      BY <2>1, <3>1
    <3>3. m \in below[m - n]
      BY <3>2
    <3>4. QED
      BY <1>2, <3>1, <3>3
  <2>3. 0 \in 0..N
    BY <1>2
  <2>4. QED
    BY <2>2, <2>3
<1>9. ASSUME NEW k \in 1..N, k - 1 \in Early PROVE k \in Early
  <2>1. k \in 0..N /\ \A m \in below[k - 1] : m \in Nodes(t) /\ m >= n /\ m \in below[m - n]
    BY <1>2, <1>9
  <2>2. below[k] = Step(below[k - 1], k)
    BY <1>6
  <2>3. ASSUME NEW c \in below[k] PROVE c \in Nodes(t) /\ c >= n /\ c \in below[c - n]
    <3>1. CASE c \in below[k - 1]
      BY <2>1, <3>1
    <3>2. CASE c \notin below[k - 1]
      <4>1. PICK m \in below[k - 1] : c \in ToSet(Children(t, m))
        BY <1>4, <2>2, <3>2
      <4>2. m \in Nodes(t) /\ m >= n /\ m \in below[m - n]
        BY <2>1
      <4>3. c \in Nodes(t) /\ c > m
        BY <1>3, <4>1, <4>2
      <4>4. /\ c >= n /\ m - n + 1 \in 1..N /\ (m - n + 1) - 1 = m - n
            /\ c - n \in 0..N /\ m - n + 1 \in 0..(c - n)
        BY <1>2, <4>2, <4>3
      <4>5. below[m - n + 1] = Step(below[m - n], m - n + 1)
        BY <1>6, <4>4
      <4>6. c \in below[m - n + 1]
        BY <1>4, <4>1, <4>2, <4>5
      <4>7. below[m - n + 1] \subseteq below[c - n]
        BY <1>7, <4>4
      <4>8. QED
        BY <4>3, <4>4, <4>6, <4>7
    <3>3. QED
      BY <3>1, <3>2
  <2>4. QED
    BY <2>1, <2>3
<1>10. \A m \in below[N] : m \in Nodes(t) /\ m >= n /\ m \in below[m - n]
  <2> HIDE DEF Early
  <2>1. Steps(Early, N)
    BY <1>8, <1>9 DEF Steps
  <2>2. N \in Early
    BY <1>2, <2>1, StepByStep
  <2>3. QED
    BY <2>2 DEF Early
<1> HIDE DEF Early, Mono
<1>11. n \in below[N]
  BY <1>2, <1>6, <1>7, <1>14
<1>12. ClosedBelow(t, below[N])
  <2> SUFFICES ASSUME NEW m \in below[N], NEW c \in ToSet(Children(t, m)) PROVE c \in below[N]
    BY DEF ClosedBelow
  <2>1. m \in Nodes(t) /\ m >= n /\ m \in below[m - n]
    BY <1>10
  <2>2. c \in Nodes(t) /\ c > m
    BY <1>3, <2>1
  <2>3. m - n + 1 \in 1..N /\ (m - n + 1) - 1 = m - n /\ N \in 0..N /\ m - n + 1 \in 0..N
    BY <1>2, <2>1, <2>2
  <2>4. below[m - n + 1] = Step(below[m - n], m - n + 1)
    BY <1>6, <2>3
  <2>5. c \in below[m - n + 1]
    BY <1>4, <2>1, <2>4
  <2>6. QED
    BY <1>7, <2>3, <2>5
<1>13. ASSUME NEW S, n \in S, ClosedBelow(t, S) PROVE below[N] \subseteq S
  <2> DEFINE In == {k \in 0..N : below[k] \subseteq S}
  <2>1. 0 \in In
    <3>1. below[0] = base /\ 0 \in 0..N
      BY <1>2, <1>6
    <3>2. \A m \in below[0] : m \in S
      BY <1>13, <1>14, <3>1
    <3>3. QED
      BY <3>1, <3>2
  <2>2. ASSUME NEW k \in 1..N, k - 1 \in In PROVE k \in In
    <3>1. below[k] = Step(below[k - 1], k) /\ k \in 0..N
      BY <1>2, <1>6
    <3>2. below[k - 1] \subseteq S
      BY <2>2
    <3>3. \A c \in below[k] : c \in S
      BY <1>4, <1>13, <3>1, <3>2 DEF ClosedBelow
    <3>4. QED
      BY <3>1, <3>3
  <2> HIDE DEF In
  <2>3. Steps(In, N)
    BY <2>1, <2>2 DEF Steps
  <2>4. N \in In
    BY <1>2, <2>3, StepByStep
  <2>5. QED
    BY <2>4 DEF In
<1>15. QED
  BY <1>1, <1>10, <1>11, <1>12, <1>13

Digest(t, f, n) ==
    [self |-> Content(t, n),
     below |-> [i \in DOMAIN Children(t, n) |-> f[Children(t, n)[i]]]]

\* A fingerprint is what it is meant to be: the children's numbers being
\* larger, the recursion ends.
LEMMA FingerprintsAre ==
    ASSUME NEW t, TreeShape(t)
    PROVE  \A n \in Nodes(t) : Fingerprints(t)[n] = Digest(t, Fingerprints(t), n)
<1> DEFINE N == Len(t.nodes)
           Done(f, j) == f = [n \in (N - j + 1)..N |-> Digest(t, f, n)]
           fp == CHOOSE f : f = [n \in Nodes(t) |-> Digest(t, f, n)]
           S == {j \in 0..N : \E f : Done(f, j)}
<1>1. Fingerprints(t) = fp
  BY DEF Fingerprints, Digest
<1>2. N \in Nat /\ Nodes(t) = 1..N
  BY SeqFacts DEF TreeShape, Nodes
<1>3. \A m \in Nodes(t) : \A i \in DOMAIN Children(t, m) :
         Children(t, m)[i] \in Nodes(t) /\ Children(t, m)[i] > m
  BY DEF TreeShape, NodeShape, ToSet
<1> HIDE DEF N
<1>4. 0 \in S
  <2> DEFINE f == [n \in (N + 1)..N |-> 0]
  <2>1. (N - 0 + 1)..N = {} /\ (N + 1)..N = {}
    BY <1>2
  <2>2. Done(f, 0)
    BY <2>1
  <2> HIDE DEF Done, f
  <2>3. QED
    BY <1>2, <2>2
<1>5. ASSUME NEW j \in 1..N, j - 1 \in S PROVE j \in S
  <2> DEFINE m == N - j + 1
  <2>1. m \in Nodes(t) /\ j \in 0..N /\ N - (j - 1) + 1 = m + 1
    BY <1>2
  <2> HIDE DEF Done
  <2>2. PICK f : Done(f, j - 1)
    BY <1>5
  <2>3. f = [n \in (m + 1)..N |-> Digest(t, f, n)]
    BY <2>1, <2>2 DEF Done
  <2> HIDE DEF m
  <2>4. \A n \in (m + 1)..N : f[n] = Digest(t, f, n)
    BY <2>3
  <2> DEFINE v == Digest(t, f, m)
             g == [n \in m..N |-> IF n = m THEN v ELSE f[n]]
  <2> HIDE DEF v
  <2>5. \A n \in (m + 1)..N : n \in m..N /\ n # m
    BY <1>2, <2>1
  <2>6. \A n \in m..N : n = m \/ n \in (m + 1)..N
    BY <1>2, <2>1
  <2>7. \A n \in (m + 1)..N : g[n] = f[n]
    BY <2>5
  <2>8. g[m] = v /\ DOMAIN g = m..N /\ g = [n \in m..N |-> g[n]]
    BY <1>2, <2>1
  <2> HIDE DEF g
  <2>9. ASSUME NEW n \in m..N PROVE Digest(t, g, n) = Digest(t, f, n)
    <3>1. n \in Nodes(t)
      BY <1>2, <2>1
    <3>2. \A i \in DOMAIN Children(t, n) : Children(t, n)[i] \in (m + 1)..N
      <4> TAKE i \in DOMAIN Children(t, n)
      <4>1. Children(t, n)[i] \in Nodes(t) /\ Children(t, n)[i] > n
        BY <1>3, <3>1
      <4>2. QED
        BY <1>2, <2>1, <3>1, <4>1
    <3>3. \A i \in DOMAIN Children(t, n) : g[Children(t, n)[i]] = f[Children(t, n)[i]]
      BY <2>7, <3>2
    <3>4. QED
      BY <3>3 DEF Digest
  <2>10. ASSUME NEW n \in m..N PROVE g[n] = Digest(t, g, n)
    <3>1. CASE n = m
      BY <2>8, <2>9, <3>1 DEF v
    <3>2. CASE n # m
      BY <2>4, <2>6, <2>7, <2>9, <3>2
    <3>3. QED
      BY <3>1, <3>2
  <2>11. Done(g, j)
    BY <2>8, <2>10 DEF Done, m
  <2>12. QED
    BY <2>1, <2>11
<1>6. \E f : Done(f, N)
  <2> HIDE DEF S
  <2>1. Steps(S, N)
    BY <1>4, <1>5 DEF Steps
  <2>2. N \in S
    BY <1>2, <2>1, StepByStep
  <2> HIDE DEF Done
  <2>3. QED
    BY <2>2 DEF S
<1>7. fp = [n \in Nodes(t) |-> Digest(t, fp, n)]
  <2>1. (N - N + 1)..N = Nodes(t)
    BY <1>2
  <2>2. \E f : f = [n \in Nodes(t) |-> Digest(t, f, n)]
    BY <1>6, <2>1
  <2>3. QED
    BY <2>2
<1> HIDE DEF fp
<1>8. QED
  BY <1>1, <1>7

(***************************************************************************)
(* What a compile may reuse.                                               *)
(***************************************************************************)
LEMMA SameDigest ==
    ASSUME NEW t, NEW f, NEW n, NEW s, NEW g, NEW m, Digest(t, f, n) = Digest(s, g, m)
    PROVE  /\ Content(t, n) = Content(s, m)
           /\ DOMAIN Children(t, n) = DOMAIN Children(s, m)
           /\ \A i \in DOMAIN Children(t, n) : f[Children(t, n)[i]] = g[Children(s, m)[i]]
<1> DEFINE a == Digest(t, f, n)
           b == Digest(s, g, m)
<1>1. /\ a.self = Content(t, n)
      /\ a.below = [i \in DOMAIN Children(t, n) |-> f[Children(t, n)[i]]]
  BY DEF Digest
<1>2. /\ b.self = Content(s, m)
      /\ b.below = [i \in DOMAIN Children(s, m) |-> g[Children(s, m)[i]]]
  BY DEF Digest
<1>3. a = b
  OBVIOUS
<1> HIDE DEF a, b
<1>4. /\ DOMAIN a.below = DOMAIN Children(t, n)
      /\ \A i \in DOMAIN Children(t, n) : a.below[i] = f[Children(t, n)[i]]
  BY <1>1
<1>5. /\ DOMAIN b.below = DOMAIN Children(s, m)
      /\ \A i \in DOMAIN Children(s, m) : b.below[i] = g[Children(s, m)[i]]
  BY <1>2
<1>6. QED
  BY <1>1, <1>2, <1>3, <1>4, <1>5

\* Of two nodes with one fingerprint, what hangs below the one hangs below
\* the other.
LEMMA SameFingerprint ==
    ASSUME NEW t, TreeShape(t), NEW n \in Nodes(t),
           NEW s, TreeShape(s), NEW m \in Nodes(s),
           Fingerprints(t)[n] = Fingerprints(s)[m]
    PROVE  \A x \in Subtree(t, n) : \E y \in Subtree(s, m) : Content(t, x) = Content(s, y)
<1> DEFINE f == Fingerprints(t)
           g == Fingerprints(s)
           Under == Subtree(s, m)
           S == {x \in Nodes(t) : \E y \in Under : f[x] = g[y]}
<1>1. /\ \A x \in Nodes(t) : f[x] = Digest(t, f, x)
      /\ \A y \in Nodes(s) : g[y] = Digest(s, g, y)
  BY FingerprintsAre
<1>2. /\ m \in Under /\ Under \subseteq Nodes(s)
      /\ \A y \in Under : ToSet(Children(s, y)) \subseteq Under
  BY SubtreeIsClosure DEF ClosedBelow
<1>3. f[n] = g[m]
  OBVIOUS
<1> HIDE DEF f, g, Under
<1>4. n \in S
  BY <1>2, <1>3
<1>5. ASSUME NEW x \in Nodes(t), NEW y \in Under, f[x] = g[y]
      PROVE  /\ Content(t, x) = Content(s, y)
             /\ DOMAIN Children(t, x) = DOMAIN Children(s, y)
             /\ \A i \in DOMAIN Children(t, x) : f[Children(t, x)[i]] = g[Children(s, y)[i]]
  <2>1. Digest(t, f, x) = Digest(s, g, y)
    BY <1>1, <1>2, <1>5
  <2>2. QED
    BY <2>1, SameDigest
<1>6. ClosedBelow(t, S)
  <2> SUFFICES ASSUME NEW x \in S, NEW c \in ToSet(Children(t, x)) PROVE c \in S
    BY DEF ClosedBelow
  <2>1. PICK y \in Under : f[x] = g[y]
    OBVIOUS
  <2>2. PICK i \in DOMAIN Children(t, x) : c = Children(t, x)[i]
    BY DEF ToSet
  <2>3. /\ i \in DOMAIN Children(s, y) /\ f[c] = g[Children(s, y)[i]]
    BY <1>5, <2>1, <2>2
  <2>4. Children(s, y)[i] \in Under
    BY <1>2, <2>3 DEF ToSet
  <2>5. c \in Nodes(t)
    BY DEF TreeShape, NodeShape
  <2>6. QED
    BY <2>3, <2>4, <2>5
<1>7. Subtree(t, n) \subseteq S
  <2> HIDE DEF S
  <2>1. QED
    BY <1>4, <1>6, SubtreeIsClosure
<1>8. QED
  BY <1>5, <1>7 DEF Under

\* In a tree where no title repeats, a title finds its node.
LEMMA ByTitleFinds ==
    ASSUME NEW t, TreeShape(t),
           Cardinality({t.nodes[n].title : n \in Nodes(t)}) = Len(t.nodes)
    PROVE  /\ DOMAIN ByTitle(t) = {t.nodes[n].title : n \in Nodes(t)}
           /\ \A n \in Nodes(t) : ByTitle(t)[t.nodes[n].title] = n
<1> DEFINE N == Len(t.nodes)
           titles == {t.nodes[n].title : n \in Nodes(t)}
           f == [n \in 1..N |-> t.nodes[n].title]
           order == Traverse(t)
           Titled(x) == {k \in DOMAIN order : t.nodes[order[k]].title = x}
<1>1. N \in Nat /\ Nodes(t) = 1..N
  BY SeqFacts DEF TreeShape, Nodes
<1>2. ASSUME NEW n \in Nodes(t), NEW m \in Nodes(t), t.nodes[n].title = t.nodes[m].title
      PROVE  n = m
  <2>1. IsFiniteSet(1..N) /\ Cardinality(1..N) = N
    BY <1>1, FS_Interval
  <2>2. f \in [1..N -> titles] /\ \A x \in titles : \E i \in 1..N : f[i] = x
    BY <1>1
  <2>3. Cardinality(titles) = N
    OBVIOUS
  <2> HIDE DEF N, titles, f
  <2>4. f \in Surjection(1..N, titles)
    BY <2>2, Fun_IsSurj
  <2>5. f \in Injection(1..N, titles)
    BY <2>1, <2>3, <2>4, FS_SurjSameCardinalityImpliesInj
  <2>6. \A i, j \in 1..N : f[i] = f[j] => i = j
    BY <2>5 DEF Injection, IsInjective
  <2>7. f[n] = f[m]
    BY <1>1, <1>2 DEF f, N
  <2>8. QED
    BY <1>1, <2>6, <2>7
<1>3. ByTitle(t) = [x \in titles |-> order[Max(Titled(x))]]
  BY DEF ByTitle
<1>4. IsSeq(order) /\ ToSet(order) = Nodes(t)
  BY TraverseIsAll
<1>5. Len(order) \in Nat /\ DOMAIN order = 1..Len(order)
  BY <1>4, SeqFacts
<1> HIDE DEF order, N
<1>6. ASSUME NEW n \in Nodes(t) PROVE ByTitle(t)[t.nodes[n].title] = n
  <2> DEFINE x == t.nodes[n].title
             P == Titled(x)
  <2>1. PICK k \in DOMAIN order : order[k] = n
    BY <1>4 DEF ToSet
  <2>2. k \in P
    BY <2>1
  <2>3. P \in SUBSET Nat /\ \A i \in P : i <= Len(order)
    BY <1>5
  <2>4. \A i \in P : i \in DOMAIN order /\ t.nodes[order[i]].title = x
    OBVIOUS
  <2>5. x \in titles
    OBVIOUS
  <2> HIDE DEF titles
  <2>6. ByTitle(t)[x] = order[Max(P)]
    BY <1>3, <2>5
  <2> HIDE DEF P, x
  <2>7. Max(P) \in P
    BY <1>5, <2>2, <2>3, MaxOf
  <2>8. order[Max(P)] \in Nodes(t) /\ t.nodes[order[Max(P)]].title = t.nodes[n].title
    BY <1>4, <2>4, <2>7 DEF ToSet, x
  <2>9. order[Max(P)] = n
    BY <1>2, <2>8
  <2>10. QED
    BY <2>6, <2>9 DEF x
<1>7. DOMAIN ByTitle(t) = titles
  BY <1>3
<1>8. QED
  BY <1>6, <1>7

\* The state at the end of a compile of a document that has an old version.
LEMMA ReuseOfTrees ==
    ASSUME TreeShape(tree), TreeShape(old[1])
    PROVE  ReuseIsSound
<1> DEFINE s == old[1]
           Distinct(t) == Cardinality({t.nodes[n].title : n \in Nodes(t)}) = Len(t.nodes)
           fpIs == Fingerprints(tree)
           fpWas == Fingerprints(s)
           is == ByTitle(tree)
           was == ByTitle(s)
           both == DOMAIN was \cap DOMAIN is
           changes == DetectChanges(s, tree)
           changed == changes.added \cup changes.removed \cup changes.modified
                          \cup changes.restructured
<1>1. SUFFICES ASSUME Distinct(tree), Distinct(s), NEW p \in Reused(s, tree)
               PROVE  /\ tree.nodes[p[1]].text = s.nodes[p[2]].text
                      /\ {tree.nodes[m].title : m \in Subtree(tree, p[1])}
                             = {s.nodes[m].title : m \in Subtree(s, p[2])}
                      /\ UNION {Pieces(tree.nodes[m].text) : m \in Subtree(tree, p[1])}
                             = UNION {Pieces(s.nodes[m].text) : m \in Subtree(s, p[2])}
                      /\ KeyOf(tree, p[1]) = KeyOf(s, p[2])
                             => p[1] \notin NeedReprocess(s, tree)
  BY DEF ReuseIsSound
<1>2. PICK n \in Nodes(tree) :
         /\ p = <<n, was[tree.nodes[n].title]>>
         /\ tree.nodes[n].title \in DOMAIN was \ changed
  BY <1>1 DEF Reused
<1> DEFINE x == tree.nodes[n].title
           m == was[x]
<1>3. p[1] = n /\ p[2] = m
  BY <1>2
<1>4. /\ DOMAIN is = {tree.nodes[k].title : k \in Nodes(tree)}
      /\ is[x] = n
  BY <1>1, ByTitleFinds
<1>5. /\ DOMAIN was = {s.nodes[k].title : k \in Nodes(s)}
      /\ \A k \in Nodes(s) : was[s.nodes[k].title] = k
  BY <1>1, ByTitleFinds
<1>6. x \in both /\ x \notin changed
  BY <1>2, <1>4
<1>7. m \in Nodes(s) /\ s.nodes[m].title = x
  <2>1. PICK k \in Nodes(s) : s.nodes[k].title = x
    BY <1>2, <1>5
  <2>2. m = k
    BY <1>5, <2>1
  <2>3. QED
    BY <2>1, <2>2
<1>8. fpIs[n] = fpWas[m]
  <2> DEFINE modified == {y \in both : ContentChanged(fpIs[is[y]], fpWas[was[y]])}
             restructured == {y \in both \ modified : SubtreeChanged(fpIs[is[y]], fpWas[was[y]])}
  <2>1. changes.modified = modified /\ changes.restructured = restructured
    BY DEF DetectChanges
  <2> HIDE DEF changes, both, fpIs, fpWas, is, was
  <2>2. x \notin modified /\ x \notin restructured
    BY <1>6, <2>1
  <2>3. ~SubtreeChanged(fpIs[is[x]], fpWas[was[x]])
    BY <1>6, <2>2
  <2>4. QED
    BY <1>4, <2>3 DEF SubtreeChanged
<1> HIDE DEF changes, is, was, m, x
<1>9. /\ \A a \in Subtree(tree, n) : \E b \in Subtree(s, m) : Content(tree, a) = Content(s, b)
      /\ \A b \in Subtree(s, m) : \E a \in Subtree(tree, n) : Content(s, b) = Content(tree, a)
  BY <1>7, <1>8, SameFingerprint
<1>10. Content(tree, n) = Content(s, m)
  <2>1. Digest(tree, fpIs, n) = Digest(s, fpWas, m)
    BY <1>7, <1>8, FingerprintsAre
  <2>2. QED
    BY <2>1, SameDigest
<1>11. \A a, b : Content(tree, a) = Content(s, b) =>
          tree.nodes[a].title = s.nodes[b].title /\ tree.nodes[a].text = s.nodes[b].text
  BY DEF Content
<1> DEFINE Ours == Subtree(tree, n)
           Theirs == Subtree(s, m)
<1>12. /\ \A a \in Ours : \E b \in Theirs :
             tree.nodes[a].title = s.nodes[b].title /\ tree.nodes[a].text = s.nodes[b].text
       /\ \A b \in Theirs : \E a \in Ours :
             tree.nodes[a].title = s.nodes[b].title /\ tree.nodes[a].text = s.nodes[b].text
  <2>1. \A a \in Ours : \E b \in Theirs : Content(tree, a) = Content(s, b)
    BY <1>9
  <2>2. \A b \in Theirs : \E a \in Ours : Content(tree, a) = Content(s, b)
    BY <1>9
  <2> HIDE DEF Ours, Theirs
  <2>3. \A a \in Ours : \E b \in Theirs :
           tree.nodes[a].title = s.nodes[b].title /\ tree.nodes[a].text = s.nodes[b].text
    <3> TAKE a \in Ours
    <3>1. PICK b \in Theirs : Content(tree, a) = Content(s, b)
      BY <2>1
    <3>2. QED
      BY <1>11, <3>1
  <2>4. \A b \in Theirs : \E a \in Ours :
           tree.nodes[a].title = s.nodes[b].title /\ tree.nodes[a].text = s.nodes[b].text
    <3> TAKE b \in Theirs
    <3>1. PICK a \in Ours : Content(tree, a) = Content(s, b)
      BY <2>2
    <3>2. QED
      BY <1>11, <3>1
  <2>5. QED
    BY <2>3, <2>4
<1> HIDE DEF Ours, Theirs
<1>13. {tree.nodes[a].title : a \in Ours} = {s.nodes[b].title : b \in Theirs}
  BY <1>12
<1>14. UNION {Pieces(tree.nodes[a].text) : a \in Ours}
          = UNION {Pieces(s.nodes[b].text) : b \in Theirs}
  <2>1. {Pieces(tree.nodes[a].text) : a \in Ours} = {Pieces(s.nodes[b].text) : b \in Theirs}
    BY <1>12
  <2>2. QED
    BY <2>1
<1>15. KeyOf(tree, n) = KeyOf(s, m) => n \notin NeedReprocess(s, tree)
  BY <1>7, <1>8 DEF NeedReprocess
<1>16. tree.nodes[n].text = s.nodes[m].text
  BY <1>10, <1>11
<1>17. QED
  BY <1>3, <1>13, <1>14, <1>15, <1>16 DEF Ours, Theirs

\* Whatever the sources, the edits and the options: what a compile reuses was
\* made of a node that said the same, and so did all below it (detector.rs,
\* detect_changes; incremental/mod.rs, compute_reusable_summaries).
THEOREM ReuseIsSoundAlways == NavSpec => []ReuseIsSound
<1>1. DocInv => ReuseIsSound
  <2> SUFFICES ASSUME DocInv PROVE ReuseIsSound
    OBVIOUS
  <2>1. CASE old = NoOld
    BY <2>1 DEF ReuseIsSound
  <2>2. CASE old # NoOld
    BY <2>2, ReuseOfTrees DEF DocInv
  <2>3. QED
    BY <2>1, <2>2
<1>2. QED
  BY <1>1, DocInvInit, DocInvStep, PTL DEF NavSpec

(***************************************************************************)
(* Finding text by going where ls leads.                                   *)
(***************************************************************************)
\* Every node is reached: its parent has a smaller number.
LEMMA AllReachable ==
    ASSUME TreeShape(tree), Leads(index.nav, tree)
    PROVE  Nodes(tree) \subseteq Reachable
<1> DEFINE n == Len(tree.nodes)
           base == {Root}
           Step(b, k) == b \cup
                 UNION {{row.node : row \in ToSet(Ls(tree, index.nav, p))} : p \in b}
           Done(f, k) == f = [i \in 0..k |-> IF i = 0 THEN base ELSE Step(f[i - 1], i)]
           from == CHOOSE f : Done(f, n)
<1>1. Reachable = from[n]
  BY DEF Reachable
<1>2. n \in Nat /\ Nodes(tree) = 1..n
  BY SeqFacts DEF TreeShape, Nodes
<1>3. ASSUME NEW b, NEW k, NEW p \in Nodes(tree), p \in b
      PROVE  ToSet(Children(tree, p)) \subseteq Step(b, k)
  <2> DEFINE rows == RoutesOf(index.nav, p)
             ls == Ls(tree, index.nav, p)
  <2>1. {rows[i].node : i \in DOMAIN rows} = ToSet(Children(tree, p))
    BY DEF Leads
  <2>2. DOMAIN ls = DOMAIN rows /\ \A i \in DOMAIN rows : ls[i].node = rows[i].node
    BY DEF Ls
  <2>3. {row.node : row \in ToSet(ls)} \subseteq Step(b, k)
    BY <1>3
  <2> HIDE DEF rows, ls, Step
  <2>4. \A i \in DOMAIN rows : ls[i] \in ToSet(ls)
    BY <2>2 DEF ToSet
  <2>5. QED
    BY <2>1, <2>2, <2>3, <2>4
<1>4. \A b, k : b \subseteq Step(b, k)
  OBVIOUS
<1>7. Root \in base /\ Root = 1
  BY DEF Root
<1> HIDE DEF n, base, Step, from
<1>5. Done(from, n)
  <2> DEFINE S == {k \in 0..n : \E f : Done(f, k)}
  <2>1. 0 \in S
    <3> DEFINE f == [i \in 0..0 |-> base]
    <3>1. Done(f, 0)
      BY DEF Done
    <3> HIDE DEF f, Done
    <3>2. QED
      BY <1>2, <3>1
  <2>2. ASSUME NEW k \in 1..n, k - 1 \in S PROVE k \in S
    <3>1. k \in Nat \ {0} /\ k \in 0..n
      BY <1>2
    <3> HIDE DEF Done
    <3>2. PICK f : Done(f, k - 1)
      BY <2>2
    <3> DEFINE v == Step(f[k - 1], k)
    <3> HIDE DEF v
    <3> DEFINE g == Extend(f, k, v)
    <3>3. /\ g = [i \in 0..k |-> g[i]] /\ g[k] = v
          /\ \A i \in 0..(k - 1) : g[i] = f[i]
      BY <3>1, Extended
    <3> HIDE DEF g
    <3>4. \A i \in 0..(k - 1) : f[i] = IF i = 0 THEN base ELSE Step(f[i - 1], i)
      BY <3>2 DEF Done
    <3>5. ASSUME NEW i \in 0..k PROVE g[i] = IF i = 0 THEN base ELSE Step(g[i - 1], i)
      <4>1. CASE i = k
        <5>1. k # 0 /\ k - 1 \in 0..(k - 1)
          BY <3>1
        <5>2. g[k - 1] = f[k - 1]
          BY <3>3, <5>1
        <5>3. QED
          BY <3>3, <4>1, <5>1, <5>2 DEF v
      <4>2. CASE i # k
        <5>1. i \in 0..(k - 1) /\ (i # 0 => i - 1 \in 0..(k - 1))
          BY <3>1, <4>2
        <5>2. g[i] = f[i] /\ (i # 0 => g[i - 1] = f[i - 1])
          BY <3>3, <5>1
        <5>3. QED
          BY <3>4, <5>1, <5>2
      <4>3. QED
        BY <4>1, <4>2
    <3>6. Done(g, k)
      BY <3>3, <3>5 DEF Done
    <3>7. QED
      BY <3>1, <3>6
  <2> HIDE DEF S
  <2>3. Steps(S, n)
    BY <2>1, <2>2 DEF Steps
  <2>4. n \in S
    BY <1>2, <2>3, StepByStep
  <2>5. \E f : Done(f, n)
    <3> HIDE DEF Done
    <3>1. QED
      BY <2>4 DEF S
  <2> HIDE DEF Done
  <2>6. QED
    BY <2>5 DEF from
<1>6. /\ from[0] = base
      /\ \A i \in 1..n : from[i] = Step(from[i - 1], i)
  BY <1>2, <1>5
<1> HIDE DEF Done
<1> DEFINE S == {k \in 0..n : \A m \in Nodes(tree) : m <= k + 1 => m \in from[k]}
<1>8. 0 \in S
  <2>1. \A m \in Nodes(tree) : m <= 0 + 1 => m = 1
    BY <1>2
  <2>2. QED
    BY <1>2, <1>6, <1>7, <2>1
<1>9. ASSUME NEW k \in 1..n, k - 1 \in S PROVE k \in S
  <2>1. from[k] = Step(from[k - 1], k) /\ from[k - 1] \subseteq from[k]
    BY <1>4, <1>6
  <2>2. ASSUME NEW m \in Nodes(tree), m <= k + 1 PROVE m \in from[k]
    <3>1. CASE m <= k
      <4>1. m <= (k - 1) + 1
        BY <1>2, <3>1
      <4>2. m \in from[k - 1]
        BY <1>9, <4>1
      <4>3. QED
        BY <2>1, <4>2
    <3>2. CASE ~(m <= k)
      <4> DEFINE p == tree.nodes[m].parent
      <4>1. m # Root /\ m = k + 1
        BY <1>2, <1>7, <2>2, <3>2
      <4>2. p \in Nodes(tree) /\ m \in ToSet(Children(tree, p)) /\ m > p
        BY <4>1 DEF TreeShape, NodeShape
      <4> HIDE DEF p
      <4>3. p <= (k - 1) + 1
        BY <1>2, <4>1, <4>2
      <4>4. p \in from[k - 1]
        BY <1>9, <4>2, <4>3
      <4>5. QED
        BY <1>3, <2>1, <4>2, <4>4
    <3>3. QED
      BY <3>1, <3>2
  <2>3. QED
    BY <1>2, <2>2
<1> HIDE DEF S
<1>10. Steps(S, n)
  BY <1>8, <1>9 DEF Steps
<1>11. n \in S
  BY <1>2, <1>10, StepByStep
<1>12. \A m \in Nodes(tree) : m \in from[n]
  <2>1. \A m \in Nodes(tree) : m <= n + 1
    BY <1>2
  <2>2. QED
    BY <1>11, <2>1 DEF S
<1>13. QED
  BY <1>1, <1>12

\* Whatever the source, its edits and the options: unless thinning may drop
\* text, all of it is found by going where ls leads (parser.rs, build.rs,
\* split.rs, optimize.rs).
THEOREM TextReachableAlways == NavSpec => []TextReachable
<1>1. DocInv => TextReachable
  <2> SUFFICES ASSUME DocInv, stage = "done", opts.thinning # "drop"
               PROVE  TextReachable
    BY DEF TextReachable
  <2> DEFINE found == UNION {Pieces(tree.nodes[n].text) : n \in Reachable}
             given == UNION {Pieces(raw[i].text) : i \in DOMAIN raw}
             Blocks == DOMAIN source.blocks
             Plain == /\ source.format = "markdown" /\ PreambleNode
                      /\ \A i \in Blocks : source.blocks[i].kind = "heading" =>
                                              source.blocks[i].name # ""
                      /\ source.blocks # <<>> /\ source.blocks[1].kind = "heading"
                      /\ source.blocks[1].level \in MinLevel..MaxLevel
  <2>1. RawPieces(raw) \subseteq TreePieces(tree) /\ Leads(index.nav, tree) /\ TreeShape(tree)
    BY DEF DocInv, Built, Indexed
  <2>2. Nodes(tree) \subseteq Reachable
    BY <2>1, AllReachable
  <2>3. given = RawPieces(raw) /\ TreePieces(tree) \subseteq found
    BY <2>2 DEF RawPieces, TreePieces
  <2>4. Plain => source.format = "markdown" /\ AllBelow(source.blocks)
    BY DEF AllBelow
  <2>5. Plain => \A i \in Blocks : source.blocks[i].kind = "text" =>
                    source.blocks[i].piece.id \in RawPieces(raw)
    BY <2>4 DEF DocInv, Parsed
  <2> HIDE DEF found, given, Plain
  <2>6. /\ given \subseteq found
        /\ Plain => \A i \in Blocks : source.blocks[i].kind = "text" =>
                       source.blocks[i].piece.id \in found
    BY <2>1, <2>3, <2>5
  <2>7. QED
    BY <2>6 DEF TextReachable, found, given, Plain
<1>2. QED
  BY <1>1, DocInvInit, DocInvStep, PTL DEF NavSpec
=============================================================================
