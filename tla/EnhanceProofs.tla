---------------------------- MODULE EnhanceProofs -----------------------------
(***************************************************************************)
(* What Enhance promises of calls, summaries and the memo store, proved    *)
(* for any document versions, callers, models, chains and limits.          *)
(***************************************************************************)
EXTENDS Enhance, FiniteSetTheorems, FunctionTheorems, SequenceTheorems,
        WellFoundedInduction, TLAPS

(***************************************************************************)
(* Facts about parts of a sequence.                                        *)
(***************************************************************************)
\* Every set of natural numbers has a least one.
LEMMA LeastElement ==
    ASSUME NEW S \in SUBSET Nat, S # {}
    PROVE  \E m \in S : \A n \in S : m <= n
<1> DEFINE R == OpToRel(<, Nat)
<1>1. IsWellFoundedOn(R, Nat)
  BY NatLessThanWellFounded
<1>2. \A x, y \in Nat : y < x => <<y, x>> \in R
  BY DEF OpToRel
<1> HIDE DEF R
<1>3. PICK x \in S : \A y \in S : ~(<<y, x>> \in R)
  BY <1>1, WFMin
<1>4. \A y \in S : ~(y < x)
  BY <1>2, <1>3
<1> QED
  BY <1>3, <1>4

\* The k-th of some places is one with k places up to it.
LEMMA KthExists ==
    ASSUME NEW P \in SUBSET Nat, IsFiniteSet(P), NEW k \in 1..Cardinality(P)
    PROVE  Kth(P, k) \in P /\ Cardinality(UpTo(P, Kth(P, k))) = k
<1> DEFINE n == Cardinality(P)
           f == [i \in P |-> Cardinality(UpTo(P, i))]
<1>1. n \in Nat
  BY FS_CardinalityType
<1>2. ASSUME NEW i \in P
      PROVE  /\ IsFiniteSet(UpTo(P, i)) /\ UpTo(P, i) \subseteq P
             /\ Cardinality(UpTo(P, i)) \in 1..n
  <2>1. UpTo(P, i) \in SUBSET P /\ i \in UpTo(P, i)
    BY DEF UpTo
  <2>2. IsFiniteSet(UpTo(P, i)) /\ Cardinality(UpTo(P, i)) <= n
    BY <2>1, FS_Subset
  <2>3. Cardinality(UpTo(P, i)) \in Nat /\ Cardinality(UpTo(P, i)) # 0
    BY <2>1, <2>2, FS_CardinalityType, FS_EmptySet
  <2> QED
    BY <1>1, <2>1, <2>2, <2>3
<1>3. ASSUME NEW i \in P, NEW j \in P, i < j
      PROVE  f[i] # f[j]
  <2>1. UpTo(P, i) \in SUBSET UpTo(P, j) /\ j \in UpTo(P, j) /\ j \notin UpTo(P, i)
    <3>1. i \in Nat /\ j \in Nat /\ \A l \in P : l \in Nat
      OBVIOUS
    <3>2. \A l \in P : l <= i => l <= j
      BY <1>3, <3>1
    <3>3. UpTo(P, i) \subseteq UpTo(P, j)
      BY <3>2 DEF UpTo
    <3>4. j <= j /\ ~(j <= i)
      BY <1>3, <3>1
    <3> QED
      BY <3>3, <3>4 DEF UpTo
  <2>2. Cardinality(UpTo(P, j)) # Cardinality(UpTo(P, i))
    BY <1>2, <2>1, FS_Subset
  <2> QED
    BY <2>2
<1>4. f \in [P -> 1..n] /\ \A i, j \in P : f[i] = f[j] => i = j
  <2>1. f \in [P -> 1..n]
    BY <1>2
  <2>2. \A i, j \in P : i < j \/ i = j \/ j < i
    OBVIOUS
  <2> QED
    BY <1>3, <2>1, <2>2
<1>5. IsFiniteSet(1..n) /\ Cardinality(1..n) = n
  BY <1>1, FS_Interval
<1> HIDE DEF f
<1>6. f \in Injection(P, 1..n)
  BY <1>4, Fun_IsInj
<1>7. f \in Surjection(P, 1..n)
  BY <1>5, <1>6, FS_Injection
<1>8. PICK i \in P : f[i] = k
  <2>1. k \in 1..n
    OBVIOUS
  <2> HIDE DEF n
  <2>2. \A t \in 1..n : \E s \in P : f[s] = t
    BY <1>7, Fun_SurjectionProperties
  <2> QED
    BY <2>1, <2>2
<1>9. \E p \in P : Cardinality(UpTo(P, p)) = k
  BY <1>8 DEF f
<1> QED
  BY <1>9 DEF Kth

\* What At returns is the elements at the places, none of them twice.
LEMMA AtProperties ==
    ASSUME NEW S, NEW seq \in Seq(S), NEW P \in SUBSET DOMAIN seq
    PROVE  /\ At(seq, P) \in Seq(S)
           /\ Len(At(seq, P)) <= Len(seq)
           /\ \A k \in DOMAIN At(seq, P) : Kth(P, k) \in P /\ At(seq, P)[k] = seq[Kth(P, k)]
           /\ \A k, l \in DOMAIN At(seq, P) : Kth(P, k) = Kth(P, l) => k = l
<1>1. DOMAIN seq = 1..Len(seq) /\ Len(seq) \in Nat
  BY LenProperties
<1>2. IsFiniteSet(1..Len(seq)) /\ Cardinality(1..Len(seq)) = Len(seq)
  <2>1. 1 \in Int /\ Len(seq) \in Int
    BY <1>1
  <2>2. IsFiniteSet(1..Len(seq))
    BY <2>1, FS_Interval
  <2>3. Cardinality(1..Len(seq)) = IF 1 > Len(seq) THEN 0 ELSE Len(seq) - 1 + 1
    BY <2>1, FS_Interval
  <2> QED
    BY <1>1, <2>2, <2>3
<1>3. IsFiniteSet(P) /\ P \in SUBSET Nat /\ Cardinality(P) <= Len(seq)
  BY <1>1, <1>2, FS_Subset
<1>4. Cardinality(P) \in Nat
  BY <1>3, FS_CardinalityType
<1>5. DOMAIN At(seq, P) = 1..Cardinality(P)
  BY DEF At
<1>6. \A k \in 1..Cardinality(P) : Kth(P, k) \in P /\ Cardinality(UpTo(P, Kth(P, k))) = k
  BY <1>3, KthExists
<1>7. \A k \in 1..Cardinality(P) : At(seq, P)[k] = seq[Kth(P, k)]
  BY DEF At
<1>8. \A k \in 1..Cardinality(P) : seq[Kth(P, k)] \in S
  BY <1>1, <1>6, ElementOfSeq
<1>9. At(seq, P) \in Seq(S) /\ Len(At(seq, P)) = Cardinality(P)
  <2>1. At(seq, P) \in [1..Cardinality(P) -> S]
    BY <1>8 DEF At
  <2> QED
    BY <1>4, <2>1
<1> QED
  BY <1>3, <1>5, <1>6, <1>7, <1>9

(***************************************************************************)
(* The executor.                                                           *)
(***************************************************************************)
Busy == Waiting \cup Holding
Phase == {"new", "answered", "err", "dropped"} \cup Busy
Model == (UNION {ModelsOf(t) : t \in Caller}) \cup {""}
CallRec == [ph : Phase, model : Model, attempts : Nat, total : Nat,
            err : Errors \cup {"", "exhausted"}]

LlmTypes ==
    /\ chain \in Chains /\ call \in [Caller -> CallRec]
    /\ free \in Nat /\ tokens \in 0..Burst /\ queue \in Seq(Caller)

\* What is in the queue waits for a permit, once.
QueueInv ==
    /\ \A i \in DOMAIN queue : call[queue[i]].ph = "queue"
    /\ \A i, j \in DOMAIN queue : queue[i] = queue[j] => i = j
    /\ ~SemaphoreOn => queue = <<>> /\ free = Permits

\* How far down the chain a model is.
Place(m) == IF Places(m) = {} THEN 0 ELSE FirstPlace(m)

\* What a call that goes on has used up, and what one that gave up has.
CallOk(t, c) ==
    /\ IF c.ph = "new" THEN c.attempts = 0 /\ c.total = 0 ELSE c.model \in ModelsOf(t)
    /\ c.attempts <= c.total /\ c.total <= MaxTotal + 1
    /\ c.ph \in Busy =>
          /\ c.total \in 1..MaxTotal
          /\ c.attempts \in 1..(IF MaxAttempts = 0 THEN 1 ELSE MaxAttempts)
          /\ c.total + Place(FirstModel[t]) > Place(c.model)
    /\ c.ph = "sleep" => c.attempts < MaxAttempts
    /\ c.ph = "err" /\ ShouldFallback(c.err) =>
          /\ chain # <<>> => c.model = chain[Len(chain)]
          /\ c.total + Place(FirstModel[t]) > Len(chain)

CallsOk == \A t \in Caller : CallOk(t, call[t])

LlmInv == LlmTypes /\ QueueInv /\ CallsOk /\ PermitsConserved

\* The parts of the chain's places that its order is argued with.
LEMMA PlaceProperties ==
    ASSUME chain \in Chains, NEW m
    PROVE  /\ Len(chain) \in Nat /\ DOMAIN chain = 1..Len(chain)
           /\ Place(m) \in 0..Len(chain)
           /\ Places(m) # {} => FirstPlace(m) \in Places(m)
           /\ \A i \in Places(m) : FirstPlace(m) <= i
<1>1. chain \in Seq({chain[i] : i \in DOMAIN chain})
  BY LlmAssumption
<1>2. Len(chain) \in Nat /\ DOMAIN chain = 1..Len(chain)
  BY <1>1, LenProperties
<1>3. Places(m) \in SUBSET Nat /\ Places(m) \subseteq 1..Len(chain)
  BY <1>2 DEF Places
<1>4. ASSUME Places(m) # {}
      PROVE  FirstPlace(m) \in Places(m) /\ \A i \in Places(m) : FirstPlace(m) <= i
  <2>1. \E i \in Places(m) : \A j \in Places(m) : i <= j
    BY <1>3, <1>4, LeastElement
  <2> QED
    BY <2>1 DEF FirstPlace
<1> QED
  BY <1>2, <1>3, <1>4 DEF Place

\* The next model is one place further at most.
LEMMA NextIsNear ==
    ASSUME chain \in Chains, NEW m, NEW n \in NextModels(m)
    PROVE  Place(n) <= Place(m) + 1 /\ n \in {chain[i] : i \in DOMAIN chain}
<1>1. Len(chain) \in Nat /\ DOMAIN chain = 1..Len(chain)
  BY PlaceProperties
<1>2. PICK i \in DOMAIN chain : n = chain[i] /\ i = Place(m) + 1
  <2>1. CASE Places(m) = {}
    <3>1. chain # <<>> /\ n = chain[1]
      BY <2>1 DEF NextModels
    <3>2. chain \in Seq({chain[i] : i \in DOMAIN chain})
      BY LlmAssumption
    <3>3. Len(chain) \in Nat \ {0}
      BY <3>1, <3>2, EmptySeq
    <3> QED
      BY <1>1, <2>1, <3>1, <3>3 DEF Place
  <2>2. CASE Places(m) # {}
    <3>1. FirstPlace(m) < Len(chain) /\ n = chain[FirstPlace(m) + 1]
      BY <2>2 DEF NextModels
    <3>2. FirstPlace(m) \in 1..Len(chain)
      BY <1>1, <2>2, PlaceProperties DEF Places
    <3> QED
      BY <1>1, <2>2, <3>1, <3>2 DEF Place
  <2> QED
    BY <2>1, <2>2
<1>3. i \in Places(n)
  BY <1>2 DEF Places
<1>4. Place(n) <= i
  BY <1>3, PlaceProperties DEF Place
<1> QED
  BY <1>2, <1>4

\* Where the chain ends.
LEMMA EndOfChain ==
    ASSUME chain \in Chains, NEW m, NextModels(m) = {}
    PROVE  Place(m) = Len(chain) /\ (chain # <<>> => m = chain[Len(chain)])
<1>1. Len(chain) \in Nat /\ DOMAIN chain = 1..Len(chain)
  BY PlaceProperties
<1>2. CASE Places(m) = {}
  <2>1. chain = <<>>
    BY <1>2 DEF NextModels
  <2> QED
    BY <1>2, <2>1 DEF Place
<1>3. CASE Places(m) # {}
  <2>1. FirstPlace(m) \in 1..Len(chain) /\ chain[FirstPlace(m)] = m
    BY <1>1, <1>3, PlaceProperties DEF Places
  <2>2. ~(FirstPlace(m) < Len(chain))
    BY <1>3 DEF NextModels
  <2> QED
    BY <1>1, <1>3, <2>1, <2>2 DEF Place
<1> QED
  BY <1>2, <1>3

\* The permits out when one call changes.
Held(calls) == {u \in Caller : calls[u].ph \in Holding}

LEMMA HeldStep ==
    ASSUME NEW f, NEW g, NEW t \in Caller, \A u \in Caller \ {t} : g[u] = f[u]
    PROVE  /\ Cardinality(Held(f)) \in Nat
           /\ Cardinality(Held(g)) =
                 Cardinality(Held(f)) - (IF f[t].ph \in Holding THEN 1 ELSE 0)
                                      + (IF g[t].ph \in Holding THEN 1 ELSE 0)
<1> DEFINE rest == Held(f) \ {t}
<1>1. IsFiniteSet(Caller)
  BY LlmAssumption
<1>2. IsFiniteSet(Held(f)) /\ IsFiniteSet(rest)
  BY <1>1, FS_Subset DEF Held
<1>3. Cardinality(Held(f)) \in Nat /\ Cardinality(rest) \in Nat
  BY <1>2, FS_CardinalityType
<1>4. Cardinality(Held(f)) = Cardinality(rest) + (IF f[t].ph \in Holding THEN 1 ELSE 0)
  <2>1. CASE f[t].ph \in Holding
    <3>1. t \in Held(f)
      BY <2>1 DEF Held
    <3>2. Cardinality(rest) = Cardinality(Held(f)) - 1
      BY <1>2, <3>1, FS_RemoveElement
    <3> QED
      BY <1>3, <2>1, <3>2
  <2>2. CASE f[t].ph \notin Holding
    <3>1. rest = Held(f)
      BY <2>2 DEF Held
    <3>2. Cardinality(rest) = Cardinality(Held(f))
      BY <3>1
    <3> QED
      BY <1>3, <2>2, <3>2
  <2> QED
    BY <2>1, <2>2
<1>5. Cardinality(Held(g)) = Cardinality(rest) + (IF g[t].ph \in Holding THEN 1 ELSE 0)
  <2>1. CASE g[t].ph \in Holding
    <3>1. Held(g) = rest \cup {t} /\ t \notin rest
      BY <2>1 DEF Held
    <3>2. Cardinality(Held(g)) = Cardinality(rest) + 1
      BY <1>2, <3>1, FS_AddElement
    <3> QED
      BY <2>1, <3>2
  <2>2. CASE g[t].ph \notin Holding
    <3>1. Held(g) = rest
      BY <2>2 DEF Held
    <3>2. Cardinality(Held(g)) = Cardinality(rest)
      BY <3>1
    <3> QED
      BY <1>3, <2>2, <3>2
  <2> QED
    BY <2>1, <2>2
<1> QED
  BY <1>3, <1>4, <1>5

\* The chain of a process does not change.
LEMMA SameChain ==
    ASSUME chain' = chain
    PROVE  /\ \A m : Places(m)' = Places(m) /\ FirstPlace(m)' = FirstPlace(m)
           /\ \A m : Place(m)' = Place(m) /\ NextModels(m)' = NextModels(m)
           /\ \A t, c : CallOk(t, c)' <=> CallOk(t, c)
<1>1. ASSUME NEW m
      PROVE  /\ Places(m)' = Places(m) /\ FirstPlace(m)' = FirstPlace(m)
             /\ Place(m)' = Place(m) /\ NextModels(m)' = NextModels(m)
  <2>1. Places(m)' = Places(m)
    BY DEF Places
  <2>2. FirstPlace(m)' = FirstPlace(m)
    BY <2>1 DEF FirstPlace
  <2>3. Place(m)' = Place(m)
    BY <2>1, <2>2 DEF Place
  <2>4. NextModels(m)' = NextModels(m)
    BY <2>1, <2>2 DEF NextModels
  <2> QED
    BY <2>1, <2>2, <2>3, <2>4
<1>2. ASSUME NEW t, NEW c
      PROVE  CallOk(t, c)' <=> CallOk(t, c)
  BY <1>1 DEF CallOk
<1> QED
  BY <1>1, <1>2

LEMMA SameCalls ==
    ASSUME CallsOk, UNCHANGED <<chain, call>>
    PROVE  CallsOk'
<1> SUFFICES ASSUME NEW t \in Caller
             PROVE  CallOk(t, call[t])'
  BY DEF CallsOk
<1>1. PICK c : c = call[t]
  OBVIOUS
<1>2. CallOk(t, c)' /\ c = call'[t]
  BY <1>1, SameChain DEF CallsOk
<1> QED
  BY <1>2 DEF CallOk

\* The queue when a call that is not in it changes.
LEMMA QueueStays ==
    ASSUME LlmTypes, QueueInv, NEW t \in Caller, call[t].ph # "queue",
           NEW c, call' = [call EXCEPT ![t] = c], queue' = queue,
           SemaphoreOn \/ free' = free
    PROVE  QueueInv'
<1>1. \A i \in DOMAIN queue : queue[i] \in Caller
  BY LenProperties, ElementOfSeq DEF LlmTypes
<1>2. \A i \in DOMAIN queue : queue[i] # t
  BY DEF QueueInv
<1>3. \A i \in DOMAIN queue : call'[queue[i]] = call[queue[i]]
  BY <1>1, <1>2 DEF LlmTypes
<1> QED
  BY <1>3 DEF QueueInv

\* What is left to show of a step in which one call changes.
LEMMA CallChanges ==
    ASSUME LlmInv, chain' = chain, NEW t \in Caller, NEW c \in CallRec, CallOk(t, c),
           call' = [call EXCEPT ![t] = c],
           tokens' \in 0..Burst, queue' \in Seq(Caller), QueueInv', free' \in Nat,
           SemaphoreOn =>
               free' = free + (IF call[t].ph \in Holding THEN 1 ELSE 0)
                            - (IF c.ph \in Holding THEN 1 ELSE 0)
    PROVE  LlmInv'
<1>1. LlmTypes'
  BY DEF LlmTypes, LlmInv
<1>2. CallsOk'
  <2> SUFFICES ASSUME NEW u \in Caller
               PROVE  CallOk(u, call[u])'
    BY DEF CallsOk
  <2> DEFINE d == IF u = t THEN c ELSE call[u]
  <2>1. call'[u] = d
    BY DEF LlmInv, LlmTypes
  <2>2. CallOk(u, d)
    BY DEF LlmInv, CallsOk
  <2>3. PICK e : e = call'[u] /\ e = d
    BY <2>1
  <2>4. CallOk(u, e)'
    BY <2>2, <2>3, SameChain
  <2> QED
    BY <2>3, <2>4 DEF CallOk
<1>3. PermitsConserved'
  <2> SUFFICES ASSUME SemaphoreOn
               PROVE  free' + Cardinality(Held(call')) = Permits
    BY DEF PermitsConserved, Held
  <2>1. \A u \in Caller \ {t} : call'[u] = call[u]
    BY DEF LlmInv, LlmTypes
  <2>2. call'[t] = c
    BY DEF LlmInv, LlmTypes
  <2>3. /\ Cardinality(Held(call)) \in Nat
        /\ Cardinality(Held(call')) =
              Cardinality(Held(call)) - (IF call[t].ph \in Holding THEN 1 ELSE 0)
                                      + (IF call'[t].ph \in Holding THEN 1 ELSE 0)
    BY <2>1, HeldStep
  <2>4. free + Cardinality(Held(call)) = Permits
    BY DEF LlmInv, PermitsConserved, Held
  <2>5. free \in Nat /\ Permits \in Nat
    BY LlmAssumption DEF LlmInv, LlmTypes
  <2>6. free' = free + (IF call[t].ph \in Holding THEN 1 ELSE 0)
                     - (IF c.ph \in Holding THEN 1 ELSE 0)
    OBVIOUS
  <2>7. Cardinality(Held(call')) =
              Cardinality(Held(call)) - (IF call[t].ph \in Holding THEN 1 ELSE 0)
                                      + (IF c.ph \in Holding THEN 1 ELSE 0)
    BY <2>2, <2>3
  <2> QED
    BY SMTT(30), <2>3, <2>4, <2>5, <2>6, <2>7
<1> QED
  BY <1>1, <1>2, <1>3 DEF LlmInv

\* The head of the loop.
LEMMA AgainProperties ==
    ASSUME NEW c \in CallRec
    PROVE  /\ Again(c) \in CallRec /\ Again(c).model = c.model
           /\ Again(c).attempts = c.attempts + 1 /\ Again(c).total = c.total + 1
           /\ \/ Again(c).ph = "err" /\ Again(c).err = "exhausted"
              \/ Again(c).ph = "token" /\ Again(c).total <= MaxTotal
<1> DEFINE d == [c EXCEPT !.attempts = @ + 1, !.total = @ + 1]
<1>1. /\ d \in CallRec /\ d.model = c.model
      /\ d.attempts = c.attempts + 1 /\ d.total = c.total + 1
  <2>1. c.attempts \in Nat /\ c.total \in Nat
    BY DEF CallRec
  <2>2. c.attempts + 1 \in Nat /\ c.total + 1 \in Nat
    BY <2>1
  <2> QED
    BY <2>2 DEF CallRec
<1>2. Again(c) = IF d.total > MaxTotal THEN [d EXCEPT !.ph = "err", !.err = "exhausted"]
                 ELSE [d EXCEPT !.ph = "token"]
  BY DEF Again
<1> HIDE DEF d
<1>3. MaxTotal \in Nat /\ d.total \in Nat
  BY <1>1, LlmAssumption DEF CallRec
<1>4. CASE d.total > MaxTotal
  <2>1. Again(c) = [d EXCEPT !.ph = "err", !.err = "exhausted"]
    BY <1>2, <1>4
  <2> QED
    BY <1>1, <2>1 DEF CallRec, Phase
<1>5. CASE ~(d.total > MaxTotal)
  <2>1. Again(c) = [d EXCEPT !.ph = "token"]
    BY <1>2, <1>5
  <2>2. d.total <= MaxTotal
    BY <1>3, <1>5
  <2> QED
    BY <1>1, <2>1, <2>2 DEF CallRec, Phase, Busy, Waiting
<1> QED
  BY <1>4, <1>5

\* Another attempt of a call that has used up its attempts within bounds.
LEMMA AgainOk ==
    ASSUME LlmTypes, NEW t \in Caller, NEW c \in CallRec, c.model \in ModelsOf(t),
           c.attempts <= c.total, c.total <= MaxTotal,
           c.attempts < MaxAttempts \/ c.attempts = 0,
           c.total + 1 + Place(FirstModel[t]) > Place(c.model)
    PROVE  CallOk(t, Again(c)) /\ Again(c).ph \notin Holding
<1>1. /\ Again(c) \in CallRec /\ Again(c).model = c.model
      /\ Again(c).attempts = c.attempts + 1 /\ Again(c).total = c.total + 1
      /\ \/ Again(c).ph = "err" /\ Again(c).err = "exhausted"
         \/ Again(c).ph = "token" /\ Again(c).total <= MaxTotal
  BY AgainProperties
<1>2. c.attempts \in Nat /\ c.total \in Nat /\ MaxTotal \in Nat /\ MaxAttempts \in Nat
  BY LlmAssumption DEF CallRec
<1>3. ~ShouldFallback("exhausted")
  BY DEF ShouldFallback, BehaviourFor
<1>4. Again(c).ph = "token" =>
          /\ Again(c).total \in 1..MaxTotal
          /\ Again(c).attempts \in 1..(IF MaxAttempts = 0 THEN 1 ELSE MaxAttempts)
          /\ Again(c).total + Place(FirstModel[t]) > Place(Again(c).model)
  <2>1. Again(c).ph = "token" => Again(c).total <= MaxTotal
    BY <1>1
  <2>2. c.attempts + 1 \in 1..(IF MaxAttempts = 0 THEN 1 ELSE MaxAttempts)
    BY <1>2
  <2> QED
    BY <1>1, <1>2, <2>1, <2>2
<1>5. Again(c).attempts <= Again(c).total /\ Again(c).total <= MaxTotal + 1
  BY <1>1, <1>2
<1> QED
  BY <1>1, <1>3, <1>4, <1>5 DEF CallOk, Holding, Busy, Waiting

\* A call that is not in the queue changes, and its permit goes if it had one.
LEMMA PermitKept ==
    ASSUME LlmInv, NEW t \in Caller, NEW c \in CallRec, CallOk(t, c),
           call[t].ph # "queue", call' = [call EXCEPT ![t] = c],
           UNCHANGED <<chain, queue, tokens>>,
           \/ free' = free /\ (call[t].ph \in Holding <=> c.ph \in Holding)
           \/ Release(t) /\ call[t].ph \in Holding /\ c.ph \notin Holding
    PROVE  LlmInv'
<1>1. LlmTypes /\ QueueInv /\ free \in Nat /\ queue' = queue /\ chain' = chain
  BY DEF LlmInv, LlmTypes
<1>2. SemaphoreOn \/ free' = free
  BY DEF Release
<1>3. QueueInv'
  BY <1>1, <1>2, QueueStays
<1>4. free' \in Nat
  BY <1>1 DEF Release
<1>5. SemaphoreOn =>
          free' = free + (IF call[t].ph \in Holding THEN 1 ELSE 0)
                       - (IF c.ph \in Holding THEN 1 ELSE 0)
  BY <1>1 DEF Release
<1>6. tokens' \in 0..Burst /\ queue' \in Seq(Caller)
  BY DEF LlmInv, LlmTypes
<1> QED
  BY <1>1, <1>3, <1>4, <1>5, <1>6, CallChanges

LEMMA BeginKeeps ==
    ASSUME LlmInv, NEW t \in Caller, Begin(t)
    PROVE  LlmInv'
<1> DEFINE d == [call[t] EXCEPT !.model = FirstModel[t]]
           c == Again(d)
<1>1. /\ call[t] \in CallRec /\ call[t].ph = "new" /\ call[t].attempts = 0
      /\ call[t].total = 0
  BY DEF Begin, LlmInv, LlmTypes, CallsOk, CallOk
<1>2. FirstModel[t] \in ModelsOf(t) /\ FirstModel[t] \in Model
  BY DEF ModelsOf, Model
<1>3. d \in CallRec /\ d.model = FirstModel[t] /\ d.attempts = 0 /\ d.total = 0
  BY <1>1, <1>2 DEF CallRec
<1>4. call' = [call EXCEPT ![t] = c] /\ UNCHANGED <<free, queue, tokens, chain>>
  BY DEF Begin, LlmInv, LlmTypes
<1>5. Place(FirstModel[t]) \in Nat
  <2>1. chain \in Chains
    BY DEF LlmInv, LlmTypes
  <2>2. Place(FirstModel[t]) \in 0..Len(chain) /\ Len(chain) \in Nat
    BY <2>1, PlaceProperties
  <2> QED
    BY <2>2
<1> HIDE DEF d
<1>6. CallOk(t, c) /\ c.ph \notin Holding /\ c \in CallRec
  <2>1. MaxTotal \in Nat \ {0}
    BY LlmAssumption
  <2>2. d.total + 1 + Place(FirstModel[t]) > Place(d.model) /\ d.total <= MaxTotal
    BY <1>3, <1>5, <2>1
  <2>3. LlmTypes /\ d.attempts <= d.total
    BY <1>3 DEF LlmInv
  <2> QED
    BY <1>2, <1>3, <2>2, <2>3, AgainOk, AgainProperties
<1> HIDE DEF c
<1> QED
  BY <1>1, <1>4, <1>6, PermitKept DEF Holding

LEMMA TakeTokenKeeps ==
    ASSUME LlmInv, chain' = chain, NEW t \in Caller, TakeToken(t)
    PROVE  LlmInv'
<1> DEFINE c == [call[t] EXCEPT !.ph = IF SemaphoreOn THEN "queue" ELSE "request"]
<1>1. call[t] \in CallRec /\ call[t].ph = "token" /\ CallOk(t, call[t])
  BY DEF LlmInv, LlmTypes, CallsOk, TakeToken
<1>2. c \in CallRec
  BY <1>1, LlmAssumption DEF CallRec, Phase, Busy, Waiting, Holding
<1>3. CallOk(t, c)
  BY <1>1, LlmAssumption DEF CallOk, CallRec, Busy, Waiting, Holding
<1>4. call' = [call EXCEPT ![t] = c] /\ free' = free
  BY DEF TakeToken
<1>5. tokens' \in 0..Burst
  BY LlmAssumption DEF TakeToken, LlmInv, LlmTypes
<1>6. free \in Nat
  BY DEF LlmInv, LlmTypes
<1>7. QueueInv' /\ queue' \in Seq(Caller)
  <2>1. queue \in Seq(Caller) /\ QueueInv
    BY DEF LlmInv, LlmTypes
  <2>2. CASE SemaphoreOn
    <3>1. queue' = Append(queue, t)
      BY <2>2 DEF TakeToken
    <3>2. Len(queue) \in Nat /\ DOMAIN queue = 1..Len(queue)
      BY <2>1, LenProperties
    <3>3. /\ queue' \in Seq(Caller) /\ Len(queue') = Len(queue) + 1
          /\ \A i \in 1..Len(queue) : queue'[i] = queue[i]
          /\ queue'[Len(queue) + 1] = t
      BY <2>1, <3>1, AppendProperties
    <3>4. DOMAIN queue' = 1..(Len(queue) + 1)
      BY <3>3, LenProperties
    <3>5. \A i \in 1..Len(queue) : queue[i] \in Caller /\ queue[i] # t
                                     /\ call'[queue[i]].ph = "queue"
      <4>1. \A i \in 1..Len(queue) : queue[i] \in Caller /\ call[queue[i]].ph = "queue"
        BY <2>1, <3>2, ElementOfSeq DEF QueueInv
      <4>2. \A i \in 1..Len(queue) : queue[i] # t
        BY <1>1, <4>1
      <4> QED
        BY <1>4, <4>1, <4>2 DEF LlmInv, LlmTypes
    <3>6. call'[t].ph = "queue"
      BY <1>1, <1>4, <2>2 DEF LlmInv, LlmTypes, CallRec
    <3>7. \A i \in 1..(Len(queue) + 1) : i \in 1..Len(queue) \/ i = Len(queue) + 1
      BY <3>2
    <3>8. \A i \in DOMAIN queue' : call'[queue'[i]].ph = "queue"
      BY <3>3, <3>4, <3>5, <3>6, <3>7
    <3>9. \A i, j \in DOMAIN queue' : queue'[i] = queue'[j] => i = j
      BY <2>1, <3>2, <3>3, <3>4, <3>5, <3>7 DEF QueueInv
    <3> QED
      BY <2>2, <3>3, <3>8, <3>9 DEF QueueInv
  <2>3. CASE ~SemaphoreOn
    <3>1. queue' = queue
      BY <2>3 DEF TakeToken
    <3> QED
      BY <1>1, <1>4, <2>1, <3>1, QueueStays DEF LlmInv
  <2> QED
    BY <2>2, <2>3
<1>8. SemaphoreOn =>
          free' = free + (IF call[t].ph \in Holding THEN 1 ELSE 0)
                       - (IF c.ph \in Holding THEN 1 ELSE 0)
  <2>1. call[t].ph \notin Holding
    BY <1>1 DEF Holding
  <2>2. SemaphoreOn => c.ph \notin Holding
    BY <1>1 DEF Holding, CallRec
  <2> HIDE DEF c
  <2> QED
    BY <1>4, <1>6, <2>1, <2>2
<1> HIDE DEF c
<1> QED
  BY <1>2, <1>3, <1>4, <1>5, <1>6, <1>7, <1>8, CallChanges

LEMMA TakePermitKeeps ==
    ASSUME LlmInv, chain' = chain, NEW t \in Caller, TakePermit(t)
    PROVE  LlmInv'
<1> DEFINE c == [call[t] EXCEPT !.ph = "request"]
<1>1. queue \in Seq(Caller) /\ QueueInv /\ queue # <<>> /\ t = Head(queue)
  BY DEF TakePermit, LlmInv, LlmTypes
<1>2. Len(queue) \in Nat \ {0} /\ DOMAIN queue = 1..Len(queue) /\ t = queue[1]
  BY <1>1, EmptySeq, LenProperties
<1>3. SemaphoreOn
  BY <1>1 DEF QueueInv
<1>4. call[t] \in CallRec /\ call[t].ph = "queue" /\ CallOk(t, call[t])
  BY <1>1, <1>2 DEF LlmInv, LlmTypes, CallsOk, QueueInv
<1>5. c \in CallRec
  BY <1>4 DEF CallRec, Phase, Busy, Waiting, Holding
<1>6. CallOk(t, c)
  BY <1>4 DEF CallOk, CallRec, Busy, Waiting, Holding
<1>7. call' = [call EXCEPT ![t] = c] /\ free' = free - 1 /\ free > 0 /\ tokens' = tokens
  BY DEF TakePermit
<1>8. free \in Nat /\ free' \in Nat /\ tokens \in 0..Burst
  BY <1>7 DEF LlmInv, LlmTypes
<1>9. QueueInv' /\ queue' \in Seq(Caller)
  <2>1. /\ queue' = Tail(queue) /\ queue' \in Seq(Caller) /\ Len(queue') = Len(queue) - 1
        /\ \A i \in 1..Len(queue') : queue'[i] = queue[i + 1]
    BY <1>1, HeadTailProperties DEF TakePermit
  <2>2. DOMAIN queue' = 1..Len(queue')
    BY <2>1, LenProperties
  <2>3. \A i \in 1..Len(queue') : i + 1 \in 1..Len(queue) /\ i + 1 # 1
    BY <1>2, <2>1
  <2>4. \A i \in 1..Len(queue') : queue'[i] \in Caller /\ queue'[i] # t
                                    /\ call[queue'[i]].ph = "queue"
    BY <1>1, <1>2, <2>1, <2>3, ElementOfSeq DEF QueueInv
  <2>5. \A i \in DOMAIN queue' : call'[queue'[i]].ph = "queue"
    BY <1>7, <2>2, <2>4 DEF LlmInv, LlmTypes
  <2>6. \A i, j \in DOMAIN queue' : queue'[i] = queue'[j] => i = j
    <3> SUFFICES ASSUME NEW i \in 1..Len(queue'), NEW j \in 1..Len(queue'),
                        queue'[i] = queue'[j]
                 PROVE  i = j
      BY <2>2
    <3>1. queue[i + 1] = queue[j + 1]
      BY <2>1
    <3>2. i + 1 = j + 1
      BY <1>1, <1>2, <2>3, <3>1 DEF QueueInv
    <3> QED
      BY <3>2
  <2> QED
    BY <1>3, <2>1, <2>5, <2>6 DEF QueueInv
<1>10. free' = free + (IF call[t].ph \in Holding THEN 1 ELSE 0)
                    - (IF c.ph \in Holding THEN 1 ELSE 0)
  <2>1. call[t].ph \notin Holding /\ c.ph \in Holding
    BY <1>4 DEF Holding, CallRec
  <2> HIDE DEF c
  <2> QED
    BY <1>7, <1>8, <2>1
<1> HIDE DEF c
<1> QED
  BY <1>5, <1>6, <1>7, <1>8, <1>9, <1>10, CallChanges

LEMMA BusyCall ==
    ASSUME NEW t, NEW c \in CallRec, CallOk(t, c), c.ph \in Holding
    PROVE  /\ c.model \in ModelsOf(t) /\ c.attempts <= c.total
           /\ c.total \in Nat /\ c.total <= MaxTotal
           /\ c.total + Place(FirstModel[t]) > Place(c.model)
           /\ c.ph = "sleep" => c.attempts < MaxAttempts
<1>1. c.ph \in Busy /\ c.ph # "new"
  BY DEF Busy, Holding
<1>2. MaxTotal \in Nat
  BY LlmAssumption
<1>3. c.model \in ModelsOf(t) /\ c.attempts <= c.total
  BY <1>1 DEF CallOk
<1>4. c.total \in 1..MaxTotal /\ c.total + Place(FirstModel[t]) > Place(c.model)
  BY <1>1 DEF CallOk
<1>5. c.ph = "sleep" => c.attempts < MaxAttempts
  BY DEF CallOk
<1> QED
  BY <1>2, <1>3, <1>4, <1>5

LEMMA AnsweredKeeps ==
    ASSUME LlmInv, NEW t \in Caller, Answered(t)
    PROVE  LlmInv'
<1> DEFINE c == [call[t] EXCEPT !.ph = "answered"]
<1>1. call[t] \in CallRec /\ call[t].ph = "request" /\ CallOk(t, call[t])
  BY DEF Answered, LlmInv, LlmTypes, CallsOk
<1>2. c \in CallRec /\ c.ph \notin Holding /\ CallOk(t, c)
  BY <1>1 DEF CallRec, Phase, CallOk, Busy, Waiting, Holding
<1>3. call' = [call EXCEPT ![t] = c] /\ Release(t) /\ UNCHANGED <<chain, queue, tokens>>
  BY DEF Answered
<1>4. call[t].ph # "queue" /\ call[t].ph \in Holding
  BY <1>1 DEF Holding
<1> HIDE DEF c
<1> QED
  BY <1>2, <1>3, <1>4, PermitKept

LEMMA WakeKeeps ==
    ASSUME LlmInv, chain' = chain, NEW t \in Caller, Wake(t)
    PROVE  LlmInv'
<1> DEFINE c == Again(call[t])
<1>1. call[t] \in CallRec /\ call[t].ph = "sleep" /\ CallOk(t, call[t])
  BY DEF Wake, LlmInv, LlmTypes, CallsOk
<1>2. CallOk(t, c) /\ c.ph \notin Holding /\ c \in CallRec
  <2>1. LlmTypes /\ chain \in Chains
    BY DEF LlmInv, LlmTypes
  <2>2. /\ call[t].model \in ModelsOf(t) /\ call[t].attempts <= call[t].total
        /\ call[t].total <= MaxTotal /\ call[t].attempts < MaxAttempts
        /\ call[t].total \in Nat
        /\ call[t].total + Place(FirstModel[t]) > Place(call[t].model)
    BY <1>1, BusyCall DEF Holding
  <2>3. /\ Place(FirstModel[t]) \in 0..Len(chain)
        /\ Place(call[t].model) \in 0..Len(chain) /\ Len(chain) \in Nat
    BY <2>1, PlaceProperties
  <2>4. call[t].total + 1 + Place(FirstModel[t]) > Place(call[t].model)
    BY <2>2, <2>3
  <2> QED
    BY <1>1, <2>1, <2>2, <2>4, AgainOk, AgainProperties
<1>3. call' = [call EXCEPT ![t] = c] /\ Release(t) /\ UNCHANGED <<chain, queue, tokens>>
  BY DEF Wake
<1>4. call[t].ph # "queue" /\ call[t].ph \in Holding
  BY <1>1 DEF Holding
<1> HIDE DEF c
<1> QED
  BY <1>2, <1>3, <1>4, PermitKept

LEMMA FailedKeeps ==
    ASSUME LlmInv, chain' = chain, NEW t \in Caller, Failed(t)
    PROVE  LlmInv'
<1>1. call[t] \in CallRec /\ call[t].ph = "request" /\ CallOk(t, call[t])
  BY DEF Failed, LlmInv, LlmTypes, CallsOk
<1>2. LlmTypes /\ chain \in Chains /\ UNCHANGED <<chain, queue, tokens>>
  BY DEF Failed, LlmInv, LlmTypes
<1>3. /\ call[t].model \in ModelsOf(t) /\ call[t].attempts <= call[t].total
      /\ call[t].total <= MaxTotal /\ call[t].total \in Nat
      /\ call[t].total + Place(FirstModel[t]) > Place(call[t].model)
  BY <1>1, BusyCall DEF Holding
<1>4. /\ Place(FirstModel[t]) \in 0..Len(chain)
      /\ Place(call[t].model) \in 0..Len(chain) /\ Len(chain) \in Nat
  BY <1>2, PlaceProperties
<1>5. call[t].ph # "queue" /\ call[t].ph \in Holding
  BY <1>1 DEF Holding
<1>6. PICK e \in Errors :
         \/ /\ ShouldRetry(e, call[t].attempts)
            /\ call' = [call EXCEPT ![t].ph = "sleep"]
            /\ UNCHANGED free
         \/ /\ ~ShouldRetry(e, call[t].attempts) /\ ShouldFallback(e)
            /\ \E m \in NextModels(call[t].model) :
                  call' = [call EXCEPT ![t] =
                             Again([call[t] EXCEPT !.model = m, !.attempts = 0])]
            /\ Release(t)
         \/ /\ ~ShouldRetry(e, call[t].attempts)
            /\ ~ShouldFallback(e) \/ NextModels(call[t].model) = {}
            /\ call' = [call EXCEPT ![t].ph = "err", ![t].err = e]
            /\ Release(t)
  BY DEF Failed
<1>7. CASE /\ ShouldRetry(e, call[t].attempts)
           /\ call' = [call EXCEPT ![t].ph = "sleep"]
           /\ UNCHANGED free
  <2> DEFINE c == [call[t] EXCEPT !.ph = "sleep"]
  <2>1. call[t].attempts < MaxAttempts
    BY <1>7 DEF ShouldRetry
  <2>2. c \in CallRec /\ c.ph \in Holding
    BY <1>1 DEF CallRec, Phase, Busy, Holding
  <2>3. CallOk(t, c)
    BY <1>1, <2>1 DEF CallOk, CallRec, Busy, Holding
  <2>4. call' = [call EXCEPT ![t] = c]
    BY <1>7
  <2> HIDE DEF c
  <2> QED
    BY <1>2, <1>5, <1>7, <2>2, <2>3, <2>4, PermitKept
<1>8. CASE /\ ~ShouldRetry(e, call[t].attempts) /\ ShouldFallback(e)
           /\ \E m \in NextModels(call[t].model) :
                 call' = [call EXCEPT ![t] =
                            Again([call[t] EXCEPT !.model = m, !.attempts = 0])]
           /\ Release(t)
  <2>1. PICK m \in NextModels(call[t].model) :
            call' = [call EXCEPT ![t] = Again([call[t] EXCEPT !.model = m, !.attempts = 0])]
    BY <1>8
  <2> DEFINE d == [call[t] EXCEPT !.model = m, !.attempts = 0]
             c == Again(d)
  <2>2. Place(m) <= Place(call[t].model) + 1 /\ m \in {chain[i] : i \in DOMAIN chain}
    BY <1>2, NextIsNear
  <2>3. m \in ModelsOf(t) /\ m \in Model
    <3>1. m \in UNION {{x[i] : i \in DOMAIN x} : x \in Chains}
      BY <1>2, <2>2
    <3>2. m \in ModelsOf(t)
      BY <3>1 DEF ModelsOf
    <3> QED
      BY <3>2 DEF Model
  <2>4. /\ d \in CallRec /\ d.model = m /\ d.attempts = 0 /\ d.total = call[t].total
    BY <1>1, <2>3 DEF CallRec
  <2>5. Place(m) \in 0..Len(chain)
    BY <1>2, PlaceProperties
  <2>6. call[t].total + 1 + Place(FirstModel[t]) > Place(m)
    BY <1>3, <1>4, <2>2, <2>5
  <2> HIDE DEF d
  <2>7. CallOk(t, c) /\ c.ph \notin Holding /\ c \in CallRec
    BY <1>2, <1>3, <2>3, <2>4, <2>6, AgainOk, AgainProperties
  <2>8. call' = [call EXCEPT ![t] = c]
    BY <2>1 DEF d
  <2> HIDE DEF c
  <2> QED
    BY <1>2, <1>5, <1>8, <2>7, <2>8, PermitKept
<1>9. CASE /\ ~ShouldRetry(e, call[t].attempts)
           /\ ~ShouldFallback(e) \/ NextModels(call[t].model) = {}
           /\ call' = [call EXCEPT ![t].ph = "err", ![t].err = e]
           /\ Release(t)
  <2> DEFINE c == [call[t] EXCEPT !.ph = "err", !.err = e]
  <2>1. c \in CallRec /\ c.ph \notin Holding
    BY <1>1 DEF CallRec, Phase, Busy, Holding
  <2>2. /\ c.ph = "err" /\ c.err = e /\ c.model = call[t].model
        /\ c.total = call[t].total /\ c.attempts = call[t].attempts
    BY <1>1 DEF CallRec
  <2>3. ShouldFallback(e) =>
            /\ chain # <<>> => call[t].model = chain[Len(chain)]
            /\ call[t].total + Place(FirstModel[t]) > Len(chain)
    BY <1>2, <1>3, <1>4, <1>9, EndOfChain
  <2>4. call[t].total <= MaxTotal + 1
    BY <1>3, LlmAssumption
  <2>5. call' = [call EXCEPT ![t] = c]
    BY <1>9
  <2> HIDE DEF c
  <2>6. CallOk(t, c)
    BY <1>3, <2>2, <2>3, <2>4 DEF CallOk, Busy, Waiting, Holding
  <2> QED
    BY <1>2, <1>5, <1>9, <2>1, <2>5, <2>6, PermitKept
<1> QED
  BY <1>6, <1>7, <1>8, <1>9

LEMMA RefillKeeps ==
    ASSUME LlmInv, Refill
    PROVE  LlmInv'
<1>1. tokens' \in 0..Burst
  BY LlmAssumption DEF Refill, LlmInv, LlmTypes
<1>2. UNCHANGED <<chain, call, free, queue>>
  BY DEF Refill
<1>3. LlmTypes' /\ QueueInv' /\ PermitsConserved'
  BY <1>1, <1>2 DEF LlmInv, LlmTypes, QueueInv, PermitsConserved
<1>4. CallsOk'
  BY <1>2, SameCalls DEF LlmInv
<1> QED
  BY <1>3, <1>4 DEF LlmInv

LEMMA DropKeeps ==
    ASSUME LlmInv, NEW ts \in SUBSET Caller, Drop(ts)
    PROVE  LlmInv'
<1> DEFINE gone == {t \in ts : call[t].ph \in Holding}
           next(t) == IF t \in ts /\ call[t].ph \in Busy
                      THEN [call[t] EXCEPT !.ph = "dropped"] ELSE call[t]
<1>1. LlmTypes /\ QueueInv /\ CallsOk /\ PermitsConserved
  BY DEF LlmInv
<1>2. /\ call' = [t \in Caller |-> next(t)] /\ chain' = chain /\ tokens' = tokens
      /\ free' = IF SemaphoreOn THEN free + Cardinality(gone) ELSE free
      /\ queue' = At(queue, {i \in DOMAIN queue : queue[i] \notin ts})
  BY DEF Drop, Busy
<1>3. \A t \in Caller : next(t) \in CallRec /\ CallOk(t, next(t))
  <2> SUFFICES ASSUME NEW t \in Caller
               PROVE  next(t) \in CallRec /\ CallOk(t, next(t))
    OBVIOUS
  <2>1. call[t] \in CallRec /\ CallOk(t, call[t])
    BY <1>1 DEF LlmTypes, CallsOk
  <2>2. CASE t \in ts /\ call[t].ph \in Busy
    <3> DEFINE d == [call[t] EXCEPT !.ph = "dropped"]
    <3>1. d \in CallRec /\ d.ph = "dropped" /\ d.model = call[t].model
             /\ d.attempts = call[t].attempts /\ d.total = call[t].total
      BY <2>1 DEF CallRec, Phase
    <3>2. call[t].ph # "new"
      BY <2>2 DEF Busy, Waiting, Holding
    <3>3. /\ call[t].model \in ModelsOf(t) /\ call[t].attempts <= call[t].total
          /\ call[t].total <= MaxTotal + 1
      BY <2>1, <3>2 DEF CallOk
    <3> HIDE DEF d
    <3>4. CallOk(t, d)
      BY <3>1, <3>3 DEF CallOk, Busy, Waiting, Holding
    <3> QED
      BY <2>2, <3>1, <3>4 DEF d
  <2> QED
    BY <2>1, <2>2
<1>4. IsFiniteSet(Held(call)) /\ Held(call') = Held(call) \ gone /\ gone \subseteq Held(call)
  <2>1. IsFiniteSet(Held(call))
    BY LlmAssumption, FS_Subset DEF Held
  <2>2. gone \subseteq Held(call)
    BY DEF Held
  <2>3. \A t \in Caller : call'[t].ph \in Holding <=> call[t].ph \in Holding /\ t \notin ts
    <3> SUFFICES ASSUME NEW t \in Caller
                 PROVE  call'[t].ph \in Holding <=> call[t].ph \in Holding /\ t \notin ts
      OBVIOUS
    <3>1. call[t] \in CallRec /\ call'[t] = next(t)
      BY <1>1, <1>2 DEF LlmTypes
    <3> QED
      BY <3>1 DEF CallRec, Busy, Holding
  <2>4. Held(call') = Held(call) \ gone
    BY <2>3 DEF Held
  <2> QED
    BY <2>1, <2>2, <2>4
<1>5. /\ IsFiniteSet(gone) /\ Cardinality(gone) \in Nat /\ Cardinality(Held(call)) \in Nat
      /\ Cardinality(Held(call')) = Cardinality(Held(call)) - Cardinality(gone)
  <2>1. IsFiniteSet(gone)
    BY <1>4, FS_Subset
  <2>2. Held(call) \cap gone = gone
    BY <1>4
  <2> HIDE DEF gone
  <2>3. Cardinality(Held(call) \ gone) =
            Cardinality(Held(call)) - Cardinality(Held(call) \cap gone)
    BY <1>4, FS_Difference
  <2> QED
    BY <1>4, <2>1, <2>2, <2>3, FS_CardinalityType
<1>6. QueueInv' /\ queue' \in Seq(Caller)
  <2> DEFINE places == {i \in DOMAIN queue : queue[i] \notin ts}
  <2>1. queue \in Seq(Caller) /\ places \in SUBSET DOMAIN queue
    BY <1>1 DEF LlmTypes
  <2>2. queue' = At(queue, places)
    BY <1>2
  <2>3. /\ queue' \in Seq(Caller)
        /\ \A k \in DOMAIN queue' : Kth(places, k) \in places /\ queue'[k] = queue[Kth(places, k)]
        /\ \A k, l \in DOMAIN queue' : Kth(places, k) = Kth(places, l) => k = l
    <3> HIDE DEF places
    <3>1. /\ At(queue, places) \in Seq(Caller)
          /\ \A k \in DOMAIN At(queue, places) :
                Kth(places, k) \in places /\ At(queue, places)[k] = queue[Kth(places, k)]
          /\ \A k, l \in DOMAIN At(queue, places) : Kth(places, k) = Kth(places, l) => k = l
      BY <2>1, AtProperties
    <3> QED
      BY <2>2, <3>1
  <2>4. \A k \in DOMAIN queue' :
            /\ Kth(places, k) \in DOMAIN queue /\ queue'[k] \in Caller
            /\ call'[queue'[k]].ph = "queue"
    <3> SUFFICES ASSUME NEW k \in DOMAIN queue'
                 PROVE  /\ Kth(places, k) \in DOMAIN queue /\ queue'[k] \in Caller
                        /\ call'[queue'[k]].ph = "queue"
      OBVIOUS
    <3>1. PICK i \in DOMAIN queue : i = Kth(places, k) /\ queue'[k] = queue[i] /\ queue[i] \notin ts
      BY <2>3
    <3>2. queue[i] \in Caller /\ call[queue[i]].ph = "queue"
      BY <1>1, <2>1, ElementOfSeq, LenProperties DEF QueueInv
    <3> QED
      BY <1>2, <3>1, <3>2
  <2>5. \A k, l \in DOMAIN queue' : queue'[k] = queue'[l] => k = l
    <3> SUFFICES ASSUME NEW k \in DOMAIN queue', NEW l \in DOMAIN queue', queue'[k] = queue'[l]
                 PROVE  k = l
      OBVIOUS
    <3>1. Kth(places, k) = Kth(places, l)
      BY <1>1, <2>3, <2>4 DEF QueueInv
    <3> QED
      BY <2>3, <3>1
  <2>6. ~SemaphoreOn => queue' = <<>> /\ free' = Permits
    <3> SUFFICES ASSUME ~SemaphoreOn
                 PROVE  queue' = <<>> /\ free' = Permits
      OBVIOUS
    <3>1. queue = <<>> /\ free' = Permits
      BY <1>1, <1>2 DEF QueueInv
    <3>2. DOMAIN queue = {}
      BY <3>1
    <3>3. places = {}
      BY <3>2
    <3>4. DOMAIN queue' = {}
      BY <2>3, <3>3
    <3>5. queue' = <<>>
      <4>1. DOMAIN queue' = 1..Len(queue') /\ Len(queue') \in Nat
        BY <2>3, LenProperties
      <4>2. Len(queue') = 0
        BY <3>4, <4>1
      <4> QED
        BY <2>3, <4>2, EmptySeq
    <3> QED
      BY <3>1, <3>5
  <2> QED
    BY <2>3, <2>4, <2>5, <2>6 DEF QueueInv
<1>7. LlmTypes'
  <2>1. call' \in [Caller -> CallRec]
    BY <1>2, <1>3
  <2>2. free' \in Nat
    BY <1>1, <1>2, <1>5 DEF LlmTypes
  <2> QED
    BY <1>1, <1>2, <1>6, <2>1, <2>2 DEF LlmTypes
<1>8. CallsOk'
  <2> SUFFICES ASSUME NEW t \in Caller
               PROVE  CallOk(t, call[t])'
    BY DEF CallsOk
  <2>1. PICK c : c = next(t) /\ CallOk(t, c)
    BY <1>3
  <2>2. c = call'[t]
    BY <1>2, <2>1
  <2>3. CallOk(t, c)'
    BY <1>2, <2>1, SameChain
  <2> QED
    BY <2>2, <2>3 DEF CallOk
<1>9. PermitsConserved'
  <2> SUFFICES ASSUME SemaphoreOn
               PROVE  free' + Cardinality(Held(call')) = Permits
    BY DEF PermitsConserved, Held
  <2>1. free + Cardinality(Held(call)) = Permits /\ free \in Nat
    BY <1>1 DEF PermitsConserved, Held, LlmTypes
  <2>2. free' = free + Cardinality(gone)
    BY <1>2
  <2> HIDE DEF gone
  <2> QED
    BY <1>5, <2>1, <2>2
<1> QED
  BY <1>6, <1>7, <1>8, <1>9 DEF LlmInv

\* Calls of which none is made yet are in order, whatever the chain.
LEMMA NewCallOk ==
    /\ NewCall \in CallRec /\ NewCall.ph = "new"
    /\ \A t : CallOk(t, NewCall) /\ CallOk(t, NewCall)'
<1>1. NewCall \in CallRec
  <2>1. "new" \in Phase /\ "" \in Model /\ "" \in Errors \cup {"", "exhausted"}
    <3>1. \A S : "" \in S \cup {""}
      OBVIOUS
    <3>2. "" \in Model
      BY <3>1 DEF Model
    <3> QED
      BY <3>2 DEF Phase
  <2> QED
    BY <2>1 DEF NewCall, CallRec
<1>2. 0 <= MaxTotal + 1
  BY LlmAssumption
<1>3. NewCall.ph = "new" /\ NewCall.attempts = 0 /\ NewCall.total = 0
  BY DEF NewCall
<1> QED
  BY <1>1, <1>2, <1>3 DEF CallOk, Busy, Waiting, Holding

LEMMA LlmStarts ==
    ASSUME LlmInit
    PROVE  LlmInv
<1>1. /\ chain \in Chains /\ call = [t \in Caller |-> NewCall]
      /\ free = Permits /\ queue = <<>> /\ tokens = Burst
  BY DEF LlmInit
<1>2. LlmTypes
  BY <1>1, NewCallOk, LlmAssumption, EmptySeq DEF LlmTypes
<1>3. QueueInv
  BY <1>1 DEF QueueInv
<1>4. CallsOk
  BY <1>1, NewCallOk DEF CallsOk
<1>5. PermitsConserved
  <2>1. Held(call) = {}
    BY <1>1, NewCallOk DEF Held, Holding
  <2>2. Cardinality(Held(call)) = 0
    BY <2>1, FS_EmptySet
  <2> QED
    BY <1>1, <2>2, LlmAssumption DEF PermitsConserved, Held
<1> QED
  BY <1>2, <1>3, <1>4, <1>5 DEF LlmInv

\* A process that starts has new calls and all permits.
LEMMA LlmRestarts ==
    ASSUME chain' \in Chains, call' = [t \in Caller |-> NewCall],
           free' = Permits, queue' = <<>>, tokens' \in 0..Burst
    PROVE  LlmInv'
<1>2. LlmTypes'
  BY NewCallOk, LlmAssumption, EmptySeq DEF LlmTypes
<1>3. QueueInv'
  BY DEF QueueInv
<1>4. CallsOk'
  <2> SUFFICES ASSUME NEW t \in Caller
               PROVE  CallOk(t, call[t])'
    BY DEF CallsOk
  <2>1. call'[t] = NewCall /\ CallOk(t, NewCall)'
    BY NewCallOk
  <2>2. CallOk(t, NewCall)' <=> CallOk(t, call[t])'
    BY <2>1 DEF CallOk
  <2> QED
    BY <2>1, <2>2
<1>5. PermitsConserved'
  <2>1. Held(call') = {}
    BY NewCallOk DEF Held, Holding
  <2>2. Cardinality(Held(call')) = 0
    BY <2>1, FS_EmptySet
  <2> QED
    BY <2>2, LlmAssumption DEF PermitsConserved, Held
<1> QED
  BY <1>2, <1>3, <1>4, <1>5 DEF LlmInv

\* When no call is under way all permits are free.
LEMMA LlmAtRest ==
    ASSUME LlmInv, \A t \in Caller : call[t].ph \notin Busy
    PROVE  free = Permits /\ queue = <<>>
<1>1. queue = <<>>
  <2>1. queue \in Seq(Caller)
    BY DEF LlmInv, LlmTypes
  <2>2. DOMAIN queue = 1..Len(queue) /\ Len(queue) \in Nat
    BY <2>1, LenProperties
  <2>3. \A i \in DOMAIN queue : FALSE
    BY <2>1, <2>2, ElementOfSeq DEF LlmInv, QueueInv, Busy, Waiting
  <2>4. Len(queue) = 0
    BY <2>2, <2>3
  <2> QED
    BY <2>1, <2>4, EmptySeq
<1>2. free = Permits
  <2>1. CASE SemaphoreOn
    <3>1. Held(call) = {}
      BY DEF Held, Busy
    <3>2. Cardinality(Held(call)) = 0
      BY <3>1, FS_EmptySet
    <3>3. free + Cardinality(Held(call)) = Permits /\ free \in Nat
      BY <2>1 DEF LlmInv, PermitsConserved, Held, LlmTypes
    <3> QED
      BY <3>2, <3>3
  <2>2. CASE ~SemaphoreOn
    BY <2>2 DEF LlmInv, QueueInv
  <2> QED
    BY <2>1, <2>2
<1> QED
  BY <1>1, <1>2

\* What the executor promises follows.
LEMMA PolicyFollows ==
    ASSUME LlmInv
    PROVE  CallsFollowPolicy
<1>1. LlmTypes /\ CallsOk /\ PermitsConserved
  BY DEF LlmInv
<1>2. AttemptsBounded
  <2> SUFFICES ASSUME NEW t \in Caller, call[t].ph \in Busy
               PROVE  /\ call[t].total \in 1..MaxTotal
                      /\ call[t].attempts \in 1..(IF MaxAttempts = 0 THEN 1 ELSE MaxAttempts)
    BY DEF AttemptsBounded, Busy
  <2> QED
    BY <1>1 DEF CallsOk, CallOk
<1>3. ErrorMeansChainDone
  <2> SUFFICES ASSUME NEW t \in Caller, call[t].ph = "err", ShouldFallback(call[t].err)
               PROVE  /\ chain # <<>> => call[t].model = chain[Len(chain)]
                      /\ call[t].total >=
                           Cardinality(IF FirstModel[t] \in {chain[i] : i \in DOMAIN chain}
                                       THEN FirstPlace(FirstModel[t])..Len(chain)
                                       ELSE 0..Len(chain))
    BY DEF ErrorMeansChainDone
  <2>1. /\ chain # <<>> => call[t].model = chain[Len(chain)]
        /\ call[t].total + Place(FirstModel[t]) > Len(chain)
    BY <1>1 DEF CallsOk, CallOk
  <2>2. /\ Len(chain) \in Nat /\ DOMAIN chain = 1..Len(chain)
        /\ Place(FirstModel[t]) \in 0..Len(chain) /\ call[t].total \in Nat
    BY <1>1, PlaceProperties DEF LlmTypes, CallRec
  <2>3. Cardinality(Place(FirstModel[t])..Len(chain)) = Len(chain) - Place(FirstModel[t]) + 1
    <3>1. Place(FirstModel[t]) \in Int /\ Len(chain) \in Int /\ ~(Place(FirstModel[t]) > Len(chain))
      BY <2>2
    <3>2. Cardinality(Place(FirstModel[t])..Len(chain)) =
              IF Place(FirstModel[t]) > Len(chain) THEN 0
              ELSE Len(chain) - Place(FirstModel[t]) + 1
      BY <3>1, FS_Interval
    <3> QED
      BY <3>1, <3>2
  <2>4. (IF FirstModel[t] \in {chain[i] : i \in DOMAIN chain}
         THEN FirstPlace(FirstModel[t])..Len(chain) ELSE 0..Len(chain))
            = Place(FirstModel[t])..Len(chain)
    BY DEF Place, Places
  <2> QED
    BY <2>1, <2>2, <2>3, <2>4
<1> QED
  BY <1>1, <1>2, <1>3 DEF CallsFollowPolicy

(***************************************************************************)
(* The memo store.                                                         *)
(***************************************************************************)
EntryRec == [key : {SummaryKey(i) : i \in Inputs}, val : Answers, old : BOOLEAN]

\* The entries have different keys and fit; an answer is under the key of what
\* was asked.
StoreInv(entries) ==
    /\ entries \in Seq(EntryRec) /\ Len(entries) <= Cap
    /\ \A i, j \in DOMAIN entries : entries[i].key = entries[j].key => i = j
    /\ \A i \in DOMAIN entries : entries[i].val.kind = "answer" =>
            entries[i].key = SummaryKey(entries[i].val.input)

LEMMA CapPositive == Cap \in Nat \ {0}
  BY MemoAssumption DEF Cap

LEMMA EmptyStore == StoreInv(<<>>)
<1>1. <<>> \in Seq(EntryRec) /\ Len(<<>>) = 0 /\ DOMAIN <<>> = {}
  BY EmptySeq
<1> QED
  BY <1>1, CapPositive DEF StoreInv

\* A part of a store is one.
LEMMA PartOfStore ==
    ASSUME NEW e, StoreInv(e), NEW P \in SUBSET DOMAIN e
    PROVE  StoreInv(At(e, P)) /\ Len(At(e, P)) <= Len(e)
<1>1. e \in Seq(EntryRec) /\ Len(e) \in Nat /\ DOMAIN e = 1..Len(e) /\ Len(e) <= Cap
  BY LenProperties DEF StoreInv
<1>2. /\ At(e, P) \in Seq(EntryRec) /\ Len(At(e, P)) <= Len(e)
      /\ \A k \in DOMAIN At(e, P) : Kth(P, k) \in P /\ At(e, P)[k] = e[Kth(P, k)]
      /\ \A k, l \in DOMAIN At(e, P) : Kth(P, k) = Kth(P, l) => k = l
  BY <1>1, AtProperties
<1>3. Len(At(e, P)) \in Nat
  BY <1>2, LenProperties
<1>4. Len(At(e, P)) <= Cap
  BY <1>1, <1>2, <1>3, CapPositive
<1>5. \A k \in DOMAIN At(e, P) : Kth(P, k) \in DOMAIN e
  BY <1>2
<1>6. \A k, l \in DOMAIN At(e, P) : At(e, P)[k].key = At(e, P)[l].key => k = l
  BY <1>2, <1>5 DEF StoreInv
<1>7. \A k \in DOMAIN At(e, P) : At(e, P)[k].val.kind = "answer" =>
          At(e, P)[k].key = SummaryKey(At(e, P)[k].val.input)
  BY <1>2, <1>5 DEF StoreInv
<1> QED
  BY <1>2, <1>4, <1>6, <1>7 DEF StoreInv

LEMMA WithoutKeeps ==
    ASSUME NEW e, StoreInv(e), NEW k
    PROVE  /\ StoreInv(Without(e, k)) /\ Len(Without(e, k)) <= Len(e)
           /\ \A i \in DOMAIN Without(e, k) : Without(e, k)[i].key # k
<1> DEFINE P == {i \in DOMAIN e : e[i].key # k}
<1>1. Without(e, k) = At(e, P) /\ P \in SUBSET DOMAIN e /\ \A i \in P : e[i].key # k
  BY DEF Without
<1>2. e \in Seq(EntryRec)
  BY DEF StoreInv
<1> HIDE DEF P
<1>3. \A i \in DOMAIN At(e, P) : Kth(P, i) \in P /\ At(e, P)[i] = e[Kth(P, i)]
  BY <1>1, <1>2, AtProperties
<1> QED
  BY <1>1, <1>3, PartOfStore

LEMMA FreshKeeps ==
    ASSUME NEW e, StoreInv(e)
    PROVE  StoreInv(Fresh(e))
<1> DEFINE P == {i \in DOMAIN e : ~e[i].old}
<1>1. Fresh(e) = At(e, P) /\ P \in SUBSET DOMAIN e
  BY DEF Fresh
<1> HIDE DEF P
<1> QED
  BY <1>1, PartOfStore

\* The front of entries that are in order, but maybe too many.
LEMMA FittingKeeps ==
    ASSUME NEW e \in Seq(EntryRec),
           \A i, j \in DOMAIN e : e[i].key = e[j].key => i = j,
           \A i \in DOMAIN e : e[i].val.kind = "answer" => e[i].key = SummaryKey(e[i].val.input)
    PROVE  StoreInv(Fitting(e))
<1> DEFINE n == IF Len(e) > Cap THEN Cap ELSE Len(e)
<1>1. Len(e) \in Nat /\ DOMAIN e = 1..Len(e)
  BY LenProperties
<1>2. n \in Nat /\ n <= Len(e) /\ n <= Cap
  BY <1>1, CapPositive
<1>3. Fitting(e) = SubSeq(e, 1, n)
  BY DEF Fitting
<1> HIDE DEF n
<1>4. \A i \in 1..n : e[i] \in EntryRec
  BY <1>1, <1>2, ElementOfSeq
<1>5. /\ Fitting(e) \in Seq(EntryRec)
      /\ Len(Fitting(e)) = IF 1 <= n THEN n - 1 + 1 ELSE 0
      /\ \A i \in 1..(n - 1 + 1) : Fitting(e)[i] = e[1 + i - 1]
  <2>1. 1 \in Int /\ n \in Int
    BY <1>2
  <2> QED
    BY <1>3, <1>4, <2>1, SubSeqProperties
<1>6. Len(Fitting(e)) = n
  BY <1>2, <1>5
<1>7. DOMAIN Fitting(e) = 1..n
  BY <1>5, <1>6, LenProperties
<1>8. \A i \in 1..n : Fitting(e)[i] = e[i] /\ i \in DOMAIN e
  BY <1>1, <1>2, <1>5
<1>9. \A i, j \in DOMAIN Fitting(e) : Fitting(e)[i].key = Fitting(e)[j].key => i = j
  BY <1>7, <1>8
<1>10. \A i \in DOMAIN Fitting(e) : Fitting(e)[i].val.kind = "answer" =>
           Fitting(e)[i].key = SummaryKey(Fitting(e)[i].val.input)
  BY <1>7, <1>8
<1> QED
  BY <1>2, <1>5, <1>6, <1>9, <1>10 DEF StoreInv

\* An entry before those with other keys.
LEMMA InFront ==
    ASSUME NEW e, StoreInv(e), NEW r \in EntryRec,
           r.val.kind = "answer" => r.key = SummaryKey(r.val.input)
    PROVE  LET all == <<r>> \o Without(e, r.key)
           IN  /\ all \in Seq(EntryRec) /\ Len(all) = 1 + Len(Without(e, r.key))
               /\ \A i, j \in DOMAIN all : all[i].key = all[j].key => i = j
               /\ \A i \in DOMAIN all : all[i].val.kind = "answer" =>
                      all[i].key = SummaryKey(all[i].val.input)
<1> DEFINE w == Without(e, r.key)
           all == <<r>> \o w
<1>1. /\ w \in Seq(EntryRec)
      /\ \A i \in DOMAIN w : w[i].key # r.key
      /\ \A i, j \in DOMAIN w : w[i].key = w[j].key => i = j
      /\ \A i \in DOMAIN w : w[i].val.kind = "answer" => w[i].key = SummaryKey(w[i].val.input)
  BY WithoutKeeps DEF StoreInv
<1>2. <<r>> \in Seq(EntryRec) /\ Len(<<r>>) = 1 /\ <<r>>[1] = r
  OBVIOUS
<1> HIDE DEF w
<1>3. Len(w) \in Nat /\ DOMAIN w = 1..Len(w)
  BY <1>1, LenProperties
<1>4. /\ all \in Seq(EntryRec) /\ Len(all) = 1 + Len(w)
      /\ \A i \in 1..(1 + Len(w)) : all[i] = IF i <= 1 THEN <<r>>[i] ELSE w[i - 1]
  BY <1>1, <1>2, ConcatProperties
<1>5. DOMAIN all = 1..(1 + Len(w))
  BY <1>4, LenProperties
<1> HIDE DEF all
<1>6. all[1] = r /\ \A i \in 1..(1 + Len(w)) : i # 1 => i - 1 \in DOMAIN w /\ all[i] = w[i - 1]
  BY <1>2, <1>3, <1>4
<1>7. \A i, j \in DOMAIN all : all[i].key = all[j].key => i = j
  <2> SUFFICES ASSUME NEW i \in 1..(1 + Len(w)), NEW j \in 1..(1 + Len(w)),
                      all[i].key = all[j].key
               PROVE  i = j
    BY <1>5
  <2>1. CASE i = 1 /\ j # 1
    BY <1>1, <1>6, <2>1
  <2>2. CASE i # 1 /\ j = 1
    BY <1>1, <1>6, <2>2
  <2>3. CASE i # 1 /\ j # 1
    <3>1. i - 1 \in DOMAIN w /\ j - 1 \in DOMAIN w /\ w[i - 1].key = w[j - 1].key
      BY <1>6, <2>3
    <3>2. i - 1 = j - 1
      BY <1>1, <3>1
    <3> QED
      BY <1>3, <3>2
  <2> QED
    BY <2>1, <2>2, <2>3
<1>8. \A i \in DOMAIN all : all[i].val.kind = "answer" => all[i].key = SummaryKey(all[i].val.input)
  BY <1>1, <1>5, <1>6
<1> QED
  BY <1>4, <1>7, <1>8 DEF all, w

MemoInv == StoreInv(memo) /\ StoreInv(memoFile)

LEMMA EntryFound ==
    ASSUME NEW e, StoreInv(e), NEW k, k \in Keys(e)
    PROVE  /\ Entry(e, k) \in EntryRec /\ Entry(e, k).key = k
           /\ Entry(e, k).val.kind = "answer" => k = SummaryKey(Entry(e, k).val.input)
<1>1. PICK i \in DOMAIN e : e[i].key = k /\ Entry(e, k) = e[i]
  BY DEF Keys, Entry
<1>2. e \in Seq(EntryRec) /\ DOMAIN e = 1..Len(e)
  BY LenProperties DEF StoreInv
<1>3. e[i] \in EntryRec
  BY <1>2, ElementOfSeq
<1> QED
  BY <1>1, <1>3 DEF StoreInv

\* What is taken out leaves less.
LEMMA WithoutIsShorter ==
    ASSUME NEW e, StoreInv(e), NEW k, k \in Keys(e)
    PROVE  Len(Without(e, k)) < Len(e)
<1> DEFINE P == {i \in DOMAIN e : e[i].key # k}
<1>1. e \in Seq(EntryRec) /\ Len(e) \in Nat /\ DOMAIN e = 1..Len(e)
  BY LenProperties DEF StoreInv
<1>2. IsFiniteSet(1..Len(e)) /\ Cardinality(1..Len(e)) = Len(e)
  <2>1. 1 \in Int /\ Len(e) \in Int
    BY <1>1
  <2>2. IsFiniteSet(1..Len(e))
    BY <2>1, FS_Interval
  <2>3. Cardinality(1..Len(e)) = IF 1 > Len(e) THEN 0 ELSE Len(e) - 1 + 1
    BY <2>1, FS_Interval
  <2> QED
    BY <1>1, <2>2, <2>3
<1>3. P \in SUBSET (1..Len(e)) /\ P # 1..Len(e)
  BY <1>1 DEF Keys
<1>4. Without(e, k) = At(e, P) /\ At(e, P) = [i \in 1..Cardinality(P) |-> e[Kth(P, i)]]
  BY DEF Without, At
<1> HIDE DEF P
<1>5. Cardinality(P) \in Nat /\ Cardinality(P) < Len(e)
  <2>1. IsFiniteSet(P) /\ Cardinality(P) <= Len(e) /\ Cardinality(P) # Len(e)
    BY <1>2, <1>3, FS_Subset
  <2> QED
    BY <1>1, <2>1, FS_CardinalityType
<1>6. Without(e, k) \in Seq(EntryRec)
  BY WithoutKeeps DEF StoreInv
<1>7. DOMAIN Without(e, k) = 1..Cardinality(P)
  BY <1>4
<1>8. DOMAIN Without(e, k) = 1..Len(Without(e, k)) /\ Len(Without(e, k)) \in Nat
  BY <1>6, LenProperties
<1> QED
  BY <1>1, <1>5, <1>7, <1>8

LEMMA GetKeeps ==
    ASSUME MemoInv, NEW k, Get(k)
    PROVE  MemoInv'
<1>1. CASE IsHit(k)
  <2> DEFINE r == Entry(memo, k)
             all == <<r>> \o Without(memo, k)
  <2>1. k \in Keys(memo) /\ StoreInv(memo)
    BY <1>1 DEF IsHit, MemoInv
  <2>2. r \in EntryRec /\ r.key = k /\ (r.val.kind = "answer" => r.key = SummaryKey(r.val.input))
    BY <2>1, EntryFound
  <2>3. memo' = all /\ memoFile' = memoFile
    BY <1>1 DEF Get
  <2> HIDE DEF r
  <2>4. /\ all \in Seq(EntryRec) /\ Len(all) = 1 + Len(Without(memo, k))
        /\ \A i, j \in DOMAIN all : all[i].key = all[j].key => i = j
        /\ \A i \in DOMAIN all : all[i].val.kind = "answer" =>
               all[i].key = SummaryKey(all[i].val.input)
    BY <2>1, <2>2, InFront
  <2>5. Len(Without(memo, k)) < Len(memo)
    BY <2>1, WithoutIsShorter
  <2>6. Len(memo) \in Nat /\ Len(memo) <= Cap /\ Len(Without(memo, k)) \in Nat
    BY <2>1, WithoutKeeps, LenProperties DEF StoreInv
  <2>7. Len(all) <= Cap
    BY <2>4, <2>5, <2>6, CapPositive
  <2> HIDE DEF all
  <2>8. StoreInv(all)
    BY <2>4, <2>7 DEF StoreInv
  <2> QED
    BY <2>3, <2>8 DEF MemoInv
<1>2. CASE ~IsHit(k)
  BY <1>2, WithoutKeeps DEF Get, MemoInv
<1> QED
  BY <1>1, <1>2

LEMMA PutKeeps ==
    ASSUME MemoInv, NEW i \in Inputs, NEW v \in Answers, v.kind = "answer" => v.input = i,
           Put(SummaryKey(i), v)
    PROVE  MemoInv'
<1> DEFINE r == [key |-> SummaryKey(i), val |-> v, old |-> FALSE]
           all == <<r>> \o Without(memo, r.key)
<1>1. r \in EntryRec /\ (r.val.kind = "answer" => r.key = SummaryKey(r.val.input))
  BY DEF EntryRec
<1>2. memo' = Fitting(all) /\ memoFile' = memoFile
  BY DEF Put, Putting
<1> HIDE DEF r
<1>3. /\ all \in Seq(EntryRec)
      /\ \A m, n \in DOMAIN all : all[m].key = all[n].key => m = n
      /\ \A m \in DOMAIN all : all[m].val.kind = "answer" =>
             all[m].key = SummaryKey(all[m].val.input)
  BY <1>1, InFront DEF MemoInv
<1> HIDE DEF all
<1>4. StoreInv(Fitting(all))
  BY <1>3, FittingKeeps
<1> QED
  BY <1>2, <1>4 DEF MemoInv

LEMMA OlderKeeps ==
    ASSUME NEW e, StoreInv(e), NEW k
    PROVE  StoreInv([i \in DOMAIN e |-> IF e[i].key = k THEN [e[i] EXCEPT !.old = TRUE] ELSE e[i]])
<1> DEFINE f == [i \in DOMAIN e |-> IF e[i].key = k THEN [e[i] EXCEPT !.old = TRUE] ELSE e[i]]
<1>1. e \in Seq(EntryRec) /\ Len(e) \in Nat /\ DOMAIN e = 1..Len(e)
  BY LenProperties DEF StoreInv
<1>2. \A i \in DOMAIN e : f[i] \in EntryRec /\ f[i].key = e[i].key /\ f[i].val = e[i].val
  <2> SUFFICES ASSUME NEW i \in DOMAIN e
               PROVE  f[i] \in EntryRec /\ f[i].key = e[i].key /\ f[i].val = e[i].val
    OBVIOUS
  <2>1. e[i] \in EntryRec
    BY <1>1, ElementOfSeq
  <2> QED
    BY <2>1 DEF EntryRec
<1>3. f \in [1..Len(e) -> EntryRec] /\ DOMAIN f = DOMAIN e
  BY <1>1, <1>2
<1> HIDE DEF f
<1>4. f \in Seq(EntryRec) /\ Len(f) = Len(e)
  BY <1>1, <1>3
<1>5. StoreInv(f)
  BY <1>2, <1>3, <1>4 DEF StoreInv
<1> QED
  BY <1>5 DEF f

LEMMA ExpireKeeps ==
    ASSUME MemoInv, Expire
    PROVE  MemoInv'
<1> DEFINE Older(e, k) ==
             [i \in DOMAIN e |-> IF e[i].key = k THEN [e[i] EXCEPT !.old = TRUE] ELSE e[i]]
<1>1. PICK k : memo' = Older(memo, k) /\ memoFile' = Older(memoFile, k)
  BY DEF Expire
<1>2. StoreInv(Older(memo, k)) /\ StoreInv(Older(memoFile, k))
  BY OlderKeeps DEF MemoInv
<1> QED
  BY <1>1, <1>2 DEF MemoInv

LEMMA SaveKeeps ==
    ASSUME MemoInv, Save
    PROVE  MemoInv'
  BY FreshKeeps DEF Save, MemoInv

LEMMA InvalidateKeeps ==
    ASSUME MemoInv, Invalidate
    PROVE  MemoInv'
  BY WithoutKeeps, EmptyStore DEF Invalidate, MemoInv

\* The elements of a sequence are finitely many.
LEMMA RangeFinite ==
    ASSUME NEW S, NEW s \in Seq(S)
    PROVE  IsFiniteSet({s[i] : i \in DOMAIN s})
<1> DEFINE R == {s[i] : i \in DOMAIN s}
<1>1. DOMAIN s = 1..Len(s) /\ Len(s) \in Nat
  BY LenProperties
<1>2. IsFiniteSet(DOMAIN s)
  BY <1>1, FS_Interval
<1>3. s \in [DOMAIN s -> R] /\ \A r \in R : \E i \in DOMAIN s : s[i] = r
  BY <1>1
<1> HIDE DEF R
<1>4. s \in Surjection(DOMAIN s, R)
  BY <1>3, Fun_IsSurj
<1>5. IsFiniteSet(R)
  BY <1>2, <1>4, FS_Surjection
<1> QED
  BY <1>5 DEF R

LEMMA LoadKeeps ==
    ASSUME MemoInv, Load
    PROVE  MemoInv'
<1> DEFINE S == ToSet(Fresh(memoFile))
<1>1. StoreInv(Fresh(memoFile))
  BY FreshKeeps DEF MemoInv
<1>2. PICK e \in SetToSeqs(S) : memo' = Fitting(e) /\ memoFile' = memoFile
  BY DEF Load
<1>3. \A x \in S : \E i \in DOMAIN Fresh(memoFile) : x = Fresh(memoFile)[i]
  BY DEF ToSet
<1>4. Fresh(memoFile) \in Seq(EntryRec) /\ DOMAIN Fresh(memoFile) = 1..Len(Fresh(memoFile))
        /\ Len(Fresh(memoFile)) \in Nat
  BY <1>1, LenProperties DEF StoreInv
<1>5. \A x \in S : x \in EntryRec /\ (x.val.kind = "answer" => x.key = SummaryKey(x.val.input))
  BY <1>1, <1>3, <1>4, ElementOfSeq DEF StoreInv
<1>6. \A x, y \in S : x.key = y.key => x = y
  BY <1>1, <1>3 DEF StoreInv
<1>7. IsFiniteSet(S)
  BY <1>4, RangeFinite DEF ToSet
<1> HIDE DEF S
<1>8. Cardinality(S) \in Nat
  BY <1>7, FS_CardinalityType
<1>9. e \in [1..Cardinality(S) -> S] /\ \A i, j \in DOMAIN e : e[i] = e[j] => i = j
  BY <1>2 DEF SetToSeqs
<1>10. e \in Seq(EntryRec)
  <2>1. e \in [1..Cardinality(S) -> EntryRec]
    BY <1>5, <1>9
  <2> QED
    BY <1>8, <2>1
<1>11. StoreInv(Fitting(e))
  BY <1>5, <1>6, <1>9, <1>10, FittingKeeps
<1> QED
  BY <1>2, <1>11 DEF MemoInv

(***************************************************************************)
(* The pass.                                                               *)
(***************************************************************************)
Item == [ph : Phases, got : Answers \cup {None}]
Summary == (Answers \cup {None}) \cup {Own(i[1]) : i \in Inputs}

PassTypes ==
    /\ pass \in [no : Rounds, ph : {"idle", "running"} \cup Over]
    /\ item \in [Caller -> Item] /\ summary \in [Caller -> Summary]

\* Only a task that has asked has a call under way, only a pass that runs has
\* tasks, and only for nodes of its tree.
AskedInv ==
    /\ \A t \in Caller : call[t].ph \in Busy => item[t].ph = "asked"
    /\ \A n \in Caller : item[n].ph \in {"pending", "asked"} => pass.ph = "running"
    /\ \A n \in Caller : pass.ph \in {"running", "ended"} /\ item[n].ph # "none" => n \in Nodes

\* What a task brought is the answer to what its node is asked.
GotInv ==
    \A n \in Caller :
        /\ item[n].got # None <=> item[n].ph = "done"
        /\ pass.ph \in {"running", "ended"} /\ item[n].got.kind = "answer" =>
                item[n].got.input = AskedInput(n)

Fits(s, node) ==
    \/ s \in {None, Own(node.text)}
    \/ s.kind = "answer" /\ s.input = <<node.text, node.kids = <<>>>>

SummaryInv == pass.ph # "idle" => \A n \in Nodes : Fits(summary[n], Tree[pass.no][n])

\* The version that is reused is one of a pass that ended.
PrevInv ==
    prev # <<>> =>
        /\ \E r \in Rounds : prev.tree = Tree[r]
        /\ prev.summary \in [Caller -> Summary]
        /\ \A o \in DOMAIN prev.tree : Fits(prev.summary[o], prev.tree[o])

\* A node that waits for a summary has a task.
CoverInv ==
    pass.ph \in {"running", "ended"} =>
        \A n \in Nodes : ShouldGenerate(n) /\ summary[n] = None =>
            /\ item[n].ph # "none"
            /\ pass.ph = "ended" => item[n].ph = "failed" \/ item[n].got = EmptyAnswer

PassInv == PassTypes /\ AskedInv /\ GotInv /\ SummaryInv /\ PrevInv /\ CoverInv

\* The kinds of summaries.
LEMMA Kinds ==
    /\ None.kind = "none" /\ EmptyAnswer.kind = "empty"
    /\ \A t : Own(t) # None /\ Own(t).kind = "own"
    /\ \A a \in Answers : a # None /\ (a.kind = "answer" \/ a = EmptyAnswer)
<1>1. /\ None.kind = "none" /\ EmptyAnswer.kind = "empty"
      /\ \A t : Own(t).kind = "own"
      /\ \A i, m : Answer(i, m).kind = "answer"
  BY DEF None, EmptyAnswer, Own, Answer
<1>2. \A t : Own(t) # None
  BY <1>1
<1>3. ASSUME NEW a \in Answers
      PROVE  a # None /\ (a.kind = "answer" \/ a = EmptyAnswer)
  <2>1. CASE a = EmptyAnswer
    BY <1>1, <2>1
  <2>2. CASE a # EmptyAnswer
    <3>1. PICK i, m : a = Answer(i, m)
      BY <2>2 DEF Answers
    <3> QED
      BY <1>1, <3>1
  <2> QED
    BY <2>1, <2>2
<1> QED
  BY <1>1, <1>2, <1>3

\* What is asked about a node is one of the inputs.
LEMMA InputOfNode ==
    ASSUME pass.no \in Rounds, NEW n \in Nodes
    PROVE  AskedInput(n) \in Inputs /\ Own(Text(n)) \in Summary
<1>1. Leaf(n) \in BOOLEAN
  BY DEF Leaf
<1>2. \E t \in UNION {{Tree[r][o] : o \in DOMAIN Tree[r]} : r \in Rounds} : t = Tree[pass.no][n]
  BY DEF Nodes
<1>3. AskedInput(n) \in Inputs
  BY <1>1, <1>2 DEF Inputs, AskedInput, Text
<1>4. AskedInput(n)[1] = Text(n)
  BY DEF AskedInput
<1> QED
  BY <1>3, <1>4 DEF Summary

LEMMA NoItemOk ==
    /\ NoItem \in Item /\ NoItem.ph = "none" /\ NoItem.got = None
    /\ [NoItem EXCEPT !.ph = "pending"] \in Item
    /\ [NoItem EXCEPT !.ph = "pending"].ph = "pending"
    /\ [NoItem EXCEPT !.ph = "pending"].got = None
  BY DEF NoItem, Item, Phases

\* The fast path's key is not one the store has.
LEMMA NoFastHit ==
    ASSUME MemoInv, NEW n
    PROVE  ~IsHit(SummaryKey(FastInput(n)))
<1> SUFFICES ASSUME SummaryKey(FastInput(n)) \in Keys(memo)
             PROVE  FALSE
  BY DEF IsHit
<1>1. PICK i \in DOMAIN memo : memo[i].key = SummaryKey(FastInput(n))
  BY DEF Keys
<1>2. memo[i] \in EntryRec
  BY LenProperties, ElementOfSeq DEF MemoInv, StoreInv
<1>3. PICK j \in Inputs : memo[i].key = SummaryKey(j)
  BY <1>2 DEF EntryRec
<1>4. PICK t, l : j = <<t, l>>
  BY <1>3 DEF Inputs
<1>5. SummaryKey(j)[2] = j /\ SummaryKey(FastInput(n))[2] = <<Text(n)>>
  BY DEF SummaryKey, MakeKey, FastInput
<1>6. <<t, l>> = <<Text(n)>>
  BY <1>1, <1>3, <1>4, <1>5
<1>7. DOMAIN <<t, l>> = 1..2 /\ DOMAIN <<Text(n)>> = 1..1 /\ 2 \in 1..2 /\ 2 \notin 1..1
  OBVIOUS
<1> QED
  BY <1>6, <1>7

\* What has matching subtrees is asked the same.
LEMMA SameContentSameInput ==
    ASSUME NEW r \in Rounds, NEW o \in DOMAIN Tree[r],
           NEW q \in Rounds, NEW n \in DOMAIN Tree[q],
           SameContent(Tree[r], o, Tree[q], n)
    PROVE  /\ Tree[r][o].text = Tree[q][n].text
           /\ (Tree[r][o].kids = <<>>) = (Tree[q][n].kids = <<>>)
<1>1. PICK match \in SUBSET {m \in (DOMAIN Tree[r]) \X (DOMAIN Tree[q]) :
                       /\ Tree[r][m[1]].text = Tree[q][m[2]].text
                       /\ Len(Tree[r][m[1]].kids) = Len(Tree[q][m[2]].kids)} :
         <<o, n>> \in match
  BY DEF SameContent
<1>2. /\ Tree[r][o].text = Tree[q][n].text
      /\ Len(Tree[r][o].kids) = Len(Tree[q][n].kids)
  <2>1. <<o, n>>[1] = o /\ <<o, n>>[2] = n
    OBVIOUS
  <2> QED
    BY <1>1, <2>1
<1>3. Tree[r][o].kids \in Seq(DOMAIN Tree[r]) /\ Tree[q][n].kids \in Seq(DOMAIN Tree[q])
  BY EnhanceAssumption
<1>4. /\ Tree[r][o].kids = <<>> <=> Len(Tree[r][o].kids) = 0
      /\ Tree[q][n].kids = <<>> <=> Len(Tree[q][n].kids) = 0
  BY <1>3, EmptySeq
<1> QED
  BY <1>2, <1>4

\* What is reused fits the node it is reused for.
LEMMA ReusedFits ==
    ASSUME pass.no \in Rounds, PrevInv, NEW n \in Nodes, NEW s \in Reusable(n)
    PROVE  s \in Summary /\ s # None /\ Fits(s, Tree[pass.no][n])
<1>1. prev # <<>>
  BY DEF Reusable
<1>2. PICK o \in DOMAIN prev.tree :
         /\ s = prev.summary[o] /\ prev.summary[o].kind # "none"
         /\ SameContent(prev.tree, o, Tree[pass.no], n)
  BY <1>1 DEF Reusable
<1>3. PICK r \in Rounds : prev.tree = Tree[r]
  BY <1>1 DEF PrevInv
<1>4. /\ Tree[r][o].text = Tree[pass.no][n].text
      /\ (Tree[r][o].kids = <<>>) = (Tree[pass.no][n].kids = <<>>)
  BY <1>2, <1>3, SameContentSameInput DEF Nodes
<1>5. Fits(s, Tree[r][o])
  BY <1>1, <1>2, <1>3 DEF PrevInv
<1>6. s \in Summary
  <2>1. o \in Caller
    BY <1>2, <1>3, EnhanceAssumption
  <2> QED
    BY <1>1, <1>2, <2>1 DEF PrevInv
<1>7. s # None
  BY <1>2, Kinds
<1> QED
  BY <1>4, <1>5, <1>6, <1>7 DEF Fits

\* A step of the calls alone, of which none begins.
LEMMA PassStays ==
    ASSUME PassInv, UNCHANGED passVars,
           \A t \in Caller : call'[t].ph \in Busy => call[t].ph \in Busy
    PROVE  PassInv'
<1>1. UNCHANGED <<pass, item, summary, prev>>
  BY DEF passVars
<1> QED
  BY <1>1 DEF PassInv, PassTypes, AskedInv, GotInv, SummaryInv, PrevInv, CoverInv,
              Nodes, AskedInput, ShouldGenerate, Text, Leaf, Kids

\* A step of one task.
LEMMA ItemChanges ==
    ASSUME PassInv, UNCHANGED <<pass, summary, prev>>, pass.ph = "running",
           NEW n \in Caller, item[n].ph # "none",
           NEW i \in Item, item' = [item EXCEPT ![n] = i],
           i.ph # "none", i.got # None <=> i.ph = "done",
           i.got.kind = "answer" => i.got.input = AskedInput(n),
           \A t \in Caller : call'[t].ph \in Busy =>
              IF t = n THEN i.ph = "asked" ELSE call[t].ph \in Busy
    PROVE  PassInv'
<1>1. /\ PassTypes /\ AskedInv /\ GotInv /\ SummaryInv /\ PrevInv /\ CoverInv
      /\ item \in [Caller -> Item]
  BY DEF PassInv, PassTypes
<1>2. item'[n] = i /\ \A t \in Caller : t # n => item'[t] = item[t]
  BY <1>1
<1>3. Nodes' = Nodes /\ \A t : AskedInput(t)' = AskedInput(t)
         /\ ShouldGenerate(t)' = ShouldGenerate(t)
  BY DEF Nodes, AskedInput, ShouldGenerate, Text, Leaf, Kids
<1>4. PassTypes'
  BY <1>1 DEF PassTypes
<1>5. AskedInv'
  <2>1. \A t \in Caller : call'[t].ph \in Busy => item'[t].ph = "asked"
    BY <1>1, <1>2 DEF AskedInv
  <2>2. \A t \in Caller : item'[t].ph # "none" => t \in Nodes
    BY <1>1, <1>2 DEF AskedInv
  <2> QED
    BY <1>3, <2>1, <2>2 DEF AskedInv
<1>6. GotInv'
  <2> SUFFICES ASSUME NEW t \in Caller
               PROVE  /\ item'[t].got # None <=> item'[t].ph = "done"
                      /\ item'[t].got.kind = "answer" => item'[t].got.input = AskedInput(t)
    BY <1>3 DEF GotInv
  <2> QED
    BY <1>1, <1>2 DEF GotInv
<1>7. SummaryInv' /\ PrevInv'
  BY <1>1, <1>3 DEF SummaryInv, PrevInv
<1>8. CoverInv'
  <2> SUFFICES ASSUME NEW t \in Nodes, ShouldGenerate(t), summary[t] = None
               PROVE  item'[t].ph # "none"
    BY <1>3 DEF CoverInv
  <2>1. t \in Caller
    BY <1>1, EnhanceAssumption DEF PassTypes, Nodes
  <2> QED
    BY <1>1, <1>2, <2>1 DEF CoverInv
<1> QED
  BY <1>4, <1>5, <1>6, <1>7, <1>8 DEF PassInv

\* Reuse, the fast path and the shortcut.
LEMMA CollectKeeps ==
    ASSUME LlmInv, MemoInv, PassInv, Collect
    PROVE  LlmInv' /\ MemoInv' /\ PassInv'
<1>1. /\ PassTypes /\ AskedInv /\ PrevInv
      /\ pass.ph = "idle" /\ pass.no \in Rounds
      /\ pass' = [pass EXCEPT !.ph = "running"]
      /\ call' = [n \in Caller |-> NewCall]
      /\ memo' = IF KeepMemo THEN memo ELSE <<>>
      /\ UNCHANGED <<chain, free, queue, tokens, memoFile, prev>>
  BY DEF Collect, PassInv, PassTypes
<1>2. pass'.no = pass.no /\ pass'.ph = "running"
  BY <1>1 DEF PassTypes
<1>3. /\ Nodes' = Nodes
      /\ \A n : /\ AskedInput(n)' = AskedInput(n) /\ ShouldGenerate(n)' = ShouldGenerate(n)
                /\ Text(n)' = Text(n)
  BY <1>2 DEF Nodes, AskedInput, ShouldGenerate, Text, Leaf, Kids
<1>4. LlmInv'
  <2>1. \A t \in Caller : call[t].ph \notin Busy
    BY <1>1 DEF AskedInv
  <2>2. free = Permits /\ queue = <<>>
    BY <2>1, LlmAtRest
  <2>3. chain \in Chains /\ tokens \in 0..Burst
    BY DEF LlmInv, LlmTypes
  <2> QED
    BY <1>1, <2>2, <2>3, LlmRestarts
<1>5. MemoInv'
  BY <1>1, EmptyStore DEF MemoInv
<1>6. PICK reused :
         /\ \A n \in Nodes : IF Reusable(n) = {} THEN reused[n] = None
                                                 ELSE reused[n] \in Reusable(n)
         /\ LET Left(n) == reused[n] = None /\ ShouldGenerate(n)
                Fast(n) == KeepMemo /\ IsHit(SummaryKey(FastInput(n)))
                              /\ Entry(memo, SummaryKey(FastInput(n))).val # EmptyAnswer
            IN  /\ summary' = [n \in Caller |->
                     CASE n \notin Nodes -> None
                       [] n \in Nodes /\ ~Left(n) -> reused[n]
                       [] n \in Nodes /\ Left(n) /\ Fast(n) ->
                            Entry(memo, SummaryKey(FastInput(n))).val
                       [] n \in Nodes /\ Left(n) /\ ~Fast(n) ->
                            IF Text(n) \in Short THEN Own(Text(n)) ELSE None]
                /\ item' = [n \in Caller |->
                     IF n \in Pending({o \in Nodes : Left(o) /\ ~Fast(o)})
                     THEN [NoItem EXCEPT !.ph = "pending"] ELSE NoItem]
  BY ZenonT(30) DEF Collect
<1> DEFINE Left(n) == reused[n] = None /\ ShouldGenerate(n)
<1>7. \A n \in Nodes : n \in Caller
  BY <1>1, EnhanceAssumption DEF Nodes
<1>8. \A n \in Nodes : reused[n] \in Summary /\ Fits(reused[n], Tree[pass.no][n])
  <2> SUFFICES ASSUME NEW n \in Nodes
               PROVE  reused[n] \in Summary /\ Fits(reused[n], Tree[pass.no][n])
    OBVIOUS
  <2>1. CASE Reusable(n) = {}
    <3>1. reused[n] = None
      BY <1>6, <2>1
    <3> QED
      BY <3>1 DEF Summary, Fits
  <2>2. CASE Reusable(n) # {}
    <3>1. reused[n] \in Reusable(n)
      BY <1>6, <2>2
    <3> QED
      BY <1>1, <3>1, ReusedFits
  <2> QED
    BY <2>1, <2>2
<1>9. \A n : ~IsHit(SummaryKey(FastInput(n)))
  BY NoFastHit
<1>10. summary' = [n \in Caller |->
          IF n \notin Nodes THEN None
          ELSE IF ~Left(n) THEN reused[n]
          ELSE IF Text(n) \in Short THEN Own(Text(n)) ELSE None]
  BY <1>6, <1>9
<1>11. item' = [n \in Caller |->
          IF n \in Nodes /\ Left(n) /\ Text(n) \notin Short
          THEN [NoItem EXCEPT !.ph = "pending"] ELSE NoItem]
  BY <1>6, <1>9 DEF Pending
<1>12. \A n \in Caller : /\ item'[n] \in Item /\ item'[n].got = None
                         /\ item'[n].ph = IF n \in Nodes /\ Left(n) /\ Text(n) \notin Short
                                          THEN "pending" ELSE "none"
  BY <1>11, NoItemOk
<1>13. \A n \in Caller : summary'[n] \in Summary
  BY <1>1, <1>8, <1>10, InputOfNode DEF Summary
<1>14. PassTypes'
  <2>1. item' \in [Caller -> Item] /\ summary' \in [Caller -> Summary]
    BY <1>10, <1>11, <1>12, <1>13
  <2> QED
    BY <1>1, <2>1 DEF PassTypes
<1>15. AskedInv'
  BY <1>1, <1>2, <1>3, <1>12, NewCallOk DEF AskedInv, Busy, Waiting, Holding
<1>16. GotInv'
  BY <1>12, Kinds DEF GotInv
<1>17. SummaryInv'
  <2> SUFFICES ASSUME NEW n \in Nodes
               PROVE  Fits(summary'[n], Tree[pass.no][n])
    BY <1>2, <1>3 DEF SummaryInv
  <2>1. summary'[n] = reused[n] \/ summary'[n] \in {None, Own(Text(n))}
    BY <1>7, <1>10
  <2> QED
    BY <1>8, <2>1 DEF Fits, Text
<1>18. CoverInv'
  <2> SUFFICES ASSUME NEW n \in Nodes, ShouldGenerate(n), summary'[n] = None
               PROVE  item'[n].ph = "pending"
    BY <1>2, <1>3 DEF CoverInv
  <2>1. Left(n) /\ Text(n) \notin Short
    BY <1>7, <1>10, Kinds
  <2> QED
    BY <1>7, <1>12, <2>1
<1>19. PrevInv'
  BY <1>1 DEF PrevInv
<1> QED
  BY <1>4, <1>5, <1>14, <1>15, <1>16, <1>17, <1>18, <1>19 DEF PassInv

\* The results go to their nodes.
LEMMA WriteBackKeeps ==
    ASSUME LlmInv, PassInv, WriteBack
    PROVE  PassInv'
<1>1. /\ PassTypes /\ AskedInv /\ GotInv /\ SummaryInv /\ PrevInv /\ CoverInv
      /\ pass.ph = "running" /\ \A n \in Caller : item[n].ph \notin {"pending", "asked"}
      /\ pass' = [pass EXCEPT !.ph = "ended"] /\ pass.no \in Rounds
      /\ summary' = [n \in Caller |->
            IF item[n].got.kind = "answer" THEN item[n].got ELSE summary[n]]
      /\ prev' = [tree |-> Tree[pass.no], summary |-> summary']
      /\ call' = call /\ item' = item
  BY DEF WriteBack, PassInv, PassTypes, llmVars
<1>2. pass'.no = pass.no /\ pass'.ph = "ended"
  BY <1>1 DEF PassTypes
<1>3. /\ Nodes' = Nodes
      /\ \A n : AskedInput(n)' = AskedInput(n) /\ ShouldGenerate(n)' = ShouldGenerate(n)
  BY <1>2 DEF Nodes, AskedInput, ShouldGenerate, Text, Leaf, Kids
<1>4. \A n \in Nodes : n \in Caller
  BY <1>1, EnhanceAssumption DEF Nodes
<1>5. \A n \in Caller : item[n] \in Item /\ summary[n] \in Summary
  BY <1>1 DEF PassTypes
<1>6. \A n \in Caller : summary'[n] \in Summary
  <2> SUFFICES ASSUME NEW n \in Caller
               PROVE  summary'[n] \in Summary
    OBVIOUS
  <2>1. item[n].got \in Answers \cup {None}
    BY <1>5 DEF Item
  <2> QED
    BY <1>1, <1>5, <2>1 DEF Summary
<1>7. PassTypes'
  BY <1>1, <1>6 DEF PassTypes, Over
<1>8. AskedInv'
  BY <1>1, <1>2, <1>3 DEF AskedInv
<1>9. GotInv'
  BY <1>1, <1>2, <1>3 DEF GotInv
<1>10. \A n \in Nodes : Fits(summary'[n], Tree[pass.no][n])
  <2> SUFFICES ASSUME NEW n \in Nodes
               PROVE  Fits(summary'[n], Tree[pass.no][n])
    OBVIOUS
  <2>1. CASE item[n].got.kind = "answer"
    <3>1. summary'[n] = item[n].got /\ item[n].got.input = AskedInput(n)
      BY <1>1, <1>4, <2>1 DEF GotInv
    <3> QED
      BY <2>1, <3>1 DEF Fits, AskedInput, Text, Leaf, Kids
  <2>2. CASE item[n].got.kind # "answer"
    BY <1>1, <1>4, <2>2 DEF SummaryInv
  <2> QED
    BY <2>1, <2>2
<1>11. SummaryInv'
  BY <1>2, <1>3, <1>10 DEF SummaryInv
<1>12. PrevInv'
  <2>1. prev'.tree = Tree[pass.no] /\ prev'.summary = summary'
    BY <1>1
  <2>2. summary' \in [Caller -> Summary]
    BY <1>1, <1>6
  <2> QED
    BY <1>1, <1>10, <2>1, <2>2 DEF PrevInv, Nodes
<1>13. CoverInv'
  <2> SUFFICES ASSUME NEW n \in Nodes, ShouldGenerate(n), summary'[n] = None
               PROVE  /\ item[n].ph # "none"
                      /\ item[n].ph = "failed" \/ item[n].got = EmptyAnswer
    BY <1>1, <1>2, <1>3 DEF CoverInv
  <2>1. item[n].got.kind # "answer" /\ summary[n] = None
    BY <1>1, <1>4, Kinds
  <2>2. item[n].ph # "none"
    BY <1>1, <2>1 DEF CoverInv
  <2>3. item[n].ph \in {"done", "failed"} /\ item[n].got \in Answers \cup {None}
    BY <1>1, <1>4, <1>5, <2>2 DEF Item, Phases
  <2>4. item[n].ph = "done" => item[n].got = EmptyAnswer
    BY <1>1, <1>4, <2>1, <2>3, Kinds DEF GotInv
  <2> QED
    BY <2>2, <2>3, <2>4
<1> QED
  BY <1>7, <1>8, <1>9, <1>11, <1>12, <1>13 DEF PassInv

LEMMA NextPassKeeps ==
    ASSUME PassInv, NextPass
    PROVE  PassInv'
<1>1. /\ PassTypes /\ AskedInv /\ GotInv /\ PrevInv
      /\ pass.ph \in Over /\ pass' = [no |-> pass.no + 1, ph |-> "idle"]
      /\ pass'.ph = "idle" /\ pass.no + 1 \in Rounds
      /\ UNCHANGED <<call, item, summary, prev>>
  BY DEF NextPass, PassInv, llmVars
<1>2. PassTypes'
  BY <1>1 DEF PassTypes
<1>3. AskedInv'
  BY <1>1 DEF AskedInv, Over
<1>4. GotInv'
  BY <1>1 DEF GotInv
<1>5. SummaryInv' /\ CoverInv' /\ PrevInv'
  BY <1>1 DEF SummaryInv, CoverInv, PrevInv
<1> QED
  BY <1>2, <1>3, <1>4, <1>5 DEF PassInv

\* A pass that is dropped leaves nothing but the earlier version.
LEMMA AbandonKeeps ==
    ASSUME PassInv, Abandon, \A t \in Caller : call'[t].ph \notin Busy
    PROVE  PassInv'
<1>1. /\ PassTypes /\ PrevInv /\ pass.ph = "running"
      /\ pass' = [pass EXCEPT !.ph = "abandoned"]
      /\ item' = [n \in Caller |-> NoItem] /\ summary' = [n \in Caller |-> None]
      /\ prev' = prev
  BY DEF Abandon, PassInv
<1>2. pass'.ph = "abandoned" /\ pass' \in [no : Rounds, ph : {"idle", "running"} \cup Over]
  BY <1>1 DEF PassTypes, Over
<1>3. Nodes' \subseteq Caller
  BY <1>2, EnhanceAssumption DEF Nodes
<1>4. PassTypes'
  <2>1. None \in Summary
    BY DEF Summary
  <2> QED
    BY <1>1, <1>2, <2>1, NoItemOk DEF PassTypes
<1>5. AskedInv' /\ GotInv' /\ CoverInv'
  BY <1>1, <1>2, NoItemOk DEF AskedInv, GotInv, CoverInv
<1>6. SummaryInv'
  BY <1>1, <1>3 DEF SummaryInv, Fits
<1>7. PrevInv'
  BY <1>1 DEF PrevInv
<1> QED
  BY <1>4, <1>5, <1>6, <1>7 DEF PassInv

LEMMA TimeOutKeeps ==
    ASSUME LlmInv, MemoInv, PassInv, TimeOut
    PROVE  LlmInv' /\ MemoInv' /\ PassInv'
<1>1. Abandon /\ Drop(Asked) /\ UNCHANGED <<memo, memoFile>> /\ Asked \in SUBSET Caller
  BY DEF TimeOut, Asked, memoVars
<1>2. \A t \in Caller : call'[t].ph \notin Busy
  <2> SUFFICES ASSUME NEW t \in Caller
               PROVE  call'[t].ph \notin Busy
    OBVIOUS
  <2>1. call'[t] = IF t \in Asked /\ call[t].ph \in Busy
                   THEN [call[t] EXCEPT !.ph = "dropped"] ELSE call[t]
    BY <1>1 DEF Drop, Busy
  <2>2. call[t].ph \in Busy => t \in Asked
    BY DEF PassInv, AskedInv, Asked
  <2>3. call[t] \in CallRec
    BY DEF LlmInv, LlmTypes
  <2> QED
    BY <2>1, <2>2, <2>3 DEF CallRec, Busy, Waiting, Holding
<1>3. LlmInv'
  BY <1>1, DropKeeps
<1>4. MemoInv'
  BY <1>1 DEF MemoInv
<1> QED
  BY <1>1, <1>2, <1>3, <1>4, AbandonKeeps

LEMMA RestartKeeps ==
    ASSUME MemoInv, PassInv, Restart
    PROVE  LlmInv' /\ MemoInv' /\ PassInv'
<1>1. /\ Abandon /\ Load /\ chain' \in Chains /\ call' = [t \in Caller |-> NewCall]
      /\ free' = Permits /\ queue' = <<>> /\ tokens' = Burst /\ Burst \in 0..Burst
  BY LlmAssumption DEF Restart
<1>2. \A t \in Caller : call'[t].ph \notin Busy
  BY <1>1, NewCallOk DEF Busy, Waiting, Holding
<1> QED
  BY <1>1, <1>2, LlmRestarts, LoadKeeps, AbandonKeeps

\* A task's node is in the tree.
LEMMA TaskOfNode ==
    ASSUME PassInv, NEW n \in Caller, item[n].ph \in {"pending", "asked"}
    PROVE  /\ pass.ph = "running" /\ n \in Nodes /\ AskedInput(n) \in Inputs
           /\ item \in [Caller -> Item] /\ item[n] \in Item
<1>1. pass.ph = "running" /\ pass.no \in Rounds /\ item \in [Caller -> Item]
  BY DEF PassInv, PassTypes, AskedInv
<1>2. n \in Nodes
  BY <1>1 DEF PassInv, AskedInv
<1> QED
  BY <1>1, <1>2, InputOfNode

LEMMA StartTaskKeeps ==
    ASSUME LlmInv, MemoInv, PassInv, NEW n \in Caller, StartTask(n)
    PROVE  LlmInv' /\ MemoInv' /\ PassInv'
<1> DEFINE k == SummaryKey(AskedInput(n))
<1>1. /\ item[n].ph = "pending" /\ Get(k) /\ UNCHANGED <<pass, summary, prev>>
      /\ IF IsHit(k)
         THEN /\ item' = [item EXCEPT ![n] = [ph |-> "done", got |-> Entry(memo, k).val]]
              /\ UNCHANGED llmVars
         ELSE /\ item' = [item EXCEPT ![n].ph = "asked"] /\ Begin(n)
  BY DEF StartTask
<1>2. /\ pass.ph = "running" /\ item \in [Caller -> Item] /\ item[n] \in Item
      /\ item[n].ph # "none"
  BY <1>1, TaskOfNode
<1>3. MemoInv'
  BY <1>1, GetKeeps
<1>4. CASE IsHit(k)
  <2> DEFINE v == Entry(memo, k).val
             i == [ph |-> "done", got |-> v]
  <2>1. k \in Keys(memo) /\ StoreInv(memo)
    BY <1>4 DEF IsHit, MemoInv
  <2>2. Entry(memo, k) \in EntryRec /\ (v.kind = "answer" => k = SummaryKey(v.input))
    BY <2>1, EntryFound
  <2>3. v \in Answers /\ (v.kind = "answer" => v.input = AskedInput(n))
    BY <2>2 DEF EntryRec, SummaryKey, MakeKey
  <2>4. item' = [item EXCEPT ![n] = i] /\ UNCHANGED <<chain, call, free, queue, tokens>>
    BY <1>1, <1>4 DEF llmVars
  <2> HIDE DEF v, k
  <2>5. /\ i \in Item /\ i.ph # "none" /\ (i.got # None <=> i.ph = "done")
        /\ i.got.kind = "answer" => i.got.input = AskedInput(n)
    BY <2>3, Kinds DEF Item, Phases
  <2> HIDE DEF i
  <2>6. \A t \in Caller : call'[t].ph \in Busy =>
            IF t = n THEN i.ph = "asked" ELSE call[t].ph \in Busy
    BY <1>1, <2>4 DEF PassInv, AskedInv
  <2>7. PassInv'
    BY <1>1, <1>2, <2>4, <2>5, <2>6, ItemChanges
  <2>8. LlmInv'
    <3>1. CallsOk'
      BY <2>4, SameCalls DEF LlmInv
    <3> QED
      BY <2>4, <3>1 DEF LlmInv, LlmTypes, QueueInv, PermitsConserved
  <2> QED
    BY <1>3, <2>7, <2>8
<1>5. CASE ~IsHit(k)
  <2> DEFINE i == [item[n] EXCEPT !.ph = "asked"]
  <2>1. item' = [item EXCEPT ![n] = i] /\ Begin(n)
    BY <1>1, <1>5
  <2>2. item[n].got = None
    BY <1>1 DEF PassInv, GotInv
  <2>3. /\ i \in Item /\ i.ph = "asked" /\ i.got = None
    BY <1>2, <2>2 DEF Item, Phases
  <2> HIDE DEF i
  <2>4. \A t \in Caller : call'[t].ph \in Busy =>
            IF t = n THEN i.ph = "asked" ELSE call[t].ph \in Busy
    BY <2>1, <2>3 DEF Begin, LlmInv, LlmTypes
  <2>5. PassInv'
    BY <1>1, <1>2, <2>1, <2>3, <2>4, Kinds, ItemChanges
  <2>6. LlmInv'
    BY <2>1, BeginKeeps
  <2> QED
    BY <1>3, <2>5, <2>6
<1> QED
  BY <1>4, <1>5

LEMMA TakeAnswerKeeps ==
    ASSUME LlmInv, MemoInv, PassInv, NEW n \in Caller, TakeAnswer(n)
    PROVE  LlmInv' /\ MemoInv' /\ PassInv'
<1>1. /\ item[n].ph = "asked" /\ Answered(n) /\ UNCHANGED <<pass, summary, prev>>
      /\ call[n].ph = "request"
  BY DEF TakeAnswer, Answered
<1>2. PICK a \in {Answer(AskedInput(n), call[n].model), EmptyAnswer} :
         /\ item' = [item EXCEPT ![n] = [ph |-> "done", got |-> a]]
         /\ Put(SummaryKey(AskedInput(n)), a)
  BY DEF TakeAnswer
<1>3. /\ pass.ph = "running" /\ item \in [Caller -> Item] /\ AskedInput(n) \in Inputs
      /\ item[n].ph # "none"
  BY <1>1, TaskOfNode
<1>4. a \in Answers /\ (a.kind = "answer" => a.input = AskedInput(n))
  <2>1. call[n] \in CallRec /\ CallOk(n, call[n])
    BY DEF LlmInv, LlmTypes, CallsOk
  <2>2. call[n].model \in ModelsOf(n)
    BY <1>1, <2>1, BusyCall DEF Holding
  <2>3. call[n].model \in UNION {ModelsOf(t) : t \in Caller}
    BY <2>2
  <2>4. a = Answer(AskedInput(n), call[n].model) \/ a = EmptyAnswer
    OBVIOUS
  <2>5. Answer(AskedInput(n), call[n].model).input = AskedInput(n)
    BY DEF Answer
  <2>6. a \in Answers
    BY <1>3, <2>3, <2>4 DEF Answers
  <2> QED
    BY <2>4, <2>5, <2>6, Kinds
<1> DEFINE i == [ph |-> "done", got |-> a]
<1>5. /\ i \in Item /\ i.ph # "none" /\ (i.got # None <=> i.ph = "done")
      /\ i.got.kind = "answer" => i.got.input = AskedInput(n)
  BY <1>4, Kinds DEF Item, Phases
<1>6. \A t \in Caller : call'[t].ph \in Busy =>
          IF t = n THEN i.ph = "asked" ELSE call[t].ph \in Busy
  BY <1>1 DEF Answered, LlmInv, LlmTypes, CallRec, Busy, Waiting, Holding
<1>7. item' = [item EXCEPT ![n] = i]
  BY <1>2
<1> HIDE DEF i
<1>8. PassInv'
  BY <1>1, <1>3, <1>5, <1>6, <1>7, ItemChanges
<1>9. LlmInv' /\ MemoInv'
  BY <1>1, <1>2, <1>3, <1>4, AnsweredKeeps, PutKeeps
<1> QED
  BY <1>8, <1>9

LEMMA TaskFailsKeeps ==
    ASSUME PassInv, NEW n \in Caller, TaskFails(n)
    PROVE  PassInv'
<1>1. /\ item[n].ph = "asked" /\ call[n].ph = "err"
      /\ item' = [item EXCEPT ![n].ph = "failed"]
      /\ UNCHANGED <<call, pass, summary, prev>>
  BY DEF TaskFails, llmVars
<1>2. /\ pass.ph = "running" /\ item \in [Caller -> Item] /\ item[n] \in Item
      /\ item[n].ph # "none"
  BY <1>1, TaskOfNode
<1> DEFINE i == [item[n] EXCEPT !.ph = "failed"]
<1>3. item[n].got = None
  BY <1>1 DEF PassInv, GotInv
<1>4. i \in Item /\ i.ph = "failed" /\ i.got = None
  BY <1>2, <1>3 DEF Item, Phases
<1>5. item' = [item EXCEPT ![n] = i]
  BY <1>1
<1> HIDE DEF i
<1>6. \A t \in Caller : call'[t].ph \in Busy =>
          IF t = n THEN i.ph = "asked" ELSE call[t].ph \in Busy
  BY <1>1 DEF Busy, Waiting, Holding
<1> QED
  BY <1>1, <1>2, <1>4, <1>5, <1>6, Kinds, ItemChanges

LEMMA AttemptKeeps ==
    ASSUME LlmInv, NEW t \in Caller, Attempt(t)
    PROVE  /\ LlmInv'
           /\ \A u \in Caller : call'[u].ph \in Busy => call[u].ph \in Busy
<1>1. chain' = chain /\ (TakeToken(t) \/ TakePermit(t) \/ Failed(t) \/ Wake(t))
  BY DEF Attempt
<1>2. LlmInv'
  BY <1>1, TakeTokenKeeps, TakePermitKeeps, FailedKeeps, WakeKeeps
<1>3. call[t].ph \in Busy
  <2>1. CASE TakePermit(t)
    <3>1. queue \in Seq(Caller) /\ queue # <<>> /\ t = Head(queue)
      BY <2>1 DEF TakePermit, LlmInv, LlmTypes
    <3>2. Len(queue) \in Nat \ {0} /\ DOMAIN queue = 1..Len(queue) /\ t = queue[1]
      BY <3>1, EmptySeq, LenProperties
    <3> QED
      BY <3>2 DEF LlmInv, QueueInv, Busy, Waiting
  <2> QED
    BY <1>1, <2>1 DEF TakeToken, Failed, Wake, Busy, Waiting, Holding
<1>4. \E c : call' = [call EXCEPT ![t] = c]
  BY <1>1 DEF TakeToken, TakePermit, Failed, Wake
<1>5. \A u \in Caller \ {t} : call'[u] = call[u]
  BY <1>4 DEF LlmInv, LlmTypes
<1> QED
  BY <1>2, <1>3, <1>5

(***************************************************************************)
(* The inductive invariant, and what it shows.                             *)
(***************************************************************************)
IInv == LlmInv /\ MemoInv /\ PassInv

LEMMA Starts ==
    ASSUME Init
    PROVE  IInv
<1>1. /\ LlmInit /\ memo = <<>> /\ memoFile = <<>>
      /\ pass = [no |-> 1, ph |-> "idle"] /\ pass.ph = "idle"
      /\ item = [n \in Caller |-> NoItem] /\ summary = [n \in Caller |-> None]
      /\ prev = <<>>
  BY DEF Init, MemoInit
<1>2. LlmInv /\ MemoInv
  BY <1>1, LlmStarts, EmptyStore DEF MemoInv
<1>3. PassTypes
  <2>1. None \in Summary
    BY DEF Summary
  <2> QED
    BY <1>1, <2>1, NoItemOk, EnhanceAssumption DEF PassTypes
<1>4. \A t \in Caller : call[t].ph \notin Busy
  BY <1>1, NewCallOk DEF LlmInit, Busy, Waiting, Holding
<1>5. AskedInv /\ GotInv /\ SummaryInv /\ PrevInv /\ CoverInv
  BY <1>1, <1>4, NoItemOk DEF AskedInv, GotInv, SummaryInv, PrevInv, CoverInv
<1> QED
  BY <1>2, <1>3, <1>5 DEF IInv, PassInv

\* A step of the store or of the limiter, or none.
LEMMA OthersKeep ==
    ASSUME IInv, MemoUse \/ Limiter \/ UNCHANGED vars
    PROVE  IInv'
<1>1. UNCHANGED passVars /\ call' = call
  BY DEF MemoUse, Limiter, Refill, vars, passVars, llmVars
<1>2. PassInv'
  BY <1>1, PassStays DEF IInv
<1>3. LlmInv'
  <2>1. CASE Limiter
    BY <2>1, RefillKeeps DEF Limiter, IInv
  <2>2. CASE UNCHANGED llmVars
    <3>1. UNCHANGED <<chain, call, free, queue, tokens>>
      BY <2>2 DEF llmVars
    <3>2. CallsOk'
      BY <3>1, SameCalls DEF IInv, LlmInv
    <3> QED
      BY <3>1, <3>2 DEF IInv, LlmInv, LlmTypes, QueueInv, PermitsConserved
  <2> QED
    BY <2>1, <2>2 DEF MemoUse, vars, llmVars
<1>4. MemoInv'
  <2>1. CASE MemoUse
    BY <2>1, ExpireKeeps, SaveKeeps, InvalidateKeeps DEF MemoUse, IInv
  <2>2. CASE UNCHANGED memoVars
    BY <2>2 DEF memoVars, IInv, MemoInv
  <2> QED
    BY <2>1, <2>2 DEF Limiter, vars, memoVars
<1> QED
  BY <1>2, <1>3, <1>4 DEF IInv

LEMMA EachStepKeeps ==
    ASSUME IInv, [Next]_vars
    PROVE  IInv'
<1>1. LlmInv /\ MemoInv /\ PassInv
  BY DEF IInv
<1>2. CASE Collect
  BY <1>1, <1>2, CollectKeeps DEF IInv
<1>3. CASE WriteBack \/ NextPass
  <2>1. UNCHANGED <<llmVars, memoVars>>
    BY <1>3 DEF WriteBack, NextPass
  <2>2. UNCHANGED <<chain, call, free, queue, tokens, memo, memoFile>>
    BY <2>1 DEF llmVars, memoVars
  <2>3. CallsOk'
    BY <1>1, <2>2, SameCalls DEF LlmInv
  <2>4. LlmInv' /\ MemoInv'
    BY <1>1, <2>2, <2>3
       DEF LlmInv, LlmTypes, QueueInv, PermitsConserved, MemoInv
  <2> QED
    BY <1>1, <1>3, <2>4, WriteBackKeeps, NextPassKeeps DEF IInv
<1>4. CASE TimeOut
  BY <1>1, <1>4, TimeOutKeeps DEF IInv
<1>5. CASE Restart
  BY <1>1, <1>5, RestartKeeps DEF IInv
<1>6. ASSUME NEW n \in Caller, Task(n)
      PROVE  IInv'
  <2>1. CASE StartTask(n)
    BY <1>1, <2>1, StartTaskKeeps DEF IInv
  <2>2. CASE TakeAnswer(n)
    BY <1>1, <2>2, TakeAnswerKeeps DEF IInv
  <2>3. CASE TaskFails(n)
    <3>1. UNCHANGED <<chain, call, free, queue, tokens, memo, memoFile>>
      BY <2>3 DEF TaskFails, llmVars, memoVars
    <3>2. CallsOk'
      BY <1>1, <3>1, SameCalls DEF LlmInv
    <3>3. LlmInv' /\ MemoInv'
      BY <1>1, <3>1, <3>2
         DEF LlmInv, LlmTypes, QueueInv, PermitsConserved, MemoInv
    <3> QED
      BY <1>1, <2>3, <3>3, TaskFailsKeeps DEF IInv
  <2>4. CASE Attempt(n) /\ UNCHANGED <<memoVars, passVars>>
    <3>1. LlmInv' /\ \A u \in Caller : call'[u].ph \in Busy => call[u].ph \in Busy
      BY <1>1, <2>4, AttemptKeeps
    <3>2. PassInv'
      BY <1>1, <2>4, <3>1, PassStays
    <3>3. MemoInv'
      BY <1>1, <2>4 DEF memoVars, MemoInv
    <3> QED
      BY <3>1, <3>2, <3>3 DEF IInv
  <2> QED
    BY <1>6, <2>1, <2>2, <2>3, <2>4 DEF Task
<1>7. CASE MemoUse \/ Limiter \/ UNCHANGED vars
  BY <1>7, OthersKeep
<1> QED
  BY <1>2, <1>3, <1>4, <1>5, <1>6, <1>7 DEF Next

LEMMA AlwaysIInv == Spec => []IInv
<1>1. Init => IInv
  BY Starts
<1>2. IInv /\ [Next]_vars => IInv'
  BY EachStepKeeps
<1> QED
  BY <1>1, <1>2, PTL DEF Spec

\* On every way through retries, fallbacks, timeouts of a compile and restarts
\* each permit is free or held by one call, no call makes more attempts than it
\* may, and none gives up before the end of the chain (executor.rs,
\* execute_with_context; fallback.rs, next_model).
THEOREM CallsAlwaysFollowPolicy == Spec => []CallsFollowPolicy
<1>1. IInv => CallsFollowPolicy
  BY PolicyFollows DEF IInv
<1> QED
  BY <1>1, AlwaysIInv, PTL

\* No path a summary may take, from the memo, from the previous version or
\* from the results that come in any order, gives a node what was said of
\* another text (enhance.rs, execute; strategy.rs, generate_for_node).
THEOREM SummariesAreOfOwnContent == Spec => []SummaryOfOwnContent
<1>1. IInv => SummaryOfOwnContent
  <2> SUFFICES ASSUME IInv
               PROVE  SummaryOfOwnContent
    OBVIOUS
  <2>1. ASSUME pass.ph # "idle", NEW n \in Nodes
        PROVE  summary[n] \in {None, Own(Text(n))} \/
                  (summary[n].kind = "answer" /\ summary[n].input = AskedInput(n))
    BY <2>1 DEF IInv, PassInv, SummaryInv, Fits, AskedInput, Text, Leaf, Kids
  <2>2. \A i \in DOMAIN memo : memo[i].val.kind = "answer" =>
            memo[i].key = SummaryKey(memo[i].val.input)
    BY DEF IInv, MemoInv, StoreInv
  <2> QED
    BY <2>1, <2>2 DEF SummaryOfOwnContent
<1> QED
  BY <1>1, AlwaysIInv, PTL

\* A pass that ends leaves no node without a summary it was to have, but for
\* a call that failed or an empty answer (enhance.rs, execute).
THEOREM PassesCover == Spec => []EnhanceCovers
<1>1. IInv => EnhanceCovers
  BY DEF IInv, PassInv, CoverInv, EnhanceCovers
<1> QED
  BY <1>1, AlwaysIInv, PTL

=============================================================================
