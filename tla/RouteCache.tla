----------------------------- MODULE RouteCache -----------------------------
(***************************************************************************)
(* RouteCache: for each document the routes recorded for it, a route being *)
(* the nodes that were read for a query, found again by the intent and the *)
(* keywords of the query.  A confidence is counted in hundredths.          *)
(***************************************************************************)
EXTENDS Naturals, Sequences, SequencesExt, FiniteSets, Functions

CONSTANTS
    MaxEntries   \* MAX_ENTRIES_PER_DOC

ASSUME EntriesAssumption == MaxEntries \in Nat

LookupMinConfidence == 70

\* Two sets overlap by at least eight tenths of their union.
Common(a, b) == Cardinality(a \cap b)
Either(a, b) == Cardinality(a \cup b)
Alike(a, b) == 10 * Common(a, b) >= 8 * Either(a, b)

\* The routes that may be used for a query.
Usable(entries, intent, kw) ==
    {k \in DOMAIN entries : /\ entries[k].intent = intent
                            /\ entries[k].conf >= LookupMinConfidence
                            /\ Alike(kw, entries[k].kw)}

\* One overlaps at least as much as another.
AtLeast(entries, kw, j, k) ==
    Common(kw, entries[j].kw) * Either(kw, entries[k].kw) >=
        Common(kw, entries[k].kw) * Either(kw, entries[j].kw)

\* Mutant: what a route was recorded with does not matter.
LookupAnyConfidence(entries, intent, kw) ==
    LET found == {k \in DOMAIN entries : entries[k].intent = intent
                                      /\ Alike(kw, entries[k].kw)}
    IN IF kw = {} THEN {} ELSE {entries[k] : k \in found}

\* A route of the data found for a query, as a set of at most one: the first
\* of those that overlap most.
Lookup(entries, intent, kw) ==
    {entries[k] : k \in {k \in Usable(entries, intent, kw) :
        /\ kw # {}
        /\ \A j \in Usable(entries, intent, kw) :
              /\ AtLeast(entries, kw, k, j)
              /\ AtLeast(entries, kw, j, k) => k <= j}}

\* The entries with the least hits go, the earlier ones among equals: what just
\* came goes at once if everything else was hit again.
Before(entries, k) ==
    {j \in DOMAIN entries : \/ entries[j].hits < entries[k].hits
                            \/ entries[j].hits = entries[k].hits /\ j < k}
Evict(entries) ==
    LET ByHits(n) == CHOOSE k \in DOMAIN entries : Cardinality(Before(entries, k)) = n - 1
    IN IF Len(entries) <= MaxEntries THEN entries
       ELSE [i \in 1..MaxEntries |-> entries[ByHits(Len(entries) - MaxEntries + i)]]

\* A route recorded: into the entry of the same intent and keywords if there
\* is one, whose nodes are kept when they came with more confidence.
Upsert(e, nodes, conf) ==
    [e EXCEPT !.hits = @ + 1,
              !.nodes = IF conf >= e.conf THEN nodes ELSE @,
              !.conf = IF conf >= e.conf THEN conf ELSE @]

Recorded(entries, intent, kw, nodes, conf) ==
    LET same == {k \in DOMAIN entries :
                    entries[k].intent = intent /\ entries[k].kw = kw}
        new == [intent |-> intent, kw |-> kw, nodes |-> nodes,
                conf |-> conf, hits |-> 1]
    IN IF nodes = {} \/ kw = {} THEN entries
       ELSE IF same # {}
       THEN [k \in DOMAIN entries |->
                IF k \in same THEN Upsert(entries[k], nodes, conf)
                ELSE entries[k]]
       ELSE Evict(Append(entries, new))
=============================================================================
