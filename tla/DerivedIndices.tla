--------------------------- MODULE DerivedIndices ---------------------------
(***************************************************************************)
(* What the passes beside the two indices compute from a tree: warnings,   *)
(* overlaps, chains, routes, scores and concepts; and what a navigator     *)
(* answers from them.                                                      *)
(*                                                                         *)
(* The ids of pieces stand for the words of a text, and none of them is    *)
(* contained in another.  Relevances are in tenths.  The limits of 10     *)
(* targets and 50 concepts of a route, and of 20 topics and 15 concepts,   *)
(* are not reached.                                                        *)
(***************************************************************************)
EXTENDS DocumentTree

CONSTANTS
    MaxDepth,     \* validate: levels of a tree it does not warn of
    MinSum,       \* validate: tokens of children it does not warn below
    MinContent    \* validate, overlap: texts that are shorter are not compared

(***************************************************************************)
(* validate: what it warns of.                                             *)
(***************************************************************************)
TooDeep(t) == \E n \in Nodes(t) : t.nodes[n].depth > MaxDepth
EmptyTitles(t) == \E l \in ToSet(t.leaves) : t.nodes[l].title.name = ""

\* A parent with tokens, but less than 0.8 of its children's.
TokensInconsistent(t) ==
    \E n \in Nodes(t) :
        LET own == t.nodes[n].tokens
            sum == FoldLeft(LAMBDA acc, c : acc + t.nodes[c].tokens, 0, Children(t, n))
        IN  own > 0 /\ sum >= MinSum /\ 10 * own < 8 * sum

Comparable(t) == SelectSeq(t.leaves, LAMBDA l : Size(t.nodes[l].text) >= MinContent)
Duplicated(t) ==
    ~IsInjective([i \in DOMAIN Comparable(t) |-> t.nodes[Comparable(t)[i]].text])

Warnings(t) ==
    {w \in {"depth", "titles", "tokens", "duplicates"} :
        CASE w = "depth" -> TooDeep(t)
          [] w = "titles" -> EmptyTitles(t)
          [] w = "tokens" -> TokensInconsistent(t)
          [] OTHER -> Duplicated(t)}

(***************************************************************************)
(* overlap: pairs of leaves that share four fifths of their words.         *)
(***************************************************************************)
Shared(a, b) == Cardinality(Pieces(a) \cap Pieces(b))
All(a, b) == Cardinality(Pieces(a) \cup Pieces(b))
Similar(a, b) == 10 * Shared(a, b) >= 8 * All(a, b)

OverlapType(a, b) ==
    IF 10 * Shared(a, b) >= 9 * All(a, b) THEN "duplicate"
    ELSE IF 2 * Min({Size(a), Size(b)}) < Max({Size(a), Size(b)}) THEN "summary"
    ELSE "subset"

Overlaps(t) ==
    LET leaf == Comparable(t)
        text == [i \in DOMAIN leaf |-> t.nodes[leaf[i]].text]
    IN  {[a |-> leaf[p[1]], b |-> leaf[p[2]], type |-> OverlapType(text[p[1]], text[p[2]])] :
            p \in {p \in (DOMAIN leaf) \X (DOMAIN leaf) :
                      p[1] < p[2] /\ Similar(text[p[1]], text[p[2]])}}

\* overlapping_nodes, and overlaps_for, which puts the node asked for first.
OverlappingNodes(overlaps, n) ==
    {<<o.b, o.type>> : o \in {o \in overlaps : o.a = n}}
        \cup {<<o.a, o.type>> : o \in {o \in overlaps : o.a # n /\ o.b = n}}
OverlapsFor(overlaps, n) ==
    {[a |-> n, b |-> o[1], type |-> o[2]] : o \in OverlappingNodes(overlaps, n)}

(***************************************************************************)
(* chain: from a node to each node its references resolve to.              *)
(***************************************************************************)
ChainType(kind, from, to) ==
    IF kind = "section" /\ to > from THEN "elaboration" ELSE "supporting"

Chain(t, n, ref) ==
    [premise |-> n, conclusion |-> ref.node,
     type |-> ChainType(ref.kind, t.nodes[n].depth, t.nodes[ref.node].depth)]

Chains(t) ==
    LET Of(n) == LET refs == SelectSeq(t.nodes[n].refs, LAMBDA r : r.node # 0)
                 IN  [i \in DOMAIN refs |-> Chain(t, n, refs[i])]
    IN  FoldLeft(LAMBDA acc, n : acc \o Of(n), <<>>, Traverse(t))

\* add_chain enters a chain for its premise and for its conclusion, twice if
\* they are one node; chains_for looks a node up.
ChainsFor(chains, n) ==
    FoldLeft(LAMBDA acc, c : acc \o (IF c.premise = n THEN <<c>> ELSE <<>>)
                                 \o (IF c.conclusion = n THEN <<c>> ELSE <<>>),
             <<>>, chains)

(***************************************************************************)
(* route: for a node with questions its children, for a tag all nodes that *)
(* have it; the most relevant first, else in order.                        *)
(***************************************************************************)
ByRelevance(targets) ==
    LET Before(i, j) == \/ targets[i].relevance > targets[j].relevance
                        \/ targets[i].relevance = targets[j].relevance /\ i < j
        order == SetToSortSeq(DOMAIN targets, Before)
    IN  [k \in DOMAIN targets |-> targets[order[k]]]

ChildRoute(t, n) ==
    [node |-> n,
     relevance |-> IF t.nodes[n].text = <<>> THEN 3
                   ELSE IF t.nodes[n].hints = 0 THEN 5
                   ELSE 7 + Min({t.nodes[n].hints, 3})]
ChildRoutes(t, n) == ByRelevance([i \in DOMAIN Children(t, n) |-> ChildRoute(t, Children(t, n)[i])])

IntentRoutes(t) ==
    [n \in {n \in Nodes(t) : t.nodes[n].hints > 0 /\ ~IsLeaf(t, n)} |-> ChildRoutes(t, n)]

ConceptRoutes(t) ==
    LET tagged(tag) == SelectSeq(Traverse(t), LAMBDA n : tag \in t.nodes[n].tags)
        Target(n) == [node |-> n, relevance |-> IF IsLeaf(t, n) THEN 9 ELSE 7]
    IN  [tag \in UNION {t.nodes[n].tags : n \in Nodes(t)} |->
            ByRelevance([i \in DOMAIN tagged(tag) |-> Target(tagged(tag)[i])])]

\* intent_routes forgets which node a route starts from.
AllIntentRoutes(routes) == UNION {ToSet(routes[n]) : n \in DOMAIN routes}
RoutesForConcept(routes, word) == IF word \in DOMAIN routes THEN routes[word] ELSE <<>>

(***************************************************************************)
(* score: leaves with text.  The share of different words among all is the *)
(* density; the two other scores look at letters.                          *)
(***************************************************************************)
Density(text) == [unique |-> Cardinality(Pieces(text)), total |-> Len(text)]
Scores(t) ==
    [n \in {l \in ToSet(t.leaves) : t.nodes[l].text # <<>>} |-> Density(t.nodes[n].text)]

(***************************************************************************)
(* concept_extraction without a model, or when its answer is of no use:    *)
(* every topic, said to be in every section with a title.                  *)
(***************************************************************************)
SectionTitles(t) ==
    {t.nodes[n].title : n \in {n \in Nodes(t) : t.nodes[n].title.name # ""}}
Concepts(t, topics) == [word \in DOMAIN topics |-> SectionTitles(t)]

\* children_with_refs: the children and the targets, each once.
ChildrenWithRefs(t, n) ==
    LET Add(seen, r) == IF r.node = 0 \/ r.node \in ToSet(seen) THEN seen ELSE Append(seen, r.node)
    IN  FoldLeft(Add, Children(t, n), t.nodes[n].refs)
=============================================================================
