------------------------------ MODULE CrossGraph ------------------------------
(***************************************************************************)
(* DocumentGraphBuilder of vectorless-graph, as rebuild_graph of the       *)
(* engine uses it: a profile of keywords of each document that could be    *)
(* loaded, added in the order the loads end; the heaviest keywords of each *)
(* as a node; edges between the documents that share enough of them, found *)
(* through an inverted index; the heaviest edges of each node.             *)
(*                                                                         *)
(* Equal weights are cut off in the order of a hash map: any of them.      *)
(***************************************************************************)
EXTENDS Integers, Sequences, FiniteSets, SequencesExt, FiniteSetsExt, Functions

CONSTANTS
    Doc,          \* document ids, numbers: they are compared
    Topics,       \* the topic entries a document may have: for each keyword,
                  \* the weights of the nodes it leads to
    MaxKeywords,  \* max_keywords_per_doc
    MinShared,    \* min_shared_keywords
    MinJaccard,   \* min_keyword_jaccard, in tenths
    MaxEdges,     \* max_edges_per_node
    Scale         \* a multiple of every number of keywords two documents have

ASSUME DocAssumption == Doc \subseteq Nat
ASSUME TopicAssumption == \A topics \in Topics : IsFiniteSet(DOMAIN topics)
ASSUME LimitAssumption ==
    /\ MaxKeywords \in Nat \ {0} /\ MinShared \in Nat /\ MinJaccard \in 0..10
    /\ MaxEdges \in Nat
ASSUME ScaleAssumption == \A k \in 1..(2 * MaxKeywords) : Scale % k = 0

VARIABLES
    profiles,  \* the documents added, in order, with their keywords
    phase,     \* "collect", "nodes", "edges", "trim", "done"
    tops,      \* top_keywords of each document added as a node
    byKeyword, \* keyword_index
    edges      \* the edges of each document that has some

vars == <<profiles, phase, tops, byKeyword, edges>>

Init ==
    /\ profiles = <<>> /\ phase = "collect"
    /\ tops = <<>> /\ byKeyword = <<>> /\ edges = <<>>

\* extract_keywords_from_doc: the mean of the weights.
ExtractKeywords(topics) ==
    [k \in DOMAIN topics |-> FoldLeft(+, 0, topics[k]) \div Len(topics[k])]

Added == {profiles[i].doc : i \in DOMAIN profiles}

\* A document was loaded; its profile is added.
AddDocument(d, topics) ==
    /\ phase = "collect" /\ d \notin Added
    /\ profiles' = Append(profiles, [doc |-> d, keywords |-> ExtractKeywords(topics)])
    /\ UNCHANGED <<phase, tops, byKeyword, edges>>

\* Every load has ended, some of them without a document.
Collected ==
    /\ phase = "collect"
    /\ phase' = IF profiles = <<>> THEN "done" ELSE "nodes"
    /\ UNCHANGED <<profiles, tops, byKeyword, edges>>

\* The MaxKeywords heaviest.
Heaviest(keywords) ==
    LET all == DOMAIN keywords
        most == IF Cardinality(all) < MaxKeywords THEN Cardinality(all) ELSE MaxKeywords
    IN  {S \in kSubset(most, all) : \A k \in S, l \in all \ S : keywords[k] >= keywords[l]}

ListFor(f, x) == IF x \in DOMAIN f THEN f[x] ELSE <<>>
Extend(f, x, v) == [y \in DOMAIN f \cup {x} |-> IF y = x THEN v ELSE f[y]]

\* KeywordDocEntry
Entry(p, k) == [doc |-> p.doc, weight |-> p.keywords[k]]

\* build, step 1: the next profile becomes a node, and the keyword index
\* lists it behind those before it.
AddNode ==
    /\ phase = "nodes"
    /\ LET p == profiles[Cardinality(DOMAIN tops) + 1] IN
          \E top \in Heaviest(p.keywords) :
             /\ tops' = Extend(tops, p.doc, Restrict(p.keywords, top))
             /\ byKeyword' = [k \in DOMAIN byKeyword \cup top |->
                             IF k \in top THEN Append(ListFor(byKeyword, k), Entry(p, k))
                             ELSE byKeyword[k]]
    /\ phase' = IF DOMAIN tops' = Added THEN "edges" ELSE "nodes"
    /\ UNCHANGED <<profiles, edges>>

\* Mutant: the inner loop begins at the entry itself.
EntryPairsFromItself(k) ==
    {p \in (DOMAIN byKeyword[k]) \X (DOMAIN byKeyword[k]) : p[1] <= p[2]}

\* The pairs of entries of a keyword, the one added first in front.
EntryPairs(k) ==
    {p \in (DOMAIN byKeyword[k]) \X (DOMAIN byKeyword[k]) : p[1] < p[2]}

\* compute_edges: what a pair of documents shares, the smaller id first.  The
\* weights come in the order the documents were added in, whatever their ids.
SharedKeyword(k, p) ==
    [keyword |-> k, source |-> byKeyword[k][p[1]].weight, target |-> byKeyword[k][p[2]].weight]
SharedBy(a, b) ==
    UNION {{SharedKeyword(k, p) : p \in {p \in EntryPairs(k) :
                {byKeyword[k][p[1]].doc, byKeyword[k][p[2]].doc} = {a, b}}} : k \in DOMAIN byKeyword}
Swapped(shared) ==
    {[keyword |-> s.keyword, source |-> s.target, target |-> s.source] : s \in shared}

UnionSize(a, b, shared) ==
    Cardinality(DOMAIN tops[a]) + Cardinality(DOMAIN tops[b]) - Cardinality(shared)

\* Six tenths of the Jaccard similarity and four of the share of MaxKeywords,
\* times 10 * Scale * MaxKeywords.
EdgeWeight(shared, size) ==
    (Scale \div size) * shared * (6 * MaxKeywords + 4 * size)

\* min_shared_keywords and min_keyword_jaccard
Enough(a, b) ==
    LET shared == Cardinality(SharedBy(a, b))
    IN  /\ shared > 0 /\ shared >= MinShared
        /\ 10 * shared >= MinJaccard * UnionSize(a, b, SharedBy(a, b))

\* GraphEdge and its evidence
Edge(a, b, shared) ==
    [source |-> a, target |-> b, shared |-> shared,
     weight |-> EdgeWeight(Cardinality(shared), UnionSize(a, b, shared))]

RelatedPairs == {p \in Added \X Added : p[1] <= p[2] /\ Enough(p[1], p[2])}
AllEdges ==
    UNION {{Edge(p[1], p[2], SharedBy(p[1], p[2])),
            Edge(p[2], p[1], Swapped(SharedBy(p[1], p[2])))} : p \in RelatedPairs}

ComputeEdges ==
    /\ phase = "edges" /\ phase' = "trim"
    /\ edges' = [a \in {e.source : e \in AllEdges} |-> {e \in AllEdges : e.source = a}]
    /\ UNCHANGED <<profiles, tops, byKeyword>>

\* trim_edges: of each node on its own.
Trimmed(S) ==
    LET most == IF Cardinality(S) < MaxEdges THEN Cardinality(S) ELSE MaxEdges
    IN  {T \in kSubset(most, S) : \A e \in T, f \in S \ T : e.weight >= f.weight}

TrimEdges ==
    /\ phase = "trim" /\ phase' = "done"
    /\ edges' \in {f \in [DOMAIN edges -> UNION {Trimmed(edges[a]) : a \in DOMAIN edges}] :
                       \A a \in DOMAIN edges : f[a] \in Trimmed(edges[a])}
    /\ UNCHANGED <<profiles, tops, byKeyword>>

\* The graph is handed to the workspace; the next rebuild has its own.
NewBuilder ==
    /\ phase = "done" /\ phase' = "collect"
    /\ profiles' = <<>> /\ tops' = <<>> /\ byKeyword' = <<>> /\ edges' = <<>>

Next ==
    \/ \E d \in Doc, topics \in Topics : AddDocument(d, topics)
    \/ Collected \/ AddNode \/ ComputeEdges \/ TrimEdges \/ NewBuilder

Spec == Init /\ [][Next]_vars

(***************************************************************************)
(* Queries of a graph and what they promise.                               *)
(***************************************************************************)
Neighbors(d) == IF d \in DOMAIN edges THEN edges[d] ELSE {}
FindByKeyword(k) == ListFor(byKeyword, k)

\* What the keywords kept of two documents say of them, and what an edge does.
Common(a, b) == DOMAIN tops[a] \cap DOMAIN tops[b]
Either(a, b) == DOMAIN tops[a] \cup DOMAIN tops[b]
Related(a, b) ==
    /\ a # b /\ Common(a, b) # {} /\ Cardinality(Common(a, b)) >= MinShared
    /\ 10 * Cardinality(Common(a, b)) >= MinJaccard * Cardinality(Either(a, b))
WeightOf(a, b) == EdgeWeight(Cardinality(Common(a, b)), Cardinality(Either(a, b)))
EdgesTo(a, b) == {e \in Neighbors(a) : e.target = b}
Place(d) == CHOOSE i \in DOMAIN profiles : profiles[i].doc = d
InOrder(a, b) == Place(a) < Place(b) <=> a < b
Weighs(a, b, s) ==
    LET x == IF InOrder(a, b) THEN a ELSE b
        y == IF InOrder(a, b) THEN b ELSE a
    IN  s.source = tops[x][s.keyword] /\ s.target = tops[y][s.keyword]
Says(e) ==
    /\ Related(e.source, e.target) /\ e.weight = WeightOf(e.source, e.target)
    /\ {s.keyword : s \in e.shared} = Common(e.source, e.target)
    /\ Cardinality(e.shared) = Cardinality(Common(e.source, e.target))
    /\ \A s \in e.shared : Weighs(e.source, e.target, s)

\* A keyword finds the documents that kept it, each once, and none is kept
\* while a heavier one is not.
KeptAreHeaviest ==
    /\ \A i \in DOMAIN profiles :
          LET p == profiles[i] kept == DOMAIN tops[p.doc] IN
          /\ Cardinality(kept) <= MaxKeywords
          /\ \A k \in kept, l \in DOMAIN p.keywords \ kept : p.keywords[k] >= p.keywords[l]
          /\ \A k \in DOMAIN p.keywords :
                k \in kept <=> p.doc \in {e.doc : e \in ToSet(FindByKeyword(k))}
    /\ \A k \in DOMAIN byKeyword :
          Len(byKeyword[k]) = Cardinality({e.doc : e \in ToSet(byKeyword[k])})

\* Every edge says what is shared, and where one is missing the node is full
\* of edges as heavy.
EdgesAreHeaviest ==
    /\ \A a \in Added : Cardinality(Neighbors(a)) <= MaxEdges /\ \A e \in Neighbors(a) : Says(e)
    /\ \A a, b \in Added : Related(a, b) =>
          \/ Cardinality(EdgesTo(a, b)) = 1
          \/ /\ EdgesTo(a, b) = {} /\ Cardinality(Neighbors(a)) = MaxEdges
             /\ \A e \in Neighbors(a) : e.weight >= WeightOf(a, b)

\* What the finished graph says of two documents is what their keywords say,
\* and which of them are related does not depend on the order the loads ended
\* in: an edge is only between different documents that share enough of the
\* keywords kept, names all of these, and weighs the same both ways; where it
\* is missing the node is full of edges as heavy; a keyword finds the documents
\* that kept it, each once, and none is kept while a heavier one is not.  The
\* two weights of a shared keyword are those it has in the two documents, each
\* in its place if the loads ended in the order of the ids and exchanged if not
\* (builder.rs, build, compute_edges, trim_edges; types.rs, add_node).
GraphSaysWhatIsShared ==
    phase = "done" =>
        /\ DOMAIN tops = Added /\ DOMAIN edges \subseteq Added
        /\ KeptAreHeaviest /\ EdgesAreHeaviest

\* What the evidence of an edge is documented to hold: of each shared keyword
\* the "weight in source document" and the "weight in target document"
\* (types.rs, SharedKeyword).  The code goes by the order of the loads.
WeightsAreOfTheirDocuments ==
    phase = "done" =>
        \A a \in DOMAIN edges : \A e \in edges[a] : \A s \in e.shared :
            /\ s.source = tops[e.source][s.keyword]
            /\ s.target = tops[e.target][s.keyword]
=============================================================================
