-------------------------- MODULE NavigatorQueries --------------------------
(***************************************************************************)
(* What a navigator answers about texts: grep, search, similar, related    *)
(* sections, head and wc; and the page queries and leaves of the tree of a *)
(* stored document.  A query is one word, the id of a piece; letter case,  *)
(* expressions, snippets and summaries are left out.                       *)
(***************************************************************************)
EXTENDS DocumentIndices

CONSTANTS
    MaxMatches,    \* matches grep and grep_node return
    SearchLimit    \* hits of search, if no limit is asked for

(***************************************************************************)
(* Lines of a text.  A paragraph has a blank line before it.               *)
(***************************************************************************)
LineOf(text, i) ==
    1 + Cardinality({j \in 2..i : text[j].line}) + Cardinality({j \in 2..i : text[j].para})
LineCount(text) == IF text = <<>> THEN 0 ELSE LineOf(text, Len(text))

WordCount(text) == [lines |-> LineCount(text), words |-> Len(text), chars |-> Size(text)]

\* head: the first lines, and how many more there are.
HeadLines(text, k) ==
    [shown |-> SelectSeq([i \in DOMAIN text |-> <<LineOf(text, i), text[i].id>>],
                         LAMBDA p : p[1] <= k),
     more |-> IF LineCount(text) > k THEN LineCount(text) - k ELSE 0]

(***************************************************************************)
(* grep: lines with the word, below a node.                                *)
(***************************************************************************)
First(seq, k) == SubSeq(seq, 1, Min({k, Len(seq)}))

GrepNode(t, n, word) ==
    LET text == t.nodes[n].text
        lines == {LineOf(text, i) : i \in {i \in DOMAIN text : text[i].id = word}}
    IN  First([k \in 1..Cardinality(lines) |->
                  [node |-> n, line |-> SetToSortSeq(lines, <)[k]]], MaxMatches)

\* collect_subtree puts children out when it visits their parent, and goes
\* on with the last of them.
SubtreeOrder(t, n) ==
    LET walk[k \in 0..Len(t.nodes)] ==
            IF k = 0 THEN [out |-> <<n>>, stack |-> <<n>>]
            ELSE LET w == walk[k - 1]
                 IN  IF w.stack = <<>> THEN w
                     ELSE LET kids == Children(t, Last(w.stack))
                          IN  [out |-> w.out \o kids, stack |-> Front(w.stack) \o kids]
    IN  walk[Len(t.nodes)].out

Grep(t, cursor, word) ==
    LET order == SubtreeOrder(t, cursor)
    IN  First(FoldLeft(LAMBDA acc, n : acc \o GrepNode(t, n, word), <<>>, order), MaxMatches)

(***************************************************************************)
(* search: BM25 for one word, with k1 = 3/2 and b = 3/4.  Of two nodes the *)
(* one with the larger f / (f + k1 (1 - b + b len / average)) comes first, *)
(* else the one that is earlier in the tree.  Numbers of parts are too     *)
(* short for a token, "part" and the word of a mark are tokens.            *)
(***************************************************************************)
Tokens(node) ==
    Cardinality({x \in {"name", "part", "mark"} :
                    CASE x = "name" -> node.title.name # ""
                      [] x = "part" -> node.title.part # 0
                      [] OTHER -> node.title.mark # "no"})
      + Cardinality({i \in DOMAIN node.text : node.text[i].id # ""})

Frequency(node, word) ==
    (IF node.title.name = word THEN 1 ELSE 0)
      + Cardinality({i \in DOMAIN node.text : node.text[i].id = word})

Search(t, word, limit) ==
    LET order == SelectSeq(Traverse(t), LAMBDA n : Tokens(t.nodes[n]) > 0)
        total == FoldLeft(LAMBDA acc, n : acc + Tokens(t.nodes[n]), 0, order)
        f(i) == Frequency(t.nodes[order[i]], word)
        norm(i) == total + 3 * Tokens(t.nodes[order[i]]) * Len(order)
        Better(i, j) == f(i) * norm(j) > f(j) * norm(i)
        Before(i, j) == Better(i, j) \/ (~Better(j, i) /\ i < j)
        hits == SetToSortSeq({i \in DOMAIN order : f(i) > 0}, Before)
    IN  First([k \in DOMAIN hits |-> order[hits[k]]],
              IF limit = 0 THEN SearchLimit ELSE limit)

(***************************************************************************)
(* Nodes that share topics.  Ten similar ones at most are returned, which  *)
(* is not reached; they come by the weights the index was built with.      *)
(***************************************************************************)
SimilarNodes(t, topics, n) ==
    LET Both(m) == {word \in DOMAIN topics : {n, m} \subseteq topics[word]}
    IN  {[node |-> m, words |-> Both(m)] : m \in {m \in Nodes(t) \ {n} : Both(m) # {}}}

RelatedSections(reasoning, words) == UNION {KeywordEntries(reasoning, word) : word \in words}

(***************************************************************************)
(* The tree: pages, and leaves after a document was stored and loaded.     *)
(***************************************************************************)
\* find_by_page of the tree: the first of the deepest nodes.
FindByPageWalk(t, page) ==
    LET S == {n \in Nodes(t) : Covers(t.nodes[n].pages, page)}
        deepest == SelectSeq(Traverse(t), LAMBDA n :
                       n \in S /\ \A m \in S : t.nodes[m].depth <= t.nodes[n].depth)
    IN  IF S = {} THEN {} ELSE {Head(deepest)}

\* find_nodes_by_page_range
NodesByPageRange(t, from, to) ==
    {n \in Nodes(t) : LET pages == t.nodes[n].pages
                      IN  pages # <<>> /\ pages[1] <= to /\ from <= pages[2]}

\* The cache of leaves is not stored: a loaded tree walks for them.
LeavesOnLoad(t) == SelectSeq(Traverse(t), LAMBDA n : IsLeaf(t, n))

MaxDepthOf(t) ==
    LET depth[n \in Nodes(t)] == IF n = Root THEN 0 ELSE depth[t.nodes[n].parent] + 1
    IN  Max({depth[n] : n \in Nodes(t)})
=============================================================================
