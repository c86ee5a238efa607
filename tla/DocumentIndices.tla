-------------------------- MODULE DocumentIndices ---------------------------
(***************************************************************************)
(* The navigation index and the reasoning index of a document, and the     *)
(* resolution of a title by them.  Letter case and quotes are left out,    *)
(* and so are summaries and synonyms.                                      *)
(***************************************************************************)
EXTENDS DocumentTree

CONSTANTS
    MaxTopics,   \* reasoning_index.max_topic_entries
    Unit,        \* the weight 1.0 of a topic entry
    SearchDepth  \* levels search_descendants looks at

(***************************************************************************)
(* navigation_index: an entry and the routes of each node with children.   *)
(***************************************************************************)
CountLeaves(t, n) == Cardinality({m \in Subtree(t, n) : IsLeaf(t, m)})

Route(t, n) ==
    [node |-> n, title |-> t.nodes[n].title, leaves |-> CountLeaves(t, n)]

NavEntry(t, n) ==
    [overview |-> t.nodes[n].title, leaves |-> CountLeaves(t, n), level |-> t.nodes[n].depth]

NavIndex(t) ==
    LET inner == {n \in Nodes(t) : ~IsLeaf(t, n)}
        routes == [n \in inner |-> [i \in DOMAIN Children(t, n) |-> Route(t, Children(t, n)[i])]]
    IN  [entries |-> [n \in inner |-> NavEntry(t, n)],
         routes |-> routes,
         card |-> IF Root \in inner
                  THEN <<[sections |-> [i \in DOMAIN routes[Root] |->
                                           [title |-> routes[Root][i].title,
                                            leaves |-> routes[Root][i].leaves]],
                          leaves |-> CountLeaves(t, Root)]>>
                  ELSE <<>>]

\* get_child_routes, for a node without routes too.
RoutesOf(nav, n) == IF n \in DOMAIN nav.routes THEN nav.routes[n] ELSE <<>>

(***************************************************************************)
(* reasoning_index.                                                        *)
(***************************************************************************)
Weight(t, n, word) ==
    (IF t.nodes[n].title.name = word THEN 2 ELSE 0)
        + Cardinality({i \in DOMAIN t.nodes[n].text : t.nodes[n].text[i].id = word})

Words(t) ==
    UNION {Pieces(t.nodes[n].text) \cup {t.nodes[n].title.name} : n \in Nodes(t)} \ {""}

\* build_topic_paths and sort_and_trim: the MaxTopics heaviest nodes of each
\* word; which of equal ones is up to the order of a hash map.
TopicChoices(t, word) ==
    LET all == {n \in Nodes(t) : Weight(t, n, word) > 0}
        most == IF Cardinality(all) < MaxTopics THEN Cardinality(all) ELSE MaxTopics
    IN  {S \in kSubset(most, all) :
            \A n \in S, m \in all \ S : Weight(t, n, word) >= Weight(t, m, word)}
TopicPaths(t) ==
    FoldSet(LAMBDA word, fs : {f @@ (word :> S) : f \in fs, S \in TopicChoices(t, word)},
            {<<>>}, Words(t))

\* The weights of the nodes of a word, the heaviest node's is 1.0.
TopicWeights(t, topics) ==
    [word \in DOMAIN topics |->
        LET nodes == SetToSeq(topics[word])
            most == Max({Weight(t, n, word) : n \in topics[word]})
        IN  [i \in DOMAIN nodes |-> (Unit * Weight(t, nodes[i], word)) \div most]]

\* build_section_map: depth-1 nodes by title, the last of equal ones, and by
\* structure number.
SectionMap(t) ==
    LET Add(map, n) == (t.nodes[n].title :> n) @@ map
    IN  [titles |-> FoldLeft(Add, <<>>, Children(t, Root)),
         numbers |-> FoldLeft(LAMBDA map, n : (t.nodes[n].num :> n) @@ map,
                              <<>>, Children(t, Root))]

\* build_summary_shortcut: the depth-1 nodes as sections, all of them.
SummaryShortcut(t) ==
    [root |-> Root,
     sections |-> [i \in DOMAIN Children(t, Root) |->
                      LET n == Children(t, Root)[i]
                      IN  [node |-> n, title |-> t.nodes[n].title, depth |-> t.nodes[n].depth]]]

\* The reasoning index with the topics that were kept.
ReasoningIndex(t, topics) ==
    [topics |-> topics, weights |-> TopicWeights(t, topics),
     sections |-> SectionMap(t), shortcut |-> SummaryShortcut(t)]

(***************************************************************************)
(* What the queries of a navigator answer.                                 *)
(***************************************************************************)
LeafCount(nav, n) == IF n \in DOMAIN nav.entries THEN nav.entries[n].leaves ELSE 0

\* ls and children_of: from the routes; the counts are of now.
Ls(t, nav, n) ==
    LET routes == RoutesOf(nav, n)
    IN  [i \in DOMAIN routes |->
            [node |-> routes[i].node, title |-> routes[i].title,
             depth |-> t.nodes[routes[i].node].depth,
             children |-> Len(Children(t, routes[i].node)),
             leaves |-> LeafCount(nav, routes[i].node)]]

\* toc: from the tree, without the root.
Toc(t) ==
    LET order == Tail(Traverse(t))
    IN  [i \in DOMAIN order |->
            [node |-> order[i], title |-> t.nodes[order[i]].title,
             depth |-> t.nodes[order[i]].depth, children |-> Len(Children(t, order[i]))]]

\* siblings and ancestors: rows as of now.  The library's iterators over
\* the siblings before and behind a node both begin with the node.
Siblings(t, n) ==
    IF n = Root THEN <<n, n>>
    ELSE LET all == Children(t, t.nodes[n].parent)
             i == CHOOSE i \in DOMAIN all : all[i] = n
         IN  Reverse(SubSeq(all, 1, i)) \o SubSeq(all, i, Len(all))
Info(t, nav, n) ==
    [node |-> n, title |-> t.nodes[n].title, depth |-> t.nodes[n].depth,
     children |-> Len(Children(t, n)), leaves |-> LeafCount(nav, n)]
SiblingInfos(t, nav, n) == [i \in DOMAIN Siblings(t, n) |-> Info(t, nav, Siblings(t, n)[i])]
AncestorInfos(t, nav, n) ==
    [i \in DOMAIN PathFromRoot(t, n) |-> Info(t, nav, PathFromRoot(t, n)[i])]

\* stats of a node
Stats(t, nav, n) ==
    [title |-> t.nodes[n].title, depth |-> t.nodes[n].depth,
     children |-> Len(Children(t, n)), leaves |-> LeafCount(nav, n),
     chars |-> Size(t.nodes[n].text), leaf |-> IsLeaf(t, n)]

\* find: nodes with the word in the title, mark or not, or in the text.
FindNodes(t, word) == {n \in Nodes(t) : Weight(t, n, word) > 0}

\* doc_card: <<>> if there is none.
DocCard(nav) == nav.card

\* topic_summary
TopicSummary(reasoning) == reasoning.shortcut.sections

\* find_section by title, 0 if there is none.
FindSection(reasoning, title) ==
    IF title \in DOMAIN reasoning.sections.titles THEN reasoning.sections.titles[title] ELSE 0

\* keyword_entries
KeywordEntries(reasoning, word) ==
    IF word \in DOMAIN reasoning.topics THEN reasoning.topics[word] ELSE {}

(***************************************************************************)
(* resolve_target_extended.  A target is [title, num]: what is typed, and  *)
(* the number it is, 0 if it is none; a number is contained in the title   *)
(* of the part it numbers.                                                 *)
(***************************************************************************)
TitleHas(title, target) ==
    IF target.num # 0 THEN title.part = target.num
    ELSE /\ title.name = target.title.name
         /\ target.title.part \in {0, title.part}
         /\ target.title.mark \in {"no", title.mark}

ResolveTarget(target, nav, cur) ==
    LET routes == RoutesOf(nav, cur)
        exact == SelectSeq(routes, LAMBDA r : target.num = 0 /\ r.title = target.title)
        within == SelectSeq(routes, LAMBDA r : TitleHas(r.title, target))
    IN  IF exact # <<>> THEN exact[1].node
        ELSE IF within # <<>> THEN within[1].node
        ELSE IF target.num \in DOMAIN routes THEN routes[target.num].node
        ELSE 0

\* search_descendants takes from the end of its queue.
SearchDescendants(target, start, t) ==
    LET Kids(n) == Children(t, n)
        Hit(n) == SelectSeq(Kids(n), LAMBDA c : TitleHas(t.nodes[c].title, target))
        walk[k \in 0..Len(t.nodes)] ==
            IF k = 0 THEN [queue |-> <<[node |-> start, depth |-> 0]>>, found |-> 0]
            ELSE LET w == walk[k - 1]
                     top == Last(w.queue)
                 IN  IF w.queue = <<>> \/ w.found # 0 THEN w
                     ELSE IF top.depth >= SearchDepth THEN [w EXCEPT !.queue = Front(@)]
                     ELSE IF Hit(top.node) # <<>> THEN [w EXCEPT !.found = Hit(top.node)[1]]
                     ELSE [w EXCEPT !.queue = Front(@) \o
                              [i \in DOMAIN Kids(top.node) |->
                                  [node |-> Kids(top.node)[i], depth |-> top.depth + 1]]]
    IN  walk[Len(t.nodes)].found

ResolveTargetExtended(target, nav, cur, t) ==
    LET kids == SelectSeq(Children(t, cur), LAMBDA c : TitleHas(t.nodes[c].title, target))
    IN  IF ResolveTarget(target, nav, cur) # 0 THEN ResolveTarget(target, nav, cur)
        ELSE IF kids # <<>> THEN Head(kids)
        ELSE SearchDescendants(target, cur, t)
=============================================================================
