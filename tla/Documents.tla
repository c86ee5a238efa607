------------------------------ MODULE Documents ------------------------------
(***************************************************************************)
(* What a compile makes of a source: raw nodes, the tree, its two indices, *)
(* and the tree again, pass after pass.  A compiled document is navigated  *)
(* (Navigator), or compiled again from an edited source and compared.      *)
(*                                                                         *)
(* The order of the passes, and which pass of a group may write the tree,  *)
(* is what Pipeline models: split if it is registered, else enrich.  Where *)
(* passes are registered one behind the other each writes the tree, and    *)
(* the indices that readers of one group derive are kept.                  *)
(***************************************************************************)
EXTENDS MarkdownParser, TreePasses, NavigatorQueries, DerivedIndices, ChangeDetection

CONSTANTS
    Sources,    \* what a source may be: blocks of Markdown, or raw nodes
    Edits,      \* pairs of a source and what it is edited into
    Options     \* thinning, writer ("split", "enrich", or "each" if passes are
                \* alone in their groups) and split's enabled

ASSUME SourcesAssumption ==
    \A s \in Sources \cup {e[2] : e \in Edits} : IsSeq(s.blocks) /\ IsRaw(s.nodes)
ASSUME OptionsAssumption == \A o \in Options : o.thinning \in {"off", "drop", "merge"}

VARIABLES
    source, opts,
    raw,        \* the raw nodes
    stage,      \* the pass that runs next
    tree,
    index,      \* navigation and reasoning index
    derived,    \* what the other passes derive, and what validate warned of
    old         \* the tree of the version before, if there is one

docVars == <<source, opts, raw, stage, tree, index, derived, old>>

NoTree == NewTree(Title(""))
NoIndex == [nav |-> NavIndex(NoTree), reasoning |-> ReasoningIndex(NoTree, <<>>)]
NothingDerived ==
    [warnings |-> {}, overlaps |-> {}, chains |-> <<>>, intents |-> <<>>,
     concepts |-> <<>>, routes |-> <<>>, scores |-> <<>>]
NoOld == <<>>

DocInit ==
    /\ source \in Sources /\ opts \in Options
    /\ raw = <<>> /\ stage = "parse" /\ tree = NoTree /\ index = NoIndex
    /\ derived = NothingDerived /\ old = NoOld

\* parse: pre-parsed nodes are taken as they are.
Parse ==
    /\ stage = "parse" /\ stage' = "build"
    /\ raw' = IF source.format = "nodes" THEN source.nodes ELSE ExtractNodes(source.blocks)
    /\ UNCHANGED <<source, opts, tree, index, derived, old>>

\* build: without raw nodes there is no tree, and enrich fails.
Build ==
    /\ stage = "build"
    /\ stage' = IF raw = <<>> THEN "failed" ELSE "edit"
    /\ tree' = IF raw = <<>> THEN tree
               ELSE AssignIds(BuildTree(Kept(raw, opts.thinning), source.name))
    /\ UNCHANGED <<source, opts, raw, index, derived, old>>

\* enhance: what it asks of a model for an inner node comes with a question
\* and a tag, its title.  It asks for none of them or for all.
Annotated(t, S) ==
    [t EXCEPT !.nodes = [n \in DOMAIN @ |->
        IF n \in S THEN [@[n] EXCEPT !.hints = 1, !.tags = {t.nodes[n].title.name}] ELSE @[n]]]

\* split, enhance and enrich: of one group the edits of one are kept.  Before
\* them validate looks at the tree.
EditTree ==
    /\ stage = "edit" /\ stage' = "index"
    /\ LET split == IF opts.split THEN SplitTree(tree) ELSE tree
           inner == {n \in Nodes(split) : ~IsLeaf(split, n)}
       IN  CASE opts.writer = "each" ->
                    /\ \E S \in {{}, inner} : tree' = Enrich(Annotated(split, S))
                    /\ derived' = [derived EXCEPT !.warnings = Warnings(tree)]
             [] opts.writer = "enrich" -> tree' = Enrich(tree) /\ UNCHANGED derived
             [] OTHER -> tree' = split /\ UNCHANGED derived
    /\ UNCHANGED <<source, opts, raw, index, old>>

\* reasoning_index and navigation_index, and the passes that derive from
\* them and from the tree: concept_extraction, route, chain, overlap, score.
Index ==
    /\ stage = "index" /\ stage' = "optimize"
    /\ \E topics \in TopicPaths(tree) :
          /\ index' = [nav |-> NavIndex(tree), reasoning |-> ReasoningIndex(tree, topics)]
          /\ derived' = IF opts.writer # "each" THEN derived
                        ELSE [warnings |-> derived.warnings,
                              overlaps |-> Overlaps(tree), chains |-> Chains(tree),
                              intents |-> IntentRoutes(tree), routes |-> ConceptRoutes(tree),
                              concepts |-> Concepts(tree, topics), scores |-> Scores(tree)]
    /\ UNCHANGED <<source, opts, raw, tree, old>>

OptimizeTree ==
    /\ stage = "optimize" /\ stage' = "verify"
    /\ tree' = Optimize(tree)
    /\ UNCHANGED <<source, opts, raw, index, derived, old>>

\* verify fails a compile without a tree; else it only warns.
Verify ==
    /\ stage = "verify" /\ stage' = IF Len(tree.nodes) = 0 THEN "failed" ELSE "done"
    /\ UNCHANGED <<source, opts, raw, tree, index, derived, old>>

\* An edited source is compiled as the next version.
Recompile ==
    /\ stage = "done" /\ old = NoOld
    /\ \E e \in Edits : e[1] = source /\ source' = e[2]
    /\ old' = <<tree>> /\ stage' = "parse" /\ raw' = <<>> /\ tree' = NoTree
    /\ index' = NoIndex /\ derived' = NothingDerived
    /\ UNCHANGED opts

Compile == Parse \/ Build \/ EditTree \/ Index \/ OptimizeTree \/ Verify \/ Recompile

(***************************************************************************)
(* Properties.                                                             *)
(***************************************************************************)
\* What ls, called again and again from the root, leads to.
Reachable ==
    LET from[k \in 0..Len(tree.nodes)] ==
            IF k = 0 THEN {Root}
            ELSE from[k - 1] \cup
                 UNION {{row.node : row \in ToSet(Ls(tree, index.nav, n))} : n \in from[k - 1]}
    IN  from[Len(tree.nodes)]

\* The cached leaves are the nodes without children, each once, and those a
\* loaded tree walks to; the depths kept with the nodes are those of the
\* tree; a parent's pages span its children's, all the way up, and so the node
\* found for a page, by the index or by a walk, is below all others that have
\* it or beside them (tree.rs, enrich.rs).
TreeConsistent ==
    /\ ToSet(tree.leaves) = ToSet(LeavesOnLoad(tree))
    /\ IsInjective(tree.leaves)
    /\ MaxDepthOf(tree) = Max({tree.nodes[n].depth : n \in Nodes(tree)})
    /\ \A page \in 1..4 :
          LET having == NodesByPageRange(tree, page, page)
          IN  /\ (FindByPage(tree, page) = {}) <=> (having = {})
              /\ \A n \in FindByPage(tree, page) \cup FindByPageWalk(tree, page) :
                    n \in having /\ Subtree(tree, n) \cap having = {n}
    /\ opts.writer # "split" =>
         \A n \in Nodes(tree) : \A m \in Subtree(tree, n) :
            tree.nodes[m].pages # <<>> => /\ Covers(tree.nodes[n].pages, tree.nodes[m].pages[1])
                                          /\ Covers(tree.nodes[n].pages, tree.nodes[m].pages[2])

\* The indices are built before optimize changes the tree, and queries of
\* both still agree: ls lists the children toc has there, with the leaves
\* they have now, as many as stats counts; the other children of its parent
\* are the rows siblings has for a node, whether it lists the node too or not;
\* ancestors begins at the root, ends in the node, and by ls each of them leads
\* to the next, whether the node comes twice or not; a node looked up by
\* keyword has the word, or was merged into the node before it which has; a
\* section looked up by its title is one below the root that has it; the card
\* lists what ls of the root does, and counts the leaves of the tree
\* (navigation.rs, reasoning.rs, optimize.rs).
QueriesAgree ==
    LET Leaves(n) == {l \in ToSet(tree.leaves) : l \in Subtree(tree, n)}
        Before(n) == LET kids == Children(tree, tree.nodes[n].parent)
                     IN  {kids[i] : i \in {i \in DOMAIN kids : i < Len(kids) /\ kids[i + 1] = n}}
        Others(n, rows) == {[row EXCEPT !.title.mark = "no"] :
                               row \in {row \in ToSet(rows) : row.node # n}}
        Listed(n) == {<<row.node, row.depth, row.children>> :
                         row \in ToSet(Ls(tree, index.nav, n))}
    IN  /\ \A n \in Nodes(tree) :
              Listed(n) = {<<row.node, row.depth, row.children>> : row \in
                              {row \in ToSet(Toc(tree)) : tree.nodes[row.node].parent = n}}
        /\ \A n \in Nodes(tree) : \A row \in ToSet(Ls(tree, index.nav, n)) :
              row.leaves = IF IsLeaf(tree, row.node) THEN 0 ELSE Cardinality(Leaves(row.node))
        /\ \A n \in Nodes(tree) : Stats(tree, index.nav, n).children = Len(Ls(tree, index.nav, n))
        /\ \A n \in Nodes(tree) \ {Root} :
              Others(n, SiblingInfos(tree, index.nav, n))
                  = Others(n, Ls(tree, index.nav, tree.nodes[n].parent))
        /\ \A n \in Nodes(tree) :
              LET infos == AncestorInfos(tree, index.nav, n)
                  path == [i \in DOMAIN infos |-> infos[i].node]
              IN  /\ Head(path) = Root /\ Last(path) = n
                  /\ \A i \in 1..(Len(path) - 1) :
                        \/ path[i] = n /\ path[i + 1] = n
                        \/ path[i + 1] \in {row.node : row \in ToSet(Ls(tree, index.nav, path[i]))}
        /\ \A word \in Words(tree) : \A n \in KeywordEntries(index.reasoning, word) :
              \/ n \in FindNodes(tree, word)
              \/ tree.nodes[n].title.mark = "merged"
                     /\ Before(n) \cap FindNodes(tree, word) # {}
        /\ \A section \in ToSet(TopicSummary(index.reasoning)) :
              LET plain == section.title
                  m == FindSection(index.reasoning, plain)
              IN  /\ m \in ToSet(Children(tree, Root))
                  /\ [tree.nodes[m].title EXCEPT !.mark = "no"] = plain
        /\ \A card \in ToSet(DocCard(index.nav)) :
              /\ card.leaves = Len(tree.leaves)
              /\ [i \in DOMAIN card.sections |-> card.sections[i].title]
                     = LET rows == Ls(tree, index.nav, Root)
                       IN  [i \in DOMAIN rows |-> rows[i].title]


\* search, find, grep and head agree about a word: search returns nodes that
\* find lists, each once, all of them if they are within its limit; grep from
\* a node lists what grep_node lists below it, unless it is full, and from the
\* root misses no text; a line it names is among the first ones head shows, if
\* so many are asked for, and one wc counted. (navigator_search.rs,
\* navigator.rs).
SearchesAgree ==
    \A word \in Words(tree) :
        LET hits == Search(tree, word, 0)
            having == FindNodes(tree, word)
            Row(n) == GrepNode(tree, n, word)
            Lines(n) == {row.line : row \in ToSet(Row(n))}
            Text(n) == tree.nodes[n].text
        IN  /\ IsInjective(hits) /\ ToSet(hits) \subseteq having
            /\ Len(hits) = Min({SearchLimit, Cardinality(having)})
            /\ Grep(tree, Root, word) = <<>> =>
                  \A n \in having : tree.nodes[n].title.name = word
            /\ \A n \in Nodes(tree) :
                  LET rows == Grep(tree, n, word)
                  IN  Len(rows) < MaxMatches =>
                          ToSet(rows) = UNION {ToSet(Row(m)) : m \in Subtree(tree, n)}
            /\ \A n \in Nodes(tree) : \A k \in 1..LineCount(Text(n)) :
                  (\E line \in Lines(n) : line <= k)
                      <=> word \in {p[2] : p \in ToSet(HeadLines(Text(n), k).shown)}
            /\ \A n \in Nodes(tree) : \A line \in Lines(n) : line <= WordCount(Text(n)).lines

\* Of two similar nodes each is similar to the other by the same words, and
\* related_sections leads to it from any of them (navigator_search.rs).
SimilarAgree ==
    LET Near(n) == SimilarNodes(tree, index.reasoning.topics, n)
    IN  \A n \in Nodes(tree) : \A s \in Near(n) :
            /\ [node |-> n, words |-> s.words] \in Near(s.node)
            /\ s.node \in RelatedSections(index.reasoning, s.words)

\* What was derived before optimize still leads somewhere: there is a chain
\* for each reference that resolves, from the node that has it, or had it
\* until its text was merged into the node before, and no other, and it is the
\* one children_with_refs leads along; routes from a node lead to what ls
\* lists, those for a concept to each node tagged with it; a text validate warned of is found to
\* overlap, from both sides; a leaf with text has a score, and one with a
\* score has text unless it was merged (chain.rs, route.rs, overlap.rs,
\* score.rs).
DerivedLead ==
    LET Merged(n) == tree.nodes[n].title.mark = "merged"
        NextTo(n) == LET kids == Children(tree, tree.nodes[n].parent)
                     IN  {kids[i] : i \in {i \in DOMAIN kids : i > 1 /\ kids[i - 1] = n}}
        From(n) == {n} \cup (IF n = Root THEN {} ELSE {m \in NextTo(n) : Merged(m)})
        Cited(n) == {Resolve(tree, r) :
                        r \in ToSet(ExtractReferences(tree.nodes[n].text))} \ {0}
        Leads == {<<c.premise, c.conclusion>> : c \in ToSet(derived.chains)}
        HasScore == DOMAIN derived.scores
    IN  /\ \A n \in Nodes(tree) : \A to \in Cited(n) : \E m \in From(n) : <<m, to>> \in Leads
        /\ \A lead \in Leads : \E n \in Nodes(tree) : lead[1] \in From(n) /\ lead[2] \in Cited(n)
        /\ \A lead \in Leads : lead[2] \in ToSet(ChildrenWithRefs(tree, lead[1]))
        /\ \A n \in DOMAIN derived.intents :
              {r.node : r \in ToSet(derived.intents[n])}
                  = {row.node : row \in ToSet(Ls(tree, index.nav, n))}
        /\ \A r \in AllIntentRoutes(derived.intents) : r.node \in Reachable
        /\ \A n \in Nodes(tree) : \A tag \in tree.nodes[n].tags :
              n \in {r.node : r \in ToSet(RoutesForConcept(derived.routes, tag))}
        /\ "duplicates" \in derived.warnings =>
              \E n \in Nodes(tree) : \E o \in OverlapsFor(derived.overlaps, n) :
                 /\ o.type = "duplicate"
                 /\ [o EXCEPT !.a = o.b, !.b = n] \in OverlapsFor(derived.overlaps, o.b)
        /\ {l \in ToSet(tree.leaves) : tree.nodes[l].text # <<>>} \subseteq HasScore
        /\ \A n \in HasScore : IsLeaf(tree, n) /\ (tree.nodes[n].text = <<>> => Merged(n))

\* All of it, of a finished document: a tree and indices that lead nowhere
\* wrong, after build, the edits of split and enrich, indexing and optimize.
IndicesMatch ==
    stage = "done" => /\ TreeConsistent /\ QueriesAgree
                      /\ SearchesAgree /\ SimilarAgree
                      /\ opts.writer = "each" => DerivedLead

\* Unless thinning may drop text, whoever goes by ls finds all of the
\* text of the raw nodes, whatever build, split and optimize did with it; and
\* all of the source, if each of its texts is below a heading with a title and
\* preambles are kept (parser.rs, build.rs, split.rs, optimize.rs).
TextReachable ==
    stage = "done" /\ opts.thinning # "drop" =>
        LET found == UNION {Pieces(tree.nodes[n].text) : n \in Reachable}
            given == UNION {Pieces(raw[i].text) : i \in DOMAIN raw}
            Blocks == DOMAIN source.blocks
            Plain == /\ source.format = "markdown" /\ PreambleNode
                     /\ \A i \in Blocks : source.blocks[i].kind = "heading" =>
                                             source.blocks[i].name # ""
                     /\ source.blocks # <<>> /\ source.blocks[1].kind = "heading"
                     /\ source.blocks[1].level \in MinLevel..MaxLevel
        IN  /\ given \subseteq found
            /\ Plain => \A i \in Blocks : source.blocks[i].kind = "text" =>
                           source.blocks[i].piece.id \in found

\* What was made of a node is reused only for a node that says the same, as
\* does all that hangs below it: if no two nodes of a version have one title,
\* as many versions have (detector.rs, detect_changes; incremental/mod.rs,
\* compute_reusable_summaries).  The place in the document is the same too.
ReuseIsSound ==
    LET Alike(n, o) ==
            /\ tree.nodes[n].text = old[1].nodes[o].text
            /\ {tree.nodes[m].title : m \in Subtree(tree, n)}
                   = {old[1].nodes[m].title : m \in Subtree(old[1], o)}
            /\ UNION {Pieces(tree.nodes[m].text) : m \in Subtree(tree, n)}
                   = UNION {Pieces(old[1].nodes[m].text) : m \in Subtree(old[1], o)}
        Distinct(t) == Cardinality({t.nodes[n].title : n \in Nodes(t)}) = Len(t.nodes)
    IN  stage = "done" /\ old # NoOld /\ Distinct(tree) /\ Distinct(old[1]) =>
            \A p \in Reused(old[1], tree) :
                /\ Alike(p[1], p[2])
                /\ KeyOf(tree, p[1]) = KeyOf(old[1], p[2])
                      => p[1] \notin NeedReprocess(old[1], tree)
=============================================================================
