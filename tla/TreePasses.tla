----------------------------- MODULE TreePasses -----------------------------
(***************************************************************************)
(* What the passes of a compile do to the raw nodes and to the tree:       *)
(* thinning and build, split, the page ranges and references of enrich,    *)
(* and optimize.  Summaries are left out: what enhance writes does not     *)
(* reach the tree these passes see (see OutputsMergedBack of Pipeline).    *)
(***************************************************************************)
EXTENDS DocumentTree

CONSTANTS
    Thin,         \* thinning.threshold
    MaxTokens,    \* split.max_tokens_per_node
    Small         \* optimization.merge_leaf_threshold

(***************************************************************************)
(* build.  Positions of raw nodes stand for the nodes.                     *)
(***************************************************************************)
\* Raw nodes as parsers make them; a level is a usize.
IsRaw(raw) ==
    /\ IsSeq(raw)
    /\ \A i \in DOMAIN raw :
          /\ DOMAIN raw[i] = {"title", "level", "text", "page", "tokens"}
          /\ raw[i].level \in Nat /\ IsText(raw[i].text)

\* find_all_children_indices: what follows, up to the next node that is not
\* deeper; find_direct_children_indices: those exactly one level down.
Below(raw, i) ==
    {j \in (i + 1)..Len(raw) : \A k \in (i + 1)..j : raw[k].level > raw[i].level}
DirectlyBelow(raw, i) == {j \in Below(raw, i) : raw[j].level = raw[i].level + 1}

\* calculate_total_tokens, from the last node to the first: the totals of
\* all that is below count, so what is deep counts several times.
Totals(raw) ==
    LET total[i \in DOMAIN raw] ==
            raw[i].tokens + MapThenSumSet(LAMBDA j : total[j], Below(raw, i))
    IN  total

\* Mutant: only the nodes exactly one level down give their text.
MergedTextDirect(raw, i) ==
    LET joined[k \in 0..(Len(raw) - i)] ==
            IF k = 0 THEN raw[i].text
            ELSE IF i + k \in DirectlyBelow(raw, i) THEN Join(joined[k - 1], raw[i + k].text)
            ELSE joined[k - 1]
    IN  joined[Len(raw) - i]

\* apply_thinning, from the last node to the first: a node whose total is
\* below the threshold loses what is below it, and with merge takes its text.
MergedText(raw, i) ==
    LET joined[k \in 0..(Len(raw) - i)] ==
            IF k = 0 THEN raw[i].text
            ELSE IF i + k \in Below(raw, i) THEN Join(joined[k - 1], raw[i + k].text)
            ELSE joined[k - 1]
    IN  joined[Len(raw) - i]
ThinNode(s, i, total, merge) ==
    IF i \notin s.keep \/ total[i] >= Thin THEN s
    ELSE [raw |-> IF merge THEN [s.raw EXCEPT ![i].text = MergedText(s.raw, i)] ELSE s.raw,
          keep |-> s.keep \ Below(s.raw, i)]
Thinned(raw, merge) ==
    LET done[k \in 0..Len(raw)] ==
            IF k = 0 THEN [raw |-> raw, keep |-> DOMAIN raw]
            ELSE ThinNode(done[k - 1], Len(raw) + 1 - k, Totals(raw), merge)
    IN  done[Len(raw)]

\* ensure_min_children: a node all of whose direct children went keeps the
\* one with the largest total, the last of several.
Restored(raw, keep) ==
    LET total == Totals(raw)
        Best(S, j) == \A k \in S : total[k] < total[j] \/ (total[k] = total[j] /\ k <= j)
    IN  {j \in DOMAIN raw : \E i \in DOMAIN raw :
            LET S == DirectlyBelow(raw, i) IN j \in S /\ S \cap keep = {} /\ Best(S, j)}

\* thinning is "off", "drop" or "merge" (merge_content).
Kept(raw, thinning) ==
    IF thinning = "off" THEN raw
    ELSE LET s == Thinned(raw, thinning = "merge")
         IN  At(s.raw, s.keep \cup Restored(raw, s.keep))

\* build_tree: last[l] is the node of level l a deeper one hangs below, 0
\* if there is none.  A node hangs below the closest lower level.
PlaceNode(s, r) ==
    LET lower == {l \in DOMAIN s.last : l < r.level /\ s.last[l] # 0}
        parent == IF lower = {} THEN Root ELSE s.last[Max(lower)]
        grown == AddChild(s.tree, parent, r.title, r.text)
        n == Len(grown.nodes)
    IN  [tree |-> [grown EXCEPT
             !.nodes[n].pages = IF r.page = 0 THEN <<>> ELSE <<r.page, r.page>>,
             !.nodes[n].tokens = r.tokens],
         last |-> [l \in DOMAIN s.last |->
                      IF l < r.level THEN s.last[l] ELSE IF l = r.level THEN n ELSE 0]]

BuildTree(raw, name) ==
    LET levels == 0..Max({raw[i].level : i \in DOMAIN raw})
        start == [tree |-> NewTree(Title(name)),
                  last |-> [l \in levels |-> IF l = 0 THEN Root ELSE 0]]
        placed[k \in 0..Len(raw)] ==
            IF k = 0 THEN start ELSE PlaceNode(placed[k - 1], raw[k])
    IN  placed[Len(raw)].tree

\* assign_node_ids: the place in the traversal.
AssignIds(t) ==
    [t EXCEPT !.nodes = [n \in DOMAIN @ |->
        [@[n] EXCEPT !.key = CHOOSE k \in 1..Len(t.nodes) : Traverse(t)[k] = n]]]

(***************************************************************************)
(* split.  A chunk is a run of pieces, a split point the place of the      *)
(* piece a chunk begins with.                                              *)
(***************************************************************************)
\* Places of P whose chunk so far is large enough; begin[i] is where the
\* chunk begins that has piece i.
LargeChunks(text, P) ==
    LET begin[i \in DOMAIN text] ==
            IF i = 1 THEN 1
            ELSE IF i \in P /\ Size(SubSeq(text, begin[i - 1], i - 1)) >= MaxTokens \div 2
                 THEN i ELSE begin[i - 1]
    IN  {i \in P : begin[i] = i}

\* Every MaxTokens from the start, at the next newline.
AtNewLines(text) ==
    LET Before(i) == Size(SubSeq(text, 1, i - 1))
        Lines == {i \in DOMAIN text : text[i].line /\ i > 1}
        offsets == {k * MaxTokens : k \in 1..((Size(text) - 1) \div MaxTokens)}
    IN  {i \in Lines : \E o \in offsets :
            Before(i) >= o /\ \A j \in Lines : Before(j) >= o => i <= j}

FindSplitPoints(text) ==
    LET total == Size(text)
        parts == (total + MaxTokens - 1) \div MaxTokens
        headings == LargeChunks(text, {i \in DOMAIN text :
                                          i > 1 /\ text[i].line /\ text[i].heading})
        paragraphs == LargeChunks(text, {i \in DOMAIN text : i > 1 /\ text[i].para})
    IN  IF total <= MaxTokens THEN {}
        ELSE IF headings # {} /\ total \div (Cardinality(headings) + 1) <= 2 * (total \div parts)
             THEN headings
        ELSE IF paragraphs # {} THEN paragraphs
        ELSE AtNewLines(text)

\* The chunks by the places they begin at.
Chunks(text, points) ==
    [i \in {1} \cup points |->
        SubSeq(text, i, Min({j - 1 : j \in {j \in points : j > i}} \cup {Len(text)}))]

\* split_leaf: the chunks become children and the leaf is left empty.
ChunkTitle(title, chunk, k) ==
    IF chunk[1].heading THEN Title(chunk[1].id) ELSE [title EXCEPT !.part = k]
AddChunk(t, n, title, chunk) ==
    LET grown == AddChild(t, n, title, chunk)
    IN  [grown EXCEPT !.nodes[Len(grown.nodes)].tokens = Size(chunk)]
SplitLeaf(t, n) ==
    LET text == t.nodes[n].text
        points == FindSplitPoints(text)
        chunks == Chunks(text, points)
        ChunkAt(i) == ChunkTitle(t.nodes[n].title, chunks[i],
                                 Cardinality(UpTo(DOMAIN chunks, i)))
        split[i \in 0..Len(text)] ==
            IF i = 0 THEN t
            ELSE IF i \in DOMAIN chunks THEN AddChunk(split[i - 1], n, ChunkAt(i), chunks[i])
            ELSE split[i - 1]
    IN  IF points = {} THEN t
        ELSE [split[Len(text)] EXCEPT !.nodes[n].text = <<>>, !.nodes[n].tokens = 0]

\* split_tree: the leaves there were at the start.  A node's own count
\* decides, and the size of its text only if the count is zero.
SplitTree(t) ==
    LET Tokens(s, n) == IF s.nodes[n].tokens > 0 THEN s.nodes[n].tokens
                        ELSE Size(s.nodes[n].text)
        after[i \in 0..Len(t.leaves)] ==
            IF i = 0 THEN t
            ELSE IF Tokens(after[i - 1], t.leaves[i]) > MaxTokens
                 THEN SplitLeaf(after[i - 1], t.leaves[i]) ELSE after[i - 1]
    IN  after[Len(t.leaves)]

(***************************************************************************)
(* enrich.                                                                 *)
(***************************************************************************)
\* propagate_page_ranges: a parent gets the hull of its children's ranges,
\* if any has one, and loses its own.  Children have larger numbers.
PageRanges(t) ==
    LET n == Len(t.nodes)
        range[k \in Nodes(t)] ==
            LET below == {range[c] : c \in ToSet(Children(t, k))} \ {<<>>}
            IN  IF below = {} THEN t.nodes[k].pages
                ELSE <<Min({r[1] : r \in below}), Max({r[2] : r \in below})>>
    IN  [t EXCEPT !.nodes = [k \in 1..n |-> [@[k] EXCEPT !.pages = range[k]]]]

\* resolve_reference: a section by its structure number (the partial match
\* behind it finds nothing more, as numbers have no gaps), an appendix, table
\* or figure by the first title, a page by the page index.  0 is no target.
Resolve(t, r) ==
    LET titled == SelectSeq(Traverse(t), LAMBDA n : t.nodes[n].title.name = r.target)
        found == CASE r.kind = "section" -> FindByStructure(t, r.target)
                   [] r.kind = "title" -> IF titled = <<>> THEN {} ELSE {Head(titled)}
                   [] r.kind = "page" -> FindByPage(t, r.target)
                   [] OTHER -> {}
    IN  IF found = {} THEN 0 ELSE Max(found)

\* extract: the references in a text, of all kinds, by their place.
ExtractReferences(text) == FoldLeft(LAMBDA acc, p : acc \o p.refs, <<>>, text)

ResolveReferences(t) ==
    LET Resolved(refs) == [i \in DOMAIN refs |->
            [kind |-> refs[i].kind, target |-> refs[i].target, node |-> Resolve(t, refs[i])]]
    IN  [t EXCEPT !.nodes = [n \in DOMAIN @ |->
            [@[n] EXCEPT !.refs = Resolved(ExtractReferences(t.nodes[n].text))]]]

Enrich(t) == ResolveReferences(PageRanges(t))

(***************************************************************************)
(* optimize.                                                               *)
(***************************************************************************)
\* Of the children of a node, those that take in the next: it and the next
\* are leaves and small; a pair is behind the one before it.
Takers(t, parent) ==
    LET kids == Children(t, parent)
        Candidate(n) == IsLeaf(t, n) /\ t.nodes[n].tokens \in 1..(Small - 1)
        takes[i \in DOMAIN kids] ==
            /\ i < Len(kids) /\ Candidate(kids[i]) /\ Candidate(kids[i + 1])
            /\ i > 1 => ~takes[i - 1]
    IN  {kids[i] : i \in {i \in DOMAIN kids : takes[i]}}
NextSibling(t, n) ==
    LET kids == Children(t, t.nodes[n].parent)
    IN  kids[1 + CHOOSE i \in DOMAIN kids : kids[i] = n]

\* The next sibling's text goes behind the node's, under its title; the
\* sibling stays as an empty leaf with a mark.
MergeNext(node, next) ==
    LET heading == [id |-> next.title.name, heading |-> TRUE, line |-> TRUE,
                    para |-> TRUE, size |-> 1, refs |-> <<>>]
    IN  [node EXCEPT !.text = IF next.text = <<>> THEN @
                              ELSE Join(@, <<heading>> \o NewLine(next.text, FALSE)),
                     !.tokens = @ + next.tokens]
MergeSmallLeaves(t) ==
    LET takers == UNION {Takers(t, n) : n \in Nodes(t)}
        taken == {NextSibling(t, n) : n \in takers}
    IN  [t EXCEPT !.nodes = [n \in DOMAIN @ |->
            IF n \in takers THEN MergeNext(@[n], t.nodes[NextSibling(t, n)])
            ELSE IF n \in taken
            THEN [@[n] EXCEPT !.text = <<>>, !.tokens = 0, !.title.mark = "merged"]
            ELSE @[n]]]

\* remove_empty_nodes marks them only.
MarkEmpty(t) ==
    [t EXCEPT !.nodes = [n \in DOMAIN @ |->
        IF n # Root /\ Len(Children(t, n)) = 1 /\ t.nodes[n].text = <<>>
        THEN [@[n] EXCEPT !.title.mark = "empty"] ELSE @[n]]]

\* Mutant: what was merged is taken out of its parent's list of children.
OptimizeRemoving(t) ==
    LET merged == MarkEmpty(MergeSmallLeaves(t))
        Left(n) == merged.nodes[n].title.mark # "merged"
    IN  [merged EXCEPT !.nodes = [n \in DOMAIN @ |->
            [@[n] EXCEPT !.kids = SelectSeq(@, Left)]]]

Optimize(t) == MarkEmpty(MergeSmallLeaves(t))
=============================================================================
