--------------------------- MODULE ChangeDetection ---------------------------
(***************************************************************************)
(* ChangeDetector::detect_changes on two trees, and what it lets a compile *)
(* reuse.  A fingerprint stands for what is hashed into it.                *)
(***************************************************************************)
EXTENDS DocumentTree

\* The node id build gave a node; a chunk split made has none and is known
\* by its place in the arena.
KeyOf(t, n) == IF t.nodes[n].key # 0 THEN <<"id", t.nodes[n].key>> ELSE <<"node", n>>

\* NodeFingerprint::content_changed, and subtree_changed.
ContentChanged(a, b) == a.self # b.self
SubtreeChanged(a, b) == a # b

Content(t, n) == <<t.nodes[n].title, t.nodes[n].text, t.nodes[n].key>>

\* Mutant: the children are left out of the fingerprint of the subtree.
FingerprintsFlat(t) ==
    [n \in Nodes(t) |-> [self |-> Content(t, n), below |-> <<>>]]

\* compute_node_fingerprint: the content fingerprint is self; the one of the
\* subtree takes in the children's subtrees, and a leaf has none.
Fingerprints(t) ==
    LET fp[n \in Nodes(t)] ==
            [self |-> Content(t, n),
             below |-> [i \in DOMAIN Children(t, n) |-> fp[Children(t, n)[i]]]]
    IN  fp

\* old_by_title, new_by_title: the last node of each title.
ByTitle(t) ==
    LET order == Traverse(t)
        Titled(title) == {k \in DOMAIN order : t.nodes[order[k]].title = title}
    IN  [title \in {t.nodes[n].title : n \in Nodes(t)} |-> order[Max(Titled(title))]]

DetectChanges(old, new) ==
    LET was == ByTitle(old)
        is == ByTitle(new)
        fpWas == Fingerprints(old)
        fpIs == Fingerprints(new)
        both == DOMAIN was \cap DOMAIN is
        modified == {x \in both : ContentChanged(fpIs[is[x]], fpWas[was[x]])}
    IN  [added |-> DOMAIN is \ DOMAIN was,
         removed |-> DOMAIN was \ DOMAIN is,
         modified |-> modified,
         restructured |-> {x \in both \ modified : SubtreeChanged(fpIs[is[x]], fpWas[was[x]])}]

\* get_nodes_needing_reprocess, for the same processing version.
NeedReprocess(old, new) ==
    LET fpWas == Fingerprints(old)
        fpIs == Fingerprints(new)
    IN  {n \in Nodes(new) : \A m \in Nodes(old) :
            KeyOf(old, m) = KeyOf(new, n) => fpWas[m] # fpIs[n]}

\* compute_reusable_summaries and apply_reusable_summaries: titles no change
\* names keep what was made of them; of several old nodes the last one's.
\* The pairs of new and old nodes.
Reused(old, new) ==
    LET changes == DetectChanges(old, new)
        changed == changes.added \cup changes.removed \cup changes.modified
                       \cup changes.restructured
    IN  {<<n, ByTitle(old)[new.nodes[n].title]>> :
            n \in {n \in Nodes(new) : new.nodes[n].title \in DOMAIN ByTitle(old) \ changed}}
=============================================================================
