------------------------------ MODULE Navigator ------------------------------
(***************************************************************************)
(* DocumentNavigator: a cursor in a compiled document, the breadcrumb that *)
(* pwd shows, the history back goes through, and the evidence collected.   *)
(***************************************************************************)
EXTENDS Documents

CONSTANTS
    Navigated,   \* bound: sources and options whose first version is navigated
    MaxMoves     \* bound: operations of a navigator

VARIABLES
    cursor,      \* 0 until a navigator is open
    breadcrumb, history,
    visited, collected, evidence,
    moves        \* operations so far

navVars == <<cursor, breadcrumb, history, visited, collected, evidence, moves>>
allVars == <<docVars, navVars>>

NavInit ==
    /\ DocInit
    /\ cursor = 0 /\ breadcrumb = <<>> /\ history = <<>>
    /\ visited = {} /\ collected = {} /\ evidence = <<>> /\ moves = 0

\* DocumentNavigator::new
Open ==
    /\ stage = "done" /\ stage' = "open" /\ old = NoOld /\ <<source, opts>> \in Navigated
    /\ cursor' = Root /\ breadcrumb' = <<Title("root")>>
    /\ UNCHANGED <<source, opts, raw, tree, index, derived, old,
                   history, visited, collected, evidence, moves>>

Moving == stage = "open" /\ moves < MaxMoves /\ moves' = moves + 1 /\ UNCHANGED docVars

TitleOf(n) == tree.nodes[n].title

\* cd and cd_by_title end in the same steps.
GoTo(n) ==
    /\ visited' = visited \cup {n} /\ history' = Append(history, cursor)
    /\ cursor' = n /\ breadcrumb' = Append(breadcrumb, TitleOf(n))
    /\ UNCHANGED <<collected, evidence>>

Cd(n) == Moving /\ n \in Nodes(tree) /\ GoTo(n)

CdByTitle(target) ==
    /\ Moving
    /\ LET n == ResolveTargetExtended(target, index.nav, cursor, tree)
       IN  n # 0 /\ GoTo(n)

\* cd_up goes by the length of the breadcrumb, and leaves the history alone.
CdUp ==
    /\ Moving /\ Len(breadcrumb) > 1 /\ cursor # Root
    /\ cursor' = tree.nodes[cursor].parent /\ breadcrumb' = Front(breadcrumb)
    /\ UNCHANGED <<history, visited, collected, evidence>>

CdRoot ==
    /\ Moving
    /\ cursor' = Root /\ breadcrumb' = <<Title("root")>>
    /\ UNCHANGED <<history, visited, collected, evidence>>

\* _rebuild_breadcrumb: the path has its last node twice.
RebuildBreadcrumb(n) ==
    LET path == Tail(PathFromRoot(tree, n))
    IN  breadcrumb' = <<Title("root")>> \o [i \in DOMAIN path |-> TitleOf(path[i])]

Back ==
    /\ Moving /\ history # <<>>
    /\ cursor' = Last(history) /\ history' = Front(history)
    /\ RebuildBreadcrumb(Last(history))
    /\ UNCHANGED <<visited, collected, evidence>>

Found(n) == [node |-> n, title |-> TitleOf(n), text |-> tree.nodes[n].text,
             path |-> Append(breadcrumb, TitleOf(n))]
HasText(n) == tree.nodes[n].text # <<>>

\* cat collects a node that has text, once.
Cat(n) ==
    /\ Moving /\ n \in Nodes(tree)
    /\ IF HasText(n) /\ n \notin collected
       THEN evidence' = Append(evidence, Found(n)) /\ collected' = collected \cup {n}
       ELSE UNCHANGED <<evidence, collected>>
    /\ visited' = visited \cup {n}
    /\ UNCHANGED <<cursor, breadcrumb, history>>

\* collect_evidence marks a node without text as collected too.
CollectEvidence(n) ==
    /\ Moving /\ n \in Nodes(tree) \ collected
    /\ evidence' = IF HasText(n) THEN Append(evidence, Found(n)) ELSE evidence
    /\ collected' = collected \cup {n} /\ visited' = visited \cup {n}
    /\ UNCHANGED <<cursor, breadcrumb, history>>

\* Mutant: what was collected is not forgotten.
ClearEvidenceOnly ==
    /\ Moving /\ evidence' = <<>>
    /\ UNCHANGED <<cursor, breadcrumb, history, visited, collected>>

ClearEvidence ==
    /\ Moving /\ evidence' = <<>> /\ collected' = {}
    /\ UNCHANGED <<cursor, breadcrumb, history, visited>>

\* What may be typed: a title there is, or the number of a route.
Targets ==
    {[title |-> Title(t.name), num |-> 0] : t \in {TitleOf(n) : n \in Nodes(tree)}}
        \cup {[title |-> Title(""), num |-> k] : k \in {1, 2}}

Navigate ==
    \/ \E n \in Nodes(tree) : Cd(n) \/ Cat(n) \/ CollectEvidence(n)
    \/ \E target \in Targets : CdByTitle(target)
    \/ CdUp \/ CdRoot \/ Back \/ ClearEvidence

NavNext == (Compile /\ UNCHANGED navVars) \/ Open \/ Navigate

NavSpec == NavInit /\ [][NavNext]_allVars

(***************************************************************************)
(* Properties.                                                             *)
(***************************************************************************)
\* The evidence is what the worker answers from: every node that counts as
\* collected and has text is in it, once, with the text and title it has in
\* the document, and nothing is collected that was never visited; also after
\* evidence was cleared and collected again (navigator.rs, cat,
\* collect_evidence, clear_evidence).
EvidenceIsCollected ==
    LET nodes == [i \in DOMAIN evidence |-> evidence[i].node]
    IN  /\ IsInjective(nodes)
        /\ ToSet(nodes) = {n \in collected : HasText(n)}
        /\ collected \subseteq visited
        /\ \A i \in DOMAIN evidence :
              /\ evidence[i].text = tree.nodes[nodes[i]].text
              /\ evidence[i].title = TitleOf(nodes[i])
=============================================================================
