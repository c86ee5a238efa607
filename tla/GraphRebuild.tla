----------------------------- MODULE GraphRebuild -----------------------------
(***************************************************************************)
(* From compiled documents to the graph: some source of a compile ended    *)
(* with a document, and rebuild_graph of the engine builds the graph of    *)
(* the documents stored.  The document compiled here, unless it failed,    *)
(* brings the topics of its own reasoning index, the others any of Topics. *)
(***************************************************************************)
EXTENDS Navigator, CrossGraph

CONSTANTS
    Compiled,  \* the id the document compiled here has
    Rebuilt    \* bound: sources and options whose first version is followed by
               \* a rebuild

ASSUME CompiledAssumption == Compiled \in Doc

RebuildInit == NavInit /\ Init

\* The compile is over, and a rebuild is started in the background.
StartRebuild ==
    /\ stage \in {"done", "failed"} /\ stage' = "rebuild"
    /\ old = NoOld /\ <<source, opts>> \in Rebuilt
    /\ UNCHANGED <<source, opts, raw, tree, index, derived, old, navVars, vars>>

\* What all_topic_entries of a document that is loaded gives.
TopicsOf(d) ==
    IF d = Compiled /\ raw # <<>> THEN {index.reasoning.weights} ELSE Topics

\* rebuild_graph, and the next one after it.
Rebuild ==
    /\ stage = "rebuild" /\ UNCHANGED <<docVars, navVars>>
    /\ \/ \E d \in Doc : \E topics \in TopicsOf(d) : AddDocument(d, topics)
       \/ Collected \/ AddNode \/ ComputeEdges \/ TrimEdges \/ NewBuilder

RebuildNext ==
    \/ NavNext /\ UNCHANGED vars
    \/ StartRebuild
    \/ Rebuild

RebuildSpec == RebuildInit /\ [][RebuildNext]_<<allVars, vars>>
=============================================================================
