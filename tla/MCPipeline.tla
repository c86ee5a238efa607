----------------------------- MODULE MCPipeline -----------------------------
(***************************************************************************)
(* Pipeline with passes of PipelineExecutor::with_llm, in the order and    *)
(* the groups the orchestrator computes for them, for two compiles of one  *)
(* document: a core of the passes, which has a group of each shape.        *)
(***************************************************************************)
EXTENDS Pipeline, CompilerPasses

\* One group of each shape: single, a tree writer and readers with a second
\* pass that would write the tree, readers only, single at the end.
CorePasses ==
    {"parse", "build", "split", "enhance", "enrich", "reasoning_index",
     "navigation_index", "concept_extraction", "verify", "chain", "optimize"}

PassPrio == [p \in Pass |-> WithLlm[p].prio]
PassDeps == [p \in Pass |-> WithLlm[p].deps]

ASSUME Resolves

PassOptional == {p \in Pass : WithLlm[p].optional}
PassAttempts == [p \in Pass |-> WithLlm[p].attempts]
PassTree == {p \in Pass : WithLlm[p].tree}
PassDeclares == [p \in Pass |-> WithLlm[p].declares]
PassWrites == [p \in Pass |-> WithLlm[p].writes]

\* Each compile's context has a new uuid, or all have the same id.
FreshId == [r \in 1..MaxRuns |-> r]
SameId == [r \in 1..MaxRuns |-> 1]
=============================================================================
