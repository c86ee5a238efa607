--------------------------- MODULE CompilerPasses ---------------------------
(***************************************************************************)
(* The passes of PipelineExecutor::with_llm: the priority each is          *)
(* registered with, the passes it depends on, what its failure means,      *)
(* whether its access pattern says it writes the tree (tree), the other    *)
(* fields its access pattern says it writes (declares), and the fields of  *)
(* the compile context its execute sets (writes).  attempts counts the     *)
(* executions the failure policy allows.                                   *)
(***************************************************************************)
EXTENDS Naturals

Fields ==
    {"raw_nodes", "tree", "description", "reasoning_index",
     "navigation_index", "concepts", "query_routes", "chain_index",
     "content_overlap", "evidence_scores"}

\* A pass with no say in the matter: depends on deps, fails the pipeline.
RequiredPass(prio, deps, writes) ==
    [prio |-> prio, deps |-> deps, optional |-> FALSE, attempts |-> 1,
     tree |-> FALSE, declares |-> {}, writes |-> writes]

\* An optional pass (is_optional, policy Skip) that declares what it writes.
OptionalPass(prio, deps, declares) ==
    [RequiredPass(prio, deps, declares) EXCEPT !.optional = TRUE,
                                           !.declares = declares]

ParsePass == RequiredPass(10, {}, {"raw_nodes", "description"})

\* build takes the raw nodes out of the context.
BuildPass == RequiredPass(20, {"parse"}, {"tree", "raw_nodes"})

ValidatePass == OptionalPass(22, {"build"}, {})

SplitPass ==
    [OptionalPass(25, {"build"}, {}) EXCEPT !.tree = TRUE, !.writes = {"tree"}]

\* enhance writes summaries into the tree and declares nothing; its policy
\* is Retry with two attempts, whatever is_optional says.
EnhancePass == [RequiredPass(30, {"build"}, {"tree"}) EXCEPT !.attempts = 2]

\* Without a root summary enrich leaves the description as it is.
EnrichPass ==
    [RequiredPass(40, {"build"}, {"tree"}) EXCEPT !.tree = TRUE,
                                              !.declares = {"description"}]

ReasoningPass == OptionalPass(45, {"enrich"}, {"reasoning_index"})

ConceptPass == OptionalPass(47, {"reasoning_index"}, {"concepts"})

NavigationPass == OptionalPass(50, {"enrich"}, {"navigation_index"})

RoutePass == OptionalPass(52, {"navigation_index"}, {"query_routes"})

ChainPass == OptionalPass(54, {"enrich"}, {"chain_index"})

VerifyPass == RequiredPass(55, {"concept_extraction"}, {})

OverlapPass == OptionalPass(56, {"build"}, {"content_overlap"})

ScorePass == OptionalPass(58, {"enrich"}, {"evidence_scores"})

OptimizePass ==
    [OptionalPass(60, {"enrich", "navigation_index"}, {})
        EXCEPT !.tree = TRUE, !.writes = {"tree"}]

WithLlm ==
    [parse |-> ParsePass, build |-> BuildPass, validate |-> ValidatePass,
     split |-> SplitPass, enhance |-> EnhancePass, enrich |-> EnrichPass,
     reasoning_index |-> ReasoningPass, concept_extraction |-> ConceptPass,
     navigation_index |-> NavigationPass, route |-> RoutePass,
     chain |-> ChainPass, verify |-> VerifyPass, overlap |-> OverlapPass,
     score |-> ScorePass, optimize |-> OptimizePass]

\* PipelineExecutor::new: the same without enhance.
WithoutLlm == [p \in DOMAIN WithLlm \ {"enhance"} |-> WithLlm[p]]

\* What merge_reader_outputs copies from a reader's context, if declared.
MergedFields == {"reasoning_index", "navigation_index", "description"}

\* What a checkpoint keeps of the context.
CheckpointFields == {"raw_nodes", "tree", "description"}
=============================================================================
