------------------------------ MODULE Pipeline ------------------------------
(***************************************************************************)
(* PipelineOrchestrator::execute: the passes of a compile run group by     *)
(* group.  A group of one runs on the main context.  In a larger group the *)
(* first pass that declares to write the tree runs on the main context and *)
(* every other one, a reader, on a new context that has a copy of the tree *)
(* and none of the indices; when all have finished, what the readers       *)
(* declare is merged.  After each group a checkpoint is saved under the    *)
(* document id, and a later run with the same id may resume from it.       *)
(*                                                                         *)
(* A field of a context is abstracted to the set of passes whose output is *)
(* in it.  The tree is edited in place and collects them; any other field  *)
(* is assigned and holds the last one.                                     *)
(***************************************************************************)
EXTENDS PassOrder

CONSTANTS
    Optional,   \* the passes whose failure policy is Skip
    Attempts,   \* [Pass -> Nat]: executions the policy allows, 1 if no retry
    TreePass,   \* the passes that declare to write the tree
    Field,      \* fields of the compile context, "tree" among them
    Declares,   \* [Pass -> SUBSET Field]: other fields declared as written
    Writes,     \* [Pass -> SUBSET Field]: the fields execute sets
    Merged,     \* the fields merge_reader_outputs copies if declared
    Persisted,  \* the fields a checkpoint keeps
    Input,      \* what a compile is given: source, version, configuration
    MaxRuns,    \* bound: compiles of the document
    DocId,      \* [1..MaxRuns -> ids]: the id each compile gives its context
    None

ASSUME AttemptsAssumption == Attempts \in [Pass -> Nat \ {0}]
ASSUME FieldAssumption ==
    /\ "tree" \in Field \ Merged
    /\ "tree" \in Persisted
    /\ Writes \in [Pass -> SUBSET Field]
\* No two passes of a group declare a field that is merged.
ASSUME MergeAssumption ==
    /\ Merged \subseteq Field
    /\ Resolves =>
         \A p, q \in Pass : p # q /\ Level[p] = Level[q] =>
             Declares[p] \cap Declares[q] \cap Merged = {}
ASSUME RunAssumption == MaxRuns \in Nat /\ None \notin Input

VARIABLES
    phase,    \* "idle", "open", "running", "saving", "done" or "failed"
    run,      \* compiles started so far
    input,    \* what the current one was given
    level,    \* the current execution group
    st,       \* the state of each pass in the current group
    tries,    \* failed attempts of each pass of the current group
    results,  \* stage_results: "none", "success" or "failure"
    ctx,      \* the main context
    snap,     \* the copy of the tree the readers of the group were given
    ckpts     \* the checkpoint file of each document id

vars == <<phase, run, input, level, st, tries, results, ctx, snap, ckpts>>

Waiting == [p \in Pass |-> "waiting"]
NoTries == [p \in Pass |-> 0]
NoResults == [p \in Pass |-> "none"]
NoOutput == [f \in Field |-> {}]

Parallel(l) == \E p, q \in Group(l) : p # q

\* The tree writer of a parallel group, if any: the first in the order.
TreeWriter(l) ==
    {p \in Group(l) \cap TreePass :
        \A q \in Group(l) \cap TreePass : Position[p] <= Position[q]}

OnMainContext(p) == ~Parallel(Level[p]) \/ p \in TreeWriter(Level[p])
Readers(l) == {p \in Group(l) : ~OnMainContext(p)}

Ids == {DocId[r] : r \in 1..MaxRuns}
Checkpoint == [input : Input, done : SUBSET Pass, data : [Field -> SUBSET Pass]]

TypeOK ==
    /\ phase \in {"idle", "open", "running", "saving", "done", "failed"}
    /\ run \in 0..MaxRuns
    /\ input \in Input \cup {None}
    /\ level \in Nat
    /\ st \in [Pass -> {"waiting", "running", "ok", "err"}]
    /\ tries \in [Pass -> Nat]
    /\ \A p \in Pass : tries[p] < Attempts[p]
    /\ results \in [Pass -> {"none", "success", "failure"}]
    /\ ctx \in [Field -> SUBSET Pass]
    /\ snap \in SUBSET Pass
    /\ ckpts \in [Ids -> Checkpoint \cup {None}]

Init ==
    /\ phase = "idle" /\ run = 0 /\ input = None /\ level = 0
    /\ st = Waiting /\ tries = NoTries
    /\ results = NoResults
    /\ ctx = NoOutput /\ snap = {}
    /\ ckpts = [i \in Ids |-> None]

(***************************************************************************)
(* Starting a compile, from the checkpoint of its id if there is one and   *)
(* it was given the same source, version and configuration.  Passes that   *)
(* cannot be ordered are an error before anything else happens.            *)
(***************************************************************************)
ValidForResume(saved, i) == saved # None /\ saved.input = i

Start(i) ==
    LET saved == ckpts[DocId[run + 1]]
        resumes == ValidForResume(saved, i)
    IN
    /\ phase \in {"idle", "done", "failed"}
    /\ run < MaxRuns
    /\ run' = run + 1
    /\ input' = i
    /\ phase' = IF Resolves THEN "open" ELSE "failed"
    /\ level' = 0
    /\ results' = [p \in Pass |-> IF resumes /\ p \in saved.done
                                  THEN "success" ELSE "none"]
    /\ ctx' = IF resumes THEN saved.data ELSE NoOutput
    /\ st' = Waiting /\ tries' = NoTries /\ snap' = {}
    /\ UNCHANGED ckpts

\* The process dies or the compile times out.
Interrupt ==
    /\ phase \in {"open", "running", "saving"}
    /\ phase' = "idle"
    /\ UNCHANGED <<run, input, level, st, tries, results, ctx, snap, ckpts>>

(***************************************************************************)
(* A group.                                                                *)
(***************************************************************************)
HasResult(p) == results[p] # "none"

OpenGroup ==
    /\ phase = "open"
    /\ Group(level) # {}
    /\ \E p \in Group(level) : ~HasResult(p)
    /\ phase' = "running"
    /\ st' = [p \in Pass |-> IF p \in Group(level) THEN "running"
                             ELSE st[p]]
    /\ snap' = ctx["tree"]
    /\ UNCHANGED <<run, input, level, tries, results, ctx, ckpts>>

\* A group the checkpoint names entirely: a parallel one is left at once, a
\* single pass goes through the save at the end of the loop.
SkipGroup ==
    /\ phase = "open"
    /\ Group(level) # {}
    /\ \A p \in Group(level) : HasResult(p)
    /\ IF Parallel(level) THEN phase' = "open" /\ level' = level + 1
                          ELSE phase' = "saving" /\ UNCHANGED level
    /\ UNCHANGED <<run, input, st, tries, results, ctx, snap, ckpts>>

\* A context after pass p has executed on it.
Written(p, c) ==
    [f \in Field |-> IF f \notin Writes[p] THEN c[f]
                     ELSE IF f = "tree" THEN c[f] \cup {p}
                     ELSE {p}]

PassSucceeds(p) ==
    /\ phase = "running" /\ st[p] = "running"
    /\ st' = [st EXCEPT ![p] = "ok"]
    /\ ctx' = IF OnMainContext(p) THEN Written(p, ctx) ELSE ctx
    /\ UNCHANGED <<phase, run, input, level, tries, results, snap, ckpts>>

\* Mutant: attempts >= max_attempts becomes attempts > max_attempts.
PassFailsOnceMore(p) ==
    /\ phase = "running" /\ st[p] = "running"
    /\ IF tries[p] < Attempts[p]
       THEN tries' = [tries EXCEPT ![p] = @ + 1] /\ UNCHANGED st
       ELSE st' = [st EXCEPT ![p] = "err"] /\ UNCHANGED tries
    /\ UNCHANGED <<phase, run, input, level, results, ctx, snap, ckpts>>

\* Mutant: a pass that has used up its attempts starts over.
PassFailsStartsOver(p) ==
    /\ phase = "running" /\ st[p] = "running"
    /\ tries' = [tries EXCEPT ![p] = IF @ + 1 < Attempts[p] THEN @ + 1 ELSE 0]
    /\ UNCHANGED <<phase, run, input, level, st, results, ctx, snap, ckpts>>

\* Only a Retry policy executes a pass again, after a delay.
PassFails(p) ==
    /\ phase = "running" /\ st[p] = "running"
    /\ IF tries[p] + 1 < Attempts[p]
       THEN tries' = [tries EXCEPT ![p] = @ + 1] /\ UNCHANGED st
       ELSE st' = [st EXCEPT ![p] = "err"] /\ UNCHANGED tries
    /\ UNCHANGED <<phase, run, input, level, results, ctx, snap, ckpts>>

\* The context a reader leaves behind: a new one with a copy of the tree.
ReaderContext(p) ==
    LET clone == [NoOutput EXCEPT !["tree"] = snap]
    IN IF st[p] = "ok" THEN Written(p, clone) ELSE clone

\* The readers that declare f; the last of them in the order prevails.
LastDeclaring(f) ==
    LET declaring == {p \in Readers(level) : f \in Declares[p]}
    IN {p \in declaring : \A q \in declaring : Position[q] <= Position[p]}

\* Mutant: the merge also copies the tree of the last reader.
MergedContextWithTree ==
    [f \in Field |->
        IF f = "tree" /\ Readers(level) # {}
        THEN ReaderContext(CHOOSE p \in Readers(level) :
                 \A q \in Readers(level) : Position[q] <= Position[p])[f]
        ELSE IF f \in Merged /\ LastDeclaring(f) # {}
        THEN UNION {ReaderContext(p)[f] : p \in LastDeclaring(f)}
        ELSE ctx[f]]

\* Mutant: only the last reader of the group is merged.
MergedContextLastReader ==
    [f \in Field |->
        LET last == {p \in LastDeclaring(f) :
                        \A q \in Readers(level) : Position[q] <= Position[p]}
        IN IF f \in Merged /\ last # {}
           THEN UNION {ReaderContext(p)[f] : p \in last}
           ELSE ctx[f]]

\* merge_reader_outputs for all readers, failed ones included.
MergedContext ==
    [f \in Field |->
        IF f \in Merged /\ LastDeclaring(f) # {}
        THEN UNION {ReaderContext(p)[f] : p \in LastDeclaring(f)}
        ELSE ctx[f]]

Finished == \A p \in Group(level) : st[p] \in {"ok", "err"}

\* Mutant: only a group in which every pass failed stops the compile.
BlockedIfAllFailed ==
    /\ \A p \in Group(level) : st[p] = "err"
    /\ \E p \in Group(level) : p \notin Optional

Blocked == \E p \in Group(level) : st[p] = "err" /\ p \notin Optional

\* Mutant: a failed pass whose policy is Skip gets no result.
GroupCompletesOkOnly ==
    /\ phase = "running" /\ Finished /\ ~Blocked
    /\ phase' = "saving"
    /\ ctx' = MergedContext
    /\ results' = [p \in Pass |-> IF p \in Group(level) /\ st[p] = "ok"
                                  THEN "success" ELSE results[p]]
    /\ UNCHANGED <<run, input, level, st, tries, snap, ckpts>>

GroupCompletes ==
    /\ phase = "running" /\ Finished /\ ~Blocked
    /\ phase' = "saving"
    /\ ctx' = MergedContext
    /\ results' = [p \in Pass |->
                      IF p \notin Group(level) THEN results[p]
                      ELSE IF st[p] = "ok" THEN "success" ELSE "failure"]
    /\ UNCHANGED <<run, input, level, st, tries, snap, ckpts>>

\* Mutant: the checkpoint names the group that was under way.
SavedWithCurrent ==
    [ckpts EXCEPT ![DocId[run]] =
        [input |-> input,
         done |-> {p \in Pass : Level[p] <= level},
         data |-> [f \in Field |-> IF f \in Persisted THEN ctx[f] ELSE {}]]]

\* Mutant: the checkpoint names the passes that succeeded and no others.
SavedSuccesses ==
    [ckpts EXCEPT ![DocId[run]] =
        [input |-> input,
         done |-> {p \in Pass : results[p] = "success"},
         data |-> [f \in Field |-> IF f \in Persisted THEN ctx[f] ELSE {}]]]

\* A save that fails is only logged.
Saved ==
    [ckpts EXCEPT ![DocId[run]] =
        [input |-> input,
         done |-> {p \in Pass : HasResult(p)},
         data |-> [f \in Field |-> IF f \in Persisted THEN ctx[f] ELSE {}]]]

\* A required pass failed: a parallel group returns with `?`, a single pass
\* saves a checkpoint before it returns.
GroupFails ==
    /\ phase = "running" /\ Finished /\ Blocked
    /\ phase' = "failed"
    /\ ckpts' \in IF Parallel(level) THEN {ckpts} ELSE {ckpts, Saved}
    /\ UNCHANGED <<run, input, level, st, tries, results, ctx, snap>>

SaveCheckpoint ==
    /\ phase = "saving"
    /\ phase' = "open"
    /\ level' = level + 1
    /\ ckpts' \in {ckpts, Saved}
    /\ UNCHANGED <<run, input, st, tries, results, ctx, snap>>

\* All groups are done: the checkpoint is cleared, the result returned.
Finish ==
    /\ phase = "open"
    /\ Group(level) = {}
    /\ phase' = "done"
    /\ ckpts' \in {ckpts, [ckpts EXCEPT ![DocId[run]] = None]}
    /\ UNCHANGED <<run, input, level, st, tries, results, ctx, snap>>

Progress ==
    \/ OpenGroup \/ SkipGroup
    \/ \E p \in Pass : PassSucceeds(p) \/ PassFails(p)
    \/ GroupCompletes \/ GroupFails \/ SaveCheckpoint \/ Finish

Next ==
    \/ \E i \in Input : Start(i)
    \/ Interrupt
    \/ Progress

\* The runtime polls a compile until it returns, and a pass returns: all it
\* waits for are LLM calls, whose attempts are bounded (LlmExecutor).  That a
\* request is answered or fails is assumed: by default it has no timeout.
Spec == Init /\ [][Next]_vars /\ WF_vars(Progress)

(***************************************************************************)
(* Properties.                                                             *)
(***************************************************************************)
\* A pass executes only when every pass it depends on has a result, and no
\* required one of those has failed: groups are levels of the dependency
\* graph and a failed required pass stops the compile before the next group,
\* also when optional passes of its own group succeed.
DependenciesSettled ==
    \A p \in Pass : st[p] = "running" /\ phase = "running" =>
        \A d \in Deps[p] :
            /\ HasResult(d)
            /\ results[d] = "failure" => d \in Optional

\* No pass executes twice in a compile: one that has a result, from this run
\* or from the checkpoint it resumed from, is not executed again.  (A parallel
\* group with one result missing would execute all its members again.)
ExecutedOnce ==
    \A p \in Pass : phase = "running" /\ st[p] = "running" => ~HasResult(p)

\* Tree edits made on the main context are never lost to the merge of readers
\* that hold an older copy of the tree: those of a pass this compile executed
\* stay in it to the end.  (A pass it took over from a checkpoint counts as a
\* success there, and may be an optional one that failed.)
MainTreeEditsKept ==
    \A p \in Pass :
        st[p] = "ok" /\ OnMainContext(p) /\ "tree" \in Writes[p] =>
            p \in ctx["tree"]

\* What a reader declares and the merge copies is in the main context once
\* its group has completed, and nothing but it.
DeclaredOutputsMerged ==
    phase = "saving" =>
        \A p \in Readers(level) : \A f \in Declares[p] \cap Merged :
            st[p] # "waiting" /\ f \in Writes[p] =>
                (ctx[f] = {p} <=> st[p] = "ok")

\* A checkpoint is a consistent cut: with a pass it names all passes of the
\* earlier groups and of its own, and the tree it keeps has no edit of a pass
\* it does not name, and those of every required pass it names that made them
\* on the main context.
CheckpointIsConsistent ==
    \A i \in Ids : ckpts[i] # None =>
        LET done == ckpts[i].done
            tree == ckpts[i].data["tree"]
        IN /\ \A p \in done : \A q \in Pass :
                Level[q] <= Level[p] => q \in done
           /\ tree \subseteq done
           /\ \A p \in done \ Optional :
                OnMainContext(p) /\ "tree" \in Writes[p] => p \in tree

\* A compile that returns Ok has a result for every pass, and no failed one
\* but of optional passes.
OkMeansAllRan ==
    phase = "done" =>
        \A p \in Pass : HasResult(p) /\ (results[p] = "failure" => p \in Optional)

\* Every compile ends: it returns Ok or Err unless it is interrupted.
CompileEnds == phase = "open" ~> phase \in {"done", "failed", "idle"}

\* "After all complete, outputs are merged back by AccessPattern": once a
\* group has completed, the main context holds what its successful passes
\* wrote.
OutputsMergedBack ==
    phase = "saving" =>
        \A p \in Group(level) : st[p] = "ok" =>
            \A f \in Writes[p] : p \in ctx[f]

\* "On restart, the orchestrator loads the checkpoint and skips already-
\* completed passes": a compile does not execute a pass that the checkpoint
\* of an earlier compile of the same document with the same input names.
RestartSkipsCompleted ==
    phase = "running" =>
        \A p \in Pass : st[p] = "running" =>
            \A i \in Ids :
                ckpts[i] # None /\ ckpts[i].input = input =>
                    p \notin ckpts[i].done
=============================================================================
