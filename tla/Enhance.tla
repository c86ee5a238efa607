------------------------------ MODULE Enhance -------------------------------
(***************************************************************************)
(* The enhance pass: a summary for every node of a document tree, from the *)
(* previous version of the document, the text itself, the memo store or    *)
(* the model, over the executor and the memo store they share.             *)
(*                                                                         *)
(* A text stands for a node's title and content.  Successive passes work   *)
(* on successive versions of a document; one that is dropped (a timeout of *)
(* the compile, a crash) leaves no version behind.                         *)
(***************************************************************************)
EXTENDS LlmExecutor, MemoStore

CONSTANTS
    Root,         \* the root of every tree; the nodes are the callers
    Tree,         \* Tree[r]: the tree of pass r, a text and the children of
                  \* each node that is in it
    NoContent,    \* the text of a node without content
    Short,        \* texts within the shortcut threshold
    BranchOnly,   \* the strategy: selective, for branches only, or full
    KeepMemo,     \* with_llm_and_memo: one store for all passes
    Concurrency   \* options.concurrency.max_concurrent_requests

VARIABLES
    pass,      \* the pass: its number, and whether it is running, or how it ended
    item,      \* what became of each node in it
    summary,   \* the summaries of the tree
    prev       \* the enriched tree of the last pass that ended, if any

passVars == <<pass, item, summary, prev>>
vars == <<chain, call, free, queue, tokens, memo, memoFile, pass, item, summary, prev>>

Rounds == DOMAIN Tree
Over == {"ended", "abandoned"}
Nodes == DOMAIN Tree[pass.no]
Text(n) == Tree[pass.no][n].text
Kids(n) == Tree[pass.no][n].kids
Leaf(n) == Kids(n) = <<>>

ASSUME EnhanceAssumption ==
    /\ Root \in Caller /\ Concurrency \in Nat \ {0}
    /\ BranchOnly \in BOOLEAN /\ KeepMemo \in BOOLEAN
    /\ 1 \in Rounds
    /\ \A r \in Rounds :
          /\ Root \in DOMAIN Tree[r] /\ DOMAIN Tree[r] \subseteq Caller
          /\ \A n \in DOMAIN Tree[r] : Tree[r][n].kids \in Seq(DOMAIN Tree[r])

\* Summaries: none, the text itself, or what the model said.  The model names
\* itself and what it was asked; an answer may be empty.
None == [kind |-> "none"]
Own(t) == [kind |-> "own", text |-> t]
Answer(input, m) == [kind |-> "answer", input |-> input, model |-> m]
EmptyAnswer == [kind |-> "empty"]

\* generate_for_node: what is asked of the model, and what the memo key names.
AskedInput(n) == <<Text(n), Leaf(n)>>
\* The fast path of the pass leaves out the leaf flag.
FastInput(n) == <<Text(n)>>

Phases == {"none", "pending", "asked", "done", "failed"}
Inputs == {<<t.text, l>> : t \in UNION {{Tree[r][n] : n \in DOMAIN Tree[r]} : r \in Rounds},
                           l \in BOOLEAN}
Answers == {Answer(i, m) : i \in Inputs, m \in UNION {ModelsOf(n) : n \in Caller}}
             \cup {EmptyAnswer}

TypeOK ==
    /\ LlmTypeOK
    /\ Len(memo) <= Cap /\ \A i, j \in DOMAIN memo : memo[i].key = memo[j].key => i = j
    /\ \A i \in DOMAIN memo : memo[i].val \in Answers
    /\ pass.no \in Rounds /\ pass.ph \in {"idle", "running"} \cup Over
    /\ \A n \in Caller : item[n].ph \in Phases /\ item[n].got \in Answers \cup {None}
    /\ \A n \in Caller : summary[n] \in Answers \cup {None}
                            \cup {Own(i[1]) : i \in Inputs}

NoItem == [ph |-> "none", got |-> None]
Init ==
    /\ LlmInit /\ MemoInit
    /\ pass = [no |-> 1, ph |-> "idle"]
    /\ item = [n \in Caller |-> NoItem]
    /\ summary = [n \in Caller |-> None]
    /\ prev = <<>>

(***************************************************************************)
(* Enrichment of unchanged nodes.                                          *)
(***************************************************************************)
\* Mutant: the children are left out.
SameContentOwnTextOnly(old, o, new, n) == old[o].text = new[n].text

\* content_fps: a node's fingerprint is made of its text and those of its
\* children.  Two are equal if the subtrees match, text by text.
SameContent(old, o, new, n) ==
    \E match \in SUBSET {m \in (DOMAIN old) \X (DOMAIN new) :
                             /\ old[m[1]].text = new[m[2]].text
                             /\ Len(old[m[1]].kids) = Len(new[m[2]].kids)} :
        /\ <<o, n>> \in match
        /\ \A m \in match : \A i \in DOMAIN old[m[1]].kids :
              <<old[m[1]].kids[i], new[m[2]].kids[i]>> \in match

\* build_enrichment_index and apply_enrichment_index: the first enriched node
\* in the order of the traversal counts; equal subtrees may have other ones.
Reusable(n) ==
    IF prev = <<>> THEN {}
    ELSE {prev.summary[o] :
            o \in {o \in DOMAIN prev.tree :
                     /\ prev.summary[o].kind # "none"
                     /\ SameContent(prev.tree, o, Tree[pass.no], n)}}

(***************************************************************************)
(* EnhancePass::execute.                                                   *)
(***************************************************************************)
ShouldGenerate(n) == Text(n) # NoContent /\ (BranchOnly => ~Leaf(n))

\* Mutant: equal questions are asked once.
PendingOnce(todo) ==
    {n \in todo : Text(n) \notin Short
                   /\ n = CHOOSE o \in todo : AskedInput(o) = AskedInput(n)}

\* The nodes among those without a summary that the model has to be asked about.
Pending(todo) == {n \in todo : Text(n) \notin Short}

\* Phase 1, without an await: reuse, the memo's fast path, the shortcut.
Collect ==
    /\ pass.ph = "idle" /\ pass' = [pass EXCEPT !.ph = "running"]
    /\ \E reused \in [Nodes -> (UNION {Reusable(n) : n \in Nodes}) \cup {None}] :
         /\ \A n \in Nodes : IF Reusable(n) = {} THEN reused[n] = None
                                                 ELSE reused[n] \in Reusable(n)
         /\ LET Left(n) == reused[n] = None /\ ShouldGenerate(n)
                Fast(n) == KeepMemo /\ IsHit(SummaryKey(FastInput(n)))
                              /\ Entry(memo, SummaryKey(FastInput(n))).val # EmptyAnswer
            IN  /\ summary' = [n \in Caller |->
                     CASE n \notin Nodes -> None
                       [] n \in Nodes /\ ~Left(n) -> reused[n]
                       [] n \in Nodes /\ Left(n) /\ Fast(n) ->
                            Entry(memo, SummaryKey(FastInput(n))).val
                       [] n \in Nodes /\ Left(n) /\ ~Fast(n) ->
                            IF Text(n) \in Short THEN Own(Text(n)) ELSE None]
                /\ item' = [n \in Caller |->
                     IF n \in Pending({o \in Nodes : Left(o) /\ ~Fast(o)})
                     THEN [NoItem EXCEPT !.ph = "pending"] ELSE NoItem]
    /\ call' = [n \in Caller |-> NewCall]
    /\ memo' = IF KeepMemo THEN memo ELSE <<>>
    /\ UNCHANGED <<chain, free, queue, tokens, memoFile, prev>>

Asked == {n \in Caller : item[n].ph = "asked"}

\* buffer_unordered lets a task in; generate_for_node looks in the memo.
StartTask(n) ==
    /\ pass.ph = "running" /\ item[n].ph = "pending" /\ Cardinality(Asked) < Concurrency
    /\ LET k == SummaryKey(AskedInput(n)) IN
       /\ Get(k)
       /\ IF IsHit(k)
          THEN /\ item' = [item EXCEPT ![n] = [ph |-> "done", got |-> Entry(memo, k).val]]
               /\ UNCHANGED llmVars
          ELSE /\ item' = [item EXCEPT ![n].ph = "asked"] /\ Begin(n)
    /\ UNCHANGED <<pass, summary, prev>>

\* The client has an answer: it goes to the memo and to the task's result.
TakeAnswer(n) ==
    /\ item[n].ph = "asked" /\ Answered(n)
    /\ \E a \in {Answer(AskedInput(n), call[n].model), EmptyAnswer} :
         /\ item' = [item EXCEPT ![n] = [ph |-> "done", got |-> a]]
         /\ Put(SummaryKey(AskedInput(n)), a)
    /\ UNCHANGED <<pass, summary, prev>>

\* The client gave up.
TaskFails(n) ==
    /\ item[n].ph = "asked" /\ call[n].ph = "err"
    /\ item' = [item EXCEPT ![n].ph = "failed"]
    /\ UNCHANGED <<llmVars, memoVars, pass, summary, prev>>

\* All tasks are collected, in the order they ended; what they brought goes
\* to the node each was for, but an empty answer counts as a failure.
WriteBack ==
    /\ pass.ph = "running" /\ \A n \in Caller : item[n].ph \notin {"pending", "asked"}
    /\ pass' = [pass EXCEPT !.ph = "ended"]
    /\ summary' = [n \in Caller |->
          IF item[n].got.kind = "answer" THEN item[n].got ELSE summary[n]]
    /\ prev' = [tree |-> Tree[pass.no], summary |-> summary']
    /\ UNCHANGED <<llmVars, memoVars, item>>

\* The next version of the document is compiled.
NextPass ==
    /\ pass.ph \in Over /\ pass.no + 1 \in Rounds
    /\ pass' = [no |-> pass.no + 1, ph |-> "idle"]
    /\ UNCHANGED <<llmVars, memoVars, item, summary, prev>>

Abandon ==
    /\ pass.ph = "running" /\ pass' = [pass EXCEPT !.ph = "abandoned"]
    /\ item' = [n \in Caller |-> NoItem] /\ summary' = [n \in Caller |-> None]
    /\ UNCHANGED prev

\* The compile runs out of time and its future is dropped.
TimeOut == Abandon /\ Drop(Asked) /\ UNCHANGED memoVars

\* The process ends, and another loads the memo store.
Restart ==
    /\ Abandon /\ Load /\ chain' \in Chains
    /\ call' = [t \in Caller |-> NewCall]
    /\ free' = Permits /\ queue' = <<>> /\ tokens' = Burst

Task(n) ==
    \/ StartTask(n) \/ TakeAnswer(n) \/ TaskFails(n)
    \/ Attempt(n) /\ UNCHANGED <<memoVars, passVars>>

MemoUse == (Expire \/ Save \/ Invalidate) /\ UNCHANGED <<llmVars, passVars>>
Limiter == Refill /\ UNCHANGED <<memoVars, passVars>>

Next ==
    \/ Collect \/ WriteBack \/ NextPass \/ TimeOut \/ Restart
    \/ \E n \in Caller : Task(n)
    \/ MemoUse \/ Limiter

\* The runtime polls every task; the provider answers or fails in the end;
\* the rate limiter goes on to refill.
Fairness ==
    /\ WF_vars(Collect) /\ WF_vars(WriteBack)
    /\ \A n \in Caller : WF_vars(Task(n))
    /\ WF_vars(Limiter)

Spec == Init /\ [][Next]_vars /\ Fairness

(***************************************************************************)
(* Properties.                                                             *)
(***************************************************************************)
\* A summary is the node's own short text or what the model answered when it
\* was asked about a node with this very text and place, a leaf or not; and so
\* is every value of the memo store: no path from the memo, the previous
\* version or the unordered results gives a node the summary of another
\* (enhance.rs, execute; strategy.rs, generate_for_node; incremental/mod.rs).
SummaryOfOwnContent ==
    /\ pass.ph # "idle" =>
         \A n \in Nodes : summary[n] \in {None, Own(Text(n))} \/
            (summary[n].kind = "answer" /\ summary[n].input = AskedInput(n))
    /\ \A i \in DOMAIN memo : memo[i].val.kind = "answer" =>
            memo[i].key = SummaryKey(memo[i].val.input)

\* When the pass has ended, a node the strategy wants a summary for has one,
\* unless its own call failed or its answer was empty (enhance.rs, execute).
EnhanceCovers ==
    pass.ph = "ended" =>
        \A n \in Nodes : ShouldGenerate(n) /\ summary[n] = None =>
            item[n].ph = "failed" \/ item[n].got = EmptyAnswer

\* A pass that starts ends, whatever the provider does (executor.rs, the
\* bounds of execute_with_context; throttle.rs).
PassEnds == pass.ph = "running" ~> pass.ph \in Over
=============================================================================
