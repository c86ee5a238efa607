-------------------------------- MODULE Ask ---------------------------------
(***************************************************************************)
(* Engine.ask: the pipeline of a question.  The query is analysed, the     *)
(* documents to search are chosen, a scout searches each of them, and the  *)
(* evidence they bring is consolidated and turned into an answer; one more *)
(* round of scouts may look for what is missing.  Several asks overlap in  *)
(* one event loop: what they share is the file of the route cache, which   *)
(* each reads when it starts and rewrites whole when a scout records.      *)
(*                                                                         *)
(* A step is what happens between two answers of the model.  Documents do  *)
(* not change; scores are counted in hundredths.                           *)
(***************************************************************************)
EXTENDS RouteCache, Subsequences

CONSTANTS
    Asks,         \* calls of Engine.ask
    QueryOf,      \* the query of each
    Specified,    \* asks whose caller names the documents
    Keywords,     \* Keywords[q]: extract_keywords
    Intents,      \* what the analysis may say a query is after
    Cards,        \* the documents of the workspace, in the order of the cards
    NameOf,       \* the name of a document
    Node,         \* node ids
    Proposals,    \* Proposals[q][d]: nodes the indices of d propose, in order
    Toc,          \* Toc[d]: the entries of toc(2)
    Kids,         \* Kids[d][n]
    Words,        \* Words[d][n]: the words of the content of a node
    PathOf,       \* PathOf[d][n]: the titles on the way to a node
    MinWords,     \* evidence with fewer words has less than 50 characters
    MaxLlmCalls,  \* max_llm_calls of a scout, 0 if unlimited
    Workers,      \* max_concurrent_workers
    \* What the model may answer: documents named by the plan, nodes to read
    \* and to expand, nodes to read among the expanded.
    PlanAnswers, PickAnswers, BeamAnswers

Docs == Range(Cards)

ASSUME AskAssumption ==
    /\ Workers \in Nat \ {0} /\ MaxLlmCalls \in Nat /\ MinWords \in Nat \ {0}
    /\ Cards \in Seq(Docs) /\ IsFiniteSet(Node)
    /\ \A d \in Docs, n \in Node : Kids[d][n] \subseteq Node
    /\ \A a \in Asks, d \in Docs :
          Proposals[QueryOf[a]][d] \in Seq([node : Node, score : Nat])
    /\ \A d \in Docs : Toc[d] \in Seq(Node)
    /\ PlanAnswers \subseteq Seq(Nat) /\ IsFiniteSet(PlanAnswers)
    /\ PickAnswers \subseteq [targets : Seq(Node), expand : SUBSET Node, done : BOOLEAN]
    /\ BeamAnswers \subseteq Seq(Node)

VARIABLES
    phase,     \* "idle", "reasoning", "planning", "searching", "answering",
               \* "done", "gone" or "failed"
    intent,    \* what the query is after
    round,     \* 1, and 2 when scouts look for what is missing
    scouts,    \* the scouts of the round
    finished,  \* those that have a result, in the order they got it
    state,     \* OrchestratorState: evidence, dispatched, calls; and what was
               \* found, the evidence consolidated
    out,       \* the output
    made,      \* requests made to the model, failing ones included
    mem,       \* the route cache of each ask
    file,      \* the file of the route cache
    accepted   \* history: routes a verification let pass

vars == <<phase, intent, round, scouts, finished, state, out, made, mem,
          file, accepted>>

NoScouts == <<>>
NewState == [evidence |-> <<>>, dispatched |-> <<>>, calls |-> 0, found |-> <<>>]
NoOutput == [answer |-> "none", evidence |-> <<>>, calls |-> 0]
NoRoutes == [d \in Docs |-> <<>>]

Init ==
    /\ phase = [a \in Asks |-> "idle"]
    /\ intent = [a \in Asks |-> "none"]
    /\ round = [a \in Asks |-> 1]
    /\ scouts = [a \in Asks |-> NoScouts]
    /\ finished = [a \in Asks |-> <<>>]
    /\ state = [a \in Asks |-> NewState]
    /\ out = [a \in Asks |-> NoOutput]
    /\ made = [a \in Asks |-> 0]
    /\ mem = [a \in Asks |-> NoRoutes]
    /\ file = NoRoutes
    /\ accepted = {}

KeywordsOf(a) == Keywords[QueryOf[a]]

\* Those of the elements of a sequence that have no earlier one like them.
Firsts(seq) == At(seq, {i \in DOMAIN seq : \A j \in 1..(i - 1) : seq[j] # seq[i]})

(***************************************************************************)
(* What a scout finds out without the model.                               *)
(***************************************************************************)
\* Nodes proposed for the query, or the top of the table of contents if the
\* indices propose none.
Gathered(a, d) ==
    IF Proposals[QueryOf[a]][d] # <<>> THEN Proposals[QueryOf[a]][d]
    ELSE [i \in DOMAIN Toc[d] |-> [node |-> Toc[d][i], score |-> 101 - i]]

NodesOf(g) == {g[i].node : i \in DOMAIN g}
PlacesOf(g, n) == {i \in DOMAIN g : g[i].node = n}
ScoreIn(g, n) == Max({g[i].score : i \in PlacesOf(g, n)})

\* The candidates, the best first, those proposed earlier among equals first.
Ahead(g, n) ==
    {m \in NodesOf(g) : \/ ScoreIn(g, m) > ScoreIn(g, n)
                        \/ /\ ScoreIn(g, m) = ScoreIn(g, n)
                           /\ Min(PlacesOf(g, m)) < Min(PlacesOf(g, n))}
RankedIn(g) ==
    [i \in 1..Cardinality(NodesOf(g)) |->
        CHOOSE n \in NodesOf(g) : Cardinality(Ahead(g, n)) = i - 1]

Candidates == [a \in Asks |-> [d \in Docs |-> RankedIn(Gathered(a, d))]]
Ranked(a, d) == Candidates[a][d]

\* The best candidate answers a simple query: several indices propose it, or
\* it stands out.
Simple(a, i) == Cardinality(KeywordsOf(a)) <= 4 \/ i \in {"factual", "procedural"}

ConfidentIn(g, ranked, simple) ==
    LET top == ScoreIn(g, ranked[1])
        corroborated == Cardinality(PlacesOf(g, ranked[1])) >= 2
        dominant == \/ Len(ranked) = 1 \/ top >= 80
                    \/ top >= ScoreIn(g, ranked[2]) + 20
    IN ranked # <<>> /\ top >= 50 /\ simple /\ (corroborated \/ dominant)

Confidence ==
    [a \in Asks |-> [d \in Docs |-> [i \in Intents |->
        ConfidentIn(Gathered(a, d), Ranked(a, d), Simple(a, i))]]]
Confident(a, d) == Confidence[a][d][intent[a]]

\* The candidates of the fast path: the best, and the next if it is close.
\* Each is read if it has content.
FastReads ==
    [a \in Asks |-> [d \in Docs |->
        LET g == Gathered(a, d)
            ranked == Ranked(a, d)
            close == Len(ranked) > 1
                       /\ ScoreIn(g, ranked[2]) + 10 >= ScoreIn(g, ranked[1])
        IN At(ranked, {i \in DOMAIN ranked : /\ i <= (IF close THEN 2 ELSE 1)
                                            /\ Words[d][ranked[i]] # {}})]]

\* The children of the candidates to expand that are not in the pool yet.
ChildrenOf(d, expand, pool) ==
    UNION {Kids[d][n] : n \in expand \cap pool} \ pool

BudgetLeft(calls) == MaxLlmCalls = 0 \/ calls < MaxLlmCalls

\* The nodes of an answer that may be meant.
Among(nodes, pool) == At(nodes, {i \in DOMAIN nodes : nodes[i] \in pool})

\* A node is read if it has content and was not read before.  Of reads under
\* way together each has looked before any of them ends, and they end in any
\* order.
Together(s, nodes) ==
    LET begun == At(nodes, {i \in DOMAIN nodes : /\ nodes[i] \notin Range(s.read)
                                                 /\ Words[s.doc][nodes[i]] # {}})
    IN {s.read \o [i \in DOMAIN begun |-> begun[p[i]]] :
            p \in Permutations(DOMAIN begun)}

(***************************************************************************)
(* Analysis of the query and the plan.                                     *)
(***************************************************************************)
Start(a) ==
    /\ phase[a] = "idle"
    /\ phase' = [phase EXCEPT ![a] = "reasoning"]
    /\ UNCHANGED <<intent, round, scouts, finished, state, out, made, mem, file, accepted>>

Waiting(d) == [doc |-> d, stage |-> "waiting", read |-> <<>>, calls |-> 0,
               fromCache |-> FALSE, pool |-> {}]
ScoutsFor(docs) == [k \in DOMAIN docs |-> Waiting(docs[k])]

\* The analysis is a request of its own, and the ask fails if it does.  The
\* route cache is read as it is on the disk; documents the caller named are
\* searched without a plan.
QueryAnalysed(a) ==
    /\ phase[a] = "reasoning"
    /\ made' = [made EXCEPT ![a] = @ + 1]
    /\ \/ /\ phase' = [phase EXCEPT ![a] = "failed"]
          /\ UNCHANGED <<intent, scouts, mem>>
       \/ /\ \E i \in Intents : intent' = [intent EXCEPT ![a] = i]
          /\ mem' = [mem EXCEPT ![a] = file]
          /\ IF a \in Specified
             THEN /\ phase' = [phase EXCEPT ![a] = "searching"]
                  /\ scouts' = [scouts EXCEPT ![a] = ScoutsFor(Cards)]
             ELSE phase' = [phase EXCEPT ![a] = "planning"] /\ UNCHANGED scouts
    /\ UNCHANGED <<round, finished, state, out, file, accepted>>

\* The documents to search: one for each line of the plan, from the first one
\* with a number that is a document's.  A line without one stands for the
\* document of the line before it once more.
Named(lines) == {k \in DOMAIN lines : lines[k] \in DOMAIN Cards}
Skipped(lines) == IF Named(lines) = {} THEN Len(lines) ELSE Min(Named(lines)) - 1
Latest(lines, k) == Max({j \in Named(lines) : j <= k})
DispatchPlan(lines) ==
    [i \in 1..(Len(lines) - Skipped(lines)) |-> Cards[lines[Latest(lines, i + Skipped(lines))]]]

\* The scouts a plan may send out, or the caller by naming documents.
MaxScouts == Max({Len(lines) : lines \in PlanAnswers} \cup {Len(Cards)})

\* The ask returns, and nothing is left of it but its answer.
Closed(a) ==
    /\ phase' = [phase EXCEPT ![a] = "done"]
    /\ intent' = [intent EXCEPT ![a] = "none"]
    /\ round' = [round EXCEPT ![a] = 1]
    /\ scouts' = [scouts EXCEPT ![a] = NoScouts]
    /\ finished' = [finished EXCEPT ![a] = <<>>]
    /\ state' = [state EXCEPT ![a] = NewState]
    /\ mem' = [mem EXCEPT ![a] = NoRoutes]

Returned(a, answer, evidence, calls) ==
    /\ Closed(a)
    /\ out' = [out EXCEPT ![a] = [answer |-> answer, evidence |-> evidence,
                                  calls |-> calls]]

\* The caller has the answer; the ask is forgotten.
Taken(a) ==
    /\ phase[a] = "done"
    /\ phase' = [phase EXCEPT ![a] = "gone"]
    /\ out' = [out EXCEPT ![a] = NoOutput]
    /\ made' = [made EXCEPT ![a] = 0]
    /\ UNCHANGED <<intent, round, scouts, finished, state, mem, file, accepted>>

\* A failing request, or a plan without a document, ends the ask empty-handed.
Planned(a) ==
    /\ phase[a] = "planning"
    /\ made' = [made EXCEPT ![a] = @ + 1]
    /\ \/ Returned(a, "none", <<>>, 0)
       \/ \E lines \in PlanAnswers :
            IF DispatchPlan(lines) = <<>> THEN Returned(a, "none", <<>>, 1)
            ELSE /\ phase' = [phase EXCEPT ![a] = "searching"]
                 /\ state' = [state EXCEPT ![a].calls = @ + 1]
                 /\ scouts' = [scouts EXCEPT ![a] = ScoutsFor(DispatchPlan(lines))]
                 /\ UNCHANGED <<intent, round, finished, out, mem>>
    /\ UNCHANGED <<file, accepted>>

(***************************************************************************)
(* Scouts.                                                                 *)
(***************************************************************************)
Searching == {"verify", "pick", "beam"}
Ended == {"done", "lost"}

\* Mutant: a document that cannot be loaded keeps the place.
ActiveOrLost(a) ==
    {k \in DOMAIN scouts[a] : scouts[a][k].stage \in Searching \cup {"lost"}}

Active(a) == {k \in DOMAIN scouts[a] : scouts[a][k].stage \in Searching}

Becomes(a, k, s) ==
    /\ scouts' = [scouts EXCEPT ![a][k] = s]
    /\ finished' = IF s.stage = "done" THEN [finished EXCEPT ![a] = Append(@, k)]
                   ELSE finished

Done(s, read, calls) ==
    [s EXCEPT !.stage = "done", !.read = read, !.calls = calls, !.pool = {}]

\* The route of a scout that is done goes into the cache of its ask, and that
\* into the file unless writing fails, which is only logged.
Record(a, s, conf) ==
    LET recorded == round[a] = 1 /\ s.read # <<>> /\ KeywordsOf(a) # {}
        entries == Recorded(mem[a][s.doc], intent[a], KeywordsOf(a), Range(s.read), conf)
    IN /\ mem' = IF recorded THEN [mem EXCEPT ![a][s.doc] = entries] ELSE mem
       /\ file' \in IF recorded THEN {file, mem'[a]} ELSE {file}

\* What a scout does until it asks the model, or has its result: it reads a
\* route of the cache, in any order, or looks for candidates.  A fast path that
\* read nothing is not verified, and yet counted.
Explored(a, s) ==
    IF Ranked(a, s.doc) = <<>> THEN Done(s, <<>>, 0)
    ELSE IF ~Confident(a, s.doc) THEN [s EXCEPT !.stage = "pick"]
    ELSE IF FastReads[a][s.doc] = <<>> THEN [s EXCEPT !.stage = "pick", !.calls = 1]
    ELSE [s EXCEPT !.stage = "verify", !.read = FastReads[a][s.doc]]

RouteNodes(a, d) ==
    {n \in UNION {r.nodes : r \in Lookup(mem[a][d], intent[a], KeywordsOf(a))} :
        round[a] = 1 /\ Words[d][n] # {}}

Begun(a, s) ==
    IF RouteNodes(a, s.doc) = {} THEN {Explored(a, s)}
    ELSE {[Done(s, read, 0) EXCEPT !.fromCache = TRUE] :
             read \in SetToSeqs(RouteNodes(a, s.doc))}

\* The scout that has waited longest gets a free place and loads its document,
\* which may be gone: it then has no result.
ScoutBegins(a, k) ==
    LET s == scouts[a][k]
    IN /\ phase[a] = "searching" /\ s.stage = "waiting"
       /\ \A j \in 1..(k - 1) : scouts[a][j].stage # "waiting"
       /\ Cardinality(Active(a)) < Workers
       /\ \E next \in Begun(a, s) \cup {[s EXCEPT !.stage = "lost"]} : Becomes(a, k, next)
       /\ UNCHANGED <<phase, intent, round, state, out, made, mem, file, accepted>>

Asked(a, k, stage) ==
    /\ phase[a] = "searching" /\ scouts[a][k].stage = stage
    /\ made' = [made EXCEPT ![a] = @ + 1]

\* The model confirms that what was read answers the query, or the request
\* fails, which counts as a confirmation.
Verified(a, k) ==
    LET s == scouts[a][k]
        done == Done(s, s.read, s.calls + 1)
        route == [doc |-> s.doc, intent |-> intent[a], kw |-> KeywordsOf(a),
                  nodes |-> Range(s.read)]
    IN /\ Asked(a, k, "verify")
       /\ \/ Becomes(a, k, done) /\ Record(a, done, 85)
             /\ accepted' = accepted \cup {route}
          \/ Becomes(a, k, [s EXCEPT !.stage = "pick", !.calls = @ + 1])
             /\ UNCHANGED <<mem, file, accepted>>
       /\ UNCHANGED <<phase, intent, round, state, out>>

\* The model picks candidates to read and to expand.  A failing request reads
\* the best three.
Picked(a, k) ==
    LET s == scouts[a][k]
        calls == s.calls + 1
        ranked == Ranked(a, s.doc)
        best == SubSeq(ranked, 1, Min({3, Len(ranked)}))
    IN /\ Asked(a, k, "pick")
       /\ \/ \E read \in Together(s, best) :
                Becomes(a, k, Done(s, read, calls)) /\ Record(a, Done(s, read, calls), 60)
          \/ \E p \in PickAnswers :
                LET targets == Among(p.targets, Range(ranked))
                    children == IF p.done \/ ~BudgetLeft(calls) THEN {}
                                ELSE ChildrenOf(s.doc, p.expand, Range(ranked))
                IN \E read \in Together(s, targets) :
                      IF children = {}
                      THEN Becomes(a, k, Done(s, read, calls))
                             /\ Record(a, Done(s, read, calls), 60)
                      ELSE /\ Becomes(a, k, [s EXCEPT !.stage = "beam", !.read = read,
                                                !.calls = calls, !.pool = children])
                           /\ UNCHANGED <<mem, file>>
       /\ UNCHANGED <<phase, intent, round, state, out, accepted>>

\* The model chooses among the children and the candidates; if it chooses
\* nothing, or fails, some three of the children are read.
Beamed(a, k) ==
    LET s == scouts[a][k]
        pool == s.pool \cup Range(Ranked(a, s.doc))
        some == {SetToSeq(c) : c \in {c \in SUBSET s.pool :
                    Cardinality(c) = Min({3, Cardinality(s.pool)})}}
    IN /\ Asked(a, k, "beam")
       /\ \E ids \in BeamAnswers :
            \E chosen \in IF ids = <<>> THEN some
                          ELSE {Among(ids, pool)} :
                \E read \in Together(s, chosen) :
                    /\ Becomes(a, k, Done(s, read, s.calls + 1))
                    /\ Record(a, Done(s, read, s.calls + 1), 60)
       /\ UNCHANGED <<phase, intent, round, state, out, accepted>>

(***************************************************************************)
(* The answer.                                                             *)
(***************************************************************************)
Text(e) == Words[e.doc][e.node]
Source(e) == <<NameOf[e.doc], PathOf[e.doc][e.node]>>

\* dedup: what is too short goes, then what has the source of earlier evidence,
\* then what has much the same words as evidence kept before it.
LongEnough(e) == Cardinality(Text(e)) >= MinWords

NewSource(evidence, i) ==
    /\ LongEnough(evidence[i])
    /\ \A j \in 1..(i - 1) :
          LongEnough(evidence[j]) => Source(evidence[j]) # Source(evidence[i])

KeptOf(evidence) ==
    CHOOSE kept \in SUBSET {i \in DOMAIN evidence : NewSource(evidence, i)} :
        \A i \in DOMAIN evidence : NewSource(evidence, i) =>
            (i \in kept <=> \A j \in kept :
                               j < i => ~Alike(Text(evidence[j]), Text(evidence[i])))

\* Mutant: only the sources are compared.
ConsolidatedLoosely(evidence) ==
    At(evidence, {i \in DOMAIN evidence : NewSource(evidence, i)})

\* Mutant: evidence that came later is preferred.
ConsolidatedLatest(evidence) == At(Reverse(evidence), KeptOf(Reverse(evidence)))

Consolidated(evidence) ==
    CHOOSE found \in {At(evidence, kept) : kept \in {KeptOf(evidence)}} : TRUE

EvidenceOf(s) == [i \in DOMAIN s.read |-> [doc |-> s.doc, node |-> s.read[i]]]

\* collect_result for the scouts that have one, in the order they got it.
Results(a) == [i \in DOMAIN finished[a] |-> scouts[a][finished[a][i]]]
Calls(team, places) == UNION {{k} \X (1..team[k].calls) : k \in places}

CollectedState(a) ==
    [evidence |-> state[a].evidence
                    \o FlattenSeq([i \in DOMAIN Results(a) |-> EvidenceOf(Results(a)[i])]),
     dispatched |-> Firsts(state[a].dispatched
                             \o [i \in DOMAIN Results(a) |-> Results(a)[i].doc]),
     found |-> state[a].found,
     calls |-> state[a].calls + Cardinality(Calls(scouts[a], Range(finished[a])))]

\* All scouts have ended: their results are collected and consolidated.
\* Without evidence there is no answer; a query after locations is answered
\* by them.
Collected(a) ==
    /\ phase[a] = "searching"
    /\ \A k \in DOMAIN scouts[a] : scouts[a][k].stage \in Ended
    /\ \E new \in {CollectedState(a)} : \E found \in {Consolidated(new.evidence)} :
          IF found = <<>> THEN Returned(a, "none", new.evidence, new.calls)
          ELSE IF intent[a] = "navigational"
          THEN Returned(a, "locations", found, new.calls)
          ELSE /\ phase' = [phase EXCEPT ![a] = "answering"]
               /\ state' = [state EXCEPT ![a] = [new EXCEPT !.found = found]]
               /\ scouts' = [scouts EXCEPT ![a] = NoScouts]
               /\ finished' = [finished EXCEPT ![a] = <<>>]
               /\ UNCHANGED <<intent, round, out, mem>>
    /\ UNCHANGED <<made, file, accepted>>

\* The model writes the answer and says whether the evidence is sufficient,
\* and if not, whether it knows what is missing; if it fails, the evidence is
\* the answer.  What is missing in an answer over the workspace is looked for
\* once, in every document a scout came back from.
Synthesized(a) ==
    LET calls == state[a].calls + 1
    IN /\ phase[a] = "answering"
       /\ made' = [made EXCEPT ![a] = @ + 1]
       /\ out' = [out EXCEPT ![a] = [answer |-> "text", evidence |-> state[a].found,
                                     calls |-> calls]]
       /\ \/ Closed(a)
          \/ /\ round[a] = 1 /\ a \notin Specified
             /\ phase' = [phase EXCEPT ![a] = "searching"]
             /\ round' = [round EXCEPT ![a] = 2]
             /\ state' = [state EXCEPT ![a].calls = calls]
             /\ scouts' = [scouts EXCEPT ![a] = ScoutsFor(state[a].dispatched)]
             /\ UNCHANGED <<intent, finished, mem>>
       /\ UNCHANGED <<file, accepted>>

Advance(a) ==
    \/ QueryAnalysed(a) \/ Planned(a)
    \/ \E k \in DOMAIN scouts[a] :
          ScoutBegins(a, k) \/ Verified(a, k) \/ Picked(a, k) \/ Beamed(a, k)
    \/ Collected(a) \/ Synthesized(a)

Next == \E a \in Asks : Start(a) \/ Advance(a) \/ Taken(a)

\* The event loop runs every task that can go on, and a request to the model
\* ends: it has a timeout (DEFAULT_TIMEOUT) and its retries are bounded.
Spec == Init /\ [][Next]_vars /\ \A a \in Asks : WF_vars(Advance(a))

(***************************************************************************)
(* Properties.                                                             *)
(***************************************************************************)
TypeOK ==
    /\ phase \in [Asks -> {"idle", "reasoning", "planning", "searching",
                          "answering", "done", "gone", "failed"}]
    /\ intent \in [Asks -> Intents \cup {"none"}]
    /\ round \in [Asks -> 1..2]
    /\ \A a \in Asks :
          /\ \A k \in DOMAIN scouts[a] :
                /\ scouts[a][k].stage \in {"waiting"} \cup Searching \cup Ended
                /\ scouts[a][k].doc \in Docs /\ Range(scouts[a][k].read) \subseteq Node
          /\ Range(finished[a]) = {k \in DOMAIN scouts[a] : scouts[a][k].stage = "done"}
    /\ \A d \in Docs : Len(file[d]) <= MaxEntries

\* What a scout takes from the route cache without asking the model was read
\* earlier for a query of the same intent and with eight tenths of the
\* keywords, and a verification let it pass ("a successful, verified route"),
\* whichever asks recorded routes in between, in whichever file order.
HitsWereAccepted ==
    \A a \in Asks : \A k \in DOMAIN scouts[a] :
        scouts[a][k].fromCache =>
            \E r \in accepted :
                /\ r.doc = scouts[a][k].doc /\ r.intent = intent[a]
                /\ Alike(KeywordsOf(a), r.kw)
                /\ Range(scouts[a][k].read) \subseteq r.nodes

\* An answer comes with evidence, no two pieces of which have one source or
\* much the same words, though scouts read a node twice, overlap and search
\* one document in two rounds.  No request but the analysis of the query, which
\* nothing counts, and a plan that fails is missing in the calls it reports,
\* and these are bounded: three for each scout, one for the plan and one for
\* each synthesis.
OutputHolds ==
    \A a \in Asks : phase[a] = "done" =>
        LET evidence == out[a].evidence
        IN /\ out[a].answer # "none" =>
                 /\ evidence # <<>>
                 /\ \A i, j \in DOMAIN evidence : i < j =>
                       /\ Source(evidence[i]) # Source(evidence[j])
                       /\ ~Alike(Text(evidence[i]), Text(evidence[j]))
           /\ (made[a] <= out[a].calls + 1) \/ (out[a] = NoOutput /\ made[a] = 2)
           /\ out[a].calls <= 3 + 3 * (MaxScouts + Len(Cards))

\* The second round adds to the evidence of the first answer and takes nothing
\* of it away, nor puts it in another order, whichever scouts find what first.
GapKeepsEvidence ==
    [][\A a \in Asks : phase[a] # "done" => IsPrefix(out[a].evidence, out'[a].evidence)]_vars

\* Every ask that is started returns, with an answer or without, or fails: no
\* scout waits for a place for ever.
AskEnds == \A a \in Asks : phase[a] = "reasoning" ~> phase[a] \in {"done", "failed"}
=============================================================================
