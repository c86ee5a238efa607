------------------------------- MODULE Engine -------------------------------
(***************************************************************************)
(* The engine: compiles of files, contents and pre-parsed nodes, forget,   *)
(* clear and the rebuild of the cross-document graph, over a workspace.    *)
(*                                                                         *)
(* All of it runs as tasks on one workspace, whose calls are atomic (they  *)
(* hold its lock; module Workspace) and may fail; between two awaits any   *)
(* other task may run.  A compile is a task per source, and a call that    *)
(* collects them.  The engine's own compile passes one source and default  *)
(* options; the modes and source sets here are those compile_pipeline is   *)
(* written for.                                                            *)
(*                                                                         *)
(* A text stands for a file's content and, as fingerprints do not collide, *)
(* for its fingerprint.  The pipeline is one step: it reads its source and *)
(* returns a tree, or fails.                                               *)
(***************************************************************************)
EXTENDS Naturals, FiniteSets

CONSTANTS
    Path,           \* canonical paths of files
    Spelling,       \* the paths a caller may pass, canonical or not
    Canon,          \* the canonical path of each spelling
    Inline,         \* a source that is a string or bytes
    Nodes,          \* a source that is a list of pre-parsed nodes
    Text,           \* contents of files and other sources
    Id,             \* document ids
    StableId,       \* the id callers give compile_pre_parsed
    Logic,          \* fingerprints of pipeline options
    Model,          \* LLM models
    Calls,          \* number of compile calls
    Plans,          \* the runs: the store and files an earlier session left,
                    \* what the calls ask for, and the other events
    MaxConcurrent,  \* config.llm.throttle.max_concurrent_requests
    MaxAttempts,    \* config.llm.retry.max_attempts
    MaxEvents,      \* bounds edits of files, forgets, clears and restarts
    None

Source == Spelling \cup {Inline, Nodes}
Call == 1..Calls
Modes == {"default", "force", "incremental"}
Doc == [path : Path \cup {None}, text : Text, seen : Text \cup {None},
        logic : Logic, model : Model \cup {None},
        made : SUBSET (Logic \X Model)]
Events == {"edit", "forget", "clear", "restart"}
Job == [srcs : (SUBSET Source) \ {{}}, mode : Modes, logic : Logic, text : Text,
        id : {StableId, None}, reuse : BOOLEAN, timeout : BOOLEAN]

\* The enrichment of a document was made by the options, and the model if it
\* has one, that it is stored under.
OwnKey(d) == \A m \in d.made : m[1] = d.logic /\ d.model \in {None, m[2]}

ASSUME EngineAssumption ==
    /\ Path \subseteq Spelling /\ Canon \in [Spelling -> Path]
    /\ \A p \in Path : Canon[p] = p
    /\ Inline # Nodes /\ {Inline, Nodes} \cap Spelling = {}
    /\ StableId \in Id
    /\ None \notin Source \cup Text \cup Id \cup Model \cup Doc
    /\ \A q \in Plans :
         /\ q.store \in [Id -> Doc \cup {None}] /\ q.file \in [Path -> Text]
         /\ q.model \in Model
         /\ \A d \in Id : q.store[d] # None =>
              /\ OwnKey(q.store[d])
              /\ q.store[d].path = None => q.store[d].seen = None
         /\ q.job \in [Call -> Job] /\ q.events \subseteq Events
    /\ \A q \in Plans : \A c \in Call :
          Nodes \in q.job[c].srcs => q.job[c].srcs = {Nodes}
    /\ MaxConcurrent \in Nat \ {0} /\ MaxAttempts \in Nat \ {0}
    /\ Calls \in Nat /\ MaxEvents \in Nat

VARIABLES
    plan,    \* the calls of this run
    file,    \* the content of each file, None when it cannot be read
    store,   \* the documents of the workspace
    graph,   \* the documents of the persisted graph
    model,   \* config.llm.model
    call,    \* the compile calls
    work,    \* the task of each source of each call
    reb,     \* the graph rebuild each call spawned
    doomed,  \* the documents a clear has yet to remove
    used,    \* the ids given so far
    events,  \* how many of them there were
    hist     \* history: see Hist

vars == <<plan, file, store, graph, model, call, work, reb, doomed, used, events, hist>>

NoJob == [srcs |-> {}]
NoWork == [ph |-> "none", old |-> None, base |-> None, doc |-> None,
           id |-> None, tries |-> 0]
NoRebuild == [ph |-> "off", todo |-> {}, got |-> {}, n |-> 0]
\* saved: paths a document was saved for.  gone: documents or paths a user
\* call removed.  several: paths that may have more than one document.
\* due: documents a rebuild was spawned for.  lists, shown: the number of
\* listings made for the graph, and that of the graph's own.
\* torn: paths edited while their pipeline was past reading them.  At the
\* start saved, several and torn tell what the earlier session left.
NoHist == [saved |-> {}, gone |-> {}, several |-> {}, due |-> {},
           torn |-> {},
           lists |-> 0, shown |-> 0]

\* One more event of kind k, if the run has any.
Event(k) ==
    /\ k \in plan.events /\ events < MaxEvents
    /\ events' = events + 1

Stored == {d \in Id : store[d] # None}

Calling == [ph : {"new", "run", "show", "ok", "err"}, job : Job \cup {NoJob},
            id : Id \cup {None}]
Work == [ph : {"none", "wait", "read", "old", "prev", "index", "stamp", "save",
               "remove", "skipped", "done", "failed"},
         old : Id \cup {None}, base : Doc \cup {None}, doc : Doc \cup {None},
         id : Id \cup {None}, tries : 0..(MaxAttempts - 1)]
Rebuilding == [ph : {"off", "list", "load", "set"}, todo : SUBSET Id,
               got : SUBSET Id, n : Nat]
Hist == [saved : SUBSET Path, gone : SUBSET Path,
         several : SUBSET (Path \cup {None}), due : SUBSET Id,
         torn : SUBSET Path, lists : Nat, shown : Nat]

TypeOK ==
    /\ plan \in Plans
    /\ file \in [Path -> Text \cup {None}]
    /\ store \in [Id -> Doc \cup {None}]
    /\ graph \in SUBSET Id /\ model \in Model
    /\ call \in [Call -> Calling]
    /\ work \in [Call -> [Source -> Work]]
    /\ reb \in [Call -> Rebuilding]
    /\ doomed \subseteq Id /\ used \subseteq Id
    /\ events \in 0..MaxEvents
    /\ hist \in Hist

Init ==
    /\ plan \in Plans
    /\ model = plan.model
    /\ file = plan.file
    /\ store = plan.store
    /\ graph = {}
    /\ call = [c \in Call |-> [ph |-> "new", job |-> NoJob, id |-> None]]
    /\ work = [c \in Call |-> [s \in Source |-> NoWork]]
    /\ reb = [c \in Call |-> NoRebuild]
    /\ doomed = {} /\ used = {StableId} \cup Stored
    /\ events = 0
    /\ hist = [NoHist EXCEPT
         !.saved = {store[d].path : d \in Stored} \ {None},
         !.several = {store[d].path : d \in {x \in Stored :
              \E y \in Stored \ {x} : store[y].path = store[x].path}},
         !.torn = {store[d].path :
              d \in {x \in Stored : store[x].seen \notin {None, store[x].text}}}]

Answer(ph, id) == [ph |-> ph, job |-> NoJob, id |-> id]
\* A new uuid: some id not given so far.  They do not run out; Id bounds them.
Fresh == IF Id \subseteq used THEN {} ELSE {CHOOSE d \in Id : d \notin used}
Ended == {"skipped", "done", "failed"}
Live(c) == {s \in call[c].job.srcs : work[c][s].ph \notin Ended \cup {"wait"}}
PathOf(s) == IF s \in Spelling THEN Canon[s] ELSE None
Put(c, s, w) == work' = [work EXCEPT ![c][s] = w]
ToIndex(w, old, base) == [w EXCEPT !.ph = "index", !.old = old, !.base = base]

\* Sources of compiles under way that name the file p.
Busy(p) ==
    {x \in Call \X Spelling :
        call[x[1]].ph = "run" /\ x[2] \in call[x[1]].job.srcs /\ Canon[x[2]] = p}

(***************************************************************************)
(* A call, and what its sources resolve to.                                *)
(***************************************************************************)
\* compile and compile_pre_parsed.  A path compiled twice at once, by Force
\* or under another spelling may get a second document.
Request(c) ==
    LET j == plan.job[c] IN
        /\ call[c].ph = "new" /\ \A b \in 1..(c - 1) : call[b].ph # "new"
        /\ call' = [call EXCEPT ![c] = 
                      [ph |-> "run", job |-> j, id |-> None]]
        /\ work' = [work EXCEPT ![c] = [s \in Source |->
                      IF s \notin j.srcs THEN NoWork
                      ELSE [NoWork EXCEPT !.ph = IF s = Nodes THEN "prev"
                                                 ELSE "wait"]]]
        /\ hist' = [hist EXCEPT !.several = @ \cup
             {Canon[s] : s \in {t \in j.srcs \cap Spelling :
                   \/ j.mode = "force" \/ t \notin Path \/ Busy(Canon[t]) # {}
                   \/ \E u \in j.srcs \cap Spelling : u # t /\ Canon[u] = Canon[t]}}]
        /\ UNCHANGED <<plan, file, store, graph, model, reb, doomed, used, events>>

\* What the indexer did with a source before the first await of its work:
\* find_by_source_path compares the path as the caller spelled it.
Resolve(c, s) ==
    LET w == work[c][s]
        mode == call[c].job.mode
        known == {d \in Stored : store[d].path = s}
    IN  /\ call[c].ph = "run" /\ w.ph = "wait"
        /\ Cardinality(Live(c)) <
             IF MaxConcurrent < Cardinality(call[c].job.srcs)
             THEN MaxConcurrent ELSE Cardinality(call[c].job.srcs)
        /\ \/ /\ mode = "force" \/ s \notin Spelling \/ known = {}
              /\ Put(c, s, ToIndex(w, None, None))
           \/ /\ mode # "force" /\ s \in Spelling
              /\ \E d \in known :
                   Put(c, s, [w EXCEPT !.id = d,
                       !.ph = IF mode = "default" THEN "skipped" ELSE "read"])
        /\ UNCHANGED <<plan, file, store, graph, model, call, reb, doomed, used,
                       events, hist>>

\* Incremental mode reads the file; one it cannot read is indexed as new.
ReadFile(c, s) ==
    LET w == work[c][s] IN
    /\ w.ph = "read"
    /\ IF file[Canon[s]] = None
       THEN /\ Put(c, s, [ToIndex(w, None, None) EXCEPT !.id = None])
            /\ hist' = [hist EXCEPT !.several = @ \cup {Canon[s]}]
       ELSE /\ Put(c, s, [w EXCEPT !.ph = "old",
                             !.doc = [path |-> Canon[s], text |-> file[Canon[s]],
                                      seen |-> None, logic |-> call[c].job.logic,
                                      model |-> None, made |-> {}]])
            /\ UNCHANGED hist
    /\ UNCHANGED <<plan, file, store, graph, model, call, reb, doomed, used, events>>

\* Mutant: the content fingerprints are not compared.
ResolveActionSameLogic(w, text, logic) ==
    LET stored == store[w.id]
    IN  IF stored.logic = logic THEN [w EXCEPT !.ph = "skipped"]
        ELSE [ToIndex(w, w.id, None) EXCEPT !.id = None]

\* Mutant: the document to replace is forgotten.
ResolveActionNoOld(w, text, logic) ==
    LET stored == store[w.id]
    IN  IF stored.seen = text THEN [w EXCEPT !.ph = "skipped"]
        ELSE IF stored.logic # logic
        THEN [ToIndex(w, None, None) EXCEPT !.id = None]
        ELSE ToIndex(w, None, stored)

\* resolve_action on the stored document: the same content is skipped, other
\* pipeline options redo the document, else it is updated under its id.
ResolveAction(w, text, logic) ==
    LET stored == store[w.id]
    IN  IF stored.seen = text THEN [w EXCEPT !.ph = "skipped"]
        ELSE IF stored.logic # logic
        THEN [ToIndex(w, w.id, None) EXCEPT !.id = None]
        ELSE ToIndex(w, None, stored)

LoadOld(c, s) ==
    LET w == work[c][s]
        v == [w EXCEPT !.doc = None]
    IN  /\ w.ph = "old"
        /\ \/ Put(c, s, [v EXCEPT !.ph = "failed"])
           \/ /\ store[w.id] = None
              /\ Put(c, s, [ToIndex(v, None, None) EXCEPT !.id = None])
           \/ /\ store[w.id] # None
              /\ Put(c, s, ResolveAction(v, w.doc.text, w.doc.logic))
        /\ UNCHANGED <<plan, file, store, graph, model, call, reb, doomed, used,
                       events, hist>>

\* Mutant: the previous nodes are reused whatever made their enrichment.
SameKeyAny(d, logic) == TRUE

\* The reuse key of a document of pre-parsed nodes: options and model.
SameKey(d, logic) == store[d].logic = logic /\ store[d].model = model

\* compile_pre_parsed: the tree to reuse, if it is asked for and can be had.
LoadPrevious(c) ==
    LET w == work[c][Nodes]
        j == call[c].job
    IN  /\ w.ph = "prev"
        /\ \/ Put(c, Nodes, ToIndex(w, None, None))
           \/ /\ j.reuse /\ j.id # None
              /\ store[j.id] # None /\ SameKey(j.id, j.logic)
              /\ Put(c, Nodes, ToIndex(w, None, store[j.id]))
        /\ UNCHANGED <<plan, file, store, graph, model, call, reb, doomed, used,
                       events, hist>>

(***************************************************************************)
(* Indexing a source and persisting the document.                          *)
(***************************************************************************)
\* What the pipeline reads.
Content(c, s) == IF s \in Spelling THEN file[Canon[s]] ELSE call[c].job.text

\* Enrichment made now, reused from the base, or both.
Enrichments(base, key) ==
    IF base = None THEN {{key}} ELSE {{key}, base.made, base.made \cup {key}}

\* The pipeline ends well: a tree of the content it read, under a new uuid,
\* the id of the document it updates, or the id the caller gave.
Index(c, s) ==
    LET w == work[c][s]
        logic == call[c].job.logic
    IN  /\ w.ph = "index" /\ Content(c, s) # None
        /\ \E id \in IF w.id # None THEN {w.id}
                     ELSE IF s = Nodes /\ call[c].job.id # None
                          THEN {call[c].job.id} ELSE Fresh :
             \E made \in Enrichments(w.base, <<logic, model>>) :
               /\ used' = used \cup {id}
               /\ Put(c, s, [w EXCEPT !.id = id, !.base = None,
                     !.ph = IF s \in Spelling THEN "stamp" ELSE "save",
                     !.doc = [path |-> PathOf(s), text |-> Content(c, s),
                              seen |-> None, logic |-> logic,
                              model |-> IF s = Nodes THEN model ELSE None,
                              made |-> made]])
        /\ UNCHANGED <<plan, file, store, graph, model, call, reb, doomed, events, hist>>

\* index_with_retry has attempts left for a retryable error.
Retries(w) == w.tries + 1 < MaxAttempts

\* Mutant: a retry begins anew and forgets the attempts before.
IndexFailsAnew(c, s) ==
    LET w == work[c][s] IN
    /\ w.ph = "index"
    /\ \/ s # Nodes /\ Put(c, s, [w EXCEPT !.ph = "wait", !.tries = 0])
       \/ Put(c, s, [w EXCEPT !.ph = "failed"])
    /\ UNCHANGED <<plan, file, store, graph, model, call, reb, doomed, used, events, hist>>

\* An attempt fails; pre-parsed nodes get one, an error that is not
\* retryable ends the loop.
IndexFails(c, s) ==
    LET w == work[c][s] IN
    /\ w.ph = "index"
    /\ \/ /\ s # Nodes /\ Retries(w)
          /\ Put(c, s, [w EXCEPT !.tries = @ + 1])
       \/ Put(c, s, [w EXCEPT !.ph = "failed"])
    /\ UNCHANGED <<plan, file, store, graph, model, call, reb, doomed, used, events, hist>>

\* build_document takes the content fingerprint from the file, read again.
Stamp(c, s) ==
    /\ work[c][s].ph = "stamp"
    /\ Put(c, s, [work[c][s] EXCEPT !.ph = "save", !.doc.seen = file[Canon[s]]])
    /\ UNCHANGED <<plan, file, store, graph, model, call, reb, doomed, used, events, hist>>

\* The history once w's document is stored.  Nodes stored under the id of a
\* file's document take its place: the caller asked for that id.
SavedHist(w) ==
    LET replaced == IF store[w.id] = None THEN None ELSE store[w.id].path
    IN  [hist EXCEPT !.saved = @ \cup ({w.doc.path} \ {None}),
                     !.gone = @ \cup ({replaced} \ {None, w.doc.path})]

SaveSucceeds(c, s) ==
    LET w == work[c][s] IN
    /\ store' = [store EXCEPT ![w.id] = w.doc]
    /\ Put(c, s, [w EXCEPT !.ph = IF w.old = None THEN "done" ELSE "remove"])
    /\ hist' = SavedHist(w)

\* Mutant: the old document goes though the new one was not saved.
SaveFailsLosingOld(c, s) ==
    LET w == work[c][s] IN
    /\ w.old # None /\ store' = [store EXCEPT ![w.old] = None]
    /\ Put(c, s, [w EXCEPT !.ph = "failed"]) /\ UNCHANGED hist

\* The workspace may fail before or after the document is in it.
SaveFails(c, s) ==
    LET w == work[c][s] IN
    /\ \/ UNCHANGED <<store, hist>>
       \/ /\ store' = [store EXCEPT ![w.id] = w.doc]
          /\ hist' = [SavedHist(w) EXCEPT !.several = @ \cup {w.doc.path}]
    /\ Put(c, s, [w EXCEPT !.ph = "failed"])

Save(c, s) ==
    /\ work[c][s].ph = "save"
    /\ SaveSucceeds(c, s) \/ SaveFails(c, s)
    /\ UNCHANGED <<plan, file, graph, model, call, reb, doomed, used, events>>

\* A removal that fails is logged, and the source still counts as indexed.
RemoveOld(c, s) ==
    LET w == work[c][s] IN
    /\ w.ph = "remove"
    /\ \/ /\ store' = [store EXCEPT ![w.old] = None]
          /\ hist' = [hist EXCEPT !.due = @ \ {w.old}]
       \/ /\ hist' = [hist EXCEPT !.several = @ \cup {w.doc.path}]
          /\ UNCHANGED store
    /\ Put(c, s, [w EXCEPT !.ph = "done"])
    /\ UNCHANGED <<plan, file, graph, model, call, reb, doomed, used, events>>

(***************************************************************************)
(* The end of a call.                                                      *)
(***************************************************************************)
\* Mutant: no rebuild is spawned while another is under way.
FinishOneRebuild(c) ==
    LET srcs == call[c].job.srcs
        ids == {work[c][s].id : s \in {t \in srcs : work[c][t].ph # "failed"}}
    IN  /\ call[c].ph = "run" /\ \A s \in srcs : work[c][s].ph \in Ended
        /\ ids # {}
        /\ call' = [call EXCEPT ![c] = Answer("ok", None)]
        /\ reb' = IF \E x \in Call : reb[x].ph # "off" THEN reb
                  ELSE [reb EXCEPT ![c].ph = "list"]
        /\ hist' = [hist EXCEPT !.due = @ \cup (ids \cap Stored)]
        /\ work' = [work EXCEPT ![c] = [s \in Source |-> NoWork]]
        /\ UNCHANGED <<plan, file, store, graph, model, doomed, used, events>>

\* All sources are through: an error if none was indexed, else the graph
\* rebuild is spawned (not for pre-parsed nodes).  A call with one source
\* then loads its document.
Finish(c) ==
    LET srcs == call[c].job.srcs
        ids == {work[c][s].id : s \in {t \in srcs : work[c][t].ph # "failed"}}
    IN  /\ call[c].ph = "run" /\ \A s \in srcs : work[c][s].ph \in Ended
        /\ IF ids = {}
           THEN /\ call' = [call EXCEPT ![c] = Answer("err", None)]
                /\ UNCHANGED <<reb, hist>>
           ELSE /\ call' = [call EXCEPT ![c] =
                      IF Cardinality(srcs) = 1
                      THEN Answer("show", CHOOSE d \in ids : TRUE)
                      ELSE Answer("ok", None)]
                /\ IF Nodes \in srcs THEN UNCHANGED <<reb, hist>>
                   ELSE /\ reb' = [reb EXCEPT ![c].ph = "list"]
                        /\ hist' = [hist EXCEPT !.due = @ \cup (ids \cap Stored)]
        /\ work' = [work EXCEPT ![c] = [s \in Source |-> NoWork]]
        /\ UNCHANGED <<plan, file, store, graph, model, doomed, used, events>>

\* The document is loaded for the answer; it may be gone by now.
Show(c) ==
    /\ call[c].ph = "show"
    /\ \E ph \in {"err"} \cup (IF store[call[c].id] = None THEN {} ELSE {"ok"}) :
          call' = [call EXCEPT ![c] = Answer(ph, None)]
    /\ UNCHANGED <<plan, file, store, graph, model, work, reb, doomed, used, events, hist>>

\* Paths whose old document the dropped tasks of the calls C leave behind.
Abandoned(C) ==
    {work[x[1]][x[2]].doc.path :
        x \in {y \in C \X Source : work[y[1]][y[2]].ph = "remove"}}

\* options.timeout_secs is over: compile_pipeline is dropped at an await.
Timeout(c) ==
    /\ call[c].ph = "run" /\ call[c].job.timeout /\ Nodes \notin call[c].job.srcs
    /\ call' = [call EXCEPT ![c] = Answer("err", None)]
    /\ work' = [work EXCEPT ![c] = [s \in Source |-> NoWork]]
    /\ hist' = [hist EXCEPT !.several = @ \cup Abandoned({c})]
    /\ UNCHANGED <<plan, file, store, graph, model, reb, doomed, used, events>>

(***************************************************************************)
(* The rebuild of the graph, in the background.                            *)
(***************************************************************************)
ListForGraph(c) ==
    /\ reb[c].ph = "list"
    /\ reb' = [reb EXCEPT ![c] = [ph |-> "load", todo |-> Stored, got |-> {},
                                  n |-> hist.lists + 1]]
    /\ hist' = [hist EXCEPT !.lists = @ + 1]
    /\ UNCHANGED <<plan, file, store, graph, model, call, work, doomed, used, events>>

\* The listed documents are loaded, those that are gone or cannot be loaded
\* left out (n = 0 then).
LoadForGraph(c) ==
    /\ reb[c].ph = "load"
    /\ \E missed \in {{}} \cup {{d} : d \in reb[c].todo} :
         reb' = [reb EXCEPT ![c] = [ph |-> "set", todo |-> {},
                    got |-> (reb[c].todo \cap Stored) \ missed,
                    n |-> IF missed = {} THEN reb[c].n ELSE 0]]
    /\ UNCHANGED <<plan, file, store, graph, model, call, work, doomed, used, events,
                   hist>>

\* set_graph; if it fails the graph stays as it was.
SetGraph(c) ==
    /\ reb[c].ph = "set"
    /\ reb' = [reb EXCEPT ![c] = NoRebuild]
    /\ \/ /\ graph' = reb[c].got
          /\ hist' = [hist EXCEPT !.shown = reb[c].n]
       \/ UNCHANGED <<graph, hist>>
    /\ UNCHANGED <<plan, file, store, model, call, work, doomed, used, events>>

(***************************************************************************)
(* The user's other calls, and the world outside.                          *)
(***************************************************************************)
Remove(d) ==
    /\ store' = [store EXCEPT ![d] = None]
    /\ hist' = [hist EXCEPT !.due = @ \ {d},
                            !.gone = @ \cup ({store[d].path} \ {None})]

Forget(d) ==
    /\ Event("forget")
    /\ d \in Stored /\ Remove(d)
    /\ UNCHANGED <<plan, file, graph, model, call, work, reb, doomed, used>>

\* clear lists the documents first, then removes each.
Clear ==
    /\ Event("clear")
    /\ doomed = {} /\ doomed' = Stored
    /\ UNCHANGED <<plan, file, store, graph, model, call, work, reb, used,
                   hist>>

ClearOne(d) ==
    /\ d \in doomed /\ doomed' = doomed \ {d}
    /\ \/ d \in Stored /\ Remove(d)
       \/ UNCHANGED <<store, hist>>
    /\ UNCHANGED <<plan, file, graph, model, call, work, reb, used, events>>

Edit(p) ==
    /\ Event("edit")
    /\ \E t \in (Text \cup {None}) \ {file[p]} : file' = [file EXCEPT ![p] = t]
    /\ hist' = IF \E x \in Busy(p) : work[x[1]][x[2]].ph = "stamp"
               THEN [hist EXCEPT !.torn = @ \cup {p}] ELSE hist
    /\ UNCHANGED <<plan, store, graph, model, call, work, reb, doomed, used>>

\* The process ends and is started again, maybe with another model; files
\* and workspace stay.
Restart ==
    /\ Event("restart")
    /\ model' \in Model
    /\ call' = [c \in Call |-> IF call[c].ph \in {"run", "show"}
                               THEN Answer("err", None) ELSE call[c]]
    /\ work' = [c \in Call |-> [s \in Source |-> NoWork]]
    /\ reb' = [c \in Call |-> NoRebuild]
    /\ doomed' = {}
    /\ hist' = [hist EXCEPT !.several = @ \cup Abandoned(Call),
                            !.lists = IF reb = [c \in Call |-> NoRebuild]
                                      THEN @ ELSE @ + 1]
    /\ UNCHANGED <<plan, file, store, graph, used>>

SourceStep(c, s) ==
    \/ Resolve(c, s) \/ ReadFile(c, s) \/ LoadOld(c, s)
    \/ Index(c, s) \/ IndexFails(c, s) \/ Stamp(c, s)
    \/ Save(c, s) \/ RemoveOld(c, s)

Advance(c) ==
    \/ \E s \in Source : SourceStep(c, s)
    \/ LoadPrevious(c) \/ Finish(c) \/ Show(c)

Rebuild(c) == ListForGraph(c) \/ LoadForGraph(c) \/ SetGraph(c)

Next ==
    \/ \E c \in Call : Request(c) \/ Advance(c) \/ Timeout(c) \/ Rebuild(c)
    \/ \E d \in Id : Forget(d) \/ ClearOne(d)
    \/ Clear \/ Restart \/ \E p \in Path : Edit(p)

\* The runtime polls a task while one is ready, and the pipeline ends (module
\* Pipeline: CompileEnds).
Spec == Init /\ [][Next]_vars /\ WF_vars(\E c \in Call : Advance(c))

(***************************************************************************)
(* Properties.                                                             *)
(***************************************************************************)
\* A path that was compiled keeps a document until the user removes one of
\* it: re-indexing saves first and removes the old document afterwards, so no
\* failure, timeout, crash or overlap of compiles loses the last one
\* (engine.rs, index_and_persist).
IndexedStaysIndexed ==
    \A p \in hist.saved \ hist.gone : \E d \in Stored : store[d].path = p

\* A path has one document but while a compile has yet to remove the one it
\* replaced, unless compiles of it overlapped, one was forced,
\* named it otherwise, could not read it, or left the old document behind
\* (engine.rs, resolve_index_action and process_source).
OneDocumentPerPath ==
    \A d, e \in Stored :
        store[d].path = store[e].path /\ store[d].path # None
            => \/ d = e \/ store[d].path \in hist.several
               \/ \E x \in Call \X Spelling :
                     /\ work[x[1]][x[2]].ph = "remove"
                     /\ work[x[1]][x[2]].old \in {d, e}

\* An incremental compile skips a file only if its document was made of the
\* content the file has, unless the file was edited between the pipeline's
\* reading of it and the fingerprint's (resolver.rs, layer 1).
SkipMeansCurrent ==
    [][\A c \in Call, s \in Spelling :
         LET w == work[c][s] IN
         w.ph = "old" /\ work'[c][s].ph = "skipped" =>
             \/ store[w.id].text = w.doc.text \/ Canon[s] \in hist.torn]_vars

\* No document carries enrichment made by other pipeline options than its
\* own, and one of pre-parsed nodes none made by another model either
\* (engine.rs, compile_pre_parsed; resolver.rs, layer 2).
EnrichmentOfOwnKey ==
    \A d \in Stored : OwnKey(store[d])

\* When all is quiet and the graph is of the last listing made, no document
\* a compile answered with is missing from it (engine.rs, rebuild_graph).
GraphCovers ==
    /\ \A c \in Call : call[c].ph \in {"new", "ok", "err"} /\ reb[c].ph = "off"
    /\ hist.shown = hist.lists
    => hist.due \subseteq graph

\* Every compile comes to an answer: attempts are bounded, and one source
\* that fails does not hold up the others (engine.rs, index_with_retry).
CompileReturns ==
    \A c \in Call : call[c].ph = "run" ~> call[c].ph \in {"ok", "err"}
=============================================================================
