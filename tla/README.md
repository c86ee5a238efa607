# vectorless in TLA+

Specifications of vectorless, a document understanding engine: a Rust core
that compiles documents into trees with indices and keeps them in a workspace
directory, and a Python layer that answers questions by navigating them.
Paths below are relative to `src/`; `crates/` holds the Rust workspace.

- [Inventory](#inventory), [Modules](#modules), [Runs](#runs),
  [Proofs](#proofs), [Not modelled](#not-modelled), [Plan](#plan)

## Inventory

| Component | State | Operations | Interacts with |
|---|---|---|---|
| Workspace store, `crates/vectorless-storage/src/workspace.rs`, `cache.rs` | documents, `meta`, `catalog` and `_graph` files; in memory both indices, an LRU cache, the graph; a tokio `RwLock` | open, add, load, load_and_cache, remove, clear_cache, get/set/invalidate_graph | storage backend (synchronous calls under the lock), engine |
| Storage backend, `backend/file.rs` | one file per key, a cached key listing | get, put (temporary file and rename), delete, clear, keys | file system |
| Persistence, codec, lock, migration | none | checksummed serialisation; `FileLock` and migrations, which nothing calls | backend |
| Pipeline orchestrator, `crates/vectorless-compiler/src/pipeline/` | stages, compile context, stage results, a checkpoint file per document id | resolve order, group, execute, retry, merge, checkpoint, resume | passes, LLM client, checkpoint files |
| Compiler passes, `passes/` | the context they are given | fifteen passes from parse to optimize | LLM client, memo store |
| Incremental compilation, `incremental/` | fingerprints in stored documents | skip, update or rebuild; change detection, reuse of summaries | engine, passes |
| Parsers and TOC pipeline, `parse/` | none kept | Markdown and PDF; TOC detection, verification, repair, degradation | LLM client |
| Engine, `crates/vectorless-engine/src/` | the workspace, background graph rebuilds | compile, compile_pre_parsed, forget, clear, list, load | all of the above |
| LLM client, `crates/vectorless-llm/src/` | semaphore, rate limiter, memo store, fallback chain | complete with throttle, retry, fallback | providers |
| Document model, `crates/vectorless-document/src/` | tree arena, indices | build, look up | passes, navigator |
| Navigation primitives, `crates/vectorless-primitives/src/` | cursor, breadcrumb, history, evidence | cd, back, cat, collect, clear, and queries | document model, Python |
| Cross-document graph, `crates/vectorless-graph/src/` | builder | add documents, nodes, edges, trim | engine |
| Metrics, events, config, errors, utilities | counters, callbacks | record, notify | everyone |
| Python ask, `vectorless/ask/`, `consolidate.py` | evidence of an ask, route cache file | plan, scout, verify, pick, beam, consolidate, second round | engine bindings, LLM |
| Python facade, CLI, bindings | none of their own | argument conversion, streaming | engine, ask |

What is hard, and what would make each correct:

- **Workspace.** Several backend calls per operation, each of which may fail,
  a process that may die between them, loads that check the index under one
  lock and fill the cache under another. Correct: what a completed call left
  is what is served, now and after a restart; the indices agree with it; the
  cache stays within its capacity and holds nothing removed.
- **File backend.** A put is a temporary file and a rename, unsynced; a
  listing is cached beside the directory. Correct: a load gives what completed
  calls let one expect or, after damage only, an error; a listing names every
  file.
- **Pipeline.** Passes of a group run concurrently on copies of a context and
  fail under different policies; the merge, the checkpoint and a resume must
  add up. Correct: dependencies settled before a pass runs, nothing executed
  twice, edits of the main tree kept, checkpoints that are consistent cuts.
- **Documents.** Text and nodes go through thinning, build, split, merging,
  while indices built on the way keep naming nodes. Correct: no text lost, no
  index that leads nowhere, no summary reused for another text.
- **Engine.** Concurrent compiles of one source, a background graph rebuild
  racing them, timeouts that drop a compile at any await, a failure between
  saving the new document and removing the old one. Correct: a compiled path
  keeps a document, one document, of its own options, that the graph covers.
- **LLM executor and enhance.** Permits held through backoff, a fallback that
  resets the retry count, answers in any order, a memo store without single
  flight. Correct: permits conserved, attempts bounded, every summary of its
  own text.
- **TOC pipeline.** Verify-and-repair loops, degradation of modes. Correct: a
  repair spares what was right, what is accepted was verified, it ends.
- **Ask.** Scouts that overlap, cached routes of other asks, a second round.
  Correct: a hit was accepted for such a query, evidence is neither doubled
  nor lost, calls stay bounded, every ask returns.

`PROJECT.json` lists every hazard found, at its line, with the properties that
cover it or the reason none does.

## Modules

| Module | What it is | Extends |
|---|---|---|
| `DocStore` | Abstract: what a document store promises. `shown[d]` is what a load returns, `may[d]` what the calls so far allow it to return. | |
| `Workspace` | The workspace store. | |
| `WorkspaceProofs` | Its theorems. | `Workspace` |
| `SharedWorkspace` | Two processes (`A`, `B`, two instances of `Workspace`) on one directory. | |
| `KeyStore` | Abstract: what a persistent key-value store promises. `shown[n]` is what a load gives, `may[n]` what the calls so far allow, `kept[n]` what the disk has for sure. | |
| `FileStore` | The file backend and the envelope of a stored document. | |
| `FileStoreProofs` | Its theorems. | `FileStore` |
| `PassOrder` | `resolve_order` and `compute_execution_groups` for any table of passes: the order, the positions and levels of it, and when there is none. | |
| `CompilerPasses` | The table of the fifteen passes: priority, dependencies, policy, declared and actual writes. | |
| `Pipeline` | `PipelineOrchestrator::execute` for any such table. | `PassOrder` |
| `PipelineProofs` | Theorems about the order of passes, the pipeline, the trees of documents, what a compile reuses and the evidence of a navigator. | `Pipeline`, `Navigator` |
| `DocumentTree` | The arena of nodes, with lookups and structure numbers. | |
| `MarkdownParser` | From the events of the Markdown parser to raw nodes. | `DocumentTree` |
| `TreePasses` | Thinning, build, split, enrich and optimize. | `DocumentTree` |
| `DocumentIndices` | The navigation and the reasoning index, and the resolution of targets. | `DocumentTree` |
| `DerivedIndices` | What validate, concept, route, chain, overlap and score derive. | `DocumentTree` |
| `NavigatorQueries` | grep, search, similar, head, statistics, page lookups. | `DocumentIndices` |
| `ChangeDetection` | Fingerprints, `detect_changes`, reusable summaries. | `DocumentTree` |
| `Documents` | A document through all of these, and compared with its next version. | `MarkdownParser`, `TreePasses`, `NavigatorQueries`, `DerivedIndices`, `ChangeDetection` |
| `Navigator` | A navigator over a finished document. | `Documents` |
| `Subsequences` | What is left of a sequence when elements go from its midst. | |
| `LlmExecutor` | Throttle, retry and fallback of a call. | `Subsequences` |
| `MemoStore` | The LRU memo store with expiry and file. | `Subsequences` |
| `Enhance` | The enhance pass over both. | `LlmExecutor`, `MemoStore` |
| `EnhanceProofs` | Theorems about the calls, the memo store and the pass. | `Enhance` |
| `TocPages`, `TocProcessor` | The TOC pipeline: its pure parts, its steps. | |
| `TocProofs` | Theorems about verification and repair. | `TocProcessor` |
| `Engine` | Compile calls, forget, clear, the graph rebuild, over one workspace. | |
| `EngineProofs` | Its theorems. | `Engine` |
| `CrossGraph` | The builder of the cross-document graph. | |
| `GraphRebuild` | From a compiled document to the graph. | `Navigator`, `CrossGraph` |
| `CrossGraphProofs` | What a finished graph says, and with which weights. | `CrossGraph` |
| `RouteCache`, `Ask` | The route cache; the pipeline of a question. | `Subsequences` |
| `AskProofs` | Theorems about both. | `Ask` |
| `MC...` | Instances for TLC. | |

Definitions whose comment starts with "Mutant:" are variants of the definition
that follows them, broken the way a bug would break it. No specification uses
them; they show that the properties can fail.

How the modules fit: `Engine` takes the pipeline as one step, because
`Pipeline` shows that it ends, and the workspace's calls as atomic, because
`Workspace` shows what the lock hides. `Workspace` takes a backend call as
atomic, which `FileStore` shows for calls under the lock. `Pipeline` does not
look into passes; `Documents` and `Enhance` are what they do. `Ask` takes what
the indices answer as a constant; `NavigatorQueries` and `DerivedIndices` are
those answers. `GraphRebuild` puts the builder behind `Documents`: a document
that was compiled brings the topics of its own reasoning index.

### Workspace

The disk is six variables: `docs` (the document under each id), `metaFile` and
`catalogFile` (which version each index entry describes), `metaSaved` and
`catalogSaved` (the key exists, which decides between loading and rebuilding),
`graphFile`. Memory is `meta`, `catalog`, `cached` with its recency order
`older`, `graph`, `up`, the writer `op` that holds the lock, and for each task
the load `pend` that is between its two locks. `may` is a history variable.

A document is abstracted to its version; `Carded` are the versions whose
navigation index has a `DocCard`. `add` is `StoreDocument` (put, index entry),
then either `SaveMetaLast` (no card) or `SaveMetaIndex` and
`SaveCatalogIndex`; `remove` is `DeleteDocument` and the same saves. The lock
makes these steps invisible to other tasks (`Free` guards every other
action), but not to `SaveFails`, the `?` after each backend call, nor to
`Crash`. `Finish` is the tail both share. A failing first call changes nothing
and is a stutter. Opening is two steps, because each index is loaded or
rebuilt, and saved, on its own.

`load` and `load_and_cache` are `LoadHit`, or `LoadMiss` followed by
`LoadFinish` or `LoadFails`. `get_graph` with a cold memory copies the file and
is subsumed in what the graph variables say.

### FileStore

A step is one call of the file system. `files`, `tmps` and `durable` are what
is in the directory and what is on the disk for sure; `listing` is the cached
listing; `last` is a history variable: what the calls that returned let a load
expect. `Bytes` and `Loaded` are the envelope: format, checksum, schema
version. `FileOf` lets two keys share a file, as `key_to_path` replaces
characters. `Crash`, `PowerLoss` (takes back what was not `Flush`ed) and
`Damage` are the faults. A checksum is taken to tell a damaged file from a
whole one: no flipped byte mends another, nor makes up for the digest.
`OlderAssumption`: a file another program left with a sound envelope has a
document in it.

The backend is a `KeyStore` (`IsKeyStore`): the content of a name is what a
load makes of its file. A put or a delete begins when its content may first be
seen (`Begin`), takes effect with the rename or the removal (`TakeEffect`), and
is the one content there is when it returns Ok (`Commit`); `Flush` is `Sync`.
Temporary files, the cached listing, a crash and every failing call change
nothing of what the store shows; a loss of power may take back what was not
written back, to what the disk had or to an error.

### Pipeline

`Start` resolves the order of the registered passes and refuses them, before
any has run, if a dependency is unknown or there is a cycle (`Resolves`).

A compile context is abstracted to the set of passes whose output each field
holds. The tree is edited in place and collects them; every other field is
assigned and holds the last one. `OpenGroup` starts a group, `PassSucceeds` and
`PassFails` are the end of one execution of a pass (`Attempts` bounds the
retries), `GroupCompletes` merges and records, `GroupFails` is the early
return, `SaveCheckpoint` the save at the end of the loop body, `SkipGroup` the
path for a group whose results came from a checkpoint, `Finish` the end.
`Interrupt` is a crash or the engine's timeout. A save that fails is only
logged in the code, so every save may leave the file as it was. No pass edits
the fields modelled before it returns an error, which is why `PassFails`
leaves the context alone.

`DocId` maps compiles to document ids. The code draws a fresh id for every
context (`FreshId`); `with_doc_id` exists and the resume code assumes ids
recur, which `SameId` models, so that the resume code is checked and not only
found to be unreachable.

### Documents and Navigator

A text is a sequence of pieces with sizes; a piece is what it says, so text
that is lost, doubled or put in another order is seen. The stages of
`Documents` are the passes in the order `Pipeline` gives them: `Parse`,
`Build`, `EditTree` (split, enrich or each), `Index`, `OptimizeTree`, `Verify`.
Which pass may write the tree is an option, as the merge drops the tree of all
but one pass of a group: split if it is registered, else enrich, and each of
them only where passes are registered one behind the other; only then are the
derived indices kept. `Recompile` puts an edited source through the same steps
and keeps the first tree as `old`. `Navigator` adds the cursor, the breadcrumb,
the history and the evidence of `DocumentNavigator`; its queries read.

### Enhance

A caller per node. `Collect` decides for each node, in one step as the loop
has no await: reuse from the previous version, the short text itself, or a
call. `StartTask` looks in the memo store, then `LlmExecutor` runs: token,
permit, `Attempt` with any outcome, `Wake` after the backoff. `TakeAnswer` and
`TaskFails` are what the pass does with a result, `WriteBack` its end, after
which the tree is the previous version of the next pass. `Abandon` is a
dropped compile and `Restart` a new process with another fallback chain; a
pass is `ended` or `abandoned`. The memo store is a sequence, most recently
used first; what a `pop` or an expiry leaves of it is `At` of its places. A
file of the store may hold its entries in any order, as a hash map is saved.

### TocProcessor

`Detect`, `Parse`, `Complete` (continuations), `Assign`, `Verify`, `Repair`,
`Extract` (no table), `Refine`, `MakeNodes`, with `Degrade` between the modes.
The model may name any page; only when it is asked whether a title stands on a
page does it tell the truth.

### Engine

`Request` is the call; then per source `Resolve`, `ReadFile`, `LoadOld`,
`LoadPrevious`, `Index` or `IndexFails`, `Stamp` (the second reading of the
file, for the fingerprint), `Save`, `RemoveOld`; `Finish` collects and spawns
the rebuild (`ListForGraph`, `LoadForGraph`, `SetGraph`), `Show` loads what was
stored. `Timeout` drops a call, `Forget`, `Clear` with `ClearOne`, `Edit` of a
file and `Restart` with another model interleave. `hist` records what the
properties need: overlaps, edits between the two readings, failed removals, and
that pre-parsed nodes were stored over a document under `StableId`. A behaviour
starts with whatever documents earlier sessions left, among which a path may
have several, and a document may be of content its file never had (`hist`
starts with those).

### CrossGraph

`AddDocument` takes the topic entries of a document, in the order loads end;
`AddNode` keeps the heaviest keywords of one (`tops`) and lists them in the
inverted index (`byKeyword`), `ComputeEdges` finds pairs through it, `TrimEdges`
keeps the heaviest edges of each node. The evidence of an edge, `SharedKeyword`,
has the two weights in the order of the lists, as in the code. Weights are
scaled to integers by `Scale`. Which of equal keywords or edges are kept is up
to a hash map and an unstable choice, and so any of the heaviest in the model.

In `GraphRebuild` a compile ends first (`StartRebuild`), with a document or
not: a rebuild follows a compile some source of which succeeded. The document
compiled there brings `index.reasoning.weights`, the others any of `Topics`.

### Ask

A step is what happens between two answers of the model. `made` counts the
requests: `QueryAnalysed` is one, and reads the cache file; `Planned` parses
the plan (`DispatchPlan`, with the line whose number is no document's),
`ScoutBegins` takes a place of the semaphore, loads the document and goes
through cache, candidates and fast path; `Verified`, `Picked` and `Beamed` are
the three requests of a scout; reads that run together end in any order and may
double (`Together`). `Collected` gathers the results in the order they came and
consolidates, `Synthesized` answers and may start round 2. A sort by score is a
rank, the number of nodes ahead of one (`Ahead`), and so is the order of hits
in which routes are evicted (`Before`); `Lookup` is a set of at most one route.
`accepted` is a history variable. A finished ask is forgotten (`Closed`,
`Taken`), so that states of different pasts are one.

## Runs

| Run | Instance | Question | Result |
|---|---|---|---|
| `workspace` | 2 documents, 2 versions (one with a card), 1 graph, 1 loading task, cache of 1; 965,126 states | Is what completed calls left served, kept over crashes, and indexed? Does the workspace implement `DocStore`? | holds |
| `shared_workspace` | 2 processes with a document each | Is one process's stored document safe from the other? | violated |
| `storage` | 3 keys on 2 files, 2 documents, 2 threads, 2 writes, 2 faults, older files of two kinds; 1,121,502 states | Does a load give what the calls promise over crashes, power losses and damage? Does the listing name every file? Does the backend implement `KeyStore`? | holds |
| `pipeline` | 11 passes, a group of each shape, 2 compiles with one id, 2 inputs; 227,367 states | Order, merge, checkpoints, resume and end of a compile | holds |
| `pipeline_merge` | 8 passes, 1 compile | Is everything a group wrote in the main context afterwards? | violated |
| `pipeline_restart` | 8 passes, 2 compiles with fresh ids | Does a restart skip completed passes? | violated |
| `documents` | 8 sources, Markdown and pre-parsed with pages, all options, 6 edits, navigations of 4 moves; then a graph of 3 documents with 8 topic profiles; 875,614 states | Is all text reachable, does every index lead somewhere right, is reuse sound, is evidence collected once? Does the graph say what is shared, in any order of loads? | holds |
| `enhance` | 3 nodes, 2 versions, 2 models, 1 permit, memo of 1; 319,534 states | Are permits and attempts conserved, does every summary describe its own node, does the pass end? | holds |
| `toc` | 4 documents of up to 3 pages, 2 titles; 71,928 states | Is what is accepted right, does a repair spare the rest, does it end? | holds |
| `engine` | 1 file with 2 spellings, 2 calls, 5 ids, 2 logics and models; 148,158 states | What do overlapping compiles, failures, timeouts and edits leave in store, graph and answers? | holds |
| `graph_weights` | 3 documents, 8 topic profiles | Does the evidence of an edge have the weights of the documents it names? | violated |
| `ask` | 2 asks, 2 documents, 1 place, cache of 1; 113,520 states | Were cache hits accepted, does an output hold together, does round 2 keep evidence, does every ask return? | holds |

### Bounds

- `workspace`: two documents are enough for one to be disturbed by calls on
  the other, and more than the one cache slot holds; two versions let an
  overwrite change content and card. Calls, crashes and restarts are not
  bounded. With a cache of one an eviction has no choice of its victim; that
  the order of use relates every two documents one way, for any capacity, is
  proved (`CacheBoundedAlways`).
- `storage`: two keys share a file and a third has its own; `MaxWrites` lets a
  second put meet what a fault in the first left, `MaxFaults` a crash and a
  damage meet. Damage happens between calls. Symmetric are the threads, and
  the two keys of one file, which only their file tells apart. Files of other
  programs are of a newer schema (an error) and of schema 0 (read as it is).
- `pipeline`: eleven of the fifteen passes keep one group of each shape
  (single, a tree writer with readers and a second would-be writer, readers
  only, a tail of singles). `MaxRuns` is two: a second compile is all that can
  resume, and whatever it leaves is again a checkpoint of the same kind.
- `documents`: sources are chosen for what happens to them (small neighbours
  that merge, long texts that split, a preamble, text without a heading, gaps
  between levels, equal titles, pages and references, emptiness); grep's limit
  of 2 and search's of 3 are both reached. Two of the sources are navigated.
  After two of them, one of which fails to compile, a graph is rebuilt
  (`Rebuilt`): the document compiled has the middle id, so that others come
  before and behind it in the order of ids as in that of loads; the profiles
  are over four words, some with equal weights, one more than is kept, and
  there is one more edge than a node keeps. `Unit` of 24 makes the topic
  weights of the index, which are fractions, whole numbers.
- `enhance`: one permit for three callers makes them wait; the memo of one
  evicts; two versions exercise reuse; `MaxTotal` bites before both models are
  used up. `Concurrency` of two never bites with two calls.
- `toc`: `MaxRetries` and `MaxRepairs` are small and both reached; a page named
  is one of the document's or one beyond. Page 0 is left out (see below).
- `engine`: two calls are enough for an overlap, and each gets two attempts.
  `MCEngine` lists eleven plans: pairs of calls, in order or overlapping, with
  at most one event among edit, forget, clear and restart. Failures of the
  workspace, of the pipeline and timeouts may happen in all of them.
- `graph_weights`: the same profiles and limits, the builder alone.
- `ask`: the two queries' keywords overlap by eight tenths, so that one hits
  what the other recorded; one document's candidates are corroborated, the
  other's come from the table of contents; one place makes scouts wait and one
  entry makes the cache evict. `MaxLlmCalls` is 0, unlimited, as in the program.

Deadlock is checked where a system goes on for ever (`workspace`). The other
systems stop when all they were asked is done.

### Fairness

`Workspace` and `FileStore` claim safety only and have none. Elsewhere weak
fairness is stated of what the runtime polls, and nothing of faults, edits or
new calls:

- `Pipeline`: `Progress`, all steps of a compile. A pass returns because all
  it waits for are LLM calls with bounded attempts.
- `Enhance`: each caller's task, the pass's own steps and the refill of the
  rate limiter. That a request is answered or fails is assumed of the provider:
  the Rust client's `request_timeout_secs` is 0 by default, which is none.
- `Engine`: the disjunction of the calls' steps, one fairness for all of them,
  as the runtime polls a ready task while there is one.
- `TocProcessor`: each of its steps; refinement may end at once.
- `Ask`: the steps of each ask. A request has a timeout of 120 s
  (`DEFAULT_TIMEOUT`) and its retries are bounded.

### What the violations show

- `shared_workspace`: `file_lock` ("Enable file locking for multi-process
  safety", on by default) has no effect. Each process saves the whole index
  from its own memory, and the second one drops the first one's entry.
- `pipeline_merge`: a group's outputs are said to be merged by access pattern,
  and `merge_reader_outputs` copies three fields. The summaries `enhance`
  writes into its copy of the tree are among what is lost.
- `pipeline_restart`: checkpoints are stored under an id no later compile has.
- `graph_weights`: of a shared keyword an edge is said to hold the "weight in
  source document" and the "weight in target document". `compute_edges` puts the
  smaller id first as the source, but takes the weights in the order in which
  the documents were loaded: where the larger id was loaded first, both edges of
  the pair have them exchanged. `GraphSaysWhatIsShared` therefore says exactly
  when they are in place and when exchanged.

### Seen while modelling

Documented otherwise, without a run of its own:

- `siblings` is to exclude the node itself
  (`crates/vectorless-document/src/tree.rs:393`), `ancestors_iter` to go from
  the parent to the root (`tree.rs:402`) and `path_from_root` to be the path
  including the node (`tree.rs:409`). The arena's `preceding_siblings`,
  `following_siblings` and `ancestors` include the node they start from, so
  `siblings` lists the node, and a path ends in it twice. The model does as the
  code does; `QueriesAgree` says of siblings what holds of the other nodes, and
  of a path that it leads from the root to the node by `ls`, whether or not the
  node is repeated, so that it takes no side.
- `search_descendants` is documented as breadth first (`resolve.rs:84`, 108 and
  112, of `crates/vectorless-primitives/src/`); its frontier is last in first
  out.
- The comment on `logic_fingerprint`
  (`crates/vectorless-compiler/src/config.rs:337`) says that changed options
  reprocess unchanged content as well; `resolve_action` skips it before it
  compares options, as its own comment says.
- `FallbackBehavior::Fallback` is to fall back to the next model immediately
  (`crates/vectorless-config/src/llm_pool.rs:402`); the executor retries first.
- The route cache is to hold verified routes (`vectorless/ask/route_cache.py:3`);
  a verify call that raises counts as verified. `HitsWereAccepted` speaks of
  routes accepted in this sense.

Nothing in the repository says otherwise of the rest, or a property is stated
around it.

Storage. The checkpoint lists passes that failed under a Skip policy as
completed, and a resume records them as successes, which is why
`MainTreeEditsKept` speaks of passes this compile executed. `clear` of the
file backend that fails midway keeps a stale listing. Puts of one key without
the workspace lock would share a temporary file. `is_locked` is false under a
shared lock.

Engine. `find_by_source_path` compares spellings while documents store the
canonical path, so another spelling indexes again; force mode leaves the old
document; `compile_pre_parsed` never rebuilds the graph; of two racing rebuilds
the older may win; `build_document` reads the file a second time; the
fingerprint of a file's document excludes the model, that of pre-parsed nodes
includes it.

LLM. A timeout is recorded twice in the metrics; an empty answer is cached and
later hits fail the node; the key under which the fast path of enhance looks
differs from the one answers are stored under, so it never hits;
`MemoKey::summary` has no model; saving and loading the memo has no callers.

TOC. Blank pages are left out of the stored pages and pages are looked up by
position, so `AcceptedAreRight` is stated for documents without them; a page 0
from the model underflows; refinement truncates absolute pages of
sub-entries; results of concurrent requests are paired in the order they end
(`assign_with_llm`); a table none of whose entries is located has accuracy 1.

Documents. The preamble is lost when the first heading's section has text, and
text after an empty heading is lost, so `TextReachable` speaks of texts below
titled headings; with `create_preamble_node` off, which no builder sets, the
text of the first section is taken for a preamble and lost
(`finish_current_node`), so it speaks of the default, on; nested thinning may
double text; optimize runs after the indices, so routes, chains, scores and
overlaps name merged, emptied nodes; `back` rebuilds a breadcrumb with the
cursor twice, along such a path; grep goes on with the last child first, so
that its limit favours late sections; a reference at the end of a sentence
never resolves; equal titles hide changes from `detect_changes`;
`compute_reusable_summaries` and `ChangeDetector` have no callers.

Graph. Trimming drops one direction only; which of equal keywords stays is up
to a hash map.

Ask. A plan's line without a valid number sends a second scout into the
preceding document, with that line's task; the calls an output reports are not
those made: the request that analyses the query (`dispatcher.py:40`,
`analyzer.py:83`) is never counted (`orchestrator.py:181` and 304) and a
failing plan is not either, while a fast path that read nothing counts a call
that was not made, which is why `OutputHolds` allows for one request more than
is reported; an ask loads the cache file when it starts and rewrites it whole,
so that overlapping asks lose each other's routes; ids stay the same in an
update, so that cached routes may go stale, and hits are not verified;
deduplication keys by document name and title path; evidence that loses to a
source dropped later as a near-duplicate is lost with it.

## Proofs

TLAPS proves, for every value of the constants that satisfies the named
assumptions (numbers of documents, callers, threads, tasks and models, tables,
limits, and what the model, the disk or a user may do):

| Module | Proved | From |
|---|---|---|
| `WorkspaceProofs` | `TypeOK`, `ServedIsCommitted`, `RestartKeepsCommitted`, `IndexMatchesCommitted`, `CachedIsIndexed`, `CacheBounded`, `GraphMirrorsFile`; `Workspace` implements `DocStore` (`Refinement`) | `None` is no document, version or graph; carded versions are versions; the capacity is a number |
| `PipelineProofs` | of `PassOrder`: passes have an order exactly when no dependency is unknown and there is no cycle (`OrderExists`), it takes the least priority that is ready (`OrderIsByPriority`), each pass is one level above the highest it depends on (`LevelsAreTight`); every safety property of the `pipeline` run; `EvidenceIsCollected` of `Navigator`; `ReuseIsSound` and `TextReachable` of `Documents`, and that the tree of every stage is a tree (`TreeShapeAlways`) | the passes are finitely many and have priorities of their own; a policy allows an attempt; the tree is a field the merge does not copy and a checkpoint keeps; if the passes have an order, no two of a group declare one merged field; sources are sequences of blocks or of raw nodes with levels that are numbers (`SourcesAssumption`), and so are the heading levels (`LevelsAssumption`); thinning is off, drops or merges (`OptionsAssumption`) |
| `EngineProofs` | every safety property of the `engine` run, and `TypeOK`: `IndexedStaysIndexed`, `OneDocumentPerPath`, `EnrichmentOfOwnKey`, `GraphCovers`, `SkipMeansCurrent` | `EngineAssumption`: spellings have a canonical path, `None` is nothing else, the documents of earlier sessions carry enrichment of their own options and have a fingerprint only if they have a path |
| `FileStoreProofs` | `LoadIsPromised`, `FilesAreListed`; `FileStore` implements `KeyStore` (`Refinement`) | `FileStoreAssumption`: a key has a file name, finitely many of them; absence is no document; `OlderAssumption` |
| `EnhanceProofs` | `CallsFollowPolicy`, `SummaryOfOwnContent`, `EnhanceCovers` | `LlmAssumption`, `MemoAssumption`, `EnhanceAssumption`: finitely many callers, one permit or more, chains are sequences, trees are of nodes |
| `TocProofs` | `AcceptedAreRight`, `RepairSparesCorrect` | the threshold is a number |
| `CrossGraphProofs` | `GraphSaysWhatIsShared` | ids are ordered (as numbers), a document has finitely many keywords, the limits are numbers, `Scale` divides |
| `AskProofs` | `HitsWereAccepted`, `OutputHolds`, `GapKeepsEvidence` | `AskAssumption`, `EntriesAssumption`: the cards are a sequence, the answers of the model have their types and plans are finitely many, at least one worker |

None of these properties is inductive alone. What they needed, and why:

- **Workspace.** `ServedIsCommitted` needs to know that everything a load could
  still return is allowed (`HistoryInv`), how far the writer that holds the
  lock has come (`WriterInv`), that a catalog which does not exist describes
  nothing (`CatalogInv`), and that a load between its locks can only see an
  indexed document or none (`LoadInv`). The refinement follows from
  `HistoryInv`: a first backend call is `Begin`, a return with Ok is `Commit`,
  and every other step is `Waver`. `CacheBounded` is proved from `CacheInv`:
  the recency order is a strict order of what is cached, and its ranks bound
  the number.
- **PassOrder.** `Resolved` repeats `Pop` as many times as there are passes.
  `KahnOrder` is what each round keeps: no pass twice, each behind what it
  depends on, and the least that was ready at its place. If rounds stop early
  the passes left over all depend on one another, which is the cycle. Levels
  are a recursive function over rounds; that it exists, and that no round after
  the longest chain changes it, are inductions over the rounds.
- **Pipeline.** The key is `ClosedInv`: results always cover whole groups and
  all earlier ones, also after a resume, because a checkpoint is only saved
  between groups. With `LoopInv` it says that an open group has all results or
  none, which gives `ExecutedOnce` and `DependenciesSettled`; `TreeInv` relates
  the tree to the results and makes every save consistent. `OkMeansAllRan`
  needs the levels to be contiguous (`NoEmptyLevel`), or the loop would end at
  a gap, and that nothing runs without an order (`LoopInv`).
  `MainTreeEditsKept` and `DeclaredOutputsMerged` are inductive with the types:
  a merge never touches the tree (`MergedContextType`), and a merged field is
  that of the one reader which declares it (`MergedFromReader`).
- **Engine.** A task that replaces a document may only remove it because what
  it writes has an id of its own: `IdInv` (ids in use were given), `PrivateInv`
  (no other task, and no stored document, has the id of a document to come) and
  `PathInv` (an id goes with one path). From these, `KeptInv` says that an
  indexed path has a document nobody is about to remove, which is stronger than
  `IndexedStaysIndexed` and inductive. `OneDocumentPerPath` needs that a task
  on a path no other task meets is alone (`AloneInv`) and claims all documents
  of it (`OwnedInv`). `KeyInv` carries options and models from the document to
  be reused to the one to be stored. `GraphInv` says of every rebuild still
  under way that its list covers what is due, if no later listing exists; what
  is due is only ever removed by a user.
- **FileStore.** `StageInv` says at each step of a call what is in its
  temporary file, in its file and in the listing it is making; it survives the
  steps of others because a writer is alone (`LockInv`). `FitInv` extends
  `LoadIsPromised` from loads to files. `ListInv` allows a stale listing only
  between the rename of a put and its invalidation. The refinement needs
  `WholeInv` as well: no file is sound and yet empty, so that a file which a
  loss of power tears was seen before. A writer's rename is a change to a
  content it has begun because `StageInv` says what its temporary file holds.
- **Documents.** `DocInv` says of every stage that the raw nodes are such
  (`IsRaw`) and that the tree is one (`TreeShape`): each node but the root is
  in one place of the list of one other with a smaller number, which it names
  as its parent, and the cached leaves are the nodes without children, each
  once. Before split it needs that texts are sequences. Every pass is a
  function that a fold builds, step by step; that the function exists and what
  each step keeps are inductions over the steps (`StepByStep`). Two passes grow
  the tree, by `AddChild` only (`AddChildShape`); the others write into nodes
  (`NodesWritten`). From the shape follow what `ReuseIsSound` stands on:
  `Traverse` puts out every node once (`TraverseIsAll`), so that a title which
  is alone finds its node (`ByTitleFinds`); `Subtree` is the least set closed
  under children (`SubtreeIsClosure`); and fingerprints exist, from the largest
  number down, and equal ones have equal fingerprints below
  (`SameFingerprint`). For `TextReachable`, `DocInv` also follows the text: after
  the parser what stands below titled headings is in the raw nodes
  (`ExtractNodesSays`), after build what the raw nodes have is in the tree unless
  thinning drops (`KeptSays`, `BuildTreeSays`), no later pass loses a piece
  (`SplitTreeSays`, `EnrichSays`, `OptimizeSays`), and the navigation index leads
  from a node to exactly its children (`NavIndexLeads`), also after optimize,
  which moves text and no node. As a parent has a smaller number, every node is
  found from the root by an induction over numbers (`AllReachable`).
- **Navigator.** `EvidenceInv`: the evidence is a list, and there is none before
  a document is open; the tree does not change after that.
- **Enhance.** `LlmInv`: permits held, free and queued add up
  (`PermitsConserved`, with a queue that holds each waiting call once), and a
  call has used up a number of attempts tied to its place in the chain
  (`CallOk`), as the retry counter is reset by a fallback and only the total is
  not. `MemoInv`: a memo entry is an answer to its key, in memory and in the
  file. `PassInv`: a task that waits is asked for its own node (`AskedInv`),
  what came back is an answer to that (`GotInv`), and the version that is
  reused has summaries of its own texts (`PrevInv`).
- **TocProcessor.** What the properties need to know of the state before a step
  is that entries under verification are a list (`ListInv`), that the places of
  a report have an order (`ErrorInv`) and which mode extracts (`ModeInv`). The
  argument is in the lemmas: the sample of a verification that accepts is one
  the property asks for (`VerifiedIsAccepted`), and a repair, which finds its
  entry by title, goes to one of the places of the report (`FixedIsError`).
- **CrossGraph.** `IndexInv` says that the inverted index lists exactly the
  keywords kept, each document once, with their weights, and in the order the
  documents were added; only then are the pairs found through it the documents
  that share a keyword (`SharedIsCommon`), and its weights those of the two
  documents, in place or exchanged by that order (`EvidenceWeighs`). `PhaseInv`
  keeps what was found until it is trimmed.
- **Ask.** One invariant per ask (`AskOk`) and one of the caches (`RoutesInv`).
  `RoutesInv` is what makes `HitsWereAccepted` hold over files that asks
  overwrite for each other: a route fit for use without the model, in any
  memory or in the file, is vouched for by an accepted one, and stays so when
  it is merged, evicted or overwritten with less confidence. `CallsOk` bounds
  the calls of a scout by its stage and of an ask by its round. `FoundOk` says
  that the evidence of the first answer is what consolidating the evidence of
  then gives, and `GapKeepsEvidence` needs the lemma that consolidating a
  longer list begins with the same pieces: what is kept of a piece depends on
  earlier ones only.

On the instances of the runs TLC finds the inductive invariants (of
`FileStoreProofs` all but the types) to hold in every state.

`Subsequences`, `Evict`, `Lookup`, `RankedIn`, `KeptOf` and `DispatchPlan` name
an element by how many come before it, and not by recursion over a list, so
that what they return follows from facts about finite sets. Inductions over
numbers are done by taking a least counterexample (`LeastElement`), which is a
statement about sets.

Only model-checked: liveness (`CompileEnds`, `CompileReturns`, `PassEnds`,
`ProcessEnds`, `AskEnds`), which is out of the prover's reach, as fairness and
`ENABLED` are; and `IndicesMatch` of `Documents`, which compares what some
thirty queries and derived indices answer with one another.

## Not modelled

- Byte formats (JSON, compression), the letters of texts (case, tokens,
  regular expressions beyond what they match), prompts, logging.
- Metrics and events: counters and notifications nothing depends on.
- Configuration, errors, utilities: records and helpers; the options that
  matter are constants of the modules.
- Python bindings, facade, CLI and streaming: argument conversion and
  presentation.
- Migrations, `FileLock` and the timestamps of `ChangeDetector`: no callers.
- Of modelled parts: the events of the Markdown library and the text of a PDF
  are inputs; synonyms and concepts the model is asked for, scores that count
  letters, the pool's choice of a client, and the analysis of a query beyond
  its intent are left out; summaries are `Enhance`'s and do not reach the trees
  of `Documents`, as the merge drops them.
- A retry configuration with zero attempts and a concurrency limit of zero:
  excluded by the assumptions of `Engine`.

`PROJECT.json` gives the reason per component.

## Plan

1. The parts of `IndicesMatch` that are not about one query only.
2. Routes against documents that are compiled again (`Ask` over `Engine`).
