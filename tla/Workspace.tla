------------------------------ MODULE Workspace ------------------------------
(***************************************************************************)
(* The workspace of vectorless-storage: a directory of documents with two  *)
(* index files ("meta" and "catalog") and a graph file, an in-memory copy  *)
(* of the indices, an LRU cache of documents, and a tokio RwLock around    *)
(* all of it.                                                              *)
(*                                                                         *)
(* A writer takes the lock once and does not await while it holds it, so   *)
(* no other task sees it half done; but its backend calls are separate:    *)
(* each may fail (the call then returns Err with what it has done so far)  *)
(* and the process may die between two of them.  A backend call that fails *)
(* changes nothing (FileBackend::put writes a temporary file and renames   *)
(* it), so a failed first call is a stutter.                               *)
(***************************************************************************)
EXTENDS Naturals, FiniteSets

CONSTANTS
    Doc,        \* document ids
    Version,    \* contents a document can be given
    Carded,     \* the versions whose navigation index has a DocCard
    Graph,      \* cross-document graphs
    Task,       \* tasks that load documents
    CacheCap,   \* requested capacity of the LRU cache
    None        \* absent

ASSUME NoneAssumption == None \notin Doc \cup Version \cup Graph
ASSUME CardedAssumption == Carded \subseteq Version
ASSUME CacheCapAssumption == CacheCap \in Nat

VARIABLES
    docs,         \* disk: the document under each id
    metaFile,     \* disk: the version each entry of "meta" describes
    metaSaved,    \* disk: the key "meta" exists
    catalogFile,  \* disk: the version whose card "catalog" holds
    catalogSaved, \* disk: the key "catalog" exists
    graphFile,    \* disk: the key "_graph"
    meta,         \* memory: meta_index
    catalog,      \* memory: catalog
    cached,       \* memory: contents of the LRU cache
    older,        \* memory: <<a, b>> when a was used less recently than b
    graph,        \* memory: document_graph
    up,           \* "down", "opening" (meta loaded) or "up"
    op,           \* the writer that holds the lock and what it has yet to save
    pend,         \* the load of each task that is between its two locks
    may           \* history: the contents the calls so far allow a load to see

disk == <<docs, metaFile, metaSaved, catalogFile, catalogSaved, graphFile>>
cache == <<cached, older>>
memory == <<meta, catalog, cached, older, graph, up, op, pend>>
vars == <<disk, memory, may>>

Contents == Version \cup {None}
Empty == [d \in Doc |-> None]
NoOp == [id |-> None, ver |-> None, ph |-> "idle"]
NoLoad == [id |-> None, keep |-> FALSE]

TypeOK ==
    /\ docs \in [Doc -> Contents]
    /\ metaFile \in [Doc -> Contents] /\ metaSaved \in BOOLEAN
    /\ catalogFile \in [Doc -> Carded \cup {None}] /\ catalogSaved \in BOOLEAN
    /\ graphFile \in Graph \cup {None}
    /\ meta \in [Doc -> Contents]
    /\ catalog \in [Doc -> Carded \cup {None}]
    /\ cached \in [Doc -> Contents]
    /\ older \in SUBSET (Doc \X Doc)
    /\ graph \in Graph \cup {None}
    /\ up \in {"down", "opening", "up"}
    /\ op \in [id : Doc \cup {None}, ver : Contents,
               ph : {"idle", "meta", "catalog"}]
    /\ pend \in [Task -> [id : Doc \cup {None}, keep : BOOLEAN]]
    /\ may \in [Doc -> SUBSET Contents]

Init ==
    /\ docs = Empty
    /\ metaFile = Empty /\ metaSaved = FALSE
    /\ catalogFile = Empty /\ catalogSaved = FALSE
    /\ graphFile = None
    /\ meta = Empty /\ catalog = Empty
    /\ cached = Empty /\ older = {}
    /\ graph = None
    /\ up = "down" /\ op = NoOp
    /\ pend = [t \in Task |-> NoLoad]
    /\ may = [d \in Doc |-> {None}]

(***************************************************************************)
(* The LRU cache.                                                          *)
(***************************************************************************)
Capacity == IF CacheCap < 1 THEN 1 ELSE CacheCap

InCache == {d \in Doc : cached[d] # None}

Forget(order, gone) ==
    {p \in order : p[1] \notin gone /\ p[2] \notin gone}

\* d becomes the most recently used of the documents in present.
Promote(order, d, present) ==
    Forget(order, {d}) \cup ((present \ {d}) \X {d})

\* Mutant: one entry more than the capacity is let in.
EvictedLate(d) ==
    IF d \notin InCache /\ Cardinality(InCache) > Capacity
    THEN {x \in InCache : \A y \in InCache \ {x} : <<x, y>> \in older}
    ELSE {}

\* What a put of d pushes out.
Evicted(d) ==
    IF d \notin InCache /\ Cardinality(InCache) >= Capacity
    THEN {x \in InCache : \A y \in InCache \ {x} : <<x, y>> \in older}
    ELSE {}

CachePut(d, v) ==
    /\ cached' = [e \in Doc |-> IF e = d THEN v
                                ELSE IF e \in Evicted(d) THEN None
                                ELSE cached[e]]
    /\ older' = Promote(Forget(older, Evicted(d)), d, InCache \ Evicted(d))

\* Mutant: the entry stays.
CacheRemoveNothing(d) == UNCHANGED cache

CacheRemove(d) ==
    /\ cached' = [cached EXCEPT ![d] = None]
    /\ older' = Forget(older, {d})

(***************************************************************************)
(* Opening a workspace: load_meta_index, then load_catalog_index.  A       *)
(* missing index is rebuilt from the documents, and saved if not empty.    *)
(***************************************************************************)
\* Mutant: the index of cards is read in place of the index of documents.
OpenMetaWrongKey ==
    /\ up = "down"
    /\ up' = "opening"
    /\ meta' = IF metaSaved THEN catalogFile ELSE docs
    /\ metaFile' = meta'
    /\ metaSaved' = (metaSaved \/ docs # Empty)
    /\ UNCHANGED <<docs, catalogFile, catalogSaved, graphFile, catalog, cache,
                   graph, op, pend, may>>

OpenMeta ==
    /\ up = "down"
    /\ up' = "opening"
    /\ meta' = IF metaSaved THEN metaFile ELSE docs
    /\ metaFile' = meta'
    /\ metaSaved' = (metaSaved \/ docs # Empty)
    /\ UNCHANGED <<docs, catalogFile, catalogSaved, graphFile, catalog, cache,
                   graph, op, pend, may>>

Cards == [d \in Doc |-> IF docs[d] \in Carded THEN docs[d] ELSE None]

OpenCatalog ==
    /\ up = "opening"
    /\ up' = "up"
    /\ catalog' = IF catalogSaved THEN catalogFile ELSE Cards
    /\ catalogFile' = catalog'
    /\ catalogSaved' = (catalogSaved \/ Cards # Empty)
    /\ UNCHANGED <<docs, metaFile, metaSaved, graphFile, meta, cache, graph,
                   op, pend, may>>

\* The process dies, or opening returns an error: memory is gone.
Crash ==
    /\ up # "down"
    /\ up' = "down"
    /\ meta' = Empty /\ catalog' = Empty
    /\ cached' = Empty /\ older' = {}
    /\ graph' = None
    /\ op' = NoOp
    /\ pend' = [t \in Task |-> NoLoad]
    /\ UNCHANGED <<disk, may>>

(***************************************************************************)
(* add and remove.                                                         *)
(***************************************************************************)
Free == up = "up" /\ op = NoOp

\* add: the document is written and the index entry made.
StoreDocument(d, v) ==
    /\ Free
    /\ docs' = [docs EXCEPT ![d] = v]
    /\ meta' = [meta EXCEPT ![d] = v]
    /\ op' = [id |-> d, ver |-> v, ph |-> "meta"]
    /\ may' = [may EXCEPT ![d] = @ \cup {v}]
    /\ UNCHANGED <<metaFile, metaSaved, catalogFile, catalogSaved, graphFile,
                   catalog, cache, graph, up, pend>>

\* Mutant: remove leaves the cache to the end of the call.
DeleteDocumentCacheLater(d) ==
    /\ Free
    /\ meta[d] # None
    /\ docs' = [docs EXCEPT ![d] = None]
    /\ meta' = [meta EXCEPT ![d] = None]
    /\ catalog' = [catalog EXCEPT ![d] = None]
    /\ op' = [id |-> d, ver |-> None, ph |-> "meta"]
    /\ may' = [may EXCEPT ![d] = @ \cup {None}]
    /\ UNCHANGED <<metaFile, metaSaved, catalogFile, catalogSaved, graphFile,
                   cache, graph, up, pend>>

\* remove: the document is deleted, then its entries in memory.
DeleteDocument(d) ==
    /\ Free
    /\ meta[d] # None
    /\ docs' = [docs EXCEPT ![d] = None]
    /\ meta' = [meta EXCEPT ![d] = None]
    /\ catalog' = [catalog EXCEPT ![d] = None]
    /\ CacheRemove(d)
    /\ op' = [id |-> d, ver |-> None, ph |-> "meta"]
    /\ may' = [may EXCEPT ![d] = @ \cup {None}]
    /\ UNCHANGED <<metaFile, metaSaved, catalogFile, catalogSaved, graphFile,
                   graph, up, pend>>

\* The end of both: the cache entry and the graph are dropped, Ok returned.
Finish ==
    /\ CacheRemove(op.id)
    /\ graph' = None
    /\ op' = NoOp
    /\ may' = [may EXCEPT ![op.id] = {op.ver}]

\* Mutant: add returns without saving the index.
SaveMetaLastForgotten ==
    /\ op.ph = "meta" /\ op.ver \in Version \ Carded
    /\ Finish
    /\ UNCHANGED <<docs, metaFile, metaSaved, catalogFile, catalogSaved,
                   graphFile, meta, catalog, up, pend>>

\* add of a document without a card touches no catalog and is done here.
SaveMetaLast ==
    /\ op.ph = "meta" /\ op.ver \in Version \ Carded
    /\ metaFile' = meta /\ metaSaved' = TRUE
    /\ Finish
    /\ UNCHANGED <<docs, catalogFile, catalogSaved, graphFile, meta, catalog,
                   up, pend>>

\* Mutant: the catalog is saved without the new card.
SaveMetaIndexOldCard ==
    /\ op.ph = "meta" /\ op.ver \in Carded \cup {None}
    /\ metaFile' = meta /\ metaSaved' = TRUE
    /\ op' = [op EXCEPT !.ph = "catalog"]
    /\ UNCHANGED <<docs, catalogFile, catalogSaved, graphFile, meta, catalog,
                   cache, graph, up, pend, may>>

SaveMetaIndex ==
    /\ op.ph = "meta" /\ op.ver \in Carded \cup {None}
    /\ metaFile' = meta /\ metaSaved' = TRUE
    /\ catalog' = [catalog EXCEPT ![op.id] = op.ver]
    /\ op' = [op EXCEPT !.ph = "catalog"]
    /\ UNCHANGED <<docs, catalogFile, catalogSaved, graphFile, meta, cache,
                   graph, up, pend, may>>

SaveCatalogIndex ==
    /\ op.ph = "catalog"
    /\ catalogFile' = catalog /\ catalogSaved' = TRUE
    /\ Finish
    /\ UNCHANGED <<docs, metaFile, metaSaved, graphFile, meta, catalog, up,
                   pend>>

\* A put of an index fails: the call returns Err and undoes nothing.
SaveFails ==
    /\ op.ph \in {"meta", "catalog"}
    /\ op' = NoOp
    /\ UNCHANGED <<disk, meta, catalog, cache, graph, up, pend, may>>

(***************************************************************************)
(* load and load_and_cache (keep): a first lock for the index and the      *)
(* cache, a second one for the backend.                                    *)
(***************************************************************************)
LoadHit(d) ==
    /\ Free
    /\ meta[d] # None /\ cached[d] # None
    /\ older' = Promote(older, d, InCache)
    /\ UNCHANGED <<disk, meta, catalog, cached, graph, up, op, pend, may>>

LoadMiss(t, d, keep) ==
    /\ Free
    /\ pend[t] = NoLoad
    /\ meta[d] # None /\ cached[d] = None
    /\ pend' = [pend EXCEPT ![t] = [id |-> d, keep |-> keep]]
    /\ UNCHANGED <<disk, meta, catalog, cache, graph, up, op, may>>

\* The second half: the index is not looked at again.
LoadFinish(t) ==
    LET d == pend[t].id IN
    /\ Free
    /\ pend[t] # NoLoad
    /\ pend' = [pend EXCEPT ![t] = NoLoad]
    /\ IF pend[t].keep /\ docs[d] # None THEN CachePut(d, docs[d])
                                         ELSE UNCHANGED cache
    /\ UNCHANGED <<disk, meta, catalog, graph, up, op, may>>

LoadFails(t) ==
    /\ Free
    /\ pend[t] # NoLoad
    /\ pend' = [pend EXCEPT ![t] = NoLoad]
    /\ UNCHANGED <<disk, meta, catalog, cache, graph, up, op, may>>

ClearCache ==
    /\ Free
    /\ cached' = Empty /\ older' = {}
    /\ UNCHANGED <<disk, meta, catalog, graph, up, op, pend, may>>

(***************************************************************************)
(* The document graph.                                                     *)
(***************************************************************************)
\* get_graph: the one in memory, else the file's, which is not cached.
GetGraph == IF graph # None THEN graph ELSE graphFile

SetGraph(g) ==
    /\ Free
    /\ graphFile' = g /\ graph' = g
    /\ UNCHANGED <<docs, metaFile, metaSaved, catalogFile, catalogSaved, meta,
                   catalog, cache, up, op, pend, may>>

\* Mutant: the graph in memory is kept.
InvalidateGraphFileOnly ==
    /\ Free
    /\ graphFile' \in {None, graphFile}
    /\ UNCHANGED <<docs, metaFile, metaSaved, catalogFile, catalogSaved, meta,
                   catalog, cache, graph, up, op, pend, may>>

\* The result of the delete is ignored.
InvalidateGraph ==
    /\ Free
    /\ graph' = None
    /\ graphFile' \in {None, graphFile}
    /\ UNCHANGED <<docs, metaFile, metaSaved, catalogFile, catalogSaved, meta,
                   catalog, cache, up, op, pend, may>>

Next ==
    \/ OpenMeta \/ OpenCatalog \/ Crash
    \/ \E d \in Doc, v \in Version : StoreDocument(d, v)
    \/ \E d \in Doc : DeleteDocument(d)
    \/ SaveMetaLast \/ SaveMetaIndex \/ SaveCatalogIndex \/ SaveFails
    \/ \E d \in Doc : LoadHit(d)
    \/ \E t \in Task, d \in Doc, keep \in BOOLEAN : LoadMiss(t, d, keep)
    \/ \E t \in Task : LoadFinish(t) \/ LoadFails(t)
    \/ ClearCache
    \/ \E g \in Graph : SetGraph(g)
    \/ InvalidateGraph

Spec == Init /\ [][Next]_vars

(***************************************************************************)
(* Properties.                                                             *)
(***************************************************************************)
\* What a workspace opened on the files as they are would load.
AfterRestart(d) == IF metaSaved /\ metaFile[d] = None THEN None ELSE docs[d]

\* What load(d) returns.
Shown(d) ==
    IF up # "up" THEN AfterRestart(d)
    ELSE IF meta[d] = None THEN None
    ELSE IF cached[d] # None THEN cached[d]
    ELSE docs[d]

\* The calls made so far leave exactly the content x for d.
Committed(d, x) == may[d] = {x}

\* A document whose last add or remove returned Ok is served with exactly
\* that content, from the cache, from the backend or to a load that passed
\* its index check before the call (add must drop the cache entry, the fill
\* of load_and_cache must read under the same lock it caches under).
ServedIsCommitted ==
    \A d \in Doc : \A x \in Contents :
        Committed(d, x) => Shown(d) = x /\ docs[d] = x

\* A crash at any instant, in the middle of any other call, does not lose a
\* document that add returned Ok for, nor bring back one remove returned Ok
\* for (document, then index: the order of the puts in add and remove).
RestartKeepsCommitted ==
    \A d \in Doc : \A x \in Contents : Committed(d, x) => AfterRestart(d) = x

\* The indices say of a committed document what the document says: its meta
\* entry and, if it has a card, its catalog entry describe that version, in
\* memory and on disk, and a removed document has neither.
IndexMatchesCommitted ==
    \A d \in Doc : \A x \in Contents :
        Committed(d, x) =>
            /\ metaSaved => metaFile[d] = x
            /\ up # "down" => meta[d] = x
            /\ x \in Carded => catalogSaved
            /\ x \in Carded \cup {None} =>
                 /\ catalogFile[d] = x
                 /\ up = "up" => catalog[d] = x

\* Nothing is cached that the index does not list, although a load fills the
\* cache without looking at the index again: a document removed between its
\* two locks is gone from the backend too.
CachedIsIndexed == \A d \in InCache : meta[d] # None

\* The cache never holds more than its capacity (at least 1), and the order
\* that picks the entry to evict ranks all its entries.
CacheBounded ==
    /\ Cardinality(InCache) <= Capacity
    /\ \A d, e \in InCache :
         d # e => ((<<d, e>> \in older) # (<<e, d>> \in older))
    /\ older \subseteq InCache \X InCache

\* The graph get_graph answers is the one it would answer after a restart, so
\* that no caller sees another graph than the next process will.
GraphMirrorsFile == GetGraph = graphFile

\* The workspace is a document store: crashes, failed saves, evictions and
\* fills included, a load never shows what the calls do not allow.
Store == INSTANCE DocStore WITH shown <- [d \in Doc |-> Shown(d)]
IsDocStore == Store!Spec
=============================================================================
