--------------------------- MODULE WorkspaceProofs ---------------------------
(***************************************************************************)
(* Proofs about Workspace, for any sets of documents, versions, tasks and  *)
(* graphs and any cache capacity.                                          *)
(***************************************************************************)
EXTENDS Workspace, Integers, FiniteSetTheorems, WellFoundedInduction, TLAPS

\* Whatever a load, now or after a restart, could return is allowed.
HistoryInv ==
    \A d \in Doc :
        /\ docs[d] \in may[d]
        /\ cached[d] # None => cached[d] \in may[d]
        /\ metaSaved => metaFile[d] \in may[d]
        /\ up # "down" => meta[d] \in may[d]

\* What the writer that holds the lock has done so far.
WriterInv ==
    op.ph # "idle" =>
        /\ up = "up"
        /\ op.id \in Doc
        /\ docs[op.id] = op.ver
        /\ meta[op.id] = op.ver
        /\ op.ph = "catalog" =>
             /\ op.ver \in Carded \cup {None}
             /\ metaSaved
             /\ metaFile[op.id] = op.ver
             /\ catalog[op.id] = op.ver

\* A document that had a card in all the contents it may have, or none, has
\* the card of one of them.
CatalogInv ==
    /\ ~catalogSaved => catalogFile = Empty
    /\ \A d \in Doc :
         /\ may[d] \subseteq Carded => catalogSaved
         /\ may[d] \subseteq Carded \cup {None} =>
              /\ catalogFile[d] \in may[d]
              /\ up = "up" => catalog[d] \in may[d]

\* A load under way can only fill the cache with an indexed document.
LoadInv ==
    /\ up # "up" => cached = Empty /\ pend = [t \in Task |-> NoLoad]
    /\ \A d \in Doc : cached[d] # None => meta[d] # None
    /\ \A t \in Task :
         pend[t] # NoLoad =>
             /\ pend[t].id \in Doc
             /\ meta[pend[t].id] = None => docs[pend[t].id] = None

IndInv ==
    /\ TypeOK
    /\ HistoryInv
    /\ WriterInv
    /\ CatalogInv
    /\ LoadInv
    /\ GraphMirrorsFile

(***************************************************************************)
(* The initial states.                                                     *)
(***************************************************************************)
LEMMA InitIndInv == Init => IndInv
<1> SUFFICES ASSUME Init PROVE IndInv
  OBVIOUS
<1> USE DEF Init, Empty, NoOp, NoLoad, Contents
<1>1. TypeOK
  BY DEF TypeOK
<1>2. HistoryInv
  BY DEF HistoryInv
<1>3. WriterInv
  BY DEF WriterInv
<1>4. CatalogInv
  BY NoneAssumption, CardedAssumption DEF CatalogInv
<1>5. LoadInv /\ GraphMirrorsFile
  BY DEF LoadInv, GraphMirrorsFile, GetGraph
<1>6. QED
  BY <1>1, <1>2, <1>3, <1>4, <1>5 DEF IndInv

(***************************************************************************)
(* Types.                                                                  *)
(***************************************************************************)
LEMMA ForgetType ==
    ASSUME NEW r \in SUBSET (Doc \X Doc), NEW S
    PROVE  Forget(r, S) \in SUBSET (Doc \X Doc)
  BY DEF Forget

LEMMA PromoteType ==
    ASSUME NEW r \in SUBSET (Doc \X Doc), NEW d \in Doc, NEW S \in SUBSET Doc
    PROVE  Promote(r, d, S) \in SUBSET (Doc \X Doc)
<1>1. (S \ {d}) \X {d} \in SUBSET (Doc \X Doc)
  OBVIOUS
<1>2. QED
  BY <1>1, ForgetType DEF Promote

LEMMA CachePutType ==
    ASSUME TypeOK, NEW d \in Doc, NEW v \in Contents, CachePut(d, v)
    PROVE  /\ cached' \in [Doc -> Contents]
           /\ older' \in SUBSET (Doc \X Doc)
<1>1. cached' \in [Doc -> Contents]
  BY DEF CachePut, TypeOK, Contents
<1>2. older' \in SUBSET (Doc \X Doc)
  <2>1. Forget(older, Evicted(d)) \in SUBSET (Doc \X Doc)
    BY ForgetType DEF TypeOK
  <2>2. InCache \ Evicted(d) \in SUBSET Doc
    BY DEF InCache
  <2>3. QED
    BY <2>1, <2>2, PromoteType DEF CachePut
<1>3. QED
  BY <1>1, <1>2

LEMMA CacheRemoveType ==
    ASSUME TypeOK, NEW d \in Doc, CacheRemove(d)
    PROVE  /\ cached' \in [Doc -> Contents]
           /\ older' \in SUBSET (Doc \X Doc)
  BY ForgetType DEF CacheRemove, TypeOK, Contents

LEMMA TypeStep == TypeOK /\ WriterInv /\ LoadInv /\ [Next]_vars => TypeOK'
<1> SUFFICES ASSUME TypeOK, WriterInv, LoadInv, [Next]_vars
             PROVE  TypeOK'
  OBVIOUS
<1> USE DEF TypeOK, Contents
<1>1. CASE OpenMeta
  BY <1>1 DEF OpenMeta, cache
<1>2. CASE OpenCatalog
  BY <1>2 DEF OpenCatalog, cache, Cards
<1>3. CASE Crash
  BY <1>3 DEF Crash, disk, Empty, NoOp, NoLoad
<1>4. ASSUME NEW d \in Doc, NEW v \in Version, StoreDocument(d, v)
      PROVE  TypeOK'
  BY <1>4 DEF StoreDocument, cache
<1>5. ASSUME NEW d \in Doc, DeleteDocument(d)
      PROVE  TypeOK'
  <2>1. cached' \in [Doc -> Contents] /\ older' \in SUBSET (Doc \X Doc)
    BY <1>5, CacheRemoveType DEF DeleteDocument
  <2>2. QED
    BY <1>5, <2>1 DEF DeleteDocument
<1>6. CASE SaveMetaLast \/ SaveCatalogIndex
  <2>1. op.id \in Doc /\ op.ver \in Contents
    BY <1>6 DEF SaveMetaLast, SaveCatalogIndex, WriterInv
  <2>2. Finish
    BY <1>6 DEF SaveMetaLast, SaveCatalogIndex
  <2>3. cached' \in [Doc -> Contents] /\ older' \in SUBSET (Doc \X Doc)
    BY <2>1, <2>2, CacheRemoveType DEF Finish
  <2>4. /\ graph' \in Graph \cup {None}
        /\ op' = NoOp
        /\ may' \in [Doc -> SUBSET Contents]
    BY <2>1, <2>2 DEF Finish
  <2>5. QED
    BY <1>6, <2>3, <2>4 DEF SaveMetaLast, SaveCatalogIndex, NoOp
<1>7. CASE SaveMetaIndex
  BY <1>7 DEF SaveMetaIndex, cache
<1>8. CASE SaveFails
  BY <1>8 DEF SaveFails, disk, cache, NoOp
<1>9. ASSUME NEW d \in Doc, LoadHit(d)
      PROVE  TypeOK'
  <2>1. older' \in SUBSET (Doc \X Doc)
    BY <1>9, PromoteType DEF LoadHit, InCache
  <2>2. QED
    BY <1>9, <2>1 DEF LoadHit, disk
<1>10. ASSUME NEW t \in Task, NEW d \in Doc, NEW keep \in BOOLEAN,
              LoadMiss(t, d, keep)
       PROVE  TypeOK'
  BY <1>10 DEF LoadMiss, disk, cache
<1>11. ASSUME NEW t \in Task, LoadFinish(t)
       PROVE  TypeOK'
  <2>1. pend[t].id \in Doc /\ docs[pend[t].id] \in Contents
    BY <1>11 DEF LoadFinish, LoadInv
  <2>2. cached' \in [Doc -> Contents] /\ older' \in SUBSET (Doc \X Doc)
    BY <1>11, <2>1, CachePutType DEF LoadFinish, cache
  <2>3. pend' \in [Task -> [id : Doc \cup {None}, keep : BOOLEAN]]
    BY <1>11 DEF LoadFinish, NoLoad
  <2>4. QED
    BY <1>11, <2>2, <2>3 DEF LoadFinish, disk
<1>12. ASSUME NEW t \in Task, LoadFails(t)
       PROVE  TypeOK'
  BY <1>12 DEF LoadFails, disk, cache, NoLoad
<1>13. CASE ClearCache
  BY <1>13 DEF ClearCache, disk, Empty
<1>14. ASSUME NEW g \in Graph, SetGraph(g)
       PROVE  TypeOK'
  BY <1>14 DEF SetGraph, cache
<1>15. CASE InvalidateGraph
  BY <1>15 DEF InvalidateGraph, cache
<1>16. CASE UNCHANGED vars
  BY <1>16 DEF vars, disk, memory
<1>17. QED
  BY <1>1, <1>2, <1>3, <1>4, <1>5, <1>6, <1>7, <1>8, <1>9, <1>10, <1>11,
     <1>12, <1>13, <1>14, <1>15, <1>16 DEF Next

(***************************************************************************)
(* What loads may return.                                                  *)
(***************************************************************************)
LEMMA HistoryStep == IndInv /\ [Next]_vars => HistoryInv'
<1> SUFFICES ASSUME IndInv, [Next]_vars
             PROVE  HistoryInv'
  OBVIOUS
<1> USE DEF IndInv, TypeOK, HistoryInv, Contents
<1>1. CASE OpenMeta
  BY <1>1 DEF OpenMeta, cache
<1>2. CASE OpenCatalog
  BY <1>2 DEF OpenCatalog, cache
<1>3. CASE Crash
  BY <1>3 DEF Crash, disk, Empty
<1>4. ASSUME NEW d \in Doc, NEW v \in Version, StoreDocument(d, v)
      PROVE  HistoryInv'
  BY <1>4 DEF StoreDocument, cache
<1>5. ASSUME NEW d \in Doc, DeleteDocument(d)
      PROVE  HistoryInv'
  BY <1>5 DEF DeleteDocument, CacheRemove
<1>6. CASE SaveMetaLast \/ SaveCatalogIndex
  <2>1. /\ op.id \in Doc
        /\ docs[op.id] = op.ver
        /\ meta[op.id] = op.ver
        /\ metaFile'[op.id] = op.ver
    BY <1>6 DEF SaveMetaLast, SaveCatalogIndex, WriterInv
  <2>2. \A e \in Doc : metaSaved' => metaFile'[e] \in may[e]
    BY <1>6, <2>1 DEF SaveMetaLast, SaveCatalogIndex, WriterInv
  <2>3. cached' = [cached EXCEPT ![op.id] = None]
    BY <1>6 DEF SaveMetaLast, SaveCatalogIndex, Finish, CacheRemove
  <2>4. /\ may' = [may EXCEPT ![op.id] = {op.ver}]
        /\ docs' = docs /\ meta' = meta /\ up' = up
    BY <1>6 DEF SaveMetaLast, SaveCatalogIndex, Finish
  <2>5. QED
    BY <2>1, <2>2, <2>3, <2>4
<1>7. CASE SaveMetaIndex
  BY <1>7 DEF SaveMetaIndex, cache, WriterInv
<1>8. CASE SaveFails
  BY <1>8 DEF SaveFails, disk, cache
<1>9. ASSUME NEW d \in Doc, LoadHit(d)
      PROVE  HistoryInv'
  BY <1>9 DEF LoadHit, disk
<1>10. ASSUME NEW t \in Task, NEW d \in Doc, NEW keep \in BOOLEAN,
              LoadMiss(t, d, keep)
       PROVE  HistoryInv'
  BY <1>10 DEF LoadMiss, disk, cache
<1>11. ASSUME NEW t \in Task, LoadFinish(t)
       PROVE  HistoryInv'
  BY <1>11 DEF LoadFinish, LoadInv, CachePut, disk, cache
<1>12. ASSUME NEW t \in Task, LoadFails(t)
       PROVE  HistoryInv'
  BY <1>12 DEF LoadFails, disk, cache
<1>13. CASE ClearCache
  BY <1>13 DEF ClearCache, disk, Empty
<1>14. ASSUME NEW g \in Graph, SetGraph(g)
       PROVE  HistoryInv'
  BY <1>14 DEF SetGraph, cache
<1>15. CASE InvalidateGraph
  BY <1>15 DEF InvalidateGraph, cache
<1>16. CASE UNCHANGED vars
  BY <1>16 DEF vars, disk, memory
<1>17. QED
  BY <1>1, <1>2, <1>3, <1>4, <1>5, <1>6, <1>7, <1>8, <1>9, <1>10, <1>11,
     <1>12, <1>13, <1>14, <1>15, <1>16 DEF Next

(***************************************************************************)
(* The writer that holds the lock.                                         *)
(***************************************************************************)
LEMMA WriterStep == IndInv /\ [Next]_vars => WriterInv'
<1> SUFFICES ASSUME IndInv, [Next]_vars
             PROVE  WriterInv'
  OBVIOUS
<1> USE DEF IndInv, TypeOK, WriterInv, Contents
<1>1. CASE OpenMeta
  BY <1>1 DEF OpenMeta, cache
<1>2. CASE OpenCatalog
  BY <1>2 DEF OpenCatalog, cache
<1>3. CASE Crash
  BY <1>3 DEF Crash, disk, NoOp
<1>4. ASSUME NEW d \in Doc, NEW v \in Version, StoreDocument(d, v)
      PROVE  WriterInv'
  BY <1>4 DEF StoreDocument, Free, NoOp, cache
<1>5. ASSUME NEW d \in Doc, DeleteDocument(d)
      PROVE  WriterInv'
  BY <1>5 DEF DeleteDocument, Free, NoOp
<1>6. CASE SaveMetaLast \/ SaveCatalogIndex
  BY <1>6 DEF SaveMetaLast, SaveCatalogIndex, Finish, NoOp
<1>7. CASE SaveMetaIndex
  BY <1>7 DEF SaveMetaIndex, cache
<1>8. CASE SaveFails
  BY <1>8 DEF SaveFails, NoOp
<1>9. ASSUME NEW d \in Doc, LoadHit(d)
      PROVE  WriterInv'
  BY <1>9 DEF LoadHit, disk
<1>10. ASSUME NEW t \in Task, NEW d \in Doc, NEW keep \in BOOLEAN,
              LoadMiss(t, d, keep)
       PROVE  WriterInv'
  BY <1>10 DEF LoadMiss, disk
<1>11. ASSUME NEW t \in Task, LoadFinish(t)
       PROVE  WriterInv'
  BY <1>11 DEF LoadFinish, disk
<1>12. ASSUME NEW t \in Task, LoadFails(t)
       PROVE  WriterInv'
  BY <1>12 DEF LoadFails, disk
<1>13. CASE ClearCache
  BY <1>13 DEF ClearCache, disk
<1>14. ASSUME NEW g \in Graph, SetGraph(g)
       PROVE  WriterInv'
  BY <1>14 DEF SetGraph
<1>15. CASE InvalidateGraph
  BY <1>15 DEF InvalidateGraph
<1>16. CASE UNCHANGED vars
  BY <1>16 DEF vars, disk, memory
<1>17. QED
  BY <1>1, <1>2, <1>3, <1>4, <1>5, <1>6, <1>7, <1>8, <1>9, <1>10, <1>11,
     <1>12, <1>13, <1>14, <1>15, <1>16 DEF Next

(***************************************************************************)
(* The catalog.                                                            *)
(***************************************************************************)
LEMMA CatalogStep == IndInv /\ [Next]_vars => CatalogInv'
<1> SUFFICES ASSUME IndInv, [Next]_vars
             PROVE  CatalogInv'
  OBVIOUS
<1> USE DEF IndInv, TypeOK, CatalogInv, Contents
<1>1. CASE OpenMeta
  BY <1>1 DEF OpenMeta
<1>2. CASE OpenCatalog
  BY <1>2 DEF OpenCatalog, HistoryInv, Cards, Empty
<1>3. CASE Crash
  BY <1>3 DEF Crash, disk
<1>4. ASSUME NEW d \in Doc, NEW v \in Version, StoreDocument(d, v)
      PROVE  CatalogInv'
  BY <1>4 DEF StoreDocument
<1>5. ASSUME NEW d \in Doc, DeleteDocument(d)
      PROVE  CatalogInv'
  BY <1>5 DEF DeleteDocument
<1>6. CASE SaveMetaLast \/ SaveCatalogIndex
  <2>1. /\ op.id \in Doc
        /\ may' = [may EXCEPT ![op.id] = {op.ver}]
        /\ catalog' = catalog /\ up' = up
    BY <1>6 DEF SaveMetaLast, SaveCatalogIndex, Finish, WriterInv
  <2>2. CASE SaveMetaLast
    <3>1. op.ver \notin Carded \cup {None}
      BY <2>2, NoneAssumption DEF SaveMetaLast
    <3>2. UNCHANGED <<catalogFile, catalogSaved>>
      BY <2>2 DEF SaveMetaLast
    <3>3. QED
      BY <2>1, <3>1, <3>2
  <2>3. CASE SaveCatalogIndex
    <3>1. /\ catalogFile' = catalog /\ catalogSaved' = TRUE
          /\ catalog[op.id] = op.ver /\ up = "up"
      BY <2>3 DEF SaveCatalogIndex, WriterInv
    <3>2. QED
      BY <2>1, <3>1
  <2>4. QED
    BY <1>6, <2>2, <2>3
<1>7. CASE SaveMetaIndex
  <2>1. op.id \in Doc /\ op.ver \in may[op.id]
    BY <1>7 DEF SaveMetaIndex, WriterInv, HistoryInv
  <2>2. \A e \in Doc : catalog'[e] \in {catalog[e]} \/ catalog'[e] \in may[e]
    BY <1>7, <2>1 DEF SaveMetaIndex
  <2>3. UNCHANGED <<catalogFile, catalogSaved, may, up>>
    BY <1>7 DEF SaveMetaIndex
  <2>4. QED
    BY <2>2, <2>3
<1>8. CASE SaveFails
  BY <1>8 DEF SaveFails, disk
<1>9. ASSUME NEW d \in Doc, LoadHit(d)
      PROVE  CatalogInv'
  BY <1>9 DEF LoadHit, disk
<1>10. ASSUME NEW t \in Task, NEW d \in Doc, NEW keep \in BOOLEAN,
              LoadMiss(t, d, keep)
       PROVE  CatalogInv'
  BY <1>10 DEF LoadMiss, disk
<1>11. ASSUME NEW t \in Task, LoadFinish(t)
       PROVE  CatalogInv'
  BY <1>11 DEF LoadFinish, disk
<1>12. ASSUME NEW t \in Task, LoadFails(t)
       PROVE  CatalogInv'
  BY <1>12 DEF LoadFails, disk
<1>13. CASE ClearCache
  BY <1>13 DEF ClearCache, disk
<1>14. ASSUME NEW g \in Graph, SetGraph(g)
       PROVE  CatalogInv'
  BY <1>14 DEF SetGraph
<1>15. CASE InvalidateGraph
  BY <1>15 DEF InvalidateGraph
<1>16. CASE UNCHANGED vars
  BY <1>16 DEF vars, disk, memory
<1>17. QED
  BY <1>1, <1>2, <1>3, <1>4, <1>5, <1>6, <1>7, <1>8, <1>9, <1>10, <1>11,
     <1>12, <1>13, <1>14, <1>15, <1>16 DEF Next

(***************************************************************************)
(* Loads and the cache.                                                    *)
(***************************************************************************)
LEMMA LoadStep == IndInv /\ [Next]_vars => LoadInv'
<1> SUFFICES ASSUME IndInv, [Next]_vars
             PROVE  LoadInv'
  OBVIOUS
<1> USE DEF IndInv, TypeOK, LoadInv, Contents
<1>1. CASE OpenMeta
  BY <1>1 DEF OpenMeta, cache, Empty
<1>2. CASE OpenCatalog
  BY <1>2 DEF OpenCatalog, cache, Empty
<1>3. CASE Crash
  BY <1>3 DEF Crash, disk, Empty
<1>4. ASSUME NEW d \in Doc, NEW v \in Version, StoreDocument(d, v)
      PROVE  LoadInv'
  <2>1. v # None
    BY NoneAssumption
  <2>2. QED
    BY <1>4, <2>1 DEF StoreDocument, Free, cache
<1>5. ASSUME NEW d \in Doc, DeleteDocument(d)
      PROVE  LoadInv'
  BY <1>5 DEF DeleteDocument, CacheRemove, Free
<1>6. CASE SaveMetaLast \/ SaveCatalogIndex
  BY <1>6 DEF SaveMetaLast, SaveCatalogIndex, Finish, CacheRemove, WriterInv
<1>7. CASE SaveMetaIndex
  BY <1>7 DEF SaveMetaIndex, cache, WriterInv
<1>8. CASE SaveFails
  BY <1>8 DEF SaveFails, disk, cache
<1>9. ASSUME NEW d \in Doc, LoadHit(d)
      PROVE  LoadInv'
  BY <1>9 DEF LoadHit, disk
<1>10. ASSUME NEW t \in Task, NEW d \in Doc, NEW keep \in BOOLEAN,
              LoadMiss(t, d, keep)
       PROVE  LoadInv'
  BY <1>10 DEF LoadMiss, disk, cache, Free
<1>11. ASSUME NEW t \in Task, LoadFinish(t)
       PROVE  LoadInv'
  BY <1>11 DEF LoadFinish, CachePut, disk, cache, Free
<1>12. ASSUME NEW t \in Task, LoadFails(t)
       PROVE  LoadInv'
  BY <1>12 DEF LoadFails, disk, cache, Free
<1>13. CASE ClearCache
  BY <1>13 DEF ClearCache, disk, Empty
<1>14. ASSUME NEW g \in Graph, SetGraph(g)
       PROVE  LoadInv'
  BY <1>14 DEF SetGraph, cache
<1>15. CASE InvalidateGraph
  BY <1>15 DEF InvalidateGraph, cache
<1>16. CASE UNCHANGED vars
  BY <1>16 DEF vars, disk, memory
<1>17. QED
  BY <1>1, <1>2, <1>3, <1>4, <1>5, <1>6, <1>7, <1>8, <1>9, <1>10, <1>11,
     <1>12, <1>13, <1>14, <1>15, <1>16 DEF Next

(***************************************************************************)
(* The graph.                                                              *)
(***************************************************************************)
LEMMA GraphStep == IndInv /\ [Next]_vars => GraphMirrorsFile'
<1> SUFFICES ASSUME IndInv, [Next]_vars
             PROVE  GraphMirrorsFile'
  OBVIOUS
<1>1. graph' = None \/ graph' = graphFile' \/ UNCHANGED <<graph, graphFile>>
  BY DEF Next, OpenMeta, OpenCatalog, Crash, StoreDocument, DeleteDocument,
         SaveMetaLast, SaveMetaIndex, SaveCatalogIndex, SaveFails, Finish,
         LoadHit, LoadMiss, LoadFinish, LoadFails, ClearCache, SetGraph,
         InvalidateGraph, disk, memory, vars
<1>2. QED
  BY <1>1 DEF IndInv, GraphMirrorsFile, GetGraph

LEMMA IndInvStep == IndInv /\ [Next]_vars => IndInv'
  BY TypeStep, HistoryStep, WriterStep, CatalogStep, LoadStep, GraphStep
     DEF IndInv

LEMMA IndInvAlways == Spec => []IndInv
  BY InitIndInv, IndInvStep, PTL DEF Spec

(***************************************************************************)
(* The theorems.                                                           *)
(***************************************************************************)
\* Every variable keeps its type: in particular the writer names a document
\* whenever it drops a cache entry, and a pending load whenever it fills one.
THEOREM TypeCorrect == Spec => []TypeOK
<1>1. IndInv => TypeOK
  BY DEF IndInv
<1>2. QED
  BY <1>1, IndInvAlways, PTL

LEMMA ShownAllowed == IndInv => \A d \in Doc : Shown(d) \in may[d]
  BY DEF IndInv, HistoryInv, Shown, AfterRestart, TypeOK

\* load returns the content the last completed add or remove left, whatever
\* other calls failed, crashed, evicted or filled the cache in between.
THEOREM ServedIsCommittedAlways == Spec => []ServedIsCommitted
<1>1. IndInv => ServedIsCommitted
  BY ShownAllowed DEF IndInv, HistoryInv, ServedIsCommitted, Committed
<1>2. QED
  BY <1>1, IndInvAlways, PTL

\* The files, at every instant, would reopen to every committed document and
\* to no removed one: add and remove are crash safe.
THEOREM CrashSafety == Spec => []RestartKeepsCommitted
<1>1. IndInv => RestartKeepsCommitted
  BY DEF IndInv, HistoryInv, RestartKeepsCommitted, AfterRestart, Committed
<1>2. QED
  BY <1>1, IndInvAlways, PTL

\* Both indices, in memory and on disk, describe the committed documents.
THEOREM IndexAgreement == Spec => []IndexMatchesCommitted
<1>1. IndInv => IndexMatchesCommitted
  <2> SUFFICES ASSUME IndInv, NEW d \in Doc, NEW x \in Contents,
                      Committed(d, x)
               PROVE  /\ metaSaved => metaFile[d] = x
                      /\ up # "down" => meta[d] = x
                      /\ x \in Carded => catalogSaved
                      /\ x \in Carded \cup {None} =>
                           /\ catalogFile[d] = x
                           /\ up = "up" => catalog[d] = x
    BY DEF IndexMatchesCommitted
  <2>1. may[d] = {x}
    BY DEF Committed
  <2>2. (metaSaved => metaFile[d] = x) /\ (up # "down" => meta[d] = x)
    BY <2>1 DEF IndInv, HistoryInv
  <2>3. x \in Carded => catalogSaved
    BY <2>1 DEF IndInv, CatalogInv
  <2>4. x \in Carded \cup {None} =>
          catalogFile[d] = x /\ (up = "up" => catalog[d] = x)
    BY <2>1 DEF IndInv, CatalogInv
  <2>5. QED
    BY <2>2, <2>3, <2>4
<1>2. QED
  BY <1>1, IndInvAlways, PTL

\* The cache lists no document the index has forgotten, although a fill does
\* not look at the index again.
THEOREM CachedIsIndexedAlways == Spec => []CachedIsIndexed
<1>1. IndInv => CachedIsIndexed
  BY DEF IndInv, LoadInv, CachedIsIndexed, InCache
<1>2. QED
  BY <1>1, IndInvAlways, PTL

\* The graph served from memory is the graph on disk.
THEOREM GraphMirrorsFileAlways == Spec => []GraphMirrorsFile
<1>1. IndInv => GraphMirrorsFile
  BY DEF IndInv
<1>2. QED
  BY <1>1, IndInvAlways, PTL

(***************************************************************************)
(* The workspace implements DocStore.  A call begins when its document is  *)
(* written or deleted and commits when it drops the cache entry; all other *)
(* steps leave may alone and are steps of Waver.                           *)
(***************************************************************************)
LEMMA RefineInit == Init => Store!Init
  BY DEF Init, Empty, Store!Init, Shown, AfterRestart

LEMMA ShownElsewhere ==
    ASSUME IndInv, NEW d \in Doc, NEW e \in Doc \ {d},
           up = "up", up' = "up",
           docs'[e] = docs[e], meta'[e] = meta[e], cached'[e] = cached[e]
    PROVE  Shown(e)' = Shown(e)
  BY DEF Shown

LEMMA RefineBegin ==
    ASSUME IndInv, IndInv', NEW d \in Doc, NEW x \in Contents,
           StoreDocument(d, x) \/ (x = None /\ DeleteDocument(d))
    PROVE  Store!Begin(d, x)
<1>1. may' = [may EXCEPT ![d] = @ \cup {x}]
  BY DEF StoreDocument, DeleteDocument
<1>2. up = "up" /\ up' = "up"
  BY DEF StoreDocument, DeleteDocument, Free
<1>3. \A e \in Doc \ {d} :
        docs'[e] = docs[e] /\ meta'[e] = meta[e] /\ cached'[e] = cached[e]
  BY DEF StoreDocument, DeleteDocument, CacheRemove, cache, IndInv, TypeOK
<1>4. \A e \in Doc \ {d} : Shown(e)' = Shown(e)
  BY <1>2, <1>3, ShownElsewhere
<1>5. Shown(d)' \in may'[d]
  BY ShownAllowed DEF IndInv, HistoryInv, Shown, AfterRestart, TypeOK
<1>6. [e \in Doc |-> Shown(e)'] =
        [[e \in Doc |-> Shown(e)] EXCEPT ![d] = Shown(d)']
  BY <1>4
<1>7. QED
  BY <1>1, <1>5, <1>6 DEF Store!Begin

LEMMA RefineCommit ==
    ASSUME IndInv, IndInv', SaveMetaLast \/ SaveCatalogIndex,
           NEW d \in Doc, NEW x \in Contents, d = op.id, x = op.ver
    PROVE  Store!Commit(d, x)
<1>1. docs[d] = x /\ meta[d] = x /\ up = "up" /\ up' = "up"
  BY DEF SaveMetaLast, SaveCatalogIndex, IndInv, WriterInv
<1>2. /\ may' = [may EXCEPT ![d] = {x}]
      /\ cached' = [cached EXCEPT ![d] = None]
      /\ docs' = docs /\ meta' = meta
  BY DEF SaveMetaLast, SaveCatalogIndex, Finish, CacheRemove
<1>3. x \in may[d]
  BY <1>1 DEF IndInv, HistoryInv
<1>4. \A e \in Doc \ {d} : Shown(e)' = Shown(e)
  BY <1>1, <1>2, ShownElsewhere DEF IndInv, TypeOK
<1>5. Shown(d)' = x
  BY <1>1, <1>2 DEF Shown, IndInv, TypeOK
<1>6. [e \in Doc |-> Shown(e)'] =
        [[e \in Doc |-> Shown(e)] EXCEPT ![d] = x]
  BY <1>4, <1>5
<1>7. QED
  BY <1>2, <1>3, <1>6 DEF Store!Commit

LEMMA RefineWaver ==
    ASSUME IndInv', may' = may
    PROVE  Store!Waver
<1>1. \A d \in Doc : Shown(d)' \in may'[d]
  BY DEF IndInv, HistoryInv, Shown, AfterRestart, TypeOK
<1>2. \A d \in Doc : may'[d] \subseteq Contents
  BY DEF IndInv, TypeOK
<1>3. \A d \in Doc : Shown(d)' \in Contents
  BY <1>1, <1>2
<1>4. QED
  BY <1>1, <1>3 DEF Store!Waver, Store!Contents, Contents

\* A client of the workspace may take it for a DocStore: completed calls are
\* atomic and durable, an interrupted one only makes its own document waver.
THEOREM Refinement == Spec => IsDocStore
<1>1. Init => Store!Init
  BY RefineInit
<1>2. IndInv /\ IndInv' /\ [Next]_vars
        => [Store!Next]_<<[d \in Doc |-> Shown(d)], may>>
  <2> SUFFICES ASSUME IndInv, IndInv', [Next]_vars
               PROVE  Store!Next
    OBVIOUS
  <2>1. ASSUME NEW d \in Doc, NEW v \in Version, StoreDocument(d, v)
        PROVE  Store!Next
    BY <2>1, RefineBegin DEF Store!Next, Store!Contents, Contents
  <2>2. ASSUME NEW d \in Doc, DeleteDocument(d)
        PROVE  Store!Next
    BY <2>2, RefineBegin DEF Store!Next, Store!Contents, Contents
  <2>3. CASE SaveMetaLast \/ SaveCatalogIndex
    <3>1. op.id \in Doc /\ op.ver \in Contents
      BY <2>3 DEF SaveMetaLast, SaveCatalogIndex, IndInv, WriterInv, TypeOK
    <3>2. Store!Commit(op.id, op.ver)
      BY <2>3, <3>1, RefineCommit
    <3>3. QED
      BY <3>1, <3>2 DEF Store!Next, Store!Contents, Contents
  <2>4. CASE may' = may
    BY <2>4, RefineWaver DEF Store!Next
  <2>5. QED
    BY <2>1, <2>2, <2>3, <2>4
       DEF Next, OpenMeta, OpenCatalog, Crash, SaveMetaIndex, SaveFails,
           LoadHit, LoadMiss, LoadFinish, LoadFails, ClearCache, SetGraph,
           InvalidateGraph, vars
<1>3. QED
  BY <1>1, <1>2, IndInvAlways, PTL DEF Spec, Store!Spec, IsDocStore

-----------------------------------------------------------------------------
(***************************************************************************)
(* The LRU cache never holds more than its capacity: what a put evicts is  *)
(* there, because the order of use of a finite cache has a least element.  *)
(***************************************************************************)
Transitive(R) == \A x, y, z : <<x, y>> \in R /\ <<y, z>> \in R => <<x, z>> \in R
Asymmetric(R) == \A x, y : <<x, y>> \in R => <<y, x>> \notin R
Ranks(R, S) == \A x, y \in S : x # y => <<x, y>> \in R \/ <<y, x>> \in R

\* The order of use is a strict total order of a finite cache that is not
\* over its capacity.
Ordered == Asymmetric(older) /\ Transitive(older) /\ Ranks(older, InCache)
CacheInv ==
    /\ IsFiniteSet(InCache)
    /\ Cardinality(InCache) <= Capacity
    /\ older \subseteq InCache \X InCache
    /\ Ordered

LEMMA CacheInvBounds == CacheInv => CacheBounded
  BY DEF CacheInv, CacheBounded, Ordered, Asymmetric, Ranks

\* A finite set with elements has a least one in an order that ranks it: one
\* with the fewest before it.
LEMMA LeastExists ==
    ASSUME NEW S, IsFiniteSet(S), S # {}, NEW R,
           Asymmetric(R), Transitive(R), Ranks(R, S)
    PROVE  \E x \in S : \A y \in S \ {x} : <<x, y>> \in R
<1> DEFINE Before(x) == {y \in S : <<y, x>> \in R}
           T == {Before(x) : x \in S}
<1>1. T \subseteq FiniteSubsetsOf(S) /\ T # {}
  <2>1. ASSUME NEW x \in S PROVE Before(x) \in FiniteSubsetsOf(S)
    <3>1. Before(x) \in SUBSET S
      OBVIOUS
    <3>2. IsFiniteSet(Before(x))
      BY <3>1, FS_Subset
    <3>3. QED
      BY <3>1, <3>2 DEF FiniteSubsetsOf
  <2>2. T # {}
    OBVIOUS
  <2>3. QED
    BY <2>1, <2>2
<1>2. PICK U \in T : \A V \in T : <<V, U>> \notin StrictSubsetOrdering(S)
  <2> HIDE DEF T
  <2>1. QED
    BY <1>1, FS_StrictSubsetOrderingWellFounded, WFMin
<1>3. PICK x \in S : Before(x) = U
  OBVIOUS
<1>4. \A y \in S \ {x} : <<x, y>> \in R
  <2> SUFFICES ASSUME NEW y \in S \ {x}, <<y, x>> \in R
               PROVE  FALSE
    BY DEF Ranks
  <2>1. Before(y) \subseteq Before(x) /\ Before(x) \subseteq S
    BY DEF Transitive
  <2>2. y \in Before(x) /\ y \notin Before(y)
    BY DEF Asymmetric
  <2>3. <<Before(y), Before(x)>> \in StrictSubsetOrdering(S)
    BY <2>1, <2>2 DEF StrictSubsetOrdering
  <2>4. QED
    BY <1>2, <1>3, <2>3
<1>5. QED
  BY <1>4

LEMMA InitCacheInv == Init => CacheInv
<1> SUFFICES ASSUME Init PROVE CacheInv
  OBVIOUS
<1>1. InCache = {} /\ older = {}
  BY DEF Init, Empty, InCache
<1>2. Capacity \in Nat
  BY CacheCapAssumption DEF Capacity
<1>3. QED
  BY <1>1, <1>2, FS_EmptySet DEF CacheInv, Ordered, Asymmetric, Transitive, Ranks

\* What leaves the cache leaves the order, which still ranks the rest.
LEMMA ShrunkOrder ==
    ASSUME CacheInv, NEW G,
           InCache' = InCache \ G, older' = Forget(older, G)
    PROVE  CacheInv'
<1>1. /\ IsFiniteSet(InCache') /\ Cardinality(InCache') <= Capacity
  <2>1. InCache' \in SUBSET InCache
    OBVIOUS
  <2>2. IsFiniteSet(InCache') /\ Cardinality(InCache') <= Cardinality(InCache)
    BY <2>1, FS_Subset DEF CacheInv
  <2>3. Cardinality(InCache) \in Nat /\ Cardinality(InCache') \in Nat /\ Capacity \in Nat
    BY <2>2, FS_CardinalityType, CacheCapAssumption DEF CacheInv, Capacity
  <2>4. QED
    BY <2>2, <2>3 DEF CacheInv
<1>2. older' \subseteq InCache' \X InCache'
  BY DEF CacheInv, Forget
<1>3. Ordered'
  BY DEF CacheInv, Ordered, Forget, Asymmetric, Transitive, Ranks
<1>4. Capacity' = Capacity
  BY DEF Capacity
<1>5. QED
  BY <1>1, <1>2, <1>3, <1>4 DEF CacheInv

\* A document that is used moves to the end of the order.
LEMMA PromotedOrder ==
    ASSUME NEW R, NEW S, NEW d, R \subseteq S \X S,
           Asymmetric(R), Transitive(R), Ranks(R, S)
    PROVE  LET P == Promote(R, d, S)
               U == S \cup {d}
           IN  P \subseteq U \X U /\ Asymmetric(P) /\ Transitive(P) /\ Ranks(P, U)
<1> DEFINE P == Promote(R, d, S)
           U == S \cup {d}
<1>1. \A x, y : <<x, y>> \in P <=>
                  (<<x, y>> \in R /\ x # d /\ y # d) \/ (x \in S \ {d} /\ y = d)
  BY DEF Promote, Forget
<1>2. P \subseteq U \X U
  BY DEF Promote, Forget
<1> HIDE DEF P
<1>3. Asymmetric(P)
  BY <1>1 DEF Asymmetric
<1>4. Transitive(P)
  BY <1>1 DEF Transitive
<1>5. Ranks(P, U)
  BY <1>1 DEF Ranks
<1>6. QED
  BY <1>2, <1>3, <1>4, <1>5 DEF P

LEMMA CacheKept == CacheInv /\ UNCHANGED cache => CacheInv'
  BY DEF CacheInv, Ordered, Asymmetric, Transitive, Ranks, InCache, Capacity, cache

LEMMA CacheRemoved ==
    ASSUME TypeOK, CacheInv, NEW d \in Doc, CacheRemove(d)
    PROVE  CacheInv'
<1>1. InCache' = InCache \ {d}
  BY DEF TypeOK, CacheRemove, InCache
<1>2. QED
  BY <1>1, ShrunkOrder DEF CacheRemove

LEMMA CacheCleared ==
    ASSUME CacheInv, cached' = Empty, older' = {}
    PROVE  CacheInv'
<1>1. InCache' = InCache \ Doc
  BY DEF Empty, InCache
<1>2. older' = Forget(older, Doc)
  BY DEF CacheInv, Forget, InCache
<1>3. QED
  BY <1>1, <1>2, ShrunkOrder

\* What a put evicts is in the cache, and it evicts something when the cache
\* is full.
LEMMA EvictedMakesRoom ==
    ASSUME CacheInv, NEW d \in Doc, d \notin InCache
    PROVE  LET rest == InCache \ Evicted(d)
           IN  IsFiniteSet(rest) /\ Cardinality(rest) + 1 <= Capacity
<1> DEFINE rest == InCache \ Evicted(d)
<1>1. /\ Cardinality(InCache) \in Nat /\ Capacity \in Nat /\ Capacity >= 1
      /\ Cardinality(InCache) <= Capacity
  BY FS_CardinalityType, CacheCapAssumption DEF CacheInv, Capacity
<1>2. rest \in SUBSET InCache
  OBVIOUS
<1>3. /\ IsFiniteSet(rest) /\ Cardinality(rest) \in Nat
      /\ Cardinality(rest) <= Cardinality(InCache)
      /\ Cardinality(rest) = Cardinality(InCache) => rest = InCache
  BY <1>2, FS_Subset, FS_CardinalityType DEF CacheInv
<1>4. CASE Cardinality(InCache) < Capacity
  BY <1>1, <1>3, <1>4
<1>5. CASE Cardinality(InCache) >= Capacity
  <2>1. InCache # {}
    BY <1>1, <1>5, FS_EmptySet
  <2>2. PICK x \in InCache : \A y \in InCache \ {x} : <<x, y>> \in older
    BY <2>1, LeastExists DEF CacheInv, Ordered
  <2>3. x \in Evicted(d)
    BY <1>5, <2>2 DEF Evicted
  <2>4. rest # InCache
    BY <2>2, <2>3
  <2>5. QED
    BY <1>1, <1>3, <2>4
<1>6. QED
  BY <1>1, <1>4, <1>5

LEMMA CachePutStep ==
    ASSUME TypeOK, CacheInv, NEW d \in Doc, NEW v \in Version, CachePut(d, v)
    PROVE  CacheInv'
<1> DEFINE rest == InCache \ Evicted(d)
           R == Forget(older, Evicted(d))
<1>1. InCache' = rest \cup {d}
  <2>1. v # None
    BY NoneAssumption
  <2>2. \A e \in Doc : cached'[e] = IF e = d THEN v
                                     ELSE IF e \in Evicted(d) THEN None ELSE cached[e]
    BY DEF CachePut
  <2>3. QED
    BY <2>1, <2>2 DEF InCache
<1>2. R \subseteq rest \X rest
  BY DEF CacheInv, Forget
<1>3. Asymmetric(R) /\ Transitive(R) /\ Ranks(R, rest)
  BY DEF CacheInv, Ordered, Forget, Asymmetric, Transitive, Ranks
<1>4. older' = Promote(R, d, rest)
  BY DEF CachePut
<1>5. /\ older' \subseteq InCache' \X InCache'
      /\ Asymmetric(older') /\ Transitive(older') /\ Ranks(older', InCache')
  <2> HIDE DEF R, rest
  <2>1. QED
    BY <1>1, <1>2, <1>3, <1>4, PromotedOrder
<1>6. IsFiniteSet(InCache') /\ Cardinality(InCache') <= Capacity
  <2>1. CASE d \in InCache
    <3>1. InCache' = InCache
      BY <1>1, <2>1 DEF Evicted
    <3>2. QED
      BY <3>1 DEF CacheInv
  <2>2. CASE d \notin InCache
    <3>1. IsFiniteSet(rest) /\ Cardinality(rest) + 1 <= Capacity
      BY <2>2, EvictedMakesRoom
    <3>2. IsFiniteSet(rest \cup {d}) /\ Cardinality(rest \cup {d}) = Cardinality(rest) + 1
      BY <2>2, <3>1, FS_AddElement
    <3>3. QED
      BY <1>1, <3>1, <3>2
  <2>3. QED
    BY <2>1, <2>2
<1>7. Capacity' = Capacity
  BY DEF Capacity
<1>8. QED
  BY <1>5, <1>6, <1>7 DEF CacheInv, Ordered, Asymmetric, Transitive, Ranks

LEMMA CacheStep == IndInv /\ CacheInv /\ [Next]_vars => CacheInv'
<1> SUFFICES ASSUME IndInv, CacheInv, [Next]_vars
             PROVE  CacheInv'
  OBVIOUS
<1>0. TypeOK /\ WriterInv /\ LoadInv
  BY DEF IndInv
<1>1. CASE UNCHANGED cache
  BY <1>1, CacheKept
<1>2. CASE Crash \/ ClearCache
  BY <1>2, CacheCleared DEF Crash, ClearCache
<1>3. ASSUME NEW d \in Doc, DeleteDocument(d)
      PROVE  CacheInv'
  BY <1>0, <1>3, CacheRemoved DEF DeleteDocument
<1>4. CASE SaveMetaLast \/ SaveCatalogIndex
  <2>1. op.id \in Doc /\ CacheRemove(op.id)
    BY <1>0, <1>4 DEF SaveMetaLast, SaveCatalogIndex, Finish, WriterInv
  <2>2. QED
    BY <1>0, <2>1, CacheRemoved
<1>5. ASSUME NEW d \in Doc, LoadHit(d)
      PROVE  CacheInv'
  <2>1. d \in InCache /\ InCache' = InCache /\ older' = Promote(older, d, InCache)
    BY <1>5 DEF LoadHit, InCache
  <2>2. InCache \cup {d} = InCache /\ Capacity' = Capacity
    BY <2>1 DEF Capacity
  <2>3. /\ older' \subseteq InCache \X InCache
        /\ Asymmetric(older') /\ Transitive(older') /\ Ranks(older', InCache)
    BY <2>1, <2>2, PromotedOrder DEF CacheInv, Ordered
  <2>4. QED
    BY <2>1, <2>2, <2>3 DEF CacheInv, Ordered, Asymmetric, Transitive, Ranks
<1>6. ASSUME NEW t \in Task, LoadFinish(t)
      PROVE  CacheInv'
  <2>1. pend[t].id \in Doc
    BY <1>0, <1>6 DEF LoadFinish, LoadInv
  <2>2. CASE pend[t].keep /\ docs[pend[t].id] # None
    <3>1. docs[pend[t].id] \in Version /\ CachePut(pend[t].id, docs[pend[t].id])
      BY <1>0, <1>6, <2>1, <2>2 DEF LoadFinish, TypeOK, Contents
    <3>2. QED
      BY <1>0, <2>1, <3>1, CachePutStep
  <2>3. CASE ~(pend[t].keep /\ docs[pend[t].id] # None)
    BY <1>1, <1>6, <2>3 DEF LoadFinish
  <2>4. QED
    BY <2>2, <2>3
<1>7. QED
  <2>1. CASE OpenMeta \/ OpenCatalog \/ SaveMetaIndex \/ SaveFails \/ InvalidateGraph
             \/ UNCHANGED vars
    BY <1>1, <2>1 DEF OpenMeta, OpenCatalog, SaveMetaIndex, SaveFails, InvalidateGraph,
                      vars, memory, cache
  <2>2. ASSUME NEW d \in Doc, NEW v \in Version, StoreDocument(d, v)
        PROVE  CacheInv'
    BY <1>1, <2>2 DEF StoreDocument
  <2>3. ASSUME NEW t \in Task, NEW d \in Doc, NEW keep \in BOOLEAN, LoadMiss(t, d, keep)
        PROVE  CacheInv'
    BY <1>1, <2>3 DEF LoadMiss
  <2>4. ASSUME NEW t \in Task, LoadFails(t)
        PROVE  CacheInv'
    BY <1>1, <2>4 DEF LoadFails
  <2>5. ASSUME NEW g \in Graph, SetGraph(g)
        PROVE  CacheInv'
    BY <1>1, <2>5 DEF SetGraph
  <2>6. QED
    BY <1>2, <1>3, <1>4, <1>5, <1>6, <2>1, <2>2, <2>3, <2>4, <2>5 DEF Next

\* The cache holds no more than its capacity, whatever fills, removals and
\* crashes race each other, and its order always has an entry to evict.
THEOREM CacheBoundedAlways == Spec => []CacheBounded
<1>1. Spec => []CacheInv
  BY InitCacheInv, CacheStep, IndInvAlways, PTL DEF Spec
<1>2. QED
  BY <1>1, CacheInvBounds, PTL
=============================================================================
