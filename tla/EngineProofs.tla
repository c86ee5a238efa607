---------------------------- MODULE EngineProofs ----------------------------
(***************************************************************************)
(* Proofs about Engine, for any files, spellings, contents, ids, options,  *)
(* models, plans, limits and number of calls.                              *)
(***************************************************************************)
EXTENDS Engine, TLAPS

Untouched == [s \in Source |-> NoWork]
Active(c, s) == call[c].ph = "run" /\ s \in call[c].job.srcs
\* The documents a task has to do with: the one it is to write, and the one
\* it is to remove.
Claims(c, s) == {work[c][s].id, work[c][s].old} \ {None}

\* A call under way does the job of its plan; no other has tasks.
CallInv ==
    \A c \in Call :
        /\ call[c].ph = "run" => call[c].job = plan.job[c]
        /\ call[c].ph # "run" => work[c] = Untouched
        /\ \A s \in Source : ~Active(c, s) => work[c][s] = NoWork

\* What a task has in hand in each of its phases.
Shape(s, w) ==
    /\ w.ph \in {"none", "wait", "prev"} =>
         w.id = None /\ w.old = None /\ w.base = None /\ w.doc = None
    /\ w.ph \in {"read", "old"} => s \in Spelling /\ w.id # None /\ w.old = None
    /\ w.ph = "old" => w.doc # None /\ w.doc.path = PathOf(s)
    /\ w.ph = "prev" => s = Nodes
    /\ w.ph = "wait" => s # Nodes
    /\ w.ph = "index" /\ w.old # None => w.id = None
    /\ w.ph = "stamp" => s \in Spelling
    /\ w.ph \in {"stamp", "save", "remove"} =>
         w.id # None /\ w.doc # None /\ w.doc.path = PathOf(s)
    /\ w.ph = "remove" => w.old # None
    /\ w.ph \in {"skipped", "done"} => w.id # None
    /\ w.old # None => s \in Spelling

ShapeInv == \A c \in Call, s \in Source : Shape(s, work[c][s])

\* The enrichment of stored documents, of those to be stored and of those to
\* be reused goes with the options and the model.
KeyInv ==
    /\ \A d \in Stored : OwnKey(store[d])
    /\ \A c \in Call, s \in Source :
         LET w == work[c][s] IN
         /\ w.doc # None => OwnKey(w.doc)
         /\ w.ph = "old" => w.doc.logic = call[c].job.logic
         /\ w.base # None =>
              /\ OwnKey(w.base) /\ w.base.logic = call[c].job.logic
              /\ s = Nodes => w.base.model = model

\* Every id in use has been given, so that a fresh one is nobody's.
IdInv ==
    /\ Stored \cup {StableId} \subseteq used
    /\ \A c \in Call, s \in Source : Claims(c, s) \subseteq used

\* A task that will remove a document writes the new one under an id that
\* no other task, and no stored document, has.
PrivateInv ==
    \A c \in Call, s \in Source :
        LET w == work[c][s] IN
        w.old # None /\ w.ph \in {"stamp", "save"} =>
            /\ w.id \notin Stored \cup {StableId, w.old}
            /\ \A b \in Call, t \in Source :
                 b # c \/ t # s => w.id \notin Claims(b, t)

\* An id goes with one path.
PathInv ==
    \A c \in Call, s \in Spelling :
        /\ \A d \in Claims(c, s) \cap Stored : store[d].path \in {None, Canon[s]}
        /\ \A b \in Call, t \in Spelling :
             Claims(c, s) \cap Claims(b, t) # {} => Canon[s] = Canon[t]

\* Some task is about to remove the document d.
Leaving(d) ==
    \E c \in Call, s \in Source : work[c][s].ph = "remove" /\ work[c][s].old = d

\* A path that was indexed has a document nobody is about to remove.
KeptInv ==
    /\ \A d \in Stored : store[d].path \in hist.saved \cup {None}
    /\ \A c \in Call, s \in Source :
         work[c][s].ph = "remove" => PathOf(s) \in hist.saved
    /\ \A p \in hist.saved \ hist.gone :
         \E d \in Stored : store[d].path = p /\ ~Leaving(d)

\* Two tasks on one path make it one of several, and so does a task that is
\* forced or names it otherwise.
AloneInv ==
    \A c \in Call, s \in Spelling : Active(c, s) =>
        \/ Canon[s] \in hist.several
        \/ /\ s \in Path /\ call[c].job.mode # "force"
           /\ \A b \in Call, t \in Spelling :
                Active(b, t) /\ Canon[t] = Canon[s] => b = c /\ t = s

\* What a task found of its path is all there is of it.
OwnedInv ==
    \A c \in Call, s \in Spelling :
        Active(c, s) /\ Canon[s] \notin hist.several
        /\ work[c][s].ph \in {"read", "old", "index", "stamp", "save", "remove"}
            => \A e \in Stored : store[e].path = Canon[s] => e \in Claims(c, s)

\* A document has the fingerprint of its content, unless its file was edited
\* while it was compiled.
SeenInv ==
    /\ \A d \in Stored :
         /\ store[d].path = None => store[d].seen = None
         /\ store[d].seen \in {None, store[d].text} \/ store[d].path \in hist.torn
    /\ \A c \in Call, s \in Source :
         LET w == work[c][s] IN
         /\ w.ph = "stamp" =>
              w.doc.text = file[Canon[s]] \/ Canon[s] \in hist.torn
         /\ w.ph = "save" =>
              /\ s \notin Spelling => w.doc.seen = None
              /\ w.doc.seen \in {None, w.doc.text} \/ PathOf(s) \in hist.torn

\* While no rebuild is yet to list, the last listing has every document due,
\* and so have what was loaded after it and the graph made of it.
GraphInv ==
    /\ hist.due \subseteq Stored
    /\ hist.shown <= hist.lists
    /\ \A c \in Call : /\ reb[c].n <= hist.lists
                       /\ reb[c].ph \in {"load", "set"} => hist.lists > 0
    /\ (\A c \in Call : reb[c].ph # "list") =>
         /\ hist.shown = hist.lists => hist.due \subseteq graph
         /\ \A c \in Call : reb[c].n = hist.lists =>
              /\ reb[c].ph = "load" => hist.due \subseteq reb[c].todo
              /\ reb[c].ph = "set" => hist.due \subseteq reb[c].got

IndInv ==
    /\ TypeOK /\ CallInv /\ ShapeInv /\ KeyInv /\ IdInv /\ PrivateInv /\ PathInv
    /\ KeptInv /\ AloneInv /\ OwnedInv /\ OneDocumentPerPath /\ SeenInv /\ GraphInv

(***************************************************************************)
(* Types.                                                                  *)
(***************************************************************************)
LEMMA NoneApart ==
    /\ None \notin Source /\ None \notin Text /\ None \notin Id
    /\ None \notin Model /\ None \notin Doc /\ None \notin Path
  BY EngineAssumption DEF Source

LEMMA NoWorkType == NoWork \in Work /\ Untouched \in [Source -> Work]
  BY EngineAssumption DEF NoWork, Work, Untouched

LEMMA SourceTypes ==
    /\ \A s \in Source : PathOf(s) \in Path \cup {None}
    /\ \A p \in Path : p \in Spelling /\ Canon[p] = p
    /\ \A s \in Spelling : s \in Source /\ Canon[s] \in Path /\ PathOf(s) = Canon[s]
    /\ Inline \in Source /\ Inline \notin Spelling
    /\ Nodes \in Source /\ Nodes \notin Spelling /\ Nodes # Inline
  BY EngineAssumption DEF PathOf, Source

\* A task moves to w, and no other task moves.
LEMMA PutTask ==
    ASSUME NEW c \in Call, NEW s \in Source, NEW w \in Work,
           work \in [Call -> [Source -> Work]], Put(c, s, w)
    PROVE  /\ work' \in [Call -> [Source -> Work]]
           /\ work'[c][s] = w
           /\ \A b \in Call, t \in Source : b # c \/ t # s => work'[b][t] = work[b][t]
  BY DEF Put

LEMMA FreshType ==
    ASSUME NEW d \in Fresh
    PROVE  d \in Id /\ d \notin used
  BY DEF Fresh

LEMMA ToIndexType ==
    ASSUME NEW w \in Work, NEW old \in Id \cup {None}, NEW base \in Doc \cup {None}
    PROVE  /\ ToIndex(w, old, base) \in Work
           /\ ToIndex(w, old, base).ph = "index"
           /\ ToIndex(w, old, base).old = old
           /\ ToIndex(w, old, base).base = base
           /\ ToIndex(w, old, base).doc = w.doc
           /\ ToIndex(w, old, base).id = w.id
           /\ ToIndex(w, old, base).tries = w.tries
  BY DEF ToIndex, Work

LEMMA InitType == Init => TypeOK
<1> SUFFICES ASSUME Init PROVE TypeOK
  OBVIOUS
<1>1. work \in [Call -> [Source -> Work]]
  BY NoWorkType DEF Init, Untouched
<1>2. hist \in Hist
  <2>1. store \in [Id -> Doc \cup {None}]
    BY EngineAssumption DEF Init
  <2>2. \A d \in Stored : store[d].path \in Path \cup {None}
    BY <2>1 DEF Stored, Doc
  <2>3. \A d \in Stored : store[d].seen \notin {None, store[d].text} => store[d].path # None
    BY EngineAssumption DEF Stored, Init
  <2>4. NoHist \in Hist
    BY DEF NoHist, Hist
  <2> DEFINE saved == {store[d].path : d \in Stored} \ {None}
             twice == {x \in Stored : \E y \in Stored \ {x} : store[y].path = store[x].path}
             several == {store[d].path : d \in twice}
             edited == {x \in Stored : store[x].seen \notin {None, store[x].text}}
             torn == {store[d].path : d \in edited}
  <2>5. saved \in SUBSET Path /\ several \in SUBSET (Path \cup {None}) /\ torn \in SUBSET Path
    BY <2>2, <2>3
  <2>6. hist = [NoHist EXCEPT !.saved = saved, !.several = several, !.torn = torn]
    BY DEF Init
  <2> HIDE DEF saved, several, torn
  <2>7. QED
    BY <2>4, <2>5, <2>6 DEF Hist
<1>3. QED
  BY SMTT(30), <1>1, <1>2, EngineAssumption DEF Init, TypeOK, Calling, NoRebuild, Rebuilding, Stored

(***************************************************************************)
(* What the step of a task does to it.                                     *)
(***************************************************************************)
\* Of the tasks only that of s in c may have moved.
Moves(c, s) ==
    /\ work' \in [Call -> [Source -> Work]]
    /\ \A b \in Call, t \in Source : b # c \/ t # s => work'[b][t] = work[b][t]

\* The id, the documents and the attempts are as they were.
Kept(w, v) == v.id = w.id /\ v.old = w.old /\ v.base = w.base /\ v.doc = w.doc

LEMMA RunningJob ==
    ASSUME TypeOK, CallInv, NEW c \in Call, call[c].ph = "run"
    PROVE  /\ call[c].job = plan.job[c] /\ call[c].job \in Job
           /\ call[c].job.srcs \subseteq Source
  BY EngineAssumption DEF TypeOK, CallInv, Job

LEMMA TaskActive ==
    ASSUME TypeOK, CallInv, NEW c \in Call, NEW s \in Source, work[c][s].ph # "none"
    PROVE  /\ Active(c, s) /\ call[c].job \in Job
           /\ work[c][s] \in Work
<1>1. NoWork.ph = "none"
  BY DEF NoWork
<1>2. Active(c, s)
  BY <1>1 DEF CallInv
<1>3. QED
  BY <1>2, RunningJob DEF Active, TypeOK

LEMMA ResolveEffect ==
    ASSUME TypeOK, CallInv, ShapeInv, NEW c \in Call, NEW s \in Source, Resolve(c, s)
    PROVE  /\ Moves(c, s) /\ Active(c, s) /\ work[c][s].ph = "wait"
           /\ work'[c][s].old = None /\ work'[c][s].base = None
           /\ work'[c][s].doc = None
           /\ \/ /\ work'[c][s].ph = "index" /\ work'[c][s].id = None
                 /\ \/ call[c].job.mode = "force" \/ s \notin Spelling
                    \/ \A d \in Stored : store[d].path # s
              \/ /\ work'[c][s].ph \in {"skipped", "read"}
                 /\ s \in Path /\ call[c].job.mode # "force"
                 /\ work'[c][s].id \in Stored /\ store[work'[c][s].id].path = s
<1>1. work[c][s].ph = "wait"
  BY DEF Resolve
<1>2. Active(c, s) /\ work[c][s] \in Work
  BY <1>1, TaskActive
<1>3. /\ work[c][s].old = None /\ work[c][s].base = None
      /\ work[c][s].doc = None /\ work[c][s].id = None
  BY <1>1 DEF ShapeInv, Shape
<1>4. work \in [Call -> [Source -> Work]]
  BY DEF TypeOK
<1> DEFINE w == work[c][s]
           mode == call[c].job.mode
           known == {d \in Stored : store[d].path = s}
<1>5. \/ /\ mode = "force" \/ s \notin Spelling \/ known = {}
         /\ Put(c, s, ToIndex(w, None, None))
      \/ /\ mode # "force" /\ s \in Spelling
         /\ \E d \in known :
              Put(c, s, [w EXCEPT !.id = d,
                    !.ph = IF mode = "default" THEN "skipped" ELSE "read"])
  BY DEF Resolve
<1>6. CASE /\ mode = "force" \/ s \notin Spelling \/ known = {}
           /\ Put(c, s, ToIndex(w, None, None))
  <2>1. ToIndex(w, None, None) \in Work
    BY <1>2, ToIndexType
  <2>2. Moves(c, s) /\ work'[c][s] = ToIndex(w, None, None)
    BY <1>4, <1>6, <2>1, PutTask DEF Moves
  <2>3. QED
    BY <1>1, <1>2, <1>3, <1>6, <2>2, ToIndexType
<1>7. ASSUME mode # "force", s \in Spelling, NEW d \in known,
             Put(c, s, [w EXCEPT !.id = d,
                   !.ph = IF mode = "default" THEN "skipped" ELSE "read"])
      PROVE  /\ Moves(c, s) /\ work'[c][s].id = d
             /\ work'[c][s].old = None /\ work'[c][s].base = None
             /\ work'[c][s].doc = None
             /\ work'[c][s].ph \in {"skipped", "read"} /\ s \in Path
  <2> DEFINE v == [w EXCEPT !.id = d,
                      !.ph = IF mode = "default" THEN "skipped" ELSE "read"]
  <2>1. d \in Id /\ store[d].path = s /\ store[d] \in Doc
    BY DEF TypeOK, Stored
  <2>2. s \in Path
    BY <1>7, <2>1, NoneApart, SourceTypes DEF Doc
  <2>3. /\ v \in Work /\ v.id = d /\ v.ph \in {"skipped", "read"}
        /\ v.old = w.old /\ v.base = w.base /\ v.doc = w.doc
    BY <1>2, <2>1 DEF Work
  <2>4. Put(c, s, v)
    BY <1>7
  <2> HIDE DEF v
  <2>5. Moves(c, s) /\ work'[c][s] = v
    BY <1>4, <2>3, <2>4, PutTask DEF Moves
  <2>6. QED
    BY <1>3, <2>2, <2>3, <2>5
<1>8. QED
  BY <1>1, <1>2, <1>5, <1>6, <1>7

LEMMA ReadFileEffect ==
    ASSUME TypeOK, CallInv, ShapeInv, NEW c \in Call, NEW s \in Source, ReadFile(c, s)
    PROVE  /\ Moves(c, s) /\ Active(c, s) /\ s \in Spelling
           /\ work[c][s].ph = "read"
           /\ work'[c][s].old = None
           /\ \/ /\ work'[c][s].ph = "index" /\ work'[c][s].id = None
                 /\ work'[c][s].base = None /\ work'[c][s].doc = work[c][s].doc
                 /\ hist' = [hist EXCEPT !.several = @ \cup {Canon[s]}]
              \/ /\ work'[c][s].ph = "old" /\ work'[c][s].id = work[c][s].id
                 /\ work'[c][s].base = work[c][s].base
                 /\ work'[c][s].doc \in Doc /\ work'[c][s].doc.path = Canon[s]
                 /\ work'[c][s].doc.made = {}
                 /\ work'[c][s].doc.logic = call[c].job.logic
                 /\ UNCHANGED hist
<1>1. work[c][s].ph = "read"
  BY DEF ReadFile
<1>2. Active(c, s) /\ work[c][s] \in Work /\ call[c].job \in Job
  BY <1>1, TaskActive
<1>3. s \in Spelling /\ work[c][s].old = None
  BY <1>1 DEF ShapeInv, Shape
<1>4. work \in [Call -> [Source -> Work]]
  BY DEF TypeOK
<1>5. CASE file[Canon[s]] = None
  <2> DEFINE u == ToIndex(work[c][s], None, None)
             v == [u EXCEPT !.id = None]
  <2>1. Put(c, s, v) /\ hist' = [hist EXCEPT !.several = @ \cup {Canon[s]}]
    BY <1>5 DEF ReadFile
  <2>2. /\ u \in Work /\ u.ph = "index" /\ u.old = None /\ u.base = None
        /\ u.doc = work[c][s].doc
    BY <1>2, ToIndexType
  <2> HIDE DEF u
  <2>3. /\ v \in Work /\ v.ph = "index" /\ v.old = None /\ v.base = None
        /\ v.doc = work[c][s].doc /\ v.id = None
    BY <2>2 DEF Work
  <2> HIDE DEF v
  <2>4. Moves(c, s) /\ work'[c][s] = v
    BY <1>4, <2>1, <2>3, PutTask DEF Moves
  <2>5. QED
    BY <1>1, <1>2, <1>3, <2>1, <2>3, <2>4
<1>6. CASE file[Canon[s]] # None
  <2> DEFINE d == [path |-> Canon[s], text |-> file[Canon[s]], seen |-> None,
                   logic |-> call[c].job.logic, model |-> None, made |-> {}]
             v == [work[c][s] EXCEPT !.ph = "old", !.doc = d]
  <2>1. Put(c, s, v) /\ UNCHANGED hist
    BY <1>6 DEF ReadFile
  <2>2. d \in Doc /\ d.path = Canon[s] /\ d.made = {} /\ d.logic = call[c].job.logic
    <3>1. Canon[s] \in Path /\ call[c].job.logic \in Logic
      BY <1>2, <1>3, SourceTypes DEF Job
    <3>2. file[Canon[s]] \in Text
      BY <1>6, <3>1 DEF TypeOK
    <3>3. QED
      BY <3>1, <3>2 DEF Doc
  <2> HIDE DEF d
  <2>3. /\ v \in Work /\ v.ph = "old" /\ v.old = work[c][s].old
        /\ v.base = work[c][s].base /\ v.doc = d /\ v.id = work[c][s].id
    BY <1>2, <2>2 DEF Work
  <2> HIDE DEF v
  <2>4. Moves(c, s) /\ work'[c][s] = v
    BY <1>4, <2>1, <2>3, PutTask DEF Moves
  <2>5. QED
    BY <1>1, <1>2, <1>3, <2>1, <2>2, <2>3, <2>4
<1>7. QED
  BY <1>5, <1>6

LEMMA LoadOldEffect ==
    ASSUME TypeOK, CallInv, ShapeInv, NEW c \in Call, NEW s \in Source, LoadOld(c, s)
    PROVE  /\ Moves(c, s) /\ Active(c, s) /\ s \in Spelling
           /\ work[c][s].ph = "old" /\ work[c][s].id \in Id
           /\ work'[c][s].doc = None
           /\ \/ /\ work'[c][s].ph \in {"failed", "skipped"}
                 /\ work'[c][s].id = work[c][s].id
                 /\ work'[c][s].old = None /\ work'[c][s].base = work[c][s].base
                 /\ work'[c][s].ph = "skipped" =>
                      /\ store[work[c][s].id] # None
                      /\ store[work[c][s].id].seen = work[c][s].doc.text
              \/ /\ work'[c][s].ph = "index" /\ store[work[c][s].id] = None
                 /\ work'[c][s].id = None /\ work'[c][s].old = None
                 /\ work'[c][s].base = None
              \/ /\ work'[c][s].ph = "index" /\ store[work[c][s].id] # None
                 /\ work'[c][s].id = None /\ work'[c][s].old = work[c][s].id
                 /\ work'[c][s].base = None
              \/ /\ work'[c][s].ph = "index" /\ store[work[c][s].id] # None
                 /\ work'[c][s].id = work[c][s].id /\ work'[c][s].old = None
                 /\ work'[c][s].base = store[work[c][s].id]
                 /\ store[work[c][s].id].logic = work[c][s].doc.logic
<1>1. work[c][s].ph = "old"
  BY DEF LoadOld
<1>2. Active(c, s) /\ work[c][s] \in Work
  BY <1>1, TaskActive
<1>3. /\ s \in Spelling /\ work[c][s].old = None /\ work[c][s].id # None
      /\ work[c][s].id \in Id
  BY <1>1, <1>2 DEF ShapeInv, Shape, Work
<1>4. work \in [Call -> [Source -> Work]] /\ store[work[c][s].id] \in Doc \cup {None}
  BY <1>3 DEF TypeOK
<1> DEFINE w == work[c][s]
           v == [w EXCEPT !.doc = None]
           f == [v EXCEPT !.ph = "failed"]
           k == [v EXCEPT !.ph = "skipped"]
           nn == ToIndex(v, None, None)
           n == [nn EXCEPT !.id = None]
           rr == ToIndex(v, w.id, None)
           r == [rr EXCEPT !.id = None]
           u == ToIndex(v, None, store[w.id])
<1>5. /\ v \in Work /\ v.old = None /\ v.base = w.base /\ v.doc = None /\ v.id = w.id
  BY <1>2, <1>3 DEF Work
<1> HIDE DEF v
<1>6. /\ f \in Work /\ f.ph = "failed" /\ f.id = w.id /\ f.old = None
      /\ f.base = w.base /\ f.doc = None
      /\ k \in Work /\ k.ph = "skipped" /\ k.id = w.id /\ k.old = None
      /\ k.base = w.base /\ k.doc = None
  BY <1>5 DEF Work
<1>7. /\ n \in Work /\ n.ph = "index" /\ n.id = None /\ n.old = None
      /\ n.base = None /\ n.doc = None
  <2>1. nn \in Work /\ nn.ph = "index" /\ nn.old = None /\ nn.base = None /\ nn.doc = v.doc
    BY <1>5, ToIndexType
  <2> HIDE DEF nn
  <2>2. QED
    BY <1>5, <2>1 DEF Work
<1>8. /\ r \in Work /\ r.ph = "index" /\ r.id = None /\ r.old = w.id
      /\ r.base = None /\ r.doc = None
  <2>1. rr \in Work /\ rr.ph = "index" /\ rr.old = w.id /\ rr.base = None /\ rr.doc = v.doc
    BY <1>3, <1>5, ToIndexType
  <2> HIDE DEF rr
  <2>2. QED
    BY <1>5, <2>1 DEF Work
<1>9. ASSUME store[w.id] # None
      PROVE  /\ u \in Work /\ u.ph = "index" /\ u.id = w.id /\ u.old = None
             /\ u.base = store[w.id] /\ u.doc = None
  <2>1. store[w.id] \in Doc
    BY <1>4, <1>9
  <2>2. QED
    BY <1>5, <2>1, ToIndexType
<1>10. \/ Put(c, s, f)
       \/ store[w.id] = None /\ Put(c, s, n)
       \/ store[w.id] # None /\ Put(c, s, ResolveAction(v, w.doc.text, w.doc.logic))
  BY DEF LoadOld, v
<1>11. store[w.id] # None =>
         ResolveAction(v, w.doc.text, w.doc.logic) =
           IF store[w.id].seen = w.doc.text THEN k
           ELSE IF store[w.id].logic # w.doc.logic THEN r ELSE u
  BY <1>5 DEF ResolveAction
<1>12. \/ Put(c, s, f)
       \/ store[w.id] = None /\ Put(c, s, n)
       \/ store[w.id] # None /\ store[w.id].seen = w.doc.text /\ Put(c, s, k)
       \/ store[w.id] # None /\ Put(c, s, r)
       \/ store[w.id] # None /\ store[w.id].logic = w.doc.logic /\ Put(c, s, u)
  BY <1>10, <1>11
<1> HIDE DEF f, k, n, r, u
<1>13. ASSUME NEW x \in Work, Put(c, s, x)
       PROVE  Moves(c, s) /\ work'[c][s] = x
  BY <1>4, <1>13, PutTask DEF Moves
<1>14. QED
  BY <1>1, <1>2, <1>3, <1>6, <1>7, <1>8, <1>9, <1>12, <1>13

LEMMA LoadPreviousEffect ==
    ASSUME TypeOK, CallInv, ShapeInv, NEW c \in Call, LoadPrevious(c)
    PROVE  /\ Moves(c, Nodes) /\ Active(c, Nodes) /\ work[c][Nodes].ph = "prev"
           /\ work'[c][Nodes].ph = "index" /\ work'[c][Nodes].id = None
           /\ work'[c][Nodes].old = None /\ work'[c][Nodes].doc = None
           /\ work'[c][Nodes].base # None =>
                \E d \in Stored : /\ work'[c][Nodes].base = store[d]
                                  /\ SameKey(d, call[c].job.logic)
<1>1. work[c][Nodes].ph = "prev" /\ Nodes \in Source
  BY SourceTypes DEF LoadPrevious
<1>2. Active(c, Nodes) /\ work[c][Nodes] \in Work /\ call[c].job \in Job
  BY <1>1, TaskActive
<1>3. work[c][Nodes].id = None /\ work[c][Nodes].doc = None
  BY <1>1 DEF ShapeInv, Shape
<1>4. work \in [Call -> [Source -> Work]]
  BY DEF TypeOK
<1> DEFINE w == work[c][Nodes]
           n == ToIndex(w, None, None)
           d == call[c].job.id
           r == ToIndex(w, None, store[d])
<1>5. /\ n \in Work /\ n.ph = "index" /\ n.id = None /\ n.old = None
      /\ n.base = None /\ n.doc = None
  BY <1>2, <1>3, ToIndexType
<1>6. ASSUME d # None, store[d] # None
      PROVE  /\ d \in Stored /\ r \in Work /\ r.ph = "index" /\ r.id = None
             /\ r.old = None /\ r.base = store[d] /\ r.doc = None
  <2>1. d \in Id
    BY <1>2, <1>6, EngineAssumption DEF Job
  <2>2. store[d] \in Doc /\ d \in Stored
    BY <1>6, <2>1 DEF TypeOK, Stored
  <2> HIDE DEF d
  <2>3. QED
    BY <1>2, <1>3, <2>2, ToIndexType
<1>7. \/ Put(c, Nodes, n)
      \/ /\ d # None /\ store[d] # None /\ SameKey(d, call[c].job.logic)
         /\ Put(c, Nodes, r)
  BY DEF LoadPrevious
<1> HIDE DEF n, r
<1>8. ASSUME NEW x \in Work, Put(c, Nodes, x)
      PROVE  Moves(c, Nodes) /\ work'[c][Nodes] = x
  BY <1>1, <1>4, <1>8, PutTask DEF Moves
<1>9. QED
  BY <1>1, <1>2, <1>5, <1>6, <1>7, <1>8

LEMMA IndexEffect ==
    ASSUME TypeOK, CallInv, ShapeInv, NEW c \in Call, NEW s \in Source, Index(c, s)
    PROVE  /\ Moves(c, s) /\ Active(c, s) /\ call[c].job \in Job
           /\ work[c][s].ph = "index"
           /\ work'[c][s].id \in Id /\ used' = used \cup {work'[c][s].id}
           /\ \/ work[c][s].id # None /\ work'[c][s].id = work[c][s].id
              \/ /\ work[c][s].id = None /\ s = Nodes
                 /\ work'[c][s].id = StableId
              \/ work[c][s].id = None /\ work'[c][s].id \notin used
           /\ work'[c][s].old = work[c][s].old /\ work'[c][s].base = None
           /\ work'[c][s].ph = IF s \in Spelling THEN "stamp" ELSE "save"
           /\ work'[c][s].doc \in Doc /\ work'[c][s].doc.path = PathOf(s)
           /\ work'[c][s].doc.text = Content(c, s) /\ work'[c][s].doc.seen = None
           /\ work'[c][s].doc.logic = call[c].job.logic
           /\ work'[c][s].doc.model = IF s = Nodes THEN model ELSE None
           /\ work'[c][s].doc.made
                \in Enrichments(work[c][s].base, <<call[c].job.logic, model>>)
<1>1. work[c][s].ph = "index" /\ Content(c, s) # None
  BY DEF Index
<1>2. Active(c, s) /\ work[c][s] \in Work /\ call[c].job \in Job
  BY <1>1, TaskActive
<1>3. work \in [Call -> [Source -> Work]]
  BY DEF TypeOK
<1> DEFINE w == work[c][s]
           logic == call[c].job.logic
           Ids == IF w.id # None THEN {w.id}
                  ELSE IF s = Nodes /\ call[c].job.id # None
                       THEN {call[c].job.id} ELSE Fresh
           Made == Enrichments(w.base, <<logic, model>>)
           doc(made) == [path |-> PathOf(s), text |-> Content(c, s), seen |-> None,
                         logic |-> logic, model |-> IF s = Nodes THEN model ELSE None,
                         made |-> made]
           v(id, made) == [w EXCEPT !.id = id, !.base = None,
                             !.ph = IF s \in Spelling THEN "stamp" ELSE "save",
                             !.doc = doc(made)]
<1>4. PICK id \in Ids, made \in Made : used' = used \cup {id} /\ Put(c, s, v(id, made))
  BY DEF Index
<1>5. /\ id \in Id
      /\ \/ w.id # None /\ id = w.id
         \/ w.id = None /\ s = Nodes /\ id = StableId
         \/ w.id = None /\ id \notin used
  <2>1. call[c].job.id \in {StableId, None} /\ w.id \in Id \cup {None}
    BY <1>2 DEF Job, Work
  <2>2. QED
    BY <1>4, <2>1, FreshType, EngineAssumption
<1>6. made \subseteq Logic \X Model
  <2>1. <<logic, model>> \in Logic \X Model
    BY <1>2 DEF TypeOK, Job
  <2>2. w.base # None => w.base.made \subseteq Logic \X Model
    BY <1>2 DEF Work, Doc
  <2>3. QED
    BY <1>4, <2>1, <2>2 DEF Enrichments
<1> DEFINE dd == doc(made)
<1>7. /\ dd \in Doc /\ dd.path = PathOf(s) /\ dd.text = Content(c, s)
      /\ dd.seen = None /\ dd.logic = logic
      /\ dd.model = (IF s = Nodes THEN model ELSE None) /\ dd.made = made
  <2>1. Content(c, s) \in Text
    BY <1>1, <1>2, SourceTypes DEF Content, TypeOK, Job
  <2>2. PathOf(s) \in Path \cup {None} /\ logic \in Logic /\ model \in Model
    BY <1>2, SourceTypes DEF TypeOK, Job
  <2>3. QED
    BY <1>6, <2>1, <2>2 DEF Doc
<1> HIDE DEF dd
<1> DEFINE vv == [w EXCEPT !.id = id, !.base = None,
                             !.ph = IF s \in Spelling THEN "stamp" ELSE "save",
                             !.doc = dd]
<1>8. Put(c, s, vv)
  BY <1>4 DEF dd
<1>9. /\ vv \in Work /\ vv.ph = (IF s \in Spelling THEN "stamp" ELSE "save")
      /\ vv.id = id /\ vv.base = None /\ vv.doc = dd /\ vv.old = w.old
  BY ZenonT(30), <1>2, <1>5, <1>7 DEF Work
<1> HIDE DEF vv, Made
<1>10. Moves(c, s) /\ work'[c][s] = vv
  BY <1>3, <1>8, <1>9, PutTask DEF Moves
<1>11. QED
  BY <1>1, <1>2, <1>4, <1>5, <1>7, <1>9, <1>10 DEF Made

LEMMA IndexFailsEffect ==
    ASSUME TypeOK, CallInv, ShapeInv, NEW c \in Call, NEW s \in Source, IndexFails(c, s)
    PROVE  /\ Moves(c, s) /\ Active(c, s) /\ work[c][s].ph = "index"
           /\ work'[c][s].ph \in {"index", "failed"}
           /\ Kept(work[c][s], work'[c][s])
<1>1. work[c][s].ph = "index"
  BY DEF IndexFails
<1>2. Active(c, s) /\ work[c][s] \in Work
  BY <1>1, TaskActive
<1>3. work \in [Call -> [Source -> Work]]
  BY DEF TypeOK
<1> DEFINE w == work[c][s]
           v == [w EXCEPT !.tries = @ + 1]
           f == [w EXCEPT !.ph = "failed"]
<1>4. Retries(w) => v \in Work /\ v.ph = w.ph /\ Kept(w, v)
  BY <1>2, EngineAssumption DEF Work, Retries, Kept
<1>5. f \in Work /\ f.ph = "failed" /\ Kept(w, f)
  BY <1>2 DEF Work, Kept
<1>6. (Retries(w) /\ Put(c, s, v)) \/ Put(c, s, f)
  BY DEF IndexFails
<1> HIDE DEF v, f
<1>7. ASSUME NEW x \in Work, Put(c, s, x)
      PROVE  Moves(c, s) /\ work'[c][s] = x
  BY <1>3, <1>7, PutTask DEF Moves
<1>8. QED
  BY <1>1, <1>2, <1>4, <1>5, <1>6, <1>7

LEMMA StampEffect ==
    ASSUME TypeOK, CallInv, ShapeInv, NEW c \in Call, NEW s \in Source, Stamp(c, s)
    PROVE  /\ Moves(c, s) /\ Active(c, s) /\ s \in Spelling
           /\ work[c][s].ph = "stamp" /\ work'[c][s].ph = "save"
           /\ work'[c][s].id = work[c][s].id /\ work'[c][s].old = work[c][s].old
           /\ work'[c][s].base = work[c][s].base
           /\ work[c][s].doc \in Doc /\ work'[c][s].doc \in Doc
           /\ work'[c][s].doc.path = work[c][s].doc.path
           /\ work'[c][s].doc.text = work[c][s].doc.text
           /\ work'[c][s].doc.logic = work[c][s].doc.logic
           /\ work'[c][s].doc.model = work[c][s].doc.model
           /\ work'[c][s].doc.made = work[c][s].doc.made
           /\ work'[c][s].doc.seen = file[Canon[s]]
<1>1. work[c][s].ph = "stamp"
  BY DEF Stamp
<1>2. Active(c, s) /\ work[c][s] \in Work
  BY <1>1, TaskActive
<1>3. s \in Spelling /\ work[c][s].doc \in Doc
  BY <1>1, <1>2 DEF ShapeInv, Shape, Work
<1>4. work \in [Call -> [Source -> Work]] /\ file[Canon[s]] \in Text \cup {None}
  BY <1>3, SourceTypes DEF TypeOK
<1> DEFINE w == work[c][s]
           e == file[Canon[s]]
           d == [w.doc EXCEPT !.seen = e]
           v == [w EXCEPT !.ph = "save", !.doc = d]
<1>5. /\ d \in Doc /\ d.path = w.doc.path /\ d.text = w.doc.text
      /\ d.logic = w.doc.logic /\ d.model = w.doc.model /\ d.made = w.doc.made
      /\ d.seen = e
  <2> HIDE DEF e
  <2>1. e \in Text \cup {None}
    BY <1>4 DEF e
  <2>2. QED
    BY <1>3, <2>1 DEF Doc
<1>6. Put(c, s, v)
  <2>1. Put(c, s, [w EXCEPT !.ph = "save", !.doc.seen = e])
    BY DEF Stamp
  <2>2. [w EXCEPT !.ph = "save", !.doc.seen = e] = v
    BY <1>2 DEF Work
  <2>3. QED
    BY <2>1, <2>2
<1> HIDE DEF d
<1>7. /\ v \in Work /\ v.ph = "save" /\ v.id = w.id /\ v.old = w.old
      /\ v.base = w.base /\ v.doc = d
  BY <1>2, <1>5 DEF Work
<1> HIDE DEF v
<1>8. Moves(c, s) /\ work'[c][s] = v
  BY <1>4, <1>6, <1>7, PutTask DEF Moves
<1>9. QED
  BY <1>1, <1>2, <1>3, <1>5, <1>7, <1>8

LEMMA SavedHistType ==
    ASSUME TypeOK, NEW w \in Work, w.id \in Id, w.doc \in Doc
    PROVE  /\ SavedHist(w) \in Hist
           /\ SavedHist(w).saved = hist.saved \cup ({w.doc.path} \ {None})
           /\ SavedHist(w).gone = hist.gone \cup
                ((IF store[w.id] = None THEN {} ELSE {store[w.id].path}) \ {None, w.doc.path})
           /\ SavedHist(w).several = hist.several /\ SavedHist(w).due = hist.due
           /\ SavedHist(w).torn = hist.torn /\ SavedHist(w).lists = hist.lists
           /\ SavedHist(w).shown = hist.shown
<1> DEFINE replaced == IF store[w.id] = None THEN None ELSE store[w.id].path
           G == {replaced} \ {None, w.doc.path}
           S == {w.doc.path} \ {None}
<1>1. hist \in Hist
  BY DEF TypeOK
<1>2. S \in SUBSET Path /\ G \in SUBSET Path
  BY DEF Doc, TypeOK
<1>3. G = (IF store[w.id] = None THEN {} ELSE {store[w.id].path}) \ {None, w.doc.path}
  OBVIOUS
<1>4. SavedHist(w) = [hist EXCEPT !.saved = @ \cup S, !.gone = @ \cup G]
  BY DEF SavedHist
<1> HIDE DEF S, G
<1>5. /\ SavedHist(w) \in Hist
      /\ SavedHist(w).saved = hist.saved \cup S
      /\ SavedHist(w).gone = hist.gone \cup G
      /\ SavedHist(w).several = hist.several /\ SavedHist(w).due = hist.due
      /\ SavedHist(w).torn = hist.torn /\ SavedHist(w).lists = hist.lists
      /\ SavedHist(w).shown = hist.shown
  BY <1>1, <1>2, <1>4 DEF Hist
<1>6. QED
  BY <1>3, <1>5 DEF S

LEMMA SaveEffect ==
    ASSUME TypeOK, CallInv, ShapeInv, NEW c \in Call, NEW s \in Source, Save(c, s)
    PROVE  /\ Moves(c, s) /\ Active(c, s) /\ work[c][s].ph = "save"
           /\ Kept(work[c][s], work'[c][s])
           /\ work[c][s].id \in Id /\ work[c][s].doc \in Doc
           /\ work[c][s].doc.path = PathOf(s)
           /\ hist' \in Hist /\ hist'.due = hist.due /\ hist'.torn = hist.torn
           /\ hist'.lists = hist.lists /\ hist'.shown = hist.shown
           /\ \/ /\ work'[c][s].ph = "failed" /\ UNCHANGED <<store, hist>>
              \/ /\ store' = [store EXCEPT ![work[c][s].id] = work[c][s].doc]
                 /\ hist'.saved = hist.saved \cup ({PathOf(s)} \ {None})
                 /\ hist'.gone = hist.gone \cup
                      ((IF store[work[c][s].id] = None THEN {}
                        ELSE {store[work[c][s].id].path}) \ {None, PathOf(s)})
                 /\ \/ /\ work'[c][s].ph = IF work[c][s].old = None THEN "done"
                                            ELSE "remove"
                       /\ hist'.several = hist.several
                    \/ /\ work'[c][s].ph = "failed"
                       /\ hist'.several = hist.several \cup {PathOf(s)}
<1>1. work[c][s].ph = "save"
  BY DEF Save
<1>2. Active(c, s) /\ work[c][s] \in Work
  BY <1>1, TaskActive
<1>3. /\ work[c][s].id \in Id /\ work[c][s].doc \in Doc
      /\ work[c][s].doc.path = PathOf(s)
  BY <1>1, <1>2 DEF ShapeInv, Shape, Work
<1>4. work \in [Call -> [Source -> Work]] /\ hist \in Hist
  BY DEF TypeOK
<1> DEFINE w == work[c][s]
           d == [w EXCEPT !.ph = IF w.old = None THEN "done" ELSE "remove"]
           f == [w EXCEPT !.ph = "failed"]
           h == SavedHist(w)
           hs == [h EXCEPT !.several = @ \cup {w.doc.path}]
<1>5. /\ d \in Work /\ d.ph = (IF w.old = None THEN "done" ELSE "remove") /\ Kept(w, d)
      /\ f \in Work /\ f.ph = "failed" /\ Kept(w, f)
  BY <1>2 DEF Work, Kept
<1>6. /\ h \in Hist
      /\ h.saved = hist.saved \cup ({PathOf(s)} \ {None})
      /\ h.gone = hist.gone \cup
           ((IF store[w.id] = None THEN {} ELSE {store[w.id].path}) \ {None, PathOf(s)})
      /\ h.several = hist.several /\ h.due = hist.due
      /\ h.torn = hist.torn /\ h.lists = hist.lists /\ h.shown = hist.shown
  BY <1>2, <1>3, SavedHistType
<1>7. \/ store' = [store EXCEPT ![w.id] = w.doc] /\ Put(c, s, d) /\ hist' = h
      \/ UNCHANGED <<store, hist>> /\ Put(c, s, f)
      \/ store' = [store EXCEPT ![w.id] = w.doc] /\ Put(c, s, f) /\ hist' = hs
  BY DEF Save, SaveSucceeds, SaveFails
<1> HIDE DEF h
<1>8. /\ hs \in Hist /\ hs.saved = h.saved /\ hs.gone = h.gone
      /\ hs.several = h.several \cup {PathOf(s)} /\ hs.due = h.due
      /\ hs.torn = h.torn /\ hs.lists = h.lists /\ hs.shown = h.shown
  BY <1>3, <1>6, SourceTypes DEF Hist
<1> HIDE DEF hs, d, f
<1>9. ASSUME NEW x \in Work, Put(c, s, x)
      PROVE  Moves(c, s) /\ work'[c][s] = x
  BY <1>4, <1>9, PutTask DEF Moves
<1>10. Moves(c, s) /\ Kept(w, work'[c][s])
  BY <1>5, <1>7, <1>9
<1>11. QED
  <2>1. CASE store' = [store EXCEPT ![w.id] = w.doc] /\ Put(c, s, d) /\ hist' = h
    BY <1>1, <1>2, <1>3, <1>5, <1>6, <1>9, <1>10, <2>1
  <2>2. CASE UNCHANGED <<store, hist>> /\ Put(c, s, f)
    BY <1>1, <1>2, <1>3, <1>4, <1>5, <1>9, <1>10, <2>2
  <2>3. CASE store' = [store EXCEPT ![w.id] = w.doc] /\ Put(c, s, f) /\ hist' = hs
    BY <1>1, <1>2, <1>3, <1>5, <1>6, <1>8, <1>9, <1>10, <2>3
  <2>4. QED
    BY <1>7, <2>1, <2>2, <2>3

LEMMA RemoveOldEffect ==
    ASSUME TypeOK, CallInv, ShapeInv, NEW c \in Call, NEW s \in Source, RemoveOld(c, s)
    PROVE  /\ Moves(c, s) /\ Active(c, s) /\ s \in Spelling
           /\ work[c][s].ph = "remove" /\ work'[c][s].ph = "done"
           /\ Kept(work[c][s], work'[c][s])
           /\ work[c][s].id \in Id /\ work[c][s].old \in Id
           /\ hist' \in Hist /\ hist'.saved = hist.saved /\ hist'.gone = hist.gone
           /\ hist'.torn = hist.torn /\ hist'.lists = hist.lists
           /\ hist'.shown = hist.shown
           /\ \/ /\ store' = [store EXCEPT ![work[c][s].old] = None]
                 /\ hist'.due = hist.due \ {work[c][s].old}
                 /\ hist'.several = hist.several
              \/ /\ UNCHANGED store
                 /\ hist'.due = hist.due
                 /\ hist'.several = hist.several \cup {Canon[s]}
<1>1. work[c][s].ph = "remove"
  BY DEF RemoveOld
<1>2. Active(c, s) /\ work[c][s] \in Work
  BY <1>1, TaskActive
<1>3. /\ work[c][s].id \in Id /\ work[c][s].old \in Id /\ s \in Spelling
      /\ work[c][s].doc \in Doc
      /\ work[c][s].doc.path = Canon[s] /\ Canon[s] \in Path
  BY <1>1, <1>2, SourceTypes DEF ShapeInv, Shape, Work
<1>4. work \in [Call -> [Source -> Work]] /\ hist \in Hist
  BY DEF TypeOK
<1> DEFINE w == work[c][s]
           d == [w EXCEPT !.ph = "done"]
           h == [hist EXCEPT !.due = @ \ {w.old}]
           k == [hist EXCEPT !.several = @ \cup {w.doc.path}]
<1>5. d \in Work /\ d.ph = "done" /\ Kept(w, d)
  BY <1>2 DEF Work, Kept
<1>6. /\ h \in Hist /\ h.saved = hist.saved /\ h.gone = hist.gone
      /\ h.torn = hist.torn /\ h.lists = hist.lists /\ h.shown = hist.shown
      /\ h.due = hist.due \ {w.old} /\ h.several = hist.several
  BY <1>4 DEF Hist
<1>7. /\ k \in Hist /\ k.saved = hist.saved /\ k.gone = hist.gone
      /\ k.torn = hist.torn /\ k.lists = hist.lists /\ k.shown = hist.shown
      /\ k.due = hist.due /\ k.several = hist.several \cup {Canon[s]}
  BY <1>3, <1>4 DEF Hist
<1>8. /\ Put(c, s, d)
      /\ \/ store' = [store EXCEPT ![w.old] = None] /\ hist' = h
         \/ UNCHANGED store /\ hist' = k
  BY DEF RemoveOld
<1> HIDE DEF d, h, k
<1>9. Moves(c, s) /\ work'[c][s] = d
  BY <1>4, <1>5, <1>8, PutTask DEF Moves
<1>10. QED
  BY <1>1, <1>2, <1>3, <1>5, <1>6, <1>7, <1>8, <1>9

(***************************************************************************)
(* What the other steps do to calls, tasks, documents and history.         *)
(***************************************************************************)
\* Sources of j whose path gets one more compile besides, is forced, or is
\* named otherwise.
Overlaps(j) ==
    {t \in j.srcs \cap Spelling :
        \/ j.mode = "force" \/ t \notin Path \/ Busy(Canon[t]) # {}
        \/ \E u \in j.srcs \cap Spelling : u # t /\ Canon[u] = Canon[t]}

LEMMA RequestEffect ==
    ASSUME TypeOK, NEW c \in Call, Request(c)
    PROVE  /\ call[c].ph = "new"
           /\ call' \in [Call -> Calling] /\ work' \in [Call -> [Source -> Work]]
           /\ \A b \in Call : b # c => call'[b] = call[b] /\ work'[b] = work[b]
           /\ call'[c].ph = "run" /\ call'[c].job = plan.job[c] /\ plan.job[c] \in Job
           /\ \A s \in Source :
                /\ s \notin plan.job[c].srcs => work'[c][s] = NoWork
                /\ s \in plan.job[c].srcs =>
                     work'[c][s].ph = IF s = Nodes THEN "prev" ELSE "wait"
                /\ work'[c][s].id = None /\ work'[c][s].old = None
                /\ work'[c][s].base = None /\ work'[c][s].doc = None
           /\ hist' \in Hist /\ hist'.saved = hist.saved /\ hist'.gone = hist.gone
           /\ hist'.due = hist.due /\ hist'.torn = hist.torn
           /\ hist'.lists = hist.lists /\ hist'.shown = hist.shown
           /\ hist'.several = hist.several \cup {Canon[s] : s \in Overlaps(plan.job[c])}
<1> DEFINE j == plan.job[c]
           w(s) == [NoWork EXCEPT !.ph = IF s = Nodes THEN "prev" ELSE "wait"]
           ws == [s \in Source |-> IF s \notin j.srcs THEN NoWork ELSE w(s)]
           call1 == [ph |-> "run", job |-> j, id |-> None]
           more == {Canon[s] : s \in Overlaps(j)}
           h == [hist EXCEPT !.several = @ \cup more]
<1>1. j \in Job
  BY EngineAssumption DEF TypeOK
<1>2. \A s \in Source : /\ w(s) \in Work /\ w(s).ph = (IF s = Nodes THEN "prev" ELSE "wait")
                        /\ w(s).id = None /\ w(s).old = None
                        /\ w(s).base = None /\ w(s).doc = None
  BY NoWorkType DEF Work, NoWork
<1>3. /\ ws \in [Source -> Work]
      /\ \A s \in Source : ws[s] = IF s \notin j.srcs THEN NoWork ELSE w(s)
  BY <1>2, NoWorkType
<1>4. call1 \in Calling /\ call1.ph = "run" /\ call1.job = j
  BY <1>1 DEF Calling
<1>5. more \subseteq Path
  BY SourceTypes DEF Overlaps
<1>6. /\ call[c].ph = "new" /\ call' = [call EXCEPT ![c] = call1]
      /\ work' = [work EXCEPT ![c] = ws] /\ hist' = h
  BY DEF Request, Overlaps
<1> HIDE DEF more
<1>7. /\ h \in Hist /\ h.saved = hist.saved /\ h.gone = hist.gone
      /\ h.due = hist.due /\ h.torn = hist.torn
      /\ h.lists = hist.lists /\ h.shown = hist.shown
      /\ h.several = hist.several \cup more
  BY <1>5 DEF TypeOK, Hist
<1> HIDE DEF h, ws, call1, w
<1>8. /\ call' \in [Call -> Calling] /\ call'[c] = call1
      /\ work' \in [Call -> [Source -> Work]] /\ work'[c] = ws
      /\ \A b \in Call : b # c => call'[b] = call[b] /\ work'[b] = work[b]
  BY <1>3, <1>4, <1>6 DEF TypeOK
<1>9. NoWork.id = None /\ NoWork.old = None /\ NoWork.base = None /\ NoWork.doc = None
  BY DEF NoWork
<1>10. QED
  BY <1>1, <1>2, <1>3, <1>4, <1>6, <1>7, <1>8, <1>9 DEF more

\* Calls end, or an answer is given: tasks that go are gone altogether, and
\* one that had yet to remove a document leaves its path one of several.
Dropped ==
    /\ call' \in [Call -> Calling] /\ work' \in [Call -> [Source -> Work]]
    /\ \A c \in Call :
         /\ \/ call'[c].ph # "run" /\ work'[c] = Untouched
            \/ call'[c] = call[c] /\ work'[c] = work[c] /\ model' = model
         /\ \A s \in Source : work[c][s].ph = "remove" =>
              work'[c][s] = work[c][s] \/ work[c][s].doc.path \in hist'.several
    /\ hist' \in Hist /\ hist.several \subseteq hist'.several
    /\ hist'.saved = hist.saved /\ hist'.gone = hist.gone /\ hist'.torn = hist.torn
    /\ model' \in Model
    /\ UNCHANGED <<plan, file, store, graph, used>>

LEMMA FinishEffect ==
    ASSUME TypeOK, CallInv, NEW c \in Call, Finish(c)
    PROVE  /\ Dropped /\ hist'.lists = hist.lists /\ hist'.shown = hist.shown
           /\ \/ UNCHANGED <<reb, hist>>
              \/ /\ reb' = [reb EXCEPT ![c].ph = "list"]
                 /\ \E D \in SUBSET Stored : hist'.due = hist.due \cup D
<1> DEFINE srcs == call[c].job.srcs
           ids == {work[c][s].id : s \in {t \in srcs : work[c][t].ph # "failed"}}
           D == ids \cap Stored
           h == [hist EXCEPT !.due = @ \cup D]
<1>1. call[c].ph = "run" /\ \A s \in srcs : work[c][s].ph \in Ended
  BY DEF Finish
<1>2. srcs \subseteq Source
  BY <1>1, RunningJob
<1>3. ids \subseteq Id \cup {None}
  <2>1. \A s \in srcs : work[c][s] \in Work
    BY <1>2 DEF TypeOK
  <2>2. QED
    BY <2>1 DEF Work
<1>4. /\ h \in Hist /\ h.several = hist.several /\ h.saved = hist.saved
      /\ h.gone = hist.gone /\ h.torn = hist.torn /\ h.lists = hist.lists
      /\ h.shown = hist.shown /\ h.due = hist.due \cup D
  <2>1. D \subseteq Id
    BY DEF Stored
  <2> HIDE DEF D
  <2>2. QED
    BY <2>1 DEF TypeOK, Hist
<1>5. hist' = h \/ hist' = hist
  BY DEF Finish
<1>6. \E a \in Calling : a.ph # "run" /\ call' = [call EXCEPT ![c] = a]
  <2>1. \A id \in Id \cup {None}, ph \in {"show", "ok", "err"} :
           Answer(ph, id) \in Calling /\ Answer(ph, id).ph # "run"
    BY DEF Answer, Calling
  <2>2. \E id \in Id \cup {None}, ph \in {"show", "ok", "err"} :
           call' = [call EXCEPT ![c] = Answer(ph, id)]
    <3>1. ids # {} => (CHOOSE d \in ids : TRUE) \in Id \cup {None}
      BY <1>3
    <3>2. QED
      BY <3>1 DEF Finish
  <2>3. QED
    BY <2>1, <2>2
<1>7. work' = [work EXCEPT ![c] = Untouched]
  BY DEF Finish, Untouched
<1>8. /\ call' \in [Call -> Calling] /\ call'[c].ph # "run"
      /\ work' \in [Call -> [Source -> Work]] /\ work'[c] = Untouched
      /\ \A b \in Call : b # c => call'[b] = call[b] /\ work'[b] = work[b]
  BY <1>6, <1>7, NoWorkType DEF TypeOK
<1>9. \A s \in Source : work[c][s].ph # "remove"
  BY <1>1 DEF CallInv, Active, Ended, NoWork
<1>10. /\ UNCHANGED <<plan, file, store, graph, model, used>>
       /\ \/ UNCHANGED <<reb, hist>>
          \/ reb' = [reb EXCEPT ![c].ph = "list"] /\ hist' = h
  BY DEF Finish
<1> HIDE DEF h
<1>11. Dropped
  BY <1>4, <1>5, <1>8, <1>9, <1>10 DEF Dropped, TypeOK
<1>12. QED
  BY <1>4, <1>10, <1>11

LEMMA AbandonedPaths ==
    ASSUME TypeOK, CallInv, ShapeInv, NEW C \in SUBSET Call
    PROVE  /\ Abandoned(C) \subseteq Path \cup {None}
           /\ \A c \in C, s \in Source :
                work[c][s].ph = "remove" => work[c][s].doc.path \in Abandoned(C)
<1> DEFINE Left == {y \in C \X Source : work[y[1]][y[2]].ph = "remove"}
<1>1. \A c \in C, s \in Source : work[c][s].ph = "remove" => <<c, s>> \in Left
  OBVIOUS
<1>2. \A x \in Left : work[x[1]][x[2]].doc.path \in Path \cup {None}
  <2> SUFFICES ASSUME NEW x \in Left
               PROVE  work[x[1]][x[2]].doc.path \in Path \cup {None}
    OBVIOUS
  <2>1. x[1] \in Call /\ x[2] \in Source /\ work[x[1]][x[2]].ph = "remove"
    OBVIOUS
  <2>2. QED
    BY <2>1, SourceTypes DEF ShapeInv, Shape
<1>3. Abandoned(C) = {work[x[1]][x[2]].doc.path : x \in Left}
  BY DEF Abandoned
<1>4. \A c \in C, s \in Source :
         work[c][s].ph = "remove" => work[c][s].doc.path \in Abandoned(C)
  <2> SUFFICES ASSUME NEW c \in C, NEW s \in Source, work[c][s].ph = "remove"
               PROVE  \E x \in Left : work[c][s].doc.path = work[x[1]][x[2]].doc.path
    BY <1>3
  <2> DEFINE x == <<c, s>>
  <2>1. x \in Left /\ x[1] = c /\ x[2] = s
    BY <1>1
  <2> HIDE DEF x, Left
  <2>2. QED
    BY <2>1
<1> HIDE DEF Left
<1>5. QED
  BY <1>2, <1>3, <1>4

LEMMA TimeoutEffect ==
    ASSUME TypeOK, CallInv, ShapeInv, NEW c \in Call, Timeout(c)
    PROVE  Dropped /\ UNCHANGED reb /\ hist'.due = hist.due
           /\ hist'.lists = hist.lists /\ hist'.shown = hist.shown
<1> DEFINE A == Abandoned({c})
           h == [hist EXCEPT !.several = @ \cup A]
<1>1. /\ A \subseteq Path \cup {None}
      /\ \A s \in Source : work[c][s].ph = "remove" => work[c][s].doc.path \in A
  BY AbandonedPaths
<1>2. hist' = h
  BY DEF Timeout
<1> HIDE DEF A
<1>3. /\ h \in Hist /\ h.several = hist.several \cup A /\ h.saved = hist.saved
      /\ h.gone = hist.gone /\ h.torn = hist.torn /\ h.due = hist.due
      /\ h.lists = hist.lists /\ h.shown = hist.shown
  BY <1>1 DEF TypeOK, Hist
<1> HIDE DEF h
<1>4. call' = [call EXCEPT ![c] = Answer("err", None)] /\ work' = [work EXCEPT ![c] = Untouched]
  BY DEF Timeout, Untouched
<1>5. Answer("err", None) \in Calling /\ Answer("err", None).ph # "run"
  BY DEF Answer, Calling
<1>6. /\ call' \in [Call -> Calling] /\ call'[c].ph # "run"
      /\ work' \in [Call -> [Source -> Work]] /\ work'[c] = Untouched
      /\ \A b \in Call : b # c => call'[b] = call[b] /\ work'[b] = work[b]
  BY <1>4, <1>5, NoWorkType DEF TypeOK
<1>7. UNCHANGED <<plan, file, store, graph, model, reb, used>>
  BY DEF Timeout
<1>8. QED
  BY <1>1, <1>2, <1>3, <1>6, <1>7 DEF Dropped, TypeOK

LEMMA ShowEffect ==
    ASSUME TypeOK, CallInv, NEW c \in Call, Show(c)
    PROVE  Dropped /\ UNCHANGED <<reb, hist>>
<1>1. call[c].ph = "show" /\ work[c] = Untouched
  BY DEF Show, CallInv
<1>2. \E ph \in {"err", "ok"} : call' = [call EXCEPT ![c] = Answer(ph, None)]
  BY DEF Show
<1>3. \A ph \in {"err", "ok"} : Answer(ph, None) \in Calling /\ Answer(ph, None).ph # "run"
  BY DEF Answer, Calling
<1>4. /\ call' \in [Call -> Calling] /\ call'[c].ph # "run"
      /\ \A b \in Call : b # c => call'[b] = call[b]
  BY <1>2, <1>3 DEF TypeOK
<1>5. UNCHANGED <<plan, file, store, graph, model, work, reb, used, hist>>
  BY DEF Show
<1>6. QED
  BY <1>1, <1>4, <1>5 DEF Dropped, TypeOK

LEMMA RestartEffect ==
    ASSUME TypeOK, CallInv, ShapeInv, Restart
    PROVE  /\ Dropped /\ reb' = [c \in Call |-> NoRebuild] /\ hist'.due = hist.due
           /\ hist'.shown = hist.shown
           /\ hist'.lists = IF reb = [c \in Call |-> NoRebuild] THEN hist.lists
                            ELSE hist.lists + 1
<1> DEFINE A == Abandoned(Call)
           n == IF reb = [c \in Call |-> NoRebuild] THEN hist.lists ELSE hist.lists + 1
           h == [hist EXCEPT !.several = @ \cup A, !.lists = n]
<1>1. /\ A \subseteq Path \cup {None}
      /\ \A c \in Call, s \in Source :
           work[c][s].ph = "remove" => work[c][s].doc.path \in A
  BY AbandonedPaths
<1>2. hist' = h /\ n \in Nat
  BY DEF Restart, TypeOK, Hist
<1> HIDE DEF A, n
<1>3. /\ h \in Hist /\ h.several = hist.several \cup A /\ h.saved = hist.saved
      /\ h.gone = hist.gone /\ h.torn = hist.torn /\ h.due = hist.due
      /\ h.lists = n /\ h.shown = hist.shown
  BY <1>1, <1>2 DEF TypeOK, Hist
<1> HIDE DEF h
<1>4. /\ work' = [c \in Call |-> Untouched]
      /\ call' = [c \in Call |-> IF call[c].ph \in {"run", "show"}
                                 THEN Answer("err", None) ELSE call[c]]
      /\ reb' = [c \in Call |-> NoRebuild] /\ model' \in Model
      /\ UNCHANGED <<plan, file, store, graph, used>>
  BY DEF Restart, Untouched
<1>5. Answer("err", None) \in Calling /\ Answer("err", None).ph # "run"
  BY DEF Answer, Calling
<1>6. /\ call' \in [Call -> Calling] /\ \A c \in Call : call'[c].ph # "run"
      /\ work' \in [Call -> [Source -> Work]] /\ \A c \in Call : work'[c] = Untouched
  BY <1>4, <1>5, NoWorkType DEF TypeOK
<1>7. Dropped
  BY <1>1, <1>2, <1>3, <1>4, <1>6 DEF Dropped
<1>8. QED
  BY <1>2, <1>3, <1>4, <1>7 DEF n

\* A user's call removes a document, or does not find it.
Removes ==
    /\ \/ UNCHANGED <<store, hist>>
       \/ \E d \in Stored :
            /\ store' = [store EXCEPT ![d] = None]
            /\ hist'.due = hist.due \ {d}
            /\ hist'.gone = hist.gone \cup ({store[d].path} \ {None})
    /\ hist' \in Hist /\ hist'.saved = hist.saved /\ hist'.several = hist.several
    /\ hist'.torn = hist.torn /\ hist'.lists = hist.lists /\ hist'.shown = hist.shown
    /\ UNCHANGED <<plan, file, graph, model, call, work, reb, used>>

LEMMA RemoveEffect ==
    ASSUME TypeOK, NEW d \in Id, Forget(d) \/ ClearOne(d)
    PROVE  Removes
<1> DEFINE G == {store[d].path} \ {None}
           h == [hist EXCEPT !.due = @ \ {d}, !.gone = @ \cup G]
<1>1. /\ UNCHANGED <<plan, file, graph, model, call, work, reb, used>>
      /\ \/ UNCHANGED <<store, hist>>
         \/ d \in Stored /\ store' = [store EXCEPT ![d] = None] /\ hist' = h
  BY DEF Forget, ClearOne, Remove
<1>2. d \in Stored => G \subseteq Path
  BY DEF TypeOK, Stored, Doc
<1>3. d \in Stored =>
        /\ h \in Hist /\ h.saved = hist.saved /\ h.several = hist.several
        /\ h.torn = hist.torn /\ h.lists = hist.lists /\ h.shown = hist.shown
        /\ h.due = hist.due \ {d} /\ h.gone = hist.gone \cup G
  <2> HIDE DEF G
  <2>1. QED
    BY <1>2 DEF TypeOK, Hist
<1> HIDE DEF h
<1>4. QED
  BY <1>1, <1>3 DEF Removes, TypeOK

\* Tasks, calls and documents are left alone.
Quiet ==
    /\ hist' \in Hist /\ hist'.saved = hist.saved /\ hist'.gone = hist.gone
    /\ hist'.several = hist.several /\ hist'.due = hist.due
    /\ hist.torn \subseteq hist'.torn
    /\ UNCHANGED <<plan, store, model, call, work, used>>

LEMMA ListForGraphEffect ==
    ASSUME TypeOK, NEW c \in Call, ListForGraph(c)
    PROVE  /\ Quiet /\ UNCHANGED <<file, graph>> /\ hist'.torn = hist.torn
           /\ hist'.shown = hist.shown /\ hist'.lists = hist.lists + 1
           /\ reb' \in [Call -> Rebuilding]
           /\ reb'[c].ph = "load" /\ reb'[c].todo = Stored /\ reb'[c].n = hist.lists + 1
           /\ \A b \in Call : b # c => reb'[b] = reb[b]
<1> DEFINE h == [hist EXCEPT !.lists = @ + 1]
           r == [ph |-> "load", todo |-> Stored, got |-> {}, n |-> hist.lists + 1]
<1>1. /\ hist' = h /\ reb' = [reb EXCEPT ![c] = r]
      /\ UNCHANGED <<plan, file, store, graph, model, call, work, used>>
  BY DEF ListForGraph
<1>2. /\ h \in Hist /\ h.saved = hist.saved /\ h.gone = hist.gone
      /\ h.several = hist.several /\ h.due = hist.due /\ h.torn = hist.torn
      /\ h.lists = hist.lists + 1 /\ h.shown = hist.shown
  <2>1. hist \in Hist /\ hist.lists \in Nat
    BY DEF TypeOK, Hist
  <2> DEFINE n == hist.lists + 1
  <2>2. n \in Nat /\ h = [hist EXCEPT !.lists = n]
    BY <2>1 DEF Hist
  <2> HIDE DEF n
  <2>3. /\ h \in Hist /\ h.saved = hist.saved /\ h.gone = hist.gone
        /\ h.several = hist.several /\ h.due = hist.due /\ h.torn = hist.torn
        /\ h.lists = n /\ h.shown = hist.shown
    BY <2>1, <2>2 DEF Hist
  <2>4. QED
    BY <2>3 DEF n
<1>3. /\ r \in Rebuilding /\ r.ph = "load" /\ r.todo = Stored /\ r.n = hist.lists + 1
  BY DEF TypeOK, Hist, Rebuilding, Stored
<1> HIDE DEF h, r
<1>4. QED
  BY <1>1, <1>2, <1>3 DEF Quiet, TypeOK

LEMMA LoadForGraphEffect ==
    ASSUME TypeOK, NEW c \in Call, LoadForGraph(c)
    PROVE  /\ Quiet /\ UNCHANGED <<file, graph, hist>>
           /\ reb[c].ph = "load" /\ reb' \in [Call -> Rebuilding] /\ reb'[c].ph = "set"
           /\ \/ reb'[c].n = 0
              \/ reb'[c].got = reb[c].todo \cap Stored /\ reb'[c].n = reb[c].n
           /\ \A b \in Call : b # c => reb'[b] = reb[b]
<1>1. PICK missed \in {{}} \cup {{d} : d \in reb[c].todo} :
         reb' = [reb EXCEPT ![c] = [ph |-> "set", todo |-> {},
                    got |-> (reb[c].todo \cap Stored) \ missed,
                    n |-> IF missed = {} THEN reb[c].n ELSE 0]]
  BY DEF LoadForGraph
<1> DEFINE r == [ph |-> "set", todo |-> {}, got |-> (reb[c].todo \cap Stored) \ missed,
                 n |-> IF missed = {} THEN reb[c].n ELSE 0]
<1>2. /\ r \in Rebuilding /\ r.ph = "set"
      /\ r.n = 0 \/ (r.got = reb[c].todo \cap Stored /\ r.n = reb[c].n)
  BY DEF TypeOK, Rebuilding, Stored
<1>3. /\ UNCHANGED <<plan, file, store, graph, model, call, work, used, hist>>
      /\ reb[c].ph = "load"
  BY DEF LoadForGraph
<1>4. reb' = [reb EXCEPT ![c] = r]
  BY <1>1
<1> HIDE DEF r
<1>5. QED
  BY <1>2, <1>3, <1>4 DEF Quiet, TypeOK

LEMMA SetGraphEffect ==
    ASSUME TypeOK, NEW c \in Call, SetGraph(c)
    PROVE  /\ Quiet /\ UNCHANGED file /\ graph' \in SUBSET Id /\ hist'.torn = hist.torn
           /\ reb[c].ph = "set" /\ reb' \in [Call -> Rebuilding] /\ reb'[c].ph = "off"
           /\ reb'[c].n = 0
           /\ \A b \in Call : b # c => reb'[b] = reb[b]
           /\ hist'.lists = hist.lists
           /\ \/ graph' = graph /\ hist'.shown = hist.shown
              \/ graph' = reb[c].got /\ hist'.shown = reb[c].n
<1> DEFINE h == [hist EXCEPT !.shown = reb[c].n]
<1>1. /\ reb' = [reb EXCEPT ![c] = NoRebuild] /\ reb[c].ph = "set"
      /\ \/ graph' = reb[c].got /\ hist' = h
         \/ UNCHANGED <<graph, hist>>
      /\ UNCHANGED <<plan, file, store, model, call, work, used>>
  BY DEF SetGraph
<1>2. NoRebuild \in Rebuilding /\ NoRebuild.ph = "off" /\ NoRebuild.n = 0
  BY DEF NoRebuild, Rebuilding
<1>3. reb[c].n \in Nat /\ reb[c].got \in SUBSET Id
  BY DEF TypeOK, Rebuilding
<1>4. /\ h \in Hist /\ h.saved = hist.saved /\ h.gone = hist.gone
      /\ h.several = hist.several /\ h.due = hist.due /\ h.torn = hist.torn
      /\ h.lists = hist.lists /\ h.shown = reb[c].n
  BY <1>3 DEF TypeOK, Hist
<1> HIDE DEF h
<1>5. QED
  BY <1>1, <1>2, <1>3, <1>4 DEF Quiet, TypeOK

LEMMA EditEffect ==
    ASSUME TypeOK, NEW p \in Path, Edit(p)
    PROVE  /\ Quiet /\ UNCHANGED <<graph, reb>>
           /\ hist'.lists = hist.lists /\ hist'.shown = hist.shown
           /\ file' \in [Path -> Text \cup {None}]
           /\ \A q \in Path : q # p => file'[q] = file[q]
           /\ \/ \A x \in Busy(p) : work[x[1]][x[2]].ph # "stamp"
              \/ p \in hist'.torn
<1> DEFINE h == [hist EXCEPT !.torn = @ \cup {p}]
<1>1. PICK u \in (Text \cup {None}) \ {file[p]} : file' = [file EXCEPT ![p] = u]
  BY DEF Edit
<1>2. /\ hist' = IF \E x \in Busy(p) : work[x[1]][x[2]].ph = "stamp" THEN h ELSE hist
      /\ UNCHANGED <<plan, store, graph, model, call, work, reb, used>>
  BY DEF Edit
<1>3. /\ h \in Hist /\ h.saved = hist.saved /\ h.gone = hist.gone
      /\ h.several = hist.several /\ h.due = hist.due /\ h.torn = hist.torn \cup {p}
      /\ h.lists = hist.lists /\ h.shown = hist.shown
  BY DEF TypeOK, Hist
<1> HIDE DEF h
<1>4. QED
  BY <1>1, <1>2, <1>3 DEF Quiet, TypeOK

(***************************************************************************)
(* Every step is of one of five kinds, and keeps the types.                *)
(***************************************************************************)
TaskStep(c, s) == SourceStep(c, s) \/ (s = Nodes /\ LoadPrevious(c))

LEMMA TaskFrame ==
    ASSUME TypeOK, CallInv, ShapeInv, NEW c \in Call, NEW s \in Source, TaskStep(c, s)
    PROVE  /\ Moves(c, s) /\ Active(c, s) /\ call[c].job \in Job
           /\ UNCHANGED <<plan, file, call, reb, model, graph, doomed, events>>
           /\ store' \in [Id -> Doc \cup {None}]
           /\ used' \subseteq Id /\ used \subseteq used'
           /\ hist' \in Hist /\ hist.saved \subseteq hist'.saved
           /\ hist.gone \subseteq hist'.gone /\ hist.several \subseteq hist'.several
           /\ hist'.torn = hist.torn /\ hist'.lists = hist.lists
           /\ hist'.shown = hist.shown
<1>1. store \in [Id -> Doc \cup {None}] /\ used \subseteq Id /\ hist \in Hist
  BY DEF TypeOK
<1>2. ASSUME Active(c, s) PROVE call[c].job \in Job
  BY <1>2, RunningJob DEF Active
<1>3. CASE Resolve(c, s)
  BY <1>1, <1>2, <1>3, ResolveEffect DEF Resolve
<1>4. CASE ReadFile(c, s)
  <2>1. Moves(c, s) /\ Active(c, s) /\ s \in Spelling
    BY <1>4, ReadFileEffect
  <2>2. UNCHANGED hist \/ hist' = [hist EXCEPT !.several = @ \cup {Canon[s]}]
    BY <1>4, ReadFileEffect
  <2>3. /\ hist' \in Hist /\ hist'.saved = hist.saved /\ hist'.gone = hist.gone
        /\ hist.several \subseteq hist'.several /\ hist'.torn = hist.torn
        /\ hist'.lists = hist.lists /\ hist'.shown = hist.shown
    BY <1>1, <2>1, <2>2, SourceTypes DEF Hist
  <2>4. QED
    BY <1>1, <1>2, <1>4, <2>1, <2>3 DEF ReadFile
<1>5. CASE LoadOld(c, s)
  BY <1>1, <1>2, <1>5, LoadOldEffect DEF LoadOld
<1>6. CASE Index(c, s)
  <2>1. /\ Moves(c, s) /\ Active(c, s)
        /\ \E d \in Id : used' = used \cup {d}
    BY <1>6, IndexEffect
  <2>2. QED
    BY <1>1, <1>2, <1>6, <2>1 DEF Index
<1>7. CASE IndexFails(c, s)
  BY <1>1, <1>2, <1>7, IndexFailsEffect DEF IndexFails
<1>8. CASE Stamp(c, s)
  BY <1>1, <1>2, <1>8, StampEffect DEF Stamp
<1>9. CASE Save(c, s)
  <2>1. /\ Moves(c, s) /\ Active(c, s)
        /\ work[c][s].id \in Id /\ work[c][s].doc \in Doc
        /\ hist' \in Hist /\ hist'.torn = hist.torn
        /\ hist'.lists = hist.lists /\ hist'.shown = hist.shown
    BY <1>9, SaveEffect
  <2>2. /\ \/ UNCHANGED store
           \/ store' = [store EXCEPT ![work[c][s].id] = work[c][s].doc]
        /\ hist.saved \subseteq hist'.saved /\ hist.gone \subseteq hist'.gone
        /\ hist.several \subseteq hist'.several
    BY <1>9, SaveEffect
  <2>3. QED
    BY <1>1, <1>2, <1>9, <2>1, <2>2 DEF Save
<1>10. CASE RemoveOld(c, s)
  <2>1. /\ Moves(c, s) /\ Active(c, s)
        /\ work[c][s].id \in Id /\ work[c][s].doc \in Doc \cup {None}
        /\ hist' \in Hist /\ hist'.saved = hist.saved /\ hist'.gone = hist.gone
        /\ hist'.torn = hist.torn /\ hist'.lists = hist.lists /\ hist'.shown = hist.shown
        /\ hist.several \subseteq hist'.several
    BY <1>10, RemoveOldEffect DEF TypeOK, Work
  <2>2. \/ UNCHANGED store
        \/ store' = [store EXCEPT ![work[c][s].old] = None]
    BY <1>10, RemoveOldEffect
  <2>3. QED
    BY <1>1, <1>2, <1>10, <2>1, <2>2 DEF RemoveOld
<1>11. CASE s = Nodes /\ LoadPrevious(c)
  BY <1>1, <1>2, <1>11, LoadPreviousEffect DEF LoadPrevious
<1>12. QED
  BY <1>3, <1>4, <1>5, <1>6, <1>7, <1>8, <1>9, <1>10, <1>11 DEF TaskStep, SourceStep

LEMMA StepCases ==
    ASSUME TypeOK, CallInv, ShapeInv, [Next]_vars
    PROVE  \/ \E c \in Call, s \in Source : TaskStep(c, s)
           \/ \E c \in Call : Request(c)
           \/ Dropped \/ Removes \/ Quiet
<1>1. ASSUME NEW c \in Call, Advance(c)
      PROVE  Dropped \/ \E s \in Source : TaskStep(c, s)
  <2>1. CASE \E s \in Source : SourceStep(c, s)
    BY <2>1 DEF TaskStep
  <2>2. CASE LoadPrevious(c)
    BY <2>2, SourceTypes DEF TaskStep
  <2>3. CASE Finish(c) \/ Show(c)
    BY <2>3, FinishEffect, ShowEffect
  <2>4. QED
    BY <1>1, <2>1, <2>2, <2>3 DEF Advance
<1>2. ASSUME NEW c \in Call, Timeout(c) PROVE Dropped
  BY <1>2, TimeoutEffect
<1>3. ASSUME NEW c \in Call, Rebuild(c) PROVE Quiet
  BY <1>3, ListForGraphEffect, LoadForGraphEffect, SetGraphEffect DEF Rebuild
<1>4. ASSUME NEW d \in Id, Forget(d) \/ ClearOne(d) PROVE Removes
  BY <1>4, RemoveEffect
<1>5. CASE Clear
  BY <1>5 DEF Clear, Quiet, TypeOK
<1>6. CASE Restart
  BY <1>6, RestartEffect
<1>7. ASSUME NEW p \in Path, Edit(p) PROVE Quiet
  BY <1>7, EditEffect
<1>8. CASE UNCHANGED vars
  BY <1>8 DEF vars, Quiet, TypeOK
<1>9. QED
  BY <1>1, <1>2, <1>3, <1>4, <1>5, <1>6, <1>7, <1>8 DEF Next

LEMMA TypeStep ==
    ASSUME TypeOK, CallInv, ShapeInv, [Next]_vars
    PROVE  TypeOK'
<1>1. ASSUME NEW c \in Call, NEW s \in Source, TaskStep(c, s) PROVE TypeOK'
  BY <1>1, TaskFrame DEF TypeOK, Moves
<1>2. ASSUME NEW c \in Call, Request(c) PROVE TypeOK'
  <2>1. /\ call' \in [Call -> Calling] /\ work' \in [Call -> [Source -> Work]]
        /\ hist' \in Hist
    BY <1>2, RequestEffect
  <2>2. UNCHANGED <<plan, file, store, graph, model, reb, doomed, used, events>>
    BY <1>2 DEF Request
  <2>3. QED
    BY <2>1, <2>2 DEF TypeOK
<1>3. ASSUME NEW c \in Call, Finish(c) PROVE TypeOK'
  <2>1. UNCHANGED <<doomed, events>>
    BY <1>3 DEF Finish
  <2>2. reb' = reb \/ reb' = [reb EXCEPT ![c].ph = "list"]
    BY <1>3, FinishEffect
  <2>3. reb' \in [Call -> Rebuilding]
    <3> DEFINE r == [reb[c] EXCEPT !.ph = "list"]
    <3>1. r \in Rebuilding
      BY DEF TypeOK, Rebuilding
    <3>2. [reb EXCEPT ![c].ph = "list"] = [reb EXCEPT ![c] = r]
      BY DEF TypeOK
    <3> HIDE DEF r
    <3>3. QED
      BY ZenonT(30), <2>2, <3>1, <3>2 DEF TypeOK
  <2>4. Dropped
    BY <1>3, FinishEffect
  <2>5. QED
    BY <2>1, <2>3, <2>4 DEF TypeOK, Dropped
<1>4. ASSUME NEW c \in Call, Show(c) \/ Timeout(c) PROVE TypeOK'
  <2>1. Dropped /\ UNCHANGED <<doomed, events, reb>>
    BY <1>4, ShowEffect, TimeoutEffect DEF Show, Timeout
  <2>2. QED
    BY <2>1 DEF TypeOK, Dropped
<1>5. CASE Restart
  <2>1. Dropped /\ doomed' = {} /\ events' = events + 1 /\ events < MaxEvents
        /\ reb' = [c \in Call |-> NoRebuild]
    BY <1>5, RestartEffect DEF Restart, Event
  <2>2. NoRebuild \in Rebuilding
    BY DEF NoRebuild, Rebuilding
  <2>3. events' \in 0..MaxEvents
    BY <2>1, EngineAssumption DEF TypeOK
  <2>4. QED
    BY <2>1, <2>2, <2>3 DEF TypeOK, Dropped
<1>6. ASSUME NEW c \in Call, Rebuild(c) PROVE TypeOK'
  <2>1. UNCHANGED <<doomed, events>>
    BY <1>6 DEF Rebuild, ListForGraph, LoadForGraph, SetGraph
  <2>2. Quiet /\ UNCHANGED file /\ graph' \in SUBSET Id /\ reb' \in [Call -> Rebuilding]
    BY <1>6, ListForGraphEffect, LoadForGraphEffect, SetGraphEffect DEF Rebuild, TypeOK
  <2>3. QED
    BY <2>1, <2>2 DEF TypeOK, Quiet
<1>7. ASSUME NEW d \in Id, Forget(d) \/ ClearOne(d) PROVE TypeOK'
  <2>1. Removes
    BY <1>7, RemoveEffect
  <2>2. store' \in [Id -> Doc \cup {None}]
    BY <2>1 DEF Removes, TypeOK, Stored
  <2>3. doomed' \subseteq Id /\ events' \in 0..MaxEvents
    BY <1>7, EngineAssumption DEF Forget, ClearOne, Event, TypeOK
  <2>4. QED
    BY <2>1, <2>2, <2>3 DEF TypeOK, Removes
<1>8. CASE Clear
  BY <1>8, EngineAssumption DEF Clear, Event, TypeOK, Stored
<1>9. ASSUME NEW p \in Path, Edit(p) PROVE TypeOK'
  <2>1. doomed' = doomed /\ events' \in 0..MaxEvents
    BY <1>9, EngineAssumption DEF Edit, Event, TypeOK
  <2>2. Quiet /\ UNCHANGED <<graph, reb>> /\ file' \in [Path -> Text \cup {None}]
    BY <1>9, EditEffect
  <2>3. QED
    BY <2>1, <2>2 DEF TypeOK, Quiet
<1>10. CASE UNCHANGED vars
  BY <1>10 DEF vars, TypeOK
<1>11. QED
  BY <1>1, <1>2, <1>3, <1>4, <1>5, <1>6, <1>7, <1>8, <1>9, <1>10, SourceTypes
     DEF Next, Advance, TaskStep

(***************************************************************************)
(* Calls and the shape of tasks.                                           *)
(***************************************************************************)
LEMMA CallStep ==
    ASSUME TypeOK, CallInv, ShapeInv, [Next]_vars
    PROVE  CallInv'
<1> USE DEF CallInv, Active
<1>1. ASSUME NEW c \in Call, NEW s \in Source, TaskStep(c, s) PROVE CallInv'
  <2>1. Moves(c, s) /\ Active(c, s) /\ UNCHANGED <<plan, call>>
    BY <1>1, TaskFrame
  <2>2. \A b \in Call : b # c => work'[b] = work[b]
    BY <2>1 DEF Moves, TypeOK
  <2>3. QED
    BY <2>1, <2>2 DEF Moves
<1>2. ASSUME NEW c \in Call, Request(c) PROVE CallInv'
  <2>1. UNCHANGED plan
    BY <1>2 DEF Request
  <2>2. QED
    BY <1>2, <2>1, RequestEffect DEF Job
<1>3. CASE Dropped
  BY <1>3 DEF Dropped, Untouched
<1>4. CASE Removes
  BY <1>4 DEF Removes
<1>5. CASE Quiet
  BY <1>5 DEF Quiet
<1>6. QED
  BY <1>1, <1>2, <1>3, <1>4, <1>5, StepCases

LEMMA ShapeStep ==
    ASSUME TypeOK, CallInv, ShapeInv, [Next]_vars
    PROVE  ShapeInv'
<1>1. ASSUME NEW s \in Source PROVE Shape(s, NoWork)
  BY NoneApart DEF Shape, NoWork
<1>2. ASSUME NEW c \in Call, NEW s \in Source, TaskStep(c, s) PROVE ShapeInv'
  <2>1. Moves(c, s) /\ work'[c][s] \in Work
    BY <1>2, TaskFrame DEF Moves
  <2>2. Shape(s, work[c][s])
    BY DEF ShapeInv
  <2>3. Shape(s, work'[c][s])
    <3>1. CASE Resolve(c, s)
      BY <3>1, ResolveEffect, SourceTypes, NoneApart DEF Shape, Stored
    <3>2. CASE ReadFile(c, s)
      <4>1. s \in Spelling /\ work[c][s].id # None /\ PathOf(s) = Canon[s]
        BY <2>2, <3>2, ReadFileEffect, SourceTypes DEF Shape
      <4>2. /\ work'[c][s].old = None
            /\ \/ work'[c][s].ph = "index"
               \/ /\ work'[c][s].ph = "old" /\ work'[c][s].id = work[c][s].id
                  /\ work'[c][s].doc \in Doc /\ work'[c][s].doc.path = Canon[s]
        BY <3>2, ReadFileEffect
      <4>3. QED
        BY <4>1, <4>2, NoneApart DEF Shape
    <3>3. CASE LoadOld(c, s)
      BY <2>2, <3>3, LoadOldEffect, SourceTypes, NoneApart DEF Shape
    <3>4. CASE Index(c, s)
      <4>1. work[c][s].old # None => s \in Spelling
        BY <2>2 DEF Shape
      <4>2. /\ work'[c][s].id \in Id /\ work'[c][s].old = work[c][s].old
            /\ work'[c][s].ph = (IF s \in Spelling THEN "stamp" ELSE "save")
            /\ work'[c][s].doc \in Doc /\ work'[c][s].doc.path = PathOf(s)
        BY <3>4, IndexEffect
      <4>3. QED
        BY <4>1, <4>2, NoneApart DEF Shape
    <3>5. CASE IndexFails(c, s)
      BY <2>2, <3>5, IndexFailsEffect DEF Shape, Kept
    <3>6. CASE Stamp(c, s)
      BY <2>2, <3>6, StampEffect, NoneApart DEF Shape
    <3>7. CASE Save(c, s)
      BY <2>2, <3>7, SaveEffect, NoneApart DEF Shape, Kept
    <3>8. CASE RemoveOld(c, s)
      BY <2>2, <3>8, RemoveOldEffect, NoneApart DEF Shape, Kept
    <3>9. CASE s = Nodes /\ LoadPrevious(c)
      BY <3>9, LoadPreviousEffect DEF Shape
    <3>10. QED
      BY <1>2, <3>1, <3>2, <3>3, <3>4, <3>5, <3>6, <3>7, <3>8, <3>9
         DEF TaskStep, SourceStep
  <2>4. SUFFICES ASSUME NEW b \in Call, NEW t \in Source
                 PROVE  Shape(t, work'[b][t])
    BY DEF ShapeInv, Shape
  <2>5. QED
    BY <2>1, <2>3 DEF ShapeInv, Moves
<1>3. ASSUME NEW c \in Call, Request(c) PROVE ShapeInv'
  <2>1. SUFFICES ASSUME NEW b \in Call, NEW t \in Source
                 PROVE  Shape(t, work'[b][t])
    BY DEF ShapeInv, Shape
  <2>2. CASE b = c
    BY <1>1, <1>3, <2>2, RequestEffect DEF Shape, NoWork
  <2>3. CASE b # c
    BY <1>3, <2>3, RequestEffect DEF ShapeInv
  <2>4. QED
    BY <2>2, <2>3
<1>4. CASE Dropped
  <2>1. SUFFICES ASSUME NEW b \in Call, NEW t \in Source
                 PROVE  Shape(t, work'[b][t])
    BY DEF ShapeInv, Shape
  <2>2. QED
    BY <1>1, <1>4 DEF Dropped, ShapeInv, Untouched
<1>5. CASE Removes \/ Quiet
  BY <1>5 DEF Removes, Quiet, ShapeInv, Shape
<1>6. QED
  BY <1>2, <1>3, <1>4, <1>5, StepCases

(***************************************************************************)
(* Enrichment and ids.                                                     *)
(***************************************************************************)
LEMMA KeyStep ==
    ASSUME TypeOK, CallInv, ShapeInv, KeyInv, [Next]_vars
    PROVE  KeyInv'
<1> DEFINE TaskKey(c, s) ==
             LET w == work[c][s] IN
             /\ w.doc # None => OwnKey(w.doc)
             /\ w.ph = "old" => w.doc.logic = call[c].job.logic
             /\ w.base # None =>
                  /\ OwnKey(w.base) /\ w.base.logic = call[c].job.logic
                  /\ s = Nodes => w.base.model = model
<1>1. /\ \A d \in Stored : OwnKey(store[d])
      /\ \A c \in Call, s \in Source : TaskKey(c, s)
  BY DEF KeyInv
<1>2. ASSUME \A d \in Id : store'[d] # None => OwnKey(store'[d]),
             \A c \in Call, s \in Source : TaskKey(c, s)'
      PROVE  KeyInv'
  BY <1>2 DEF KeyInv, Stored, OwnKey
<1> HIDE DEF TaskKey
<1>3. ASSUME NEW c \in Call, NEW s \in Source, TaskStep(c, s) PROVE KeyInv'
  <2>1. /\ Moves(c, s) /\ UNCHANGED <<call, model>> /\ call[c].job \in Job
        /\ work[c][s] \in Work
    BY <1>3, TaskFrame DEF TypeOK
  <2>2. TaskKey(c, s)
    BY <1>1
  <2>3. TaskKey(c, s)'
    <3>1. CASE Resolve(c, s)
      BY <3>1, ResolveEffect DEF TaskKey
    <3>2. CASE ReadFile(c, s)
      BY <2>1, <2>2, <3>2, ReadFileEffect DEF TaskKey, OwnKey
    <3>3. CASE LoadOld(c, s)
      <4>1. store[work[c][s].id] # None => OwnKey(store[work[c][s].id])
        BY <1>1, <3>3, LoadOldEffect DEF Stored
      <4>2. QED
        BY <2>1, <2>2, <3>3, <4>1, LoadOldEffect, SourceTypes DEF TaskKey, OwnKey
    <3>4. CASE Index(c, s)
      <4>1. OwnKey(work'[c][s].doc)
        <5> DEFINE d == work'[c][s].doc
                   base == work[c][s].base
                   key == <<call[c].job.logic, model>>
        <5>1. /\ d.logic = call[c].job.logic
              /\ d.model = (IF s = Nodes THEN model ELSE None)
              /\ d.made \in Enrichments(base, key)
          BY <3>4, IndexEffect
        <5>2. key[1] = call[c].job.logic /\ key[2] = model
          OBVIOUS
        <5>3. base # None => \A m \in base.made :
                 m[1] = call[c].job.logic /\ (s = Nodes => m[2] = model)
          BY <2>2, NoneApart DEF TaskKey, OwnKey, TypeOK
        <5> HIDE DEF key
        <5>4. \A m \in d.made : m = key \/ (base # None /\ m \in base.made)
          BY <5>1 DEF Enrichments
        <5>5. QED
          BY <5>1, <5>2, <5>3, <5>4 DEF OwnKey
      <4>2. work'[c][s].base = None /\ work'[c][s].ph # "old"
        BY <3>4, IndexEffect
      <4>3. QED
        BY <4>1, <4>2 DEF TaskKey, OwnKey
    <3>5. CASE IndexFails(c, s)
      BY <2>1, <2>2, <3>5, IndexFailsEffect DEF TaskKey, OwnKey, Kept
    <3>6. CASE Stamp(c, s)
      <4>1. OwnKey(work[c][s].doc)
        BY <2>2, <3>6, StampEffect, NoneApart DEF TaskKey
      <4>2. QED
        BY <2>1, <2>2, <3>6, <4>1, StampEffect DEF TaskKey, OwnKey
    <3>7. CASE Save(c, s)
      BY <2>1, <2>2, <3>7, SaveEffect DEF TaskKey, OwnKey, Kept
    <3>8. CASE RemoveOld(c, s)
      BY <2>1, <2>2, <3>8, RemoveOldEffect DEF TaskKey, OwnKey, Kept
    <3>9. CASE s = Nodes /\ LoadPrevious(c)
      BY <1>1, <2>1, <3>9, LoadPreviousEffect DEF TaskKey, OwnKey, SameKey
    <3>10. QED
      BY <1>3, <3>1, <3>2, <3>3, <3>4, <3>5, <3>6, <3>7, <3>8, <3>9
         DEF TaskStep, SourceStep
  <2>4. \A b \in Call, t \in Source : TaskKey(b, t)'
    BY <1>1, <2>1, <2>3 DEF Moves, TaskKey, OwnKey
  <2>5. \A d \in Id : store'[d] # None => OwnKey(store'[d])
    <3>1. CASE Save(c, s)
      <4>1. /\ OwnKey(work[c][s].doc) /\ work[c][s].id \in Id
            /\ \/ UNCHANGED store
               \/ store' = [store EXCEPT ![work[c][s].id] = work[c][s].doc]
        BY <2>2, <3>1, SaveEffect, NoneApart DEF TaskKey
      <4>2. QED
        BY <1>1, <4>1 DEF Stored, TypeOK
    <3>2. CASE RemoveOld(c, s)
      BY <1>1, <3>2, RemoveOldEffect DEF Stored, TypeOK
    <3>3. CASE ~Save(c, s) /\ ~RemoveOld(c, s)
      <4>1. UNCHANGED store
        BY <1>3, <3>3 DEF TaskStep, SourceStep, Resolve, ReadFile, LoadOld, Index,
                          IndexFails, Stamp, LoadPrevious
      <4>2. QED
        BY <1>1, <4>1 DEF Stored
    <3>4. QED
      BY <3>1, <3>2, <3>3
  <2>6. QED
    BY <1>2, <2>4, <2>5
<1>4. ASSUME NEW c \in Call, Request(c) PROVE KeyInv'
  <2>1. UNCHANGED <<store, model>>
    BY <1>4 DEF Request
  <2>2. \A d \in Id : store'[d] # None => OwnKey(store'[d])
    BY <1>1, <2>1 DEF Stored
  <2>3. ASSUME NEW b \in Call, NEW t \in Source PROVE TaskKey(b, t)'
    <3>1. CASE b = c
      <4>1. work'[c][t].ph # "old"
        BY <1>4, RequestEffect DEF NoWork
      <4>2. QED
        BY <1>4, <3>1, <4>1, RequestEffect DEF TaskKey
    <3>2. CASE b # c
      BY <1>1, <1>4, <2>1, <3>2, RequestEffect DEF TaskKey, OwnKey
    <3>3. QED
      BY <3>1, <3>2
  <2>4. QED
    BY <1>2, <2>2, <2>3
<1>5. CASE Dropped
  <2>1. \A d \in Id : store'[d] # None => OwnKey(store'[d])
    BY <1>1, <1>5 DEF Stored, Dropped
  <2>2. ASSUME NEW b \in Call, NEW t \in Source PROVE TaskKey(b, t)'
    <3>1. CASE call'[b] = call[b] /\ work'[b] = work[b] /\ model' = model
      BY <1>1, <3>1 DEF TaskKey, OwnKey
    <3>2. CASE work'[b] = Untouched
      BY <3>2 DEF TaskKey, OwnKey, Untouched, NoWork
    <3>3. QED
      BY <1>5, <3>1, <3>2 DEF Dropped
  <2>3. QED
    BY <1>2, <2>1, <2>2
<1>6. CASE Removes
  <2>1. \A d \in Id : store'[d] # None => OwnKey(store'[d])
    BY <1>1, <1>6 DEF Stored, Removes, TypeOK
  <2>2. \A b \in Call, t \in Source : TaskKey(b, t)'
    BY <1>1, <1>6 DEF TaskKey, OwnKey, Removes
  <2>3. QED
    BY <1>2, <2>1, <2>2
<1>7. CASE Quiet
  <2>1. \A d \in Id : store'[d] # None => OwnKey(store'[d])
    BY <1>1, <1>7 DEF Stored, Quiet
  <2>2. \A b \in Call, t \in Source : TaskKey(b, t)'
    BY <1>1, <1>7 DEF TaskKey, OwnKey, Quiet
  <2>3. QED
    BY <1>2, <2>1, <2>2
<1>8. QED
  BY <1>3, <1>4, <1>5, <1>6, <1>7, StepCases

\* Which documents a step of a task may write or remove.
LEMMA TaskStore ==
    ASSUME TypeOK, CallInv, ShapeInv, NEW c \in Call, NEW s \in Source, TaskStep(c, s)
    PROVE  \/ UNCHANGED store
           \/ /\ Save(c, s) /\ work[c][s].id \in Id /\ work[c][s].doc \in Doc
              /\ store' = [store EXCEPT ![work[c][s].id] = work[c][s].doc]
           \/ /\ RemoveOld(c, s) /\ work[c][s].old \in Id
              /\ store' = [store EXCEPT ![work[c][s].old] = None]
<1>1. CASE Save(c, s)
  BY <1>1, SaveEffect
<1>2. CASE RemoveOld(c, s)
  BY <1>2, RemoveOldEffect
<1>3. CASE ~Save(c, s) /\ ~RemoveOld(c, s)
  BY <1>3 DEF TaskStep, SourceStep, Resolve, ReadFile, LoadOld, Index, IndexFails,
              Stamp, LoadPrevious
<1>4. QED
  BY <1>1, <1>2, <1>3

\* Where the ids a task holds come from.
LEMMA TaskClaims ==
    ASSUME TypeOK, CallInv, ShapeInv, NEW c \in Call, NEW s \in Source, TaskStep(c, s)
    PROVE  /\ \A d \in Claims(c, s)' :
                \/ d \in Claims(c, s) /\ used' \subseteq Id
                \/ Resolve(c, s) /\ s \in Path /\ d \in Stored /\ store[d].path = s
                \/ Index(c, s) /\ s = Nodes /\ d = StableId
                \/ Index(c, s) /\ d \notin used /\ d \in used'
           /\ ~Index(c, s) => used' = used
           /\ \A d \in used' \ used : d \in Claims(c, s)'
<1>1. used' \subseteq Id
  BY TaskFrame
<1>2. CASE Index(c, s)
  <2>1. /\ used' = used \cup {work'[c][s].id}
        /\ work'[c][s].old = work[c][s].old /\ work'[c][s].id \in Id
        /\ \/ work[c][s].id # None /\ work'[c][s].id = work[c][s].id
           \/ s = Nodes /\ work'[c][s].id = StableId
           \/ work'[c][s].id \notin used
    BY ZenonT(30), <1>2, IndexEffect
  <2>2. QED
    BY <1>1, <1>2, <2>1, NoneApart DEF Claims
<1>3. CASE Resolve(c, s)
  <2>1. used' = used
    BY <1>3 DEF Resolve
  <2>2. QED
    BY <1>3, <2>1, ResolveEffect DEF Claims
<1>4. CASE ~Index(c, s) /\ ~Resolve(c, s)
  <2>1. used' = used
    BY <1>4 DEF TaskStep, SourceStep, ReadFile, LoadOld, IndexFails, Stamp, Save,
                RemoveOld, LoadPrevious
  <2>2. Claims(c, s)' \subseteq Claims(c, s)
    <3>1. CASE ReadFile(c, s)
      BY <3>1, ReadFileEffect DEF Claims
    <3>2. CASE LoadOld(c, s)
      BY <3>2, LoadOldEffect DEF Claims
    <3>3. CASE IndexFails(c, s) \/ Save(c, s) \/ RemoveOld(c, s)
      BY <3>3, IndexFailsEffect, SaveEffect, RemoveOldEffect DEF Claims, Kept
    <3>4. CASE Stamp(c, s)
      BY <3>4, StampEffect DEF Claims
    <3>5. CASE s = Nodes /\ LoadPrevious(c)
      BY <3>5, LoadPreviousEffect DEF Claims
    <3>6. QED
      BY <1>4, <3>1, <3>2, <3>3, <3>4, <3>5 DEF TaskStep, SourceStep
  <2>3. QED
    BY <1>1, <1>4, <2>1, <2>2
<1>5. QED
  BY <1>2, <1>3, <1>4

\* A task a step does not move has the ids it had, or none.
LEMMA OtherClaims ==
    ASSUME TypeOK, CallInv, ShapeInv, NEW b \in Call, NEW t \in Source
    PROVE  /\ \A c \in Call, s \in Source :
                TaskStep(c, s) /\ (b # c \/ t # s) => Claims(b, t)' = Claims(b, t)
           /\ \A c \in Call : Request(c) => Claims(b, t)' \subseteq Claims(b, t)
           /\ Dropped => Claims(b, t)' \subseteq Claims(b, t)
           /\ Removes \/ Quiet => Claims(b, t)' = Claims(b, t)
<1>1. ASSUME NEW c \in Call, NEW s \in Source, TaskStep(c, s), b # c \/ t # s
      PROVE  Claims(b, t)' = Claims(b, t)
  BY <1>1, TaskFrame DEF Moves, Claims
<1>2. ASSUME NEW c \in Call, Request(c)
      PROVE  Claims(b, t)' \subseteq Claims(b, t)
  BY <1>2, RequestEffect DEF Claims
<1>3. ASSUME Dropped PROVE Claims(b, t)' \subseteq Claims(b, t)
  BY <1>3 DEF Dropped, Claims, Untouched, NoWork
<1>4. ASSUME Removes \/ Quiet PROVE Claims(b, t)' = Claims(b, t)
  BY <1>4 DEF Removes, Quiet, Claims
<1>5. QED
  BY <1>1, <1>2, <1>3, <1>4

LEMMA IdStep ==
    ASSUME TypeOK, CallInv, ShapeInv, IdInv, [Next]_vars
    PROVE  IdInv'
<1>1. ASSUME NEW c \in Call, NEW s \in Source, TaskStep(c, s) PROVE IdInv'
  <2>1. used \subseteq used'
    BY <1>1, TaskFrame
  <2>2. Claims(c, s)' \subseteq used'
    BY <1>1, <2>1, TaskClaims DEF IdInv
  <2>3. \A b \in Call, t \in Source : Claims(b, t)' \subseteq used'
    BY <1>1, <2>1, <2>2, OtherClaims DEF IdInv
  <2>4. Stored' \subseteq used'
    <3>1. ASSUME Save(c, s) PROVE work[c][s].id \in used
      BY <3>1, SaveEffect, NoneApart DEF IdInv, Claims
    <3>2. QED
      BY <1>1, <2>1, <3>1, TaskStore DEF IdInv, Stored, TypeOK
  <2>5. QED
    BY <2>1, <2>3, <2>4 DEF IdInv
<1>2. ASSUME NEW c \in Call, Request(c) PROVE IdInv'
  <2>1. UNCHANGED <<store, used>>
    BY <1>2 DEF Request
  <2>2. QED
    BY <1>2, <2>1, OtherClaims DEF IdInv, Stored
<1>3. CASE Dropped
  <2>1. UNCHANGED <<store, used>>
    BY <1>3 DEF Dropped
  <2>2. QED
    BY <1>3, <2>1, OtherClaims DEF IdInv, Stored
<1>4. CASE Removes
  <2>1. UNCHANGED used /\ Stored' \subseteq Stored
    BY <1>4 DEF Removes, Stored, TypeOK
  <2>2. QED
    BY <1>4, <2>1, OtherClaims DEF IdInv
<1>5. CASE Quiet
  <2>1. UNCHANGED <<store, used>>
    BY <1>5 DEF Quiet
  <2>2. QED
    BY <1>5, <2>1, OtherClaims DEF IdInv, Stored
<1>6. QED
  BY <1>1, <1>2, <1>3, <1>4, <1>5, StepCases

LEMMA PrivateStep ==
    ASSUME TypeOK, CallInv, ShapeInv, IdInv, PrivateInv, [Next]_vars
    PROVE  PrivateInv'
<1> DEFINE Private(c, s) ==
             work[c][s].old # None /\ work[c][s].ph \in {"stamp", "save"} =>
               /\ work[c][s].id \notin Stored \cup {StableId, work[c][s].old}
               /\ \A b \in Call, t \in Source :
                    b # c \/ t # s => work[c][s].id \notin Claims(b, t)
<1>1. \A c \in Call, s \in Source : Private(c, s)
  BY DEF PrivateInv
<1>2. ASSUME \A c \in Call, s \in Source : Private(c, s)' PROVE PrivateInv'
  BY <1>2 DEF PrivateInv
\* A task that stands still keeps its id to itself if nobody else gets it.
<1>3. ASSUME NEW c \in Call, NEW s \in Source, work'[c][s] = work[c][s],
             work[c][s].id \notin Stored => work[c][s].id \notin Stored',
             \A b \in Call, t \in Source :
                (b # c \/ t # s) /\ work[c][s].id \notin Claims(b, t)
                                  => work[c][s].id \notin Claims(b, t)'
      PROVE  Private(c, s)'
  BY <1>1, <1>3
<1> HIDE DEF Private
<1>4. ASSUME NEW c \in Call, NEW s \in Source, TaskStep(c, s) PROVE PrivateInv'
  <2>1. Private(c, s)'
    <3>1. CASE Index(c, s) /\ work[c][s].old # None
      <4>1. work[c][s].id = None /\ s # Nodes
        <5>1. work[c][s].ph = "index" /\ Shape(s, work[c][s])
          BY <3>1 DEF Index, ShapeInv
        <5>2. QED
          BY <3>1, <5>1, SourceTypes DEF Shape
      <4>2. /\ work'[c][s].id \in Id /\ work'[c][s].id \notin used
            /\ work'[c][s].old = work[c][s].old
        BY <3>1, <4>1, IndexEffect
      <4>3. UNCHANGED store
        BY <3>1 DEF Index
      <4>4. work[c][s].old \in used
        BY <3>1 DEF IdInv, Claims
      <4>5. \A b \in Call, t \in Source :
               b # c \/ t # s => work'[c][s].id \notin Claims(b, t)'
        BY <1>4, <4>2, OtherClaims DEF IdInv
      <4>6. work'[c][s].id \notin Stored' \cup {StableId, work'[c][s].old}
        BY <4>2, <4>3, <4>4 DEF IdInv, Stored
      <4>7. QED
        BY <4>5, <4>6 DEF Private
    <3>2. CASE Stamp(c, s)
      <4>1. UNCHANGED store /\ work'[c][s].id = work[c][s].id
            /\ work'[c][s].old = work[c][s].old /\ work[c][s].ph = "stamp"
        BY <3>2, StampEffect DEF Stamp
      <4>2. \A b \in Call, t \in Source :
               b # c \/ t # s => Claims(b, t)' = Claims(b, t)
        BY <1>4, OtherClaims
      <4>3. QED
        BY <1>1, <4>1, <4>2 DEF Private, Stored
    <3>3. CASE ~Stamp(c, s) /\ ~(Index(c, s) /\ work[c][s].old # None)
      <4>1. \/ work'[c][s].old = None \/ work'[c][s].ph \notin {"stamp", "save"}
        <5>1. CASE Resolve(c, s) \/ ReadFile(c, s)
          BY <5>1, ResolveEffect, ReadFileEffect
        <5>2. CASE LoadOld(c, s)
          BY <5>2, LoadOldEffect
        <5>3. CASE Index(c, s)
          BY <3>3, <5>3, IndexEffect
        <5>4. CASE IndexFails(c, s) \/ RemoveOld(c, s)
          BY <5>4, IndexFailsEffect, RemoveOldEffect
        <5>5. CASE Save(c, s)
          BY <5>5, SaveEffect
        <5>6. CASE s = Nodes /\ LoadPrevious(c)
          BY <5>6, LoadPreviousEffect
        <5>7. QED
          BY <1>4, <3>3, <5>1, <5>2, <5>3, <5>4, <5>5, <5>6 DEF TaskStep, SourceStep
      <4>2. QED
        BY <4>1 DEF Private
    <3>4. QED
      BY <3>1, <3>2, <3>3
  <2>2. ASSUME NEW b \in Call, NEW t \in Source, b # c \/ t # s
        PROVE  Private(b, t)'
    <3> DEFINE d == work[b][t].id
    <3>1. CASE work[b][t].old # None /\ work[b][t].ph \in {"stamp", "save"}
      <4>1. work'[b][t] = work[b][t]
        BY <1>4, <2>2, TaskFrame DEF Moves
      <4>2. /\ d \notin Stored \cup {StableId, work[b][t].old} /\ d \notin Claims(c, s)
            /\ \A e \in Call, u \in Source : e # b \/ u # t => d \notin Claims(e, u)
        BY <1>1, <2>2, <3>1 DEF Private
      <4>3. d \in used
        BY <3>1 DEF IdInv, Claims, ShapeInv, Shape
      <4>4. d \notin Claims(c, s)'
        BY <1>4, <4>2, <4>3, TaskClaims
      <4>5. d \notin Stored'
        <5>1. ASSUME Save(c, s) PROVE d # work[c][s].id
          BY SMTT(30), <4>2, <5>1, SaveEffect, NoneApart DEF Claims
        <5>2. QED
          BY <1>4, <4>2, <5>1, TaskStore DEF Stored, TypeOK
      <4>6. QED
        BY <1>4, <2>2, <4>1, <4>2, <4>4, <4>5, OtherClaims DEF Private
    <3>2. CASE ~(work[b][t].old # None /\ work[b][t].ph \in {"stamp", "save"})
      <4>1. work'[b][t] = work[b][t]
        BY <1>4, <2>2, TaskFrame DEF Moves
      <4>2. QED
        BY <3>2, <4>1 DEF Private
    <3>3. QED
      BY <3>1, <3>2
  <2>3. QED
    BY <1>2, <2>1, <2>2
<1>5. ASSUME NEW c \in Call, Request(c) PROVE PrivateInv'
  <2>1. UNCHANGED store
    BY <1>5 DEF Request
  <2>2. \A s \in Source : Private(c, s)'
    BY <1>5, RequestEffect DEF Private
  <2>3. \A b \in Call, t \in Source : b # c => Private(b, t)'
    BY <1>3, <1>5, <2>1, RequestEffect, OtherClaims DEF Stored
  <2>4. QED
    BY <1>2, <2>2, <2>3
<1>6. CASE Dropped
  <2>1. UNCHANGED store
    BY <1>6 DEF Dropped
  <2>2. ASSUME NEW c \in Call, NEW s \in Source, work'[c] = Untouched
        PROVE  Private(c, s)'
    BY <2>2 DEF Private, Untouched, NoWork
  <2>3. ASSUME NEW c \in Call, NEW s \in Source, work'[c] = work[c]
        PROVE  Private(c, s)'
    BY <1>3, <1>6, <2>1, <2>3, OtherClaims DEF Stored
  <2>4. QED
    BY <1>2, <1>6, <2>2, <2>3 DEF Dropped
<1>7. CASE Removes
  <2>1. Stored' \subseteq Stored /\ UNCHANGED work
    BY <1>7 DEF Removes, Stored, TypeOK
  <2>2. \A c \in Call, s \in Source : Private(c, s)'
    BY <1>3, <1>7, <2>1, OtherClaims
  <2>3. QED
    BY <1>2, <2>2
<1>8. CASE Quiet
  <2>1. UNCHANGED <<work, store>>
    BY <1>8 DEF Quiet
  <2>2. \A c \in Call, s \in Source : Private(c, s)'
    BY <1>3, <1>8, <2>1, OtherClaims DEF Stored
  <2>3. QED
    BY <1>2, <2>2
<1>9. QED
  BY <1>4, <1>5, <1>6, <1>7, <1>8, StepCases

(***************************************************************************)
(* An id goes with one path.                                               *)
(***************************************************************************)
LEMMA PathStep ==
    ASSUME TypeOK, CallInv, ShapeInv, IdInv, PathInv, [Next]_vars
    PROVE  PathInv'
<1> DEFINE Fits(d, s) == d \in Stored => store[d].path \in {None, Canon[s]}
           Own(c, s) == \A d \in Claims(c, s) : Fits(d, s)
           Agree(c, s, b, t) == Claims(c, s) \cap Claims(b, t) # {} => Canon[s] = Canon[t]
<1>1. /\ \A c \in Call, s \in Spelling : Own(c, s)
      /\ \A c \in Call, s \in Spelling, b \in Call, t \in Spelling : Agree(c, s, b, t)
  BY DEF PathInv
<1>2. ASSUME \A c \in Call, s \in Spelling : Own(c, s)',
             \A c \in Call, s \in Spelling, b \in Call, t \in Spelling : Agree(c, s, b, t)'
      PROVE  PathInv'
  BY <1>2 DEF PathInv
\* No task gets an id, and no document another path.
<1>3. ASSUME \A c \in Call, s \in Source : Claims(c, s)' \subseteq Claims(c, s),
             \A d \in Stored' : d \in Stored /\ store'[d] = store[d]
      PROVE  PathInv'
  <2>1. \A c \in Call, s \in Spelling : Own(c, s)'
    BY <1>1, <1>3, SourceTypes
  <2>2. \A c \in Call, s \in Spelling, b \in Call, t \in Spelling : Agree(c, s, b, t)'
    BY <1>1, <1>3, SourceTypes
  <2>3. QED
    BY <1>2, <2>1, <2>2
<1>4. ASSUME NEW c \in Call, NEW s \in Source, TaskStep(c, s) PROVE PathInv'
  <2>1. \A b \in Call, t \in Source : b # c \/ t # s => Claims(b, t)' = Claims(b, t)
    BY <1>4, OtherClaims
  <2>2. \A b \in Call, t \in Source : Claims(b, t) \subseteq used
    BY DEF IdInv
  <2>3. CASE UNCHANGED store
    <3>1. ASSUME NEW d \in Claims(c, s)', s \in Spelling
          PROVE  /\ Fits(d, s)'
                 /\ \A b \in Call, t \in Spelling :
                      (b # c \/ t # s) /\ d \in Claims(b, t) => Canon[s] = Canon[t]
      <4>1. CASE d \in Claims(c, s)
        BY <1>1, <2>3, <3>1, <4>1 DEF Stored
      <4>2. CASE s \in Path /\ d \in Stored /\ store[d].path = s
        BY <1>1, <2>3, <4>2, SourceTypes, NoneApart DEF Stored
      <4>3. CASE d \notin used
        BY <2>2, <2>3, <4>3, SourceTypes DEF IdInv, Stored
      <4>4. QED
        BY <1>4, <3>1, <4>1, <4>2, <4>3, TaskClaims, SourceTypes
    <3>2. \A b \in Call, t \in Spelling : Own(b, t)'
      BY <1>1, <2>1, <2>3, <3>1, SourceTypes DEF Stored
    <3>3. \A e \in Call, u \in Spelling, b \in Call, t \in Spelling : Agree(e, u, b, t)'
      BY <1>1, <2>1, <3>1, SourceTypes
    <3>4. QED
      BY <1>2, <3>2, <3>3
  <2>4. CASE Save(c, s) /\ work[c][s].id \in Id /\ work[c][s].doc \in Doc
             /\ store' = [store EXCEPT ![work[c][s].id] = work[c][s].doc]
    <3>1. work[c][s].doc.path = PathOf(s) /\ Claims(c, s)' = Claims(c, s)
          /\ work[c][s].id \in Claims(c, s)
      BY <2>4, SaveEffect, NoneApart DEF Claims, Kept
    <3>2. ASSUME NEW b \in Call, NEW t \in Spelling, work[c][s].id \in Claims(b, t)
          PROVE  PathOf(s) \in {None, Canon[t]}
      BY <1>1, <3>1, <3>2, SourceTypes DEF PathOf
    <3>3. \A d \in Id : store'[d] = IF d = work[c][s].id THEN work[c][s].doc ELSE store[d]
      BY <2>4 DEF TypeOK
    <3>4. \A b \in Call, t \in Spelling : Claims(b, t)' = Claims(b, t)
      BY <2>1, <3>1, SourceTypes
    <3>5. \A b \in Call, t \in Spelling : Own(b, t)'
      <4>1. SUFFICES ASSUME NEW b \in Call, NEW t \in Spelling, NEW d \in Claims(b, t),
                            d \in Id, store'[d] # None
                     PROVE  store'[d].path \in {None, Canon[t]}
        BY <3>4 DEF Stored
      <4>2. CASE d = work[c][s].id
        BY <3>1, <3>2, <3>3, <4>1, <4>2
      <4>3. CASE d # work[c][s].id
        BY <1>1, <3>3, <4>1, <4>3 DEF Stored
      <4>4. QED
        BY <4>2, <4>3
    <3>6. \A e \in Call, u \in Spelling, b \in Call, t \in Spelling : Agree(e, u, b, t)'
      BY <1>1, <3>4
    <3>7. QED
      BY <1>2, <3>5, <3>6
  <2>5. CASE RemoveOld(c, s) /\ work[c][s].old \in Id
             /\ store' = [store EXCEPT ![work[c][s].old] = None]
    <3>1. Claims(c, s)' = Claims(c, s)
      BY <2>5, RemoveOldEffect DEF Claims, Kept
    <3>2. \A d \in Stored' : d \in Stored /\ store'[d] = store[d]
      BY <2>5 DEF Stored, TypeOK
    <3>3. QED
      BY <1>3, <2>1, <3>1, <3>2
  <2>6. QED
    BY <1>4, <2>3, <2>4, <2>5, TaskStore
<1>5. ASSUME NEW c \in Call, Request(c) PROVE PathInv'
  BY <1>3, <1>5, OtherClaims DEF Request, Stored
<1>6. CASE Dropped
  BY <1>3, <1>6, OtherClaims DEF Dropped, Stored
<1>7. CASE Removes
  <2>1. \A d \in Stored' : d \in Stored /\ store'[d] = store[d]
    BY <1>7 DEF Removes, Stored, TypeOK
  <2>2. QED
    BY <1>3, <1>7, <2>1, OtherClaims
<1>8. CASE Quiet
  BY <1>3, <1>8, OtherClaims DEF Quiet, Stored
<1>9. QED
  BY <1>4, <1>5, <1>6, <1>7, <1>8, StepCases

(***************************************************************************)
(* What is indexed stays indexed.                                          *)
(***************************************************************************)
\* The document a task has in hand is stored.
Stores(c, s) ==
    /\ Save(c, s) /\ work[c][s].id \in Id /\ work[c][s].doc \in Doc
    /\ work[c][s].doc.path = PathOf(s)
    /\ store' = [store EXCEPT ![work[c][s].id] = work[c][s].doc]
    /\ hist'.saved = hist.saved \cup ({PathOf(s)} \ {None})
    /\ hist'.gone = hist.gone \cup
         ((IF store[work[c][s].id] = None THEN {}
           ELSE {store[work[c][s].id].path}) \ {None, PathOf(s)})
    /\ \/ /\ work'[c][s].ph = IF work[c][s].old = None THEN "done" ELSE "remove"
          /\ hist'.several = hist.several
       \/ /\ work'[c][s].ph = "failed"
          /\ hist'.several = hist.several \cup {PathOf(s)}

\* The document a task replaced is removed.
Discards(c, s) ==
    /\ RemoveOld(c, s) /\ work[c][s].old \in Id
    /\ store' = [store EXCEPT ![work[c][s].old] = None]
    /\ hist'.saved = hist.saved /\ hist'.gone = hist.gone
    /\ hist'.several = hist.several

LEMMA TaskOutcome ==
    ASSUME TypeOK, CallInv, ShapeInv, NEW c \in Call, NEW s \in Source, TaskStep(c, s)
    PROVE  /\ \/ Stores(c, s) \/ Discards(c, s)
              \/ /\ UNCHANGED store /\ work'[c][s].ph # "remove"
                 /\ hist'.saved = hist.saved /\ hist'.gone = hist.gone
           /\ work[c][s].ph = "remove" =>
                \/ Discards(c, s)
                \/ s \in Spelling /\ Canon[s] \in hist'.several
<1>1. CASE Save(c, s)
  BY <1>1, SaveEffect DEF Stores
<1>2. CASE RemoveOld(c, s)
  BY <1>2, RemoveOldEffect DEF Discards
<1>3. CASE ReadFile(c, s)
  <2>1. /\ UNCHANGED hist \/ hist' = [hist EXCEPT !.several = @ \cup {Canon[s]}]
        /\ work'[c][s].ph \in {"index", "old"} /\ work[c][s].ph = "read"
    BY <1>3, ReadFileEffect
  <2>2. hist'.saved = hist.saved /\ hist'.gone = hist.gone
    BY <2>1 DEF TypeOK, Hist
  <2>3. QED
    BY <1>3, <2>1, <2>2 DEF ReadFile
<1>4. CASE Resolve(c, s)
  BY <1>4, ResolveEffect DEF Resolve
<1>5. CASE LoadOld(c, s)
  BY <1>5, LoadOldEffect DEF LoadOld
<1>6. CASE Index(c, s)
  BY <1>6, IndexEffect DEF Index
<1>7. CASE IndexFails(c, s)
  BY <1>7, IndexFailsEffect DEF IndexFails
<1>8. CASE Stamp(c, s)
  BY <1>8, StampEffect DEF Stamp
<1>9. CASE s = Nodes /\ LoadPrevious(c)
  BY <1>9, LoadPreviousEffect DEF LoadPrevious
<1>10. QED
  BY <1>1, <1>2, <1>3, <1>4, <1>5, <1>6, <1>7, <1>8, <1>9 DEF TaskStep, SourceStep

\* No other step makes a task one that has a document to remove.
LEMMA OtherLeaving ==
    ASSUME TypeOK, CallInv, ShapeInv, NEW b \in Call, NEW t \in Source,
           work'[b][t].ph = "remove"
    PROVE  /\ \A c \in Call, s \in Source :
                TaskStep(c, s) /\ (b # c \/ t # s) => work'[b][t] = work[b][t]
           /\ (\E c \in Call : Request(c)) \/ Dropped \/ Removes \/ Quiet
                => work'[b][t] = work[b][t]
<1>1. ASSUME NEW c \in Call, NEW s \in Source, TaskStep(c, s), b # c \/ t # s
      PROVE  work'[b][t] = work[b][t]
  BY <1>1, TaskFrame DEF Moves
<1>2. ASSUME NEW c \in Call, Request(c)
      PROVE  work'[b][t] = work[b][t]
  BY <1>2, RequestEffect DEF NoWork
<1>3. ASSUME Dropped PROVE work'[b][t] = work[b][t]
  BY <1>3 DEF Dropped, Untouched, NoWork
<1>4. ASSUME Removes \/ Quiet PROVE work'[b][t] = work[b][t]
  BY <1>4 DEF Removes, Quiet
<1>5. QED
  BY <1>1, <1>2, <1>3, <1>4

LEMMA KeptStep ==
    ASSUME TypeOK, CallInv, ShapeInv, PrivateInv, PathInv, KeptInv, [Next]_vars
    PROVE  KeptInv'
\* No document is written, and none removed.
<1>1. ASSUME UNCHANGED store, hist'.saved = hist.saved, hist.gone \subseteq hist'.gone,
             \A b \in Call, t \in Source : work'[b][t].ph = "remove" =>
                work'[b][t] = work[b][t]
      PROVE  KeptInv'
  <2>1. \A d : Leaving(d)' => Leaving(d)
    BY <1>1 DEF Leaving
  <2>2. QED
    BY <1>1, <2>1 DEF KeptInv, Stored
<1>2. ASSUME NEW c \in Call, NEW s \in Source, TaskStep(c, s) PROVE KeptInv'
  <2>1. ASSUME NEW d, Leaving(d)', ~Leaving(d)
        PROVE  work'[c][s].ph = "remove" /\ work'[c][s].old = d
    BY <1>2, <2>1, OtherLeaving DEF Leaving
  <2>2. CASE Stores(c, s)
    <3> DEFINE w == work[c][s]
               P == PathOf(s)
    <3>1. /\ w.id \in Id /\ w.doc \in Doc /\ w.doc.path = P /\ w.ph = "save"
          /\ \A d \in Id : store'[d] = IF d = w.id THEN w.doc ELSE store[d]
          /\ w.id # None /\ w.id \in Claims(c, s)
      BY <2>2, NoneApart DEF Stores, TypeOK, Save, Claims
    <3>0. PICK x \in Id : x = w.id
      BY <3>1
    <3>2. /\ Kept(w, work'[c][s])
          /\ work'[c][s].ph = "remove" => w.old # None
      BY <2>2, SaveEffect DEF Stores
    <3>3. w.old # None => s \in Spelling /\ P \in Path
      BY SourceTypes DEF ShapeInv, Shape
    <3>4. w.old # None =>
            /\ w.id \notin Stored \cup {w.old}
            /\ \A b \in Call, t \in Source :
                 b # c \/ t # s => w.id \notin Claims(b, t)
      BY <3>1 DEF PrivateInv
    <3>5. w.old # None => ~Leaving(x)'
      <4>1. SUFFICES ASSUME w.old # None, Leaving(x)' PROVE FALSE
        OBVIOUS
      <4>2. ~Leaving(x)
        BY <3>0, <3>1, <3>4, <4>1 DEF Leaving, Claims
      <4>3. QED
        BY <2>1, <3>0, <3>2, <3>4, <4>1, <4>2 DEF Kept
    <3>6. \A d \in Stored' : store'[d].path \in hist'.saved \cup {None}
      BY <2>2, <3>1 DEF KeptInv, Stored, Stores
    <3>7. \A b \in Call, t \in Source :
             work'[b][t].ph = "remove" => PathOf(t) \in hist'.saved
      <4>1. SUFFICES ASSUME NEW b \in Call, NEW t \in Source, work'[b][t].ph = "remove"
                     PROVE  PathOf(t) \in hist'.saved
        OBVIOUS
      <4>2. CASE b = c /\ t = s
        BY <2>2, <3>2, <3>3, <4>1, <4>2, NoneApart DEF Stores
      <4>3. CASE b # c \/ t # s
        BY <1>2, <2>2, <4>1, <4>3, OtherLeaving DEF Stores, KeptInv
      <4>4. QED
        BY <4>2, <4>3
    <3>8. ASSUME NEW p \in hist'.saved \ hist'.gone
          PROVE  \E d \in Stored' : store'[d].path = p /\ ~Leaving(d)'
      <4>0. /\ p # None /\ p \notin hist.gone /\ p \in hist.saved \cup {P}
            /\ store[w.id] # None /\ store[w.id].path = p => p = P
        <5>1. hist.saved \subseteq Path
          BY DEF TypeOK, Hist
        <5>2. QED
          BY <2>2, <3>8, <5>1, NoneApart DEF Stores
      <4>1. CASE p \in hist.saved
        <5>1. PICK d \in Stored : store[d].path = p /\ ~Leaving(d)
          BY <4>0, <4>1 DEF KeptInv
        <5>2. CASE ~Leaving(d)'
          <6>1. d = w.id => p = P
            BY <4>0, <5>1 DEF Stored
          <6>2. d \in Stored' /\ store'[d].path = p
            BY <3>1, <5>1, <6>1, NoneApart DEF Stored
          <6>3. QED
            BY <5>2, <6>2
        <5>3. CASE Leaving(d)'
          <6>1. w.old = d /\ w.old # None
            BY <2>1, <3>2, <5>1, <5>3 DEF Kept
          <6>2. p = P
            BY <3>3, <4>0, <5>1, <6>1, SourceTypes DEF PathInv, Claims
          <6>3. x \in Stored' /\ store'[x].path = p
            BY <3>0, <3>1, <6>2, NoneApart DEF Stored
          <6>4. QED
            BY <3>5, <6>1, <6>3
        <5>4. QED
          BY <5>2, <5>3
      <4>2. CASE p \notin hist.saved
        <5>1. p = P
          BY <4>0, <4>2
        <5>2. x \in Stored' /\ store'[x].path = p
          BY <3>0, <3>1, <5>1, NoneApart DEF Stored
        <5>3. ~Leaving(x)'
          <6>1. SUFFICES ASSUME Leaving(x)', w.old = None PROVE FALSE
            BY <3>5
          <6>2. Leaving(x)
            BY <2>1, <3>2, <6>1
          <6>3. PICK b \in Call, t \in Source :
                   work[b][t].ph = "remove" /\ work[b][t].old = w.id
            BY <3>0, <6>2 DEF Leaving
          <6>4. t \in Spelling /\ w.id \in Claims(b, t) /\ PathOf(t) \in hist.saved
            BY <3>1, <6>3 DEF ShapeInv, Shape, Claims, KeptInv
          <6>5. s \in Spelling /\ Canon[s] = p /\ PathOf(t) = Canon[t]
            BY <4>0, <5>1, <6>4 DEF PathOf
          <6>6. Canon[s] = Canon[t]
            BY <3>1, <6>4, <6>5 DEF PathInv
          <6>7. QED
            BY <4>2, <6>4, <6>5, <6>6
        <5>4. QED
          BY <5>2, <5>3
      <4>3. QED
        BY <4>1, <4>2
    <3>9. QED
      BY <3>6, <3>7, <3>8 DEF KeptInv
  <2>3. CASE Discards(c, s)
    <3>1. /\ work'[c][s].ph = "done" /\ work[c][s].ph = "remove"
          /\ \A d \in Id : store'[d] = IF d = work[c][s].old THEN None ELSE store[d]
      BY <2>3, RemoveOldEffect DEF Discards, TypeOK
    <3>2. \A d : Leaving(d)' => Leaving(d)
      BY <2>1, <3>1
    <3>3. \A d \in Stored : ~Leaving(d) => d \in Stored' /\ store'[d] = store[d]
      BY <3>1 DEF Stored, Leaving
    <3>4. \A d \in Stored' : d \in Stored /\ store'[d] = store[d]
      BY <3>1 DEF Stored
    <3>5. \A b \in Call, t \in Source :
             work'[b][t].ph = "remove" => PathOf(t) \in hist.saved
      BY <1>2, <3>1, OtherLeaving DEF KeptInv
    <3>6. hist'.saved = hist.saved /\ hist'.gone = hist.gone
      BY <2>3 DEF Discards
    <3>7. \A p \in hist.saved \ hist.gone :
             \E d \in Stored' : store'[d].path = p /\ ~Leaving(d)'
      BY <3>2, <3>3 DEF KeptInv
    <3>8. QED
      BY <3>4, <3>5, <3>6, <3>7 DEF KeptInv
  <2>4. CASE /\ UNCHANGED store /\ work'[c][s].ph # "remove"
             /\ hist'.saved = hist.saved /\ hist'.gone = hist.gone
    BY <1>1, <1>2, <2>4, OtherLeaving
  <2>5. QED
    BY <1>2, <2>2, <2>3, <2>4, TaskOutcome
<1>3. ASSUME NEW c \in Call, Request(c) PROVE KeptInv'
  <2>1. UNCHANGED store /\ hist'.saved = hist.saved /\ hist'.gone = hist.gone
    BY <1>3, RequestEffect DEF Request
  <2>2. QED
    BY <1>1, <1>3, <2>1, OtherLeaving
<1>4. CASE Dropped
  BY <1>1, <1>4, OtherLeaving DEF Dropped
<1>5. CASE Removes
  <2>1. CASE UNCHANGED <<store, hist>>
    BY <1>1, <1>5, <2>1, OtherLeaving
  <2>2. ASSUME NEW d \in Stored, store' = [store EXCEPT ![d] = None],
               hist'.gone = hist.gone \cup ({store[d].path} \ {None})
        PROVE  KeptInv'
    <3>1. UNCHANGED work /\ hist'.saved = hist.saved
      BY <1>5 DEF Removes
    <3>2. \A e \in Stored' : e \in Stored /\ store'[e] = store[e]
      BY <2>2 DEF Stored, TypeOK
    <3>3. \A e \in Stored : e # d => e \in Stored' /\ store'[e] = store[e]
      BY <2>2 DEF Stored, TypeOK
    <3>4. \A e : Leaving(e)' <=> Leaving(e)
      BY <3>1 DEF Leaving
    <3>5. ASSUME NEW p \in hist'.saved \ hist'.gone
          PROVE  \E e \in Stored' : store'[e].path = p /\ ~Leaving(e)'
      <4>1. PICK e \in Stored : store[e].path = p /\ ~Leaving(e)
        BY <2>2, <3>1, <3>5 DEF KeptInv
      <4>2. p # None
        BY <3>1, <3>5, NoneApart DEF TypeOK, Hist
      <4>3. e # d
        BY <2>2, <3>5, <4>1, <4>2
      <4>4. QED
        BY <3>3, <3>4, <4>1, <4>3
    <3>6. QED
      BY <3>1, <3>2, <3>5 DEF KeptInv
  <2>3. QED
    BY <1>5, <2>1, <2>2 DEF Removes
<1>6. CASE Quiet
  BY <1>1, <1>6, OtherLeaving DEF Quiet
<1>7. QED
  BY <1>2, <1>3, <1>4, <1>5, <1>6, StepCases

(***************************************************************************)
(* A path has one document.                                                *)
(***************************************************************************)
\* No step but a request makes a task active, and paths of several stay so.
LEMMA ActiveStep ==
    ASSUME TypeOK, CallInv, ShapeInv, [Next]_vars
    PROVE  /\ hist.several \subseteq hist'.several
           /\ \/ \E c \in Call : Request(c)
              \/ \A b \in Call, t \in Source :
                   Active(b, t)' => Active(b, t) /\ call'[b] = call[b]
<1>1. ASSUME NEW c \in Call, NEW s \in Source, TaskStep(c, s)
      PROVE  hist.several \subseteq hist'.several /\ UNCHANGED call
  BY <1>1, TaskFrame
<1>2. ASSUME NEW c \in Call, Request(c) PROVE hist.several \subseteq hist'.several
  BY <1>2, RequestEffect
<1>3. ASSUME Dropped
      PROVE  /\ hist.several \subseteq hist'.several
             /\ \A b \in Call : call'[b].ph = "run" => call'[b] = call[b]
  BY <1>3 DEF Dropped
<1>4. ASSUME Removes \/ Quiet
      PROVE  hist.several \subseteq hist'.several /\ UNCHANGED call
  BY <1>4 DEF Removes, Quiet
<1>5. QED
  BY <1>1, <1>2, <1>3, <1>4, StepCases DEF Active

LEMMA AloneStep ==
    ASSUME TypeOK, CallInv, ShapeInv, AloneInv, [Next]_vars
    PROVE  AloneInv'
<1>1. CASE \A b \in Call, t \in Source :
              Active(b, t)' => Active(b, t) /\ call'[b] = call[b]
  BY <1>1, ActiveStep, SourceTypes DEF AloneInv
<1>2. ASSUME NEW c \in Call, Request(c) PROVE AloneInv'
  <2> DEFINE j == plan.job[c]
             Over == Overlaps(j)
  <2>1. /\ call[c].ph = "new" /\ call'[c].ph = "run" /\ call'[c].job = j
        /\ \A b \in Call : b # c => call'[b] = call[b]
        /\ hist'.several = hist.several \cup {Canon[s] : s \in Over}
    BY <1>2, RequestEffect
  <2>2. \A s \in j.srcs \cap Spelling : s \notin Over =>
           /\ j.mode # "force" /\ s \in Path
           /\ \A b \in Call, t \in Spelling : Active(b, t) => Canon[t] # Canon[s]
           /\ \A u \in j.srcs \cap Spelling : Canon[u] = Canon[s] => u = s
    <3> SUFFICES ASSUME NEW s \in j.srcs \cap Spelling, s \notin Over
                 PROVE  /\ j.mode # "force" /\ s \in Path
                        /\ \A b \in Call, t \in Spelling :
                             Active(b, t) => Canon[t] # Canon[s]
                        /\ \A u \in j.srcs \cap Spelling : Canon[u] = Canon[s] => u = s
      OBVIOUS
    <3>1. /\ j.mode # "force" /\ s \in Path /\ Busy(Canon[s]) = {}
          /\ \A u \in j.srcs \cap Spelling : Canon[u] = Canon[s] => u = s
      BY DEF Overlaps
    <3>2. ASSUME NEW b \in Call, NEW t \in Spelling, Active(b, t), Canon[t] = Canon[s]
          PROVE  FALSE
      <4>1. <<b, t>> \in Busy(Canon[s])
        BY <3>2 DEF Busy, Active
      <4>2. QED
        BY <3>1, <4>1
    <3>3. QED
      BY <3>1, <3>2
  <2> SUFFICES ASSUME NEW b \in Call, NEW t \in Spelling, Active(b, t)',
                      Canon[t] \notin hist'.several
               PROVE  /\ t \in Path /\ call'[b].job.mode # "force"
                      /\ \A e \in Call, u \in Spelling :
                           Active(e, u)' /\ Canon[u] = Canon[t] => e = b /\ u = t
    BY DEF AloneInv
  <2> HIDE DEF Over
  <2>3. CASE b = c
    <3>1. t \in j.srcs /\ t \notin Over
      BY <2>1, <2>3 DEF Active
    <3>2. ASSUME NEW e \in Call, NEW u \in Spelling, Active(e, u)', Canon[u] = Canon[t]
          PROVE  e = b /\ u = t
      <4>1. CASE e = c
        BY <2>1, <2>2, <2>3, <3>1, <3>2, <4>1 DEF Active
      <4>2. CASE e # c
        BY <2>1, <2>2, <3>1, <3>2, <4>2 DEF Active
      <4>3. QED
        BY <4>1, <4>2
    <3>3. QED
      BY <2>1, <2>2, <2>3, <3>1, <3>2
  <2>4. CASE b # c
    <3>1. Active(b, t) /\ call'[b] = call[b] /\ Canon[t] \notin hist.several
      BY <2>1, <2>4 DEF Active
    <3>2. ASSUME NEW u \in Spelling, Active(c, u)', Canon[u] = Canon[t]
          PROVE  FALSE
      <4>1. u \in j.srcs /\ u \notin Over
        BY <2>1, <3>2 DEF Active
      <4>2. QED
        BY <2>2, <3>1, <3>2, <4>1
    <3>3. ASSUME NEW e \in Call, NEW u \in Spelling, Active(e, u)', Canon[u] = Canon[t]
          PROVE  Active(e, u)
      BY <2>1, <3>2, <3>3 DEF Active
    <3>4. QED
      BY <3>1, <3>3 DEF AloneInv
  <2>5. QED
    BY <2>3, <2>4
<1>3. QED
  BY <1>1, <1>2, ActiveStep

\* A document about to be removed is of the path of the task that will.
LEMMA RemovingTask ==
    ASSUME TypeOK, CallInv, ShapeInv, PathInv, NEW c \in Call, NEW s \in Source,
           work[c][s].ph = "remove", work[c][s].old \in Stored,
           store[work[c][s].old].path # None
    PROVE  s \in Spelling /\ Active(c, s) /\ store[work[c][s].old].path = Canon[s]
<1>1. s \in Spelling /\ work[c][s].old \in Claims(c, s)
  BY DEF ShapeInv, Shape, Claims
<1>2. Active(c, s)
  BY TaskActive
<1>3. QED
  BY <1>1, <1>2 DEF PathInv

\* Two documents of a path that is not one of several: one is to go.
LEMMA TwoDocuments ==
    ASSUME TypeOK, CallInv, ShapeInv, PathInv, OneDocumentPerPath,
           NEW d \in Stored, NEW e \in Stored, d # e,
           store[d].path = store[e].path, store[d].path # None,
           store[d].path \notin hist.several
    PROVE  \E c \in Call, s \in Spelling :
              /\ Active(c, s) /\ Canon[s] = store[d].path
              /\ work[c][s].ph = "remove" /\ work[c][s].old \in {d, e}
<1>1. PICK x \in Call \X Spelling :
         work[x[1]][x[2]].ph = "remove" /\ work[x[1]][x[2]].old \in {d, e}
  BY DEF OneDocumentPerPath
<1>2. PICK c \in Call, s \in Spelling : x[1] = c /\ x[2] = s
  BY <1>1
<1>3. work[c][s].ph = "remove" /\ work[c][s].old \in {d, e} /\ s \in Source
  BY <1>1, <1>2, SourceTypes
<1>4. Active(c, s) /\ store[work[c][s].old].path = Canon[s]
  BY <1>3, RemovingTask
<1>5. QED
  BY <1>3, <1>4

LEMMA OwnedStep ==
    ASSUME TypeOK, CallInv, ShapeInv, PathInv, AloneInv, OwnedInv, OneDocumentPerPath,
           [Next]_vars
    PROVE  OwnedInv'
<1> DEFINE Phases == {"read", "old", "index", "stamp", "save", "remove"}
           Holds(b, t) == /\ Active(b, t) /\ Canon[t] \notin hist.several
                          /\ work[b][t].ph \in Phases
           Owned(b, t) == \A e \in Stored : store[e].path = Canon[t] => e \in Claims(b, t)
<1>1. /\ \A b \in Call, t \in Spelling : Holds(b, t) => Owned(b, t)
      /\ (\A b \in Call, t \in Spelling : Holds(b, t)' => Owned(b, t)') => OwnedInv'
  BY DEF OwnedInv
<1>2. \A b \in Call, t \in Spelling : Holds(b, t)' =>
         Canon[t] \notin hist.several /\ Canon[t] \notin hist'.several
  BY ActiveStep
\* No document is written, and the task is as it was.
<1>3. ASSUME NEW b \in Call, NEW t \in Spelling, Holds(b, t)', Active(b, t),
             work'[b][t] = work[b][t],
             \A e \in Stored' : e \in Stored /\ store'[e] = store[e]
      PROVE  Owned(b, t)'
  BY <1>1, <1>2, <1>3 DEF Claims
<1>4. ASSUME NEW c \in Call, NEW s \in Source, TaskStep(c, s) PROVE OwnedInv'
  <2>1. /\ Moves(c, s) /\ Active(c, s) /\ UNCHANGED call
        /\ \A b \in Call, t \in Source : Active(b, t)' <=> Active(b, t)
    BY <1>4, TaskFrame DEF Active
  <2>2. ASSUME NEW b \in Call, NEW t \in Spelling, b # c \/ t # s, Holds(b, t)'
        PROVE  Owned(b, t)'
    <3>1. work'[b][t] = work[b][t] /\ Active(b, t) /\ t \in Source
      BY <2>1, <2>2, SourceTypes DEF Moves
    <3>2. s \in Spelling => Canon[s] # Canon[t]
      BY <1>2, <2>1, <2>2, <3>1 DEF AloneInv
    <3>3. PathOf(s) # Canon[t]
      BY <3>2, SourceTypes, NoneApart DEF PathOf
    <3>4. \A e \in Stored' : store'[e].path = Canon[t] => e \in Stored /\ store[e].path = Canon[t]
      <4>1. CASE UNCHANGED store
        BY <4>1 DEF Stored
      <4>2. CASE Stores(c, s)
        BY <3>3, <4>2 DEF Stores, Stored, TypeOK
      <4>3. CASE Discards(c, s)
        BY <4>3 DEF Discards, Stored, TypeOK
      <4>4. QED
        BY <1>4, <4>1, <4>2, <4>3, TaskOutcome
    <3>5. Holds(b, t)
      BY <1>2, <2>2, <3>1
    <3>6. QED
      BY <1>1, <3>1, <3>4, <3>5 DEF Claims
  <2>3. ASSUME s \in Spelling, Holds(c, s)' PROVE Owned(c, s)'
    <3>1. Canon[s] \notin hist.several /\ Canon[s] \notin hist'.several
      BY <1>2, <2>3
    <3>2. CASE Resolve(c, s)
      <4>1. UNCHANGED store /\ work[c][s].ph = "wait"
        BY <3>2 DEF Resolve
      <4>2. s \in Path /\ Canon[s] = s /\ call[c].job.mode # "force"
        BY <2>1, <2>3, <3>1, SourceTypes DEF AloneInv
      <4>3. \/ \A e \in Stored : store[e].path # s
            \/ /\ work'[c][s].id \in Stored
               /\ store[work'[c][s].id].path = s
        BY <2>3, <3>2, <4>2, ResolveEffect
      <4>4. ASSUME NEW e \in Stored, store[e].path = s, work'[c][s].id # e,
                   work'[c][s].id \in Stored, store[work'[c][s].id].path = s
            PROVE  FALSE
        <5>1. PICK b \in Call, t \in Spelling :
                 Active(b, t) /\ Canon[t] = s /\ work[b][t].ph = "remove"
          BY <3>1, <4>2, <4>4, NoneApart, SourceTypes, TwoDocuments
        <5>2. b = c /\ t = s
          BY <2>1, <2>3, <3>1, <4>2, <5>1 DEF AloneInv
        <5>3. QED
          BY <4>1, <5>1, <5>2
      <4>5. \A e \in Stored : store[e].path = s => e \in Claims(c, s)'
        BY <4>3, <4>4, NoneApart DEF Claims, Stored
      <4>6. QED
        BY <4>1, <4>2, <4>5 DEF Stored
    <3>3. CASE ReadFile(c, s)
      <4>1. UNCHANGED store /\ work[c][s].ph = "read"
        BY <3>3 DEF ReadFile
      <4>2. Owned(c, s)
        BY <1>1, <2>1, <2>3, <3>1, <4>1
      <4>3. UNCHANGED hist \/ hist' = [hist EXCEPT !.several = @ \cup {Canon[s]}]
        BY <3>3, ReadFileEffect
      <4>4. UNCHANGED hist
        BY <3>1, <4>3 DEF TypeOK, Hist
      <4>5. work'[c][s].id = work[c][s].id /\ work'[c][s].old = work[c][s].old
        <5>1. hist' # [hist EXCEPT !.several = @ \cup {Canon[s]}]
          BY <3>1 DEF TypeOK, Hist
        <5>2. work[c][s].old = None
          BY <4>1, NoneApart DEF ShapeInv, Shape
        <5>3. QED
          BY <3>3, <5>1, <5>2, ReadFileEffect
      <4>6. QED
        BY <4>1, <4>2, <4>5 DEF Stored, Claims
    <3>4. CASE LoadOld(c, s)
      <4>1. UNCHANGED store
        BY <3>4 DEF LoadOld
      <4>2. Owned(c, s) /\ work[c][s].old = None
        BY <1>1, <2>1, <2>3, <3>1, <3>4, LoadOldEffect DEF ShapeInv, Shape
      <4>3. \A e \in Stored : store[e].path = Canon[s] => e = work[c][s].id
        BY <4>2 DEF Claims
      <4>4. \/ store[work[c][s].id] = None \/ work'[c][s].id = work[c][s].id
            \/ work'[c][s].old = work[c][s].id
        BY <2>3, <3>4, LoadOldEffect
      <4>5. QED
        BY <4>1, <4>3, <4>4, NoneApart DEF Stored, Claims
    <3>5. CASE Index(c, s)
      <4>1. UNCHANGED store
        BY <3>5 DEF Index
      <4>2. Owned(c, s)
        BY <1>1, <2>1, <2>3, <3>1, <3>5, IndexEffect
      <4>3. /\ work'[c][s].old = work[c][s].old
            /\ work[c][s].id # None => work'[c][s].id = work[c][s].id
        BY <3>5, IndexEffect
      <4>4. QED
        BY <4>1, <4>2, <4>3 DEF Stored, Claims
    <3>6. CASE IndexFails(c, s)
      <4>1. UNCHANGED store
        BY <3>6 DEF IndexFails
      <4>2. Owned(c, s) /\ Kept(work[c][s], work'[c][s])
        BY <1>1, <2>1, <2>3, <3>1, <3>6, IndexFailsEffect
      <4>3. QED
        BY <4>1, <4>2 DEF Stored, Claims, Kept
    <3>7. CASE Stamp(c, s)
      <4>1. UNCHANGED store
        BY <3>7 DEF Stamp
      <4>2. /\ Owned(c, s)
            /\ work'[c][s].id = work[c][s].id /\ work'[c][s].old = work[c][s].old
        BY <1>1, <2>1, <2>3, <3>1, <3>7, StampEffect
      <4>3. QED
        BY <4>1, <4>2 DEF Stored, Claims
    <3>8. CASE Save(c, s)
      <4>1. Owned(c, s) /\ Kept(work[c][s], work'[c][s])
        BY <1>1, <2>1, <2>3, <3>1, <3>8, SaveEffect
      <4>2. \/ UNCHANGED store
            \/ /\ store' = [store EXCEPT ![work[c][s].id] = work[c][s].doc]
               /\ work[c][s].id \in Id
        BY <3>8, SaveEffect
      <4>3. \A e \in Stored' : e = work[c][s].id \/ (e \in Stored /\ store'[e] = store[e])
        BY <4>2 DEF Stored, TypeOK
      <4>4. QED
        BY <4>1, <4>3, NoneApart DEF Claims, Kept, Stored
    <3>9. CASE RemoveOld(c, s)
      BY <2>3, <3>9, RemoveOldEffect
    <3>10. QED
      BY <1>4, <2>3, <3>2, <3>3, <3>4, <3>5, <3>6, <3>7, <3>8, <3>9, SourceTypes
         DEF TaskStep, SourceStep
  <2>4. QED
    BY <1>1, <2>2, <2>3
<1>5. ASSUME NEW c \in Call, Request(c) PROVE OwnedInv'
  <2>1. /\ \A t \in Source : work'[c][t].ph \notin Phases
        /\ \A b \in Call : b # c => call'[b] = call[b] /\ work'[b] = work[b]
    BY <1>5, RequestEffect DEF NoWork
  <2>2. UNCHANGED store
    BY <1>5 DEF Request
  <2>3. \A b \in Call, t \in Spelling : Holds(b, t)' =>
           Active(b, t) /\ work'[b][t] = work[b][t]
    BY <2>1, SourceTypes DEF Active
  <2>4. QED
    BY <1>1, <1>3, <2>2, <2>3 DEF Stored
<1>6. CASE Dropped
  <2>1. \A b \in Call, t \in Spelling : Holds(b, t)' =>
           Active(b, t) /\ work'[b][t] = work[b][t]
    BY <1>6 DEF Active, Dropped
  <2>2. UNCHANGED store
    BY <1>6 DEF Dropped
  <2>3. QED
    BY <1>1, <1>3, <2>1, <2>2 DEF Stored
<1>7. CASE Removes \/ Quiet
  <2>1. UNCHANGED <<call, work>>
    BY <1>7 DEF Removes, Quiet
  <2>2. \A e \in Stored' : e \in Stored /\ store'[e] = store[e]
    BY <1>7 DEF Removes, Quiet, Stored, TypeOK
  <2>3. QED
    BY <1>1, <1>3, <2>1, <2>2 DEF Active
<1>8. QED
  BY <1>4, <1>5, <1>6, <1>7, StepCases

LEMMA OneDocStep ==
    ASSUME TypeOK, CallInv, ShapeInv, PrivateInv, PathInv, AloneInv, OwnedInv,
           OneDocumentPerPath, [Next]_vars
    PROVE  OneDocumentPerPath'
<1> DEFINE Twins(d, e) == /\ d \in Stored /\ e \in Stored /\ d # e
                          /\ store[d].path = store[e].path /\ store[d].path # None
           Removing(D) == \E b \in Call, t \in Spelling :
                             work[b][t].ph = "remove" /\ work[b][t].old \in D
\* It is enough that a task will remove one of two documents.
<1>1. ASSUME \A d, e \in Id : Twins(d, e)' /\ store'[d].path \notin hist'.several
                 => \E b \in Call, t \in Spelling :
                       work'[b][t].ph = "remove" /\ work'[b][t].old \in {d, e}
      PROVE  OneDocumentPerPath'
  <2> SUFFICES ASSUME NEW d \in Stored', NEW e \in Stored',
                      store'[d].path = store'[e].path, store'[d].path # None,
                      d # e, store'[d].path \notin hist'.several
               PROVE  \E x \in Call \X Spelling :
                         /\ work'[x[1]][x[2]].ph = "remove"
                         /\ work'[x[1]][x[2]].old \in {d, e}
    BY DEF OneDocumentPerPath
  <2>1. PICK b \in Call, t \in Spelling :
           work'[b][t].ph = "remove" /\ work'[b][t].old \in {d, e}
    BY <1>1 DEF Stored
  <2> DEFINE x == <<b, t>>
  <2>2. x \in Call \X Spelling /\ x[1] = b /\ x[2] = t
    OBVIOUS
  <2> HIDE DEF x
  <2>3. QED
    BY <2>1, <2>2
<1>2. ASSUME NEW d \in Id, NEW e \in Id, Twins(d, e),
             store[d].path \notin hist'.several
      PROVE  \E b \in Call, t \in Spelling :
                /\ Active(b, t) /\ Canon[t] = store[d].path
                /\ work[b][t].ph = "remove" /\ work[b][t].old \in {d, e}
  BY <1>2, ActiveStep, TwoDocuments
<1>3. ASSUME NEW c \in Call, NEW s \in Source, TaskStep(c, s) PROVE OneDocumentPerPath'
  <2> SUFFICES ASSUME NEW d \in Id, NEW e \in Id, Twins(d, e)',
                      store'[d].path \notin hist'.several
               PROVE  \E b \in Call, t \in Spelling :
                         work'[b][t].ph = "remove" /\ work'[b][t].old \in {d, e}
    BY <1>1
  <2>1. \A b \in Call, t \in Source : b # c \/ t # s => work'[b][t] = work[b][t]
    BY <1>3, TaskFrame DEF Moves
  <2>2. ASSUME Twins(d, e), store'[d].path = store[d].path,
               work[c][s].ph = "remove" =>
                  Canon[s] \in hist'.several \/ work[c][s].old \notin {d, e}
        PROVE  \E b \in Call, t \in Spelling :
                  work'[b][t].ph = "remove" /\ work'[b][t].old \in {d, e}
    <3>1. PICK b \in Call, t \in Spelling :
             /\ Active(b, t) /\ Canon[t] = store[d].path
             /\ work[b][t].ph = "remove" /\ work[b][t].old \in {d, e}
      BY <1>2, <2>2
    <3>2. b # c \/ t # s
      BY <2>2, <3>1
    <3>3. QED
      BY <2>1, <3>1, <3>2, SourceTypes
  <2>3. CASE UNCHANGED store
    <3>1. Twins(d, e) /\ store'[d].path = store[d].path
      BY <2>3 DEF Stored
    <3>2. ASSUME work[c][s].ph = "remove", Canon[s] \notin hist'.several,
                 work[c][s].old \in {d, e}
          PROVE  FALSE
      <4>1. Discards(c, s)
        BY <1>3, <3>2, TaskOutcome
      <4>2. work[c][s].old \in Stored /\ store'[work[c][s].old] = None
        BY <3>1, <3>2, <4>1 DEF Discards, TypeOK
      <4>3. QED
        BY <2>3, <4>2 DEF Stored
    <3>3. QED
      BY <2>2, <3>1, <3>2
  <2>4. CASE Stores(c, s)
    <3> DEFINE w == work[c][s]
    <3>1. /\ w.ph = "save" /\ w.id \in Id /\ w.doc \in Doc /\ w.doc.path = PathOf(s)
          /\ \A x \in Id : store'[x] = IF x = w.id THEN w.doc ELSE store[x]
          /\ Kept(w, work'[c][s]) /\ Active(c, s)
      <4>1. Save(c, s) /\ w.id \in Id /\ w.doc \in Doc /\ w.doc.path = PathOf(s)
        BY <2>4 DEF Stores
      <4>2. w.ph = "save" /\ Kept(w, work'[c][s]) /\ Active(c, s)
        BY <4>1, SaveEffect
      <4>3. store' = [store EXCEPT ![w.id] = w.doc]
        BY <2>4 DEF Stores
      <4>4. DOMAIN store = Id
        BY DEF TypeOK
      <4>5. \A x \in Id : store'[x] = IF x = w.id THEN w.doc ELSE store[x]
        BY <4>3, <4>4
      <4> QED
        BY <4>1, <4>2, <4>5
    <3>2. ASSUME d # w.id, e # w.id
          PROVE  \E b \in Call, t \in Spelling :
                    work'[b][t].ph = "remove" /\ work'[b][t].old \in {d, e}
      BY <2>2, <3>1, <3>2 DEF Stored
    <3>3. ASSUME NEW f \in {d, e}, f # w.id, w.id \in {d, e}
          PROVE  \E b \in Call, t \in Spelling :
                    work'[b][t].ph = "remove" /\ work'[b][t].old \in {d, e}
      <4>1. f \in Stored /\ store[f].path = PathOf(s) /\ store[f].path = store'[d].path
        BY <3>1, <3>3 DEF Stored
      <4>2. s \in Spelling /\ Canon[s] = PathOf(s) /\ Canon[s] \notin hist'.several
        BY <4>1 DEF PathOf
      <4>3. Canon[s] \notin hist.several
        BY <4>2, ActiveStep
      <4>4. f \in Claims(c, s)
        BY <3>1, <4>1, <4>2, <4>3 DEF OwnedInv
      <4>5. f = w.old /\ w.old # None
        BY <3>3, <4>4 DEF Claims
      <4>6. work'[c][s].ph = "remove" /\ work'[c][s].old = f
        BY <2>4, <3>1, <4>2, <4>5 DEF Stores, Kept
      <4>7. QED
        BY <4>2, <4>6
    <3>4. QED
      BY <3>2, <3>3
  <2>5. CASE Discards(c, s)
    <3>1. \A x \in Id : store'[x] = IF x = work[c][s].old THEN None ELSE store[x]
      BY <2>5 DEF Discards, TypeOK
    <3>2. Twins(d, e) /\ store'[d].path = store[d].path /\ work[c][s].old \notin {d, e}
      BY <3>1 DEF Stored
    <3>3. QED
      BY <2>2, <3>2
  <2>6. QED
    BY <1>3, <2>3, <2>4, <2>5, TaskOutcome
\* The documents that are stored still are of the path they were of.
<1>4. ASSUME \A d \in Stored' : d \in Stored /\ store'[d] = store[d],
             \A b \in Call, t \in Spelling :
                Active(b, t) /\ work[b][t].ph = "remove" /\ Canon[t] \notin hist'.several
                   => work'[b][t] = work[b][t]
      PROVE  OneDocumentPerPath'
  <2> SUFFICES ASSUME NEW d \in Id, NEW e \in Id, Twins(d, e)',
                      store'[d].path \notin hist'.several
               PROVE  \E b \in Call, t \in Spelling :
                         work'[b][t].ph = "remove" /\ work'[b][t].old \in {d, e}
    BY <1>1
  <2>1. Twins(d, e) /\ store'[d].path = store[d].path
    BY <1>4
  <2>2. PICK b \in Call, t \in Spelling :
           /\ Active(b, t) /\ Canon[t] = store[d].path
           /\ work[b][t].ph = "remove" /\ work[b][t].old \in {d, e}
    BY <1>2, <2>1
  <2>3. QED
    BY <1>4, <2>1, <2>2
<1>5. ASSUME NEW c \in Call, Request(c) PROVE OneDocumentPerPath'
  <2>1. \A d \in Stored' : d \in Stored /\ store'[d] = store[d]
    BY <1>5 DEF Request, Stored
  <2>2. \A b \in Call, t \in Spelling :
           Active(b, t) /\ work[b][t].ph = "remove" /\ Canon[t] \notin hist'.several
              => work'[b][t] = work[b][t]
    BY <1>5, RequestEffect DEF Active
  <2>3. QED
    BY <1>4, <2>1, <2>2
<1>6. CASE Dropped
  <2>1. \A d \in Stored' : d \in Stored /\ store'[d] = store[d]
    BY <1>6 DEF Dropped, Stored
  <2>2. ASSUME NEW b \in Call, NEW t \in Spelling, work[b][t].ph = "remove",
               Canon[t] \notin hist'.several
        PROVE  work'[b][t] = work[b][t]
    <3>1. t \in Source /\ work[b][t].doc.path = Canon[t]
      BY <2>2, SourceTypes DEF ShapeInv, Shape
    <3>2. QED
      BY <1>6, <2>2, <3>1 DEF Dropped
  <2>3. \A b \in Call, t \in Spelling :
           Active(b, t) /\ work[b][t].ph = "remove" /\ Canon[t] \notin hist'.several
              => work'[b][t] = work[b][t]
    BY <2>2
  <2>4. QED
    BY <1>4, <2>1, <2>3
<1>7. CASE Removes \/ Quiet
  <2>1. \A b \in Call, t \in Spelling :
           Active(b, t) /\ work[b][t].ph = "remove" /\ Canon[t] \notin hist'.several
              => work'[b][t] = work[b][t]
    BY <1>7 DEF Removes, Quiet
  <2>2. \A d \in Stored' : d \in Stored /\ store'[d] = store[d]
    BY <1>7 DEF Removes, Quiet, Stored, TypeOK
  <2>3. QED
    BY <1>4, <2>1, <2>2
<1>8. QED
  BY <1>3, <1>5, <1>6, <1>7, StepCases

(***************************************************************************)
(* Fingerprints.                                                           *)
(***************************************************************************)
LEMMA SeenStep ==
    ASSUME TypeOK, CallInv, ShapeInv, SeenInv, [Next]_vars
    PROVE  SeenInv'
<1> DEFINE DocSeen(x, T) == /\ x.path = None => x.seen = None
                            /\ x.seen \in {None, x.text} \/ x.path \in T
           Stamping(w, s) == w.ph = "stamp" =>
                                w.doc.text = file[Canon[s]] \/ Canon[s] \in hist.torn
           Saving(w, s, T) == w.ph = "save" =>
                                /\ s \notin Spelling => w.doc.seen = None
                                /\ w.doc.seen \in {None, w.doc.text} \/ PathOf(s) \in T
<1>1. /\ \A d \in Stored : DocSeen(store[d], hist.torn)
      /\ \A c \in Call, s \in Source :
           Stamping(work[c][s], s) /\ Saving(work[c][s], s, hist.torn)
  BY DEF SeenInv
<1>2. ASSUME \A d \in Stored' : DocSeen(store'[d], hist'.torn),
             \A c \in Call, s \in Source :
                Stamping(work[c][s], s)' /\ Saving(work'[c][s], s, hist'.torn)
      PROVE  SeenInv'
  BY <1>2 DEF SeenInv
<1>3. ASSUME NEW c \in Call, NEW s \in Source, TaskStep(c, s) PROVE SeenInv'
  <2>1. Moves(c, s) /\ UNCHANGED file /\ hist'.torn = hist.torn
    BY <1>3, TaskFrame
  <2>2. Stamping(work[c][s], s)' /\ Saving(work'[c][s], s, hist'.torn)
    <3>1. CASE Index(c, s)
      <4>1. /\ work'[c][s].ph = (IF s \in Spelling THEN "stamp" ELSE "save")
            /\ work'[c][s].doc.text = Content(c, s) /\ work'[c][s].doc.seen = None
        BY <3>1, IndexEffect
      <4>2. s \in Spelling => Content(c, s) = file[Canon[s]]
        BY DEF Content
      <4>3. QED
        BY <2>1, <4>1, <4>2
    <3>2. CASE Stamp(c, s)
      <4>1. /\ work'[c][s].ph = "save" /\ work[c][s].ph = "stamp" /\ s \in Spelling
            /\ work'[c][s].doc.text = work[c][s].doc.text
            /\ work'[c][s].doc.seen = file[Canon[s]] /\ PathOf(s) = Canon[s]
        BY <3>2, StampEffect, SourceTypes
      <4>2. QED
        BY <1>1, <2>1, <4>1
    <3>3. CASE Resolve(c, s) \/ ReadFile(c, s)
      BY <3>3, ResolveEffect, ReadFileEffect
    <3>4. CASE LoadOld(c, s)
      BY <3>4, LoadOldEffect
    <3>5. CASE IndexFails(c, s) \/ RemoveOld(c, s)
      BY <3>5, IndexFailsEffect, RemoveOldEffect
    <3>6. CASE Save(c, s)
      BY <3>6, SaveEffect
    <3>7. CASE s = Nodes /\ LoadPrevious(c)
      BY <3>7, LoadPreviousEffect
    <3>8. QED
      BY <1>3, <3>1, <3>2, <3>3, <3>4, <3>5, <3>6, <3>7 DEF TaskStep, SourceStep
  <2>3. \A b \in Call, t \in Source :
           Stamping(work[b][t], t)' /\ Saving(work'[b][t], t, hist'.torn)
    BY <1>1, <2>1, <2>2 DEF Moves
  <2>4. \A d \in Stored' : DocSeen(store'[d], hist'.torn)
    <3>1. CASE Stores(c, s)
      <4>1. /\ work[c][s].ph = "save" /\ work[c][s].doc.path = PathOf(s)
            /\ \A d \in Id : store'[d] = IF d = work[c][s].id THEN work[c][s].doc
                                         ELSE store[d]
        BY <3>1 DEF Stores, Save, TypeOK
      <4>2. PathOf(s) = None => s \notin Spelling
        BY SourceTypes, NoneApart
      <4>3. DocSeen(work[c][s].doc, hist.torn)
        BY <1>1, <4>1, <4>2
      <4>4. QED
        BY <1>1, <2>1, <4>1, <4>3 DEF Stored
    <3>2. CASE Discards(c, s)
      <4>1. \A d \in Stored' : d \in Stored /\ store'[d] = store[d]
        BY <3>2 DEF Discards, Stored, TypeOK
      <4>2. QED
        BY <1>1, <2>1, <4>1
    <3>3. CASE UNCHANGED store
      BY <1>1, <2>1, <3>3 DEF Stored
    <3>4. QED
      BY <1>3, <3>1, <3>2, <3>3, TaskOutcome
  <2>5. QED
    BY <1>2, <2>3, <2>4
\* Documents stay or go, files stay, and tasks stay or have nothing in hand.
<1>4. ASSUME \A d \in Stored' : d \in Stored /\ store'[d] = store[d], UNCHANGED file,
             hist.torn \subseteq hist'.torn,
             \A b \in Call, t \in Source :
                work'[b][t] = work[b][t] \/ work'[b][t].ph \notin {"stamp", "save"}
      PROVE  SeenInv'
  <2>1. \A d \in Stored' : DocSeen(store'[d], hist'.torn)
    BY <1>1, <1>4
  <2>2. ASSUME NEW b \in Call, NEW t \in Source
        PROVE  Stamping(work[b][t], t)' /\ Saving(work'[b][t], t, hist'.torn)
    BY <1>1, <1>4
  <2>3. QED
    BY <1>2, <2>1, <2>2
<1>5. ASSUME NEW c \in Call, Request(c) PROVE SeenInv'
  <2>1. UNCHANGED <<store, file>> /\ hist'.torn = hist.torn
    BY <1>5, RequestEffect DEF Request
  <2>2. \A b \in Call, t \in Source :
           work'[b][t] = work[b][t] \/ work'[b][t].ph \notin {"stamp", "save"}
    BY <1>5, RequestEffect DEF NoWork
  <2>3. QED
    BY <1>4, <2>1, <2>2 DEF Stored
<1>6. CASE Dropped
  <2>1. UNCHANGED <<store, file>> /\ hist'.torn = hist.torn
    BY <1>6 DEF Dropped
  <2>2. \A b \in Call, t \in Source :
           work'[b][t] = work[b][t] \/ work'[b][t].ph \notin {"stamp", "save"}
    BY <1>6 DEF Dropped, Untouched, NoWork
  <2>3. QED
    BY <1>4, <2>1, <2>2 DEF Stored
<1>7. CASE Removes
  <2>1. UNCHANGED <<work, file>> /\ hist'.torn = hist.torn
    BY <1>7 DEF Removes
  <2>2. \A e \in Stored' : e \in Stored /\ store'[e] = store[e]
    BY <1>7 DEF Removes, Stored, TypeOK
  <2>3. QED
    BY <1>4, <2>1, <2>2
<1>8. CASE Quiet /\ UNCHANGED file
  BY <1>4, <1>8 DEF Quiet, Stored
<1>9. ASSUME NEW p \in Path, Edit(p) PROVE SeenInv'
  <2>1. /\ Quiet
        /\ \A q \in Path : q # p => file'[q] = file[q]
        /\ \/ \A x \in Busy(p) : work[x[1]][x[2]].ph # "stamp"
           \/ p \in hist'.torn
    BY <1>9, EditEffect
  <2>2. UNCHANGED <<store, work, call>> /\ hist.torn \subseteq hist'.torn
    BY <2>1 DEF Quiet
  <2>3. ASSUME NEW b \in Call, NEW t \in Source, work[b][t].ph = "stamp"
        PROVE  Stamping(work[b][t], t)'
    <3>1. t \in Spelling /\ Active(b, t)
      BY <2>3, TaskActive DEF ShapeInv, Shape
    <3>2. CASE Canon[t] = p
      <4>1. <<b, t>> \in Busy(p)
        BY <3>1, <3>2 DEF Busy, Active
      <4>2. ~(\A x \in Busy(p) : work[x[1]][x[2]].ph # "stamp")
        <5> DEFINE x == <<b, t>>
        <5>1. x \in Busy(p) /\ x[1] = b /\ x[2] = t
          BY <4>1
        <5> HIDE DEF x
        <5>2. QED
          BY <2>3, <5>1
      <4>3. QED
        BY <2>1, <3>2, <4>2
    <3>3. CASE Canon[t] # p
      BY <1>1, <2>1, <2>2, <2>3, <3>1, <3>3, SourceTypes
    <3>4. QED
      BY <3>2, <3>3
  <2>4. \A b \in Call, t \in Source :
           Stamping(work[b][t], t)' /\ Saving(work'[b][t], t, hist'.torn)
    BY <1>1, <2>2, <2>3
  <2>5. \A d \in Stored' : DocSeen(store'[d], hist'.torn)
    BY <1>1, <2>2 DEF Stored
  <2>6. QED
    BY <1>2, <2>4, <2>5
<1>10. (\E p \in Path : Edit(p)) \/ (Quiet => UNCHANGED file) \/ Dropped \/ Removes
       \/ (\E c \in Call : Request(c)) \/ \E c \in Call, s \in Source : TaskStep(c, s)
  <2>1. ASSUME NEW c \in Call, Rebuild(c) PROVE UNCHANGED file
    BY <2>1 DEF Rebuild, ListForGraph, LoadForGraph, SetGraph
  <2>2. ASSUME NEW d \in Id, Forget(d) \/ ClearOne(d) PROVE UNCHANGED file
    BY <2>2 DEF Forget, ClearOne
  <2>3. ASSUME NEW c \in Call, Finish(c) \/ Show(c) \/ Timeout(c) PROVE UNCHANGED file
    BY <2>3 DEF Finish, Show, Timeout
  <2>4. ASSUME Clear \/ Restart \/ UNCHANGED vars PROVE UNCHANGED file
    BY <2>4 DEF Clear, Restart, vars
  <2>5. QED
    BY <2>1, <2>2, <2>3, <2>4, SourceTypes DEF Next, Advance, TaskStep
<1>11. QED
  BY <1>3, <1>5, <1>6, <1>7, <1>8, <1>9, <1>10, StepCases

(***************************************************************************)
(* The graph.                                                              *)
(***************************************************************************)
LEMMA GraphStep ==
    ASSUME TypeOK, CallInv, ShapeInv, GraphInv, [Next]_vars
    PROVE  GraphInv'
\* It is enough that rebuilds and graph stay, and nothing more is due.
<1>1. ASSUME UNCHANGED <<reb, graph>>, hist'.lists = hist.lists,
             hist'.shown = hist.shown, hist'.due \subseteq hist.due,
             hist'.due \subseteq Stored'
      PROVE  GraphInv'
  BY <1>1 DEF GraphInv
<1>2. /\ hist.lists \in Nat /\ hist.shown \in Nat /\ hist.due \subseteq Stored
      /\ hist.shown <= hist.lists
      /\ \A c \in Call : reb[c].n \in Nat /\ reb[c].n <= hist.lists
  BY DEF TypeOK, Hist, Rebuilding, GraphInv
<1>3. ASSUME NEW c \in Call, NEW s \in Source, TaskStep(c, s) PROVE GraphInv'
  <2>1. /\ UNCHANGED <<reb, graph>> /\ hist'.lists = hist.lists
        /\ hist'.shown = hist.shown
    BY <1>3, TaskFrame
  <2>2. hist'.due \subseteq hist.due /\ hist'.due \subseteq Stored'
    <3>1. CASE Save(c, s)
      <4>1. /\ hist'.due = hist.due /\ work[c][s].id \in Id
            /\ work[c][s].doc \in Doc
            /\ \/ UNCHANGED store
               \/ store' = [store EXCEPT ![work[c][s].id] = work[c][s].doc]
        BY <3>1, SaveEffect
      <4>2. \A d \in Stored : d \in Stored'
        BY <4>1, NoneApart DEF Stored, TypeOK
      <4>3. QED
        BY <1>2, <4>1, <4>2
    <3>2. CASE RemoveOld(c, s)
      <4>1. \/ /\ store' = [store EXCEPT ![work[c][s].old] = None]
               /\ hist'.due = hist.due \ {work[c][s].old}
            \/ UNCHANGED store /\ hist'.due = hist.due
        BY <3>2, RemoveOldEffect
      <4>2. QED
        BY <1>2, <4>1 DEF Stored, TypeOK
    <3>3. CASE ReadFile(c, s)
      <4>1. /\ UNCHANGED store
            /\ UNCHANGED hist \/ hist' = [hist EXCEPT !.several = @ \cup {Canon[s]}]
        BY <3>3, ReadFileEffect DEF ReadFile
      <4>2. hist'.due = hist.due
        BY <4>1 DEF TypeOK, Hist
      <4>3. QED
        BY <1>2, <4>1, <4>2 DEF Stored
    <3>4. ASSUME UNCHANGED <<store, hist>>
          PROVE  hist'.due \subseteq hist.due /\ hist'.due \subseteq Stored'
      BY <1>2, <3>4 DEF Stored
    <3>5. CASE Resolve(c, s) \/ LoadOld(c, s) \/ Index(c, s) \/ IndexFails(c, s)
               \/ Stamp(c, s) \/ LoadPrevious(c)
      BY <3>4, <3>5 DEF Resolve, LoadOld, Index, IndexFails, Stamp, LoadPrevious
    <3>6. QED
      BY <1>3, <3>1, <3>2, <3>3, <3>5 DEF TaskStep, SourceStep
  <2>3. QED
    BY <1>1, <2>1, <2>2
<1>4. ASSUME UNCHANGED store, hist'.due = hist.due
      PROVE  hist'.due \subseteq hist.due /\ hist'.due \subseteq Stored'
  BY <1>2, <1>4 DEF Stored
<1>5. ASSUME NEW c \in Call, Request(c) PROVE GraphInv'
  <2>1. UNCHANGED <<reb, graph, store>>
    BY <1>5 DEF Request
  <2>2. hist'.due = hist.due /\ hist'.lists = hist.lists /\ hist'.shown = hist.shown
    BY <1>5, RequestEffect
  <2>3. QED
    BY <1>1, <1>4, <2>1, <2>2
<1>6. ASSUME NEW c \in Call, Finish(c) PROVE GraphInv'
  <2>1. /\ UNCHANGED <<store, graph>> /\ hist'.lists = hist.lists
        /\ hist'.shown = hist.shown
    BY <1>6, FinishEffect DEF Dropped
  <2>2. CASE UNCHANGED <<reb, hist>>
    BY <1>1, <1>4, <2>1, <2>2
  <2>3. ASSUME reb' = [reb EXCEPT ![c].ph = "list"],
               NEW D \in SUBSET Stored, hist'.due = hist.due \cup D
        PROVE  GraphInv'
    <3> DEFINE r == [reb[c] EXCEPT !.ph = "list"]
    <3>1. reb' = [reb EXCEPT ![c] = r]
      BY <2>3 DEF TypeOK
    <3>2. reb[c] \in Rebuilding
      BY DEF TypeOK
    <3>3. r.ph = "list" /\ r.n = reb[c].n
      BY <3>2 DEF Rebuilding
    <3> HIDE DEF r
    <3>4. reb'[c] = r /\ \A b \in Call : b # c => reb'[b] = reb[b]
      BY <3>1 DEF TypeOK
    <3>5. hist'.due \subseteq Stored'
      BY <1>2, <2>1, <2>3 DEF Stored
    <3>6. \A b \in Call : /\ reb'[b].n <= hist'.lists
                          /\ reb'[b].ph \in {"load", "set"} => hist'.lists > 0
      BY <2>1, <3>3, <3>4 DEF GraphInv
    <3>7. reb'[c].ph = "list" /\ hist'.shown <= hist'.lists
      BY <1>2, <2>1, <3>3, <3>4
    <3>8. QED
      BY <3>5, <3>6, <3>7 DEF GraphInv
  <2>4. QED
    BY <1>6, <2>2, <2>3, FinishEffect
<1>7. ASSUME NEW c \in Call, Show(c) \/ Timeout(c) PROVE GraphInv'
  <2>1. UNCHANGED <<reb, graph, store>>
    BY <1>7, ShowEffect, TimeoutEffect DEF Dropped
  <2>2. hist'.due = hist.due /\ hist'.lists = hist.lists /\ hist'.shown = hist.shown
    BY <1>7, ShowEffect, TimeoutEffect
  <2>3. QED
    BY <1>1, <1>4, <2>1, <2>2
<1>8. CASE Restart
  <2>1. /\ UNCHANGED <<store, graph>> /\ hist'.due = hist.due
        /\ hist'.shown = hist.shown /\ reb' = [c \in Call |-> NoRebuild]
        /\ hist'.lists = IF reb = [c \in Call |-> NoRebuild] THEN hist.lists
                         ELSE hist.lists + 1
    BY <1>8, RestartEffect DEF Dropped
  <2>2. CASE reb = [c \in Call |-> NoRebuild]
    <3>1. UNCHANGED reb /\ hist'.lists = hist.lists
      BY <2>1, <2>2
    <3>2. QED
      BY <1>1, <1>4, <2>1, <3>1
  <2>3. CASE reb # [c \in Call |-> NoRebuild]
    <3>1. hist'.lists = hist.lists + 1
      BY <2>1, <2>3
    <3>2. \A c \in Call : reb'[c].ph = "off" /\ reb'[c].n = 0
      BY <2>1 DEF NoRebuild
    <3>3. hist'.due \subseteq Stored'
      BY <1>4, <2>1
    <3>4. hist'.shown < hist'.lists /\ hist'.lists > 0
      BY <1>2, <2>1, <3>1
    <3>5. /\ \A c \in Call : reb'[c].n <= hist'.lists
          /\ hist'.shown <= hist'.lists /\ hist'.shown # hist'.lists
      BY <1>2, <2>1, <3>1, <3>2
    <3>6. QED
      BY <3>2, <3>3, <3>4, <3>5 DEF GraphInv
  <2>4. QED
    BY <2>2, <2>3
<1>9. CASE Removes
  <2>1. /\ UNCHANGED <<reb, graph>> /\ hist'.lists = hist.lists
        /\ hist'.shown = hist.shown
    BY <1>9 DEF Removes
  <2>2. hist'.due \subseteq hist.due /\ hist'.due \subseteq Stored'
    BY <1>2, <1>9 DEF Removes, Stored, TypeOK
  <2>3. QED
    BY <1>1, <2>1, <2>2
<1>10. ASSUME NEW c \in Call, ListForGraph(c) PROVE GraphInv'
  <2>1. /\ UNCHANGED <<store, graph>> /\ hist'.due = hist.due
        /\ hist'.shown = hist.shown /\ hist'.lists = hist.lists + 1
        /\ reb'[c].ph = "load" /\ reb'[c].todo = Stored /\ reb'[c].n = hist.lists + 1
        /\ \A b \in Call : b # c => reb'[b] = reb[b]
    BY <1>10, ListForGraphEffect DEF Quiet
  <2>2. hist'.due \subseteq Stored'
    BY <1>4, <2>1
  <2>3. hist'.shown <= hist'.lists /\ hist'.shown # hist'.lists /\ hist'.lists > 0
    BY <1>2, <2>1
  <2>4. \A b \in Call : /\ reb'[b].n <= hist'.lists
                        /\ b # c => reb'[b].n # hist'.lists
    BY <1>2, <2>1
  <2>5. hist'.due \subseteq reb'[c].todo
    BY <1>2, <2>1
  <2>6. QED
    BY <2>1, <2>2, <2>3, <2>4, <2>5 DEF GraphInv
<1>11. ASSUME NEW c \in Call, LoadForGraph(c) PROVE GraphInv'
  <2>1. /\ UNCHANGED <<store, graph, hist>> /\ reb[c].ph = "load" /\ reb'[c].ph = "set"
        /\ \/ reb'[c].n = 0
           \/ reb'[c].got = reb[c].todo \cap Stored /\ reb'[c].n = reb[c].n
        /\ \A b \in Call : b # c => reb'[b] = reb[b]
    BY <1>11, LoadForGraphEffect DEF Quiet
  <2>2. hist.lists > 0
    BY <2>1 DEF GraphInv
  <2>3. \A b \in Call : reb'[b].n <= hist.lists
    BY <1>2, <2>1, <2>2
  <2>4. (\A b \in Call : reb'[b].ph # "list") => \A b \in Call : reb[b].ph # "list"
    BY <2>1
  <2>5. ASSUME \A b \in Call : reb'[b].ph # "list", reb'[c].n = hist.lists
        PROVE  hist.due \subseteq reb'[c].got
    <3>1. reb'[c].got = reb[c].todo \cap Stored /\ reb[c].n = hist.lists
      BY <2>1, <2>2, <2>5
    <3>2. hist.due \subseteq reb[c].todo
      BY <2>1, <2>4, <2>5, <3>1 DEF GraphInv
    <3>3. QED
      BY <1>2, <3>1, <3>2
  <2>6. hist.due \subseteq Stored'
    BY <1>2, <2>1 DEF Stored
  <2>7. QED
    BY <2>1, <2>2, <2>3, <2>4, <2>5, <2>6 DEF GraphInv
<1>12. ASSUME NEW c \in Call, SetGraph(c) PROVE GraphInv'
  <2>1. /\ UNCHANGED store /\ hist'.due = hist.due /\ hist'.lists = hist.lists
        /\ reb[c].ph = "set" /\ reb'[c].ph = "off" /\ reb'[c].n = 0
        /\ \A b \in Call : b # c => reb'[b] = reb[b]
        /\ \/ graph' = graph /\ hist'.shown = hist.shown
           \/ graph' = reb[c].got /\ hist'.shown = reb[c].n
    BY <1>12, SetGraphEffect DEF Quiet
  <2>2. hist.lists > 0 /\ hist'.shown <= hist'.lists
    BY <1>2, <2>1 DEF GraphInv
  <2>3. \A b \in Call : reb'[b].n <= hist'.lists
    BY <1>2, <2>1, <2>2
  <2>4. (\A b \in Call : reb'[b].ph # "list") => \A b \in Call : reb[b].ph # "list"
    BY <2>1
  <2>5. ASSUME \A b \in Call : reb'[b].ph # "list", hist'.shown = hist'.lists
        PROVE  hist'.due \subseteq graph'
    <3>1. CASE graph' = graph /\ hist'.shown = hist.shown
      BY <2>1, <2>4, <2>5, <3>1 DEF GraphInv
    <3>2. CASE graph' = reb[c].got /\ hist'.shown = reb[c].n
      BY <2>1, <2>4, <2>5, <3>2 DEF GraphInv
    <3>3. QED
      BY <2>1, <3>1, <3>2
  <2>6. hist'.due \subseteq Stored'
    BY <1>4, <2>1
  <2>7. QED
    BY <2>1, <2>2, <2>3, <2>4, <2>5, <2>6 DEF GraphInv
<1>13. ASSUME NEW p \in Path, Edit(p) PROVE GraphInv'
  <2>1. /\ UNCHANGED <<reb, graph, store>> /\ hist'.due = hist.due
        /\ hist'.lists = hist.lists /\ hist'.shown = hist.shown
    BY <1>13, EditEffect DEF Quiet
  <2>2. QED
    BY <1>1, <1>4, <2>1
<1>14. CASE Clear \/ UNCHANGED vars
  <2>1. UNCHANGED <<reb, graph, store, hist>>
    BY <1>14 DEF Clear, vars
  <2>2. QED
    BY <1>1, <1>4, <2>1
<1>15. QED
  <2>1. ASSUME NEW c \in Call, Advance(c) PROVE GraphInv'
    <3>1. CASE \E s \in Source : SourceStep(c, s)
      BY <1>3, <3>1 DEF TaskStep
    <3>2. CASE LoadPrevious(c)
      BY <1>3, <3>2, SourceTypes DEF TaskStep
    <3>3. QED
      BY <1>6, <1>7, <2>1, <3>1, <3>2 DEF Advance
  <2>2. ASSUME NEW c \in Call, Rebuild(c) PROVE GraphInv'
    BY <1>10, <1>11, <1>12, <2>2 DEF Rebuild
  <2>3. ASSUME NEW d \in Id, Forget(d) \/ ClearOne(d) PROVE GraphInv'
    BY <1>9, <2>3, RemoveEffect
  <2>4. QED
    BY <1>5, <1>7, <1>8, <1>13, <1>14, <2>1, <2>2, <2>3 DEF Next


(***************************************************************************)
(* The inductive invariant.                                                *)
(***************************************************************************)
\* What an earlier session left, in the history.
LEMMA InitHist ==
    ASSUME Init
    PROVE  /\ \A d \in Stored : store[d] \in Doc
           /\ hist.saved = {store[d].path : d \in Stored} \ {None}
           /\ hist.gone = {} /\ hist.due = {} /\ hist.lists = 0 /\ hist.shown = 0
           /\ \A d, e \in Stored :
                d # e /\ store[d].path = store[e].path => store[d].path \in hist.several
           /\ \A d \in Stored :
                store[d].seen \notin {None, store[d].text} => store[d].path \in hist.torn
<1> DEFINE saved == {store[d].path : d \in Stored} \ {None}
           twice == {x \in Stored : \E y \in Stored \ {x} : store[y].path = store[x].path}
           several == {store[d].path : d \in twice}
           edited == {x \in Stored : store[x].seen \notin {None, store[x].text}}
           torn == {store[d].path : d \in edited}
<1>1. hist = [NoHist EXCEPT !.saved = saved, !.several = several, !.torn = torn]
  BY DEF Init
<1>2. /\ \A d, e \in Stored :
           d # e /\ store[d].path = store[e].path => store[d].path \in several
      /\ \A d \in Stored :
           store[d].seen \notin {None, store[d].text} => store[d].path \in torn
  OBVIOUS
<1>3. \A d \in Stored : store[d] \in Doc
  BY EngineAssumption DEF Init, Stored
<1> HIDE DEF several, torn, saved
<1>4. /\ hist.saved = saved /\ hist.several = several /\ hist.torn = torn
      /\ hist.gone = {} /\ hist.due = {} /\ hist.lists = 0 /\ hist.shown = 0
  BY <1>1 DEF NoHist
<1>5. QED
  BY <1>2, <1>3, <1>4 DEF saved

LEMMA IndInvInit == Init => IndInv
<1> SUFFICES ASSUME Init PROVE IndInv
  OBVIOUS
<1>1. /\ \A c \in Call : call[c].ph = "new" /\ work[c] = Untouched
      /\ \A c \in Call, s \in Source : work[c][s] = NoWork
      /\ \A c \in Call : reb[c] = NoRebuild
  BY DEF Init, Untouched
<1>2. /\ NoWork.ph = "none" /\ NoWork.old = None /\ NoWork.base = None
      /\ NoWork.doc = None /\ NoWork.id = None
  BY DEF NoWork
<1>3. TypeOK
  BY InitType
<1>4. CallInv /\ ShapeInv
  BY <1>1, <1>2 DEF CallInv, ShapeInv, Shape
<1>5. KeyInv
  <2>1. \A d \in Stored : OwnKey(store[d])
    BY EngineAssumption DEF Init, Stored
  <2>2. QED
    BY <1>1, <1>2, <2>1 DEF KeyInv
<1>6. \A c \in Call, s \in Source : Claims(c, s) = {}
  BY <1>1, <1>2 DEF Claims
<1>7. IdInv
  BY <1>6 DEF IdInv, Init
<1>8. PrivateInv
  BY <1>1, <1>2 DEF PrivateInv
<1>9. PathInv
  BY <1>6, SourceTypes DEF PathInv
<1>10. KeptInv
  <2>1. \A d \in Stored : store[d].path \in hist.saved \cup {None}
    BY InitHist
  <2>2. \A p \in hist.saved \ hist.gone : \E d \in Stored : store[d].path = p
    BY InitHist
  <2>3. \A d \in Stored : ~Leaving(d)
    BY <1>1, <1>2 DEF Leaving
  <2>4. QED
    BY <1>1, <1>2, <2>1, <2>2, <2>3 DEF KeptInv
<1>11. AloneInv /\ OwnedInv
  BY <1>1 DEF AloneInv, OwnedInv, Active
<1>12. OneDocumentPerPath
  BY InitHist DEF OneDocumentPerPath
<1>13. SeenInv
  <2>1. \A d \in Stored : store[d].path = None => store[d].seen = None
    BY EngineAssumption DEF Init, Stored
  <2>2. QED
    BY <1>1, <1>2, <2>1, InitHist DEF SeenInv
<1>14. GraphInv
  <2>1. NoRebuild.ph = "off" /\ NoRebuild.n = 0
    BY DEF NoRebuild
  <2>2. QED
    BY <1>1, <2>1, InitHist DEF GraphInv
<1>15. QED
  BY <1>3, <1>4, <1>5, <1>7, <1>8, <1>9, <1>10, <1>11, <1>12, <1>13, <1>14 DEF IndInv

LEMMA IndInvStep == IndInv /\ [Next]_vars => IndInv'
  BY TypeStep, CallStep, ShapeStep, KeyStep, IdStep, PrivateStep, PathStep, KeptStep,
     AloneStep, OwnedStep, OneDocStep, SeenStep, GraphStep DEF IndInv

LEMMA IndInvAlways == Spec => []IndInv
  BY IndInvInit, IndInvStep, PTL DEF Spec

(***************************************************************************)
(* What it gives.                                                          *)
(***************************************************************************)
\* Every variable has its type, whatever the plans ask for.
THEOREM Types == Spec => []TypeOK
<1>1. IndInv => TypeOK
  BY DEF IndInv
<1>2. QED
  BY <1>1, IndInvAlways, PTL

\* A path that was compiled keeps a document until the user removes one of
\* it, however many compiles, failures, timeouts and crashes overlap: a
\* document is removed only after the one that replaces it, under an id that
\* is nobody else's, is stored (engine.rs, index_and_persist).
THEOREM IndexedStays == Spec => []IndexedStaysIndexed
<1>1. IndInv => IndexedStaysIndexed
  BY DEF IndInv, KeptInv, IndexedStaysIndexed
<1>2. QED
  BY <1>1, IndInvAlways, PTL

\* Two documents of one path are the old and the new one of a re-index under
\* way, unless compiles of the path overlapped, one was forced, named it
\* otherwise, could not read it, or left the old document behind
\* (engine.rs, resolve_index_action and process_source).
THEOREM OneDocument == Spec => []OneDocumentPerPath
<1>1. IndInv => OneDocumentPerPath
  BY DEF IndInv
<1>2. QED
  BY <1>1, IndInvAlways, PTL

\* Whatever was reused from whichever stored document, enrichment made under
\* other pipeline options or, for pre-parsed nodes, by another model reaches
\* no document (engine.rs, compile_pre_parsed; resolver.rs, layer 2).
THEOREM EnrichmentOfKey == Spec => []EnrichmentOfOwnKey
<1>1. IndInv => EnrichmentOfOwnKey
  BY DEF IndInv, KeyInv, EnrichmentOfOwnKey
<1>2. QED
  BY <1>1, IndInvAlways, PTL

\* However many rebuilds race, the graph of the last listing has every
\* document a compile answered with and nobody removed (engine.rs,
\* rebuild_graph).
THEOREM GraphCoversDue == Spec => []GraphCovers
<1>1. IndInv => GraphCovers
  BY DEF IndInv, GraphInv, GraphCovers
<1>2. QED
  BY <1>1, IndInvAlways, PTL

LEMMA SkipStep ==
    ASSUME IndInv, [Next]_vars, NEW c \in Call, NEW s \in Spelling,
           work[c][s].ph = "old", work'[c][s].ph = "skipped"
    PROVE  store[work[c][s].id].text = work[c][s].doc.text \/ Canon[s] \in hist.torn
<1>1. TypeOK /\ CallInv /\ ShapeInv /\ PathInv /\ SeenInv
  BY DEF IndInv
<1>2. s \in Source /\ NoWork.ph = "none"
  BY SourceTypes DEF NoWork
<1>3. LoadOld(c, s)
  <2>1. ASSUME NEW b \in Call, NEW t \in Source, TaskStep(b, t) PROVE LoadOld(c, s)
    <3>1. b = c /\ t = s
      BY <1>1, <1>2, <2>1, TaskFrame DEF Moves
    <3>2. work[c][s].ph \notin {"wait", "read", "index", "stamp", "save", "remove", "prev"}
      OBVIOUS
    <3>3. QED
      BY <2>1, <3>1, <3>2
         DEF TaskStep, SourceStep, Resolve, ReadFile, Index, IndexFails, Stamp, Save,
             RemoveOld, LoadPrevious
  <2>2. ASSUME NEW b \in Call, Request(b) PROVE FALSE
    <3>1. \A x \in Call : x # b => work'[x] = work[x]
      BY <1>1, <2>2, RequestEffect
    <3>2. work'[b][s].ph \in {"none", "prev", "wait"}
      BY <1>1, <1>2, <2>2, RequestEffect
    <3>3. QED
      BY <3>1, <3>2
  <2>3. CASE Dropped
    BY <1>2, <2>3 DEF Dropped, Untouched
  <2>4. CASE Removes \/ Quiet
    BY <2>4 DEF Removes, Quiet
  <2>5. QED
    BY <1>1, <2>1, <2>2, <2>3, <2>4, StepCases
<1> DEFINE w == work[c][s]
           d == store[w.id]
<1>4. /\ w.id \in Id /\ d # None /\ d.seen = w.doc.text
  BY <1>1, <1>2, <1>3, LoadOldEffect
<1>5. w.doc.text # None
  <2>1. w \in Work /\ w.doc # None
    BY <1>1, <1>2 DEF TypeOK, ShapeInv, Shape
  <2>2. w.doc \in Doc
    BY <2>1 DEF Work
  <2>3. QED
    BY <2>2, NoneApart DEF Doc
<1>6. w.id \in Stored
  BY <1>4 DEF Stored
<1>7. d.path = Canon[s]
  <2>1. w.id \in Claims(c, s)
    BY <1>4, NoneApart DEF Claims
  <2>2. d.path \in {None, Canon[s]}
    BY <1>1, <1>6, <2>1 DEF PathInv
  <2>3. QED
    BY <1>1, <1>4, <1>5, <1>6, <2>2 DEF SeenInv
<1>8. QED
  BY <1>1, <1>4, <1>5, <1>6, <1>7 DEF SeenInv

\* An incremental compile skips a file only if the document it has was made
\* of the content the file was read with, unless the file was edited while
\* that document was compiled (resolver.rs, layer 1).
THEOREM SkipCurrent == Spec => SkipMeansCurrent
<1>1. IndInv /\ [Next]_vars =>
        [\A c \in Call, s \in Spelling :
           LET w == work[c][s] IN
           w.ph = "old" /\ work'[c][s].ph = "skipped" =>
               \/ store[w.id].text = w.doc.text \/ Canon[s] \in hist.torn]_vars
  BY SkipStep
<1>2. QED
  BY <1>1, IndInvAlways, PTL DEF Spec, SkipMeansCurrent
=============================================================================
