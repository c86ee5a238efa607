-------------------------- MODULE FileStoreProofs ---------------------------
(***************************************************************************)
(* Proofs about FileStore, for any keys, file names, documents, threads    *)
(* and limits, and for whatever earlier programs left behind.              *)
(***************************************************************************)
EXTENDS FileStore, FiniteSetTheorems, SequenceTheorems, TLAPS

Todo == Seq(Key \X (Doc \cup {Absent}))
Op == [kind : {"none", "put", "delete", "clear", "load", "keys"},
       at : {"", "write", "rename", "invalidate", "remove", "loaded", "refresh",
             "listed"},
       todo : Todo,
       res : (SUBSET Name) \cup Doc \cup {Absent, "error"}]

TypeOK ==
    /\ files \in [Name -> File \cup {Absent}]
    /\ tmps \in [Name -> File \cup {Absent}]
    /\ durable \in [Name -> File \cup {Absent}]
    /\ listing \in (SUBSET Name) \cup {Absent}
    /\ op \in [Thread -> Op]
    /\ last \in [Name -> SUBSET (Doc \cup {Absent, "error"})]
    /\ writes \in Nat /\ faults \in Nat

\* A writer is alone.
LockInv == \A t, u \in Thread : Writing(op[t]) /\ u # t => op[u].kind = "none"

\* The name and the document at place i of a list.
NameAt(todo, i) == FileOf[todo[i][1]]
DocAt(todo, i) == todo[i][2]

\* What a call in each of its stages has done and has to do.
Stage(o) ==
    /\ o.kind = "none" => o.at = ""
    /\ o.at \in {"write", "rename"} => o.kind = "put"
    /\ o.at = "remove" => o.kind \in {"delete", "clear"}
    /\ o.at = "invalidate" => Writing(o)
    /\ o.at = "loaded" => o.kind = "load"
    /\ o.at \in {"refresh", "listed"} => o.kind = "keys"
    /\ o.at \in {"write", "rename", "remove", "loaded"} => Len(o.todo) > 0
    /\ o.kind = "put" => \A i \in 1..Len(o.todo) : DocAt(o.todo, i) \in Doc
    /\ o.at = "rename" => /\ tmps[NameAt(o.todo, 1)] = Saved(DocAt(o.todo, 1))
                          /\ DocAt(o.todo, 1) \in last[NameAt(o.todo, 1)]
    /\ o.at = "remove" => \A i \in 1..Len(o.todo) :
                            /\ DocAt(o.todo, i) = Absent
                            /\ Absent \in last[NameAt(o.todo, i)]
    /\ o.at = "invalidate" =>
         /\ o.kind # "put" => Len(o.todo) <= 1
         /\ Len(o.todo) > 0 => Seen(files[NameAt(o.todo, 1)]) = DocAt(o.todo, 1)
    /\ o.at = "loaded" => o.res \in last[NameAt(o.todo, 1)]
    /\ o.at \in {"refresh", "listed"} => o.res \in SUBSET Name /\ InDirectory \subseteq o.res

StageInv == \A t \in Thread : Stage(op[t])

\* What a file gives is what was promised.
FitInv == \A n \in Name : Seen(files[n]) \in last[n]

\* The cached listing names every file, but while a put has renamed its file
\* and not forgotten the listing yet.
ListInv ==
    listing # Absent =>
        \/ InDirectory \subseteq listing
        \/ \E t \in Thread : op[t].at = "invalidate"

IndInv == TypeOK /\ LockInv /\ StageInv /\ FitInv /\ ListInv

(***************************************************************************)
(* The data.                                                               *)
(***************************************************************************)
\* What was saved is what is loaded; torn bytes load as an error.
LEMMA Envelope ==
    /\ Torn \in File /\ Seen(Torn) = "error"
    /\ \A d \in Doc : Saved(d) \in File /\ Seen(Saved(d)) = d
    /\ \A f \in File \cup {Absent} : Seen(f) \in Doc \cup {Absent, "error"}
<1>1. Torn \in File
  BY DEF Torn, Bytes, File
<1>2. \A d \in Doc : Saved(d) \in File
  BY DEF Saved, Bytes, File, FormatVersion, CurrentSchema
<1>3. Loaded(Torn) = "error"
  BY DEF Torn, Bytes, Loaded, FormatVersion
<1>4. \A d \in Doc : Loaded(Saved(d)) = d
  BY DEF Saved, Bytes, Loaded, FormatVersion, CurrentSchema
<1>5. \A f \in File : Loaded(f) \in Doc \cup {Absent, "error"}
  BY DEF File, Loaded
<1>6. QED
  BY <1>1, <1>2, <1>3, <1>4, <1>5, FileStoreAssumption DEF Seen

LEMMA TodoAt ==
    ASSUME NEW todo \in Todo, NEW i \in 1..Len(todo)
    PROVE  NameAt(todo, i) \in Name /\ DocAt(todo, i) \in Doc \cup {Absent}
<1>1. todo[i] \in Key \X (Doc \cup {Absent})
  BY DEF Todo
<1>2. QED
  BY <1>1, FileStoreAssumption DEF NameAt, DocAt

LEMMA TodoHead ==
    ASSUME NEW t \in Thread, op[t].todo \in Todo, Len(op[t].todo) > 0
    PROVE  /\ PutName(t) = NameAt(op[t].todo, 1) /\ PutDoc(t) = DocAt(op[t].todo, 1)
           /\ PutName(t) \in Name /\ PutDoc(t) \in Doc \cup {Absent}
<1>1. Head(op[t].todo) = op[t].todo[1] /\ 1 \in 1..Len(op[t].todo)
  BY DEF Todo
<1>2. QED
  BY <1>1, TodoAt DEF PutName, PutDoc, NameAt, DocAt

LEMMA TodoTail ==
    ASSUME NEW todo \in Todo, Len(todo) > 0
    PROVE  /\ Tail(todo) \in Todo /\ Len(Tail(todo)) = Len(todo) - 1
           /\ \A i \in 1..Len(Tail(todo)) :
                /\ i + 1 \in 1..Len(todo)
                /\ NameAt(Tail(todo), i) = NameAt(todo, i + 1)
                /\ DocAt(Tail(todo), i) = DocAt(todo, i + 1)
<1>1. todo # <<>>
  OBVIOUS
<1>2. /\ Tail(todo) \in Todo /\ Len(Tail(todo)) = Len(todo) - 1
      /\ \A i \in 1..Len(Tail(todo)) : Tail(todo)[i] = todo[i + 1]
  BY <1>1, HeadTailProperties DEF Todo
<1>3. Len(todo) \in Nat
  BY DEF Todo
<1>4. QED
  BY <1>2, <1>3 DEF NameAt, DocAt

LEMMA TodoOne ==
    ASSUME NEW k \in Key, NEW d \in Doc \cup {Absent}
    PROVE  /\ <<<<k, d>>>> \in Todo /\ Len(<<<<k, d>>>>) = 1
           /\ NameAt(<<<<k, d>>>>, 1) = FileOf[k] /\ DocAt(<<<<k, d>>>>, 1) = d
<1> DEFINE x == <<k, d>>
<1>1. x \in Key \X (Doc \cup {Absent}) /\ x[1] = k /\ x[2] = d
  OBVIOUS
<1> HIDE DEF x
<1>2. <<x>> \in Todo /\ Len(<<x>>) = 1 /\ <<x>>[1] = x
  BY <1>1 DEF Todo
<1>3. QED
  BY <1>1, <1>2 DEF NameAt, DocAt, x

LEMMA TodoTwo ==
    ASSUME NEW k \in Key, NEW l \in Key, NEW d \in Doc
    PROVE  /\ <<<<k, d>>, <<l, d>>>> \in Todo /\ Len(<<<<k, d>>, <<l, d>>>>) = 2
           /\ \A i \in 1..2 : DocAt(<<<<k, d>>, <<l, d>>>>, i) = d
<1> DEFINE x == <<k, d>>
           y == <<l, d>>
<1>1. x \in Key \X (Doc \cup {Absent}) /\ x[2] = d /\ y \in Key \X (Doc \cup {Absent}) /\ y[2] = d
  OBVIOUS
<1> HIDE DEF x, y
<1>2. <<x, y>> \in Todo /\ Len(<<x, y>>) = 2 /\ <<x, y>>[1] = x /\ <<x, y>>[2] = y
  BY <1>1 DEF Todo
<1>3. QED
  BY <1>1, <1>2 DEF DocAt, x, y

LEMMA NoOpType == NoOp \in Op /\ NoOp.kind = "none" /\ NoOp.at = "" /\ Stage(NoOp)
<1>1. <<>> \in Todo
  BY DEF Todo
<1>2. NoOp.kind = "none" /\ NoOp.at = ""
  BY DEF NoOp
<1>3. NoOp \in Op
  <2>1. \A todo \in Todo : [kind |-> "none", at |-> "", todo |-> todo, res |-> Absent] \in Op
    BY DEF Op
  <2>2. QED
    BY <1>1, <2>1 DEF NoOp
<1>4. Stage(NoOp)
  BY <1>2 DEF Stage
<1>5. QED
  BY <1>2, <1>3, <1>4

(***************************************************************************)
(* What a step does to the calls.                                          *)
(***************************************************************************)
\* The call of t becomes o, the others stay.
Becomes(t, o) ==
    op' \in [Thread -> Op] /\ op'[t] = o /\ \A u \in Thread : u # t => op'[u] = op[u]

LEMMA SetOp ==
    ASSUME op \in [Thread -> Op], NEW t \in Thread, NEW o \in Op, op' = [op EXCEPT ![t] = o]
    PROVE  Becomes(t, o)
  BY DEF Becomes

LEMMA GotoEffect ==
    ASSUME TypeOK, NEW t \in Thread,
           NEW at \in {"rename", "invalidate", "listed"}, Goto(t, at)
    PROVE  \E o \in Op : /\ Becomes(t, o) /\ o.kind = op[t].kind /\ o.at = at
                         /\ o.todo = op[t].todo /\ o.res = op[t].res
<1> DEFINE o == [op[t] EXCEPT !.at = at]
<1>1. op[t] \in Op
  BY DEF TypeOK
<1>2. /\ o \in Op /\ o.kind = op[t].kind /\ o.at = at
      /\ o.todo = op[t].todo /\ o.res = op[t].res
  BY <1>1 DEF Op
<1>3. op' = [op EXCEPT ![t] = o]
  BY DEF Goto
<1> HIDE DEF o
<1>4. Becomes(t, o)
  BY <1>2, <1>3, SetOp DEF TypeOK
<1>5. QED
  BY <1>2, <1>4

LEMMA ReturnEffect ==
    ASSUME TypeOK, NEW t \in Thread, Return(t)
    PROVE  Becomes(t, NoOp)
  BY NoOpType, SetOp DEF TypeOK, Return

\* Who may begin to write is alone, and who may begin to read is so with
\* readers.
LEMMA FreeMeans ==
    ASSUME TypeOK, NEW t \in Thread
    PROVE  /\ Free(t, TRUE) => \A u \in Thread : op[u].kind = "none"
           /\ Free(t, FALSE) => \A u \in Thread : ~Writing(op[u])
<1>1. \A u \in Thread :
         op[u].kind \in {"none", "put", "delete", "clear", "load", "keys"}
  BY DEF TypeOK, Op
<1>2. QED
  BY <1>1 DEF Free, Writing, Reading

\* The calls that go on are at the stage they were at.
LEMMA StageFrame ==
    ASSUME TypeOK, StageInv, NEW t \in Thread, NEW o \in Op, Becomes(t, o),
           UNCHANGED <<files, tmps, last>> \/ \A u \in Thread : u # t => op[u].kind = "none",
           Stage(o)'
    PROVE  StageInv'
<1> SUFFICES ASSUME NEW u \in Thread PROVE Stage(op[u])'
  BY DEF StageInv
<1>1. CASE u = t
  BY <1>1 DEF Becomes, Stage, InDirectory
<1>2. CASE u # t /\ op[u].kind = "none"
  BY <1>2 DEF Becomes, StageInv, Stage
<1>3. CASE u # t /\ UNCHANGED <<files, tmps, last>>
  BY ZenonT(30), <1>3 DEF Becomes, StageInv, Stage, InDirectory
<1>4. QED
  BY <1>1, <1>2, <1>3

(***************************************************************************)
(* Each step keeps the invariant.                                          *)
(***************************************************************************)
\* What the last calls and the files say of a name stays in agreement, and
\* the listing does not need to change.
LEMMA QuietStep ==
    ASSUME IndInv, NEW t \in Thread, NEW o \in Op, Becomes(t, o), Stage(o)',
           Writing(o) => \A u \in Thread : op[u].kind = "none",
           o.kind # "none" => \A u \in Thread : u # t => ~Writing(op[u]),
           UNCHANGED <<files, tmps, durable, listing, last>>,
           writes' \in Nat, faults' \in Nat,
           op[t].at # "invalidate"
    PROVE  IndInv'
<1>1. TypeOK'
  BY DEF IndInv, TypeOK, Becomes
<1>2. LockInv'
  <2> SUFFICES ASSUME NEW u \in Thread, NEW v \in Thread, Writing(op'[u]), v # u
               PROVE  op'[v].kind = "none"
    BY DEF LockInv, Writing
  <2>1. CASE u # t /\ v # t
    BY <2>1 DEF IndInv, LockInv, Becomes
  <2>2. CASE u = t
    BY <2>2 DEF Becomes
  <2>3. CASE v = t
    BY <2>3 DEF Becomes
  <2>4. QED
    BY <2>1, <2>2, <2>3
<1>3. StageInv'
  BY StageFrame DEF IndInv
<1>4. FitInv' /\ ListInv'
  <2>1. \A u \in Thread : op[u].at = "invalidate" => op'[u].at = "invalidate"
    BY DEF Becomes
  <2>2. QED
    BY <2>1 DEF IndInv, FitInv, ListInv, InDirectory
<1>5. QED
  BY <1>1, <1>2, <1>3, <1>4 DEF IndInv

LEMMA StartPutStep ==
    ASSUME IndInv, NEW t \in Thread, StartPut(t)
    PROVE  IndInv'
<1>1. PICK k \in Key, l \in Key, d \in Doc :
         \E todo \in {<<<<k, d>>>>, <<<<k, d>>, <<l, d>>>>} :
           op' = [op EXCEPT ![t] = [NoOp EXCEPT !.kind = "put", !.at = "write", !.todo = todo]]
  BY DEF StartPut
<1>2. PICK todo \in {<<<<k, d>>>>, <<<<k, d>>, <<l, d>>>>} :
         op' = [op EXCEPT ![t] = [NoOp EXCEPT !.kind = "put", !.at = "write", !.todo = todo]]
  BY <1>1
<1>3. todo \in Todo /\ Len(todo) > 0 /\ \A i \in 1..Len(todo) : DocAt(todo, i) \in Doc
  <2>1. CASE todo = <<<<k, d>>>>
    BY <2>1, TodoOne
  <2>2. CASE todo = <<<<k, d>>, <<l, d>>>>
    BY <2>2, TodoTwo
  <2>3. QED
    BY <2>1, <2>2
<1> DEFINE o == [NoOp EXCEPT !.kind = "put", !.at = "write", !.todo = todo]
<1>4. o \in Op /\ o.kind = "put" /\ o.at = "write" /\ o.todo = todo
  BY <1>3, NoOpType DEF Op
<1> HIDE DEF o
<1>5. Becomes(t, o)
  BY <1>2, <1>4, SetOp DEF IndInv, TypeOK, o
<1>6. Stage(o)'
  BY <1>3, <1>4 DEF Stage
<1>7. \A u \in Thread : op[u].kind = "none"
  BY FreeMeans DEF StartPut, IndInv
<1>8. /\ UNCHANGED <<files, tmps, durable, listing, last, faults>> /\ writes' \in Nat
      /\ faults' \in Nat
  BY DEF StartPut, Write, IndInv, TypeOK
<1>9. op[t].at # "invalidate" /\ \A u \in Thread : ~Writing(op[u])
  BY <1>7 DEF IndInv, StageInv, Stage, Writing
<1>10. QED
  BY <1>4, <1>5, <1>6, <1>7, <1>8, <1>9, QuietStep

LEMMA LoadStep ==
    ASSUME IndInv, NEW t \in Thread, Load(t)
    PROVE  IndInv'
<1>1. PICK k \in Key :
         op' = [op EXCEPT ![t] = [kind |-> "load", at |-> "loaded", todo |-> <<<<k, Absent>>>>,
                   res |-> IF files[FileOf[k]] = Absent THEN Absent
                           ELSE Loaded(files[FileOf[k]])]]
  BY DEF Load
<1> DEFINE res == Seen(files[FileOf[k]])
           todo == <<<<k, Absent>>>>
           o == [kind |-> "load", at |-> "loaded", todo |-> todo, res |-> res]
<1>2. res \in Doc \cup {Absent, "error"} /\ res \in last[FileOf[k]]
  BY Envelope, FileStoreAssumption DEF IndInv, TypeOK, FitInv
<1>3. todo \in Todo /\ Len(todo) > 0 /\ NameAt(todo, 1) = FileOf[k]
  BY TodoOne
<1>4. op' = [op EXCEPT ![t] = o]
  BY <1>1 DEF Seen
<1> HIDE DEF res, todo
<1>5. o \in Op /\ o.kind = "load" /\ o.at = "loaded" /\ o.todo = todo /\ o.res = res
  BY <1>2, <1>3 DEF Op
<1> HIDE DEF o
<1>6. PICK q \in Op : q = o
  BY <1>5
<1>7. Becomes(t, q)
  BY <1>4, <1>6, SetOp DEF IndInv, TypeOK
<1>8. /\ UNCHANGED <<files, tmps, durable, listing, last>> /\ writes' \in Nat
      /\ faults' \in Nat
  BY DEF Load, IndInv, TypeOK
<1>9. Stage(q)'
  <2>1. q.kind = "load" /\ q.at = "loaded" /\ Len(q.todo) > 0
    BY <1>3, <1>5, <1>6
  <2>2. q.res \in last'[NameAt(q.todo, 1)]
    BY <1>2, <1>3, <1>5, <1>6, <1>8
  <2>3. QED
    BY <2>1, <2>2 DEF Stage
<1>10. \A u \in Thread : ~Writing(op[u])
  BY FreeMeans DEF Load, IndInv
<1>11. op[t].at # "invalidate" /\ ~Writing(q)
  BY <1>5, <1>6, <1>10 DEF IndInv, StageInv, Stage, Writing
<1>12. QED
  BY <1>7, <1>8, <1>9, <1>10, <1>11, QuietStep

LEMMA StartKeysStep ==
    ASSUME IndInv, NEW t \in Thread, StartKeys(t)
    PROVE  IndInv'
<1> DEFINE at == IF listing # Absent THEN "listed" ELSE "refresh"
           res == IF listing # Absent THEN listing ELSE InDirectory
           o == [NoOp EXCEPT !.kind = "keys", !.at = at, !.res = res]
<1>1. op' = [op EXCEPT ![t] = o]
  BY DEF StartKeys, InDirectory
<1>2. \A u \in Thread : ~Writing(op[u])
  BY FreeMeans DEF StartKeys, IndInv
<1>3. res \in SUBSET Name
  BY DEF IndInv, TypeOK, InDirectory
<1>4. InDirectory \subseteq res
  <2>1. \A u \in Thread : op[u].at # "invalidate"
    BY <1>2 DEF IndInv, StageInv, Stage
  <2>2. QED
    BY <2>1 DEF IndInv, ListInv
<1>5. at \in {"listed", "refresh"}
  OBVIOUS
<1> HIDE DEF at, res
<1>6. o \in Op /\ o.kind = "keys" /\ o.at = at /\ o.res = res
  BY <1>3, <1>5, NoOpType DEF Op
<1> HIDE DEF o
<1>7. PICK q \in Op : q = o
  BY <1>6
<1>8. Becomes(t, q)
  BY <1>1, <1>7, SetOp DEF IndInv, TypeOK
<1>9. /\ UNCHANGED <<files, tmps, durable, listing, last>> /\ writes' \in Nat
      /\ faults' \in Nat
  BY DEF StartKeys, IndInv, TypeOK
<1>10. Stage(q)'
  BY <1>3, <1>4, <1>5, <1>6, <1>7, <1>9 DEF Stage, InDirectory
<1>11. op[t].at # "invalidate" /\ ~Writing(q)
  BY <1>2, <1>6, <1>7 DEF IndInv, StageInv, Stage, Writing
<1>12. QED
  BY <1>2, <1>8, <1>9, <1>10, <1>11, QuietStep

LEMMA EndStep ==
    ASSUME IndInv, NEW t \in Thread, End(t)
    PROVE  IndInv'
<1>1. op[t].at # "invalidate" /\ Becomes(t, NoOp)
  BY NoOpType, SetOp DEF End, IndInv, TypeOK
<1>2. /\ UNCHANGED <<files, tmps, durable, listing, last>> /\ writes' \in Nat
      /\ faults' \in Nat
  BY DEF End, IndInv, TypeOK
<1>3. Stage(NoOp)' /\ ~Writing(NoOp)
  BY NoOpType DEF Stage, Writing
<1>4. QED
  BY <1>1, <1>2, <1>3, NoOpType, QuietStep

\* A writer is alone, and only one that is about to forget the listing makes
\* it out of date.
LEMMA WriterAlone ==
    ASSUME IndInv, NEW t \in Thread,
           Writing(op[t]) \/ \A u \in Thread : op[u].kind = "none"
    PROVE  /\ \A u \in Thread : u # t => op[u].kind = "none" /\ op[u].at = ""
           /\ op[t].at # "invalidate" /\ listing # Absent => InDirectory \subseteq listing
<1>1. \A u \in Thread : u # t => op[u].kind = "none"
  BY DEF IndInv, LockInv
<1>2. \A u \in Thread : u # t => op[u].at = ""
  BY <1>1 DEF IndInv, StageInv, Stage
<1>3. QED
  BY <1>1, <1>2 DEF IndInv, ListInv

LEMMA WriterStep ==
    ASSUME IndInv, NEW t \in Thread, NEW o \in Op, Becomes(t, o), Stage(o)',
           Writing(op[t]) \/ \A u \in Thread : op[u].kind = "none",
           files' \in [Name -> File \cup {Absent}],
           tmps' \in [Name -> File \cup {Absent}], UNCHANGED durable,
           listing' \in (SUBSET Name) \cup {Absent},
           last' \in [Name -> SUBSET (Doc \cup {Absent, "error"})],
           writes' \in Nat, faults' \in Nat,
           FitInv', listing' # Absent /\ o.at # "invalidate" => InDirectory' \subseteq listing'
    PROVE  IndInv'
<1>1. \A u \in Thread : u # t => op[u].kind = "none" /\ op'[u] = op[u]
  BY WriterAlone DEF Becomes
<1>2. TypeOK'
  BY DEF IndInv, TypeOK, Becomes
<1>3. LockInv'
  BY <1>1 DEF LockInv, Writing
<1>4. StageInv'
  BY <1>1, StageFrame DEF IndInv
<1>5. ListInv'
  BY DEF ListInv, Becomes
<1>6. QED
  BY <1>2, <1>3, <1>4, <1>5 DEF IndInv

\* The document at the head of the list of a call, and its name.
LEMMA AtHead ==
    ASSUME IndInv, NEW t \in Thread, op[t].at \in {"write", "rename", "remove"}
    PROVE  /\ Writing(op[t]) /\ op[t] \in Op /\ Len(op[t].todo) > 0
           /\ PutName(t) = NameAt(op[t].todo, 1) /\ PutDoc(t) = DocAt(op[t].todo, 1)
           /\ PutName(t) \in Name /\ PutDoc(t) \in Doc \cup {Absent}
           /\ op[t].at \in {"write", "rename"} => PutDoc(t) \in Doc
           /\ op[t].at = "remove" => PutDoc(t) = Absent
<1>1. Stage(op[t]) /\ op[t] \in Op
  BY DEF IndInv, StageInv, TypeOK
<1>2. Writing(op[t]) /\ Len(op[t].todo) > 0
  BY <1>1 DEF Stage, Writing
<1>3. op[t].todo \in Todo /\ 1 \in 1..Len(op[t].todo)
  <2>1. op[t].todo \in Todo
    BY <1>1 DEF Op
  <2>2. Len(op[t].todo) \in Nat
    BY <2>1 DEF Todo
  <2>3. QED
    BY <1>2, <2>1, <2>2
<1>4. /\ PutName(t) = NameAt(op[t].todo, 1) /\ PutDoc(t) = DocAt(op[t].todo, 1)
      /\ PutName(t) \in Name /\ PutDoc(t) \in Doc \cup {Absent}
  BY <1>2, <1>3, TodoHead
<1>5. QED
  BY <1>1, <1>2, <1>3, <1>4 DEF Stage

LEMMA WriteTmpStep ==
    ASSUME IndInv, NEW t \in Thread, WriteTmp(t)
    PROVE  IndInv'
<1> DEFINE o == op[t]
<1>1. /\ o.at = "write" /\ o.kind = "put" /\ Writing(o) /\ o \in Op /\ Len(o.todo) > 0
  BY AtHead DEF WriteTmp, IndInv, StageInv, Stage
<1>2. PICK n \in Name, d \in Doc :
         /\ n = PutName(t) /\ d = PutDoc(t)
         /\ n = NameAt(o.todo, 1) /\ d = DocAt(o.todo, 1)
  BY <1>1, AtHead
<1>3. /\ last' = [last EXCEPT ![n] = @ \cup {d}]
      /\ \/ /\ tmps' = [tmps EXCEPT ![n] = Saved(d)] /\ Goto(t, "rename")
            /\ UNCHANGED faults
         \/ /\ tmps' = [tmps EXCEPT ![n] = Torn] /\ Return(t) /\ faults' = faults + 1
      /\ UNCHANGED <<files, durable, listing, writes>>
  BY <1>2 DEF WriteTmp, Unsettled, Fault
<1>4. /\ last' \in [Name -> SUBSET (Doc \cup {Absent, "error"})]
      /\ tmps' \in [Name -> File \cup {Absent}]
      /\ writes' \in Nat /\ faults' \in Nat
  BY <1>3, Envelope DEF IndInv, TypeOK
<1>5. FitInv'
  <2>1. \A x \in Name : last[x] \subseteq last'[x] /\ files'[x] = files[x]
    BY <1>3 DEF IndInv, TypeOK
  <2>2. QED
    BY <2>1 DEF IndInv, FitInv
<1>6. listing' # Absent => InDirectory' \subseteq listing'
  BY <1>1, <1>3, WriterAlone DEF InDirectory
<1>7. /\ files' \in [Name -> File \cup {Absent}] /\ UNCHANGED durable
      /\ listing' \in (SUBSET Name) \cup {Absent}
  BY <1>3 DEF IndInv, TypeOK
<1>8. CASE Return(t)
  <2>1. Becomes(t, NoOp) /\ Stage(NoOp)'
    BY <1>8, ReturnEffect, NoOpType DEF IndInv, Stage
  <2>2. QED
    BY <1>1, <1>4, <1>5, <1>6, <1>7, <2>1, NoOpType, WriterStep
<1>9. CASE tmps' = [tmps EXCEPT ![n] = Saved(d)] /\ Goto(t, "rename")
  <2>1. PICK q \in Op : /\ Becomes(t, q) /\ q.kind = o.kind /\ q.at = "rename"
                        /\ q.todo = o.todo
    BY <1>9, GotoEffect DEF IndInv
  <2>2. tmps'[n] = Saved(d) /\ d \in last'[n]
    BY <1>3, <1>9 DEF IndInv, TypeOK
  <2>3. \A i \in 1..Len(q.todo) : DocAt(q.todo, i) \in Doc
    BY <1>1, <2>1 DEF IndInv, StageInv, Stage
  <2>4. Stage(q)'
    BY <1>1, <1>2, <2>1, <2>2, <2>3 DEF Stage
  <2>5. QED
    BY <1>1, <1>4, <1>5, <1>6, <1>7, <2>1, <2>4, WriterStep
<1>10. QED
  BY <1>3, <1>8, <1>9

LEMMA RenameStep ==
    ASSUME IndInv, NEW t \in Thread, Rename(t)
    PROVE  IndInv'
<1> DEFINE o == op[t]
<1>1. /\ o.at = "rename" /\ o.kind = "put" /\ Writing(o) /\ o \in Op /\ Len(o.todo) > 0
  BY AtHead DEF Rename, IndInv, StageInv, Stage
<1>2. PICK n \in Name, d \in Doc :
         /\ n = PutName(t) /\ d = PutDoc(t)
         /\ n = NameAt(o.todo, 1) /\ d = DocAt(o.todo, 1)
  BY <1>1, AtHead
<1>3. tmps[n] = Saved(d) /\ d \in last[n]
  BY <1>1, <1>2 DEF IndInv, StageInv, Stage
<1>4. /\ UNCHANGED <<durable, listing, last, writes>>
      /\ \/ /\ files' = [files EXCEPT ![n] = Saved(d)]
            /\ tmps' = [tmps EXCEPT ![n] = Absent]
            /\ Goto(t, "invalidate") /\ UNCHANGED faults
         \/ faults' = faults + 1 /\ Return(t) /\ UNCHANGED <<files, tmps>>
  BY <1>2, <1>3 DEF Rename, Fault
<1>5. /\ files' \in [Name -> File \cup {Absent}] /\ tmps' \in [Name -> File \cup {Absent}]
      /\ last' \in [Name -> SUBSET (Doc \cup {Absent, "error"})]
      /\ listing' \in (SUBSET Name) \cup {Absent} /\ UNCHANGED durable
      /\ writes' \in Nat /\ faults' \in Nat
  BY <1>4, Envelope DEF IndInv, TypeOK
<1>6. FitInv'
  BY <1>3, <1>4, Envelope DEF IndInv, TypeOK, FitInv
<1>7. CASE Return(t) /\ UNCHANGED files
  <2>1. Becomes(t, NoOp) /\ Stage(NoOp)'
    BY <1>7, ReturnEffect, NoOpType DEF IndInv, Stage
  <2>2. listing' # Absent => InDirectory' \subseteq listing'
    BY <1>1, <1>4, <1>7, WriterAlone DEF InDirectory
  <2>3. QED
    BY <1>1, <1>5, <1>6, <2>1, <2>2, NoOpType, WriterStep
<1>8. CASE files' = [files EXCEPT ![n] = Saved(d)] /\ Goto(t, "invalidate")
  <2>1. PICK q \in Op : /\ Becomes(t, q) /\ q.kind = o.kind /\ q.at = "invalidate"
                        /\ q.todo = o.todo
    BY <1>8, GotoEffect DEF IndInv
  <2>2. Seen(files'[n]) = d
    BY <1>8, Envelope DEF IndInv, TypeOK
  <2>3. \A i \in 1..Len(q.todo) : DocAt(q.todo, i) \in Doc
    BY <1>1, <2>1 DEF IndInv, StageInv, Stage
  <2>4. Stage(q)'
    BY <1>1, <1>2, <2>1, <2>2, <2>3 DEF Stage, Writing
  <2>5. QED
    BY <1>1, <1>5, <1>6, <2>1, <2>4, WriterStep
<1>9. QED
  BY <1>4, <1>7, <1>8

LEMMA InvalidateStep ==
    ASSUME IndInv, NEW t \in Thread, Invalidate(t)
    PROVE  IndInv'
<1> DEFINE o == op[t]
<1>1. o.at = "invalidate" /\ o \in Op /\ Stage(o) /\ Writing(o)
  BY DEF Invalidate, IndInv, TypeOK, StageInv, Stage
<1>2. o.todo \in Todo /\ Len(o.todo) \in Nat /\ (Len(o.todo) = 0 <=> o.todo = <<>>)
  <2>1. o.todo \in Todo
    BY <1>1 DEF Op
  <2>2. QED
    BY <2>1, EmptySeq DEF Todo
<1>3. /\ UNCHANGED <<files, tmps, durable, writes, faults>> /\ listing' = Absent
      /\ last' = IF o.todo = <<>> THEN last ELSE Settled(t)
      /\ IF Len(o.todo) > 1
         THEN op' = [op EXCEPT ![t].todo = Tail(@), ![t].at = "write"]
         ELSE Return(t)
  BY DEF Invalidate
<1>4. /\ last' \in [Name -> SUBSET (Doc \cup {Absent, "error"})]
      /\ FitInv'
  <2>1. CASE o.todo = <<>>
    BY <1>3, <2>1 DEF IndInv, TypeOK, FitInv
  <2>2. CASE o.todo # <<>>
    <3>1. Len(o.todo) > 0
      BY <1>2, <2>2
    <3>2. PICK n \in Name, d \in Doc \cup {Absent} :
             /\ n = PutName(t) /\ d = PutDoc(t)
             /\ n = NameAt(o.todo, 1) /\ d = DocAt(o.todo, 1)
      BY <1>2, <3>1, TodoHead
    <3>3. Seen(files[n]) = d /\ last' = [last EXCEPT ![n] = {d}]
      BY <1>1, <1>3, <2>2, <3>1, <3>2 DEF Stage, Settled
    <3>4. last' \in [Name -> SUBSET (Doc \cup {Absent, "error"})]
      BY <3>3 DEF IndInv, TypeOK
    <3>5. \A x \in Name : Seen(files[x]) \in last'[x]
      BY <3>3 DEF IndInv, TypeOK, FitInv
    <3>6. QED
      BY <1>3, <3>4, <3>5 DEF FitInv
  <2>3. QED
    BY <2>1, <2>2
<1>5. /\ files' \in [Name -> File \cup {Absent}] /\ tmps' \in [Name -> File \cup {Absent}]
      /\ UNCHANGED durable /\ listing' = Absent /\ writes' \in Nat /\ faults' \in Nat
  BY <1>3 DEF IndInv, TypeOK
<1>6. CASE Return(t)
  <2>1. Becomes(t, NoOp) /\ Stage(NoOp)'
    BY <1>6, ReturnEffect, NoOpType DEF IndInv, Stage
  <2>2. QED
    BY <1>1, <1>4, <1>5, <2>1, NoOpType, WriterStep
<1>7. CASE /\ Len(o.todo) > 1
           /\ op' = [op EXCEPT ![t].todo = Tail(@), ![t].at = "write"]
  <2> DEFINE rest == Tail(o.todo)
             r == [o EXCEPT !.todo = rest, !.at = "write"]
  <2>1. /\ rest \in Todo /\ Len(rest) = Len(o.todo) - 1
        /\ \A i \in 1..Len(rest) :
             i + 1 \in 1..Len(o.todo) /\ DocAt(rest, i) = DocAt(o.todo, i + 1)
    BY <1>2, <1>7, TodoTail
  <2>2. o.kind = "put" /\ \A i \in 1..Len(o.todo) : DocAt(o.todo, i) \in Doc
    BY <1>1, <1>2, <1>7 DEF Stage
  <2>3. Len(rest) > 0 /\ \A i \in 1..Len(rest) : DocAt(rest, i) \in Doc
    BY <1>2, <1>7, <2>1, <2>2
  <2>4. op' = [op EXCEPT ![t] = r]
    BY <1>7 DEF IndInv, TypeOK
  <2> HIDE DEF rest
  <2>5. r \in Op /\ r.kind = "put" /\ r.at = "write" /\ r.todo = rest
    BY <1>1, <2>1, <2>2 DEF Op
  <2> HIDE DEF r
  <2>6. PICK q \in Op : q = r
    BY <2>5
  <2>7. Becomes(t, q)
    BY <2>4, <2>6, SetOp DEF IndInv, TypeOK
  <2>8. Stage(q)'
    BY <2>3, <2>5, <2>6 DEF Stage
  <2>9. QED
    BY <1>1, <1>4, <1>5, <2>7, <2>8, WriterStep
<1>8. QED
  BY <1>3, <1>6, <1>7

LEMMA StartDeleteStep ==
    ASSUME IndInv, NEW t \in Thread, StartDelete(t)
    PROVE  IndInv'
<1>1. \A u \in Thread : op[u].kind = "none"
  BY FreeMeans DEF StartDelete, IndInv
<1>2. op[t] \in Op /\ Stage(op[t]) /\ op[t].at = ""
  BY <1>1 DEF IndInv, TypeOK, StageInv, Stage
<1>3. UNCHANGED <<files, tmps, durable, listing, faults>> /\ writes' = writes + 1
  BY DEF StartDelete, Write
<1>4. PICK k \in Key :
         IF files[FileOf[k]] = Absent
         THEN UNCHANGED op /\ last' = [last EXCEPT ![FileOf[k]] = {Absent}]
         ELSE /\ op' = [op EXCEPT ![t] = [NoOp EXCEPT !.kind = "delete",
                           !.at = "remove", !.todo = <<<<k, Absent>>>>]]
              /\ last' = [last EXCEPT ![FileOf[k]] = @ \cup {Absent}]
  BY DEF StartDelete
<1> DEFINE n == FileOf[k]
<1>5. n \in Name
  BY FileStoreAssumption
<1>6. /\ files' \in [Name -> File \cup {Absent}] /\ tmps' \in [Name -> File \cup {Absent}]
      /\ UNCHANGED durable /\ listing' \in (SUBSET Name) \cup {Absent}
      /\ writes' \in Nat /\ faults' \in Nat
  BY <1>3 DEF IndInv, TypeOK
<1>7. listing' # Absent => InDirectory' \subseteq listing'
  BY <1>1, <1>2, <1>3, WriterAlone DEF InDirectory
<1>8. /\ last' \in [Name -> SUBSET (Doc \cup {Absent, "error"})]
      /\ Absent \in last'[n] /\ \A x \in Name : Seen(files[x]) \in last'[x]
  <2>1. CASE files[n] = Absent
    BY <1>4, <1>5, <2>1 DEF IndInv, TypeOK, FitInv, Seen
  <2>2. CASE files[n] # Absent
    BY <1>4, <1>5, <2>2 DEF IndInv, TypeOK, FitInv
  <2>3. QED
    BY <2>1, <2>2
<1>9. FitInv'
  BY <1>3, <1>8 DEF FitInv
<1>10. CASE UNCHANGED op
  <2>1. PICK q \in Op : q = op[t]
    BY <1>2
  <2>2. Becomes(t, q) /\ q.kind = "none" /\ q.at = ""
    BY <1>1, <1>2, <1>10, <2>1 DEF IndInv, TypeOK, Becomes
  <2>3. Stage(q)'
    BY <2>2 DEF Stage
  <2>4. QED
    BY <1>1, <1>6, <1>7, <1>8, <1>9, <2>2, <2>3, WriterStep
<1>11. CASE op' = [op EXCEPT ![t] = [NoOp EXCEPT !.kind = "delete",
                     !.at = "remove", !.todo = <<<<k, Absent>>>>]]
  <2>1. PICK todo \in Todo : /\ todo = <<<<k, Absent>>>> /\ Len(todo) = 1
                            /\ NameAt(todo, 1) = n /\ DocAt(todo, 1) = Absent
    BY TodoOne
  <2>2. PICK q \in Op :
           /\ q = [NoOp EXCEPT !.kind = "delete", !.at = "remove", !.todo = todo]
           /\ q.kind = "delete" /\ q.at = "remove" /\ q.todo = todo
    <3> DEFINE r == [NoOp EXCEPT !.kind = "delete", !.at = "remove", !.todo = todo]
    <3>1. r \in Op /\ r.kind = "delete" /\ r.at = "remove" /\ r.todo = todo
      BY NoOpType DEF Op
    <3>2. QED
      BY <3>1
  <2>3. Becomes(t, q)
    BY <1>11, <2>1, <2>2, SetOp DEF IndInv, TypeOK
  <2>4. \A i \in 1..Len(q.todo) :
          DocAt(q.todo, i) = Absent /\ Absent \in last'[NameAt(q.todo, i)]
    BY <1>8, <2>1, <2>2
  <2>5. Stage(q)'
    BY <2>1, <2>2, <2>4 DEF Stage
  <2>6. QED
    BY <1>1, <1>6, <1>7, <1>8, <1>9, <2>3, <2>5, WriterStep
<1>12. QED
  BY <1>4, <1>10, <1>11

LEMMA StartClearStep ==
    ASSUME IndInv, NEW t \in Thread, StartClear(t)
    PROVE  IndInv'
<1>1. \A u \in Thread : op[u].kind = "none"
  BY FreeMeans DEF StartClear, IndInv
<1>2. op[t].at = ""
  BY <1>1 DEF IndInv, TypeOK, StageInv, Stage
<1>3. /\ UNCHANGED <<files, tmps, durable, faults>> /\ writes' = writes + 1
      /\ listing' = Listed
      /\ last' = [n \in Name |-> IF n \in Listed THEN last[n] \cup {Absent} ELSE last[n]]
  BY DEF StartClear, Write
<1>4. Listed \in SUBSET Name /\ InDirectory \subseteq Listed
  BY <1>1, <1>2, WriterAlone DEF Listed, InDirectory, IndInv, TypeOK
<1>5. PICK list \in [1..Cardinality(Listed) -> Key \X {Absent}] :
         /\ Names(list) = Listed
         /\ op' = [op EXCEPT ![t] = [NoOp EXCEPT !.kind = "clear", !.todo = list,
                                  !.at = IF list = <<>> THEN "invalidate" ELSE "remove"]]
  BY DEF StartClear
<1>6. /\ list \in Todo /\ DOMAIN list = 1..Len(list)
      /\ \A i \in 1..Len(list) : list[i] \in Key \X {Absent}
  <2> DEFINE m == Cardinality(Listed)
  <2>1. m \in Nat
    BY <1>4, FileStoreAssumption, FS_Subset, FS_CardinalityType
  <2>2. list \in [1..m -> Key \X {Absent}]
    BY <1>5
  <2> HIDE DEF m
  <2>3. list \in Seq(Key \X {Absent})
    BY <2>1, <2>2
  <2>4. DOMAIN list = 1..Len(list) /\ \A i \in 1..Len(list) : list[i] \in Key \X {Absent}
    BY <2>3, LenProperties, ElementOfSeq
  <2>5. \A x \in Key \X {Absent} : x \in Key \X (Doc \cup {Absent})
    OBVIOUS
  <2>6. list \in Todo
    BY <2>3, <2>4, <2>5 DEF Todo
  <2>7. QED
    BY <2>4, <2>6
<1>7. \A i \in 1..Len(list) : DocAt(list, i) = Absent /\ NameAt(list, i) \in Listed
  BY <1>5, <1>6 DEF DocAt, NameAt, Names
<1>8. list = <<>> => Len(list) = 0
  OBVIOUS
<1>9. list # <<>> => Len(list) > 0
  BY <1>6, EmptySeq DEF Todo
<1> DEFINE at == IF list = <<>> THEN "invalidate" ELSE "remove"
           q == [NoOp EXCEPT !.kind = "clear", !.todo = list, !.at = at]
<1>10. q \in Op /\ q.kind = "clear" /\ q.at = at /\ q.todo = list
  BY <1>6, NoOpType DEF Op
<1>11. op' = [op EXCEPT ![t] = q]
  BY <1>5
<1> HIDE DEF q
<1>12. Becomes(t, q)
  BY <1>10, <1>11, SetOp DEF IndInv, TypeOK
<1>13. /\ files' \in [Name -> File \cup {Absent}] /\ tmps' \in [Name -> File \cup {Absent}]
       /\ UNCHANGED durable /\ listing' \in (SUBSET Name) \cup {Absent}
       /\ writes' \in Nat /\ faults' \in Nat
  BY <1>3, <1>4 DEF IndInv, TypeOK
<1>14. /\ last' \in [Name -> SUBSET (Doc \cup {Absent, "error"})]
       /\ \A n \in Name : last[n] \subseteq last'[n]
       /\ \A n \in Listed : Absent \in last'[n]
  BY <1>3, <1>4 DEF IndInv, TypeOK
<1>15. FitInv' /\ InDirectory' \subseteq listing'
  BY <1>3, <1>4, <1>14 DEF IndInv, FitInv, InDirectory
<1>16. Stage(q)'
  <2>1. CASE list = <<>>
    <3>1. q.at = "invalidate" /\ Len(q.todo) <= 1 /\ ~(Len(q.todo) > 0)
      BY <1>8, <1>10, <2>1
    <3>2. QED
      BY <1>10, <3>1 DEF Stage, Writing
  <2>2. CASE list # <<>>
    <3>1. q.at = "remove" /\ Len(q.todo) > 0
      BY <1>9, <1>10, <2>2
    <3>2. \A i \in 1..Len(q.todo) :
            DocAt(q.todo, i) = Absent /\ Absent \in last'[NameAt(q.todo, i)]
      BY <1>7, <1>10, <1>14
    <3>3. QED
      BY <1>10, <3>1, <3>2 DEF Stage
  <2>3. QED
    BY <2>1, <2>2
<1>17. QED
  BY <1>1, <1>10, <1>12, <1>13, <1>14, <1>15, <1>16, WriterStep

LEMMA RemoveFileStep ==
    ASSUME IndInv, NEW t \in Thread, RemoveFile(t)
    PROVE  IndInv'
<1> DEFINE o == op[t]
<1>1. /\ o.at = "remove" /\ Writing(o) /\ o \in Op /\ Len(o.todo) > 0
      /\ o.kind \in {"delete", "clear"} /\ Stage(o) /\ PutDoc(t) = Absent
  BY AtHead DEF RemoveFile, IndInv, StageInv, Stage
<1>2. o.todo \in Todo /\ Len(o.todo) \in Nat
  <2>1. o.todo \in Todo
    BY <1>1 DEF Op
  <2>2. QED
    BY <2>1 DEF Todo
<1>3. PICK n \in Name : n = PutName(t) /\ n = NameAt(o.todo, 1)
  BY <1>1, AtHead
<1>4. \A i \in 1..Len(o.todo) :
         DocAt(o.todo, i) = Absent /\ Absent \in last[NameAt(o.todo, i)]
  BY <1>1 DEF Stage
<1>5. /\ UNCHANGED <<tmps, durable, listing, writes>>
      /\ \/ /\ files' = [files EXCEPT ![n] = Absent]
            /\ op' = IF Len(op[t].todo) > 1 THEN [op EXCEPT ![t].todo = Tail(@)]
                     ELSE [op EXCEPT ![t].at = "invalidate"]
            /\ last' = IF Len(op[t].todo) > 1 THEN [last EXCEPT ![n] = {Absent}] ELSE last
            /\ UNCHANGED faults
         \/ faults' = faults + 1 /\ Return(t) /\ UNCHANGED <<files, last>>
  BY <1>1, <1>3 DEF RemoveFile, Fault, Settled
<1>6. /\ files' \in [Name -> File \cup {Absent}] /\ tmps' \in [Name -> File \cup {Absent}]
      /\ UNCHANGED durable /\ listing' \in (SUBSET Name) \cup {Absent}
      /\ last' \in [Name -> SUBSET (Doc \cup {Absent, "error"})]
      /\ writes' \in Nat /\ faults' \in Nat
  BY <1>5 DEF IndInv, TypeOK
<1>7. InDirectory' \subseteq InDirectory
  BY <1>5 DEF InDirectory, IndInv, TypeOK
<1>8. listing' # Absent => InDirectory' \subseteq listing'
  BY <1>1, <1>5, <1>7, WriterAlone
<1>9. \A x \in Name : last'[x] = last[x] \/ (Absent \in last'[x] /\ x = n)
  BY <1>5 DEF IndInv, TypeOK
<1>10. Absent \in last[n]
  BY <1>1, <1>2, <1>3, <1>4
<1>11. FitInv'
  <2>1. \A x \in Name : \/ files'[x] = files[x] /\ last'[x] = last[x]
                        \/ files'[x] = Absent /\ Absent \in last'[x]
    BY <1>5, <1>9, <1>10 DEF IndInv, TypeOK
  <2>2. QED
    BY <2>1 DEF IndInv, FitInv, Seen
<1>12. CASE Return(t)
  <2>1. Becomes(t, NoOp) /\ Stage(NoOp)'
    BY <1>12, ReturnEffect, NoOpType DEF IndInv, Stage
  <2>2. QED
    BY <1>1, <1>6, <1>8, <1>11, <2>1, NoOpType, WriterStep
<1>13. CASE Len(o.todo) > 1 /\ op' = [op EXCEPT ![t].todo = Tail(@)]
  <2> DEFINE rest == Tail(o.todo)
             r == [o EXCEPT !.todo = rest]
  <2>1. /\ rest \in Todo /\ Len(rest) = Len(o.todo) - 1
        /\ \A i \in 1..Len(rest) :
             /\ i + 1 \in 1..Len(o.todo) /\ DocAt(rest, i) = DocAt(o.todo, i + 1)
             /\ NameAt(rest, i) = NameAt(o.todo, i + 1)
    BY <1>2, <1>13, TodoTail
  <2>2. Len(rest) > 0
    BY <1>2, <1>13, <2>1
  <2>3. \A i \in 1..Len(rest) :
          /\ DocAt(rest, i) = Absent /\ NameAt(rest, i) \in Name
          /\ Absent \in last[NameAt(rest, i)]
    BY <1>4, <2>1, TodoAt
  <2>4. \A i \in 1..Len(rest) : DocAt(rest, i) = Absent /\ Absent \in last'[NameAt(rest, i)]
    BY <1>9, <2>3
  <2>5. op' = [op EXCEPT ![t] = r]
    BY <1>13 DEF IndInv, TypeOK
  <2> HIDE DEF rest
  <2>6. r \in Op /\ r.kind = o.kind /\ r.at = "remove" /\ r.todo = rest
    BY <1>1, <2>1 DEF Op
  <2> HIDE DEF r
  <2>7. PICK q \in Op : q = r
    BY <2>6
  <2>8. Becomes(t, q)
    BY <2>5, <2>7, SetOp DEF IndInv, TypeOK
  <2>9. PICK l \in Todo : l = rest
    BY <2>1
  <2>10. /\ q.todo = l /\ Len(l) > 0
         /\ \A i \in 1..Len(l) : DocAt(l, i) = Absent /\ Absent \in last'[NameAt(l, i)]
    BY <2>2, <2>4, <2>6, <2>7, <2>9
  <2>11. Stage(q)'
    BY <1>1, <2>6, <2>7, <2>10 DEF Stage
  <2>12. QED
    BY <1>1, <1>6, <1>8, <1>11, <2>8, <2>11, WriterStep
<1>14. CASE /\ Len(o.todo) <= 1 /\ op' = [op EXCEPT ![t].at = "invalidate"]
            /\ files' = [files EXCEPT ![n] = Absent]
  <2>1. PICK q \in Op : /\ Becomes(t, q) /\ q.kind = o.kind /\ q.at = "invalidate"
                        /\ q.todo = o.todo
    BY <1>14, GotoEffect DEF IndInv, Goto
  <2>2. Seen(files'[n]) = DocAt(o.todo, 1)
    BY <1>1, <1>2, <1>4, <1>14 DEF IndInv, TypeOK, Seen
  <2>3. Stage(q)'
    BY <1>1, <1>3, <1>14, <2>1, <2>2 DEF Stage, Writing
  <2>4. QED
    BY <1>1, <1>6, <1>8, <1>11, <2>1, <2>3, WriterStep
<1>15. QED
  BY <1>2, <1>5, <1>12, <1>13, <1>14

LEMMA RefreshStep ==
    ASSUME IndInv, NEW t \in Thread, Refresh(t)
    PROVE  IndInv'
<1> DEFINE o == op[t]
<1>1. /\ o.at = "refresh" /\ o.kind = "keys" /\ Stage(o)
      /\ o.res \in SUBSET Name /\ InDirectory \subseteq o.res
  BY DEF Refresh, IndInv, StageInv, Stage
<1>2. /\ listing' = o.res /\ Goto(t, "listed")
      /\ UNCHANGED <<files, tmps, durable, last, writes, faults>>
  BY DEF Refresh
<1>3. PICK q \in Op : /\ Becomes(t, q) /\ q.kind = "keys" /\ q.at = "listed"
                      /\ q.todo = o.todo /\ q.res = o.res
  BY <1>1, <1>2, GotoEffect DEF IndInv
<1>4. \A u \in Thread : ~Writing(op[u]) /\ ~Writing(op'[u])
  <2>1. \A u \in Thread : ~Writing(op[u])
    BY <1>1 DEF IndInv, LockInv, Writing
  <2>2. QED
    BY <1>3, <2>1 DEF Becomes, Writing
<1>5. TypeOK'
  BY <1>1, <1>2, <1>3 DEF IndInv, TypeOK, Becomes
<1>6. LockInv'
  BY <1>4 DEF LockInv, Writing
<1>7. Stage(q)'
  BY <1>1, <1>2, <1>3 DEF Stage, InDirectory
<1>8. StageInv'
  BY <1>2, <1>3, <1>7, StageFrame DEF IndInv
<1>9. FitInv' /\ ListInv'
  BY <1>1, <1>2 DEF IndInv, FitInv, ListInv, InDirectory
<1>10. QED
  BY <1>5, <1>6, <1>8, <1>9 DEF IndInv

\* No call is under way afterwards.
LEMMA IdleStep ==
    ASSUME IndInv, op' = [t \in Thread |-> NoOp],
           files' \in [Name -> File \cup {Absent}],
           tmps' \in [Name -> File \cup {Absent}],
           durable' \in [Name -> File \cup {Absent}],
           last' \in [Name -> SUBSET (Doc \cup {Absent, "error"})],
           listing' = Absent, writes' \in Nat, faults' \in Nat, FitInv'
    PROVE  IndInv'
<1>1. \A t \in Thread : op'[t] = NoOp
  OBVIOUS
<1>2. TypeOK'
  BY NoOpType DEF TypeOK
<1>3. LockInv' /\ ListInv'
  BY <1>1, NoOpType DEF LockInv, ListInv
<1>4. StageInv'
  BY <1>1, NoOpType DEF StageInv, Stage
<1>5. QED
  BY <1>2, <1>3, <1>4 DEF IndInv

LEMMA FlushStep ==
    ASSUME IndInv, Flush \/ UNCHANGED vars
    PROVE  IndInv'
<1>1. /\ UNCHANGED <<files, tmps, listing, op, last, writes, faults>>
      /\ durable' \in [Name -> File \cup {Absent}]
  BY DEF Flush, vars, IndInv, TypeOK
<1>2. TypeOK' /\ LockInv' /\ FitInv' /\ ListInv'
  BY <1>1 DEF IndInv, TypeOK, LockInv, FitInv, ListInv, InDirectory, Writing
<1>3. StageInv'
  BY ZenonT(30), <1>1 DEF IndInv, StageInv, Stage, InDirectory
<1>4. QED
  BY <1>2, <1>3 DEF IndInv

LEMMA CrashStep ==
    ASSUME IndInv, Crash
    PROVE  IndInv'
<1>1. /\ op' = [t \in Thread |-> NoOp] /\ listing' = Absent /\ faults' = faults + 1
      /\ UNCHANGED <<files, tmps, durable, last, writes>>
  BY DEF Crash, Fault
<1>2. FitInv'
  BY <1>1 DEF IndInv, FitInv
<1>3. QED
  BY <1>1, <1>2, IdleStep DEF IndInv, TypeOK

\* What is lost is expected: the name may give what was on the disk, or an
\* error.
LEMMA PowerLossStep ==
    ASSUME IndInv, PowerLoss
    PROVE  IndInv'
<1>1. /\ op' = [t \in Thread |-> NoOp] /\ listing' = Absent /\ faults' = faults + 1
      /\ durable' = files' /\ tmps' = [n \in Name |-> Absent] /\ UNCHANGED writes
      /\ last' = [n \in Name |->
            IF durable[n] = files[n] THEN last[n]
            ELSE last[n] \cup {Seen(durable[n])}
                 \cup (IF files[n] = Absent THEN {} ELSE {"error"})]
  BY DEF PowerLoss, Fault
<1>2. /\ DOMAIN files' = Name /\ files' = [n \in Name |-> files'[n]]
      /\ \A n \in Name :
           \/ files'[n] \in {durable[n], files[n]}
           \/ files'[n] = Torn /\ files[n] \notin {durable[n], Absent}
  BY DEF PowerLoss
<1>3. \A n \in Name : files'[n] \in File \cup {Absent}
  BY <1>2, Envelope DEF IndInv, TypeOK
<1>4. files' \in [Name -> File \cup {Absent}]
  BY <1>2, <1>3
<1>5. \A n \in Name : Seen(durable[n]) \in Doc \cup {Absent, "error"}
  BY Envelope DEF IndInv, TypeOK
<1>6. last' \in [Name -> SUBSET (Doc \cup {Absent, "error"})]
  BY <1>1, <1>5 DEF IndInv, TypeOK
<1>7. FitInv'
  <2> SUFFICES ASSUME NEW n \in Name PROVE Seen(files'[n]) \in last'[n]
    BY DEF FitInv
  <2>1. Seen(files[n]) \in last[n] /\ last[n] \subseteq last'[n]
    BY <1>1 DEF IndInv, FitInv
  <2>2. CASE files'[n] = files[n]
    BY <2>1, <2>2
  <2>3. CASE files'[n] = durable[n] /\ durable[n] # files[n]
    BY <1>1, <2>3
  <2>4. CASE files'[n] = Torn /\ files[n] \notin {durable[n], Absent}
    BY <1>1, <2>4, Envelope
  <2>5. QED
    BY <1>2, <2>2, <2>3, <2>4
<1>8. QED
  BY <1>1, <1>4, <1>6, <1>7, IdleStep DEF IndInv, TypeOK

\* A damaged file gives an error, or what it gave before.
LEMMA DamageStep ==
    ASSUME IndInv, Damage
    PROVE  IndInv'
<1>1. PICK n \in Name, d \in Doc :
         /\ files[n] # Absent /\ d # files[n].body /\ d # files[n].sum
         /\ files' = [files EXCEPT ![n].body = d]
         /\ durable' = [durable EXCEPT ![n] = files'[n]]
         /\ last' = [last EXCEPT ![n] = @ \cup {"error"}]
  BY DEF Damage
<1>2. /\ \A t \in Thread : op[t].kind = "none"
      /\ UNCHANGED <<tmps, listing, op, writes>> /\ faults' = faults + 1
  BY DEF Damage, Fault
<1> DEFINE f == [files[n] EXCEPT !.body = d]
<1>3. files[n] \in File
  BY <1>1 DEF IndInv, TypeOK
<1>4. f \in File /\ f.body = d /\ f.sum = files[n].sum
  BY <1>3 DEF File
<1>5. Loaded(f) = "error"
  BY <1>1, <1>4 DEF Loaded
<1>6. files' = [files EXCEPT ![n] = f]
  BY <1>1 DEF IndInv, TypeOK
<1> HIDE DEF f
<1>7. /\ files' \in [Name -> File \cup {Absent}] /\ files'[n] = f
      /\ \A x \in Name : x # n => files'[x] = files[x]
  BY <1>4, <1>6 DEF IndInv, TypeOK
<1>8. TypeOK'
  BY <1>1, <1>2, <1>4, <1>7 DEF IndInv, TypeOK
<1>9. f # Absent
  BY <1>4, FileStoreAssumption
<1>10. FitInv'
  <2>1. Seen(f) = "error"
    BY <1>5, <1>9 DEF Seen
  <2>2. QED
    BY <1>1, <1>7, <2>1 DEF IndInv, TypeOK, FitInv
<1>11. InDirectory' = InDirectory
  BY <1>1, <1>7, <1>9 DEF InDirectory
<1>12. LockInv' /\ ListInv'
  BY <1>2, <1>11 DEF IndInv, LockInv, ListInv, Writing
<1>13. StageInv'
  BY <1>2 DEF IndInv, StageInv, Stage
<1>14. QED
  BY <1>8, <1>10, <1>12, <1>13 DEF IndInv

LEMMA IndInvStep == IndInv /\ [Next]_vars => IndInv'
  BY StartPutStep, WriteTmpStep, RenameStep, InvalidateStep, StartDeleteStep,
     StartClearStep, RemoveFileStep, LoadStep, StartKeysStep, RefreshStep, EndStep,
     FlushStep, CrashStep, PowerLossStep, DamageStep DEF Next, Step

LEMMA IndInvInit == Init => IndInv
<1> SUFFICES ASSUME Init PROVE IndInv
  OBVIOUS
<1>1. files \in [Name -> File \cup {Absent}]
  BY FileStoreAssumption DEF Init
<1>2. \A n \in Name : Seen(files[n]) \in Doc \cup {Absent, "error"}
  BY <1>1, Envelope
<1>3. /\ last = [n \in Name |-> {Seen(files[n])}]
      /\ op = [t \in Thread |-> NoOp] /\ listing = Absent
  BY DEF Init
<1>4. last \in [Name -> SUBSET (Doc \cup {Absent, "error"})]
  BY <1>2, <1>3
<1>5. TypeOK
  BY <1>1, <1>4, NoOpType DEF Init, TypeOK
<1>6. LockInv /\ StageInv /\ ListInv
  BY <1>3, NoOpType DEF LockInv, StageInv, ListInv
<1>7. FitInv
  BY <1>3 DEF FitInv
<1>8. QED
  BY <1>5, <1>6, <1>7 DEF IndInv

LEMMA IndInvAlways == Spec => []IndInv
  BY IndInvInit, IndInvStep, PTL DEF Spec

(***************************************************************************)
(* What it gives.                                                          *)
(***************************************************************************)
\* A load gives what the calls that returned promise, whatever failed, and
\* whenever the process ended or power was lost in between: a put is visible
\* as a whole by its rename, and bytes that changed are refused (file.rs,
\* put; persistence.rs, checksum and version).
THEOREM LoadIsPromisedAlways == Spec => []LoadIsPromised
<1>1. IndInv => LoadIsPromised
  BY DEF IndInv, StageInv, Stage, NameAt, LoadIsPromised
<1>2. QED
  BY <1>1, IndInvAlways, PTL

\* The listing of keys, cached or not, names every stored file (file.rs,
\* refresh_cache, invalidate_cache).
THEOREM FilesAreListedAlways == Spec => []FilesAreListed
<1>1. IndInv => FilesAreListed
  BY DEF IndInv, StageInv, Stage, FilesAreListed
<1>2. QED
  BY <1>1, IndInvAlways, PTL

(***************************************************************************)
(* The backend implements KeyStore.                                        *)
(***************************************************************************)
\* No file is sound and empty.
Whole(f) == Seen(f) = Absent => f = Absent
WholeInv == \A n \in Name : Whole(files[n]) /\ Whole(tmps[n]) /\ Whole(durable[n])

LEMMA WholeFiles == Whole(Absent) /\ Whole(Torn) /\ \A d \in Doc : Whole(Saved(d))
<1>1. Absent \notin Doc /\ Absent # "error"
  BY FileStoreAssumption
<1>2. QED
  BY <1>1, Envelope DEF Whole

LEMMA WholeInit == Init => WholeInv
<1> SUFFICES ASSUME Init, NEW n \in Name
             PROVE  Whole(files[n]) /\ Whole(tmps[n]) /\ Whole(durable[n])
  BY DEF WholeInv
<1>1. files[n] \in {Absent} \cup Older /\ durable[n] = files[n] /\ tmps[n] = Absent
  BY DEF Init
<1>2. Whole(files[n])
  BY <1>1, OlderAssumption DEF Whole, Seen
<1>3. QED
  BY <1>1, <1>2, WholeFiles

\* The damaged files of a step.
LEMMA DamageEffect ==
    ASSUME IndInv, Damage
    PROVE  \E n \in Name : \E f \in File :
             /\ files[n] # Absent /\ Seen(f) = "error" /\ f # Absent
             /\ files' = [files EXCEPT ![n] = f]
             /\ durable' = [durable EXCEPT ![n] = f]
             /\ last' = [last EXCEPT ![n] = @ \cup {"error"}]
             /\ UNCHANGED tmps
<1>1. PICK n \in Name, d \in Doc :
         /\ files[n] # Absent /\ d # files[n].body /\ d # files[n].sum
         /\ files' = [files EXCEPT ![n].body = d]
         /\ durable' = [durable EXCEPT ![n] = files'[n]]
         /\ last' = [last EXCEPT ![n] = @ \cup {"error"}]
         /\ UNCHANGED tmps
  BY DEF Damage
<1> DEFINE f == [files[n] EXCEPT !.body = d]
<1>2. files[n] \in File
  BY <1>1 DEF IndInv, TypeOK
<1>3. f \in File /\ f.body = d /\ f.sum = files[n].sum
  BY <1>2 DEF File
<1>4. Loaded(f) = "error"
  BY <1>1, <1>3 DEF Loaded
<1>5. files' = [files EXCEPT ![n] = f]
  BY <1>1 DEF IndInv, TypeOK
<1> HIDE DEF f
<1>6. files'[n] = f
  BY <1>5 DEF IndInv, TypeOK
<1>7. f # Absent
  BY <1>3, FileStoreAssumption
<1>8. Seen(f) = "error"
  BY <1>4, <1>7 DEF Seen
<1>9. durable' = [durable EXCEPT ![n] = f]
  BY <1>1, <1>6
<1>10. QED
  BY <1>1, <1>3, <1>5, <1>7, <1>8, <1>9

\* Only the five steps that touch files matter.
LEMMA WholeStep == IndInv /\ WholeInv /\ [Next]_vars => WholeInv'
<1> SUFFICES ASSUME IndInv, WholeInv, [Next]_vars PROVE WholeInv'
  OBVIOUS
<1>1. ASSUME NEW t \in Thread, WriteTmp(t) PROVE WholeInv'
  <2>1. PutDoc(t) \in Doc /\ PutName(t) \in Name
    BY <1>1, AtHead DEF WriteTmp
  <2>2. \E f \in {Torn, Saved(PutDoc(t))} : tmps' = [tmps EXCEPT ![PutName(t)] = f]
    BY <1>1 DEF WriteTmp
  <2>3. \A n \in Name : Whole(tmps'[n])
    BY <2>1, <2>2, WholeFiles DEF WholeInv, IndInv, TypeOK
  <2>4. QED
    BY <1>1, <2>3 DEF WriteTmp, WholeInv, Whole
<1>2. ASSUME NEW t \in Thread, Rename(t) PROVE WholeInv'
  <2>1. PutName(t) \in Name
    BY <1>2, AtHead DEF Rename
  <2>2. CASE UNCHANGED <<files, tmps>>
    BY <1>2, <2>2 DEF Rename, WholeInv, Whole
  <2>3. CASE /\ files' = [files EXCEPT ![PutName(t)] = tmps[PutName(t)]]
             /\ tmps' = [tmps EXCEPT ![PutName(t)] = Absent]
    <3>1. \A n \in Name : Whole(files'[n]) /\ Whole(tmps'[n])
      BY <2>1, <2>3, WholeFiles DEF WholeInv, IndInv, TypeOK
    <3>2. QED
      BY <1>2, <3>1 DEF Rename, WholeInv, Whole
  <2>4. QED
    BY <1>2, <2>2, <2>3 DEF Rename
<1>3. ASSUME NEW t \in Thread, RemoveFile(t) PROVE WholeInv'
  <2>1. \/ files' = files
        \/ files' = [files EXCEPT ![PutName(t)] = Absent]
    BY <1>3 DEF RemoveFile
  <2>2. \A n \in Name : Whole(files'[n])
    BY <2>1, WholeFiles DEF WholeInv, IndInv, TypeOK
  <2>3. QED
    BY <1>3, <2>2 DEF RemoveFile, WholeInv, Whole
<1>4. CASE Flush
  <2>1. \A n \in Name : durable'[n] \in {durable[n], files[n]}
    BY <1>4 DEF Flush, IndInv, TypeOK
  <2>2. \A n \in Name : Whole(durable'[n])
    BY <2>1 DEF WholeInv
  <2>3. QED
    BY <1>4, <2>2 DEF Flush, WholeInv, Whole
<1>5. CASE PowerLoss
  <2>1. \A n \in Name : files'[n] \in {durable[n], files[n], Torn}
    BY <1>5 DEF PowerLoss
  <2>2. \A n \in Name : Whole(files'[n])
    BY <2>1, WholeFiles DEF WholeInv
  <2>3. durable' = files' /\ \A n \in Name : tmps'[n] = Absent
    BY <1>5 DEF PowerLoss
  <2>4. QED
    BY <2>2, <2>3, WholeFiles DEF WholeInv, Whole
<1>6. CASE Damage
  <2>1. PICK n \in Name : \E f \in File :
           /\ Seen(f) = "error"
           /\ files' = [files EXCEPT ![n] = f]
           /\ durable' = [durable EXCEPT ![n] = f]
           /\ UNCHANGED tmps
    BY <1>6, DamageEffect
  <2>2. PICK f \in File : /\ Seen(f) = "error"
                          /\ files' = [files EXCEPT ![n] = f]
                          /\ durable' = [durable EXCEPT ![n] = f]
                          /\ UNCHANGED tmps
    BY <2>1
  <2>3. Whole(f)
    BY <2>2, FileStoreAssumption DEF Whole
  <2>4. \A m \in Name : Whole(files'[m]) /\ Whole(durable'[m])
    BY <2>2, <2>3 DEF WholeInv, IndInv, TypeOK
  <2>5. QED
    BY <2>2, <2>4 DEF WholeInv, Whole
<1>7. CASE UNCHANGED <<files, tmps, durable>>
  BY <1>7 DEF WholeInv, Whole
<1>8. QED
  BY <1>1, <1>2, <1>3, <1>4, <1>5, <1>6, <1>7
     DEF Next, Step, StartPut, Invalidate, StartDelete, StartClear, Load,
         StartKeys, Refresh, End, Crash, vars

\* The state of the abstract store.
Shows == [n \in Name |-> Seen(files[n])]
Keeps == [n \in Name |-> Seen(durable[n])]
Dirty == {n \in Name : durable[n] # files[n]}

LEMMA RefineInit == Init => Store!Init
<1> SUFFICES ASSUME Init PROVE Store!Init
  OBVIOUS
<1>1. durable = files /\ files \in [Name -> File \cup {Absent}]
  BY FileStoreAssumption DEF Init
<1>2. Shows \in [Name -> Store!Answers]
  BY <1>1, Envelope DEF Shows, Store!Answers, Store!Contents
<1>3. last = [n \in Name |-> {Shows[n]}]
  BY DEF Init, Shows
<1>4. QED
  BY <1>1, <1>2, <1>3 DEF Store!Init, Shows

\* One file is exchanged for another with a content that was promised.
LEMMA RefineChange ==
    ASSUME IndInv, NEW n \in Name, NEW f, Seen(f) \in last[n],
           files' = [files EXCEPT ![n] = f], UNCHANGED durable
    PROVE  Store!Change(n, Seen(f))
<1>1. \A m \in Name : files'[m] = IF m = n THEN f ELSE files[m]
  BY DEF IndInv, TypeOK
<1>2. Shows' = [Shows EXCEPT ![n] = Seen(f)]
  <2>1. Shows' = [m \in Name |-> Seen(files'[m])]
    BY DEF Shows
  <2>2. [Shows EXCEPT ![n] = Seen(f)] = [m \in Name |-> IF m = n THEN Seen(f) ELSE Seen(files[m])]
    BY DEF Shows
  <2>3. \A m \in Name : Seen(files'[m]) = IF m = n THEN Seen(f) ELSE Seen(files[m])
    BY <1>1
  <2>4. QED
    BY <2>1, <2>2, <2>3
<1>3. Dirty' \in {Dirty \cup {n}, Dirty \ {n}}
  BY <1>1 DEF Dirty
<1>4. n \notin Dirty' => Keeps[n] = Seen(f)
  BY <1>1 DEF Dirty, Keeps
<1>5. UNCHANGED Keeps
  BY DEF Keeps
<1>6. QED
  BY <1>2, <1>3, <1>4, <1>5 DEF Store!Change, Shows, Keeps, Dirty

LEMMA RefineTake ==
    ASSUME NEW n \in Name, NEW x \in Doc \cup {Absent},
           Store!TakeEffect(n, x) \/ Store!Commit(n, x)
    PROVE  Store!Next
BY DEF Store!Next, Store!Contents

\* A call ends and leaves the files as they are.
LEMMA RefineEnd ==
    ASSUME IndInv, NEW n \in Name, NEW x \in Doc \cup {Absent}, Seen(files[n]) = x,
           last' = [last EXCEPT ![n] = {x}], UNCHANGED <<files, durable>>
    PROVE  Store!Next
<1>1. x \in last[n]
  BY DEF IndInv, FitInv
<1>2. files' = [files EXCEPT ![n] = files[n]]
  BY DEF IndInv, TypeOK
<1>3. Store!Change(n, x)
  BY <1>1, <1>2, RefineChange
<1>4. Store!Commit(n, x)
  BY <1>3 DEF Store!Commit
<1>5. QED
  BY <1>4, RefineTake

LEMMA RefineBegin ==
    ASSUME IndInv, NEW N \in SUBSET Name, NEW x \in Doc \cup {Absent},
           last' = [n \in Name |-> IF n \in N THEN last[n] \cup {x} ELSE last[n]],
           UNCHANGED <<files, durable>>
    PROVE  Store!Next
<1>1. UNCHANGED <<Shows, Keeps, Dirty>>
  BY DEF Shows, Keeps, Dirty
<1>2. Store!Begin(N, x)
  BY <1>1 DEF Store!Begin, Shows, Keeps, Dirty
<1>3. QED
  BY <1>2 DEF Store!Next, Store!Contents

LEMMA RefineWriteTmp ==
    ASSUME IndInv, NEW t \in Thread, WriteTmp(t)
    PROVE  Store!Next
<1>1. PutName(t) \in Name /\ PutDoc(t) \in Doc
  BY AtHead DEF WriteTmp
<1>2. last' = [n \in Name |-> IF n \in {PutName(t)} THEN last[n] \cup {PutDoc(t)}
                              ELSE last[n]]
  BY <1>1 DEF WriteTmp, Unsettled, IndInv, TypeOK
<1>3. UNCHANGED <<files, durable>>
  BY DEF WriteTmp
<1>4. QED
  BY <1>1, <1>2, <1>3, RefineBegin

LEMMA RefineRename ==
    ASSUME IndInv, NEW t \in Thread, Rename(t), files' # files
    PROVE  Store!Next
<1>1. PICK n \in Name, d \in Doc : n = PutName(t) /\ d = PutDoc(t)
  BY AtHead DEF Rename
<1>2. n = NameAt(op[t].todo, 1) /\ d = DocAt(op[t].todo, 1)
  BY <1>1, AtHead DEF Rename
<1>3. tmps[n] = Saved(d) /\ d \in last[n]
  BY <1>2 DEF IndInv, StageInv, Stage, Rename
<1>4. files' = [files EXCEPT ![n] = Saved(d)] /\ UNCHANGED <<durable, last>>
  BY <1>1, <1>3 DEF Rename
<1>5. Seen(Saved(d)) = d
  BY Envelope
<1>6. Store!Change(n, d)
  BY <1>3, <1>4, <1>5, RefineChange
<1>7. Store!TakeEffect(n, d)
  BY <1>4, <1>6 DEF Store!TakeEffect
<1>8. QED
  BY <1>7, RefineTake

LEMMA RefineInvalidate ==
    ASSUME IndInv, NEW t \in Thread, Invalidate(t), op[t].todo # <<>>
    PROVE  Store!Next
<1>1. op[t].todo \in Todo /\ Stage(op[t]) /\ op[t].at = "invalidate"
  BY DEF IndInv, TypeOK, Op, StageInv, Invalidate
<1>2. Len(op[t].todo) > 0
  BY <1>1, EmptySeq, LenProperties DEF Todo
<1>3. /\ PutName(t) = NameAt(op[t].todo, 1) /\ PutDoc(t) = DocAt(op[t].todo, 1)
      /\ PutName(t) \in Name /\ PutDoc(t) \in Doc \cup {Absent}
  BY <1>1, <1>2, TodoHead
<1>4. Seen(files[PutName(t)]) = PutDoc(t)
  BY <1>1, <1>2, <1>3 DEF Stage
<1>5. last' = [last EXCEPT ![PutName(t)] = {PutDoc(t)}] /\ UNCHANGED <<files, durable>>
  BY DEF Invalidate, Settled
<1>6. QED
  BY <1>3, <1>4, <1>5, RefineEnd

LEMMA RefineStartDelete ==
    ASSUME IndInv, NEW t \in Thread, StartDelete(t)
    PROVE  Store!Next
<1>1. PICK k \in Key :
         IF files[FileOf[k]] = Absent
         THEN last' = [last EXCEPT ![FileOf[k]] = {Absent}]
         ELSE last' = [last EXCEPT ![FileOf[k]] = @ \cup {Absent}]
  BY DEF StartDelete
<1> DEFINE n == FileOf[k]
<1>2. n \in Name /\ UNCHANGED <<files, durable>>
  BY FileStoreAssumption DEF StartDelete
<1>3. CASE files[n] = Absent
  <2>1. Seen(files[n]) = Absent /\ last' = [last EXCEPT ![n] = {Absent}]
    BY <1>1, <1>3 DEF Seen
  <2>2. QED
    BY <1>2, <2>1, RefineEnd
<1>4. CASE files[n] # Absent
  <2>1. last' = [m \in Name |-> IF m \in {n} THEN last[m] \cup {Absent} ELSE last[m]]
    BY <1>1, <1>2, <1>4 DEF IndInv, TypeOK
  <2>2. QED
    BY <1>2, <2>1, RefineBegin
<1>5. QED
  BY <1>3, <1>4

LEMMA RefineStartClear ==
    ASSUME IndInv, NEW t \in Thread, StartClear(t)
    PROVE  Store!Next
<1>1. last' = [n \in Name |-> IF n \in Listed THEN last[n] \cup {Absent} ELSE last[n]]
  BY DEF StartClear
<1>2. Listed \in SUBSET Name /\ UNCHANGED <<files, durable>>
  BY DEF StartClear, Listed, InDirectory, IndInv, TypeOK
<1>3. QED
  BY <1>1, <1>2, RefineBegin

LEMMA RefineRemoveFile ==
    ASSUME IndInv, NEW t \in Thread, RemoveFile(t), ~UNCHANGED <<files, last>>
    PROVE  Store!Next
<1>1. PutDoc(t) = Absent /\ op[t] \in Op /\ Len(op[t].todo) > 0
  BY AtHead DEF RemoveFile
<1>2. PICK n \in Name : n = PutName(t) /\ n = NameAt(op[t].todo, 1)
  BY AtHead DEF RemoveFile
<1>3. Absent \in last[n]
  <2>1. op[t].todo \in Todo
    BY <1>1 DEF Op
  <2>2. 1 \in 1..Len(op[t].todo)
    BY <1>1, <2>1, LenProperties DEF Todo
  <2>3. QED
    BY <1>2, <2>2 DEF IndInv, StageInv, Stage, RemoveFile
<1>4. /\ files' = [files EXCEPT ![n] = Absent] /\ UNCHANGED durable
      /\ last' = last \/ last' = [last EXCEPT ![n] = {Absent}]
  BY <1>1, <1>2 DEF RemoveFile, Settled
<1>5. Seen(Absent) = Absent
  BY DEF Seen
<1>6. Store!Change(n, Absent)
  BY <1>3, <1>4, <1>5, RefineChange
<1>7. Store!TakeEffect(n, Absent) \/ Store!Commit(n, Absent)
  BY <1>4, <1>6 DEF Store!TakeEffect, Store!Commit
<1>8. QED
  BY <1>7, RefineTake

LEMMA RefineFlush ==
    ASSUME IndInv, Flush
    PROVE  Store!Next
<1>1. PICK n \in Name : durable' = [durable EXCEPT ![n] = files[n]]
  BY DEF Flush
<1>2. UNCHANGED <<files, last>>
  BY DEF Flush
<1>3. \A m \in Name : durable'[m] = IF m = n THEN files[n] ELSE durable[m]
  BY <1>1 DEF IndInv, TypeOK
<1>4. Keeps' = [Keeps EXCEPT ![n] = Shows[n]] /\ UNCHANGED Shows
  BY <1>2, <1>3 DEF Keeps, Shows
<1>5. Dirty' = Dirty \ {n}
  BY <1>2, <1>3 DEF Dirty
<1>6. Store!Sync(n)
  BY <1>2, <1>4, <1>5 DEF Store!Sync, Shows, Keeps, Dirty
<1>7. QED
  BY <1>6 DEF Store!Next

LEMMA RefinePowerLoss ==
    ASSUME IndInv, IndInv', WholeInv, PowerLoss
    PROVE  Store!Next
<1>1. /\ durable' = files'
      /\ \A n \in Name : files'[n] \in {durable[n], files[n]} \cup
           (IF files[n] \notin {durable[n], Absent} THEN {Torn} ELSE {})
      /\ last' = [n \in Name |->
          IF durable[n] = files[n] THEN last[n]
          ELSE last[n] \cup {Seen(durable[n])} \cup (IF files[n] = Absent THEN {} ELSE {"error"})]
  BY DEF PowerLoss
<1>2. \A n \in Name : Shows[n] = Seen(files[n]) /\ Keeps[n] = Seen(durable[n])
                      /\ Shows[n] \in last[n]
  BY DEF Shows, Keeps, IndInv, FitInv
<1>3. \A n \in Name : Shows[n] = Absent <=> files[n] = Absent
  BY <1>2 DEF WholeInv, Whole, Seen
<1>4. Shows' \in [Name -> Store!Answers] /\ Keeps' = Shows' /\ Dirty' = {}
  <2>1. \A n \in Name : Seen(files'[n]) \in Store!Answers
    BY Envelope DEF IndInv, TypeOK, Store!Answers, Store!Contents
  <2>2. QED
    BY <1>1, <2>1 DEF Shows, Keeps, Dirty
<1> DEFINE Wreck(n) ==
      IF n \notin Dirty THEN {Shows[n]}
      ELSE {Shows[n], Keeps[n]} \cup (IF Shows[n] = Absent THEN {} ELSE {"error"})
<1>5. ASSUME NEW n \in Name
      PROVE  Shows'[n] \in Wreck(n)
  <2>1. Shows'[n] = Seen(files'[n])
    BY DEF Shows
  <2>2. CASE files'[n] = files[n]
    BY <1>2, <2>1, <2>2
  <2>3. CASE files'[n] = durable[n] /\ durable[n] # files[n]
    BY <1>2, <2>1, <2>3 DEF Dirty
  <2>4. CASE files'[n] = Torn /\ files[n] \notin {durable[n], Absent}
    BY <1>2, <1>3, <2>1, <2>4, Envelope DEF Dirty
  <2>5. QED
    BY <1>1, <2>2, <2>3, <2>4
<1>6. last' = [n \in Name |-> last[n] \cup Wreck(n)]
  <2>1. ASSUME NEW n \in Name
        PROVE  last'[n] = last[n] \cup Wreck(n)
    <3>1. CASE durable[n] = files[n]
      BY <1>1, <1>2, <3>1 DEF Dirty
    <3>2. CASE durable[n] # files[n]
      BY <1>1, <1>2, <1>3, <3>2 DEF Dirty
    <3>3. QED
      BY <3>1, <3>2
  <2>2. QED
    BY <1>1, <2>1
<1>7. \A n \in Name : Store!Wreck(n) = Wreck(n)
  BY DEF Store!Wreck, Shows, Keeps, Dirty
<1> HIDE DEF Wreck
<1>8. Store!LosePower
  BY <1>4, <1>5, <1>6, <1>7 DEF Store!LosePower, Shows, Keeps, Dirty
<1>9. QED
  BY <1>8 DEF Store!Next

LEMMA RefineDamage ==
    ASSUME IndInv, WholeInv, Damage
    PROVE  Store!Next
<1>1. PICK n \in Name, f \in File :
         /\ files[n] # Absent /\ Seen(f) = "error" /\ f # Absent
         /\ files' = [files EXCEPT ![n] = f]
         /\ durable' = [durable EXCEPT ![n] = f]
         /\ last' = [last EXCEPT ![n] = @ \cup {"error"}]
  BY DamageEffect
<1>2. \A m \in Name : /\ files'[m] = IF m = n THEN f ELSE files[m]
                      /\ durable'[m] = IF m = n THEN f ELSE durable[m]
  BY <1>1 DEF IndInv, TypeOK
<1>3. /\ Shows' = [Shows EXCEPT ![n] = "error"]
      /\ Keeps' = [Keeps EXCEPT ![n] = "error"]
  <2>1. /\ Shows' = [m \in Name |-> Seen(files'[m])]
        /\ Keeps' = [m \in Name |-> Seen(durable'[m])]
    BY DEF Shows, Keeps
  <2>2. /\ [Shows EXCEPT ![n] = "error"]
             = [m \in Name |-> IF m = n THEN "error" ELSE Seen(files[m])]
        /\ [Keeps EXCEPT ![n] = "error"]
             = [m \in Name |-> IF m = n THEN "error" ELSE Seen(durable[m])]
    BY DEF Shows, Keeps
  <2>3. \A m \in Name : /\ Seen(files'[m]) = IF m = n THEN "error" ELSE Seen(files[m])
                        /\ Seen(durable'[m]) = IF m = n THEN "error" ELSE Seen(durable[m])
    BY <1>1, <1>2
  <2>4. QED
    BY <2>1, <2>2, <2>3
<1>4. Dirty' = Dirty \ {n}
  BY <1>2 DEF Dirty
<1>5. Shows[n] # Absent
  BY <1>1 DEF Shows, WholeInv, Whole
<1>6. Store!Damage(n)
  BY <1>1, <1>3, <1>4, <1>5 DEF Store!Damage, Shows, Keeps, Dirty
<1>7. QED
  BY <1>6 DEF Store!Next

\* Callers of the backend may take it for a KeyStore.  The rename of a put and
\* the removal of a file are where its calls take effect; writing a temporary
\* file, the listings, a crash and every failure show nothing; and a loss of
\* power takes back only what was not written back, to what the disk had or
\* to an error (file.rs, put, delete, clear; persistence.rs, checksum).
THEOREM Refinement == Spec => IsKeyStore
<1>1. Init => Store!Init
  BY RefineInit
<1>2. IndInv /\ IndInv' /\ WholeInv /\ [Next]_vars
        => [Store!Next]_<<Shows, last, Keeps, Dirty>>
  <2> SUFFICES ASSUME IndInv, IndInv', WholeInv, [Next]_vars
               PROVE  Store!Next \/ UNCHANGED <<Shows, last, Keeps, Dirty>>
    OBVIOUS
  <2>1. UNCHANGED <<files, durable, last>> => UNCHANGED <<Shows, last, Keeps, Dirty>>
    BY DEF Shows, Keeps, Dirty
  <2>2. ASSUME NEW t \in Thread, Rename(t)
        PROVE  Store!Next \/ UNCHANGED <<files, durable, last>>
    <3>1. UNCHANGED <<durable, last>>
      BY <2>2 DEF Rename
    <3>2. QED
      BY <2>2, <3>1, RefineRename
  <2>3. ASSUME NEW t \in Thread, Invalidate(t)
        PROVE  Store!Next \/ UNCHANGED <<files, durable, last>>
    <3>1. op[t].todo = <<>> => UNCHANGED <<files, durable, last>>
      BY <2>3 DEF Invalidate
    <3>2. QED
      BY <2>3, <3>1, RefineInvalidate
  <2>4. ASSUME NEW t \in Thread, RemoveFile(t)
        PROVE  Store!Next \/ UNCHANGED <<files, durable, last>>
    <3>1. UNCHANGED durable
      BY <2>4 DEF RemoveFile
    <3>2. QED
      BY <2>4, <3>1, RefineRemoveFile
  <2>5. CASE UNCHANGED <<files, durable, last>>
    BY <2>1, <2>5
  <2>6. CASE \E t \in Thread : WriteTmp(t) \/ StartDelete(t) \/ StartClear(t)
    BY <2>6, RefineWriteTmp, RefineStartDelete, RefineStartClear
  <2>7. CASE Flush \/ PowerLoss \/ Damage
    BY <2>7, RefineFlush, RefinePowerLoss, RefineDamage
  <2>8. QED
    BY <2>1, <2>2, <2>3, <2>4, <2>5, <2>6, <2>7
       DEF Next, Step, StartPut, Load, StartKeys, Refresh, End, Crash, vars
<1>3. Spec => []WholeInv
  BY WholeInit, WholeStep, IndInvAlways, PTL DEF Spec
<1>4. QED
  BY <1>1, <1>2, <1>3, IndInvAlways, PTL DEF Spec, Store!Spec, IsKeyStore,
     Shows, Keeps, Dirty
=============================================================================
