----------------------------- MODULE FileStore ------------------------------
(***************************************************************************)
(* FileBackend and the envelope of persistence.rs: one file per key, a     *)
(* temporary file beside it, a cached listing, and what a load makes of    *)
(* the bytes it reads.  A step is one call of the file system; any may     *)
(* fail, and the process may end between any two.  A put is not synced:    *)
(* when power is lost the rename, the data or neither may have reached the *)
(* disk.                                                                   *)
(*                                                                         *)
(* Callers keep the discipline of the workspace lock: a writer alone, or   *)
(* readers.                                                                *)
(***************************************************************************)
EXTENDS Naturals, Sequences, FiniteSets

CONSTANTS
    Key,        \* keys
    Name,       \* file names
    FileOf,     \* key_to_path: the name of each key
    Doc,        \* documents
    Thread,     \* callers
    Older,      \* what earlier programs, or a newer one, left in a file
    MaxWrites,  \* bounds the writing calls
    MaxFaults,  \* bounds failures, crashes, power losses and damage
    Absent

\* A file: the envelope and the document in it.
File == [format : Nat, sum : Doc \cup {Absent}, body : Doc \cup {Absent}, schema : Nat]

ASSUME FileStoreAssumption ==
    /\ FileOf \in [Key -> Name] /\ IsFiniteSet(Name)
    /\ Absent \notin Doc \cup File \cup {"error"} /\ Older \subseteq File
    /\ MaxWrites \in Nat /\ MaxFaults \in Nat

VARIABLES
    files,    \* the .bin files
    tmps,     \* the .tmp files
    durable,  \* what is on the disk for sure
    listing,  \* the cached listing, or Absent
    op,       \* the call each thread is in
    last,     \* history: what a load of each name may give, by what the calls
              \* so far returned: documents, Absent, or "error"
    writes, faults

vars == <<files, tmps, durable, listing, op, last, writes, faults>>

(***************************************************************************)
(* The envelope.                                                           *)
(***************************************************************************)
FormatVersion == 2
CurrentSchema == 1
Bytes(format, sum, body, schema) ==
    [format |-> format, sum |-> sum, body |-> body, schema |-> schema]

\* save_document_to_bytes
Saved(d) == Bytes(FormatVersion, d, d, CurrentSchema)

\* Bytes that do not parse.
Torn == Bytes(0, Absent, Absent, 0)

\* Mutant: the checksum is not compared.
LoadedUnchecked(b) ==
    IF b.format # FormatVersion \/ b.schema > CurrentSchema THEN "error" ELSE b.body

\* load_document_from_bytes: a document or an error.  A schema version of 0
\* is only warned about.
Loaded(b) ==
    IF b.format # FormatVersion \/ b.sum # b.body \/ b.schema > CurrentSchema
    THEN "error" ELSE b.body

\* What a get makes of a file.
Seen(f) == IF f = Absent THEN Absent ELSE Loaded(f)

\* A file with a sound envelope has a document in it.
ASSUME OlderAssumption == \A f \in Older : Loaded(f) # Absent

(***************************************************************************)
(* Calls.                                                                  *)
(***************************************************************************)
NoOp == [kind |-> "none", at |-> "", todo |-> <<>>, res |-> Absent]
Writing(o) == o.kind \in {"put", "delete", "clear"}
Reading(o) == o.kind \in {"load", "keys"}

\* The workspace's RwLock.
Free(t, writing) ==
    /\ op[t].kind = "none"
    /\ \A u \in Thread \ {t} : ~Writing(op[u]) /\ (writing => ~Reading(op[u]))

Goto(t, at) == op' = [op EXCEPT ![t].at = at]
Return(t) == op' = [op EXCEPT ![t] = NoOp]

Names(todo) == {FileOf[todo[i][1]] : i \in DOMAIN todo}

Init ==
    /\ files \in [Name -> {Absent} \cup Older]
    /\ tmps = [n \in Name |-> Absent] /\ durable = files /\ listing = Absent
    /\ op = [t \in Thread |-> NoOp]
    /\ last = [n \in Name |-> {Seen(files[n])}]
    /\ writes = 0 /\ faults = 0

Fault == faults < MaxFaults /\ faults' = faults + 1
Write == writes < MaxWrites /\ writes' = writes + 1

\* put and batch_put of several.
StartPut(t) ==
    /\ Free(t, TRUE) /\ Write
    /\ \E k, l \in Key, d \in Doc : \E todo \in {<<<<k, d>>>>, <<<<k, d>>, <<l, d>>>>} :
         op' = [op EXCEPT ![t] = [NoOp EXCEPT !.kind = "put", !.at = "write", !.todo = todo]]
    /\ UNCHANGED <<files, tmps, durable, listing, last, faults>>

PutName(t) == FileOf[Head(op[t].todo)[1]]
PutDoc(t) == Head(op[t].todo)[2]

\* What comes of the head of the list is not known until it is done.
Unsettled(t) == [last EXCEPT ![PutName(t)] = @ \cup {PutDoc(t)}]
Settled(t) == [last EXCEPT ![PutName(t)] = {PutDoc(t)}]

\* Mutant: the file itself is written, without a temporary one.
WriteInPlace(t) ==
    /\ op[t].at = "write" /\ last' = Unsettled(t)
    /\ \/ /\ files' = [files EXCEPT ![PutName(t)] = Saved(PutDoc(t))]
          /\ Goto(t, "invalidate") /\ UNCHANGED faults
       \/ /\ files' = [files EXCEPT ![PutName(t)] = Torn]
          /\ Fault /\ Return(t)
    /\ UNCHANGED <<tmps, durable, listing, writes>>

\* fs::write of the temporary file, whole or in part.
WriteTmp(t) ==
    /\ op[t].at = "write" /\ last' = Unsettled(t)
    /\ \/ /\ tmps' = [tmps EXCEPT ![PutName(t)] = Saved(PutDoc(t))]
          /\ Goto(t, "rename") /\ UNCHANGED faults
       \/ /\ tmps' = [tmps EXCEPT ![PutName(t)] = Torn]
          /\ Fault /\ Return(t)
    /\ UNCHANGED <<files, durable, listing, writes>>

\* fs::rename
Rename(t) ==
    /\ op[t].at = "rename"
    /\ \/ /\ files' = [files EXCEPT ![PutName(t)] = tmps[PutName(t)]]
          /\ tmps' = [tmps EXCEPT ![PutName(t)] = Absent]
          /\ Goto(t, "invalidate") /\ UNCHANGED faults
       \/ Fault /\ Return(t) /\ UNCHANGED <<files, tmps>>
    /\ UNCHANGED <<durable, listing, last, writes>>

\* Mutant: a put leaves the listing as it was.
InvalidateDeletesOnly(t) ==
    /\ op[t].at = "invalidate"
    /\ last' = IF op[t].todo = <<>> THEN last ELSE Settled(t)
    /\ listing' = IF op[t].kind = "put" THEN listing ELSE Absent
    /\ IF Len(op[t].todo) > 1
       THEN op' = [op EXCEPT ![t].todo = Tail(@), ![t].at = "write"]
       ELSE Return(t)
    /\ UNCHANGED <<files, tmps, durable, writes, faults>>

\* invalidate_cache, the end of a put or a delete; batch_put goes on, a clear
\* may have had nothing to remove.
Invalidate(t) ==
    /\ op[t].at = "invalidate" /\ listing' = Absent
    /\ last' = IF op[t].todo = <<>> THEN last ELSE Settled(t)
    /\ IF Len(op[t].todo) > 1
       THEN op' = [op EXCEPT ![t].todo = Tail(@), ![t].at = "write"]
       ELSE Return(t)
    /\ UNCHANGED <<files, tmps, durable, writes, faults>>

\* delete: a key without a file is not an error.
StartDelete(t) ==
    /\ Free(t, TRUE) /\ Write
    /\ \E k \in Key :
         IF files[FileOf[k]] = Absent
         THEN UNCHANGED op /\ last' = [last EXCEPT ![FileOf[k]] = {Absent}]
         ELSE /\ op' = [op EXCEPT ![t] = [NoOp EXCEPT !.kind = "delete",
                           !.at = "remove", !.todo = <<<<k, Absent>>>>]]
              /\ last' = [last EXCEPT ![FileOf[k]] = @ \cup {Absent}]
    /\ UNCHANGED <<files, tmps, durable, listing, faults>>

InDirectory == {n \in Name : files[n] # Absent}
Listed == IF listing = Absent THEN InDirectory ELSE listing

\* clear removes what the listing names, and forgets it at the end.
StartClear(t) ==
    /\ Free(t, TRUE) /\ Write /\ listing' = Listed
    /\ \E todo \in [1..Cardinality(Listed) -> Key \X {Absent}] :
         /\ Names(todo) = Listed
         /\ op' = [op EXCEPT ![t] = [NoOp EXCEPT !.kind = "clear", !.todo = todo,
                                  !.at = IF todo = <<>> THEN "invalidate" ELSE "remove"]]
    /\ last' = [n \in Name |-> IF n \in Listed THEN last[n] \cup {Absent} ELSE last[n]]
    /\ UNCHANGED <<files, tmps, durable, faults>>

\* remove_file, of a file that exists.
RemoveFile(t) ==
    /\ op[t].at = "remove"
    /\ \/ /\ files' = [files EXCEPT ![PutName(t)] = Absent]
          /\ op' = IF Len(op[t].todo) > 1 THEN [op EXCEPT ![t].todo = Tail(@)]
                   ELSE [op EXCEPT ![t].at = "invalidate"]
          /\ last' = IF Len(op[t].todo) > 1 THEN Settled(t) ELSE last
          /\ UNCHANGED faults
       \/ /\ Fault /\ files[PutName(t)] # Absent /\ Return(t)
          /\ UNCHANGED <<files, last>>
    /\ UNCHANGED <<tmps, durable, listing, writes>>

\* get, and what the caller makes of the bytes.
Load(t) ==
    /\ Free(t, FALSE)
    /\ \E k \in Key :
         op' = [op EXCEPT ![t] = [kind |-> "load", at |-> "loaded", todo |-> <<<<k, Absent>>>>,
                   res |-> IF files[FileOf[k]] = Absent THEN Absent
                           ELSE Loaded(files[FileOf[k]])]]
    /\ UNCHANGED <<files, tmps, durable, listing, last, writes, faults>>

\* keys: the cached listing, or the directory, which then goes to the cache.
StartKeys(t) ==
    /\ Free(t, FALSE)
    /\ op' = [op EXCEPT ![t] =
                IF listing # Absent
                THEN [NoOp EXCEPT !.kind = "keys", !.at = "listed", !.res = listing]
                ELSE [NoOp EXCEPT !.kind = "keys", !.at = "refresh",
                                  !.res = {n \in Name : files[n] # Absent}]]
    /\ UNCHANGED <<files, tmps, durable, listing, last, writes, faults>>

Refresh(t) ==
    /\ op[t].at = "refresh" /\ listing' = op[t].res /\ Goto(t, "listed")
    /\ UNCHANGED <<files, tmps, durable, last, writes, faults>>

End(t) ==
    /\ op[t].at \in {"loaded", "listed"} /\ op' = [op EXCEPT ![t] = NoOp]
    /\ UNCHANGED <<files, tmps, durable, listing, last, writes, faults>>

(***************************************************************************)
(* The world.                                                              *)
(***************************************************************************)
\* The system writes a file back.
Flush ==
    /\ \E n \in Name : durable' = [durable EXCEPT ![n] = files[n]] /\ durable[n] # files[n]
    /\ UNCHANGED <<files, tmps, listing, op, last, writes, faults>>

Crash ==
    /\ Fault /\ \E t \in Thread : op[t].kind # "none"
    /\ op' = [t \in Thread |-> NoOp] /\ listing' = Absent
    /\ UNCHANGED <<files, tmps, durable, last, writes>>

\* What was not written back is there, gone, or torn.
PowerLoss ==
    /\ Fault /\ durable # files
    /\ files' \in {f \in [Name -> {files[n] : n \in Name} \cup {durable[n] : n \in Name}
                                    \cup {Torn}] :
          \A n \in Name : f[n] \in {durable[n], files[n]} \cup
             (IF files[n] \notin {durable[n], Absent} THEN {Torn} ELSE {})}
    /\ durable' = files' /\ tmps' = [n \in Name |-> Absent]
    /\ op' = [t \in Thread |-> NoOp] /\ listing' = Absent
    /\ last' = [n \in Name |->
          IF durable[n] = files[n] THEN last[n]
          ELSE last[n] \cup {Seen(durable[n])} \cup (IF files[n] = Absent THEN {} ELSE {"error"})]
    /\ UNCHANGED writes

\* A bit of a stored document flips, between calls.  No flip mends another.
Damage ==
    /\ Fault /\ \A t \in Thread : op[t].kind = "none"
    /\ \E n \in Name, d \in Doc :
         /\ files[n] # Absent /\ files[n].body \in Doc \ {d} /\ d # files[n].sum
         /\ files' = [files EXCEPT ![n].body = d]
         /\ durable' = [durable EXCEPT ![n] = files'[n]]
         /\ last' = [last EXCEPT ![n] = @ \cup {"error"}]
    /\ UNCHANGED <<tmps, listing, op, writes>>

Step(t) ==
    \/ StartPut(t) \/ WriteTmp(t) \/ Rename(t) \/ Invalidate(t)
    \/ StartDelete(t) \/ StartClear(t) \/ RemoveFile(t)
    \/ Load(t) \/ StartKeys(t) \/ Refresh(t) \/ End(t)

Next == (\E t \in Thread : Step(t)) \/ Flush \/ Crash \/ PowerLoss \/ Damage

Spec == Init /\ [][Next]_vars

(***************************************************************************)
(* Properties.                                                             *)
(***************************************************************************)
\* A load gives what the calls that returned let one expect: the document of
\* the last put of that file that returned Ok, or of one since that did not
\* return; whole, or an error and only after a loss of power, damage or a
\* program of another version.  No crash between the writing and the renaming
\* of a temporary file, and no failing call, makes a stored document
\* unreadable or mixes two (file.rs, put; persistence.rs, checksum and version).
LoadIsPromised ==
    \A t \in Thread : op[t].at = "loaded" =>
        op[t].res \in last[FileOf[op[t].todo[1][1]]]

\* The listing a rebuild of the indices starts from names every stored file:
\* the cached copy is forgotten by every call that adds one (file.rs,
\* refresh_cache, invalidate_cache).
FilesAreListed ==
    \A t \in Thread : op[t].at = "listed" => InDirectory \subseteq op[t].res

\* With its temporary files, renames, list of keys and half-done calls the
\* backend is a KeyStore: every call changes the content of a name in one
\* step, for good once it has returned and the disk has caught up, and what a
\* crash cuts short has happened or has not (file.rs, put, delete, clear).
Store == INSTANCE KeyStore WITH
           shown <- [n \in Name |-> Seen(files[n])], may <- last,
           kept <- [n \in Name |-> Seen(durable[n])],
           dirty <- {n \in Name : durable[n] # files[n]}
IsKeyStore == Store!Spec
=============================================================================
