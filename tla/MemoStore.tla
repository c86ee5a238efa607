----------------------------- MODULE MemoStore ------------------------------
(***************************************************************************)
(* The memo store of vectorless-llm: an LRU cache of values under          *)
(* fingerprints of their keys, with expiry, invalidation and a file.       *)
(* Fingerprints do not collide: one is the tuple of what goes into it.     *)
(* Each call holds the lock of the cache; save, which holds it over its    *)
(* writing of the file, is one step, as a crash before its rename leaves   *)
(* the old file.                                                           *)
(***************************************************************************)
EXTENDS Subsequences, SequencesExt

CONSTANTS
    StoreModel,  \* the store's model_id
    Capacity     \* capacity asked for

ASSUME MemoAssumption == Capacity \in Nat

VARIABLES
    memo,      \* entries, most recently used first
    memoFile   \* entries in the file

memoVars == <<memo, memoFile>>

\* with_capacity: 0 means 1000.
Cap == IF Capacity = 0 THEN 1000 ELSE Capacity

\* make_key of a MemoKey without a model of its own.
MakeKey(op, input, version) == <<op, input, StoreModel, version>>

\* MemoKey::summary
SummaryKey(input) == MakeKey("summary", input, 1)

Keys(entries) == {entries[i].key : i \in DOMAIN entries}
Without(entries, k) == At(entries, {i \in DOMAIN entries : entries[i].key # k})
Entry(entries, k) == entries[CHOOSE i \in DOMAIN entries : entries[i].key = k]
Fresh(entries) == At(entries, {i \in DOMAIN entries : ~entries[i].old})

\* What is over the capacity goes, the least recent first.
Fitting(entries) == SubSeq(entries, 1, IF Len(entries) > Cap THEN Cap ELSE Len(entries))

\* An LRU put: e becomes the first.
Putting(entries, e) == Fitting(<<e>> \o Without(entries, e.key))

MemoInit == memo = <<>> /\ memoFile = <<>>

\* get: a hit makes the entry the most recent, an expired one is dropped.
IsHit(k) == k \in Keys(memo) /\ ~Entry(memo, k).old

Get(k) ==
    /\ memo' = IF IsHit(k) THEN <<Entry(memo, k)>> \o Without(memo, k)
                           ELSE Without(memo, k)
    /\ UNCHANGED memoFile

\* put_with_tokens
Put(k, v) ==
    /\ memo' = Putting(memo, [key |-> k, val |-> v, old |-> FALSE])
    /\ UNCHANGED memoFile

\* The TTL of an entry is over, here and in the file.
Expire ==
    \E k \in Keys(memo) \cup Keys(memoFile) :
        LET Older(entries) ==
              [i \in DOMAIN entries |->
                 IF entries[i].key = k THEN [entries[i] EXCEPT !.old = TRUE]
                                       ELSE entries[i]]
        IN  /\ memo' = Older(memo) /\ memoFile' = Older(memoFile)
            /\ memoVars' # memoVars

\* save prunes and writes what is left.
Save ==
    /\ memo' = Fresh(memo) /\ memoFile' = memo'
    /\ memoVars' # memoVars

\* A new store loads the file: entries are put one by one, in the order of a
\* hash map, which has no key twice.
Load ==
    /\ \E loaded \in SetToSeqs(ToSet(Fresh(memoFile))) : memo' = Fitting(loaded)
    /\ UNCHANGED memoFile

\* clear, invalidate_by_model_prefix, invalidate_by_op_type and remove.
Invalidate ==
    /\ memo # <<>>
    /\ memo' \in {<<>>} \cup {Without(memo, k) : k \in Keys(memo)}
    /\ UNCHANGED memoFile
=============================================================================
