------------------------------ MODULE KeyStore ------------------------------
(***************************************************************************)
(* What a persistent key-value store promises, with no files, threads and  *)
(* calls in sight.  shown[n] is what a load of name n gives: a document,   *)
(* Absent or "error".  may[n] is what the calls made so far let a caller   *)
(* expect of it: one content once a call has returned Ok, and one more for *)
(* each call since that is under way or failed.  A change of content is    *)
(* one step, and not on the disk before it is synced: kept[n] is what the  *)
(* disk has for sure, dirty the names it may have something else for.      *)
(***************************************************************************)
CONSTANTS Name, Doc, Absent

VARIABLES shown, may, kept, dirty

Contents == Doc \cup {Absent}
Answers == Contents \cup {"error"}

Init ==
    /\ shown \in [Name -> Answers] /\ kept = shown
    /\ may = [n \in Name |-> {shown[n]}]
    /\ dirty = {}

\* A call that gives the names N the content x is under way.
Begin(N, x) ==
    /\ may' = [n \in Name |-> IF n \in N THEN may[n] \cup {x} ELSE may[n]]
    /\ UNCHANGED <<shown, kept, dirty>>

Change(n, x) ==
    /\ x \in may[n]
    /\ shown' = [shown EXCEPT ![n] = x]
    /\ dirty' \in {dirty \cup {n}, dirty \ {n}}
    /\ n \notin dirty' => kept[n] = x
    /\ UNCHANGED kept

\* The content changes, whole and at once, before its call returns.
TakeEffect(n, x) == Change(n, x) /\ UNCHANGED may

\* The call returned Ok: x and nothing else is the content of n.
Commit(n, x) == Change(n, x) /\ may' = [may EXCEPT ![n] = {x}]

Sync(n) ==
    /\ kept' = [kept EXCEPT ![n] = shown[n]]
    /\ dirty' = dirty \ {n}
    /\ UNCHANGED <<shown, may>>

\* What a loss of power may make of a name: only one that is not synced loses
\* its content, and only one that had a content becomes unreadable.
Wreck(n) ==
    IF n \notin dirty THEN {shown[n]}
    ELSE {shown[n], kept[n]} \cup (IF shown[n] = Absent THEN {} ELSE {"error"})

LosePower ==
    /\ shown' \in [Name -> Answers] /\ kept' = shown'
    /\ \A n \in Name : shown'[n] \in Wreck(n)
    /\ may' = [n \in Name |-> may[n] \cup Wreck(n)]
    /\ dirty' = {}

\* A stored document is damaged: a load fails and gives no other document.
Damage(n) ==
    /\ shown[n] # Absent
    /\ shown' = [shown EXCEPT ![n] = "error"]
    /\ kept' = [kept EXCEPT ![n] = "error"]
    /\ may' = [may EXCEPT ![n] = @ \cup {"error"}]
    /\ dirty' = dirty \ {n}

Next ==
    \/ \E N \in SUBSET Name, x \in Contents : Begin(N, x)
    \/ \E n \in Name, x \in Contents : TakeEffect(n, x) \/ Commit(n, x)
    \/ \E n \in Name : Sync(n) \/ Damage(n)
    \/ LosePower

Spec == Init /\ [][Next]_<<shown, may, kept, dirty>>
=============================================================================
