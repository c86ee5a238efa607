------------------------------ MODULE DocStore ------------------------------
(***************************************************************************)
(* What the document store promises its callers, with no cache, no index   *)
(* files and no crash in sight.  shown[d] is what a load of document d     *)
(* returns; may[d] is the set of contents the calls made so far allow it   *)
(* to return.  A call that completes leaves exactly one content; a call    *)
(* that is under way, that failed halfway or that a crash cut short adds   *)
(* one content, and until the next completed call the store may answer     *)
(* with any of those, and change its mind.                                 *)
(***************************************************************************)
CONSTANTS Doc, Version, None

VARIABLES shown, may

Contents == Version \cup {None}

Init ==
    /\ shown = [d \in Doc |-> None]
    /\ may = [d \in Doc |-> {None}]

\* A call to give d the content x (None: to remove it) has reached the disk.
Begin(d, x) ==
    /\ may' = [may EXCEPT ![d] = @ \cup {x}]
    /\ \E y \in may'[d] : shown' = [shown EXCEPT ![d] = y]

\* The call returned Ok: x and nothing else is d's content.
Commit(d, x) ==
    /\ x \in may[d]
    /\ may' = [may EXCEPT ![d] = {x}]
    /\ shown' = [shown EXCEPT ![d] = x]

\* A crash, a restart or an eviction: only undecided documents may change.
Waver ==
    /\ shown' \in [Doc -> Contents]
    /\ \A d \in Doc : shown'[d] \in may[d]
    /\ UNCHANGED may

Next ==
    \/ \E d \in Doc, x \in Contents : Begin(d, x) \/ Commit(d, x)
    \/ Waver

Spec == Init /\ [][Next]_<<shown, may>>
=============================================================================
