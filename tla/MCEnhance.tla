----------------------------- MODULE MCEnhance ------------------------------
(***************************************************************************)
(* Enhance on a document of three nodes and its next version, in which a   *)
(* leaf has become a branch.                                               *)
(***************************************************************************)
EXTENDS Enhance, TLC

CONSTANTS r, a, b, top, t, u, m1, m2

Node(text, kids) == [text |-> text, kids |-> kids]

\* a and b say the same; then b gets a child of a's kind.
TwoVersions ==
    <<(r :> Node(NoContent, <<a, b>>)) @@ (a :> Node(t, <<>>)) @@ (b :> Node(t, <<>>)),
      (r :> Node(u, <<b>>)) @@ (b :> Node(t, <<a>>)) @@ (a :> Node(t, <<>>))>>

AllFirst == [n \in Caller |-> m1]
\* A chain without the first model, and one that would go round for ever.
TwoChains == {<<m2>>, <<m2, m1, m2>>}
=============================================================================
