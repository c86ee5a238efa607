------------------------------- MODULE MCAsk --------------------------------
(***************************************************************************)
(* Two asks over two documents, one at a time or overlapping.              *)
(***************************************************************************)
EXTENDS Ask

CONSTANTS a1, a2, d1, d2

McCards == <<d1, d2>>
McNode == {"n1", "n2", "n3"}

\* The keywords overlap by eight tenths; the first query is not simple unless
\* it is after a fact.
McQueryOf == (a1 :> "long") @@ (a2 :> "simple")
McKeywords == [long |-> {"k1", "k2", "k3", "k4", "k5"},
               simple |-> {"k1", "k2", "k3", "k4"}]

\* The indices of d1 propose a section, twice, and a container; those of d2
\* nothing.
Proposed(n, s) == [node |-> n, score |-> s]
McProposals ==
    [q \in {"long", "simple"} |->
        (d1 :> <<Proposed("n1", 70), Proposed("n2", 65), Proposed("n1", 60)>>)
          @@ (d2 :> <<>>)]
McToc == (d1 :> <<"n1", "n2">>) @@ (d2 :> <<"n1">>)
McKids == (d1 :> [n1 |-> {}, n2 |-> {"n3"}, n3 |-> {}])
            @@ (d2 :> [n1 |-> {}, n2 |-> {}, n3 |-> {}])

\* n3 says something else than n1; d2 says much the same as n1, and n2 little.
McWords == (d1 :> [n1 |-> {1, 2, 3, 4}, n2 |-> {1}, n3 |-> {5, 6}])
             @@ (d2 :> [n1 |-> {1, 2, 3, 4, 5}, n2 |-> {}, n3 |-> {}])
McPathOf == (d1 :> [n1 |-> "A", n2 |-> "B", n3 |-> "B/C"])
              @@ (d2 :> [n1 |-> "A", n2 |-> "B", n3 |-> "C"])
McNameOf == (d1 :> "D1") @@ (d2 :> "D2")

\* A number that is no document's, and one document named twice.
McPlanAnswers == {<<>>, <<1>>, <<2, 7>>}
McPickAnswers ==
    {[targets |-> <<"n1", "n1">>, expand |-> {}, done |-> TRUE],
     [targets |-> <<>>, expand |-> {"n2"}, done |-> FALSE]}
McBeamAnswers == {<<>>, <<"n3">>}
=============================================================================
