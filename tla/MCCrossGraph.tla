---------------------------- MODULE MCCrossGraph ----------------------------
(***************************************************************************)
(* Documents with no keywords, too few, as many as are kept and more, equal *)
(* weights and equal documents.                                            *)
(***************************************************************************)
EXTENDS CrossGraph

Word(a, b, c, d) ==
    LET w == [a |-> a, b |-> b, c |-> c, d |-> d]
    IN  [k \in {k \in DOMAIN w : w[k] # <<>>} |-> w[k]]

SmallTopics ==
    {Word(<<>>, <<>>, <<>>, <<>>),
     Word(<<2>>, <<>>, <<>>, <<>>),
     Word(<<2>>, <<4, 2>>, <<>>, <<>>),
     Word(<<6>>, <<2>>, <<2, 2>>, <<>>),
     Word(<<2>>, <<2>>, <<4>>, <<4>>),
     Word(<<2>>, <<2>>, <<2>>, <<2>>),
     Word(<<>>, <<6>>, <<4>>, <<2, 4>>),
     Word(<<8>>, <<>>, <<2>>, <<6>>)}
=============================================================================
