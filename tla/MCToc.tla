------------------------------- MODULE MCToc --------------------------------
(***************************************************************************)
(* TocProcessor on small PDFs: a table of contents the patterns are sure   *)
(* of, one only the model can see, one with a blank page, none.            *)
(***************************************************************************)
EXTENDS TocProcessor, TLC

CONSTANTS A, B

Text(hits, digits, titles) ==
    [lines |-> 9, hits |-> hits, digits |-> digits, titles |-> titles, tokens |-> 2]

SmallDocuments ==
    {<<>>,
     <<Text(<<90, 70, 70>>, TRUE, {A}), Text(<<>>, FALSE, {A, B})>>,
     <<Text(<<90, 90>>, FALSE, {A}), Text(<<>>, FALSE, {B})>>,
     <<Text(<<>>, FALSE, {A}), Blank, Text(<<50>>, TRUE, {B})>>}
=============================================================================
