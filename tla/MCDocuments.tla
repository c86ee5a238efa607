----------------------------- MODULE MCDocuments -----------------------------
(***************************************************************************)
(* Small sources: sections with small neighbours, a long text with rules,  *)
(* code and a heading inside it, a preamble, text without a heading, an    *)
(* empty source, gaps between levels, equal titles, nodes with pages and   *)
(* references.  After some of them the graph is built, of the document     *)
(* compiled and of others.                                                 *)
(***************************************************************************)
EXTENDS GraphRebuild, MCCrossGraph

Piece(id, size) == [id |-> id, heading |-> FALSE, size |-> size, refs |-> <<>>]
H(level, name) == [kind |-> "heading", level |-> level, name |-> name]
T(id, size) == [kind |-> "text", piece |-> Piece(id, size)]
Code(id, size) == [kind |-> "code", piece |-> Piece(id, size)]
Rule == [kind |-> "rule"]

Markdown(blocks) == [format |-> "markdown", name |-> "doc", blocks |-> blocks, nodes |-> <<>>]
PreParsed(nodes) == [format |-> "nodes", name |-> "doc", blocks |-> <<>>, nodes |-> nodes]

Node(level, name, id, page, refs) ==
    [title |-> Title(name), level |-> level, page |-> page, tokens |-> 2,
     text |-> <<[id |-> id, heading |-> FALSE, line |-> FALSE, para |-> FALSE,
                 size |-> 2, refs |-> refs]>>]
Ref(kind, target) == [kind |-> kind, target |-> target]

Sections == Markdown(<<H(1, "A"), T("a", 1), H(2, "B"), T("b", 1), H(2, "C"), T("c", 1),
                       H(1, "D"), T("a", 1)>>)
Moved    == Markdown(<<H(1, "A"), T("a", 1), H(2, "B"), T("b", 1), H(1, "C"), T("c", 1),
                       H(2, "D"), T("a", 1)>>)
Reworded == Markdown(<<H(1, "A"), T("a", 1), H(2, "B"), T("x", 1), H(2, "C"), T("c", 1),
                       H(1, "D"), T("a", 1)>>)
Long     == Markdown(<<H(1, "A"), T("a", 3), Rule, T("b", 3), H(5, "E"), T("e", 3),
                       Code("c", 2), T("d", 3), H(1, "B"), T("f", 2), Rule, T("g", 4)>>)
Grown    == Markdown(<<H(1, "A"), T("a", 3), Rule, T("b", 3), Code("c", 2), T("d", 3),
                       H(1, "B"), T("f", 2), Rule, T("g", 4)>>)
Preamble == Markdown(<<T("p", 1), H(1, "A"), T("a", 2), H(2, "B"), T("b", 2)>>)
Intro    == Markdown(<<H(1, ""), T("p", 1)>>)
Nothing  == Markdown(<<>>)
Gaps     == Markdown(<<H(1, "A"), H(3, "B"), T("b", 1), H(2, "C"), H(3, "D"), T("d", 1),
                       H(1, "E"), H(2, "F"), T("f", 5)>>)
Twins    == Markdown(<<H(1, "A"), T("a", 2), H(1, "A"), T("b", 2), H(1, "B"), T("a", 2)>>)
Pages    == PreParsed(<<Node(1, "A", "a", 1, <<Ref("section", <<2, 1>>), Ref("page", 3)>>),
                        Node(2, "B", "b", 2, <<Ref("title", "F")>>),
                        Node(1, "C", "c", 0, <<Ref("section", <<1, 0>>)>>),
                        Node(2, "F", "d", 3, <<Ref("equation", <<1>>)>>),
                        Node(2, "G", "e", 4, <<Ref("title", "A")>>)>>)

SmallSources ==
    {Sections, Long, Preamble, Intro, Nothing, Gaps, Twins, Pages}
SmallEdits ==
    {<<Sections, Moved>>, <<Sections, Reworded>>, <<Long, Grown>>, <<Twins, Sections>>,
     <<Gaps, Sections>>, <<Sections, Sections>>}
AllOptions ==
    [thinning : {"off", "drop", "merge"}, writer : {"split", "enrich", "each"}, split : BOOLEAN]
NavigatedSources ==
    {Gaps, Long} \X {o \in AllOptions : o.writer # "each" /\ o.thinning # "drop" /\ o.split}
RebuiltSources ==
    {Nothing, Twins} \X {[thinning |-> "off", writer |-> "enrich", split |-> FALSE]}
=============================================================================
