---------------------------- MODULE DocumentTree ----------------------------
(***************************************************************************)
(* DocumentTree and its RetrievalIndex: an arena of nodes, numbered in the *)
(* order they were allocated, with node 1 the root, and the cached list of *)
(* leaves that add_child keeps up to date.                                 *)
(*                                                                         *)
(* A text is a sequence of pieces:                                         *)
(*   id       what it says, and the keyword it yields                      *)
(*   heading  it begins with #                                             *)
(*   line, para   it stands on a line of its own, after a blank line       *)
(*   size     its tokens, and its bytes                                    *)
(*   refs     the cross-references in it                                   *)
(* A title is the words of it (name), the part number split gave it (0:    *)
(* none) and the mark optimize put on it.  A structure number is a         *)
(* sequence: 2.1 is <<2, 1>>.  pages is <<>> or the pair of boundaries.    *)
(***************************************************************************)
EXTENDS Integers, Sequences, FiniteSets, SequencesExt, FiniteSetsExt, Subsequences

IsSeq(s) == s \in Seq(ToSet(s))
IsText(text) ==
    /\ IsSeq(text)
    /\ \A i \in DOMAIN text :
          DOMAIN text[i] = {"id", "heading", "line", "para", "size", "refs"}

Title(name) == [name |-> name, part |-> 0, mark |-> "no"]

NewNode(title, text, num, parent) ==
    [title |-> title, text |-> text, num |-> num, parent |-> parent,
     depth |-> Len(num), kids |-> <<>>, pages |-> <<>>, tokens |-> 0,
     key |-> 0, refs |-> <<>>, hints |-> 0, tags |-> {}]

Root == 1
NewTree(title) ==
    [nodes |-> <<NewNode(title, <<>>, <<>>, 0)>>, leaves |-> <<Root>>]

Nodes(t) == DOMAIN t.nodes
Children(t, n) == t.nodes[n].kids
IsLeaf(t, n) == Children(t, n) = <<>>

\* add_child: the structure number is the parent's and the child's place;
\* the parent is no leaf any more, the child is one.
AddChild(t, parent, title, text) ==
    LET n == Len(t.nodes) + 1
        kid == NewNode(title, text,
                       Append(t.nodes[parent].num, Len(Children(t, parent)) + 1), parent)
    IN  [nodes |-> Append([t.nodes EXCEPT ![parent].kids = Append(@, n)], kid),
         leaves |-> Append(At(t.leaves, {i \in DOMAIN t.leaves : t.leaves[i] # parent}), n)]

\* traverse: a stack of nodes, children pushed in reverse; walk[k] is what
\* k rounds have put out and left on the stack.
Traverse(t) ==
    LET walk[k \in 0..Len(t.nodes)] ==
            IF k = 0 THEN [out |-> <<>>, stack |-> <<Root>>]
            ELSE LET w == walk[k - 1]
                 IN  IF w.stack = <<>> THEN w
                     ELSE [out |-> Append(w.out, Last(w.stack)),
                           stack |-> Front(w.stack) \o Reverse(Children(t, Last(w.stack)))]
    IN  walk[Len(t.nodes)].out

\* collect_subtree: the node and what hangs below it.
Subtree(t, n) ==
    LET below[k \in 0..Len(t.nodes)] ==
            IF k = 0 THEN {n}
            ELSE below[k - 1] \cup UNION {ToSet(Children(t, m)) : m \in below[k - 1]}
    IN  below[Len(t.nodes)]

\* ancestors_iter begins with the node itself, and path_from_root adds the
\* node once more at the end.
AncestorsIter(t, n) ==
    LET up[i \in 1..(t.nodes[n].depth + 1)] ==
            IF i = 1 THEN n ELSE t.nodes[up[i - 1]].parent
    IN  up
PathFromRoot(t, n) == Append(Reverse(AncestorsIter(t, n)), n)

Covers(range, page) == range # <<>> /\ range[1] <= page /\ page <= range[2]

\* structure_index and page_index of build_retrieval_index.  Nodes are
\* visited level by level and a page keeps the last node that has it.
FindByStructure(t, num) == {n \in Nodes(t) : num # <<>> /\ t.nodes[n].num = num}
FindByPage(t, page) ==
    LET S == {n \in Nodes(t) : Covers(t.nodes[n].pages, page)}
        deepest == Max({t.nodes[n].depth : n \in S})
        order == SelectSeq(Traverse(t), LAMBDA n : n \in S /\ t.nodes[n].depth = deepest)
    IN  IF S = {} THEN {} ELSE {Last(order)}

(***************************************************************************)
(* Texts.                                                                  *)
(***************************************************************************)
Size(text) == FoldLeft(LAMBDA acc, p : acc + p.size, 0, text)
Pieces(text) == {text[i].id : i \in DOMAIN text}

\* A text on a new line, and two texts with a blank line between them.
NewLine(text, blank) ==
    [i \in DOMAIN text |->
        IF i = 1 THEN [text[1] EXCEPT !.line = TRUE, !.para = @ \/ blank] ELSE text[i]]
Join(a, b) == IF a = <<>> THEN b ELSE a \o NewLine(b, TRUE)
=============================================================================
