--------------------------- MODULE MarkdownParser ---------------------------
(***************************************************************************)
(* MarkdownParser::extract_nodes_from_events: the raw nodes of a Markdown  *)
(* source.  A source is a sequence of blocks, which are the events of the  *)
(* CommonMark parser grouped by what they belong to:                       *)
(*   [kind |-> "heading", level, name]   name is "" for an empty heading   *)
(*   [kind |-> "text" or "code", piece]  a piece, see DocumentTree         *)
(*   [kind |-> "rule"]                                                     *)
(* Paragraphs are put one after the other with nothing in between: only    *)
(* code blocks and rules break a line.  ends says what the buffer ends     *)
(* with: "text", "line" (a newline) or "blank" (a blank line).             *)
(***************************************************************************)
EXTENDS DocumentTree

CONSTANTS
    MinLevel, MaxLevel,   \* headings outside these are content
    CodeBlocks,           \* include_code_blocks
    PreambleNode          \* create_preamble_node

ASSUME LevelsAssumption == MinLevel \in Nat /\ MaxLevel \in Nat

\* A raw node.  tokens is its own count; page 0 is none.
RawNode(title, level, text) ==
    [title |-> title, level |-> level, text |-> text, page |-> 0, tokens |-> Size(text)]

NoNode == [name |-> "", level |-> 0]

\* finish_current_node.  What stands before the first node becomes the
\* preamble and leaves the buffer; the first node takes it.
FinishNode(s) ==
    LET first == s.nodes = <<>>
        moved == first /\ s.buffer # <<>>
        preamble == IF moved /\ PreambleNode THEN s.buffer ELSE s.preamble
        buffer == IF moved THEN <<>> ELSE s.buffer
        text == IF first THEN Join(preamble, buffer) ELSE buffer
    IN  IF s.current = NoNode
        THEN [s EXCEPT !.buffer = <<>>, !.preamble = preamble, !.ends = "text"]
        ELSE [nodes |-> Append(s.nodes, RawNode(Title(s.current.name), s.current.level, text)),
              current |-> NoNode, buffer |-> <<>>, ends |-> "text",
              preamble |-> IF first THEN <<>> ELSE preamble]

\* A piece goes behind what the buffer ends with.
Put(s, piece) ==
    [s EXCEPT !.buffer = Append(@, [id |-> piece.id, heading |-> piece.heading,
                                    line |-> s.ends # "text", para |-> s.ends = "blank",
                                    size |-> piece.size, refs |-> piece.refs]),
              !.ends = "text"]

\* A heading in range ends the node before it; one without a title starts
\* none.  One out of range is a line of the text.
Heading(s, b) ==
    IF b.level \in MinLevel..MaxLevel
    THEN [FinishNode(s) EXCEPT !.current =
              IF b.name = "" THEN NoNode ELSE [name |-> b.name, level |-> b.level]]
    ELSE Put(s, [id |-> b.name, heading |-> TRUE, size |-> 1, refs |-> <<>>])

Line(s, b) ==
    CASE b.kind = "text" -> Put(s, b.piece)
      [] b.kind = "rule" -> [s EXCEPT !.ends = "blank"]
      [] b.kind = "code" /\ CodeBlocks ->
            [Put([s EXCEPT !.ends = IF @ = "text" THEN "line" ELSE "blank"], b.piece)
                EXCEPT !.ends = "line"]
      [] OTHER -> s

ExtractNodes(source) ==
    LET start == [nodes |-> <<>>, current |-> NoNode, buffer |-> <<>>,
                  preamble |-> <<>>, ends |-> "text"]
        after[i \in 0..Len(source)] ==
            IF i = 0 THEN start
            ELSE IF source[i].kind = "heading" THEN Heading(after[i - 1], source[i])
            ELSE Line(after[i - 1], source[i])
        s == FinishNode(after[Len(source)])
    IN  IF s.nodes = <<>> /\ PreambleNode /\ s.preamble # <<>>
        THEN <<RawNode(Title("Introduction"), 0, s.preamble)>>
        ELSE s.nodes
=============================================================================
