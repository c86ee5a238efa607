------------------------------ MODULE TocPages ------------------------------
(***************************************************************************)
(* The pure parts of the table-of-contents processing of a PDF: pages,     *)
(* the regex detection, anchors and their offset, page groups, the clean-  *)
(* up of extracted entries, what is oversized, and the nodes.              *)
(*                                                                         *)
(* A page is its number and its text; a text is the number of its lines,   *)
(* the weight (in percent) of each match of a detection pattern, whether a *)
(* matching line has a digit in it, the titles that stand on it and its    *)
(* tokens.  An entry has a title, the page the table names and the page    *)
(* it is assigned, either may be missing.                                  *)
(***************************************************************************)
EXTENDS Integers, Sequences, FiniteSets, SequencesExt, FiniteSetsExt

CONSTANTS
    CheckPages,       \* pages the detector looks at
    AnchorCount, AnchorRange,   \* anchors, and pages around the one each names
    GroupTokens, Overlap,       \* max_tokens_per_group, overlap_pages
    MaxSpan, MaxEntryTokens     \* when an entry is oversized

NoPage == -1
Blank == [lines |-> 0, hits |-> <<>>, digits |-> FALSE, titles |-> {}, tokens |-> 0]
Entry(title, toc, phys) == [title |-> title, toc |-> toc, phys |-> phys]

Lesser(a, b) == IF a <= b THEN a ELSE b
Greater(a, b) == IF a <= b THEN b ELSE a

\* extract_pages: blank pages are left out, the others keep their number.
ExtractPages(raw) ==
    SelectSeq([i \in DOMAIN raw |-> [number |-> i, text |-> raw[i]]],
              LAMBDA p : p.text # Blank)

Numbers(pages) == {pages[i].number : i \in DOMAIN pages}

(***************************************************************************)
(* Detection.  Scores and confidences are in thousandths.                  *)
(***************************************************************************)
Score(text) ==
    LET top == Max({0} \cup {text.hits[i] : i \in DOMAIN text.hits})
    IN  IF text.lines < 2 THEN 0
        ELSE IF Len(text.hits) >= 3 THEN top * 10 ELSE top * 7

NotFound == [found |-> FALSE, pages |-> <<>>, numbered |-> FALSE, confidence |-> 0]

DetectWithRegex(pages) ==
    LET toc == SelectSeq(SubSeq(pages, 1, Lesser(CheckPages, Len(pages))),
                         LAMBDA p : Score(p.text) > 500)
        Sum == FoldLeft(LAMBDA acc, p : acc + Score(p.text), 0, toc)
    IN  IF toc = <<>> THEN NotFound
        ELSE [found |-> TRUE, pages |-> [i \in DOMAIN toc |-> toc[i].number],
              numbered |-> \E i \in DOMAIN toc : toc[i].text.digits,
              confidence |-> Sum \div Len(toc)]

\* extract_toc_text: it has text if one of the numbers is a place in pages.
HasTocText(pages, numbers) == ToSet(numbers) \cap DOMAIN pages # {}

(***************************************************************************)
(* Anchors.                                                                *)
(***************************************************************************)
\* select_anchors: places of entries that name a page, evenly spread.
SelectAnchors(entries) ==
    LET paged == SelectSeq([i \in DOMAIN entries |-> i], LAMBDA i : entries[i].toc # NoPage)
    IN  IF Len(paged) <= AnchorCount THEN paged
        ELSE [i \in 1..AnchorCount |-> paged[((i - 1) * Len(paged)) \div AnchorCount + 1]]

\* pages_around
PagesAround(pages, center) ==
    {pages[i] : i \in Greater(center - AnchorRange, 1)..Lesser(center + AnchorRange, Len(pages))}

\* calculate_mode_static: values that are most common; ties go by the order
\* of a hash map.
Modes(values) ==
    LET Count(v) == Cardinality({i \in DOMAIN values : values[i] = v})
    IN  {v \in ToSet(values) : \A w \in ToSet(values) : Count(w) <= Count(v)}

\* PageOffset::apply, and the bound assign_with_offset puts on it.
ApplyOffset(entries, offset, pages) ==
    [i \in DOMAIN entries |->
        IF entries[i].toc = NoPage THEN entries[i]
        ELSE [entries[i] EXCEPT
                !.phys = Lesser(Greater(entries[i].toc + offset, 1), Len(pages))]]

(***************************************************************************)
(* Structure extraction.                                                   *)
(***************************************************************************)
Tokens(ps) == FoldLeft(LAMBDA acc, p : acc + p.text.tokens, 0, ps)

\* group_pages: a page that goes over the bound opens a group, with the
\* pages before it as an overlap.
GroupPages(pages) ==
    LET Add(acc, i) ==
          IF Tokens(acc.buf) + pages[i].text.tokens > GroupTokens /\ acc.buf # <<>>
          THEN [groups |-> Append(acc.groups, acc.buf),
                buf |-> SubSeq(pages, Greater(i - Overlap, 1), i)]
          ELSE [acc EXCEPT !.buf = Append(@, pages[i])]
        last == FoldLeftDomain(Add, [groups |-> <<>>, buf |-> <<>>], pages)
    IN  IF last.buf = <<>> THEN last.groups ELSE Append(last.groups, last.buf)

\* sort_by page, stable; dedup_by drops what equals the entry before it.
SortAndDedup(entries) ==
    LET Put(acc, e) ==
          LET before == SelectSeq(acc, LAMBDA f : f.phys <= e.phys)
          IN  before \o <<e>> \o SubSeq(acc, Len(before) + 1, Len(acc))
        Keep(acc, e) ==
          IF acc # <<>> /\ Last(acc).title = e.title /\ Last(acc).phys = e.phys
          THEN acc ELSE Append(acc, e)
    IN  FoldLeft(Keep, <<>>, FoldLeft(Put, <<>>, entries))

\* finalize_entries
FinalizeEntries(entries, count) ==
    [i \in DOMAIN entries |-> [entries[i] EXCEPT !.phys = Lesser(@, count)]]

(***************************************************************************)
(* Refinement.                                                             *)
(***************************************************************************)
StartPage(e) == IF e.phys = NoPage THEN 1 ELSE e.phys
EndPage(entries, i, pages) ==
    IF i < Len(entries) /\ entries[i + 1].phys # NoPage
    THEN entries[i + 1].phys ELSE Len(pages)

\* entry_page_span and entry_token_count
Oversized(entries, i, pages) ==
    LET start == StartPage(entries[i])
        rest == SelectSeq(pages, LAMBDA p : p.number >= start)
    IN  /\ EndPage(entries, i, pages) - start > MaxSpan
        /\ Tokens(SubSeq(rest, 1, Lesser(30, Len(rest)))) > MaxEntryTokens

SubPages(entries, i, pages) ==
    SelectSeq(pages, LAMBDA p : /\ p.number >= StartPage(entries[i])
                                /\ p.number <= EndPage(entries, i, pages))

\* What an extraction made of the pages of entry e puts in its place.
Refined(e, sub) ==
    LET from == IF sub # <<>> /\ Head(sub).title = e.title THEN 2 ELSE 1
    IN  [i \in 1..(Len(sub) - from + 1) |->
            Entry(sub[from + i - 1].title, NoPage, sub[from + i - 1].phys)]

(***************************************************************************)
(* Nodes.  The content of a node is the page its text is taken from.       *)
(***************************************************************************)
TocEntriesToRawNodes(entries, pages) ==
    [i \in DOMAIN entries |->
        [title |-> entries[i].title, page |-> entries[i].phys,
         content |-> {StartPage(entries[i])} \cap Numbers(pages)]]

PagesToRawNodes(pages) ==
    [i \in DOMAIN pages |->
        [title |-> pages[i].number, page |-> pages[i].number,
         content |-> {pages[i].number}]]
=============================================================================
