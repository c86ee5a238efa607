---------------------------- MODULE TocProcessor ----------------------------
(***************************************************************************)
(* TocProcessor::process on the pages of a PDF, from the detection of a    *)
(* table of contents to the nodes PdfParser makes of its entries.          *)
(*                                                                         *)
(* The model's answers decide where it goes, and any request may fail.  A  *)
(* page it names is arbitrary; only when it is asked whether a title       *)
(* stands on a page does it tell the truth.  The requests of one step run  *)
(* in a buffer_unordered and are collected before the next: they are one   *)
(* action, and their results come in any order.                            *)
(***************************************************************************)
EXTENDS TocPages, SequencesExt, FiniteSetsExt

CONSTANTS
    Documents,       \* what a PDF may be: a sequence of page texts
    Titles,          \* titles the model reads
    MaxEntries,      \* bound: entries the model finds
    MaxRetries,      \* continuations of an incomplete parse
    MaxRepairs,      \* max_repair_attempts
    SampleSize,      \* entries verified
    SearchRange,     \* pages searched around a wrong one
    Threshold        \* accuracy_threshold, in percent

ASSUME ThresholdAssumption == Threshold \in Nat

VARIABLES
    pages,     \* the pages
    ph,        \* what is done next
    mode,      \* the processing mode
    det,       \* what was detected
    entries,   \* the entries of this mode
    tries,     \* continuations, or repairs, so far
    report,    \* the report a repair starts from
    nodes      \* the raw nodes

vars == <<pages, ph, mode, det, entries, tries, report, nodes>>

\* A page number that is out of range in every document.
OutOfRange == 1 + Max({Len(d) : d \in Documents})
\* Pages the model may name.
Named == Numbers(pages) \cup {OutOfRange}
Read(most) == UNION {[1..n -> [title : Titles, toc : Named \cup {NoPage}, phys : {NoPage}]]
                       : n \in 0..most}
NoReport == [total |-> 0, right |-> {}, errors |-> <<>>]

Init ==
    /\ \E d \in Documents : pages = ExtractPages(d)
    /\ ph = "detect" /\ mode = "none" /\ det = NotFound /\ entries = <<>>
    /\ tries = 0 /\ report = NoReport /\ nodes = <<>>

(***************************************************************************)
(* Detection.                                                              *)
(***************************************************************************)
\* detect: a table the patterns are sure of, or what the model says.  An
\* empty document has no entries, a failing request ends the process.
Detect ==
    /\ ph = "detect"
    /\ LET regex == DetectWithRegex(pages)
           Ask == regex.confidence < 700 /\ (regex.confidence > 300 \/ regex.confidence = 0)
       IN  \/ /\ pages = <<>> /\ ph' = "nodes" /\ UNCHANGED <<det, mode>>
           \/ /\ pages # <<>> /\ Ask /\ ph' = "nodes" /\ UNCHANGED <<det, mode>>
           \/ /\ pages # <<>>
              /\ IF Ask THEN \E found, numbered \in BOOLEAN, n \in Named :
                               det' = [found |-> found, pages |-> <<n>>,
                                       numbered |-> numbered, confidence |-> 500]
                        ELSE det' = regex
              /\ mode' = IF ~det'.found THEN "none"
                         ELSE IF det'.numbered THEN "with" ELSE "without"
              /\ ph' = IF mode' = "none" THEN "extract" ELSE "parse"
    /\ UNCHANGED <<pages, entries, tries, report, nodes>>

(***************************************************************************)
(* The two modes with a table.                                             *)
(***************************************************************************)
\* The mode brought nothing, failed, or was not accurate: the next one.
Degrade ==
    /\ mode' = IF mode = "with" THEN "without" ELSE "none"
    /\ ph' = IF mode = "with" THEN "parse" ELSE "extract"
    /\ entries' = <<>> /\ tries' = 0 /\ report' = NoReport

\* parse_with_llm
Parse ==
    /\ ph = "parse"
    /\ \/ Degrade
       \/ /\ HasTocText(pages, det.pages)
          /\ \E read \in Read(MaxEntries) \ {<<>>} : entries' = read
          /\ ph' = "complete" /\ UNCHANGED <<mode, tries, report>>
    /\ UNCHANGED <<pages, det, nodes>>

\* process_toc_without_page_numbers clears the pages of the table.
ToAssign ==
    /\ ph' = "assign" /\ tries' = 0 /\ UNCHANGED <<mode, report>>
    /\ entries' = IF mode = "with" THEN entries
                  ELSE [i \in DOMAIN entries |-> [entries[i] EXCEPT !.toc = NoPage]]

\* verify_and_complete: it is complete, there is no more of it, or retries
\* are used up; else what was missed is read and it is asked again.
Complete ==
    /\ ph = "complete"
    /\ \/ ToAssign
       \/ tries < MaxRetries /\ Degrade
       \/ /\ tries < MaxRetries
          /\ \E more \in Read(MaxEntries - Len(entries)) \ {<<>>} :
                entries' = entries \o more
          /\ tries' = tries + 1 /\ UNCHANGED <<ph, mode, report>>
    /\ UNCHANGED <<pages, det, nodes>>

\* calculate_offset: an anchor that was found says how far off the table is.
Offsets ==
    LET anchors == SelectAnchors(entries)
        Missed == OutOfRange + 1
        Said(i) == IF PagesAround(pages, entries[i].toc) = {} THEN {Missed}
                   ELSE Named \cup {Missed}
    IN  {[of |-> Len(anchors),
          found |-> SelectSeq(
              [i \in DOMAIN anchors |->
                 IF said[i] = Missed THEN <<>> ELSE <<said[i] - entries[anchors[i]].toc>>],
              LAMBDA o : o # <<>>)] :
            said \in {s \in [DOMAIN anchors -> Named \cup {Missed}] :
                        \A i \in DOMAIN anchors : s[i] \in Said(anchors[i])}}

\* assign_with_llm: a page, or none, for each entry; the results are in the
\* order they came, and each is arbitrary.
AssignWithLlm ==
    \E said \in [DOMAIN entries -> Named \cup {NoPage}] :
        entries' = [i \in DOMAIN entries |-> [entries[i] EXCEPT !.phys = said[i]]]

Assign ==
    /\ ph = "assign"
    /\ LET paged == \E i \in DOMAIN entries : entries[i].toc # NoPage
           Sure(o) == o.of > 0 /\ 2 * Len(o.found) >= o.of
       IN  \/ /\ paged
              /\ \E o \in Offsets : /\ Sure(o)
                                    /\ \E m \in Modes(o.found) :
                                         entries' = ApplyOffset(entries, m[1], pages)
              /\ ph' = "verify" /\ UNCHANGED <<mode, tries, report>>
           \/ /\ paged => \E o \in Offsets : ~Sure(o)
              /\ \/ AssignWithLlm /\ ph' = "verify" /\ UNCHANGED <<mode, tries, report>>
                 \/ Degrade
    /\ UNCHANGED <<pages, det, nodes>>

(***************************************************************************)
(* verify_and_repair.                                                      *)
(***************************************************************************)
Located == {i \in DOMAIN entries : entries[i].phys # NoPage}

\* Mutant: the page after the one assigned is looked at.
TitleOnPageOffByOne(i) ==
    /\ entries[i].phys + 1 \in DOMAIN pages
    /\ entries[i].title \in pages[entries[i].phys + 1].text.titles

\* verify_entry: pages are looked up by their place.
TitleOnPage(i) ==
    /\ entries[i].phys \in DOMAIN pages
    /\ entries[i].title \in pages[entries[i].phys].text.titles

Accurate(r) == r.total = 0 \/ 100 * Cardinality(r.right) >= Threshold * r.total

\* verify: the entries of a sample are right, wrong, or could not be checked,
\* which counts as wrong.
Verify ==
    /\ ph = "verify"
    /\ \E sample \in kSubset(Lesser(SampleSize, Cardinality(Located)), Located) :
       \E right \in SUBSET {i \in sample : TitleOnPage(i)} :
       \E wrong \in SetToSeqs(sample \ right) :
       LET r == [total |-> Cardinality(sample), right |-> right, errors |-> wrong]
       IN \/ /\ Accurate(r) /\ ph' = "refine" /\ tries' = 0 /\ report' = NoReport
             /\ UNCHANGED <<mode, entries>>
          \/ /\ ~Accurate(r) /\ tries < MaxRepairs /\ ph' = "repair" /\ report' = r
             /\ UNCHANGED <<mode, entries, tries>>
          \/ ~Accurate(r) /\ tries = MaxRepairs /\ Degrade
    /\ UNCHANGED <<pages, det, nodes>>

\* Mutant: the repaired entry is looked up by its title in all entries.
FixedEntryAny(i) == CHOOSE j \in DOMAIN entries :
    /\ entries[j].title = entries[i].title
    /\ \A k \in DOMAIN entries : entries[k].title = entries[i].title => j <= k

\* What is found for error i goes to the first error of the same title.
SameTitle(i) ==
    {k \in DOMAIN report.errors : entries[report.errors[k]].title = entries[i].title}
FixedEntry(i) ==
    report.errors[CHOOSE k \in SameTitle(i) : \A l \in SameTitle(i) : k <= l]

\* Mutant: an attempt that repaired something is not counted.
CountUncounted == tries' = tries

Count == tries' = tries + 1

\* repair: the model looks for the titles of the wrong entries around their
\* pages and names a page for some; of two for one entry either may be the
\* later.  If it names none, the mode has failed.
Repair ==
    /\ ph = "repair"
    /\ \E found \in SUBSET {i \in ToSet(report.errors) :
            \E p \in DOMAIN pages : p \in (entries[i].phys - SearchRange)
                                            ..(entries[i].phys + SearchRange)} :
          \/ found = {} /\ Degrade
          \/ /\ found # {} /\ Count
             /\ \E said \in [{FixedEntry(i) : i \in found} -> Named] :
                   entries' = [i \in DOMAIN entries |->
                       IF i \in DOMAIN said THEN [entries[i] EXCEPT !.phys = said[i]]
                                            ELSE entries[i]]
             /\ ph' = "verify" /\ UNCHANGED <<mode, report>>
    /\ UNCHANGED <<pages, det, nodes>>

(***************************************************************************)
(* Structure extraction, refinement and the nodes.                         *)
(***************************************************************************)
\* generate_initial, generate_continuation: what is found in a group.
Found(numbers, most) ==
    UNION {[1..n -> {Entry(t, NoPage, p) : t \in Titles, p \in numbers \cup {OutOfRange}}]
             : n \in 0..most}

\* extract: the first group, then the others beside each other; one of these
\* may fail.  The bound on entries is shared.
ExtractionsOf(ps) ==
    LET groups == GroupPages(ps)
        rest == Numbers(FlattenSeq(Tail(groups)))
        Both == {es \in Found(Numbers(groups[1]), MaxEntries) \X Found(rest, MaxEntries) :
                    Len(es[1]) + Len(es[2]) <= MaxEntries}
    IN  IF ps = <<>> THEN {<<>>}
        ELSE {FinalizeEntries(es, Len(ps)) :
                es \in IF Len(groups) = 1 THEN Found(Numbers(groups[1]), MaxEntries)
                       ELSE {SortAndDedup(x[1] \o x[2]) : x \in Both}}

\* A table of it, so that TLC computes it once.
PageRuns ==
    UNION {LET ps == ExtractPages(d)
           IN  {SubSeq(ps, i, j) : i \in 1..OutOfRange, j \in 0..Len(ps)} : d \in Documents}
Extractions == [ps \in PageRuns |-> ExtractionsOf(ps)]

\* process_without_toc: if the first group fails, so does the process.
Extract ==
    /\ ph = "extract"
    /\ \/ ph' = "nodes" /\ UNCHANGED entries
       \/ ph' = "refine" /\ entries' \in Extractions[pages]
    /\ UNCHANGED <<pages, mode, det, tries, report, nodes>>

\* refine_large_entries: the extraction of each oversized entry may fail or
\* bring nothing, then the entry stays.
Pieces(i) ==
    {<<entries[i]>>} \cup
    IF Oversized(entries, i, pages)
    THEN {Refined(entries[i], sub) :
            sub \in Extractions[SubPages(entries, i, pages)]} \ {<<>>}
    ELSE {}
Refinements ==
    FoldLeftDomain(LAMBDA acc, i : {es \o piece : es \in acc, piece \in Pieces(i)},
                   {<<>>}, entries)

Refine ==
    /\ ph = "refine" /\ ph' = "nodes" /\ entries' \in Refinements
    /\ UNCHANGED <<pages, mode, det, tries, report, nodes>>

\* PdfParser: nodes of the entries, or of the pages if there are none.
MakeNodes ==
    /\ ph = "nodes" /\ ph' = "done"
    /\ nodes' = IF entries = <<>> THEN PagesToRawNodes(pages)
                ELSE TocEntriesToRawNodes(entries, pages)
    /\ UNCHANGED <<pages, mode, det, entries, tries, report>>

Next ==
    \/ Detect \/ Parse \/ Complete \/ Assign \/ Verify \/ Repair
    \/ Extract \/ Refine \/ MakeNodes

\* Requests are answered or fail in the end.  Only Refine leads from "refine"
\* to "nodes", and it can do so at once.
Fairness ==
    /\ WF_vars(Detect) /\ WF_vars(Parse) /\ WF_vars(Complete)
    /\ WF_vars(Assign) /\ WF_vars(Verify) /\ WF_vars(Repair)
    /\ WF_vars(Extract) /\ WF_vars(MakeNodes)
    /\ WF_ph(ph = "refine" /\ ph' = "nodes")

Spec == Init /\ [][Next]_vars /\ Fairness

(***************************************************************************)
(* Properties.                                                             *)
(***************************************************************************)
\* Entries that are read from a table are accepted only as they were last
\* verified, never with a repair after that: of some sample of them, as large
\* as the verifier takes, enough have their title on the page they are
\* assigned.  For a document with blank pages this is false, as pages are
\* looked up by their place (processor.rs, verify_and_repair; verifier.rs).
AcceptedAreRight ==
    ph = "refine" /\ mode # "none" /\ (\A i \in DOMAIN pages : pages[i].number = i) =>
        \E sample \in kSubset(Lesser(SampleSize, Cardinality(Located)), Located) :
            LET right == {i \in sample : \E p \in DOMAIN pages :
                            /\ pages[p].number = entries[i].phys
                            /\ entries[i].title \in pages[p].text.titles}
            IN  100 * Cardinality(right) >= Threshold * Cardinality(sample)

\* A repair leaves alone every entry the verification before it did not find
\* wrong, also where another entry has the same title (repairer.rs, repair).
RepairSparesCorrect ==
    [][ph = "repair" /\ ph' = "verify" =>
         \A i \in DOMAIN entries \ ToSet(report.errors) : entries'[i] = entries[i]]_vars

\* Whatever the model answers, a PDF ends up as nodes, at least one if it has
\* a page with text: continuations, repairs and degradations run out
\* (processor.rs, process_with_degradation; pdf/parser.rs).
ProcessEnds == <>(ph = "done" /\ (pages # <<>> => nodes # <<>>))
=============================================================================
