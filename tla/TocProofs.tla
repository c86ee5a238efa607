------------------------------ MODULE TocProofs -------------------------------
(***************************************************************************)
(* What the verification and the repair of a table of contents promise,    *)
(* proved for any documents, answers, samples, thresholds and bounds.      *)
(***************************************************************************)
EXTENDS TocProcessor, FiniteSetTheorems, SequenceTheorems, WellFoundedInduction, TLAPS

\* Every set of natural numbers has a least one.
LEMMA LeastElement ==
    ASSUME NEW S \in SUBSET Nat, S # {}
    PROVE  \E m \in S : \A n \in S : m <= n
<1> DEFINE R == OpToRel(<, Nat)
<1>1. IsWellFoundedOn(R, Nat)
  BY NatLessThanWellFounded
<1>2. \A x, y \in Nat : y < x => <<y, x>> \in R
  BY DEF OpToRel
<1> HIDE DEF R
<1>3. PICK x \in S : \A y \in S : ~(<<y, x>> \in R)
  BY <1>1, WFMin
<1>4. \A y \in S : ~(y < x)
  BY <1>2, <1>3
<1> QED
  BY <1>3, <1>4

\* A list of entries, whatever the model put in them.
Listed(es) == es \in Seq({es[i] : i \in DOMAIN es})

LEMMA ListedBy ==
    ASSUME NEW S, NEW es \in Seq(S)
    PROVE  Listed(es)
<1>1. DOMAIN es = 1..Len(es) /\ Len(es) \in Nat
  BY LenProperties
<1>2. es \in [1..Len(es) -> {es[i] : i \in DOMAIN es}]
  BY <1>1
<1> QED
  BY <1>1, <1>2 DEF Listed

LEMMA ListedPlaces ==
    ASSUME NEW es, Listed(es)
    PROVE  DOMAIN es = 1..Len(es) /\ Len(es) \in Nat /\ IsFiniteSet(DOMAIN es)
<1>1. DOMAIN es = 1..Len(es) /\ Len(es) \in Nat
  BY LenProperties DEF Listed
<1> QED
  BY <1>1, FS_Interval

\* What is read from a table is a list, and one list behind another.
LEMMA ReadIsListed ==
    ASSUME NEW most, NEW es \in Read(most)
    PROVE  Listed(es)
<1> DEFINE E == [title : Titles, toc : Named \cup {NoPage}, phys : {NoPage}]
<1>1. es \in UNION {[1..n -> E] : n \in 0..most}
  BY Zenon DEF Read
<1> HIDE DEF E
<1>2. PICK n \in 0..most : es \in [1..n -> E]
  BY <1>1
<1>3. es \in Seq(E)
  BY <1>2
<1> QED
  BY <1>3, ListedBy

LEMMA ListedAppended ==
    ASSUME NEW es, NEW more, Listed(es), Listed(more)
    PROVE  Listed(es \o more)
<1> DEFINE S == {es[i] : i \in DOMAIN es} \cup {more[i] : i \in DOMAIN more}
<1>1. es \in Seq(S) /\ more \in Seq(S)
  <2>1. /\ DOMAIN es = 1..Len(es) /\ Len(es) \in Nat
        /\ DOMAIN more = 1..Len(more) /\ Len(more) \in Nat
    BY ListedPlaces
  <2>2. es \in [1..Len(es) -> S] /\ more \in [1..Len(more) -> S]
    BY <2>1 DEF Listed
  <2> QED
    BY <2>1, <2>2
<1> HIDE DEF S
<1>2. es \o more \in Seq(S)
  BY <1>1, ConcatProperties
<1> QED
  BY <1>2, ListedBy

\* Entries that change keep their places.
LEMMA ListedMapped ==
    ASSUME NEW es, Listed(es), NEW fs, fs = [i \in DOMAIN es |-> fs[i]]
    PROVE  Listed(fs)
<1> DEFINE S == {fs[i] : i \in DOMAIN fs}
<1>1. DOMAIN es = 1..Len(es) /\ Len(es) \in Nat
  BY ListedPlaces
<1>2. DOMAIN fs = DOMAIN es
  OBVIOUS
<1>3. fs \in [DOMAIN es -> S]
  BY <1>2
<1> HIDE DEF S
<1>4. fs \in Seq(S)
  BY <1>1, <1>3
<1> QED
  BY <1>4, ListedBy

(***************************************************************************)
(* The inductive invariant: the mode without a table is all that extracts, *)
(* entries that are verified are a list, and the errors of a report have   *)
(* an order.                                                               *)
(***************************************************************************)
ModeInv == ph = "extract" => mode = "none"
ListInv == ph \in {"complete", "assign", "verify", "repair"} => Listed(entries)
ErrorInv == ph = "repair" => DOMAIN report.errors \subseteq Nat
IInv == ModeInv /\ ListInv /\ ErrorInv

LEMMA DegradeKeeps ==
    ASSUME Degrade
    PROVE  IInv' /\ ph' \in {"parse", "extract"}
<1>1. ph' \in {"parse", "extract"} /\ (ph' = "extract" => mode' = "none")
  BY DEF Degrade
<1> QED
  BY <1>1 DEF IInv, ModeInv, ListInv, ErrorInv

\* What a verification looks at.
LEMMA SampleProperties ==
    ASSUME Listed(entries), NEW k, NEW sample \in kSubset(k, Located)
    PROVE  /\ sample \subseteq DOMAIN entries /\ IsFiniteSet(sample)
           /\ Cardinality(sample) \in Nat
<1>1. sample \subseteq DOMAIN entries
  BY DEF kSubset, Located
<1>2. IsFiniteSet(DOMAIN entries)
  BY ListedPlaces
<1>3. IsFiniteSet(sample)
  BY <1>1, <1>2, FS_Subset
<1> QED
  BY <1>1, <1>3, FS_CardinalityType

LEMMA VerifyKeeps ==
    ASSUME IInv, Verify
    PROVE  IInv'
<1>1. ph = "verify" /\ Listed(entries)
  BY DEF Verify, IInv, ListInv
<1>2. PICK sample \in kSubset(Lesser(SampleSize, Cardinality(Located)), Located) :
         \E right \in SUBSET {i \in sample : TitleOnPage(i)} :
         \E wrong \in SetToSeqs(sample \ right) :
         LET r == [total |-> Cardinality(sample), right |-> right, errors |-> wrong]
         IN \/ /\ Accurate(r) /\ ph' = "refine" /\ tries' = 0 /\ report' = NoReport
               /\ UNCHANGED <<mode, entries>>
            \/ /\ ~Accurate(r) /\ tries < MaxRepairs /\ ph' = "repair" /\ report' = r
               /\ UNCHANGED <<mode, entries, tries>>
            \/ ~Accurate(r) /\ tries = MaxRepairs /\ Degrade
  BY <1>1 DEF Verify
<1>3. PICK right \in SUBSET {i \in sample : TitleOnPage(i)} :
         \E wrong \in SetToSeqs(sample \ right) :
            \/ ph' = "refine"
            \/ ph' = "repair" /\ entries' = entries /\ report' =
                  [total |-> Cardinality(sample), right |-> right, errors |-> wrong]
            \/ Degrade
  <2>1. PICK right \in SUBSET {i \in sample : TitleOnPage(i)} :
           \E wrong \in SetToSeqs(sample \ right) :
           LET r == [total |-> Cardinality(sample), right |-> right, errors |-> wrong]
           IN \/ /\ Accurate(r) /\ ph' = "refine" /\ tries' = 0 /\ report' = NoReport
                 /\ UNCHANGED <<mode, entries>>
              \/ /\ ~Accurate(r) /\ tries < MaxRepairs /\ ph' = "repair" /\ report' = r
                 /\ UNCHANGED <<mode, entries, tries>>
              \/ ~Accurate(r) /\ tries = MaxRepairs /\ Degrade
    BY <1>2
  <2>2. \E wrong \in SetToSeqs(sample \ right) :
            \/ ph' = "refine"
            \/ ph' = "repair" /\ entries' = entries /\ report' =
                  [total |-> Cardinality(sample), right |-> right, errors |-> wrong]
            \/ Degrade
    BY <2>1, Zenon
  <2> QED
    BY <2>2
<1>4. PICK wrong \in SetToSeqs(sample \ right) :
         \/ ph' = "refine"
         \/ ph' = "repair" /\ entries' = entries /\ report'.errors = wrong
         \/ Degrade
  BY <1>3
<1>5. Cardinality(sample \ right) \in Nat
  <2>1. IsFiniteSet(sample)
    BY <1>1, SampleProperties
  <2>2. IsFiniteSet(sample \ right)
    BY <2>1, FS_Subset
  <2> QED
    BY <2>2, FS_CardinalityType
<1>6. DOMAIN wrong \subseteq Nat
  <2> DEFINE S == sample \ right
  <2>1. wrong \in [1..Cardinality(S) -> S]
    BY DEF SetToSeqs
  <2> QED
    BY <1>5, <2>1
<1>7. CASE Degrade
  BY <1>7, DegradeKeeps
<1>8. CASE ph' = "refine"
  BY <1>8 DEF IInv, ModeInv, ListInv, ErrorInv
<1>9. CASE ph' = "repair" /\ report'.errors = wrong /\ entries' = entries
  BY <1>1, <1>6, <1>9 DEF IInv, ModeInv, ListInv, ErrorInv, Listed
<1> QED
  BY <1>7, <1>8, <1>9, <1>4

\* What becomes of the entries on the way to the verification.
LEMMA AssignKeeps ==
    ASSUME IInv, Assign
    PROVE  IInv' /\ ph' # "refine"
<1>1. Listed(entries)
  BY DEF Assign, IInv, ListInv
<1>2. \/ Degrade
      \/ ph' = "verify" /\ \E offset : entries' = ApplyOffset(entries, offset, pages)
      \/ ph' = "verify" /\ AssignWithLlm
  BY DEF Assign
<1>3. CASE Degrade
  BY <1>3, DegradeKeeps
<1>4. CASE ph' = "verify" /\ \E offset : entries' = ApplyOffset(entries, offset, pages)
  <2>1. entries' = [i \in DOMAIN entries |-> entries'[i]]
    BY <1>4 DEF ApplyOffset
  <2> QED
    BY <1>1, <1>4, <2>1, ListedMapped DEF IInv, ModeInv, ListInv, ErrorInv, Listed
<1>5. CASE ph' = "verify" /\ AssignWithLlm
  <2>1. entries' = [i \in DOMAIN entries |-> entries'[i]]
    BY <1>5 DEF AssignWithLlm
  <2> QED
    BY <1>1, <1>5, <2>1, ListedMapped DEF IInv, ModeInv, ListInv, ErrorInv, Listed
<1> QED
  BY <1>2, <1>3, <1>4, <1>5

LEMMA CompleteKeeps ==
    ASSUME IInv, Complete
    PROVE  IInv' /\ ph' # "refine"
<1>1. Listed(entries) /\ ph = "complete"
  BY DEF Complete, IInv, ListInv
<1>2. \/ Degrade
      \/ ToAssign
      \/ ph' = ph /\ \E more \in Read(MaxEntries - Len(entries)) : entries' = entries \o more
  BY DEF Complete
<1>3. CASE Degrade
  BY <1>3, DegradeKeeps
<1>4. CASE ToAssign
  <2>1. ph' = "assign"
    BY <1>4 DEF ToAssign
  <2>2. Listed(entries')
    <3>1. CASE mode = "with"
      BY <1>1, <1>4, <3>1 DEF ToAssign
    <3>2. CASE mode # "with"
      <4>1. entries' = [i \in DOMAIN entries |-> entries'[i]]
        BY <1>4, <3>2 DEF ToAssign
      <4> QED
        BY <1>1, <4>1, ListedMapped
    <3> QED
      BY <3>1, <3>2
  <2> QED
    BY <2>1, <2>2 DEF IInv, ModeInv, ListInv, ErrorInv, Listed
<1>5. CASE ph' = ph /\ \E more \in Read(MaxEntries - Len(entries)) : entries' = entries \o more
  <2>1. PICK more \in Read(MaxEntries - Len(entries)) : entries' = entries \o more
    BY <1>5
  <2>2. Listed(entries')
    BY <1>1, <2>1, ReadIsListed, ListedAppended
  <2> QED
    BY <1>1, <1>5, <2>2 DEF IInv, ModeInv, ListInv, ErrorInv, Listed
<1> QED
  BY <1>2, <1>3, <1>4, <1>5

LEMMA Starts ==
    ASSUME Init
    PROVE  IInv
  BY DEF Init, IInv, ModeInv, ListInv, ErrorInv

LEMMA DetectKeeps ==
    ASSUME Detect
    PROVE  IInv' /\ ph' # "refine"
<1>1. \/ ph' = "nodes"
      \/ ph' = IF mode' = "none" THEN "extract" ELSE "parse"
  BY DEF Detect
<1> QED
  BY <1>1 DEF IInv, ModeInv, ListInv, ErrorInv

LEMMA ParseKeeps ==
    ASSUME Parse
    PROVE  IInv' /\ ph' # "refine"
<1>1. CASE Degrade
  BY <1>1, DegradeKeeps
<1>2. CASE /\ \E read \in Read(MaxEntries) \ {<<>>} : entries' = read
           /\ ph' = "complete"
  <2>1. Listed(entries')
    BY <1>2, ReadIsListed
  <2> QED
    BY <1>2, <2>1 DEF IInv, ModeInv, ListInv, ErrorInv, Listed
<1> QED
  BY <1>1, <1>2 DEF Parse

\* A repair goes to one of the errors of the report.
LEMMA FixedIsError ==
    ASSUME ErrorInv, ph = "repair", NEW i \in ToSet(report.errors)
    PROVE  FixedEntry(i) \in ToSet(report.errors)
<1>1. PICK k \in DOMAIN report.errors : i = report.errors[k]
  BY DEF ToSet
<1>2. SameTitle(i) \in SUBSET Nat /\ k \in SameTitle(i)
  BY <1>1 DEF ErrorInv, SameTitle
<1>3. \E m \in SameTitle(i) : \A l \in SameTitle(i) : m <= l
  BY <1>2, LeastElement
<1>4. FixedEntry(i) \in {report.errors[m] : m \in SameTitle(i)}
  BY <1>3 DEF FixedEntry
<1> QED
  BY <1>4 DEF SameTitle, ToSet

LEMMA RepairKeeps ==
    ASSUME IInv, Repair
    PROVE  /\ IInv' /\ ph' # "refine"
           /\ ph' = "verify" => \A i \in DOMAIN entries \ ToSet(report.errors) :
                                   entries'[i] = entries[i]
<1>1. ph = "repair" /\ Listed(entries) /\ ErrorInv
  BY DEF Repair, IInv, ListInv
<1>2. CASE Degrade
  BY <1>2, DegradeKeeps
<1>3. CASE ~Degrade
  <2>1. PICK found \in SUBSET ToSet(report.errors) :
           \E said \in [{FixedEntry(i) : i \in found} -> Named] :
              /\ entries' = [i \in DOMAIN entries |->
                       IF i \in DOMAIN said THEN [entries[i] EXCEPT !.phys = said[i]]
                                            ELSE entries[i]]
              /\ ph' = "verify"
    BY <1>3 DEF Repair
  <2>2. PICK said \in [{FixedEntry(i) : i \in found} -> Named] :
           /\ entries' = [i \in DOMAIN entries |->
                    IF i \in DOMAIN said THEN [entries[i] EXCEPT !.phys = said[i]]
                                         ELSE entries[i]]
           /\ ph' = "verify"
    BY <2>1
  <2>3. DOMAIN said \subseteq ToSet(report.errors)
    BY <1>1, FixedIsError
  <2>4. \A i \in DOMAIN entries \ ToSet(report.errors) : entries'[i] = entries[i]
    BY <2>2, <2>3
  <2>5. entries' = [i \in DOMAIN entries |-> entries'[i]]
    BY <2>2
  <2>6. Listed(entries')
    BY <1>1, <2>5, ListedMapped
  <2> QED
    BY <2>2, <2>4, <2>6 DEF IInv, ModeInv, ListInv, ErrorInv, Listed
<1> QED
  BY <1>2, <1>3

LEMMA EachStepKeeps ==
    ASSUME IInv, [Next]_vars
    PROVE  IInv'
<1>1. CASE Extract \/ Refine \/ MakeNodes
  BY <1>1 DEF Extract, Refine, MakeNodes, IInv, ModeInv, ListInv, ErrorInv
<1>2. CASE UNCHANGED vars
  BY <1>2 DEF vars, IInv, ModeInv, ListInv, ErrorInv, Listed
<1> QED
  BY <1>1, <1>2, DetectKeeps, ParseKeeps, CompleteKeeps, AssignKeeps, VerifyKeeps,
     RepairKeeps DEF Next

LEMMA AlwaysIInv == Spec => []IInv
<1>1. Init => IInv
  BY Starts
<1>2. IInv /\ [Next]_vars => IInv'
  BY EachStepKeeps
<1> QED
  BY <1>1, <1>2, PTL DEF Spec

(***************************************************************************)
(* What they show.                                                         *)
(***************************************************************************)
\* The sample of a verification that accepts is one the property asks for.
LEMMA VerifiedIsAccepted ==
    ASSUME IInv, Verify
    PROVE  AcceptedAreRight'
<1> SUFFICES ASSUME ph' = "refine", \A i \in DOMAIN pages : pages[i].number = i
             PROVE  \E sample \in kSubset(Lesser(SampleSize, Cardinality(Located)), Located) :
                       LET right == {i \in sample : \E p \in DOMAIN pages :
                                       /\ pages[p].number = entries'[i].phys
                                       /\ entries'[i].title \in pages[p].text.titles}
                       IN  100 * Cardinality(right) >= Threshold * Cardinality(sample)
  <2>1. pages' = pages
    BY DEF Verify
  <2>2. ph' = "refine" => entries' = entries
    BY DEF Verify, Degrade
  <2> QED
    BY <2>1, <2>2 DEF AcceptedAreRight, Located
<1>1. Listed(entries) /\ ~Degrade
  BY DEF Verify, Degrade, IInv, ListInv
<1>2. PICK sample \in kSubset(Lesser(SampleSize, Cardinality(Located)), Located) :
         \E right \in SUBSET {i \in sample : TitleOnPage(i)} :
            /\ entries' = entries
            /\ \/ Cardinality(sample) = 0
               \/ 100 * Cardinality(right) >= Threshold * Cardinality(sample)
  <2>1. PICK sample \in kSubset(Lesser(SampleSize, Cardinality(Located)), Located) :
         \E right \in SUBSET {i \in sample : TitleOnPage(i)} :
         \E wrong \in SetToSeqs(sample \ right) :
         LET r == [total |-> Cardinality(sample), right |-> right, errors |-> wrong]
         IN \/ /\ Accurate(r) /\ ph' = "refine" /\ tries' = 0 /\ report' = NoReport
               /\ UNCHANGED <<mode, entries>>
            \/ /\ ~Accurate(r) /\ tries < MaxRepairs /\ ph' = "repair" /\ report' = r
               /\ UNCHANGED <<mode, entries, tries>>
            \/ ~Accurate(r) /\ tries = MaxRepairs /\ Degrade
    BY DEF Verify
  <2>2. PICK right \in SUBSET {i \in sample : TitleOnPage(i)} :
           \E wrong \in SetToSeqs(sample \ right) :
              /\ Accurate([total |-> Cardinality(sample), right |-> right, errors |-> wrong])
              /\ entries' = entries
    BY <1>1, <2>1
  <2> QED
    BY <2>2 DEF Accurate
<1>3. PICK right \in SUBSET {i \in sample : TitleOnPage(i)} :
         /\ entries' = entries
         /\ \/ Cardinality(sample) = 0
            \/ 100 * Cardinality(right) >= Threshold * Cardinality(sample)
  BY <1>2
<1> DEFINE all == {i \in sample : \E p \in DOMAIN pages :
                      /\ pages[p].number = entries'[i].phys
                      /\ entries'[i].title \in pages[p].text.titles}
<1>4. right \subseteq all /\ all \subseteq sample
  BY <1>3 DEF TitleOnPage
<1>5. IsFiniteSet(sample) /\ Cardinality(sample) \in Nat
  BY <1>1, SampleProperties
<1> HIDE DEF all
<1>6. IsFiniteSet(all) /\ IsFiniteSet(right)
  BY <1>4, <1>5, FS_Subset
<1>7. Cardinality(right) <= Cardinality(all) /\ Cardinality(right) \in Nat /\ Cardinality(all) \in Nat
  BY <1>4, <1>6, FS_Subset, FS_CardinalityType
<1>8. 100 * Cardinality(all) >= Threshold * Cardinality(sample)
  <2>1. CASE Cardinality(sample) = 0
    <3>1. Threshold * Cardinality(sample) = 0
      BY <2>1, ThresholdAssumption
    <3> QED
      BY <1>7, <3>1
  <2>2. CASE 100 * Cardinality(right) >= Threshold * Cardinality(sample)
    <3>1. Threshold * Cardinality(sample) \in Int
      BY <1>5, ThresholdAssumption
    <3> QED
      BY <1>7, <2>2, <3>1
  <2> QED
    BY <1>3, <2>1, <2>2
<1> QED
  BY <1>8 DEF all

\* What is read from a table of contents is accepted only as it was last
\* verified: enough of a sample as large as the verifier takes stands where it
\* is said to (processor.rs, verify_and_repair; verifier.rs).
THEOREM AcceptedAreAlwaysRight == Spec => []AcceptedAreRight
<1>1. Init => AcceptedAreRight
  BY DEF Init, AcceptedAreRight
<1>2. IInv /\ AcceptedAreRight /\ [Next]_vars => AcceptedAreRight'
  <2> SUFFICES ASSUME IInv, AcceptedAreRight, [Next]_vars
               PROVE  AcceptedAreRight'
    OBVIOUS
  <2>1. CASE Verify
    BY <2>1, VerifiedIsAccepted
  <2>2. CASE Extract
    <3>1. mode' = "none"
      BY <2>2 DEF Extract, IInv, ModeInv
    <3> QED
      BY <3>1 DEF AcceptedAreRight
  <2>3. CASE Refine \/ MakeNodes
    <3>1. ph' # "refine"
      BY <2>3 DEF Refine, MakeNodes
    <3> QED
      BY <3>1 DEF AcceptedAreRight
  <2>4. CASE UNCHANGED vars
    BY ZenonT(30), <2>4 DEF vars, AcceptedAreRight, Located
  <2>5. CASE Detect \/ Parse \/ Complete \/ Assign \/ Repair
    <3>1. ph' # "refine"
      BY <2>5, DetectKeeps, ParseKeeps, CompleteKeeps, AssignKeeps, RepairKeeps
    <3> QED
      BY <3>1 DEF AcceptedAreRight
  <2> QED
    BY <2>1, <2>2, <2>3, <2>4, <2>5 DEF Next
<1> QED
  BY <1>1, <1>2, AlwaysIInv, PTL DEF Spec

\* A repair touches no entry the verification before it did not find wrong,
\* however titles repeat (repairer.rs, repair).
THEOREM RepairsSpareCorrect == Spec => RepairSparesCorrect
<1>1. IInv /\ [Next]_vars =>
         [ph = "repair" /\ ph' = "verify" =>
             \A i \in DOMAIN entries \ ToSet(report.errors) : entries'[i] = entries[i]]_vars
  <2> SUFFICES ASSUME IInv, Next, ph = "repair", ph' = "verify"
               PROVE  \A i \in DOMAIN entries \ ToSet(report.errors) : entries'[i] = entries[i]
    OBVIOUS
  <2>1. Repair
    BY DEF Next, Detect, Parse, Complete, Assign, Verify, Extract, Refine, MakeNodes
  <2> QED
    BY <2>1, RepairKeeps
<1> QED
  BY <1>1, AlwaysIInv, PTL DEF Spec, RepairSparesCorrect

=============================================================================
