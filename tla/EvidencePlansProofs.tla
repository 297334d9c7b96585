------------------------- MODULE EvidencePlansProofs -------------------------
(***************************************************************************)
(* What the computations between the sessions promise for every catalog,   *)
(* answer, outcome and number of experiences.                              *)
(***************************************************************************)
EXTENDS EvidencePlans, FiniteSetTheorems, TLAPS

\* The plan a synthesis is made with passes validate_experience_merge_plan:
\* it was accepted, or it merges nothing.
LEMMA PlanIsValid ==
  ASSUME NEW answer \in MergePlan, NEW catalog
  PROVE  /\ ValidMerges(SynthesisPlan(answer, catalog), catalog)
         /\ SynthesisPlan(answer, catalog) \in MergePlan
<1>1. CanonicalMerges(answer) \in MergePlan
  BY DEF CanonicalMerges, MergePlan, Merge
<1>2. KeepAll(answer) \in MergePlan
  BY DEF KeepAll, MergePlan, Merge
<1>3. \A i \in Slots : KeepAll(answer).merges[i].sources = {}
  BY DEF KeepAll, MergePlan, Merge
<1>4. ValidMerges(KeepAll(answer), catalog)
  BY <1>3 DEF ValidMerges, Used
<1>. QED
  BY <1>1, <1>2, <1>4 DEF SynthesisPlan

\* Merging passages of one section keeps what makes each of them valid.
LEMMA MaterializedIsValid ==
  ASSUME NEW catalog \in [Keys -> Entry], NEW plan \in MergePlan,
         NEW authoritative \in BOOLEAN,
         ValidCatalog(catalog, authoritative), ValidMerges(plan, catalog),
         NEW p \in Materialize(plan, catalog)
  PROVE  ValidRefs(p, authoritative)
<1>1. CASE p \in Retained(plan, catalog)
  BY <1>1 DEF Retained, ValidCatalog, ValidRefs
<1>2. CASE p \in MergedPassages(plan, catalog)
  <2>1. PICK i \in Used(plan) :
          p = [from |-> plan.merges[i].sources,
               section |-> plan.merges[i].section,
               refs |-> UNION {catalog[k].refs :
                                 k \in plan.merges[i].sources}]
    BY <1>2 DEF MergedPassages
  <2>2. PICK k \in plan.merges[i].sources : TRUE
    BY DEF Used
  <2>3. plan.merges[i].sources \subseteq Keys
    BY DEF ValidMerges
  <2>4. \A j \in plan.merges[i].sources :
          /\ ValidRefs(catalog[j], authoritative)
          /\ catalog[j].section = plan.merges[i].section
    BY <2>3 DEF ValidMerges, ValidCatalog
  <2>5. /\ catalog[k].refs \subseteq p.refs
        /\ p.section = catalog[k].section
    BY <2>1, <2>2, <2>4
  <2>6. p.refs # {} /\ (p.section = "reusable" /\ authoritative =>
                          ~ (p.refs \subseteq Failed))
    BY <2>2, <2>4, <2>5 DEF ValidRefs
  <2>7. p.refs \subseteq Refs
    BY <2>1, <2>4 DEF ValidRefs
  <2>. QED
    BY <2>6, <2>7 DEF ValidRefs
<1>. QED
  BY <1>1, <1>2 DEF Materialize

\* A synthesis passes validate_experience.
LEMMA SynthesisPasses ==
  ASSUME NEW catalog \in [Keys -> Entry], NEW plan \in MergePlan,
         NEW authoritative \in BOOLEAN,
         ValidCatalog(catalog, authoritative), ValidMerges(plan, catalog)
  PROVE  ValidExperience(Synthesis(plan, catalog, authoritative),
                         authoritative)
<1>. DEFINE base == Materialize(plan, catalog)
            out == Synthesis(plan, catalog, authoritative)
<1>1. ASSUME NEW p \in out PROVE ValidRefs(p, authoritative)
  <2>1. CASE p \in base
    BY <2>1, MaterializedIsValid
  <2>2. CASE p \notin base
    <3>1. PICK r \in Failed \ Adjusted(base) :
            p = [from |-> {}, section |-> "needs_adjustment", refs |-> {r}]
      BY <1>1, <2>2 DEF Synthesis, EnsureFailures
    <3>. QED
      BY <3>1, EvidenceAssumption DEF ValidRefs
  <2>. QED
    BY <2>1, <2>2
<1>2. ASSUME authoritative = TRUE, NEW r \in Failed
      PROVE  r \in Adjusted(out)
  <2>1. CASE r \in Adjusted(base)
    BY <2>1 DEF Adjusted, Synthesis, EnsureFailures
  <2>2. CASE r \notin Adjusted(base)
    <3>. DEFINE q == [from |-> {}, section |-> "needs_adjustment",
                      refs |-> {r}]
    <3>1. q \in out
      BY <1>2, <2>2 DEF Synthesis, EnsureFailures
    <3>. QED
      BY <3>1 DEF Adjusted
  <2>. QED
    BY <2>1, <2>2
<1>. QED
  BY <1>1, <1>2 DEF ValidExperience

\* What holds of the passages of a synthesis that come from one key: the
\* merge that has it is the only one, and it is not retained beside it.
LEMMA EveryPassagePlaced ==
  ASSUME NEW catalog \in [Keys -> Entry], NEW plan \in MergePlan,
         NEW authoritative \in BOOLEAN, ValidMerges(plan, catalog),
         NEW k \in Keys
  PROVE  LET out == Synthesis(plan, catalog, authoritative)
             holding == {p \in out : k \in p.from}
         IN  IF k \in plan.discard THEN holding = {}
             ELSE \E p \in holding :
                    /\ holding = {p}
                    /\ p.section = catalog[k].section
                    /\ catalog[k].refs \subseteq p.refs
<1>. DEFINE out == Synthesis(plan, catalog, authoritative)
            holding == {p \in out : k \in p.from}
            own == [from |-> {k}, section |-> catalog[k].section,
                    refs |-> catalog[k].refs]
            merge(i) == [from |-> plan.merges[i].sources,
                         section |-> plan.merges[i].section,
                         refs |-> UNION {catalog[j].refs :
                                           j \in plan.merges[i].sources}]
            mine == {i \in Slots : k \in plan.merges[i].sources}
<1>1. \A p \in holding :
        \/ p = own /\ k \notin Merged(plan) \union plan.discard
        \/ \E i \in mine : p = merge(i)
  <2>. SUFFICES ASSUME NEW p \in holding
                PROVE  \/ p = own /\ k \notin Merged(plan) \union plan.discard
                       \/ \E i \in mine : p = merge(i)
    OBVIOUS
  <2>1. p \in Materialize(plan, catalog)
    BY DEF Synthesis, EnsureFailures
  <2>2. CASE p \in Retained(plan, catalog)
    BY <2>2 DEF Retained
  <2>3. CASE p \in MergedPassages(plan, catalog)
    BY <2>3 DEF MergedPassages, Used
  <2>. QED
    BY <2>1, <2>2, <2>3 DEF Materialize
<1>2. \A i \in mine : merge(i) \in holding
  BY DEF Synthesis, EnsureFailures, Materialize, MergedPassages, Used
<1>3. \A i, j \in mine : i = j
  BY DEF ValidMerges, Used
<1>4. \A i \in mine : k \notin plan.discard /\ k \in Merged(plan)
  BY DEF ValidMerges, Used, Merged
<1>5. CASE k \in plan.discard
  BY <1>1, <1>4, <1>5
<1>6. CASE k \notin plan.discard /\ mine = {}
  <2>1. k \notin Merged(plan)
    BY <1>6 DEF Merged
  <2>2. own \in holding
    BY <1>6, <2>1 DEF Synthesis, EnsureFailures, Materialize, Retained
  <2>3. holding = {own}
    BY <1>1, <1>6, <2>2
  <2>. QED
    BY <1>6, <2>2, <2>3
<1>7. CASE k \notin plan.discard /\ mine # {}
  <2>1. PICK i \in mine : TRUE
    BY <1>7
  <2>2. merge(i) \in holding
    BY <1>2
  <2>3. holding = {merge(i)}
    BY <1>1, <1>3, <1>4, <2>2
  <2>4. merge(i).section = catalog[k].section
    BY DEF ValidMerges, Used
  <2>5. catalog[k].refs \subseteq merge(i).refs
    OBVIOUS
  <2>. QED
    BY <1>7, <2>2, <2>3, <2>4, <2>5
<1>. QED
  BY <1>5, <1>6, <1>7

-----------------------------------------------------------------------------

\* Only Synthesize leaves a synthesis behind.
LEMMA SynthesisStep ==
  ASSUME Next, op' = "synthesis"
  PROVE  \E catalog \in Catalogs, answer \in Answers,
            authoritative \in BOOLEAN :
           /\ ValidCatalog(catalog, authoritative)
           /\ given' = [catalog |-> catalog, answer |-> answer,
                        plan |-> SynthesisPlan(answer, catalog),
                        authoritative |-> authoritative]
           /\ made' = Synthesis(SynthesisPlan(answer, catalog), catalog,
                                authoritative)
<1>1. Synthesize
  BY DEF Next, Compare, ReadComparison, Divide, JoinReusable, JoinAdjustment,
         Review, ReadReview, FallBackReview, Query, ReadQuery, PlanRollout,
         NextPlan, Do
<1>. QED
  BY <1>1 DEF Synthesize, Do

LEMMA AnswersArePlans == Answers \subseteq MergePlan
  BY DEF Answers

\* Whatever the answer merged or discarded, what _synthesize returns passes
\* validate_experience: no session of the stage is paid for in vain there.
THEOREM SynthesisIsAlwaysValid == Spec => []SynthesisIsValid
<1>1. Init => SynthesisIsValid
  BY DEF Init, SynthesisIsValid
<1>2. SynthesisIsValid /\ [Next]_vars => SynthesisIsValid'
  <2>. SUFFICES ASSUME SynthesisIsValid, [Next]_vars, op' = "synthesis"
                PROVE  ValidExperience(made', given'.authoritative)
    BY DEF SynthesisIsValid
  <2>1. CASE Next
    <3>1. PICK catalog \in Catalogs, answer \in Answers,
               authoritative \in BOOLEAN :
            /\ ValidCatalog(catalog, authoritative)
            /\ given' = [catalog |-> catalog, answer |-> answer,
                         plan |-> SynthesisPlan(answer, catalog),
                         authoritative |-> authoritative]
            /\ made' = Synthesis(SynthesisPlan(answer, catalog), catalog,
                                 authoritative)
      BY <2>1, SynthesisStep
    <3>2. /\ catalog \in [Keys -> Entry]
          /\ SynthesisPlan(answer, catalog) \in MergePlan
          /\ ValidMerges(SynthesisPlan(answer, catalog), catalog)
      BY CatalogAssumption, AnswersArePlans, PlanIsValid
    <3>. QED
      BY <3>1, <3>2, SynthesisPasses
  <2>2. CASE UNCHANGED vars
    BY <2>2 DEF SynthesisIsValid, vars
  <2>. QED
    BY <2>1, <2>2
<1>. QED
  BY <1>1, <1>2, PTL DEF Spec

\* Every drafted passage is in exactly one passage of the synthesis, in its
\* section and with its evidence, unless the answer discards it.
THEOREM SynthesisLosesNothing == Spec => []NoPassageLost
<1>1. Init => NoPassageLost
  BY DEF Init, NoPassageLost
<1>2. NoPassageLost /\ [Next]_vars => NoPassageLost'
  <2>. SUFFICES ASSUME NoPassageLost, [Next]_vars, op' = "synthesis",
                       NEW k \in Keys
                PROVE  LET holding == {p \in made' : k \in p.from}
                       IN  IF k \in given'.plan.discard THEN holding = {}
                           ELSE \E p \in holding :
                                  /\ holding = {p}
                                  /\ p.section = given'.catalog[k].section
                                  /\ given'.catalog[k].refs \subseteq p.refs
    BY DEF NoPassageLost
  <2>1. CASE Next
    <3>1. PICK catalog \in Catalogs, answer \in Answers,
               authoritative \in BOOLEAN :
            /\ given' = [catalog |-> catalog, answer |-> answer,
                         plan |-> SynthesisPlan(answer, catalog),
                         authoritative |-> authoritative]
            /\ made' = Synthesis(SynthesisPlan(answer, catalog), catalog,
                                 authoritative)
      BY <2>1, SynthesisStep
    <3>2. /\ catalog \in [Keys -> Entry]
          /\ SynthesisPlan(answer, catalog) \in MergePlan
          /\ ValidMerges(SynthesisPlan(answer, catalog), catalog)
      BY CatalogAssumption, AnswersArePlans, PlanIsValid
    <3>3. /\ given'.catalog = catalog
          /\ given'.plan = SynthesisPlan(answer, catalog)
      BY <3>1
    <3>. QED
      BY <3>1, <3>2, <3>3, EveryPassagePlaced
  <2>2. CASE UNCHANGED vars
    BY <2>2 DEF NoPassageLost, vars
  <2>. QED
    BY <2>1, <2>2
<1>. QED
  BY <1>1, <1>2, PTL DEF Spec

\* An answer that is in order but for sources listed twice is accepted once
\* these are taken out.
LEMMA ForgivenPlanIsValid ==
  ASSUME NEW answer \in MergePlan, NEW catalog,
         \A i \in Slots :
           /\ answer.merges[i].sources
                \intersect (answer.discard \union {NoKey}) = {}
           /\ \A k \in answer.merges[i].sources :
                catalog[k].section = answer.merges[i].section,
         \A i, j \in Slots : answer.merges[i].id = answer.merges[j].id => i = j
  PROVE  ValidMerges(CanonicalMerges(answer), catalog)
<1>. DEFINE plan == CanonicalMerges(answer)
            rest(i) == answer.merges[i].sources \ Ambiguous(answer)
<1>1. \A i \in Slots :
        /\ plan.merges[i].sources = IF AtLeastTwo(rest(i)) THEN rest(i) ELSE {}
        /\ plan.merges[i].section = answer.merges[i].section
        /\ plan.merges[i].id = answer.merges[i].id
  BY DEF CanonicalMerges, MergePlan, Merge
<1>2. plan.discard = answer.discard
  BY DEF CanonicalMerges, MergePlan
<1>3. \A i \in Slots : answer.merges[i].sources \subseteq Keys \union {NoKey}
  BY DEF MergePlan, Merge
<1>4. ASSUME NEW i \in Used(plan)
      PROVE  /\ AtLeastTwo(plan.merges[i].sources)
             /\ plan.merges[i].sources \subseteq Keys
             /\ \A k \in plan.merges[i].sources :
                  catalog[k].section = plan.merges[i].section
             /\ plan.merges[i].sources \intersect plan.discard = {}
  <2>1. i \in Slots /\ plan.merges[i].sources # {}
    BY DEF Used
  <2>2. plan.merges[i].sources = rest(i) /\ AtLeastTwo(rest(i))
    BY <1>1, <2>1
  <2>3. rest(i) \subseteq answer.merges[i].sources
    OBVIOUS
  <2>. QED
    BY <1>1, <1>2, <1>3, <2>1, <2>2, <2>3
<1>5. ASSUME NEW i \in Used(plan), NEW j \in Used(plan), i # j
      PROVE  /\ plan.merges[i].id # plan.merges[j].id
             /\ plan.merges[i].sources \intersect plan.merges[j].sources = {}
  <2>1. i \in Slots /\ j \in Slots
    BY DEF Used
  <2>2. /\ plan.merges[i].sources \subseteq rest(i)
        /\ plan.merges[j].sources \subseteq rest(j)
    BY <1>1, <2>1
  <2>3. rest(i) \intersect rest(j) = {}
    BY <1>3, <1>5, <2>1 DEF Ambiguous
  <2>. QED
    BY <1>1, <1>5, <2>1, <2>2, <2>3
<1>. QED
  BY <1>4, <1>5 DEF ValidMerges

\* A source listed twice never costs an answer that is otherwise in order:
\* the synthesis is made with what is left of it.
THEOREM AmbiguousSourcesAreForgiven == Spec => []AmbiguityIsForgiven
<1>1. Init => AmbiguityIsForgiven
  BY DEF Init, AmbiguityIsForgiven
<1>2. AmbiguityIsForgiven /\ [Next]_vars => AmbiguityIsForgiven'
  <2>1. CASE UNCHANGED vars
    BY <2>1 DEF AmbiguityIsForgiven, vars
  <2>2. CASE Next /\ op' = "synthesis"
    <3>1. PICK catalog \in Catalogs, answer \in Answers,
               authoritative \in BOOLEAN :
            given' = [catalog |-> catalog, answer |-> answer,
                      plan |-> SynthesisPlan(answer, catalog),
                      authoritative |-> authoritative]
      BY <2>2, SynthesisStep
    <3>2. /\ given'.answer = answer
          /\ given'.catalog = catalog
          /\ given'.plan = SynthesisPlan(answer, catalog)
      BY <3>1
    <3>3. SUFFICES
            ASSUME \A i \in Slots :
                     /\ answer.merges[i].sources
                          \intersect (answer.discard \union {NoKey}) = {}
                     /\ \A k \in answer.merges[i].sources :
                          catalog[k].section = answer.merges[i].section,
                   \A i, j \in Slots :
                     answer.merges[i].id = answer.merges[j].id => i = j
            PROVE  given'.plan = CanonicalMerges(answer)
      BY <3>2 DEF AmbiguityIsForgiven
    <3>4. answer \in MergePlan
      BY AnswersArePlans
    <3>5. ValidMerges(CanonicalMerges(answer), catalog)
      BY <3>3, <3>4, ForgivenPlanIsValid
    <3>. QED
      BY <3>2, <3>5 DEF SynthesisPlan
  <2>. QED
    BY <2>1, <2>2 DEF AmbiguityIsForgiven
<1>. QED
  BY <1>1, <1>2, PTL DEF Spec

\* The three together: a synthesis is valid, whole, and follows its answer.
THEOREM SynthesisIsAlwaysSound == Spec => []SynthesisIsSound
  BY SynthesisIsAlwaysValid, SynthesisLosesNothing,
     AmbiguousSourcesAreForgiven, PTL DEF SynthesisIsSound

-----------------------------------------------------------------------------

\* Two accepted groups of a comparison make an accepted comparison.
LEMMA CombinationPasses ==
  ASSUME NEW S, NEW T, NEW index, NEW authoritative \in BOOLEAN,
         NEW a, NEW b,
         ValidComparison(a, S, index, authoritative),
         ValidComparison(b, T, index, authoritative)
  PROVE  ValidComparison(CombineComparisons(a, b), S \union T, index,
                         authoritative)
<1>. DEFINE out == CombineComparisons(a, b)
<1>1. /\ out.tasks = S \union T
      /\ DOMAIN out.records = S \union T
      /\ \A t \in S : out.records[t] = a.records[t]
      /\ \A t \in T : t \notin S => out.records[t] = b.records[t]
      /\ out.passages = a.passages \union b.passages
  BY DEF ValidComparison, CombineComparisons
<1>2. /\ TrialRefs(S, index) \subseteq TrialRefs(S \union T, index)
      /\ TrialRefs(T, index) \subseteq TrialRefs(S \union T, index)
  BY DEF TrialRefs
<1>3. \A t \in S \union T :
        /\ out.records[t].status \in Statuses
        /\ authoritative => out.records[t].status =
             Status(index.reference[t], index.candidate[t])
        /\ out.records[t].reference = index.reference[t]
        /\ out.records[t].candidate = index.candidate[t]
        /\ out.records[t].summary = Summary(t, index)
  BY <1>1 DEF ValidComparison
<1>4. \A p \in out.passages :
        /\ p.refs # {}
        /\ p.refs \subseteq TrialRefs(S \union T, index)
        /\ p.section = "reusable" /\ authoritative =>
             ~ (p.refs \subseteq Failed)
  BY <1>1, <1>2 DEF ValidComparison
<1>. QED
  BY <1>1, <1>3, <1>4 DEF ValidComparison

\* What accepted groups found makes an accepted comparison with every one
\* of their passages, for all trials, outcomes and answers.
THEOREM ComparisonIsAlwaysAccepted == Spec => []ComparisonIsAccepted
<1>1. Init => ComparisonIsAccepted
  BY DEF Init, ComparisonIsAccepted
<1>2. ComparisonIsAccepted /\ [Next]_vars => ComparisonIsAccepted'
  <2>. SUFFICES ASSUME ComparisonIsAccepted, [Next]_vars, op' = "comparison"
                PROVE  /\ ValidComparison(made', {FirstTask, SecondTask},
                            given'.index, given'.authoritative)
                       /\ made'.passages = given'.found
    BY DEF ComparisonIsAccepted
  <2>1. CASE Next
    <3>1. Compare
      BY <2>1 DEF Next, Synthesize, ReadComparison, Divide, JoinReusable,
                  JoinAdjustment, Review, ReadReview, FallBackReview, Query,
                  ReadQuery, PlanRollout, NextPlan, Do
    <3>2. PICK index \in Indexes, authoritative \in BOOLEAN :
            \E a, b :
              /\ ValidComparison(a, {FirstTask}, index, authoritative)
              /\ ValidComparison(b, {SecondTask}, index, authoritative)
              /\ given' = [index |-> index, authoritative |-> authoritative,
                           found |-> a.passages \union b.passages]
              /\ made' = CombineComparisons(a, b)
      BY <3>1 DEF Compare, Do
    <3>3. PICK a, b :
            /\ ValidComparison(a, {FirstTask}, index, authoritative)
            /\ ValidComparison(b, {SecondTask}, index, authoritative)
            /\ given' = [index |-> index, authoritative |-> authoritative,
                         found |-> a.passages \union b.passages]
            /\ made' = CombineComparisons(a, b)
      BY <3>2
    <3>4. ValidComparison(made', {FirstTask} \union {SecondTask}, index,
                          authoritative)
      BY <3>3, CombinationPasses
    <3>5. {FirstTask} \union {SecondTask} = {FirstTask, SecondTask}
      OBVIOUS
    <3>6. made'.passages = given'.found
      BY <3>3 DEF CombineComparisons
    <3>. QED
      BY <3>3, <3>4, <3>5, <3>6
  <2>2. CASE UNCHANGED vars
    BY <2>2 DEF ComparisonIsAccepted, vars
  <2>. QED
    BY <2>1, <2>2
<1>. QED
  BY <1>1, <1>2, PTL DEF Spec

\* A comparison that holds the accepted canonical answers of two groups.
HoldsTwoGroups ==
  op = "comparison" =>
    \E index \in Indexes, authoritative \in BOOLEAN,
       a \in GroupAnswers(FirstTask), b \in GroupAnswers(SecondTask) :
      LET first == CanonicalComparison(a, {FirstTask}, index, authoritative)
          second == CanonicalComparison(b, {SecondTask}, index, authoritative)
      IN  /\ ValidComparison(first, {FirstTask}, index, authoritative)
          /\ ValidComparison(second, {SecondTask}, index, authoritative)
          /\ given = [index |-> index, authoritative |-> authoritative,
                      found |-> first.passages \union second.passages]
          /\ made = CombineComparisons(first, second)

\* What canonicalize_comparison makes of one task's record and of a passage.
Canonized(r, t, index, authoritative) ==
  [status |-> IF authoritative
                THEN Status(index.reference[t], index.candidate[t])
                ELSE r.status,
   summary |-> Summary(t, index),
   reference |-> index.reference[t],
   candidate |-> index.candidate[t]]

Narrowed(p, T, index) == [p EXCEPT !.refs = @ \intersect TrialRefs(T, index)]

StaysCanonical(out, S, T, index, authoritative) ==
  /\ \A t \in S :
       out.records[t] = Canonized(out.records[t], t, index, authoritative)
  /\ \A p \in out.passages : Narrowed(p, T, index) = p

\* A canonical group that was accepted is left alone when the comparison
\* that holds it is made canonical for all of its tasks.
LEMMA CanonicalTwice ==
  ASSUME NEW S, NEW T, NEW index, NEW authoritative \in BOOLEAN, NEW a,
         S \subseteq T,
         ValidComparison(CanonicalComparison(a, S, index, authoritative), S,
                         index, authoritative)
  PROVE  StaysCanonical(CanonicalComparison(a, S, index, authoritative), S, T,
                        index, authoritative)
<1>. DEFINE out == CanonicalComparison(a, S, index, authoritative)
<1>1. DOMAIN out.records = S
  BY DEF ValidComparison
<1>2. out.records = [t \in DOMAIN a.records |->
        Canonized(a.records[t], t, index, authoritative)]
  BY DEF CanonicalComparison, Canonized
<1>3. ASSUME NEW t \in S
      PROVE  out.records[t] =
               Canonized(out.records[t], t, index, authoritative)
  <2>1. out.records[t] = Canonized(a.records[t], t, index, authoritative)
    BY <1>1, <1>2
  <2>. QED
    BY <2>1 DEF Canonized
<1>4. ASSUME NEW p \in out.passages
      PROVE  Narrowed(p, T, index) = p
  <2>1. PICK q \in a.passages :
          p = [q EXCEPT !.refs = @ \intersect TrialRefs(S, index)]
    BY DEF CanonicalComparison
  <2>2. p.refs \subseteq TrialRefs(S, index)
    BY DEF ValidComparison
  <2>3. TrialRefs(S, index) \subseteq TrialRefs(T, index)
    BY DEF TrialRefs
  <2>4. p.refs \intersect TrialRefs(T, index) = p.refs
    BY <2>2, <2>3
  <2>. QED
    BY <2>1, <2>4 DEF Narrowed
<1>. QED
  BY <1>3, <1>4 DEF StaysCanonical

\* Read again, a combined comparison is the one that was written, but for
\* the versions its tasks were compared with.
THEOREM ComparisonsReadTheSame == Spec => []ComparisonReadsTheSame
<1>. DEFINE Inv == HoldsTwoGroups /\ ComparisonReadsTheSame
<1>1. Init => Inv
  BY DEF Init, HoldsTwoGroups, ComparisonReadsTheSame
<1>2. Inv /\ [Next]_vars => Inv'
  <2>. SUFFICES ASSUME Inv, [Next]_vars PROVE Inv'
    OBVIOUS
  <2>1. CASE UNCHANGED vars
    BY <2>1 DEF HoldsTwoGroups, ComparisonReadsTheSame, vars
  <2>2. CASE Compare
    <3>1. op' = "comparison"
      BY <2>2 DEF Compare, Do
    <3>2. HoldsTwoGroups'
      BY <2>2 DEF Compare, Do, HoldsTwoGroups
    <3>. QED
      BY <3>1, <3>2 DEF ComparisonReadsTheSame
  <2>3. CASE ReadComparison
    <3>1. /\ op = "comparison" /\ op' = "comparison_read"
          /\ given' = [given EXCEPT !.found = made]
          /\ made' = CanonicalComparison(made, {FirstTask, SecondTask},
                                         given.index, given.authoritative)
      BY <2>3 DEF ReadComparison, Do
    <3>2. PICK index \in Indexes, authoritative \in BOOLEAN,
       a \in GroupAnswers(FirstTask), b \in GroupAnswers(SecondTask) :
            LET first == CanonicalComparison(a, {FirstTask}, index,
                                             authoritative)
                second == CanonicalComparison(b, {SecondTask}, index,
                                              authoritative)
            IN  /\ ValidComparison(first, {FirstTask}, index, authoritative)
                /\ ValidComparison(second, {SecondTask}, index, authoritative)
                /\ given = [index |-> index, authoritative |-> authoritative,
                            found |-> first.passages \union second.passages]
                /\ made = CombineComparisons(first, second)
      BY <3>1 DEF HoldsTwoGroups
    <3>. DEFINE first == CanonicalComparison(a, {FirstTask}, index,
                                             authoritative)
                second == CanonicalComparison(b, {SecondTask}, index,
                                              authoritative)
                both == {FirstTask, SecondTask}
    <3>3. /\ first.tasks = {FirstTask} /\ second.tasks = {SecondTask}
          /\ {FirstTask} \union {SecondTask} = both
      BY DEF CanonicalComparison
    <3>4. /\ made.tasks = both
          /\ made.versions = both
          /\ made.passages = first.passages \union second.passages
          /\ made.records = [t \in both |->
               IF t \in {FirstTask} THEN first.records[t]
               ELSE second.records[t]]
          /\ made = [tasks |-> both, records |-> made.records,
                     passages |-> made.passages, versions |-> both]
      BY <3>2, <3>3 DEF CombineComparisons
    <3>5. StaysCanonical(first, {FirstTask}, both, index, authoritative)
      <4>1. ValidComparison(first, {FirstTask}, index, authoritative)
        BY <3>2
      <4>2. {FirstTask} \subseteq both
        OBVIOUS
      <4>. QED
        BY <4>1, <4>2, CanonicalTwice
    <3>6. StaysCanonical(second, {SecondTask}, both, index, authoritative)
      <4>1. ValidComparison(second, {SecondTask}, index, authoritative)
        BY <3>2
      <4>2. {SecondTask} \subseteq both
        OBVIOUS
      <4>. QED
        BY <4>1, <4>2, CanonicalTwice
    <3>7. ASSUME NEW t \in both
          PROVE  made.records[t] =
                   Canonized(made.records[t], t, index, authoritative)
      <4>. HIDE DEF first, second
      <4>1. CASE t = FirstTask
        BY <3>4, <3>5, <4>1 DEF StaysCanonical
      <4>2. CASE t # FirstTask
        <5>1. t \in {SecondTask} /\ made.records[t] = second.records[t]
          BY <3>4, <4>2
        <5>. QED
          BY <3>6, <5>1 DEF StaysCanonical
      <4>. QED
        BY <4>1, <4>2
    <3>8. ASSUME NEW p \in made.passages
          PROVE  Narrowed(p, both, index) = p
      <4>. HIDE DEF first, second
      <4>. QED
        BY <3>4, <3>5, <3>6 DEF StaysCanonical
    <3>. DEFINE records == [t \in DOMAIN made.records |->
                  Canonized(made.records[t], t, index, authoritative)]
                passages == {Narrowed(p, both, index) : p \in made.passages}
    <3>9. records = made.records
      BY <3>4, <3>7
    <3>10. passages = made.passages
      BY <3>8
    <3>11. given.index = index /\ given.authoritative = authoritative
      BY <3>2
    <3>12. made' = [tasks |-> both, records |-> records,
                    passages |-> passages, versions |-> {}]
      BY <3>1, <3>11 DEF CanonicalComparison, Canonized, Narrowed
    <3>13. made' = [made EXCEPT !.versions = {}]
      <4>1. made' = [tasks |-> both, records |-> made.records,
                     passages |-> made.passages, versions |-> {}]
        BY <3>9, <3>10, <3>12
      <4>2. PICK r, p : made = [tasks |-> both, records |-> r,
                                passages |-> p, versions |-> both]
        BY <3>4
      <4>3. made.records = r /\ made.passages = p
        BY <4>2
      <4>. HIDE DEF both
      <4>. QED
        BY <4>1, <4>2, <4>3
    <3>14. given'.found = made
      BY <3>1, <3>2
    <3>. QED
      BY <3>1, <3>13, <3>14 DEF HoldsTwoGroups, ComparisonReadsTheSame
  <2>4. CASE Next /\ ~ Compare /\ ~ ReadComparison
    <3>1. op' \notin {"comparison", "comparison_read"}
      BY <2>4 DEF Next, Synthesize, Divide, JoinReusable, JoinAdjustment,
                  Review, ReadReview, FallBackReview, Query, ReadQuery,
                  PlanRollout, NextPlan, Do
    <3>. QED
      BY <3>1 DEF HoldsTwoGroups, ComparisonReadsTheSame
  <2>. QED
    BY <2>1, <2>2, <2>3, <2>4
<1>. QED
  BY <1>1, <1>2, PTL DEF Spec

\* What an accepted comparison says of a task under authority is what its
\* trials say.
LEMMA AcceptedIsTruthful == ComparisonIsAccepted => NoFailureIsStable
<1>. SUFFICES ASSUME ComparisonIsAccepted, op = "comparison",
                     given.authoritative, NEW t \in DOMAIN made.records
              PROVE  /\ made.records[t].status = "stable_success" =>
                          made.records[t].candidate \intersect Failed = {}
                     /\ made.records[t].status \in
                           {"regressed", "still_failing"} =>
                          made.records[t].candidate \subseteq Failed
  BY DEF NoFailureIsStable
<1>1. /\ made.records[t].candidate = given.index.candidate[t]
      /\ made.records[t].status =
           Status(given.index.reference[t], given.index.candidate[t])
  BY DEF ComparisonIsAccepted, ValidComparison
<1>. QED
  BY <1>1 DEF Status, Passes

\* Accepted, truthful and the same when it is read again.
THEOREM ComparisonIsAlwaysSound == Spec => []ComparisonIsSound
<1>1. ComparisonIsAccepted => NoFailureIsStable
  BY AcceptedIsTruthful
<1>. QED
  BY <1>1, ComparisonIsAlwaysAccepted, ComparisonsReadTheSame, PTL
  DEF ComparisonIsSound

\* The fallback of a review is accepted when it is read again, whatever the
\* statuses, tasks and changed channels.
THEOREM FallbackIsAlwaysAccepted == Spec => []FallbackIsAccepted
<1>1. Init => FallbackIsAccepted
  BY DEF Init, FallbackIsAccepted
<1>2. FallbackIsAccepted /\ [Next]_vars => FallbackIsAccepted'
  <2>. SUFFICES ASSUME FallbackIsAccepted, [Next]_vars, op' = "fallback"
                PROVE  /\ ValidPreservation(made'.preservation, given'.status)
                       /\ ValidAssessment(made'.assessment, given'.status,
                                          ReplanChannels(TRUE))
    BY DEF FallbackIsAccepted
  <2>1. CASE Next
    <3>1. FallBackReview
      BY <2>1 DEF Next, Synthesize, Compare, ReadComparison, Divide,
                  JoinReusable, JoinAdjustment, Review, ReadReview, Query,
                  ReadQuery, PlanRollout, NextPlan, Do
    <3>2. PICK status \in [Reviewed -> Statuses] :
            /\ given' = [status |-> status]
            /\ made' = [preservation |-> FallbackPreservation(status),
                        assessment |-> FallbackAssessment(status)]
      BY <3>1 DEF FallBackReview, Do
    <3>3. ValidPreservation(FallbackPreservation(status), status)
      BY DEF ValidPreservation, FallbackPreservation
    <3>4. ValidAssessment(FallbackAssessment(status), status,
                          ReplanChannels(TRUE))
      BY ChangeAssumption DEF ValidAssessment, FallbackAssessment, Relations,
                              AttributionRelations
    <3>. QED
      BY <3>2, <3>3, <3>4
  <2>2. CASE UNCHANGED vars
    BY <2>2 DEF FallbackIsAccepted, vars
  <2>. QED
    BY <2>1, <2>2
<1>. QED
  BY <1>1, <1>2, PTL DEF Spec

\* Only what a live validator is not told of the discovered channels makes
\* it stricter than a reader's.
LEMMA ReadersAreNotStricter ==
  ASSUME NEW out, NEW status
  PROVE  /\ ValidAssessment(out, status, ReplanChannels(FALSE)) =>
              ValidAssessment(out, status, ReplanChannels(TRUE))
         /\ /\ ValidAssessment(out, status, ReplanChannels(TRUE))
            /\ out.replan \subseteq Changed
            => ValidAssessment(out, status, ReplanChannels(FALSE))
  BY ChangeAssumption DEF ValidAssessment, ReplanChannels

\* Making a review canonical once more changes nothing.
LEMMA CanonicalOnce ==
  ASSUME NEW status \in [Reviewed -> Statuses], NEW answer \in ReviewAnswers
  PROVE  LET out == CanonicalAssessment(answer, status)
         IN  CanonicalAssessment(out, status) = out
<1>. DEFINE said(t) == IF t \in DOMAIN answer.assessments
                         THEN answer.assessments[t] ELSE NoAssessment
            told == [t \in Reviewed |-> [said(t) EXCEPT !.status = status[t]]]
            named == IF answer.channels \intersect Changed = {}
                       THEN answer.channels
                       ELSE answer.channels \intersect Changed
            out == CanonicalAssessment(answer, status)
<1>1. out = [answer EXCEPT !.assessments = told, !.channels = named]
  BY DEF CanonicalAssessment
<1>2. out.assessments = told /\ out.channels = named
  BY <1>1 DEF ReviewAnswers
<1>3. \A t \in Reviewed :
        [told[t] EXCEPT !.status = status[t]] = told[t]
  OBVIOUS
<1>4. [t \in Reviewed |->
         [(IF t \in DOMAIN out.assessments THEN out.assessments[t]
             ELSE NoAssessment) EXCEPT !.status = status[t]]] = told
  BY <1>2, <1>3
<1>5. (IF out.channels \intersect Changed = {} THEN out.channels
         ELSE out.channels \intersect Changed) = named
  BY <1>2
<1>6. CanonicalAssessment(out, status) =
        [out EXCEPT !.assessments = told, !.channels = named]
  BY <1>4, <1>5 DEF CanonicalAssessment
<1>. QED
  BY <1>1, <1>6

\* What a review was made of while it waits to be read again.
HoldsReview ==
  op \in {"review", "refused"} =>
    /\ given.status \in [Reviewed -> Statuses]
    /\ given.answer \in ReviewAnswers
    /\ made = CanonicalAssessment(given.answer, given.status)
    /\ op = "review" <=>
         ValidAssessment(made, given.status, ReplanChannels(FALSE))

\* A review that is found again is judged as it was, but for replans of
\* channels the live validator was not told of.
THEOREM ReviewsReadTheSame == Spec => []ReviewReadsTheSame
<1>. DEFINE Inv == HoldsReview /\ ReviewReadsTheSame
<1>1. Init => Inv
  BY DEF Init, HoldsReview, ReviewReadsTheSame
<1>2. Inv /\ [Next]_vars => Inv'
  <2>. SUFFICES ASSUME Inv, [Next]_vars PROVE Inv'
    OBVIOUS
  <2>1. CASE UNCHANGED vars
    BY <2>1 DEF HoldsReview, ReviewReadsTheSame, vars
  <2>2. CASE Review
    <3>1. PICK status \in [Reviewed -> Statuses], answer \in ReviewAnswers :
            /\ made' = CanonicalAssessment(answer, status)
            /\ given' = [status |-> status, answer |-> answer]
            /\ op' = IF ValidAssessment(made', status, ReplanChannels(FALSE))
                       THEN "review" ELSE "refused"
      BY <2>2 DEF Review, Do
    <3>2. given'.status = status /\ given'.answer = answer
      BY <3>1
    <3>. QED
      BY <3>1, <3>2 DEF HoldsReview, ReviewReadsTheSame
  <2>3. CASE ReadReview
    <3>1. PICK kept \in {given.answer}
                         \union (IF op = "review" THEN {made} ELSE {}) :
            LET out == CanonicalAssessment(kept, given.status)
            IN  /\ op' = "review_read"
                /\ given' = [written |-> made, accepted |-> op = "review"]
                /\ made' = [output |-> out,
                             accepted |-> ValidAssessment(out, given.status,
                                                  ReplanChannels(TRUE))]
      BY <2>3 DEF ReadReview, Do
    <3>2. /\ given.status \in [Reviewed -> Statuses]
          /\ given.answer \in ReviewAnswers
          /\ made = CanonicalAssessment(given.answer, given.status)
          /\ op = "review" <=>
               ValidAssessment(made, given.status, ReplanChannels(FALSE))
      BY <2>3 DEF ReadReview, HoldsReview
    <3>3. CanonicalAssessment(kept, given.status) = made
      BY <3>1, <3>2, CanonicalOnce
    <3>4. /\ given'.written = made /\ given'.accepted = (op = "review")
          /\ made'.output = made
          /\ made'.accepted = ValidAssessment(made, given.status,
                                               ReplanChannels(TRUE))
      BY <3>1, <3>3
    <3>5. op' = "review_read"
      BY <3>1
    <3>. QED
      BY <3>2, <3>4, <3>5, ReadersAreNotStricter
      DEF HoldsReview, ReviewReadsTheSame
  <2>4. CASE Next /\ ~ Review /\ ~ ReadReview
    <3>1. op' \notin {"review", "refused", "review_read"}
      BY <2>4 DEF Next, Synthesize, Compare, ReadComparison, Divide,
                  JoinReusable, JoinAdjustment, FallBackReview, Query,
                  ReadQuery, PlanRollout, NextPlan, Do
    <3>. QED
      BY <3>1 DEF HoldsReview, ReviewReadsTheSame
  <2>. QED
    BY <2>1, <2>2, <2>3, <2>4
<1>. QED
  BY <1>1, <1>2, PTL DEF Spec

\* Paid reviews are judged alike when they are found again, and the fallback
\* is always accepted.
THEOREM ReviewIsAlwaysSound == Spec => []ReviewIsSound
  BY ReviewsReadTheSame, FallbackIsAlwaysAccepted, PTL DEF ReviewIsSound

-----------------------------------------------------------------------------

\* There are as many sessions as wanted, but never more than experiences.
LEMMA GroupCountBounds ==
  ASSUME NEW n \in Nat \ {0}
  PROVE  /\ GroupCount(n) \in 1..MaxGroups
         /\ GroupCount(n) <= n
<1>. DEFINE wanted == (n + Target - 1) \div Target
<1>1. wanted \in Nat /\ wanted >= 1 /\ wanted <= n
  <2>1. n + Target - 1 \in Nat /\ n + Target - 1 >= Target
    BY PartitionAssumption
  <2>2. n + Target - 1 <= n * Target
    BY PartitionAssumption
  <2>. QED
    BY <2>1, <2>2, PartitionAssumption
<1>. QED
  BY <1>1, PartitionAssumption DEF GroupCount

\* partition_adjustment_experiences gives every experience to exactly one
\* session and starts none for nothing, whatever the number of experiences.
THEOREM PartsPartition ==
  ASSUME NEW n \in Nat \ {0}
  PROVE  /\ \A i \in 1..n : \E g \in 1..GroupCount(n) :
              /\ i \in Part(n, g)
              /\ \A h \in 1..GroupCount(n) : i \in Part(n, h) => h = g
         /\ \A g \in 1..GroupCount(n) : Part(n, g) # {}
<1>. DEFINE G == GroupCount(n)
<1>1. G \in Nat /\ G >= 1 /\ G <= n
  BY GroupCountBounds, PartitionAssumption
<1>2. \A i \in 1..n : (i - 1) % G \in 0..(G - 1)
  BY <1>1
<1>3. ASSUME NEW i \in 1..n
      PROVE  \E g \in 1..G : /\ i \in Part(n, g)
                             /\ \A h \in 1..G : i \in Part(n, h) => h = g
  <2>. DEFINE g == ((i - 1) % G) + 1
  <2>1. g \in 1..G /\ i \in Part(n, g)
    BY <1>1, <1>2 DEF Part
  <2>2. \A h \in 1..G : i \in Part(n, h) => h = g
    BY <1>1, <1>2 DEF Part
  <2>. QED
    BY <2>1, <2>2
<1>4. ASSUME NEW g \in 1..G PROVE g \in Part(n, g)
  <2>1. g \in 1..n /\ (g - 1) % G = g - 1
    BY <1>1
  <2>. QED
    BY <2>1 DEF Part
<1>. QED
  BY <1>3, <1>4

\* A number is a multiple and its remainder, in one way only.
LEMMA Division ==
  ASSUME NEW m \in Nat \ {0}, NEW a \in Nat, NEW r \in Nat, a % m = r
  PROVE  \E q \in Nat : a = q * m + r
<1>. a = (a \div m) * m + (a % m) /\ a \div m \in Nat
  OBVIOUS
<1>. QED
  OBVIOUS

LEMMA RemainderIsUnique ==
  ASSUME NEW m \in Nat \ {0}, NEW q \in Int, NEW r \in 0..(m - 1)
  PROVE  (q * m + r) % m = r
  OBVIOUS

\* Dealing in turn leaves no part with two more than another: the members
\* of a part but its first are a round behind in any other.
LEMMA PartsAreEven ==
  ASSUME NEW n \in Nat \ {0},
         NEW g \in 1..GroupCount(n), NEW h \in 1..GroupCount(n)
  PROVE  Cardinality(Part(n, g)) <= Cardinality(Part(n, h)) + 1
<1>. DEFINE G == GroupCount(n)
            P == Part(n, g)
            Q == Part(n, h)
            R == P \ {g}
            f == [i \in R |-> i - G - g + h]
<1>1. G \in Nat /\ G >= 1 /\ G <= n
  BY GroupCountBounds, PartitionAssumption
<1>2. IsFiniteSet(P) /\ IsFiniteSet(Q)
  <2>1. IsFiniteSet(1..n)
    BY FS_Interval
  <2>2. P \subseteq 1..n /\ Q \subseteq 1..n
    BY DEF Part
  <2>. QED
    BY <2>1, <2>2, FS_Subset
<1>3. g \in P
  <2>1. g \in 1..n /\ (g - 1) % G = g - 1
    BY <1>1
  <2>. QED
    BY <2>1 DEF Part
<1>4. ASSUME NEW i \in R PROVE i - G - g + h \in Q
  <2>1. i \in 1..n /\ (i - 1) % G = g - 1 /\ i # g
    BY DEF Part
  <2>2. /\ i - 1 \in Nat /\ g - 1 \in Nat
        /\ (i - 1) % G = g - 1 /\ G \in Nat \ {0}
    BY <1>1, <2>1
  <2>3. PICK q \in Nat : i - 1 = q * G + (g - 1)
    BY <2>2, Division
  <2>4. q >= 1
    BY <1>1, <2>1, <2>3
  <2>5. i - G - g + h = (q - 1) * G + h
    BY <1>1, <2>1, <2>3, <2>4
  <2>6. (q - 1) * G >= 0
    BY <1>1, <2>4
  <2>7. i - G - g + h \in 1..n
    BY <1>1, <2>1, <2>5, <2>6
  <2>8. PICK j \in 1..n : j = i - G - g + h
    BY <2>7
  <2>9. j - 1 = (q - 1) * G + (h - 1)
    BY <1>1, <2>1, <2>5, <2>8
  <2>10. (j - 1) % G = h - 1
    <3>1. h - 1 \in 0..(G - 1) /\ q - 1 \in Int /\ G \in Nat \ {0}
      BY <1>1
    <3>2. ((q - 1) * G + (h - 1)) % G = h - 1
      BY <3>1, RemainderIsUnique
    <3>. QED
      BY <2>9, <3>2
  <2>11. j \in Q
    BY <2>10 DEF Part
  <2>. QED
    BY <2>8, <2>11
<1>5. f \in [R -> Q] /\ \A i, j \in R : f[i] = f[j] => i = j
  <2>1. f \in [R -> Q]
    BY <1>4
  <2>2. \A i, j \in R : f[i] = f[j] => i = j
    <3>1. R \subseteq Int
      BY DEF Part
    <3>. QED
      BY <1>1, <3>1
  <2>. QED
    BY <2>1, <2>2
<1>6. IsFiniteSet(R) /\ Cardinality(R) = Cardinality(P) - 1
  BY <1>2, <1>3, FS_RemoveElement
<1>7. /\ Cardinality(P) \in Nat /\ Cardinality(Q) \in Nat
      /\ Cardinality(R) \in Int
  <2>1. Cardinality(P) \in Nat /\ Cardinality(Q) \in Nat
    BY <1>2, FS_CardinalityType
  <2>. QED
    BY <1>6, <2>1
<1>8. ~ (Cardinality(Q) < Cardinality(R))
  <2>. HIDE DEF f, P, Q, R
  <2>. QED
    BY <1>2, <1>5, <1>6, FS_PigeonHole
<1>. SUFFICES Cardinality(P) <= Cardinality(Q) + 1
  OBVIOUS
<1>. HIDE DEF P, Q, R
<1>. QED
  BY <1>6, <1>7, <1>8

\* Every experience is analyzed in exactly one session, and the sessions
\* are even: partition_adjustment_experiences for every number of them.
THEOREM PartsAreAlwaysExact == Spec => []PartsAreExact
<1>1. Init => PartsAreExact
  BY DEF Init, PartsAreExact
<1>2. PartsAreExact /\ [Next]_vars => PartsAreExact'
  <2>1. CASE UNCHANGED vars
    BY <2>1 DEF PartsAreExact, vars
  <2>2. CASE Next /\ op' = "parts"
    <3>1. Divide
      BY <2>2 DEF Next, Synthesize, Compare, ReadComparison, JoinReusable,
                  JoinAdjustment, Review, ReadReview, FallBackReview, Query,
                  ReadQuery, PlanRollout, NextPlan, Do
    <3>2. PICK n \in 1..MaxExperiences :
            /\ given' = n
            /\ made' = [g \in 1..GroupCount(n) |-> Part(n, g)]
      BY <3>1 DEF Divide, Do
    <3>3. n \in Nat \ {0}
      BY BoundAssumption
    <3>. DEFINE G == GroupCount(n)
                dealt == [g \in 1..G |-> Part(n, g)]
    <3>4. ASSUME NEW i \in 1..n
          PROVE  Cardinality({g \in DOMAIN dealt : i \in dealt[g]}) = 1
      <4>1. PICK g \in 1..G :
              /\ i \in Part(n, g)
              /\ \A h \in 1..G : i \in Part(n, h) => h = g
        BY <3>3, PartsPartition
      <4>2. {h \in DOMAIN dealt : i \in dealt[h]} = {g}
        BY <4>1
      <4>. QED
        BY <4>2, FS_Singleton
    <3>5. ASSUME NEW g \in DOMAIN dealt, NEW h \in DOMAIN dealt
          PROVE  /\ dealt[g] # {}
                 /\ Cardinality(dealt[g]) <= Cardinality(dealt[h]) + 1
      BY <3>3, PartsPartition, PartsAreEven
    <3>. HIDE DEF dealt
    <3>. QED
      BY <3>2, <3>4, <3>5 DEF PartsAreExact, dealt
  <2>3. CASE Next /\ op' # "parts"
    BY <2>3 DEF PartsAreExact
  <2>. QED
    BY <2>1, <2>2, <2>3
<1>. QED
  BY <1>1, <1>2, PTL DEF Spec

-----------------------------------------------------------------------------

\* The tables of discovery.py agree with the inventories of the adapters: a
\* channel that is admitted may be edited and has the evidence its level
\* asks for; one that is not is refused with a status it may have.
LEMMA AdmittedMayBeEdited ==
  ASSUME NEW h \in Harnesses, NEW c \in DOMAIN Inventory[h],
         c \in Admitted[h]
  PROVE  /\ HypothesisPolicy(h, c) = NoPolicy
         /\ c \in Observed[h] \/ c \in Grounded[h]
<1>1. CASE h = "opencode"
  <2>1. c \in {"instructions_rules", "skills", "system_prompt",
               "agent_definitions"}
    BY <1>1 DEF Admitted
  <2>2. Inventory[h][c] = "verified"
    BY <1>1, <2>1
    DEF Inventory, OpencodeChannels, StatusOver, OpencodeOperations
  <2>. QED
    BY <1>1, <2>1, <2>2
    DEF HypothesisPolicy, FixedSurfaces, ConditionalSurfaces, Grounded,
        OpencodeOperations, NoPolicy
<1>2. CASE h = "pi"
  <2>1. c \in {"project_instructions", "skills", "system_prompt",
               "compaction_config"}
    BY <1>2 DEF Admitted
  <2>2. PiChannels[c] = "verified" /\ c \in DOMAIN PiChannels
    BY <1>2, <2>1 DEF PiChannels, StatusOver
  <2>3. Inventory[h][c] = "verified" /\ c \in Grounded[h]
    BY <1>2, <2>2 DEF Inventory, Grounded
  <2>. QED
    BY <1>2, <2>3
    DEF HypothesisPolicy, FixedSurfaces, ConditionalSurfaces, NoPolicy
<1>3. CASE h = "codex"
  <2>1. c \in {"developer_instructions", "project_instructions", "skills",
               "hooks", "compaction"}
    BY <1>3 DEF Admitted
  <2>2. Inventory[h][c] = "verified"
    <3>1. c \in CodexRuntime
      BY <2>1 DEF CodexRuntime
    <3>2. CodexChannels[c] = "verified"
      <4>1. /\ c \notin {"feature_flags", "profiles", "sandbox_approval"}
            /\ c \notin CodexUnsupported
        BY <2>1 DEF CodexUnsupported
      <4>. QED
        BY <3>1, <4>1 DEF CodexChannels, StatusOver
    <3>. QED
      BY <1>3, <3>2 DEF Inventory
  <2>. QED
    BY <1>3, <2>1, <2>2
    DEF HypothesisPolicy, FixedSurfaces, ConditionalSurfaces, Grounded,
        CodexRuntime, NoPolicy
<1>. QED
  BY <1>1, <1>2, <1>3 DEF Harnesses

LEMMA RefusedAsItMustBe ==
  ASSUME NEW h \in Harnesses, NEW c \in DOMAIN Inventory[h]
  PROVE  /\ UnavailableStatus(h, c)
              \in {"conditional", "unsupported", "forbidden"}
         /\ HypothesisPolicy(h, c) = "forbidden" =>
              UnavailableStatus(h, c) = "forbidden"
<1>1. ChannelPolicy(h, c)
        \in {NoPolicy, "conditional", "unsupported", "forbidden"}
  BY DEF ChannelPolicy
<1>2. HypothesisPolicy(h, c)
        \in {NoPolicy, "conditional", "unsupported", "forbidden"}
  BY DEF HypothesisPolicy
<1>3. ASSUME ChannelPolicy(h, c) \in {"conditional", "unsupported"}
      PROVE  HypothesisPolicy(h, c) # "forbidden"
  <2>1. CASE h = "opencode"
    <3>1. c \in {"commands", "reference_sources", "plugin_tool_system",
                 "custom_tools"}
      BY <1>3, <2>1 DEF ChannelPolicy, NoPolicy
    <3>2. Inventory[h][c] = "verified"
      BY <2>1, <3>1
      DEF Inventory, OpencodeChannels, StatusOver, OpencodeOperations
    <3>. QED
      BY <2>1, <3>1, <3>2
      DEF HypothesisPolicy, FixedSurfaces, ConditionalSurfaces, NoPolicy
  <2>2. CASE h = "pi"
    <3>1. c = "extensions"
      BY <1>3, <2>2 DEF ChannelPolicy, NoPolicy
    <3>2. Inventory[h][c] = "verified"
      BY <2>2, <3>1 DEF Inventory, PiChannels, StatusOver
    <3>. QED
      BY <2>2, <3>1, <3>2
      DEF HypothesisPolicy, FixedSurfaces, ConditionalSurfaces, NoPolicy
  <2>3. CASE h = "codex"
    <3>1. c = "hook_event_handlers"
      BY <1>3, <2>3 DEF ChannelPolicy, NoPolicy
    <3>2. c \in CodexRuntime
      BY <3>1 DEF CodexRuntime
    <3>3. CodexChannels[c] = "verified"
      <4>1. /\ c \notin {"feature_flags", "profiles", "sandbox_approval"}
            /\ c \notin CodexUnsupported
        BY <3>1 DEF CodexUnsupported
      <4>. QED
        BY <3>2, <4>1 DEF CodexChannels, StatusOver
    <3>4. Inventory[h][c] = "verified"
      BY <2>3, <3>3 DEF Inventory
    <3>. QED
      BY <2>3, <3>1, <3>4
      DEF HypothesisPolicy, FixedSurfaces, ConditionalSurfaces, NoPolicy
  <2>. QED
    BY <2>1, <2>2, <2>3 DEF Harnesses
<1>. QED
  BY <1>1, <1>2, <1>3 DEF UnavailableStatus, NoPolicy

\* Every answer that states no blank constraint and has a base profile is
\* made canonical to one that passes the checks, under any probe.
LEMMA CanonicalIsValid ==
  ASSUME NEW answer, NEW payload, payload.harness \in Harnesses,
         answer.profile = TRUE,
         \A c \in DOMAIN answer.constraints :
           answer.constraints[c] \in {"stated", "none"}
  PROVE  ValidQuery(Canonical(answer, payload), payload)
<1>. DEFINE h == payload.harness
            out == Canonical(answer, payload)
            M == Required(payload) \intersect Admitted[h]
            U == Required(payload) \ Admitted[h]
<1>1. Required(payload) \subseteq DOMAIN Inventory[h]
  BY DEF Required, Hypotheses
<1>2. /\ DOMAIN out.modifiable = M /\ DOMAIN out.unavailable = U
      /\ out.profile = TRUE /\ out.points = Managed(payload)
      /\ \A c \in M :
           /\ out.modifiable[c].level = IF c \in Observed[h]
                                          THEN "runtime_observed"
                                          ELSE "materialized"
           /\ out.modifiable[c].constraints = StatedFor(answer, c)
      /\ \A c \in U : out.unavailable[c] = UnavailableStatus(h, c)
  BY DEF Canonical
<1>3. ASSUME NEW c \in M PROVE Sound(payload, c, out.modifiable[c])
  <2>1. /\ HypothesisPolicy(h, c) = NoPolicy
        /\ c \in Observed[h] \/ c \in Grounded[h]
    BY <1>1, AdmittedMayBeEdited
  <2>2. StatedFor(answer, c) = "stated"
    BY DEF StatedFor
  <2>. HIDE DEF out, M, U
  <2>. QED
    BY <1>2, <2>1, <2>2 DEF Sound
<1>4. ASSUME NEW c \in U
      PROVE  SoundlyRefused(payload, c, out.unavailable[c])
  BY <1>1, <1>2, RefusedAsItMustBe DEF SoundlyRefused
<1>5. M \intersect U = {} /\ Required(payload) \subseteq M \union U
  OBVIOUS
<1>. SUFFICES ValidQuery(out, payload)
  OBVIOUS
<1>. HIDE DEF out, M, U
<1>. QED
  BY <1>2, <1>3, <1>4, <1>5 DEF ValidQuery

\* Canonicalization leaves no constraint out, and the salvage no blank one.
LEMMA SalvageIsValid ==
  ASSUME NEW answer, NEW payload, payload.harness \in Harnesses
  PROVE  ValidQuery(Conservative(answer, payload), payload)
<1>. DEFINE once == Canonical(answer, payload)
            kept(c) == IF Sound(payload, c, once.modifiable[c])
                         THEN once.modifiable[c].constraints ELSE "stated"
            salvage == [constraints |->
                          [c \in DOMAIN once.modifiable |-> kept(c)],
                        profile |-> TRUE]
<1>1. \A c : kept(c) = "stated"
  BY DEF Sound
<1>2. /\ salvage.profile = TRUE
      /\ \A c \in DOMAIN salvage.constraints :
           salvage.constraints[c] \in {"stated", "none"}
  <2>. HIDE DEF kept, once
  <2>. QED
    BY <1>1
<1>3. Conservative(answer, payload) = Canonical(salvage, payload)
  BY DEF Conservative
<1>. HIDE DEF salvage
<1>. QED
  BY <1>2, <1>3, CanonicalIsValid

\* What passed the checks once passes them when it is read again, under any
\* later probe of the harness.
LEMMA RereadIsValid ==
  ASSUME NEW out, NEW before, NEW payload, payload.harness \in Harnesses,
         ValidQuery(out, before)
  PROVE  out.profile = TRUE =>
           ValidQuery(Canonical(AsAnswer(out), payload), payload)
<1>1. \A c \in DOMAIN out.modifiable : out.modifiable[c].constraints = "stated"
  BY DEF ValidQuery, Sound
<1>2. /\ \A c \in DOMAIN AsAnswer(out).constraints :
           AsAnswer(out).constraints[c] \in {"stated", "none"}
      /\ AsAnswer(out).profile = out.profile
  BY <1>1 DEF AsAnswer
<1>. QED
  BY <1>2, CanonicalIsValid

\* A harness query ends with a classification that passes its checks for
\* every answer, and the cached one still does under any other probe.
THEOREM QueriesStayUsable == Spec => []QueryStaysUsable
<1>. DEFINE Kept ==
       /\ QueryStaysUsable
       /\ op = "query" => made.profile = TRUE
<1>1. Init => Kept
  BY DEF Init, QueryStaysUsable, QueryEndsUsable, CachedQueryStaysUsable
<1>2. Kept /\ [Next]_vars => Kept'
  <2>1. CASE UNCHANGED vars
    BY <2>1
    DEF QueryStaysUsable, QueryEndsUsable, CachedQueryStaysUsable, vars
  <2>2. CASE Kept /\ Next /\ op' = "query"
    <3>1. Query
      BY <2>2 DEF Next, Synthesize, Compare, ReadComparison, Divide,
                  JoinReusable, JoinAdjustment, Review, ReadReview,
                  FallBackReview, ReadQuery, PlanRollout, NextPlan, Do
    <3>2. PICK payload \in Payloads :
            \E answer \in QueryAnswers(payload) :
              /\ given' = [payload |-> payload, answer |-> answer]
              /\ made' = IF ValidQuery(Canonical(answer, payload), payload)
                           THEN Canonical(answer, payload)
                           ELSE Conservative(answer, payload)
      BY <3>1 DEF Query, Do
    <3>. PICK answer \in QueryAnswers(payload) :
            /\ given' = [payload |-> payload, answer |-> answer]
            /\ made' = IF ValidQuery(Canonical(answer, payload), payload)
                         THEN Canonical(answer, payload)
                         ELSE Conservative(answer, payload)
      BY <3>2
    <3>3. payload.harness \in Harnesses /\ given'.payload = payload
      BY DEF Payloads
    <3>4. answer.profile \in BOOLEAN
      BY DEF QueryAnswers
    <3>5. ValidQuery(made', payload)
      BY <3>3, SalvageIsValid
    <3>6. made'.profile = TRUE
      BY <3>4, <3>5 DEF ValidQuery, Canonical, Conservative
    <3>. QED
      BY <2>2, <3>3, <3>5, <3>6
      DEF QueryStaysUsable, QueryEndsUsable, CachedQueryStaysUsable
  <2>3. CASE Kept /\ Next /\ op' = "query_read"
    <3>1. ReadQuery
      BY <2>3 DEF Next, Synthesize, Compare, ReadComparison, Divide,
                  JoinReusable, JoinAdjustment, Review, ReadReview,
                  FallBackReview, Query, PlanRollout, NextPlan, Do
    <3>2. PICK payload \in Payloads :
            /\ op = "query"
            /\ given' = [payload |-> payload, answer |-> AsAnswer(made)]
            /\ made' = Canonical(AsAnswer(made), payload)
      BY <3>1 DEF ReadQuery, Do
    <3>3. payload.harness \in Harnesses /\ given'.payload = payload
      BY <3>2 DEF Payloads
    <3>4. ValidQuery(made', payload)
      BY <2>3, <3>2, <3>3, RereadIsValid
      DEF QueryStaysUsable, QueryEndsUsable
    <3>. QED
      BY <2>3, <3>3, <3>4
      DEF QueryStaysUsable, QueryEndsUsable, CachedQueryStaysUsable
  <2>4. CASE Next /\ op' \notin {"query", "query_read"}
    BY <2>4 DEF QueryStaysUsable, QueryEndsUsable, CachedQueryStaysUsable
  <2>. QED
    BY <2>1, <2>2, <2>3, <2>4
<1>. QED
  BY <1>1, <1>2, PTL DEF Spec

-----------------------------------------------------------------------------

\* Natural numbers are well-founded, stated for sets: the intervals up to the
\* members of a set have a least one.
LEMMA LeastMember ==
  ASSUME NEW S \in SUBSET Nat, S # {}
  PROVE  \E n \in S : \A m \in S : n <= m
<1>. DEFINE T == {0..n : n \in S}
<1>1. T \subseteq FiniteSubsetsOf(Nat)
  <2>. SUFFICES ASSUME NEW n \in S PROVE 0..n \in FiniteSubsetsOf(Nat)
    OBVIOUS
  <2>1. 0 \in Int /\ n \in Int /\ 0..n \in SUBSET Nat
    OBVIOUS
  <2>2. IsFiniteSet(0..n)
    BY <2>1, FS_Interval
  <2>. QED
    BY <2>1, <2>2 DEF FiniteSubsetsOf
<1>2. T # {}
  OBVIOUS
<1>3. IsWellFoundedOn(StrictSubsetOrdering(Nat), FiniteSubsetsOf(Nat))
  BY FS_StrictSubsetOrderingWellFounded
<1>4. \E x \in T : \A y \in T : <<y, x>> \notin StrictSubsetOrdering(Nat)
  <2>. HIDE DEF T
  <2>. QED
    BY <1>1, <1>2, <1>3, WFMin
<1>5. PICK n \in S :
        \A m \in S : <<0..m, 0..n>> \notin StrictSubsetOrdering(Nat)
  BY <1>4
<1>6. ASSUME NEW m \in S, m < n PROVE FALSE
  <2>1. /\ 0..m \in SUBSET Nat /\ 0..n \in SUBSET Nat
        /\ 0..m \subseteq 0..n /\ n \in 0..n /\ n \notin 0..m
    BY <1>6
  <2>. QED
    BY <1>5, <2>1 DEF StrictSubsetOrdering
<1>. QED
  BY <1>6

\* What Max chooses from numbers with a bound.
LEMMA MaxIsGreatest ==
  ASSUME NEW S \in SUBSET Nat, S # {}, NEW b \in Nat, \A m \in S : m <= b
  PROVE  Max(S) \in S /\ \A m \in S : m <= Max(S)
<1>. DEFINE D == {b - m : m \in S}
<1>1. D \in SUBSET Nat /\ D # {}
  <2>1. \A m \in S : b - m \in Nat
    OBVIOUS
  <2>. QED
    BY <2>1
<1>2. PICK d \in D : \A e \in D : d <= e
  <2>. HIDE DEF D
  <2>. QED
    BY <1>1, LeastMember
<1>3. PICK n \in S : d = b - n
  OBVIOUS
<1>4. \A m \in S : n >= m
  <2>. SUFFICES ASSUME NEW m \in S PROVE n >= m
    OBVIOUS
  <2>1. b - n <= b - m
    BY <1>2, <1>3
  <2>. QED
    BY <2>1
<1>5. Max(S) \in S /\ \A m \in S : Max(S) >= m
  BY <1>4 DEF Max
<1>. QED
  BY <1>5

LEMMA ProductsGrow ==
  ASSUME NEW m \in Nat, NEW n \in Nat, m <= n, NEW k \in Nat
  PROVE  m * k \in Nat /\ n * k \in Nat /\ m * k <= n * k
  OBVIOUS

LEMMA ComparisonsGrow ==
  ASSUME NEW m \in Nat, NEW n \in Nat, m <= n
  PROVE  /\ ComparisonCost(m) \in Nat /\ ComparisonCost(n) \in Nat
         /\ ComparisonCost(m) <= ComparisonCost(n)
  BY DEF ComparisonCost

\* More tasks never cost less.
LEMMA CostsGrow ==
  ASSUME NEW m \in Nat, NEW n \in Nat, m <= n, NEW ofBaseline \in BOOLEAN
  PROVE  /\ ScreenCost(m, ofBaseline) \in Nat
         /\ ScreenCost(m, ofBaseline) <= ScreenCost(n, ofBaseline)
         /\ CycleCost(m, ofBaseline) \in Nat
         /\ CycleCost(m, ofBaseline) <= CycleCost(n, ofBaseline)
<1>1. RolloutRepeats \in Nat /\ PreflightCost \in Nat
  BY CostAssumption
<1>2. PICK a \in Nat, b \in Nat :
        a = m * RolloutRepeats /\ b = n * RolloutRepeats /\ a <= b
  BY <1>1, ProductsGrow
<1>3. PICK c \in Nat, d \in Nat :
        c = ComparisonCost(m) /\ d = ComparisonCost(n) /\ c <= d
  BY ComparisonsGrow
<1>4. PICK s \in Nat, t \in Nat :
        s = ScreenCost(m, ofBaseline) /\ t = ScreenCost(n, ofBaseline)
        /\ s <= t
  BY <1>1, <1>2, <1>3 DEF ScreenCost
<1>5. PICK u \in Nat, v \in Nat :
        u = ConfirmCost(m) /\ v = ConfirmCost(n) /\ u <= v
  BY <1>2, <1>3 DEF ConfirmCost
<1>6. /\ CycleCost(m, ofBaseline) = s + (IF Confirming THEN u ELSE 0)
      /\ CycleCost(n, ofBaseline) = t + (IF Confirming THEN v ELSE 0)
  BY <1>4, <1>5 DEF CycleCost
<1>. QED
  BY <1>4, <1>5, <1>6

LEMMA CostGrows ==
  ASSUME NEW m \in Nat, NEW n \in Nat, m <= n, NEW ofBaseline \in BOOLEAN,
         NEW whole \in BOOLEAN
  PROVE  /\ CostOf(m, ofBaseline, whole) \in Nat
         /\ CostOf(m, ofBaseline, whole) <= CostOf(n, ofBaseline, whole)
  BY CostsGrow DEF CostOf

\* max_affordable is the largest number of tasks whose cost, with the
\* retries, the budget covers, or none.
LEMMA AffordableIsLargest ==
  ASSUME NEW remaining \in Nat, NEW cap \in Nat, NEW ofBaseline \in BOOLEAN,
         NEW whole \in BOOLEAN
  PROVE  LET most == Affordable(remaining, cap, ofBaseline, whole)
             fits(n) == CostOf(n, ofBaseline, whole) + RetryBuffer
                          <= remaining
         IN  /\ most \in Nat
             /\ most # 0 => most \in MinStandard..cap /\ fits(most)
             /\ \A n \in MinStandard..cap : fits(n) => n <= most
<1>. DEFINE fits(n) == CostOf(n, ofBaseline, whole) + RetryBuffer
                         <= remaining
            S == {0} \union {n \in MinStandard..cap : fits(n)}
<1>1. MinStandard \in Nat
  BY CostAssumption
<1>2. S \in SUBSET Nat /\ S # {} /\ \A m \in S : m <= cap
  BY <1>1
<1>3. Affordable(remaining, cap, ofBaseline, whole) = Max(S)
  BY DEF Affordable
<1>4. Max(S) \in S /\ \A m \in S : m <= Max(S)
  <2>. HIDE DEF S
  <2>. QED
    BY <1>2, MaxIsGreatest
<1>. QED
  BY <1>2, <1>3, <1>4

\* The same of the number a plan uses, which is at most the default.
LEMMA PlannedIsLargest ==
  ASSUME NEW remaining \in Nat, NEW cap \in Nat, NEW ofBaseline \in BOOLEAN,
         NEW whole \in BOOLEAN
  PROVE  LET n == AtMostDefault(Affordable(remaining, cap, ofBaseline, whole))
             cost(k) == CostOf(k, ofBaseline, whole) + RetryBuffer
         IN  /\ n \in Nat
             /\ n # 0 => n \in MinStandard..cap /\ cost(n) <= remaining
             /\ n = 0 => cap < MinStandard \/ remaining < cost(MinStandard)
             /\ n < DefaultTasks /\ n # 0 =>
                  n = cap \/ remaining < cost(n + 1)
<1>. DEFINE most == Affordable(remaining, cap, ofBaseline, whole)
            cost(k) == CostOf(k, ofBaseline, whole) + RetryBuffer
            n == AtMostDefault(most)
<1>1. /\ MinStandard \in Nat \ {0} /\ DefaultTasks \in Nat
      /\ DefaultTasks >= MinStandard /\ RetryBuffer \in Nat
  BY CostAssumption
<1>2. /\ most \in Nat
      /\ most # 0 => most \in MinStandard..cap /\ cost(most) <= remaining
      /\ \A k \in MinStandard..cap : cost(k) <= remaining => k <= most
  BY AffordableIsLargest
<1>3. \A k \in Nat : cost(k) \in Nat
  BY <1>1, CostGrows
<1>4. CASE most > DefaultTasks
  <2>1. n = DefaultTasks
    BY <1>4 DEF AtMostDefault
  <2>2. n \in MinStandard..cap /\ n <= most
    BY <1>1, <1>2, <1>4, <2>1
  <2>3. cost(n) <= cost(most)
    <3>1. PICK a \in Nat, b \in Nat :
            /\ a = CostOf(n, ofBaseline, whole)
            /\ b = CostOf(most, ofBaseline, whole) /\ a <= b
      BY <1>1, <1>2, <2>1, <2>2, CostGrows
    <3>. QED
      BY <1>1, <3>1
  <2>. QED
    BY <1>1, <1>2, <1>3, <1>4, <2>1, <2>2, <2>3
<1>5. CASE ~ (most > DefaultTasks)
  <2>1. n = most
    BY <1>5 DEF AtMostDefault
  <2>2. n = 0 => cap < MinStandard \/ remaining < cost(MinStandard)
    BY <1>1, <1>2, <1>3, <2>1
  <2>3. n # 0 => n = cap \/ remaining < cost(n + 1)
    <3>. SUFFICES ASSUME n # 0, n # cap PROVE remaining < cost(n + 1)
      OBVIOUS
    <3>1. n + 1 \in MinStandard..cap /\ ~ (n + 1 <= n)
      BY <1>1, <1>2, <2>1
    <3>2. ~ (cost(n + 1) <= remaining) /\ cost(n + 1) \in Nat
      BY <1>2, <1>3, <2>1, <3>1
    <3>. QED
      BY <3>2
  <2>. QED
    BY <1>2, <2>1, <2>2, <2>3
<1>. QED
  BY <1>2, <1>4, <1>5

\* What one plan promises, whatever the budget, the cap and the batches.
LEMMA PlanPromises ==
  ASSUME NEW remaining \in Nat, NEW cap \in Nat, NEW ofBaseline \in BOOLEAN,
         NEW batches
  PROVE  LET plan == RolloutPlan(remaining, ofBaseline, batches, cap)
             screen(n) == ScreenCost(n, ofBaseline)
             cycle(n) == CycleCost(n, ofBaseline)
             next == screen(MinStandard) + RetryBuffer
         IN  /\ plan.mode \in {"standard", "terminal_screen", "stop"}
             /\ plan.mode = "standard" =>
                  /\ plan.limit \in MinStandard..cap
                  /\ plan.reserved \in {0, next}
                  /\ remaining >= RetryBuffer + plan.reserved
                                    + cycle(plan.limit)
                  /\ plan.limit < DefaultTasks =>
                       \/ plan.limit = cap
                       \/ remaining < cycle(plan.limit + 1) + RetryBuffer
             /\ plan.mode = "terminal_screen" =>
                  /\ plan.reserved = 0
                  /\ remaining >= RetryBuffer + screen(plan.limit)
                  /\ remaining < cycle(MinStandard) + RetryBuffer
             /\ plan.mode = "stop" =>
                  /\ plan.reserved = 0
                  /\ cap < MinStandard \/ remaining < next
<1>. DEFINE plan == RolloutPlan(remaining, ofBaseline, batches, cap)
            screen(n) == ScreenCost(n, ofBaseline)
            cycle(n) == CycleCost(n, ofBaseline)
            next == screen(MinStandard) + RetryBuffer
            limit(whole) ==
              AtMostDefault(Affordable(remaining, cap, ofBaseline, whole))
            reserve == FutureReserve(remaining, ofBaseline, batches,
                                     limit(TRUE))
<1>1. /\ MinStandard \in Nat \ {0} /\ DefaultTasks \in Nat
      /\ RetryBuffer \in Nat
  BY CostAssumption
<1>2. \A n \in Nat : screen(n) \in Nat /\ cycle(n) \in Nat
  BY CostsGrow
<1>3. /\ limit(TRUE) \in Nat
      /\ limit(TRUE) # 0 => /\ limit(TRUE) \in MinStandard..cap
                            /\ cycle(limit(TRUE)) + RetryBuffer <= remaining
      /\ limit(TRUE) = 0 =>
           cap < MinStandard \/ remaining < cycle(MinStandard) + RetryBuffer
      /\ limit(TRUE) < DefaultTasks /\ limit(TRUE) # 0 =>
           \/ limit(TRUE) = cap
           \/ remaining < cycle(limit(TRUE) + 1) + RetryBuffer
  BY PlannedIsLargest DEF CostOf
<1>4. /\ limit(FALSE) \in Nat
      /\ limit(FALSE) # 0 =>
           /\ limit(FALSE) \in MinStandard..cap
           /\ screen(limit(FALSE)) + RetryBuffer <= remaining
      /\ limit(FALSE) = 0 => cap < MinStandard \/ remaining < next
  BY PlannedIsLargest DEF CostOf
<1>5. next \in Nat
  BY <1>1, <1>2
<1>6. CASE limit(TRUE) # 0
  <2>1. plan = [mode |-> "standard", limit |-> limit(TRUE),
                reserved |-> reserve]
    BY <1>6 DEF RolloutPlan
  <2>2. /\ reserve \in {0, next}
        /\ reserve = next =>
             \/ next = 0
             \/ remaining >= cycle(limit(TRUE)) + RetryBuffer + next
    BY DEF FutureReserve
  <2>3. remaining >= RetryBuffer + reserve + cycle(limit(TRUE))
    <3>1. PICK c \in Nat, r \in Nat, k \in Nat :
            c = cycle(limit(TRUE)) /\ r = reserve /\ k = next
      BY <1>2, <1>3, <1>5, <2>2
    <3>2. c + RetryBuffer <= remaining
      BY <1>3, <1>6, <3>1
    <3>3. \/ r = 0
          \/ r = k /\ remaining >= c + RetryBuffer + k
      BY <2>2, <3>1
    <3>4. remaining >= RetryBuffer + r + c
      BY <1>1, <3>2, <3>3
    <3>. QED
      BY <3>1, <3>4
  <2>4. limit(TRUE) < DefaultTasks =>
          \/ limit(TRUE) = cap
          \/ remaining < cycle(limit(TRUE) + 1) + RetryBuffer
    BY <1>3, <1>6
  <2>. HIDE DEF limit, reserve, screen, cycle, next, plan
  <2>. SUFFICES
         /\ plan.mode \in {"standard", "terminal_screen", "stop"}
         /\ plan.mode = "standard" =>
              /\ plan.limit \in MinStandard..cap
              /\ plan.reserved \in {0, next}
              /\ remaining >= RetryBuffer + plan.reserved + cycle(plan.limit)
              /\ plan.limit < DefaultTasks =>
                   \/ plan.limit = cap
                   \/ remaining < cycle(plan.limit + 1) + RetryBuffer
         /\ plan.mode # "terminal_screen" /\ plan.mode # "stop"
    BY DEF screen, cycle, next, plan
  <2>. QED
    BY <1>3, <1>6, <2>1, <2>2, <2>3, <2>4
<1>7. CASE limit(TRUE) = 0 /\ limit(FALSE) # 0
  <2>1. plan = [mode |-> "terminal_screen", limit |-> limit(FALSE),
                reserved |-> 0]
    BY <1>7 DEF RolloutPlan
  <2>2. remaining >= RetryBuffer + screen(limit(FALSE))
    <3>1. PICK s \in Nat : s = screen(limit(FALSE))
      BY <1>2, <1>4
    <3>2. s + RetryBuffer <= remaining
      BY <1>4, <1>7, <3>1
    <3>3. remaining >= RetryBuffer + s
      BY <1>1, <3>2
    <3>. QED
      BY <3>1, <3>3
  <2>3. remaining < cycle(MinStandard) + RetryBuffer
    <3>1. PICK n \in Nat : n \in MinStandard..cap
      BY <1>4, <1>7
    <3>2. ~ (cap < MinStandard)
      BY <1>1, <3>1
    <3>. QED
      BY <1>3, <1>7, <3>2
  <2>. HIDE DEF limit, screen, cycle, plan
  <2>. SUFFICES /\ plan.mode = "terminal_screen" /\ plan.reserved = 0
                /\ remaining >= RetryBuffer + screen(plan.limit)
                /\ remaining < cycle(MinStandard) + RetryBuffer
    BY DEF screen, cycle, plan
  <2>. QED
    BY <2>1, <2>2, <2>3
<1>8. CASE limit(TRUE) = 0 /\ limit(FALSE) = 0
  <2>1. plan = [mode |-> "stop", limit |-> 0, reserved |-> 0]
    BY <1>8 DEF RolloutPlan
  <2>. QED
    BY <1>4, <1>8, <2>1
<1>. QED
  BY <1>6, <1>7, <1>8

\* What a plan is computed from.
PlanInput ==
  [remaining : Nat, ofBaseline : BOOLEAN, batches : Int, cap : Nat,
   before : Nat]

\* A plan is the one its input is given, and after one that reserved a
\* screen there is another to plan.
PlansKept ==
  /\ op \in {"plan", "next_plan"} =>
       /\ given \in PlanInput
       /\ made = RolloutPlan(given.remaining, given.ofBaseline,
                             given.batches, given.cap)
  /\ ReserveKeepsNextScreen

LEMMA KeptPlansAreSound == PlansKept => PlanIsSound
<1>. SUFFICES ASSUME PlansKept PROVE PlanFits /\ NoScreenMissed
  BY DEF PlansKept, PlanIsSound
<1>. SUFFICES ASSUME op \in {"plan", "next_plan"}
              PROVE  PlanFits /\ NoScreenMissed
  BY DEF PlanFits, NoScreenMissed
<1>1. /\ given.remaining \in Nat /\ given.cap \in Nat
      /\ given.ofBaseline \in BOOLEAN
      /\ made = RolloutPlan(given.remaining, given.ofBaseline,
                            given.batches, given.cap)
  BY DEF PlansKept, PlanInput
<1>2. PICK remaining \in Nat, cap \in Nat, ofBaseline \in BOOLEAN :
        /\ given.remaining = remaining /\ given.cap = cap
        /\ given.ofBaseline = ofBaseline
        /\ made = RolloutPlan(remaining, ofBaseline, given.batches, cap)
  BY <1>1
<1>3. RetryBuffer \in Nat
  BY CostAssumption
<1>4. PlanFits
  BY <1>2, <1>3, PlanPromises DEF PlanFits
<1>5. NoScreenMissed
  BY <1>2, PlanPromises DEF NoScreenMissed
<1>. QED
  BY <1>4, <1>5

LEMMA PlanStep == PlansKept /\ [Next]_vars => PlansKept'
<1>. SUFFICES ASSUME PlansKept, [Next]_vars PROVE PlansKept'
  OBVIOUS
<1>1. CASE UNCHANGED vars
  BY <1>1 DEF PlansKept, ReserveKeepsNextScreen, vars
<1>2. CASE Next /\ op' = "plan"
  <2>1. PlanRollout
    BY <1>2 DEF Next, Synthesize, Compare, ReadComparison, Divide,
                JoinReusable, JoinAdjustment, Review, ReadReview,
                FallBackReview, Query, ReadQuery, NextPlan, Do
  <2>2. PICK remaining \in 0..MaxRemaining, ofBaseline \in BOOLEAN,
             batches \in 1..2, cap \in Caps :
          /\ given' = [remaining |-> remaining, ofBaseline |-> ofBaseline,
                       batches |-> batches, cap |-> cap, before |-> 0]
          /\ made' = RolloutPlan(remaining, ofBaseline, batches, cap)
    BY <2>1 DEF PlanRollout, Do
  <2>3. remaining \in Nat /\ cap \in Nat
    BY BoundAssumption
  <2>4. given' \in PlanInput
    BY <2>2, <2>3 DEF PlanInput
  <2>5. /\ given'.remaining = remaining /\ given'.cap = cap
        /\ given'.ofBaseline = ofBaseline /\ given'.batches = batches
    BY <2>2
  <2>. QED
    BY <1>2, <2>2, <2>4, <2>5 DEF PlansKept, ReserveKeepsNextScreen
<1>3. CASE Next /\ op' = "next_plan"
  <2>1. NextPlan
    BY <1>3 DEF Next, Synthesize, Compare, ReadComparison, Divide,
                JoinReusable, JoinAdjustment, Review, ReadReview,
                FallBackReview, Query, ReadQuery, PlanRollout, Do
  <2>2. PICK retries \in 0..RetryBuffer :
          LET left == given.remaining
                        - (CycleCost(made.limit, given.ofBaseline) + retries)
          IN  /\ given' = [given EXCEPT !.remaining = left, !.batches = @ - 1,
                                        !.before = made.reserved]
              /\ made' = RolloutPlan(left, given.ofBaseline,
                                     given.batches - 1, given.cap)
    BY <2>1 DEF NextPlan, Do
  <2>3. op = "plan" /\ made.mode = "standard"
    BY <2>1 DEF NextPlan
  <2>4. PICK remaining \in Nat, cap \in Nat, ofBaseline \in BOOLEAN :
          /\ given.remaining = remaining /\ given.cap = cap
          /\ given.ofBaseline = ofBaseline
          /\ made = RolloutPlan(remaining, ofBaseline, given.batches, cap)
    BY <2>3 DEF PlansKept, PlanInput
  <2>. DEFINE next == ScreenCost(MinStandard, ofBaseline) + RetryBuffer
              cost == CycleCost(made.limit, ofBaseline)
              left == remaining - (cost + retries)
  <2>5. RetryBuffer \in Nat /\ MinStandard \in Nat
    BY CostAssumption
  <2>6. /\ made.limit \in MinStandard..cap /\ made.reserved \in {0, next}
        /\ remaining >= RetryBuffer + made.reserved + cost
    BY <2>3, <2>4, PlanPromises
  <2>7. cost \in Nat /\ next \in Nat
    BY <2>5, <2>6, CostsGrow
  <2>8. left \in Nat /\ left >= made.reserved
    <3>1. PICK c \in Nat, k \in Nat : c = cost /\ k = made.reserved
      BY <2>6, <2>7
    <3>2. remaining >= RetryBuffer + k + c
      BY <2>6, <3>1
    <3>3. retries \in Nat /\ retries <= RetryBuffer
      BY <2>5
    <3>4. /\ remaining - (c + retries) \in Nat
          /\ remaining - (c + retries) >= k
      BY <2>5, <3>2, <3>3
    <3>. QED
      BY <3>1, <3>4
  <2>9. /\ given' = [given EXCEPT !.remaining = left, !.batches = @ - 1,
                                 !.before = made.reserved]
        /\ made' = RolloutPlan(left, ofBaseline, given.batches - 1, cap)
    BY <2>2, <2>4
  <2>10. made.reserved > 0 => made'.mode # "stop"
    <3>. SUFFICES ASSUME made.reserved > 0, made'.mode = "stop" PROVE FALSE
      OBVIOUS
    <3>1. cap < MinStandard \/ left < next
      <4>. HIDE DEF left
      <4>. QED
        BY <2>8, <2>9, PlanPromises
    <3>2. made.reserved = next /\ ~ (cap < MinStandard)
      BY <2>5, <2>6
    <3>. HIDE DEF left, next
    <3>. QED
      BY <2>7, <2>8, <3>1, <3>2
  <2>. HIDE DEF left, next
  <2>11. given' \in PlanInput
    <3>1. given \in PlanInput /\ made.reserved \in Nat
      BY <2>3, <2>6, <2>7 DEF PlansKept
    <3>2. given.batches - 1 \in Int
      BY <3>1 DEF PlanInput
    <3>. QED
      BY <2>8, <2>9, <3>1, <3>2 DEF PlanInput
  <2>12. /\ given'.remaining = left /\ given'.cap = cap
         /\ given'.ofBaseline = ofBaseline
         /\ given'.batches = given.batches - 1
         /\ given'.before = made.reserved
    BY <2>4, <2>9
  <2>. QED
    BY <1>3, <2>9, <2>10, <2>11, <2>12 DEF PlansKept, ReserveKeepsNextScreen
<1>4. CASE Next /\ op' \notin {"plan", "next_plan"}
  BY <1>4 DEF PlansKept, ReserveKeepsNextScreen
<1>. QED
  BY <1>1, <1>2, <1>3, <1>4

\* A plan is affordable with its retries, is the best affordable one and
\* keeps the screen it reserved: for all costs, budgets and caps.
THEOREM PlansAreSound == Spec => []PlanIsSound
<1>1. Init => PlansKept
  BY DEF Init, PlansKept, ReserveKeepsNextScreen
<1>. QED
  BY <1>1, KeptPlansAreSound, PlanStep, PTL DEF Spec

-----------------------------------------------------------------------------

\* Where the members of the sequences of ss are, by sequence and position.
PlacesOf(ss) == UNION {{g} \X (1..Len(ss[g])) : g \in 1..Len(ss)}

\* place lists every member of one or two sequences once, in one sequence.
Lists(place, joined, ss) ==
  /\ place \in [1..Len(joined) -> PlacesOf(ss)]
  /\ \A k \in 1..Len(joined) : joined[k] = ss[place[k][1]][place[k][2]]
  /\ \A x \in PlacesOf(ss) : \E k \in 1..Len(joined) : place[k] = x
  /\ \A j, k \in 1..Len(joined) : place[j] = place[k] => j = k

LEMMA FlattenOne ==
  ASSUME NEW ss, Len(ss) = 1
  PROVE  FlattenSeq(ss) = ss[1]
<1>. DEFINE step(f) == [i \in 1..Len(ss) |->
                          IF i = 1 THEN ss[i] ELSE f[i - 1] \o ss[i]]
            whole == CHOOSE f : f = step(f)
<1>1. FlattenSeq(ss) = whole[1]
  BY DEF FlattenSeq
<1>2. \E f : f = step(f)
  <2>. DEFINE w == [i \in 1..1 |-> ss[1]]
  <2>1. w = step(w)
    OBVIOUS
  <2>. QED
    BY <2>1
<1>3. whole = step(whole)
  <2>. HIDE DEF step
  <2>. QED
    BY <1>2
<1>4. whole[1] = ss[1]
  <2>. HIDE DEF whole
  <2>. QED
    BY <1>3
<1>. QED
  BY <1>1, <1>4

LEMMA FlattenTwo ==
  ASSUME NEW ss, Len(ss) = 2
  PROVE  FlattenSeq(ss) = ss[1] \o ss[2]
<1>. DEFINE step(f) == [i \in 1..Len(ss) |->
                          IF i = 1 THEN ss[i] ELSE f[i - 1] \o ss[i]]
            whole == CHOOSE f : f = step(f)
<1>1. FlattenSeq(ss) = whole[2]
  BY DEF FlattenSeq
<1>2. \E f : f = step(f)
  <2>. DEFINE w == [i \in 1..2 |-> IF i = 1 THEN ss[1] ELSE ss[1] \o ss[2]]
  <2>1. w[1] = ss[1] /\ w[2] = ss[1] \o ss[2]
    OBVIOUS
  <2>2. \A i \in 1..2 :
          w[i] = IF i = 1 THEN ss[i] ELSE w[i - 1] \o ss[i]
    BY <2>1
  <2>3. w = step(w)
    BY <2>2
  <2>. QED
    BY <2>3
<1>3. whole = step(whole)
  <2>. HIDE DEF step
  <2>. QED
    BY <1>2
<1>4. whole[1] = ss[1] /\ whole[2] = whole[1] \o ss[2]
  <2>. HIDE DEF whole
  <2>. QED
    BY <1>3
<1>. QED
  BY <1>1, <1>4

LEMMA TwoListed ==
  ASSUME NEW S, NEW s \in Seq(S), NEW t \in Seq(S),
         NEW ss, Len(ss) = 2, ss[1] = s, ss[2] = t
  PROVE  \E place : Lists(place, s \o t, ss)
<1>1. PICK a \in Nat, b \in Nat : a = Len(s) /\ b = Len(t)
  OBVIOUS
<1>. DEFINE place == [k \in 1..(a + b) |->
                        IF k <= a THEN <<1, k>> ELSE <<2, k - a>>]
<1>2. /\ Len(s \o t) = a + b
      /\ \A k \in 1..(a + b) :
           (s \o t)[k] = IF k <= a THEN s[k] ELSE t[k - a]
  BY <1>1
<1>3. PlacesOf(ss) = ({1} \X (1..a)) \union ({2} \X (1..b))
  BY <1>1 DEF PlacesOf
<1>4. ASSUME NEW k \in 1..(a + b) PROVE place[k] \in PlacesOf(ss)
  <2>1. CASE k <= a
    BY <1>3, <2>1
  <2>2. CASE ~ (k <= a)
    <3>1. k - a \in 1..b
      BY <2>2
    <3>. QED
      BY <1>3, <2>2, <3>1
  <2>. QED
    BY <2>1, <2>2
<1>5. \A k \in 1..(a + b) : (s \o t)[k] = ss[place[k][1]][place[k][2]]
  BY <1>2
<1>6. ASSUME NEW x \in PlacesOf(ss)
      PROVE  \E k \in 1..(a + b) : place[k] = x
  <2>1. CASE x \in {1} \X (1..a)
    <3>1. PICK k \in 1..a : x = <<1, k>>
      BY <2>1
    <3>2. k \in 1..(a + b) /\ place[k] = x
      BY <3>1
    <3>. QED
      BY <3>2
  <2>2. CASE x \in {2} \X (1..b)
    <3>1. PICK k \in 1..b : x = <<2, k>>
      BY <2>2
    <3>2. PICK j \in 1..(a + b) : j = a + k
      OBVIOUS
    <3>3. ~ (j <= a) /\ j - a = k
      BY <3>2
    <3>4. place[j] = x
      BY <3>1, <3>3
    <3>. QED
      BY <3>4
  <2>. QED
    BY <1>3, <2>1, <2>2
<1>7. ASSUME NEW j \in 1..(a + b), NEW k \in 1..(a + b), place[j] = place[k]
      PROVE  j = k
  BY <1>7
<1>8. place \in [1..(a + b) -> PlacesOf(ss)]
  <2>1. place = [k \in 1..(a + b) |-> place[k]]
    OBVIOUS
  <2>. HIDE DEF place
  <2>. QED
    BY <1>4, <2>1
<1>9. Lists(place, s \o t, ss)
  <2>. HIDE DEF place
  <2>. QED
    BY <1>2, <1>5, <1>6, <1>7, <1>8 DEF Lists
<1>. QED
  BY <1>9

\* Putting one or two sequences behind each other keeps every member.
LEMMA FlattenLists ==
  ASSUME NEW S, NEW ss \in Seq(Seq(S)), Len(ss) \in 1..2
  PROVE  /\ FlattenSeq(ss) \in Seq(S)
         /\ \E place : Lists(place, FlattenSeq(ss), ss)
<1>1. CASE Len(ss) = 1
  <2>. DEFINE s == ss[1]
              place == [k \in 1..Len(s) |-> <<1, k>>]
  <2>1. FlattenSeq(ss) = s /\ s \in Seq(S)
    BY <1>1, FlattenOne
  <2>2. PlacesOf(ss) = {1} \X (1..Len(s))
    BY <1>1 DEF PlacesOf
  <2>3. Lists(place, s, ss)
    BY <2>2 DEF Lists
  <2>. QED
    BY <2>1, <2>3
<1>2. CASE Len(ss) = 2
  <2>1. PICK s \in Seq(S), t \in Seq(S) : s = ss[1] /\ t = ss[2]
    BY <1>2
  <2>2. FlattenSeq(ss) = s \o t
    BY <1>2, <2>1, FlattenTwo
  <2>3. \E place : Lists(place, s \o t, ss)
    BY <1>2, <2>1, TwoListed
  <2>. QED
    BY <2>2, <2>3
<1>. QED
  BY <1>1, <1>2

\* Every position is the rank of one member in a strict order, and a lower
\* rank means to come before.
LEMMA EveryRankTaken ==
  ASSUME NEW n \in Nat, NEW R \in SUBSET ((1..n) \X (1..n)),
         \A i \in 1..n : <<i, i>> \notin R,
         \A i, j, k \in 1..n : <<i, j>> \in R /\ <<j, k>> \in R
                                 => <<i, k>> \in R,
         \A i, j \in 1..n : i # j => <<i, j>> \in R \/ <<j, i>> \in R
  PROVE  LET rank(i) == Cardinality({j \in 1..n : <<j, i>> \in R})
         IN  /\ \A k \in 1..n : \E i \in 1..n : rank(i) = k - 1
             /\ \A i, j \in 1..n : rank(i) = rank(j) => i = j
             /\ \A i, j \in 1..n : rank(i) < rank(j) => <<i, j>> \in R
             /\ \A i \in 1..n : rank(i) \in 0..(n - 1)
<1>. DEFINE below(i) == {j \in 1..n : <<j, i>> \in R}
            rank(i) == Cardinality(below(i))
            f == [i \in 1..n |-> rank(i)]
<1>1. IsFiniteSet(1..n) /\ Cardinality(1..n) = n
  <2>1. 1 \in Int /\ n \in Int
    OBVIOUS
  <2>. QED
    BY <2>1, FS_Interval
<1>2. ASSUME NEW i \in 1..n
      PROVE  IsFiniteSet(below(i)) /\ rank(i) \in Nat /\ rank(i) < n
  <2>1. below(i) \subseteq 1..n /\ i \notin below(i)
    OBVIOUS
  <2>2. IsFiniteSet(below(i)) /\ Cardinality(below(i)) \in Nat
    <3>. HIDE DEF below
    <3>1. IsFiniteSet(below(i))
      BY <1>1, <2>1, FS_Subset
    <3>. QED
      BY <3>1, FS_CardinalityType
  <2>3. /\ Cardinality(below(i)) <= Cardinality(1..n)
        /\ Cardinality(below(i)) # Cardinality(1..n)
    <3>. HIDE DEF below
    <3>. QED
      BY <1>1, <2>1, FS_Subset
  <2>. HIDE DEF below
  <2>. QED
    BY <1>1, <2>2, <2>3
<1>3. ASSUME NEW i \in 1..n, NEW j \in 1..n, <<i, j>> \in R
      PROVE  rank(i) < rank(j)
  <2>1. below(i) \subseteq below(j) /\ i \in below(j) /\ i \notin below(i)
    BY <1>3
  <2>2. rank(i) <= rank(j) /\ rank(i) # rank(j)
    <3>1. IsFiniteSet(below(j))
      BY <1>2
    <3>. HIDE DEF below
    <3>. QED
      BY <2>1, <3>1, FS_Subset
  <2>3. rank(i) \in Nat /\ rank(j) \in Nat
    BY <1>2
  <2>. HIDE DEF rank
  <2>. QED
    BY <2>2, <2>3
<1>4. ASSUME NEW i \in 1..n, NEW j \in 1..n
      PROVE  /\ rank(i) = rank(j) => i = j
             /\ rank(i) < rank(j) => <<i, j>> \in R
  <2>1. rank(i) \in Nat /\ rank(j) \in Nat
    BY <1>2
  <2>2. /\ <<i, j>> \in R => rank(i) < rank(j)
        /\ <<j, i>> \in R => rank(j) < rank(i)
    BY <1>3
  <2>. HIDE DEF rank
  <2>. QED
    BY <2>1, <2>2
<1>5. ASSUME NEW k \in 1..n PROVE \E i \in 1..n : rank(i) = k - 1
  <2>. DEFINE ranks == 0..(n - 1)
  <2>1. f \in [1..n -> ranks]
    <3>1. ASSUME NEW i \in 1..n PROVE rank(i) \in ranks
      <4>1. PICK r \in Nat : r = rank(i) /\ r < n
        BY <1>2
      <4>2. r \in 0..(n - 1)
        BY <4>1
      <4>. QED
        BY <4>1, <4>2
    <3>. HIDE DEF rank
    <3>. QED
      BY <3>1
  <2>2. \A i, j \in 1..n : f[i] = f[j] => i = j
    <3>. HIDE DEF rank
    <3>. QED
      BY <1>4
  <2>3. f \in Injection(1..n, ranks)
    <3>. HIDE DEF f
    <3>. QED
      BY <2>1, <2>2 DEF Injection, IsInjective
  <2>4. IsFiniteSet(ranks) /\ Cardinality(ranks) = n
    <3>1. 0 \in Int /\ n - 1 \in Int
      OBVIOUS
    <3>. QED
      BY <3>1, FS_Interval
  <2>5. f \in Surjection(1..n, ranks)
    <3>. HIDE DEF f, ranks
    <3>. QED
      BY <1>1, <2>3, <2>4, FS_Injection
  <2>6. k - 1 \in ranks
    OBVIOUS
  <2>7. PICK i \in 1..n : f[i] = k - 1
    <3>. HIDE DEF f, ranks
    <3>. QED
      BY <2>5, <2>6 DEF Surjection
  <2>. QED
    BY <2>7
<1>6. ASSUME NEW i \in 1..n PROVE rank(i) \in 0..(n - 1)
  <2>1. PICK r \in Nat : r = rank(i) /\ r < n
    BY <1>2
  <2>2. r \in 0..(n - 1)
    BY <2>1
  <2>. QED
    BY <2>1, <2>2
<1>. QED
  BY <1>4, <1>5, <1>6

LEMMA SequenceOf ==
  ASSUME NEW n \in Nat, NEW X, NEW f \in [1..n -> X]
  PROVE  f \in Seq(X) /\ Len(f) = n
  OBVIOUS

LEMMA ShortSequence ==
  ASSUME NEW X, NEW s \in SeqsUpTo(X, 2)
  PROVE  s \in Seq(X) /\ Len(s) \in 1..2
<1>1. PICK k \in 1..2 : s \in [1..k -> X]
  BY DEF SeqsUpTo
<1>2. k \in Nat
  OBVIOUS
<1>. QED
  BY <1>1, <1>2, SequenceOf

\* Groups that cover the experiences are joined into candidates that do.
LEMMA ReusablePasses ==
  ASSUME NEW plan, NEW outputs, Len(plan) \in 1..2,
         \A g \in 1..Len(plan) : Len(outputs[g]) \in Nat \ {0},
         ValidReusablePlan(plan), CoversGroups(plan, outputs),
         UniqueIds(CombineReusable(plan, outputs).candidates)
  PROVE  ValidReusable(CombineReusable(plan, outputs))
<1>. DEFINE m == Len(plan)
            item(g, c) == Compiled(plan[g], outputs[g][c])
            ss == [g \in 1..m |-> [c \in 1..Len(outputs[g]) |-> item(g, c)]]
            F == FlattenSeq(ss)
            out == CombineReusable(plan, outputs)
            S == UNION {{item(g, c) : c \in 1..Len(outputs[g])} : g \in 1..m}
<1>1. /\ out.coverage = UNION {plan[g].members : g \in 1..m}
      /\ out.expected = Experiences /\ out.candidates = F
  BY DEF CombineReusable
<1>2. ss \in Seq(Seq(S)) /\ Len(ss) = m
  <2>1. ASSUME NEW g \in 1..m PROVE ss[g] \in Seq(S)
    <3>1. ss[g] = [c \in 1..Len(outputs[g]) |-> item(g, c)]
      OBVIOUS
    <3>2. \A c \in 1..Len(outputs[g]) : item(g, c) \in S
      OBVIOUS
    <3>. HIDE DEF S, item, ss
    <3>3. ss[g] \in [1..Len(outputs[g]) -> S]
      BY <3>1, <3>2
    <3>. QED
      BY <3>3, SequenceOf
  <2>2. ss \in [1..m -> Seq(S)]
    <3>1. ss = [g \in 1..m |-> ss[g]]
      OBVIOUS
    <3>. HIDE DEF ss, S
    <3>. QED
      BY <2>1, <3>1
  <2>3. m \in Nat
    OBVIOUS
  <2>. HIDE DEF ss, S, m
  <2>. QED
    BY <2>2, <2>3, SequenceOf
<1>3. F \in Seq(S) /\ \E place : Lists(place, F, ss)
  <2>. HIDE DEF ss, S
  <2>. QED
    BY <1>2, FlattenLists
<1>4. PICK place : Lists(place, F, ss)
  BY <1>3
<1>5. \A g \in 1..m : \A c \in 1..Len(outputs[g]) :
        /\ <<g, c>> \in PlacesOf(ss)
        /\ ss[g][c].experiences = outputs[g][c].experiences
  <2>1. ASSUME NEW g \in 1..m, NEW c \in 1..Len(outputs[g])
        PROVE  /\ Len(ss[g]) = Len(outputs[g])
               /\ ss[g][c].experiences = outputs[g][c].experiences
    <3>1. ss[g] = [d \in 1..Len(outputs[g]) |-> item(g, d)]
      OBVIOUS
    <3>2. Len(ss[g]) = Len(outputs[g])
      <4>. HIDE DEF item, ss
      <4>. QED
        BY <3>1
    <3>3. ss[g][c] = item(g, c)
      OBVIOUS
    <3>. HIDE DEF ss
    <3>. QED
      BY <3>2, <3>3 DEF Compiled
  <2>. HIDE DEF ss, m
  <2>2. ASSUME NEW g \in 1..m, NEW c \in 1..Len(outputs[g])
        PROVE  <<g, c>> \in PlacesOf(ss)
    <3>1. g \in 1..Len(ss) /\ c \in 1..Len(ss[g])
      BY <1>2, <2>1
    <3>2. <<g, c>> \in {g} \X (1..Len(ss[g]))
      BY <3>1
    <3>. QED
      BY <3>1, <3>2 DEF PlacesOf
  <2>. QED
    BY <2>1, <2>2
<1>6. \A k \in 1..Len(F) : \E g \in 1..m : \E c \in 1..Len(outputs[g]) :
        F[k].experiences = outputs[g][c].experiences
  <2>. SUFFICES ASSUME NEW k \in 1..Len(F)
                PROVE  \E g \in 1..m : \E c \in 1..Len(outputs[g]) :
                         F[k].experiences = outputs[g][c].experiences
    OBVIOUS
  <2>1. place[k] \in PlacesOf(ss) /\ F[k] = ss[place[k][1]][place[k][2]]
    BY <1>4 DEF Lists
  <2>2. PICK g \in 1..Len(ss) : place[k] \in {g} \X (1..Len(ss[g]))
    BY <2>1 DEF PlacesOf
  <2>3. g \in 1..m /\ Len(ss[g]) = Len(outputs[g])
    <3>1. g \in 1..m
      BY <1>2, <2>2
    <3>2. ss[g] = [c \in 1..Len(outputs[g]) |-> item(g, c)]
      BY <3>1
    <3>. HIDE DEF ss, item
    <3>. QED
      BY <3>1, <3>2
  <2>4. PICK c \in 1..Len(outputs[g]) : place[k] = <<g, c>>
    BY <2>2, <2>3
  <2>5. F[k] = ss[g][c]
    BY <2>1, <2>4
  <2>. HIDE DEF ss
  <2>. QED
    BY <1>5, <2>3, <2>5
<1>7. \A g \in 1..m : \A c \in 1..Len(outputs[g]) : \E k \in 1..Len(F) :
        F[k].experiences = outputs[g][c].experiences
  <2>. SUFFICES ASSUME NEW g \in 1..m, NEW c \in 1..Len(outputs[g])
                PROVE  \E k \in 1..Len(F) :
                         F[k].experiences = outputs[g][c].experiences
    OBVIOUS
  <2>1. PICK k \in 1..Len(F) : place[k] = <<g, c>>
    <3>. HIDE DEF ss
    <3>. QED
      BY <1>4, <1>5 DEF Lists
  <2>2. F[k] = ss[g][c]
    <3>. HIDE DEF ss, F
    <3>1. F[k] = ss[place[k][1]][place[k][2]]
      BY <1>4 DEF Lists
    <3>. QED
      BY <2>1, <3>1
  <2>. HIDE DEF ss
  <2>. QED
    BY <1>5, <2>2
<1>. HIDE DEF F, ss, S
<1>8. \A g \in 1..m :
        plan[g].members =
          UNION {outputs[g][c].experiences : c \in 1..Len(outputs[g])}
  BY DEF CoversGroups, Incorporated
<1>9. UNION {plan[g].members : g \in 1..m} = Experiences
  BY DEF ValidReusablePlan
<1>10. Incorporated(F) = Experiences
  <2>1. ASSUME NEW e \in Incorporated(F) PROVE e \in Experiences
    <3>1. PICK k \in 1..Len(F) : e \in F[k].experiences
      BY DEF Incorporated
    <3>2. PICK g \in 1..m : \E c \in 1..Len(outputs[g]) :
            F[k].experiences = outputs[g][c].experiences
      BY <1>6
    <3>3. e \in plan[g].members
      BY <1>8, <3>1, <3>2
    <3>. QED
      BY <1>9, <3>3
  <2>2. ASSUME NEW e \in Experiences PROVE e \in Incorporated(F)
    <3>1. PICK g \in 1..m : e \in plan[g].members
      BY <1>9
    <3>2. PICK c \in 1..Len(outputs[g]) : e \in outputs[g][c].experiences
      BY <1>8, <3>1
    <3>3. PICK k \in 1..Len(F) : F[k].experiences = outputs[g][c].experiences
      BY <1>7
    <3>. QED
      BY <3>2, <3>3 DEF Incorporated
  <2>. QED
    BY <2>1, <2>2
<1>11. F # <<>>
  <2>1. 1 \in 1..m /\ 1 \in 1..Len(outputs[1])
    OBVIOUS
  <2>2. \E k \in 1..Len(F) : TRUE
    BY <1>7, <2>1
  <2>. QED
    BY <2>2
<1>. QED
  BY <1>1, <1>9, <1>10, <1>11 DEF ValidReusable

\* Accepted groups are joined into what is refused for its names alone.
THEOREM OnlyNamesAreRefused == Spec => []RefusedForNamesOnly
<1>1. Init => RefusedForNamesOnly
  BY DEF Init, RefusedForNamesOnly
<1>2. RefusedForNamesOnly /\ [Next]_vars => RefusedForNamesOnly'
  <2>1. CASE UNCHANGED vars
    BY <2>1 DEF RefusedForNamesOnly, vars
  <2>2. CASE Next /\ op' = "reusable"
    <3>1. JoinReusable
      BY <2>2 DEF Next, Synthesize, Compare, ReadComparison, Divide,
                  JoinAdjustment, Review, ReadReview, FallBackReview, Query,
                  ReadQuery, PlanRollout, NextPlan, Do
    <3>2. PICK plan \in ReusablePlans :
            \E outputs \in OutputsFor(plan) :
              /\ CoversGroups(plan, outputs)
              /\ made' = CombineReusable(plan, outputs)
      BY <3>1 DEF JoinReusable, Do
    <3>3. PICK outputs \in OutputsFor(plan) :
            /\ CoversGroups(plan, outputs)
            /\ made' = CombineReusable(plan, outputs)
      BY <3>2
    <3>4. ValidReusablePlan(plan) /\ Len(plan) \in 1..2
      BY ShortSequence DEF ReusablePlans
    <3>5. \A g \in 1..2 : \A a \in CandidatesFor(plan[g]) :
            Len(a) \in Nat \ {0}
      <4>1. \A g \in 1..2 : \A a \in CandidatesFor(plan[g]) : Len(a) \in 1..2
        BY ShortSequence DEF CandidatesFor
      <4>2. \A n \in 1..2 : n \in Nat \ {0}
        OBVIOUS
      <4>. HIDE DEF CandidatesFor
      <4>. QED
        BY <4>1, <4>2
    <3>6. ASSUME NEW g \in 1..Len(plan) PROVE Len(outputs[g]) \in Nat \ {0}
      <4>1. CASE Len(plan) = 1
        <5>1. outputs[1] \in CandidatesFor(plan[1]) /\ g = 1
          BY <4>1 DEF OutputsFor
        <5>. QED
          BY <3>5, <5>1
      <4>2. CASE Len(plan) = 2
        <5>1. /\ outputs[1] \in CandidatesFor(plan[1])
              /\ outputs[2] \in CandidatesFor(plan[2])
          BY <4>2 DEF OutputsFor
        <5>. QED
          BY <3>5, <4>2, <5>1
      <4>. QED
        BY <3>4, <4>1, <4>2
    <3>7. UniqueIds(made'.candidates) => ValidReusable(made')
      BY <3>3, <3>4, <3>6, ReusablePasses
    <3>. QED
      BY <3>7 DEF RefusedForNamesOnly
  <2>3. CASE Next /\ op' # "reusable"
    BY <2>3 DEF RefusedForNamesOnly
  <2>. QED
    BY <2>1, <2>2, <2>3
<1>. QED
  BY <1>1, <1>2, PTL DEF Spec

-----------------------------------------------------------------------------

\* What members come to when they are put at their ranks.
LEMMA PutAtRanks ==
  ASSUME NEW n \in Nat, NEW R \in SUBSET ((1..n) \X (1..n)),
         \A i \in 1..n : <<i, i>> \notin R,
         \A i, j, k \in 1..n : <<i, j>> \in R /\ <<j, k>> \in R
                                 => <<i, k>> \in R,
         \A i, j \in 1..n : i # j => <<i, j>> \in R \/ <<j, i>> \in R
  PROVE  LET at == [k \in 1..n |-> CHOOSE i \in 1..n :
                      Cardinality({j \in 1..n : <<j, i>> \in R}) = k - 1]
         IN  /\ at \in [1..n -> 1..n]
             /\ \A i \in 1..n : \E k \in 1..n : at[k] = i
             /\ \A k, l \in 1..n : at[k] = at[l] => k = l
             /\ \A k, l \in 1..n : k < l => <<at[k], at[l]>> \in R
<1>. DEFINE rank(i) == Cardinality({j \in 1..n : <<j, i>> \in R})
            at == [k \in 1..n |-> CHOOSE i \in 1..n : rank(i) = k - 1]
<1>1. /\ \A k \in 1..n : \E i \in 1..n : rank(i) = k - 1
      /\ \A i, j \in 1..n : rank(i) = rank(j) => i = j
      /\ \A i, j \in 1..n : rank(i) < rank(j) => <<i, j>> \in R
      /\ \A i \in 1..n : rank(i) \in 0..(n - 1)
  BY EveryRankTaken
<1>. HIDE DEF rank
<1>2. \A k \in 1..n : at[k] \in 1..n /\ rank(at[k]) = k - 1
  BY <1>1
<1>3. at \in [1..n -> 1..n]
  BY <1>1
<1>4. ASSUME NEW i \in 1..n PROVE \E k \in 1..n : at[k] = i
  <2>1. PICK r \in 0..(n - 1) : r = rank(i)
    BY <1>1
  <2>2. PICK k \in 1..n : k - 1 = r
    <3>1. r + 1 \in 1..n /\ (r + 1) - 1 = r
      OBVIOUS
    <3>. QED
      BY <3>1
  <2>3. at[k] \in 1..n /\ rank(at[k]) = rank(i)
    BY <1>2, <2>1, <2>2
  <2>. HIDE DEF at
  <2>. QED
    BY <1>1, <2>3
<1>5. ASSUME NEW k \in 1..n, NEW l \in 1..n, k < l
      PROVE  at[k] # at[l] /\ <<at[k], at[l]>> \in R
  <2>1. rank(at[k]) = k - 1 /\ rank(at[l]) = l - 1
    BY <1>2
  <2>2. rank(at[k]) < rank(at[l]) /\ rank(at[k]) # rank(at[l])
    BY <1>5, <2>1
  <2>3. at[k] \in 1..n /\ at[l] \in 1..n
    BY <1>2
  <2>. HIDE DEF at
  <2>. QED
    BY <1>1, <2>2, <2>3
<1>6. \A k, l \in 1..n : at[k] = at[l] => k = l
  <2>1. \A k, l \in 1..n : k < l => at[k] # at[l]
    BY <1>5
  <2>. HIDE DEF at
  <2>. QED
    BY <2>1
<1>7. /\ at \in [1..n -> 1..n]
      /\ \A i \in 1..n : \E k \in 1..n : at[k] = i
      /\ \A k, l \in 1..n : at[k] = at[l] => k = l
      /\ \A k, l \in 1..n : k < l => <<at[k], at[l]>> \in R
  <2>. HIDE DEF at
  <2>. QED
    BY <1>3, <1>4, <1>5, <1>6
<1>. QED
  BY <1>7 DEF rank

\* A problem and a candidate of the adjustment side, joined.
JoinedProblem ==
  [id : Nat \X Nat, priority : Int,
   candidate : (Nat \X Nat) \union {NoCandidate},
   experiences : SUBSET Experiences]

JoinedCandidate ==
  [id : Nat \X Nat, experiences : SUBSET Experiences,
   priority : Int \union {Unranked}]

Whole(problems, candidates) ==
  [coverage |-> Experiences, expected |-> Experiences,
   problems |-> problems, candidates |-> candidates]

\* Ranking the problems moves each of them to one rank of its own.
LEMMA RankedMoves ==
  ASSUME NEW P \in Seq(JoinedProblem)
  PROVE  /\ Ranked(P) \in Seq(JoinedProblem)
         /\ Len(Ranked(P)) = Len(P)
         /\ \E at \in [1..Len(P) -> 1..Len(P)] :
              /\ \A i \in 1..Len(P) : \E k \in 1..Len(P) : at[k] = i
              /\ \A k, l \in 1..Len(P) : at[k] = at[l] => k = l
              /\ \A k \in 1..Len(P) :
                   Ranked(P)[k] = [P[at[k]] EXCEPT !.priority = k]
<1>1. PICK n \in Nat : n = Len(P)
  OBVIOUS
<1>. DEFINE R == {x \in (1..n) \X (1..n) : Precedes(P, x[1], x[2])}
            at == [k \in 1..n |-> CHOOSE i \in 1..n :
                     Cardinality({j \in 1..n : <<j, i>> \in R}) = k - 1]
<1>2. \A i, j \in 1..n : <<j, i>> \in R <=> Precedes(P, j, i)
  OBVIOUS
<1>3. \A i \in 1..n : P[i] \in JoinedProblem /\ P[i].priority \in Int
  <2>1. \A i \in 1..n : P[i] \in JoinedProblem
    <3>. HIDE DEF JoinedProblem
    <3>. QED
      BY <1>1
  <2>2. \A x \in JoinedProblem : x.priority \in Int
    BY DEF JoinedProblem
  <2>. HIDE DEF JoinedProblem
  <2>. QED
    BY <2>1, <2>2
<1>4. /\ at \in [1..n -> 1..n]
      /\ \A i \in 1..n : \E k \in 1..n : at[k] = i
      /\ \A k, l \in 1..n : at[k] = at[l] => k = l
      /\ \A k, l \in 1..n : k < l => <<at[k], at[l]>> \in R
  <2>1. R \in SUBSET ((1..n) \X (1..n))
    OBVIOUS
  <2>2. \A i \in 1..n : <<i, i>> \notin R
    BY <1>2, <1>3 DEF Precedes
  <2>3. \A i, j, k \in 1..n : <<i, j>> \in R /\ <<j, k>> \in R
                                => <<i, k>> \in R
    <3>. HIDE DEF R
    <3>. QED
      BY <1>2, <1>3 DEF Precedes
  <2>4. \A i, j \in 1..n : i # j => <<i, j>> \in R \/ <<j, i>> \in R
    <3>. HIDE DEF R
    <3>. QED
      BY <1>2, <1>3 DEF Precedes
  <2>. HIDE DEF R
  <2>. QED
    BY <2>1, <2>2, <2>3, <2>4, PutAtRanks
<1>5. \A i \in 1..n :
        {j \in 1..n : <<j, i>> \in R} = {j \in 1..n : Precedes(P, j, i)}
  <2>. HIDE DEF R
  <2>. QED
    BY <1>2
<1>6. ASSUME NEW k \in 1..n
      PROVE  (CHOOSE i \in 1..n :
                Cardinality({j \in 1..n : Precedes(P, j, i)}) = k - 1) = at[k]
  <2>. DEFINE f(i) == Cardinality({j \in 1..n : <<j, i>> \in R}) = k - 1
              h(i) == Cardinality({j \in 1..n : Precedes(P, j, i)}) = k - 1
  <2>1. \A i \in 1..n : f(i) <=> h(i)
    <3>. HIDE DEF R
    <3>. QED
      BY <1>5
  <2>2. (CHOOSE i \in 1..n : f(i)) = (CHOOSE i \in 1..n : h(i))
    <3>. HIDE DEF f, h
    <3>. QED
      BY <2>1
  <2>. QED
    BY <2>2
<1>7. Ranked(P) = [k \in 1..n |-> [P[at[k]] EXCEPT !.priority = k]]
  <2>1. Ranked(P) =
          [k \in 1..n |->
             [P[CHOOSE i \in 1..n :
                  Cardinality({j \in 1..n : Precedes(P, j, i)}) = k - 1]
                EXCEPT !.priority = k]]
    BY <1>1 DEF Ranked
  <2>. HIDE DEF at
  <2>. QED
    BY <1>6, <2>1
<1>. HIDE DEF at
<1>8. \A k \in 1..n : [P[at[k]] EXCEPT !.priority = k] \in JoinedProblem
  <2>1. \A x \in JoinedProblem : \A k \in 1..n :
          [x EXCEPT !.priority = k] \in JoinedProblem
    BY DEF JoinedProblem
  <2>. HIDE DEF JoinedProblem
  <2>. QED
    BY <1>3, <1>4, <2>1
<1>9. Ranked(P) \in [1..n -> JoinedProblem]
  BY <1>7, <1>8
<1>10. Ranked(P) \in Seq(JoinedProblem) /\ Len(Ranked(P)) = n
  BY <1>9, SequenceOf
<1>11. \A k \in 1..n : Ranked(P)[k] = [P[at[k]] EXCEPT !.priority = k]
  BY <1>7
<1>. HIDE DEF R
<1>. QED
  BY <1>1, <1>4, <1>10, <1>11

\* What an accepted whole is, in terms of its problems and candidates.
Accepted(problems, candidates) ==
  /\ Len(problems) # 0
  /\ UniqueIds(problems)
  /\ UniqueIds(candidates)
  /\ \A p \in 1..Len(problems) :
       /\ problems[p].experiences # {}
       /\ problems[p].experiences \subseteq Experiences
       /\ problems[p].candidate # NoCandidate =>
            \E c \in 1..Len(candidates) :
              candidates[c].id = problems[p].candidate
  /\ \A c \in 1..Len(candidates) :
       \E p \in 1..Len(problems) :
         /\ \A q \in 1..Len(problems) :
              problems[q].candidate = candidates[c].id <=> q = p
         /\ candidates[c].experiences \subseteq problems[p].experiences

LEMMA AcceptedIsValid ==
  ASSUME NEW S, NEW P \in Seq(S), NEW C
  PROVE  ValidAdjustment(Whole(P, C)) <=> Accepted(P, C)
<1>. DEFINE W == Whole(P, C)
<1>1. /\ W.problems = P /\ W.candidates = C
      /\ W.coverage = Experiences /\ W.expected = Experiences
  BY DEF Whole
<1>. HIDE DEF W
<1>2. P # <<>> <=> Len(P) # 0
  OBVIOUS
<1>3. ASSUME NEW c \in 1..Len(C), NEW p \in 1..Len(P)
      PROVE  ProblemsOf(W, C[c].id) = {p} <=>
               \A q \in 1..Len(P) : P[q].candidate = C[c].id <=> q = p
  BY <1>1 DEF ProblemsOf
<1>4. (\A c \in 1..Len(C) : \E p \in 1..Len(P) :
         /\ ProblemsOf(W, C[c].id) = {p}
         /\ C[c].experiences \subseteq P[p].experiences) <=>
      (\A c \in 1..Len(C) : \E p \in 1..Len(P) :
         /\ \A q \in 1..Len(P) : P[q].candidate = C[c].id <=> q = p
         /\ C[c].experiences \subseteq P[p].experiences)
  BY <1>3
<1>5. ValidAdjustment(W) <=> Accepted(P, C)
  BY ONLY <1>1, <1>2, <1>4 DEF ValidAdjustment, Accepted
<1>. QED
  BY <1>5 DEF W

\* Ranked problems are accepted as they were, and rank k is at k.
LEMMA RankedIsAccepted ==
  ASSUME NEW P \in Seq(JoinedProblem), NEW C, Accepted(P, C)
  PROVE  /\ Ranked(P) \in Seq(JoinedProblem)
         /\ Accepted(Ranked(P), C)
         /\ \A p \in 1..Len(Ranked(P)) : Ranked(P)[p].priority = p
<1>. DEFINE Q == Ranked(P)
<1>1. PICK n \in Nat : n = Len(P)
  OBVIOUS
<1>2. Q \in Seq(JoinedProblem) /\ Len(Q) = n
  BY <1>1, RankedMoves
<1>3. PICK at \in [1..n -> 1..n] :
        /\ \A i \in 1..n : \E k \in 1..n : at[k] = i
        /\ \A k, l \in 1..n : at[k] = at[l] => k = l
        /\ \A k \in 1..n : Q[k] = [P[at[k]] EXCEPT !.priority = k]
  <2>. HIDE DEF Q, JoinedProblem
  <2>1. \E at \in [1..Len(P) -> 1..Len(P)] :
          /\ \A i \in 1..Len(P) : \E k \in 1..Len(P) : at[k] = i
          /\ \A k, l \in 1..Len(P) : at[k] = at[l] => k = l
          /\ \A k \in 1..Len(P) : Q[k] = [P[at[k]] EXCEPT !.priority = k]
    BY RankedMoves DEF Q
  <2>. QED
    BY ONLY <1>1, <2>1
<1>. HIDE DEF Q
<1>4. \A x \in JoinedProblem : \A k \in 1..n :
        /\ [x EXCEPT !.priority = k].priority = k
        /\ [x EXCEPT !.priority = k].id = x.id
        /\ [x EXCEPT !.priority = k].candidate = x.candidate
        /\ [x EXCEPT !.priority = k].experiences = x.experiences
  BY DEF JoinedProblem
<1>. HIDE DEF JoinedProblem
<1>5. ASSUME NEW k \in 1..n
      PROVE  /\ at[k] \in 1..n
             /\ Q[k].priority = k
             /\ Q[k].id = P[at[k]].id
             /\ Q[k].candidate = P[at[k]].candidate
             /\ Q[k].experiences = P[at[k]].experiences
  <2>1. at[k] \in 1..n /\ P[at[k]] \in JoinedProblem
    BY <1>1, <1>3
  <2>2. Q[k] = [P[at[k]] EXCEPT !.priority = k]
    BY <1>3
  <2>. QED
    BY <1>4, <2>1, <2>2
<1>6. UniqueIds(Q)
  <2>. SUFFICES ASSUME NEW a \in 1..n, NEW b \in 1..n, Q[a].id = Q[b].id
                PROVE  a = b
    BY <1>2 DEF UniqueIds
  <2>1. P[at[a]].id = P[at[b]].id /\ at[a] \in 1..n /\ at[b] \in 1..n
    BY <1>5
  <2>2. at[a] = at[b]
    BY <1>1, <2>1 DEF Accepted, UniqueIds
  <2>. QED
    BY <1>3, <2>2
<1>7. ASSUME NEW p \in 1..n
      PROVE  /\ Q[p].experiences # {}
             /\ Q[p].experiences \subseteq Experiences
             /\ Q[p].candidate # NoCandidate =>
                  \E c \in 1..Len(C) : C[c].id = Q[p].candidate
  <2>1. PICK i \in 1..n :
          /\ Q[p].candidate = P[i].candidate
          /\ Q[p].experiences = P[i].experiences
    BY <1>5
  <2>. QED
    BY <1>1, <2>1 DEF Accepted
<1>8. ASSUME NEW c \in 1..Len(C)
      PROVE  \E p \in 1..n :
               /\ \A q \in 1..n : Q[q].candidate = C[c].id <=> q = p
               /\ C[c].experiences \subseteq Q[p].experiences
  <2>1. PICK i \in 1..n :
          /\ \A q \in 1..n : P[q].candidate = C[c].id <=> q = i
          /\ C[c].experiences \subseteq P[i].experiences
    BY <1>1 DEF Accepted
  <2>2. PICK p \in 1..n : at[p] = i
    BY <1>3
  <2>3. ASSUME NEW q \in 1..n PROVE Q[q].candidate = C[c].id <=> q = p
    <3>1. Q[q].candidate = C[c].id <=> at[q] = i
      <4>1. at[q] \in 1..n /\ Q[q].candidate = P[at[q]].candidate
        BY <1>5
      <4>. QED
        BY <2>1, <4>1
    <3>. QED
      BY <1>3, <2>2, <3>1
  <2>. QED
    BY <1>5, <2>1, <2>2, <2>3
<1>9. Len(Q) # 0 /\ UniqueIds(C)
  BY <1>1, <1>2 DEF Accepted
<1>10. Accepted(Q, C)
  BY ONLY <1>2, <1>6, <1>7, <1>8, <1>9 DEF Accepted
<1>11. \A p \in 1..Len(Q) : Q[p].priority = p
  BY <1>2, <1>5
<1>. QED
  BY <1>2, <1>10, <1>11 DEF Q

\* Candidates put at the ranks of their problems are accepted as they were,
\* and each is its problem's.
LEMMA OrderedIsAccepted ==
  ASSUME NEW Q, Len(Q) \in Nat, NEW C \in Seq(JoinedCandidate),
         Accepted(Q, C)
  PROVE  /\ Accepted(Q, InRankOrder(C, Q))
         /\ \A c \in 1..Len(InRankOrder(C, Q)) : \E p \in 1..Len(Q) :
              /\ InRankOrder(C, Q)[c].priority = p
              /\ Q[p].candidate = InRankOrder(C, Q)[c].id
         /\ \A c, d \in 1..Len(InRankOrder(C, Q)) : c < d =>
              InRankOrder(C, Q)[c].priority < InRankOrder(C, Q)[d].priority
<1>1. PICK m \in Nat, n \in Nat : m = Len(Q) /\ n = Len(C)
  OBVIOUS
<1>. DEFINE owner(c) == CHOOSE p \in 1..m : Q[p].candidate = C[c].id
            D == InRankOrder(C, Q)
            R == {x \in (1..n) \X (1..n) : owner(x[1]) < owner(x[2])}
            at == [k \in 1..n |-> CHOOSE i \in 1..n :
                     Cardinality({j \in 1..n : <<j, i>> \in R}) = k - 1]
<1>2. ASSUME NEW c \in 1..n
      PROVE  /\ owner(c) \in 1..m
             /\ \A q \in 1..m : Q[q].candidate = C[c].id <=> q = owner(c)
             /\ C[c].experiences \subseteq Q[owner(c)].experiences
  <2>1. PICK p \in 1..m :
          /\ \A q \in 1..m : Q[q].candidate = C[c].id <=> q = p
          /\ C[c].experiences \subseteq Q[p].experiences
    BY <1>1 DEF Accepted
  <2>2. owner(c) \in 1..m /\ Q[owner(c)].candidate = C[c].id
    BY <2>1
  <2>3. owner(c) = p
    <3>. HIDE DEF owner
    <3>. QED
      BY <2>1, <2>2
  <2>. HIDE DEF owner
  <2>. QED
    BY <2>1, <2>3
<1>3. \A i, j \in 1..n : <<j, i>> \in R <=> owner(j) < owner(i)
  <2>. HIDE DEF owner
  <2>. QED
    OBVIOUS
<1>4. ASSUME NEW c \in 1..n, NEW d \in 1..n, owner(c) = owner(d)
      PROVE  c = d
  <2>1. Q[owner(c)].candidate = C[c].id /\ Q[owner(d)].candidate = C[d].id
    <3>. HIDE DEF owner
    <3>. QED
      BY <1>2
  <2>2. C[c].id = C[d].id
    <3>. HIDE DEF owner
    <3>. QED
      BY <1>4, <2>1
  <2>. QED
    BY <1>1, <2>2 DEF Accepted, UniqueIds
<1>5. at = [k \in 1..n |-> CHOOSE i \in 1..n :
              Cardinality({d \in 1..n : owner(d) < owner(i)}) = k - 1]
  <2>1. \A i \in 1..n : {j \in 1..n : <<j, i>> \in R} =
                        {d \in 1..n : owner(d) < owner(i)}
    <3>. HIDE DEF R, owner
    <3>. QED
      BY <1>3
  <2>2. ASSUME NEW k \in 1..n
        PROVE  (CHOOSE i \in 1..n :
                  Cardinality({j \in 1..n : <<j, i>> \in R}) = k - 1) =
               (CHOOSE i \in 1..n :
                  Cardinality({d \in 1..n : owner(d) < owner(i)}) = k - 1)
    <3>. DEFINE f(i) == Cardinality({j \in 1..n : <<j, i>> \in R}) = k - 1
                h(i) == Cardinality({d \in 1..n : owner(d) < owner(i)})
                          = k - 1
    <3>1. \A i \in 1..n : f(i) <=> h(i)
      <4>. HIDE DEF R, owner
      <4>. QED
        BY <2>1
    <3>2. (CHOOSE i \in 1..n : f(i)) = (CHOOSE i \in 1..n : h(i))
      <4>. HIDE DEF f, h
      <4>. QED
        BY <3>1
    <3>. QED
      BY <3>2
  <2>. DEFINE low(k) == CHOOSE i \in 1..n :
                Cardinality({j \in 1..n : <<j, i>> \in R}) = k - 1
              first(k) == CHOOSE i \in 1..n :
                Cardinality({d \in 1..n : owner(d) < owner(i)}) = k - 1
  <2>3. \A k \in 1..n : low(k) = first(k)
    BY <2>2
  <2>4. [k \in 1..n |-> low(k)] = [k \in 1..n |-> first(k)]
    <3>. HIDE DEF low, first
    <3>. QED
      BY <2>3
  <2>. QED
    BY <2>4
<1>6. D = [k \in 1..n |-> [C[at[k]] EXCEPT !.priority = owner(at[k])]]
  <2>1. D = [k \in 1..n |->
               LET c == CHOOSE i \in 1..n :
                          Cardinality({d \in 1..n : owner(d) < owner(i)})
                            = k - 1
               IN  [C[c] EXCEPT !.priority = owner(c)]]
    BY <1>1 DEF InRankOrder
  <2>. HIDE DEF at, owner, D
  <2>. QED
    BY <1>5, <2>1
<1>7. /\ at \in [1..n -> 1..n]
      /\ \A i \in 1..n : \E k \in 1..n : at[k] = i
      /\ \A k, l \in 1..n : at[k] = at[l] => k = l
      /\ \A k, l \in 1..n : k < l => <<at[k], at[l]>> \in R
  <2>1. R \in SUBSET ((1..n) \X (1..n))
    OBVIOUS
  <2>2. \A i \in 1..n : owner(i) \in Int
    <3>. HIDE DEF owner
    <3>. QED
      BY <1>2
  <2>3. /\ \A i \in 1..n : <<i, i>> \notin R
        /\ \A i, j, k \in 1..n : <<i, j>> \in R /\ <<j, k>> \in R
                                   => <<i, k>> \in R
        /\ \A i, j \in 1..n : i # j => <<i, j>> \in R \/ <<j, i>> \in R
    <3>. HIDE DEF R, owner
    <3>. QED
      BY <1>3, <1>4, <2>2
  <2>. HIDE DEF R
  <2>. QED
    BY <2>1, <2>3, PutAtRanks
<1>. HIDE DEF at, D
<1>8. ASSUME NEW k \in 1..n, NEW l \in 1..n, k < l
      PROVE  owner(at[k]) < owner(at[l])
  <2>. HIDE DEF R, owner
  <2>. QED
    BY <1>3, <1>7, <1>8
<1>. HIDE DEF R, owner
<1>9. Len(D) = n /\ \A k \in 1..n :
        D[k] = [C[at[k]] EXCEPT !.priority = owner(at[k])]
  BY <1>6
<1>10. \A x \in JoinedCandidate : \A k \in 1..m :
         /\ [x EXCEPT !.priority = k].priority = k
         /\ [x EXCEPT !.priority = k].id = x.id
         /\ [x EXCEPT !.priority = k].experiences = x.experiences
  BY DEF JoinedCandidate
<1>11. ASSUME NEW k \in 1..n
       PROVE  /\ at[k] \in 1..n
              /\ D[k].priority = owner(at[k])
              /\ D[k].id = C[at[k]].id
              /\ D[k].experiences = C[at[k]].experiences
  <2>. HIDE DEF JoinedCandidate
  <2>1. at[k] \in 1..n /\ C[at[k]] \in JoinedCandidate
    BY <1>1, <1>7
  <2>2. PICK p \in 1..m : p = owner(at[k])
    BY <1>2, <2>1
  <2>3. PICK x \in JoinedCandidate : x = C[at[k]]
    BY <2>1
  <2>4. D[k] = [x EXCEPT !.priority = p]
    BY <1>9, <2>2, <2>3
  <2>5. D[k].priority = p /\ D[k].id = x.id
          /\ D[k].experiences = x.experiences
    BY <1>10, <2>4
  <2>. QED
    BY <2>1, <2>2, <2>3, <2>5
<1>12. UniqueIds(D)
  <2>. SUFFICES ASSUME NEW a \in 1..n, NEW b \in 1..n, D[a].id = D[b].id
                PROVE  a = b
    BY <1>9 DEF UniqueIds
  <2>1. C[at[a]].id = C[at[b]].id /\ at[a] \in 1..n /\ at[b] \in 1..n
    BY <1>11
  <2>2. at[a] = at[b]
    BY <1>1, <2>1 DEF Accepted, UniqueIds
  <2>. QED
    BY <1>7, <2>2
<1>13. ASSUME NEW p \in 1..m
       PROVE  /\ Q[p].experiences # {}
              /\ Q[p].experiences \subseteq Experiences
              /\ Q[p].candidate # NoCandidate =>
                   \E k \in 1..n : D[k].id = Q[p].candidate
  <2>1. /\ Q[p].experiences # {}
        /\ Q[p].experiences \subseteq Experiences
        /\ Q[p].candidate # NoCandidate =>
             \E c \in 1..n : C[c].id = Q[p].candidate
    BY <1>1 DEF Accepted
  <2>2. ASSUME NEW c \in 1..n PROVE \E k \in 1..n : D[k].id = C[c].id
    <3>1. PICK k \in 1..n : at[k] = c
      BY <1>7
    <3>. QED
      BY <1>11, <3>1
  <2>. QED
    BY <2>1, <2>2
<1>14. ASSUME NEW k \in 1..n
       PROVE  /\ owner(at[k]) \in 1..m
              /\ \A q \in 1..m :
                   Q[q].candidate = D[k].id <=> q = owner(at[k])
              /\ D[k].experiences \subseteq Q[owner(at[k])].experiences
  <2>1. /\ at[k] \in 1..n
        /\ D[k].id = C[at[k]].id
        /\ D[k].experiences = C[at[k]].experiences
    BY <1>11
  <2>. QED
    BY <1>2, <2>1
<1>15. Accepted(Q, D)
  <2>1. m # 0 /\ UniqueIds(Q)
    BY <1>1 DEF Accepted
  <2>2. \A k \in 1..n : \E p \in 1..m :
          /\ \A q \in 1..m : Q[q].candidate = D[k].id <=> q = p
          /\ D[k].experiences \subseteq Q[p].experiences
    BY <1>14
  <2>. QED
    BY ONLY <1>1, <1>9, <1>12, <1>13, <2>1, <2>2 DEF Accepted
<1>16. \A c \in 1..n : \E p \in 1..m :
         D[c].priority = p /\ Q[p].candidate = D[c].id
  BY <1>11, <1>14
<1>17. ASSUME NEW c \in 1..n, NEW d \in 1..n, c < d
       PROVE  D[c].priority < D[d].priority
  BY <1>8, <1>11, <1>17
<1>18. /\ \A c \in 1..Len(D) : \E p \in 1..Len(Q) :
            D[c].priority = p /\ Q[p].candidate = D[c].id
       /\ \A c, d \in 1..Len(D) : c < d => D[c].priority < D[d].priority
  BY ONLY <1>1, <1>9, <1>16, <1>17
<1>. QED
  BY <1>15, <1>18 DEF D

-----------------------------------------------------------------------------

\* A part of the adjustment side, as a session was accepted to return it.
PartProblem ==
  [id : Nat, priority : Int \union {NotANumber},
   candidate : Nat \union {NoCandidate}, experiences : SUBSET Experiences]

PartCandidate == [id : Nat, experiences : SUBSET Experiences]

AcceptedPart(out) ==
  /\ out.problems \in Seq(PartProblem)
  /\ out.candidates \in Seq(PartCandidate)
  /\ ValidAdjustment(out)

LEMMA SequencesListed ==
  ASSUME NEW m \in 1..2, NEW S, NEW ss \in [1..m -> Seq(S)]
  PROVE  /\ Len(ss) = m
         /\ FlattenSeq(ss) \in Seq(S)
         /\ \E place : Lists(place, FlattenSeq(ss), ss)
<1>1. m \in Nat
  OBVIOUS
<1>2. ss \in Seq(Seq(S)) /\ Len(ss) = m
  BY <1>1, SequenceOf
<1>. QED
  BY <1>2, FlattenLists

\* The name of its group in front keeps a problem what it is.
LEMMA GroupedProblem ==
  ASSUME NEW g \in Nat, NEW x \in PartProblem, x.priority \in Int
  PROVE  /\ InGroup(g, x) \in JoinedProblem
         /\ InGroup(g, x).id = <<g, x.id>>
         /\ InGroup(g, x).experiences = x.experiences
         /\ \A h, c \in Nat :
              InGroup(g, x).candidate = <<h, c>> <=>
                h = g /\ x.candidate = c
         /\ InGroup(g, x).candidate # NoCandidate =>
              /\ x.candidate # NoCandidate
              /\ InGroup(g, x).candidate = <<g, x.candidate>>
<1>1. /\ x.id \in Nat /\ x.candidate \in Nat \union {NoCandidate}
      /\ x.experiences \in SUBSET Experiences
      /\ x = [id |-> x.id, priority |-> x.priority,
              candidate |-> x.candidate, experiences |-> x.experiences]
  BY DEF PartProblem
<1>2. InGroup(g, x) =
        [id |-> <<g, x.id>>, priority |-> x.priority,
         candidate |-> IF x.candidate = NoCandidate THEN NoCandidate
                       ELSE <<g, x.candidate>>,
         experiences |-> x.experiences]
  <2>1. PICK i, q, c, s :
          /\ x = [id |-> i, priority |-> q, candidate |-> c, experiences |-> s]
          /\ x.id = i /\ x.priority = q
          /\ x.candidate = c /\ x.experiences = s
    BY <1>1
  <2>2. PICK d : d = IF c = NoCandidate THEN c ELSE <<g, c>>
    OBVIOUS
  <2>3. [[x EXCEPT !.id = <<g, i>>] EXCEPT !.candidate = d] =
        [id |-> <<g, i>>, priority |-> q, candidate |-> d, experiences |-> s]
    <3>1. \A j, r, k, u, v :
            [[id |-> j, priority |-> r, candidate |-> k, experiences |-> u]
               EXCEPT !.id = v] =
            [id |-> v, priority |-> r, candidate |-> k, experiences |-> u]
      OBVIOUS
    <3>2. \A j, r, k, u, v :
            [[id |-> j, priority |-> r, candidate |-> k, experiences |-> u]
               EXCEPT !.candidate = v] =
            [id |-> j, priority |-> r, candidate |-> v, experiences |-> u]
      OBVIOUS
    <3>3. PICK y : y = [x EXCEPT !.id = <<g, i>>]
      OBVIOUS
    <3>4. y = [id |-> <<g, i>>, priority |-> q, candidate |-> c,
               experiences |-> s]
      <4>1. x = [id |-> i, priority |-> q, candidate |-> c, experiences |-> s]
        BY <2>1
      <4>. QED
        BY ONLY <3>1, <3>3, <4>1
    <3>5. [y EXCEPT !.candidate = d] =
          [id |-> <<g, i>>, priority |-> q, candidate |-> d,
           experiences |-> s]
      BY ONLY <3>2, <3>4
    <3>. QED
      BY ONLY <3>3, <3>5
  <2>4. InGroup(g, x) = [[x EXCEPT !.id = <<g, i>>] EXCEPT !.candidate = d]
    BY <2>1, <2>2 DEF InGroup
  <2>5. d = IF x.candidate = NoCandidate THEN NoCandidate
            ELSE <<g, x.candidate>>
    BY <2>1, <2>2
  <2>. QED
    BY <2>1, <2>3, <2>4, <2>5
<1>3. /\ InGroup(g, x).id = <<g, x.id>>
      /\ InGroup(g, x).experiences = x.experiences
      /\ InGroup(g, x).candidate =
           IF x.candidate = NoCandidate THEN NoCandidate
           ELSE <<g, x.candidate>>
  BY <1>2
<1>4. InGroup(g, x) \in JoinedProblem
  <2>1. (IF x.candidate = NoCandidate THEN NoCandidate
         ELSE <<g, x.candidate>>) \in (Nat \X Nat) \union {NoCandidate}
    BY <1>1
  <2>2. <<g, x.id>> \in Nat \X Nat
    BY <1>1
  <2>. QED
    BY <1>1, <1>2, <2>1, <2>2 DEF JoinedProblem
<1>5. ASSUME NEW h \in Nat, NEW c \in Nat
      PROVE  InGroup(g, x).candidate = <<h, c>> <=>
               h = g /\ x.candidate = c
  <2>1. CASE x.candidate = NoCandidate
    <3>1. c # NoCandidate
      BY IdentifierAssumption
    <3>2. NoCandidate # <<h, c>>
      <4>1. <<h, c>> \in Nat \X Nat
        OBVIOUS
      <4>. QED
        BY <4>1, IdentifierAssumption
    <3>3. InGroup(g, x).candidate = NoCandidate
      BY <1>3, <2>1
    <3>. QED
      BY <2>1, <3>1, <3>2, <3>3
  <2>2. CASE x.candidate # NoCandidate
    <3>1. InGroup(g, x).candidate = <<g, x.candidate>>
      BY <1>3, <2>2
    <3>2. <<g, x.candidate>> = <<h, c>> <=> h = g /\ x.candidate = c
      OBVIOUS
    <3>. QED
      BY <3>1, <3>2
  <2>. QED
    BY <2>1, <2>2
<1>. QED
  BY <1>3, <1>4, <1>5

LEMMA ListedMember ==
  ASSUME NEW place, NEW F, NEW ss, Lists(place, F, ss),
         NEW k \in 1..Len(F)
  PROVE  \E g \in 1..Len(ss) : \E p \in 1..Len(ss[g]) :
           place[k] = <<g, p>> /\ F[k] = ss[g][p]
<1>1. place[k] \in PlacesOf(ss) /\ F[k] = ss[place[k][1]][place[k][2]]
  BY DEF Lists
<1>2. PICK g \in 1..Len(ss) : place[k] \in {g} \X (1..Len(ss[g]))
  BY <1>1 DEF PlacesOf
<1>3. PICK p \in 1..Len(ss[g]) : place[k] = <<g, p>>
  BY <1>2
<1>. QED
  BY <1>1, <1>3

LEMMA MemberListed ==
  ASSUME NEW place, NEW F, NEW ss, Lists(place, F, ss),
         NEW g \in 1..Len(ss), NEW p \in 1..Len(ss[g])
  PROVE  \E k \in 1..Len(F) : place[k] = <<g, p>> /\ F[k] = ss[g][p]
<1>1. <<g, p>> \in PlacesOf(ss)
  BY DEF PlacesOf
<1>2. PICK k \in 1..Len(F) : place[k] = <<g, p>>
  BY <1>1 DEF Lists
<1>3. F[k] = ss[place[k][1]][place[k][2]]
  BY DEF Lists
<1>. QED
  BY <1>2, <1>3

\* Members put in one sequence, whose identifiers tell their places.
LEMMA JoinedMembers ==
  ASSUME NEW m \in 1..2, NEW S, NEW ss \in [1..m -> Seq(S)],
         \A g, h \in 1..m :
           \A p \in 1..Len(ss[g]) : \A q \in 1..Len(ss[h]) :
             ss[g][p].id = ss[h][q].id => g = h /\ p = q
  PROVE  LET F == FlattenSeq(ss)
         IN  /\ F \in Seq(S)
             /\ \A k \in 1..Len(F) : \E g \in 1..m :
                  \E p \in 1..Len(ss[g]) : F[k] = ss[g][p]
             /\ \A g \in 1..m : \A p \in 1..Len(ss[g]) :
                  \E k \in 1..Len(F) : F[k] = ss[g][p]
             /\ UniqueIds(F)
<1>. DEFINE F == FlattenSeq(ss)
<1>1. Len(ss) = m /\ F \in Seq(S) /\ \E place : Lists(place, F, ss)
  BY SequencesListed
<1>2. PICK place : Lists(place, F, ss)
  BY <1>1
<1>. HIDE DEF F
<1>3. \A k \in 1..Len(F) : \E g \in 1..m : \E p \in 1..Len(ss[g]) :
        place[k] = <<g, p>> /\ F[k] = ss[g][p]
  <2>. SUFFICES ASSUME NEW k \in 1..Len(F)
                PROVE  \E g \in 1..m : \E p \in 1..Len(ss[g]) :
                         place[k] = <<g, p>> /\ F[k] = ss[g][p]
    OBVIOUS
  <2>1. \E g \in 1..Len(ss) : \E p \in 1..Len(ss[g]) :
          place[k] = <<g, p>> /\ F[k] = ss[g][p]
    BY ONLY <1>2, k \in 1..Len(F), ListedMember
  <2>2. PICK g \in 1..Len(ss) : \E p \in 1..Len(ss[g]) :
          place[k] = <<g, p>> /\ F[k] = ss[g][p]
    BY <2>1
  <2>. QED
    BY <1>1, <2>2
<1>4. \A g \in 1..m : \A p \in 1..Len(ss[g]) :
        \E k \in 1..Len(F) : F[k] = ss[g][p]
  <2>. SUFFICES ASSUME NEW g \in 1..m, NEW p \in 1..Len(ss[g])
                PROVE  \E k \in 1..Len(F) : F[k] = ss[g][p]
    OBVIOUS
  <2>1. g \in 1..Len(ss)
    BY <1>1
  <2>. QED
    BY <1>2, <2>1, MemberListed
<1>5. UniqueIds(F)
  <2>. SUFFICES ASSUME NEW j \in 1..Len(F), NEW k \in 1..Len(F),
                       F[j].id = F[k].id
                PROVE  j = k
    BY DEF UniqueIds
  <2>1. PICK g \in 1..m : \E p \in 1..Len(ss[g]) :
          place[j] = <<g, p>> /\ F[j] = ss[g][p]
    BY <1>3
  <2>2. PICK p \in 1..Len(ss[g]) : place[j] = <<g, p>> /\ F[j] = ss[g][p]
    BY <2>1
  <2>3. PICK h \in 1..m : \E q \in 1..Len(ss[h]) :
          place[k] = <<h, q>> /\ F[k] = ss[h][q]
    BY <1>3
  <2>4. PICK q \in 1..Len(ss[h]) : place[k] = <<h, q>> /\ F[k] = ss[h][q]
    BY <2>3
  <2>5. g = h /\ p = q
    BY <2>2, <2>4
  <2>6. place[j] = place[k]
    BY <2>2, <2>4, <2>5
  <2>7. \A i, l \in 1..Len(F) : place[i] = place[l] => i = l
    BY <1>2 DEF Lists
  <2>. QED
    BY <2>6, <2>7
<1>6. \A k \in 1..Len(F) :
        \E g \in 1..m : \E p \in 1..Len(ss[g]) : F[k] = ss[g][p]
  <2>. SUFFICES ASSUME NEW k \in 1..Len(F)
                PROVE  \E g \in 1..m : \E p \in 1..Len(ss[g]) :
                         F[k] = ss[g][p]
    OBVIOUS
  <2>1. PICK g \in 1..m : \E p \in 1..Len(ss[g]) :
          place[k] = <<g, p>> /\ F[k] = ss[g][p]
    BY <1>3
  <2>. QED
    BY ONLY <2>1
<1>. QED
  BY ONLY <1>1, <1>4, <1>5, <1>6 DEF F

\* What an accepted part says of its problems and its candidates.
LEMMA PartSays ==
  ASSUME NEW out, AcceptedPart(out)
  PROVE  /\ Len(out.problems) \in Nat \ {0}
         /\ UniqueIds(out.problems) /\ UniqueIds(out.candidates)
         /\ \A p \in 1..Len(out.problems) :
              /\ out.problems[p] \in PartProblem
              /\ out.problems[p].experiences # {}
              /\ out.problems[p].candidate # NoCandidate =>
                   \E c \in 1..Len(out.candidates) :
                     out.candidates[c].id = out.problems[p].candidate
         /\ \A c \in 1..Len(out.candidates) :
              /\ out.candidates[c] \in PartCandidate
              /\ \E p \in 1..Len(out.problems) :
                   /\ \A q \in 1..Len(out.problems) :
                        out.problems[q].candidate = out.candidates[c].id
                          <=> q = p
                   /\ out.candidates[c].experiences
                        \subseteq out.problems[p].experiences
<1>1. /\ out.problems \in Seq(PartProblem)
      /\ out.candidates \in Seq(PartCandidate)
      /\ ValidAdjustment(out)
  BY DEF AcceptedPart
<1>. HIDE DEF PartProblem, PartCandidate
<1>2. Len(out.problems) \in Nat \ {0}
  BY <1>1 DEF ValidAdjustment
<1>3. ASSUME NEW c \in 1..Len(out.candidates)
      PROVE  \E p \in 1..Len(out.problems) :
               /\ \A q \in 1..Len(out.problems) :
                    out.problems[q].candidate = out.candidates[c].id
                      <=> q = p
               /\ out.candidates[c].experiences
                    \subseteq out.problems[p].experiences
  <2>1. PICK p \in 1..Len(out.problems) :
          /\ ProblemsOf(out, out.candidates[c].id) = {p}
          /\ out.candidates[c].experiences
               \subseteq out.problems[p].experiences
    BY <1>1 DEF ValidAdjustment
  <2>. QED
    BY <2>1 DEF ProblemsOf
<1>4. \A p \in 1..Len(out.problems) :
        /\ out.problems[p] \in PartProblem
        /\ out.problems[p].experiences # {}
        /\ out.problems[p].candidate # NoCandidate =>
             \E c \in 1..Len(out.candidates) :
               out.candidates[c].id = out.problems[p].candidate
  BY <1>1 DEF ValidAdjustment
<1>5. \A c \in 1..Len(out.candidates) : out.candidates[c] \in PartCandidate
  BY <1>1
<1>6. UniqueIds(out.problems) /\ UniqueIds(out.candidates)
  BY <1>1 DEF ValidAdjustment
<1>. QED
  BY <1>2, <1>3, <1>4, <1>5, <1>6

\* A candidate keeps its experiences, and its identifier in its group.
LEMMA GroupedCandidate ==
  ASSUME NEW g \in Nat, NEW x \in PartCandidate
  PROVE  /\ CandidateInGroup(g, x) \in JoinedCandidate
         /\ CandidateInGroup(g, x).id = <<g, x.id>>
         /\ CandidateInGroup(g, x).experiences = x.experiences
         /\ x.id \in Nat
<1>1. x.id \in Nat /\ x.experiences \in SUBSET Experiences
  BY DEF PartCandidate
<1>. QED
  BY <1>1 DEF CandidateInGroup, JoinedCandidate

\* The problems of the parts in one sequence: each is a problem of a part,
\* with its group's name in front.
LEMMA ProblemsListed ==
  ASSUME NEW outputs, Len(outputs) \in 1..2, Sortable(outputs),
         \A g \in 1..Len(outputs) : AcceptedPart(outputs[g])
  PROVE  LET P == ProblemsInGroups(outputs)
             of(g) == outputs[g].problems
         IN  /\ P \in Seq(JoinedProblem)
             /\ \A k \in 1..Len(P) :
                  \E g \in 1..Len(outputs) : \E p \in 1..Len(of(g)) :
                    P[k] = InGroup(g, of(g)[p])
             /\ \A g \in 1..Len(outputs) : \A p \in 1..Len(of(g)) :
                  \E k \in 1..Len(P) : P[k] = InGroup(g, of(g)[p])
             /\ UniqueIds(P)
<1>. DEFINE of(g) == outputs[g].problems
            ss == [g \in 1..Len(outputs) |->
                     [p \in 1..Len(of(g)) |-> InGroup(g, of(g)[p])]]
<1>1. PICK m \in 1..2 : m = Len(outputs)
  OBVIOUS
<1>2. FlattenSeq(ss) = ProblemsInGroups(outputs)
  BY DEF ProblemsInGroups
<1>3. ASSUME NEW g \in 1..m
      PROVE  /\ Len(of(g)) \in Nat
             /\ ss[g] = [p \in 1..Len(of(g)) |-> InGroup(g, of(g)[p])]
  BY <1>1, PartSays
<1>4. ASSUME NEW g \in 1..m, NEW p \in 1..Len(of(g))
      PROVE  /\ g \in Nat /\ of(g)[p] \in PartProblem
             /\ InGroup(g, of(g)[p]) \in JoinedProblem
             /\ InGroup(g, of(g)[p]).id = <<g, of(g)[p].id>>
  <2>1. g \in Nat /\ of(g)[p] \in PartProblem
    BY <1>1, PartSays
  <2>2. of(g)[p].priority \in Int
    <3>1. of(g)[p].priority # NotANumber
      BY <1>1 DEF Sortable
    <3>2. of(g)[p].priority \in Int \union {NotANumber}
      BY <2>1 DEF PartProblem
    <3>. QED
      BY <3>1, <3>2
  <2>. HIDE DEF of
  <2>. QED
    BY <2>1, <2>2, GroupedProblem
<1>5. ASSUME NEW g \in 1..m
      PROVE  ss[g] \in Seq(JoinedProblem) /\ Len(ss[g]) = Len(of(g))
  <2>. HIDE DEF ss, of, JoinedProblem
  <2>1. ss[g] \in [1..Len(of(g)) -> JoinedProblem]
    BY <1>3, <1>4
  <2>. QED
    BY <1>3, <2>1, SequenceOf
<1>6. ss \in [1..m -> Seq(JoinedProblem)]
  <2>1. ss = [g \in 1..m |-> ss[g]]
    BY <1>1
  <2>. HIDE DEF ss, JoinedProblem
  <2>. QED
    BY <1>5, <2>1
<1>. HIDE DEF ss
<1>7. \A g \in 1..m : \A p \in 1..Len(of(g)) :
        ss[g][p] = InGroup(g, of(g)[p])
  BY <1>3
<1>8. ASSUME NEW g \in 1..m, NEW h \in 1..m,
             NEW p \in 1..Len(ss[g]), NEW q \in 1..Len(ss[h]),
             ss[g][p].id = ss[h][q].id
      PROVE  g = h /\ p = q
  <2>1. p \in 1..Len(of(g)) /\ q \in 1..Len(of(h))
    BY <1>5
  <2>2. <<g, of(g)[p].id>> = <<h, of(h)[q].id>>
    <3>. HIDE DEF of
    <3>. QED
      BY <1>4, <1>7, <1>8, <2>1
  <2>3. g = h /\ of(g)[p].id = of(g)[q].id
    <3>. HIDE DEF of
    <3>. QED
      BY <2>2
  <2>. QED
    BY <1>1, <2>1, <2>3, PartSays DEF UniqueIds
<1>. DEFINE P == FlattenSeq(ss)
<1>9. /\ P \in Seq(JoinedProblem)
      /\ \A k \in 1..Len(P) : \E g \in 1..m : \E p \in 1..Len(ss[g]) :
           P[k] = ss[g][p]
      /\ \A g \in 1..m : \A p \in 1..Len(ss[g]) :
           \E k \in 1..Len(P) : P[k] = ss[g][p]
      /\ UniqueIds(P)
  <2>. HIDE DEF JoinedProblem
  <2>. QED
    BY <1>6, <1>8, JoinedMembers
<1>. HIDE DEF P, of
<1>10. \A k \in 1..Len(P) : \E g \in 1..m : \E p \in 1..Len(of(g)) :
         P[k] = InGroup(g, of(g)[p])
  <2>. SUFFICES ASSUME NEW k \in 1..Len(P)
                PROVE  \E g \in 1..m : \E p \in 1..Len(of(g)) :
                         P[k] = InGroup(g, of(g)[p])
    OBVIOUS
  <2>1. PICK g \in 1..m : \E p \in 1..Len(ss[g]) : P[k] = ss[g][p]
    BY <1>9
  <2>2. Len(ss[g]) = Len(of(g))
    BY <1>5
  <2>. QED
    BY <1>7, <2>1, <2>2
<1>11. \A g \in 1..m : \A p \in 1..Len(of(g)) :
         \E k \in 1..Len(P) : P[k] = InGroup(g, of(g)[p])
  BY <1>5, <1>7, <1>9
<1>12. P = ProblemsInGroups(outputs)
  BY <1>2 DEF P
<1>. HIDE DEF JoinedProblem
<1>. QED
  BY <1>1, <1>9, <1>10, <1>11, <1>12 DEF of

\* The candidates of the parts in one sequence.
LEMMA CandidatesListed ==
  ASSUME NEW outputs, Len(outputs) \in 1..2,
         \A g \in 1..Len(outputs) : AcceptedPart(outputs[g])
  PROVE  LET C == CandidatesInGroups(outputs)
             of(g) == outputs[g].candidates
         IN  /\ C \in Seq(JoinedCandidate)
             /\ \A k \in 1..Len(C) :
                  \E g \in 1..Len(outputs) : \E c \in 1..Len(of(g)) :
                    C[k] = CandidateInGroup(g, of(g)[c])
             /\ \A g \in 1..Len(outputs) : \A c \in 1..Len(of(g)) :
                  \E k \in 1..Len(C) : C[k] = CandidateInGroup(g, of(g)[c])
             /\ UniqueIds(C)
<1>. DEFINE of(g) == outputs[g].candidates
            ss == [g \in 1..Len(outputs) |->
                     [c \in 1..Len(of(g)) |-> CandidateInGroup(g, of(g)[c])]]
<1>1. PICK m \in 1..2 : m = Len(outputs)
  OBVIOUS
<1>2. FlattenSeq(ss) = CandidatesInGroups(outputs)
  BY DEF CandidatesInGroups
<1>3. ASSUME NEW g \in 1..m
      PROVE  /\ Len(of(g)) \in Nat
             /\ ss[g] = [c \in 1..Len(of(g)) |-> CandidateInGroup(g, of(g)[c])]
  BY <1>1, PartSays
<1>4. ASSUME NEW g \in 1..m, NEW c \in 1..Len(of(g))
      PROVE  /\ g \in Nat /\ of(g)[c] \in PartCandidate
             /\ CandidateInGroup(g, of(g)[c]) \in JoinedCandidate
             /\ CandidateInGroup(g, of(g)[c]).id = <<g, of(g)[c].id>>
  <2>1. g \in Nat /\ of(g)[c] \in PartCandidate
    BY <1>1, PartSays
  <2>. HIDE DEF of
  <2>. QED
    BY <2>1, GroupedCandidate
<1>5. ASSUME NEW g \in 1..m
      PROVE  ss[g] \in Seq(JoinedCandidate) /\ Len(ss[g]) = Len(of(g))
  <2>. HIDE DEF ss, of, JoinedCandidate
  <2>1. ss[g] \in [1..Len(of(g)) -> JoinedCandidate]
    BY <1>3, <1>4
  <2>. QED
    BY <1>3, <2>1, SequenceOf
<1>6. ss \in [1..m -> Seq(JoinedCandidate)]
  <2>1. ss = [g \in 1..m |-> ss[g]]
    BY <1>1
  <2>. HIDE DEF ss, JoinedCandidate
  <2>. QED
    BY <1>5, <2>1
<1>. HIDE DEF ss
<1>7. \A g \in 1..m : \A c \in 1..Len(of(g)) :
        ss[g][c] = CandidateInGroup(g, of(g)[c])
  BY <1>3
<1>8. ASSUME NEW g \in 1..m, NEW h \in 1..m,
             NEW c \in 1..Len(ss[g]), NEW q \in 1..Len(ss[h]),
             ss[g][c].id = ss[h][q].id
      PROVE  g = h /\ c = q
  <2>1. c \in 1..Len(of(g)) /\ q \in 1..Len(of(h))
    BY <1>5
  <2>2. <<g, of(g)[c].id>> = <<h, of(h)[q].id>>
    <3>. HIDE DEF of
    <3>. QED
      BY <1>4, <1>7, <1>8, <2>1
  <2>3. g = h /\ of(g)[c].id = of(g)[q].id
    <3>. HIDE DEF of
    <3>. QED
      BY <2>2
  <2>. QED
    BY <1>1, <2>1, <2>3, PartSays DEF UniqueIds
<1>. DEFINE C == FlattenSeq(ss)
<1>9. /\ C \in Seq(JoinedCandidate)
      /\ \A k \in 1..Len(C) : \E g \in 1..m : \E c \in 1..Len(ss[g]) :
           C[k] = ss[g][c]
      /\ \A g \in 1..m : \A c \in 1..Len(ss[g]) :
           \E k \in 1..Len(C) : C[k] = ss[g][c]
      /\ UniqueIds(C)
  <2>. HIDE DEF JoinedCandidate
  <2>. QED
    BY <1>6, <1>8, JoinedMembers
<1>. HIDE DEF C, of
<1>10. \A k \in 1..Len(C) : \E g \in 1..m : \E c \in 1..Len(of(g)) :
         C[k] = CandidateInGroup(g, of(g)[c])
  <2>. SUFFICES ASSUME NEW k \in 1..Len(C)
                PROVE  \E g \in 1..m : \E c \in 1..Len(of(g)) :
                         C[k] = CandidateInGroup(g, of(g)[c])
    OBVIOUS
  <2>1. PICK g \in 1..m : \E c \in 1..Len(ss[g]) : C[k] = ss[g][c]
    BY <1>9
  <2>2. Len(ss[g]) = Len(of(g))
    BY <1>5
  <2>. QED
    BY <1>7, <2>1, <2>2
<1>11. \A g \in 1..m : \A c \in 1..Len(of(g)) :
         \E k \in 1..Len(C) : C[k] = CandidateInGroup(g, of(g)[c])
  BY <1>5, <1>7, <1>9
<1>12. C = CandidatesInGroups(outputs)
  BY <1>2 DEF C
<1>. HIDE DEF JoinedCandidate
<1>. QED
  BY <1>1, <1>9, <1>10, <1>11, <1>12 DEF of

\* Accepted parts are accepted in one: no two problems share a name, and
\* every candidate keeps its one problem.
LEMMA JoinedIsAccepted ==
  ASSUME NEW outputs, Len(outputs) \in 1..2, Sortable(outputs),
         \A g \in 1..Len(outputs) : AcceptedPart(outputs[g])
  PROVE  /\ ProblemsInGroups(outputs) \in Seq(JoinedProblem)
         /\ CandidatesInGroups(outputs) \in Seq(JoinedCandidate)
         /\ Accepted(ProblemsInGroups(outputs), CandidatesInGroups(outputs))
<1>. DEFINE P == ProblemsInGroups(outputs)
            C == CandidatesInGroups(outputs)
            prob(g) == outputs[g].problems
            cand(g) == outputs[g].candidates
<1>1. PICK m \in 1..2 : m = Len(outputs)
  OBVIOUS
<1>2. /\ P \in Seq(JoinedProblem)
      /\ \A k \in 1..Len(P) : \E g \in 1..m : \E p \in 1..Len(prob(g)) :
           P[k] = InGroup(g, prob(g)[p])
      /\ \A g \in 1..m : \A p \in 1..Len(prob(g)) :
           \E k \in 1..Len(P) : P[k] = InGroup(g, prob(g)[p])
      /\ UniqueIds(P)
  BY <1>1, ProblemsListed
<1>3. /\ C \in Seq(JoinedCandidate)
      /\ \A k \in 1..Len(C) : \E g \in 1..m : \E c \in 1..Len(cand(g)) :
           C[k] = CandidateInGroup(g, cand(g)[c])
      /\ \A g \in 1..m : \A c \in 1..Len(cand(g)) :
           \E k \in 1..Len(C) : C[k] = CandidateInGroup(g, cand(g)[c])
      /\ UniqueIds(C)
  BY <1>1, CandidatesListed
<1>4. ASSUME NEW g \in 1..m
      PROVE  /\ g \in Nat /\ Len(prob(g)) \in Nat \ {0}
             /\ \A p \in 1..Len(prob(g)) :
                  /\ prob(g)[p] \in PartProblem
                  /\ prob(g)[p].experiences # {}
                  /\ prob(g)[p].candidate # NoCandidate =>
                       \E c \in 1..Len(cand(g)) :
                         cand(g)[c].id = prob(g)[p].candidate
             /\ \A c \in 1..Len(cand(g)) :
                  /\ cand(g)[c] \in PartCandidate
                  /\ \E p \in 1..Len(prob(g)) :
                       /\ \A q \in 1..Len(prob(g)) :
                            prob(g)[q].candidate = cand(g)[c].id <=> q = p
                       /\ cand(g)[c].experiences
                            \subseteq prob(g)[p].experiences
  <2>. HIDE DEF PartProblem, PartCandidate
  <2>1. AcceptedPart(outputs[g]) /\ g \in Nat
    BY <1>1
  <2>. QED
    BY ONLY <2>1, PartSays
<1>5. ASSUME NEW g \in 1..m, NEW p \in 1..Len(prob(g))
      PROVE  prob(g)[p].priority \in Int
  <2>1. prob(g)[p].priority # NotANumber
    BY <1>1 DEF Sortable
  <2>2. prob(g)[p].priority \in Int \union {NotANumber}
    BY <1>4 DEF PartProblem
  <2>. QED
    BY <2>1, <2>2
<1>. HIDE DEF P, C, prob, cand, PartProblem, PartCandidate
<1>6. ASSUME NEW g \in 1..m, NEW p \in 1..Len(prob(g))
      PROVE  /\ InGroup(g, prob(g)[p]).experiences = prob(g)[p].experiences
             /\ \A h, c \in Nat :
                  InGroup(g, prob(g)[p]).candidate = <<h, c>> <=>
                    h = g /\ prob(g)[p].candidate = c
             /\ InGroup(g, prob(g)[p]).candidate # NoCandidate =>
                  /\ prob(g)[p].candidate # NoCandidate
                  /\ InGroup(g, prob(g)[p]).candidate =
                       <<g, prob(g)[p].candidate>>
  <2>1. g \in Nat /\ prob(g)[p] \in PartProblem
          /\ prob(g)[p].priority \in Int
    BY <1>4, <1>5
  <2>. QED
    BY ONLY <2>1, GroupedProblem
<1>7. ASSUME NEW g \in 1..m, NEW c \in 1..Len(cand(g))
      PROVE  LET x == cand(g)[c]
             IN  /\ CandidateInGroup(g, x).id = <<g, x.id>>
                 /\ CandidateInGroup(g, x).experiences = x.experiences
                 /\ x.id \in Nat
  BY <1>4, GroupedCandidate
<1>8. Len(P) # 0
  <2>1. 1 \in 1..m /\ 1 \in 1..Len(prob(1))
    BY <1>4
  <2>2. \E k \in 1..Len(P) : TRUE
    BY <1>2, <2>1
  <2>. QED
    BY <2>2
<1>9. ASSUME NEW k \in 1..Len(P)
      PROVE  /\ P[k].experiences # {}
             /\ P[k].experiences \subseteq Experiences
             /\ P[k].candidate # NoCandidate =>
                  \E l \in 1..Len(C) : C[l].id = P[k].candidate
  <2>1. PICK g \in 1..m : \E p \in 1..Len(prob(g)) :
          P[k] = InGroup(g, prob(g)[p])
    BY <1>2
  <2>2. PICK p \in 1..Len(prob(g)) : P[k] = InGroup(g, prob(g)[p])
    BY <2>1
  <2>3. P[k].experiences # {}
    BY <1>4, <1>6, <2>2
  <2>4. P[k].experiences \subseteq Experiences
    <3>1. P[k] \in JoinedProblem
      BY <1>2
    <3>. QED
      BY <3>1 DEF JoinedProblem
  <2>5. ASSUME P[k].candidate # NoCandidate
        PROVE  \E l \in 1..Len(C) : C[l].id = P[k].candidate
    <3>1. /\ prob(g)[p].candidate # NoCandidate
          /\ P[k].candidate = <<g, prob(g)[p].candidate>>
      <4>1. InGroup(g, prob(g)[p]).candidate # NoCandidate
        BY <2>2, <2>5
      <4>2. /\ prob(g)[p].candidate # NoCandidate
            /\ InGroup(g, prob(g)[p]).candidate =
                 <<g, prob(g)[p].candidate>>
        BY ONLY <1>6, <4>1
      <4>. QED
        BY ONLY <2>2, <4>2
    <3>2. PICK c \in 1..Len(cand(g)) :
            cand(g)[c].id = prob(g)[p].candidate
      BY <1>4, <3>1
    <3>3. PICK l \in 1..Len(C) : C[l] = CandidateInGroup(g, cand(g)[c])
      BY <1>3
    <3>. QED
      BY <1>7, <3>1, <3>2, <3>3
  <2>. QED
    BY <2>3, <2>4, <2>5
<1>10. ASSUME NEW l \in 1..Len(C)
       PROVE  \E k \in 1..Len(P) :
                /\ \A j \in 1..Len(P) : P[j].candidate = C[l].id <=> j = k
                /\ C[l].experiences \subseteq P[k].experiences
  <2>1. PICK g \in 1..m : \E c \in 1..Len(cand(g)) :
          C[l] = CandidateInGroup(g, cand(g)[c])
    BY <1>3
  <2>2. PICK c \in 1..Len(cand(g)) : C[l] = CandidateInGroup(g, cand(g)[c])
    BY <2>1
  <2>3. /\ C[l].id = <<g, cand(g)[c].id>>
        /\ C[l].experiences = cand(g)[c].experiences
        /\ cand(g)[c].id \in Nat
    BY <1>7, <2>2
  <2>4. PICK p \in 1..Len(prob(g)) :
          /\ \A q \in 1..Len(prob(g)) :
               prob(g)[q].candidate = cand(g)[c].id <=> q = p
          /\ cand(g)[c].experiences \subseteq prob(g)[p].experiences
    BY <1>4
  <2>5. PICK k \in 1..Len(P) : P[k] = InGroup(g, prob(g)[p])
    BY <1>2
  <2>6. C[l].experiences \subseteq P[k].experiences
    BY <1>6, <2>3, <2>4, <2>5
  <2>7. P[k].candidate = C[l].id
    <3>1. prob(g)[p].candidate = cand(g)[c].id
      BY <2>4
    <3>2. g \in Nat /\ cand(g)[c].id \in Nat
      BY <1>4, <2>3
    <3>3. InGroup(g, prob(g)[p]).candidate = <<g, cand(g)[c].id>>
      <4>1. \A h, d \in Nat :
              InGroup(g, prob(g)[p]).candidate = <<h, d>> <=>
                h = g /\ prob(g)[p].candidate = d
        BY ONLY <1>6
      <4>. QED
        BY ONLY <3>1, <3>2, <4>1
    <3>. QED
      BY <2>3, <2>5, <3>3
  <2>8. ASSUME NEW j \in 1..Len(P), P[j].candidate = C[l].id
        PROVE  j = k
    <3>1. PICK h \in 1..m : \E q \in 1..Len(prob(h)) :
            P[j] = InGroup(h, prob(h)[q])
      BY <1>2
    <3>2. PICK q \in 1..Len(prob(h)) : P[j] = InGroup(h, prob(h)[q])
      BY <3>1
    <3>3. g = h /\ prob(h)[q].candidate = cand(g)[c].id
      <4>1. g \in Nat /\ cand(g)[c].id \in Nat
        BY <1>4, <2>3
      <4>2. InGroup(h, prob(h)[q]).candidate = <<g, cand(g)[c].id>>
        BY <2>3, <2>8, <3>2
      <4>. QED
        BY <1>6, <4>1, <4>2
    <3>4. q = p
      BY <2>4, <3>3
    <3>5. P[j].id = P[k].id
      BY <2>5, <3>2, <3>3, <3>4
    <3>. QED
      BY <1>2, <3>5 DEF UniqueIds
  <2>. QED
    BY <2>6, <2>7, <2>8
<1>11. Accepted(P, C)
  BY ONLY <1>2, <1>3, <1>8, <1>9, <1>10 DEF Accepted
<1>. QED
  BY <1>2, <1>3, <1>11 DEF P, C

\* What a session of the adjustment side is accepted to return is a part.
LEMMA PartIsAccepted ==
  ASSUME NEW members \in SUBSET Experiences,
         NEW o \in AdjustmentOutputs(members)
  PROVE  AcceptedPart(o) /\ o.expected = members
<1>. DEFINE X == [priority : Priorities, candidate : Owners]
<1>1. /\ ValidAdjustment(o) /\ o.expected = members
      /\ o.problems \in {[p \in DOMAIN s |->
           [id |-> p, priority |-> s[p].priority,
            candidate |-> s[p].candidate, experiences |-> members]] :
           s \in SeqsUpTo(X, 2)}
      /\ o.candidates \in {[c \in DOMAIN s |->
           [id |-> s[c], experiences |-> members]] :
           s \in {<<>>, <<1>>, <<2>>, <<1, 2>>, <<2, 1>>}}
  BY DEF AdjustmentOutputs
<1>2. o.problems \in Seq(PartProblem)
  <2>. HIDE DEF X
  <2>1. PICK s \in SeqsUpTo(X, 2) :
          o.problems = [p \in DOMAIN s |->
            [id |-> p, priority |-> s[p].priority,
             candidate |-> s[p].candidate, experiences |-> members]]
    BY <1>1
  <2>2. s \in Seq(X) /\ Len(s) \in 1..2
    BY ShortSequence
  <2>3. PICK n \in Nat : n = Len(s)
    BY <2>2
  <2>4. DOMAIN s = 1..n /\ \A p \in 1..n : s[p] \in X
    BY <2>2, <2>3
  <2>5. ASSUME NEW p \in 1..n
        PROVE  [id |-> p, priority |-> s[p].priority,
                candidate |-> s[p].candidate, experiences |-> members]
                 \in PartProblem
    <3>1. s[p].priority \in Priorities /\ s[p].candidate \in Owners
      BY <2>4 DEF X
    <3>2. /\ s[p].priority \in Int \union {NotANumber}
          /\ s[p].candidate \in Nat \union {NoCandidate}
      <4>1. Owners \subseteq Nat \union {NoCandidate}
        BY DEF Owners
      <4>. HIDE DEF Owners
      <4>. QED
        BY <3>1, <4>1, PriorityAssumption
    <3>. QED
      BY <3>2 DEF PartProblem
  <2>6. o.problems \in [1..n -> PartProblem]
    <3>. HIDE DEF PartProblem
    <3>. QED
      BY <2>1, <2>4, <2>5
  <2>. QED
    BY <2>6, SequenceOf
<1>3. o.candidates \in Seq(PartCandidate)
  <2>1. PICK s \in {<<>>, <<1>>, <<2>>, <<1, 2>>, <<2, 1>>} :
          o.candidates =
            [c \in DOMAIN s |-> [id |-> s[c], experiences |-> members]]
    BY <1>1
  <2>2. \E n \in Nat : DOMAIN s = 1..n /\ \A c \in 1..n : s[c] \in Nat
    <3>1. CASE s = <<>>
      <4>1. DOMAIN s = 1..0
        BY <3>1
      <4>. QED
        BY <4>1
    <3>2. CASE s \in {<<1>>, <<2>>}
      <4>1. DOMAIN s = 1..1 /\ s[1] \in Nat
        BY <3>2
      <4>. QED
        BY <4>1
    <3>3. CASE s \in {<<1, 2>>, <<2, 1>>}
      <4>1. DOMAIN s = 1..2 /\ s[1] \in Nat /\ s[2] \in Nat
        BY <3>3
      <4>2. \A c \in 1..2 : c = 1 \/ c = 2
        OBVIOUS
      <4>. QED
        BY <4>1, <4>2
    <3>. QED
      BY <3>1, <3>2, <3>3
  <2>3. PICK n \in Nat : DOMAIN s = 1..n /\ \A c \in 1..n : s[c] \in Nat
    BY <2>2
  <2>4. o.candidates \in [1..n -> PartCandidate]
    BY ONLY <2>1, <2>3, members \in SUBSET Experiences DEF PartCandidate
  <2>. QED
    BY <2>4, SequenceOf
<1>. QED
  BY <1>1, <1>2, <1>3 DEF AcceptedPart

\* The parts are one or two, and are about all of the experiences.
LEMMA PartsAreAccepted ==
  ASSUME NEW outputs \in AdjustmentParts
  PROVE  /\ Len(outputs) \in 1..2
         /\ \A g \in 1..Len(outputs) : AcceptedPart(outputs[g])
         /\ UNION {outputs[g].expected : g \in DOMAIN outputs} = Experiences
<1>1. CASE outputs \in {<<o>> : o \in AdjustmentOutputs(Experiences)}
  <2>1. PICK o \in AdjustmentOutputs(Experiences) : outputs = <<o>>
    BY <1>1
  <2>2. AcceptedPart(o) /\ o.expected = Experiences
    BY PartIsAccepted
  <2>3. /\ Len(outputs) = 1 /\ DOMAIN outputs = {1} /\ outputs[1] = o
        /\ 1..Len(outputs) = {1}
    BY <2>1
  <2>4. {outputs[g].expected : g \in DOMAIN outputs} = {Experiences}
    BY <2>2, <2>3
  <2>. QED
    BY <2>2, <2>3, <2>4
<1>2. CASE ~ (outputs \in {<<o>> : o \in AdjustmentOutputs(Experiences)})
  <2>. DEFINE e == CHOOSE e \in Experiences : TRUE
  <2>1. outputs \in {<<a, b>> : a \in AdjustmentOutputs({e}),
                                b \in AdjustmentOutputs(Experiences \ {e})}
    BY <1>2 DEF AdjustmentParts
  <2>2. PICK a \in AdjustmentOutputs({e}),
             b \in AdjustmentOutputs(Experiences \ {e}) :
          outputs = <<a, b>>
    <3>. HIDE DEF e
    <3>. QED
      BY <2>1
  <2>. HIDE DEF e
  <2>3. AcceptedPart(b) /\ b.expected = Experiences \ {e}
    BY PartIsAccepted
  <2>4. e \in Experiences
    <3>1. 1 \in 1..Len(b.problems) /\ b.problems[1].experiences # {}
      BY <2>3, PartSays
    <3>2. b.problems[1].experiences \subseteq b.expected
      BY <2>3, <3>1 DEF AcceptedPart, ValidAdjustment
    <3>. QED
      BY <2>3, <3>1, <3>2 DEF e
  <2>5. AcceptedPart(a) /\ a.expected = {e}
    BY <2>4, PartIsAccepted
  <2>6. /\ Len(outputs) = 2 /\ DOMAIN outputs = {1, 2}
        /\ outputs[1] = a /\ outputs[2] = b /\ 1..Len(outputs) = {1, 2}
    BY <2>2
  <2>7. {outputs[g].expected : g \in DOMAIN outputs} =
        {{e}, Experiences \ {e}}
    BY <2>3, <2>5, <2>6
  <2>8. UNION {{e}, Experiences \ {e}} = Experiences
    BY <2>4
  <2>. QED
    BY <2>3, <2>5, <2>6, <2>7, <2>8
<1>. QED
  BY <1>1, <1>2

\* Accepted parts of the adjustment side pass when they are joined.
LEMMA JoinedAdjustment ==
  ASSUME NEW outputs \in AdjustmentParts, Sortable(outputs)
  PROVE  LET out == CombineAdjustment(outputs,
                      {outputs[g].expected : g \in DOMAIN outputs})
         IN  /\ ValidAdjustment(out)
             /\ \A p \in 1..Len(out.problems) : out.problems[p].priority = p
             /\ \A c, d \in 1..Len(out.candidates) :
                  /\ \E p \in 1..Len(out.problems) :
                       /\ out.problems[p].priority =
                            out.candidates[c].priority
                       /\ out.problems[p].candidate = out.candidates[c].id
                  /\ c < d => out.candidates[c].priority <
                                out.candidates[d].priority
<1>. DEFINE out == CombineAdjustment(outputs,
                     {outputs[g].expected : g \in DOMAIN outputs})
            P == ProblemsInGroups(outputs)
            C == CandidatesInGroups(outputs)
            Q == Ranked(P)
            D == InRankOrder(C, Q)
<1>1. /\ Len(outputs) \in 1..2
      /\ \A g \in 1..Len(outputs) : AcceptedPart(outputs[g])
      /\ UNION {outputs[g].expected : g \in DOMAIN outputs} = Experiences
  BY PartsAreAccepted
<1>2. out = Whole(Q, D)
  BY <1>1 DEF CombineAdjustment, Whole
<1>3. /\ P \in Seq(JoinedProblem) /\ C \in Seq(JoinedCandidate)
      /\ Accepted(P, C)
  BY <1>1, JoinedIsAccepted
<1>. HIDE DEF P, C, JoinedProblem, JoinedCandidate
<1>4. /\ Q \in Seq(JoinedProblem) /\ Accepted(Q, C)
      /\ \A p \in 1..Len(Q) : Q[p].priority = p
  BY <1>3, RankedIsAccepted
<1>. HIDE DEF Q
<1>5. Len(Q) \in Nat
  BY <1>4
<1>6. /\ Accepted(Q, D)
      /\ \A c \in 1..Len(D) : \E p \in 1..Len(Q) :
           D[c].priority = p /\ Q[p].candidate = D[c].id
      /\ \A c, d \in 1..Len(D) : c < d => D[c].priority < D[d].priority
  BY <1>3, <1>4, <1>5, OrderedIsAccepted
<1>. HIDE DEF D, out
<1>7. ValidAdjustment(out)
  BY <1>2, <1>4, <1>6, AcceptedIsValid
<1>8. out.problems = Q /\ out.candidates = D
  BY <1>2 DEF Whole
<1>9. \A c, d \in 1..Len(D) :
        /\ \E p \in 1..Len(Q) :
             Q[p].priority = D[c].priority /\ Q[p].candidate = D[c].id
        /\ c < d => D[c].priority < D[d].priority
  BY <1>4, <1>6
<1>. QED
  BY <1>4, <1>7, <1>8, <1>9 DEF out

\* No accepted part names a candidate it does not have.
LEMMA PartsResolve ==
  ASSUME NEW outputs \in AdjustmentParts
  PROVE  Resolvable(outputs)
<1>. SUFFICES ASSUME NEW g \in 1..Len(outputs),
                     NEW p \in 1..Len(outputs[g].problems),
                     outputs[g].problems[p].candidate # NoCandidate
              PROVE  \E c \in 1..Len(outputs[g].candidates) :
                       outputs[g].candidates[c].id =
                         outputs[g].problems[p].candidate
  BY DEF Resolvable
<1>1. ValidAdjustment(outputs[g])
  BY PartsAreAccepted DEF AcceptedPart
<1>. QED
  BY <1>1 DEF ValidAdjustment

\* An error of the combination is a priority that is not a number.
LEMMA RaisesForPriorities ==
  ASSUME NEW outputs \in AdjustmentParts, CombinationRaises(outputs)
  PROVE  \E g \in 1..Len(outputs) : \E p \in 1..Len(outputs[g].problems) :
           outputs[g].problems[p].priority = NotANumber
  BY PartsResolve DEF CombinationRaises, Sortable

\* Combining accepted parts of the adjustment side is either accepted by the
\* validator that looks at the result (combine_adjustment_outputs), or ends
\* with the error of int() on a priority.
THEOREM AdjustmentsCombine ==
  Spec => [](AdjustmentIsAccepted /\ RaisedForPrioritiesOnly)
<1>. DEFINE Inv == AdjustmentIsAccepted /\ RaisedForPrioritiesOnly
<1>1. Init => Inv
  BY DEF Init, AdjustmentIsAccepted, RaisedForPrioritiesOnly
<1>2. Inv /\ [Next]_vars => Inv'
  <2>. SUFFICES ASSUME Inv, [Next]_vars PROVE Inv'
    OBVIOUS
  <2>1. CASE UNCHANGED vars
    BY <2>1 DEF AdjustmentIsAccepted, RaisedForPrioritiesOnly, vars
  <2>2. CASE JoinAdjustment
    <3>1. PICK outputs \in AdjustmentParts :
            IF CombinationRaises(outputs)
              THEN op' = "adjustment_raised" /\ given' = outputs
              ELSE /\ op' = "adjustment"
                   /\ made' = CombineAdjustment(outputs,
                        {outputs[g].expected : g \in DOMAIN outputs})
      BY <2>2 DEF JoinAdjustment, Do
    <3>2. CASE CombinationRaises(outputs)
      BY <3>1, <3>2, RaisesForPriorities
      DEF AdjustmentIsAccepted, RaisedForPrioritiesOnly
    <3>3. CASE ~ CombinationRaises(outputs)
      <4>1. Sortable(outputs)
        BY <3>3 DEF CombinationRaises
      <4>2. op' = "adjustment"
        BY <3>1, <3>3
      <4>. DEFINE out == CombineAdjustment(outputs,
                           {outputs[g].expected : g \in DOMAIN outputs})
      <4>3. made' = out
        BY <3>1, <3>3
      <4>4. /\ ValidAdjustment(out)
            /\ \A p \in 1..Len(out.problems) : out.problems[p].priority = p
            /\ \A c, d \in 1..Len(out.candidates) :
                 /\ \E p \in 1..Len(out.problems) :
                      /\ out.problems[p].priority = out.candidates[c].priority
                      /\ out.problems[p].candidate = out.candidates[c].id
                 /\ c < d => out.candidates[c].priority <
                               out.candidates[d].priority
        BY <4>1, JoinedAdjustment
      <4>. HIDE DEF out
      <4>. QED
        BY <4>2, <4>3, <4>4
        DEF AdjustmentIsAccepted, RaisedForPrioritiesOnly
    <3>. QED
      BY <3>2, <3>3
  <2>3. CASE Next /\ ~ JoinAdjustment
    <3>1. op' \notin {"adjustment", "adjustment_raised"}
      BY <2>3 DEF Next, Synthesize, Compare, ReadComparison, Divide,
                  JoinReusable, Review, ReadReview, FallBackReview, Query,
                  ReadQuery, PlanRollout, NextPlan, Do
    <3>. QED
      BY <3>1 DEF AdjustmentIsAccepted, RaisedForPrioritiesOnly
  <2>. QED
    BY <2>1, <2>2, <2>3
<1>. QED
  BY <1>1, <1>2, PTL DEF Spec

\* Joining accepted parts of either side loses the result only to reusable
\* candidates of one name, or to a priority that is not a number.
THEOREM CombinationsAreAlwaysAccepted == Spec => []CombinationsAreAccepted
<1>1. RefusedForNamesOnly /\ AdjustmentIsAccepted /\ RaisedForPrioritiesOnly
        => CombinationsAreAccepted
  BY DEF CombinationsAreAccepted
<1>. QED
  BY <1>1, AdjustmentsCombine, OnlyNamesAreRefused, PTL
=============================================================================
