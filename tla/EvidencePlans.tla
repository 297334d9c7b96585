---------------------------- MODULE EvidencePlans ----------------------------
(***************************************************************************)
(* The computations between the sessions, put to work: every step hands an *)
(* input to one of them and keeps what it made, and the steps that read a  *)
(* written result again follow the one that wrote it.  op names the last   *)
(* step, given its input and made its result.                              *)
(***************************************************************************)
EXTENDS ExperiencePlans, AnalysisPlans, ChannelAdmission, BudgetPlan

CONSTANTS
  Catalogs,        \* the draft catalogs to synthesize from
  Indexes,         \* the trials of two compared tasks
  Claims,          \* the statuses an answer may claim
  Findings,        \* the sets of passages of an answer
  FirstTask, SecondTask,
  MaxExperiences,  \* bound: experiences divided among sessions
  GroupIds,        \* identifiers of reusable groups
  Names,           \* the names of a group's candidates
  Priorities,      \* the priorities of problems
  Absences,        \* the sets of probed channels that are absent
  MaxRemaining,    \* bound: creations that remain
  Caps             \* the numbers of tasks a rollout may have

\* The catalogs of the model hold drafted passages.
ASSUME CatalogAssumption == Catalogs \subseteq [Keys -> Entry]

\* A priority is a number or what int() refuses.
ASSUME PriorityAssumption == Priorities \subseteq Int \union {NotANumber}

\* Numbers of experiences, creations and tasks are numbers.
ASSUME BoundAssumption ==
  MaxExperiences \in Nat /\ MaxRemaining \in Nat /\ Caps \subseteq Nat

VARIABLES op, given, made
vars == <<op, given, made>>

Init == op = "none" /\ given = <<>> /\ made = <<>>

Do(name, input, result) == op' = name /\ given' = input /\ made' = result

-----------------------------------------------------------------------------
(* Experience.                                                             *)

\* The first merge takes the first identifier: names do not matter.
Answers ==
  {a \in MergePlan :
     \A i \in Slots : a.merges[i].id = CHOOSE m \in MergeIds : TRUE}
  \union
  {a \in MergePlan :
     \A i, j \in Slots : i # j => a.merges[i].id # a.merges[j].id}

Synthesize ==
  /\ op = "none"
  /\ \E catalog \in Catalogs, answer \in Answers, authoritative \in BOOLEAN :
       /\ ValidCatalog(catalog, authoritative)
       /\ LET plan == SynthesisPlan(answer, catalog)
          IN  Do("synthesis",
                 [catalog |-> catalog, answer |-> answer, plan |-> plan,
                  authoritative |-> authoritative],
                 Synthesis(plan, catalog, authoritative))

GroupAnswers(t) ==
  [records : [{t} -> [status : Claims]] \union {<<>>}, passages : Findings]

Compare ==
  /\ op = "none"
  /\ \E index \in Indexes, authoritative \in BOOLEAN,
        a \in GroupAnswers(FirstTask), b \in GroupAnswers(SecondTask) :
       LET first == CanonicalComparison(a, {FirstTask}, index, authoritative)
           second ==
             CanonicalComparison(b, {SecondTask}, index, authoritative)
       IN  /\ ValidComparison(first, {FirstTask}, index, authoritative)
           /\ ValidComparison(second, {SecondTask}, index, authoritative)
           /\ Do("comparison",
                 [index |-> index, authoritative |-> authoritative,
                  found |-> first.passages \union second.passages],
                 CombineComparisons(first, second))

\* The comparison is there already: it is made canonical and checked again.
ReadComparison ==
  /\ op = "comparison"
  /\ Do("comparison_read", [given EXCEPT !.found = made],
        CanonicalComparison(made, {FirstTask, SecondTask}, given.index,
                            given.authoritative))

-----------------------------------------------------------------------------
(* Analysis.                                                               *)

Divide ==
  /\ op = "none"
  /\ \E n \in 1..MaxExperiences :
       Do("parts", n, [g \in 1..GroupCount(n) |-> Part(n, g)])

SeqsUpTo(S, n) == UNION {[1..k -> S] : k \in 1..n}

ReusablePlans ==
  {p \in SeqsUpTo([id : GroupIds, members : SUBSET Experiences], 2) :
     ValidReusablePlan(p)}

CandidatesFor(group) ==
  {s \in SeqsUpTo([id : Names, experiences : SUBSET group.members], 2) :
     ValidReusableGroup(group, s)}

OutputsFor(plan) ==
  IF Len(plan) = 1
    THEN {<<a>> : a \in CandidatesFor(plan[1])}
    ELSE {<<a, b>> : a \in CandidatesFor(plan[1]),
                     b \in CandidatesFor(plan[2])}

JoinReusable ==
  /\ op = "none"
  /\ \E plan \in ReusablePlans : \E outputs \in OutputsFor(plan) :
       /\ CoversGroups(plan, outputs)
       /\ Do("reusable", [plan |-> plan, outputs |-> outputs],
             CombineReusable(plan, outputs))

\* A part of the adjustment side, as its session was accepted to return it:
\* one or two problems about all of the part's experiences.
Owners == {NoCandidate, 1, 2}

AdjustmentOutputs(members) ==
  {o \in [coverage : {members}, expected : {members},
          problems : {[p \in DOMAIN s |->
             [id |-> p, priority |-> s[p].priority,
              candidate |-> s[p].candidate, experiences |-> members]] :
             s \in SeqsUpTo([priority : Priorities, candidate : Owners], 2)},
          candidates : {[c \in DOMAIN s |->
             [id |-> s[c], experiences |-> members]] :
             s \in {<<>>, <<1>>, <<2>>, <<1, 2>>, <<2, 1>>}}] :
     ValidAdjustment(o)}

\* The parts of two experiences: a session for each, or one for both.
AdjustmentParts ==
  {<<o>> : o \in AdjustmentOutputs(Experiences)} \union
  UNION {{<<a, b>> : a \in AdjustmentOutputs({e}),
                     b \in AdjustmentOutputs(Experiences \ {e})} :
           e \in {CHOOSE e \in Experiences : TRUE}}

JoinAdjustment ==
  /\ op = "none"
  /\ \E outputs \in AdjustmentParts :
       IF CombinationRaises(outputs)
         THEN Do("adjustment_raised", outputs, <<>>)
         ELSE Do("adjustment", outputs,
                 CombineAdjustment(outputs,
                   {outputs[g].expected : g \in DOMAIN outputs}))

-----------------------------------------------------------------------------
(* The review of a rollout: a live answer is made canonical and validated; *)
(* without one that passes, the fallback is written.                       *)

\* What is said of a task: in order, with an unknown relation, or without a
\* reason.  The claimed status is the controller's or not.
Opinions ==
  {[status |-> "stable_success", relation |-> "attributed", reasoned |-> r] :
     r \in BOOLEAN} \union
  {[status |-> "stable_success", relation |-> "guessed", reasoned |-> TRUE]}

\* An answer may be right or wrong in each respect the validator looks at.
ReviewAnswers ==
  [assessments : UNION {[S -> Opinions] : S \in SUBSET Reviewed},
   relation : {"partially_attributed", "random", "guessed"},
   channels : SUBSET Channels,
   recovery : BOOLEAN, recommendation : {"refine", "uncertain"},
   further : BOOLEAN, replan : SUBSET Channels]

Review ==
  /\ op = "none"
  /\ \E status \in [Reviewed -> Statuses], answer \in ReviewAnswers :
       LET out == CanonicalAssessment(answer, status)
       IN  Do(IF ValidAssessment(out, status, ReplanChannels(FALSE))
                THEN "review" ELSE "refused",
              [status |-> status, answer |-> answer], out)

\* A later start finds the file, or without one the transcript of an answer
\* that may have been accepted or refused, and makes it canonical again.
ReadReview ==
  /\ op \in {"review", "refused"}
  /\ \E kept \in {given.answer} \union (IF op = "review" THEN {made} ELSE {}) :
       LET out == CanonicalAssessment(kept, given.status)
       IN  Do("review_read", [written |-> made, accepted |-> op = "review"],
              [output |-> out,
               accepted |->
                 ValidAssessment(out, given.status, ReplanChannels(TRUE))])

FallBackReview ==
  /\ op = "none"
  /\ \E status \in [Reviewed -> Statuses] :
       Do("fallback", [status |-> status],
          [preservation |-> FallbackPreservation(status),
           assessment |-> FallbackAssessment(status)])

-----------------------------------------------------------------------------
(* The harness query, and its cached answer under a later probe.           *)

Payloads ==
  {p \in [harness : Harnesses, absent : Absences, mcp : BOOLEAN] :
     p.absent \subseteq Probed[p.harness]}

QueryAnswers(payload) ==
  UNION {[constraints : [S -> Constraints], profile : BOOLEAN] :
           S \in {{}} \union {{c} : c \in DOMAIN Inventory[payload.harness]}}

Query ==
  /\ op = "none"
  /\ \E payload \in Payloads : \E answer \in QueryAnswers(payload) :
       LET out == Canonical(answer, payload)
       IN  Do("query", [payload |-> payload, answer |-> answer],
              IF ValidQuery(out, payload) THEN out
                ELSE Conservative(answer, payload))

ReadQuery ==
  /\ op = "query"
  /\ \E payload \in Payloads :
       /\ payload.harness = given.payload.harness
       /\ Do("query_read",
             [payload |-> payload, answer |-> AsAnswer(made)],
             Canonical(AsAnswer(made), payload))

-----------------------------------------------------------------------------
(* Budget: a plan, and the plan after a cycle that kept the parent.        *)

PlanRollout ==
  /\ op = "none"
  /\ \E remaining \in 0..MaxRemaining, ofBaseline \in BOOLEAN,
        batches \in 1..2, cap \in Caps :
       Do("plan", [remaining |-> remaining, ofBaseline |-> ofBaseline,
                   batches |-> batches, cap |-> cap, before |-> 0],
          RolloutPlan(remaining, ofBaseline, batches, cap))

NextPlan ==
  /\ op = "plan" /\ made.mode = "standard"
  /\ \E retries \in 0..RetryBuffer :
       LET left == given.remaining
                     - (CycleCost(made.limit, given.ofBaseline) + retries)
       IN  Do("next_plan",
              [given EXCEPT !.remaining = left, !.batches = @ - 1,
                            !.before = made.reserved],
              RolloutPlan(left, given.ofBaseline, given.batches - 1,
                          given.cap))

Next == \/ Review \/ ReadReview \/ FallBackReview
        \/ Synthesize \/ Compare \/ ReadComparison
        \/ Divide \/ JoinReusable \/ JoinAdjustment
        \/ Query \/ ReadQuery
        \/ PlanRollout \/ NextPlan

Spec == Init /\ [][Next]_vars

-----------------------------------------------------------------------------

\* A synthesis passes validate_experience whatever the answer merged or
\* discarded: it is only checked after every session of the stage was paid,
\* and a failure there would end the stage.
SynthesisIsValid ==
  op = "synthesis" => ValidExperience(made, given.authoritative)

\* A passage that is not discarded is in exactly one passage of the
\* synthesis, in its section and with its evidence; a discarded one is in
\* none (materialize_experience_merge_plan).
NoPassageLost ==
  op = "synthesis" => \A k \in Keys :
    LET holding == {p \in made : k \in p.from}
    IN  IF k \in given.plan.discard THEN holding = {}
        ELSE \E p \in holding :
               /\ holding = {p}
               /\ p.section = given.catalog[k].section
               /\ given.catalog[k].refs \subseteq p.refs

\* A source listed in two merges does not cost the answer: what is left of
\* merges that are otherwise in order is accepted and carried out.
AmbiguityIsForgiven ==
  LET a == given.answer
      inOrder ==
        /\ \A i \in Slots :
             /\ a.merges[i].sources \intersect (a.discard \union {NoKey}) = {}
             /\ \A k \in a.merges[i].sources :
                  given.catalog[k].section = a.merges[i].section
        /\ \A i, j \in Slots : a.merges[i].id = a.merges[j].id => i = j
  IN  op = "synthesis" /\ inOrder => given.plan = CanonicalMerges(a)

\* What the groups of a comparison found is accepted when it is put
\* together, with every passage: validate_comparison runs once more there,
\* after every session was paid.
ComparisonIsAccepted ==
  op = "comparison" =>
    /\ ValidComparison(made, {FirstTask, SecondTask}, given.index,
                       given.authoritative)
    /\ made.passages = given.found

\* A comparison that is read again is the one that was written, but for the
\* versions its tasks were compared with.
ComparisonReadsTheSame ==
  op = "comparison_read" => made = [given.found EXCEPT !.versions = {}]

\* With authoritative outcomes, a task with a failed candidate trial is
\* never reported as a stable success, and one with a passing candidate
\* trial neither as a regression nor as still failing.
NoFailureIsStable ==
  op = "comparison" /\ given.authoritative =>
    \A t \in DOMAIN made.records :
      /\ made.records[t].status = "stable_success" =>
           made.records[t].candidate \intersect Failed = {}
      /\ made.records[t].status \in {"regressed", "still_failing"} =>
           made.records[t].candidate \subseteq Failed

\* Every experience is analyzed in exactly one session, no session is
\* started for nothing, and none has two more than another.
PartsAreExact ==
  op = "parts" =>
    /\ \A i \in 1..given : Cardinality({g \in DOMAIN made : i \in made[g]}) = 1
    /\ \A g, h \in DOMAIN made :
         /\ made[g] # {}
         /\ Cardinality(made[g]) <= Cardinality(made[h]) + 1

\* What accepted groups of the reusable side are joined into is refused for
\* one reason alone: two candidates whose compiled identifiers are the same.
RefusedForNamesOnly ==
  op = "reusable" /\ ~ ValidReusable(made) => ~ UniqueIds(made.candidates)

\* What accepted parts of the adjustment side are joined into is accepted,
\* ranks every problem once, and ranks a candidate as its problem.
AdjustmentIsAccepted ==
  op = "adjustment" =>
    /\ ValidAdjustment(made)
    /\ \A p \in 1..Len(made.problems) : made.problems[p].priority = p
    /\ \A c, d \in 1..Len(made.candidates) :
         /\ \E p \in 1..Len(made.problems) :
              /\ made.problems[p].priority = made.candidates[c].priority
              /\ made.problems[p].candidate = made.candidates[c].id
         /\ c < d =>
              made.candidates[c].priority < made.candidates[d].priority

\* Combining accepted parts ends with an error for one reason alone: a
\* priority that int() refuses, which validate_analyzer_output never looks
\* at.  The parts stay, so every later start ends at the same place.
RaisedForPrioritiesOnly ==
  op = "adjustment_raised" =>
    \E g \in 1..Len(given) : \E p \in 1..Len(given[g].problems) :
      given[g].problems[p].priority = NotANumber

\* A paid review that was accepted live is accepted again, unchanged, by
\* whoever finds its file or its transcript; one that was refused live is
\* accepted later only for a replan of channels the candidate left alone.
ReviewReadsTheSame ==
  op = "review_read" =>
    /\ made.output = given.written
    /\ given.accepted => made.accepted
    /\ made.accepted /\ ~ given.accepted =>
         ~ (made.output.replan \subseteq Changed)

\* The fallback of a review passes the check it is written after and the
\* check it is read with, whatever the comparison found.
FallbackIsAccepted ==
  op = "fallback" =>
    /\ ValidPreservation(made.preservation, given.status)
    /\ ValidAssessment(made.assessment, given.status, ReplanChannels(TRUE))

\* The harness query ends with a classification that passes its checks,
\* whatever was answered: the inventories and the tables agree.
QueryEndsUsable ==
  op = "query" => ValidQuery(made, given.payload)

\* It also does when it is read again under a probe that finds other
\* channels, or with MCP tools connected or not.
CachedQueryStaysUsable ==
  op = "query_read" => ValidQuery(made, given.payload)

\* A planned cycle is affordable with all of its retries, and the screen
\* another batch was promised beside it.
PlanFits ==
  op \in {"plan", "next_plan"} /\ made.mode # "stop" =>
    given.remaining >= RetryBuffer + made.reserved +
      IF made.mode = "standard" THEN CycleCost(made.limit, given.ofBaseline)
      ELSE ScreenCost(made.limit, given.ofBaseline)

\* The campaign stops, or screens fewer tasks than it might, only because
\* the next larger screen with its retries is not affordable.
NoScreenMissed ==
  op \in {"plan", "next_plan"} =>
    /\ made.mode = "stop" =>
         \/ given.cap < MinStandard
         \/ given.remaining <
              ScreenCost(MinStandard, given.ofBaseline) + RetryBuffer
    /\ made.mode = "terminal_screen" =>
         given.remaining <
           CycleCost(MinStandard, given.ofBaseline) + RetryBuffer
    /\ made.mode = "standard" /\ made.limit < DefaultTasks =>
         \/ made.limit = given.cap
         \/ given.remaining <
              CycleCost(made.limit + 1, given.ofBaseline) + RetryBuffer

\* When a plan reserved a screen for another batch, that screen can be
\* planned after a cycle that used all of its retries and kept the parent.
ReserveKeepsNextScreen ==
  op = "next_plan" /\ given.before > 0 => made.mode # "stop"

\* The synthesis: what is written is valid, whole, and follows the answer
\* wherever it can be repaired.
SynthesisIsSound == SynthesisIsValid /\ NoPassageLost /\ AmbiguityIsForgiven

\* The comparison: what its groups found is accepted when it is put
\* together, says what the trials say, and reads the same on a replay.
ComparisonIsSound ==
  ComparisonIsAccepted /\ NoFailureIsStable /\ ComparisonReadsTheSame

\* The two sides of the analysis: joining accepted parts loses the result
\* only to candidates of one name, or to a priority that is not a number.
CombinationsAreAccepted ==
  RefusedForNamesOnly /\ AdjustmentIsAccepted /\ RaisedForPrioritiesOnly

\* The review: a paid answer is judged alike when it is found again, and the
\* fallback that stands in for three refused ones never is refused.
ReviewIsSound == ReviewReadsTheSame /\ FallbackIsAccepted

\* A harness query is usable under the probe it was answered for and under
\* every later one.
QueryStaysUsable == QueryEndsUsable /\ CachedQueryStaysUsable

\* A plan is affordable with its retries, is the best affordable one, and
\* keeps the screen it reserved.
PlanIsSound == PlanFits /\ NoScreenMissed /\ ReserveKeepsNextScreen
=============================================================================
