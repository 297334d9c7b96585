---------------------------- MODULE AnalysisPlans ----------------------------
(***************************************************************************)
(* The computations of analyzer.py between its sessions: how experiences   *)
(* are divided among sessions, how the parts are put together again, and   *)
(* what the review of a rollout may say.                                   *)
(*                                                                         *)
(* Identifiers are sequences of words: a controller joins them with "-",   *)
(* which is where two of them can become one.  An experience is a member   *)
(* of Experiences; evidence, texts and manifests are left out.             *)
(***************************************************************************)
EXTENDS Naturals, FiniteSets, SequencesExt

CONSTANTS
  Experiences,   \* the experience identifiers of one side
  MaxGroups,     \* MAX_ADJUSTMENT_ANALYSIS_GROUPS, and of a reusable plan
  Target,        \* TARGET_ADJUSTMENT_EXPERIENCES_PER_GROUP
  NoCandidate,   \* a problem's candidate_id when it has none
  NotANumber,    \* a priority int() refuses
  Unranked,      \* the priority of a problem that states none: 1000000
  Reviewed,      \* the tasks of a reviewed rollout
  Channels,      \* the editable channels that were discovered
  Changed        \* those the candidate changed

ASSUME PartitionAssumption ==
  MaxGroups \in Nat \ {0} /\ Target \in Nat \ {0}
ASSUME IdentifierAssumption ==
  NoCandidate \notin Nat /\ NoCandidate \notin Nat \X Nat
\* A candidate edits channels that discovery admitted, at least one.
ASSUME ChangeAssumption == Changed \subseteq Channels /\ Changed # {}

-----------------------------------------------------------------------------
(* partition_adjustment_experiences                                        *)

GroupCount(n) ==
  LET wanted == (n + Target - 1) \div Target
  IN  IF wanted > MaxGroups THEN MaxGroups
      ELSE IF wanted < 1 THEN 1 ELSE wanted

\* A mutant: the first group takes what round robin leaves for the last.
PartInBlocks(n, g) ==
  {i \in 1..n : (i - 1) \div GroupCount(n) = g - 1}

\* The experiences are dealt in turn; the order within a part is kept.
Part(n, g) == {i \in 1..n : (i - 1) % GroupCount(n) = g - 1}

-----------------------------------------------------------------------------
(* The reusable side: a plan is a sequence of groups with an identifier    *)
(* and members, an output a sequence of candidates with the name they were *)
(* given and the experiences they incorporate.                             *)

\* validate_reusable_plan; a member listed twice has no place in a set.
ValidReusablePlan(plan) ==
  /\ Len(plan) \in 1..MaxGroups
  /\ \A g \in 1..Len(plan) : plan[g].members # {}
  /\ \A g, h \in 1..Len(plan) : g # h =>
       /\ plan[g].id # plan[h].id
       /\ plan[g].members \intersect plan[h].members = {}
  /\ UNION {plan[g].members : g \in 1..Len(plan)} = Experiences

Incorporated(candidates) ==
  UNION {candidates[c].experiences : c \in 1..Len(candidates)}

UniqueIds(items) ==
  \A a, b \in 1..Len(items) : items[a].id = items[b].id => a = b

\* validate_analyzer_output for the reusable side
ValidReusable(out) ==
  /\ out.coverage = out.expected
  /\ out.candidates # <<>>
  /\ UniqueIds(out.candidates)
  /\ Incorporated(out.candidates) = out.expected

\* What a group's session must return; its raw names are unique.
ValidReusableGroup(group, candidates) ==
  ValidReusable([coverage |-> group.members, expected |-> group.members,
                 candidates |-> candidates])

\* The slug of a name: letter case and punctuation are lost.
Slug(name) == name.words

\* compile_reusable_candidate: reusable-<group>-<slug>
Compiled(group, candidate) ==
  [id |-> group.id \o Slug(candidate.id),
   experiences |-> candidate.experiences]

CoversGroups(plan, outputs) ==
  \A g \in 1..Len(plan) : Incorporated(outputs[g]) = plan[g].members

\* combine_reusable_outputs; a group whose output strays from its members
\* raises before.
CombineReusable(plan, outputs) ==
  [coverage |-> UNION {plan[g].members : g \in 1..Len(plan)},
   expected |-> Experiences,
   candidates |-> FlattenSeq(
     [g \in 1..Len(plan) |->
        [c \in 1..Len(outputs[g]) |-> Compiled(plan[g], outputs[g][c])]])]

-----------------------------------------------------------------------------
(* The adjustment side.  An output has problems (identifier, priority,     *)
(* experiences, candidate) and candidates (identifier, experiences); each  *)
(* part was accepted by validate_analyzer_output.                          *)

ProblemsOf(out, candidate) ==
  {p \in 1..Len(out.problems) : out.problems[p].candidate = candidate}

ValidAdjustment(out) ==
  /\ out.coverage = out.expected
  /\ out.problems # <<>>
  /\ UniqueIds(out.problems)
  /\ UniqueIds(out.candidates)
  /\ \A p \in 1..Len(out.problems) :
       /\ out.problems[p].experiences # {}
       /\ out.problems[p].experiences \subseteq out.expected
       /\ out.problems[p].candidate # NoCandidate =>
            \E c \in 1..Len(out.candidates) :
              out.candidates[c].id = out.problems[p].candidate
  /\ \A c \in 1..Len(out.candidates) :
       \E p \in 1..Len(out.problems) :
         /\ ProblemsOf(out, out.candidates[c].id) = {p}
         /\ out.candidates[c].experiences
              \subseteq out.problems[p].experiences

\* The group's name in front makes identifiers of two groups differ.
InGroup(g, problem) ==
  [problem EXCEPT
     !.id = <<g, @>>,
     !.candidate = IF @ = NoCandidate THEN @ ELSE <<g, @>>]

\* A candidate keeps the rank its own group gave it until it is ranked.
CandidateInGroup(g, candidate) ==
  [id |-> <<g, candidate.id>>, experiences |-> candidate.experiences,
   priority |-> Unranked]

ProblemsInGroups(outputs) ==
  FlattenSeq([g \in 1..Len(outputs) |->
    [p \in 1..Len(outputs[g].problems) |->
       InGroup(g, outputs[g].problems[p])]])

CandidatesInGroups(outputs) ==
  FlattenSeq([g \in 1..Len(outputs) |->
    [c \in 1..Len(outputs[g].candidates) |->
       CandidateInGroup(g, outputs[g].candidates[c])]])

\* A stable sort by priority: position k holds the problem that k - 1
\* others precede.
Precedes(s, i, j) == \/ s[i].priority < s[j].priority
                     \/ s[i].priority = s[j].priority /\ i < j

Ranked(s) ==
  [k \in 1..Len(s) |->
     LET i == CHOOSE i \in 1..Len(s) :
                Cardinality({j \in 1..Len(s) : Precedes(s, j, i)}) = k - 1
     IN  [s[i] EXCEPT !.priority = k]]

\* A candidate comes at its problem's rank, and carries it.
InRankOrder(candidates, problems) ==
  LET owner(c) == CHOOSE p \in 1..Len(problems) :
                    problems[p].candidate = candidates[c].id
      before(c) == {d \in 1..Len(candidates) : owner(d) < owner(c)}
  IN  [k \in 1..Len(candidates) |->
        LET c == CHOOSE c \in 1..Len(candidates) :
                   Cardinality(before(c)) = k - 1
        IN  [candidates[c] EXCEPT !.priority = owner(c)]]

\* int() raises on a priority no validation looked at.
Sortable(outputs) ==
  \A g \in 1..Len(outputs) : \A p \in 1..Len(outputs[g].problems) :
    outputs[g].problems[p].priority # NotANumber

\* A mutant: the candidates of the first part are looked up in for all.
ResolvableInFirst(outputs) ==
  \A g \in 1..Len(outputs) : \A p \in 1..Len(outputs[g].problems) :
    \/ outputs[g].problems[p].candidate = NoCandidate
    \/ \E c \in 1..Len(outputs[1].candidates) :
         outputs[1].candidates[c].id = outputs[g].problems[p].candidate

\* A problem's candidate is looked up among those of its part.
Resolvable(outputs) ==
  \A g \in 1..Len(outputs) : \A p \in 1..Len(outputs[g].problems) :
    \/ outputs[g].problems[p].candidate = NoCandidate
    \/ \E c \in 1..Len(outputs[g].candidates) :
         outputs[g].candidates[c].id = outputs[g].problems[p].candidate

\* combine_adjustment_outputs ends with an error instead of a result.
CombinationRaises(outputs) == ~ Resolvable(outputs) \/ ~ Sortable(outputs)

\* A mutant: candidates keep the order and the rank of their groups.
CombineUnranked(outputs, members) ==
  [coverage |-> UNION members, expected |-> Experiences,
   problems |-> Ranked(ProblemsInGroups(outputs)),
   candidates |-> CandidatesInGroups(outputs)]

\* combine_adjustment_outputs
CombineAdjustment(outputs, members) ==
  LET ranked == Ranked(ProblemsInGroups(outputs))
  IN  [coverage |-> UNION members, expected |-> Experiences,
       problems |-> ranked,
       candidates |-> InRankOrder(CandidatesInGroups(outputs), ranked)]

-----------------------------------------------------------------------------
(* The review of a rollout.  status is what the comparison found for each  *)
(* task; a task the review leaves out is not in the domain of its own      *)
(* assessments.  The local recovery and whether more rollout is needed are *)
(* Booleans, stated or not, and so is "reasoned": a reason, and evidence   *)
(* where it is asked for.  A replan is the set of channels its plan names, *)
(* the empty one when there is none.  An attribution without a reason      *)
(* counts as one of no known relation.  Coverage and the outcomes of the   *)
(* metrics are left out: the canonical form fills them in.                 *)

Relations ==
  {"attributed", "possibly_related", "not_attributed", "unresolved", "random"}

AttributionRelations ==
  {"attributed", "partially_attributed", "not_attributed", "unresolved",
   "random"}

MayRegress == {"regressed", "mixed", "stable_success"}

\* validate_post_analyzer_output for the reusable side
ValidPreservation(out, status) ==
  LET blamed == {r.task : r \in out.regressions}
  IN  /\ \A r \in out.regressions :
           /\ r.task \in Reviewed /\ status[r.task] \in MayRegress
           /\ r.channels # {} /\ r.channels \subseteq Changed /\ r.reasoned
      /\ out.preserved = Reviewed \ blamed /\ out.reasoned
      /\ out.recommendation \in {"accept", "reject", "uncertain"}

\* A mutant: the readers pass nothing, and the live validator does.
ReplanChannelsSwapped(reading) == IF reading THEN Changed ELSE Channels

\* available_channel_ids or changed_channels: the readers of a file and of a
\* transcript pass what was discovered, the validator of a live answer passes
\* nothing.
ReplanChannels(reading) == IF reading THEN Channels ELSE Changed

\* and for the adjustment side; replannable are the channels a replan may
\* name.
ValidAssessment(out, status, replannable) ==
  /\ DOMAIN out.assessments = Reviewed
  /\ \A t \in Reviewed :
       /\ out.assessments[t].status = status[t]
       /\ out.assessments[t].relation \in Relations
       /\ out.assessments[t].reasoned
  /\ out.relation \in AttributionRelations
  /\ out.channels # {} /\ out.channels \subseteq Changed
  /\ out.recommendation \in {"accept", "reject", "refine"}
  /\ out.recovery /\ out.further
  /\ out.replan \subseteq replannable

\* canonicalize_post_analyzer_output: the statuses are the comparison's,
\* and channels that were not changed are dropped unless all of them are.
NoAssessment == [status |-> "", relation |-> "", reasoned |-> FALSE]

CanonicalAssessment(out, status) ==
  [out EXCEPT
     !.assessments = [t \in Reviewed |->
        [(IF t \in DOMAIN @ THEN @[t] ELSE NoAssessment)
           EXCEPT !.status = status[t]]],
     !.channels = IF @ \intersect Changed = {} THEN @
                  ELSE @ \intersect Changed]

\* A mutant: only what succeeded is said to be preserved.
PreserveSuccesses(status) ==
  [regressions |-> {},
   preserved |-> {t \in Reviewed : status[t] \in {"stable_success",
                                                  "recovered"}},
   reasoned |-> TRUE, recommendation |-> "uncertain"]

\* conservative_post_analyzer_fallback, both sides
FallbackPreservation(status) ==
  [regressions |-> {}, preserved |-> Reviewed, reasoned |-> TRUE,
   recommendation |-> "uncertain"]

FallbackAssessment(status) ==
  [assessments |-> [t \in Reviewed |->
      [status |-> status[t], relation |-> "unresolved", reasoned |-> TRUE]],
   relation |-> "unresolved", channels |-> Changed,
   recovery |-> TRUE, recommendation |-> "reject", further |-> TRUE,
   replan |-> {}]
=============================================================================
