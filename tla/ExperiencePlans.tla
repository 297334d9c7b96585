--------------------------- MODULE ExperiencePlans ---------------------------
(***************************************************************************)
(* The computations of experience.py between the answer of a session and   *)
(* the experience that is written: how the passages of the drafts are      *)
(* merged, how failed evidence gets a disposition, and how the comparison  *)
(* of a rollout with its reference is canonicalized, checked and combined. *)
(*                                                                         *)
(* A passage is a record of the catalog keys its text comes from, its      *)
(* section and its evidence references.  Texts and identifiers are left    *)
(* out: _unique_passage_id makes the latter unique in whatever it returns. *)
(***************************************************************************)
EXTENDS Naturals, FiniteSets

CONSTANTS
  Keys,        \* the catalog of the drafts: one key per passage
  NoKey,       \* a source key that is not in the catalog
  Refs,        \* the evidence references of the stage
  Failed,      \* those whose outcome is "fail"; the others pass
  Slots,       \* the places of the merges in an answer
  MergeIds     \* the identifiers an answer may give its merges

ASSUME EvidenceAssumption == Failed \subseteq Refs
ASSUME KeyAssumption == NoKey \notin Keys
Sections == {"reusable", "needs_adjustment"}

\* A catalog entry is a passage of an accepted draft.
Entry == [section : Sections, refs : SUBSET Refs]

-----------------------------------------------------------------------------
(* validate_experience: coverage is set from the index and always complete.*)

ValidRefs(p, authoritative) ==
  /\ p.refs # {}
  /\ p.refs \subseteq Refs
  /\ p.section = "reusable" /\ authoritative => ~ (p.refs \subseteq Failed)

Adjusted(out) ==
  UNION {p.refs : p \in {q \in out : q.section = "needs_adjustment"}}

ValidExperience(out, authoritative) ==
  /\ \A p \in out : ValidRefs(p, authoritative)
  /\ authoritative => Failed \subseteq Adjusted(out)

ValidCatalog(catalog, authoritative) ==
  \A k \in Keys : ValidRefs(catalog[k], authoritative)

\* A mutant: a failure mentioned in a reusable passage counts as handled.
EnsureAnyDisposition(out, authoritative) ==
  out \union
    IF authoritative
      THEN {[from |-> {}, section |-> "needs_adjustment", refs |-> {r}] :
              r \in Failed \ UNION {p.refs : p \in out}}
      ELSE {}

\* _ensure_authoritative_failure_dispositions: a failure no adjustment
\* passage names becomes an unresolved passage of its own.
EnsureFailures(out, authoritative) ==
  out \union
    IF authoritative
      THEN {[from |-> {}, section |-> "needs_adjustment", refs |-> {r}] :
              r \in Failed \ Adjusted(out)}
      ELSE {}

-----------------------------------------------------------------------------
(* A merge plan has a merge in each slot, the empty one when unused, and   *)
(* the keys to discard.                                                    *)

Merge == [id : MergeIds, section : Sections,
          sources : SUBSET (Keys \union {NoKey})]

MergePlan == [merges : [Slots -> Merge], discard : SUBSET Keys]

AtLeastTwo(S) == \E a, b \in S : a # b

Used(plan) == {i \in Slots : plan.merges[i].sources # {}}

Ambiguous(plan) ==
  {k \in Keys \union {NoKey} :
     \E i, j \in Slots : /\ i # j
                         /\ k \in plan.merges[i].sources
                         /\ k \in plan.merges[j].sources}

\* canonicalize_experience_merge_plan: a source of two merges belongs to
\* none, and a merge left with fewer than two is dropped.
CanonicalMerges(plan) ==
  [plan EXCEPT !.merges = [i \in Slots |->
     LET rest == plan.merges[i].sources \ Ambiguous(plan)
     IN  [plan.merges[i] EXCEPT !.sources =
            IF AtLeastTwo(rest) THEN rest ELSE {}]]]

\* validate_experience_merge_plan
ValidMerges(plan, catalog) ==
  /\ \A i \in Used(plan) :
       /\ AtLeastTwo(plan.merges[i].sources)
       /\ plan.merges[i].sources \subseteq Keys
       /\ \A k \in plan.merges[i].sources :
            catalog[k].section = plan.merges[i].section
       /\ plan.merges[i].sources \intersect plan.discard = {}
  /\ \A i, j \in Used(plan) : i # j =>
       /\ plan.merges[i].id # plan.merges[j].id
       /\ plan.merges[i].sources \intersect plan.merges[j].sources = {}

Merged(plan) == UNION {plan.merges[i].sources : i \in Slots}

Retained(plan, catalog) ==
  {[from |-> {k}, section |-> catalog[k].section, refs |-> catalog[k].refs] :
     k \in Keys \ (Merged(plan) \union plan.discard)}

MergedPassages(plan, catalog) ==
  {[from |-> plan.merges[i].sources, section |-> plan.merges[i].section,
    refs |-> UNION {catalog[k].refs : k \in plan.merges[i].sources}] :
     i \in Used(plan)}

\* materialize_experience_merge_plan
Materialize(plan, catalog) ==
  Retained(plan, catalog) \union MergedPassages(plan, catalog)

\* What _synthesize does with an answer once it is canonical and accepted;
\* without one, the plan that merges and discards nothing stands in.
Synthesis(plan, catalog, authoritative) ==
  EnsureFailures(Materialize(plan, catalog), authoritative)

KeepAll(plan) ==
  [merges |-> [i \in Slots |-> [plan.merges[i] EXCEPT !.sources = {}]],
   discard |-> {}]

SynthesisPlan(answer, catalog) ==
  LET plan == CanonicalMerges(answer)
  IN  IF ValidMerges(plan, catalog) THEN plan ELSE KeepAll(answer)

-----------------------------------------------------------------------------
(* Comparison of the candidate's trials with the reference trials.  An     *)
(* index gives the references of both, task by task; every task has some. *)

Passes(refs) == refs \ Failed

\* A mutant: one pass among the candidate's trials is enough.
StatusByAnyPass(reference, candidate) ==
  CASE Passes(reference) # {} /\ Passes(candidate) # {} -> "stable_success"
    [] Passes(reference) = {} /\ Passes(candidate) = {} -> "still_failing"
    [] Passes(reference) = {} /\ Passes(candidate) # {} -> "recovered"
    [] OTHER -> "regressed"

\* _authoritative_comparison_status
Status(reference, candidate) ==
  CASE Passes(reference) # {} /\ candidate \intersect Failed = {} ->
         "stable_success"
    [] Passes(reference) = {} /\ Passes(candidate) = {} -> "still_failing"
    [] Passes(reference) = {} /\ Passes(candidate) # {} -> "recovered"
    [] Passes(reference) # {} /\ Passes(candidate) = {} -> "regressed"
    [] OTHER -> "mixed"

Statuses ==
  {"recovered", "stable_success", "regressed", "still_failing", "mixed"}

\* _comparison_outcome_summary
Summary(t, index) ==
  [referencePasses |-> Cardinality(Passes(index.reference[t])),
   references |-> Cardinality(index.reference[t]),
   candidatePasses |-> Cardinality(Passes(index.candidate[t])),
   candidates |-> Cardinality(index.candidate[t])]

TrialRefs(tasks, index) ==
  UNION {index.reference[t] \union index.candidate[t] : t \in tasks}

\* canonicalize_comparison: coverage, trials, counts and, under authority,
\* the status are the controller's.  A reference that is none of the tasks'
\* trials is replaced by its closest match or dropped; the answer carries
\* what its references resolve to.
CanonicalComparison(answer, tasks, index, authoritative) ==
  [tasks |-> tasks,
   records |-> [t \in DOMAIN answer.records |->
      [status |-> IF authoritative
                    THEN Status(index.reference[t], index.candidate[t])
                    ELSE answer.records[t].status,
       summary |-> Summary(t, index),
       reference |-> index.reference[t],
       candidate |-> index.candidate[t]]],
   passages |-> {[p EXCEPT !.refs = @ \intersect TrialRefs(tasks, index)] :
                   p \in answer.passages},
   versions |-> {}]

\* validate_comparison
ValidComparison(out, tasks, index, authoritative) ==
  /\ out.tasks = tasks
  /\ DOMAIN out.records = tasks
  /\ \A t \in tasks :
       /\ out.records[t].status \in Statuses
       /\ authoritative => out.records[t].status =
            Status(index.reference[t], index.candidate[t])
       /\ out.records[t].reference = index.reference[t]
       /\ out.records[t].candidate = index.candidate[t]
       /\ out.records[t].summary = Summary(t, index)
  /\ \A p \in out.passages :
       /\ p.refs # {}
       /\ p.refs \subseteq TrialRefs(tasks, index)
       /\ p.section = "reusable" /\ authoritative =>
            ~ (p.refs \subseteq Failed)

\* What run_comparison makes of two groups.  The version each task was
\* compared with is added to the coverage here and only here: a comparison
\* that is read again has lost it.
CombineComparisons(first, second) ==
  [tasks |-> first.tasks \union second.tasks,
   records |-> [t \in first.tasks \union second.tasks |->
      IF t \in first.tasks THEN first.records[t] ELSE second.records[t]],
   passages |-> first.passages \union second.passages,
   versions |-> first.tasks \union second.tasks]
=============================================================================
