---------------------------- MODULE EvolutionLoop ----------------------------
(* The evolution loop: IterationController._run_locked and the sessions of  *)
(* the main agent it drives (evolution/controller.py, main_agent.py).  The  *)
(* loop keeps its progress in local variables only.  A restarted run starts *)
(* at iteration 1 again and replays what it finds on disk: decisions, pairs *)
(* and analyses are reused, reviews are decided again from the answers the  *)
(* review sessions left behind.                                             *)
(* Units are those of the ledger (CreationBudget); here only what remains   *)
(* matters.  Discovery, experience and the baseline analysis are done.      *)
EXTENDS Integers, Sequences, FiniteSetsExt

CONSTANTS
  Portfolio,       \* candidates of the baseline analysis
  FailureOnly,     \* those supported by failed tasks only
  Confirmation,    \* TRUE: HAI_CONFIRMATION_MODE is "always"
  EvidenceKinds,   \* what the analysis of a pair may show
  Budget,          \* units left when the loop starts
  PreflightUnits, RolloutUnits, AnalysisUnits, RetryBuffer,
  MaxIterations,   \* bound: iterations (the budget ends the loop earlier)
  MaxCrashes       \* bound: crashes in one behaviour

(* What a review is checked against: attributable recoveries, attributable  *)
(* regressions, uncertain recoveries, failures localized to the changed     *)
(* channel, a replan candidate, and a strict gain of the promotion metric.  *)
Facts == {"recovered", "regressed", "uncertain", "localized", "replan", "gain"}

ASSUME LoopAssumption ==
  /\ FailureOnly \subseteq Portfolio
  /\ Confirmation \in BOOLEAN
  /\ EvidenceKinds \subseteq SUBSET Facts
  /\ {Budget, RetryBuffer, MaxCrashes} \subseteq Nat
  /\ {PreflightUnits, RolloutUnits, AnalysisUnits, MaxIterations}
       \subseteq Nat \ {0}

VARIABLES
  pc, iteration, champion,
  attempted,   \* sources tried by this process
  offers,      \* revisions and replans its reviews have added
  pick, mode, stage,
  asked,       \* sessions asked in the current step
  verdict,
  extra,       \* second attempts needed since the last budget check
  resumed,     \* this is not the first process of the run
  choices,     \* durable: the main agent's answers of each iteration
  decisions, snapshots, preflights, pairs, evidence,
  answers,     \* durable: the review answers of each iteration and stage
  final, remaining,
  promoted,    \* every version some process has made its champion
  crashes

progress == <<iteration, champion, attempted, offers>>
current  == <<pick, mode, stage>>
review   == <<asked, verdict>>
made     == <<choices, decisions, snapshots>>
tested   == <<preflights, pairs, evidence>>
disk     == <<made, tested, answers, final>>
vars == <<pc, progress, current, review, extra, resumed, disk, remaining,
          promoted, crashes>>

Iterations == 1..MaxIterations
Stages     == {"screen", "confirm"}
Verdicts   == {"accept", "reject", "revise", "confirm", "replan"}
Base       == {"base"} \X Portfolio
Sources    == Base \cup ({"revise", "replan"} \X Iterations)

(* The candidate of iteration i is version i; version 0 is v0.              *)
Versions   == 0..MaxIterations
NoSource   == <<"none", 0>>
NoDecision == [source |-> NoSource, parent |-> 0, mode |-> "none"]
Modes      == {"none", "standard", "terminal_screen"}
None       == {"none"}

LoopTypeOK ==
  /\ pc \in {"head", "ask", "edit", "preflight", "pair", "analyze", "review",
             "gate", "published", "down", "broke"}
  /\ iteration \in Iterations /\ champion \in Versions
  /\ attempted \subseteq Sources /\ offers \subseteq Sources
  /\ pick \in Sources \cup {NoSource} /\ mode \in Modes /\ stage \in Stages
  /\ asked \in 0..2 /\ verdict \in Verdicts /\ extra \in Nat
  /\ resumed \in BOOLEAN
  /\ choices \in [Iterations -> Seq(Sources)]
  /\ decisions \in [Iterations ->
       [source : Sources, parent : Versions, mode : Modes] \cup {NoDecision}]
  /\ snapshots \in [Iterations -> Nat]
  /\ preflights \in [Iterations -> {"none", "pass", "fail"}]
  /\ pairs \in [Iterations \X Stages -> Nat]
  /\ evidence \in [Iterations \X Stages -> EvidenceKinds \cup {None}]
  /\ answers \in [Iterations \X Stages -> Seq(Verdicts)]
  /\ final \in Versions \cup {-1}
  /\ remaining \in 0..Budget
  /\ promoted \subseteq Iterations
  /\ crashes \in 0..MaxCrashes

Init ==
  /\ pc = "head" /\ iteration = 1 /\ champion = 0
  /\ attempted = {} /\ offers = {}
  /\ pick = NoSource /\ mode = "none" /\ stage = "screen"
  /\ asked = 0 /\ verdict = "reject" /\ extra = 0 /\ resumed = FALSE
  /\ choices = [i \in Iterations |-> <<>>]
  /\ decisions = [i \in Iterations |-> NoDecision]
  /\ snapshots = [i \in Iterations |-> 0]
  /\ preflights = [i \in Iterations |-> "none"]
  /\ pairs = [is \in Iterations \X Stages |-> 0]
  /\ evidence = [is \in Iterations \X Stages |-> None]
  /\ answers = [is \in Iterations \X Stages |-> <<>>]
  /\ final = -1
  /\ remaining = Budget
  /\ promoted = {}
  /\ crashes = 0

-----------------------------------------------------------------------------
(* What the stages cost, for the task count of the run.                     *)
PairUnits(s, parent) ==
  IF s = "screen" /\ parent = 0 THEN RolloutUnits ELSE 2 * RolloutUnits

(* paired_screen_creation_cost: main agent, editor, preflight, both sides,  *)
(* comparison and post analysis, review.                                    *)
ScreenCost(parent) ==
  2 + PreflightUnits + PairUnits("screen", parent) + AnalysisUnits + 1

ConfirmCost == PairUnits("confirm", 0) + AnalysisUnits + 1

(* MIN_CANDIDATE_ITERATION_CREATIONS prices an iteration without controls.  *)
NextIteration == ScreenCost(0)

(* Mutated form: the parent's own rollouts are forgotten.                   *)
StartWithoutControl(parent) == ScreenCost(0) + RetryBuffer

StartUnits(parent) == ScreenCost(parent) + RetryBuffer

(* build_rollout_budget_plan: a standard screen can still be confirmed.     *)
PlanMode(parent, units) ==
  IF units >= ScreenCost(parent) + RetryBuffer
                + (IF Confirmation THEN ConfirmCost ELSE 0)
    THEN "standard" ELSE "terminal_screen"

-----------------------------------------------------------------------------
(* selectable_portfolio, then defer_failure_only_portfolio                  *)
Untried == (Base \cup offers) \ attempted

Preferred == {s \in Untried : s[1] # "base" \/ s[2] \notin FailureOnly}

Available == IF Preferred # {} THEN Preferred ELSE Untried

Here == <<iteration, stage>>

(* validate_final_decision: what it asks of a verdict, given the evidence   *)
(* of the pair and the units left after the review.                         *)
Admissible(v, units) ==
  LET shows == evidence[Here]
      strict == stage = "confirm" \/ mode = "terminal_screen"
  IN \/ v = "reject"
     \/ /\ v = "accept"
        /\ "recovered" \in shows /\ "regressed" \notin shows
        /\ strict => "gain" \in shows
        /\ units < NextIteration => "localized" \notin shows
     \/ /\ v = "confirm" /\ ~strict
        /\ "uncertain" \in shows /\ shows \cap {"recovered", "regressed"} = {}
     \/ /\ v = "replan"
        /\ "replan" \in shows /\ units >= NextIteration
     \/ /\ v = "revise"
        /\ units >= NextIteration /\ pick[1] # "revise"
        /\ shows \cap {"regressed", "localized"} # {}

-----------------------------------------------------------------------------
Goes(place) == pc' = place

(* The process ends with an error; "broke" when the ledger refuses a        *)
(* reservation.                                                             *)
Forgets(place) ==
  /\ Goes(place)
  /\ iteration' = 1 /\ champion' = 0 /\ attempted' = {} /\ offers' = {}
  /\ pick' = NoSource /\ mode' = "none" /\ stage' = "screen"
  /\ asked' = 0 /\ verdict' = "reject"

Dies(place) ==
  /\ Forgets(place)
  /\ UNCHANGED <<extra, resumed, disk, promoted, crashes>>

Keep == UNCHANGED <<resumed, promoted, crashes>>

(* A step that costs units, or those and one more for a second attempt (a   *)
(* repair, a retried trial, a session whose output was invalid).            *)
Pays(units) ==
  \/ remaining' = remaining - units /\ UNCHANGED extra
  \/ remaining' = remaining - units - 1 /\ extra' = extra + 1

Affords(units) == remaining >= units

(* An answer that is not admissible.  It need not be recorded: what it was  *)
(* checked against is durable or only shrinks, so it stays inadmissible.    *)
AnswerInvalid ==
  /\ asked' = asked + 1
  /\ extra' = IF asked = 0 THEN extra + 1 ELSE extra

-----------------------------------------------------------------------------
(* Mutated form: the parent of a cached decision is not compared.           *)
FollowsAnyParent(d) == d.source \in Available

(* validate_cached_main_decision and assert_candidate_extends_champion      *)
Follows(d) == d.source \in Available /\ d.parent = champion

(* Mutated form: a decision that does not follow is made again.             *)
DecidedAndFollows ==
  decisions[iteration] # NoDecision /\ Follows(decisions[iteration])

(* The head of the loop.  A decision on disk skips the check of the budget. *)
Decided == decisions[iteration] # NoDecision

Underfunded == ~Decided /\ remaining < StartUnits(champion)

(* publish_selected; history and dispositions are left out.                 *)
Publish ==
  /\ pc = "head"
  /\ Underfunded \/ Available = {}
  /\ final' = champion
  /\ Goes("published")
  /\ UNCHANGED <<progress, current, review, extra, made, tested, answers,
                 remaining>>
  /\ Keep

FollowDecision ==
  /\ pc = "head" /\ Decided /\ Available # {}
  /\ LET d == decisions[iteration] IN
       \/ /\ Follows(d)
          /\ pick' = d.source /\ mode' = d.mode
          /\ attempted' = attempted \cup {d.source}
          /\ Goes("preflight")
          /\ extra' = 0
          /\ UNCHANGED <<iteration, champion, offers, stage, review, disk>>
          /\ Keep
       \/ ~Follows(d) /\ Dies("down")
  /\ UNCHANGED remaining

(* build_rollout_budget_plan, then the first answer an earlier process got  *)
(* from the main agent that selects an available candidate.                 *)
Plan ==
  /\ pc = "head" /\ ~Decided /\ ~Underfunded /\ Available # {}
  /\ mode' = PlanMode(champion, remaining)
  /\ LET said  == choices[iteration]
         valid == {k \in DOMAIN said : said[k] \in Available}
     IN IF valid = {} THEN Goes("ask") /\ pick' = NoSource
        ELSE Goes("edit") /\ pick' = said[Min(valid)]
  /\ asked' = 0 /\ extra' = 0
  /\ UNCHANGED <<progress, stage, verdict, disk, remaining>>
  /\ Keep

(* One session of the main agent; two invalid answers end the process.      *)
AskMain ==
  /\ pc = "ask" /\ asked < 2 /\ Affords(1)
  /\ remaining' = remaining - 1
  /\ \/ /\ pick' \in Available
        /\ choices' = [choices EXCEPT ![iteration] = Append(@, pick')]
        /\ Goes("edit") /\ UNCHANGED <<asked, extra>>
     \/ AnswerInvalid /\ UNCHANGED <<pc, pick, choices>>
  /\ UNCHANGED <<progress, mode, stage, verdict, decisions, snapshots, tested,
                 answers, final>>
  /\ Keep

MainFails ==
  /\ pc = "ask"
  /\ \/ asked = 2 /\ Dies("down")
     \/ asked < 2 /\ ~Affords(1) /\ Dies("broke")
  /\ UNCHANGED remaining

(* The editor's first or second attempt is materialized under the label of  *)
(* the iteration, and the decision is written.                              *)
Edit ==
  /\ pc = "edit"
  /\ \E units \in 1..2 :
       /\ Affords(units)
       /\ remaining' = remaining - units
       /\ extra' = extra + units - 1
  /\ snapshots' = [snapshots EXCEPT ![iteration] = @ + 1]
  /\ decisions' = [decisions EXCEPT ![iteration] =
                     [source |-> pick, parent |-> champion, mode |-> mode]]
  /\ attempted' = attempted \cup {pick}
  /\ Goes("preflight")
  /\ UNCHANGED <<iteration, champion, offers, current, review, choices, tested,
                 answers, final>>
  /\ Keep

NextIterationWith(v, added) ==
  /\ iteration < MaxIterations
  /\ champion' = v
  /\ offers' = offers \cup added
  /\ iteration' = iteration + 1
  /\ pick' = NoSource /\ mode' = "none" /\ stage' = "screen"
  /\ asked' = 0 /\ verdict' = "reject"
  /\ Goes("head")
  /\ Keep

(* Mutated form: a failed materialization is not counted as an attempt.     *)
EditFailsUnnoticed ==
  /\ pc = "edit"
  /\ \E units \in 0..2 : Affords(units) /\ remaining' = remaining - units
  /\ Goes("head")
  /\ UNCHANGED <<progress, current, review, extra, disk>>
  /\ Keep

(* CandidateMaterializationError: an error of the editor, a refusal of the  *)
(* ledger included.  No decision is written.                                *)
EditFails ==
  /\ pc = "edit"
  /\ \E units \in 0..2 : Affords(units) /\ remaining' = remaining - units
  /\ attempted' = attempted \cup {pick}
  /\ NextIterationWith(champion, {})
  /\ UNCHANGED <<extra, disk>>

(* run_channel_preflight_from_main and validate_channel_preflight.          *)
Preflight ==
  /\ pc = "preflight"
  /\ \/ preflights[iteration] # "none" /\ UNCHANGED <<preflights, remaining>>
     \/ /\ preflights[iteration] = "none" /\ Affords(PreflightUnits)
        /\ remaining' = remaining - PreflightUnits
        /\ \E r \in {"pass", "fail"} :
             preflights' = [preflights EXCEPT ![iteration] = r]
  /\ \/ /\ preflights'[iteration] = "pass" /\ Goes("pair")
        /\ UNCHANGED <<iteration, champion, offers, current, review>>
        /\ Keep
     \/ /\ preflights'[iteration] = "fail"
        /\ NextIterationWith(champion, {})
  /\ UNCHANGED <<attempted, extra, made, pairs, evidence, answers, final>>

(* run_pair_from_main: finished sides are kept, the others must be payable. *)
RunPair ==
  /\ pc = "pair"
  /\ \/ pairs[Here] # 0 /\ UNCHANGED <<pairs, remaining, extra>>
     \/ /\ pairs[Here] = 0
        /\ Pays(PairUnits(stage, champion)) /\ remaining' >= 0
        /\ pairs' = [pairs EXCEPT ![Here] = snapshots[iteration]]
  /\ Goes("analyze")
  /\ UNCHANGED <<progress, current, review, made, preflights, evidence,
                 answers, final>>
  /\ Keep

(* run_comparison and run_post_rollout, both cached once they are done.     *)
Analyze ==
  /\ pc = "analyze"
  /\ \/ evidence[Here] # None /\ UNCHANGED <<evidence, remaining, extra>>
     \/ /\ evidence[Here] = None
        /\ Pays(AnalysisUnits) /\ remaining' >= 0
        /\ \E e \in EvidenceKinds : evidence' = [evidence EXCEPT ![Here] = e]
  /\ asked' = 0
  /\ Goes("review")
  /\ UNCHANGED <<progress, current, verdict, made, preflights, pairs, answers,
                 final>>
  /\ Keep

(* A stage that is not cached and not affordable ends the process.          *)
StageUnfunded ==
  /\ \/ pc = "preflight" /\ preflights[iteration] = "none"
        /\ ~Affords(PreflightUnits)
     \/ pc = "pair" /\ pairs[Here] = 0
        /\ ~Affords(PairUnits(stage, champion))
     \/ pc = "analyze" /\ evidence[Here] = None /\ ~Affords(AnalysisUnits)
  /\ Dies("broke")
  /\ UNCHANGED remaining

-----------------------------------------------------------------------------
(* finalize.  Its own file is only reused when it is newer than the files   *)
(* it rests on; the post analysis has just rewritten two of them, so in the *)
(* loop that never happens.                                                 *)
Recorded(units) ==
  {k \in DOMAIN answers[Here] : Admissible(answers[Here][k], units)}

RecoverReview ==
  /\ pc = "review" /\ asked = 0 /\ Recorded(remaining) # {}
  /\ verdict' = answers[Here][Min(Recorded(remaining))]
  /\ Goes("gate")
  /\ UNCHANGED <<progress, current, asked, extra, disk, remaining>>
  /\ Keep

AskReview ==
  /\ pc = "review" /\ asked < 2 /\ Affords(1)
  /\ asked = 0 => Recorded(remaining) = {}
  /\ remaining' = remaining - 1
  /\ \/ /\ verdict' \in {v \in Verdicts : Admissible(v, remaining - 1)}
        /\ answers' = [answers EXCEPT ![Here] = Append(@, verdict')]
        /\ Goes("gate") /\ UNCHANGED <<asked, extra>>
     \/ AnswerInvalid /\ UNCHANGED <<pc, verdict, answers>>
  /\ UNCHANGED <<progress, current, made, tested, final>>
  /\ Keep

(* deterministic_reject_decision                                            *)
RejectReview ==
  /\ pc = "review" /\ asked = 2
  /\ verdict' = "reject"
  /\ Goes("gate")
  /\ UNCHANGED <<progress, current, asked, extra, disk, remaining>>
  /\ Keep

ReviewUnfunded ==
  /\ pc = "review" /\ asked < 2 /\ ~Affords(1)
  /\ asked = 0 => Recorded(remaining) = {}
  /\ Dies("broke")
  /\ UNCHANGED remaining

-----------------------------------------------------------------------------
(* Mutated form: a clear acceptance of the screen needs no confirmation.    *)
AwaitsConfirmationIfUnclear ==
  Confirmation /\ stage = "screen" /\ verdict = "confirm"

(* The gate: a passed screen is confirmed before it can promote.            *)
AwaitsConfirmation ==
  Confirmation /\ stage = "screen" /\ verdict \in {"accept", "confirm"}

Confirmable ==
  \/ pairs[<<iteration, "confirm">>] # 0
  \/ Affords(ConfirmCost + RetryBuffer)

GoConfirm ==
  /\ pc = "gate" /\ AwaitsConfirmation /\ Confirmable
  /\ stage' = "confirm" /\ asked' = 0 /\ verdict' = "reject" /\ extra' = 0
  /\ Goes("pair")
  /\ UNCHANGED <<progress, pick, mode, disk, remaining>>
  /\ Keep

RejectUnconfirmed ==
  /\ pc = "gate" /\ AwaitsConfirmation /\ ~Confirmable
  /\ NextIterationWith(champion, {})
  /\ UNCHANGED <<attempted, extra, disk, remaining>>

(* advance_cumulative_version, revision_candidate_from_review and           *)
(* replan_candidate_from_review                                             *)
Conclude ==
  /\ pc = "gate" /\ ~AwaitsConfirmation
  /\ iteration < MaxIterations
  /\ IF verdict = "accept"
       THEN champion' = iteration /\ promoted' = promoted \cup {iteration}
       ELSE UNCHANGED <<champion, promoted>>
  /\ offers' = offers \cup
       ({<<verdict, iteration>>} \cap {<<"revise", iteration>>,
                                      <<"replan", iteration>>})
  /\ iteration' = iteration + 1
  /\ pick' = NoSource /\ mode' = "none" /\ stage' = "screen"
  /\ asked' = 0 /\ verdict' = "reject"
  /\ Goes("head")
  /\ UNCHANGED <<attempted, extra, resumed, disk, remaining, crashes>>

-----------------------------------------------------------------------------
(* Units the stage in flight may have taken when the process dies.          *)
InFlight ==
  CASE pc \in {"ask", "review"} -> 1
    [] pc = "edit" -> 2
    [] pc = "preflight" /\ preflights[iteration] = "none" -> PreflightUnits
    [] pc = "pair" /\ pairs[Here] = 0 -> PairUnits(stage, champion)
    [] pc = "analyze" /\ evidence[Here] = None -> AnalysisUnits
    [] OTHER -> 0

(* The process dies, or a stage raises what nothing on the way catches (a   *)
(* pair that stays invalid after its retries, say).                         *)
Crash ==
  /\ pc \notin {"published", "down", "broke"}
  /\ crashes < MaxCrashes /\ crashes' = crashes + 1
  /\ remaining' \in Max({0, remaining - InFlight})..remaining
  /\ Forgets("down")
  /\ UNCHANGED <<extra, resumed, disk, promoted>>

(* The same run id is started again.                                        *)
Restart ==
  /\ pc \in {"down", "broke"}
  /\ Goes("head") /\ resumed' = TRUE /\ extra' = 0
  /\ UNCHANGED <<progress, current, review, disk, remaining, promoted, crashes>>

Step ==
  \/ Publish \/ FollowDecision \/ Plan \/ AskMain \/ MainFails
  \/ Edit \/ EditFails \/ Preflight \/ RunPair \/ Analyze \/ StageUnfunded
  \/ RecoverReview \/ AskReview \/ RejectReview \/ ReviewUnfunded
  \/ GoConfirm \/ RejectUnconfirmed \/ Conclude

Finished == pc = "published" /\ UNCHANGED vars

Next == Step \/ Restart \/ Crash \/ Finished

(* Every wait of the loop has a timeout.  Nobody has to start a run again.  *)
Spec == Init /\ [][Next]_vars /\ WF_vars(Step)

-----------------------------------------------------------------------------
(* The versions a version has grown from, itself included.                  *)
Lineage[v \in Versions] ==
  IF v = 0 THEN {0} ELSE {v} \cup Lineage[decisions[v].parent]

(* docs/architecture.md: a separate confirmation batch is required before   *)
(* promotion.  Whatever verdicts the sessions return and however often the  *)
(* run is replayed, a version is made the parent of another only after some *)
(* process promoted it, and every promoted version won its own confirmation:*)
(* a strict gain, an attributable recovery, no attributable regression.  So *)
(* did every version the champion has grown from.                           *)
ChampionIsConfirmed ==
  /\ champion \in promoted \cup {0}
  /\ \A i \in Iterations : decisions[i].parent \in promoted \cup {0}
  /\ Confirmation => \A v \in promoted :
       LET shows == evidence[<<v, "confirm">>] IN
         {"recovered", "gain"} \subseteq shows /\ "regressed" \notin shows

(* The harness of a promoted version is the one its rollouts ran, although  *)
(* a materialization that is repeated after a crash writes over the         *)
(* snapshot of the same label.                                              *)
ChampionIsAsTested ==
  \A v \in promoted : \A s \in Stages :
    pairs[<<v, s>>] \in {0, snapshots[v]}

(* A version becomes champion only in place of the very version it was made *)
(* from and compared with, also when the decision that made it is older     *)
(* than the process that promotes it.                                       *)
PromotesChildOfChampion ==
  [][champion' \notin {champion, 0} =>
       decisions'[champion'].parent = champion]_vars

(* One proposal is tested once: two iterations a process has gone through   *)
(* never rest on the same source, replayed decisions included.              *)
TriedOnce ==
  \A i, j \in Iterations :
    /\ i < j /\ j < iteration /\ decisions[i] # NoDecision
    /\ decisions[i].source = decisions[j].source
    => i = j

(* docs/architecture_zh.md: no round is started that runs out of units half *)
(* way.  Without a restart an iteration or a confirmation that was found    *)
(* affordable is refused by the ledger only when second attempts have taken *)
(* more than the retry buffer.                                              *)
AffordedStagesFinish == pc = "broke" /\ ~resumed => extra > RetryBuffer

(* The loop comes to an end: by publication, or by an error that ends the   *)
(* process.                                                                 *)
RunEnds == (pc = "head") ~> (pc \in {"published", "down", "broke"})

(* docs/architecture_zh.md: versions only advance along the champion chain. *)
(* A champion some process of the run has promoted is part of what the run  *)
(* publishes.                                                               *)
PromotionSurvives == final # -1 => promoted \subseteq Lineage[final]

(* The invariant of the loop: its types, champions that are the harness     *)
(* that was tested, and proposals that are tried once.                      *)
LoopInv ==
  /\ LoopTypeOK
  /\ ChampionIsAsTested
  /\ TriedOnce
=============================================================================
