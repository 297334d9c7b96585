------------------------- MODULE EvolutionLoopProofs -------------------------
(* The evolution loop for any portfolio, prices, budget, number of          *)
(* iterations and crashes.  First: types.  Then what a decision on disk     *)
(* says about the iteration it belongs to, what promotions rest on, and     *)
(* what is left of the units a stage was started with.                      *)
EXTENDS EvolutionLoop, WellFoundedInduction, TLAPS

(* The places where the candidate of an iteration exists.                   *)
Testing == {"preflight", "pair", "analyze", "review", "gate"}
Over    == {"published", "down", "broke"}

(* The decision of the iteration is the one this process works on, and no   *)
(* iteration before it rests on the same source.                            *)
Chosen ==
  /\ pc \in {"ask", "edit"} => decisions[iteration] = NoDecision
  /\ pc = "edit" => pick \in Sources /\ pick \notin attempted
  /\ pc \in Testing =>
       /\ pick \in Sources /\ pick \in attempted
       /\ decisions[iteration].source = pick
       /\ decisions[iteration].parent = champion
       /\ \A i \in Iterations : i < iteration => decisions[i].source # pick
  /\ \A i \in Iterations :
       i < iteration /\ decisions[i] # NoDecision
         => decisions[i].source \in attempted
  /\ TriedOnce

(* A rollout is made after the decision, and the snapshot is not written    *)
(* again after it.                                                          *)
Tested ==
  \A i \in Iterations : \A s \in Stages : pairs[<<i, s>>] # 0 =>
    decisions[i] # NoDecision /\ pairs[<<i, s>>] = snapshots[i]

(* An acceptance at the gate is one the evidence admits.                    *)
Earned ==
  /\ pc = "gate" /\ verdict = "accept" =>
       LET shows == evidence[Here] IN
         /\ "recovered" \in shows /\ "regressed" \notin shows
         /\ stage = "confirm" => "gain" \in shows
  /\ ChampionIsConfirmed

(* What a process that was not started again has in front of it is new.     *)
Fresh ==
  ~resumed /\ pc \notin Over =>
    /\ \A i \in Iterations :
         i > iteration \/ (i = iteration /\ pc \notin Testing)
           => decisions[i] = NoDecision
    /\ stage = "screen" => pairs[<<iteration, "confirm">>] = 0

(* The units the rest of a stage needs without second attempts.             *)
Owed ==
  CASE pc = "ask"       -> ScreenCost(champion)
    [] pc = "edit"      -> ScreenCost(champion) - 1
    [] pc = "preflight" -> ScreenCost(champion) - 2
    [] pc = "pair"      -> PairUnits(stage, champion) + AnalysisUnits + 1
    [] pc = "analyze"   -> AnalysisUnits + 1
    [] OTHER            -> 1

Funded ==
  /\ pc \notin {"pair", "analyze", "review", "gate"} => stage = "screen"
  /\ ~resumed /\ pc \in {"ask", "edit", "preflight", "pair", "analyze",
                        "review"}
       => \/ pc \in {"ask", "review"} /\ asked = 2
          \/ remaining + extra >= Owed + RetryBuffer
  /\ AffordedStagesFinish

-----------------------------------------------------------------------------
LEMMA MinIsLeast ==
  ASSUME NEW S \in SUBSET Nat, S # {}
  PROVE  Min(S) \in S /\ \A y \in S : Min(S) <= y
<1>1. OpToRel(<, Nat) = {ss \in Nat \X Nat : ss[1] < ss[2]}
  BY Zenon DEF OpToRel
<1>. DEFINE less == {ss \in Nat \X Nat : ss[1] < ss[2]}
<1>2. IsWellFoundedOn(less, Nat)
  BY ONLY <1>1, NatLessThanWellFounded, Zenon
<1>3. PICK x \in S : \A y \in S : <<y, x>> \notin less
  BY <1>2, WFMin, Zenon
<1>4. \A y \in S : x <= y
  <2>. SUFFICES ASSUME NEW y \in S, ~(x <= y) PROVE FALSE
    OBVIOUS
  <2>1. x \in Nat /\ y \in Nat /\ y < x
    OBVIOUS
  <2>2. <<y, x>> \in less
    BY <2>1
  <2>. QED  BY <1>3, <2>2
<1>. QED  BY <1>4 DEF Min

LEMMA Prices ==
  /\ Budget \in Nat /\ RetryBuffer \in Nat /\ MaxCrashes \in Nat
  /\ PreflightUnits \in Nat /\ PreflightUnits > 0
  /\ RolloutUnits \in Nat /\ RolloutUnits > 0
  /\ AnalysisUnits \in Nat /\ AnalysisUnits > 0
  /\ MaxIterations \in Nat /\ MaxIterations > 0
BY LoopAssumption

LEMMA PairUnitsAreUnits ==
  \A s, p : PairUnits(s, p) \in Nat /\ PairUnits(s, p) > 0
BY Prices DEF PairUnits

LEMMA NothingIsNoSource == NoSource \notin Sources /\ Base \subseteq Sources
BY DEF NoSource, Sources, Base

LEMMA AvailableAreSources ==
  ASSUME LoopTypeOK
  PROVE  Available \subseteq Sources /\ Available \cap attempted = {}
BY NothingIsNoSource DEF LoopTypeOK, Available, Preferred, Untried

(* The first recorded answer that selects an available candidate.           *)
LEMMA FirstIsAvailable ==
  ASSUME LoopTypeOK,
         {k \in DOMAIN choices[iteration] :
            choices[iteration][k] \in Available} # {}
  PROVE  choices[iteration][Min({k \in DOMAIN choices[iteration] :
            choices[iteration][k] \in Available})] \in Available
<1>. DEFINE valid == {k \in DOMAIN choices[iteration] :
                        choices[iteration][k] \in Available}
<1>1. valid \in SUBSET Nat
  BY DEF LoopTypeOK
<1>2. Min(valid) \in valid
  BY <1>1, MinIsLeast
<1>. QED  BY <1>2

LEMMA FirstIsRecorded ==
  ASSUME LoopTypeOK, Recorded(remaining) # {}
  PROVE  /\ answers[Here][Min(Recorded(remaining))] \in Verdicts
         /\ Admissible(answers[Here][Min(Recorded(remaining))], remaining)
<1>1. Here \in Iterations \X Stages
  BY DEF LoopTypeOK, Here
<1>2. answers[Here] \in Seq(Verdicts)
  BY <1>1 DEF LoopTypeOK
<1>3. Recorded(remaining) \in SUBSET Nat
  BY <1>2 DEF Recorded
<1>4. PICK k \in Recorded(remaining) : k = Min(Recorded(remaining))
  BY <1>3, MinIsLeast
<1>5. k \in DOMAIN answers[Here] /\ Admissible(answers[Here][k], remaining)
  BY DEF Recorded
<1>6. answers[Here][k] \in Verdicts
  BY <1>2, <1>5
<1>. QED  BY <1>4, <1>5, <1>6

-----------------------------------------------------------------------------
LEMMA InitTyped == Init => LoopTypeOK
<1>. SUFFICES ASSUME Init PROVE LoopTypeOK
  OBVIOUS
<1>1. 1 \in Iterations /\ 0 \in Versions
  BY Prices DEF Iterations, Versions
<1>2. /\ choices \in [Iterations -> Seq(Sources)]
      /\ answers \in [Iterations \X Stages -> Seq(Verdicts)]
  BY DEF Init
<1>3. /\ decisions \in [Iterations ->
           [source : Sources, parent : Versions, mode : Modes]
             \cup {NoDecision}]
      /\ snapshots \in [Iterations -> Nat]
      /\ preflights \in [Iterations -> {"none", "pass", "fail"}]
      /\ pairs \in [Iterations \X Stages -> Nat]
      /\ evidence \in [Iterations \X Stages -> EvidenceKinds \cup {None}]
  BY DEF Init
<1>4. /\ iteration \in Iterations /\ champion \in Versions
      /\ attempted \subseteq Sources /\ offers \subseteq Sources
      /\ pick \in Sources \cup {NoSource} /\ mode \in Modes
      /\ stage \in Stages /\ verdict \in Verdicts
      /\ promoted \subseteq Iterations
  BY <1>1 DEF Init, Modes, Stages, Verdicts
<1>5. asked \in 0..2 /\ extra \in Nat /\ crashes \in 0..MaxCrashes
  BY Prices DEF Init
<1>6. resumed \in BOOLEAN /\ final \in Versions \cup {-1}
  BY DEF Init
<1>7. remaining \in 0..Budget
  BY Prices DEF Init
<1>. QED
  BY <1>2, <1>3, <1>4, <1>5, <1>6, <1>7 DEF Init, LoopTypeOK

LEMMA ForgettingIsTyped ==
  ASSUME LoopTypeOK, NEW place, Forgets(place),
         place \in {"down", "broke"}, remaining' \in 0..Budget,
         UNCHANGED <<extra, resumed, disk, promoted>>,
         crashes' \in 0..MaxCrashes
  PROVE  LoopTypeOK'
<1>1. 1 \in Iterations /\ 0 \in Versions
  BY Prices DEF Iterations, Versions
<1>. QED
  BY <1>1 DEF LoopTypeOK, Forgets, Goes, disk, made, tested, Stages, Verdicts,
              Modes

LEMMA ProcessEndsTyped ==
  ASSUME LoopTypeOK, NEW place \in {"down", "broke"}, Dies(place),
         UNCHANGED remaining
  PROVE  LoopTypeOK'
<1>1. remaining' \in 0..Budget /\ crashes' \in 0..MaxCrashes
  BY DEF LoopTypeOK, Dies
<1>. QED
  BY <1>1, ForgettingIsTyped DEF Dies

LEMMA NextIterationTyped ==
  ASSUME LoopTypeOK, NEW v \in Versions, NEW added \in SUBSET Sources,
         NextIterationWith(v, added),
         attempted' \in SUBSET Sources, extra' \in Nat,
         remaining' \in 0..Budget,
         UNCHANGED <<made, pairs, evidence, answers, final>>,
         preflights' \in [Iterations -> {"none", "pass", "fail"}]
  PROVE  LoopTypeOK'
<1>1. iteration' \in Iterations
  BY Prices DEF NextIterationWith, LoopTypeOK, Iterations
<1>. QED
  BY <1>1 DEF LoopTypeOK, NextIterationWith, Keep, Goes, made, Stages, Verdicts,
              Modes

LEMMA HeadTyped ==
  ASSUME LoopTypeOK, Publish \/ FollowDecision \/ Plan
  PROVE  LoopTypeOK'
<1>1. CASE Publish
  BY <1>1 DEF Publish, Keep, Goes, LoopTypeOK, progress, current, review, made,
              tested
<1>2. CASE FollowDecision
  <2>. DEFINE d == decisions[iteration]
  <2>1. CASE ~Follows(d)
    BY <1>2, <2>1, ProcessEndsTyped DEF FollowDecision
  <2>2. CASE Follows(d)
    <3>1. d \in [source : Sources, parent : Versions, mode : Modes]
      BY <1>2 DEF FollowDecision, Decided, LoopTypeOK
    <3>. QED
      BY <1>2, <2>2, <3>1
         DEF FollowDecision, Keep, Goes, LoopTypeOK, review, disk, made, tested,
             Dies, Forgets
  <2>. QED  BY <2>1, <2>2
<1>3. CASE Plan
  <2>1. mode' \in Modes
    BY <1>3 DEF Plan, PlanMode, Modes
  <2>2. pick' \in Sources \cup {NoSource} /\ pc' \in {"ask", "edit"}
    BY <1>3, AvailableAreSources, FirstIsAvailable DEF Plan, Goes
  <2>. QED
    BY <1>3, <2>1, <2>2
       DEF Plan, Keep, LoopTypeOK, progress, disk, made, tested
<1>. QED  BY <1>1, <1>2, <1>3

LEMMA AskingTyped ==
  ASSUME LoopTypeOK, AskMain \/ MainFails
  PROVE  LoopTypeOK'
<1>1. CASE AskMain
  <2>1. remaining' \in 0..Budget
    BY <1>1, Prices DEF AskMain, Affords, LoopTypeOK
  <2>2. CASE AnswerInvalid /\ UNCHANGED <<pc, pick, choices>>
    <3>1. asked' \in 0..2 /\ extra' \in Nat
      BY <1>1, <2>2 DEF AskMain, AnswerInvalid, LoopTypeOK
    <3>. QED
      BY <1>1, <2>1, <2>2, <3>1
         DEF AskMain, LoopTypeOK, Keep, progress, tested
  <2>3. CASE /\ pick' \in Available
             /\ choices' = [choices EXCEPT ![iteration] = Append(@, pick')]
             /\ Goes("edit") /\ UNCHANGED <<asked, extra>>
    <3>1. pick' \in Sources
      BY <2>3, AvailableAreSources
    <3>2. choices' \in [Iterations -> Seq(Sources)]
      BY <2>3, <3>1 DEF LoopTypeOK
    <3>. QED
      BY <1>1, <2>1, <2>3, <3>1, <3>2
         DEF AskMain, LoopTypeOK, Keep, progress, tested, Goes
  <2>. QED  BY <1>1, <2>2, <2>3 DEF AskMain
<1>2. CASE MainFails
  BY <1>2, ProcessEndsTyped DEF MainFails
<1>. QED  BY <1>1, <1>2

LEMMA EditingTyped ==
  ASSUME LoopTypeOK, Chosen, Edit \/ EditFails
  PROVE  LoopTypeOK'
<1>1. pick \in Sources
  BY DEF Chosen, Edit, EditFails
<1>2. CASE Edit
  <2>1. remaining' \in 0..Budget /\ extra' \in Nat
    BY <1>2, Prices DEF Edit, Affords, LoopTypeOK
  <2>2. snapshots' \in [Iterations -> Nat]
    BY <1>2 DEF Edit, LoopTypeOK
  <2>3. decisions' \in [Iterations ->
          [source : Sources, parent : Versions, mode : Modes]
            \cup {NoDecision}]
    BY <1>1, <1>2 DEF Edit, LoopTypeOK
  <2>. QED
    BY <1>1, <1>2, <2>1, <2>2, <2>3
       DEF Edit, Keep, Goes, LoopTypeOK, current, review, tested
<1>3. CASE EditFails
  <2>1. remaining' \in 0..Budget
    BY <1>3, Prices DEF EditFails, Affords, LoopTypeOK
  <2>2. champion \in Versions /\ extra' \in Nat /\ attempted' \subseteq Sources
    BY <1>1, <1>3 DEF EditFails, LoopTypeOK
  <2>3. /\ UNCHANGED <<made, pairs, evidence, answers, final>>
        /\ preflights' \in [Iterations -> {"none", "pass", "fail"}]
    BY <1>3 DEF EditFails, disk, tested, LoopTypeOK
  <2>. QED
    BY <1>3, <2>1, <2>2, <2>3, NextIterationTyped DEF EditFails
<1>. QED  BY <1>2, <1>3

LEMMA TestingTyped ==
  ASSUME LoopTypeOK, Preflight \/ RunPair \/ Analyze \/ StageUnfunded
  PROVE  LoopTypeOK'
<1>. Here \in Iterations \X Stages
  BY DEF Here, LoopTypeOK
<1>1. CASE Preflight
  <2>1. remaining' \in 0..Budget
    BY <1>1, Prices DEF Preflight, Affords, LoopTypeOK
  <2>2. preflights' \in [Iterations -> {"none", "pass", "fail"}]
    BY <1>1 DEF Preflight, LoopTypeOK
  <2>3. /\ attempted' \in SUBSET Sources /\ extra' \in Nat
        /\ UNCHANGED <<made, pairs, evidence, answers, final>>
    BY <1>1 DEF Preflight, LoopTypeOK
  <2>4. CASE NextIterationWith(champion, {})
    <3>1. champion \in Versions
      BY DEF LoopTypeOK
    <3>. QED  BY <2>1, <2>2, <2>3, <2>4, <3>1, NextIterationTyped
  <2>5. CASE /\ Goes("pair")
             /\ UNCHANGED <<iteration, champion, offers, current, review>>
             /\ Keep
    BY <2>1, <2>2, <2>3, <2>5
       DEF LoopTypeOK, Goes, current, review, Keep, made
  <2>. QED  BY <1>1, <2>4, <2>5 DEF Preflight
<1>2. CASE RunPair
  <2>1. PairUnits(stage, champion) \in Nat
    BY PairUnitsAreUnits
  <2>2. remaining' \in 0..Budget /\ extra' \in Nat
    BY <1>2, <2>1, Prices DEF RunPair, Pays, LoopTypeOK
  <2>3. pairs' \in [Iterations \X Stages -> Nat]
    BY <1>2 DEF RunPair, LoopTypeOK
  <2>. QED
    BY <1>2, <2>2, <2>3
       DEF RunPair, LoopTypeOK, Goes, Keep, progress, current, review, made
<1>3. CASE Analyze
  <2>1. remaining' \in 0..Budget /\ extra' \in Nat
    BY <1>3, Prices DEF Analyze, Pays, LoopTypeOK
  <2>2. evidence' \in [Iterations \X Stages -> EvidenceKinds \cup {None}]
    BY <1>3 DEF Analyze, LoopTypeOK
  <2>. QED
    BY <1>3, <2>1, <2>2
       DEF Analyze, LoopTypeOK, Goes, Keep, progress, current, made
<1>4. CASE StageUnfunded
  BY <1>4, ProcessEndsTyped DEF StageUnfunded
<1>. QED  BY <1>1, <1>2, <1>3, <1>4

LEMMA ReviewTyped ==
  ASSUME LoopTypeOK,
         RecoverReview \/ AskReview \/ RejectReview \/ ReviewUnfunded
  PROVE  LoopTypeOK'
<1>. Here \in Iterations \X Stages
  BY DEF Here, LoopTypeOK
<1>1. CASE RecoverReview
  BY <1>1, FirstIsRecorded
     DEF RecoverReview, LoopTypeOK, Goes, Keep, progress, current, disk, made,
         tested
<1>2. CASE AskReview
  <2>1. remaining' \in 0..Budget
    BY <1>2, Prices DEF AskReview, Affords, LoopTypeOK
  <2>2. CASE AnswerInvalid /\ UNCHANGED <<pc, verdict, answers>>
    <3>1. asked' \in 0..2 /\ extra' \in Nat
      BY <1>2, <2>2 DEF AskReview, AnswerInvalid, LoopTypeOK
    <3>. QED
      BY <1>2, <2>1, <2>2, <3>1
         DEF AskReview, LoopTypeOK, Keep, progress, current, made, tested
  <2>3. CASE /\ verdict' \in {v \in Verdicts : Admissible(v, remaining - 1)}
             /\ answers' = [answers EXCEPT ![Here] = Append(@, verdict')]
             /\ Goes("gate") /\ UNCHANGED <<asked, extra>>
    <3>1. verdict' \in Verdicts
      BY <2>3
    <3>2. answers' \in [Iterations \X Stages -> Seq(Verdicts)]
      BY <2>3, <3>1 DEF LoopTypeOK
    <3>. QED
      BY <1>2, <2>1, <2>3, <3>1, <3>2
         DEF AskReview, LoopTypeOK, Keep, progress, current, made, tested, Goes
  <2>. QED  BY <1>2, <2>2, <2>3 DEF AskReview
<1>3. CASE RejectReview
  BY <1>3 DEF RejectReview, LoopTypeOK, Goes, Keep, progress, current, disk,
              made, tested, Verdicts
<1>4. CASE ReviewUnfunded
  BY <1>4, ProcessEndsTyped DEF ReviewUnfunded
<1>. QED  BY <1>1, <1>2, <1>3, <1>4

LEMMA GateTyped ==
  ASSUME LoopTypeOK, GoConfirm \/ RejectUnconfirmed \/ Conclude
  PROVE  LoopTypeOK'
<1>1. CASE GoConfirm
  BY <1>1 DEF GoConfirm, LoopTypeOK, Goes, Keep, progress, disk, made, tested,
              Stages, Verdicts
<1>2. CASE RejectUnconfirmed
  BY <1>2, NextIterationTyped
     DEF RejectUnconfirmed, LoopTypeOK, disk, made, tested
<1>3. CASE Conclude
  <2>1. /\ iteration' \in Iterations
        /\ iteration \in Iterations /\ iteration \in Versions
    BY <1>3, Prices DEF Conclude, LoopTypeOK, Iterations, Versions
  <2>2. champion' \in Versions /\ promoted' \subseteq Iterations
    <3>1. CASE champion' = iteration /\ promoted' = promoted \cup {iteration}
      BY <2>1, <3>1 DEF LoopTypeOK
    <3>2. CASE UNCHANGED <<champion, promoted>>
      BY <3>2 DEF LoopTypeOK
    <3>. QED  BY <1>3, <3>1, <3>2 DEF Conclude
  <2>3. offers' \subseteq Sources
    BY <1>3 DEF Conclude, LoopTypeOK, Sources
  <2>. QED
    BY <1>3, <2>1, <2>2, <2>3
       DEF Conclude, LoopTypeOK, Goes, disk, made, tested, Stages, Verdicts,
           Modes
<1>. QED  BY <1>1, <1>2, <1>3

LEMMA FailureTyped ==
  ASSUME LoopTypeOK, Crash \/ Restart
  PROVE  LoopTypeOK'
<1>1. CASE Crash
  <2>1. InFlight \in Nat
    BY Prices, PairUnitsAreUnits DEF InFlight
  <2>2. \A n \in Nat : \A k \in Nat : Max({0, n - k}) \in 0..n
    <3>. SUFFICES ASSUME NEW n \in Nat, NEW k \in Nat
                  PROVE  Max({0, n - k}) \in 0..n
      OBVIOUS
    <3>1. \E x \in {0, n - k} : \A y \in {0, n - k} : x >= y
      OBVIOUS
    <3>2. \E x \in {0, n - k} :
            x = Max({0, n - k}) /\ \A y \in {0, n - k} : x >= y
      BY <3>1 DEF Max
    <3>. QED  BY <3>2
  <2>3. remaining' \in 0..Budget
    <3>1. remaining \in Nat /\ remaining <= Budget
      BY Prices DEF LoopTypeOK
    <3>2. PICK m \in 0..remaining : m = Max({0, remaining - InFlight})
      BY <2>1, <2>2, <3>1
    <3>3. remaining' \in m..remaining
      BY <1>1, <3>2 DEF Crash
    <3>. QED  BY <3>1, <3>2, <3>3, Prices
  <2>4. crashes' \in 0..MaxCrashes
    BY <1>1, Prices DEF Crash, LoopTypeOK
  <2>. QED
    BY <1>1, <2>3, <2>4, ForgettingIsTyped DEF Crash
<1>2. CASE Restart
  BY <1>2 DEF Restart, LoopTypeOK, Goes, progress, current, review, disk, made,
              tested
<1>. QED  BY <1>1, <1>2

LEMMA LoopStepTyped ==
  ASSUME LoopTypeOK, Chosen, [Next]_vars
  PROVE  LoopTypeOK'
<1>1. CASE Finished \/ UNCHANGED vars
  BY <1>1 DEF Finished, LoopTypeOK, vars, progress, current, review, disk, made,
              tested
<1>. QED
  BY <1>1, HeadTyped, AskingTyped, EditingTyped, TestingTyped, ReviewTyped,
     GateTyped, FailureTyped DEF Next, Step


-----------------------------------------------------------------------------
(* The decision of an iteration and its source.                             *)
LEMMA DecisionsHaveSources ==
  ASSUME LoopTypeOK
  PROVE  /\ \A i \in Iterations : \/ decisions[i] = NoDecision
                                  \/ decisions[i].source \in Sources
         /\ \A i \in Iterations :
              decisions[i] = NoDecision => decisions[i].source \notin Sources
         /\ \A i \in Iterations : decisions[i].parent \in Versions
BY NothingIsNoSource, Prices DEF LoopTypeOK, NoDecision, Versions

(* The steps between the first test of a candidate and its gate.            *)
LEMMA TestingKeeps ==
  ASSUME LoopTypeOK, Chosen,
         UNCHANGED <<progress, pick, decisions>>,
         pc \in Testing, pc' \in Testing
  PROVE  Chosen'
BY DEF Chosen, TriedOnce, progress, Testing

LEMMA ForgettingKeeps ==
  ASSUME LoopTypeOK, NEW place \in {"down", "broke"}, Forgets(place),
         UNCHANGED decisions
  PROVE  Chosen'
<1>1. iteration' = 1 /\ pc' \in {"down", "broke"}
  BY DEF Forgets, Goes
<1>2. \A i \in Iterations : ~(i < 1)
  BY DEF Iterations
<1>. QED
  BY <1>1, <1>2 DEF Chosen, TriedOnce, Testing, Iterations

LEMMA NextIterationKeeps ==
  ASSUME LoopTypeOK, Chosen,
         UNCHANGED decisions,
         iteration' = iteration + 1, pc' = "head",
         attempted \subseteq attempted',
         pc = "edit" \/ pc \in Testing
  PROVE  Chosen'
<1>1. iteration \in Iterations /\ Iterations \subseteq Nat
  BY DEF LoopTypeOK, Iterations
<1>2. \A i \in Iterations : i < iteration' <=> i < iteration \/ i = iteration
  BY <1>1
<1>3. \A i \in Iterations : i < iteration' /\ decisions[i] # NoDecision
        => decisions[i].source \in attempted'
  BY <1>1, <1>2 DEF Chosen
<1>4. ASSUME NEW i \in Iterations, i < iteration, decisions[i] # NoDecision
      PROVE  decisions[i].source # decisions[iteration].source
  BY <1>1, <1>4, DecisionsHaveSources DEF Chosen
<1>5. TriedOnce'
  <2>. SUFFICES ASSUME NEW i \in Iterations, NEW j \in Iterations,
                       i < j, j < iteration', decisions[i] # NoDecision,
                       decisions[i].source = decisions[j].source
                PROVE  FALSE
    BY DEF TriedOnce
  <2>1. CASE j = iteration
    BY <1>4, <2>1
  <2>2. CASE j < iteration
    BY <1>1, <2>2 DEF Chosen, TriedOnce
  <2>. QED  BY <1>2, <2>1, <2>2
<1>. QED
  BY <1>3, <1>5 DEF Chosen, Testing

LEMMA ChosenAtHead ==
  ASSUME LoopTypeOK, Chosen, Publish \/ FollowDecision \/ Plan \/ Restart
  PROVE  Chosen'
<1>1. CASE Publish
  BY <1>1 DEF Publish, Goes, Chosen, TriedOnce, Testing, progress, made
<1>2. CASE FollowDecision
  <2>. DEFINE d == decisions[iteration]
  <2>1. CASE ~Follows(d)
    <3>1. Forgets("down") /\ UNCHANGED decisions
      BY <1>2, <2>1 DEF FollowDecision, Dies, disk, made
    <3>. QED  BY <3>1, ForgettingKeeps
  <2>2. CASE Follows(d)
    <3>1. /\ d.source \in Sources /\ d.source \notin attempted
          /\ d.parent = champion
      BY <2>2, AvailableAreSources DEF Follows
    <3>2. \A i \in Iterations : i < iteration => decisions[i].source # d.source
      BY <3>1, DecisionsHaveSources DEF Chosen
    <3>. QED
      BY <1>2, <2>2, <3>1, <3>2
         DEF FollowDecision, Dies, Goes, Chosen, TriedOnce, Testing, disk, made
  <2>. QED  BY <2>1, <2>2
<1>3. CASE Plan
  <2>1. decisions[iteration] = NoDecision
    BY <1>3 DEF Plan, Decided
  <2>2. /\ pc' \in {"ask", "edit"}
        /\ pc' = "edit" => pick' \in Sources /\ pick' \notin attempted
    BY <1>3, AvailableAreSources, FirstIsAvailable DEF Plan, Goes
  <2>. QED
    BY <1>3, <2>1, <2>2
       DEF Plan, Chosen, TriedOnce, Testing, progress, disk, made
<1>4. CASE Restart
  BY <1>4 DEF Restart, Goes, Chosen, TriedOnce, Testing, progress, disk, made
<1>. QED  BY <1>1, <1>2, <1>3, <1>4

LEMMA ChosenInIteration ==
  ASSUME LoopTypeOK, Chosen, AskMain \/ Edit \/ EditFails
  PROVE  Chosen'
<1>1. CASE AskMain
  <2>1. /\ pc' \in {"ask", "edit"}
        /\ pc' = "edit" => pick' \in Sources /\ pick' \notin attempted
    BY <1>1, AvailableAreSources DEF AskMain, Goes
  <2>. QED
    BY <1>1, <2>1 DEF AskMain, Chosen, TriedOnce, Testing, progress
<1>2. CASE Edit
  <2>1. /\ decisions[iteration] = NoDecision
        /\ pick \in Sources /\ pick \notin attempted
    BY <1>2 DEF Edit, Chosen
  <2>2. \A i \in Iterations : i < iteration => decisions[i].source # pick
    BY <2>1, DecisionsHaveSources DEF Chosen
  <2>3. iteration \in Iterations /\ Iterations \subseteq Nat
    BY DEF LoopTypeOK, Iterations
  <2>4. /\ \A i \in Iterations : i < iteration => decisions'[i] = decisions[i]
        /\ decisions'[iteration] =
             [source |-> pick, parent |-> champion, mode |-> mode]
    BY <1>2, <2>3 DEF Edit, LoopTypeOK
  <2>5. /\ UNCHANGED <<iteration, champion, pick>>
        /\ pc' = "preflight" /\ attempted' = attempted \cup {pick}
    BY <1>2 DEF Edit, Goes, current
  <2>6. TriedOnce'
    BY <2>3, <2>4, <2>5 DEF Chosen, TriedOnce
  <2>. QED
    BY <2>1, <2>2, <2>3, <2>4, <2>5, <2>6 DEF Chosen, Testing
<1>3. CASE EditFails
  BY <1>3, NextIterationKeeps
     DEF EditFails, NextIterationWith, Goes, disk, made
<1>. QED  BY <1>1, <1>2, <1>3

LEMMA ChosenInTests ==
  ASSUME LoopTypeOK, Chosen,
         \/ Preflight \/ RunPair \/ Analyze
         \/ RecoverReview \/ AskReview \/ RejectReview
         \/ GoConfirm \/ RejectUnconfirmed \/ Conclude
  PROVE  Chosen'
<1>1. CASE RunPair \/ Analyze
  BY <1>1, TestingKeeps
     DEF RunPair, Analyze, Goes, Testing, current, made
<1>2. CASE RecoverReview \/ AskReview \/ RejectReview
  BY <1>2, TestingKeeps
     DEF RecoverReview, AskReview, RejectReview, Goes, Testing, current, made,
         disk
<1>3. CASE GoConfirm
  BY <1>3, TestingKeeps DEF GoConfirm, Goes, Testing, made, disk
<1>4. CASE RejectUnconfirmed \/ Conclude
  BY <1>4, NextIterationKeeps
     DEF RejectUnconfirmed, Conclude, NextIterationWith, Goes, Testing, made,
         disk
<1>5. CASE Preflight
  <2>1. UNCHANGED <<attempted, decisions>> /\ pc = "preflight"
    BY <1>5 DEF Preflight, made
  <2>2. CASE NextIterationWith(champion, {})
    BY <2>1, <2>2, NextIterationKeeps DEF NextIterationWith, Goes, Testing
  <2>3. CASE /\ Goes("pair")
             /\ UNCHANGED <<iteration, champion, offers, current, review>>
    BY <2>1, <2>3, TestingKeeps DEF Goes, Testing, progress, current
  <2>. QED  BY <1>5, <2>2, <2>3 DEF Preflight
<1>. QED  BY <1>1, <1>2, <1>3, <1>4, <1>5

LEMMA ChosenStep ==
  ASSUME LoopTypeOK, Chosen, [Next]_vars
  PROVE  Chosen'
<1>1. CASE Finished \/ UNCHANGED vars
  BY <1>1 DEF Finished, Chosen, TriedOnce, vars, progress, current, disk, made
<1>2. CASE MainFails \/ StageUnfunded \/ ReviewUnfunded \/ Crash
  <2>1. PICK place \in {"down", "broke"} : Forgets(place)
    BY <1>2 DEF MainFails, StageUnfunded, ReviewUnfunded, Crash, Dies
  <2>2. UNCHANGED decisions
    BY <1>2 DEF MainFails, StageUnfunded, ReviewUnfunded, Crash, Dies, disk,
                made
  <2>. QED  BY <2>1, <2>2, ForgettingKeeps
<1>. QED
  BY <1>1, <1>2, ChosenAtHead, ChosenInIteration, ChosenInTests DEF Next, Step


-----------------------------------------------------------------------------
(* Only Edit writes decisions and snapshots, only RunPair writes pairs,     *)
(* only Analyze writes evidence, only Conclude promotes.                    *)
LEMMA WhoWrites ==
  ASSUME [Next]_vars
  PROVE  /\ ~Edit => UNCHANGED <<decisions, snapshots>>
         /\ ~RunPair => UNCHANGED pairs
         /\ ~Analyze => UNCHANGED evidence
         /\ ~Conclude => UNCHANGED promoted
<1>1. CASE UNCHANGED vars \/ Finished \/ Restart \/ Crash
  BY <1>1 DEF Finished, Restart, Crash, vars, disk, made, tested
<1>2. CASE Publish \/ FollowDecision \/ Plan \/ AskMain \/ MainFails
  BY <1>2 DEF Publish, FollowDecision, Plan, AskMain, MainFails, Dies, Keep,
              disk, made, tested
<1>3. CASE Edit \/ EditFails \/ Preflight \/ RunPair \/ Analyze
  BY <1>3 DEF Edit, EditFails, Preflight, RunPair, Analyze, NextIterationWith,
              Keep, disk, made, tested
<1>4. CASE StageUnfunded \/ RecoverReview \/ AskReview \/ RejectReview
           \/ ReviewUnfunded
  BY <1>4 DEF StageUnfunded, RecoverReview, AskReview, RejectReview,
              ReviewUnfunded, Dies, Keep, disk, made, tested
<1>5. CASE GoConfirm \/ RejectUnconfirmed \/ Conclude
  BY <1>5 DEF GoConfirm, RejectUnconfirmed, Conclude, NextIterationWith, Keep,
              disk, made, tested
<1>. QED  BY <1>1, <1>2, <1>3, <1>4, <1>5 DEF Next, Step

LEMMA TestedStep ==
  ASSUME LoopTypeOK, Chosen, Tested, [Next]_vars
  PROVE  Tested'
<1>1. CASE Edit
  <2>1. /\ decisions[iteration] = NoDecision /\ pick \in Sources
        /\ UNCHANGED pairs
    BY <1>1 DEF Edit, Chosen, tested
  <2>2. /\ \A i \in Iterations \ {iteration} :
             decisions'[i] = decisions[i] /\ snapshots'[i] = snapshots[i]
    BY <1>1 DEF Edit, LoopTypeOK
  <2>3. \A s \in Stages : pairs[<<iteration, s>>] = 0
    BY <2>1 DEF Tested, LoopTypeOK
  <2>. QED  BY <2>1, <2>2, <2>3 DEF Tested
<1>2. CASE RunPair
  <2>1. UNCHANGED <<decisions, snapshots>>
    BY <1>2 DEF RunPair, made
  <2>2. decisions[iteration] # NoDecision /\ iteration \in Iterations
    BY <1>2, DecisionsHaveSources DEF RunPair, Chosen, Testing, LoopTypeOK
  <2>3. \/ UNCHANGED pairs
        \/ pairs' =
             [pairs EXCEPT ![<<iteration, stage>>] = snapshots[iteration]]
    BY <1>2 DEF RunPair, Here
  <2>4. ASSUME NEW i \in Iterations, NEW s \in Stages, pairs'[<<i, s>>] # 0
        PROVE  decisions[i] # NoDecision /\ pairs'[<<i, s>>] = snapshots[i]
    <3>1. CASE pairs'[<<i, s>>] = pairs[<<i, s>>]
      BY <2>4, <3>1 DEF Tested
    <3>2. CASE pairs'[<<i, s>>] # pairs[<<i, s>>]
      <4>1. <<i, s>> = <<iteration, stage>>
        BY <2>3, <3>2 DEF LoopTypeOK
      <4>. QED  BY <2>2, <2>3, <3>2, <4>1 DEF LoopTypeOK
    <3>. QED  BY <3>1, <3>2
  <2>. QED  BY <2>1, <2>4 DEF Tested
<1>3. CASE ~Edit /\ ~RunPair
  BY <1>3, WhoWrites DEF Tested
<1>. QED  BY <1>1, <1>2, <1>3

(* Promotions rest on the answers that AskReview and RecoverReview admit.   *)
LEMMA AnswersAreEarned ==
  ASSUME LoopTypeOK, [Next]_vars, Earned, pc' = "gate", verdict' = "accept"
  PROVE  LET shows == evidence'[Here'] IN
           /\ "recovered" \in shows /\ "regressed" \notin shows
           /\ stage' = "confirm" => "gain" \in shows
<1>1. CASE UNCHANGED vars
  BY <1>1 DEF vars, progress, current, review, disk, tested, Earned, Here
<1>2. CASE RecoverReview
  <2>1. Admissible(verdict', remaining)
    BY <1>2, FirstIsRecorded DEF RecoverReview
  <2>. QED
    BY <1>2, <2>1 DEF RecoverReview, Admissible, Here, progress, current, disk,
                      tested
<1>3. CASE AskReview
  <2>1. pc = "review"
    BY <1>3 DEF AskReview
  <2>2. Admissible(verdict', remaining - 1)
    BY <1>3, <2>1 DEF AskReview
  <2>. QED
    BY <1>3, <2>2 DEF AskReview, Admissible, Here, progress, current, tested
<1>4. CASE RejectReview
  BY <1>4 DEF RejectReview
<1>5. ASSUME ~UNCHANGED vars, ~RecoverReview, ~AskReview, ~RejectReview
      PROVE  FALSE
  <2>1. pc' # "gate"
    BY <1>5 DEF Next, Step, Finished, Restart, Crash, Publish, FollowDecision,
       Plan, AskMain, MainFails, Edit, EditFails, Preflight, RunPair, Analyze,
       StageUnfunded, ReviewUnfunded, GoConfirm, RejectUnconfirmed, Conclude,
       NextIterationWith, Dies, Forgets, Goes
  <2>. QED  BY <2>1
<1>. QED  BY <1>1, <1>2, <1>3, <1>4, <1>5

LEMMA EarnedStep ==
  ASSUME LoopTypeOK, Chosen, Earned, [Next]_vars
  PROVE  Earned'
<1>1. \A v \in promoted :
        Confirmation => LET shows == evidence'[<<v, "confirm">>] IN
          {"recovered", "gain"} \subseteq shows /\ "regressed" \notin shows
  <2>1. CASE ~Analyze
    BY <2>1, WhoWrites DEF Earned, ChampionIsConfirmed
  <2>2. CASE Analyze
    <3>1. \/ UNCHANGED evidence
          \/ /\ evidence[Here] = None
             /\ \E e \in EvidenceKinds :
                  evidence' = [evidence EXCEPT ![Here] = e]
      BY <2>2 DEF Analyze
    <3>2. \A v \in promoted : Confirmation => evidence[<<v, "confirm">>] # None
      BY DEF Earned, ChampionIsConfirmed, None
    <3>3. \A v \in promoted :
            Confirmation =>
              evidence'[<<v, "confirm">>] = evidence[<<v, "confirm">>]
      <4>. SUFFICES ASSUME NEW v \in promoted, Confirmation
                    PROVE  evidence'[<<v, "confirm">>]
                             = evidence[<<v, "confirm">>]
        OBVIOUS
      <4>1. <<v, "confirm">> \in Iterations \X Stages
        BY DEF LoopTypeOK, Stages
      <4>2. evidence[Here] = None => <<v, "confirm">> # Here
        BY <3>2
      <4>. QED  BY <3>1, <4>1, <4>2 DEF LoopTypeOK
    <3>. QED  BY <3>3 DEF Earned, ChampionIsConfirmed
  <2>. QED  BY <2>1, <2>2
<1>2. CASE Conclude
  <2>1. /\ pc = "gate" /\ ~AwaitsConfirmation
        /\ UNCHANGED <<decisions, evidence>>
        /\ IF verdict = "accept"
             THEN champion' = iteration /\ promoted' = promoted \cup {iteration}
             ELSE UNCHANGED <<champion, promoted>>
        /\ pc' = "head"
    BY <1>2 DEF Conclude, disk, made, tested, Goes
  <2>2. ASSUME Confirmation, verdict = "accept"
        PROVE  LET shows == evidence[<<iteration, "confirm">>] IN
          {"recovered", "gain"} \subseteq shows /\ "regressed" \notin shows
    <3>1. stage = "confirm"
      BY <2>1, <2>2 DEF AwaitsConfirmation, LoopTypeOK, Stages
    <3>. QED  BY <2>1, <2>2, <3>1 DEF Earned, Here
  <2>. QED
    BY <1>1, <2>1, <2>2 DEF Earned, ChampionIsConfirmed
<1>3. CASE ~Conclude
  <2>1. UNCHANGED promoted
    BY <1>3, WhoWrites
  <2>2. champion' \in {champion, 0}
    BY <1>3 DEF Next, Step, Finished, Restart, Crash, Publish, FollowDecision,
       Plan, AskMain, MainFails, Edit, EditFails, Preflight, RunPair, Analyze,
       StageUnfunded, RecoverReview, AskReview, RejectReview, ReviewUnfunded,
       GoConfirm, RejectUnconfirmed, NextIterationWith, Dies, Forgets,
       progress, vars
  <2>3. \A i \in Iterations : decisions'[i].parent \in promoted \cup {0}
    <3>1. CASE Edit
      BY <3>1 DEF Edit, Earned, ChampionIsConfirmed, LoopTypeOK
    <3>2. CASE ~Edit
      BY <3>2, WhoWrites DEF Earned, ChampionIsConfirmed
    <3>. QED  BY <3>1, <3>2
  <2>. QED
    BY <1>1, <2>1, <2>2, <2>3, AnswersAreEarned
       DEF Earned, ChampionIsConfirmed
<1>. QED  BY <1>2, <1>3


-----------------------------------------------------------------------------
(* A new iteration has no decision, hence no rollouts.                      *)
LEMMA FreshIteration ==
  ASSUME LoopTypeOK, LoopTypeOK', Tested, Fresh, UNCHANGED <<decisions, pairs>>,
         resumed' = resumed, pc \notin Over,
         iteration' = iteration + 1, pc' = "head"
  PROVE  Fresh'
<1>. SUFFICES ASSUME ~resumed PROVE Fresh'
  BY DEF Fresh
<1>1. iteration' \in Iterations /\ Iterations \subseteq Nat
      /\ iteration \in Nat
  BY DEF LoopTypeOK, Iterations
<1>2. \A i \in Iterations : i >= iteration' => decisions[i] = NoDecision
  BY <1>1 DEF Fresh
<1>3. pairs[<<iteration', "confirm">>] = 0
  <2>1. "confirm" \in Stages
    BY DEF Stages
  <2>2. PICK i \in Iterations : i = iteration' /\ decisions[i] = NoDecision
    BY <1>1, <1>2
  <2>. QED  BY <2>1, <2>2 DEF Tested
<1>. QED
  BY <1>1, <1>2, <1>3 DEF Fresh

LEMMA FreshStep ==
  ASSUME LoopTypeOK, LoopTypeOK', Tested, Fresh, Funded, [Next]_vars
  PROVE  Fresh'
<1>1. CASE Restart \/ Crash \/ MainFails \/ StageUnfunded \/ ReviewUnfunded
           \/ Publish
  BY <1>1 DEF Restart, Crash, MainFails, StageUnfunded, ReviewUnfunded, Publish,
              Dies, Forgets, Goes, Fresh, Over
<1>2. CASE FollowDecision
  <2>1. resumed
    BY <1>2 DEF FollowDecision, Decided, Fresh, LoopTypeOK, Over, Testing
  <2>2. resumed'
    BY <1>2, <2>1 DEF FollowDecision, Keep, Dies
  <2>. QED  BY <2>2 DEF Fresh
<1>3. CASE Plan \/ AskMain
  BY <1>3 DEF Plan, AskMain, Keep, Goes, Fresh, progress, disk, made, tested,
              Over, Testing
<1>4. CASE Edit
  BY <1>4 DEF Edit, Keep, Goes, Fresh, current, tested, Over, Testing,
              LoopTypeOK, Iterations
<1>5. CASE EditFails
  BY <1>5, FreshIteration DEF EditFails, NextIterationWith, Keep, Goes, disk,
              made, tested, Over
<1>6. CASE Preflight
  <2>1. UNCHANGED <<decisions, pairs>> /\ pc = "preflight"
    BY <1>6 DEF Preflight, made
  <2>2. CASE NextIterationWith(champion, {})
    BY <2>1, <2>2, FreshIteration DEF NextIterationWith, Keep, Goes, Over
  <2>3. CASE /\ Goes("pair")
             /\ UNCHANGED <<iteration, champion, offers, current, review>>
             /\ Keep
    BY <2>1, <2>3 DEF Goes, Fresh, Keep, current, Over, Testing
  <2>. QED  BY <1>6, <2>2, <2>3 DEF Preflight
<1>7. CASE RunPair
  <2>1. stage = "screen" =>
          pairs'[<<iteration, "confirm">>] = pairs[<<iteration, "confirm">>]
    BY <1>7 DEF RunPair, Here, LoopTypeOK, Stages
  <2>. QED
    BY <1>7, <2>1 DEF RunPair, Goes, Fresh, Keep, progress, current, made, Over,
                      Testing
<1>8. CASE Analyze \/ RecoverReview \/ AskReview \/ RejectReview
  BY <1>8 DEF Analyze, RecoverReview, AskReview, RejectReview, Goes, Fresh,
              Keep, progress, current, disk, made, tested, Over, Testing
<1>9. CASE GoConfirm
  BY <1>9 DEF GoConfirm, Goes, Fresh, Keep, progress, disk, made, Over, Testing
<1>10. CASE RejectUnconfirmed \/ Conclude
  BY <1>10, FreshIteration DEF RejectUnconfirmed, Conclude, NextIterationWith,
              Keep, Goes, disk, made, tested, Over
<1>11. CASE Finished \/ UNCHANGED vars
  BY <1>11 DEF Finished, Fresh, vars, progress, current, disk, made, tested
<1>. QED
  BY <1>1, <1>2, <1>3, <1>4, <1>5, <1>6, <1>7, <1>8, <1>9, <1>10, <1>11
     DEF Next, Step

(* What Funded says while nothing is owed.                                  *)
LEMMA NothingOwed ==
  ASSUME pc' \notin {"ask", "edit", "preflight", "pair", "analyze", "review",
                     "broke"},
         pc' # "gate" => stage' = "screen"
  PROVE  Funded'
BY DEF Funded, AffordedStagesFinish

(* A process the ledger refused had second attempts beyond the buffer.      *)
LEMMA RefusalIsExcused ==
  ASSUME LoopTypeOK, Funded, ~resumed, remaining >= 0,
         \/ pc = "ask" /\ asked < 2 /\ ~Affords(1)
         \/ pc = "review" /\ asked < 2 /\ ~Affords(1)
         \/ pc = "preflight" /\ ~Affords(PreflightUnits)
         \/ pc = "pair" /\ ~Affords(PairUnits(stage, champion))
         \/ pc = "analyze" /\ ~Affords(AnalysisUnits)
  PROVE  extra > RetryBuffer
<1>1. remaining \in Nat /\ extra \in Nat /\ asked \in 0..2
  BY Prices DEF LoopTypeOK
<1>2. remaining + extra >= Owed + RetryBuffer
  BY <1>1 DEF Funded
<1>3. /\ PairUnits("screen", champion) \in Nat
      /\ PairUnits(stage, champion) \in Nat
  BY PairUnitsAreUnits
<1>. QED
  BY <1>1, <1>2, <1>3, Prices DEF Owed, ScreenCost, Affords

LEMMA FundedAtHead ==
  ASSUME LoopTypeOK, LoopTypeOK', Fresh, Funded,
         Publish \/ FollowDecision \/ Plan \/ Restart
  PROVE  Funded'
<1>1. CASE Publish \/ Restart
  BY <1>1, NothingOwed DEF Publish, Restart, Goes, Funded, current
<1>2. CASE FollowDecision
  <2>1. resumed
    BY <1>2 DEF FollowDecision, Decided, Fresh, LoopTypeOK, Over, Testing
  <2>2. resumed' /\ pc' \in {"preflight", "down"} /\ stage' = "screen"
    BY <1>2, <2>1 DEF FollowDecision, Keep, Dies, Forgets, Goes, Funded
  <2>. QED  BY <2>2 DEF Funded, AffordedStagesFinish
<1>3. CASE Plan
  <2>1. PairUnits("screen", champion) \in Nat /\ remaining \in Nat
    BY PairUnitsAreUnits, Prices DEF LoopTypeOK
  <2>2. ScreenCost(champion) \in Nat
    BY <2>1, Prices DEF ScreenCost
  <2>3. remaining >= ScreenCost(champion) + RetryBuffer
    BY <1>3, <2>1, <2>2, Prices DEF Plan, Underfunded, StartUnits
  <2>4. /\ extra' = 0 /\ UNCHANGED <<remaining, champion, stage>>
        /\ pc' \in {"ask", "edit"} /\ stage = "screen"
    BY <1>3 DEF Plan, Goes, progress, Funded
  <2>. QED
    BY <2>1, <2>3, <2>4, Prices
       DEF Funded, Owed, ScreenCost, AffordedStagesFinish
<1>. QED  BY <1>1, <1>2, <1>3

LEMMA FundedInIteration ==
  ASSUME LoopTypeOK, LoopTypeOK', Funded,
         AskMain \/ MainFails \/ Edit \/ EditFails
  PROVE  Funded'
<1>. PairUnits("screen", champion) \in Nat
  BY PairUnitsAreUnits
<1>0. /\ remaining \in Nat /\ extra \in Nat /\ asked \in 0..2
      /\ remaining' \in Nat /\ extra' \in Nat
  BY Prices DEF LoopTypeOK
<1>1. CASE AskMain
  <2>1. /\ pc = "ask" /\ asked < 2 /\ remaining' = remaining - 1
        /\ UNCHANGED <<champion, stage, resumed>>
    BY <1>1 DEF AskMain, progress, Keep
  <2>2. CASE AnswerInvalid /\ UNCHANGED <<pc, pick, choices>>
    BY <1>0, <2>1, <2>2, Prices
       DEF AnswerInvalid, Funded, Owed, AffordedStagesFinish
  <2>3. CASE Goes("edit") /\ UNCHANGED <<asked, extra>>
    BY <1>0, <2>1, <2>3, Prices
       DEF Goes, Funded, Owed, ScreenCost, AffordedStagesFinish
  <2>. QED  BY <1>1, <2>2, <2>3 DEF AskMain
<1>2. CASE MainFails
  <2>1. pc' \in {"down", "broke"} /\ stage' = "screen"
        /\ UNCHANGED <<extra, resumed>>
    BY <1>2 DEF MainFails, Dies, Forgets, Goes
  <2>2. pc' = "broke" /\ ~resumed => extra > RetryBuffer
    BY <1>0, <1>2, RefusalIsExcused DEF MainFails, Dies, Forgets, Goes
  <2>. QED  BY <2>1, <2>2 DEF Funded, AffordedStagesFinish
<1>3. CASE Edit
  <2>1. PICK units \in 1..2 :
          remaining' = remaining - units /\ extra' = extra + units - 1
    BY <1>3 DEF Edit
  <2>2. /\ pc = "edit" /\ pc' = "preflight"
        /\ UNCHANGED <<champion, stage, resumed>>
    BY <1>3 DEF Edit, Goes, Keep, current
  <2>. QED
    BY <1>0, <2>1, <2>2, Prices DEF Funded, Owed, ScreenCost,
                                    AffordedStagesFinish
<1>4. CASE EditFails
  BY <1>4, NothingOwed DEF EditFails, NextIterationWith, Goes
<1>. QED  BY <1>1, <1>2, <1>3, <1>4

LEMMA FundedInTests ==
  ASSUME LoopTypeOK, LoopTypeOK', Fresh, Funded,
         Preflight \/ RunPair \/ Analyze \/ StageUnfunded
  PROVE  Funded'
<1>. /\ PairUnits(stage, champion) \in Nat
     /\ PairUnits("screen", champion) \in Nat
  BY PairUnitsAreUnits
<1>0. /\ remaining \in Nat /\ extra \in Nat
      /\ remaining' \in Nat /\ extra' \in Nat
  BY Prices DEF LoopTypeOK
<1>1. CASE Preflight
  <2>1. CASE NextIterationWith(champion, {})
    BY <2>1, NothingOwed DEF NextIterationWith, Goes
  <2>2. CASE /\ Goes("pair")
             /\ UNCHANGED <<iteration, champion, offers, current, review>>
             /\ Keep
    <3>1. /\ pc = "preflight" /\ pc' = "pair" /\ extra' = extra
          /\ UNCHANGED <<champion, stage, resumed>>
          /\ remaining' \in {remaining, remaining - PreflightUnits}
      BY <1>1, <2>2 DEF Preflight, Goes, Keep, current
    <3>. QED
      BY <1>0, <3>1, Prices DEF Funded, Owed, ScreenCost, AffordedStagesFinish
  <2>. QED  BY <1>1, <2>1, <2>2 DEF Preflight
<1>2. CASE RunPair
  <2>1. /\ pc = "pair" /\ pc' = "analyze"
        /\ UNCHANGED <<champion, stage, resumed>>
        /\ remaining' + extra' >= remaining + extra - PairUnits(stage, champion)
    BY <1>0, <1>2 DEF RunPair, Goes, Keep, progress, current, Pays
  <2>. QED
    BY <1>0, <2>1, Prices DEF Funded, Owed, AffordedStagesFinish
<1>3. CASE Analyze
  <2>1. /\ pc = "analyze" /\ pc' = "review" /\ asked' = 0
        /\ UNCHANGED <<champion, stage, resumed>>
    BY <1>3 DEF Analyze, Goes, Keep, progress, current
  <2>2. \/ UNCHANGED <<remaining, extra>>
        \/ Pays(AnalysisUnits)
    BY <1>3 DEF Analyze
  <2>3. AnalysisUnits \in Nat
    BY Prices
  <2>4. \/ remaining' = remaining /\ extra' = extra
        \/ remaining' = remaining - AnalysisUnits /\ extra' = extra
        \/ remaining' = remaining - AnalysisUnits - 1 /\ extra' = extra + 1
    BY <2>2 DEF Pays
  <2>5. remaining' + extra' >= remaining + extra - AnalysisUnits
    <3>1. CASE remaining' = remaining /\ extra' = extra
      BY <1>0, <2>3, <3>1
    <3>2. CASE remaining' = remaining - AnalysisUnits /\ extra' = extra
      BY <1>0, <2>3, <3>2
    <3>3. CASE remaining' = remaining - AnalysisUnits - 1 /\ extra' = extra + 1
      BY <1>0, <2>3, <3>3
    <3>. QED  BY <2>4, <3>1, <3>2, <3>3
  <2>. QED
    BY <1>0, <2>1, <2>5, Prices DEF Funded, Owed, AffordedStagesFinish
<1>4. CASE StageUnfunded
  <2>1. /\ pc' = "broke" /\ stage' = "screen" /\ UNCHANGED <<extra, resumed>>
    BY <1>4 DEF StageUnfunded, Dies, Forgets, Goes
  <2>2. ~resumed => extra > RetryBuffer
    BY <1>0, <1>4, RefusalIsExcused DEF StageUnfunded
  <2>. QED  BY <2>1, <2>2 DEF Funded, AffordedStagesFinish
<1>. QED  BY <1>1, <1>2, <1>3, <1>4

LEMMA FundedInReview ==
  ASSUME LoopTypeOK, LoopTypeOK', Fresh, Funded,
         \/ RecoverReview \/ AskReview \/ RejectReview \/ ReviewUnfunded
         \/ GoConfirm \/ RejectUnconfirmed \/ Conclude
  PROVE  Funded'
<1>0. /\ remaining \in Nat /\ extra \in Nat /\ asked \in 0..2
      /\ remaining' \in Nat /\ extra' \in Nat
  BY Prices DEF LoopTypeOK
<1>1. CASE RecoverReview \/ RejectReview
  BY <1>1, NothingOwed DEF RecoverReview, RejectReview, Goes
<1>2. CASE AskReview
  <2>1. CASE AnswerInvalid /\ UNCHANGED <<pc, verdict, answers>>
    <3>1. /\ pc = "review" /\ asked < 2 /\ remaining' = remaining - 1
          /\ UNCHANGED <<champion, stage, resumed>>
      BY <1>2 DEF AskReview, progress, current, Keep
    <3>. QED
      BY <1>0, <2>1, <3>1, Prices
         DEF AnswerInvalid, Funded, Owed, AffordedStagesFinish
  <2>2. CASE Goes("gate")
    BY <2>2, NothingOwed DEF Goes
  <2>. QED  BY <1>2, <2>1, <2>2 DEF AskReview
<1>3. CASE ReviewUnfunded
  <2>1. /\ pc' = "broke" /\ stage' = "screen" /\ UNCHANGED <<extra, resumed>>
    BY <1>3 DEF ReviewUnfunded, Dies, Forgets, Goes
  <2>2. ~resumed => extra > RetryBuffer
    BY <1>0, <1>3, RefusalIsExcused DEF ReviewUnfunded
  <2>. QED  BY <2>1, <2>2 DEF Funded, AffordedStagesFinish
<1>4. CASE GoConfirm
  <2>1. /\ pc = "gate" /\ stage = "screen"
        /\ pc' = "pair" /\ stage' = "confirm" /\ extra' = 0
        /\ UNCHANGED <<champion, resumed, remaining>>
    BY <1>4 DEF GoConfirm, AwaitsConfirmation, Goes, Keep, progress
  <2>2. ~resumed => remaining >= ConfirmCost + RetryBuffer
    BY <1>4, <2>1 DEF GoConfirm, Confirmable, Affords, Fresh, Over
  <2>3. PairUnits("confirm", champion) = PairUnits("confirm", 0)
        /\ PairUnits("confirm", 0) \in Nat
    BY Prices DEF PairUnits
  <2>. QED
    BY <1>0, <2>1, <2>2, <2>3, Prices
       DEF ConfirmCost, Funded, Owed, AffordedStagesFinish
<1>5. CASE RejectUnconfirmed \/ Conclude
  BY <1>5, NothingOwed DEF RejectUnconfirmed, Conclude, NextIterationWith, Goes
<1>. QED  BY <1>1, <1>2, <1>3, <1>4, <1>5

LEMMA FundedStep ==
  ASSUME LoopTypeOK, LoopTypeOK', Fresh, Funded, [Next]_vars
  PROVE  Funded'
<1>1. CASE Crash
  BY <1>1, NothingOwed DEF Crash, Forgets, Goes
<1>2. CASE Finished \/ UNCHANGED vars
  BY <1>2 DEF Finished, Funded, Owed, AffordedStagesFinish, vars, progress,
              current, review, ScreenCost, PairUnits
<1>. QED
  BY <1>1, <1>2, FundedAtHead, FundedInIteration, FundedInTests, FundedInReview
     DEF Next, Step

-----------------------------------------------------------------------------
LoopIInv == LoopTypeOK /\ Chosen /\ Tested /\ Earned /\ Fresh /\ Funded

LEMMA LoopInvariant == Spec => []LoopIInv
<1>1. Init => LoopIInv
  <2>. SUFFICES ASSUME Init PROVE LoopIInv
    OBVIOUS
  <2>1. LoopTypeOK
    BY InitTyped
  <2>2. /\ \A i \in Iterations : decisions[i] = NoDecision
        /\ \A i \in Iterations : \A s \in Stages : pairs[<<i, s>>] = 0
    BY DEF Init
  <2>3. iteration \in Iterations /\ \A i \in Iterations : ~(i < iteration)
    BY Prices DEF Init, Iterations
  <2>4. Chosen
    BY <2>2, <2>3 DEF Init, Chosen, TriedOnce, Testing, Iterations
  <2>5. Tested
    BY <2>2 DEF Tested
  <2>6. Earned
    BY <2>2 DEF Init, Earned, ChampionIsConfirmed, NoDecision
  <2>7. Fresh
    BY <2>2, <2>3 DEF Fresh, Stages
  <2>8. Funded
    BY DEF Init, Funded, AffordedStagesFinish
  <2>. QED  BY <2>1, <2>4, <2>5, <2>6, <2>7, <2>8 DEF LoopIInv
<1>2. LoopIInv /\ [Next]_vars => LoopIInv'
  <2>. SUFFICES ASSUME LoopIInv, [Next]_vars PROVE LoopIInv'
    OBVIOUS
  <2>1. LoopTypeOK'
    BY LoopStepTyped DEF LoopIInv
  <2>2. Chosen' /\ Tested' /\ Earned'
    BY ChosenStep, TestedStep, EarnedStep DEF LoopIInv
  <2>3. Fresh' /\ Funded'
    BY <2>1, FreshStep, FundedStep DEF LoopIInv
  <2>. QED  BY <2>1, <2>2, <2>3 DEF LoopIInv
<1>. QED  BY <1>1, <1>2, PTL DEF Spec

(* Types hold, the harness of a promoted version is the one its rollouts    *)
(* ran, and no source is tried twice by one process.                        *)
THEOREM LoopIsSound == Spec => []LoopInv
<1>1. LoopIInv => LoopInv
  BY DEF LoopIInv, LoopInv, Chosen, Tested, ChampionIsAsTested, LoopTypeOK
<1>. QED  BY <1>1, LoopInvariant, PTL

(* Every promoted version won its own confirmation, and only promoted       *)
(* versions are built on.                                                   *)
THEOREM ChampionsAreConfirmed == Spec => []ChampionIsConfirmed
<1>1. LoopIInv => ChampionIsConfirmed
  BY DEF LoopIInv, Earned
<1>. QED  BY <1>1, LoopInvariant, PTL

(* A process that was not started again is refused units only after second  *)
(* attempts have taken more than the retry buffer.                          *)
THEOREM StartedStagesAreFunded == Spec => []AffordedStagesFinish
<1>1. LoopIInv => AffordedStagesFinish
  BY DEF LoopIInv, Funded
<1>. QED  BY <1>1, LoopInvariant, PTL

(* A version replaces as champion only the version it was made from.        *)
THEOREM ChampionsFollowTheirParent == Spec => PromotesChildOfChampion
<1>1. LoopIInv /\ [Next]_vars =>
        [champion' \notin {champion, 0} =>
           decisions'[champion'].parent = champion]_vars
  <2>. SUFFICES ASSUME LoopIInv, Next, champion' \notin {champion, 0}
                PROVE  decisions'[champion'].parent = champion
    BY DEF vars, progress
  <2>1. Conclude
    BY DEF Next, Step, Finished, Restart, Crash, Publish, FollowDecision, Plan,
       AskMain, MainFails, Edit, EditFails, Preflight, RunPair, Analyze,
       StageUnfunded, RecoverReview, AskReview, RejectReview, ReviewUnfunded,
       GoConfirm, RejectUnconfirmed, NextIterationWith, Dies, Forgets, progress,
       vars
  <2>2. pc = "gate" /\ champion' = iteration /\ decisions' = decisions
    BY <2>1 DEF Conclude, disk, made
  <2>. QED  BY <2>2 DEF LoopIInv, Chosen, Testing
<1>. QED  BY <1>1, LoopInvariant, PTL DEF Spec, PromotesChildOfChampion
=============================================================================
