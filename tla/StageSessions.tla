---------------------------- MODULE StageSessions ----------------------------
(* The analysis stages of an iteration and the sessions they buy: discovery *)
(* (discovery.py), the baseline experience and the rollout comparison       *)
(* (experience.py), the analysis and the post-rollout analysis              *)
(* (analyzer.py).  A stage is a tree of items; an item looks for its result *)
(* file, then for an answer an earlier session left in its transcript, then *)
(* buys sessions, and when they are used up raises, falls back, or is split *)
(* into single tasks.  A stage may die anywhere and be called again.        *)
EXTENDS Integers, FiniteSets

CONSTANTS
  Stages,          \* the stages of this instance
  Groups,          \* baseline groups of _task_groups
  Chunks,          \* comparison groups: disjoint non-empty sets of tasks
  ReusableGroups,  \* groups of the compilation plan
  AdjustGroups,    \* groups of partition_adjustment_experiences
  Attempts,        \* sessions of an experience or analyzer item (3)
  Capacity,        \* units the ledger has left at the first call
  MaxMishaps       \* bound: crashes, failed launches and repeated calls

ASSUME StageAssumption ==
  /\ Stages \subseteq {"discovery", "baseline", "comparison", "analysis",
                       "post"}
  /\ \A c, d \in Chunks : c # {} /\ (c = d \/ c \cap d = {})
  /\ ReusableGroups \cap AdjustGroups = {}  \* a group is of one side
  /\ Attempts \in Nat \ {0}
  /\ Capacity \in Nat
  /\ MaxMishaps \in Nat

-----------------------------------------------------------------------------
(* What each function does with its item: the sessions of one call, whether *)
(* transcripts are scanned and a recovered job is settled, what becomes of  *)
(* an invalid result file, and what follows the last rejected answer.       *)
ExplorerWork  == [tries |-> 2, scans |-> FALSE, settles |-> FALSE,
                  stale |-> "raise", last |-> "raise"]
QueryWork     == [tries |-> 2, scans |-> FALSE, settles |-> FALSE,
                  stale |-> "redo", last |-> "salvage"]
GroupWork     == [tries |-> Attempts, scans |-> TRUE, settles |-> TRUE,
                  stale |-> "redo", last |-> "raise"]
SynthesisWork == [tries |-> IF Cardinality(Groups) = 1 THEN 0 ELSE Attempts,
                  scans |-> FALSE, settles |-> FALSE,
                  stale |-> "trust", last |-> "record first"]
CompareWork   == [tries |-> Attempts, scans |-> TRUE, settles |-> TRUE,
                  stale |-> "redo", last |-> "split"]
ReviewWork    == [tries |-> Attempts, scans |-> FALSE, settles |-> FALSE,
                  stale |-> "redo", last |-> "record first"]
CombinedComparison ==
                 [tries |-> 0, scans |-> FALSE, settles |-> FALSE,
                  stale |-> "raise", last |-> "combine"]
PlanWork      == [tries |-> Attempts, scans |-> FALSE, settles |-> FALSE,
                  stale |-> "raise", last |-> "raise"]
SideWork      == [tries |-> Attempts, scans |-> TRUE, settles |-> FALSE,
                  stale |-> "redo", last |-> "raise"]
CombinedSide  == [tries |-> 0, scans |-> FALSE, settles |-> FALSE,
                  stale |-> "redo", last |-> "combine"]
PostWork      == [tries |-> Attempts, scans |-> TRUE, settles |-> FALSE,
                  stale |-> "redo", last |-> "record last"]

Work == [explorer |-> ExplorerWork, query |-> QueryWork,
         group |-> GroupWork, baseline |-> SynthesisWork,
         compare |-> CompareWork, review |-> ReviewWork,
         comparison |-> CombinedComparison,
         plan |-> PlanWork, side |-> SideWork, combined |-> CombinedSide,
         post |-> PostWork]

(* The items: a kind and what it is about.                                  *)
Singles == {{t} : t \in UNION Chunks}
Compared == Chunks \cup Singles

DiscoveryItems  == {<<"explorer", "tasks">>, <<"query", "harness">>}
BaselineItems   == {<<"baseline", "all">>} \cup {<<"group", g>> : g \in Groups}
ComparisonItems == {<<"comparison", "all">>}
                     \cup {<<"compare", c>> : c \in Compared}
                     \cup {<<"review", c>> : c \in Compared}
AnalysisItems   == {<<"combined", "reusable">>, <<"combined", "adjustment">>,
                    <<"plan", "reusable">>}
                     \cup {<<"side", g>> : g \in ReusableGroups}
                     \cup {<<"side", g>> : g \in AdjustGroups}
PostItems       == {<<"post", "reusable">>, <<"post", "adjustment">>}

Items == DiscoveryItems \cup BaselineItems \cup ComparisonItems
           \cup AnalysisItems \cup PostItems

Plan == <<"plan", "reusable">>
Synthesis == <<"baseline", "all">>
Of(i) == Work[i[1]]

VARIABLES
  stage,     \* the stage that is called
  phase,     \* the call: running, returned, raised, or its process is down
  at,        \* where the call is with each item
  tries,     \* sessions an item has opened in this call
  taken,     \* the transcript an item recovers, or none
  last,      \* the last answer a salvaging item heard in this call
  refused,   \* completed answers an item refused in this call
  spent,     \* ledger: units charged
  open,      \* ledger: jobs of dead processes, still launched, per item
  texts,     \* disk: acceptable transcripts of an item: verdict, job open
  old,       \* history: those that were there when the call began
  file,      \* disk: the result file of an item
  record,    \* disk: the fallback record of an item
  mishaps

vars == <<stage, phase, at, tries, taken, last, refused, spent, open, texts,
          old, file, record, mishaps>>

call == <<stage, phase, old>>
mind == <<tries, taken, last, refused>>
disk == <<texts, file, record>>

StageItems(s) ==
  CASE s = "discovery"  -> DiscoveryItems
    [] s = "baseline"   -> BaselineItems
    [] s = "comparison" -> ComparisonItems
    [] s = "analysis"   -> AnalysisItems
    [] OTHER            -> PostItems

Mine == StageItems(stage)

(* The items the call itself asks for; the others are asked for by them.    *)
Roots(s) ==
  {i \in StageItems(s) : i[1] \in {"explorer", "query", "baseline",
                                   "comparison", "combined", "post"}}

(* "good" passes every validator.  "replan" names a discovered channel the  *)
(* candidate did not change: the result file and the transcripts are        *)
(* validated with the discovered channels, a live answer without them.      *)
(* "parses" is a JSON object that no validator accepts.                     *)
Verdicts(i) == {"good", "parses", "bad"}
                 \cup (IF i = <<"post", "adjustment">> THEN {"replan"} ELSE {})
DiskAccepts == {"good", "replan"}
LiveAccepts == {"good"}

NoText == [verdict |-> "none", open |-> FALSE]
Texts  == [verdict : DiskAccepts, open : BOOLEAN]

ValidFiles == DiskAccepts \cup {"fallback", "combined", "split"}
Settled == {"done", "failed"}
AtRest  == Settled \cup {"off"}

StageTypeOK ==
  /\ stage \in Stages
  /\ phase \in {"run", "returned", "raised", "down"}
  /\ at \in [Items -> AtRest \cup {"look", "wait", "scan", "ask", "live",
                "used", "keep", "settle", "review", "split", "note", "noted"}]
  /\ \A i \in Items : tries[i] \in 0..Of(i).tries
  /\ \A i \in Items : taken[i] \in Texts \cup {NoText}
  /\ \A i \in Items : last[i] \in Verdicts(i) \cup {"none"}
  /\ \A i \in Items : refused[i] \subseteq DiskAccepts
  /\ spent \in 0..Capacity
  /\ \A i \in Items : open[i] \in Nat
  /\ \A i \in Items : texts[i] \subseteq Texts /\ old[i] \subseteq Texts
  /\ \A i \in Items : file[i] \in ValidFiles \cup {"none", "stale"}
  /\ record \in [Items -> BOOLEAN]
  /\ mishaps \in 0..MaxMishaps

(* One result file may be there from an earlier version of the program.     *)
Init ==
  /\ stage \in Stages
  /\ phase = "run"
  /\ at = [i \in Items |-> IF i \in Roots(stage) THEN "look" ELSE "off"]
  /\ tries = [i \in Items |-> 0]
  /\ taken = [i \in Items |-> NoText]
  /\ last = [i \in Items |-> "none"]
  /\ refused = [i \in Items |-> {}]
  /\ spent = 0
  /\ open = [i \in Items |-> 0]
  /\ texts = [i \in Items |-> {}]
  /\ old = texts
  /\ \/ file = [i \in Items |-> "none"]
     \/ \E i \in Mine : file = [[j \in Items |-> "none"] EXCEPT ![i] = "stale"]
  /\ record = [i \in Items |-> FALSE]
  /\ mishaps = 0

-----------------------------------------------------------------------------
Goes(i, place) == at' = [at EXCEPT ![i] = place]
Active(i) == phase = "run" /\ i \in Mine

(* What an item without a result asks for, and waits for, before its own    *)
(* work.  A comparison group and its review follow one another.             *)
Parts(i) ==
  CASE i[1] = "baseline"   -> {<<"group", g>> : g \in Groups}
    [] i[1] = "comparison" -> {<<"compare", c>> : c \in Chunks}
    [] i = <<"combined", "reusable">>   -> {Plan}
    [] i = <<"combined", "adjustment">> -> {<<"side", g>> : g \in AdjustGroups}
    [] OTHER -> {}

PlanParts == {<<"side", g>> : g \in ReusableGroups}

(* What the look at the result file comes to.                               *)
FileVerdict(i) ==
  CASE file[i] = "none" -> "none"
    [] file[i] = "stale" /\ Of(i).stale = "raise" -> "raise"
    [] file[i] = "stale" /\ Of(i).stale = "redo"  -> "none"
    [] OTHER -> "use"

(* A comparison group whose reviewed file is valid is done; otherwise a     *)
(* valid draft goes straight to the review.                                 *)
UseFile(i) ==
  /\ Active(i) /\ at[i] = "look"
  /\ IF i[1] = "compare" /\ FileVerdict(<<"review", i[2]>>) = "use"
       THEN Goes(i, "done")
       ELSE /\ FileVerdict(i) # "none"
            /\ Goes(i, CASE FileVerdict(i) = "raise" -> "failed"
                         [] i[1] = "compare" -> "review"
                         [] OTHER -> "done")
  /\ UNCHANGED <<call, mind, spent, open, disk, mishaps>>

(* Mutated form: the result file of an earlier call is not looked for.      *)
NoFileEver(i) ==
  /\ Active(i) /\ at[i] = "look"
  /\ at' = [j \in Items |->
              IF j = i THEN (IF Parts(i) # {} THEN "wait" ELSE "scan")
              ELSE IF j \in Parts(i) THEN "look" ELSE at[j]]
  /\ UNCHANGED <<call, mind, spent, open, disk, mishaps>>

(* No usable file: the parts are asked for, or the transcripts are read.    *)
NoFile(i) ==
  /\ Active(i) /\ at[i] = "look"
  /\ FileVerdict(i) = "none"
  /\ i[1] = "compare" => FileVerdict(<<"review", i[2]>>) # "use"
  /\ at' = [j \in Items |->
              IF j = i THEN (IF Parts(i) # {} THEN "wait" ELSE "scan")
              ELSE IF j \in Parts(i) THEN "look" ELSE at[j]]
  /\ UNCHANGED <<call, mind, spent, open, disk, mishaps>>

(* Mutated form: the join waits for results that a failure never brings.    *)
PartsSucceed(i) == \A p \in Parts(i) : at[p] = "done"

(* A pool ends when every future has, and raises if one of them did.        *)
PartsDone(i) == \A p \in Parts(i) : at[p] = "done"
PartsRest(i) == \A p \in Parts(i) : at[p] \in Settled

(* The plan is made before the groups it names are asked for.               *)
StartPlanned ==
  LET i == <<"combined", "reusable">>
  IN /\ Active(i) /\ at[i] = "wait" /\ at[Plan] = "done"
     /\ \A p \in PlanParts : at[p] = "off"
     /\ at' = [j \in Items |-> IF j \in PlanParts THEN "look" ELSE at[j]]
     /\ UNCHANGED <<call, mind, spent, open, disk, mishaps>>

Planned(i) ==
  i = <<"combined", "reusable">> /\ at[Plan] = "done" =>
    \A p \in PlanParts : at[p] \in Settled

PlanFails(i) ==
  i = <<"combined", "reusable">> /\ \E p \in PlanParts : at[p] = "failed"

JoinParts(i) ==
  /\ Active(i) /\ at[i] = "wait"
  /\ PartsRest(i) /\ Planned(i)
  /\ Goes(i, IF PartsDone(i) /\ ~PlanFails(i) THEN "ask" ELSE "failed")
  /\ UNCHANGED <<call, mind, spent, open, disk, mishaps>>

-----------------------------------------------------------------------------
(* Mutated form: the transcripts are not read.                              *)
NothingFound(i) == IF i \in Items THEN {} ELSE texts[i]

Found(i) == IF Of(i).scans THEN texts[i] ELSE {}

(* The first transcript that parses and validates; which of several comes   *)
(* first is left open.                                                      *)
RecoverTranscript(i) ==
  /\ Active(i) /\ at[i] = "scan" /\ Found(i) # {}
  /\ \E x \in Found(i) : taken' = [taken EXCEPT ![i] = x]
  /\ Goes(i, "keep")
  /\ UNCHANGED <<call, tries, last, refused, spent, open, disk, mishaps>>

NothingRecovered(i) ==
  /\ Active(i) /\ at[i] = "scan" /\ Found(i) = {}
  /\ Goes(i, "ask")
  /\ UNCHANGED <<call, mind, spent, open, disk, mishaps>>

(* run_json: reserve, claim and open one session.                           *)
Ask(i) ==
  /\ Active(i) /\ at[i] = "ask" /\ tries[i] < Of(i).tries
  /\ spent < Capacity
  /\ spent' = spent + 1
  /\ tries' = [tries EXCEPT ![i] = @ + 1]
  /\ Goes(i, "live")
  /\ UNCHANGED <<call, taken, last, refused, open, disk, mishaps>>

(* Mutated form: a refused reservation ends the attempts like answers do.   *)
RefusalFallsBack(i) ==
  /\ Active(i) /\ at[i] = "ask" /\ tries[i] < Of(i).tries
  /\ spent = Capacity
  /\ Goes(i, "used")
  /\ UNCHANGED <<call, mind, spent, open, disk, mishaps>>

(* The budget refuses: the error leaves the attempts at once.               *)
AskRefused(i) ==
  /\ Active(i) /\ at[i] = "ask" /\ tries[i] < Of(i).tries
  /\ spent = Capacity
  /\ Goes(i, "failed")
  /\ UNCHANGED <<call, mind, spent, open, disk, mishaps>>

(* The session could not be opened: its unit is refunded, the error raised. *)
OpenFails(i) ==
  /\ Active(i) /\ at[i] = "live" /\ mishaps < MaxMishaps
  /\ spent' = spent - 1
  /\ Goes(i, "failed")
  /\ mishaps' = mishaps + 1
  /\ UNCHANGED <<call, mind, open, disk>>

(* The session ends and its job is settled.  Its transcript stays; an       *)
(* answer is accepted when the session completed and the validator of a     *)
(* live answer agrees.                                                      *)
Answer(i) ==
  /\ Active(i) /\ at[i] = "live"
  /\ \E v \in Verdicts(i), completed \in BOOLEAN :
       /\ texts' = [texts EXCEPT ![i] = @ \cup
             (IF v \in DiskAccepts /\ Of(i).scans
                THEN {[verdict |-> v, open |-> FALSE]} ELSE {})]
       /\ last' = [last EXCEPT ![i] = IF Of(i).last = "salvage" THEN v ELSE @]
       /\ LET accepted == completed /\ v \in LiveAccepts
          IN /\ Goes(i, IF accepted THEN "keep"
                        ELSE IF tries[i] < Of(i).tries THEN "ask" ELSE "used")
             /\ refused' = [refused EXCEPT ![i] = @ \cup
                   (IF completed /\ ~accepted THEN {v} \cap DiskAccepts
                    ELSE {})]
  /\ UNCHANGED <<call, tries, taken, spent, open, file, record, mishaps>>

(* An item that asks for no session is put together from its parts.  A      *)
(* comparison and a side of the analysis are validated once more then (and  *)
(* a side is sorted before), which may raise; a baseline of one group is    *)
(* that group's result.                                                     *)
Combine(i) ==
  /\ Active(i) /\ at[i] = "ask" /\ Of(i).tries = 0
  /\ \/ Goes(i, "keep")
     \/ i # Synthesis /\ Goes(i, "failed")
  /\ UNCHANGED <<call, mind, spent, open, disk, mishaps>>

-----------------------------------------------------------------------------
(* write_json of the result.  A draft is reviewed next; the job of a        *)
(* recovered transcript is settled afterwards.                              *)
Content(i) ==
  IF taken[i] # NoText THEN taken[i].verdict
  ELSE IF Of(i).tries = 0 THEN "combined" ELSE "good"

AfterKeep(i) == IF i[1] = "compare" THEN "review" ELSE "done"

Keep(i) ==
  /\ Active(i) /\ at[i] = "keep"
  /\ file' = [file EXCEPT ![i] = Content(i)]
  /\ Goes(i, IF Of(i).settles /\ taken[i].open THEN "settle" ELSE AfterKeep(i))
  /\ UNCHANGED <<call, mind, spent, open, texts, record, mishaps>>

(* _settle_recovered_intelligent_job: an answer of a launched job.          *)
SettleRecovered(i) ==
  /\ Active(i) /\ at[i] = "settle"
  /\ texts' = [texts EXCEPT ![i] =
                 (@ \ {taken[i]}) \cup {[taken[i] EXCEPT !.open = FALSE]}]
  /\ open' = [open EXCEPT ![i] = @ - 1]
  /\ taken' = [taken EXCEPT ![i].open = FALSE]
  /\ Goes(i, AfterKeep(i))
  /\ UNCHANGED <<call, tries, last, refused, spent, file, record, mishaps>>

(* The draft exists: the review of the same tasks.                          *)
Review(i) ==
  LET r == <<"review", i[2]>>
  IN /\ Active(i) /\ i[1] = "compare" /\ at[i] = "review"
     /\ CASE at[r] = "off"  -> at' = [at EXCEPT ![r] = "ask"]
          [] at[r] \in Settled -> Goes(i, at[r])
          [] OTHER -> FALSE
     /\ UNCHANGED <<call, mind, spent, open, disk, mishaps>>

-----------------------------------------------------------------------------
(* The last answer was rejected.                                            *)
UsedUp(i, how) == Active(i) /\ at[i] = "used" /\ Of(i).last = how

RaiseUsedUp(i) ==
  /\ \/ UsedUp(i, "raise")
     \/ UsedUp(i, "split") /\ Cardinality(i[2]) = 1
     \/ UsedUp(i, "salvage") /\ last[i] = "bad"
  /\ Goes(i, "failed")
  /\ UNCHANGED <<call, mind, spent, open, disk, mishaps>>

(* _conservative_harness_query_output of the last answer, if it parsed: the *)
(* fallback is validated before it is written and leaves no record.         *)
Salvage(i) ==
  /\ UsedUp(i, "salvage") /\ last[i] # "bad"
  /\ \/ file' = [file EXCEPT ![i] = "fallback"] /\ Goes(i, "done")
     \/ UNCHANGED file /\ Goes(i, "failed")
  /\ UNCHANGED <<call, mind, spent, open, texts, record, mishaps>>

(* The synthesis and the review write the record, then the result; the      *)
(* post-rollout analysis the result, then the record.                       *)
FallBack(i) ==
  /\ \/ /\ UsedUp(i, "record first")
        /\ record' = [record EXCEPT ![i] = TRUE]
        /\ Goes(i, "note")
        /\ UNCHANGED file
     \/ /\ UsedUp(i, "record last")
        /\ file' = [file EXCEPT ![i] = "fallback"]
        /\ Goes(i, "noted")
        /\ UNCHANGED record
  /\ UNCHANGED <<call, mind, spent, open, texts, mishaps>>

FallBackEnds(i) ==
  /\ Active(i)
  /\ \/ /\ at[i] = "note"
        /\ file' = [file EXCEPT ![i] = "fallback"]
        /\ UNCHANGED record
     \/ /\ at[i] = "noted"
        /\ record' = [record EXCEPT ![i] = TRUE]
        /\ UNCHANGED file
  /\ Goes(i, "done")
  /\ UNCHANGED <<call, mind, spent, open, texts, mishaps>>

Halves(i) == {<<"compare", {t}>> : t \in i[2]}

(* _run_comparison_group of several tasks is called again on each of them,  *)
(* one after the other; the union has no file of its own.                   *)
Split(i) ==
  /\ \/ UsedUp(i, "split") /\ Cardinality(i[2]) > 1
     \/ Active(i) /\ at[i] = "split"
  /\ \A h \in Halves(i) : at[h] \in {"off", "done"}
  /\ \E h \in Halves(i) :
       at[h] = "off" /\ at' = [at EXCEPT ![i] = "split", ![h] = "look"]
  /\ UNCHANGED <<call, mind, spent, open, disk, mishaps>>

(* Mutated form: the first single task answers for the group.               *)
SplitEndsEarly(i) ==
  /\ Active(i) /\ at[i] = "split"
  /\ \E h \in Halves(i) : at[h] = "done"
  /\ Goes(i, "done")
  /\ UNCHANGED <<call, mind, spent, open, disk, mishaps>>

SplitEnds(i) ==
  /\ Active(i) /\ at[i] = "split"
  /\ \/ /\ \A h \in Halves(i) : at[h] = "done"
        /\ Goes(i, "done")
     \/ /\ \E h \in Halves(i) : at[h] = "failed"
        /\ Goes(i, "failed")
  /\ UNCHANGED <<call, mind, spent, open, disk, mishaps>>

-----------------------------------------------------------------------------
(* The call ends when its threads have: it returns, or raises the first     *)
(* error.  Discovery then writes both outputs once more.                    *)
CallEnds ==
  /\ phase = "run"
  /\ \A i \in Roots(stage) : at[i] \in Settled
  /\ phase' = IF \A i \in Roots(stage) : at[i] = "done"
                THEN "returned" ELSE "raised"
  /\ UNCHANGED <<stage, old, at, mind, spent, open, disk, mishaps>>

(* The process dies.  A session it had open is paid and may have left a     *)
(* complete transcript; its job stays launched.                             *)
Crash ==
  /\ phase = "run" /\ mishaps < MaxMishaps
  /\ phase' = "down"
  /\ LET living == {i \in Items : at[i] = "live"}
     IN \E said \in SUBSET {i \in living : Of(i).scans} :
          /\ texts' = [i \in Items |-> texts[i] \cup
                       (IF i \in said THEN {[verdict |-> "good", open |-> TRUE]}
                        ELSE {})]
          /\ open' = [i \in Items |->
                        open[i] + (IF i \in living THEN 1 ELSE 0)]
  /\ mishaps' = mishaps + 1
  /\ UNCHANGED <<stage, old, at, mind, spent, file, record>>

(* The stage is called again, after a crash, an error or a replay of the    *)
(* steps before it.                                                         *)
CallAgain ==
  /\ phase # "run"
  /\ phase = "down" \/ mishaps < MaxMishaps
  /\ phase' = "run"
  /\ mishaps' = IF phase = "down" THEN mishaps ELSE mishaps + 1
  /\ at' = [i \in Items |-> IF i \in Roots(stage) THEN "look" ELSE "off"]
  /\ tries' = [i \in Items |-> 0]
  /\ taken' = [i \in Items |-> NoText]
  /\ last' = [i \in Items |-> "none"]
  /\ refused' = [i \in Items |-> {}]
  /\ old' = texts
  /\ UNCHANGED <<stage, spent, open, disk>>

ItemStep(i) ==
  \/ UseFile(i) \/ NoFile(i) \/ JoinParts(i) \/ RecoverTranscript(i)
  \/ NothingRecovered(i) \/ Ask(i) \/ AskRefused(i) \/ Answer(i) \/ Combine(i)
  \/ Keep(i) \/ SettleRecovered(i) \/ Review(i) \/ RaiseUsedUp(i)
  \/ Salvage(i) \/ FallBack(i) \/ FallBackEnds(i) \/ Split(i) \/ SplitEnds(i)

Progress == \/ \E i \in Mine : ItemStep(i)
            \/ StartPlanned \/ CallEnds

Next == Progress \/ (\E i \in Mine : OpenFails(i)) \/ Crash \/ CallAgain

(* Some thread always runs on, and a session ends by itself or by its limit *)
(* of time.                                                                 *)
Fairness == WF_vars(Progress)

Spec == Init /\ [][Next]_vars /\ Fairness

-----------------------------------------------------------------------------
(* An item that reads transcripts buys no session while an acceptable       *)
(* answer of an earlier call is on disk.                                    *)
AnsweredNotBoughtAgain ==
  \A i \in Items : Of(i).scans /\ tries[i] > 0 => old[i] = {}

(* A stage that returns has a valid result on disk for every item it was    *)
(* asked for, whatever files an earlier call or version left.  The baseline *)
(* output is excepted: run_baseline trusts it as it finds it.               *)
ReturnedIsValid ==
  phase = "returned" =>
    \A i \in Roots(stage) \ {Synthesis} : file[i] \in ValidFiles

(* Every task of a combined comparison was reviewed, in its group or alone. *)
ComparedIsReviewed ==
  file[<<"comparison", "all">>] = "combined" =>
    \A c \in Chunks : \A t \in c :
      \E d \in {c, {t}} : file[<<"review", d>>] \in ValidFiles

(* The baseline experience and a combined analysis side stand on a result   *)
(* of every one of their groups.                                            *)
CombinedIsWhole ==
  /\ file[Synthesis] \in ValidFiles =>
       \A i \in Parts(Synthesis) : file[i] \in ValidFiles
  /\ file[<<"combined", "reusable">>] = "combined" =>
       \A i \in PlanParts \cup {Plan} : file[i] \in ValidFiles
  /\ file[<<"combined", "adjustment">>] = "combined" =>
       \A i \in Parts(<<"combined", "adjustment">>) : file[i] \in ValidFiles

(* A synthesis or a review that fell back is recorded as such, wherever the *)
(* process died.                                                            *)
FallbackOnRecord ==
  \A i \in Items :
    Of(i).last = "record first" /\ file[i] = "fallback" => record[i]

(* A fallback stands for a full series of rejected answers: a refused       *)
(* budget or a failed launch never degrades a result.                       *)
FallbackIsEarned ==
  \A i \in Items :
    at[i] \in {"used", "note", "noted"} => tries[i] = Of(i).tries

(* A result that was once returned to a caller is what every later call     *)
(* returns: no later call replaces it.                                      *)
ResultsAreFinal ==
  [][\A i \in Items : file[i] \in ValidFiles => file'[i] = file[i]]_vars

(* Whatever is answered, refused or lost, a call comes to its end.          *)
StageEnds == phase = "run" ~> phase # "run"

(* What a stage accepts from a transcript after a restart it also accepts   *)
(* from the session that says it.                                           *)
LiveAnswerAccepted == \A i \in Items : refused[i] = {}

(* The invariant of a stage: its types, and results that stand on what they *)
(* were made from, valid when they are returned, with every fallback of a   *)
(* synthesis or a review on record.                                         *)
StageInv ==
  /\ StageTypeOK
  /\ ReturnedIsValid
  /\ ComparedIsReviewed
  /\ CombinedIsWhole
  /\ FallbackOnRecord
=============================================================================
