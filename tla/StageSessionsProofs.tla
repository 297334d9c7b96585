------------------------- MODULE StageSessionsProofs -------------------------
(* The analysis stages for any groups, chunks of tasks, attempts, units and *)
(* repeated calls.  First: what each place of an item says of that item     *)
(* alone.  Then what an item says of its parts and of its review.  Last:    *)
(* the units paid for the sessions that are open.                           *)
EXTENDS StageSessions, FiniteSetTheorems, TLAPS

(* The places of an item that has no result yet.                            *)
Working == {"scan", "ask", "live", "used", "note", "keep"}

(* What the place of an item says of its attempts, transcripts, file and    *)
(* record.                                                                  *)
PlaceKnown(i) ==
  /\ at[i] = "wait" => Parts(i) # {}
  /\ at[i] = "scan" => Parts(i) = {}
  /\ at[i] \in {"split", "review"} => i[1] = "compare"
  /\ at[i] \in {"note", "noted"} => i[1] # "compare"

AnswersKnown(i) ==
  /\ Of(i).scans /\ at[i] \in {"off", "look", "scan"} =>
       old[i] \subseteq texts[i]
  /\ Of(i).scans /\ (at[i] \in {"ask", "live"} \/ tries[i] > 0) => old[i] = {}
  /\ at[i] \in {"used", "note", "noted"} => tries[i] = Of(i).tries

FileKnown(i) ==
  /\ at[i] \in Working \cup {"wait"} => file[i] \notin ValidFiles
  /\ at[i] \in {"settle", "noted"} => file[i] \in ValidFiles
  /\ at[i] = "done" /\ i[1] # "compare" /\ i # Synthesis =>
       file[i] \in ValidFiles
  /\ at[i] = "note" => record[i]
  /\ Of(i).last = "record first" /\ file[i] = "fallback" => record[i]

(* A transcript whose job is open was left by a crash, and the job is one   *)
(* of those the ledger has open.                                            *)
TextsKnown(i) ==
  /\ \A x \in texts[i] : x.open => x.verdict = "good" /\ open[i] > 0
  /\ at[i] \in {"off", "look", "wait", "scan", "ask", "live"} =>
       taken[i] = NoText
  /\ at[i] = "keep" /\ taken[i] # NoText => taken[i] \in texts[i]
  /\ at[i] = "settle" => taken[i] \in texts[i] /\ taken[i].open

ItemKnown(i) ==
  PlaceKnown(i) /\ AnswersKnown(i) /\ FileKnown(i) /\ TextsKnown(i)

(* The parts of an item are asked for by it alone, and after its look.      *)
PartsWait ==
  \A i \in Items : at[i] \in {"off", "look"} =>
    \A p \in Parts(i) : at[p] = "off"

(* A review that is due has no result yet.                                  *)
ReviewOf(i) == <<"review", i[2]>>

ReviewDue ==
  \A i \in Items :
    i[1] = "compare" /\ at[ReviewOf(i)] = "off" =>
      (at[i] \in {"scan", "ask", "live", "keep", "settle", "review"} =>
         file[ReviewOf(i)] \notin ValidFiles)

(* A comparison group is reviewed as a whole or task by task.               *)
Reviewed(c) ==
  \/ file[<<"review", c>>] \in ValidFiles
  \/ \A t \in c : file[<<"review", {t}>>] \in ValidFiles

DoneIsReviewed ==
  \A i \in Items : i[1] = "compare" /\ at[i] = "done" => Reviewed(i[2])

(* What an item stands on when it is made from its parts.                   *)
PartDone(p) ==
  IF p[1] = "compare" THEN Reviewed(p[2]) ELSE file[p] \in ValidFiles

Basis(i) ==
  Parts(i) \cup (IF i = <<"combined", "reusable">> THEN PlanParts ELSE {})

Stands ==
  \A i \in Items :
    at[i] \in {"ask", "live", "used", "note", "keep"} \/ file[i] \in ValidFiles
      => \A p \in Basis(i) : PartDone(p)

(* The sessions that are open are paid.                                     *)
LiveItems == {i \in Items : at[i] = "live"}

LiveArePaid ==
  phase = "run" => IsFiniteSet(LiveItems) /\ Cardinality(LiveItems) <= spent

Indexed ==
  \A f \in {tries, taken, last, refused, open, texts, old, file} :
    DOMAIN f = Items

StageIInv ==
  /\ StageTypeOK /\ Indexed
  /\ \A i \in Items : ItemKnown(i)
  /\ PartsWait /\ ReviewDue /\ DoneIsReviewed /\ Stands
  /\ LiveArePaid
  /\ ReturnedIsValid

-----------------------------------------------------------------------------
(* The table of the work, by kind of item.                                  *)
Kinds == {"explorer", "query", "group", "baseline", "compare", "review",
          "comparison", "plan", "side", "combined", "post"}

LEMMA KindOf ==
  ASSUME NEW i \in Items
  PROVE  /\ i[1] \in Kinds
         /\ i[1] = "baseline" => i = Synthesis
         /\ i[1] = "combined" =>
              i \in {<<"combined", "reusable">>, <<"combined", "adjustment">>}
         /\ i[1] = "compare" => i = <<"compare", i[2]>> /\ ReviewOf(i) \in Items
         /\ i[1] = "comparison" => i = <<"comparison", "all">>
BY DEF Items, DiscoveryItems, BaselineItems, ComparisonItems, AnalysisItems,
   PostItems, Kinds, Synthesis, ReviewOf

WorkFits(kind, work) ==
  /\ work.tries \in Nat
  /\ work.scans => kind \in {"group", "compare", "side", "post"}
  /\ work.stale = "trust" => kind = "baseline"
  /\ work.stale \in {"trust", "raise", "redo"}
  /\ work.last = "split" => kind = "compare"
  /\ work.last \in {"salvage", "record first", "record last"} =>
       kind # "compare"
  /\ kind = "review" => work.stale = "redo" /\ ~work.scans

LEMMA WorkByKind ==
  ASSUME NEW i \in Items
  PROVE  WorkFits(i[1], Of(i))
<1>0. Attempts \in Nat
  BY StageAssumption
<1>1. WorkFits("explorer", Work["explorer"])
  <2>1. WorkFits("explorer", ExplorerWork)
    BY <1>0 DEF WorkFits, ExplorerWork
  <2>. QED  BY <2>1 DEF Work
<1>2. WorkFits("query", Work["query"])
  <2>1. WorkFits("query", QueryWork)
    BY <1>0 DEF WorkFits, QueryWork
  <2>. QED  BY <2>1 DEF Work
<1>3. WorkFits("group", Work["group"])
  <2>1. WorkFits("group", GroupWork)
    BY <1>0 DEF WorkFits, GroupWork
  <2>. QED  BY <2>1 DEF Work
<1>4. WorkFits("baseline", Work["baseline"])
  <2>1. WorkFits("baseline", SynthesisWork)
    BY <1>0 DEF WorkFits, SynthesisWork
  <2>. QED  BY <2>1 DEF Work
<1>5. WorkFits("compare", Work["compare"])
  <2>1. WorkFits("compare", CompareWork)
    BY <1>0 DEF WorkFits, CompareWork
  <2>. QED  BY <2>1 DEF Work
<1>6. WorkFits("review", Work["review"])
  <2>1. WorkFits("review", ReviewWork)
    BY <1>0 DEF WorkFits, ReviewWork
  <2>. QED  BY <2>1 DEF Work
<1>7. WorkFits("comparison", Work["comparison"])
  <2>1. WorkFits("comparison", CombinedComparison)
    BY <1>0 DEF WorkFits, CombinedComparison
  <2>. QED  BY <2>1 DEF Work
<1>8. WorkFits("plan", Work["plan"])
  <2>1. WorkFits("plan", PlanWork)
    BY <1>0 DEF WorkFits, PlanWork
  <2>. QED  BY <2>1 DEF Work
<1>9. WorkFits("side", Work["side"])
  <2>1. WorkFits("side", SideWork)
    BY <1>0 DEF WorkFits, SideWork
  <2>. QED  BY <2>1 DEF Work
<1>10. WorkFits("combined", Work["combined"])
  <2>1. WorkFits("combined", CombinedSide)
    BY <1>0 DEF WorkFits, CombinedSide
  <2>. QED  BY <2>1 DEF Work
<1>11. WorkFits("post", Work["post"])
  <2>1. WorkFits("post", PostWork)
    BY <1>0 DEF WorkFits, PostWork
  <2>. QED  BY <2>1 DEF Work
<1>. QED
  BY <1>1, <1>2, <1>3, <1>4, <1>5, <1>6, <1>7, <1>8, <1>9, <1>10, <1>11, KindOf
     DEF Kinds, Of

LEMMA PartsOf ==
  ASSUME NEW i \in Items
  PROVE  /\ Parts(i) # {} => i[1] \in {"baseline", "comparison", "combined"}
         /\ \A p \in Basis(i) :
              /\ p \in Items
              /\ p[1] \in {"group", "compare", "plan", "side"}
              /\ p[1] # "compare" => p # Synthesis
         /\ \A p \in Parts(i) : p \in Items /\ p \notin PlanParts
<1>1. /\ Parts(i) # {} => i[1] \in {"baseline", "comparison", "combined"}
      /\ \A p \in Basis(i) : p[1] \in {"group", "compare", "plan", "side"}
  BY DEF Parts, Basis, PlanParts, Plan
<1>2. \A p \in Basis(i) : p \in Items
  <2>1. PlanParts \subseteq Items /\ Plan \in Items
    BY DEF PlanParts, Plan, Items, AnalysisItems
  <2>2. /\ \A g \in Groups : <<"group", g>> \in Items
        /\ \A g \in AdjustGroups : <<"side", g>> \in Items
        /\ \A c \in Chunks : <<"compare", c>> \in Items
    BY DEF Items, BaselineItems, AnalysisItems, ComparisonItems, Compared
  <2>. QED  BY <2>1, <2>2 DEF Basis, Parts
<1>3. \A p \in Parts(i) : p \notin PlanParts
  BY StageAssumption DEF Parts, PlanParts, Plan
<1>. QED  BY <1>1, <1>2, <1>3 DEF Basis, Synthesis

LEMMA OneParent ==
  ASSUME NEW i \in Items, NEW j \in Items, NEW p \in Parts(i), p \in Parts(j)
  PROVE  i = j
<1>1. i[1] \in {"baseline", "comparison", "combined"}
      /\ j[1] \in {"baseline", "comparison", "combined"}
  BY PartsOf
<1>2. /\ i \in {Synthesis, <<"comparison", "all">>, <<"combined", "reusable">>,
               <<"combined", "adjustment">>}
      /\ j \in {Synthesis, <<"comparison", "all">>, <<"combined", "reusable">>,
               <<"combined", "adjustment">>}
  BY <1>1, KindOf
<1>. QED  BY <1>2 DEF Parts, Synthesis, Plan

LEMMA CalledItems ==
  /\ Mine \subseteq Items
  /\ Roots(stage) \subseteq Items
  /\ \A i \in Roots(stage) : i[1] # "compare"
BY DEF Mine, StageItems, Roots, Items

-----------------------------------------------------------------------------
(* A step of item i changes item i; other items are at most asked for: the  *)
(* parts of i and the halves of a group by a look, its review by a session. *)
Same(j) ==
  /\ tries'[j] = tries[j] /\ taken'[j] = taken[j]
  /\ last'[j] = last[j] /\ refused'[j] = refused[j]
  /\ texts'[j] = texts[j] /\ open'[j] = open[j]
  /\ file'[j] = file[j] /\ record'[j] = record[j]

AskedFor(j, i) ==
  /\ at[j] = "off"
  /\ \/ /\ at'[j] = "look"
        /\ \/ j \in Parts(i) /\ at'[i] = "wait"
           \/ j \in Halves(i) /\ i[1] = "compare"
     \/ /\ at'[j] = "ask" /\ at[i] = "review" /\ i[1] = "compare"
        /\ j = ReviewOf(i)

Frame(i) ==
  /\ UNCHANGED <<stage, phase, old>>
  /\ \A j \in Items \ {i} : Same(j) /\ (at'[j] = at[j] \/ AskedFor(j, i))

ItemOrFailure(i) == ItemStep(i) \/ OpenFails(i)

LEMMA ItemFrame ==
  ASSUME StageIInv, NEW i \in Items, ItemOrFailure(i)
  PROVE  Frame(i)
<1>0. DOMAIN record = Items /\ DOMAIN at = Items
  BY DEF StageIInv, StageTypeOK
<1>1. /\ DOMAIN tries = Items /\ DOMAIN taken = Items /\ DOMAIN texts = Items
      /\ DOMAIN open = Items /\ DOMAIN file = Items
      /\ DOMAIN last = Items /\ DOMAIN refused = Items
  BY DEF StageIInv, Indexed
<1>. USE <1>0, <1>1 DEF Frame, Same, AskedFor, Goes, call, mind, disk
<1>2. CASE UseFile(i)
  BY <1>2 DEF UseFile
<1>3. CASE NoFile(i)
  <2>1. \A p \in Parts(i) : at[p] = "off"
    BY <1>3 DEF NoFile, StageIInv, PartsWait
  <2>. QED  BY <1>3, <2>1 DEF NoFile
<1>4. CASE JoinParts(i) \/ RecoverTranscript(i) \/ NothingRecovered(i)
  BY <1>4 DEF JoinParts, RecoverTranscript, NothingRecovered
<1>5. CASE Ask(i) \/ AskRefused(i) \/ Combine(i) \/ OpenFails(i)
  BY <1>5 DEF Ask, AskRefused, Combine, OpenFails
<1>6. CASE Answer(i)
  BY <1>6 DEF Answer
<1>7. CASE Keep(i) \/ SettleRecovered(i)
  BY <1>7 DEF Keep, SettleRecovered
<1>8. CASE Review(i)
  <2>1. CASE at[ReviewOf(i)] = "off"
    BY <1>8, <2>1 DEF Review, ReviewOf
  <2>2. CASE at[ReviewOf(i)] \in Settled
    BY <1>8, <2>2 DEF Review, ReviewOf, Settled
  <2>. QED  BY <1>8, <2>1, <2>2 DEF Review, ReviewOf
<1>9. CASE RaiseUsedUp(i) \/ Salvage(i) \/ FallBack(i) \/ FallBackEnds(i)
           \/ SplitEnds(i)
  BY <1>9 DEF RaiseUsedUp, Salvage, FallBack, FallBackEnds, SplitEnds
<1>10. CASE Split(i)
  <2>1. i[1] = "compare"
    BY <1>10, WorkByKind DEF Split, UsedUp, WorkFits, StageIInv, ItemKnown,
       PlaceKnown
  <2>. QED  BY <1>10, <2>1 DEF Split
<1>. QED
  BY <1>2, <1>3, <1>4, <1>5, <1>6, <1>7, <1>8, <1>9, <1>10
     DEF ItemOrFailure, ItemStep

LEMMA OthersKnown ==
  ASSUME StageIInv, NEW i \in Items, ItemOrFailure(i), NEW j \in Items, j # i
  PROVE  ItemKnown(j)'
<1>1. /\ UNCHANGED old /\ Same(j) /\ (at'[j] = at[j] \/ AskedFor(j, i))
      /\ ItemKnown(j) /\ WorkFits(j[1], Of(j))
  BY ItemFrame, WorkByKind DEF Frame, StageIInv
<1>2. CASE at'[j] = at[j]
  BY <1>1, <1>2 DEF ItemKnown, PlaceKnown, AnswersKnown, FileKnown, TextsKnown,
     Same
<1>3. CASE at[j] = "off" /\ at'[j] = "look"
  BY <1>1, <1>3 DEF ItemKnown, PlaceKnown, AnswersKnown, FileKnown, TextsKnown,
     Same, Working
<1>4. CASE AskedFor(j, i) /\ at'[j] = "ask"
  <2>1. j = ReviewOf(i) /\ i[1] = "compare" /\ at[i] = "review"
    BY <1>4 DEF AskedFor
  <2>3. j[1] = "review" /\ ~Of(j).scans
    BY <1>1, <2>1 DEF ReviewOf, WorkFits
  <2>2. file[j] \notin ValidFiles
    BY <1>4, <2>1 DEF AskedFor, StageIInv, ReviewDue
  <2>. QED
    BY <1>1, <1>4, <2>3, <2>2 DEF ItemKnown, PlaceKnown, AnswersKnown,
       FileKnown, TextsKnown, Same, Working, AskedFor
<1>. QED  BY <1>1, <1>2, <1>3, <1>4 DEF AskedFor

LEMMA OwnPlace ==
  ASSUME StageIInv, NEW i \in Items, ItemOrFailure(i)
  PROVE  PlaceKnown(i)'
<1>0. PlaceKnown(i) /\ WorkFits(i[1], Of(i)) /\ DOMAIN at = Items
  BY WorkByKind DEF StageIInv, ItemKnown, StageTypeOK
<1>1. CASE UseFile(i)
  BY <1>0, <1>1 DEF UseFile, Goes, PlaceKnown
<1>2. CASE NoFile(i)
  BY <1>0, <1>2 DEF NoFile, PlaceKnown
<1>3. CASE Keep(i) \/ SettleRecovered(i)
  BY <1>0, <1>3 DEF Keep, SettleRecovered, AfterKeep, Goes, PlaceKnown
<1>4. CASE Review(i)
  BY <1>0, <1>4 DEF Review, Goes, PlaceKnown, Settled
<1>5. CASE Split(i)
  <2>1. i[1] = "compare"
    BY <1>0, <1>5 DEF Split, UsedUp, WorkFits, PlaceKnown
  <2>2. at'[i] \notin {"wait", "scan", "note", "noted"}
    BY <1>0, <1>5 DEF Split
  <2>. QED  BY <2>1, <2>2 DEF PlaceKnown
<1>6. CASE RaiseUsedUp(i) \/ Salvage(i) \/ FallBack(i) \/ FallBackEnds(i)
           \/ SplitEnds(i)
  BY <1>0, <1>6 DEF RaiseUsedUp, Salvage, FallBack, FallBackEnds, SplitEnds,
     UsedUp, WorkFits, Goes, PlaceKnown
<1>7. CASE JoinParts(i) \/ RecoverTranscript(i) \/ NothingRecovered(i) \/ Ask(i)
           \/ AskRefused(i) \/ OpenFails(i) \/ Combine(i)
  BY <1>0, <1>7 DEF JoinParts, RecoverTranscript, NothingRecovered, Ask,
     AskRefused, OpenFails, Combine, Goes, PlaceKnown
<1>8. CASE Answer(i)
  BY <1>0, <1>8 DEF Answer, Goes, PlaceKnown
<1>. QED
  BY <1>1, <1>2, <1>3, <1>4, <1>5, <1>6, <1>7, <1>8 DEF ItemOrFailure, ItemStep

LEMMA OwnAnswers ==
  ASSUME StageIInv, NEW i \in Items, ItemOrFailure(i)
  PROVE  AnswersKnown(i)'
<1>0. /\ AnswersKnown(i) /\ WorkFits(i[1], Of(i)) /\ DOMAIN at = Items
      /\ tries[i] \in 0..Of(i).tries /\ UNCHANGED old
      /\ DOMAIN tries = Items /\ DOMAIN texts = Items
  BY WorkByKind, ItemFrame DEF StageIInv, ItemKnown, StageTypeOK, Indexed, Frame
<1>1. CASE UseFile(i) \/ NoFile(i) \/ AskRefused(i) \/ OpenFails(i)
  BY <1>0, <1>1 DEF UseFile, NoFile, AskRefused, OpenFails, mind, disk, Goes,
     AnswersKnown
<1>2. CASE JoinParts(i)
  <2>1. Parts(i) # {}
    BY <1>2 DEF JoinParts, StageIInv, ItemKnown, PlaceKnown
  <2>2. ~Of(i).scans
    BY <1>0, <2>1, PartsOf DEF WorkFits
  <2>3. at'[i] \in {"ask", "failed"} /\ UNCHANGED tries
    BY <1>0, <1>2 DEF JoinParts, Goes, mind
  <2>. QED  BY <1>0, <2>2, <2>3 DEF AnswersKnown
<1>3. CASE RecoverTranscript(i) \/ NothingRecovered(i) \/ Combine(i) \/ Keep(i)
  BY <1>0, <1>3 DEF RecoverTranscript, NothingRecovered, Combine, Keep,
     AfterKeep, Found, mind, disk, Goes, AnswersKnown
<1>4. CASE Ask(i)
  <2>1. at[i] = "ask" /\ at'[i] = "live"
    BY <1>0, <1>4 DEF Ask, Goes
  <2>. QED  BY <1>0, <2>1 DEF AnswersKnown
<1>5. CASE Answer(i)
  <2>1. /\ at[i] = "live" /\ UNCHANGED tries
        /\ \/ at'[i] \in {"keep", "ask"}
           \/ at'[i] = "used" /\ ~(tries[i] < Of(i).tries)
    BY <1>0, <1>5 DEF Answer, Goes
  <2>3. Of(i).tries \in Nat
    BY <1>0 DEF WorkFits
  <2>2. tries[i] < Of(i).tries \/ tries[i] = Of(i).tries
    BY <1>0, <2>3
  <2>. QED  BY <1>0, <2>1, <2>2 DEF AnswersKnown
<1>6. CASE SettleRecovered(i)
  BY <1>0, <1>6 DEF SettleRecovered, AfterKeep, Goes, AnswersKnown
<1>7. CASE Review(i)
  BY <1>0, <1>7 DEF Review, Goes, mind, Settled, AnswersKnown
<1>8. CASE RaiseUsedUp(i) \/ Salvage(i) \/ FallBack(i) \/ FallBackEnds(i)
           \/ SplitEnds(i) \/ Split(i)
  BY <1>0, <1>8 DEF RaiseUsedUp, Salvage, FallBack, FallBackEnds, SplitEnds,
     Split, UsedUp, Goes, mind, AnswersKnown
<1>. QED
  BY <1>1, <1>2, <1>3, <1>4, <1>5, <1>6, <1>7, <1>8 DEF ItemOrFailure, ItemStep

LEMMA OwnFile ==
  ASSUME StageIInv, NEW i \in Items, ItemOrFailure(i)
  PROVE  FileKnown(i)'
<1>0. /\ FileKnown(i) /\ WorkFits(i[1], Of(i)) /\ DOMAIN at = Items
      /\ file[i] \in ValidFiles \cup {"none", "stale"}
      /\ taken[i] \in Texts \cup {NoText}
      /\ i[1] = "baseline" => i = Synthesis
      /\ DOMAIN file = Items /\ DOMAIN record = Items
  BY WorkByKind, KindOf DEF StageIInv, ItemKnown, StageTypeOK, Indexed
<1>1. CASE UseFile(i)
  <2>1. UNCHANGED <<file, record>> /\ at'[i] \in {"done", "failed", "review"}
    BY <1>0, <1>1 DEF UseFile, Goes, disk
  <2>2. at'[i] = "done" /\ i[1] # "compare" => FileVerdict(i) = "use"
    BY <1>0, <1>1 DEF UseFile, Goes, FileVerdict
  <2>3. FileVerdict(i) = "use" /\ i # Synthesis => file[i] \in ValidFiles
    BY <1>0 DEF FileVerdict, WorkFits
  <2>. QED  BY <1>0, <2>1, <2>2, <2>3 DEF FileKnown, Working
<1>2. CASE NoFile(i)
  <2>1. UNCHANGED <<file, record>> /\ at'[i] \in {"wait", "scan"}
    BY <1>0, <1>2 DEF NoFile, disk
  <2>2. file[i] \notin ValidFiles
    BY <1>2 DEF NoFile, FileVerdict, ValidFiles, DiskAccepts
  <2>. QED  BY <1>0, <2>1, <2>2 DEF FileKnown, Working
<1>3. CASE JoinParts(i) \/ RecoverTranscript(i) \/ NothingRecovered(i) \/ Ask(i)
           \/ AskRefused(i) \/ OpenFails(i) \/ Combine(i)
  BY <1>0, <1>3 DEF JoinParts, RecoverTranscript, NothingRecovered, Ask,
     AskRefused, OpenFails, Combine, Goes, disk, FileKnown, Working
<1>4. CASE Answer(i)
  <2>1. /\ UNCHANGED <<file, record>> /\ at[i] = "live"
        /\ at'[i] \in {"keep", "ask", "used"}
    BY <1>0, <1>4 DEF Answer, Goes
  <2>. QED  BY <1>0, <2>1 DEF FileKnown, Working
<1>5. CASE Keep(i)
  <2>1. Content(i) \in ValidFiles /\ Content(i) # "fallback"
    BY <1>0 DEF Content, ValidFiles, DiskAccepts, Texts
  <2>2. /\ file'[i] = Content(i) /\ at'[i] \in {"settle", "review", "done"}
        /\ UNCHANGED record
    BY <1>0, <1>5 DEF Keep, AfterKeep, Goes
  <2>. QED  BY <2>1, <2>2 DEF FileKnown, Working
<1>6. CASE SettleRecovered(i)
  <2>1. /\ at[i] = "settle" /\ at'[i] \in {"review", "done"}
        /\ UNCHANGED <<file, record>>
    BY <1>0, <1>6 DEF SettleRecovered, AfterKeep, Goes
  <2>. QED  BY <1>0, <2>1 DEF FileKnown, Working
<1>7. CASE Review(i)
  BY <1>0, <1>7 DEF Review, Goes, disk, Settled, FileKnown, Working
<1>8. CASE Salvage(i)
  <2>1. /\ Of(i).last = "salvage" /\ UNCHANGED record
        /\ \/ file'[i] = "fallback" /\ at'[i] = "done"
           \/ file'[i] = file[i] /\ at'[i] = "failed"
    BY <1>0, <1>8 DEF Salvage, UsedUp, Goes
  <2>. QED  BY <1>0, <2>1 DEF FileKnown, Working, ValidFiles
<1>9. CASE FallBack(i)
  <2>1. /\ at[i] = "used"
        /\ \/ file'[i] = file[i] /\ at'[i] = "note" /\ record'[i] = TRUE
           \/ /\ file'[i] = "fallback" /\ at'[i] = "noted"
              /\ Of(i).last = "record last" /\ record'[i] = record[i]
    BY <1>0, <1>9 DEF FallBack, UsedUp, Goes
  <2>. QED  BY <1>0, <2>1 DEF FileKnown, Working, ValidFiles
<1>10. CASE FallBackEnds(i)
  <2>1. /\ at'[i] = "done"
        /\ \/ at[i] = "note" /\ file'[i] = "fallback" /\ record'[i] = record[i]
           \/ at[i] = "noted" /\ file'[i] = file[i] /\ record'[i] = TRUE
    BY <1>0, <1>10 DEF FallBackEnds, Goes
  <2>. QED  BY <1>0, <2>1 DEF FileKnown, Working, ValidFiles
<1>11. CASE Split(i)
  <2>1. at'[i] = "split" /\ UNCHANGED <<file, record>>
    BY <1>0, <1>11 DEF Split, disk
  <2>. QED  BY <1>0, <2>1 DEF FileKnown, Working
<1>12. CASE RaiseUsedUp(i) \/ SplitEnds(i)
  <2>1. /\ UNCHANGED <<file, record>>
        /\ \/ at'[i] = "failed"
           \/ at[i] = "split" /\ at'[i] = "done"
    BY <1>0, <1>12 DEF RaiseUsedUp, SplitEnds, Goes, disk
  <2>2. at[i] = "split" => i[1] = "compare"
    BY DEF StageIInv, ItemKnown, PlaceKnown
  <2>. QED  BY <1>0, <2>1, <2>2 DEF FileKnown, Working
<1>. QED
  BY <1>1, <1>2, <1>3, <1>4, <1>5, <1>6, <1>7, <1>8, <1>9, <1>10, <1>11, <1>12
     DEF ItemOrFailure, ItemStep

LEMMA OwnTexts ==
  ASSUME StageIInv, NEW i \in Items, ItemOrFailure(i)
  PROVE  TextsKnown(i)'
<1>0. /\ TextsKnown(i) /\ DOMAIN at = Items /\ DOMAIN taken = Items
      /\ DOMAIN texts = Items /\ DOMAIN open = Items
      /\ open[i] \in Nat /\ texts[i] \subseteq Texts
      /\ taken[i] \in Texts \cup {NoText}
  BY DEF StageIInv, ItemKnown, StageTypeOK, Indexed
<1>1. CASE UseFile(i) \/ NoFile(i) \/ JoinParts(i) \/ NothingRecovered(i)
           \/ Ask(i) \/ AskRefused(i) \/ OpenFails(i) \/ Combine(i)
  <2>1. /\ UNCHANGED <<texts, open, taken>>
        /\ at[i] \in {"off", "look", "wait", "scan", "ask", "live"}
        /\ at'[i] # "settle"
    BY <1>0, <1>1 DEF UseFile, NoFile, JoinParts, NothingRecovered, Ask,
       AskRefused, OpenFails, Combine, Goes, disk, mind
  <2>. QED  BY <1>0, <2>1 DEF TextsKnown
<1>2. CASE RecoverTranscript(i)
  <2>1. /\ UNCHANGED <<texts, open>> /\ at'[i] = "keep"
        /\ taken'[i] \in texts[i]
    BY <1>0, <1>2 DEF RecoverTranscript, Found, Goes, disk
  <2>. QED  BY <1>0, <2>1 DEF TextsKnown
<1>3. CASE Answer(i)
  <2>1. /\ at[i] = "live" /\ at'[i] \in {"keep", "ask", "used"}
        /\ UNCHANGED <<open, taken>>
        /\ \A x \in texts'[i] : x \in texts[i] \/ x.open = FALSE
    BY <1>0, <1>3 DEF Answer, Goes
  <2>. QED  BY <1>0, <2>1 DEF TextsKnown
<1>4. CASE Keep(i)
  <2>1. /\ at[i] = "keep" /\ UNCHANGED <<texts, open, taken>>
        /\ \/ at'[i] = "settle" /\ taken[i].open
           \/ at'[i] \in {"review", "done"}
    BY <1>0, <1>4 DEF Keep, AfterKeep, Goes, mind
  <2>2. taken[i].open => taken[i] # NoText
    BY DEF NoText
  <2>. QED  BY <1>0, <2>1, <2>2 DEF TextsKnown
<1>5. CASE SettleRecovered(i)
  <2>1. /\ at[i] = "settle" /\ at'[i] \in {"review", "done"}
        /\ texts'[i] = (texts[i] \ {taken[i]})
                         \cup {[taken[i] EXCEPT !.open = FALSE]}
    BY <1>0, <1>5 DEF SettleRecovered, AfterKeep, Goes
  <2>2. taken[i] \in texts[i] /\ taken[i].open
    BY <1>0, <2>1 DEF TextsKnown
  <2>3. \A x \in texts[i] : x.open => x = [verdict |-> "good", open |-> TRUE]
    BY <1>0 DEF TextsKnown, Texts
  <2>4. \A x \in texts'[i] : ~x.open
    <3>1. [taken[i] EXCEPT !.open = FALSE].open = FALSE
      BY <1>0, <2>2 DEF Texts
    <3>2. \A x \in texts[i] : x.open => x = taken[i]
      BY <2>2, <2>3
    <3>. QED  BY <2>1, <3>1, <3>2
  <2>. QED  BY <2>1, <2>4 DEF TextsKnown
<1>6. CASE Review(i)
  BY <1>0, <1>6 DEF Review, Goes, disk, mind, Settled, TextsKnown
<1>7. CASE Split(i)
  BY <1>0, <1>7 DEF Split, disk, mind, TextsKnown
<1>8. CASE RaiseUsedUp(i) \/ Salvage(i) \/ FallBack(i) \/ FallBackEnds(i)
           \/ SplitEnds(i)
  <2>1. /\ UNCHANGED <<texts, open, taken>>
        /\ at'[i] \in {"done", "failed", "note", "noted"}
    BY <1>0, <1>8 DEF RaiseUsedUp, Salvage, FallBack, FallBackEnds, SplitEnds,
       Goes, disk, mind
  <2>. QED  BY <1>0, <2>1 DEF TextsKnown
<1>. QED
  BY <1>1, <1>2, <1>3, <1>4, <1>5, <1>6, <1>7, <1>8 DEF ItemOrFailure, ItemStep

LEMMA ItemsKnown ==
  ASSUME StageIInv, NEW i \in Items, ItemOrFailure(i)
  PROVE  \A j \in Items : ItemKnown(j)'
BY OthersKnown, OwnPlace, OwnAnswers, OwnFile, OwnTexts DEF ItemKnown

-----------------------------------------------------------------------------
(* Where items go, and what stays.                                          *)
Places == AtRest \cup {"look", "wait", "scan", "ask", "live", "used", "keep",
                       "settle", "review", "split", "note", "noted"}

LEMMA OwnMove ==
  ASSUME StageIInv, NEW i \in Items, ItemOrFailure(i)
  PROVE  /\ phase = "run" /\ i \in Mine
         /\ at[i] \notin AtRest /\ at'[i] \notin {"off", "look"}
         /\ at' \in [Items -> Places]
<1>0. /\ at \in [Items -> Places] /\ DOMAIN at = Items
      /\ WorkFits(i[1], Of(i)) /\ PlaceKnown(i)
  BY WorkByKind DEF StageIInv, StageTypeOK, Places, ItemKnown
<1>. USE <1>0 DEF Goes, Active, AtRest, Settled, Places
<1>1. CASE UseFile(i)
  BY <1>1 DEF UseFile
<1>2. CASE NoFile(i)
  BY <1>2 DEF NoFile
<1>3. CASE JoinParts(i) \/ RecoverTranscript(i) \/ NothingRecovered(i) \/ Ask(i)
           \/ AskRefused(i) \/ OpenFails(i) \/ Combine(i)
  BY <1>3 DEF JoinParts, RecoverTranscript, NothingRecovered, Ask,
     AskRefused, OpenFails, Combine
<1>4. CASE Answer(i)
  BY <1>4 DEF Answer
<1>5. CASE Keep(i) \/ SettleRecovered(i)
  BY <1>5 DEF Keep, SettleRecovered, AfterKeep
<1>6. CASE Review(i)
  BY <1>6 DEF Review
<1>7. CASE RaiseUsedUp(i) \/ Salvage(i) \/ FallBack(i) \/ FallBackEnds(i)
           \/ SplitEnds(i)
  BY <1>7 DEF RaiseUsedUp, Salvage, FallBack, FallBackEnds, SplitEnds, UsedUp
<1>8. CASE Split(i)
  <2>1. /\ phase = "run" /\ i \in Mine /\ at[i] \in {"used", "split"}
    BY <1>8 DEF Split, UsedUp
  <2>2. PICK h \in Halves(i) :
          at[h] = "off" /\ at' = [at EXCEPT ![i] = "split", ![h] = "look"]
    BY <1>8 DEF Split
  <2>3. at'[i] = "split"
    BY <2>1, <2>2
  <2>. QED  BY <2>1, <2>2, <2>3
<1>. QED
  BY <1>1, <1>2, <1>3, <1>4, <1>5, <1>6, <1>7, <1>8 DEF ItemOrFailure, ItemStep

(* A result that is valid is not written again.                             *)
LEMMA FilesStay ==
  ASSUME StageIInv, NEW i \in Items, ItemOrFailure(i)
  PROVE  \A j \in Items : file[j] \in ValidFiles => file'[j] = file[j]
<1>1. \A j \in Items \ {i} : file'[j] = file[j]
  BY ItemFrame DEF Frame, Same
<1>2. FileKnown(i)
  BY DEF StageIInv, ItemKnown
<1>3. CASE Keep(i) \/ Salvage(i) \/ FallBack(i) \/ FallBackEnds(i)
  BY <1>1, <1>2, <1>3 DEF Keep, Salvage, UsedUp, FallBack, FallBackEnds,
     FileKnown, Working
<1>4. CASE ~(Keep(i) \/ Salvage(i) \/ FallBack(i) \/ FallBackEnds(i))
  BY <1>4 DEF ItemOrFailure, ItemStep, UseFile, NoFile, JoinParts,
     RecoverTranscript, NothingRecovered, Ask, AskRefused, OpenFails, Combine,
     Answer, SettleRecovered, Review, RaiseUsedUp, SplitEnds, Split, disk
<1>. QED  BY <1>3, <1>4

(* The tasks of a comparison group are groups themselves.                   *)
LEMMA ComparedTasks ==
  ASSUME NEW c \in Compared
  PROVE  /\ <<"review", c>> \in Items /\ <<"compare", c>> \in Items
         /\ \A t \in c : {t} \in Compared
         /\ c \in Chunks \/ \E t : c = {t}
BY DEF Items, ComparisonItems, Compared, Singles

LEMMA PartsStay ==
  ASSUME NEW p \in Items,
         \A j \in Items : file[j] \in ValidFiles => file'[j] \in ValidFiles
  PROVE  /\ p[1] = "compare" /\ Reviewed(p[2]) => Reviewed(p[2])'
         /\ PartDone(p) => PartDone(p)'
<1>1. CASE p[1] = "compare"
  <2>1. p[2] \in Compared
    BY <1>1 DEF Items, DiscoveryItems, BaselineItems, ComparisonItems,
       AnalysisItems, PostItems, Plan
  <2>2. /\ <<"review", p[2]>> \in Items
        /\ \A t \in p[2] : <<"review", {t}>> \in Items
    BY <2>1, ComparedTasks
  <2>. QED  BY <1>1, <2>2 DEF Reviewed, PartDone
<1>. QED  BY <1>1 DEF PartDone

-----------------------------------------------------------------------------
(* What an item says of its parts, through a step of any item.              *)
LEMMA PartsWaitStep ==
  ASSUME StageIInv, NEW i \in Items, ItemOrFailure(i)
  PROVE  PartsWait'
<1>1. SUFFICES ASSUME NEW j \in Items, at'[j] \in {"off", "look"},
                      NEW p \in Parts(j)
               PROVE  at'[p] = "off"
  <2>1. \A k \in Items : Parts(k)' = Parts(k)
    BY DEF Parts, Plan
  <2>. QED  BY <1>1, <2>1 DEF PartsWait
<1>2. /\ Frame(i) /\ at[i] \notin AtRest /\ at'[i] \notin {"off", "look"}
      /\ p \in Items /\ p[1] \in {"group", "compare", "plan", "side"}
  BY ItemFrame, OwnMove, PartsOf DEF Basis
<1>3. j # i /\ at[j] \in {"off", "look"}
  BY <1>1, <1>2 DEF Frame, AskedFor
<1>4. at[p] = "off" /\ p # i
  BY <1>1, <1>2, <1>3 DEF StageIInv, PartsWait, AtRest
<1>5. at'[p] = "off" \/ AskedFor(p, i)
  BY <1>2, <1>4 DEF Frame
<1>6. ASSUME AskedFor(p, i) PROVE FALSE
  <2>1. p[1] # "review"
    BY <1>2
  <2>2. CASE p \in Parts(i)
    BY <2>2, <1>1, <1>3, OneParent
  <2>3. CASE p \in Halves(i) /\ i[1] = "compare"
    <3>1. PICK t \in i[2] : p = <<"compare", {t}>>
      BY <2>3 DEF Halves
    <3>2. j = <<"comparison", "all">>
      BY <2>3, <3>1, <1>1, KindOf DEF Parts, Plan
    <3>3. i = <<"compare", i[2]>> /\ i[2] \in Compared
      BY <2>3 DEF Items, DiscoveryItems, BaselineItems, ComparisonItems,
         AnalysisItems, PostItems, Plan
    <3>4. CASE i[2] \in Chunks
      <4>1. i \in Parts(j)
        BY <3>2, <3>3, <3>4 DEF Parts
      <4>. QED  BY <4>1, <1>2, <1>3 DEF StageIInv, PartsWait, AtRest
    <3>5. CASE \E u : i[2] = {u}
      BY <3>1, <3>3, <3>5, <1>4
    <3>. QED  BY <3>3, <3>4, <3>5, ComparedTasks
  <2>. QED  BY <1>6, <2>1, <2>2, <2>3 DEF AskedFor, ReviewOf
<1>. QED  BY <1>5, <1>6

LEMMA ReviewDueStep ==
  ASSUME StageIInv, NEW i \in Items, ItemOrFailure(i)
  PROVE  ReviewDue'
<1>. DEFINE Due == {"scan", "ask", "live", "keep", "settle", "review"}
<1>1. SUFFICES ASSUME NEW j \in Items, j[1] = "compare",
                      at'[ReviewOf(j)] = "off", at'[j] \in Due
               PROVE  file'[ReviewOf(j)] \notin ValidFiles
  BY DEF ReviewDue, ReviewOf
<1>2. /\ Frame(i) /\ at[i] \notin AtRest /\ at'[i] \notin {"off", "look"}
      /\ ReviewOf(j) \in Items
  BY <1>1, ItemFrame, OwnMove, KindOf
<1>3. /\ ReviewOf(j) # i /\ at[ReviewOf(j)] = "off"
      /\ file'[ReviewOf(j)] = file[ReviewOf(j)]
  BY <1>1, <1>2 DEF Frame, AskedFor, Same
<1>4. CASE at[j] \in Due
  BY <1>1, <1>3, <1>4 DEF StageIInv, ReviewDue
<1>5. CASE at[j] \notin Due
  <2>1. j = i
    BY <1>1, <1>2, <1>5 DEF Frame, AskedFor, ReviewOf
  <2>2. Parts(i) = {} /\ PlaceKnown(i) /\ DOMAIN at = Items
    BY <1>1, <2>1, PartsOf DEF StageIInv, ItemKnown, StageTypeOK
  <2>3. UseFile(i) \/ NoFile(i)
    BY <1>1, <1>5, <2>1, <2>2 DEF ItemOrFailure, ItemStep, JoinParts,
       RecoverTranscript, NothingRecovered, Ask, AskRefused, OpenFails, Combine,
       Answer, Keep, SettleRecovered, Review, RaiseUsedUp, Salvage, FallBack,
       FallBackEnds, SplitEnds, Split, UsedUp, Goes, PlaceKnown, Settled,
       ReviewOf, AfterKeep
  <2>4. FileVerdict(ReviewOf(j)) # "use"
    BY <1>1, <2>1, <2>2, <2>3 DEF UseFile, NoFile, Goes, ReviewOf
  <2>. QED
    BY <1>3, <2>4 DEF FileVerdict, ValidFiles, DiskAccepts
<1>. QED  BY <1>4, <1>5

LEMMA DoneIsReviewedStep ==
  ASSUME StageIInv, NEW i \in Items, ItemOrFailure(i)
  PROVE  DoneIsReviewed'
<1>1. SUFFICES ASSUME NEW j \in Items, j[1] = "compare", at'[j] = "done"
               PROVE  Reviewed(j[2])'
  BY DEF DoneIsReviewed
<1>2. /\ Frame(i)
      /\ \A k \in Items : file[k] \in ValidFiles => file'[k] \in ValidFiles
  BY ItemFrame, FilesStay
<1>3. Reviewed(j[2]) => Reviewed(j[2])'
  BY <1>1, <1>2, PartsStay
<1>4. SUFFICES Reviewed(j[2])
  BY <1>3
<1>5. CASE at[j] = "done"
  BY <1>1, <1>5 DEF StageIInv, DoneIsReviewed
<1>6. CASE at[j] # "done"
  <2>1. j = i
    BY <1>1, <1>2, <1>6 DEF Frame, AskedFor
  <2>2. /\ Parts(i) = {} /\ PlaceKnown(i) /\ WorkFits(i[1], Of(i))
        /\ DOMAIN at = Items
    BY <1>1, <2>1, PartsOf, WorkByKind DEF StageIInv, ItemKnown, StageTypeOK
  <2>3. UseFile(i) \/ Review(i) \/ SplitEnds(i)
    BY <1>1, <1>6, <2>1, <2>2 DEF ItemOrFailure, ItemStep, NoFile, JoinParts,
       RecoverTranscript, NothingRecovered, Ask, AskRefused, OpenFails, Combine,
       Answer, Keep, SettleRecovered, RaiseUsedUp, Salvage, FallBack,
       FallBackEnds, Split, UsedUp, Goes, PlaceKnown, AfterKeep, WorkFits
  <2>4. /\ ReviewOf(i) \in Items /\ i = <<"compare", i[2]>>
        /\ i[2] \in Compared
    BY <1>1, <2>1, KindOf DEF Items, DiscoveryItems, BaselineItems,
       ComparisonItems, AnalysisItems, PostItems, Plan
  <2>5. CASE UseFile(i)
    <3>1. FileVerdict(ReviewOf(i)) = "use"
      BY <1>1, <2>1, <2>2, <2>5 DEF UseFile, Goes, ReviewOf
    <3>2. /\ Of(ReviewOf(i)).stale = "redo"
          /\ file[ReviewOf(i)] \in ValidFiles \cup {"none", "stale"}
      BY <2>4, WorkByKind DEF WorkFits, ReviewOf, StageIInv, StageTypeOK
    <3>. QED  BY <2>1, <3>1, <3>2 DEF FileVerdict, Reviewed, ReviewOf
  <2>6. CASE Review(i)
    <3>1. at[ReviewOf(i)] = "done"
      BY <1>1, <2>1, <2>2, <2>6 DEF Review, Goes, ReviewOf, Settled
    <3>. QED
      BY <2>1, <2>4, <3>1 DEF StageIInv, ItemKnown, FileKnown, Reviewed,
         ReviewOf, Synthesis
  <2>7. CASE SplitEnds(i)
    <3>1. \A h \in Halves(i) : at[h] = "done"
      BY <1>1, <2>1, <2>2, <2>7 DEF SplitEnds, Goes
    <3>2. \A t \in i[2] : <<"compare", {t}>> \in Items
      BY <2>4, ComparedTasks
    <3>3. \A t \in i[2] : Reviewed({t})
      BY <3>1, <3>2 DEF Halves, StageIInv, DoneIsReviewed
    <3>4. \A t \in i[2] : file[<<"review", {t}>>] \in ValidFiles
      BY <3>3 DEF Reviewed
    <3>. QED  BY <2>1, <3>4 DEF Reviewed
  <2>. QED  BY <2>3, <2>5, <2>6, <2>7
<1>. QED  BY <1>5, <1>6

LEMMA StandsStep ==
  ASSUME StageIInv, NEW i \in Items, ItemOrFailure(i)
  PROVE  Stands'
<1>. DEFINE Making == {"ask", "live", "used", "note", "keep"}
<1>1. \A k \in Items : Basis(k)' = Basis(k)
  BY DEF Basis, Parts, PlanParts, Plan
<1>2. SUFFICES ASSUME NEW j \in Items, NEW p \in Basis(j),
                      at'[j] \in Making \/ file'[j] \in ValidFiles
               PROVE  PartDone(p)
  <2>1. /\ \A k \in Items : file[k] \in ValidFiles => file'[k] \in ValidFiles
        /\ \A k \in Items : \A q \in Basis(k) : q \in Items
    BY FilesStay, PartsOf
  <2>2. \A k \in Items : \A q \in Basis(k) : PartDone(q) => PartDone(q)'
    BY <2>1, PartsStay
  <2>. QED  BY <1>1, <1>2, <2>2 DEF Stands
<1>3. Frame(i)
  BY ItemFrame
<1>4. CASE at[j] \in Making \/ file[j] \in ValidFiles
  BY <1>4 DEF StageIInv, Stands
<1>5. CASE ~(at[j] \in Making \/ file[j] \in ValidFiles)
  <2>1. j = i
    <3>1. j[1] # "review"
      BY DEF Basis, Parts
    <3>. QED
      BY <1>2, <1>3, <1>5, <3>1 DEF Frame, Same, AskedFor, ReviewOf
  <2>2. /\ PlaceKnown(i) /\ FileKnown(i) /\ DOMAIN at = Items
    BY <2>1 DEF StageIInv, ItemKnown, StageTypeOK
  <2>3. \/ JoinParts(i) /\ at'[i] = "ask"
        \/ at[i] = "scan"
    BY <1>2, <1>5, <2>1, <2>2 DEF ItemOrFailure, ItemStep, UseFile, NoFile,
       JoinParts, RecoverTranscript, NothingRecovered, Ask, AskRefused,
       OpenFails, Combine, Answer, Keep, SettleRecovered, Review, RaiseUsedUp,
       Salvage, FallBack, FallBackEnds, SplitEnds, Split, UsedUp, Goes,
       PlaceKnown, AfterKeep, disk, FileKnown, Settled
  <2>4. CASE at[i] = "scan"
    <3>1. Parts(i) = {}
      BY <2>2, <2>4 DEF PlaceKnown
    <3>. QED  BY <1>2, <2>1, <3>1 DEF Basis, Parts
  <2>5. CASE JoinParts(i) /\ at'[i] = "ask"
    <3>1. PartsDone(i) /\ ~PlanFails(i) /\ Planned(i)
      BY <2>2, <2>5 DEF JoinParts, Goes
    <3>2. at[p] = "done"
      <4>1. CASE p \in Parts(i)
        BY <3>1, <4>1 DEF PartsDone
      <4>2. CASE i = <<"combined", "reusable">> /\ p \in PlanParts
        <5>1. at[Plan] = "done"
          BY <3>1, <4>2 DEF PartsDone, Parts
        <5>. QED
          BY <3>1, <4>2, <5>1 DEF PlanFails, Planned, Settled
      <4>. QED  BY <1>2, <2>1, <4>1, <4>2 DEF Basis
    <3>3. p \in Items /\ (p[1] # "compare" => p # Synthesis)
      BY <1>2, PartsOf
    <3>4. FileKnown(p)
      BY <3>3 DEF StageIInv, ItemKnown
    <3>. QED
      BY <3>2, <3>3, <3>4 DEF PartDone, FileKnown, StageIInv, DoneIsReviewed
  <2>. QED  BY <2>3, <2>4, <2>5
<1>. QED  BY <1>4, <1>5

-----------------------------------------------------------------------------
(* Types, and the units paid.                                               *)
ItemTyped(i) ==
  /\ tries[i] \in 0..Of(i).tries
  /\ taken[i] \in Texts \cup {NoText}
  /\ last[i] \in Verdicts(i) \cup {"none"}
  /\ refused[i] \subseteq DiskAccepts
  /\ open[i] \in Nat
  /\ texts[i] \subseteq Texts /\ old[i] \subseteq Texts
  /\ file[i] \in ValidFiles \cup {"none", "stale"}

LEMMA OneMoreTry ==
  ASSUME NEW n \in Nat, NEW a \in 0..n, a < n
  PROVE  a + 1 \in 0..n
OBVIOUS

LEMMA OneLess ==
  ASSUME NEW a \in Nat, a > 0
  PROVE  a - 1 \in Nat
OBVIOUS

LEMMA OwnTypes ==
  ASSUME StageIInv, NEW i \in Items, ItemOrFailure(i)
  PROVE  ItemTyped(i)' /\ Indexed' /\ record' \in [Items -> BOOLEAN]
<1>0. /\ ItemTyped(i) /\ Indexed /\ record \in [Items -> BOOLEAN]
      /\ Of(i).tries \in Nat /\ UNCHANGED old /\ TextsKnown(i)
  BY ItemFrame, WorkByKind DEF StageIInv, StageTypeOK, ItemTyped, WorkFits,
     Frame, ItemKnown
<1>. USE <1>0
<1>1. CASE UseFile(i) \/ NoFile(i) \/ JoinParts(i) \/ NothingRecovered(i)
           \/ AskRefused(i) \/ Combine(i) \/ Review(i) \/ RaiseUsedUp(i)
           \/ Split(i) \/ SplitEnds(i) \/ OpenFails(i)
  <2>1. UNCHANGED <<tries, taken, last, refused, open, texts, file, record>>
    BY <1>1 DEF UseFile, NoFile, JoinParts, NothingRecovered, AskRefused,
       Combine, Review, RaiseUsedUp, Split, SplitEnds, OpenFails, mind, disk
  <2>. QED  BY <2>1 DEF ItemTyped, Indexed
<1>2. CASE RecoverTranscript(i)
  <2>1. /\ UNCHANGED <<tries, last, refused, open, texts, file, record>>
        /\ \E x \in texts[i] : taken' = [taken EXCEPT ![i] = x]
    BY <1>2 DEF RecoverTranscript, Found, disk
  <2>. QED  BY <2>1 DEF ItemTyped, Indexed
<1>3. CASE Ask(i)
  <2>1. /\ UNCHANGED <<taken, last, refused, open, texts, file, record>>
        /\ tries' = [tries EXCEPT ![i] = @ + 1] /\ tries[i] < Of(i).tries
    BY <1>3 DEF Ask, disk
  <2>2. tries'[i] \in 0..Of(i).tries
    <3>1. tries'[i] = tries[i] + 1 /\ tries[i] \in 0..Of(i).tries
      BY <2>1 DEF Indexed, ItemTyped
    <3>. QED  BY <2>1, <3>1, OneMoreTry
  <2>. QED  BY <2>1, <2>2 DEF ItemTyped, Indexed
<1>4. CASE Answer(i)
  <2>1. PICK v \in Verdicts(i), completed \in BOOLEAN :
       /\ texts' = [texts EXCEPT ![i] = @ \cup
             (IF v \in DiskAccepts /\ Of(i).scans
                THEN {[verdict |-> v, open |-> FALSE]} ELSE {})]
       /\ last' = [last EXCEPT ![i] = IF Of(i).last = "salvage" THEN v ELSE @]
       /\ refused' = [refused EXCEPT ![i] = @ \cup
             (IF completed /\ ~(completed /\ v \in LiveAccepts)
                THEN {v} \cap DiskAccepts ELSE {})]
    BY <1>4 DEF Answer
  <2>2. UNCHANGED <<tries, taken, open, file, record>>
    BY <1>4 DEF Answer
  <2>3. texts'[i] \subseteq Texts
    <3>1. v \in DiskAccepts => [verdict |-> v, open |-> FALSE] \in Texts
      BY DEF Texts
    <3>2. \A x \in texts'[i] :
            \/ x \in texts[i]
            \/ v \in DiskAccepts /\ x = [verdict |-> v, open |-> FALSE]
      BY <2>1 DEF Indexed
    <3>. QED  BY <3>1, <3>2 DEF ItemTyped
  <2>4. last'[i] \in Verdicts(i) \cup {"none"}
    BY <2>1 DEF Indexed, ItemTyped
  <2>5. refused'[i] \subseteq DiskAccepts
    BY <2>1 DEF Indexed, ItemTyped
  <2>6. Indexed'
    BY <2>1, <2>2 DEF Indexed
  <2>. QED
    BY <2>2, <2>3, <2>4, <2>5, <2>6 DEF ItemTyped
<1>5. CASE Keep(i)
  <2>1. /\ UNCHANGED <<tries, taken, last, refused, open, texts, record>>
        /\ file' = [file EXCEPT ![i] = Content(i)]
    BY <1>5 DEF Keep, mind
  <2>2. Content(i) \in ValidFiles
    BY DEF ItemTyped, Content, ValidFiles, DiskAccepts, Texts
  <2>. QED  BY <2>1, <2>2 DEF ItemTyped, Indexed
<1>6. CASE SettleRecovered(i)
  <2>1. /\ UNCHANGED <<tries, last, refused, file, record>>
        /\ texts' = [texts EXCEPT ![i] = (@ \ {taken[i]})
                         \cup {[taken[i] EXCEPT !.open = FALSE]}]
        /\ open' = [open EXCEPT ![i] = @ - 1]
        /\ taken' = [taken EXCEPT ![i].open = FALSE]
        /\ at[i] = "settle"
    BY <1>6 DEF SettleRecovered
  <2>2. taken[i] \in texts[i] /\ taken[i].open /\ taken[i] \in Texts
        /\ open[i] > 0
    BY <2>1 DEF TextsKnown, ItemTyped
  <2>3. [taken[i] EXCEPT !.open = FALSE] \in Texts
    BY <2>2 DEF Texts
  <2>4. texts'[i] \subseteq Texts /\ taken'[i] \in Texts
    BY <2>1, <2>3 DEF Indexed, ItemTyped
  <2>5. open'[i] \in Nat
    BY <2>1, <2>2, OneLess DEF Indexed, ItemTyped
  <2>. QED  BY <2>1, <2>4, <2>5 DEF ItemTyped, Indexed
<1>7. CASE Salvage(i) \/ FallBack(i) \/ FallBackEnds(i)
  <2>1. /\ UNCHANGED <<tries, taken, last, refused, open, texts>>
        /\ \/ file' = [file EXCEPT ![i] = "fallback"]
           \/ UNCHANGED file
        /\ \/ record' = [record EXCEPT ![i] = TRUE]
           \/ UNCHANGED record
    BY <1>7 DEF Salvage, FallBack, FallBackEnds, mind
  <2>. QED  BY <2>1 DEF ItemTyped, Indexed, ValidFiles
<1>. QED
  BY <1>1, <1>2, <1>3, <1>4, <1>5, <1>6, <1>7 DEF ItemOrFailure, ItemStep

LEMMA OneMore ==
  ASSUME NEW n \in Nat, NEW a \in 0..n, a < n
  PROVE  a + 1 \in 0..n /\ \A c \in Nat : c <= a => c + 1 <= a + 1
OBVIOUS

LEMMA OneBack ==
  ASSUME NEW n \in Nat, NEW a \in 0..n, NEW c \in Nat, c <= a, c > 0
  PROVE  a - 1 \in 0..n /\ c - 1 <= a - 1 /\ c - 1 <= a
OBVIOUS

LEMMA PaidStep ==
  ASSUME StageIInv, NEW i \in Items, ItemOrFailure(i)
  PROVE  /\ spent' \in 0..Capacity /\ mishaps' \in 0..MaxMishaps
         /\ LiveArePaid'
<1>0. /\ spent \in 0..Capacity /\ Capacity \in Nat /\ DOMAIN at = Items
      /\ mishaps \in 0..MaxMishaps /\ MaxMishaps \in Nat
  BY StageAssumption DEF StageIInv, StageTypeOK
<1>1. /\ IsFiniteSet(LiveItems) /\ Cardinality(LiveItems) \in Nat
      /\ Cardinality(LiveItems) <= spent
  BY OwnMove, FS_CardinalityType DEF StageIInv, LiveArePaid
<1>2. \A j \in Items \ {i} : at'[j] = "live" <=> at[j] = "live"
  BY ItemFrame DEF Frame, AskedFor
<1>3. CASE Ask(i)
  <2>1. /\ at[i] = "ask" /\ at'[i] = "live" /\ spent' = spent + 1
        /\ UNCHANGED mishaps /\ spent < Capacity
    BY <1>0, <1>3 DEF Ask, Goes
  <2>2. LiveItems' = LiveItems \cup {i} /\ i \notin LiveItems
    BY <1>2, <2>1 DEF LiveItems
  <2>3. /\ IsFiniteSet(LiveItems')
        /\ Cardinality(LiveItems') = Cardinality(LiveItems) + 1
    BY <1>1, <2>2, FS_AddElement
  <2>. QED  BY <1>0, <1>1, <2>1, <2>3, OneMore DEF LiveArePaid
<1>4. CASE Answer(i) \/ OpenFails(i)
  <2>1. /\ at[i] = "live" /\ at'[i] # "live"
        /\ \/ spent' = spent /\ UNCHANGED mishaps
           \/ spent' = spent - 1 /\ mishaps < MaxMishaps
              /\ mishaps' = mishaps + 1
    BY <1>0, <1>4 DEF Answer, OpenFails, Goes
  <2>2. LiveItems' = LiveItems \ {i} /\ i \in LiveItems
    BY <1>2, <2>1 DEF LiveItems
  <2>3. /\ IsFiniteSet(LiveItems')
        /\ Cardinality(LiveItems') = Cardinality(LiveItems) - 1
    BY <1>1, <2>2, FS_RemoveElement
  <2>4. Cardinality(LiveItems) > 0
    <3>1. Cardinality(LiveItems) # 0
      BY <1>1, <2>2, FS_EmptySet
    <3>. QED  BY <1>1, <3>1
  <2>5. /\ spent - 1 \in 0..Capacity
        /\ Cardinality(LiveItems') <= spent - 1
        /\ Cardinality(LiveItems') <= spent
    BY <1>0, <1>1, <2>3, <2>4, OneBack
  <2>6. mishaps' \in 0..MaxMishaps
    BY <1>0, <2>1, OneMore
  <2>. QED  BY <1>0, <2>1, <2>3, <2>5, <2>6 DEF LiveArePaid
<1>5. CASE ~(Ask(i) \/ Answer(i) \/ OpenFails(i))
  <2>1. UNCHANGED <<spent, mishaps>>
    BY <1>5 DEF ItemOrFailure, ItemStep, UseFile, NoFile, JoinParts,
       RecoverTranscript, NothingRecovered, AskRefused, Combine, Keep,
       SettleRecovered, Review, RaiseUsedUp, Salvage, FallBack, FallBackEnds,
       SplitEnds, Split
  <2>2. at[i] # "live" /\ at'[i] # "live"
    BY <1>0, <1>5 DEF ItemOrFailure, ItemStep, UseFile, NoFile, JoinParts,
       RecoverTranscript, NothingRecovered, AskRefused, Combine, Keep,
       SettleRecovered, Review, RaiseUsedUp, Salvage, FallBack, FallBackEnds,
       SplitEnds, Split, UsedUp, Goes, AfterKeep, Settled
  <2>3. LiveItems' = LiveItems
    BY <1>2, <2>2 DEF LiveItems
  <2>. QED  BY <1>0, <1>1, <2>1, <2>3 DEF LiveArePaid
<1>. QED  BY <1>3, <1>4, <1>5

-----------------------------------------------------------------------------
(* Every step of the specification keeps the invariant.                     *)
LEMMA ItemStepKeeps ==
  ASSUME StageIInv, NEW i \in Items, ItemOrFailure(i)
  PROVE  StageIInv'
<1>1. /\ Frame(i) /\ StageTypeOK /\ at' \in [Items -> Places]
      /\ phase = "run"
  BY ItemFrame, OwnMove DEF StageIInv
<1>2. \A j \in Items : ItemTyped(j)'
  <2>1. \A j \in Items \ {i} : ItemTyped(j) /\ Same(j) /\ UNCHANGED old
    BY <1>1 DEF ItemTyped, Frame, StageTypeOK
  <2>2. \A j \in Items \ {i} : ItemTyped(j)'
    BY <2>1 DEF ItemTyped, Same, Verdicts
  <2>. QED  BY <2>2, OwnTypes
<1>3. StageTypeOK'
  BY <1>1, <1>2, OwnTypes, PaidStep DEF StageTypeOK, ItemTyped, Places, Frame
<1>4. ReturnedIsValid'
  BY <1>1 DEF Frame, ReturnedIsValid
<1>. QED
  BY <1>3, <1>4, OwnTypes, PaidStep, ItemsKnown, PartsWaitStep, ReviewDueStep,
     DoneIsReviewedStep, StandsStep DEF StageIInv

LEMMA StartPlannedKeeps ==
  ASSUME StageIInv, StartPlanned
  PROVE  StageIInv'
<1>1. /\ UNCHANGED <<call, mind, spent, open, disk, mishaps>>
      /\ phase = "run" /\ DOMAIN at = Items /\ StageTypeOK
      /\ \A p \in PlanParts : at[p] = "off"
      /\ at' = [j \in Items |-> IF j \in PlanParts THEN "look" ELSE at[j]]
  BY DEF StartPlanned, Active, StageIInv, StageTypeOK
<1>2. \A j \in Items :
        \/ at'[j] = at[j]
        \/ j \in PlanParts /\ at[j] = "off" /\ at'[j] = "look"
  BY <1>1
<1>3. /\ UNCHANGED <<phase, stage, old, tries, taken, last, refused, spent,
                     open, texts, file, record, mishaps>>
      /\ \A j \in PlanParts : j[1] = "side"
  BY <1>1 DEF call, mind, disk, PlanParts
<1>4. StageTypeOK'
  BY <1>1, <1>3 DEF StageTypeOK, Verdicts
<1>5. \A j \in Items : ItemKnown(j)'
  <2>1. SUFFICES ASSUME NEW j \in Items PROVE ItemKnown(j)'
    OBVIOUS
  <2>2. ItemKnown(j)
    BY DEF StageIInv
  <2>3. CASE at'[j] = at[j]
    BY <1>3, <2>2, <2>3 DEF ItemKnown, PlaceKnown, AnswersKnown, FileKnown,
       TextsKnown
  <2>4. CASE at[j] = "off" /\ at'[j] = "look"
    BY <1>3, <2>2, <2>4 DEF ItemKnown, PlaceKnown, AnswersKnown, FileKnown,
       TextsKnown, Working
  <2>. QED  BY <1>2, <2>3, <2>4
<1>6. PartsWait'
  <2>1. \A j \in Items : Parts(j)' = Parts(j)
    BY DEF Parts, Plan
  <2>2. \A j \in Items : \A p \in Parts(j) : p \in Items /\ p \notin PlanParts
    BY PartsOf
  <2>3. \A j \in Items : at'[j] \in {"off", "look"} => at[j] \in {"off", "look"}
    BY <1>2
  <2>. QED  BY <1>1, <2>1, <2>2, <2>3 DEF StageIInv, PartsWait
<1>7. ReviewDue'
  <2>1. \A j \in Items : j[1] \in {"compare", "review"} => at'[j] = at[j]
    BY <1>2, <1>3
  <2>2. \A j \in Items : j[1] = "compare" =>
          ReviewOf(j) \in Items /\ ReviewOf(j)[1] = "review"
    BY KindOf DEF ReviewOf
  <2>. QED  BY <1>3, <2>1, <2>2 DEF StageIInv, ReviewDue, ReviewOf
<1>8. DoneIsReviewed'
  BY <1>2, <1>3 DEF StageIInv, DoneIsReviewed, Reviewed
<1>9. Stands'
  <2>1. \A j \in Items : at'[j] \in {"ask", "live", "used", "note", "keep"} =>
          at[j] \in {"ask", "live", "used", "note", "keep"}
    BY <1>2
  <2>2. \A j \in Items : Basis(j)' = Basis(j)
    BY DEF Basis, Parts, PlanParts, Plan
  <2>3. \A j \in Items : \A p \in Basis(j) : PartDone(p)' = PartDone(p)
    BY <1>3 DEF PartDone, Reviewed
  <2>. QED  BY <1>3, <2>1, <2>2, <2>3 DEF StageIInv, Stands
<1>10. LiveArePaid'
  <2>1. LiveItems' = LiveItems
    BY <1>2 DEF LiveItems
  <2>. QED  BY <1>3, <2>1 DEF StageIInv, LiveArePaid
<1>11. ReturnedIsValid' /\ Indexed'
  BY <1>1, <1>3 DEF StageIInv, ReturnedIsValid, Indexed
<1>. QED
  BY <1>4, <1>5, <1>6, <1>7, <1>8, <1>9, <1>10, <1>11 DEF StageIInv

(* What depends on the places and the disk stays when neither changes.      *)
LEMMA StructureStays ==
  ASSUME StageIInv, UNCHANGED <<stage, at, file, record>>
  PROVE  PartsWait' /\ ReviewDue' /\ DoneIsReviewed' /\ Stands'
<1>1. \A j \in Items : Parts(j)' = Parts(j) /\ Basis(j)' = Basis(j)
  BY DEF Basis, Parts, PlanParts, Plan
<1>2. PartsWait'
  BY <1>1 DEF StageIInv, PartsWait
<1>3. ReviewDue' /\ DoneIsReviewed'
  BY DEF StageIInv, ReviewDue, DoneIsReviewed, Reviewed, ReviewOf
<1>4. Stands'
  BY <1>1 DEF StageIInv, Stands, PartDone, Reviewed
<1>. QED  BY <1>2, <1>3, <1>4

LEMMA CallEndsKeeps ==
  ASSUME StageIInv, CallEnds
  PROVE  StageIInv'
<1>1. /\ UNCHANGED <<stage, old, at, tries, taken, last, refused, spent, open,
                     texts, file, record, mishaps>>
      /\ phase = "run"
      /\ phase' = IF \A i \in Roots(stage) : at[i] = "done"
                    THEN "returned" ELSE "raised"
  BY DEF CallEnds, mind, disk
<1>2. StageTypeOK' /\ Indexed'
  BY <1>1 DEF StageIInv, StageTypeOK, Indexed, Verdicts
<1>3. \A j \in Items : ItemKnown(j)'
  BY <1>1 DEF StageIInv, ItemKnown, PlaceKnown, AnswersKnown, FileKnown,
     TextsKnown
<1>4. LiveArePaid'
  BY <1>1 DEF LiveArePaid
<1>5. ReturnedIsValid'
  <2>1. SUFFICES ASSUME phase' = "returned",
                        NEW i \in Roots(stage) \ {Synthesis}
                 PROVE  file[i] \in ValidFiles
    BY <1>1 DEF ReturnedIsValid, Roots, StageItems
  <2>2. at[i] = "done" /\ i \in Items /\ i[1] # "compare"
    BY <1>1, <2>1, CalledItems
  <2>. QED  BY <2>1, <2>2 DEF StageIInv, ItemKnown, FileKnown
<1>. QED
  BY <1>1, <1>2, <1>3, <1>4, <1>5, StructureStays DEF StageIInv

LEMMA CrashKeeps ==
  ASSUME StageIInv, Crash
  PROVE  StageIInv'
<1>. DEFINE Left == [verdict |-> "good", open |-> TRUE]
<1>1. /\ UNCHANGED <<stage, old, at, tries, taken, last, refused, spent, file,
                     record>>
      /\ phase' = "down" /\ mishaps < MaxMishaps /\ mishaps' = mishaps + 1
      /\ DOMAIN texts' = Items /\ DOMAIN open' = Items
  BY DEF Crash, mind
<1>2. \A j \in Items :
        \/ open'[j] = open[j] /\ texts'[j] = texts[j]
        \/ open'[j] = open[j] + 1 /\ texts'[j] \subseteq texts[j] \cup {Left}
             /\ texts[j] \subseteq texts'[j]
  <2>1. PICK said \in SUBSET {i \in {j \in Items : at[j] = "live"} :
                                Of(i).scans} :
          /\ texts' = [i \in Items |-> texts[i] \cup
                       (IF i \in said THEN {Left} ELSE {})]
          /\ open' = [i \in Items |-> open[i] +
                       (IF i \in {j \in Items : at[j] = "live"} THEN 1 ELSE 0)]
    BY DEF Crash
  <2>2. \A j \in Items : open[j] \in Nat
    BY DEF StageIInv, StageTypeOK
  <2>. QED  BY <2>1, <2>2
<1>3. \A n \in Nat : n + 1 \in Nat /\ n + 1 > 0
  OBVIOUS
<1>4. mishaps' \in 0..MaxMishaps
  BY <1>1, StageAssumption, OneMore DEF StageIInv, StageTypeOK
<1>5. \A j \in Items : /\ open'[j] \in Nat /\ texts'[j] \subseteq Texts
                       /\ texts[j] \subseteq texts'[j]
                       /\ open[j] > 0 => open'[j] > 0
                       /\ \A x \in texts'[j] : x \in texts[j] \/
                            (x = Left /\ open'[j] > 0)
  <2>1. Left \in Texts
    BY DEF Texts, DiskAccepts
  <2>2. \A j \in Items : open[j] \in Nat /\ texts[j] \subseteq Texts
    BY DEF StageIInv, StageTypeOK
  <2>3. SUFFICES ASSUME NEW j \in Items
                 PROVE  /\ open'[j] \in Nat /\ texts'[j] \subseteq Texts
                        /\ texts[j] \subseteq texts'[j]
                        /\ open[j] > 0 => open'[j] > 0
                        /\ \A x \in texts'[j] : x \in texts[j] \/
                             (x = Left /\ open'[j] > 0)
    OBVIOUS
  <2>4. CASE open'[j] = open[j] /\ texts'[j] = texts[j]
    BY <2>2, <2>4
  <2>5. CASE open'[j] = open[j] + 1 /\ texts'[j] \subseteq texts[j] \cup {Left}
             /\ texts[j] \subseteq texts'[j]
    <3>1. open'[j] \in Nat /\ open'[j] > 0
      BY <1>3, <2>2, <2>5
    <3>. QED  BY <2>1, <2>2, <2>5, <3>1
  <2>. QED  BY <1>2, <2>4, <2>5
<1>6. StageTypeOK' /\ Indexed'
  BY <1>1, <1>4, <1>5 DEF StageIInv, StageTypeOK, Indexed, Verdicts
<1>7. \A j \in Items : ItemKnown(j)'
  <2>1. SUFFICES ASSUME NEW j \in Items PROVE ItemKnown(j)'
    OBVIOUS
  <2>2. ItemKnown(j)
    BY DEF StageIInv
  <2>3. PlaceKnown(j)' /\ AnswersKnown(j)' /\ FileKnown(j)'
    BY <1>1, <1>5, <2>2 DEF ItemKnown, PlaceKnown, AnswersKnown, FileKnown
  <2>4. TextsKnown(j)'
    BY <1>1, <1>5, <2>2 DEF ItemKnown, TextsKnown
  <2>. QED  BY <2>3, <2>4 DEF ItemKnown
<1>8. LiveArePaid' /\ ReturnedIsValid'
  BY <1>1 DEF LiveArePaid, ReturnedIsValid
<1>. QED  BY <1>1, <1>6, <1>7, <1>8, StructureStays DEF StageIInv

(* A call that begins: the roots are looked for, nothing else is.           *)
CallBegins ==
  /\ phase = "run"
  /\ at = [i \in Items |-> IF i \in Roots(stage) THEN "look" ELSE "off"]
  /\ tries = [i \in Items |-> 0]
  /\ taken = [i \in Items |-> NoText]
  /\ last = [i \in Items |-> "none"]
  /\ refused = [i \in Items |-> {}]
  /\ old = texts

OnDisk ==
  /\ stage \in Stages /\ spent \in 0..Capacity /\ mishaps \in 0..MaxMishaps
  /\ DOMAIN open = Items /\ DOMAIN texts = Items /\ DOMAIN file = Items
  /\ record \in [Items -> BOOLEAN]
  /\ \A i \in Items :
       /\ open[i] \in Nat /\ texts[i] \subseteq Texts
       /\ file[i] \in ValidFiles \cup {"none", "stale"}
       /\ \A x \in texts[i] : x.open => x.verdict = "good" /\ open[i] > 0
       /\ Of(i).last = "record first" /\ file[i] = "fallback" => record[i]
       /\ file[i] \in ValidFiles => \A p \in Basis(i) : PartDone(p)

LEMMA CallBeginsKnown == CallBegins /\ OnDisk => StageIInv
<1>. SUFFICES ASSUME CallBegins, OnDisk PROVE StageIInv
  OBVIOUS
<1>1. /\ \A i \in Items : at[i] \in {"look", "off"} /\ tries[i] = 0
      /\ \A i \in Items : i \notin Roots(stage) => at[i] = "off"
      /\ phase = "run" /\ old = texts
      /\ \A i \in Items : taken[i] = NoText /\ last[i] = "none"
      /\ \A i \in Items : refused[i] = {}
  BY DEF CallBegins
<1>2. \A i \in Items : 0 \in 0..Of(i).tries
  <2>1. \A i \in Items : Of(i).tries \in Nat
    BY WorkByKind DEF WorkFits
  <2>2. \A n \in Nat : 0 \in 0..n
    OBVIOUS
  <2>. QED  BY <2>1, <2>2
<1>3. StageTypeOK
  <2>1. at \in [Items -> Places]
    BY DEF CallBegins, Places, AtRest
  <2>2. \A i \in Items : tries[i] \in 0..Of(i).tries /\ old[i] \subseteq Texts
    BY <1>1, <1>2 DEF OnDisk
  <2>3. \A i \in Items : /\ taken[i] \in Texts \cup {NoText}
                         /\ last[i] \in Verdicts(i) \cup {"none"}
                         /\ refused[i] \subseteq DiskAccepts
    BY <1>1
  <2>. QED  BY <1>1, <2>1, <2>2, <2>3 DEF StageTypeOK, OnDisk, Places
<1>4. Indexed
  BY DEF Indexed, CallBegins, OnDisk
<1>5. ASSUME NEW i \in Items PROVE ItemKnown(i)
  <2>1. at[i] \in {"look", "off"}
    BY <1>1
  <2>2. PlaceKnown(i) /\ AnswersKnown(i)
    <3>1. ~(tries[i] > 0)
      BY <1>1
    <3>. QED  BY <1>1, <2>1, <3>1 DEF PlaceKnown, AnswersKnown
  <2>3. FileKnown(i) /\ TextsKnown(i)
    BY <1>1, <2>1 DEF FileKnown, TextsKnown, OnDisk, Working
  <2>. QED  BY <2>2, <2>3 DEF ItemKnown
<1>6. PartsWait
  <2>1. \A i \in Items :
          \A p \in Parts(i) : p \in Items /\ p \notin Roots(stage)
    BY PartsOf DEF Basis, Roots
  <2>. QED  BY <1>1, <2>1 DEF PartsWait
<1>7. ReviewDue /\ DoneIsReviewed
  BY <1>1 DEF ReviewDue, DoneIsReviewed
<1>8. Stands
  BY <1>1 DEF Stands, OnDisk
<1>9. LiveArePaid
  <2>1. LiveItems = {}
    BY <1>1 DEF LiveItems
  <2>2. spent \in Nat
    <3>1. spent \in 0..Capacity
      BY DEF OnDisk
    <3>. QED  BY <3>1, StageAssumption
  <2>. QED  BY <2>1, <2>2, FS_EmptySet DEF LiveArePaid
<1>. QED
  BY <1>1, <1>3, <1>4, <1>5, <1>6, <1>7, <1>8, <1>9
     DEF StageIInv, ReturnedIsValid

LEMMA InitKnown ==
  ASSUME Init
  PROVE  StageIInv
<1>1. CallBegins
  BY DEF Init, CallBegins
<1>2. OnDisk
  <2>1. \A i \in Items : file[i] \in {"none", "stale"}
    BY DEF Init, Mine
  <2>2. DOMAIN file = Items
    BY DEF Init
  <2>3. {"none", "stale"} \cap ValidFiles = {} /\ 0 \in Nat
    BY DEF ValidFiles, DiskAccepts
  <2>4. spent \in 0..Capacity /\ mishaps \in 0..MaxMishaps
    BY StageAssumption DEF Init
  <2>5. /\ stage \in Stages /\ DOMAIN open = Items /\ DOMAIN texts = Items
        /\ record \in [Items -> BOOLEAN]
        /\ \A i \in Items : open[i] = 0 /\ texts[i] = {}
    BY DEF Init
  <2>. QED  BY <2>1, <2>2, <2>3, <2>4, <2>5 DEF OnDisk
<1>. QED  BY <1>1, <1>2, CallBeginsKnown

LEMMA CallAgainKeeps ==
  ASSUME StageIInv, CallAgain
  PROVE  StageIInv'
<1>1. CallBegins'
  BY DEF CallAgain, CallBegins, disk
<1>2. OnDisk'
  <2>1. UNCHANGED <<stage, spent, open, texts, file, record>>
    BY DEF CallAgain, disk
  <2>2. mishaps' \in 0..MaxMishaps
    <3>1. /\ mishaps \in 0..MaxMishaps /\ MaxMishaps \in Nat
          /\ \/ mishaps' = mishaps
             \/ mishaps < MaxMishaps /\ mishaps' = mishaps + 1
      BY StageAssumption DEF CallAgain, StageIInv, StageTypeOK
    <3>. QED  BY <3>1, OneMore
  <2>3. \A i \in Items :
          /\ Basis(i)' = Basis(i)
          /\ \A p \in Basis(i) : PartDone(p)' = PartDone(p)
    BY <2>1 DEF Basis, Parts, PlanParts, Plan, PartDone, Reviewed
  <2>4. OnDisk
    BY DEF StageIInv, StageTypeOK, Indexed, OnDisk, ItemKnown, TextsKnown,
       FileKnown, Stands
  <2>. QED  BY <2>1, <2>2, <2>3, <2>4 DEF OnDisk
<1>. QED  BY <1>1, <1>2, CallBeginsKnown, PTL

LEMMA NextKeeps ==
  ASSUME StageIInv, [Next]_vars
  PROVE  StageIInv'
<1>1. CASE UNCHANGED vars
  <2>1. UNCHANGED <<stage, phase, at, tries, taken, last, refused, spent, open,
                    texts, old, file, record, mishaps>>
    BY <1>1 DEF vars
  <2>2. StageTypeOK' /\ Indexed' /\ ReturnedIsValid'
    BY <2>1 DEF StageIInv, StageTypeOK, Indexed, Verdicts, ReturnedIsValid,
       Roots, StageItems
  <2>3. \A j \in Items : ItemKnown(j)'
    BY <2>1 DEF StageIInv, ItemKnown, PlaceKnown, AnswersKnown, FileKnown,
       TextsKnown
  <2>4. LiveArePaid'
    BY <2>1 DEF StageIInv, LiveArePaid, LiveItems
  <2>. QED  BY <2>1, <2>2, <2>3, <2>4, StructureStays DEF StageIInv
<1>2. ASSUME NEW i \in Mine, ItemStep(i) \/ OpenFails(i) PROVE StageIInv'
  BY <1>2, CalledItems, ItemStepKeeps DEF ItemOrFailure
<1>. QED
  BY <1>1, <1>2, StartPlannedKeeps, CallEndsKeeps, CrashKeeps, CallAgainKeeps
     DEF Next, Progress

LEMMA InvariantHolds == Spec => []StageIInv
BY InitKnown, NextKeeps, PTL DEF Spec

-----------------------------------------------------------------------------
(* A stage stands on what it was made from: for any groups, chunks,         *)
(* attempts, units and number of crashes and repeated calls, every state is *)
(* well formed, a stage that returns has a valid file for every item it was *)
(* asked for, a combined comparison, baseline or analysis side has a valid  *)
(* or reviewed result of each of its parts, and a synthesis or review that  *)
(* fell back is on record (run_discovery, run_baseline, compare_rollout,    *)
(* run_analysis and the post-rollout analysis).                             *)
THEOREM StagesStand == Spec => []StageInv
<1>1. ASSUME StageIInv PROVE StageInv
  <2>1. StageTypeOK /\ ReturnedIsValid
    BY <1>1 DEF StageIInv
  <2>2. ComparedIsReviewed
    <3>1. SUFFICES ASSUME file[<<"comparison", "all">>] = "combined",
                          NEW c \in Chunks, NEW t \in c
                   PROVE  \E d \in {c, {t}} :
                            file[<<"review", d>>] \in ValidFiles
      BY DEF ComparedIsReviewed
    <3>2. /\ <<"comparison", "all">> \in Items
          /\ <<"compare", c>> \in Basis(<<"comparison", "all">>)
      BY DEF Items, ComparisonItems, Basis, Parts
    <3>3. PartDone(<<"compare", c>>)
      BY <1>1, <3>1, <3>2 DEF StageIInv, Stands, ValidFiles
    <3>. QED  BY <3>3 DEF PartDone, Reviewed
  <2>3. CombinedIsWhole
    <3>1. /\ Synthesis \in Items /\ <<"combined", "reusable">> \in Items
          /\ <<"combined", "adjustment">> \in Items
      BY DEF Items, BaselineItems, AnalysisItems, Synthesis
    <3>2. /\ \A i \in Parts(Synthesis) : i[1] # "compare"
          /\ \A i \in Basis(<<"combined", "reusable">>) : i[1] # "compare"
          /\ \A i \in Parts(<<"combined", "adjustment">>) : i[1] # "compare"
      BY DEF Parts, Basis, Synthesis, Plan, PlanParts
    <3>3. \A i \in PlanParts \cup {Plan} :
            i \in Basis(<<"combined", "reusable">>)
      BY DEF Basis, Parts
    <3>4. \A i \in Items : \A p \in Parts(i) : p \in Basis(i)
      BY DEF Basis
    <3>. QED
      BY <1>1, <3>1, <3>2, <3>3, <3>4 DEF CombinedIsWhole, StageIInv, Stands,
         PartDone, ValidFiles
  <2>4. FallbackOnRecord
    BY <1>1 DEF StageIInv, ItemKnown, FileKnown, FallbackOnRecord
  <2>. QED  BY <2>1, <2>2, <2>3, <2>4 DEF StageInv
<1>. QED  BY <1>1, InvariantHolds, PTL

(* An item that reads transcripts opens no session while an acceptable      *)
(* answer of an earlier call is on disk, however often the process died.    *)
THEOREM AnswersAreUsed == Spec => []AnsweredNotBoughtAgain
<1>1. StageIInv => AnsweredNotBoughtAgain
  BY DEF StageIInv, ItemKnown, AnswersKnown, AnsweredNotBoughtAgain
<1>. QED  BY <1>1, InvariantHolds, PTL

(* A fallback is written only after the full series of attempts was         *)
(* answered and rejected in the same call.                                  *)
THEOREM FallbacksAreEarned == Spec => []FallbackIsEarned
<1>1. StageIInv => FallbackIsEarned
  BY DEF StageIInv, ItemKnown, AnswersKnown, FallbackIsEarned
<1>. QED  BY <1>1, InvariantHolds, PTL

(* A valid result file is never written again, by no item and in no later   *)
(* call.                                                                    *)
THEOREM ResultsStay == Spec => ResultsAreFinal
<1>1. ASSUME StageIInv, [Next]_vars
      PROVE  \A i \in Items : file[i] \in ValidFiles => file'[i] = file[i]
  <2>1. ASSUME NEW i \in Mine, ItemStep(i) \/ OpenFails(i)
        PROVE  \A j \in Items : file[j] \in ValidFiles => file'[j] = file[j]
    BY <1>1, <2>1, CalledItems, FilesStay DEF ItemOrFailure
  <2>2. CASE UNCHANGED file
    BY <2>2
  <2>. QED
    BY <1>1, <2>1, <2>2 DEF Next, Progress, StartPlanned, CallEnds, Crash,
       CallAgain, disk, vars
<1>2. StageIInv /\ [Next]_vars =>
        [\A i \in Items : file[i] \in ValidFiles => file'[i] = file[i]]_vars
  BY <1>1
<1>. QED  BY <1>2, InvariantHolds, PTL DEF Spec, ResultsAreFinal
=============================================================================
