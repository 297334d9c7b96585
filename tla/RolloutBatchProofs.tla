------------------------- MODULE RolloutBatchProofs -------------------------
(* A rollout with any number of trials, any budget, any crashes, faults and *)
(* restarts of controller and script.  First: types, and the jobs of the    *)
(* process from place to place.  Then what the disk holds at each place.    *)
(* Last: the units charged against the trials that were started.            *)
EXTENDS RolloutBatch, CreationBudgetProofs

RepairPlaces ==
  {"repair-claim", "repair-mark", "repair-run", "repairing", "copy"}

AfterLaunch  == {"run", "running", "retain", "check"}

(* The job of the batch and the job of the repair, from place to place.     *)
JobsKnown ==
  /\ pc \in {"down", "start", "reserve"} => batch = NoJob
  /\ pc \in {"claim", "mark", "correct"} \cup AfterLaunch => batch \in JobIds
  /\ batch # NoJob => /\ batch \in JobIds /\ batch[1] = "rollout"
                      /\ jobs[batch].status # "absent"
  /\ batch # NoJob /\ pc \in {"repair", "write", "settle"} \cup RepairPlaces =>
       jobs[batch].status = "launched"
  /\ pc = "claim" => jobs[batch].status = "reserved"
  /\ pc = "mark" => jobs[batch].status = "launch_claimed"
  /\ pc \in AfterLaunch => jobs[batch].status = "launched"
  /\ pc = "correct" => jobs[batch].status = "settled"
  /\ pc \in {"claim", "mark", "run", "correct"} =>
       jobs[batch].count = NumTrials
  /\ pc \in RepairPlaces => /\ repair \in JobIds /\ repair[1] = "repair"
                            /\ jobs[repair].count = 1
  /\ pc = "repair-claim" => jobs[repair].status = "reserved"
  /\ pc = "repair-mark" => jobs[repair].status = "launch_claimed"
  /\ pc \in {"repair-run", "repairing", "copy"} =>
       jobs[repair].status = "launched"

(* Every job of the batch is as large as the batch.                         *)
BatchCounts ==
  \A n \in 1..MaxAttempts :
    jobs[<<"rollout", n>>].status # "absent" =>
      jobs[<<"rollout", n>>].count = NumTrials

(* Without the script, what is open belongs to the process at work.         *)
Mine ==
  CASE pc \in {"claim", "mark", "repair", "write", "settle"} \cup AfterLaunch ->
         {batch}
    [] pc \in RepairPlaces -> {batch, repair}
    [] OTHER -> {}

OpenIsMine ==
  ~scripted /\ pc # "down" =>
    \A j \in JobIds : jobs[j].status \in ActiveStatuses => j \in Mine

(* What the rows, the retained trials and the result file are, place by     *)
(* place.                                                                   *)
DiskKnown ==
  /\ pc \in {"reserve", "claim", "mark", "run", "running"} => retained = None
  /\ pc = "running" => \A t \in Trials \ pending : native[t] # "missing"
  /\ pc = "retain" => \A t \in Trials :
       /\ native[t] # "missing"
       /\ retained[t] \in {"missing", native[t]}
  /\ pc = "check" => Readable(retained)
  /\ pc = "write" =>
       /\ Readable(retained)
       /\ (\E t \in Trials : retained[t] = "broken")
            => Infrastructure(retained) # {}
  /\ output # None => pc \in {"start", "down", "settle", "done"}
  /\ pc \in {"repair"} \cup RepairPlaces => target \in Trials

(* The units of a charged job whose trials have not been started, or will   *)
(* not be.                                                                  *)
Unstarted == IF pc \in {"run", "correct"} THEN NumTrials
             ELSE IF pc = "repair-run" THEN 1 ELSE 0

StartsArePaid == ~scripted => opened + Unstarted <= Created

BatchIInv ==
  /\ RolloutTypeOK /\ JobsKnown /\ BatchCounts /\ OneActiveAttempt
  /\ OpenIsMine
  /\ DiskKnown /\ OnlyBrokenRepaired /\ OutputIsAdmissible
  /\ StartsArePaid

-----------------------------------------------------------------------------
LEMMA Sizes ==
  /\ NumTrials \in Nat /\ NumTrials >= 1 /\ NumTrials \in 1..MaxCount
  /\ 1 \in 1..MaxCount /\ 1 \in Trials
  /\ MaxAttempts \in Nat /\ MaxCount \in Nat /\ MaxMishaps \in Nat
  /\ "rollout" \in Bases /\ "repair" \in Bases
BY BudgetAssumption, RolloutAssumption DEF Trials

LEMMA NoJobIsNoId == NoJob \notin JobIds
BY RolloutAssumption DEF NoJob, JobIds

LEMMA LeastIsThere ==
  ASSUME NEW S \in SUBSET Trials, S # {}
  PROVE  Min(S) \in S
<1>1. OpToRel(<, Nat) = {ss \in Nat \X Nat : ss[1] < ss[2]}
  BY Zenon DEF OpToRel
<1>. DEFINE less == {ss \in Nat \X Nat : ss[1] < ss[2]}
<1>2. IsWellFoundedOn(less, Nat)
  BY ONLY <1>1, NatLessThanWellFounded, Zenon
<1>3. S \in SUBSET Nat
  BY Sizes DEF Trials
<1>4. PICK x \in S : \A y \in S : <<y, x>> \notin less
  BY <1>2, <1>3, WFMin, Zenon
<1>5. \A y \in S : x <= y
  <2>. SUFFICES ASSUME NEW y \in S, ~(x <= y) PROVE FALSE
    OBVIOUS
  <2>1. x \in Nat /\ y \in Nat /\ y < x
    BY <1>3
  <2>2. <<y, x>> \in less
    BY <2>1
  <2>. QED  BY <1>4, <2>2
<1>. QED  BY <1>5 DEF Min

LEMMA SomeTrials ==
  ASSUME NEW S \in SUBSET Trials
  PROVE  Cardinality(S) \in Nat /\ Cardinality(S) <= NumTrials
<1>1. IsFiniteSet(1..NumTrials) /\ Cardinality(1..NumTrials) = NumTrials
  BY Sizes, FS_Interval
<1>2. IsFiniteSet(S) /\ Cardinality(S) <= Cardinality(1..NumTrials)
  BY <1>1, FS_Subset DEF Trials
<1>. QED  BY <1>1, <1>2, FS_CardinalityType

LEMMA ToRepair ==
  ASSUME NEW f, Repairable(f)
  PROVE  Min(Unacceptable(f)) \in Trials /\ f[Min(Unacceptable(f))] = "broken"
BY LeastIsThere DEF Repairable, Unacceptable

-----------------------------------------------------------------------------
(* What the steps do to the ledger.  Job j, and no other, comes to have a   *)
(* status and a count.                                                      *)
Sets(j, status, count) ==
  /\ \A i \in JobIds \ {j} : jobs'[i] = jobs[i]
  /\ jobs'[j].status = status /\ jobs'[j].count = count

LEMMA ReserveSets ==
  ASSUME TypeOK, NEW j \in JobIds, NEW n \in 1..MaxCount, Reserve(j, n)
  PROVE  TypeOK' /\ Sets(j, "reserved", n) /\ jobs[j].status = "absent"
<1>. DEFINE r == [status |-> "reserved", count |-> n,
                  outcome |-> "none", imported |-> FALSE]
<1>1. jobs' = [jobs EXCEPT ![j] = r] /\ jobs[j].status = "absent"
  BY DEF Reserve
<1>2. r \in Record
  BY Sizes DEF Record, Statuses, HeldStatuses, Outcomes
<1>3. r.status = "reserved" /\ r.count = n
  OBVIOUS
<1>. HIDE DEF r
<1>. QED  BY <1>1, <1>2, <1>3 DEF TypeOK, Sets

LEMMA TransitionSets ==
  ASSUME TypeOK, NEW j \in JobIds, NEW allowed, NEW to \in Statuses,
         NEW o \in Outcomes, Transition(j, allowed, to, o),
         jobs[j].status # to
  PROVE  TypeOK' /\ Sets(j, to, jobs[j].count)
<1>1. jobs' = [jobs EXCEPT ![j].status = to, ![j].outcome = o]
  BY DEF Transition
<1>2. jobs[j] \in Record
  BY DEF TypeOK
<1>3. /\ \A i \in JobIds \ {j} : jobs'[i] = jobs[i]
      /\ jobs'[j] = [jobs[j] EXCEPT !.status = to, !.outcome = o]
      /\ jobs' \in [JobIds -> Record]
  BY <1>1, <1>2 DEF TypeOK, Record
<1>. QED  BY <1>2, <1>3 DEF TypeOK, Sets, Record

LEMMA CreatedStays ==
  ASSUME \A i \in JobIds : jobs[i].status \in SpentStatuses =>
           /\ jobs'[i].status \in SpentStatuses
           /\ jobs'[i].count = jobs[i].count
  PROVE  Created <= Created'
<1>1. UnitsOf(jobs, SpentStatuses) \subseteq UnitsOf(jobs', SpentStatuses)
  BY DEF UnitsOf
<1>. QED  BY <1>1, UnitsMonotone, Totals

LEMMA CreatedGrows ==
  ASSUME NEW j \in JobIds, NEW n \in 1..MaxCount, NEW status,
         Sets(j, status, n), jobs[j].status \notin SpentStatuses,
         status \in SpentStatuses
  PROVE  Created' = Created + n
<1>1. AddsUnits(jobs, jobs', j, n, SpentStatuses)
  BY DEF AddsUnits, Sets
<1>. QED  BY <1>1, NewRecordUnits, Totals

LEMMA CreatedShrinks ==
  ASSUME NEW j \in JobIds, NEW n \in 1..MaxCount, NEW status, NEW m,
         Sets(j, status, m), jobs[j].status \in SpentStatuses,
         jobs[j].count = n, status \notin SpentStatuses
  PROVE  Created = Created' + n
<1>1. AddsUnits(jobs', jobs, j, n, SpentStatuses)
  BY DEF AddsUnits, Sets
<1>. QED  BY <1>1, NewRecordUnits, Totals

(* The jobs a step sets, by action.                                         *)
LEMMA ReserveBatchSets ==
  ASSUME BatchIInv, ReserveBatch
  PROVE  /\ TypeOK' /\ batch' \in JobIds /\ batch'[1] = "rollout"
         /\ Sets(batch', "reserved", NumTrials)
         /\ NoActiveAttempt("rollout")
<1>1. /\ NextAttempt("rollout") \in JobIds /\ NoActiveAttempt("rollout")
      /\ batch' = NextAttempt("rollout")
      /\ Reserve(NextAttempt("rollout"), NumTrials)
  BY DEF ReserveBatch, CanReserve
<1>2. NextAttempt("rollout")[1] = "rollout"
  BY DEF NextAttempt
<1>. QED
  BY <1>1, <1>2, ReserveSets, Sizes DEF BatchIInv, RolloutTypeOK

LEMMA ReserveRepairSets ==
  ASSUME BatchIInv, ReserveRepair
  PROVE  /\ TypeOK' /\ repair' \in JobIds /\ repair'[1] = "repair"
         /\ Sets(repair', "reserved", 1)
         /\ NoActiveAttempt("repair")
<1>1. /\ NextAttempt("repair") \in JobIds /\ NoActiveAttempt("repair")
      /\ repair' = NextAttempt("repair")
      /\ Reserve(NextAttempt("repair"), 1)
  BY DEF ReserveRepair, CanRepair, CanReserve
<1>2. NextAttempt("repair")[1] = "repair"
  BY DEF NextAttempt
<1>. QED
  BY <1>1, <1>2, ReserveSets, Sizes DEF BatchIInv, RolloutTypeOK

LEMMA ClaimSets ==
  ASSUME BatchIInv
  PROVE  /\ ClaimBatch => TypeOK' /\ Sets(batch, "launch_claimed", NumTrials)
         /\ MarkBatch => TypeOK' /\ Sets(batch, "launched", NumTrials)
         /\ ClaimRepair => TypeOK' /\ Sets(repair, "launch_claimed", 1)
         /\ MarkRepair => TypeOK' /\ Sets(repair, "launched", 1)
<1>. TypeOK /\ JobsKnown /\ {"launch_claimed", "launched"} \subseteq Statuses
     /\ "none" \in Outcomes
  BY DEF BatchIInv, RolloutTypeOK, Statuses, HeldStatuses, SpentStatuses,
     Outcomes
<1>1. ASSUME ClaimBatch
      PROVE  TypeOK' /\ Sets(batch, "launch_claimed", NumTrials)
  <2>1. /\ batch \in JobIds /\ jobs[batch].status = "reserved"
        /\ jobs[batch].count = NumTrials
    BY <1>1 DEF ClaimBatch, JobsKnown
  <2>. QED  BY <1>1, <2>1, TransitionSets DEF ClaimBatch, ClaimLaunch
<1>2. ASSUME MarkBatch PROVE TypeOK' /\ Sets(batch, "launched", NumTrials)
  <2>1. /\ batch \in JobIds /\ jobs[batch].status = "launch_claimed"
        /\ jobs[batch].count = NumTrials
    BY <1>2 DEF MarkBatch, JobsKnown
  <2>. QED  BY <1>2, <2>1, TransitionSets DEF MarkBatch, MarkLaunched
<1>3. ASSUME ClaimRepair PROVE TypeOK' /\ Sets(repair, "launch_claimed", 1)
  <2>1. /\ repair \in JobIds /\ jobs[repair].status = "reserved"
        /\ jobs[repair].count = 1
    BY <1>3 DEF ClaimRepair, JobsKnown, RepairPlaces
  <2>. QED  BY <1>3, <2>1, TransitionSets DEF ClaimRepair, ClaimLaunch
<1>4. ASSUME MarkRepair PROVE TypeOK' /\ Sets(repair, "launched", 1)
  <2>1. /\ repair \in JobIds /\ jobs[repair].status = "launch_claimed"
        /\ jobs[repair].count = 1
    BY <1>4 DEF MarkRepair, JobsKnown, RepairPlaces
  <2>. QED  BY <1>4, <2>1, TransitionSets DEF MarkRepair, MarkLaunched
<1>. QED  BY <1>1, <1>2, <1>3, <1>4

LEMMA SettleSets ==
  ASSUME BatchIInv, NEW j \in JobIds, NEW o \in {"completed", "failed"},
         Settle(j, o), jobs[j].status = "launched"
  PROVE  TypeOK' /\ Sets(j, "settled", jobs[j].count)
BY TransitionSets DEF BatchIInv, RolloutTypeOK, Settle, Statuses, SpentStatuses,
   Outcomes

LEMMA GuardSets ==
  ASSUME BatchIInv
  PROVE  /\ GuardBlocks =>
              /\ TypeOK' /\ batch \in JobIds
              /\ jobs[batch].status = "launched"
              /\ jobs[batch].count = NumTrials
              /\ Sets(batch, "settled", NumTrials)
         /\ CorrectCharge =>
              /\ TypeOK' /\ batch \in JobIds
              /\ jobs[batch].status = "settled"
              /\ jobs[batch].count = NumTrials
              /\ Sets(batch, "refunded_before_launch", NumTrials)
<1>. TypeOK /\ JobsKnown
  BY DEF BatchIInv, RolloutTypeOK
<1>1. ASSUME GuardBlocks
      PROVE  /\ TypeOK' /\ batch \in JobIds
             /\ jobs[batch].status = "launched"
             /\ jobs[batch].count = NumTrials
             /\ Sets(batch, "settled", NumTrials)
  <2>1. /\ batch \in JobIds /\ jobs[batch].status = "launched"
        /\ jobs[batch].count = NumTrials
    BY <1>1 DEF GuardBlocks, JobsKnown, AfterLaunch
  <2>. QED  BY <1>1, <2>1, SettleSets DEF GuardBlocks
<1>2. ASSUME CorrectCharge
      PROVE  /\ TypeOK' /\ batch \in JobIds
             /\ jobs[batch].status = "settled"
             /\ jobs[batch].count = NumTrials
             /\ Sets(batch, "refunded_before_launch", NumTrials)
  <2>1. /\ batch \in JobIds /\ jobs[batch].status = "settled"
        /\ jobs[batch].count = NumTrials
    BY <1>2 DEF CorrectCharge, JobsKnown
  <2>2. jobs' = [jobs EXCEPT ![batch].status = "refunded_before_launch"]
    BY <1>2 DEF CorrectCharge, CorrectPrelaunchFailure
  <2>3. /\ jobs[batch] \in Record
        /\ \A i \in JobIds \ {batch} : jobs'[i] = jobs[i]
        /\ jobs'[batch] = [jobs[batch] EXCEPT
                            !.status = "refunded_before_launch"]
        /\ jobs' \in [JobIds -> Record]
    BY <2>1, <2>2 DEF TypeOK, Record, Statuses
  <2>. QED  BY <2>1, <2>3 DEF TypeOK, Sets, Record
<1>. QED  BY <1>1, <1>2

LEMMA SettleBatchSets ==
  ASSUME BatchIInv, SettleBatch
  PROVE  /\ TypeOK'
         /\ \A i \in JobIds :
              /\ jobs'[i].count = jobs[i].count
              /\ jobs'[i].status \in {jobs[i].status, "settled"}
              /\ i = batch => jobs'[i].status = "settled"
<1>. DEFINE done == IF batch = NoJob THEN LaunchedBatches ELSE {batch}
            closed(r) == [r EXCEPT !.status = "settled",
                                   !.outcome = "completed"]
<1>1. TypeOK /\ \A i \in JobIds : jobs[i] \in Record
  BY DEF BatchIInv, RolloutTypeOK, TypeOK
<1>2. jobs' = [i \in JobIds |-> IF i \in done THEN closed(jobs[i]) ELSE jobs[i]]
  BY DEF SettleBatch
<1>3. \A r \in Record : /\ closed(r) \in Record
                        /\ closed(r).status = "settled"
                        /\ closed(r).count = r.count
  BY DEF Record, Statuses, SpentStatuses, Outcomes
<1>4. \A i \in JobIds : i = batch => i \in done
  BY NoJobIsNoId
<1>. HIDE DEF done, closed
<1>. QED  BY <1>1, <1>2, <1>3, <1>4 DEF TypeOK

LEMMA RecoverySets ==
  ASSUME BatchIInv, RecoverInterruptedJobs
  PROVE  /\ TypeOK'
         /\ \A i \in JobIds :
              /\ jobs'[i].count = jobs[i].count
              /\ jobs'[i].status \notin ActiveStatuses
              /\ jobs[i].status \in SpentStatuses =>
                   jobs'[i].status \in SpentStatuses
              /\ jobs[i].status = "absent" => jobs'[i].status = "absent"
<1>1. TypeOK /\ \A i \in JobIds : jobs[i] \in Record
  BY DEF BatchIInv, RolloutTypeOK, TypeOK
<1>2. \A i \in JobIds : jobs'[i] = Recovered(jobs[i])
  BY DEF RecoverInterruptedJobs
<1>3. TypeOK'
  BY <1>1, TypeStep DEF LedgerNext
<1>4. \A r \in Record :
        /\ Recovered(r).count = r.count
        /\ Recovered(r).status =
             IF r.status = "reserved" THEN "refunded_before_launch"
             ELSE IF r.status \in {"launch_claimed", "launched"}
                    THEN "settled" ELSE r.status
  BY DEF Recovered, Record
<1>. QED
  BY <1>1, <1>2, <1>3, <1>4
     DEF ActiveStatuses, SpentStatuses

-----------------------------------------------------------------------------
(* The ledger by itself: types, one active attempt, the size of a batch.    *)
LedgerOK == TypeOK /\ OneActiveAttempt /\ BatchCounts

LEMMA NothingNewKeeps ==
  ASSUME BatchIInv,
         \A i \in JobIds :
           /\ jobs'[i].count = jobs[i].count
           /\ jobs'[i].status \in ActiveStatuses =>
                jobs[i].status \in ActiveStatuses
           /\ jobs[i].status = "absent" => jobs'[i].status = "absent"
  PROVE  OneActiveAttempt' /\ BatchCounts'
<1>1. OneActiveAttempt'
  BY DEF BatchIInv, OneActiveAttempt, JobIds
<1>2. BatchCounts'
  <2>1. \A n \in 1..MaxAttempts : <<"rollout", n>> \in JobIds
    BY Sizes DEF JobIds
  <2>. QED  BY <2>1 DEF BatchIInv, BatchCounts
<1>. QED  BY <1>1, <1>2

LEMMA MoveKeeps ==
  ASSUME BatchIInv, NEW j \in JobIds, NEW status,
         Sets(j, status, jobs[j].count), jobs[j].status \in ActiveStatuses
  PROVE  OneActiveAttempt' /\ BatchCounts'
<1>1. \A i \in JobIds :
        /\ jobs'[i].count = jobs[i].count
        /\ jobs'[i].status \in ActiveStatuses =>
             jobs[i].status \in ActiveStatuses
        /\ jobs[i].status = "absent" => jobs'[i].status = "absent"
  BY DEF Sets, ActiveStatuses
<1>. QED  BY <1>1, NothingNewKeeps

LEMMA NewAttemptKeeps ==
  ASSUME BatchIInv, NEW j \in JobIds, NEW n, Sets(j, "reserved", n),
         NoActiveAttempt(j[1]), j[1] = "rollout" => n = NumTrials
  PROVE  OneActiveAttempt' /\ BatchCounts'
<1>1. \A b \in Bases, k \in 1..MaxAttempts :
        /\ <<b, k>> \in JobIds
        /\ <<b, k>> = j \/ jobs'[<<b, k>>] = jobs[<<b, k>>]
        /\ <<b, k>> = j => b = j[1]
  BY DEF Sets, JobIds
<1>2. OneActiveAttempt'
  <2>. SUFFICES ASSUME NEW b \in Bases, NEW m \in 1..MaxAttempts,
                       NEW k \in 1..MaxAttempts,
                       jobs'[<<b, m>>].status \in ActiveStatuses,
                       jobs'[<<b, k>>].status \in ActiveStatuses
                PROVE  m = k
    BY DEF OneActiveAttempt
  <2>1. CASE b = j[1]
    <3>1. \A i \in 1..MaxAttempts :
            jobs'[<<b, i>>].status \in ActiveStatuses => <<b, i>> = j
      BY <1>1, <2>1 DEF NoActiveAttempt
    <3>2. <<b, m>> = j /\ <<b, k>> = j
      BY <3>1
    <3>. QED  BY <3>2
  <2>2. CASE b # j[1]
    BY <1>1, <2>2 DEF BatchIInv, OneActiveAttempt
  <2>. QED  BY <2>1, <2>2
<1>3. BatchCounts'
  BY <1>1, Sizes DEF BatchIInv, BatchCounts, Sets
<1>. QED  BY <1>2, <1>3

(* The steps that leave the ledger alone.                                   *)
LEMMA LedgerAlone ==
  ASSUME UseOutput \/ RecoverRetained \/ NewBatch \/ ReuseBatch \/ BatchRefused
           \/ StartTrials \/ (\E t \in Trials : WriteRow(t)) \/ GroupReturns
           \/ RetainTrial \/ RetentionEnds \/ CheckBatch \/ RepairRefused
           \/ UseCachedRepair \/ StartRepair \/ RepairReturns \/ WriteOutput
           \/ Crash \/ Restart("script") \/ UNCHANGED vars
  PROVE  UNCHANGED jobs
BY DEF UseOutput, RecoverRetained, NewBatch, ReuseBatch, BatchRefused,
   StartTrials, WriteRow, GroupReturns, RetainTrial, RetentionEnds, CheckBatch,
   RepairRefused, UseCachedRepair, StartRepair, RepairReturns, WriteOutput,
   Crash, Restart, vars

(* The settlements, and the steps that make them.                           *)
LEMMA Settlements ==
  ASSUME BatchIInv
  PROVE  /\ GroupFails => /\ batch \in JobIds /\ TypeOK'
                          /\ jobs[batch].status = "launched"
                          /\ Sets(batch, "settled", jobs[batch].count)
         /\ RepairIsBroken \/ RepairFails \/ CopyRepair =>
              /\ repair \in JobIds /\ TypeOK'
              /\ jobs[repair].status = "launched"
              /\ Sets(repair, "settled", jobs[repair].count)
<1>1. ASSUME GroupFails
      PROVE  /\ batch \in JobIds /\ TypeOK'
             /\ jobs[batch].status = "launched"
             /\ Sets(batch, "settled", jobs[batch].count)
  <2>1. batch \in JobIds /\ jobs[batch].status = "launched"
    BY <1>1 DEF GroupFails, BatchIInv, JobsKnown, AfterLaunch
  <2>. QED  BY <1>1, <2>1, SettleSets DEF GroupFails
<1>2. ASSUME RepairIsBroken \/ RepairFails \/ CopyRepair
      PROVE  /\ repair \in JobIds /\ TypeOK'
             /\ jobs[repair].status = "launched"
             /\ Sets(repair, "settled", jobs[repair].count)
  <2>1. repair \in JobIds /\ jobs[repair].status = "launched"
    BY <1>2 DEF RepairIsBroken, RepairFails, CopyRepair, BatchIInv, JobsKnown,
       RepairPlaces
  <2>2. \E o \in {"completed", "failed"} : Settle(repair, o)
    BY <1>2 DEF RepairIsBroken, RepairFails, CopyRepair
  <2>. QED  BY <2>1, <2>2, SettleSets
<1>. QED  BY <1>1, <1>2

LEMMA LedgerKeeps ==
  ASSUME BatchIInv, [Next]_vars
  PROVE  LedgerOK'
<1>0. LedgerOK
  BY DEF LedgerOK, BatchIInv, RolloutTypeOK
<1>1. CASE UNCHANGED jobs
  BY <1>0, <1>1 DEF LedgerOK, TypeOK, OneActiveAttempt, BatchCounts
<1>2. CASE ReserveBatch
  BY <1>2, ReserveBatchSets, NewAttemptKeeps DEF LedgerOK
<1>3. CASE ReserveRepair
  BY <1>3, ReserveRepairSets, NewAttemptKeeps DEF LedgerOK
<1>4. CASE ClaimBatch \/ MarkBatch
  <2>1. /\ batch \in JobIds /\ jobs[batch].status \in ActiveStatuses
        /\ jobs[batch].count = NumTrials
    BY <1>4 DEF ClaimBatch, MarkBatch, BatchIInv, JobsKnown, ActiveStatuses
  <2>. QED  BY <1>4, <2>1, ClaimSets, MoveKeeps DEF LedgerOK
<1>5. CASE ClaimRepair \/ MarkRepair
  <2>1. /\ repair \in JobIds /\ jobs[repair].status \in ActiveStatuses
        /\ jobs[repair].count = 1
    BY <1>5 DEF ClaimRepair, MarkRepair, BatchIInv, JobsKnown, ActiveStatuses,
       RepairPlaces
  <2>. QED  BY <1>5, <2>1, ClaimSets, MoveKeeps DEF LedgerOK
<1>6. CASE GroupFails
  BY <1>6, Settlements, MoveKeeps DEF LedgerOK, ActiveStatuses
<1>7. CASE RepairIsBroken \/ RepairFails \/ CopyRepair
  BY <1>7, Settlements, MoveKeeps DEF LedgerOK, ActiveStatuses
<1>8. CASE GuardBlocks
  BY <1>8, GuardSets, MoveKeeps DEF LedgerOK, ActiveStatuses
<1>9. CASE SettleBatch
  <2>1. \A i \in JobIds :
          jobs[i].status = "absent" => jobs'[i].status = "absent"
    <3>. SUFFICES ASSUME NEW i \in JobIds, jobs[i].status = "absent"
                  PROVE  jobs'[i] = jobs[i]
      OBVIOUS
    <3>1. i \notin IF batch = NoJob THEN LaunchedBatches ELSE {batch}
      BY DEF LaunchedBatches, BatchIInv, JobsKnown
    <3>. QED  BY <1>9, <3>1 DEF SettleBatch
  <2>. QED  BY <1>9, <2>1, SettleBatchSets, NothingNewKeeps
            DEF LedgerOK, ActiveStatuses
<1>10. CASE Restart("controller")
  <2>1. RecoverInterruptedJobs
    BY <1>10 DEF Restart
  <2>. QED  BY <2>1, RecoverySets, NothingNewKeeps DEF LedgerOK
<1>11. CASE CorrectCharge
  <2>1. /\ TypeOK' /\ batch \in JobIds /\ jobs[batch].status = "settled"
        /\ Sets(batch, "refunded_before_launch", jobs[batch].count)
    BY <1>11, GuardSets
  <2>2. \A i \in JobIds :
          /\ jobs'[i].count = jobs[i].count
          /\ jobs'[i].status \in ActiveStatuses =>
               jobs[i].status \in ActiveStatuses
          /\ jobs[i].status = "absent" => jobs'[i].status = "absent"
    BY <2>1 DEF Sets, ActiveStatuses
  <2>. QED  BY <2>1, <2>2, NothingNewKeeps DEF LedgerOK
<1>. QED
  BY <1>1, <1>2, <1>3, <1>4, <1>5, <1>6, <1>7, <1>8, <1>9, <1>10, <1>11,
     LedgerAlone, RolloutAssumption DEF Next, Step, Finished

-----------------------------------------------------------------------------
(* Types of the process's memory and of the disk.                           *)
MemoryOK ==
  /\ pc \in {"down", "start", "reserve", "claim", "mark", "run", "running",
             "retain", "check", "repair", "repair-claim", "repair-mark",
             "repair-run", "repairing", "copy", "write", "settle", "done",
             "correct"}
  /\ batch \in JobIds \cup {NoJob} /\ repair \in JobIds \cup {NoJob}
  /\ target \in Trials \cup {0}
  /\ seen \subseteq Trials /\ pending \subseteq Trials

FilesOK ==
  /\ native \in [Trials -> Rows] /\ repaired \in [Trials -> Rows]
  /\ retained \in [Trials -> Files] /\ output \in [Trials -> Files]

RunOK ==
  /\ harness \in Harnesses /\ scripted \in BOOLEAN
  /\ mishaps \in 0..MaxMishaps

LEMMA TypesSplit ==
  RolloutTypeOK <=> TypeOK /\ MemoryOK /\ FilesOK /\ opened \in Nat /\ RunOK
BY DEF RolloutTypeOK, MemoryOK, FilesOK, RunOK

LEMMA DiesKeepsTypes ==
  ASSUME Dies
  PROVE  /\ MemoryOK' /\ pc' = "down" /\ batch' = NoJob /\ repair' = NoJob
         /\ pending' = {}
BY DEF Dies, MemoryOK

LEMMA MemoryKeeps ==
  ASSUME BatchIInv, [Next]_vars
  PROVE  MemoryOK'
<1>0. MemoryOK
  BY TypesSplit DEF BatchIInv
<1>1. CASE UseOutput \/ NewBatch \/ GroupReturns \/ RetentionEnds
  BY <1>0, <1>1 DEF UseOutput, NewBatch, GroupReturns, RetentionEnds, Goes,
     memory, MemoryOK
<1>2. CASE RecoverRetained \/ CheckBatch
  <2>1. ASSUME AskRepair(retained), Repairable(retained),
               UNCHANGED <<batch, repair, seen, pending>>
        PROVE  MemoryOK'
    BY <1>0, <2>1, ToRepair DEF AskRepair, Goes, MemoryOK
  <2>2. CASE Dies
    BY <2>2, DiesKeepsTypes
  <2>3. CASE Goes("write") /\ UNCHANGED memory
    BY <1>0, <2>3 DEF Goes, memory, MemoryOK
  <2>. QED  BY <1>2, <2>1, <2>2, <2>3 DEF RecoverRetained, CheckBatch
<1>3. CASE ReuseBatch
  BY <1>0, <1>3 DEF ReuseBatch, Goes, MemoryOK
<1>4. CASE ReserveBatch
  BY <1>0, <1>4, ReserveBatchSets DEF ReserveBatch, Goes, MemoryOK
<1>5. CASE BatchRefused \/ GroupFails \/ GuardBlocks \/ CorrectCharge
           \/ RepairRefused \/ RepairIsBroken \/ RepairFails \/ Crash
  <2>1. CASE Goes("correct") /\ UNCHANGED memory
    BY <1>0, <2>1 DEF Goes, memory, MemoryOK
  <2>2. CASE Dies
    BY <2>2, DiesKeepsTypes
  <2>. QED
    BY <1>5, <2>1, <2>2 DEF BatchRefused, GroupFails, GuardBlocks,
       CorrectCharge, RepairRefused, RepairIsBroken, RepairFails, Crash
<1>6. CASE ClaimBatch \/ MarkBatch \/ ClaimRepair \/ MarkRepair
  BY <1>0, <1>6 DEF ClaimBatch, MarkBatch, ClaimRepair, MarkRepair, Goes,
     memory, MemoryOK
<1>7. CASE StartTrials \/ (\E t \in Trials : WriteRow(t))
  BY <1>0, <1>7 DEF StartTrials, WriteRow, Goes, MemoryOK
<1>8. CASE RetainTrial
  BY <1>0, <1>8 DEF RetainTrial, memory, MemoryOK
<1>9. CASE ReserveRepair
  <2>1. target \in Trials
    BY <1>9 DEF ReserveRepair, BatchIInv, DiskKnown
  <2>. QED
    BY <1>0, <1>9, <2>1, ReserveRepairSets DEF ReserveRepair, Goes, MemoryOK
<1>10. CASE UseCachedRepair \/ StartRepair \/ RepairReturns
  BY <1>0, <1>10 DEF UseCachedRepair, StartRepair, RepairReturns, Goes, memory,
     MemoryOK
<1>11. CASE CopyRepair
  <2>1. ASSUME AskRepair(retained'), Repairable(retained'),
               UNCHANGED <<batch, repair, seen, pending>>
        PROVE  MemoryOK'
    BY <1>0, <2>1, ToRepair DEF AskRepair, Goes, MemoryOK
  <2>2. CASE Dies
    BY <2>2, DiesKeepsTypes
  <2>3. CASE Goes("write") /\ UNCHANGED memory
    BY <1>0, <2>3 DEF Goes, memory, MemoryOK
  <2>. QED  BY <1>11, <2>1, <2>2, <2>3 DEF CopyRepair
<1>12. CASE WriteOutput \/ SettleBatch \/ (\E by \in Restarters : Restart(by))
            \/ Finished \/ UNCHANGED vars
  BY <1>0, <1>12 DEF WriteOutput, SettleBatch, Restart, Finished, vars, Goes,
     memory, MemoryOK
<1>. QED
  BY <1>1, <1>2, <1>3, <1>4, <1>5, <1>6, <1>7, <1>8, <1>9, <1>10, <1>11, <1>12
     DEF Next, Step

LEMMA FilesKeep ==
  ASSUME BatchIInv, [Next]_vars
  PROVE  FilesOK' /\ RunOK' /\ opened' \in Nat
<1>0. FilesOK /\ MemoryOK /\ RunOK /\ opened \in Nat
  BY TypesSplit DEF BatchIInv
<1>1. FilesOK'
  <2>. TrialKinds \subseteq Rows /\ Rows \subseteq Files /\ "torn" \in Files
    BY RolloutAssumption DEF Rows, Files
  <2>1. CASE UNCHANGED disk
    BY <1>0, <2>1 DEF disk, FilesOK
  <2>2. CASE \E t \in Trials : WriteRow(t)
    BY <1>0, <2>2 DEF WriteRow, FilesOK
  <2>3. CASE RetainTrial
    <3>1. Min(Unretained) \in Trials
      BY <2>3, LeastIsThere DEF RetainTrial, Unretained
    <3>. QED  BY <1>0, <2>3, <3>1 DEF RetainTrial, FilesOK
  <2>4. CASE RepairReturns
    BY <1>0, <2>4 DEF RepairReturns, FilesOK
  <2>5. CASE CopyRepair
    <3>1. target \in Trials
      BY <2>5 DEF CopyRepair, BatchIInv, DiskKnown, RepairPlaces
    <3>. QED  BY <1>0, <2>5, <3>1 DEF CopyRepair, FilesOK
  <2>6. CASE WriteOutput
    BY <1>0, <2>6 DEF WriteOutput, FilesOK
  <2>7. CASE Crash
    BY <1>0, <2>7 DEF Crash, FilesOK
  <2>. QED
    BY <2>1, <2>2, <2>3, <2>4, <2>5, <2>6, <2>7
       DEF Next, Step, UseOutput, RecoverRetained, NewBatch, ReuseBatch,
       ReserveBatch, BatchRefused, ClaimBatch, MarkBatch, StartTrials,
       GroupReturns, RetentionEnds, CheckBatch, ReserveRepair, RepairRefused,
       ClaimRepair, MarkRepair, UseCachedRepair, StartRepair, RepairIsBroken,
       SettleBatch, Restart, GroupFails, GuardBlocks, CorrectCharge,
       RepairFails, Finished, vars
<1>2. RunOK'
  <2>1. CASE UNCHANGED run
    BY <1>0, <2>1 DEF run, RunOK
  <2>2. CASE Mishap
    BY <1>0, <2>2, Sizes DEF Mishap, RunOK
  <2>3. CASE \E by \in Restarters : Restart(by)
    BY <1>0, <2>3 DEF Restart, RunOK
  <2>. QED
    BY <2>1, <2>2, <2>3
       DEF Next, Step, UseOutput, RecoverRetained, NewBatch, ReuseBatch,
       ReserveBatch, BatchRefused, ClaimBatch, MarkBatch, StartTrials, WriteRow,
       GroupReturns, RetainTrial, RetentionEnds, CheckBatch, ReserveRepair,
       RepairRefused, ClaimRepair, MarkRepair, UseCachedRepair, StartRepair,
       RepairReturns, RepairIsBroken, CopyRepair, WriteOutput, SettleBatch,
       GroupFails, GuardBlocks, CorrectCharge, RepairFails, Crash, Finished,
       vars
<1>3. opened' \in Nat
  <2>1. CASE UNCHANGED opened
    BY <1>0, <2>1
  <2>2. CASE StartTrials
    <3>1. pending' \subseteq Trials
      BY <2>2 DEF StartTrials
    <3>2. Cardinality(pending') \in Nat
      BY <3>1, SomeTrials
    <3>. QED  BY <1>0, <2>2, <3>2 DEF StartTrials
  <2>3. CASE StartRepair
    BY <1>0, <2>3 DEF StartRepair
  <2>. QED
    BY <2>1, <2>2, <2>3
       DEF Next, Step, UseOutput, RecoverRetained, NewBatch, ReuseBatch,
       ReserveBatch, BatchRefused, ClaimBatch, MarkBatch, WriteRow,
       GroupReturns, RetainTrial, RetentionEnds, CheckBatch, ReserveRepair,
       RepairRefused, ClaimRepair, MarkRepair, UseCachedRepair,
       RepairReturns, RepairIsBroken, CopyRepair, WriteOutput, SettleBatch,
       Restart, GroupFails, GuardBlocks, CorrectCharge, RepairFails, Crash,
       Finished, vars
<1>. QED  BY <1>1, <1>2, <1>3

LEMMA TypesKeep ==
  ASSUME BatchIInv, [Next]_vars
  PROVE  RolloutTypeOK'
<1>1. TypeOK'
  BY LedgerKeeps DEF LedgerOK
<1>. QED
  BY <1>1, MemoryKeeps, FilesKeep DEF RolloutTypeOK, MemoryOK, FilesOK, RunOK

-----------------------------------------------------------------------------
(* The disk, place by place.                                                *)
DiskOK == DiskKnown /\ OnlyBrokenRepaired /\ OutputIsAdmissible

(* A process that has ended knows nothing of its retained trials.           *)
LEMMA EndKeepsDisk ==
  ASSUME BatchIInv, pc' = "down",
         UNCHANGED output,
         output # None => UNCHANGED retained
  PROVE  DiskOK'
BY DEF BatchIInv, DiskOK, DiskKnown, RepairPlaces, OnlyBrokenRepaired,
   OutputIsAdmissible, Readable, Infrastructure

LEMMA AskRepairKeepsDisk ==
  ASSUME BatchIInv, AskRepair(retained'), Repairable(retained'),
         UNCHANGED output, output = None
  PROVE  DiskOK'
<1>1. target' \in Trials /\ retained'[target'] = "broken" /\ pc' = "repair"
  BY ToRepair DEF AskRepair, Goes
<1>. QED
  BY <1>1 DEF DiskOK, DiskKnown, RepairPlaces, OnlyBrokenRepaired,
     OutputIsAdmissible

LEMMA AcceptedKeepsDisk ==
  ASSUME pc' = "write", Readable(retained'), UNCHANGED output, output = None,
         (\E t \in Trials : retained'[t] = "broken") =>
            Infrastructure(retained') # {}
  PROVE  DiskOK'
BY DEF DiskOK, DiskKnown, RepairPlaces, OnlyBrokenRepaired, OutputIsAdmissible

LEMMA NoneBroken ==
  ASSUME NEW f, Acceptable(f)
  PROVE  Readable(f) /\ \A t \in Trials : f[t] # "broken"
BY DEF Acceptable, Unacceptable

LEMMA DiskKeeps ==
  ASSUME BatchIInv, [Next]_vars
  PROVE  DiskOK'
<1>0. /\ DiskKnown /\ OnlyBrokenRepaired /\ OutputIsAdmissible
      /\ MemoryOK /\ FilesOK
  BY TypesSplit DEF BatchIInv
<1>1. CASE UseOutput \/ NewBatch \/ ReuseBatch \/ ReserveBatch \/ ClaimBatch
           \/ MarkBatch
  <2>1. UNCHANGED <<native, retained, output>>
    BY <1>1 DEF UseOutput, NewBatch, ReuseBatch, ReserveBatch, ClaimBatch,
       MarkBatch, disk
  <2>. QED
    BY <1>0, <1>1, <2>1
       DEF UseOutput, NewBatch, ReuseBatch, ReserveBatch, ClaimBatch, MarkBatch,
       NothingRetained, Goes, DiskOK, DiskKnown, RepairPlaces,
       OnlyBrokenRepaired, OutputIsAdmissible, Readable, Infrastructure
<1>2. CASE RecoverRetained \/ CheckBatch
  <2>1. UNCHANGED <<retained, output>> /\ output = None
    BY <1>0, <1>2 DEF RecoverRetained, CheckBatch, disk, DiskKnown
  <2>2. CASE AskRepair(retained) /\ Repairable(retained)
    BY <2>1, <2>2, AskRepairKeepsDisk
  <2>3. CASE Dies
    BY <2>1, <2>3, DiesKeepsTypes, EndKeepsDisk
  <2>4. CASE Goes("write") /\ Acceptable(retained)
    BY <2>1, <2>4, NoneBroken, AcceptedKeepsDisk DEF Goes
  <2>5. CASE pc = "check" /\ Goes("write") /\ Infrastructure(retained) # {}
    BY <1>0, <2>1, <2>5, AcceptedKeepsDisk DEF Goes, DiskKnown
  <2>. QED  BY <1>2, <2>2, <2>3, <2>4, <2>5 DEF RecoverRetained, CheckBatch
<1>3. CASE BatchRefused \/ GroupFails \/ GuardBlocks \/ CorrectCharge
           \/ RepairRefused \/ RepairIsBroken \/ RepairFails
  <2>1. CASE Dies
    <3>1. UNCHANGED <<retained, output>>
      BY <1>3 DEF BatchRefused, GroupFails, GuardBlocks, CorrectCharge,
         RepairRefused, RepairIsBroken, RepairFails, disk
    <3>. QED  BY <2>1, <3>1, DiesKeepsTypes, EndKeepsDisk
  <2>2. CASE GuardBlocks /\ Goes("correct")
    <3>1. /\ pc = "run" /\ pc' = "correct"
          /\ UNCHANGED <<native, retained, output>>
      BY <2>2 DEF GuardBlocks, Goes, disk
    <3>. QED
      BY <1>0, <3>1 DEF DiskOK, DiskKnown, RepairPlaces,
         OnlyBrokenRepaired, OutputIsAdmissible
  <2>. QED
    BY <1>3, <2>1, <2>2 DEF BatchRefused, GroupFails, GuardBlocks,
       CorrectCharge, RepairRefused, RepairIsBroken, RepairFails
<1>4. CASE StartTrials
  <2>1. \A t \in Trials \ pending' : native[t] # "missing"
    BY <1>4 DEF StartTrials
  <2>2. /\ pc = "run" /\ pc' = "running"
        /\ UNCHANGED <<native, retained, output, target>>
    BY <1>4 DEF StartTrials, Goes, disk
  <2>. QED
    BY <1>0, <2>1, <2>2 DEF DiskOK, DiskKnown, RepairPlaces,
       OnlyBrokenRepaired, OutputIsAdmissible
<1>5. ASSUME NEW t \in Trials, WriteRow(t) PROVE DiskOK'
  <2>1. PICK k \in TrialKinds : native' = [native EXCEPT ![t] = k]
    BY <1>5 DEF WriteRow
  <2>2. k # "missing"
    BY RolloutAssumption
  <2>3. /\ pc = "running" /\ pc' = "running" /\ pending' = pending \ {t}
        /\ UNCHANGED <<retained, output, target>>
    BY <1>5 DEF WriteRow
  <2>4. \A s \in Trials \ pending' : native'[s] # "missing"
    BY <1>0, <2>1, <2>2, <2>3 DEF DiskKnown, FilesOK
  <2>. QED
    BY <1>0, <2>3, <2>4 DEF DiskOK, DiskKnown, RepairPlaces,
       OnlyBrokenRepaired, OutputIsAdmissible
<1>6. CASE GroupReturns
  <2>1. /\ pc = "running" /\ pending = {} /\ pc' = "retain"
        /\ UNCHANGED <<native, retained, output, target>>
    BY <1>6 DEF GroupReturns, Goes, memory, disk
  <2>2. \A t \in Trials : native[t] # "missing" /\ retained[t] = "missing"
    BY <1>0, <2>1 DEF DiskKnown, None
  <2>. QED
    BY <1>0, <2>1, <2>2 DEF DiskOK, DiskKnown, RepairPlaces,
       OnlyBrokenRepaired, OutputIsAdmissible
<1>7. CASE RetainTrial
  <2>1. Min(Unretained) \in Unretained
    BY <1>7, LeastIsThere DEF RetainTrial, Unretained
  <2>2. /\ pc = "retain" /\ pc' = "retain"
        /\ retained' = [retained EXCEPT ![Min(Unretained)] =
                                           native[Min(Unretained)]]
        /\ UNCHANGED <<native, output, target>>
    BY <1>7 DEF RetainTrial, memory
  <2>3. \A t \in Trials : retained'[t] \in {"missing", native[t]}
    BY <1>0, <2>1, <2>2 DEF DiskKnown, FilesOK, Unretained
  <2>. QED
    BY <1>0, <2>2, <2>3 DEF DiskOK, DiskKnown, RepairPlaces,
       OnlyBrokenRepaired, OutputIsAdmissible
<1>8. CASE RetentionEnds
  <2>1. /\ pc = "retain" /\ pc' = "check" /\ Unretained = {}
        /\ UNCHANGED <<retained, output, target>>
    BY <1>8 DEF RetentionEnds, Goes, memory, disk
  <2>2. Readable(retained)
    <3>1. \A t \in Trials : retained[t] = native[t] /\ native[t] # "torn"
      BY <1>0, <2>1 DEF DiskKnown, Unretained, FilesOK, Rows
    <3>. QED  BY <1>0, <2>1, <3>1 DEF Readable, DiskKnown
  <2>. QED
    BY <1>0, <2>1, <2>2 DEF DiskOK, DiskKnown, RepairPlaces,
       OnlyBrokenRepaired, OutputIsAdmissible, Readable
<1>9. CASE ReserveRepair \/ ClaimRepair \/ MarkRepair \/ UseCachedRepair
           \/ StartRepair \/ RepairReturns
  <2>1. /\ pc \in {"repair"} \cup RepairPlaces /\ pc' \in RepairPlaces
        /\ UNCHANGED <<retained, output, target>>
    BY <1>9 DEF ReserveRepair, ClaimRepair, MarkRepair, UseCachedRepair,
       StartRepair, RepairReturns, Goes, memory, disk, RepairPlaces
  <2>. QED
    BY <1>0, <2>1 DEF DiskOK, DiskKnown, RepairPlaces,
       OnlyBrokenRepaired, OutputIsAdmissible
<1>10. CASE CopyRepair
  <2>1. UNCHANGED output /\ output = None
    BY <1>0, <1>10 DEF CopyRepair, DiskKnown
  <2>2. CASE AskRepair(retained') /\ Repairable(retained')
    BY <2>1, <2>2, AskRepairKeepsDisk
  <2>3. CASE Dies
    BY <2>1, <2>3, DiesKeepsTypes, EndKeepsDisk
  <2>4. CASE Goes("write") /\ Acceptable(retained')
    BY <2>1, <2>4, NoneBroken, AcceptedKeepsDisk DEF Goes
  <2>. QED  BY <1>10, <2>2, <2>3, <2>4 DEF CopyRepair
<1>11. CASE WriteOutput
  <2>1. /\ pc = "write" /\ pc' = "settle" /\ output' = retained
        /\ UNCHANGED retained
    BY <1>11 DEF WriteOutput, Goes
  <2>. QED
    BY <1>0, <2>1 DEF DiskOK, DiskKnown, RepairPlaces,
       OnlyBrokenRepaired, OutputIsAdmissible, Readable, Infrastructure
<1>12. CASE SettleBatch \/ (\E by \in Restarters : Restart(by)) \/ Finished
            \/ UNCHANGED vars
  <2>1. /\ UNCHANGED <<retained, output, target, native, pending>>
        /\ \/ pc = "settle" /\ pc' = "done"
           \/ pc = "down" /\ pc' = "start"
           \/ UNCHANGED pc
    BY <1>12 DEF SettleBatch, Restart, Finished, vars, Goes, memory, disk
  <2>. QED
    BY <1>0, <2>1 DEF DiskOK, DiskKnown, RepairPlaces,
       OnlyBrokenRepaired, OutputIsAdmissible, Readable, Infrastructure
<1>13. CASE Crash
  <2>1. pc' = "down" /\ UNCHANGED output
    BY <1>13, DiesKeepsTypes DEF Crash
  <2>2. output # None => UNCHANGED retained
    BY <1>0, <1>13 DEF Crash, DiskKnown
  <2>. QED  BY <2>1, <2>2, EndKeepsDisk
<1>. QED
  BY <1>1, <1>2, <1>3, <1>4, <1>5, <1>6, <1>7, <1>8, <1>9, <1>10, <1>11, <1>12,
     <1>13 DEF Next, Step

-----------------------------------------------------------------------------
(* The jobs of the process, place by place.                                 *)
LEMMA EndKeepsJobs ==
  ASSUME Dies
  PROVE  JobsKnown' /\ OpenIsMine'
BY DiesKeepsTypes DEF JobsKnown, OpenIsMine, RepairPlaces, AfterLaunch

(* Each step leads from the jobs of one place to those of the next.         *)
LEMMA JobsStayKnown ==
  ASSUME BatchIInv, [Next]_vars
  PROVE  JobsKnown'
<1>0. JobsKnown
  BY DEF BatchIInv
<1>1. CASE UseOutput \/ NewBatch \/ RecoverRetained \/ GroupReturns
           \/ RetentionEnds \/ CheckBatch \/ WriteOutput
  <2>1. CASE Dies
    BY <2>1, EndKeepsJobs
  <2>2. CASE /\ UNCHANGED <<jobs, batch, repair>>
             /\ pc' \notin RepairPlaces
             /\ pc' \notin {"down", "start", "claim", "mark", "run", "correct"}
             /\ pc' = "reserve" => pc = "start"
             /\ pc' \in {"repair", "write", "settle"} =>
                  pc \in {"start", "check", "write"}
             /\ pc' \in AfterLaunch => pc \in AfterLaunch
    BY <1>0, <2>2 DEF JobsKnown, RepairPlaces, AfterLaunch
  <2>. QED
    BY <1>1, <2>1, <2>2 DEF UseOutput, NewBatch, NothingRetained,
       RecoverRetained, GroupReturns, RetentionEnds, CheckBatch, WriteOutput,
       AskRepair, Goes, memory, RepairPlaces, AfterLaunch
<1>2. CASE BatchRefused \/ GroupFails \/ GuardBlocks \/ CorrectCharge
           \/ RepairRefused \/ RepairIsBroken \/ RepairFails \/ Crash
  <2>1. CASE Dies
    BY <2>1, EndKeepsJobs
  <2>2. CASE GuardBlocks /\ Goes("correct") /\ UNCHANGED memory
    <3>1. /\ pc' = "correct" /\ UNCHANGED batch /\ batch \in JobIds
          /\ Sets(batch, "settled", NumTrials) /\ batch[1] = "rollout"
      BY <1>0, <2>2, GuardSets, NoJobIsNoId DEF Goes, memory, JobsKnown
    <3>. QED  BY <3>1 DEF JobsKnown, RepairPlaces, AfterLaunch, Sets
  <2>. QED
    BY <1>2, <2>1, <2>2 DEF BatchRefused, GroupFails, GuardBlocks,
       CorrectCharge, RepairRefused, RepairIsBroken, RepairFails, Crash
<1>3. CASE ReuseBatch
  <2>1. /\ batch' \in LaunchedBatches /\ pc' = "run" /\ UNCHANGED jobs
        /\ UNCHANGED repair
    BY <1>3 DEF ReuseBatch, Goes
  <2>2. /\ batch' \in JobIds /\ batch'[1] = "rollout"
        /\ jobs[batch'].status = "launched"
    BY <2>1 DEF LaunchedBatches
  <2>3. batch'[2] \in 1..MaxAttempts /\ batch' = <<"rollout", batch'[2]>>
    BY <2>2 DEF JobIds
  <2>4. jobs[batch'].count = NumTrials
    BY <2>2, <2>3 DEF BatchIInv, BatchCounts
  <2>. QED  BY <2>1, <2>2, <2>4 DEF JobsKnown, RepairPlaces, AfterLaunch
<1>4. CASE ReserveBatch
  <2>1. pc' = "claim"
    BY <1>4 DEF ReserveBatch, Goes
  <2>. QED
    BY <1>4, <2>1, ReserveBatchSets DEF JobsKnown, RepairPlaces, AfterLaunch,
       Sets
<1>5. CASE ClaimBatch \/ MarkBatch
  <2>1. /\ UNCHANGED batch /\ batch \in JobIds
        /\ \/ pc' = "mark" /\ Sets(batch, "launch_claimed", NumTrials)
           \/ pc' = "run" /\ Sets(batch, "launched", NumTrials)
        /\ batch[1] = "rollout"
    BY <1>0, <1>5, ClaimSets, NoJobIsNoId
       DEF ClaimBatch, MarkBatch, Goes, memory, JobsKnown
  <2>. QED  BY <2>1 DEF JobsKnown, RepairPlaces, AfterLaunch, Sets
<1>6. CASE StartTrials \/ (\E t \in Trials : WriteRow(t)) \/ RetainTrial
  <2>1. /\ UNCHANGED <<jobs, batch, repair>>
        /\ pc \in AfterLaunch /\ pc' \in AfterLaunch \ {"run"}
    BY <1>6 DEF StartTrials, WriteRow, RetainTrial, Goes, memory, AfterLaunch
  <2>. QED  BY <1>0, <2>1 DEF JobsKnown, RepairPlaces, AfterLaunch
<1>7. CASE ReserveRepair
  <2>1. /\ pc' = "repair-claim" /\ UNCHANGED batch
        /\ repair' \in JobIds /\ Sets(repair', "reserved", 1)
        /\ repair'[1] = "repair" /\ pc = "repair"
    BY <1>7, ReserveRepairSets DEF ReserveRepair, Goes
  <2>2. batch # NoJob => batch # repair' /\ jobs'[batch] = jobs[batch]
    BY <1>0, <2>1 DEF JobsKnown, Sets
  <2>. QED  BY <1>0, <2>1, <2>2 DEF JobsKnown, RepairPlaces, AfterLaunch, Sets
<1>8. CASE ClaimRepair \/ MarkRepair
  <2>1. /\ UNCHANGED <<batch, repair>> /\ repair \in JobIds
        /\ \/ pc' = "repair-mark" /\ Sets(repair, "launch_claimed", 1)
           \/ pc' = "repair-run" /\ Sets(repair, "launched", 1)
        /\ repair[1] = "repair" /\ pc \in RepairPlaces
    BY <1>0, <1>8, ClaimSets DEF ClaimRepair, MarkRepair, Goes, memory,
       JobsKnown, RepairPlaces
  <2>2. batch # NoJob => batch # repair /\ jobs'[batch] = jobs[batch]
    BY <1>0, <2>1 DEF JobsKnown, Sets
  <2>. QED  BY <1>0, <2>1, <2>2 DEF JobsKnown, RepairPlaces, AfterLaunch, Sets
<1>9. CASE UseCachedRepair \/ StartRepair \/ RepairReturns
  <2>1. /\ UNCHANGED <<jobs, batch, repair>>
        /\ pc \in {"repair-run", "repairing"} /\ pc' \in {"repairing", "copy"}
    BY <1>9 DEF UseCachedRepair, StartRepair, RepairReturns, Goes, memory
  <2>. QED  BY <1>0, <2>1 DEF JobsKnown, RepairPlaces, AfterLaunch
<1>10. CASE CopyRepair
  <2>1. CASE Dies
    BY <2>1, EndKeepsJobs
  <2>2. CASE pc' \in {"write", "repair"} /\ UNCHANGED <<batch, repair>>
    <3>1. repair \in JobIds /\ Sets(repair, "settled", jobs[repair].count)
      BY <1>10, Settlements
    <3>2. pc \in RepairPlaces
      BY <1>10 DEF CopyRepair, RepairPlaces
    <3>3. batch # NoJob => batch # repair /\ jobs'[batch] = jobs[batch]
      BY <1>0, <3>1, <3>2 DEF JobsKnown, Sets
    <3>. QED
      BY <1>0, <2>2, <3>1, <3>2, <3>3
         DEF JobsKnown, RepairPlaces, AfterLaunch, Sets
  <2>. QED  BY <1>10, <2>1, <2>2 DEF CopyRepair, AskRepair, Goes, memory
<1>11. CASE SettleBatch
  <2>1. pc' = "done" /\ UNCHANGED <<batch, repair>>
    BY <1>11 DEF SettleBatch, Goes, memory
  <2>2. batch # NoJob => jobs'[batch].status = "settled"
    BY <1>0, <1>11, SettleBatchSets DEF JobsKnown
  <2>. QED  BY <1>0, <2>1, <2>2 DEF JobsKnown, RepairPlaces, AfterLaunch
<1>12. CASE \E by \in Restarters : Restart(by)
  <2>1. batch = NoJob /\ UNCHANGED <<batch, repair>> /\ pc' = "start"
    BY <1>0, <1>12 DEF Restart, Goes, memory, JobsKnown
  <2>. QED  BY <2>1 DEF JobsKnown, RepairPlaces, AfterLaunch
<1>13. CASE Finished \/ UNCHANGED vars
  BY <1>0, <1>13 DEF Finished, vars, memory, JobsKnown, RepairPlaces,
     AfterLaunch
<1>. QED
  BY <1>1, <1>2, <1>3, <1>4, <1>5, <1>6, <1>7, <1>8, <1>9, <1>10, <1>11, <1>12,
     <1>13 DEF Next, Step

-----------------------------------------------------------------------------
(* Nothing is left open but by the process at work.                         *)
NothingOpen == \A j \in JobIds : jobs[j].status \notin ActiveStatuses

LEMMA OpenMoves ==
  ASSUME BatchIInv, pc # "down", UNCHANGED scripted,
         \A i \in JobIds : jobs'[i].status \in ActiveStatuses =>
           \/ i \in Mine'
           \/ jobs[i].status \in ActiveStatuses /\ (i \in Mine => i \in Mine')
  PROVE  OpenIsMine'
BY DEF BatchIInv, OpenIsMine

LEMMA NothingOpenAtStart ==
  ASSUME BatchIInv, ~scripted, pc \in {"start", "reserve", "done"}
  PROVE  NothingOpen
<1>1. Mine = {}
  BY DEF Mine, AfterLaunch, RepairPlaces
<1>. QED  BY <1>1 DEF BatchIInv, OpenIsMine, NothingOpen

LEMMA MineByPlace ==
  /\ pc \in {"claim", "mark", "repair", "write", "settle"} \cup AfterLaunch =>
       Mine = {batch}
  /\ pc \in RepairPlaces => Mine = {batch, repair}
  /\ pc' \in {"claim", "mark", "repair", "write", "settle"} \cup AfterLaunch =>
       Mine' = {batch'}
  /\ pc' \in RepairPlaces => Mine' = {batch', repair'}
BY DEF Mine, AfterLaunch, RepairPlaces

LEMMA OpenStaysMine ==
  ASSUME BatchIInv, [Next]_vars
  PROVE  OpenIsMine'
<1>0. OpenIsMine /\ JobsKnown
  BY DEF BatchIInv
<1>1. CASE UseOutput \/ RecoverRetained \/ NewBatch \/ ReuseBatch
  <2>1. pc = "start" /\ UNCHANGED <<jobs, scripted>>
    BY <1>1 DEF UseOutput, RecoverRetained, NewBatch, ReuseBatch,
       NothingRetained, run
  <2>. QED  BY <2>1, NothingOpenAtStart DEF NothingOpen, OpenIsMine
<1>2. CASE BatchRefused \/ GroupFails \/ GuardBlocks \/ CorrectCharge
           \/ RepairRefused \/ RepairIsBroken \/ RepairFails \/ Crash
  <2>1. CASE Dies
    BY <2>1, EndKeepsJobs
  <2>2. CASE GuardBlocks
    <3>1. pc = "run" /\ UNCHANGED scripted
      BY <2>2 DEF GuardBlocks, Mishap
    <3>2. Mine = {batch}
      BY <3>1, MineByPlace DEF AfterLaunch
    <3>3. \A i \in JobIds : \/ i = batch /\ jobs'[i].status = "settled"
                            \/ i # batch /\ jobs'[i] = jobs[i]
      BY <2>2, GuardSets DEF Sets
    <3>. QED  BY <3>1, <3>2, <3>3, OpenMoves DEF ActiveStatuses
  <2>. QED
    BY <1>2, <2>1, <2>2 DEF BatchRefused, GroupFails,
       CorrectCharge, RepairRefused, RepairIsBroken, RepairFails, Crash
<1>3. CASE ReserveBatch
  <2>1. pc = "reserve" /\ pc' = "claim" /\ UNCHANGED scripted
    BY <1>3 DEF ReserveBatch, Goes, run
  <2>2. Mine' = {batch'}
    BY <2>1, MineByPlace
  <2>3. \A i \in JobIds : i # batch' => jobs'[i] = jobs[i]
    BY <1>3, ReserveBatchSets DEF Sets
  <2>. QED
    BY <2>1, <2>2, <2>3, NothingOpenAtStart DEF NothingOpen, OpenIsMine
<1>4. CASE ClaimBatch \/ MarkBatch \/ StartTrials
           \/ (\E t \in Trials : WriteRow(t)) \/ GroupReturns \/ RetainTrial
           \/ RetentionEnds \/ WriteOutput
  <2>1. /\ pc \in {"claim", "mark", "write"} \cup AfterLaunch
        /\ pc' \in {"mark", "settle"} \cup AfterLaunch
        /\ UNCHANGED <<batch, scripted>>
    BY <1>4 DEF ClaimBatch, MarkBatch, StartTrials, WriteRow, GroupReturns,
       RetainTrial, RetentionEnds, WriteOutput, Goes, memory, run, AfterLaunch
  <2>2. Mine = {batch} /\ Mine' = {batch'} /\ pc # "down"
    BY <2>1, MineByPlace DEF AfterLaunch
  <2>3. \A i \in JobIds : i # batch => jobs'[i] = jobs[i]
    BY <1>4, ClaimSets, LedgerAlone DEF Sets
  <2>. QED  BY <2>1, <2>2, <2>3, OpenMoves
<1>5. CASE CheckBatch
  <2>1. /\ pc = "check" /\ pc' \in {"write", "repair"}
        /\ UNCHANGED <<batch, jobs, scripted>>
    BY <1>5 DEF CheckBatch, AskRepair, Goes, memory, run
  <2>2. Mine = {batch} /\ Mine' = {batch'}
    BY <2>1, MineByPlace DEF AfterLaunch
  <2>. QED  BY <2>1, <2>2, OpenMoves
<1>6. CASE ReserveRepair
  <2>1. /\ pc = "repair" /\ pc' \in RepairPlaces
        /\ UNCHANGED <<batch, scripted>>
    BY <1>6 DEF ReserveRepair, Goes, run, RepairPlaces
  <2>2. Mine = {batch} /\ Mine' = {batch', repair'}
    BY <2>1, MineByPlace
  <2>3. \A i \in JobIds : i # repair' => jobs'[i] = jobs[i]
    BY <1>6, ReserveRepairSets DEF Sets
  <2>. QED  BY <2>1, <2>2, <2>3, OpenMoves
<1>7. CASE ClaimRepair \/ MarkRepair \/ UseCachedRepair \/ StartRepair
           \/ RepairReturns
  <2>1. /\ pc \in RepairPlaces /\ pc' \in RepairPlaces
        /\ UNCHANGED <<batch, repair, scripted>>
    BY <1>7 DEF ClaimRepair, MarkRepair, UseCachedRepair, StartRepair,
       RepairReturns, Goes, memory, run, RepairPlaces
  <2>2. Mine = {batch, repair} /\ Mine' = {batch', repair'} /\ pc # "down"
    BY <2>1, MineByPlace DEF RepairPlaces
  <2>3. \A i \in JobIds : i # repair => jobs'[i] = jobs[i]
    BY <1>7, ClaimSets, LedgerAlone DEF Sets
  <2>. QED  BY <2>1, <2>2, <2>3, OpenMoves
<1>8. CASE CopyRepair
  <2>1. CASE Dies
    BY <2>1, EndKeepsJobs
  <2>2. CASE pc' \in {"write", "repair"} /\ UNCHANGED batch
    <3>1. pc = "copy" /\ UNCHANGED scripted
      BY <1>8 DEF CopyRepair, run
    <3>2. Mine = {batch, repair} /\ Mine' = {batch'}
      BY <2>2, <3>1, MineByPlace DEF RepairPlaces
    <3>3. \A i \in JobIds : \/ i = repair /\ jobs'[i].status = "settled"
                            \/ i # repair /\ jobs'[i] = jobs[i]
      BY <1>8, Settlements DEF Sets
    <3>. QED  BY <2>2, <3>1, <3>2, <3>3, OpenMoves DEF ActiveStatuses
  <2>. QED  BY <1>8, <2>1, <2>2 DEF CopyRepair, AskRepair, Goes, memory
<1>9. CASE SettleBatch
  <2>1. pc = "settle" /\ pc' = "done" /\ UNCHANGED scripted
    BY <1>9 DEF SettleBatch, Goes, run
  <2>2. Mine = {batch}
    BY <2>1, MineByPlace
  <2>3. \A i \in JobIds : jobs'[i].status \in ActiveStatuses =>
                            i # batch /\ jobs[i].status \in ActiveStatuses
    BY <1>9, SettleBatchSets DEF ActiveStatuses
  <2>. QED  BY <2>1, <2>2, <2>3, OpenMoves
<1>10. CASE Restart("controller")
  <2>1. RecoverInterruptedJobs
    BY <1>10 DEF Restart
  <2>. QED  BY <2>1, RecoverySets DEF OpenIsMine
<1>11. CASE Restart("script")
  BY <1>11 DEF Restart, OpenIsMine
<1>12. CASE Finished \/ UNCHANGED vars
  BY <1>0, <1>12 DEF Finished, vars, run, memory, OpenIsMine, Mine
<1>. QED
  BY <1>1, <1>2, <1>3, <1>4, <1>5, <1>6, <1>7, <1>8, <1>9, <1>10, <1>11, <1>12,
     RolloutAssumption DEF Next, Step

-----------------------------------------------------------------------------
(* Units charged, against trials started.                                   *)
(* Sums and differences of counts.                                         *)
LEMMA Sums ==
  ASSUME NEW a \in Nat, NEW b \in Nat, NEW c \in Nat,
         NEW d \in Nat, NEW e \in Nat, NEW f \in Nat,
         a + b <= c, d + e - a - b <= f - c
  PROVE  d + e <= f
OBVIOUS

LEMMA Differences ==
  ASSUME NEW a \in Nat, NEW b \in Nat, NEW c \in Nat,
         NEW d \in Nat, NEW e \in Nat, NEW f \in Nat
  PROVE  /\ d = a /\ e <= b /\ c <= f => d + e - a - b <= f - c
         /\ d = a + 1 /\ e = 0 /\ b = 1 /\ c <= f => d + e - a - b <= f - c
         /\ d = a /\ e = 0 /\ c <= f + b => d + e - a - b <= f - c
         /\ c = f + b => c <= f + b
         /\ c <= f => c <= f + b
         /\ e = 0 => e <= b
OBVIOUS

LEMMA PaidMoves ==
  ASSUME BatchIInv, UNCHANGED scripted, opened' \in Nat,
         ~scripted => opened' + Unstarted' - opened - Unstarted
                        <= Created' - Created
  PROVE  StartsArePaid'
<1>1. /\ opened \in Nat /\ Created \in Nat /\ Created' \in Nat
      /\ Unstarted \in Nat /\ Unstarted' \in Nat
  BY Totals, Sizes DEF BatchIInv, RolloutTypeOK, Unstarted
<1>2. CASE scripted
  BY <1>2 DEF StartsArePaid
<1>3. CASE ~scripted
  <2>1. opened + Unstarted <= Created
    BY <1>3 DEF BatchIInv, StartsArePaid
  <2>2. opened' + Unstarted' - opened - Unstarted <= Created' - Created
    BY <1>3
  <2>3. opened' + Unstarted' <= Created'
    BY <1>1, <2>1, <2>2, Sums
  <2>. QED  BY <2>3 DEF StartsArePaid
<1>. QED  BY <1>2, <1>3

LEMMA CreatedOfMoves ==
  ASSUME BatchIInv, [Next]_vars, ~CorrectCharge
  PROVE  Created <= Created'
<1>1. CASE UNCHANGED jobs
  BY <1>1, CreatedStays
<1>2. CASE ReserveBatch \/ ReserveRepair
  <2>1. PICK j \in JobIds, n \in 1..MaxCount :
          Sets(j, "reserved", n) /\ jobs[j].status = "absent"
    <3>1. CASE ReserveBatch
      <4>1. jobs[batch'].status = "absent"
        BY <3>1 DEF ReserveBatch, Reserve
      <4>. QED  BY <3>1, <4>1, ReserveBatchSets, Sizes
    <3>2. CASE ReserveRepair
      <4>1. jobs[repair'].status = "absent"
        BY <3>2 DEF ReserveRepair, Reserve
      <4>. QED  BY <3>2, <4>1, ReserveRepairSets, Sizes
    <3>. QED  BY <1>2, <3>1, <3>2
  <2>. QED  BY <2>1, CreatedStays DEF Sets, SpentStatuses
<1>3. CASE ClaimBatch \/ MarkBatch \/ ClaimRepair \/ MarkRepair
  <2>1. PICK j \in JobIds :
          /\ jobs[j].status \in HeldStatuses
          /\ \E n, status : Sets(j, status, n)
    BY <1>3, ClaimSets DEF BatchIInv, JobsKnown, ClaimBatch, MarkBatch,
       ClaimRepair, MarkRepair, RepairPlaces, HeldStatuses
  <2>. QED  BY <2>1, CreatedStays DEF Sets, HeldStatuses, SpentStatuses
<1>4. CASE GroupFails \/ RepairIsBroken \/ RepairFails \/ CopyRepair
  <2>1. PICK j \in JobIds : Sets(j, "settled", jobs[j].count)
    BY <1>4, Settlements
  <2>. QED  BY <2>1, CreatedStays DEF Sets, SpentStatuses
<1>5. CASE SettleBatch
  BY <1>5, SettleBatchSets, CreatedStays DEF SpentStatuses
<1>6. CASE Restart("controller")
  <2>1. RecoverInterruptedJobs
    BY <1>6 DEF Restart
  <2>. QED  BY <2>1, RecoverySets, CreatedStays
<1>7. CASE GuardBlocks
  BY <1>7, GuardSets, CreatedStays DEF Sets, SpentStatuses
<1>. QED
  BY <1>1, <1>2, <1>3, <1>4, <1>5, <1>6, <1>7, LedgerAlone, RolloutAssumption
     DEF Next, Step, Finished

LEMMA StartsStayPaid ==
  ASSUME BatchIInv, [Next]_vars
  PROVE  StartsArePaid'
<1>0. /\ opened \in Nat /\ opened' \in Nat
      /\ Created \in Nat /\ Created' \in Nat
      /\ NumTrials \in Nat /\ Unstarted \in Nat /\ Unstarted' \in Nat
  BY FilesKeep, Totals, Sizes DEF BatchIInv, RolloutTypeOK, Unstarted
<1>00. JobsKnown
  BY DEF BatchIInv
<1>1. CASE StartTrials
  <2>1. /\ pending' \in SUBSET Trials /\ UNCHANGED <<jobs, scripted>>
        /\ opened' = opened + Cardinality(pending')
        /\ pc = "run" /\ pc' = "running"
    BY <1>1 DEF StartTrials, Goes, run
  <2>2. Cardinality(pending') \in Nat /\ Cardinality(pending') <= NumTrials
    BY <2>1, SomeTrials
  <2>3. Unstarted = NumTrials /\ Unstarted' = 0
    BY <2>1 DEF Unstarted
  <2>4. Created <= Created'
    BY <2>1, CreatedStays
  <2>. QED  BY <1>0, <2>1, <2>2, <2>3, <2>4, PaidMoves
<1>2. CASE StartRepair
  <2>1. /\ opened' = opened + 1 /\ UNCHANGED <<jobs, scripted>>
        /\ pc = "repair-run" /\ pc' = "repairing"
    BY <1>2 DEF StartRepair, Goes, run
  <2>2. Unstarted = 1 /\ Unstarted' = 0
    BY <2>1 DEF Unstarted
  <2>3. Created <= Created'
    BY <2>1, CreatedStays
  <2>4. opened' + Unstarted' - opened - Unstarted <= Created' - Created
    BY <1>0, <2>1, <2>2, <2>3, Differences
  <2>. QED  BY <1>0, <2>1, <2>4, PaidMoves
<1>3. CASE MarkBatch
  <2>1. /\ UNCHANGED <<opened, scripted>> /\ pc = "mark" /\ pc' = "run"
        /\ batch \in JobIds /\ jobs[batch].status = "launch_claimed"
        /\ Sets(batch, "launched", NumTrials)
    BY <1>00, <1>3, ClaimSets DEF MarkBatch, Goes, run, JobsKnown
  <2>2. Unstarted = 0 /\ Unstarted' = NumTrials /\ opened' = opened
    BY <2>1 DEF Unstarted
  <2>3. Created' = Created + NumTrials
    BY <2>1, CreatedGrows, Sizes DEF SpentStatuses
  <2>4. opened' + Unstarted' - opened - Unstarted <= Created' - Created
    BY <1>0, <2>2, <2>3
  <2>. QED  BY <1>0, <2>1, <2>4, PaidMoves
<1>4. CASE MarkRepair
  <2>1. /\ UNCHANGED <<opened, scripted>> /\ pc = "repair-mark"
        /\ pc' = "repair-run"
        /\ repair \in JobIds /\ jobs[repair].status = "launch_claimed"
        /\ Sets(repair, "launched", 1)
    BY <1>00, <1>4, ClaimSets DEF MarkRepair, Goes, run, JobsKnown, RepairPlaces
  <2>2. Unstarted = 0 /\ Unstarted' = 1 /\ opened' = opened
    BY <2>1 DEF Unstarted
  <2>3. Created' = Created + 1
    BY <2>1, CreatedGrows, Sizes DEF SpentStatuses
  <2>4. opened' + Unstarted' - opened - Unstarted <= Created' - Created
    BY <1>0, <2>2, <2>3
  <2>. QED  BY <1>0, <2>1, <2>4, PaidMoves
<1>5. CASE CorrectCharge
  <2>1. /\ UNCHANGED <<opened, scripted>> /\ pc = "correct" /\ pc' = "down"
    BY <1>5, DiesKeepsTypes DEF CorrectCharge, run
  <2>2. /\ Unstarted = NumTrials /\ Unstarted' = 0
        /\ opened' = opened
    BY <2>1 DEF Unstarted
  <2>3. Created = Created' + NumTrials
    BY <1>5, GuardSets, CreatedShrinks, Sizes DEF SpentStatuses
  <2>4. opened' + Unstarted' - opened - Unstarted <= Created' - Created
    BY <1>0, <2>2, <2>3, Differences
  <2>. QED  BY <1>0, <2>1, <2>4, PaidMoves
<1>6. CASE ReuseBatch
  <2>1. UNCHANGED <<scripted, opened, jobs>> /\ pc = "start"
    BY <1>6 DEF ReuseBatch, NothingRetained, run
  <2>2. scripted
    <3>1. \E j \in JobIds : jobs[j].status = "launched"
      BY <1>6 DEF ReuseBatch, LaunchedBatches
    <3>. QED  BY <2>1, <3>1, NothingOpenAtStart DEF NothingOpen, ActiveStatuses,
              BatchIInv, RolloutTypeOK
  <2>. QED  BY <2>1, <2>2 DEF StartsArePaid
<1>7. CASE \E by \in Restarters : Restart(by)
  <2>1. CASE Restart("script")
    BY <2>1 DEF Restart, StartsArePaid
  <2>2. CASE Restart("controller")
    <3>1. Created <= Created'
      BY <2>2, CreatedOfMoves, <1>7 DEF CorrectCharge, Restart
    <3>2. UNCHANGED opened /\ pc' = "start" /\ scripted' = scripted
      BY <2>2 DEF Restart, Goes, BatchIInv, RolloutTypeOK
    <3>3. Unstarted' = 0 /\ opened' = opened
      BY <3>2 DEF Unstarted
    <3>4. opened' + Unstarted' - opened - Unstarted <= Created' - Created
      BY <1>0, <3>1, <3>3, Differences
    <3>. QED  BY <1>0, <3>2, <3>4, PaidMoves
  <2>. QED  BY <1>7, <2>1, <2>2, RolloutAssumption
<1>8. CASE /\ UNCHANGED <<opened, scripted>> /\ ~CorrectCharge
           /\ \/ pc' = pc \/ pc' \notin {"run", "correct", "repair-run"}
              \/ pc = "run" /\ pc' = "correct"
  <2>1. Created <= Created'
    BY <1>8, CreatedOfMoves
  <2>2. Unstarted' <= Unstarted /\ opened' = opened
    BY <1>0, <1>8 DEF Unstarted
  <2>3. opened' + Unstarted' - opened - Unstarted <= Created' - Created
    BY <1>0, <2>1, <2>2, Differences
  <2>. QED  BY <1>0, <1>8, <2>3, PaidMoves
<1>9. ASSUME ~StartTrials, ~StartRepair, ~MarkBatch, ~MarkRepair,
             ~CorrectCharge, ~ReuseBatch, ~\E by \in Restarters : Restart(by)
      PROVE  /\ UNCHANGED <<opened, scripted>> /\ ~CorrectCharge
             /\ \/ pc' = pc \/ pc' \notin {"run", "correct", "repair-run"}
                \/ pc = "run" /\ pc' = "correct"
  BY <1>9
     DEF Next, Step, UseOutput, RecoverRetained, NewBatch, ReserveBatch,
     BatchRefused, ClaimBatch, WriteRow, GroupReturns, RetainTrial,
     RetentionEnds, CheckBatch, ReserveRepair, RepairRefused, ClaimRepair,
     UseCachedRepair, RepairReturns, RepairIsBroken, CopyRepair, WriteOutput,
     SettleBatch, GroupFails, GuardBlocks, RepairFails, Crash, Finished, vars,
     run, Mishap,
     Goes, Dies, AskRepair
<1>. QED  BY <1>1, <1>2, <1>3, <1>4, <1>5, <1>6, <1>7, <1>8, <1>9

-----------------------------------------------------------------------------
LEMMA BatchStarts == Init => BatchIInv
<1>. SUFFICES ASSUME Init PROVE BatchIInv
  OBVIOUS
<1>0. /\ LedgerInit /\ pc = "start" /\ batch = NoJob /\ repair = NoJob
      /\ target = 0 /\ seen = {} /\ pending = {} /\ native = None
      /\ retained = None /\ repaired = None /\ output = None
      /\ opened = 0 /\ mishaps = 0 /\ harness \in Harnesses /\ scripted = FALSE
  BY DEF Init
<1>1. RolloutTypeOK
  <2>1. TypeOK
    BY <1>0, NothingTakenInitially
  <2>2. None \in [Trials -> Rows] /\ None \in [Trials -> Files]
    BY DEF None, Rows, Files
  <2>3. mishaps \in 0..MaxMishaps
    BY <1>0, Sizes
  <2>. QED  BY <1>0, <2>1, <2>2, <2>3 DEF RolloutTypeOK
<1>2. \A j \in JobIds : jobs[j].status = "absent"
  BY <1>0 DEF LedgerInit, NoRecord
<1>3. JobsKnown
  BY <1>0 DEF JobsKnown, AfterLaunch, RepairPlaces
<1>4. BatchCounts /\ OneActiveAttempt
  <2>1. \A b \in Bases, n \in 1..MaxAttempts : jobs[<<b, n>>].status = "absent"
    BY <1>2 DEF JobIds
  <2>. QED  BY <2>1, Sizes DEF BatchCounts, OneActiveAttempt, ActiveStatuses
<1>5. OpenIsMine
  BY <1>2 DEF OpenIsMine, ActiveStatuses
<1>6. DiskKnown /\ OnlyBrokenRepaired /\ OutputIsAdmissible
  BY <1>0 DEF DiskKnown, RepairPlaces, OnlyBrokenRepaired, OutputIsAdmissible
<1>7. StartsArePaid
  <2>1. opened = 0 /\ Unstarted = 0 /\ Created = 0
    BY <1>0, NothingTakenInitially DEF Unstarted
  <2>. QED  BY <2>1 DEF StartsArePaid
<1>. QED  BY <1>1, <1>3, <1>4, <1>5, <1>6, <1>7 DEF BatchIInv

LEMMA BatchSteps == BatchIInv /\ [Next]_vars => BatchIInv'
BY TypesKeep, JobsStayKnown, LedgerKeeps, OpenStaysMine, DiskKeeps,
   StartsStayPaid DEF BatchIInv, LedgerOK, DiskOK

LEMMA BatchHolds == Spec => []BatchIInv
BY BatchStarts, BatchSteps, PTL DEF Spec

(* Every step is one call of a method of the ledger, or none.               *)
LEMMA BatchLedgerStep == BatchIInv /\ [Next]_vars => [LedgerNext]_jobs
<1>. SUFFICES ASSUME BatchIInv, [Next]_vars PROVE [LedgerNext]_jobs
  OBVIOUS
<1>0. JobsKnown /\ TypeOK
  BY DEF BatchIInv, RolloutTypeOK
<1>1. CASE UNCHANGED jobs
  BY <1>1
<1>2. CASE ReserveBatch
  <2>1. /\ NextAttempt("rollout") \in JobIds
        /\ Reserve(NextAttempt("rollout"), NumTrials)
    BY <1>2 DEF ReserveBatch, CanReserve
  <2>. QED  BY <2>1, Sizes DEF LedgerNext
<1>3. CASE ReserveRepair
  <2>1. NextAttempt("repair") \in JobIds /\ Reserve(NextAttempt("repair"), 1)
    BY <1>3 DEF ReserveRepair, CanRepair, CanReserve
  <2>. QED  BY <2>1, Sizes DEF LedgerNext
<1>4. CASE ClaimBatch \/ MarkBatch \/ CorrectCharge
  <2>1. batch \in JobIds
    BY <1>0, <1>4 DEF ClaimBatch, MarkBatch, CorrectCharge, JobsKnown
  <2>. QED
    BY <1>4, <2>1 DEF ClaimBatch, MarkBatch, CorrectCharge, LedgerNext
<1>5. CASE ClaimRepair \/ MarkRepair
  <2>1. repair \in JobIds
    BY <1>0, <1>5 DEF ClaimRepair, MarkRepair, JobsKnown, RepairPlaces
  <2>. QED  BY <1>5, <2>1 DEF ClaimRepair, MarkRepair, LedgerNext
<1>6. CASE GroupFails \/ GuardBlocks
  <2>1. batch \in JobIds /\ Settle(batch, "failed")
    BY <1>6, Settlements, GuardSets DEF GroupFails, GuardBlocks
  <2>. QED  BY <2>1 DEF LedgerNext
<1>7. CASE RepairIsBroken \/ RepairFails \/ CopyRepair
  <2>1. /\ repair \in JobIds
        /\ \E o \in {"completed", "failed"} : Settle(repair, o)
    BY <1>7, Settlements DEF RepairIsBroken, RepairFails, CopyRepair
  <2>. QED  BY <2>1 DEF LedgerNext
<1>8. CASE SettleBatch
  <2>. DEFINE closed == IF batch = NoJob THEN LaunchedBatches ELSE {batch}
  <2>1. closed \subseteq JobIds
        /\ \A j \in closed : jobs[j].status = "launched"
    BY <1>0, <1>8 DEF SettleBatch, JobsKnown, LaunchedBatches
  <2>2. \A i, j \in closed : i = j
    <3>1. \A j \in LaunchedBatches :
            /\ j = <<"rollout", j[2]>> /\ j[2] \in 1..MaxAttempts
            /\ jobs[j].status \in ActiveStatuses
      BY DEF LaunchedBatches, JobIds, ActiveStatuses
    <3>2. \A i, j \in LaunchedBatches : i[2] = j[2]
      BY <3>1, Sizes DEF BatchIInv, OneActiveAttempt
    <3>. QED  BY <3>1, <3>2
  <2>3. jobs' = [j \in JobIds |->
                   IF j \in closed
                     THEN [jobs[j] EXCEPT !.status = "settled",
                                          !.outcome = "completed"]
                     ELSE jobs[j]]
    BY <1>8 DEF SettleBatch
  <2>. HIDE DEF closed
  <2>4. CASE closed = {}
    BY <1>0, <2>3, <2>4 DEF TypeOK
  <2>5. ASSUME NEW j \in closed PROVE LedgerNext
    <3>1. closed = {j} /\ j \in JobIds /\ jobs[j].status = "launched"
      BY <2>1, <2>2
    <3>2. jobs' = [jobs EXCEPT ![j].status = "settled",
                               ![j].outcome = "completed"]
      BY <1>0, <2>3, <3>1 DEF TypeOK, Record
    <3>3. Settle(j, "completed")
      BY <3>1, <3>2 DEF Settle, Transition
    <3>. QED  BY <3>1, <3>3 DEF LedgerNext
  <2>. QED  BY <2>4, <2>5
<1>9. CASE Restart("controller")
  BY <1>9 DEF Restart, LedgerNext
<1>. QED
  BY <1>1, <1>2, <1>3, <1>4, <1>5, <1>6, <1>7, <1>8, <1>9, LedgerAlone,
     RolloutAssumption DEF Next, Step, Finished

(* A rollout, its repairs and its restarts use the ledger by its methods    *)
(* alone, one at a time: what is proved of any sequence of calls holds of   *)
(* theirs.                                                                  *)
THEOREM RolloutUsesLedger == Spec => LedgerSpec
<1>1. Init => LedgerInit
  BY DEF Init
<1>. QED  BY <1>1, BatchHolds, BatchLedgerStep, PTL DEF Spec, LedgerSpec

(* The hard limit of docs/configuration_zh.md, whatever a batch, its        *)
(* repairs, their failures and their restarts ask of the ledger.            *)
THEOREM RolloutNeverOverspends == Spec => []BudgetNeverExceeded
BY RolloutUsesLedger, NeverOverspends, PTL

(* A batch keeps its types; never has two active jobs, repairs nothing but  *)
(* a broken trace and, when run_version returns, has left no job open: for  *)
(* every number of trials, budget, and number of crashes and faults.        *)
THEOREM BatchIsSound == Spec => []RolloutInv
<1>1. BatchIInv => RolloutInv
  <2>. SUFFICES ASSUME BatchIInv PROVE ClosedWithOutput
    BY DEF RolloutInv, BatchIInv
  <2>. QED
    BY NothingOpenAtStart DEF ClosedWithOutput, NothingOpen
<1>. QED  BY <1>1, BatchHolds, PTL

(* While no script starts the rollout again, every trial and every repair   *)
(* that was started is charged: reserve, claim and mark come before it, and *)
(* the guard's correction comes only instead of it.                         *)
THEOREM StartsAreCharged == Spec => []EveryTrialCharged
<1>1. BatchIInv => EveryTrialCharged
  <2>. SUFFICES ASSUME BatchIInv, ~scripted
                PROVE  opened <= Created + Reserved
    BY DEF EveryTrialCharged
  <2>1. /\ opened \in Nat /\ Unstarted \in Nat /\ Created \in Nat
        /\ Reserved \in Nat
    BY Totals, Sizes DEF BatchIInv, RolloutTypeOK, Unstarted
  <2>2. opened + Unstarted <= Created
    BY DEF BatchIInv, StartsArePaid
  <2>. QED  BY <2>1, <2>2
<1>. QED  BY <1>1, BatchHolds, PTL

(* A result file, once written, is the retained evidence, whole and with    *)
(* complete traces unless the batch is invalid, through every restart.      *)
THEOREM ResultsAreAdmissible == Spec => []OutputIsAdmissible
BY BatchHolds, PTL DEF BatchIInv

(* No retention, repair, recovery or torn write replaces a good trajectory. *)
THEOREM EvidenceStays == Spec => GoodTrialsKept
<1>. DEFINE Kept == \A t \in Trials : retained[t] = "good" =>
                                        retained'[t] = "good"
<1>1. BatchIInv /\ [Next]_vars => Kept
  <2>. SUFFICES ASSUME BatchIInv, [Next]_vars PROVE Kept
    OBVIOUS
  <2>0. retained \in [Trials -> Files]
    BY DEF BatchIInv, RolloutTypeOK
  <2>1. CASE UNCHANGED retained
    BY <2>1
  <2>2. CASE \E k \in Trials :
              /\ retained[k] # "good"
              /\ \E f : retained' = [retained EXCEPT ![k] = f]
    BY <2>0, <2>2
  <2>3. CASE RetainTrial
    <3>1. Min(Unretained) \in Unretained
      BY <2>3, LeastIsThere DEF RetainTrial, Unretained
    <3>. QED  BY <2>2, <2>3, <3>1 DEF RetainTrial, Unretained
  <2>4. CASE CopyRepair
    <3>1. target \in Trials /\ retained[target] = "broken"
      BY <2>4 DEF CopyRepair, BatchIInv, DiskKnown, OnlyBrokenRepaired,
         RepairPlaces
    <3>. QED  BY <2>2, <2>4, <3>1 DEF CopyRepair
  <2>5. CASE Crash
    <3>1. pc = "copy" => target \in Trials /\ retained[target] = "broken"
      BY DEF BatchIInv, DiskKnown, OnlyBrokenRepaired, RepairPlaces
    <3>2. Unretained # {} => Min(Unretained) \in Unretained
      BY LeastIsThere DEF Unretained
    <3>. QED  BY <2>1, <2>2, <2>5, <3>1, <3>2 DEF Crash, Unretained
  <2>. QED
    BY <2>1, <2>3, <2>4, <2>5
       DEF Next, Step, UseOutput, RecoverRetained, NewBatch, ReuseBatch,
       ReserveBatch, BatchRefused, ClaimBatch, MarkBatch, StartTrials, WriteRow,
       GroupReturns, RetentionEnds, CheckBatch, ReserveRepair, RepairRefused,
       ClaimRepair, MarkRepair, UseCachedRepair, StartRepair, RepairReturns,
       RepairIsBroken, WriteOutput, SettleBatch, Restart, GroupFails,
       GuardBlocks, CorrectCharge, RepairFails, Finished, vars, disk
<1>2. BatchIInv /\ [Next]_vars => [Kept]_vars
  BY <1>1
<1>. QED  BY <1>2, BatchHolds, PTL DEF Spec, GoodTrialsKept

-----------------------------------------------------------------------------
(* What is evidence of the label.  A finished repair is a whole trace or a  *)
(* worker failure, and one that is copied has finished.                     *)
RepairsKnown ==
  /\ \A t \in Trials : repaired[t] \in {"missing", "good", "infra"}
  /\ pc = "copy" => repaired[target] # "missing"

LEMMA RepairsStayKnown ==
  BatchIInv /\ RepairsKnown /\ [Next]_vars => RepairsKnown'
<1>. SUFFICES ASSUME BatchIInv, RepairsKnown, [Next]_vars
              PROVE  RepairsKnown'
  OBVIOUS
<1>1. CASE RepairReturns
  <2>1. /\ target \in Trials /\ pc' = "copy" /\ UNCHANGED target
        /\ repaired \in [Trials -> Rows]
    BY <1>1 DEF RepairReturns, Goes, memory, BatchIInv, DiskKnown, RepairPlaces,
       RolloutTypeOK
  <2>2. PICK k \in TrialKinds \ {"broken"} :
          repaired' = [repaired EXCEPT ![target] = k]
    BY <1>1 DEF RepairReturns
  <2>3. k \in {"good", "infra"}
    BY RolloutAssumption
  <2>. QED  BY <2>1, <2>2, <2>3 DEF RepairsKnown
<1>2. CASE UseCachedRepair
  BY <1>2 DEF UseCachedRepair, memory, disk, RepairsKnown
<1>3. CASE UNCHANGED <<repaired, pc, target>>
  BY <1>3 DEF RepairsKnown
<1>4. CASE UNCHANGED repaired /\ pc' # "copy"
  BY <1>4 DEF RepairsKnown
<1>. QED
  BY <1>1, <1>2, <1>3, <1>4
     DEF Next, Step, UseOutput, RecoverRetained, NewBatch, ReuseBatch,
     ReserveBatch, BatchRefused, ClaimBatch, MarkBatch, StartTrials, WriteRow,
     GroupReturns, RetainTrial, RetentionEnds, CheckBatch, ReserveRepair,
     RepairRefused, ClaimRepair, MarkRepair, StartRepair, RepairIsBroken,
     CopyRepair, WriteOutput, SettleBatch, CorrectCharge, Restart, GroupFails,
     GuardBlocks, RepairFails, Crash, Finished, vars, disk, memory, Goes, Dies,
     AskRepair

(* The steps that write evidence, or the result file, are steps of the      *)
(* abstract label.                                                          *)
LEMMA EvidenceStep ==
  BatchIInv /\ RepairsKnown /\ [Next]_vars
    => [Evidence!Next]_<<retained, output>>
<1>. SUFFICES ASSUME BatchIInv, RepairsKnown, [Next]_vars
              PROVE  Evidence!Next \/ UNCHANGED <<retained, output>>
  OBVIOUS
<1>0. /\ DiskKnown /\ retained \in [Trials -> Files]
      /\ native \in [Trials -> Rows] /\ None = Evidence!Nothing
  BY DEF BatchIInv, RolloutTypeOK, None, Evidence!Nothing
<1>1. ASSUME NEW t \in Trials, UNCHANGED output, output = None,
             Evidence!Retain(t) \/ Evidence!Repair(t) \/ Evidence!Tear(t)
      PROVE  Evidence!Next
  BY <1>0, <1>1 DEF Evidence!Next, Evidence!Gather
<1>2. CASE RetainTrial
  <2>1. Min(Unretained) \in Unretained
    BY <1>2, LeastIsThere DEF RetainTrial, Unretained
  <2>2. /\ pc = "retain" /\ UNCHANGED output
        /\ retained' = [retained EXCEPT ![Min(Unretained)] =
                                           native[Min(Unretained)]]
    BY <1>2 DEF RetainTrial
  <2>3. /\ Min(Unretained) \in Trials
        /\ retained[Min(Unretained)] = "missing"
        /\ native[Min(Unretained)] \in {"good", "broken", "infra"}
    BY <1>0, <2>1, <2>2 DEF Unretained, DiskKnown, Rows
  <2>4. output = None
    BY <1>0, <2>2 DEF DiskKnown
  <2>5. Evidence!Retain(Min(Unretained))
    BY <2>2, <2>3 DEF Evidence!Retain, Evidence!Put
  <2>. QED  BY <1>1, <2>2, <2>3, <2>4, <2>5
<1>3. ASSUME pc = "copy"
      PROVE  /\ target \in Trials /\ retained[target] = "broken"
             /\ repaired[target] \in {"good", "infra"} /\ output = None
  BY <1>0, <1>3 DEF DiskKnown, RepairPlaces, RepairsKnown, BatchIInv,
     OnlyBrokenRepaired
<1>4. CASE CopyRepair
  <2>1. /\ pc = "copy" /\ UNCHANGED output
        /\ retained' = [retained EXCEPT ![target] = repaired[target]]
    BY <1>4 DEF CopyRepair
  <2>2. Evidence!Repair(target)
    BY <1>3, <2>1 DEF Evidence!Repair, Evidence!Put
  <2>. QED  BY <1>1, <1>3, <2>1, <2>2
<1>5. CASE Crash
  <2>1. UNCHANGED output
    BY <1>5 DEF Crash
  <2>2. CASE UNCHANGED retained
    BY <2>1, <2>2
  <2>3. CASE /\ pc = "retain" /\ Unretained # {}
             /\ retained' = [retained EXCEPT ![Min(Unretained)] = "torn"]
    <3>1. Min(Unretained) \in Unretained
      BY <2>3, LeastIsThere DEF Unretained
    <3>2. Evidence!Tear(Min(Unretained)) /\ Min(Unretained) \in Trials
      BY <2>3, <3>1 DEF Unretained, Evidence!Tear, Evidence!Put
    <3>3. output = None
      BY <1>0, <2>3 DEF DiskKnown
    <3>. QED  BY <1>1, <2>1, <3>2, <3>3
  <2>4. CASE /\ pc = "copy"
             /\ \E f \in {"torn", repaired[target]} :
                  retained' = [retained EXCEPT ![target] = f]
    <3>1. Evidence!Tear(target) \/ Evidence!Repair(target)
      BY <1>3, <2>4 DEF Evidence!Tear, Evidence!Repair, Evidence!Put
    <3>. QED  BY <1>1, <1>3, <2>1, <2>4, <3>1
  <2>. QED  BY <1>5, <2>2, <2>3, <2>4 DEF Crash
<1>6. CASE WriteOutput
  <2>1. pc = "write" /\ output' = retained /\ UNCHANGED retained
    BY <1>6 DEF WriteOutput
  <2>2. /\ output = None /\ Readable(retained)
        /\ (\E t \in Trials : retained[t] = "broken")
             => Infrastructure(retained) # {}
    BY <1>0, <2>1 DEF DiskKnown
  <2>. QED
    BY <1>0, <2>1, <2>2 DEF Evidence!Next, Evidence!Publish, Readable,
       Infrastructure
<1>. QED
  BY <1>2, <1>4, <1>5, <1>6
     DEF Next, Step, UseOutput, RecoverRetained, NewBatch, ReuseBatch,
     ReserveBatch, BatchRefused, ClaimBatch, MarkBatch, StartTrials, WriteRow,
     GroupReturns, RetentionEnds, CheckBatch, ReserveRepair, RepairRefused,
     ClaimRepair, MarkRepair, UseCachedRepair, StartRepair, RepairReturns,
     RepairIsBroken, SettleBatch, CorrectCharge, Restart, GroupFails,
     GuardBlocks, RepairFails, Finished, vars, disk

(* Over all calls of run_version, their repairs, crashes and restarts, the  *)
(* trials of a label are kept as TrialEvidence says, for every number of    *)
(* trials and whatever fails: retained once, repaired only when broken,     *)
(* published once and final then.                                           *)
THEOREM RolloutKeepsEvidence == Spec => ImplementsEvidence
<1>1. Init => RepairsKnown /\ Evidence!Init
  BY DEF Init, RepairsKnown, None, Evidence!Init, Evidence!Nothing
<1>2. Init /\ [][Next]_vars => []RepairsKnown
  BY <1>1, BatchStarts, BatchSteps, RepairsStayKnown, PTL
<1>. QED
  BY <1>1, <1>2, BatchHolds, EvidenceStep, PTL
     DEF Spec, ImplementsEvidence, Evidence!Spec
=============================================================================
