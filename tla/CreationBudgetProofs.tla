------------------------ MODULE CreationBudgetProofs ------------------------
(* The ledger's properties for every set of jobs, every total and every     *)
(* job size.  Units are counted as the cardinality of a set of <<job, n>>   *)
(* pairs, so that what a method does to the totals follows from what it     *)
(* does to that set.                                                        *)
EXTENDS CreationBudget, FiniteSetTheorems, TLAPS

(* Units as a function of the jobs mapping, to speak of two states at once. *)
UnitsOf(f, statuses) ==
  {u \in JobIds \X (1..MaxCount) :
     f[u[1]].status \in statuses /\ u[2] <= f[u[1]].count}

TakenStatuses == HeldStatuses \cup SpentStatuses

LEMMA JobIdsFinite == IsFiniteSet(JobIds)
<1>1. IsFiniteSet(1..MaxAttempts)
  BY BudgetAssumption, FS_Interval
<1>. QED  BY <1>1, BudgetAssumption, FS_Product DEF JobIds

LEMMA UnitsFinite ==
  ASSUME NEW f, NEW s
  PROVE  /\ IsFiniteSet(UnitsOf(f, s))
         /\ Cardinality(UnitsOf(f, s)) \in Nat
<1>1. IsFiniteSet(1..MaxCount)
  BY BudgetAssumption, FS_Interval
<1>2. IsFiniteSet(JobIds \X (1..MaxCount))
  BY <1>1, JobIdsFinite, FS_Product
<1>3. UnitsOf(f, s) \in SUBSET (JobIds \X (1..MaxCount))
  BY DEF UnitsOf
<1>4. IsFiniteSet(UnitsOf(f, s))
  BY <1>2, <1>3, FS_Subset
<1>. QED  BY <1>4, FS_CardinalityType

(* Fewer units, smaller count.                                              *)
LEMMA UnitsMonotone ==
  ASSUME NEW f, NEW s, NEW g, NEW t, UnitsOf(f, s) \subseteq UnitsOf(g, t)
  PROVE  Cardinality(UnitsOf(f, s)) <= Cardinality(UnitsOf(g, t))
BY UnitsFinite, FS_Subset

(* A unit is never held and spent at once, so the two counts add up.        *)
LEMMA HeldPlusSpent ==
  ASSUME NEW f
  PROVE  Cardinality(UnitsOf(f, TakenStatuses)) =
           Cardinality(UnitsOf(f, HeldStatuses))
             + Cardinality(UnitsOf(f, SpentStatuses))
<1>. DEFINE H == UnitsOf(f, HeldStatuses)
            S == UnitsOf(f, SpentStatuses)
<1>1. UnitsOf(f, TakenStatuses) = H \cup S
  BY DEF UnitsOf, TakenStatuses
<1>2. H \cap S = {}
  BY DEF UnitsOf, HeldStatuses, SpentStatuses
<1>3. IsFiniteSet(H) /\ IsFiniteSet(S)
        /\ Cardinality(H) \in Nat /\ Cardinality(S) \in Nat
  BY UnitsFinite
<1>4. Cardinality(H \cup S)
        = Cardinality(H) + Cardinality(S) - Cardinality(H \cap S)
  BY <1>3, FS_Union
<1>5. Cardinality(H \cap S) = 0
  BY <1>2, FS_EmptySet
<1>. QED  BY <1>1, <1>3, <1>4, <1>5

(* From f to g, job j comes to have n units with a status in s.             *)
AddsUnits(f, g, j, n, s) ==
  /\ f[j].status \notin s
  /\ g[j].status \in s
  /\ g[j].count = n
  /\ \A i \in JobIds \ {j} : g[i] = f[i]

(* A new record of n units adds n units to the sets its status is in.       *)
LEMMA NewRecordUnits ==
  ASSUME NEW f, NEW g, NEW j \in JobIds, NEW n \in 1..MaxCount, NEW s,
         AddsUnits(f, g, j, n, s)
  PROVE  Cardinality(UnitsOf(g, s)) = Cardinality(UnitsOf(f, s)) + n
<1>. DEFINE New == {j} \X (1..n)
<1>. USE DEF AddsUnits
<1>1. n \in Nat /\ n >= 1 /\ n <= MaxCount /\ MaxCount \in Nat
  BY BudgetAssumption
<1>2. UnitsOf(g, s) = UnitsOf(f, s) \cup New
  <2>2. ASSUME NEW u \in JobIds \X (1..MaxCount)
        PROVE  u \in UnitsOf(g, s) <=> u \in UnitsOf(f, s) \cup New
    <3>1. u[1] \in JobIds /\ u[2] \in 1..MaxCount /\ u = <<u[1], u[2]>>
      OBVIOUS
    <3>2. CASE u[1] = j
      <4>1. u \in UnitsOf(g, s) <=> u[2] <= n
        BY <3>1, <3>2 DEF UnitsOf
      <4>2. u \notin UnitsOf(f, s)
        BY <3>2 DEF UnitsOf
      <4>3. u \in New <=> u[2] <= n
        BY <1>1, <3>1, <3>2
      <4>. QED  BY <4>1, <4>2, <4>3
    <3>3. CASE u[1] # j
      <4>1. u \notin New
        BY <3>1, <3>3
      <4>. QED  BY <3>1, <3>3, <4>1 DEF UnitsOf
    <3>. QED  BY <3>2, <3>3
  <2>3. New \subseteq JobIds \X (1..MaxCount)
    BY <1>1
  <2>. QED  BY <2>2, <2>3 DEF UnitsOf
<1>3. UnitsOf(f, s) \cap New = {}
  BY DEF UnitsOf
<1>4. IsFiniteSet(New) /\ Cardinality(New) = n
  <2>1. IsFiniteSet({j}) /\ Cardinality({j}) = 1
    BY FS_Singleton
  <2>2. IsFiniteSet(1..n) /\ Cardinality(1..n) = n
    BY <1>1, FS_Interval
  <2>3. /\ IsFiniteSet(New)
        /\ Cardinality(New) = Cardinality({j}) * Cardinality(1..n)
    BY <2>1, <2>2, FS_Product
  <2>. QED  BY <1>1, <2>1, <2>2, <2>3
<1>5. IsFiniteSet(UnitsOf(f, s)) /\ Cardinality(UnitsOf(f, s)) \in Nat
  BY UnitsFinite
<1>6. Cardinality(UnitsOf(f, s) \cup New)
        = Cardinality(UnitsOf(f, s)) + Cardinality(New)
            - Cardinality(UnitsOf(f, s) \cap New)
  BY <1>4, <1>5, FS_Union
<1>7. Cardinality(UnitsOf(f, s) \cap New) = 0
  BY <1>3, FS_EmptySet
<1>8. Cardinality(UnitsOf(g, s)) = Cardinality(UnitsOf(f, s) \cup New)
  BY <1>2
<1>9. Cardinality(UnitsOf(f, s) \cup New) = Cardinality(UnitsOf(f, s)) + n
  <2>. HIDE DEF New
  <2>. QED  BY <1>1, <1>4, <1>5, <1>6, <1>7
<1>. QED  BY <1>8, <1>9

-----------------------------------------------------------------------------
(* The record of every job keeps its shape, whatever method is called.      *)
LEMMA TypeStep == TypeOK /\ [LedgerNext]_jobs => TypeOK'
<1>. SUFFICES ASSUME TypeOK, [LedgerNext]_jobs PROVE TypeOK'
  OBVIOUS
<1>. USE DEF TypeOK, Record, Statuses, HeldStatuses, SpentStatuses, Outcomes
<1>1. ASSUME NEW j \in JobIds, NEW n \in 1..MaxCount, Reserve(j, n)
      PROVE  TypeOK'
  <2>. DEFINE r == [status |-> "reserved", count |-> n,
                    outcome |-> "none", imported |-> FALSE]
  <2>1. n \in 0..MaxCount
    BY BudgetAssumption
  <2>2. r \in Record
    BY <2>1
  <2>3. jobs' = [jobs EXCEPT ![j] = r]
    BY <1>1 DEF Reserve
  <2>. QED  BY <2>2, <2>3
<1>2. ASSUME NEW j \in JobIds, NEW n \in 1..MaxCount, ImportSettledUsage(j, n)
      PROVE  TypeOK'
  <2>. DEFINE r == [status |-> "settled", count |-> n,
                    outcome |-> "reused", imported |-> TRUE]
  <2>1. n \in 0..MaxCount
    BY BudgetAssumption
  <2>2. r \in Record
    BY <2>1
  <2>3. jobs' = [jobs EXCEPT ![j] = r] \/ jobs' = jobs
    BY <1>2 DEF ImportSettledUsage
  <2>. QED  BY <2>2, <2>3
<1>3. ASSUME NEW j \in JobIds, ClaimLaunch(j)
      PROVE  TypeOK'
  BY <1>3 DEF ClaimLaunch, Transition
<1>4. ASSUME NEW j \in JobIds, MarkLaunched(j)
      PROVE  TypeOK'
  BY <1>4 DEF MarkLaunched, Transition
<1>5. ASSUME NEW j \in JobIds, RefundBeforeLaunch(j)
      PROVE  TypeOK'
  BY <1>5 DEF RefundBeforeLaunch, Transition
<1>6. ASSUME NEW j \in JobIds, NEW o \in {"completed", "failed"}, Settle(j, o)
      PROVE  TypeOK'
  BY <1>6 DEF Settle, Transition
<1>7. ASSUME NEW j \in JobIds, CorrectPrelaunchFailure(j)
      PROVE  TypeOK'
  BY <1>7 DEF CorrectPrelaunchFailure
<1>8. ASSUME NEW j \in JobIds, CorrectInvalidatedJob(j)
      PROVE  TypeOK'
  BY <1>8 DEF CorrectInvalidatedJob
<1>9. ASSUME RecoverInterruptedJobs
      PROVE  TypeOK'
  <2>1. \A r \in Record : Recovered(r) \in Record
    BY DEF Recovered
  <2>. QED  BY <1>9, <2>1 DEF RecoverInterruptedJobs
<1>10. CASE UNCHANGED jobs
  BY <1>10
<1>. QED  BY <1>1, <1>2, <1>3, <1>4, <1>5, <1>6, <1>7, <1>8, <1>9, <1>10
          DEF LedgerNext

(* The ledger's records keep their shape (budget.py, _read and _status).    *)
THEOREM TypeCorrect == LedgerSpec => []TypeOK
<1>1. LedgerInit => TypeOK
  BY BudgetAssumption
     DEF LedgerInit, TypeOK, Record, NoRecord, Statuses, Outcomes
<1>. QED  BY <1>1, TypeStep, PTL DEF LedgerSpec

-----------------------------------------------------------------------------
(* What the methods other than reserve, import and the corrections do: no   *)
(* unit is newly held, no spent unit comes back, no unit is newly taken.    *)
MovesUnits(f, g) ==
  \A i \in JobIds :
    /\ g[i].count = f[i].count
    /\ g[i].status \in HeldStatuses => f[i].status \in HeldStatuses
    /\ f[i].status \in SpentStatuses => g[i].status \in SpentStatuses
    /\ g[i].status \in TakenStatuses => f[i].status \in TakenStatuses

LEMMA MovesCount ==
  ASSUME NEW f, NEW g, MovesUnits(f, g)
  PROVE  /\ Cardinality(UnitsOf(g, HeldStatuses))
              <= Cardinality(UnitsOf(f, HeldStatuses))
         /\ Cardinality(UnitsOf(f, SpentStatuses))
              <= Cardinality(UnitsOf(g, SpentStatuses))
         /\ Cardinality(UnitsOf(g, TakenStatuses))
              <= Cardinality(UnitsOf(f, TakenStatuses))
<1>1. UnitsOf(g, HeldStatuses) \subseteq UnitsOf(f, HeldStatuses)
  BY DEF MovesUnits, UnitsOf
<1>2. UnitsOf(f, SpentStatuses) \subseteq UnitsOf(g, SpentStatuses)
  BY DEF MovesUnits, UnitsOf
<1>3. UnitsOf(g, TakenStatuses) \subseteq UnitsOf(f, TakenStatuses)
  BY DEF MovesUnits, UnitsOf
<1>. QED  BY <1>1, <1>2, <1>3, UnitsMonotone

(* _transition changes the status of one job, never its size.               *)
LEMMA TransitionFields ==
  ASSUME TypeOK, NEW j \in JobIds, NEW allowed, NEW target, NEW o,
         Transition(j, allowed, target, o)
  PROVE  \A i \in JobIds :
           /\ jobs'[i].count = jobs[i].count
           /\ \/ jobs'[i].status = jobs[i].status
              \/ /\ jobs[i].status \in allowed
                 /\ jobs'[i].status = target
<1>1. CASE UNCHANGED jobs
  BY <1>1
<1>2. CASE /\ jobs[j].status \in allowed
           /\ jobs' = [jobs EXCEPT ![j].status = target, ![j].outcome = o]
  <2>1. \A i \in JobIds \ {j} : jobs'[i] = jobs[i]
    BY <1>2 DEF TypeOK
  <2>2. jobs'[j] = [jobs[j] EXCEPT !.status = target, !.outcome = o]
    BY <1>2 DEF TypeOK
  <2>3. jobs'[j].count = jobs[j].count /\ jobs'[j].status = target
    BY <2>2 DEF TypeOK, Record
  <2>. QED  BY <1>2, <2>1, <2>3
<1>. QED  BY <1>1, <1>2 DEF Transition

LEMMA MethodsThatMove ==
  ASSUME TypeOK,
         \/ \E j \in JobIds : \/ ClaimLaunch(j)
                              \/ MarkLaunched(j)
                              \/ RefundBeforeLaunch(j)
                              \/ \E o \in Outcomes : Settle(j, o)
         \/ RecoverInterruptedJobs
         \/ UNCHANGED jobs
  PROVE  MovesUnits(jobs, jobs')
<1>. USE DEF TypeOK, MovesUnits, TakenStatuses, HeldStatuses, SpentStatuses
<1>1. ASSUME NEW j \in JobIds, ClaimLaunch(j)
      PROVE  MovesUnits(jobs, jobs')
  BY <1>1, TransitionFields DEF ClaimLaunch
<1>2. ASSUME NEW j \in JobIds, MarkLaunched(j)
      PROVE  MovesUnits(jobs, jobs')
  BY <1>2, TransitionFields DEF MarkLaunched
<1>3. ASSUME NEW j \in JobIds, RefundBeforeLaunch(j)
      PROVE  MovesUnits(jobs, jobs')
  BY <1>3, TransitionFields DEF RefundBeforeLaunch
<1>4. ASSUME NEW j \in JobIds, NEW o \in Outcomes, Settle(j, o)
      PROVE  MovesUnits(jobs, jobs')
  BY <1>4, TransitionFields DEF Settle
<1>5. ASSUME RecoverInterruptedJobs
      PROVE  MovesUnits(jobs, jobs')
  <2>1. \A i \in JobIds : jobs[i] \in Record /\ jobs'[i] = Recovered(jobs[i])
    BY <1>5 DEF RecoverInterruptedJobs
  <2>2. ASSUME NEW r \in Record
        PROVE  /\ Recovered(r).count = r.count
               /\ Recovered(r).status =
                    IF r.status = "reserved" THEN "refunded_before_launch"
                    ELSE IF r.status \in {"launch_claimed", "launched"}
                           THEN "settled" ELSE r.status
    BY DEF Recovered, Record
  <2>. QED  BY <2>1, <2>2
<1>6. CASE UNCHANGED jobs
  BY <1>6
<1>. QED  BY <1>1, <1>2, <1>3, <1>4, <1>5, <1>6

(* The totals of _status before and after a step.                           *)
LEMMA Totals ==
  /\ Reserved = Cardinality(UnitsOf(jobs, HeldStatuses))
  /\ Created = Cardinality(UnitsOf(jobs, SpentStatuses))
  /\ Reserved' = Cardinality(UnitsOf(jobs', HeldStatuses))
  /\ Created' = Cardinality(UnitsOf(jobs', SpentStatuses))
  /\ Reserved \in Nat /\ Created \in Nat
  /\ Reserved' \in Nat /\ Created' \in Nat
<1>1. /\ Reserved = Cardinality(UnitsOf(jobs, HeldStatuses))
      /\ Created = Cardinality(UnitsOf(jobs, SpentStatuses))
  BY DEF Reserved, Created, Units, UnitsOf
<1>2. /\ Reserved' = Cardinality(UnitsOf(jobs', HeldStatuses))
      /\ Created' = Cardinality(UnitsOf(jobs', SpentStatuses))
  BY DEF Reserved, Created, Units, UnitsOf
<1>. QED  BY <1>1, <1>2, UnitsFinite

(* A step takes free units for one job, moves units, or gives some back.    *)
Takes(n) == /\ n \in Nat \ {0}
            /\ n <= Remaining

Moves == /\ Reserved' <= Reserved
         /\ Created <= Created'
         /\ Reserved' + Created' <= Reserved + Created

LEMMA StepForms ==
  ASSUME TypeOK, [LedgerNext]_jobs
  PROVE  \/ \E n : /\ Takes(n)
                   /\ Reserved' = Reserved + n /\ Created' = Created
         \/ \E n : /\ Takes(n)
                   /\ Reserved' = Reserved /\ Created' = Created + n
         \/ Moves
         \/ Reserved' = Reserved /\ Created' <= Created
<1>. DEFINE Goal ==
       \/ \E n : /\ Takes(n)
                 /\ Reserved' = Reserved + n /\ Created' = Created
       \/ \E n : /\ Takes(n)
                 /\ Reserved' = Reserved /\ Created' = Created + n
       \/ Moves
       \/ Reserved' = Reserved /\ Created' <= Created
<1>1. ASSUME NEW j \in JobIds, NEW n \in 1..MaxCount, Reserve(j, n)
      PROVE  Goal
  <2>1. /\ jobs \in [JobIds -> Record]
        /\ jobs[j].status = "absent"
        /\ Takes(n)
    BY <1>1, BudgetAssumption DEF Reserve, TypeOK, Takes
  <2>2. PICK r : r = [status |-> "reserved", count |-> n,
                      outcome |-> "none", imported |-> FALSE]
    OBVIOUS
  <2>3. jobs' = [jobs EXCEPT ![j] = r]
    BY <1>1, <2>2 DEF Reserve
  <2>4. /\ AddsUnits(jobs, jobs', j, n, HeldStatuses)
        /\ jobs'[j].status \notin SpentStatuses
        /\ jobs[j].status \notin SpentStatuses
    BY <2>1, <2>2, <2>3 DEF AddsUnits, HeldStatuses, SpentStatuses
  <2>5. Cardinality(UnitsOf(jobs', HeldStatuses))
          = Cardinality(UnitsOf(jobs, HeldStatuses)) + n
    BY <2>4, NewRecordUnits
  <2>6. UnitsOf(jobs', SpentStatuses) = UnitsOf(jobs, SpentStatuses)
    BY <2>4 DEF AddsUnits, UnitsOf
  <2>. QED  BY <2>1, <2>5, <2>6, Totals
<1>2. ASSUME NEW j \in JobIds, NEW n \in 1..MaxCount, ImportSettledUsage(j, n)
      PROVE  Goal
  <2>1. CASE UNCHANGED jobs
    BY <2>1, MethodsThatMove, MovesCount, HeldPlusSpent, Totals DEF Moves
  <2>2. CASE jobs' # jobs
    <3>1. /\ jobs \in [JobIds -> Record]
          /\ jobs[j].status = "absent"
          /\ Takes(n)
      BY <1>2, <2>2, BudgetAssumption DEF ImportSettledUsage, TypeOK, Takes
    <3>2. PICK r : r = [status |-> "settled", count |-> n,
                        outcome |-> "reused", imported |-> TRUE]
      OBVIOUS
    <3>3. jobs' = [jobs EXCEPT ![j] = r]
      BY <1>2, <2>2, <3>2 DEF ImportSettledUsage
    <3>4. /\ AddsUnits(jobs, jobs', j, n, SpentStatuses)
          /\ jobs'[j].status \notin HeldStatuses
          /\ jobs[j].status \notin HeldStatuses
      BY <3>1, <3>2, <3>3 DEF AddsUnits, HeldStatuses, SpentStatuses
    <3>5. Cardinality(UnitsOf(jobs', SpentStatuses))
            = Cardinality(UnitsOf(jobs, SpentStatuses)) + n
      BY <3>4, NewRecordUnits
    <3>6. UnitsOf(jobs', HeldStatuses) = UnitsOf(jobs, HeldStatuses)
      BY <3>4 DEF AddsUnits, UnitsOf
    <3>. QED  BY <3>1, <3>5, <3>6, Totals
  <2>. QED  BY <2>1, <2>2
<1>3. ASSUME MovesUnits(jobs, jobs')
      PROVE  Goal
  BY <1>3, MovesCount, HeldPlusSpent, Totals DEF Moves
<1>4. ASSUME NEW j \in JobIds,
             CorrectPrelaunchFailure(j) \/ CorrectInvalidatedJob(j)
      PROVE  Goal
  <2>1. UnitsOf(jobs', HeldStatuses) = UnitsOf(jobs, HeldStatuses)
    BY <1>4 DEF CorrectPrelaunchFailure, CorrectInvalidatedJob, TypeOK,
                Record, UnitsOf, HeldStatuses, SpentStatuses
  <2>2. UnitsOf(jobs', SpentStatuses) \subseteq UnitsOf(jobs, SpentStatuses)
    BY <1>4 DEF CorrectPrelaunchFailure, CorrectInvalidatedJob, TypeOK,
                Record, UnitsOf, SpentStatuses
  <2>3. Cardinality(UnitsOf(jobs', SpentStatuses))
          <= Cardinality(UnitsOf(jobs, SpentStatuses))
    BY <2>2, UnitsMonotone
  <2>. QED  BY <2>1, <2>3, Totals
<1>5. CASE \/ \E j \in JobIds : \/ ClaimLaunch(j)
                                \/ MarkLaunched(j)
                                \/ RefundBeforeLaunch(j)
                                \/ \E o \in Outcomes : Settle(j, o)
           \/ RecoverInterruptedJobs
           \/ UNCHANGED jobs
  BY <1>3, <1>5, MethodsThatMove
<1>6. {"completed", "failed"} \subseteq Outcomes
  BY DEF Outcomes
<1>. QED  BY <1>1, <1>2, <1>4, <1>5, <1>6 DEF LedgerNext

-----------------------------------------------------------------------------
Covered == TypeOK /\ BudgetNeverExceeded

LEMMA TotalIsNat ==
  Total \in Nat /\ BaselineUsed \in Nat /\ BaselineUsed <= Total
BY BudgetAssumption

(* The comparison of reserve and import with what remains is enough: every  *)
(* other method leaves the sum of held and spent units or lowers it.        *)
LEMMA CoveredStep == Covered /\ [LedgerNext]_jobs => Covered'
<1>. SUFFICES ASSUME Covered, [LedgerNext]_jobs PROVE Covered'
  OBVIOUS
<1>1. TypeOK'
  BY TypeStep DEF Covered
<1>2. BaselineUsed + Created' + Reserved' <= Total
  <2>1. BaselineUsed + Created + Reserved <= Total
    BY DEF Covered, BudgetNeverExceeded
  <2>2. ASSUME NEW n, Takes(n)
        PROVE  n \in Nat /\ BaselineUsed + Created + Reserved + n <= Total
    BY <2>2, Totals, TotalIsNat DEF Takes, Remaining
  <2>3. CASE \E n : Takes(n) /\ Reserved' = Reserved + n /\ Created' = Created
    BY <2>2, <2>3, Totals, TotalIsNat
  <2>4. CASE \E n : Takes(n) /\ Reserved' = Reserved /\ Created' = Created + n
    BY <2>2, <2>4, Totals, TotalIsNat
  <2>5. CASE Moves
    BY <2>1, <2>5, Totals, TotalIsNat DEF Moves
  <2>6. CASE Reserved' = Reserved /\ Created' <= Created
    BY <2>1, <2>6, Totals, TotalIsNat
  <2>. QED  BY <2>3, <2>4, <2>5, <2>6, StepForms DEF Covered
<1>. QED  BY <1>1, <1>2 DEF Covered, BudgetNeverExceeded

LEMMA NothingTakenInitially ==
  LedgerInit => /\ TypeOK
                /\ Reserved = 0 /\ Created = 0
<1>. SUFFICES ASSUME LedgerInit PROVE TypeOK /\ Reserved = 0 /\ Created = 0
  OBVIOUS
<1>1. TypeOK
  BY BudgetAssumption
     DEF LedgerInit, TypeOK, Record, NoRecord, Statuses, Outcomes
<1>2. Units(HeldStatuses) = {} /\ Units(SpentStatuses) = {}
  BY DEF LedgerInit, NoRecord, Units, HeldStatuses, SpentStatuses
<1>. QED  BY <1>1, <1>2, FS_EmptySet DEF Reserved, Created

(* The total is a hard limit for every sequence of calls of any callers.    *)
THEOREM NeverOverspends == LedgerSpec => []BudgetNeverExceeded
<1>1. LedgerInit => Covered
  BY NothingTakenInitially, TotalIsNat DEF Covered, BudgetNeverExceeded
<1>2. Covered => BudgetNeverExceeded
  BY DEF Covered
<1>. QED  BY <1>1, <1>2, CoveredStep, PTL DEF LedgerSpec

-----------------------------------------------------------------------------
(* Every method call is a step of the abstract meter, or changes neither    *)
(* total.                                                                   *)
LEMMA MeterStep ==
  Covered /\ [LedgerNext]_jobs => [Meter!Next]_<<Reserved, Created>>
<1>. SUFFICES ASSUME Covered, [LedgerNext]_jobs
              PROVE  Meter!Next
  OBVIOUS
<1>. USE Totals, TotalIsNat
<1>1. BaselineUsed + Created + Reserved <= Total
  BY DEF Covered, BudgetNeverExceeded
<1>2. ASSUME NEW n, Takes(n), Reserved' = Reserved + n, Created' = Created
      PROVE  Meter!Hold
  BY <1>2 DEF Takes, Remaining, Meter!Hold
<1>3. ASSUME NEW n, Takes(n), Reserved' = Reserved, Created' = Created + n
      PROVE  Meter!SpendDirectly
  BY <1>3 DEF Takes, Remaining, Meter!SpendDirectly
<1>4. ASSUME Moves
      PROVE  Meter!Release
  BY <1>4 DEF Moves, Meter!Release
<1>5. ASSUME Reserved' = Reserved, Created' <= Created
      PROVE  Meter!Correct
  BY <1>5 DEF Meter!Correct
<1>. QED  BY <1>2, <1>3, <1>4, <1>5, StepForms DEF Covered, Meter!Next

(* The ledger implements the meter of held and spent units.                 *)
THEOREM LedgerIsAMeter == LedgerSpec => ImplementsMeter
<1>1. LedgerInit => Covered
  BY NothingTakenInitially, TotalIsNat DEF Covered, BudgetNeverExceeded
<1>2. LedgerInit => Meter!Init
  BY NothingTakenInitially DEF Meter!Init
<1>. QED  BY <1>1, <1>2, CoveredStep, MeterStep, PTL
          DEF LedgerSpec, ImplementsMeter, Meter!Spec

-----------------------------------------------------------------------------
(* How one step treats the records, method by method.                       *)
SpentOk == \A j \in JobIds : jobs[j].status \in SpentStatuses =>
  /\ jobs'[j].count = jobs[j].count
  /\ \/ jobs'[j].status \in SpentStatuses
     \/ jobs'[j].status = "refunded_after_launch"
     \/ /\ jobs[j].status = "settled"
        /\ jobs[j].outcome = "failed"
        /\ jobs'[j].status = "refunded_before_launch"

LEMMA SpentStep == TypeOK /\ [LedgerNext]_jobs => SpentOk
<1>. SUFFICES ASSUME TypeOK, [LedgerNext]_jobs PROVE SpentOk
  OBVIOUS
<1>1. ASSUME NEW j \in JobIds, NEW n \in 1..MaxCount, Reserve(j, n)
      PROVE  SpentOk
  BY <1>1 DEF Reserve, TypeOK, SpentOk, SpentStatuses
<1>2. ASSUME NEW j \in JobIds, NEW n \in 1..MaxCount, ImportSettledUsage(j, n)
      PROVE  SpentOk
  BY <1>2 DEF ImportSettledUsage, TypeOK, SpentOk, SpentStatuses
<1>3. ASSUME MovesUnits(jobs, jobs')
      PROVE  SpentOk
  BY <1>3 DEF MovesUnits, SpentOk
<1>4. ASSUME NEW j \in JobIds, CorrectPrelaunchFailure(j)
      PROVE  SpentOk
  <2>1. \A i \in JobIds \ {j} : jobs'[i] = jobs[i]
    BY <1>4 DEF CorrectPrelaunchFailure, TypeOK
  <2>2. /\ jobs'[j].count = jobs[j].count
        /\ jobs'[j].status = "refunded_before_launch"
        /\ jobs[j].status = "settled" /\ jobs[j].outcome = "failed"
    BY <1>4 DEF CorrectPrelaunchFailure, TypeOK, Record
  <2>. QED  BY <2>1, <2>2 DEF SpentOk
<1>5. ASSUME NEW j \in JobIds, CorrectInvalidatedJob(j)
      PROVE  SpentOk
  <2>1. \A i \in JobIds \ {j} : jobs'[i] = jobs[i]
    BY <1>5 DEF CorrectInvalidatedJob, TypeOK
  <2>2. /\ jobs'[j].count = jobs[j].count
        /\ jobs'[j].status = "refunded_after_launch"
    BY <1>5 DEF CorrectInvalidatedJob, TypeOK, Record
  <2>. QED  BY <2>1, <2>2 DEF SpentOk
<1>6. CASE \/ \E j \in JobIds : \/ ClaimLaunch(j)
                                \/ MarkLaunched(j)
                                \/ RefundBeforeLaunch(j)
                                \/ \E o \in Outcomes : Settle(j, o)
           \/ RecoverInterruptedJobs
           \/ UNCHANGED jobs
  BY <1>3, <1>6, MethodsThatMove
<1>7. {"completed", "failed"} \subseteq Outcomes
  BY DEF Outcomes
<1>. QED  BY <1>1, <1>2, <1>4, <1>5, <1>6, <1>7 DEF LedgerNext

(* Charged units come back only through an audited correction; no crash     *)
(* recovery and no late refund of a launching caller returns them.          *)
THEOREM SpentIsFinal == LedgerSpec => SpentStaysSpent
<1>1. TypeOK /\ [LedgerNext]_jobs => [SpentOk]_jobs
  BY SpentStep
<1>. QED  BY <1>1, TypeCorrect, PTL DEF LedgerSpec, SpentStaysSpent, SpentOk
-----------------------------------------------------------------------------
Refunded == {"refunded_before_launch", "refunded_after_launch"}

(* Units a job holds or has spent stay with it or are refunded by status.   *)
KeptOk == \A i \in JobIds : jobs[i].status \in TakenStatuses =>
  /\ jobs'[i].count = jobs[i].count
  /\ jobs'[i].status \in TakenStatuses \cup Refunded

LEMMA KeptStep == TypeOK /\ [LedgerNext]_jobs => KeptOk
<1>. SUFFICES ASSUME TypeOK, [LedgerNext]_jobs PROVE KeptOk
  OBVIOUS
<1>. USE DEF KeptOk, TakenStatuses, HeldStatuses, SpentStatuses, Refunded
<1>1. ASSUME NEW j \in JobIds, NEW n \in 1..MaxCount, Reserve(j, n)
      PROVE  KeptOk
  BY <1>1 DEF Reserve, TypeOK
<1>2. ASSUME NEW j \in JobIds, NEW n \in 1..MaxCount, ImportSettledUsage(j, n)
      PROVE  KeptOk
  BY <1>2 DEF ImportSettledUsage, TypeOK
<1>3. ASSUME NEW j \in JobIds, ClaimLaunch(j)
      PROVE  KeptOk
  BY <1>3, TransitionFields DEF ClaimLaunch
<1>4. ASSUME NEW j \in JobIds, MarkLaunched(j)
      PROVE  KeptOk
  BY <1>4, TransitionFields DEF MarkLaunched
<1>5. ASSUME NEW j \in JobIds, RefundBeforeLaunch(j)
      PROVE  KeptOk
  BY <1>5, TransitionFields DEF RefundBeforeLaunch
<1>6. ASSUME NEW j \in JobIds, NEW o \in {"completed", "failed"}, Settle(j, o)
      PROVE  KeptOk
  BY <1>6, TransitionFields DEF Settle
<1>7. ASSUME NEW j \in JobIds,
             CorrectPrelaunchFailure(j) \/ CorrectInvalidatedJob(j)
      PROVE  KeptOk
  <2>1. \A i \in JobIds \ {j} : jobs'[i] = jobs[i]
    BY <1>7 DEF CorrectPrelaunchFailure, CorrectInvalidatedJob, TypeOK
  <2>2. jobs'[j].count = jobs[j].count /\ jobs'[j].status \in Refunded
    BY <1>7 DEF CorrectPrelaunchFailure, CorrectInvalidatedJob, TypeOK, Record
  <2>. QED  BY <2>1, <2>2
<1>8. ASSUME RecoverInterruptedJobs
      PROVE  KeptOk
  <2>1. \A i \in JobIds : jobs[i] \in Record /\ jobs'[i] = Recovered(jobs[i])
    BY <1>8 DEF RecoverInterruptedJobs, TypeOK
  <2>2. ASSUME NEW r \in Record, r.status \in TakenStatuses
        PROVE  /\ Recovered(r).count = r.count
               /\ Recovered(r).status \in TakenStatuses \cup Refunded
    BY <2>2 DEF Recovered, Record
  <2>. QED  BY <2>1, <2>2
<1>9. CASE UNCHANGED jobs
  BY <1>9
<1>. QED  BY <1>1, <1>2, <1>3, <1>4, <1>5, <1>6, <1>7, <1>8, <1>9
          DEF LedgerNext

ReleaseOk == Remaining' > Remaining =>
  \E j \in JobIds : /\ jobs[j].status \in HeldStatuses \cup SpentStatuses
                    /\ jobs'[j].status \in {"refunded_before_launch",
                                            "refunded_after_launch"}

LEMMA ReleaseStep == TypeOK /\ [LedgerNext]_jobs => ReleaseOk
<1>. SUFFICES ASSUME TypeOK, [LedgerNext]_jobs,
                     \A j \in JobIds : jobs[j].status \in TakenStatuses =>
                                         jobs'[j].status \notin Refunded
              PROVE  ~(Remaining' > Remaining)
  BY DEF ReleaseOk, TakenStatuses, Refunded
<1>1. UnitsOf(jobs, TakenStatuses) \subseteq UnitsOf(jobs', TakenStatuses)
  BY KeptStep DEF KeptOk, UnitsOf
<1>2. Cardinality(UnitsOf(jobs, TakenStatuses))
        <= Cardinality(UnitsOf(jobs', TakenStatuses))
  BY <1>1, UnitsMonotone
<1>3. Reserved + Created <= Reserved' + Created'
  BY <1>2, HeldPlusSpent, Totals
<1>. QED  BY <1>3, Totals, TotalIsNat DEF Remaining

(* A step that makes more units available refunds a job that had them.      *)
THEOREM ReleasesAreRefunds == LedgerSpec => OnlyRefundsRelease
<1>1. TypeOK /\ [LedgerNext]_jobs => [ReleaseOk]_jobs
  BY ReleaseStep
<1>. QED  BY <1>1, TypeCorrect, PTL
          DEF LedgerSpec, OnlyRefundsRelease, ReleaseOk
=============================================================================
