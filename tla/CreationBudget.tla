--------------------------- MODULE CreationBudget ---------------------------
(* The durable ledger of interaction units of one evolution run             *)
(* (harnesslens/core/budget.py).  A unit is one isolated intelligent        *)
(* session or one task trial.  Every method of CreationBudget holds an      *)
(* exclusive file lock while it reads, decides and atomically replaces the  *)
(* ledger, so every method is one action.  A method that raises leaves the  *)
(* ledger alone: its action is not enabled, and the modules of the callers  *)
(* say what the caller does then.                                           *)
EXTENDS Integers, FiniteSets

CONSTANTS
  Bases,         \* base job identifiers, one per piece of work
  MaxAttempts,   \* bound: numbered attempts of one base
  MaxCount,      \* bound: units one job may ask for
  Total,         \* HAI_TOTAL_CREATION_BUDGET
  BaselineUsed   \* units charged for the baseline when the run starts

ASSUME BudgetAssumption ==
  /\ IsFiniteSet(Bases)
  /\ MaxAttempts \in Nat \ {0}
  /\ MaxCount \in Nat \ {0}
  /\ Total \in Nat \ {0}
  /\ BaselineUsed \in 0..Total

VARIABLE jobs    \* the "jobs" mapping; an identifier without record is "absent"

(* <<b, 1>> is the identifier b itself and <<b, n>> is "b-retry-n".         *)
JobIds == Bases \X (1..MaxAttempts)

ActiveStatuses == {"reserved", "launch_claimed", "launched"}
HeldStatuses   == {"reserved", "launch_claimed"}
SpentStatuses  == {"launched", "settled"}
Statuses == {"absent", "refunded_before_launch", "refunded_after_launch"}
              \cup HeldStatuses \cup SpentStatuses

Outcomes == {"none", "completed", "failed", "interrupted", "reused"}

Record == [status : Statuses, count : 0..MaxCount, outcome : Outcomes,
           imported : BOOLEAN]

NoRecord == [status |-> "absent", count |-> 0, outcome |-> "none",
             imported |-> FALSE]

TypeOK == jobs \in [JobIds -> Record]

-----------------------------------------------------------------------------
(* _status: the units of the jobs in a set of statuses, and what is left.   *)
Units(statuses) ==
  {u \in JobIds \X (1..MaxCount) :
     jobs[u[1]].status \in statuses /\ u[2] <= jobs[u[1]].count}

Reserved  == Cardinality(Units(HeldStatuses))
Created   == Cardinality(Units(SpentStatuses))
(* Mutated form: units held by open reservations are not counted.           *)
RemainingIgnoringHeld == Total - BaselineUsed - Created

Remaining == Total - BaselineUsed - Created - Reserved

(* next_attempt_id: refused while an attempt of the base is active.         *)
Matching(b) == {n \in 1..MaxAttempts : jobs[<<b, n>>].status # "absent"}

(* Mutated form: only a launched attempt refuses the next one.              *)
NoLaunchedAttempt(b) ==
  \A n \in 1..MaxAttempts : jobs[<<b, n>>].status # "launched"

NoActiveAttempt(b) ==
  \A n \in 1..MaxAttempts : jobs[<<b, n>>].status \notin ActiveStatuses

NextAttempt(b) == <<b, Cardinality(Matching(b)) + 1>>

-----------------------------------------------------------------------------
LedgerInit == jobs = [j \in JobIds |-> NoRecord]

(* Mutated form: the comparison with what remains is off by one.            *)
ReserveOneTooMany(j, n) ==
  /\ jobs[j].status = "absent"
  /\ n \in 1..MaxCount
  /\ n <= Remaining + 1
  /\ jobs' = [jobs EXCEPT ![j] =
                [NoRecord EXCEPT !.status = "reserved", !.count = n]]

(* reserve and reserve_job.  For an identifier that has a record the method *)
(* returns that record, whatever its status: the callers model that case.   *)
Reserve(j, n) ==
  /\ jobs[j].status = "absent"
  /\ n \in 1..MaxCount
  /\ n <= Remaining
  /\ jobs' = [jobs EXCEPT ![j] = [status |-> "reserved", count |-> n,
                                  outcome |-> "none", imported |-> FALSE]]

(* _transition: a call repeated after its effect returns without change.    *)
Transition(j, allowed, target, outcome) ==
  \/ /\ jobs[j].status \in allowed
     /\ jobs' = [jobs EXCEPT ![j].status = target, ![j].outcome = outcome]
  \/ /\ jobs[j].status = target
     /\ UNCHANGED jobs

ClaimLaunch(j) == Transition(j, {"reserved"}, "launch_claimed", "none")

MarkLaunched(j) == Transition(j, HeldStatuses, "launched", "none")

(* Mutated form: a launched job can be refunded, too.                       *)
RefundAnyActive(j) ==
  Transition(j, ActiveStatuses, "refunded_before_launch", "none")

RefundBeforeLaunch(j) ==
  Transition(j, HeldStatuses, "refunded_before_launch", "none")

Settle(j, outcome) == Transition(j, {"launched"}, "settled", outcome)

(* import_settled_usage: sessions of a source run whose analysis is reused. *)
ImportSettledUsage(j, n) ==
  \/ /\ jobs[j].status = "absent"
     /\ n \in 1..MaxCount
     /\ n <= Remaining
     /\ jobs' = [jobs EXCEPT ![j] = [status |-> "settled", count |-> n,
                                     outcome |-> "reused", imported |-> TRUE]]
  \/ /\ jobs[j].status = "settled"
     /\ jobs[j].count = n
     /\ jobs[j].imported
     /\ UNCHANGED jobs

(* The caller supplies the evidence that no session was created.            *)
CorrectPrelaunchFailure(j) ==
  /\ jobs[j].status = "settled"
  /\ jobs[j].outcome = "failed"
  /\ jobs' = [jobs EXCEPT ![j].status = "refunded_before_launch"]

CorrectInvalidatedJob(j) ==
  /\ jobs[j].status \in SpentStatuses
  /\ jobs' = [jobs EXCEPT ![j].status = "refunded_after_launch"]

(* Mutated form: a claimed launch counts as not started.                    *)
RecoveredRefundingClaims(r) ==
  IF r.status \in HeldStatuses
    THEN [r EXCEPT !.status = "refunded_before_launch"]
  ELSE IF r.status = "launched"
    THEN [r EXCEPT !.status = "settled", !.outcome = "interrupted"]
  ELSE r

(* recover_interrupted_jobs closes what a terminated controller left open:  *)
(* a reservation is released, and a job that may have opened a session is   *)
(* charged.                                                                 *)
Recovered(r) ==
  IF r.status = "reserved"
    THEN [r EXCEPT !.status = "refunded_before_launch"]
  ELSE IF r.status \in {"launch_claimed", "launched"}
    THEN [r EXCEPT !.status = "settled", !.outcome = "interrupted"]
  ELSE r

RecoverInterruptedJobs == jobs' = [j \in JobIds |-> Recovered(jobs[j])]

-----------------------------------------------------------------------------
(* Any sequence of method calls, by any caller, on any identifier.          *)
LedgerNext ==
  \/ \E j \in JobIds, n \in 1..MaxCount : Reserve(j, n)
  \/ \E j \in JobIds, n \in 1..MaxCount : ImportSettledUsage(j, n)
  \/ \E j \in JobIds : ClaimLaunch(j)
  \/ \E j \in JobIds : MarkLaunched(j)
  \/ \E j \in JobIds : RefundBeforeLaunch(j)
  \/ \E j \in JobIds, o \in {"completed", "failed"} : Settle(j, o)
  \/ \E j \in JobIds : CorrectPrelaunchFailure(j)
  \/ \E j \in JobIds : CorrectInvalidatedJob(j)
  \/ RecoverInterruptedJobs

LedgerSpec == LedgerInit /\ [][LedgerNext]_jobs

-----------------------------------------------------------------------------
(* docs/configuration_zh.md calls the total a hard limit: whatever sequence *)
(* of reservations, launches, refunds, corrections, imports and recoveries  *)
(* the ledger sees, the units it holds and the units it has charged never   *)
(* exceed the total.                                                        *)
BudgetNeverExceeded == BaselineUsed + Created + Reserved <= Total

(* A job whose session may have run stays charged at its reserved size.     *)
(* The only ways out are the two audited corrections, so in particular a    *)
(* recovery after a crash and a late refund of the launching caller never   *)
(* give units of a launched job back.                                       *)
SpentStaysSpent ==
  [][\A j \in JobIds : jobs[j].status \in SpentStatuses =>
       /\ jobs'[j].count = jobs[j].count
       /\ \/ jobs'[j].status \in SpentStatuses
          \/ jobs'[j].status = "refunded_after_launch"
          \/ /\ jobs[j].status = "settled"
             /\ jobs[j].outcome = "failed"
             /\ jobs'[j].status = "refunded_before_launch"]_jobs

(* The units a step gives back are units of jobs that step refunds: no step *)
(* that reserves, launches, settles or imports also frees units of others.  *)
OnlyRefundsRelease ==
  [][Remaining' > Remaining =>
       \E j \in JobIds :
         /\ jobs[j].status \in HeldStatuses \cup SpentStatuses
         /\ jobs'[j].status \in {"refunded_before_launch",
                                 "refunded_after_launch"}]_jobs

-----------------------------------------------------------------------------
(* What the ledger promises its callers: a meter of the units held and the  *)
(* units spent.                                                             *)
Meter == INSTANCE UnitMeter WITH capacity <- Total - BaselineUsed,
                                 held <- Reserved, spent <- Created

(* The ledger implements the meter: every method call is one meter step.    *)
ImplementsMeter == Meter!Spec
=============================================================================
