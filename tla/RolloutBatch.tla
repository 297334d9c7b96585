---------------------------- MODULE RolloutBatch ----------------------------
(* One versioned TRAIN rollout: RolloutModule.run_version and               *)
(* _repair_incomplete_rollout (evolution/rollout.py), the service that runs *)
(* the trials, retains their trajectories and recovers retained ones        *)
(* (evaluation/rollout_bridge.py), and the batch runner under it, which     *)
(* keeps finished trial rows for a second call (benchmarks/pi_tau2.py).     *)
(* The process may die between any two durable writes; it is restarted as   *)
(* the controller, which recovers the ledger first, or as the stage script  *)
(* run_rollout.py, which does not.                                          *)
EXTENDS CreationBudget, FiniteSetsExt

CONSTANTS
  NumTrials,    \* tasks times repeats of the batch
  TrialKinds,   \* what a trial may turn out to be
  Faults,       \* what else may fail: "group", "guard", "repair"
  Restarters,   \* "controller" and/or "script"
  Harnesses,    \* "opencode" and/or "pi": whose trace rules hold
  MaxMishaps    \* bound: crashes and faults in one behaviour

ASSUME RolloutAssumption ==
  /\ Bases = {"rollout", "repair"}
  /\ NumTrials \in 1..MaxCount
  /\ TrialKinds \subseteq {"good", "broken", "infra"}
  /\ Faults \subseteq {"group", "guard", "repair"}
  /\ Restarters \subseteq {"controller", "script"}
  /\ Harnesses \subseteq {"opencode", "pi"}
  /\ MaxMishaps \in Nat

(* A trajectory is good, has an incomplete interaction trace (broken), or   *)
(* stands for a worker that failed before any interaction (infra).  A       *)
(* retained copy is torn when the process dies while writing it.            *)
Trials == 1..NumTrials
Rows == {"missing", "good", "broken", "infra"}
Files == Rows \cup {"torn"}

VARIABLES
  pc,        \* where run_version is; "down" when no process runs it
  batch,     \* this process's batch job
  repair,    \* this process's repair job
  target,    \* the trial being repaired
  seen,      \* trials this call has already repaired
  pending,   \* trials running in the batch runner
  native,    \* durable: rows of the batch runner
  retained,  \* durable: trajectories of the rollout service
  repaired,  \* durable: finished repair requests
  output,    \* durable: the trials of the rollout's result file
  opened,    \* trials really started
  harness,   \* the harness of the run; Codex follows the rules of Pi
  scripted,  \* history: the stage script has started the rollout again
  mishaps

memory == <<batch, repair, target, seen, pending>>
disk   == <<native, retained, repaired, output>>
run    == <<harness, scripted, mishaps>>
vars   == <<jobs, pc, memory, disk, opened, run>>

NoJob == <<"none", 0>>
None == [t \in Trials |-> "missing"]

RolloutTypeOK ==
  /\ TypeOK
  /\ pc \in {"down", "start", "reserve", "claim", "mark", "run", "running",
             "retain", "check", "repair", "repair-claim", "repair-mark",
             "repair-run", "repairing", "copy", "write", "settle", "done",
             "correct"}
  /\ {batch, repair} \subseteq JobIds \cup {NoJob}
  /\ target \in Trials \cup {0}
  /\ seen \subseteq Trials /\ pending \subseteq Trials
  /\ native \in [Trials -> Rows] /\ repaired \in [Trials -> Rows]
  /\ retained \in [Trials -> Files] /\ output \in [Trials -> Files]
  /\ opened \in Nat
  /\ harness \in Harnesses /\ scripted \in BOOLEAN
  /\ mishaps \in 0..MaxMishaps

Init ==
  /\ LedgerInit
  /\ pc = "start"
  /\ batch = NoJob /\ repair = NoJob /\ target = 0
  /\ seen = {} /\ pending = {}
  /\ native = None /\ retained = None /\ repaired = None /\ output = None
  /\ opened = 0 /\ mishaps = 0
  /\ harness \in Harnesses /\ scripted = FALSE

-----------------------------------------------------------------------------
Goes(place) == pc' = place

(* The error leaves run_version and ends the process.                       *)
Dies ==
  /\ pc' = "down"
  /\ batch' = NoJob /\ repair' = NoJob /\ target' = 0
  /\ seen' = {} /\ pending' = {}

Mishap ==
  /\ mishaps < MaxMishaps /\ mishaps' = mishaps + 1
  /\ UNCHANGED <<harness, scripted>>

OpenCode == harness = "opencode"

(* recover_retained on a set of trajectory files: it refuses a partial or   *)
(* unreadable batch, stops at the first trajectory its validator does not   *)
(* accept, and returns the batch otherwise.  OpenCode validation has no     *)
(* exemption for a trial that failed before interacting.                    *)
Unacceptable(files) ==
  {t \in Trials : files[t] = "broken" \/ (OpenCode /\ files[t] = "infra")}

Readable(files) == \A t \in Trials : files[t] \notin {"missing", "torn"}

Acceptable(files) == Readable(files) /\ Unacceptable(files) = {}

(* Mutated form: a worker failure is repaired, too.                         *)
RepairableFailure(files) == Readable(files) /\ Unacceptable(files) # {}

Repairable(files) ==
  /\ Readable(files)
  /\ Unacceptable(files) # {}
  /\ files[Min(Unacceptable(files))] = "broken"

Refused(files) == ~Acceptable(files) /\ ~Repairable(files)

(* IncompleteRolloutTraceError is caught: its trial is to be repaired.      *)
AskRepair(files) ==
  /\ Goes("repair")
  /\ target' = Min(Unacceptable(files))

-----------------------------------------------------------------------------
(* run_version: the result file, or the retained trials, or a new batch.    *)
UseOutput ==
  /\ pc = "start" /\ output # None
  /\ Goes("done")
  /\ UNCHANGED <<jobs, memory, disk, opened, run>>

(* Mutated form: retained trials without a result file are given up.        *)
RecoverNothing ==
  /\ pc = "start" /\ output = None /\ retained # None
  /\ Dies
  /\ UNCHANGED <<jobs, disk, opened, run>>

RecoverRetained ==
  /\ pc = "start" /\ output = None /\ retained # None
  /\ \/ Acceptable(retained) /\ Goes("write") /\ UNCHANGED memory
     \/ Repairable(retained) /\ AskRepair(retained)
        /\ UNCHANGED <<batch, repair, seen, pending>>
     \/ Refused(retained) /\ Dies
  /\ UNCHANGED <<jobs, disk, opened, run>>

LaunchedBatches == {j \in JobIds : j[1] = "rollout"
                                   /\ jobs[j].status = "launched"}

NothingRetained == pc = "start" /\ output = None /\ retained = None

NewBatch ==
  /\ NothingRetained /\ LaunchedBatches = {}
  /\ Goes("reserve")
  /\ UNCHANGED <<jobs, memory, disk, opened, run>>

(* A job left launched by an earlier process is used again.                 *)
ReuseBatch ==
  /\ NothingRetained
  /\ \E j \in JobIds : LaunchedBatches = {j} /\ batch' = j
  /\ Goes("run")
  /\ UNCHANGED <<jobs, repair, target, seen, pending, disk, opened, run>>

(* next_attempt_id and reserve_job: nobody else writes in between.          *)
CanReserve(b, n) ==
  NoActiveAttempt(b) /\ NextAttempt(b) \in JobIds /\ n <= Remaining

ReserveBatch ==
  /\ pc = "reserve"
  /\ CanReserve("rollout", NumTrials)
  /\ Reserve(NextAttempt("rollout"), NumTrials)
  /\ batch' = NextAttempt("rollout")
  /\ Goes("claim")
  /\ UNCHANGED <<repair, target, seen, pending, disk, opened, run>>

BatchRefused ==
  /\ pc = "reserve"
  /\ ~CanReserve("rollout", NumTrials)
  /\ Dies
  /\ UNCHANGED <<jobs, disk, opened, run>>

ClaimBatch ==
  /\ pc = "claim" /\ ClaimLaunch(batch) /\ Goes("mark")
  /\ UNCHANGED <<memory, disk, opened, run>>

MarkBatch ==
  /\ pc = "mark" /\ MarkLaunched(batch) /\ Goes("run")
  /\ UNCHANGED <<memory, disk, opened, run>>

-----------------------------------------------------------------------------
(* The batch runner starts every trial without a usable row; the pool is as *)
(* large as the batch.  Pi and Codex rows may lack a trace and carry no     *)
(* error: such a row is usable.                                             *)
StartTrials ==
  /\ pc = "run"
  /\ \E kept \in SUBSET {t \in Trials : native[t] = "broken" /\ ~OpenCode} :
       pending' = {t \in Trials : native[t] # "good"} \ kept
  /\ opened' = opened + Cardinality(pending')
  /\ Goes("running")
  /\ UNCHANGED <<jobs, batch, repair, target, seen, disk, run>>

WriteRow(t) ==
  /\ pc = "running" /\ t \in pending
  /\ pending' = pending \ {t}
  /\ \E k \in TrialKinds : native' = [native EXCEPT ![t] = k]
  /\ UNCHANGED <<jobs, pc, batch, repair, target, seen, retained, repaired,
                 output, opened, run>>

GroupReturns ==
  /\ pc = "running" /\ pending = {}
  /\ Goes("retain")
  /\ UNCHANGED <<jobs, memory, disk, opened, run>>

(* Mutated form: a failed group is refunded.                                *)
GroupFailsRefunded ==
  /\ pc = "running" /\ "group" \in Faults /\ Mishap
  /\ jobs' = [jobs EXCEPT ![batch].status = "refunded_after_launch"]
  /\ Dies
  /\ UNCHANGED <<disk, opened>>

(* The worker fails or exceeds the group timeout.                           *)
GroupFails ==
  /\ pc = "running" /\ "group" \in Faults /\ Mishap
  /\ Settle(batch, "failed")
  /\ Dies
  /\ UNCHANGED <<disk, opened>>

(* The resource guard rejects every trial before it starts.  The failed job *)
(* is settled; its charge is then corrected if no trajectory file exists,   *)
(* of this label (native) or of another one under the same root.            *)
GuardBlocks ==
  /\ pc = "run" /\ "guard" \in Faults /\ Mishap
  /\ Settle(batch, "failed")
  /\ \/ Dies
     \/ native = None /\ Goes("correct") /\ UNCHANGED memory
  /\ UNCHANGED <<disk, opened>>

CorrectCharge ==
  /\ pc = "correct" /\ CorrectPrelaunchFailure(batch)
  /\ Dies
  /\ UNCHANGED <<disk, opened, run>>

(* retain_trial_trajectories writes one file after the other.               *)
Unretained == {t \in Trials : retained[t] = "missing"}

RetainTrial ==
  /\ pc = "retain" /\ Unretained # {}
  /\ LET t == Min(Unretained) IN
       retained' = [retained EXCEPT ![t] = native[t]]
  /\ UNCHANGED <<jobs, pc, memory, native, repaired, output, opened, run>>

RetentionEnds ==
  /\ pc = "retain" /\ Unretained = {}
  /\ Goes("check")
  /\ UNCHANGED <<jobs, memory, disk, opened, run>>

(* The rest of service.run: traces are validated unless the batch holds an  *)
(* infrastructure failure.                                                  *)
Infrastructure(files) == {t \in Trials : files[t] = "infra"}

(* Mutated form: the traces of a batch that ran are not validated.          *)
CheckNothing ==
  /\ pc = "check"
  /\ Goes("write")
  /\ UNCHANGED <<jobs, memory, disk, opened, run>>

CheckBatch ==
  /\ pc = "check"
  /\ \/ /\ Infrastructure(retained) # {} \/ Acceptable(retained)
        /\ Goes("write") /\ UNCHANGED memory
     \/ /\ Infrastructure(retained) = {} /\ Repairable(retained)
        /\ AskRepair(retained)
        /\ UNCHANGED <<batch, repair, seen, pending>>
  /\ UNCHANGED <<jobs, disk, opened, run>>

-----------------------------------------------------------------------------
(* _repair_incomplete_rollout.  An error here leaves a batch job launched.  *)
CanRepair == target \notin seen /\ CanReserve("repair", 1)

ReserveRepair ==
  /\ pc = "repair" /\ CanRepair
  /\ Reserve(NextAttempt("repair"), 1)
  /\ repair' = NextAttempt("repair")
  /\ seen' = seen \cup {target}
  /\ Goes("repair-claim")
  /\ UNCHANGED <<batch, target, pending, disk, opened, run>>

RepairRefused ==
  /\ pc = "repair" /\ ~CanRepair
  /\ Dies
  /\ UNCHANGED <<jobs, disk, opened, run>>

ClaimRepair ==
  /\ pc = "repair-claim" /\ ClaimLaunch(repair) /\ Goes("repair-mark")
  /\ UNCHANGED <<memory, disk, opened, run>>

MarkRepair ==
  /\ pc = "repair-mark" /\ MarkLaunched(repair) /\ Goes("repair-run")
  /\ UNCHANGED <<memory, disk, opened, run>>

(* The repair request of a trial is cached once it has finished; the unit   *)
(* is charged all the same.                                                 *)
UseCachedRepair ==
  /\ pc = "repair-run" /\ repaired[target] # "missing"
  /\ Goes("copy")
  /\ UNCHANGED <<jobs, memory, disk, opened, run>>

StartRepair ==
  /\ pc = "repair-run" /\ repaired[target] = "missing"
  /\ opened' = opened + 1
  /\ Goes("repairing")
  /\ UNCHANGED <<jobs, memory, disk, run>>

(* An infrastructure failure of the repair is a result, too.                *)
RepairReturns ==
  /\ pc = "repairing"
  /\ \E k \in TrialKinds \ {"broken"} :
       repaired' = [repaired EXCEPT ![target] = k]
  /\ Goes("copy")
  /\ UNCHANGED <<jobs, memory, native, retained, output, opened, run>>

(* The repair itself has an incomplete trace.                               *)
RepairIsBroken ==
  /\ pc = "repairing" /\ "broken" \in TrialKinds
  /\ Settle(repair, "failed")
  /\ Dies
  /\ UNCHANGED <<disk, opened, run>>

RepairFails ==
  /\ pc = "repairing" /\ "repair" \in Faults /\ Mishap
  /\ Settle(repair, "failed")
  /\ Dies
  /\ UNCHANGED <<disk, opened>>

(* Mutated form: the repaired trajectory lands one slot too low.            *)
CopyRepairMisplaced ==
  /\ pc = "copy"
  /\ retained' = [retained EXCEPT ![Max({1, target - 1})] = repaired[target]]
  /\ Settle(repair, "completed")
  /\ Goes("write")
  /\ UNCHANGED <<memory, native, repaired, output, opened, run>>

(* replace_incomplete_trial copies the repaired trajectory over the broken  *)
(* one and recovers the batch again; then the repair is settled.            *)
CopyRepair ==
  /\ pc = "copy"
  /\ retained' = [retained EXCEPT ![target] = repaired[target]]
  /\ \/ /\ Acceptable(retained')
        /\ Settle(repair, "completed")
        /\ Goes("write") /\ UNCHANGED memory
     \/ /\ Repairable(retained')
        /\ Settle(repair, "completed")
        /\ AskRepair(retained')
        /\ UNCHANGED <<batch, repair, seen, pending>>
     \/ /\ Refused(retained')
        /\ Settle(repair, "failed")
        /\ Dies
  /\ UNCHANGED <<native, repaired, output, opened, run>>

-----------------------------------------------------------------------------
WriteOutput ==
  /\ pc = "write"
  /\ output' = retained
  /\ Goes("settle")
  /\ UNCHANGED <<jobs, memory, native, retained, repaired, opened, run>>

(* A batch that ran settles its job; a recovered one settles whatever is    *)
(* still launched for it.                                                   *)
SettleBatch ==
  /\ pc = "settle"
  /\ LET done == IF batch = NoJob THEN LaunchedBatches ELSE {batch} IN
       jobs' = [j \in JobIds |->
                  IF j \in done
                    THEN [jobs[j] EXCEPT !.status = "settled",
                                         !.outcome = "completed"]
                    ELSE jobs[j]]
  /\ Goes("done")
  /\ UNCHANGED <<memory, disk, opened, run>>

-----------------------------------------------------------------------------
(* The process dies.  A trajectory being written may be left torn; one that *)
(* was copied stays, with the job of its repair still launched.             *)
Crash ==
  /\ pc # "down" /\ Mishap
  /\ Dies
  /\ \/ UNCHANGED retained
     \/ /\ pc = "retain" /\ Unretained # {}
        /\ retained' = [retained EXCEPT ![Min(Unretained)] = "torn"]
     \/ /\ pc = "copy"
        /\ \E f \in {"torn", repaired[target]} :
             retained' = [retained EXCEPT ![target] = f]
  /\ UNCHANGED <<jobs, native, repaired, output, opened>>

Restart(by) ==
  /\ pc = "down"
  /\ \/ by = "controller" /\ RecoverInterruptedJobs
     \/ by = "script" /\ UNCHANGED jobs
  /\ Goes("start")
  /\ scripted' = (scripted \/ by = "script")
  /\ UNCHANGED <<memory, disk, opened, harness, mishaps>>

Step ==
  \/ UseOutput \/ RecoverRetained \/ NewBatch \/ ReuseBatch
  \/ ReserveBatch \/ BatchRefused \/ ClaimBatch \/ MarkBatch
  \/ StartTrials \/ (\E t \in Trials : WriteRow(t)) \/ GroupReturns
  \/ RetainTrial \/ RetentionEnds \/ CheckBatch
  \/ ReserveRepair \/ RepairRefused \/ ClaimRepair \/ MarkRepair
  \/ UseCachedRepair \/ StartRepair \/ RepairReturns \/ RepairIsBroken
  \/ CopyRepair \/ WriteOutput \/ SettleBatch \/ CorrectCharge
  \/ (\E by \in Restarters : Restart(by))

Finished == pc = "done" /\ UNCHANGED vars

Next == Step \/ GroupFails \/ GuardBlocks \/ RepairFails \/ Crash \/ Finished

(* Every wait of the code is bounded by a timeout, and an interrupted run   *)
(* is started again.                                                        *)
Spec == Init /\ [][Next]_vars /\ WF_vars(Step)

-----------------------------------------------------------------------------
(* Trials and repairs are charged before they start: whatever crashes,      *)
(* faults and retries do, the controller never runs more trials than the    *)
(* units the ledger holds or has charged.  (A script that reuses a launched *)
(* job runs its trials again.)                                              *)
EveryTrialCharged == ~scripted => opened <= Created + Reserved

(* _active_rollout_job_id raises on "multiple active rollout jobs": no      *)
(* sequence of crashes and restarts of controller and script gets there,    *)
(* for the batch or for its repairs.                                        *)
OneActiveAttempt ==
  \A b \in Bases, m, n \in 1..MaxAttempts :
    /\ jobs[<<b, m>>].status \in ActiveStatuses
    /\ jobs[<<b, n>>].status \in ActiveStatuses
    => m = n

(* A result file is the retained evidence, whole and readable; a trial with *)
(* an incomplete trace gets into it only next to an infrastructure failure, *)
(* which makes the batch invalid.                                           *)
OutputIsAdmissible ==
  output # None =>
    /\ output = retained
    /\ Readable(output)
    /\ (\E t \in Trials : output[t] = "broken") => Infrastructure(output) # {}

(* rollout_bridge.py: "A provider/worker failure is an invalid sample, not  *)
(* a trace-repair target."  Neither the service nor a recovery after a      *)
(* crash selects one.                                                       *)
OnlyBrokenRepaired ==
  pc \in {"repair", "repair-claim", "repair-mark", "repair-run",
          "repairing", "copy"} => retained[target] = "broken"

(* When run_version returns, neither the batch nor a repair of it keeps an  *)
(* active job that would refuse the next attempt.  (A script leaves the job *)
(* of a repair open that a dead process had launched.)                      *)
ClosedWithOutput ==
  pc = "done" /\ ~scripted =>
    \A j \in JobIds : jobs[j].status \notin ActiveStatuses

(* Valid evidence is never replaced, by a repair, a second run or recovery. *)
(* A label promises this, too (ImplementsEvidence).                         *)
GoodTrialsKept ==
  [][\A t \in Trials : retained[t] = "good" => retained'[t] = "good"]_vars

(* What the label promises its readers, over all calls and crashes: a trial *)
(* is retained once, nothing but a broken trace is replaced, by a repair    *)
(* that is not broken, and the result file is written once, when the        *)
(* evidence is whole; after that, the evidence does not change.             *)
Evidence == INSTANCE TrialEvidence WITH evidence <- retained, file <- output

ImplementsEvidence == Evidence!Spec

(* A call of run_version comes to an end, with its result or an error: the  *)
(* repair loop cannot go on for ever.                                       *)
CallEnds == (pc = "start") ~> (pc \in {"done", "down"})

(* Once every trial of a batch is retained with a complete trace, the batch *)
(* gets its result file, whatever crashes follow.                           *)
CompleteBatchFinishes ==
  (\A t \in Trials : retained[t] = "good") ~> (output # None)

(* The invariant of a batch: its types, one active job for each piece of    *)
(* work, no repair of what is not a broken trace, and no job left open by a *)
(* call that returned.                                                      *)
RolloutInv ==
  /\ RolloutTypeOK
  /\ OneActiveAttempt
  /\ OnlyBrokenRepaired
  /\ ClosedWithOutput

(* Every call of run_version comes to an end, and a complete batch gets its *)
(* result file.                                                             *)
CallsGetThrough == CallEnds /\ CompleteBatchFinishes
=============================================================================
