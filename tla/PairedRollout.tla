---------------------------- MODULE PairedRollout ----------------------------
(* A paired TRAIN rollout: run_pair_from_main, the targeted retries of      *)
(* trials that failed before they interacted, and the annotation of the     *)
(* pair (evolution/rollout.py).  The candidate and its exact parent run on  *)
(* two threads after one check of the units; a candidate of v0 is screened  *)
(* alone.  run_version is reduced to its durable steps; RolloutBatch has    *)
(* the detail.  The controller may die anywhere and makes the same call     *)
(* again when it is restarted.                                              *)
EXTENDS Integers, Sequences, FiniteSets

CONSTANTS
  NumTrials,      \* tasks times TRAIN_ROLLOUT_REPEATS of one side
  Rounds,         \* MAX_TARGETED_RETRY_ROUNDS
  ReviewReserve,  \* PAIRED_RETRY_REVIEW_RESERVE
  Capacity,       \* units the ledger has left at the first call
  OpenCode,       \* OpenCode refuses to recover a batch with a failed trial
  MaxMishaps      \* bound: crashes and stage scripts that die

ASSUME PairAssumption ==
  /\ NumTrials \in Nat \ {0}
  /\ Rounds \in Nat
  /\ ReviewReserve \in Nat
  /\ Capacity \in Nat
  /\ OpenCode \in BOOLEAN
  /\ MaxMishaps \in Nat

Sides  == {"parent", "candidate"}
Trials == 1..NumTrials

(* One run_version call: trial 0 is the label of a whole side, another      *)
(* trial the next retry label of that task and pairing slot.                *)
Lanes == Sides \X (0..NumTrials)
Side(s) == <<s, 0>>
LaneTrials(l) == IF l[2] = 0 THEN Trials ELSE {l[2]}
Cost(l) == IF l[2] = 0 THEN NumTrials ELSE 1

VARIABLES
  single,    \* the parent is v0 and this is the first screen
  stage,     \* where run_pair_from_main is
  side,      \* the side whose trials are retried
  round,     \* retry rounds made for it
  failures,  \* the failed trials the call last computed
  at,        \* where the run_version call of each lane is
  bought,    \* repairs paid in this call
  job,       \* ledger: the lane's job
  held,      \* ledger: units reserved
  spent,     \* ledger: units charged
  kept,      \* disk: retained trials without a result file
  out,       \* disk: the result file of each side
  mark,      \* disk: paired_infrastructure_valid in it
  retries,   \* disk: the result files of the retries, per trial
  mishaps

call   == <<single, stage, side, round, failures>>
ledger == <<job, held, spent>>
disk   == <<kept, out, mark, retries>>
vars   == <<call, at, bought, ledger, disk, mishaps>>

(* A trial of a result file: whether it is evidence, and the retry it came  *)
(* from (0 for the first run).                                              *)
Trial  == [ok : BOOLEAN, from : Nat]
NoFile == <<>>

Remaining == Capacity - held - spent

AtRest == {"off", "done", "failed", "refused"}
Places == {"begin", "reserved", "run", "repair", "write", "settle"} \cup AtRest

NoBatch == [res |-> <<>>, broken |-> FALSE]
Batches(l) == [res : [LaneTrials(l) -> BOOLEAN], broken : BOOLEAN]

PairTypeOK ==
  /\ single \in BOOLEAN
  /\ stage \in {"idle", "pair", "decide", "retry", "retrying", "finish",
                "annotate", "returned", "raised", "down"}
  /\ side \in Sides
  /\ round \in 0..Rounds
  /\ failures \subseteq Sides \X Trials
  /\ at \in [Lanes -> Places]
  /\ bought \in Nat /\ held \in Nat /\ spent \in Nat
  /\ job \in [Lanes -> {"none", "reserved", "launched"}]
  /\ \A l \in Lanes : kept[l] \in Batches(l) \cup {NoBatch}
  /\ out \in [Sides -> [Trials -> Trial] \cup {NoFile}]
  /\ mark \in [Sides -> {"none", "valid", "invalid"}]
  /\ retries \in [Sides \X Trials -> Seq(BOOLEAN)]
  /\ mishaps \in 0..MaxMishaps

Init ==
  /\ single \in BOOLEAN
  /\ stage = "idle" /\ side = "parent" /\ round = 0 /\ failures = {}
  /\ at = [l \in Lanes |-> "off"]
  /\ bought = 0
  /\ job = [l \in Lanes |-> "none"] /\ held = 0 /\ spent = 0
  /\ kept = [l \in Lanes |-> NoBatch]
  /\ out = [s \in Sides |-> NoFile]
  /\ mark = [s \in Sides |-> "none"]
  /\ retries = [u \in Sides \X Trials |-> <<>>]
  /\ mishaps = 0

-----------------------------------------------------------------------------
(* rollout_infrastructure_failures of one side.                             *)
Failed(s) == IF out[s] = NoFile THEN {} ELSE {t \in Trials : ~out[s][t].ok}

(* paired_infrastructure_failures: a slot that failed on either side.       *)
PairFailures == {u \in Sides \X Trials : u[2] \in Failed(u[1])}

(* _latest_valid_trial_retry.                                               *)
ValidRetries(u) == {n \in 1..Len(retries[u]) : retries[u][n]}

(* Mutated form: a crash forgets that a retry has answered.                 *)
NoRetryAnswered(u) == u \notin Sides \X Trials

RetryAnswered(u) == ValidRetries(u) # {}

HasFile(l) == l[2] = 0 /\ out[l[1]] # NoFile

-----------------------------------------------------------------------------
(* run_version in one lane.                                                 *)
Moves(l, place) == at' = [at EXCEPT ![l] = place]

UseFile(l) ==
  /\ at[l] = "begin"
  /\ HasFile(l) \/ (l[2] # 0 /\ RetryAnswered(l))
  /\ Moves(l, "done")
  /\ UNCHANGED <<call, bought, ledger, disk, mishaps>>

NoFileYet(l) ==
  at[l] = "begin" /\ ~HasFile(l) /\ (l[2] # 0 => ~RetryAnswered(l))

(* recover_retained: the trials ran, their result was never written.        *)
RecoverKept(l) ==
  /\ NoFileYet(l) /\ kept[l] # NoBatch
  /\ Moves(l, IF kept[l].broken THEN "repair"
              ELSE IF OpenCode /\ \E t \in LaneTrials(l) : ~kept[l].res[t]
                THEN "failed"
              ELSE "write")
  /\ UNCHANGED <<call, bought, ledger, disk, mishaps>>

(* A job that a process left launched is used again.                        *)
ReuseJob(l) ==
  /\ NoFileYet(l) /\ kept[l] = NoBatch /\ job[l] = "launched"
  /\ Moves(l, "run")
  /\ UNCHANGED <<call, bought, ledger, disk, mishaps>>

NeedsJob(l) == NoFileYet(l) /\ kept[l] = NoBatch /\ job[l] = "none"

ReserveLane(l) ==
  /\ NeedsJob(l) /\ Cost(l) <= Remaining
  /\ job' = [job EXCEPT ![l] = "reserved"]
  /\ held' = held + Cost(l)
  /\ Moves(l, "reserved")
  /\ UNCHANGED <<call, bought, spent, disk, mishaps>>

LaneRefused(l) ==
  /\ NeedsJob(l) /\ Cost(l) > Remaining
  /\ Moves(l, "refused")
  /\ UNCHANGED <<call, bought, ledger, disk, mishaps>>

(* claim_launch and mark_launched.                                          *)
LaunchLane(l) ==
  /\ at[l] = "reserved"
  /\ job' = [job EXCEPT ![l] = "launched"]
  /\ held' = held - Cost(l) /\ spent' = spent + Cost(l)
  /\ Moves(l, "run")
  /\ UNCHANGED <<call, bought, disk, mishaps>>

(* service.run: the traces are validated unless a trial failed.             *)
RunLane(l) ==
  /\ at[l] = "run"
  /\ \E b \in Batches(l) :
       /\ b.broken => \A t \in LaneTrials(l) : b.res[t]
       /\ kept' = [kept EXCEPT ![l] = b]
       /\ Moves(l, IF b.broken THEN "repair" ELSE "write")
  /\ UNCHANGED <<call, bought, ledger, out, mark, retries, mishaps>>

LaneFails(l) ==
  /\ at[l] = "run"
  /\ job' = [job EXCEPT ![l] = "none"]
  /\ Moves(l, "failed")
  /\ UNCHANGED <<call, bought, held, spent, disk, mishaps>>

(* _repair_incomplete_rollout pays one unit, and the repaired trial may be  *)
(* one that failed before it interacted.                                    *)
RepairLane(l) ==
  /\ at[l] = "repair" /\ Remaining >= 1
  /\ spent' = spent + 1 /\ bought' = bought + 1
  /\ \/ /\ \E t \in LaneTrials(l), ok \in BOOLEAN :
             kept' = [kept EXCEPT ![l].broken = FALSE, ![l].res[t] = ok]
        /\ Moves(l, "write")
     \/ Moves(l, "failed") /\ UNCHANGED kept
  /\ UNCHANGED <<call, job, held, out, mark, retries, mishaps>>

RepairRefused(l) ==
  /\ at[l] = "repair" /\ Remaining < 1
  /\ Moves(l, "failed")
  /\ UNCHANGED <<call, bought, ledger, disk, mishaps>>

(* The result file is written, then the job is settled.                     *)
WriteLane(l) ==
  /\ at[l] = "write"
  /\ LET res == kept[l].res IN
       IF l[2] = 0
         THEN /\ out' = [out EXCEPT ![l[1]] =
                           [t \in Trials |-> [ok |-> res[t], from |-> 0]]]
              /\ UNCHANGED retries
         ELSE /\ retries' = [retries EXCEPT ![l] = Append(@, res[l[2]])]
              /\ UNCHANGED out
  /\ kept' = [kept EXCEPT ![l] = NoBatch]
  /\ Moves(l, "settle")
  /\ UNCHANGED <<call, bought, ledger, mark, mishaps>>

SettleLane(l) ==
  /\ at[l] = "settle"
  /\ job' = [job EXCEPT ![l] = "none"]
  /\ Moves(l, "done")
  /\ UNCHANGED <<call, bought, held, spent, disk, mishaps>>

LaneStep(l) ==
  \/ UseFile(l) \/ RecoverKept(l) \/ ReuseJob(l)
  \/ ReserveLane(l) \/ LaneRefused(l) \/ LaunchLane(l)
  \/ RunLane(l) \/ LaneFails(l) \/ RepairLane(l) \/ RepairRefused(l)
  \/ WriteLane(l) \/ SettleLane(l)

-----------------------------------------------------------------------------
Started == IF single THEN {Side("candidate")} ELSE {Side(s) : s \in Sides}

(* Mutated form: one side's trials are checked for both.                    *)
RequiredForOne == NumTrials

(* run_exact_pair: the sides that have neither a result nor a job.          *)
RequiredCreations ==
  NumTrials * Cardinality({s \in Sides : out[s] = NoFile
                                         /\ job[Side(s)] # "launched"})

StartSides ==
  /\ stage = "idle"
  /\ single \/ Remaining >= RequiredCreations
  /\ at' = [l \in Lanes |-> IF l \in Started THEN "begin" ELSE "off"]
  /\ stage' = "pair" /\ bought' = 0
  /\ UNCHANGED <<single, side, round, failures, ledger, disk, mishaps>>

CannotFund ==
  /\ stage = "idle"
  /\ ~single /\ Remaining < RequiredCreations
  /\ stage' = "raised"
  /\ UNCHANGED <<single, side, round, failures, at, bought, ledger, disk,
                 mishaps>>

LanesRest == \A l \in Lanes : at[l] \in AtRest
SomeFailed == \E l \in Lanes : at[l] \in {"failed", "refused"}

(* Mutated form: the call raises only when every lane has failed.           *)
RaisesWhenAllFail ==
  /\ stage \in {"pair", "retrying"} /\ LanesRest
  /\ \A l \in Lanes : at[l] # "done"
  /\ stage' = "raised"
  /\ UNCHANGED <<single, side, round, failures, at, bought, ledger, disk,
                 mishaps>>

(* A side or a retry that raised is reported once all have ended.           *)
CallRaises ==
  /\ stage \in {"pair", "retrying"} /\ LanesRest /\ SomeFailed
  /\ stage' = "raised"
  /\ UNCHANGED <<single, side, round, failures, at, bought, ledger, disk,
                 mishaps>>

SidesReturn ==
  /\ stage = "pair" /\ LanesRest /\ ~SomeFailed
  /\ stage' = IF single THEN "retry" ELSE "decide"
  /\ side' = IF single THEN "candidate" ELSE "parent"
  /\ round' = 0
  /\ failures' = PairFailures
  /\ at' = [l \in Lanes |-> "off"]
  /\ UNCHANGED <<single, bought, ledger, disk, mishaps>>

(* Mutated form: only the retries have to be affordable.                    *)
DecideWithoutReserve ==
  /\ stage = "decide"
  /\ stage' = IF failures # {} /\ Remaining >= Cardinality(failures)
                THEN "retry" ELSE "annotate"
  /\ side' = IF stage' = "retry" THEN "parent" ELSE "candidate"
  /\ UNCHANGED <<single, round, failures, at, bought, ledger, disk, mishaps>>

(* The failures of a pair are retried when the review stays affordable.     *)
DecideRetry ==
  /\ stage = "decide"
  /\ stage' = IF failures # {}
                 /\ Remaining >= Cardinality(failures) + ReviewReserve
                THEN "retry" ELSE "annotate"
  /\ side' = IF stage' = "retry" THEN "parent" ELSE "candidate"
  /\ UNCHANGED <<single, round, failures, at, bought, ledger, disk, mishaps>>

Reserve == IF single THEN ReviewReserve ELSE 0

RoundAffordable == Remaining >= Cardinality(Failed(side)) + Reserve

AnotherRound == round < Rounds /\ Failed(side) # {} /\ RoundAffordable

(* Mutated form: every trial of the side is run again.                      *)
RetryEveryTrial ==
  /\ stage = "retry" /\ AnotherRound
  /\ at' = [l \in Lanes |-> IF l[1] = side /\ l[2] # 0 THEN "begin" ELSE "off"]
  /\ stage' = "retrying"
  /\ UNCHANGED <<single, side, round, failures, bought, ledger, disk, mishaps>>

(* _retry_invalid_trials: one label for each failed task and slot.          *)
RetryTargets ==
  /\ stage = "retry" /\ AnotherRound
  /\ at' = [l \in Lanes |-> IF l \in {side} \X Failed(side)
                              THEN "begin" ELSE "off"]
  /\ stage' = "retrying"
  /\ UNCHANGED <<single, side, round, failures, bought, ledger, disk, mishaps>>

(* The valid retry of a trial, or else its last one.                        *)
Replacement(u) ==
  LET n == IF RetryAnswered(u) THEN CHOOSE k \in ValidRetries(u) : TRUE
                               ELSE Len(retries[u])
  IN [ok |-> retries[u][n], from |-> n]

(* _merge_trial_retries rewrites the side's result file.                    *)
MergeRetries ==
  /\ stage = "retrying" /\ LanesRest /\ ~SomeFailed
  /\ out' = [out EXCEPT ![side] =
               [t \in Trials |-> IF at[<<side, t>>] = "done"
                                   THEN Replacement(<<side, t>>)
                                   ELSE out[side][t]]]
  /\ round' = round + 1
  /\ at' = [l \in Lanes |-> "off"]
  /\ stage' = "retry"
  /\ UNCHANGED <<single, side, failures, bought, ledger, kept, mark, retries,
                 mishaps>>

(* The parent's retries are followed by the candidate's, and these by a new *)
(* look at both sides.                                                      *)
RetriesEnd ==
  /\ stage = "retry" /\ ~AnotherRound
  /\ IF side = "parent"
       THEN side' = "candidate" /\ round' = 0 /\ UNCHANGED <<stage, failures>>
       ELSE /\ stage' = IF single THEN "finish" ELSE "annotate"
            /\ failures' = PairFailures
            /\ UNCHANGED <<side, round>>
  /\ UNCHANGED <<single, at, bought, ledger, disk, mishaps>>

(* A screen of v0 must not hand on a failed trial.                          *)
FinishSingle ==
  /\ stage = "finish"
  /\ stage' = IF failures = {} THEN "returned" ELSE "raised"
  /\ UNCHANGED <<single, side, round, failures, at, bought, ledger, disk,
                 mishaps>>

(* annotate_paired_validity: first the candidate's file, then the parent's. *)
Annotate ==
  /\ stage = "annotate"
  /\ mark' = [mark EXCEPT ![side] =
                 IF failures = {} THEN "valid" ELSE "invalid"]
  /\ IF side = "candidate" THEN side' = "parent" /\ UNCHANGED stage
                           ELSE stage' = "returned" /\ UNCHANGED side
  /\ UNCHANGED <<single, round, failures, at, bought, ledger, kept, out,
                 retries, mishaps>>

CallStep ==
  \/ StartSides \/ CannotFund \/ CallRaises \/ SidesReturn \/ DecideRetry
  \/ RetryTargets \/ MergeRetries \/ RetriesEnd \/ FinishSingle \/ Annotate

-----------------------------------------------------------------------------
(* The controller dies, here or later, or an error has ended it.            *)
Crash ==
  /\ stage # "down"
  /\ mishaps < MaxMishaps /\ mishaps' = mishaps + 1
  /\ stage' = "down" /\ side' = "parent" /\ round' = 0 /\ failures' = {}
  /\ at' = [l \in Lanes |-> "off"]
  /\ UNCHANGED <<single, bought, ledger, disk>>

(* recover_interrupted_jobs, and the same call again.                       *)
Restart ==
  /\ stage = "down"
  /\ held' = 0
  /\ job' = [l \in Lanes |-> "none"]
  /\ stage' = "idle"
  /\ UNCHANGED <<single, side, round, failures, at, bought, spent, disk,
                 mishaps>>

(* run_rollout.py was started on the same label and killed after its launch.*)
ScriptDies(s) ==
  /\ stage = "idle" /\ out[s] = NoFile /\ (single => s = "candidate")
  /\ job[Side(s)] = "none" /\ kept[Side(s)] = NoBatch
  /\ NumTrials <= Remaining
  /\ mishaps < MaxMishaps /\ mishaps' = mishaps + 1
  /\ job' = [job EXCEPT ![Side(s)] = "launched"]
  /\ spent' = spent + NumTrials
  /\ UNCHANGED <<call, at, bought, held, disk>>

Next ==
  \/ CallStep
  \/ \E l \in Lanes : LaneStep(l)
  \/ Crash \/ Restart
  \/ \E s \in Sides : ScriptDies(s)

(* Every wait of a rollout has a timeout and both pools join their threads. *)
Fairness == /\ WF_vars(CallStep)
            /\ \A l \in Lanes : WF_vars(LaneStep(l))

Spec == Init /\ [][Next]_vars /\ Fairness

-----------------------------------------------------------------------------
(* _merge_trial_retries: "Replace only invalid slots and retain every valid *)
(* initial trial".  Over rounds, crashes and repeated calls, a trial that   *)
(* is evidence stays in its side's file, from the run it came from.         *)
ValidEvidenceKept ==
  [][\A s \in Sides : out[s] # NoFile =>
       /\ out'[s] # NoFile
       /\ \A t \in Trials : out[s][t].ok => out'[s][t] = out[s][t]]_vars

(* _latest_valid_trial_retry: "Reuse a completed one-trial retry before     *)
(* charging another attempt".  No retry follows one that succeeded, not     *)
(* even when the process died before the success was merged.                *)
RetriesStopAtSuccess ==
  \A u \in Sides \X Trials : \A n \in ValidRetries(u) : n = Len(retries[u])

(* The one check before the two threads start pays for both: a side is      *)
(* refused only when a repair on the other side took units after the check. *)
CheckPaysForBothSides ==
  \A s \in Sides : at[Side(s)] = "refused" /\ ~single => bought > 0

(* While the trials of a v0 screen are retried, the units of its review are *)
(* left, but for repairs paid meanwhile.                                    *)
ReviewStaysAffordable ==
  single /\ (\E t \in Trials : at[<<"candidate", t>>] # "off")
    => Remaining + bought >= ReviewReserve

(* The rounds of a pair compare with no reserve at all.  After the one      *)
(* comparison before them, what they take from the review's units is at     *)
(* most one unit per repair and per retry that failed.                      *)
FailedRetries ==
  UNION {{u} \X {n \in DOMAIN retries[u] : ~retries[u][n]} :
           u \in Sides \X Trials}

PairReserveLostToFailures ==
  ~single /\ stage = "retrying"
    => Remaining + bought + Cardinality(FailedRetries) >= ReviewReserve

(* A file that says the pair is valid tells the truth at any time, also in  *)
(* the middle of a later call and when only one of the files was annotated. *)
MarkedValidIsValid ==
  \A s \in Sides : mark[s] = "valid" =>
    \A r \in Sides : out[r] # NoFile /\ Failed(r) = {}

(* What the call returns is complete: a v0 screen has no failed trial, and  *)
(* both files of a pair carry the same annotation, the right one.           *)
ReturnedPairIsAnnotated ==
  stage = "returned" =>
    IF single
      THEN out["candidate"] # NoFile /\ Failed("candidate") = {}
      ELSE \A s \in Sides :
             /\ out[s] # NoFile
             /\ mark[s] = IF PairFailures = {} THEN "valid" ELSE "invalid"

(* The invariant of a pair: its types, no retry after a success, and two    *)
(* files whose annotations are true, the same, and there on return.         *)
PairInv ==
  /\ PairTypeOK
  /\ RetriesStopAtSuccess
  /\ MarkedValidIsValid
  /\ ReturnedPairIsAnnotated

(* What targeted retries may take from the units of the review: nothing     *)
(* while a v0 screen is retried, what failed while a pair is.               *)
RetriesLeaveReview == ReviewStaysAffordable /\ PairReserveLostToFailures

(* The lanes of both sides, their retries and repairs, a script and every   *)
(* recovery after a crash use the units as the meter allows that the ledger *)
(* implements (CreationBudget): no order of them holds and spends more than *)
(* there is, or spends what was not held or free.                           *)
Meter == INSTANCE UnitMeter WITH capacity <- Capacity

UsesMeter == Meter!Spec

(* The call ends: rounds, threads and repairs never wait for each other.    *)
CallEnds == stage = "idle" ~> stage \in {"returned", "raised", "down"}
=============================================================================
