---------------------------- MODULE SessionLaunch ----------------------------
(* How intelligent sessions are opened against the ledger: the callers of   *)
(* IntelligentHarnessRunner.run_json and of the session adapters            *)
(* (native_intelligent_runtime.py, opencode_runtime.py), the controller     *)
(* process whose worker threads call them, the advanced stage scripts that  *)
(* use the same ledger without the controller lock, and crashes and         *)
(* restarts of both.                                                        *)
EXTENDS CreationBudget

CONSTANTS
  Threads,   \* worker threads of the controller process
  Scripts    \* stage scripts working on the same run directory

ASSUME CallersAssumption == Threads \cap Scripts = {}

VARIABLES
  pc,            \* where each caller is inside run_json
  mine,          \* the job identifier each caller works with
  opened,        \* sessions really started for each job (Popen succeeded)
  controllerUp   \* a controller holds the controller lock

vars == <<jobs, pc, mine, opened, controllerUp>>

Callers == Threads \cup Scripts

NoJob == <<"none", 0>>

AtRest == {"idle", "refused", "raised"}

Places == {"named", "reserved", "claimed", "opened", "live"} \cup AtRest

LaunchTypeOK ==
  /\ TypeOK
  /\ pc \in [Callers -> Places]
  /\ mine \in [Callers -> JobIds \cup {NoJob}]
  /\ \A c \in Callers : pc[c] \in AtRest <=> mine[c] = NoJob
  /\ opened \in [JobIds -> Nat]
  /\ controllerUp \in BOOLEAN

Init ==
  /\ LedgerInit
  /\ pc = [c \in Callers |-> "idle"]
  /\ mine = [c \in Callers |-> NoJob]
  /\ opened = [j \in JobIds |-> 0]
  /\ controllerUp = FALSE

-----------------------------------------------------------------------------
Running(c) == c \in Scripts \/ controllerUp

Goes(c, place) == /\ pc' = [pc EXCEPT ![c] = place]
                  /\ UNCHANGED <<mine, controllerUp>>

Returns(c, place) == /\ pc' = [pc EXCEPT ![c] = place]
                     /\ mine' = [mine EXCEPT ![c] = NoJob]
                     /\ UNCHANGED controllerUp

(* An error of the ledger or of the preparation ends a script; a worker of  *)
(* the controller hands it to its caller.                                   *)
Raises(c) == Returns(c, IF c \in Threads THEN "refused" ELSE "idle")

(* Concurrent workers of one controller have distinct labels and so never   *)
(* ask for the same base at once.  Nothing keeps a script from doing so.    *)
BaseIsFree(c, b) ==
  c \in Threads => \A t \in Threads \ {c} : mine[t][1] # b

(* job_id=budget.next_attempt_id(base): its own critical section.           *)
NameAttempt(c, b) ==
  /\ pc[c] = "idle" /\ Running(c)
  /\ BaseIsFree(c, b)
  /\ NoActiveAttempt(b)
  /\ NextAttempt(b) \in JobIds
  /\ mine' = [mine EXCEPT ![c] = NextAttempt(b)]
  /\ pc' = [pc EXCEPT ![c] = "named"]
  /\ UNCHANGED <<jobs, opened, controllerUp>>

(* The adapter goes on when reserve returns a record that is "reserved",    *)
(* the one it made or the one another caller made.                          *)
ReserveSession(c) ==
  /\ pc[c] = "named" /\ Running(c)
  /\ \/ Reserve(mine[c], 1)
     \/ jobs[mine[c]].status = "reserved" /\ UNCHANGED jobs
  /\ Goes(c, "reserved")
  /\ UNCHANGED opened

(* The budget is exhausted, or the identifier is already past "reserved".   *)
ReserveRefused(c) ==
  /\ pc[c] = "named" /\ Running(c)
  /\ \/ jobs[mine[c]].status = "absent" /\ Remaining < 1
     \/ jobs[mine[c]].status \notin {"absent", "reserved"}
  /\ Raises(c)
  /\ UNCHANGED <<jobs, opened>>

ClaimSession(c) ==
  /\ pc[c] = "reserved" /\ Running(c)
  /\ ClaimLaunch(mine[c])
  /\ Goes(c, "claimed")
  /\ UNCHANGED opened

ClaimRefused(c) ==
  /\ pc[c] = "reserved" /\ Running(c)
  /\ jobs[mine[c]].status \notin HeldStatuses
  /\ Raises(c)
  /\ UNCHANGED <<jobs, opened>>

(* Configuration, proxy and sandbox are prepared and Popen succeeds.        *)
OpenSession(c) ==
  /\ pc[c] = "claimed" /\ Running(c)
  /\ opened' = [opened EXCEPT ![mine[c]] = @ + 1]
  /\ Goes(c, "opened")
  /\ UNCHANGED jobs

(* Mutated form: a failed preparation does not refund.                      *)
OpenFailsUnrefunded(c) ==
  /\ pc[c] = "claimed" /\ Running(c)
  /\ Raises(c)
  /\ UNCHANGED <<jobs, opened>>

(* Preparation or Popen raises: the reservation is refunded, or the refund  *)
(* itself is refused because the record has moved on; either way the error  *)
(* propagates.                                                              *)
OpenFails(c) ==
  /\ pc[c] = "claimed" /\ Running(c)
  /\ \/ RefundBeforeLaunch(mine[c])
     \/ /\ jobs[mine[c]].status
             \notin HeldStatuses \cup {"refunded_before_launch"}
        /\ UNCHANGED jobs
  /\ Raises(c)
  /\ UNCHANGED opened

(* The native adapter makes the workspace between the claim and its try: an *)
(* error there leaves the claim and takes its process down.                 *)
LoseClaim(c) ==
  /\ pc[c] = "claimed" /\ Running(c)
  /\ Returns(c, IF c \in Threads THEN "raised" ELSE "idle")
  /\ UNCHANGED <<jobs, opened>>

MarkSession(c) ==
  /\ pc[c] = "opened" /\ Running(c)
  /\ MarkLaunched(mine[c])
  /\ Goes(c, "live")
  /\ UNCHANGED opened

(* mark_launched is outside the adapter's try: the child keeps running.     *)
MarkRefused(c) ==
  /\ pc[c] = "opened" /\ Running(c)
  /\ jobs[mine[c]].status \notin HeldStatuses \cup {"launched"}
  /\ Raises(c)
  /\ UNCHANGED <<jobs, opened>>

(* The session ends or hits its timeout, and the job is settled.            *)
FinishSession(c) ==
  /\ pc[c] = "live" /\ Running(c)
  /\ \E o \in {"completed", "failed"} : Settle(mine[c], o)
  /\ Returns(c, "idle")
  /\ UNCHANGED opened

(* An error other than the timeout after the launch mark (a broken prompt   *)
(* pipe, an artifact that cannot be written) skips settle: the job stays    *)
(* launched and the error takes its process down.                           *)
LoseSession(c) ==
  /\ pc[c] = "live" /\ Running(c)
  /\ Returns(c, IF c \in Threads THEN "raised" ELSE "idle")
  /\ UNCHANGED <<jobs, opened>>

ThreadStep(t) ==
  \/ ReserveSession(t) \/ ReserveRefused(t)
  \/ ClaimSession(t)   \/ ClaimRefused(t)
  \/ OpenSession(t)    \/ OpenFails(t) \/ LoseClaim(t)
  \/ MarkSession(t)    \/ MarkRefused(t)
  \/ FinishSession(t)  \/ LoseSession(t)

-----------------------------------------------------------------------------
Forget(callers) ==
  /\ pc' = [c \in Callers |-> IF c \in callers THEN "idle" ELSE pc[c]]
  /\ mine' = [c \in Callers |-> IF c \in callers THEN NoJob ELSE mine[c]]

(* Mutated form: the controller lock is not taken.                          *)
StartControllerUnlocked ==
  /\ controllerUp' = TRUE
  /\ RecoverInterruptedJobs
  /\ UNCHANGED <<pc, mine, opened>>

(* run: take the controller lock, then close what an earlier controller     *)
(* left behind, before any worker starts.                                   *)
StartController ==
  /\ ~controllerUp
  /\ controllerUp' = TRUE
  /\ RecoverInterruptedJobs
  /\ UNCHANGED <<pc, mine, opened>>

(* The process dies, or ends with an exception, at any point.               *)
StopController ==
  /\ controllerUp
  /\ controllerUp' = FALSE
  /\ Forget(Threads)
  /\ UNCHANGED <<jobs, opened>>

(* The harness editor runs alone; the controller records its ValueError or  *)
(* RuntimeError as a failed materialization and goes on.                    *)
SwallowError(t) ==
  /\ pc[t] = "refused"
  /\ \A u \in Threads \ {t} : pc[u] = "idle"
  /\ Returns(t, "idle")
  /\ UNCHANGED <<jobs, opened>>

(* The executor has joined the other workers and the error leaves run.      *)
ControllerFails ==
  /\ \E t \in Threads : pc[t] \in {"refused", "raised"}
  /\ \A t \in Threads : pc[t] \in AtRest
  /\ StopController

ScriptStops(s) ==
  /\ Forget({s})
  /\ UNCHANGED <<jobs, opened, controllerUp>>

Next ==
  \/ \E c \in Callers, b \in Bases : NameAttempt(c, b)
  \/ \E c \in Callers : ThreadStep(c)
  \/ StartController
  \/ StopController
  \/ \E t \in Threads : SwallowError(t)
  \/ \E s \in Scripts : ScriptStops(s)

(* Every wait of an adapter has a timeout and every step before it is       *)
(* local, so a started call goes on; a raised error reaches the top.        *)
Fairness ==
  /\ \A t \in Threads : WF_vars(ThreadStep(t))
  /\ WF_vars(ControllerFails)

Spec == Init /\ [][Next]_vars /\ Fairness

-----------------------------------------------------------------------------
(* Units charged or held for a job in the ledger.                           *)
Charge(j) == IF jobs[j].status \in HeldStatuses \cup SpentStatuses
               THEN jobs[j].count ELSE 0

(* docs/architecture_zh.md: every intelligent session is charged on its     *)
(* own.  However launches, refunds, crashes and recoveries interleave, the  *)
(* sessions really started for a job never exceed the units it holds or has *)
(* spent: no session runs for free, even if the crash falls between Popen   *)
(* and the launch mark.                                                     *)
EverySessionCharged == \A j \in JobIds : opened[j] <= Charge(j)

(* rollout.py treats two active attempts of one base as a ledger corruption *)
(* ("multiple active rollout jobs").  Attempts are named in one critical    *)
(* section and reserved in another; still no interleaving, not even with a  *)
(* script that holds an old name, makes two attempts of a base active.      *)
OneActiveAttempt ==
  \A b \in Bases, m, n \in 1..MaxAttempts :
    /\ jobs[<<b, m>>].status \in ActiveStatuses
    /\ jobs[<<b, n>>].status \in ActiveStatuses
    => m = n

(* A worker of the controller never meets a ledger that contradicts it:     *)
(* the job it works on is in the state its own calls have put it in.  A     *)
(* recovery may only run when no worker of the old controller is left.      *)
LedgerAgreesWithWorkers ==
  \A t \in Threads :
    /\ pc[t] = "named" => jobs[mine[t]].status = "absent"
    /\ pc[t] = "reserved" => jobs[mine[t]].status = "reserved"
    /\ pc[t] \in {"claimed", "opened"} =>
         jobs[mine[t]].status = "launch_claimed"
    /\ pc[t] = "live" => jobs[mine[t]].status = "launched"

(* While the controller stays up, no reservation is held for ever: each is  *)
(* settled or refunded, or the error that prevented it stops the controller *)
(* (whose restart closes it).  Otherwise next_attempt_id would refuse the   *)
(* work of that base from then on.                                          *)
ReservationsClose ==
  \A j \in JobIds :
    (jobs[j].status \in ActiveStatuses) ~>
      (jobs[j].status \notin ActiveStatuses \/ ~controllerUp)
=============================================================================
