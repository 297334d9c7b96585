------------------------- MODULE SessionLaunchProofs -------------------------
(* The launch protocol for every number of workers and scripts, every set   *)
(* of jobs and every budget.  First: its ledger is the ledger of            *)
(* CreationBudget, so the theorems about LedgerSpec hold of it.  Then, with *)
(* scripts: one active attempt of a base.  Then, without scripts: workers   *)
(* and ledger agree, and every session is charged.                          *)
EXTENDS SessionLaunch, CreationBudgetProofs

Busy(c) == pc[c] \notin AtRest

LEMMA OneUnit == 1 \in 1..MaxCount
BY BudgetAssumption

LEMMA NoJobIsNoJob == NoJob \notin JobIds
BY BudgetAssumption DEF NoJob, JobIds

LEMMA BusyHasJob ==
  ASSUME LaunchTypeOK, NEW c \in Callers, Busy(c)
  PROVE  mine[c] \in JobIds
BY DEF LaunchTypeOK, Busy

(* What a step of a caller does to the ledger, method by method.            *)
CallerMethod(c) ==
  \/ Reserve(mine[c], 1)
  \/ ClaimLaunch(mine[c])
  \/ RefundBeforeLaunch(mine[c])
  \/ MarkLaunched(mine[c])
  \/ \E o \in {"completed", "failed"} : Settle(mine[c], o)

LEMMA ThreadStepMethods ==
  ASSUME NEW c \in Callers, ThreadStep(c)
  PROVE  Busy(c) /\ (CallerMethod(c) \/ UNCHANGED jobs)
<1>. USE DEF Busy, AtRest, CallerMethod
<1>1. CASE ReserveSession(c)  BY <1>1 DEF ReserveSession
<1>2. CASE ReserveRefused(c)  BY <1>2 DEF ReserveRefused
<1>3. CASE ClaimSession(c)    BY <1>3 DEF ClaimSession
<1>4. CASE ClaimRefused(c)    BY <1>4 DEF ClaimRefused
<1>5. CASE OpenSession(c)     BY <1>5 DEF OpenSession
<1>6. CASE OpenFails(c)       BY <1>6 DEF OpenFails
<1>7. CASE LoseClaim(c)       BY <1>7 DEF LoseClaim
<1>8. CASE MarkSession(c)     BY <1>8 DEF MarkSession
<1>9. CASE MarkRefused(c)     BY <1>9 DEF MarkRefused
<1>10. CASE FinishSession(c)  BY <1>10 DEF FinishSession
<1>11. CASE LoseSession(c)    BY <1>11 DEF LoseSession
<1>. QED  BY <1>1, <1>2, <1>3, <1>4, <1>5, <1>6, <1>7, <1>8, <1>9, <1>10,
             <1>11 DEF ThreadStep

LEMMA LedgerStep == LaunchTypeOK /\ [Next]_vars => [LedgerNext]_jobs
<1>. SUFFICES ASSUME LaunchTypeOK, [Next]_vars PROVE [LedgerNext]_jobs
  OBVIOUS
<1>1. ASSUME NEW c \in Callers, ThreadStep(c)
      PROVE  [LedgerNext]_jobs
  <2>1. mine[c] \in JobIds
    BY <1>1, ThreadStepMethods, BusyHasJob
  <2>. QED  BY <1>1, <2>1, ThreadStepMethods, OneUnit
            DEF CallerMethod, LedgerNext
<1>2. ASSUME NEW c \in Callers, NEW b \in Bases, NameAttempt(c, b)
      PROVE  UNCHANGED jobs
  BY <1>2 DEF NameAttempt
<1>3. CASE StartController
  BY <1>3 DEF StartController, LedgerNext
<1>4. CASE StopController
  BY <1>4 DEF StopController
<1>5. ASSUME NEW t \in Threads, SwallowError(t)
      PROVE  UNCHANGED jobs
  BY <1>5 DEF SwallowError
<1>6. ASSUME NEW s \in Scripts, ScriptStops(s)
      PROVE  UNCHANGED jobs
  BY <1>6 DEF ScriptStops
<1>7. CASE UNCHANGED vars
  BY <1>7 DEF vars
<1>. QED  BY <1>1, <1>2, <1>3, <1>4, <1>5, <1>6, <1>7 DEF Next

-----------------------------------------------------------------------------
(* The callers' places and identifiers keep their shape.                    *)
LEMMA PlaceStep ==
  ASSUME LaunchTypeOK, NEW c \in Callers, ThreadStep(c)
  PROVE  /\ UNCHANGED controllerUp
         /\ \E p \in Places :
              /\ pc' = [pc EXCEPT ![c] = p]
              /\ mine' = IF p \in AtRest THEN [mine EXCEPT ![c] = NoJob]
                         ELSE mine
         /\ \/ opened' = opened
            \/ opened' = [opened EXCEPT ![mine[c]] = @ + 1]
<1>. USE DEF Goes, Returns, Raises, Places, AtRest
<1>1. CASE ReserveSession(c)  BY <1>1 DEF ReserveSession
<1>2. CASE ReserveRefused(c)  BY <1>2 DEF ReserveRefused
<1>3. CASE ClaimSession(c)    BY <1>3 DEF ClaimSession
<1>4. CASE ClaimRefused(c)    BY <1>4 DEF ClaimRefused
<1>5. CASE OpenSession(c)     BY <1>5 DEF OpenSession
<1>6. CASE OpenFails(c)       BY <1>6 DEF OpenFails
<1>7. CASE LoseClaim(c)       BY <1>7 DEF LoseClaim
<1>8. CASE MarkSession(c)     BY <1>8 DEF MarkSession
<1>9. CASE MarkRefused(c)     BY <1>9 DEF MarkRefused
<1>10. CASE FinishSession(c)  BY <1>10 DEF FinishSession
<1>11. CASE LoseSession(c)    BY <1>11 DEF LoseSession
<1>. QED  BY <1>1, <1>2, <1>3, <1>4, <1>5, <1>6, <1>7, <1>8, <1>9, <1>10,
             <1>11 DEF ThreadStep

LEMMA LaunchTypeStep == LaunchTypeOK /\ [Next]_vars => LaunchTypeOK'
<1>. SUFFICES ASSUME LaunchTypeOK, [Next]_vars PROVE LaunchTypeOK'
  OBVIOUS
<1>. DEFINE CallersTyped ==
       /\ pc \in [Callers -> Places]
       /\ mine \in [Callers -> JobIds \cup {NoJob}]
       /\ \A c \in Callers : pc[c] \in AtRest <=> mine[c] = NoJob
<1>1. TypeOK'
  BY LedgerStep, TypeStep DEF LaunchTypeOK
<1>2. ASSUME NEW c \in Callers, ThreadStep(c)
      PROVE  CallersTyped' /\ opened' \in [JobIds -> Nat]
               /\ controllerUp' \in BOOLEAN
  <2>1. mine[c] \in JobIds
    BY <1>2, ThreadStepMethods, BusyHasJob
  <2>2. CallersTyped
    BY DEF LaunchTypeOK
  <2>3. PICK p \in Places :
          /\ pc' = [pc EXCEPT ![c] = p]
          /\ mine' = IF p \in AtRest THEN [mine EXCEPT ![c] = NoJob] ELSE mine
    BY <1>2, PlaceStep
  <2>4. CallersTyped'
    BY <2>1, <2>2, <2>3, NoJobIsNoJob
  <2>5. opened' \in [JobIds -> Nat]
    BY <1>2, <2>1, PlaceStep DEF LaunchTypeOK
  <2>. QED  BY <1>2, <2>4, <2>5, PlaceStep DEF LaunchTypeOK
<1>3. ASSUME NEW c \in Callers, NEW b \in Bases, NameAttempt(c, b)
      PROVE  CallersTyped'
  BY <1>3, NoJobIsNoJob DEF NameAttempt, LaunchTypeOK, Places, AtRest
<1>4. ASSUME NEW callers, Forget(callers)
      PROVE  CallersTyped'
  BY <1>4 DEF Forget, LaunchTypeOK, Places, AtRest
<1>5. ASSUME NEW t \in Threads, SwallowError(t)
      PROVE  CallersTyped'
  BY <1>5 DEF SwallowError, Returns, LaunchTypeOK, Places, AtRest, Callers
<1>6. CASE \/ \E c \in Callers, b \in Bases : NameAttempt(c, b)
           \/ StartController \/ StopController
           \/ \E t \in Threads : SwallowError(t)
           \/ \E s \in Scripts : ScriptStops(s)
           \/ UNCHANGED vars
  <2>1. CallersTyped'
    BY <1>3, <1>4, <1>5, <1>6
       DEF StartController, StopController, ScriptStops, vars, LaunchTypeOK
  <2>2. opened' = opened /\ controllerUp' \in BOOLEAN
    BY <1>6 DEF NameAttempt, StartController, StopController, SwallowError,
                Returns, ScriptStops, vars, LaunchTypeOK
  <2>. QED  BY <1>1, <2>1, <2>2 DEF LaunchTypeOK
<1>7. CASE \E c \in Callers : ThreadStep(c)
  BY <1>1, <1>2, <1>7 DEF LaunchTypeOK
<1>. QED  BY <1>6, <1>7 DEF Next

LEMMA LaunchTypeInit == Init => LaunchTypeOK /\ LedgerInit
<1>. SUFFICES ASSUME Init PROVE LaunchTypeOK /\ LedgerInit
  OBVIOUS
<1>1. LedgerInit /\ TypeOK
  BY NothingTakenInitially DEF Init
<1>2. \A c \in Callers : pc[c] = "idle" /\ mine[c] = NoJob
  BY DEF Init
<1>3. pc \in [Callers -> Places] /\ mine \in [Callers -> JobIds \cup {NoJob}]
  BY DEF Init, Places, AtRest
<1>4. opened \in [JobIds -> Nat] /\ controllerUp \in BOOLEAN
  BY DEF Init
<1>. QED  BY <1>1, <1>2, <1>3, <1>4 DEF LaunchTypeOK, AtRest

(* The launch protocol keeps its types (run_json and its callers).          *)
THEOREM LaunchTypeCorrect == Spec => []LaunchTypeOK
BY LaunchTypeInit, LaunchTypeStep, PTL DEF Spec

(* However callers launch, fail, crash and recover, what happens to the     *)
(* ledger is a sequence of its methods, so what is proved of LedgerSpec     *)
(* holds of the launch protocol.                                            *)
THEOREM LaunchUsesLedger == Spec => LedgerSpec
BY LaunchTypeInit, LaunchTypeStep, LedgerStep, PTL DEF Spec, LedgerSpec

(* In particular the total is a hard limit for the sessions of all callers. *)
THEOREM LaunchNeverOverspends == Spec => []BudgetNeverExceeded
BY LaunchUsesLedger, NeverOverspends, PTL

-----------------------------------------------------------------------------
(* An attempt that has been used up: it has a record and is not active.     *)
Closed(j) == jobs[j].status \notin ActiveStatuses \cup {"absent"}

EarlierClosed(j) ==
  \A m \in 1..MaxAttempts : m < j[2] => Closed(<<j[1], m>>)

(* The inductive invariant behind OneActiveAttempt: before an attempt that  *)
(* has a record, and before one that a caller has named and may reserve     *)
(* later, all attempts of the base are used up.                             *)
Orderly ==
  /\ LaunchTypeOK
  /\ \A j \in JobIds : jobs[j].status # "absent" => EarlierClosed(j)
  /\ \A c \in Callers : Busy(c) => EarlierClosed(mine[c])

(* next_attempt_id counts the records of the base; as they are numbered     *)
(* without gaps the next number has no record and all before it have one.   *)
LEMMA NextAttemptIsNew ==
  ASSUME Orderly, NEW b \in Bases, NoActiveAttempt(b),
         NextAttempt(b) \in JobIds
  PROVE  /\ jobs[NextAttempt(b)].status = "absent"
         /\ EarlierClosed(NextAttempt(b))
<1>. DEFINE k == Cardinality(Matching(b))
<1>1. Matching(b) \subseteq 1..MaxAttempts /\ MaxAttempts \in Nat
  BY BudgetAssumption DEF Matching
<1>2. IsFiniteSet(1..MaxAttempts)
  BY <1>1, FS_Interval
<1>3. IsFiniteSet(Matching(b)) /\ k \in Nat
  BY <1>1, <1>2, FS_Subset, FS_CardinalityType
<1>4. \A n \in Matching(b), m \in 1..MaxAttempts : m < n => m \in Matching(b)
  BY DEF Orderly, EarlierClosed, Closed, Matching, JobIds
<1>5. ASSUME NEW m \in 1..k, m \in 1..MaxAttempts, m \notin Matching(b)
      PROVE  FALSE
  <2>1. Matching(b) \subseteq 1..(m - 1)
    BY <1>1, <1>4, <1>5
  <2>2. IsFiniteSet(1..(m - 1)) /\ Cardinality(1..(m - 1)) = m - 1
    BY <1>1, FS_Interval
  <2>3. k <= m - 1
    BY <2>1, <2>2, FS_Subset
  <2>. QED  BY <1>3, <2>3
<1>6. k + 1 \notin Matching(b)
  <2>1. SUFFICES ASSUME k + 1 \in Matching(b) PROVE FALSE
    OBVIOUS
  <2>2. 1..(k + 1) \subseteq Matching(b)
    BY <1>1, <1>3, <1>4, <2>1
  <2>3. Cardinality(1..(k + 1)) = k + 1
    BY <1>3, FS_Interval
  <2>4. k + 1 <= k
    BY <1>3, <2>2, <2>3, FS_Subset
  <2>. QED  BY <1>3, <2>4
<1>7. NextAttempt(b) = <<b, k + 1>> /\ k + 1 \in 1..MaxAttempts
  BY DEF NextAttempt, JobIds
<1>8. jobs[NextAttempt(b)].status = "absent"
  BY <1>6, <1>7 DEF Matching
<1>9. ASSUME NEW m \in 1..MaxAttempts, m < k + 1
      PROVE  Closed(<<b, m>>)
  <2>1. m \in Matching(b)
    BY <1>1, <1>3, <1>5, <1>9
  <2>. QED  BY <2>1 DEF Matching, NoActiveAttempt, Closed
<1>. QED  BY <1>7, <1>8, <1>9 DEF EarlierClosed

(* A used-up attempt stays used up, and only its caller makes a record.     *)
LEMMA JobsStep ==
  ASSUME LaunchTypeOK, [Next]_vars, NEW i \in JobIds
  PROVE  /\ Closed(i) => Closed(i)'
         /\ jobs'[i].status # "absent" =>
              \/ jobs[i].status # "absent"
              \/ \E c \in Callers : Busy(c) /\ mine[c] = i
<1>. USE DEF Closed, ActiveStatuses, HeldStatuses
<1>1. ASSUME NEW c \in Callers, Busy(c), CallerMethod(c)
      PROVE  /\ Closed(i) => Closed(i)'
             /\ jobs'[i].status # "absent" =>
                  jobs[i].status # "absent" \/ mine[c] = i
  <2>. DEFINE j == mine[c]
  <2>1. j \in JobIds /\ TypeOK
    BY <1>1, BusyHasJob DEF LaunchTypeOK
  <2>2. CASE Reserve(j, 1)
    BY <2>1, <2>2 DEF Reserve, TypeOK
  <2>3. CASE ClaimLaunch(j)
    BY <2>1, <2>3, TransitionFields DEF ClaimLaunch
  <2>4. CASE RefundBeforeLaunch(j)
    BY <2>1, <2>4, TransitionFields DEF RefundBeforeLaunch
  <2>5. CASE MarkLaunched(j)
    BY <2>1, <2>5, TransitionFields DEF MarkLaunched
  <2>6. ASSUME NEW o \in {"completed", "failed"}, Settle(j, o)
        PROVE  /\ Closed(i) => Closed(i)'
               /\ jobs'[i].status # "absent" => jobs[i].status # "absent"
    BY <2>1, <2>6, TransitionFields DEF Settle
  <2>. QED  BY <1>1, <2>2, <2>3, <2>4, <2>5, <2>6 DEF CallerMethod
<1>2. CASE UNCHANGED jobs
  BY <1>2
<1>3. CASE RecoverInterruptedJobs
  <2>1. jobs[i] \in Record /\ jobs'[i] = Recovered(jobs[i])
    BY <1>3 DEF RecoverInterruptedJobs, LaunchTypeOK, TypeOK
  <2>. QED  BY <2>1 DEF Recovered, Record
<1>4. \/ \E c \in Callers : Busy(c) /\ CallerMethod(c)
      \/ UNCHANGED jobs \/ RecoverInterruptedJobs
  BY ThreadStepMethods
     DEF Next, vars, NameAttempt, StartController, StopController,
         SwallowError, ScriptStops
<1>. QED  BY <1>1, <1>2, <1>3, <1>4

(* A caller inside run_json keeps its identifier until it returns.          *)
LEMMA MineStep ==
  ASSUME LaunchTypeOK, [Next]_vars, NEW c \in Callers, Busy(c)'
  PROVE  \/ Busy(c) /\ mine'[c] = mine[c]
         \/ \E b \in Bases : NameAttempt(c, b) /\ mine'[c] = NextAttempt(b)
<1>. DEFINE Kept == Busy(c) /\ mine'[c] = mine[c]
<1>. USE DEF LaunchTypeOK, Busy
<1>1. ASSUME NEW d \in Callers, ThreadStep(d)
      PROVE  Kept
  <2>1. PICK p \in Places :
          /\ pc' = [pc EXCEPT ![d] = p]
          /\ mine' = IF p \in AtRest THEN [mine EXCEPT ![d] = NoJob] ELSE mine
    BY <1>1, PlaceStep
  <2>. QED  BY <1>1, <2>1, ThreadStepMethods
<1>2. ASSUME NEW d \in Callers, NEW b \in Bases, NameAttempt(d, b), d # c
      PROVE  Kept
  BY <1>2 DEF NameAttempt
<1>3. ASSUME NEW b \in Bases, NameAttempt(c, b)
      PROVE  mine'[c] = NextAttempt(b)
  BY <1>3 DEF NameAttempt
<1>4. ASSUME NEW callers, Forget(callers)
      PROVE  Kept
  BY <1>4 DEF Forget, AtRest
<1>5. ASSUME NEW t \in Threads, SwallowError(t)
      PROVE  Kept
  BY <1>5 DEF SwallowError, Returns, Callers, AtRest
<1>6. CASE StartController \/ UNCHANGED vars
  BY <1>6 DEF StartController, vars
<1>. QED  BY <1>1, <1>2, <1>3, <1>4, <1>5, <1>6
          DEF Next, StopController, ScriptStops

LEMMA EarlierStays ==
  ASSUME LaunchTypeOK, [Next]_vars, NEW j \in JobIds, EarlierClosed(j)
  PROVE  EarlierClosed(j)'
<1>1. \A m \in 1..MaxAttempts : <<j[1], m>> \in JobIds
  BY DEF JobIds
<1>. QED  BY <1>1, JobsStep DEF EarlierClosed

LEMMA OrderlyStep == Orderly /\ [Next]_vars => Orderly'
<1>. SUFFICES ASSUME Orderly, [Next]_vars PROVE Orderly'
  OBVIOUS
<1>1. LaunchTypeOK /\ LaunchTypeOK'
  BY LaunchTypeStep DEF Orderly
<1>2. ASSUME NEW j \in JobIds, jobs'[j].status # "absent"
      PROVE  EarlierClosed(j)'
  <2>1. EarlierClosed(j)
    BY <1>1, <1>2, JobsStep DEF Orderly
  <2>. QED  BY <1>1, <2>1, EarlierStays
<1>3. ASSUME NEW c \in Callers, Busy(c)'
      PROVE  EarlierClosed(mine[c])'
  <2>1. mine'[c] \in JobIds
    BY <1>1, <1>3 DEF LaunchTypeOK, Busy
  <2>2. EarlierClosed(mine'[c])
    <3>1. CASE Busy(c) /\ mine'[c] = mine[c]
      BY <3>1 DEF Orderly
    <3>2. ASSUME NEW b \in Bases, NameAttempt(c, b), mine'[c] = NextAttempt(b)
          PROVE  EarlierClosed(mine'[c])
      BY <3>2, NextAttemptIsNew DEF NameAttempt
    <3>. QED  BY <1>1, <1>3, <3>1, <3>2, MineStep
  <2>3. PICK j \in JobIds : j = mine'[c]
    BY <2>1
  <2>4. EarlierClosed(j)'
    BY <1>1, <2>2, <2>3, EarlierStays
  <2>. QED  BY <2>3, <2>4 DEF EarlierClosed, Closed
<1>. QED  BY <1>1, <1>2, <1>3 DEF Orderly

LEMMA OrderlyInit == Init => Orderly
<1>. SUFFICES ASSUME Init PROVE Orderly
  OBVIOUS
<1>1. \A j \in JobIds : jobs[j].status = "absent"
  BY DEF Init, LedgerInit, NoRecord
<1>2. \A c \in Callers : ~Busy(c)
  BY DEF Init, Busy, AtRest
<1>. QED  BY <1>1, <1>2, LaunchTypeInit DEF Orderly

(* No interleaving of workers and scripts, of naming and reserving, of      *)
(* crashes and recoveries makes two attempts of one base active.            *)
THEOREM AttemptsAreSequential == Spec => []OneActiveAttempt
<1>1. Orderly => OneActiveAttempt
  <2>. SUFFICES ASSUME Orderly,
                       NEW b \in Bases, NEW m \in 1..MaxAttempts,
                       NEW n \in 1..MaxAttempts,
                       jobs[<<b, m>>].status \in ActiveStatuses,
                       jobs[<<b, n>>].status \in ActiveStatuses
                PROVE  m = n
    BY DEF OneActiveAttempt
  <2>1. ASSUME NEW k \in 1..MaxAttempts, NEW l \in 1..MaxAttempts, k < l,
               jobs[<<b, l>>].status \in ActiveStatuses
        PROVE  jobs[<<b, k>>].status \notin ActiveStatuses
    <3>1. <<b, l>> \in JobIds /\ jobs[<<b, l>>].status # "absent"
      BY <2>1 DEF JobIds, ActiveStatuses
    <3>2. EarlierClosed(<<b, l>>)
      BY <3>1 DEF Orderly
    <3>. QED  BY <2>1, <3>2 DEF EarlierClosed, Closed
  <2>2. ~(m < n) /\ ~(n < m)
    BY <2>1
  <2>. QED  BY <2>2, BudgetAssumption
<1>. QED  BY <1>1, OrderlyInit, OrderlyStep, PTL DEF Spec

-----------------------------------------------------------------------------
(* Without scripts, the inductive invariant behind LedgerAgreesWithWorkers  *)
(* and EverySessionCharged: workers are of one controller and of different  *)
(* bases, and a job has at most one session, opened after its claim.        *)
WorkersApart ==
  /\ ~controllerUp => \A t \in Threads : ~Busy(t)
  /\ \A t, u \in Threads :
       t # u /\ Busy(t) /\ Busy(u) => mine[t][1] # mine[u][1]

SessionsFollowClaims ==
  \A j \in JobIds :
    /\ jobs[j].status # "absent" => jobs[j].count >= 1
    /\ opened[j] # 0 =>
         /\ opened[j] = 1
         /\ jobs[j].status \in SpentStatuses \cup {"launch_claimed"}

NotYetOpened ==
  \A t \in Threads :
    pc[t] \in {"named", "reserved", "claimed"} => opened[mine[t]] = 0

WorkersOnly ==
  /\ Scripts = {}
  /\ Orderly
  /\ WorkersApart
  /\ LedgerAgreesWithWorkers
  /\ SessionsFollowClaims
  /\ NotYetOpened

LEMMA WorkersApartStep ==
  ASSUME WorkersOnly, [Next]_vars
  PROVE  WorkersApart'
<1>1. LaunchTypeOK /\ Callers = Threads /\ WorkersApart
  BY DEF WorkersOnly, Orderly, Callers
<1>2. ASSUME NEW t \in Threads, Busy(t)'
      PROVE  controllerUp'
  <2>1. ASSUME NEW c \in Callers, NEW b \in Bases, NameAttempt(c, b)
        PROVE  controllerUp'
    BY <2>1, <1>1 DEF NameAttempt, Running, WorkersOnly
  <2>2. ASSUME NEW c \in Callers, ThreadStep(c)
        PROVE  controllerUp'
    BY <2>2, <1>1, ThreadStepMethods, PlaceStep DEF WorkersApart
  <2>3. CASE StartController
    BY <2>3 DEF StartController
  <2>4. ~StopController
    BY <1>1, <1>2 DEF StopController, Forget, Busy, AtRest
  <2>5. CASE (\E u \in Threads : SwallowError(u)) \/ UNCHANGED vars
    <3>1. Busy(t) /\ controllerUp' = controllerUp
      BY <1>1, <1>2, <2>5 DEF SwallowError, Returns, vars, Busy, AtRest,
                             LaunchTypeOK
    <3>. QED  BY <1>1, <3>1 DEF WorkersApart
  <2>. QED  BY <2>1, <2>2, <2>3, <2>4, <2>5 DEF Next, WorkersOnly
<1>3. ASSUME NEW t \in Threads, NEW u \in Threads, t # u,
             Busy(t)', Busy(u)'
      PROVE  mine'[t][1] # mine'[u][1]
  <2>1. CASE Busy(t) /\ mine'[t] = mine[t] /\ Busy(u) /\ mine'[u] = mine[u]
    BY <1>1, <1>3, <2>1 DEF WorkersApart
  <2>2. ASSUME NEW c \in Threads, NEW d \in Threads, c # d,
               NEW b \in Bases, NameAttempt(c, b)
        PROVE  mine'[c][1] # mine'[d][1]
    <3>1. mine'[c] = NextAttempt(b) /\ mine'[d] = mine[d] /\ mine[d][1] # b
      BY <1>1, <2>2 DEF NameAttempt, BaseIsFree, LaunchTypeOK
    <3>. QED  BY <3>1 DEF NextAttempt
  <2>. QED  BY <1>1, <1>3, <2>1, <2>2, MineStep
<1>. QED  BY <1>2, <1>3 DEF WorkersApart

(* LedgerAgreesWithWorkers and NotYetOpened, and SessionsFollowClaims, of   *)
(* one worker and of one job.                                               *)
Agrees(t) ==
  /\ pc[t] = "named" => jobs[mine[t]].status = "absent"
  /\ pc[t] = "reserved" => jobs[mine[t]].status = "reserved"
  /\ pc[t] \in {"claimed", "opened"} =>
       jobs[mine[t]].status = "launch_claimed"
  /\ pc[t] = "live" => jobs[mine[t]].status = "launched"
  /\ pc[t] \in {"named", "reserved", "claimed"} => opened[mine[t]] = 0

ChargedJob(j) ==
  /\ jobs[j].status # "absent" => jobs[j].count >= 1
  /\ opened[j] # 0 =>
       /\ opened[j] = 1
       /\ jobs[j].status \in SpentStatuses \cup {"launch_claimed"}

(* A caller touches the record and the session of its own job only.         *)
LEMMA CallerTouchesItsJob ==
  ASSUME LaunchTypeOK, NEW c \in Callers, ThreadStep(c),
         NEW i \in JobIds, i # mine[c]
  PROVE  jobs'[i] = jobs[i] /\ opened'[i] = opened[i]
<1>. DEFINE j == mine[c]
<1>1. j \in JobIds /\ TypeOK /\ opened \in [JobIds -> Nat]
  BY ThreadStepMethods, BusyHasJob DEF LaunchTypeOK
<1>2. opened'[i] = opened[i]
  BY <1>1, PlaceStep
<1>3. CASE Reserve(j, 1)
  BY <1>1, <1>2, <1>3 DEF Reserve, TypeOK
<1>4. ASSUME NEW allowed, NEW target, NEW o, Transition(j, allowed, target, o)
      PROVE  jobs'[i] = jobs[i]
  BY <1>1, <1>4 DEF Transition, TypeOK
<1>. QED  BY <1>2, <1>3, <1>4, ThreadStepMethods
          DEF CallerMethod, ClaimLaunch, RefundBeforeLaunch, MarkLaunched,
              Settle

(* The step of a worker, on its own job.                                    *)
LEMMA OwnStep ==
  ASSUME LaunchTypeOK, NEW t \in Callers, Agrees(t),
         ChargedJob(mine[t]), ThreadStep(t), NEW j, j = mine[t]
  PROVE  Agrees(t)' /\ ChargedJob(j)'
<1>1. j \in JobIds /\ TypeOK /\ t \in DOMAIN pc
  BY ThreadStepMethods, BusyHasJob DEF LaunchTypeOK
<1>2. opened \in [JobIds -> Nat]
  BY DEF LaunchTypeOK
<1>. USE DEF Agrees, ChargedJob, HeldStatuses, SpentStatuses
<1>3. ASSUME NEW p, p \in AtRest, Returns(t, p), jobs' = jobs, opened' = opened
      PROVE  Agrees(t)' /\ ChargedJob(j)'
  BY <1>1, <1>3 DEF Returns, AtRest
<1>4. CASE ReserveRefused(t) \/ ClaimRefused(t) \/ MarkRefused(t)
  BY <1>3, <1>4
     DEF ReserveRefused, ClaimRefused, MarkRefused, Raises, AtRest
<1>5. CASE LoseClaim(t) \/ LoseSession(t)
  BY <1>3, <1>5 DEF LoseClaim, LoseSession, AtRest
<1>6. CASE ReserveSession(t)
  <2>1. Reserve(j, 1) /\ opened' = opened /\ opened[j] = 0
    BY <1>6 DEF ReserveSession
  <2>2. jobs'[j].status = "reserved" /\ jobs'[j].count = 1
    BY <1>1, <2>1 DEF Reserve, TypeOK
  <2>3. pc'[t] = "reserved" /\ mine' = mine
    BY <1>1, <1>6 DEF ReserveSession, Goes
  <2>. QED  BY <2>1, <2>2, <2>3
<1>7. CASE ClaimSession(t)
  <2>1. /\ pc'[t] = "claimed" /\ mine' = mine /\ opened' = opened
        /\ jobs[j].status = "reserved" /\ opened[j] = 0
    BY <1>1, <1>7 DEF ClaimSession, Goes
  <2>2. jobs' = [jobs EXCEPT ![j].status = "launch_claimed",
                             ![j].outcome = "none"]
    BY <1>7, <2>1 DEF ClaimSession, ClaimLaunch, Transition
  <2>3. jobs'[j].status = "launch_claimed" /\ jobs'[j].count = jobs[j].count
    BY <1>1, <2>2 DEF TypeOK, Record
  <2>. QED  BY <2>1, <2>3
<1>8. CASE OpenSession(t)
  <2>1. /\ pc'[t] = "opened" /\ mine' = mine /\ jobs' = jobs
        /\ jobs[j].status = "launch_claimed" /\ opened[j] = 0
    BY <1>1, <1>8 DEF OpenSession, Goes
  <2>2. opened'[j] = 1
    BY <1>1, <1>2, <1>8, <2>1 DEF OpenSession
  <2>. QED  BY <2>1, <2>2
<1>9. CASE OpenFails(t)
  <2>1. /\ RefundBeforeLaunch(j) /\ opened' = opened /\ opened[j] = 0
        /\ jobs[j].status = "launch_claimed"
    BY <1>9 DEF OpenFails
  <2>2. jobs'[j].count = jobs[j].count
    BY <1>1, <2>1, TransitionFields DEF RefundBeforeLaunch
  <2>3. pc'[t] \in AtRest
    BY <1>1, <1>9 DEF OpenFails, Raises, Returns, AtRest
  <2>. QED  BY <2>1, <2>2, <2>3 DEF AtRest
<1>10. CASE MarkSession(t)
  <2>1. /\ pc'[t] = "live" /\ mine' = mine /\ opened' = opened
        /\ jobs[j].status = "launch_claimed"
    BY <1>1, <1>10 DEF MarkSession, Goes
  <2>2. jobs' = [jobs EXCEPT ![j].status = "launched",
                             ![j].outcome = "none"]
    BY <1>10, <2>1 DEF MarkSession, MarkLaunched, Transition
  <2>3. jobs'[j].status = "launched" /\ jobs'[j].count = jobs[j].count
    BY <1>1, <2>2 DEF TypeOK, Record
  <2>. QED  BY <2>1, <2>3
<1>11. CASE FinishSession(t)
  <2>1. PICK o \in {"completed", "failed"} : Settle(j, o)
    BY <1>11 DEF FinishSession
  <2>2. /\ pc'[t] = "idle" /\ opened' = opened
        /\ jobs[j].status = "launched"
    BY <1>1, <1>11 DEF FinishSession, Returns
  <2>3. jobs' = [jobs EXCEPT ![j].status = "settled", ![j].outcome = o]
    BY <2>1, <2>2 DEF Settle, Transition
  <2>4. jobs'[j].status = "settled" /\ jobs'[j].count = jobs[j].count
    BY <1>1, <2>3 DEF TypeOK, Record
  <2>. QED  BY <2>2, <2>4
<1>. QED  BY <1>4, <1>5, <1>6, <1>7, <1>8, <1>9, <1>10, <1>11
          DEF ThreadStep

LEMMA WorkersOnlyParts ==
  LedgerAgreesWithWorkers /\ NotYetOpened <=> \A t \in Threads : Agrees(t)
BY DEF LedgerAgreesWithWorkers, NotYetOpened, Agrees

LEMMA WorkersOnlyStep == WorkersOnly /\ [Next]_vars => WorkersOnly'
<1>. SUFFICES ASSUME WorkersOnly, [Next]_vars PROVE WorkersOnly'
  OBVIOUS
<1>. DEFINE Goal == /\ \A t \in Threads : Agrees(t)'
                    /\ \A j \in JobIds : ChargedJob(j)'
<1>1. /\ LaunchTypeOK /\ LaunchTypeOK' /\ Orderly' /\ WorkersApart'
      /\ Callers = Threads
  BY OrderlyStep, WorkersApartStep, LaunchTypeStep
     DEF WorkersOnly, Orderly, Callers
<1>2. /\ \A t \in Threads : Agrees(t)
      /\ \A j \in JobIds : ChargedJob(j)
  BY WorkersOnlyParts DEF WorkersOnly, SessionsFollowClaims, ChargedJob
<1>3. ASSUME NEW t \in Threads, ThreadStep(t)
      PROVE  Goal
  <2>1. PICK j \in JobIds : j = mine[t] /\ Busy(t)
    BY <1>1, <1>3, ThreadStepMethods, BusyHasJob
  <2>2. Agrees(t)' /\ ChargedJob(j)'
    BY <1>1, <1>2, <1>3, <2>1, OwnStep
  <2>3. ASSUME NEW i \in JobIds, i # j
        PROVE  jobs'[i] = jobs[i] /\ opened'[i] = opened[i]
    BY <1>1, <1>3, <2>1, <2>3, CallerTouchesItsJob
  <2>4. ASSUME NEW u \in Threads, u # t
        PROVE  Agrees(u)'
    <3>1. pc'[u] = pc[u] /\ mine'[u] = mine[u]
      BY <1>1, <1>3, <2>4, PlaceStep DEF LaunchTypeOK
    <3>2. CASE Busy(u)
      <4>1. mine[u] \in JobIds /\ mine[u] # j
        BY <1>1, <2>1, <2>4, <3>2, BusyHasJob DEF WorkersOnly, WorkersApart
      <4>2. /\ jobs'[mine[u]] = jobs[mine[u]]
            /\ opened'[mine[u]] = opened[mine[u]]
        BY <2>3, <4>1
      <4>. QED  BY <1>2, <3>1, <4>2 DEF Agrees
    <3>3. CASE ~Busy(u)
      BY <3>1, <3>3 DEF Agrees, Busy, AtRest
    <3>. QED  BY <3>2, <3>3
  <2>5. ASSUME NEW i \in JobIds, i # j
        PROVE  ChargedJob(i)'
    BY <1>2, <2>3, <2>5 DEF ChargedJob
  <2>. QED  BY <2>2, <2>4, <2>5
<1>4. ASSUME NEW t \in Threads, NEW b \in Bases, NameAttempt(t, b)
      PROVE  Goal
  <2>1. /\ jobs' = jobs /\ opened' = opened
        /\ pc'[t] = "named" /\ mine'[t] = NextAttempt(b)
        /\ NextAttempt(b) \in JobIds
        /\ \A u \in Threads \ {t} : pc'[u] = pc[u] /\ mine'[u] = mine[u]
    BY <1>1, <1>4 DEF NameAttempt, LaunchTypeOK
  <2>2. jobs[NextAttempt(b)].status = "absent"
    BY <1>4, NextAttemptIsNew DEF NameAttempt, WorkersOnly
  <2>3. opened[NextAttempt(b)] = 0
    BY <1>2, <2>1, <2>2 DEF ChargedJob, SpentStatuses
  <2>4. Agrees(t)'
    BY <2>1, <2>2, <2>3 DEF Agrees
  <2>5. ASSUME NEW u \in Threads, u # t
        PROVE  Agrees(u)'
    BY <1>2, <2>1, <2>5 DEF Agrees
  <2>6. ASSUME NEW j \in JobIds
        PROVE  ChargedJob(j)'
    BY <1>2, <2>1 DEF ChargedJob
  <2>. QED  BY <2>4, <2>5, <2>6
<1>5 ASSUME StartController
      PROVE  Goal
  <2>1. ASSUME NEW t \in Threads
        PROVE  Agrees(t)'
    <3>1. pc'[t] \in AtRest
      BY <1>5 DEF StartController, WorkersOnly, WorkersApart, Busy
    <3>. QED  BY <3>1 DEF Agrees, AtRest
  <2>2. ASSUME NEW j \in JobIds
        PROVE  ChargedJob(j)'
    <3>1. /\ jobs[j] \in Record /\ jobs'[j] = Recovered(jobs[j])
          /\ opened' = opened
      BY <1>1, <1>5 DEF StartController, RecoverInterruptedJobs,
                        LaunchTypeOK, TypeOK
    <3>2. jobs'[j].count = jobs[j].count
      BY <3>1 DEF Recovered, Record
    <3>3. /\ jobs'[j].status # "absent" => jobs[j].status # "absent"
          /\ jobs[j].status \in SpentStatuses \cup {"launch_claimed"} =>
               jobs'[j].status \in SpentStatuses
      BY <3>1 DEF Recovered, Record, SpentStatuses
    <3>. QED  BY <1>2, <3>1, <3>2, <3>3 DEF ChargedJob
  <2>. QED  BY <2>1, <2>2
<1>6 ASSUME StopController
      PROVE  Goal
  <2>1. ASSUME NEW t \in Threads
        PROVE  Agrees(t)'
    BY <1>1, <1>6 DEF StopController, Forget, Agrees
  <2>. QED  BY <1>2, <1>6, <2>1 DEF StopController, ChargedJob
<1>7. ASSUME NEW t \in Threads, SwallowError(t)
      PROVE  Goal
  <2>1. /\ jobs' = jobs /\ opened' = opened /\ pc'[t] = "idle"
        /\ \A u \in Threads \ {t} : pc'[u] = pc[u] /\ mine'[u] = mine[u]
    BY <1>1, <1>7 DEF SwallowError, Returns, LaunchTypeOK
  <2>2. ASSUME NEW u \in Threads
        PROVE  Agrees(u)'
    BY <1>2, <2>1 DEF Agrees
  <2>. QED  BY <1>2, <2>1, <2>2 DEF ChargedJob
<1>8 ASSUME UNCHANGED vars
      PROVE  Goal
  BY <1>2, <1>8 DEF vars, Agrees, ChargedJob
<1>9. Goal
  BY <1>1, <1>3, <1>4, <1>5, <1>6, <1>7, <1>8 DEF Next, WorkersOnly
<1>10. LedgerAgreesWithWorkers' /\ NotYetOpened' /\ SessionsFollowClaims'
  BY <1>9 DEF Agrees, ChargedJob, LedgerAgreesWithWorkers, NotYetOpened,
              SessionsFollowClaims
<1>. QED  BY <1>1, <1>10 DEF WorkersOnly

LEMMA WorkersOnlyInit == Scripts = {} /\ Init => WorkersOnly
<1>. SUFFICES ASSUME Scripts = {}, Init PROVE WorkersOnly
  OBVIOUS
<1>1. \A t \in Threads : pc[t] = "idle"
  BY DEF Init, Callers
<1>2. \A j \in JobIds : jobs[j].status = "absent" /\ opened[j] = 0
  BY DEF Init, LedgerInit, NoRecord
<1>3. WorkersApart /\ LedgerAgreesWithWorkers /\ NotYetOpened
  BY <1>1 DEF WorkersApart, LedgerAgreesWithWorkers, NotYetOpened, Busy, AtRest
<1>4. SessionsFollowClaims
  BY <1>2 DEF SessionsFollowClaims
<1>. QED  BY <1>3, <1>4, OrderlyInit DEF WorkersOnly

(* A worker of the controller never meets a ledger that contradicts it, if  *)
(* no script works on the run: recovery runs while no worker is active.     *)
THEOREM WorkersMeetTheirLedger ==
  Scripts = {} /\ Spec => []LedgerAgreesWithWorkers
<1>1. WorkersOnly => LedgerAgreesWithWorkers
  BY DEF WorkersOnly
<1>. QED  BY <1>1, WorkersOnlyInit, WorkersOnlyStep, PTL DEF Spec

(* Without scripts no session runs for free, whatever crashes: a session is *)
(* opened once, after its claim, and the claim is charged by recovery.      *)
THEOREM SessionsAreCharged == Scripts = {} /\ Spec => []EverySessionCharged
<1>1. WorkersOnly => EverySessionCharged
  <2>. SUFFICES ASSUME WorkersOnly, NEW j \in JobIds
                PROVE  opened[j] <= Charge(j)
    BY DEF EverySessionCharged
  <2>1. jobs[j].count \in Nat
    BY BudgetAssumption DEF WorkersOnly, Orderly, LaunchTypeOK, TypeOK, Record
  <2>2. CASE opened[j] = 0
    BY <2>1, <2>2 DEF Charge
  <2>3. CASE opened[j] # 0
    <3>1. /\ opened[j] = 1 /\ jobs[j].count >= 1
          /\ jobs[j].status \in HeldStatuses \cup SpentStatuses
      BY <2>3 DEF WorkersOnly, SessionsFollowClaims, HeldStatuses,
                  SpentStatuses
    <3>. QED  BY <3>1 DEF Charge
  <2>. QED  BY <2>2, <2>3
<1>. QED  BY <1>1, WorkersOnlyInit, WorkersOnlyStep, PTL DEF Spec
=============================================================================
