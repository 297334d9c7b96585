----------------------------- MODULE TrialHost -----------------------------
(* One machine on which several processes run Terminal-Bench batches        *)
(* (benchmarks/terminal_bench.py).  The processes share the result cache    *)
(* with a lock file per key (terminal_cache.py), the slots that limit how   *)
(* many agents call the model at once (provider_capacity.py), and the       *)
(* containers, which outlive the process that made them and are removed by  *)
(* a later batch (container_reaper.py).  Locks and slots are flocks: the    *)
(* kernel drops them with the process.  Rows and cache objects are files    *)
(* replaced in one step and stay.  A trial stands for its cache key: the    *)
(* processes test the same harness, each writes rows of its own.            *)
EXTENDS Naturals, FiniteSets, Sequences

CONSTANTS
  Processes,     \* run_terminal_batch callers, each with its run root
  Trials,        \* the task repeats, one cache key each
  Workloads,     \* bound: sequences of batches, the trials of each
  Scopes,        \* the scopes the processes may run in
  Pids,          \* process identifiers the kernel hands out, and reuses
  SlotCount,     \* HAI_PROVIDER_TRIAL_MAX_CONCURRENCY of each process
  Retries,       \* limits.infrastructure_retries
  MishapsIn      \* bound: crashes, reboots and failures in a workload

ASSUME SlotAssumption ==
  /\ IsFiniteSet(Processes) /\ Processes # {}
  /\ SlotCount \in [Processes -> Nat \ {0}]
  /\ Pids \subseteq Nat \ {0}
  /\ Scopes \subseteq [Processes -> {"TRAIN", "TEST"}]
ASSUME BoundAssumption ==
  /\ Retries \in Nat /\ MishapsIn \in [Workloads -> Nat]
  /\ Workloads \subseteq Seq(SUBSET Trials)

VARIABLES
  workload,     \* the batches asked for, by any of the processes
  scope,        \* TRAIN shares results, other scopes do not
  boot,         \* /proc/sys/kernel/random/boot_id
  pid,          \* of a live process, NoPid of a dead one
  calls,        \* batches begun so far
  call,         \* the number of a process's last batch
  stage,        \* where run_terminal_batch is
  doomed,       \* what the reaper listed and has not removed yet
  at,           \* where the worker of a trial is
  attempt,      \* of _run_trial_with_retries
  result,       \* the row the worker holds
  keyLock,      \* worker that holds the lock file of a key
  slotLock,     \* worker that holds a slot file
  containers,   \* on the machine, running or exited
  cache,        \* result object of each key
  rows,         \* trial_NNNN.jsonl of each process
  verified,     \* history: workers whose verifier completed
  mishaps

machine == <<workload, scope, boot, calls, call>>
worker  == <<at, attempt, result>>
locks   == <<keyLock, slotLock>>
files   == <<cache, rows, verified>>
caller  == <<pid, stage, doomed>>
vars    == <<machine, worker, locks, files, caller, containers, mishaps>>

-----------------------------------------------------------------------------
Lanes   == Processes \X Trials
LanesOf(p) == {p} \X workload[call[p]]
NoLane  == <<>>
NoPid   == 0
Slots   == UNION {1..SlotCount[p] : p \in Processes}
Results == {"none", "good", "infrastructure"}
MaxMishaps == MishapsIn[workload]
Stages  == {"down", "idle", "reaping", "running"}
Places  == {"off", "queued", "start", "slot", "agent", "verify",
            "down", "store", "row", "done"}

\* ownership_labels, and what tells two containers of a trial apart
Container ==
  [proc : Processes, trial : Trials, call : 1..Len(workload),
   attempt : 0..Retries, pid : Pids, boot : 0..MaxMishaps]

ContainerOf(p, t) ==
  [proc |-> p, trial |-> t, call |-> call[p], attempt |-> attempt[<<p, t>>],
   pid |-> pid[p], boot |-> boot]

Live == {p \in Processes : pid[p] # NoPid}

\* Mutated form: whatever came out of the last attempt is kept.
AnythingCacheable(r) == r # "none"

\* is_cacheable, and the same tests of _load_existing_trial_row
Cacheable(r) == r = "good"

\* orphaned_containers
Orphans ==
  {c \in containers : c.boot # boot \/ c.pid \notin {pid[p] : p \in Live}}

Init ==
  /\ workload \in Workloads /\ scope \in Scopes
  /\ boot = 0
  /\ pid = [p \in Processes |-> NoPid]
  /\ calls = 0 /\ call = [p \in Processes |-> 0]
  /\ stage = [p \in Processes |-> "down"]
  /\ doomed = [p \in Processes |-> {}]
  /\ at = [l \in Lanes |-> "off"]
  /\ attempt = [l \in Lanes |-> 0]
  /\ result = [l \in Lanes |-> "none"]
  /\ keyLock = [t \in Trials |-> NoLane]
  /\ slotLock = [s \in Slots |-> NoLane]
  /\ containers = {}
  /\ cache = [t \in Trials |-> "none"]
  /\ rows = [l \in Lanes |-> "none"]
  /\ verified = {}
  /\ mishaps = 0

Mishap == mishaps < MaxMishaps /\ mishaps' = mishaps + 1

-----------------------------------------------------------------------------
(* run_terminal_batch, in the thread that called it                        *)

StartProcess(p) ==
  /\ pid[p] = NoPid /\ calls < Len(workload)
  /\ \E n \in Pids \ {pid[q] : q \in Live} : pid' = [pid EXCEPT ![p] = n]
  /\ stage' = [stage EXCEPT ![p] = "idle"]
  /\ UNCHANGED <<machine, worker, locks, files, doomed, containers, mishaps>>

\* Orphans are listed and looked up first; a failing docker lists none.
BeginBatch(p) ==
  /\ stage[p] = "idle" /\ calls < Len(workload)
  /\ calls' = calls + 1 /\ call' = [call EXCEPT ![p] = calls + 1]
  /\ stage' = [stage EXCEPT ![p] = "reaping"]
  /\ \/ doomed' = [doomed EXCEPT ![p] = Orphans] /\ UNCHANGED mishaps
     \/ Mishap /\ UNCHANGED doomed
  /\ UNCHANGED <<workload, scope, boot, pid, worker, locks, files, containers>>

\* Mutated form: the owner is removed with everything it is stamped on.
RemoveOwner(p) ==
  /\ stage[p] = "reaping"
  /\ \E c \in doomed[p] :
       /\ doomed' = [doomed EXCEPT ![p] = @ \ {c}]
       /\ containers' = {d \in containers : d.pid # c.pid}
  /\ UNCHANGED <<machine, worker, locks, files, pid, stage, mishaps>>

\* docker rm -f, one orphan after the other; nothing is looked up again.
RemoveOrphan(p) ==
  /\ stage[p] = "reaping"
  /\ \E c \in doomed[p] :
       /\ doomed' = [doomed EXCEPT ![p] = @ \ {c}]
       /\ \/ containers' = containers \ {c} /\ UNCHANGED mishaps
          \/ Mishap /\ UNCHANGED containers
  /\ UNCHANGED <<machine, worker, locks, files, pid, stage>>

\* A docker call of the reaper that times out raises, like the preflight.
PreflightFails(p) ==
  /\ stage[p] = "reaping"
  /\ Mishap
  /\ stage' = [stage EXCEPT ![p] = "idle"]
  /\ doomed' = [doomed EXCEPT ![p] = {}]
  /\ UNCHANGED <<machine, worker, locks, files, pid, containers>>

\* Mutated form: rows of an earlier call are not read.
ResumeNothing(p) ==
  /\ stage[p] = "reaping" /\ doomed[p] = {}
  /\ stage' = [stage EXCEPT ![p] = "running"]
  /\ at' = [l \in Lanes |-> IF l \in LanesOf(p) THEN "queued" ELSE at[l]]
  /\ attempt' = [l \in Lanes |-> IF l \in LanesOf(p) THEN 0 ELSE attempt[l]]
  /\ result' = [l \in Lanes |-> IF l \in LanesOf(p) THEN "none" ELSE result[l]]
  /\ UNCHANGED <<machine, locks, files, pid, doomed, containers, mishaps>>

\* Completed rows of the run root are taken over, the others run (again).
Resume(p) ==
  /\ stage[p] = "reaping" /\ doomed[p] = {}
  /\ stage' = [stage EXCEPT ![p] = "running"]
  /\ at' = [l \in Lanes |->
              IF l \notin LanesOf(p) THEN at[l]
              ELSE IF Cacheable(rows[l]) THEN "done" ELSE "queued"]
  /\ attempt' = [l \in Lanes |-> IF l \in LanesOf(p) THEN 0 ELSE attempt[l]]
  /\ result' = [l \in Lanes |-> IF l \in LanesOf(p) THEN "none" ELSE result[l]]
  /\ UNCHANGED <<machine, locks, files, pid, doomed, containers, mishaps>>

EndBatch(p) ==
  /\ stage[p] = "running" /\ \A l \in LanesOf(p) : at[l] = "done"
  /\ stage' = [stage EXCEPT ![p] = "idle"]
  /\ at' = [l \in Lanes |-> IF l \in LanesOf(p) THEN "off" ELSE at[l]]
  /\ attempt' = [l \in Lanes |-> IF l \in LanesOf(p) THEN 0 ELSE attempt[l]]
  /\ result' = [l \in Lanes |-> IF l \in LanesOf(p) THEN "none" ELSE result[l]]
  /\ UNCHANGED <<machine, locks, files, pid, doomed, containers, mishaps>>

-----------------------------------------------------------------------------
(* _run_cached_trial in a worker thread of the pool                        *)

Moves(l, from, to) == at[l] = from /\ at' = [at EXCEPT ![l] = to]

Shares(p) == scope[p] = "TRAIN"

\* The result is there once the lock is: it is read and the lock given back.
ReadCache(p, t) ==
  /\ Moves(<<p, t>>, "queued", "row") /\ Shares(p)
  /\ keyLock[t] = NoLane /\ Cacheable(cache[t])
  /\ result' = [result EXCEPT ![<<p, t>>] = cache[t]]
  /\ UNCHANGED <<machine, attempt, locks, files, caller, containers, mishaps>>

\* Mutated form: the object is looked for before the lock is taken.
LookThenLock(p, t) ==
  /\ Moves(<<p, t>>, "queued", "start") /\ Shares(p)
  /\ ~Cacheable(cache[t])
  /\ keyLock' = [keyLock EXCEPT ![t] = <<p, t>>]
  /\ UNCHANGED <<machine, attempt, result, slotLock, files, caller,
                 containers, mishaps>>

\* No usable object: the lock is kept while the trial runs.
LockKey(p, t) ==
  /\ Moves(<<p, t>>, "queued", "start") /\ Shares(p)
  /\ keyLock[t] = NoLane /\ ~Cacheable(cache[t])
  /\ keyLock' = [keyLock EXCEPT ![t] = <<p, t>>]
  /\ UNCHANGED <<machine, attempt, result, slotLock, files, caller,
                 containers, mishaps>>

RunUnshared(p, t) ==
  /\ Moves(<<p, t>>, "queued", "start") /\ ~Shares(p)
  /\ UNCHANGED <<machine, attempt, result, locks, files, caller, containers,
                 mishaps>>

\* run_terminal_trial: the container comes up and is prepared.
ComposeUp(p, t) ==
  /\ Moves(<<p, t>>, "start", "slot")
  /\ containers' = containers \union {ContainerOf(p, t)}
  /\ UNCHANGED <<machine, attempt, result, locks, files, caller, mishaps>>

\* Anything raised before the agent runs is an infrastructure row.
SetupFails(p, t) ==
  /\ Moves(<<p, t>>, "start", "down")
  /\ Mishap
  /\ result' = [result EXCEPT ![<<p, t>>] = "infrastructure"]
  /\ containers' \in {containers, containers \union {ContainerOf(p, t)}}
  /\ UNCHANGED <<machine, attempt, locks, files, caller>>

FreeSlots(p) == {s \in 1..SlotCount[p] : slotLock[s] = NoLane}

\* Mutated form: the slot file is opened but not locked.
OpenSlot(p, t) ==
  /\ Moves(<<p, t>>, "slot", "agent")
  /\ UNCHANGED <<machine, attempt, result, locks, files, caller, containers,
                 mishaps>>

\* provider_trial_slot: the first free file, from an offset of the thread
TakeSlot(p, t) ==
  /\ Moves(<<p, t>>, "slot", "agent")
  /\ \E s \in FreeSlots(p) : slotLock' = [slotLock EXCEPT ![s] = <<p, t>>]
  /\ UNCHANGED <<machine, attempt, result, keyLock, files, caller,
                 containers, mishaps>>

\* TimeoutError: until the deadline every poll found all files locked.
SlotTimeout(p, t) ==
  /\ Moves(<<p, t>>, "slot", "down") /\ FreeSlots(p) = {}
  /\ result' = [result EXCEPT ![<<p, t>>] = "infrastructure"]
  /\ UNCHANGED <<machine, attempt, locks, files, caller, containers, mishaps>>

SlotsWithout(l) ==
  [s \in Slots |-> IF slotLock[s] = l THEN NoLane ELSE slotLock[s]]

\* The slot is free again; a provider failure skips the verifier.
AgentEnds(p, t) ==
  /\ slotLock' = SlotsWithout(<<p, t>>)
  /\ \/ Moves(<<p, t>>, "agent", "verify") /\ UNCHANGED result
     \/ /\ Moves(<<p, t>>, "agent", "down")
        /\ result' = [result EXCEPT ![<<p, t>>] = "infrastructure"]
  /\ UNCHANGED <<machine, attempt, keyLock, files, caller, containers,
                 mishaps>>

Verify(p, t) ==
  /\ Moves(<<p, t>>, "verify", "down")
  /\ \/ /\ result' = [result EXCEPT ![<<p, t>>] = "good"]
        /\ verified' = verified \union {<<p, t>>}
     \/ /\ result' = [result EXCEPT ![<<p, t>>] = "infrastructure"]
        /\ UNCHANGED verified
  /\ UNCHANGED <<machine, attempt, locks, cache, rows, caller, containers,
                 mishaps>>

\* docker compose down in the finally; its failure is swallowed.  Then the
\* next attempt of _run_trial_with_retries, or its end.
ComposeDown(p, t) ==
  LET l == <<p, t>>
      again == ~Cacheable(result[l]) /\ attempt[l] < Retries
  IN  /\ Moves(l, "down", IF again THEN "start"
                          ELSE IF Shares(p) THEN "store" ELSE "row")
      /\ \/ containers' = containers \ {ContainerOf(p, t)}
            /\ UNCHANGED mishaps
         \/ Mishap /\ UNCHANGED containers
      /\ attempt' = [attempt EXCEPT ![l] = IF again THEN @ + 1 ELSE @]
      /\ result' = [result EXCEPT ![l] = IF again THEN "none" ELSE @]
      /\ UNCHANGED <<machine, locks, files, caller>>

\* Mutated form: the lock outlives an error of the store.
StoreKeepsLock(p, t) ==
  LET l == <<p, t>>
  IN  /\ Moves(l, "store", "row")
      /\ \/ /\ cache' = [cache EXCEPT ![t] =
                           IF Cacheable(result[l]) THEN result[l] ELSE @]
            /\ keyLock' = [keyLock EXCEPT ![t] = NoLane]
            /\ UNCHANGED <<result, mishaps>>
         \/ /\ Mishap
            /\ result' = [result EXCEPT ![l] = "infrastructure"]
            /\ UNCHANGED <<cache, keyLock>>
      /\ UNCHANGED <<machine, attempt, slotLock, rows, verified, caller,
                     containers>>

\* Only a cacheable row is stored.  An error of the store becomes an
\* infrastructure row; the lock is given back either way.
Store(p, t) ==
  LET l == <<p, t>>
  IN  /\ Moves(l, "store", "row")
      /\ \/ /\ cache' = [cache EXCEPT ![t] =
                           IF Cacheable(result[l]) THEN result[l] ELSE @]
            /\ UNCHANGED <<result, mishaps>>
         \/ /\ Mishap
            /\ result' = [result EXCEPT ![l] = "infrastructure"]
            /\ UNCHANGED cache
      /\ keyLock' = [keyLock EXCEPT ![t] = NoLane]
      /\ UNCHANGED <<machine, attempt, slotLock, rows, verified, caller,
                     containers>>

\* _write_trial_row, by the calling thread as the futures complete
WriteRow(p, t) ==
  /\ Moves(<<p, t>>, "row", "done")
  /\ rows' = [rows EXCEPT ![<<p, t>>] = result[<<p, t>>]]
  /\ UNCHANGED <<machine, attempt, result, locks, cache, verified, caller,
                 containers, mishaps>>

LaneStep(p, t) ==
  \/ ReadCache(p, t) \/ LockKey(p, t) \/ RunUnshared(p, t)
  \/ ComposeUp(p, t) \/ SetupFails(p, t)
  \/ TakeSlot(p, t) \/ SlotTimeout(p, t)
  \/ AgentEnds(p, t) \/ Verify(p, t) \/ ComposeDown(p, t)
  \/ Store(p, t) \/ WriteRow(p, t)

-----------------------------------------------------------------------------
(* SIGKILL, and a reboot.  The containers stay.                            *)

Dies(dead) ==
  LET gone == dead \X Trials
  IN  /\ pid' = [p \in Processes |-> IF p \in dead THEN NoPid ELSE pid[p]]
      /\ stage' = [p \in Processes |-> IF p \in dead THEN "down" ELSE stage[p]]
      /\ doomed' = [p \in Processes |-> IF p \in dead THEN {} ELSE doomed[p]]
      /\ at' = [l \in Lanes |-> IF l \in gone THEN "off" ELSE at[l]]
      /\ attempt' = [l \in Lanes |-> IF l \in gone THEN 0 ELSE attempt[l]]
      /\ result' = [l \in Lanes |-> IF l \in gone THEN "none" ELSE result[l]]
      /\ keyLock' = [t \in Trials |->
                       IF keyLock[t] \in gone THEN NoLane ELSE keyLock[t]]
      /\ slotLock' = [s \in Slots |->
                       IF slotLock[s] \in gone THEN NoLane ELSE slotLock[s]]
      /\ UNCHANGED <<workload, scope, calls, call, files, containers>>

Crash(p) == p \in Live /\ Mishap /\ Dies({p}) /\ UNCHANGED boot

Reboot ==
  /\ Mishap /\ boot' = boot + 1
  /\ Dies(Processes)

\* Every process is out of batches to run.
Rests ==
  /\ calls = Len(workload) /\ \A p \in Processes : stage[p] \in {"idle", "down"}
  /\ UNCHANGED vars

BatchStep(p) ==
  \/ RemoveOrphan(p) \/ PreflightFails(p) \/ Resume(p) \/ EndBatch(p)

Next ==
  \/ \E p \in Processes : StartProcess(p) \/ BeginBatch(p) \/ Crash(p)
  \/ \E p \in Processes : BatchStep(p)
  \/ \E p \in Processes, t \in Trials : LaneStep(p, t)
  \/ Reboot \/ Rests

\* Docker, agents and verifiers have timeouts and threads are scheduled.  No
\* process has to be started or to call again.
Fairness ==
  /\ \A p \in Processes : WF_vars(BatchStep(p))
  /\ \A p \in Processes, t \in Trials : WF_vars(LaneStep(p, t))

Spec == Init /\ [][Next]_vars /\ Fairness

-----------------------------------------------------------------------------
HostTypeOK ==
  /\ workload \in Workloads /\ scope \in Scopes
  /\ boot \in 0..MaxMishaps
  /\ pid \in [Processes -> Pids \union {NoPid}]
  /\ calls \in 0..Len(workload) /\ call \in [Processes -> 0..calls]
  /\ stage \in [Processes -> Stages]
  /\ doomed \in [Processes -> SUBSET Container]
  /\ at \in [Lanes -> Places]
  /\ attempt \in [Lanes -> 0..Retries]
  /\ result \in [Lanes -> Results]
  /\ keyLock \in [Trials -> Lanes \union {NoLane}]
  /\ slotLock \in [Slots -> Lanes \union {NoLane}]
  /\ containers \subseteq Container
  /\ cache \in [Trials -> Results]
  /\ rows \in [Lanes -> Results]
  /\ verified \subseteq Lanes
  /\ mishaps \in 0..MaxMishaps

(* container_reaper.py: "Anything a live run owns is left alone".  A worker *)
(* that waits for a slot, runs its agent or verifies has its container,     *)
(* whatever another process reaps: between its look at the owners and the   *)
(* removals, pids die and are handed out again.                             *)
LiveContainersKept ==
  \A p \in Processes, t \in Trials :
    at[<<p, t>>] \in {"slot", "agent", "verify"}
      => ContainerOf(p, t) \in containers

(* provider_capacity.py: active trials are limited across processes.  The   *)
(* limit is the largest of the counts the processes are configured with.    *)
AgentsWithinCapacity ==
  Cardinality({l \in Lanes : at[l] = "agent"}) <= Cardinality(Slots)

(* A result in the shared cache, and a completed row, come from a run whose *)
(* verifier completed: of the process itself unless the scope is shared.    *)
ResultsAreVerified ==
  /\ \A t \in Trials : cache[t] # "none"
       => \E p \in Processes : Shares(p) /\ <<p, t>> \in verified
  /\ \A p \in Processes, t \in Trials : rows[<<p, t>>] = "good"
       => \E q \in Processes : /\ <<q, t>> \in verified
                               /\ q = p \/ (Shares(p) /\ Shares(q))

Starts(l) == at[l] # "agent" /\ at'[l] = "agent"

(* Once a key has a usable result no process that shares it runs the trial  *)
(* again, although the process that looked first may have crashed, waited   *)
(* for the lock or kept it through several attempts.                        *)
CachedTrialRunsOnce ==
  [][\A p \in Processes, t \in Trials :
       Shares(p) /\ Cacheable(cache[t]) => ~Starts(<<p, t>>)]_vars

(* A completed row is final: later calls on the run root keep it and do not *)
(* run its trial, in any scope.                                             *)
FinishedTrialKept ==
  [][\A l \in Lanes : rows[l] = "good"
       => rows'[l] = "good" /\ ~Starts(l)]_vars

(* A batch comes to an end, or its process does.  Workers wait for a key    *)
(* without a deadline, and hold it while they wait for a slot.              *)
BatchEnds ==
  \A p \in Processes : stage[p] = "running" ~> stage[p] # "running"
=============================================================================
