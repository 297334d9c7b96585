--------------------------- MODULE TrialHostProofs ---------------------------
(* The machine for any number of processes, trials, slots, retries and      *)
(* process identifiers.  First: types, and where the workers of a process   *)
(* can be.  Then what the lock of a key protects, what becomes of completed *)
(* rows, why the reaper spares live containers, and the limit on agents.    *)
EXTENDS TrialHost, FiniteSetTheorems, FunctionTheorems, TLAPS

(* Workers exist only in a running batch, which has a pid and a number.     *)
WorkersPlaced ==
  /\ boot <= mishaps
  /\ \A p \in Processes :
       /\ stage[p] # "down" => pid[p] \in Pids
       /\ stage[p] \in {"reaping", "running"} => call[p] # 0
       /\ \A t \in Trials : at[<<p, t>>] # "off" =>
            stage[p] = "running" /\ t \in workload[call[p]]

HostInv == HostTypeOK /\ WorkersPlaced

(* The bound on mishaps is that of the workload, which never changes.       *)
USE DEF MaxMishaps

LEMMA InitPlaced == Init => HostInv
<1>. SUFFICES ASSUME Init PROVE HostInv
  OBVIOUS
<1>1. Len(workload) \in Nat
  BY BoundAssumption DEF Init
<1>2. HostTypeOK
  BY <1>1, BoundAssumption
     DEF Init, HostTypeOK, Places, Results, Stages, NoPid, NoLane
<1>3. WorkersPlaced
  BY <1>1 DEF Init, WorkersPlaced, Lanes
<1>. QED
  BY <1>2, <1>3 DEF HostInv

LEMMA BatchesAreTrials ==
  ASSUME HostTypeOK, NEW p \in Processes, call[p] # 0
  PROVE  /\ call[p] \in 1..Len(workload)
         /\ workload[call[p]] \subseteq Trials
         /\ LanesOf(p) \subseteq Lanes
<1>1. workload \in Seq(SUBSET Trials) /\ Len(workload) \in Nat
  BY BoundAssumption DEF HostTypeOK
<1>2. call[p] \in 1..Len(workload)
  BY <1>1 DEF HostTypeOK
<1>. QED
  BY <1>1, <1>2 DEF LanesOf, Lanes

LEMMA ContainersAreTyped ==
  ASSUME HostInv, NEW p \in Processes, NEW t \in Trials, at[<<p, t>>] # "off"
  PROVE  ContainerOf(p, t) \in Container
<1>1. call[p] # 0 /\ pid[p] \in Pids
  BY DEF HostInv, WorkersPlaced
<1>2. call[p] \in 1..Len(workload)
  BY <1>1, BatchesAreTrials DEF HostInv
<1>3. attempt[<<p, t>>] \in 0..Retries /\ boot \in 0..MaxMishaps
  BY DEF HostInv, HostTypeOK, Lanes
<1>. QED
  BY <1>1, <1>2, <1>3 DEF ContainerOf, Container

(* What every step of a worker leaves alone, and what it may do to places.  *)
LEMMA LaneStepTyped ==
  ASSUME HostInv, NEW p \in Processes, NEW t \in Trials, LaneStep(p, t)
  PROVE  HostInv'
<1>. DEFINE l == <<p, t>>
<1>0. l \in Lanes
  BY DEF Lanes
<1>1. at[l] # "off" /\ \E x \in Places \ {"off"} : at' = [at EXCEPT ![l] = x]
  BY DEF LaneStep, ReadCache, LockKey, RunUnshared, ComposeUp, SetupFails,
         TakeSlot, SlotTimeout, AgentEnds, Verify, ComposeDown, Store,
         WriteRow, Moves, Places
<1>2. UNCHANGED <<machine, caller>>
  BY DEF LaneStep, ReadCache, LockKey, RunUnshared, ComposeUp, SetupFails,
         TakeSlot, SlotTimeout, AgentEnds, Verify, ComposeDown, Store,
         WriteRow
<1>3. mishaps' \in mishaps..MaxMishaps
  BY BoundAssumption DEF LaneStep, ReadCache, LockKey, RunUnshared, ComposeUp,
         SetupFails, TakeSlot, SlotTimeout, AgentEnds, Verify, ComposeDown,
         Store, WriteRow, Mishap, HostInv, HostTypeOK
<1>4. /\ attempt' \in [Lanes -> 0..Retries]
      /\ result' \in [Lanes -> Results]
  <2>1. /\ attempt \in [Lanes -> 0..Retries] /\ result \in [Lanes -> Results]
        /\ cache \in [Trials -> Results]
    BY DEF HostInv, HostTypeOK
  <2>2. CASE ComposeDown(p, t)
    <3>1. result' \in [Lanes -> Results]
      BY <1>0, <2>1, <2>2 DEF ComposeDown, Results
    <3>2. attempt[l] \in 0..Retries /\ Retries \in Nat
      BY <1>0, <2>1, BoundAssumption
    <3>3. attempt' \in [Lanes -> 0..Retries]
      BY <1>0, <2>1, <2>2, <3>2 DEF ComposeDown
    <3>. QED
      BY <3>1, <3>3
  <2>3. CASE ~ComposeDown(p, t)
    BY <1>0, <2>1, <2>3 DEF LaneStep, ReadCache, LockKey, RunUnshared,
         ComposeUp, SetupFails, TakeSlot, SlotTimeout, AgentEnds, Verify,
         Store, WriteRow, Results
  <2>. QED
    BY <2>2, <2>3
<1>5. /\ keyLock' \in [Trials -> Lanes \union {NoLane}]
      /\ slotLock' \in [Slots -> Lanes \union {NoLane}]
  BY <1>0 DEF LaneStep, ReadCache, LockKey, RunUnshared, ComposeUp, SetupFails,
         TakeSlot, SlotTimeout, AgentEnds, Verify, ComposeDown, Store,
         WriteRow, SlotsWithout, HostInv, HostTypeOK, locks
<1>6. /\ cache' \in [Trials -> Results] /\ rows' \in [Lanes -> Results]
      /\ verified' \subseteq Lanes
  BY <1>0 DEF LaneStep, ReadCache, LockKey, RunUnshared, ComposeUp, SetupFails,
         TakeSlot, SlotTimeout, AgentEnds, Verify, ComposeDown, Store,
         WriteRow, HostInv, HostTypeOK, files
<1>7. containers' \subseteq Container
  <2>1. ContainerOf(p, t) \in Container /\ containers \subseteq Container
    BY <1>1, ContainersAreTyped DEF HostInv, HostTypeOK
  <2>. QED
    BY <2>1 DEF LaneStep, ReadCache, LockKey, RunUnshared, ComposeUp,
         SetupFails, TakeSlot, SlotTimeout, AgentEnds, Verify, ComposeDown,
         Store, WriteRow
<1>8. HostTypeOK'
  <2>1. at' \in [Lanes -> Places]
    BY <1>0, <1>1 DEF HostInv, HostTypeOK
  <2>2. mishaps' \in 0..MaxMishaps
    BY <1>3, BoundAssumption DEF HostInv, HostTypeOK
  <2>3. Container' = Container
    BY <1>2 DEF Container, machine
  <2>. QED
    BY <1>2, <1>4, <1>5, <1>6, <1>7, <2>1, <2>2, <2>3
       DEF HostInv, HostTypeOK, machine, caller
<1>9. WorkersPlaced'
  <2>1. boot' <= mishaps'
    BY <1>2, <1>3, BoundAssumption
       DEF HostInv, HostTypeOK, WorkersPlaced, machine
  <2>2. \A q \in Processes, u \in Trials :
          at'[<<q, u>>] # "off" => at[<<q, u>>] # "off"
    BY <1>0, <1>1 DEF HostInv, HostTypeOK, Lanes
  <2>. QED
    BY <1>2, <2>1, <2>2 DEF HostInv, WorkersPlaced, machine, caller
<1>. QED
  BY <1>8, <1>9 DEF HostInv

LEMMA BatchStepTyped ==
  ASSUME HostInv, NEW p \in Processes,
         StartProcess(p) \/ BeginBatch(p) \/ BatchStep(p)
  PROVE  HostInv'
<1>. USE DEF HostInv
<1>1. CASE StartProcess(p)
  <2>1. HostTypeOK'
    BY <1>1 DEF StartProcess, HostTypeOK, Stages, Container, machine, worker,
         locks, files
  <2>2. WorkersPlaced'
    <3>1. UNCHANGED <<boot, mishaps, call, at, workload>>
      BY <1>1 DEF StartProcess, machine, worker
    <3>2. /\ stage[p] = "down" \/ pid[p] = NoPid
          /\ pid'[p] \in Pids /\ stage'[p] = "idle"
          /\ \A q \in Processes \ {p} :
               pid'[q] = pid[q] /\ stage'[q] = stage[q]
      BY <1>1 DEF StartProcess, HostTypeOK
    <3>3. \A t \in Trials : at[<<p, t>>] = "off"
      BY <3>2, SlotAssumption DEF WorkersPlaced, NoPid
    <3>. QED
      BY <3>1, <3>2, <3>3 DEF WorkersPlaced
  <2>. QED
    BY <2>1, <2>2
<1>2. CASE BeginBatch(p)
  <2>1. workload' = workload /\ Len(workload) \in Nat
    BY <1>2, BoundAssumption DEF BeginBatch, HostTypeOK
  <2>2. /\ calls \in 0..Len(workload) /\ calls' = calls + 1
        /\ calls < Len(workload) /\ call' = [call EXCEPT ![p] = calls + 1]
    BY <1>2 DEF BeginBatch, HostTypeOK
  <2>3. calls' \in 0..Len(workload) /\ call' \in [Processes -> 0..calls']
    BY <2>1, <2>2 DEF HostTypeOK
  <2>4. Orphans \subseteq Container /\ Container' = Container
    BY <2>1 DEF Orphans, HostTypeOK, Container
  <2>5. doomed' \in [Processes -> SUBSET Container']
    BY <1>2, <2>4 DEF BeginBatch, HostTypeOK
  <2>6. mishaps' \in 0..MaxMishaps /\ mishaps' >= mishaps
    BY <1>2, BoundAssumption DEF BeginBatch, HostTypeOK, Mishap
  <2>7. HostTypeOK'
    BY <1>2, <2>1, <2>3, <2>4, <2>5, <2>6
       DEF BeginBatch, HostTypeOK, Stages, worker, locks, files
  <2>8. WorkersPlaced'
    <3>1. stage[p] = "idle" /\ \A t \in Trials : at[<<p, t>>] = "off"
      BY <1>2 DEF BeginBatch, WorkersPlaced
    <3>2. boot' <= mishaps'
      BY <1>2, <2>6, BoundAssumption
         DEF BeginBatch, WorkersPlaced, HostTypeOK
    <3>3. call'[p] # 0 /\ \A q \in Processes \ {p} : call'[q] = call[q]
      BY <2>2 DEF HostTypeOK
    <3>4. /\ UNCHANGED <<pid, at, workload>>
          /\ stage' = [stage EXCEPT ![p] = "reaping"]
      BY <1>2 DEF BeginBatch, worker
    <3>. QED
      BY <3>1, <3>2, <3>3, <3>4 DEF WorkersPlaced, HostTypeOK
  <2>. QED
    BY <2>7, <2>8
<1>3. CASE RemoveOrphan(p) \/ PreflightFails(p)
  <2>1. mishaps' \in 0..MaxMishaps /\ mishaps' >= mishaps
    BY <1>3, BoundAssumption
       DEF RemoveOrphan, PreflightFails, HostTypeOK, Mishap
  <2>2. HostTypeOK'
    BY <1>3, <2>1 DEF RemoveOrphan, PreflightFails, HostTypeOK, Stages,
         Container, machine, worker, locks, files
  <2>3. boot' <= mishaps'
    BY <1>3, <2>1, BoundAssumption
       DEF RemoveOrphan, PreflightFails, HostTypeOK, WorkersPlaced, machine
  <2>4. WorkersPlaced'
    BY <1>3, <2>3 DEF RemoveOrphan, PreflightFails, HostTypeOK,
         WorkersPlaced, machine, worker
  <2>. QED
    BY <2>2, <2>4
<1>4. CASE Resume(p) \/ EndBatch(p)
  <2>1. UNCHANGED <<machine, locks, files, pid, doomed, containers, mishaps>>
    BY <1>4 DEF Resume, EndBatch
  <2>2. \A q \in Processes \ {p} :
          /\ stage'[q] = stage[q]
          /\ \A t \in Trials : at'[<<q, t>>] = at[<<q, t>>]
    BY <1>4 DEF Resume, EndBatch, HostTypeOK, Lanes, LanesOf
  <2>3. /\ at' \in [Lanes -> Places] /\ stage' \in [Processes -> Stages]
        /\ attempt' \in [Lanes -> 0..Retries]
        /\ result' \in [Lanes -> Results]
    <3>1. stage' \in [Processes -> Stages]
      BY <1>4 DEF Resume, EndBatch, HostTypeOK, Stages
    <3>2. at' \in [Lanes -> Places]
      BY <1>4 DEF Resume, EndBatch, HostTypeOK, Places
    <3>3. /\ attempt' = [l \in Lanes |-> IF l \in LanesOf(p) THEN 0
                                         ELSE attempt[l]]
          /\ result' = [l \in Lanes |-> IF l \in LanesOf(p) THEN "none"
                                        ELSE result[l]]
      BY <1>4 DEF Resume, EndBatch
    <3>4. 0 \in 0..Retries /\ "none" \in Results
      BY BoundAssumption DEF Results
    <3>. QED
      BY <3>1, <3>2, <3>3, <3>4 DEF HostTypeOK
  <2>4. HostTypeOK'
    BY <2>1, <2>3
       DEF HostTypeOK, Container, machine, locks, files
  <2>5. \A t \in Trials : at'[<<p, t>>] # "off" =>
          stage'[p] = "running" /\ t \in workload[call[p]]
    <3>1. \A t \in Trials : at[<<p, t>>] # "off" =>
            stage[p] = "running" /\ t \in workload[call[p]]
      BY DEF WorkersPlaced
    <3>2. \A t \in Trials : <<p, t>> \in Lanes
      BY DEF Lanes
    <3>3. \A t \in Trials :
            <<p, t>> \in LanesOf(p) <=> t \in workload[call[p]]
      BY DEF LanesOf
    <3>4. CASE Resume(p)
      BY <1>4, <3>1, <3>2, <3>3, <3>4 DEF Resume, HostTypeOK
    <3>5. CASE EndBatch(p)
      BY <1>4, <3>1, <3>2, <3>3, <3>5 DEF EndBatch, HostTypeOK
    <3>. QED
      BY <1>4, <3>4, <3>5
  <2>6. stage[p] \in {"reaping", "running"}
    BY <1>4 DEF Resume, EndBatch
  <2>7. WorkersPlaced'
    <3>1. UNCHANGED <<boot, mishaps, call, pid, workload>>
      BY <2>1 DEF machine
    <3>2. pid[p] \in Pids /\ call[p] # 0
      BY <2>6 DEF WorkersPlaced
    <3>3. ASSUME NEW q \in Processes
          PROVE  /\ stage'[q] # "down" => pid[q] \in Pids
                 /\ stage'[q] \in {"reaping", "running"} => call[q] # 0
      BY <2>2, <3>2, <3>3 DEF WorkersPlaced
    <3>4. ASSUME NEW q \in Processes, NEW t \in Trials,
                 at'[<<q, t>>] # "off"
          PROVE  stage'[q] = "running" /\ t \in workload[call[q]]
      BY <2>2, <2>5, <3>4 DEF WorkersPlaced
    <3>. QED
      BY <3>1, <3>3, <3>4 DEF WorkersPlaced
  <2>. QED
    BY <2>4, <2>7
<1>. QED
  BY <1>1, <1>2, <1>3, <1>4 DEF BatchStep

LEMMA DeathTyped ==
  ASSUME HostInv, NEW dead \in SUBSET Processes, Dies(dead), Mishap,
         boot' \in {boot, boot + 1}
  PROVE  HostInv'
<1>1. /\ boot' \in 0..MaxMishaps /\ boot' <= mishaps'
      /\ mishaps' \in 0..MaxMishaps
  BY BoundAssumption DEF HostInv, HostTypeOK, WorkersPlaced, Mishap
<1>2. UNCHANGED <<workload, scope, calls, call, files, containers>>
  BY DEF Dies
<1>3. /\ pid' \in [Processes -> Pids \union {NoPid}]
      /\ stage' \in [Processes -> Stages]
      /\ doomed' \in [Processes -> SUBSET Container]
      /\ at' \in [Lanes -> Places]
      /\ attempt' \in [Lanes -> 0..Retries]
      /\ result' \in [Lanes -> Results]
  BY BoundAssumption
     DEF Dies, HostInv, HostTypeOK, Stages, Places, Results
<1>4. /\ keyLock' \in [Trials -> Lanes \union {NoLane}]
      /\ slotLock' \in [Slots -> Lanes \union {NoLane}]
  BY DEF Dies, HostInv, HostTypeOK
<1>5. HostTypeOK'
  BY <1>1, <1>2, <1>3, <1>4
     DEF HostInv, HostTypeOK, Container, files
<1>6. \A p \in Processes : p \in dead =>
        stage'[p] = "down" /\ \A t \in Trials : at'[<<p, t>>] = "off"
  BY DEF Dies, Lanes
<1>7. \A p \in Processes : p \notin dead =>
        /\ stage'[p] = stage[p] /\ pid'[p] = pid[p]
        /\ \A t \in Trials : at'[<<p, t>>] = at[<<p, t>>]
  BY DEF Dies, Lanes
<1>8. WorkersPlaced'
  BY <1>1, <1>2, <1>6, <1>7 DEF HostInv, WorkersPlaced
<1>. QED
  BY <1>5, <1>8 DEF HostInv

LEMMA HostStep == HostInv /\ [Next]_vars => HostInv'
<1>. SUFFICES ASSUME HostInv, [Next]_vars PROVE HostInv'
  OBVIOUS
<1>1. ASSUME NEW p \in Processes,
             StartProcess(p) \/ BeginBatch(p) \/ BatchStep(p)
      PROVE  HostInv'
  BY <1>1, BatchStepTyped
<1>2. ASSUME NEW p \in Processes, NEW t \in Trials, LaneStep(p, t)
      PROVE  HostInv'
  BY <1>2, LaneStepTyped
<1>3. ASSUME NEW p \in Processes, Crash(p) PROVE HostInv'
  BY <1>3, DeathTyped DEF Crash
<1>4. CASE Reboot
  BY <1>4, DeathTyped DEF Reboot
<1>5. CASE UNCHANGED vars
  BY <1>5 DEF vars, machine, worker, locks, files, caller, HostInv,
       HostTypeOK, WorkersPlaced, Container
<1>. QED
  BY <1>1, <1>2, <1>3, <1>4, <1>5 DEF Next, Rests

(* Every variable keeps its type and workers exist in running batches only. *)
THEOREM HostTypeCorrect == Spec => []HostTypeOK
<1>1. Spec => []HostInv
  BY InitPlaced, HostStep, PTL DEF Spec
<1>. QED
  BY <1>1, PTL DEF HostInv

-----------------------------------------------------------------------------
(* A worker of a shared scope holds the lock of its key from the look into  *)
(* the cache to the store, and the cache has nothing usable in between.     *)
Inside == {"start", "slot", "agent", "verify", "down", "store"}

KeysGuarded ==
  \A p \in Processes, t \in Trials :
    /\ at[<<p, t>>] = "store" => Shares(p)
    /\ at[<<p, t>>] \in Inside /\ Shares(p) =>
         keyLock[t] = <<p, t>> /\ ~Cacheable(cache[t])

LEMMA NoLaneIsNoLane == NoLane \notin Lanes
BY DEF NoLane, Lanes

LEMMA LaneKeepsKeys ==
  ASSUME HostInv, KeysGuarded,
         NEW p \in Processes, NEW t \in Trials, LaneStep(p, t)
  PROVE  KeysGuarded'
<1>. SUFFICES ASSUME NEW q \in Processes, NEW u \in Trials
              PROVE  /\ at'[<<q, u>>] = "store" => Shares(q)'
                     /\ at'[<<q, u>>] \in Inside /\ Shares(q)' =>
                          keyLock'[u] = <<q, u>> /\ ~Cacheable(cache'[u])
  BY DEF KeysGuarded, Cacheable
<1>1. /\ <<p, t>> \in Lanes /\ <<q, u>> \in Lanes
      /\ at \in [Lanes -> Places] /\ DOMAIN keyLock = Trials
      /\ DOMAIN cache = Trials
  BY DEF Lanes, HostInv, HostTypeOK
<1>2. Shares(q)' <=> Shares(q)
  BY DEF LaneStep, ReadCache, LockKey, RunUnshared, ComposeUp, SetupFails,
         TakeSlot, SlotTimeout, AgentEnds, Verify, ComposeDown, Store,
         WriteRow, machine, Shares
<1>3. at[<<q, u>>] \in Inside /\ Shares(q) =>
        keyLock[u] = <<q, u>> /\ ~Cacheable(cache[u])
  BY DEF KeysGuarded
<1>7. at'[<<q, u>>] = "store" => Shares(q)'
  <2>1. at[<<q, u>>] = "store" => Shares(q)
    BY DEF KeysGuarded
  <2>. QED
    BY <1>1, <1>2, <2>1 DEF LaneStep, ReadCache, LockKey, RunUnshared,
         ComposeUp, SetupFails, TakeSlot, SlotTimeout, AgentEnds, Verify,
         ComposeDown, Store, WriteRow, Moves
<1>8. SUFFICES ASSUME at'[<<q, u>>] \in Inside, Shares(q)
               PROVE  keyLock'[u] = <<q, u>> /\ ~Cacheable(cache'[u])
  BY <1>2, <1>7
<1>4. CASE LockKey(p, t)
  <2>1. CASE <<q, u>> = <<p, t>>
    BY <1>1, <1>4, <1>8, <2>1 DEF LockKey, files, Cacheable
  <2>2. CASE <<q, u>> # <<p, t>>
    <3>1. at[<<q, u>>] \in Inside
      BY <1>1, <1>4, <1>8, <2>2 DEF LockKey, Moves
    <3>2. u # t
      BY <1>1, <1>3, <1>4, <1>8, <3>1, NoLaneIsNoLane DEF LockKey
    <3>. QED
      BY <1>3, <1>4, <1>8, <3>1, <3>2 DEF LockKey, files, Cacheable
  <2>. QED
    BY <2>1, <2>2
<1>5. CASE Store(p, t)
  <2>1. <<q, u>> # <<p, t>> /\ at[<<q, u>>] \in Inside
    BY <1>1, <1>5, <1>8 DEF Store, Moves, Inside
  <2>2. CASE u # t
    BY <1>1, <1>3, <1>5, <1>8, <2>1, <2>2 DEF Store, Cacheable
  <2>3. CASE u = t
    <3>1. Shares(p) /\ keyLock[t] = <<p, t>>
      BY <1>5 DEF Store, Moves, KeysGuarded, Inside
    <3>. QED
      BY <1>3, <1>8, <2>1, <2>3, <3>1
  <2>. QED
    BY <2>2, <2>3
<1>6. CASE ~LockKey(p, t) /\ ~Store(p, t)
  <2>1. UNCHANGED <<keyLock, cache>>
    BY <1>6 DEF LaneStep, ReadCache, RunUnshared, ComposeUp, SetupFails,
         TakeSlot, SlotTimeout, AgentEnds, Verify, ComposeDown, WriteRow,
         locks, files
  <2>2. at[<<q, u>>] \in Inside
    BY <1>1, <1>2, <1>6, <1>8 DEF LaneStep, ReadCache, RunUnshared,
         ComposeUp, SetupFails, TakeSlot, SlotTimeout, AgentEnds, Verify,
         ComposeDown, WriteRow, Moves, Inside
  <2>. QED
    BY <1>3, <1>8, <2>1, <2>2 DEF Cacheable
<1>. QED
  BY <1>4, <1>5, <1>6

LEMMA DeathKeepsKeys ==
  ASSUME HostInv, KeysGuarded, NEW dead \in SUBSET Processes, Dies(dead)
  PROVE  KeysGuarded'
<1>. SUFFICES ASSUME NEW q \in Processes, NEW u \in Trials
              PROVE  /\ at'[<<q, u>>] = "store" => Shares(q)'
                     /\ at'[<<q, u>>] \in Inside /\ Shares(q)' =>
                          keyLock'[u] = <<q, u>> /\ ~Cacheable(cache'[u])
  BY DEF KeysGuarded, Cacheable
<1>1. CASE q \in dead
  BY <1>1 DEF Dies, Lanes, Inside
<1>2. CASE q \notin dead
  <2>1. at'[<<q, u>>] = at[<<q, u>>] /\ (Shares(q)' <=> Shares(q))
    BY <1>2 DEF Dies, Lanes, Shares
  <2>2. keyLock[u] = <<q, u>> => keyLock'[u] = <<q, u>>
    BY <1>2 DEF Dies
  <2>. QED
    BY <2>1, <2>2 DEF Dies, files, KeysGuarded, Cacheable
<1>. QED
  BY <1>1, <1>2

LEMMA KeyStep == HostInv /\ KeysGuarded /\ [Next]_vars => KeysGuarded'
<1>. SUFFICES ASSUME HostInv, KeysGuarded, [Next]_vars PROVE KeysGuarded'
  OBVIOUS
<1>1. ASSUME NEW p \in Processes, NEW t \in Trials, LaneStep(p, t)
      PROVE  KeysGuarded'
  BY <1>1, LaneKeepsKeys
<1>2. ASSUME NEW dead \in SUBSET Processes, Dies(dead) PROVE KeysGuarded'
  BY <1>2, DeathKeepsKeys
<1>3. ASSUME NEW p \in Processes, Resume(p) \/ EndBatch(p)
      PROVE  KeysGuarded'
  <2>1. \A l \in Lanes : at'[l] = at[l] \/ at'[l] \in {"off", "queued", "done"}
    BY <1>3 DEF Resume, EndBatch
  <2>2. UNCHANGED <<keyLock, cache, scope>>
    BY <1>3 DEF Resume, EndBatch, locks, files, machine
  <2>. QED
    BY <2>1, <2>2 DEF KeysGuarded, Lanes, Inside, Shares, Cacheable
<1>4. ASSUME NEW p \in Processes, StartProcess(p) \/ BeginBatch(p) \/
             RemoveOrphan(p) \/ PreflightFails(p)
      PROVE  KeysGuarded'
  BY <1>4 DEF StartProcess, BeginBatch, RemoveOrphan, PreflightFails, machine,
       worker, locks, files, KeysGuarded, Shares, Cacheable
<1>5. CASE UNCHANGED vars
  BY <1>5 DEF vars, machine, worker, locks, files, KeysGuarded, Shares,
       Cacheable
<1>6. ASSUME NEW p \in Processes, Crash(p) PROVE KeysGuarded'
  BY <1>2, <1>6 DEF Crash
<1>7. CASE Reboot
  BY <1>2, <1>7 DEF Reboot
<1>. QED
  BY <1>1, <1>3, <1>4, <1>5, <1>6, <1>7 DEF Next, BatchStep, Rests

LEMMA OnlySlotsStartAgents ==
  ASSUME HostInv, [Next]_vars, NEW l \in Lanes, Starts(l)
  PROVE  at[l] = "slot"
<1>1. ASSUME NEW p \in Processes, NEW t \in Trials, LaneStep(p, t)
      PROVE  at[l] = "slot"
  BY <1>1 DEF LaneStep, ReadCache, LockKey, RunUnshared, ComposeUp,
       SetupFails, TakeSlot, SlotTimeout, AgentEnds, Verify, ComposeDown,
       Store, WriteRow, Moves, Starts, HostInv, HostTypeOK
<1>2. ASSUME NEW p \in Processes, Resume(p) \/ EndBatch(p)
      PROVE  FALSE
  BY <1>2 DEF Resume, EndBatch, Starts
<1>3. ASSUME NEW dead \in SUBSET Processes, Dies(dead) PROVE FALSE
  BY <1>3 DEF Dies, Starts
<1>4. ASSUME NEW p \in Processes, Crash(p) PROVE FALSE
  BY <1>3, <1>4 DEF Crash
<1>5. CASE Reboot
  BY <1>3, <1>5 DEF Reboot
<1>6. ASSUME NEW p \in Processes, StartProcess(p) \/ BeginBatch(p) \/
             RemoveOrphan(p) \/ PreflightFails(p)
      PROVE  FALSE
  BY <1>6 DEF StartProcess, BeginBatch, RemoveOrphan, PreflightFails, worker,
       Starts
<1>7. CASE UNCHANGED vars
  BY <1>7 DEF vars, worker, Starts
<1>. QED
  BY <1>1, <1>2, <1>4, <1>5, <1>6, <1>7 DEF Next, BatchStep, Rests

(* No process runs a trial whose key has a usable result, for any number of *)
(* processes: the lock covers the look and the store, and a dead process    *)
(* gives it back without having stored anything unverified.                 *)
THEOREM CachedTrialsRunOnce == Spec => CachedTrialRunsOnce
<1>1. Init => KeysGuarded
  BY DEF Init, KeysGuarded, Inside, Lanes
<1>2. HostInv /\ KeysGuarded /\ [Next]_vars =>
        [\A p \in Processes, t \in Trials :
           Shares(p) /\ Cacheable(cache[t]) => ~Starts(<<p, t>>)]_vars
  <2>. SUFFICES ASSUME HostInv, KeysGuarded, [Next]_vars,
                       NEW p \in Processes, NEW t \in Trials,
                       Shares(p), Cacheable(cache[t]), Starts(<<p, t>>)
                PROVE  FALSE
    OBVIOUS
  <2>1. at[<<p, t>>] = "slot"
    BY OnlySlotsStartAgents DEF Lanes
  <2>. QED
    BY <2>1 DEF KeysGuarded, Inside
<1>. QED
  BY <1>1, <1>2, InitPlaced, HostStep, KeyStep, PTL
     DEF Spec, CachedTrialRunsOnce

-----------------------------------------------------------------------------
(* A worker whose trial has a completed row does not work on it.            *)
RowsAtRest ==
  \A l \in Lanes : rows[l] = "good" => at[l] \in {"off", "done"}

LEMMA RowStep ==
  ASSUME HostInv, RowsAtRest, [Next]_vars
  PROVE  /\ RowsAtRest'
         /\ \A l \in Lanes : rows[l] = "good" => rows'[l] = "good"
<1>. DEFINE Kept == \A l \in Lanes : rows[l] = "good" => rows'[l] = "good"
<1>1. ASSUME NEW p \in Processes, NEW t \in Trials, LaneStep(p, t)
      PROVE  RowsAtRest' /\ Kept
  <2>1. <<p, t>> \in Lanes /\ at[<<p, t>>] \notin {"off", "done"}
    BY <1>1 DEF Lanes, LaneStep, ReadCache, LockKey, RunUnshared, ComposeUp,
         SetupFails, TakeSlot, SlotTimeout, AgentEnds, Verify, ComposeDown,
         Store, WriteRow, Moves
  <2>2. \A l \in Lanes : l # <<p, t>> =>
          at'[l] = at[l] /\ rows'[l] = rows[l]
    BY <1>1 DEF LaneStep, ReadCache, LockKey, RunUnshared, ComposeUp,
         SetupFails, TakeSlot, SlotTimeout, AgentEnds, Verify, ComposeDown,
         Store, WriteRow, Moves, files, HostInv, HostTypeOK
  <2>3. rows[<<p, t>>] # "good"
    BY <2>1 DEF RowsAtRest
  <2>4. rows'[<<p, t>>] = "good" => at'[<<p, t>>] = "done"
    BY <1>1, <2>1, <2>3 DEF LaneStep, ReadCache, LockKey, RunUnshared,
         ComposeUp, SetupFails, TakeSlot, SlotTimeout, AgentEnds, Verify,
         ComposeDown, Store, WriteRow, Moves, files, HostInv, HostTypeOK
  <2>. QED
    BY <2>2, <2>3, <2>4 DEF RowsAtRest
<1>2. ASSUME NEW p \in Processes, Resume(p) \/ EndBatch(p)
      PROVE  RowsAtRest' /\ Kept
  <2>1. UNCHANGED rows
    BY <1>2 DEF Resume, EndBatch, files
  <2>2. \A l \in Lanes : rows[l] = "good" => at'[l] \in {"off", "done"}
    BY <1>2 DEF Resume, EndBatch, RowsAtRest, Cacheable
  <2>. QED
    BY <2>1, <2>2 DEF RowsAtRest
<1>3. ASSUME NEW dead \in SUBSET Processes, Dies(dead)
      PROVE  RowsAtRest' /\ Kept
  BY <1>3 DEF Dies, files, RowsAtRest
<1>4. ASSUME NEW p \in Processes, Crash(p) PROVE RowsAtRest' /\ Kept
  BY <1>3, <1>4 DEF Crash
<1>5. CASE Reboot
  BY <1>3, <1>5 DEF Reboot
<1>6. ASSUME NEW p \in Processes, StartProcess(p) \/ BeginBatch(p) \/
             RemoveOrphan(p) \/ PreflightFails(p)
      PROVE  RowsAtRest' /\ Kept
  BY <1>6 DEF StartProcess, BeginBatch, RemoveOrphan, PreflightFails, worker,
       files, RowsAtRest
<1>7. CASE UNCHANGED vars
  BY <1>7 DEF vars, worker, files, RowsAtRest
<1>. QED
  BY <1>1, <1>2, <1>4, <1>5, <1>6, <1>7 DEF Next, BatchStep, Rests

(* Completed rows are final and their trials do not run again, in any scope *)
(* and after any number of crashes and calls.                               *)
THEOREM FinishedTrialsKept == Spec => FinishedTrialKept
<1>1. Init => RowsAtRest
  BY DEF Init, RowsAtRest
<1>2. HostInv /\ RowsAtRest /\ [Next]_vars => RowsAtRest'
  BY RowStep
<1>3. HostInv /\ RowsAtRest /\ [Next]_vars =>
        [\A l \in Lanes : rows[l] = "good"
           => rows'[l] = "good" /\ ~Starts(l)]_vars
  BY RowStep, OnlySlotsStartAgents DEF RowsAtRest
<1>. QED
  BY <1>1, <1>2, <1>3, InitPlaced, HostStep, PTL DEF Spec, FinishedTrialKept

-----------------------------------------------------------------------------
(* An agent that runs holds a slot of its own.                              *)
AgentsHoldSlots ==
  \A l \in Lanes : at[l] = "agent" => \E s \in Slots : slotLock[s] = l

LEMMA SlotStep ==
  ASSUME HostInv, AgentsHoldSlots, [Next]_vars
  PROVE  AgentsHoldSlots'
<1>1. ASSUME NEW p \in Processes, NEW t \in Trials, LaneStep(p, t)
      PROVE  AgentsHoldSlots'
  <2>. SUFFICES ASSUME NEW l \in Lanes, at'[l] = "agent"
                PROVE  \E s \in Slots : slotLock'[s] = l
    BY DEF AgentsHoldSlots
  <2>1. /\ <<p, t>> \in Lanes /\ at \in [Lanes -> Places]
        /\ slotLock \in [Slots -> Lanes \union {NoLane}]
    BY DEF Lanes, HostInv, HostTypeOK
  <2>2. CASE TakeSlot(p, t)
    <3>1. PICK s \in FreeSlots(p) :
            slotLock' = [slotLock EXCEPT ![s] = <<p, t>>]
      BY <2>2 DEF TakeSlot
    <3>2. s \in Slots /\ slotLock[s] = NoLane
      BY <3>1 DEF FreeSlots, Slots
    <3>3. CASE l = <<p, t>>
      BY <2>1, <3>1, <3>2, <3>3
    <3>4. CASE l # <<p, t>>
      <4>1. at[l] = "agent"
        BY <2>1, <2>2, <3>4 DEF TakeSlot, Moves
      <4>2. PICK r \in Slots : slotLock[r] = l
        BY <4>1 DEF AgentsHoldSlots
      <4>3. r # s
        BY <3>2, <4>2, NoLaneIsNoLane
      <4>. QED
        BY <2>1, <3>1, <4>2, <4>3
    <3>. QED
      BY <3>3, <3>4
  <2>3. CASE ~TakeSlot(p, t)
    <3>1. at[l] = "agent" /\ (l = <<p, t>> => ~AgentEnds(p, t))
      BY <1>1, <2>1, <2>3 DEF LaneStep, ReadCache, LockKey, RunUnshared,
           ComposeUp, SetupFails, SlotTimeout, AgentEnds, Verify,
           ComposeDown, Store, WriteRow, Moves
    <3>2. PICK r \in Slots : slotLock[r] = l
      BY <3>1 DEF AgentsHoldSlots
    <3>3. slotLock'[r] = l
      BY <1>1, <2>1, <2>3, <3>1, <3>2 DEF LaneStep, ReadCache, LockKey,
           RunUnshared, ComposeUp, SetupFails, SlotTimeout, AgentEnds, Verify,
           ComposeDown, Store, WriteRow, SlotsWithout, locks
    <3>. QED
      BY <3>3
  <2>. QED
    BY <2>2, <2>3
<1>2. ASSUME NEW p \in Processes, Resume(p) \/ EndBatch(p)
      PROVE  AgentsHoldSlots'
  <2>1. UNCHANGED slotLock
    BY <1>2 DEF Resume, EndBatch, locks
  <2>2. \A l \in Lanes : at'[l] = "agent" => at[l] = "agent"
    BY <1>2 DEF Resume, EndBatch
  <2>. QED
    BY <2>1, <2>2 DEF AgentsHoldSlots
<1>3. ASSUME NEW dead \in SUBSET Processes, Dies(dead)
      PROVE  AgentsHoldSlots'
  <2>. SUFFICES ASSUME NEW l \in Lanes, at'[l] = "agent"
                PROVE  \E s \in Slots : slotLock'[s] = l
    BY DEF AgentsHoldSlots
  <2>1. l \notin dead \X Trials /\ at[l] = "agent"
    BY <1>3 DEF Dies
  <2>2. PICK r \in Slots : slotLock[r] = l
    BY <2>1 DEF AgentsHoldSlots
  <2>. QED
    BY <1>3, <2>1, <2>2 DEF Dies
<1>4. ASSUME NEW p \in Processes, Crash(p) PROVE AgentsHoldSlots'
  BY <1>3, <1>4 DEF Crash
<1>5. CASE Reboot
  BY <1>3, <1>5 DEF Reboot
<1>6. ASSUME NEW p \in Processes, StartProcess(p) \/ BeginBatch(p) \/
             RemoveOrphan(p) \/ PreflightFails(p)
      PROVE  AgentsHoldSlots'
  BY <1>6 DEF StartProcess, BeginBatch, RemoveOrphan, PreflightFails, worker,
       locks, AgentsHoldSlots
<1>7. CASE UNCHANGED vars
  BY <1>7 DEF vars, worker, locks, AgentsHoldSlots
<1>. QED
  BY <1>1, <1>2, <1>4, <1>5, <1>6, <1>7 DEF Next, BatchStep, Rests

LEMMA SlotsAreFinite == IsFiniteSet(Slots)
<1>. DEFINE Of == [p \in Processes |-> 1..SlotCount[p]]
            Files == {Of[p] : p \in Processes}
<1>1. Of \in Surjection(Processes, Files)
  BY DEF Surjection
<1>2. IsFiniteSet(Files)
  BY <1>1, FS_Surjection, SlotAssumption
<1>3. ASSUME NEW F \in Files PROVE IsFiniteSet(F)
  <2>1. PICK p \in Processes : F = 1..SlotCount[p]
    OBVIOUS
  <2>2. SlotCount[p] \in Nat
    BY SlotAssumption
  <2>. QED
    BY <2>1, <2>2, FS_Interval
<1>4. IsFiniteSet(UNION Files)
  BY <1>2, <1>3, FS_UNION
<1>5. Slots = UNION Files
  BY DEF Slots
<1>. QED
  BY <1>4, <1>5

(* Never more agents than slot files, for any number of processes with      *)
(* counts of their own.                                                     *)
THEOREM AgentsStayWithinCapacity == Spec => []AgentsWithinCapacity
<1>1. Init => AgentsHoldSlots
  BY DEF Init, AgentsHoldSlots
<1>2. HostInv /\ AgentsHoldSlots => AgentsWithinCapacity
  <2>. SUFFICES ASSUME HostInv, AgentsHoldSlots PROVE AgentsWithinCapacity
    OBVIOUS
  <2>. DEFINE Agents == {l \in Lanes : at[l] = "agent"}
              SlotOf == [l \in Agents |-> CHOOSE s \in Slots : slotLock[s] = l]
  <2>1. SlotOf \in [Agents -> Slots]
    BY DEF AgentsHoldSlots
  <2>2. SlotOf \in Injection(Agents, Slots)
    <3>1. \A l \in Agents : slotLock[SlotOf[l]] = l
      BY DEF AgentsHoldSlots
    <3>. HIDE DEF Agents, SlotOf
    <3>2. \A k, l \in Agents : SlotOf[k] = SlotOf[l] => k = l
      BY <3>1
    <3>. QED
      BY <2>1, <3>2 DEF Injection, IsInjective
  <2>. HIDE DEF Agents, SlotOf
  <2>3. Cardinality(Agents) <= Cardinality(Slots)
    BY <2>2, SlotsAreFinite, FS_Injection
  <2>. QED
    BY <2>3 DEF AgentsWithinCapacity, Agents
<1>3. HostInv /\ AgentsHoldSlots /\ [Next]_vars => AgentsHoldSlots'
  BY SlotStep
<1>. QED
  BY <1>1, <1>2, <1>3, InitPlaced, HostStep, PTL DEF Spec

(* A batch has a number of its own, so what its process left behind carries *)
(* an older one, and a container of a running batch names its live owner.   *)
Active == {"reaping", "running"}

ContainersDated ==
  \A c \in containers :
    /\ c.call <= call[c.proc]
    /\ stage[c.proc] \in Active /\ c.call = call[c.proc]
         => c.pid = pid[c.proc] /\ c.boot = boot

(* What a reaper listed stays an orphan, whoever was given its pid since.   *)
DoomedAreOld ==
  \A q \in Processes : \A c \in doomed[q] :
    /\ c.call <= call[c.proc]
    /\ stage[c.proc] \in Active => c.call # call[c.proc]

ReaperInv == ContainersDated /\ DoomedAreOld /\ LiveContainersKept

LEMMA LaneKeepsContainers ==
  ASSUME HostInv, ReaperInv, NEW p \in Processes, NEW t \in Trials,
         LaneStep(p, t)
  PROVE  ReaperInv'
<1>. DEFINE l == <<p, t>>
            Mine == ContainerOf(p, t)
<1>1. UNCHANGED <<machine, caller>>
  BY DEF LaneStep, ReadCache, LockKey, RunUnshared, ComposeUp, SetupFails,
         TakeSlot, SlotTimeout, AgentEnds, Verify, ComposeDown, Store,
         WriteRow
<1>2. containers' \subseteq containers \union {Mine}
  BY DEF LaneStep, ReadCache, LockKey, RunUnshared, ComposeUp, SetupFails,
         TakeSlot, SlotTimeout, AgentEnds, Verify, ComposeDown, Store,
         WriteRow
<1>3. Mine.proc = p /\ Mine.call = call[p] /\ Mine.pid = pid[p]
      /\ Mine.boot = boot /\ call[p] \in Nat
  BY DEF ContainerOf, HostInv, HostTypeOK
<1>4. ContainersDated'
  <2>. SUFFICES ASSUME NEW c \in containers'
       PROVE  /\ c.call <= call[c.proc]
              /\ stage[c.proc] \in Active /\ c.call = call[c.proc]
                   => c.pid = pid[c.proc] /\ c.boot = boot
    BY <1>1 DEF ContainersDated, machine, caller
  <2>1. CASE c = Mine
    BY <2>1, <1>3
  <2>2. CASE c # Mine
    BY <2>2, <1>2 DEF ReaperInv, ContainersDated
  <2>. QED
    BY <2>1, <2>2
<1>5. DoomedAreOld'
  BY <1>1 DEF ReaperInv, DoomedAreOld, machine, caller
<1>6. LiveContainersKept'
  <2>. SUFFICES ASSUME NEW q \in Processes, NEW u \in Trials,
                       at'[<<q, u>>] \in {"slot", "agent", "verify"}
                PROVE  ContainerOf(q, u)' \in containers'
    BY DEF LiveContainersKept
  <2>1. <<q, u>> \in Lanes /\ l \in Lanes
    BY DEF Lanes
  <2>2. CASE <<q, u>> = l
    <3>1. at[l] \in {"slot", "agent", "verify"} \/ ComposeUp(p, t)
      BY <2>1, <2>2 DEF LaneStep, ReadCache, LockKey, RunUnshared, SetupFails,
           TakeSlot, SlotTimeout, AgentEnds, Verify, ComposeDown, Store,
           WriteRow, Moves, HostInv, HostTypeOK
    <3>2. ContainerOf(q, u)' = Mine
      BY <1>1, <2>1, <2>2, <3>1 DEF LaneStep, ReadCache, LockKey, RunUnshared,
           ComposeUp, SetupFails, TakeSlot, SlotTimeout, AgentEnds, Verify,
           ComposeDown, Store, WriteRow, Moves, ContainerOf, machine, caller
    <3>3. Mine \in containers'
      BY <2>2, <3>1 DEF LaneStep, ReadCache, LockKey, RunUnshared,
           ComposeUp, SetupFails, TakeSlot, SlotTimeout, AgentEnds, Verify,
           ComposeDown, Store, WriteRow, Moves, ReaperInv, LiveContainersKept
    <3>. QED
      BY <3>2, <3>3
  <2>3. CASE <<q, u>> # l
    <3>1. at'[<<q, u>>] = at[<<q, u>>] /\ attempt'[<<q, u>>] = attempt[<<q, u>>]
      BY <2>1, <2>3 DEF LaneStep, ReadCache, LockKey, RunUnshared, ComposeUp,
           SetupFails, TakeSlot, SlotTimeout, AgentEnds, Verify, ComposeDown,
           Store, WriteRow, Moves, HostInv, HostTypeOK
    <3>2. ContainerOf(q, u) \in containers
      BY <3>1 DEF ReaperInv, LiveContainersKept
    <3>3. ContainerOf(q, u)' = ContainerOf(q, u)
      BY <1>1, <3>1 DEF ContainerOf, machine, caller
    <3>4. ContainerOf(q, u) # Mine
      BY <2>3 DEF ContainerOf
    <3>5. containers \ {Mine} \subseteq containers'
      BY DEF LaneStep, ReadCache, LockKey, RunUnshared, ComposeUp, SetupFails,
             TakeSlot, SlotTimeout, AgentEnds, Verify, ComposeDown, Store,
             WriteRow
    <3>. QED
      BY <3>2, <3>3, <3>4, <3>5
  <2>. QED
    BY <2>2, <2>3
<1>. QED
  BY <1>4, <1>5, <1>6 DEF ReaperInv

LEMMA BatchKeepsContainers ==
  ASSUME HostInv, ReaperInv, NEW p \in Processes,
         StartProcess(p) \/ BeginBatch(p) \/ BatchStep(p)
  PROVE  ReaperInv'
<1>1. \A q \in Processes : call[q] \in Nat /\ call[q] <= calls /\ calls \in Nat
  <2>1. calls \in Nat
    <3>1. Len(workload) \in Nat
      BY BoundAssumption DEF HostInv, HostTypeOK
    <3>. QED
      BY <3>1 DEF HostInv, HostTypeOK
  <2>. QED
    BY <2>1 DEF HostInv, HostTypeOK
<1>2. /\ \A c \in containers : c.proc \in Processes /\ c.call \in Nat
      /\ \A q \in Processes : \A c \in doomed[q] :
           c.proc \in Processes /\ c.call \in Nat
  BY DEF HostInv, HostTypeOK, Container
<1>3. CASE StartProcess(p)
  <2>1. UNCHANGED <<call, boot, containers, doomed, at, attempt>>
    BY <1>3 DEF StartProcess, machine, worker
  <2>2. \A q \in Processes : stage'[q] \in Active =>
          stage[q] \in Active /\ pid'[q] = pid[q] /\ q # p
    BY <1>3 DEF StartProcess, Active, HostInv, HostTypeOK, Stages
  <2>3. \A q \in Processes, u \in Trials :
          at[<<q, u>>] # "off" => stage[q] \in Active /\ q # p
    BY <1>3, SlotAssumption
       DEF StartProcess, HostInv, WorkersPlaced, Active, NoPid
  <2>4. \A q \in Processes \ {p} : pid'[q] = pid[q]
    BY <1>3 DEF StartProcess, HostInv, HostTypeOK
  <2>5. ContainersDated' /\ DoomedAreOld'
    BY <1>2, <2>1, <2>2 DEF ReaperInv, ContainersDated, DoomedAreOld
  <2>6. LiveContainersKept'
    <3>. SUFFICES ASSUME NEW q \in Processes, NEW u \in Trials,
                         at[<<q, u>>] \in {"slot", "agent", "verify"}
                  PROVE  ContainerOf(q, u)' \in containers
      BY <2>1 DEF LiveContainersKept
    <3>1. ContainerOf(q, u) \in containers /\ pid'[q] = pid[q]
      BY <2>3, <2>4 DEF ReaperInv, LiveContainersKept
    <3>. QED
      BY <2>1, <3>1 DEF ContainerOf
  <2>. QED
    BY <2>5, <2>6 DEF ReaperInv
<1>4. CASE BeginBatch(p)
  <2>1. UNCHANGED <<boot, pid, containers, at, attempt>>
    BY <1>4 DEF BeginBatch, worker
  <2>2. /\ call' = [call EXCEPT ![p] = calls + 1]
        /\ stage' = [stage EXCEPT ![p] = "reaping"]
        /\ stage[p] = "idle"
        /\ doomed' \in {doomed, [doomed EXCEPT ![p] = Orphans]}
    BY <1>4 DEF BeginBatch
  <2>3. \A q \in Processes : call[q] <= call'[q] /\ call'[q] \in Nat
    BY <1>1, <2>2 DEF HostInv, HostTypeOK
  <2>4. \A q \in Processes \ {p} : call'[q] = call[q] /\ stage'[q] = stage[q]
    BY <2>2 DEF HostInv, HostTypeOK
  <2>5. call[p] < call'[p]
    BY <1>1, <2>2 DEF HostInv, HostTypeOK
  <2>6. ContainersDated'
    <3>. SUFFICES ASSUME NEW c \in containers
         PROVE  /\ c.call <= call'[c.proc]
                /\ stage'[c.proc] \in Active /\ c.call = call'[c.proc]
                     => c.pid = pid[c.proc] /\ c.boot = boot
      BY <2>1 DEF ContainersDated
    <3>1. c.call <= call[c.proc] /\ c.proc \in Processes /\ c.call \in Nat
      BY <1>2 DEF ReaperInv, ContainersDated
    <3>2. c.call <= call'[c.proc] /\ (c.proc = p => c.call # call'[c.proc])
      BY <1>1, <2>3, <2>5, <3>1
    <3>. QED
      BY <2>4, <3>1, <3>2 DEF ReaperInv, ContainersDated
  <2>7. DoomedAreOld'
    <3>. SUFFICES ASSUME NEW q \in Processes, NEW c \in doomed'[q]
         PROVE  /\ c.call <= call'[c.proc]
                /\ stage'[c.proc] \in Active => c.call # call'[c.proc]
      BY DEF DoomedAreOld
    <3>1. c \in doomed[q] \/ c \in Orphans
      BY <2>2 DEF HostInv, HostTypeOK
    <3>2. /\ c.proc \in Processes /\ c.call \in Nat
          /\ c.call <= call[c.proc]
          /\ stage[c.proc] \in Active => c.call # call[c.proc]
      <4>1. CASE c \in doomed[q]
        BY <4>1, <1>2 DEF ReaperInv, DoomedAreOld
      <4>2. CASE c \in Orphans
        <5>1. /\ c \in containers
              /\ c.boot # boot \/ c.pid \notin {pid[r] : r \in Live}
          BY <4>2 DEF Orphans
        <5>2. stage[c.proc] \in Active => c.proc \in Live
          BY <1>2, <5>1, SlotAssumption
             DEF Live, Active, NoPid, HostInv, WorkersPlaced
        <5>. QED
          BY <1>2, <5>1, <5>2 DEF ReaperInv, ContainersDated
      <4>. QED
        BY <3>1, <4>1, <4>2
    <3>3. c.call <= call'[c.proc] /\ (c.proc = p => c.call # call'[c.proc])
      BY <1>1, <2>3, <2>5, <3>2
    <3>. QED
      BY <2>4, <3>2, <3>3
  <2>8. LiveContainersKept'
    <3>1. \A q \in Processes, u \in Trials : at[<<q, u>>] # "off" => q # p
      BY <2>2 DEF HostInv, WorkersPlaced
    <3>. QED
      BY <2>1, <2>4, <3>1 DEF ReaperInv, LiveContainersKept, ContainerOf
  <2>. QED
    BY <2>6, <2>7, <2>8 DEF ReaperInv
<1>5. CASE RemoveOrphan(p)
  <2>1. UNCHANGED <<call, boot, pid, stage, at, attempt>>
    BY <1>5 DEF RemoveOrphan, machine, worker
  <2>2. PICK c \in doomed[p] : containers' \in {containers, containers \ {c}}
    BY <1>5 DEF RemoveOrphan
  <2>3. \A q \in Processes : doomed'[q] \subseteq doomed[q]
    BY <1>5 DEF RemoveOrphan, HostInv, HostTypeOK
  <2>4. LiveContainersKept'
    <3>. SUFFICES ASSUME NEW q \in Processes, NEW u \in Trials,
                         at[<<q, u>>] \in {"slot", "agent", "verify"}
                  PROVE  ContainerOf(q, u) \in containers'
      BY <2>1 DEF LiveContainersKept, ContainerOf
    <3>1. ContainerOf(q, u) \in containers /\ stage[q] \in Active
      BY DEF ReaperInv, LiveContainersKept, HostInv, WorkersPlaced, Active
    <3>2. ContainerOf(q, u).proc = q /\ ContainerOf(q, u).call = call[q]
      BY DEF ContainerOf
    <3>3. c # ContainerOf(q, u)
      BY <3>1, <3>2 DEF ReaperInv, DoomedAreOld
    <3>. QED
      BY <2>2, <3>1, <3>3
  <2>. QED
    BY <2>1, <2>2, <2>3, <2>4 DEF ReaperInv, ContainersDated, DoomedAreOld
<1>6. CASE PreflightFails(p) \/ Resume(p) \/ EndBatch(p)
  <2>1. /\ UNCHANGED <<call, boot, pid, containers>>
        /\ \A q \in Processes : doomed'[q] \subseteq doomed[q]
    BY <1>6 DEF PreflightFails, Resume, EndBatch, machine, HostInv, HostTypeOK
  <2>2. \A q \in Processes : stage'[q] \in Active => stage[q] \in Active
    BY <1>6 DEF PreflightFails, Resume, EndBatch, Active, HostInv, HostTypeOK
  <2>3. \A l \in Lanes : at'[l] \in {"slot", "agent", "verify"}
          => at[l] = at'[l] /\ attempt'[l] = attempt[l]
    <3>1. CASE PreflightFails(p)
      BY <3>1 DEF PreflightFails, worker
    <3>2. CASE Resume(p)
      BY <3>2 DEF Resume
    <3>3. CASE EndBatch(p)
      BY <3>3 DEF EndBatch
    <3>. QED
      BY <1>6, <3>1, <3>2, <3>3
  <2>. QED
    BY <1>2, <2>1, <2>2, <2>3 DEF ReaperInv, ContainersDated, DoomedAreOld,
       LiveContainersKept, ContainerOf, Lanes
<1>. QED
  BY <1>3, <1>4, <1>5, <1>6 DEF BatchStep

LEMMA DeathKeepsContainers ==
  ASSUME HostInv, ReaperInv, NEW dead \in SUBSET Processes, Dies(dead),
         dead = Processes \/ UNCHANGED boot
  PROVE  ReaperInv'
<1>1. UNCHANGED <<call, containers>>
  BY DEF Dies
<1>2. \A q \in Processes : stage'[q] \in Active =>
        /\ stage[q] \in Active /\ q \notin dead /\ pid'[q] = pid[q]
        /\ UNCHANGED boot
  BY DEF Dies, Active
<1>3. \A q \in Processes : doomed'[q] \subseteq doomed[q]
  BY DEF Dies
<1>4. \A q \in Processes, u \in Trials : at'[<<q, u>>] # "off" =>
        /\ at'[<<q, u>>] = at[<<q, u>>]
        /\ attempt'[<<q, u>>] = attempt[<<q, u>>]
        /\ q \notin dead
  BY DEF Dies, Lanes
<1>5. \A c \in containers : c.proc \in Processes
  BY DEF HostInv, HostTypeOK, Container
<1>6. \A q \in Processes : \A c \in doomed[q] : c.proc \in Processes
  BY DEF HostInv, HostTypeOK, Container
<1>7. ContainersDated' /\ DoomedAreOld'
  BY <1>1, <1>2, <1>3, <1>5, <1>6 DEF ReaperInv, ContainersDated, DoomedAreOld
<1>8. LiveContainersKept'
  <2>. SUFFICES ASSUME NEW q \in Processes, NEW u \in Trials,
                       at'[<<q, u>>] \in {"slot", "agent", "verify"}
                PROVE  ContainerOf(q, u)' \in containers'
    BY DEF LiveContainersKept
  <2>1. ContainerOf(q, u) \in containers /\ q \notin dead
    BY <1>4 DEF ReaperInv, LiveContainersKept
  <2>2. pid'[q] = pid[q] /\ UNCHANGED boot
    BY <2>1 DEF Dies
  <2>. QED
    BY <1>1, <1>4, <2>1, <2>2 DEF ContainerOf
<1>. QED
  BY <1>7, <1>8 DEF ReaperInv

(* container_reaper.py: "Anything a live run owns is left alone", however   *)
(* many processes crash, restart under a reused pid and reap at once.       *)
THEOREM LiveContainersAreKept == Spec => []LiveContainersKept
<1>1. Init => ReaperInv
  BY DEF Init, ReaperInv, ContainersDated, DoomedAreOld, LiveContainersKept,
         Lanes
<1>2. HostInv /\ ReaperInv /\ [Next]_vars => ReaperInv'
  <2>. SUFFICES ASSUME HostInv, ReaperInv, [Next]_vars PROVE ReaperInv'
    OBVIOUS
  <2>1. ASSUME NEW p \in Processes, NEW t \in Trials, LaneStep(p, t)
        PROVE  ReaperInv'
    BY <2>1, LaneKeepsContainers
  <2>2. ASSUME NEW p \in Processes,
               StartProcess(p) \/ BeginBatch(p) \/ BatchStep(p)
        PROVE  ReaperInv'
    BY <2>2, BatchKeepsContainers
  <2>3. ASSUME NEW p \in Processes, Crash(p) PROVE ReaperInv'
    BY <2>3, DeathKeepsContainers DEF Crash
  <2>4. CASE Reboot
    BY <2>4, DeathKeepsContainers DEF Reboot
  <2>5. CASE UNCHANGED vars
    BY <2>5 DEF vars, machine, worker, caller, ReaperInv, ContainersDated,
       DoomedAreOld, LiveContainersKept, ContainerOf
  <2>. QED
    BY <2>1, <2>2, <2>3, <2>4, <2>5 DEF Next, Rests
<1>. QED
  BY <1>1, <1>2, InitPlaced, HostStep, PTL DEF Spec, ReaperInv

-----------------------------------------------------------------------------
(* A run that counts for a process: its own, or one it shares results with. *)
VerifiedFor(p, t) ==
  \E q \in Processes : /\ <<q, t>> \in verified
                       /\ q = p \/ (Shares(p) /\ Shares(q))

(* What a worker holds, a row and an object say good only of a run whose    *)
(* verifier completed; nothing but such a result is in the cache.           *)
ResultsTraced ==
  /\ \A p \in Processes, t \in Trials :
       "good" \in {result[<<p, t>>], rows[<<p, t>>]} => VerifiedFor(p, t)
  /\ \A t \in Trials :
       /\ cache[t] \in {"none", "good"}
       /\ cache[t] = "good" =>
            \E p \in Processes : Shares(p) /\ <<p, t>> \in verified

LEMMA LaneTracesResults ==
  ASSUME HostInv, KeysGuarded, ResultsTraced,
         NEW p \in Processes, NEW t \in Trials, LaneStep(p, t)
  PROVE  ResultsTraced'
<1>. DEFINE l == <<p, t>>
<1>1. UNCHANGED scope /\ verified \subseteq verified'
  BY DEF LaneStep, ReadCache, LockKey, RunUnshared, ComposeUp, SetupFails,
         TakeSlot, SlotTimeout, AgentEnds, Verify, ComposeDown, Store,
         WriteRow, machine, files
<1>2. \A q \in Processes, u \in Trials :
        VerifiedFor(q, u) => VerifiedFor(q, u)'
  BY <1>1 DEF VerifiedFor, Shares
<1>3. \A u \in Trials :
        (\E q \in Processes : Shares(q) /\ <<q, u>> \in verified) =>
          \E q \in Processes : Shares(q)' /\ <<q, u>> \in verified'
  BY <1>1 DEF Shares
<1>4. /\ l \in Lanes
      /\ result \in [Lanes -> Results] /\ rows \in [Lanes -> Results]
      /\ cache \in [Trials -> Results]
  BY DEF Lanes, HostInv, HostTypeOK
<1>5. \A m \in Lanes : m # l => result'[m] = result[m] /\ rows'[m] = rows[m]
  BY <1>4 DEF LaneStep, ReadCache, LockKey, RunUnshared, ComposeUp,
         SetupFails, TakeSlot, SlotTimeout, AgentEnds, Verify, ComposeDown,
         Store, WriteRow, files
<1>6. result'[l] = "good" => VerifiedFor(p, t)'
  <2>1. CASE ReadCache(p, t)
    <3>1. Shares(p) /\ cache[t] = "good"
      BY <2>1 DEF ReadCache, Cacheable
    <3>2. VerifiedFor(p, t)
      BY <3>1 DEF ResultsTraced, VerifiedFor
    <3>. QED
      BY <1>2, <3>2
  <2>2. CASE Verify(p, t)
    <3>1. result'[l] = "good" => l \in verified'
      BY <1>4, <2>2 DEF Verify
    <3>. QED
      BY <3>1 DEF VerifiedFor
  <2>3. CASE ~ ReadCache(p, t) /\ ~ Verify(p, t)
    <3>1. result'[l] \in {result[l], "none", "infrastructure"}
      BY <1>4, <2>3 DEF LaneStep, LockKey, RunUnshared, ComposeUp,
         SetupFails, TakeSlot, SlotTimeout, AgentEnds, ComposeDown, Store,
         WriteRow
    <3>. QED
      BY <1>2, <3>1 DEF ResultsTraced
  <2>. QED
    BY <2>1, <2>2, <2>3
<1>7. rows'[l] = "good" => VerifiedFor(p, t)'
  <2>1. rows'[l] \in {rows[l], result[l]}
    BY <1>4 DEF LaneStep, ReadCache, LockKey, RunUnshared, ComposeUp,
         SetupFails, TakeSlot, SlotTimeout, AgentEnds, Verify, ComposeDown,
         Store, WriteRow, files
  <2>. QED
    BY <1>2, <2>1 DEF ResultsTraced
<1>8. ASSUME NEW u \in Trials
      PROVE  /\ cache'[u] \in {"none", "good"}
             /\ cache'[u] = "good" =>
                  \E q \in Processes : Shares(q)' /\ <<q, u>> \in verified'
  <2>1. CASE cache'[u] = cache[u]
    BY <1>3, <2>1 DEF ResultsTraced
  <2>2. CASE cache'[u] # cache[u]
    <3>1. /\ Store(p, t) /\ u = t
          /\ cache'[u] = result[l] /\ result[l] = "good"
      BY <1>4, <2>2 DEF LaneStep, ReadCache, LockKey, RunUnshared, ComposeUp,
         SetupFails, TakeSlot, SlotTimeout, AgentEnds, Verify, ComposeDown,
         Store, WriteRow, files, Cacheable
    <3>2. Shares(p)
      BY <3>1 DEF Store, Moves, KeysGuarded
    <3>3. \E q \in Processes : Shares(q) /\ <<q, t>> \in verified
      BY <3>1, <3>2 DEF ResultsTraced, VerifiedFor
    <3>. QED
      BY <1>3, <3>1, <3>3
  <2>. QED
    BY <2>1, <2>2
<1>9. ASSUME NEW q \in Processes, NEW u \in Trials,
             "good" \in {result'[<<q, u>>], rows'[<<q, u>>]}
      PROVE  VerifiedFor(q, u)'
  <2>1. CASE <<q, u>> = l
    BY <1>6, <1>7, <1>9, <2>1
  <2>2. CASE <<q, u>> # l
    BY <1>2, <1>5, <1>9, <2>2 DEF ResultsTraced, Lanes
  <2>. QED
    BY <2>1, <2>2
<1>. QED
  BY <1>8, <1>9 DEF ResultsTraced

(* Every other step leaves the files alone and only ever drops a row held. *)
LEMMA OthersTraceResults ==
  ASSUME HostInv, ResultsTraced, UNCHANGED <<scope, files>>,
         \A l \in Lanes : result'[l] \in {result[l], "none"}
  PROVE  ResultsTraced'
<1>1. \A p \in Processes, t \in Trials :
        /\ VerifiedFor(p, t)' <=> VerifiedFor(p, t)
        /\ Shares(p)' <=> Shares(p)
  BY DEF VerifiedFor, Shares, files
<1>2. UNCHANGED <<cache, rows, verified>>
  BY DEF files
<1>3. \A p \in Processes, t \in Trials :
        result'[<<p, t>>] = "good" => result[<<p, t>>] = "good"
  BY DEF Lanes
<1>4. ASSUME NEW p \in Processes, NEW t \in Trials,
             "good" \in {result'[<<p, t>>], rows'[<<p, t>>]}
      PROVE  VerifiedFor(p, t)'
  BY <1>1, <1>2, <1>3, <1>4 DEF ResultsTraced
<1>5. ASSUME NEW t \in Trials
      PROVE  /\ cache'[t] \in {"none", "good"}
             /\ cache'[t] = "good" =>
                  \E p \in Processes : Shares(p)' /\ <<p, t>> \in verified'
  BY <1>1, <1>2 DEF ResultsTraced
<1>. QED
  BY <1>4, <1>5 DEF ResultsTraced

LEMMA TraceStep ==
  HostInv /\ KeysGuarded /\ ResultsTraced /\ [Next]_vars => ResultsTraced'
<1>. SUFFICES ASSUME HostInv, KeysGuarded, ResultsTraced, [Next]_vars
              PROVE  ResultsTraced'
  OBVIOUS
<1>1. ASSUME NEW p \in Processes, NEW t \in Trials, LaneStep(p, t)
      PROVE  ResultsTraced'
  BY <1>1, LaneTracesResults
<1>2. ASSUME NEW p \in Processes, Resume(p) \/ EndBatch(p)
      PROVE  ResultsTraced'
  <2>1. UNCHANGED <<scope, files>>
    BY <1>2 DEF Resume, EndBatch, machine
  <2>2. \A l \in Lanes : result'[l] \in {result[l], "none"}
    BY <1>2 DEF Resume, EndBatch
  <2>. QED
    BY <2>1, <2>2, OthersTraceResults
<1>3. ASSUME NEW dead \in SUBSET Processes, Dies(dead) PROVE ResultsTraced'
  BY <1>3, OthersTraceResults DEF Dies
<1>4. ASSUME NEW p \in Processes, Crash(p) PROVE ResultsTraced'
  BY <1>3, <1>4 DEF Crash
<1>5. CASE Reboot
  BY <1>3, <1>5 DEF Reboot
<1>6. ASSUME NEW p \in Processes, StartProcess(p) \/ BeginBatch(p) \/
             RemoveOrphan(p) \/ PreflightFails(p)
      PROVE  ResultsTraced'
  BY <1>6, OthersTraceResults DEF StartProcess, BeginBatch, RemoveOrphan,
     PreflightFails, machine, worker
<1>7. CASE UNCHANGED vars
  BY <1>7, OthersTraceResults DEF vars, machine, worker
<1>. QED
  BY <1>1, <1>2, <1>4, <1>5, <1>6, <1>7 DEF Next, BatchStep, Rests

(* A result in the shared cache, and a completed row, come from a run whose *)
(* verifier completed, of the process itself unless results are shared:     *)
(* for every number of processes, crashes, attempts and calls.              *)
THEOREM ResultsAreAlwaysVerified == Spec => []ResultsAreVerified
<1>1. Init => KeysGuarded /\ ResultsTraced
  BY DEF Init, KeysGuarded, ResultsTraced, Lanes, Inside
<1>2. ResultsTraced => ResultsAreVerified
  BY DEF ResultsTraced, ResultsAreVerified, VerifiedFor
<1>. QED
  BY <1>1, <1>2, InitPlaced, HostStep, KeyStep, TraceStep, PTL DEF Spec
=============================================================================
