------------------------ MODULE PairedRolloutProofs ------------------------
(* A pair of any size, with any number of rounds, units, crashes and killed *)
(* scripts.  First: where lanes can be, and types.  Then what a lane at work *)
(* knows about the files, what the stages of the call know about them, and  *)
(* what one check of the units leaves for each side.                        *)
EXTENDS PairedRollout, FiniteSetTheorems, TLAPS

(* Lanes work only while the call waits for them: those of the sides, or    *)
(* those of the failed trials of one side.                                  *)
LanesPlaced ==
  /\ stage \notin {"pair", "retrying", "raised"} =>
       \A l \in Lanes : at[l] = "off"
  /\ stage = "raised" => \A l \in Lanes : at[l] \in AtRest
  /\ stage = "pair" => \A l \in Lanes : at[l] # "off" <=> l \in Started
  /\ stage = "retrying" =>
       /\ round < Rounds
       /\ \A l \in Lanes : at[l] # "off" =>
            l[1] = side /\ l[2] # 0 /\ l[2] \in Failed(side)

(* A lane that works has no answer on disk yet; one that is done has.       *)
LanesKnow ==
  \A l \in Lanes :
    /\ at[l] \in {"reserved", "run", "repair", "write"} =>
         /\ l[2] = 0 => out[l[1]] = NoFile
         /\ l[2] # 0 => ~RetryAnswered(l)
    /\ at[l] \in {"repair", "write"} => kept[l] \in Batches(l)
    /\ at[l] \in {"settle", "done"} =>
         /\ l[2] = 0 => out[l[1]] # NoFile
         /\ l[2] # 0 => retries[l] # <<>>

(* The units held are those of the lanes that have reserved.                *)
HeldBy(s) == IF at[Side(s)] = "reserved" THEN NumTrials ELSE 0
HeldByRetries == {l \in Lanes : l[2] # 0 /\ at[l] = "reserved"}

HeldIsReserved ==
  stage # "down" =>
    held = HeldBy("parent") + HeldBy("candidate")
             + Cardinality(HeldByRetries)

(* What the call knows about the two files, stage by stage.                 *)
Annotation == IF failures = {} THEN "valid" ELSE "invalid"

CallKnows ==
  /\ stage \in {"decide", "retry", "retrying", "finish", "annotate",
                "returned"} =>
       out["candidate"] # NoFile /\ (~single => out["parent"] # NoFile)
  /\ stage \in {"decide", "annotate"} => ~single
  /\ stage = "finish" => single
  /\ stage \in {"retry", "retrying"} /\ single => side = "candidate"
  /\ stage \in {"decide", "finish", "annotate"} => failures = PairFailures
  /\ stage = "annotate" /\ side = "parent" => mark["candidate"] = Annotation

(* The units a side may still have to reserve.                              *)
Due(s) ==
  IF at[Side(s)] = "begin" /\ out[s] = NoFile /\ job[Side(s)] # "launched"
    THEN NumTrials ELSE 0

Paid ==
  /\ stage = "pair" /\ ~single /\ bought = 0 =>
       Remaining >= Due("parent") + Due("candidate")
  /\ CheckPaysForBothSides

PairIInv ==
  /\ PairTypeOK /\ DOMAIN kept = Lanes
  /\ LanesPlaced /\ LanesKnow /\ HeldIsReserved
  /\ RetriesStopAtSuccess
  /\ CallKnows /\ MarkedValidIsValid /\ ReturnedPairIsAnnotated
  /\ Paid

-----------------------------------------------------------------------------
LEMMA Sizes ==
  /\ NumTrials \in Nat /\ NumTrials > 0
  /\ Rounds \in Nat /\ ReviewReserve \in Nat /\ Capacity \in Nat
  /\ MaxMishaps \in Nat
BY PairAssumption

LEMMA LaneOf ==
  ASSUME NEW l \in Lanes
  PROVE  /\ l[1] \in Sides /\ l[2] \in 0..NumTrials
         /\ l = <<l[1], l[2]>>
         /\ l[2] = 0 => l = Side(l[1])
         /\ l[2] # 0 => l \in Sides \X Trials /\ l[2] \in Trials
         /\ Cost(l) \in Nat /\ Cost(l) > 0
BY Sizes DEF Lanes, Side, Trials, Cost

LEMMA LanesOfSides ==
  /\ \A s \in Sides : Side(s) \in Lanes /\ Side(s)[1] = s /\ Side(s)[2] = 0
  /\ Side("parent") # Side("candidate")
  /\ Started \subseteq Lanes /\ \A l \in Started : l[2] = 0
  /\ \A u \in Sides \X Trials : u \in Lanes /\ u[2] # 0
BY Sizes DEF Sides, Side, Lanes, Started, Trials

LEMMA FilesAreNotEmpty ==
  \A f \in [Trials -> Trial] : f # NoFile
<1>. SUFFICES ASSUME NEW f \in [Trials -> Trial], f = NoFile PROVE FALSE
  OBVIOUS
<1>1. DOMAIN f = Trials /\ 1 \in Trials
  BY Sizes DEF Trials
<1>2. DOMAIN NoFile = {}
  BY DEF NoFile
<1>. QED  BY <1>1, <1>2

Busy == Places \ AtRest

(* What every step of a lane leaves alone.                                  *)
LEMMA LaneForms ==
  ASSUME NEW l \in Lanes, LaneStep(l), PairTypeOK
  PROVE  /\ at[l] \in Busy
         /\ UNCHANGED <<single, stage, side, round, failures, mark, mishaps>>
         /\ \E x \in Places \ {"off", "begin"} : at' = [at EXCEPT ![l] = x]
         /\ \A m \in Lanes \ {l} : at'[m] = at[m]
         /\ at'[l] \in Places \ {"off", "begin"}
         /\ ~WriteLane(l) => UNCHANGED <<out, retries>>
         /\ l[2] # 0 => UNCHANGED out
         /\ l[2] = 0 => UNCHANGED retries
<1>. at \in [Lanes -> Places]
  BY DEF PairTypeOK
<1>1. CASE UseFile(l) \/ RecoverKept(l) \/ ReuseJob(l)
  BY <1>1 DEF UseFile, RecoverKept, ReuseJob, NoFileYet, Moves, Places, AtRest,
              Busy, call, disk
<1>2. CASE ReserveLane(l) \/ LaneRefused(l) \/ LaunchLane(l)
  BY <1>2 DEF ReserveLane, LaneRefused, LaunchLane, NeedsJob, NoFileYet, Moves,
              Places, AtRest, Busy, call, disk
<1>3. CASE RunLane(l) \/ LaneFails(l) \/ RepairLane(l) \/ RepairRefused(l)
  BY <1>3 DEF RunLane, LaneFails, RepairLane, RepairRefused, Moves, Places,
              AtRest, Busy, call, disk
<1>4. CASE WriteLane(l) \/ SettleLane(l)
  BY <1>4 DEF WriteLane, SettleLane, Moves, Places, AtRest, Busy, call, disk
<1>. QED  BY <1>1, <1>2, <1>3, <1>4 DEF LaneStep

LEMMA LaneStepPlaced ==
  ASSUME NEW l \in Lanes, LaneStep(l), PairTypeOK, LanesPlaced
  PROVE  LanesPlaced'
<1>1. at[l] \in Busy /\ stage \in {"pair", "retrying"}
  BY LaneForms DEF LanesPlaced, Busy, AtRest
<1>2. CASE stage = "pair"
  BY <1>1, <1>2, LaneForms DEF LanesPlaced, Busy, AtRest, Started
<1>3. CASE stage = "retrying"
  <2>1. l[2] # 0
    BY <1>1, <1>3 DEF LanesPlaced, Busy, AtRest
  <2>2. UNCHANGED out
    BY <2>1, LaneForms
  <2>3. \A m \in Lanes : at'[m] # "off" => at[m] # "off"
    BY <1>1, LaneForms DEF Busy, AtRest
  <2>. QED
    BY <1>3, <2>2, <2>3, LaneForms DEF LanesPlaced, Failed
<1>. QED  BY <1>1, <1>2, <1>3

-----------------------------------------------------------------------------
LEMMA WrittenBatch ==
  ASSUME NEW l \in Lanes, PairTypeOK, LanesKnow, at[l] = "write"
  PROVE  /\ l[2] = 0 => kept[l].res \in [Trials -> BOOLEAN]
         /\ l[2] # 0 => kept[l].res[l[2]] \in BOOLEAN
<1>1. kept[l] \in Batches(l)
  BY DEF LanesKnow
<1>. QED
  BY <1>1 DEF Batches, LaneTrials

LEMMA LaneStepFiles ==
  ASSUME NEW l \in Lanes, LaneStep(l), PairTypeOK, LanesKnow
  PROVE  /\ out' \in [Sides -> [Trials -> Trial] \cup {NoFile}]
         /\ retries' \in [Sides \X Trials -> Seq(BOOLEAN)]
<1>1. CASE ~WriteLane(l)
  BY <1>1, LaneForms DEF PairTypeOK
<1>2. CASE WriteLane(l) /\ l[2] = 0
  <2>1. kept[l].res \in [Trials -> BOOLEAN]
    BY <1>2, WrittenBatch DEF WriteLane
  <2>2. [t \in Trials |-> [ok |-> kept[l].res[t], from |-> 0]]
          \in [Trials -> Trial]
    BY <2>1 DEF Trial
  <2>3. out' \in [Sides -> [Trials -> Trial] \cup {NoFile}]
    BY <1>2, <2>2 DEF WriteLane, PairTypeOK
  <2>. QED  BY <1>2, <2>3, LaneForms DEF PairTypeOK
<1>3. CASE WriteLane(l) /\ l[2] # 0
  <2>1. kept[l].res[l[2]] \in BOOLEAN
    BY <1>3, WrittenBatch DEF WriteLane
  <2>2. l \in Sides \X Trials
    BY <1>3, LaneOf
  <2>3. retries' = [retries EXCEPT ![l] = Append(@, kept[l].res[l[2]])]
    BY <1>3 DEF WriteLane
  <2>4. retries' \in [Sides \X Trials -> Seq(BOOLEAN)]
    BY <2>1, <2>2, <2>3 DEF PairTypeOK
  <2>. QED  BY <1>3, <2>4, LaneForms DEF PairTypeOK
<1>. QED  BY <1>1, <1>2, <1>3

LEMMA LaneStepKept ==
  ASSUME NEW l \in Lanes, LaneStep(l), PairTypeOK, LanesKnow,
         DOMAIN kept = Lanes
  PROVE  /\ DOMAIN kept' = Lanes
         /\ \A m \in Lanes : kept'[m] \in Batches(m) \cup {NoBatch}
         /\ \A m \in Lanes \ {l} : kept'[m] = kept[m]
         /\ at'[l] \in {"repair", "write"} => kept'[l] \in Batches(l)
<1>1. CASE RunLane(l)
  <2>1. PICK b \in Batches(l) : kept' = [kept EXCEPT ![l] = b]
    BY <1>1 DEF RunLane
  <2>. QED  BY <2>1 DEF PairTypeOK
<1>2. CASE WriteLane(l)
  BY <1>2 DEF WriteLane, PairTypeOK, Moves
<1>3. CASE RepairLane(l)
  <2>1. kept[l] \in Batches(l)
    BY <1>3 DEF RepairLane, LanesKnow
  <2>2. CASE UNCHANGED kept
    BY <2>1, <2>2 DEF PairTypeOK
  <2>3. CASE \E t \in LaneTrials(l), ok \in BOOLEAN :
               kept' = [kept EXCEPT ![l].broken = FALSE, ![l].res[t] = ok]
    <3>1. PICK t \in LaneTrials(l), ok \in BOOLEAN :
            kept' = [kept EXCEPT ![l].broken = FALSE, ![l].res[t] = ok]
      BY <2>3
    <3>2. /\ DOMAIN kept' = Lanes
          /\ \A m \in Lanes \ {l} : kept'[m] = kept[m]
          /\ kept'[l] = [kept[l] EXCEPT !.broken = FALSE, !.res[t] = ok]
      BY <3>1
    <3>3. [kept[l].res EXCEPT ![t] = ok] \in [LaneTrials(l) -> BOOLEAN]
      BY <2>1 DEF Batches
    <3>4. kept'[l] = [res |-> [kept[l].res EXCEPT ![t] = ok], broken |-> FALSE]
      BY <2>1, <3>2 DEF Batches
    <3>5. kept'[l] \in Batches(l)
      BY <3>3, <3>4 DEF Batches
    <3>. QED  BY <3>2, <3>5 DEF PairTypeOK
  <2>. QED  BY <1>3, <2>2, <2>3 DEF RepairLane
<1>4. CASE RecoverKept(l)
  <2>1. UNCHANGED kept /\ kept[l] \in Batches(l)
    BY <1>4 DEF RecoverKept, disk, PairTypeOK
  <2>. QED  BY <2>1 DEF PairTypeOK
<1>5. CASE ReserveLane(l) \/ LaneRefused(l) \/ LaunchLane(l) \/ UseFile(l)
           \/ ReuseJob(l) \/ LaneFails(l) \/ RepairRefused(l) \/ SettleLane(l)
  <2>1. UNCHANGED kept
    BY <1>5 DEF ReserveLane, LaneRefused, LaunchLane, UseFile, ReuseJob,
       LaneFails, RepairRefused, SettleLane, disk
  <2>2. at'[l] \notin {"repair", "write"}
    BY <1>5 DEF ReserveLane, LaneRefused, LaunchLane, UseFile, ReuseJob,
       LaneFails, RepairRefused, SettleLane, Moves, PairTypeOK
  <2>. QED  BY <2>1, <2>2 DEF PairTypeOK
<1>. QED  BY <1>1, <1>2, <1>3, <1>4, <1>5 DEF LaneStep

(* A step of one lane does not touch the answers of the others.             *)
LEMMA OtherAnswers ==
  ASSUME NEW l \in Lanes, LaneStep(l), PairTypeOK, NEW m \in Lanes \ {l}
  PROVE  /\ m[2] = 0 => out'[m[1]] = out[m[1]]
         /\ m[2] # 0 => retries'[m] = retries[m]
<1>1. CASE ~WriteLane(l)
  BY <1>1, LaneForms
<1>2. CASE WriteLane(l) /\ m[2] = 0 /\ l[2] = 0
  <2>1. m[1] # l[1]
    BY <1>2, LaneOf
  <2>. QED  BY <1>2, <2>1, LaneOf DEF WriteLane, PairTypeOK
<1>3. CASE m[2] = 0 /\ l[2] # 0
  BY <1>3, LaneForms
<1>4. CASE m[2] # 0 /\ l[2] = 0
  BY <1>4, LaneForms
<1>5. CASE WriteLane(l) /\ m[2] # 0 /\ l[2] # 0
  <2>1. l \in Sides \X Trials /\ m \in Sides \X Trials
    BY <1>5, LaneOf
  <2>. QED  BY <1>5, <2>1 DEF WriteLane, PairTypeOK
<1>. QED  BY <1>1, <1>2, <1>3, <1>4, <1>5

LEMMA AppendedIsThere ==
  ASSUME NEW q \in Seq(BOOLEAN), NEW b \in BOOLEAN
  PROVE  /\ Len(Append(q, b)) = Len(q) + 1 /\ Append(q, b) # <<>>
         /\ Append(q, b)[Len(q) + 1] = b
         /\ \A n \in 1..Len(q) : Append(q, b)[n] = q[n]
<1>1. Len(Append(q, b)) = Len(q) + 1
  OBVIOUS
<1>2. Len(q) \in Nat /\ Len(<<>>) = 0
  OBVIOUS
<1>. QED  BY <1>1, <1>2

(* What writing a lane's result puts on disk.                               *)
LEMMA WriteAnswers ==
  ASSUME NEW l \in Lanes, WriteLane(l), PairTypeOK, LanesKnow
  PROVE  /\ l[2] = 0 => out'[l[1]] # NoFile
         /\ l[2] # 0 => /\ l \in Sides \X Trials
                        /\ retries' = [retries EXCEPT ![l] =
                                         Append(@, kept[l].res[l[2]])]
                        /\ retries'[l] = Append(retries[l], kept[l].res[l[2]])
                        /\ retries'[l] # <<>>
<1>1. at[l] = "write"
  BY DEF WriteLane
<1>2. CASE l[2] = 0
  <2>1. [t \in Trials |-> [ok |-> kept[l].res[t], from |-> 0]]
          \in [Trials -> Trial]
    BY <1>1, <1>2, WrittenBatch DEF Trial
  <2>2. out'[l[1]] = [t \in Trials |-> [ok |-> kept[l].res[t], from |-> 0]]
    BY <1>2, LaneOf DEF WriteLane, PairTypeOK
  <2>. QED  BY <1>2, <2>1, <2>2, FilesAreNotEmpty
<1>3. CASE l[2] # 0
  <2>1. l \in Sides \X Trials /\ kept[l].res[l[2]] \in BOOLEAN
    BY <1>1, <1>3, LaneOf, WrittenBatch
  <2>2. retries' = [retries EXCEPT ![l] = Append(@, kept[l].res[l[2]])]
    BY <1>3 DEF WriteLane
  <2>3. retries'[l] = Append(retries[l], kept[l].res[l[2]])
    BY <2>1, <2>2 DEF PairTypeOK
  <2>4. retries[l] \in Seq(BOOLEAN)
    BY <2>1 DEF PairTypeOK
  <2>5. retries'[l] # <<>>
    BY <2>1, <2>3, <2>4, AppendedIsThere
  <2>. QED  BY <1>3, <2>1, <2>2, <2>3, <2>5
<1>. QED  BY <1>2, <1>3

LEMMA LaneStepKnows ==
  ASSUME NEW l \in Lanes, LaneStep(l), PairTypeOK, LanesKnow,
         DOMAIN kept = Lanes
  PROVE  LanesKnow'
<1>. DEFINE Knows(m) ==
       /\ at[m] \in {"reserved", "run", "repair", "write"} =>
            /\ m[2] = 0 => out[m[1]] = NoFile
            /\ m[2] # 0 => ~RetryAnswered(m)
       /\ at[m] \in {"repair", "write"} => kept[m] \in Batches(m)
       /\ at[m] \in {"settle", "done"} =>
            /\ m[2] = 0 => out[m[1]] # NoFile
            /\ m[2] # 0 => retries[m] # <<>>
<1>1. \A m \in Lanes : Knows(m)
  BY DEF LanesKnow
<1>2. ASSUME NEW m \in Lanes \ {l} PROVE Knows(m)'
  <2>1. at'[m] = at[m] /\ kept'[m] = kept[m] /\ Batches(m)' = Batches(m)
    BY LaneForms, LaneStepKept DEF Batches, LaneTrials, Trials
  <2>2. /\ m[2] = 0 => out'[m[1]] = out[m[1]]
        /\ m[2] # 0 => retries'[m] = retries[m]
    BY OtherAnswers
  <2>3. m[2] # 0 => (RetryAnswered(m)' <=> RetryAnswered(m))
    BY <2>2 DEF RetryAnswered, ValidRetries
  <2>. QED  BY <1>1, <2>1, <2>2, <2>3
<1>3. Knows(l)'
  <2>1. at'[l] \in {"repair", "write"} => kept'[l] \in Batches(l)
    BY LaneStepKept
  <2>2. CASE WriteLane(l)
    <3>1. at'[l] = "settle"
      BY <2>2 DEF WriteLane, Moves, PairTypeOK
    <3>. QED  BY <2>2, <3>1, WriteAnswers
  <2>3. CASE SettleLane(l)
    <3>1. at'[l] = "done" /\ at[l] = "settle"
      BY <2>3 DEF SettleLane, Moves, PairTypeOK
    <3>2. UNCHANGED <<out, retries>>
      BY <2>3 DEF SettleLane, disk
    <3>. QED  BY <1>1, <3>1, <3>2
  <2>4. CASE UseFile(l)
    <3>1. at'[l] = "done" /\ UNCHANGED <<out, retries>>
      BY <2>4 DEF UseFile, disk, Moves, PairTypeOK
    <3>2. l[2] = 0 => out[l[1]] # NoFile
      BY <2>4 DEF UseFile, HasFile
    <3>3. l[2] # 0 => RetryAnswered(l)
      BY <2>4 DEF UseFile, HasFile
    <3>4. RetryAnswered(l) => retries[l] # <<>>
      BY DEF RetryAnswered, ValidRetries
    <3>. QED  BY <3>1, <3>2, <3>3, <3>4
  <2>5. CASE RecoverKept(l) \/ ReuseJob(l) \/ ReserveLane(l) \/ LaneRefused(l)
    <3>1. UNCHANGED <<out, retries>> /\ at'[l] \notin {"settle", "done"}
      BY <2>5 DEF RecoverKept, ReuseJob, ReserveLane, LaneRefused, disk, Moves,
         PairTypeOK
    <3>2. NoFileYet(l)
      BY <2>5 DEF RecoverKept, ReuseJob, ReserveLane, LaneRefused, NeedsJob
    <3>3. /\ l[2] = 0 => out[l[1]] = NoFile
          /\ l[2] # 0 => ~RetryAnswered(l)
      BY <3>2 DEF NoFileYet, HasFile
    <3>4. RetryAnswered(l)' <=> RetryAnswered(l)
      BY <3>1 DEF RetryAnswered, ValidRetries
    <3>. QED  BY <2>1, <3>1, <3>3, <3>4 DEF Batches, LaneTrials, Trials
  <2>6. CASE LaunchLane(l) \/ RunLane(l) \/ LaneFails(l) \/ RepairLane(l)
             \/ RepairRefused(l)
    <3>1. UNCHANGED <<out, retries>> /\ at'[l] \notin {"settle", "done"}
      BY <2>6 DEF LaunchLane, RunLane, LaneFails, RepairLane, RepairRefused,
         disk, Moves, PairTypeOK
    <3>2. at[l] \in {"reserved", "run", "repair"}
      BY <2>6 DEF LaunchLane, RunLane, LaneFails, RepairLane, RepairRefused
    <3>3. RetryAnswered(l)' <=> RetryAnswered(l)
      BY <3>1 DEF RetryAnswered, ValidRetries
    <3>. QED  BY <1>1, <2>1, <3>1, <3>2, <3>3 DEF Batches, LaneTrials, Trials
  <2>. QED  BY <2>2, <2>3, <2>4, <2>5, <2>6 DEF LaneStep
<1>. QED  BY <1>2, <1>3 DEF LanesKnow

(* A retry is written only where none has answered.                         *)
LEMMA LaneStepStops ==
  ASSUME NEW l \in Lanes, LaneStep(l), PairTypeOK, LanesKnow,
         RetriesStopAtSuccess
  PROVE  RetriesStopAtSuccess'
<1>1. CASE ~WriteLane(l) \/ l[2] = 0
  BY <1>1, LaneForms DEF RetriesStopAtSuccess, ValidRetries
<1>2. CASE WriteLane(l) /\ l[2] # 0
  <2>. SUFFICES ASSUME NEW u \in Sides \X Trials, NEW n \in ValidRetries(u)'
                PROVE  n = Len(retries'[u])
    BY DEF RetriesStopAtSuccess
  <2>1. CASE u # l
    <3>1. retries'[u] = retries[u]
      BY <1>2, <2>1, WriteAnswers DEF PairTypeOK
    <3>. QED  BY <3>1 DEF RetriesStopAtSuccess, ValidRetries
  <2>2. CASE u = l
    <3>1. ~RetryAnswered(u)
      BY <1>2, <2>2 DEF WriteLane, LanesKnow
    <3>2. retries[u] \in Seq(BOOLEAN)
      BY DEF PairTypeOK
    <3>3. retries'[u] = Append(retries[u], kept[l].res[l[2]])
      BY <1>2, <2>2, WriteAnswers
    <3>. QED  BY <3>1, <3>2, <3>3 DEF RetryAnswered, ValidRetries
  <2>. QED  BY <2>1, <2>2
<1>. QED  BY <1>1, <1>2

-----------------------------------------------------------------------------
LEMMA RetriesAreFinite ==
  IsFiniteSet(HeldByRetries) /\ HeldByRetries \subseteq Lanes
<1>1. IsFiniteSet({"candidate"})
  BY FS_Singleton
<1>2. IsFiniteSet({"candidate"} \cup {"parent"})
  BY <1>1, FS_AddElement
<1>3. {"candidate"} \cup {"parent"} = Sides
  BY DEF Sides
<1>4. IsFiniteSet(0..NumTrials)
  BY Sizes, FS_Interval
<1>5. IsFiniteSet(Lanes)
  BY <1>2, <1>3, <1>4, FS_Product DEF Lanes
<1>. QED  BY <1>5, FS_Subset DEF HeldByRetries

LEMMA ReservedCovers ==
  ASSUME NEW l \in Lanes, at[l] = "reserved", HeldIsReserved, stage # "down"
  PROVE  held >= Cost(l)
<1>1. Cardinality(HeldByRetries) \in Nat
  BY RetriesAreFinite, FS_CardinalityType
<1>2. held = HeldBy("parent") + HeldBy("candidate") + Cardinality(HeldByRetries)
  BY DEF HeldIsReserved
<1>3. HeldBy("parent") \in Nat /\ HeldBy("candidate") \in Nat
  BY Sizes DEF HeldBy
<1>4. CASE l[2] = 0
  <2>1. HeldBy(l[1]) = NumTrials /\ Cost(l) = NumTrials
    BY <1>4, LaneOf DEF HeldBy, Cost
  <2>2. l[1] = "parent" \/ l[1] = "candidate"
    BY LaneOf DEF Sides
  <2>. QED  BY <1>1, <1>2, <1>3, <2>1, <2>2, Sizes
<1>5. CASE l[2] # 0
  <2>1. l \in HeldByRetries /\ Cost(l) = 1
    BY <1>5 DEF HeldByRetries, Cost
  <2>2. Cardinality(HeldByRetries) # 0
    BY <2>1, RetriesAreFinite, FS_EmptySet
  <2>. QED  BY <1>1, <1>2, <1>3, <2>1, <2>2
<1>. QED  BY <1>4, <1>5

LEMMA LaneStepLedger ==
  ASSUME NEW l \in Lanes, LaneStep(l), PairTypeOK, HeldIsReserved,
         stage # "down"
  PROVE  /\ bought' \in Nat /\ held' \in Nat /\ spent' \in Nat
         /\ job' \in [Lanes -> {"none", "reserved", "launched"}]
         /\ \A m \in Lanes \ {l} : job'[m] = job[m]
<1>1. Cost(l) \in Nat
  BY LaneOf
<1>2. at[l] = "reserved" => held >= Cost(l)
  BY ReservedCovers
<1>3. CASE UseFile(l) \/ RecoverKept(l) \/ ReuseJob(l) \/ LaneRefused(l)
           \/ RunLane(l) \/ RepairRefused(l) \/ WriteLane(l)
  <2>1. UNCHANGED <<bought, held, spent, job>>
    BY <1>3 DEF UseFile, RecoverKept, ReuseJob, LaneRefused, RunLane,
       RepairRefused, WriteLane, ledger
  <2>. QED  BY <2>1 DEF PairTypeOK
<1>4. CASE ReserveLane(l) \/ LaunchLane(l)
  <2>1. /\ bought' = bought
        /\ \/ held' = held + Cost(l) /\ spent' = spent
           \/ /\ held' = held - Cost(l) /\ spent' = spent + Cost(l)
              /\ at[l] = "reserved"
        /\ \/ job' = [job EXCEPT ![l] = "reserved"]
           \/ job' = [job EXCEPT ![l] = "launched"]
    BY <1>4 DEF ReserveLane, LaunchLane
  <2>2. bought \in Nat /\ held \in Nat /\ spent \in Nat
    BY DEF PairTypeOK
  <2>3. bought' \in Nat /\ held' \in Nat /\ spent' \in Nat
    BY <1>1, <1>2, <2>1, <2>2
  <2>. QED  BY <2>1, <2>3 DEF PairTypeOK
<1>5. CASE LaneFails(l) \/ RepairLane(l) \/ SettleLane(l)
  BY <1>5 DEF LaneFails, RepairLane, SettleLane, PairTypeOK
<1>. QED  BY <1>3, <1>4, <1>5 DEF LaneStep

(* The reservations move with the lanes.                                    *)
LEMMA LaneStepHeld ==
  ASSUME NEW l \in Lanes, LaneStep(l), PairTypeOK, HeldIsReserved,
         stage # "down"
  PROVE  HeldIsReserved'
<1>. DEFINE C == Cardinality(HeldByRetries)
<1>1. at \in [Lanes -> Places] /\ held \in Nat
  BY DEF PairTypeOK
<1>2. IsFiniteSet(HeldByRetries) /\ C \in Nat
  BY RetriesAreFinite, FS_CardinalityType
<1>3. \A m \in Lanes \ {l} : at'[m] = at[m]
  BY LaneForms
<1>4. held = HeldBy("parent") + HeldBy("candidate") + C
  BY DEF HeldIsReserved
<1>5. \A s \in Sides : /\ Side(s) \in Lanes /\ HeldBy(s) \in Nat
                       /\ HeldBy(s)' \in Nat
                       /\ Side(s) # l => HeldBy(s)' = HeldBy(s)
  BY <1>3, LanesOfSides, Sizes DEF HeldBy
<1>6. CASE at[l] # "reserved" /\ at'[l] # "reserved" /\ UNCHANGED held
  <2>1. HeldByRetries' = HeldByRetries
    BY <1>3, <1>6 DEF HeldByRetries
  <2>2. \A s \in Sides : HeldBy(s)' = HeldBy(s)
    BY <1>3, <1>6, LanesOfSides DEF HeldBy
  <2>. QED  BY <1>4, <1>6, <2>1, <2>2 DEF HeldIsReserved, Sides
<1>7. ASSUME l[2] = 0,
             (at[l] = "reserved") # (at'[l] = "reserved"),
             held' = IF at'[l] = "reserved" THEN held + Cost(l)
                                            ELSE held - Cost(l)
      PROVE  HeldIsReserved'
  <2>1. HeldByRetries' = HeldByRetries
    BY <1>3, <1>7 DEF HeldByRetries
  <2>2. Cost(l) = NumTrials /\ l = Side(l[1]) /\ l[1] \in Sides
    BY <1>7, LaneOf DEF Cost
  <2>3. HeldBy(l[1])' = IF at'[l] = "reserved" THEN HeldBy(l[1]) + NumTrials
                                              ELSE HeldBy(l[1]) - NumTrials
    BY <1>7, <2>2, Sizes DEF HeldBy
  <2>4. CASE l[1] = "parent"
    <3>1. Side("candidate") # l /\ HeldBy("candidate")' = HeldBy("candidate")
      BY <1>5, <2>2, <2>4, LanesOfSides DEF Sides
    <3>2. /\ HeldBy("parent") \in Nat /\ HeldBy("candidate") \in Nat
          /\ HeldBy("parent")' \in Nat
      BY <1>5 DEF Sides
    <3>3. held' = HeldBy("parent")' + HeldBy("candidate")' + C
      BY <1>1, <1>2, <1>4, <1>7, <2>2, <2>3, <2>4, <3>1, <3>2, Sizes
    <3>. QED  BY <2>1, <3>3 DEF HeldIsReserved
  <2>5. CASE l[1] = "candidate"
    <3>1. Side("parent") # l /\ HeldBy("parent")' = HeldBy("parent")
      BY <1>5, <2>2, <2>5, LanesOfSides DEF Sides
    <3>2. /\ HeldBy("parent") \in Nat /\ HeldBy("candidate") \in Nat
          /\ HeldBy("candidate")' \in Nat
      BY <1>5 DEF Sides
    <3>3. held' = HeldBy("parent")' + HeldBy("candidate")' + C
      BY <1>1, <1>2, <1>4, <1>7, <2>2, <2>3, <2>5, <3>1, <3>2, Sizes
    <3>. QED  BY <2>1, <3>3 DEF HeldIsReserved
  <2>. QED  BY <2>2, <2>4, <2>5 DEF Sides
<1>8. ASSUME l[2] # 0,
             (at[l] = "reserved") # (at'[l] = "reserved"),
             held' = IF at'[l] = "reserved" THEN held + Cost(l)
                                            ELSE held - Cost(l)
      PROVE  HeldIsReserved'
  <2>1. \A s \in Sides : HeldBy(s)' = HeldBy(s)
    BY <1>5, <1>8, LanesOfSides
  <2>2. Cost(l) = 1
    BY <1>8 DEF Cost
  <2>3. CASE at'[l] = "reserved"
    <3>1. HeldByRetries' = HeldByRetries \cup {l} /\ l \notin HeldByRetries
      BY <1>3, <1>8, <2>3 DEF HeldByRetries
    <3>2. Cardinality(HeldByRetries') = C + 1
      BY <1>2, <3>1, FS_AddElement
    <3>. QED
      BY <1>2, <1>4, <1>5, <1>8, <2>1, <2>2, <2>3, <3>2
         DEF HeldIsReserved, Sides
  <2>4. CASE at'[l] # "reserved"
    <3>1. HeldByRetries' = HeldByRetries \ {l} /\ l \in HeldByRetries
      BY <1>3, <1>8, <2>4 DEF HeldByRetries
    <3>2. Cardinality(HeldByRetries') = C - 1
      BY <1>2, <3>1, FS_RemoveElement
    <3>. QED
      BY <1>2, <1>4, <1>5, <1>8, <2>1, <2>2, <2>4, <3>2
         DEF HeldIsReserved, Sides
  <2>. QED  BY <2>3, <2>4
<1>9. \/ at[l] # "reserved" /\ at'[l] # "reserved" /\ UNCHANGED held
      \/ /\ (at[l] = "reserved") # (at'[l] = "reserved")
         /\ held' = IF at'[l] = "reserved" THEN held + Cost(l)
                                           ELSE held - Cost(l)
  <2>1. CASE UseFile(l) \/ RecoverKept(l) \/ ReuseJob(l) \/ LaneRefused(l)
             \/ RunLane(l) \/ RepairRefused(l) \/ WriteLane(l)
    BY <1>1, <2>1 DEF UseFile, RecoverKept, ReuseJob, LaneRefused, RunLane,
       RepairRefused, WriteLane, ledger, NoFileYet, NeedsJob, Moves
  <2>2. CASE ReserveLane(l) \/ LaunchLane(l)
    BY <1>1, <2>2 DEF ReserveLane, LaunchLane, NoFileYet, NeedsJob, Moves
  <2>3. CASE LaneFails(l) \/ RepairLane(l) \/ SettleLane(l)
    BY <1>1, <2>3 DEF LaneFails, RepairLane, SettleLane, Moves
  <2>. QED  BY <2>1, <2>2, <2>3 DEF LaneStep
<1>. QED  BY <1>6, <1>7, <1>8, <1>9

LEMMA LaneStepTypes ==
  ASSUME NEW l \in Lanes, LaneStep(l), PairTypeOK, LanesKnow, HeldIsReserved,
         DOMAIN kept = Lanes, stage # "down"
  PROVE  PairTypeOK'
<1>1. UNCHANGED <<single, stage, side, round, failures, mark, mishaps>>
  BY LaneForms
<1>2. at' \in [Lanes -> Places]
  BY LaneForms DEF PairTypeOK
<1>3. \A m \in Lanes : kept'[m] \in Batches(m)' \cup {NoBatch}
  BY LaneStepKept DEF Batches, LaneTrials, Trials
<1>. QED
  BY <1>1, <1>2, <1>3, LaneStepLedger, LaneStepFiles DEF PairTypeOK

-----------------------------------------------------------------------------
(* Lanes and the call: the stages with lanes at work are not those in which *)
(* the call reads what it knows of the files.                               *)
LEMMA LaneStepCall ==
  ASSUME NEW l \in Lanes, LaneStep(l), PairIInv
  PROVE  /\ CallKnows' /\ MarkedValidIsValid' /\ ReturnedPairIsAnnotated'
<1>1. PairTypeOK /\ LanesPlaced /\ LanesKnow /\ CallKnows /\ MarkedValidIsValid
  BY DEF PairIInv
<1>2. /\ UNCHANGED <<single, stage, side, round, failures, mark>>
      /\ at[l] \in Busy
  BY <1>1, LaneForms
<1>3. stage \in {"pair", "retrying"}
  BY <1>1, <1>2 DEF LanesPlaced, Busy, AtRest
<1>4. stage = "retrying" => UNCHANGED out
  BY <1>1, <1>2, LaneForms DEF LanesPlaced, Busy, AtRest
<1>5. CallKnows'
  BY <1>1, <1>2, <1>3, <1>4 DEF CallKnows
<1>6. MarkedValidIsValid'
  <2>1. CASE UNCHANGED out
    BY <1>1, <1>2, <2>1 DEF MarkedValidIsValid, Failed
  <2>2. CASE ~UNCHANGED out
    <3>1. WriteLane(l) /\ l[2] = 0
      BY <1>1, <2>2, LaneForms
    <3>2. out[l[1]] = NoFile /\ l[1] \in Sides
      BY <1>1, <3>1, LaneOf DEF WriteLane, LanesKnow
    <3>3. \A s \in Sides : mark[s] # "valid"
      BY <1>1, <3>2 DEF MarkedValidIsValid
    <3>. QED  BY <1>2, <3>3 DEF MarkedValidIsValid
  <2>. QED  BY <2>1, <2>2
<1>. QED  BY <1>2, <1>3, <1>5, <1>6 DEF ReturnedPairIsAnnotated

(* What a lane's step does to the units.                                    *)
LEMMA LaneUnits ==
  ASSUME NEW l \in Lanes, LaneStep(l), PairTypeOK
  PROVE  /\ bought' = bought \/ (bought' = bought + 1 /\ RepairLane(l))
         /\ \/ Remaining' = Remaining
            \/ RepairLane(l)
            \/ ReserveLane(l) /\ Remaining' = Remaining - Cost(l)
<1>1. /\ bought \in Nat /\ held \in Nat /\ spent \in Nat
      /\ Cost(l) \in Nat /\ Capacity \in Nat
  BY LaneOf, Sizes DEF PairTypeOK
<1>2. CASE UseFile(l) \/ RecoverKept(l) \/ ReuseJob(l) \/ LaneRefused(l)
           \/ RunLane(l) \/ RepairRefused(l) \/ WriteLane(l)
  <2>1. UNCHANGED <<bought, held, spent>>
    BY <1>2 DEF UseFile, RecoverKept, ReuseJob, LaneRefused, RunLane,
       RepairRefused, WriteLane, ledger
  <2>. QED  BY <2>1 DEF Remaining
<1>3. CASE ReserveLane(l)
  <2>1. bought' = bought /\ held' = held + Cost(l) /\ spent' = spent
    BY <1>3 DEF ReserveLane
  <2>. QED  BY <1>1, <1>3, <2>1 DEF Remaining
<1>4. CASE LaunchLane(l)
  <2>1. bought' = bought /\ held' = held - Cost(l) /\ spent' = spent + Cost(l)
    BY <1>4 DEF LaunchLane
  <2>. QED  BY <1>1, <2>1 DEF Remaining
<1>5. CASE LaneFails(l) \/ SettleLane(l)
  BY <1>5 DEF LaneFails, SettleLane, Remaining
<1>6. CASE RepairLane(l)
  BY <1>6 DEF RepairLane
<1>. QED  BY <1>2, <1>3, <1>4, <1>5, <1>6 DEF LaneStep

(* A lane that reserves takes what was due for it; the other still has its. *)
LEMMA LaneStepPaid ==
  ASSUME NEW l \in Lanes, LaneStep(l), PairIInv
  PROVE  Paid'
<1>1. PairTypeOK /\ LanesPlaced /\ HeldIsReserved /\ Paid
  BY DEF PairIInv
<1>2. /\ UNCHANGED <<single, stage>> /\ at[l] \in Busy
      /\ \A m \in Lanes \ {l} : at'[m] = at[m]
      /\ at'[l] # "begin"
  BY <1>1, LaneForms
<1>3. stage \in {"pair", "retrying"}
  BY <1>1, <1>2 DEF LanesPlaced, Busy, AtRest
<1>4. stage = "retrying" => l[2] # 0
  BY <1>1, <1>2 DEF LanesPlaced, Busy, AtRest
<1>5. stage = "pair" => l = Side(l[1]) /\ l[1] \in Sides
  BY <1>1, <1>2, LanesOfSides, LaneOf DEF LanesPlaced, Busy, AtRest
<1>6. /\ bought \in Nat /\ held \in Nat /\ spent \in Nat /\ Remaining \in Int
      /\ bought' \in Nat /\ held' \in Nat /\ spent' \in Nat
      /\ Remaining' \in Int
  <2>1. stage # "down"
    BY <1>3
  <2>. QED  BY <1>1, <2>1, LaneStepLedger, Sizes DEF PairTypeOK, Remaining
<1>7. bought' >= bought
  BY <1>1, <1>6, LaneUnits
<1>8. CheckPaysForBothSides'
  <2>. SUFFICES ASSUME NEW s \in Sides, at'[Side(s)] = "refused", ~single
                PROVE  bought' > 0
    BY <1>2 DEF CheckPaysForBothSides
  <2>1. CASE at[Side(s)] = "refused"
    BY <1>1, <1>6, <1>7, <2>1 DEF Paid, CheckPaysForBothSides
  <2>2. CASE at[Side(s)] # "refused"
    <3>1. l = Side(s) /\ l[2] = 0 /\ l[1] = s
      BY <1>2, <2>2, LanesOfSides
    <3>2. LaneRefused(l)
      BY <1>1, <2>2, <3>1, LaneForms DEF LaneStep, UseFile, RecoverKept,
         ReuseJob, ReserveLane, LaunchLane, RunLane, LaneFails, RepairLane,
         RepairRefused, WriteLane, SettleLane, Moves, PairTypeOK
    <3>3. /\ at[l] = "begin" /\ out[s] = NoFile /\ job[l] = "none"
          /\ NumTrials > Remaining
      BY <3>1, <3>2 DEF LaneRefused, NeedsJob, NoFileYet, HasFile, Cost
    <3>4. Due(s) = NumTrials /\ \A r \in Sides : Due(r) \in Nat
      BY <3>1, <3>3, Sizes DEF Due
    <3>5. bought # 0
      <4>. SUFFICES ASSUME bought = 0 PROVE FALSE
        OBVIOUS
      <4>1. Remaining >= Due("parent") + Due("candidate")
        BY <1>1, <1>3, <1>4, <3>1 DEF Paid
      <4>2. Due("parent") \in Nat /\ Due("candidate") \in Nat
        BY <3>4 DEF Sides
      <4>3. Due("parent") + Due("candidate") >= NumTrials
        BY <3>4, <4>2, Sizes DEF Sides
      <4>. QED  BY <1>6, <3>3, <4>1, <4>2, <4>3, Sizes
    <3>. QED  BY <1>6, <1>7, <3>5
  <2>. QED  BY <2>1, <2>2
<1>9. ASSUME stage = "pair", ~single, bought' = 0
      PROVE  Remaining' >= Due("parent")' + Due("candidate")'
  <2>1. bought = 0
    BY <1>6, <1>7, <1>9
  <2>2. Remaining >= Due("parent") + Due("candidate")
    BY <1>1, <1>9, <2>1 DEF Paid
  <2>3. ~RepairLane(l)
    BY <1>6, <1>9 DEF RepairLane
  <2>4. l = Side(l[1]) /\ l[1] \in Sides /\ l[2] = 0 /\ Cost(l) = NumTrials
    BY <1>5, <1>9, LanesOfSides DEF Cost
  <2>5. Due(l[1])' = 0
    BY <1>2, <2>4 DEF Due
  <2>6. \A s \in Sides : s # l[1] => Due(s)' = Due(s)
    <3>. SUFFICES ASSUME NEW s \in Sides, s # l[1] PROVE Due(s)' = Due(s)
      OBVIOUS
    <3>1. Side(s) \in Lanes \ {l} /\ Side(s)[1] = s /\ Side(s)[2] = 0
      BY <2>4, LanesOfSides
    <3>2. /\ at'[Side(s)] = at[Side(s)] /\ out'[s] = out[s]
          /\ job'[Side(s)] = job[Side(s)]
      BY <1>1, <1>2, <1>3, <3>1, OtherAnswers, LaneStepLedger
    <3>. QED  BY <3>2 DEF Due
  <2>7. \A s \in Sides : Due(s) \in Nat
    BY Sizes DEF Due
  <2>8. ReserveLane(l) => Due(l[1]) = NumTrials
    BY <2>4 DEF ReserveLane, NeedsJob, NoFileYet, HasFile, Due
  <2>9. Remaining' = Remaining
          \/ (Due(l[1]) = NumTrials /\ Remaining' = Remaining - NumTrials)
    BY <1>1, <2>3, <2>4, <2>8, LaneUnits
  <2>10. Due("parent") \in Nat /\ Due("candidate") \in Nat
    BY <2>7 DEF Sides
  <2>11. CASE l[1] = "parent"
    <3>1. Due("candidate")' = Due("candidate") /\ Due("parent")' = 0
      BY <2>5, <2>6, <2>11 DEF Sides
    <3>. QED  BY <1>6, <2>2, <2>9, <2>10, <2>11, <3>1, Sizes
  <2>12. CASE l[1] = "candidate"
    <3>1. Due("parent")' = Due("parent") /\ Due("candidate")' = 0
      BY <2>5, <2>6, <2>12 DEF Sides
    <3>. QED  BY <1>6, <2>2, <2>9, <2>10, <2>12, <3>1, Sizes
  <2>. QED  BY <2>4, <2>11, <2>12 DEF Sides
<1>. QED  BY <1>2, <1>8, <1>9 DEF Paid

(* A step of a lane preserves everything.                                   *)
LEMMA LaneStepKeeps ==
  ASSUME NEW l \in Lanes, LaneStep(l), PairIInv
  PROVE  PairIInv'
<1>1. stage # "down"
  BY LaneForms DEF PairIInv, LanesPlaced, Busy, AtRest
<1>. QED
  BY <1>1, LaneStepTypes, LaneStepKept, LaneStepPlaced, LaneStepKnows,
     LaneStepHeld, LaneStepStops, LaneStepCall, LaneStepPaid DEF PairIInv

-----------------------------------------------------------------------------
(* The call's own steps.  None of them is taken with a unit held.           *)
LEMMA NothingHeld ==
  ASSUME \A l \in Lanes : at[l] # "reserved"
  PROVE  HeldBy("parent") + HeldBy("candidate") + Cardinality(HeldByRetries) = 0
<1>1. HeldBy("parent") = 0 /\ HeldBy("candidate") = 0
  BY LanesOfSides DEF HeldBy, Sides
<1>2. HeldByRetries = {}
  BY DEF HeldByRetries
<1>. QED  BY <1>1, <1>2, FS_EmptySet

LEMMA NothingHeldNext ==
  ASSUME \A l \in Lanes : at'[l] # "reserved"
  PROVE  (HeldBy("parent") + HeldBy("candidate") + Cardinality(HeldByRetries))'
           = 0
<1>1. HeldBy("parent")' = 0 /\ HeldBy("candidate")' = 0
  BY LanesOfSides DEF HeldBy, Sides
<1>2. HeldByRetries' = {}
  BY DEF HeldByRetries
<1>. QED  BY <1>1, <1>2, FS_EmptySet

LEMMA HeldStays ==
  ASSUME HeldIsReserved, stage # "down", UNCHANGED held,
         \A l \in Lanes : at[l] # "reserved" /\ at'[l] # "reserved"
  PROVE  HeldIsReserved'
<1>1. held = 0
  BY NothingHeld DEF HeldIsReserved
<1>. QED
  BY <1>1, NothingHeldNext DEF HeldIsReserved

(* Steps that move no lane and write no file: what is left to show is what  *)
(* the stage they lead to says of itself.                                   *)
LEMMA QuietStep ==
  ASSUME PairIInv, stage # "down",
         \A l \in Lanes : at[l] \in AtRest,
         UNCHANGED <<single, at, bought, ledger, disk, mishaps>>,
         stage' # "pair", LanesPlaced', CallKnows', ReturnedPairIsAnnotated',
         stage' \in {"retry", "finish", "annotate", "returned", "raised"},
         side' \in Sides, round' \in 0..Rounds,
         failures' \subseteq Sides \X Trials
  PROVE  PairIInv'
<1>1. PairTypeOK /\ DOMAIN kept = Lanes
  BY DEF PairIInv
<1>2. UNCHANGED <<job, held, spent, kept, out, mark, retries>>
  BY DEF ledger, disk
<1>3. PairTypeOK'
  BY <1>1, <1>2 DEF PairTypeOK, Batches, LaneTrials, Trials
<1>4. LanesKnow'
  BY <1>2 DEF PairIInv, LanesKnow, RetryAnswered, ValidRetries, AtRest
<1>5. HeldIsReserved'
  BY <1>2, HeldStays DEF PairIInv, AtRest
<1>6. RetriesStopAtSuccess'
  BY <1>2 DEF PairIInv, RetriesStopAtSuccess, ValidRetries
<1>7. MarkedValidIsValid'
  BY <1>2 DEF PairIInv, MarkedValidIsValid, Failed
<1>8. Paid'
  BY <1>2 DEF PairIInv, Paid, CheckPaysForBothSides
<1>. QED
  BY <1>1, <1>2, <1>3, <1>4, <1>5, <1>6, <1>7, <1>8 DEF PairIInv

LEMMA RequiredCoversDue ==
  ASSUME PairTypeOK, Remaining >= RequiredCreations,
         NEW a \in Nat, NEW b \in Nat,
         a = IF out["parent"] = NoFile /\ job[Side("parent")] # "launched"
               THEN NumTrials ELSE 0,
         b = IF out["candidate"] = NoFile /\ job[Side("candidate")] # "launched"
               THEN NumTrials ELSE 0
  PROVE  Remaining >= a + b
<1>. DEFINE S == {s \in Sides : out[s] = NoFile /\ job[Side(s)] # "launched"}
<1>1. Remaining \in Int
  BY Sizes DEF PairTypeOK, Remaining
<1>2. Remaining >= NumTrials * Cardinality(S)
  BY DEF RequiredCreations
<1>3. CASE a = 0 /\ b = 0
  <2>1. S = {}
    BY <1>3, Sizes DEF Sides
  <2>. QED  BY <1>1, <1>2, <1>3, <2>1, FS_EmptySet, Sizes
<1>4. CASE a # 0 /\ b = 0
  <2>1. S = {"parent"} /\ a = NumTrials
    BY <1>4, Sizes DEF Sides
  <2>2. Cardinality(S) = 1
    BY <2>1, FS_Singleton
  <2>. QED  BY <1>1, <1>2, <1>4, <2>1, <2>2, Sizes
<1>5. CASE a = 0 /\ b # 0
  <2>1. S = {"candidate"} /\ b = NumTrials
    BY <1>5, Sizes DEF Sides
  <2>2. Cardinality(S) = 1
    BY <2>1, FS_Singleton
  <2>. QED  BY <1>1, <1>2, <1>5, <2>1, <2>2, Sizes
<1>6. CASE a # 0 /\ b # 0
  <2>1. S = {"parent"} \cup {"candidate"} /\ a = NumTrials /\ b = NumTrials
    BY <1>6, Sizes DEF Sides
  <2>2. IsFiniteSet({"parent"}) /\ Cardinality({"parent"}) = 1
    BY FS_Singleton
  <2>3. Cardinality(S) = 2
    BY <2>1, <2>2, FS_AddElement
  <2>4. NumTrials * 2 = NumTrials + NumTrials
    BY Sizes
  <2>. QED  BY <1>1, <1>2, <2>1, <2>3, <2>4, Sizes
<1>. QED  BY <1>3, <1>4, <1>5, <1>6

LEMMA StartSidesKeeps ==
  ASSUME PairIInv, StartSides
  PROVE  PairIInv'
<1>1. PairTypeOK /\ DOMAIN kept = Lanes
  BY DEF PairIInv
<1>2. /\ UNCHANGED <<single, side, round, failures, job, held, spent>>
      /\ UNCHANGED <<kept, out, mark, retries, mishaps>>
      /\ stage = "idle" /\ stage' = "pair" /\ bought' = 0
      /\ at' = [l \in Lanes |-> IF l \in Started THEN "begin" ELSE "off"]
  BY DEF StartSides, ledger, disk
<1>3. PairTypeOK'
  BY <1>1, <1>2 DEF PairTypeOK, Batches, LaneTrials, Trials, Places, AtRest
<1>4. LanesPlaced'
  BY <1>2 DEF LanesPlaced, Started
<1>5. LanesKnow'
  BY <1>2 DEF LanesKnow
<1>6. HeldIsReserved'
  BY <1>2, HeldStays DEF PairIInv, LanesPlaced
<1>7. RetriesStopAtSuccess' /\ MarkedValidIsValid'
  BY <1>2 DEF PairIInv, RetriesStopAtSuccess, ValidRetries,
     MarkedValidIsValid, Failed
<1>8. CallKnows' /\ ReturnedPairIsAnnotated'
  BY <1>2 DEF CallKnows, ReturnedPairIsAnnotated
<1>9. Paid'
  <2>1. CheckPaysForBothSides'
    BY <1>2, LanesOfSides DEF CheckPaysForBothSides
  <2>2. ASSUME ~single PROVE Remaining' >= Due("parent")' + Due("candidate")'
    <3>1. Remaining >= RequiredCreations /\ Remaining' = Remaining
      BY <1>2, <2>2 DEF StartSides, Remaining
    <3>2. at'[Side("parent")] = "begin" /\ at'[Side("candidate")] = "begin"
      BY <1>2, <2>2, LanesOfSides DEF Started, Sides
    <3>3. /\ Due("parent")' =
               IF out["parent"] = NoFile /\ job[Side("parent")] # "launched"
                 THEN NumTrials ELSE 0
          /\ Due("candidate")' =
               IF out["candidate"] = NoFile
                    /\ job[Side("candidate")] # "launched"
                 THEN NumTrials ELSE 0
      BY <1>2, <3>2 DEF Due
    <3>. QED  BY <1>1, <3>1, <3>3, RequiredCoversDue, Sizes
  <2>. QED  BY <1>2, <2>1, <2>2 DEF Paid
<1>. QED
  BY <1>1, <1>2, <1>3, <1>4, <1>5, <1>6, <1>7, <1>8, <1>9 DEF PairIInv

LEMMA CannotFundKeeps ==
  ASSUME PairIInv, CannotFund \/ CallRaises
  PROVE  PairIInv'
<1>1. /\ UNCHANGED <<single, at, bought, ledger, disk, mishaps>>
      /\ UNCHANGED <<side, round, failures>>
      /\ stage # "down" /\ stage' = "raised"
      /\ \A l \in Lanes : at[l] \in AtRest
  BY DEF CannotFund, CallRaises, LanesRest, PairIInv, LanesPlaced, AtRest
<1>2. LanesPlaced' /\ CallKnows' /\ ReturnedPairIsAnnotated'
  BY <1>1 DEF LanesPlaced, CallKnows, ReturnedPairIsAnnotated
<1>. QED
  BY <1>1, <1>2, QuietStep DEF PairIInv, PairTypeOK

LEMMA NoFailureLeft ==
  ASSUME PairFailures = {}
  PROVE  \A s \in Sides : Failed(s) = {}
<1>. SUFFICES ASSUME NEW s \in Sides, NEW t \in Failed(s) PROVE FALSE
  OBVIOUS
<1>1. <<s, t>> \in PairFailures
  BY DEF PairFailures, Failed
<1>. QED  BY <1>1

LEMMA FailuresAreTrials ==
  /\ PairFailures \subseteq Sides \X Trials
  /\ \A s \in Sides : Failed(s) \subseteq Trials
BY DEF PairFailures, Failed

LEMMA DecideRetryKeeps ==
  ASSUME PairIInv, DecideRetry
  PROVE  PairIInv'
<1>1. PairTypeOK /\ LanesPlaced /\ CallKnows
  BY DEF PairIInv
<1>2. /\ UNCHANGED <<single, round, failures, at, bought, ledger, disk>>
      /\ UNCHANGED mishaps
      /\ stage = "decide" /\ stage' \in {"retry", "annotate"}
      /\ side' = IF stage' = "retry" THEN "parent" ELSE "candidate"
  BY DEF DecideRetry
<1>3. UNCHANGED <<out, mark>>
  BY <1>2 DEF disk
<1>4. LanesPlaced' /\ ReturnedPairIsAnnotated'
  BY <1>1, <1>2 DEF LanesPlaced, ReturnedPairIsAnnotated
<1>5. CallKnows'
  BY <1>1, <1>2, <1>3 DEF CallKnows, PairFailures, Failed
<1>6. \A l \in Lanes : at[l] \in AtRest
  BY <1>1, <1>2 DEF LanesPlaced, AtRest
<1>. QED
  BY <1>1, <1>2, <1>4, <1>5, <1>6, QuietStep DEF PairTypeOK, Sides

LEMMA RetriesEndKeeps ==
  ASSUME PairIInv, RetriesEnd
  PROVE  PairIInv'
<1>1. PairTypeOK /\ LanesPlaced /\ CallKnows
  BY DEF PairIInv
<1>2. /\ UNCHANGED <<single, at, bought, ledger, disk, mishaps>>
      /\ stage = "retry"
  BY DEF RetriesEnd
<1>3. UNCHANGED <<out, mark>>
  BY <1>2 DEF disk
<1>4. \A l \in Lanes : at[l] \in AtRest
  BY <1>1, <1>2 DEF LanesPlaced, AtRest
<1>5. CASE side = "parent"
  <2>1. side' = "candidate" /\ round' = 0 /\ UNCHANGED <<stage, failures>>
    BY <1>5 DEF RetriesEnd
  <2>2. LanesPlaced' /\ ReturnedPairIsAnnotated'
    BY <1>1, <1>2, <2>1 DEF LanesPlaced, ReturnedPairIsAnnotated
  <2>3. CallKnows'
    BY <1>1, <1>2, <1>3, <2>1 DEF CallKnows
  <2>. QED
    BY <1>1, <1>2, <1>4, <2>1, <2>2, <2>3, QuietStep, Sizes
       DEF PairTypeOK, Sides
<1>6. CASE side # "parent"
  <2>1. /\ stage' = IF single THEN "finish" ELSE "annotate"
        /\ failures' = PairFailures /\ UNCHANGED <<side, round>>
        /\ side = "candidate"
    BY <1>1, <1>6 DEF RetriesEnd, PairTypeOK, Sides
  <2>2. LanesPlaced' /\ ReturnedPairIsAnnotated'
    BY <1>1, <1>2, <2>1 DEF LanesPlaced, ReturnedPairIsAnnotated
  <2>3. CallKnows'
    BY <1>1, <1>2, <1>3, <2>1 DEF CallKnows, PairFailures, Failed
  <2>. QED
    BY <1>1, <1>2, <1>4, <2>1, <2>2, <2>3, FailuresAreTrials, QuietStep
       DEF PairTypeOK
<1>. QED  BY <1>5, <1>6

LEMMA FinishSingleKeeps ==
  ASSUME PairIInv, FinishSingle
  PROVE  PairIInv'
<1>1. PairTypeOK /\ LanesPlaced /\ CallKnows
  BY DEF PairIInv
<1>2. /\ UNCHANGED <<single, side, round, failures, at, bought, ledger, disk,
                     mishaps>>
      /\ stage = "finish"
      /\ stage' = IF failures = {} THEN "returned" ELSE "raised"
  BY DEF FinishSingle
<1>3. UNCHANGED <<out, mark>>
  BY <1>2 DEF disk
<1>4. \A l \in Lanes : at[l] \in AtRest
  BY <1>1, <1>2 DEF LanesPlaced, AtRest
<1>5. LanesPlaced'
  BY <1>1, <1>2 DEF LanesPlaced, AtRest
<1>6. CallKnows'
  BY <1>1, <1>2, <1>3 DEF CallKnows
<1>7. ReturnedPairIsAnnotated'
  <2>. SUFFICES ASSUME failures = {} PROVE ReturnedPairIsAnnotated'
    BY <1>2 DEF ReturnedPairIsAnnotated
  <2>1. single /\ out["candidate"] # NoFile /\ PairFailures = {}
    BY <1>1, <1>2 DEF CallKnows
  <2>2. Failed("candidate") = {}
    BY <2>1, NoFailureLeft DEF Sides
  <2>. QED  BY <1>2, <1>3, <2>1, <2>2 DEF ReturnedPairIsAnnotated, Failed
<1>. QED
  BY <1>1, <1>2, <1>4, <1>5, <1>6, <1>7, QuietStep DEF PairTypeOK

(* Every lane of the sides is done, so every side that was started has its  *)
(* file.                                                                    *)
LEMMA SidesReturnKeeps ==
  ASSUME PairIInv, SidesReturn
  PROVE  PairIInv'
<1>1. PairTypeOK /\ DOMAIN kept = Lanes /\ LanesPlaced /\ LanesKnow
  BY DEF PairIInv
<1>2. /\ UNCHANGED <<single, bought, job, held, spent, kept, out, mark>>
      /\ UNCHANGED <<retries, mishaps>>
      /\ stage = "pair" /\ stage' = IF single THEN "retry" ELSE "decide"
      /\ side' = IF single THEN "candidate" ELSE "parent"
      /\ round' = 0 /\ failures' = PairFailures
      /\ at' = [l \in Lanes |-> "off"]
  BY DEF SidesReturn, ledger, disk
<1>3. \A l \in Lanes : at[l] \in {"off", "done"}
  BY DEF SidesReturn, LanesRest, SomeFailed, AtRest
<1>4. \A l \in Started : out[l[1]] # NoFile
  <2>. SUFFICES ASSUME NEW l \in Started PROVE out[l[1]] # NoFile
    OBVIOUS
  <2>1. l \in Lanes /\ l[2] = 0 /\ at[l] = "done"
    BY <1>1, <1>2, <1>3, LanesOfSides DEF LanesPlaced
  <2>. QED  BY <1>1, <2>1 DEF LanesKnow
<1>5. out["candidate"] # NoFile /\ (~single => out["parent"] # NoFile)
  <2>1. Side("candidate") \in Started /\ (~single => Side("parent") \in Started)
    BY DEF Started, Sides
  <2>2. Side("candidate")[1] = "candidate" /\ Side("parent")[1] = "parent"
    BY DEF Side
  <2>. QED  BY <1>4, <2>1, <2>2
<1>6. PairTypeOK'
  <2>1. at' \in [Lanes -> Places]
    BY <1>2 DEF Places, AtRest
  <2>2. side' \in Sides /\ round' \in 0..Rounds
    BY <1>2, Sizes DEF Sides
  <2>3. failures' \subseteq Sides \X Trials
    BY <1>2, FailuresAreTrials
  <2>. QED
    BY <1>1, <1>2, <2>1, <2>2, <2>3 DEF PairTypeOK, Batches, LaneTrials, Trials
<1>7. LanesPlaced' /\ LanesKnow'
  BY <1>2 DEF LanesPlaced, LanesKnow
<1>8. HeldIsReserved'
  BY <1>2, <1>3, HeldStays DEF PairIInv
<1>9. RetriesStopAtSuccess' /\ MarkedValidIsValid'
  BY <1>2 DEF PairIInv, RetriesStopAtSuccess, ValidRetries,
     MarkedValidIsValid, Failed
<1>10. CallKnows' /\ ReturnedPairIsAnnotated'
  BY <1>2, <1>5 DEF CallKnows, ReturnedPairIsAnnotated, PairFailures, Failed
<1>11. Paid'
  BY <1>2, LanesOfSides DEF Paid, CheckPaysForBothSides
<1>. QED
  BY <1>1, <1>2, <1>6, <1>7, <1>8, <1>9, <1>10, <1>11 DEF PairIInv

LEMMA RetryTargetsKeeps ==
  ASSUME PairIInv, RetryTargets
  PROVE  PairIInv'
<1>1. PairTypeOK /\ DOMAIN kept = Lanes /\ LanesPlaced /\ CallKnows
  BY DEF PairIInv
<1>2. /\ UNCHANGED <<single, side, round, failures, bought, job, held, spent>>
      /\ UNCHANGED <<kept, out, mark, retries, mishaps>>
      /\ stage = "retry" /\ stage' = "retrying" /\ round < Rounds
      /\ at' = [l \in Lanes |-> IF l \in {side} \X Failed(side)
                                  THEN "begin" ELSE "off"]
  BY DEF RetryTargets, AnotherRound, ledger, disk
<1>3. side \in Sides /\ Failed(side) \subseteq Trials
  BY <1>1, FailuresAreTrials DEF PairTypeOK
<1>4. \A l \in {side} \X Failed(side) :
        l[1] = side /\ l[2] \in Failed(side) /\ l[2] # 0
  BY <1>3 DEF Trials
<1>5. PairTypeOK'
  BY <1>1, <1>2 DEF PairTypeOK, Batches, LaneTrials, Trials, Places, AtRest
<1>6. LanesPlaced'
  BY <1>2, <1>4 DEF LanesPlaced, Failed
<1>7. LanesKnow'
  BY <1>2 DEF LanesKnow
<1>8. HeldIsReserved'
  BY <1>1, <1>2, HeldStays DEF PairIInv, LanesPlaced
<1>9. RetriesStopAtSuccess' /\ MarkedValidIsValid'
  BY <1>2 DEF PairIInv, RetriesStopAtSuccess, ValidRetries,
     MarkedValidIsValid, Failed
<1>10. CallKnows' /\ ReturnedPairIsAnnotated'
  BY <1>1, <1>2 DEF CallKnows, ReturnedPairIsAnnotated
<1>11. Paid'
  BY <1>2, LanesOfSides DEF Paid, CheckPaysForBothSides
<1>. QED
  BY <1>1, <1>2, <1>5, <1>6, <1>7, <1>8, <1>9, <1>10, <1>11 DEF PairIInv

(* Only failed trials of one side were run again, so merging their answers  *)
(* leaves the valid ones as they are.                                       *)
LEMMA MergedFile ==
  ASSUME PairIInv, MergeRetries
  PROVE  /\ side \in Sides /\ out[side] \in [Trials -> Trial]
         /\ out' \in [Sides -> [Trials -> Trial] \cup {NoFile}]
         /\ \A s \in Sides : s # side => out'[s] = out[s]
         /\ out'[side] \in [Trials -> Trial]
         /\ \A t \in Trials : out[side][t].ok => out'[side][t] = out[side][t]
         /\ Failed(side) = {} => out' = out
<1>1. PairTypeOK /\ LanesPlaced /\ LanesKnow /\ CallKnows
  BY DEF PairIInv
<1>2. /\ stage = "retrying"
      /\ out' = [out EXCEPT ![side] =
                   [t \in Trials |-> IF at[<<side, t>>] = "done"
                                       THEN Replacement(<<side, t>>)
                                       ELSE out[side][t]]]
  BY DEF MergeRetries
<1>3. side \in Sides /\ out[side] \in [Trials -> Trial]
  <2>1. side \in Sides /\ out[side] # NoFile
    BY <1>1, <1>2 DEF CallKnows, PairTypeOK, Sides
  <2>. QED  BY <1>1, <2>1 DEF PairTypeOK
<1>4. ASSUME NEW t \in Trials, at[<<side, t>>] = "done"
      PROVE  Replacement(<<side, t>>) \in Trial /\ t \in Failed(side)
  <2>1. /\ <<side, t>> \in Lanes /\ <<side, t>> \in Sides \X Trials
        /\ <<side, t>>[2] = t /\ t # 0
    BY <1>3, LanesOfSides DEF Trials
  <2>2. t \in Failed(side)
    BY <1>1, <1>2, <1>4, <2>1 DEF LanesPlaced
  <2>3. retries[<<side, t>>] \in Seq(BOOLEAN) /\ retries[<<side, t>>] # <<>>
    BY <1>1, <1>4, <2>1 DEF LanesKnow, PairTypeOK
  <2>. DEFINE n == IF RetryAnswered(<<side, t>>)
                     THEN CHOOSE k \in ValidRetries(<<side, t>>) : TRUE
                     ELSE Len(retries[<<side, t>>])
  <2>4. n \in 1..Len(retries[<<side, t>>])
    <3>1. CASE RetryAnswered(<<side, t>>)
      BY <3>1 DEF RetryAnswered, ValidRetries
    <3>2. CASE ~RetryAnswered(<<side, t>>)
      BY <2>3, <3>2
    <3>. QED  BY <3>1, <3>2
  <2>5. retries[<<side, t>>][n] \in BOOLEAN /\ n \in Nat
    BY <2>3, <2>4
  <2>6. Replacement(<<side, t>>) = [ok |-> retries[<<side, t>>][n], from |-> n]
    BY DEF Replacement
  <2>7. Replacement(<<side, t>>) \in Trial
    <3>. HIDE DEF n
    <3>. QED  BY <2>5, <2>6 DEF Trial
  <2>. QED  BY <2>2, <2>7
<1>5. out'[side] = [t \in Trials |-> IF at[<<side, t>>] = "done"
                                       THEN Replacement(<<side, t>>)
                                       ELSE out[side][t]]
  BY <1>1, <1>2, <1>3 DEF PairTypeOK
<1>6. out'[side] \in [Trials -> Trial]
  BY <1>3, <1>4, <1>5
<1>7. \A s \in Sides : s # side => out'[s] = out[s]
  BY <1>1, <1>2 DEF PairTypeOK
<1>8. out' \in [Sides -> [Trials -> Trial] \cup {NoFile}]
  BY <1>1, <1>2, <1>5, <1>6 DEF PairTypeOK
<1>9. \A t \in Trials : out[side][t].ok => out'[side][t] = out[side][t]
  <2>. SUFFICES ASSUME NEW t \in Trials, out[side][t].ok
                PROVE  at[<<side, t>>] # "done"
    BY <1>5
  <2>1. t \notin Failed(side)
    BY DEF Failed
  <2>. QED  BY <1>4, <2>1
<1>10. ASSUME Failed(side) = {} PROVE out' = out
  <2>1. out'[side] = [t \in Trials |-> out[side][t]]
    BY <1>4, <1>5, <1>10
  <2>2. out'[side] = out[side]
    BY <1>3, <2>1
  <2>3. \A s \in Sides : out'[s] = out[s]
    BY <1>7, <2>2
  <2>4. /\ out = [s \in Sides |-> out[s]]
        /\ out' = [s \in Sides |-> out'[s]]
    BY <1>1, <1>8 DEF PairTypeOK
  <2>. QED  BY <2>3, <2>4
<1>. QED  BY <1>3, <1>6, <1>7, <1>8, <1>9, <1>10

LEMMA MergeRetriesKeeps ==
  ASSUME PairIInv, MergeRetries
  PROVE  PairIInv'
<1>1. PairTypeOK /\ DOMAIN kept = Lanes /\ LanesPlaced /\ CallKnows
  BY DEF PairIInv
<1>2. /\ UNCHANGED <<single, side, failures, bought, job, held, spent>>
      /\ UNCHANGED <<kept, mark, retries, mishaps>>
      /\ stage = "retrying" /\ stage' = "retry" /\ round' = round + 1
      /\ at' = [l \in Lanes |-> "off"]
  BY DEF MergeRetries, ledger
<1>3. \A l \in Lanes : at[l] \in {"off", "done"}
  BY DEF MergeRetries, LanesRest, SomeFailed, AtRest
<1>4. PairTypeOK'
  <2>1. at' \in [Lanes -> Places]
    BY <1>2 DEF Places, AtRest
  <2>2. round' \in 0..Rounds
    BY <1>1, <1>2, Sizes DEF PairTypeOK, LanesPlaced
  <2>3. out' \in [Sides -> [Trials -> Trial] \cup {NoFile}]
    BY MergedFile
  <2>. QED
    BY <1>1, <1>2, <2>1, <2>2, <2>3 DEF PairTypeOK, Batches, LaneTrials, Trials
<1>5. LanesPlaced' /\ LanesKnow'
  BY <1>2 DEF LanesPlaced, LanesKnow
<1>6. HeldIsReserved'
  BY <1>2, <1>3, HeldStays DEF PairIInv
<1>7. RetriesStopAtSuccess'
  BY <1>2 DEF PairIInv, RetriesStopAtSuccess, ValidRetries
<1>8. MarkedValidIsValid'
  <2>1. CASE \E s \in Sides : mark[s] = "valid"
    <3>1. Failed(side) = {}
      BY <2>1, MergedFile DEF PairIInv, MarkedValidIsValid
    <3>2. out' = out
      BY <3>1, MergedFile
    <3>. QED  BY <1>2, <3>2 DEF PairIInv, MarkedValidIsValid, Failed
  <2>2. CASE \A s \in Sides : mark[s] # "valid"
    BY <1>2, <2>2 DEF MarkedValidIsValid
  <2>. QED  BY <2>1, <2>2
<1>9. CallKnows'
  <2>1. \A s \in Sides : out[s] # NoFile => out'[s] # NoFile
    BY MergedFile, FilesAreNotEmpty
  <2>. QED  BY <1>1, <1>2, <2>1 DEF CallKnows, Sides
<1>10. ReturnedPairIsAnnotated'
  BY <1>2 DEF ReturnedPairIsAnnotated
<1>11. Paid'
  BY <1>2, LanesOfSides DEF Paid, CheckPaysForBothSides
<1>. QED
  BY <1>1, <1>2, <1>4, <1>5, <1>6, <1>7, <1>8, <1>9, <1>10, <1>11 DEF PairIInv

LEMMA AnnotateKeeps ==
  ASSUME PairIInv, Annotate
  PROVE  PairIInv'
<1>1. PairTypeOK /\ DOMAIN kept = Lanes /\ LanesPlaced /\ CallKnows
  BY DEF PairIInv
<1>2. /\ UNCHANGED <<single, round, failures, at, bought, job, held, spent>>
      /\ UNCHANGED <<kept, out, retries, mishaps>>
      /\ stage = "annotate" /\ ~single
      /\ mark' = [mark EXCEPT ![side] = Annotation]
      /\ IF side = "candidate" THEN side' = "parent" /\ UNCHANGED stage
                               ELSE stage' = "returned" /\ UNCHANGED side
  BY <1>1 DEF Annotate, ledger, CallKnows, Annotation
<1>3. \A l \in Lanes : at[l] = "off"
  BY <1>1, <1>2 DEF LanesPlaced
<1>4. PairTypeOK'
  <2>1. mark' \in [Sides -> {"none", "valid", "invalid"}]
    BY <1>1, <1>2 DEF PairTypeOK, Annotation
  <2>2. side' \in Sides /\ stage' \in {"annotate", "returned"}
    BY <1>1, <1>2 DEF PairTypeOK, Sides
  <2>. QED
    BY <1>1, <1>2, <2>1, <2>2 DEF PairTypeOK, Batches, LaneTrials, Trials
<1>5. LanesPlaced' /\ LanesKnow'
  BY <1>2, <1>3 DEF LanesPlaced, LanesKnow
<1>6. HeldIsReserved'
  BY <1>2, <1>3, HeldStays DEF PairIInv
<1>7. RetriesStopAtSuccess'
  BY <1>2 DEF PairIInv, RetriesStopAtSuccess, ValidRetries
<1>8. /\ failures = PairFailures
      /\ out["candidate"] # NoFile /\ out["parent"] # NoFile
  BY <1>1, <1>2 DEF CallKnows
<1>9. MarkedValidIsValid'
  <2>1. CASE failures = {}
    BY <1>2, <1>8, <2>1, NoFailureLeft DEF MarkedValidIsValid, Sides, Failed
  <2>2. CASE failures # {}
    <3>1. \A s \in Sides : mark'[s] = "valid" => mark[s] = "valid"
      BY <1>1, <1>2, <2>2 DEF PairTypeOK, Annotation
    <3>. QED  BY <1>2, <3>1 DEF PairIInv, MarkedValidIsValid, Failed
  <2>. QED  BY <2>1, <2>2
<1>10. PairFailures' = PairFailures /\ Annotation' = Annotation
  BY <1>2 DEF PairFailures, Failed, Annotation
<1>11. CASE side = "candidate"
  <2>1. mark'["candidate"] = Annotation
    BY <1>1, <1>2, <1>11 DEF PairTypeOK, Sides
  <2>2. CallKnows' /\ ReturnedPairIsAnnotated'
    BY <1>2, <1>8, <1>10, <1>11, <2>1 DEF CallKnows, ReturnedPairIsAnnotated
  <2>3. Paid'
    BY <1>2, <1>3, LanesOfSides DEF Paid, CheckPaysForBothSides
  <2>. QED
    BY <1>1, <1>2, <1>4, <1>5, <1>6, <1>7, <1>9, <2>2, <2>3 DEF PairIInv
<1>12. CASE side = "parent"
  <2>1. mark'["parent"] = Annotation /\ mark'["candidate"] = Annotation
    BY <1>1, <1>2, <1>12 DEF PairTypeOK, Sides, CallKnows
  <2>2. CallKnows'
    BY <1>2, <1>8, <1>12 DEF CallKnows
  <2>3. ReturnedPairIsAnnotated'
    BY <1>2, <1>8, <1>10, <2>1 DEF ReturnedPairIsAnnotated, Sides, Annotation
  <2>4. Paid'
    BY <1>2, <1>3, LanesOfSides DEF Paid, CheckPaysForBothSides
  <2>. QED
    BY <1>1, <1>2, <1>4, <1>5, <1>6, <1>7, <1>9, <2>2, <2>3, <2>4 DEF PairIInv
<1>. QED  BY <1>1, <1>11, <1>12 DEF PairTypeOK, Sides

-----------------------------------------------------------------------------
(* The end of a process, its restart, and a script that dies.               *)
LEMMA CrashKeeps ==
  ASSUME PairIInv, Crash
  PROVE  PairIInv'
<1>1. PairTypeOK /\ DOMAIN kept = Lanes
  BY DEF PairIInv
<1>2. /\ UNCHANGED <<single, bought, job, held, spent, kept, out, mark>>
      /\ UNCHANGED retries
      /\ mishaps < MaxMishaps /\ mishaps' = mishaps + 1
      /\ stage' = "down" /\ side' = "parent" /\ round' = 0 /\ failures' = {}
      /\ at' = [l \in Lanes |-> "off"]
  BY DEF Crash, ledger, disk
<1>3. PairTypeOK'
  <2>1. at' \in [Lanes -> Places]
    BY <1>2 DEF Places, AtRest
  <2>2. mishaps' \in 0..MaxMishaps
    BY <1>1, <1>2, Sizes DEF PairTypeOK
  <2>3. round' \in 0..Rounds /\ side' \in Sides
    BY <1>2, Sizes DEF Sides
  <2>. QED
    BY <1>1, <1>2, <2>1, <2>2, <2>3 DEF PairTypeOK, Batches, LaneTrials, Trials
<1>4. LanesPlaced' /\ LanesKnow' /\ HeldIsReserved'
  BY <1>2 DEF LanesPlaced, LanesKnow, HeldIsReserved
<1>5. RetriesStopAtSuccess' /\ MarkedValidIsValid'
  BY <1>2 DEF PairIInv, RetriesStopAtSuccess, ValidRetries,
     MarkedValidIsValid, Failed
<1>6. CallKnows' /\ ReturnedPairIsAnnotated'
  BY <1>2 DEF CallKnows, ReturnedPairIsAnnotated
<1>7. Paid'
  BY <1>2, LanesOfSides DEF Paid, CheckPaysForBothSides
<1>. QED
  BY <1>1, <1>2, <1>3, <1>4, <1>5, <1>6, <1>7 DEF PairIInv

LEMMA RestartKeeps ==
  ASSUME PairIInv, Restart
  PROVE  PairIInv'
<1>1. PairTypeOK /\ DOMAIN kept = Lanes /\ LanesPlaced
  BY DEF PairIInv
<1>2. /\ UNCHANGED <<single, side, round, failures, at, bought, spent>>
      /\ UNCHANGED <<kept, out, mark, retries, mishaps>>
      /\ stage = "down" /\ stage' = "idle" /\ held' = 0
      /\ job' = [l \in Lanes |-> "none"]
  BY DEF Restart, disk
<1>3. \A l \in Lanes : at[l] = "off"
  BY <1>1, <1>2 DEF LanesPlaced
<1>4. PairTypeOK'
  BY <1>1, <1>2 DEF PairTypeOK, Batches, LaneTrials, Trials
<1>5. LanesPlaced' /\ LanesKnow'
  BY <1>2, <1>3 DEF LanesPlaced, LanesKnow
<1>6. HeldIsReserved'
  BY <1>2, <1>3, NothingHeldNext DEF HeldIsReserved
<1>7. RetriesStopAtSuccess' /\ MarkedValidIsValid'
  BY <1>2 DEF PairIInv, RetriesStopAtSuccess, ValidRetries,
     MarkedValidIsValid, Failed
<1>8. CallKnows' /\ ReturnedPairIsAnnotated'
  BY <1>2 DEF CallKnows, ReturnedPairIsAnnotated
<1>9. Paid'
  BY <1>2, <1>3, LanesOfSides DEF Paid, CheckPaysForBothSides
<1>. QED
  BY <1>1, <1>2, <1>4, <1>5, <1>6, <1>7, <1>8, <1>9 DEF PairIInv

LEMMA ScriptDiesKeeps ==
  ASSUME PairIInv, NEW s \in Sides, ScriptDies(s)
  PROVE  PairIInv'
<1>1. PairTypeOK /\ DOMAIN kept = Lanes /\ LanesPlaced
  BY DEF PairIInv
<1>2. /\ UNCHANGED <<single, stage, side, round, failures, at, bought, held>>
      /\ UNCHANGED <<kept, out, mark, retries>>
      /\ stage = "idle" /\ mishaps < MaxMishaps /\ mishaps' = mishaps + 1
      /\ job' = [job EXCEPT ![Side(s)] = "launched"]
      /\ spent' = spent + NumTrials
  BY DEF ScriptDies, call, disk
<1>3. \A l \in Lanes : at[l] = "off"
  BY <1>1, <1>2 DEF LanesPlaced
<1>4. PairTypeOK'
  <2>1. mishaps' \in 0..MaxMishaps /\ spent' \in Nat
    BY <1>1, <1>2, Sizes DEF PairTypeOK
  <2>2. job' \in [Lanes -> {"none", "reserved", "launched"}]
    BY <1>1, <1>2 DEF PairTypeOK
  <2>. QED
    BY <1>1, <1>2, <2>1, <2>2 DEF PairTypeOK, Batches, LaneTrials, Trials
<1>5. LanesPlaced' /\ LanesKnow'
  BY <1>2, <1>3 DEF LanesPlaced, LanesKnow
<1>6. HeldIsReserved'
  BY <1>2, <1>3, HeldStays DEF PairIInv
<1>7. RetriesStopAtSuccess' /\ MarkedValidIsValid'
  BY <1>2 DEF PairIInv, RetriesStopAtSuccess, ValidRetries,
     MarkedValidIsValid, Failed
<1>8. CallKnows' /\ ReturnedPairIsAnnotated'
  BY <1>2 DEF CallKnows, ReturnedPairIsAnnotated
<1>9. Paid'
  BY <1>2, <1>3, LanesOfSides DEF Paid, CheckPaysForBothSides
<1>. QED
  BY <1>1, <1>2, <1>4, <1>5, <1>6, <1>7, <1>8, <1>9 DEF PairIInv

-----------------------------------------------------------------------------
LEMMA InitIsSound == Init => PairIInv
<1>. SUFFICES ASSUME Init PROVE PairIInv
  OBVIOUS
<1>1. PairTypeOK /\ DOMAIN kept = Lanes
  <2>1. at \in [Lanes -> Places] /\ DOMAIN kept = Lanes
    BY DEF Init, Places, AtRest
  <2>2. retries \in [Sides \X Trials -> Seq(BOOLEAN)]
    BY DEF Init
  <2>3. out \in [Sides -> [Trials -> Trial] \cup {NoFile}]
    BY DEF Init
  <2>4. round \in 0..Rounds /\ mishaps \in 0..MaxMishaps /\ side \in Sides
    BY Sizes DEF Init, Sides
  <2>. QED  BY <2>1, <2>2, <2>3, <2>4 DEF Init, PairTypeOK
<1>2. LanesPlaced /\ LanesKnow
  BY DEF Init, LanesPlaced, LanesKnow
<1>3. HeldIsReserved
  BY NothingHeld DEF Init, HeldIsReserved
<1>4. RetriesStopAtSuccess
  BY DEF Init, RetriesStopAtSuccess, ValidRetries
<1>5. CallKnows /\ MarkedValidIsValid /\ ReturnedPairIsAnnotated
  BY DEF Init, CallKnows, MarkedValidIsValid, ReturnedPairIsAnnotated
<1>6. Paid
  BY LanesOfSides DEF Init, Paid, CheckPaysForBothSides
<1>. QED  BY <1>1, <1>2, <1>3, <1>4, <1>5, <1>6 DEF PairIInv

LEMMA StutterKeeps == PairIInv /\ UNCHANGED vars => PairIInv'
<1>. SUFFICES ASSUME PairIInv, UNCHANGED vars PROVE PairIInv'
  OBVIOUS
<1>1. /\ UNCHANGED <<single, stage, side, round, failures, at, bought, job>>
      /\ UNCHANGED <<held, spent, kept, out, mark, retries, mishaps>>
  BY DEF vars, call, ledger, disk
<1>2. PairTypeOK' /\ (DOMAIN kept = Lanes)'
  BY <1>1 DEF PairIInv, PairTypeOK, Batches, LaneTrials, Trials
<1>3. LanesPlaced' /\ LanesKnow'
  BY <1>1 DEF PairIInv, LanesPlaced, LanesKnow, Failed, Started, RetryAnswered,
     ValidRetries, Batches, LaneTrials, Trials
<1>4. HeldIsReserved'
  <2>1. HeldByRetries' = HeldByRetries
    BY <1>1 DEF HeldByRetries
  <2>. QED  BY <1>1, <2>1 DEF PairIInv, HeldIsReserved, HeldBy
<1>5. RetriesStopAtSuccess' /\ MarkedValidIsValid' /\ ReturnedPairIsAnnotated'
  BY <1>1 DEF PairIInv, RetriesStopAtSuccess, ValidRetries, PairFailures,
     MarkedValidIsValid, ReturnedPairIsAnnotated, Failed
<1>6. CallKnows'
  BY <1>1 DEF PairIInv, CallKnows, PairFailures, Failed, Annotation
<1>7. Paid'
  BY <1>1 DEF PairIInv, Paid, CheckPaysForBothSides, Due, Remaining
<1>. QED  BY <1>2, <1>3, <1>4, <1>5, <1>6, <1>7 DEF PairIInv

LEMMA NextKeeps == PairIInv /\ [Next]_vars => PairIInv'
<1>. SUFFICES ASSUME PairIInv, [Next]_vars PROVE PairIInv'
  OBVIOUS
<1>1. CASE \E l \in Lanes : LaneStep(l)
  BY <1>1, LaneStepKeeps
<1>2. CASE CallStep
  BY <1>2, StartSidesKeeps, CannotFundKeeps, SidesReturnKeeps, DecideRetryKeeps,
     RetryTargetsKeeps, MergeRetriesKeeps, RetriesEndKeeps, FinishSingleKeeps,
     AnnotateKeeps DEF CallStep
<1>3. CASE Crash \/ Restart
  BY <1>3, CrashKeeps, RestartKeeps
<1>4. CASE \E s \in Sides : ScriptDies(s)
  BY <1>4, ScriptDiesKeeps
<1>5. CASE UNCHANGED vars
  BY <1>5, StutterKeeps
<1>. QED  BY <1>1, <1>2, <1>3, <1>4, <1>5 DEF Next

LEMMA PairIsInductive == Spec => []PairIInv
BY InitIsSound, NextKeeps, PTL DEF Spec

(* _merge_trial_retries and run_pair_from_main: no retry follows one that   *)
(* succeeded, and what a file says of its pair is true, for a pair of any   *)
(* size with any number of crashes.                                         *)
THEOREM PairIsSound == Spec => []PairInv
<1>1. PairIInv => PairInv
  BY DEF PairIInv, PairInv
<1>. QED  BY <1>1, PairIsInductive, PTL

(* run_exact_pair: the one comparison of the remaining units before the two *)
(* threads start pays for both, however their steps are interleaved.        *)
THEOREM OneCheckPaysForBoth == Spec => []CheckPaysForBothSides
<1>1. PairIInv => CheckPaysForBothSides
  BY DEF PairIInv, Paid
<1>. QED  BY <1>1, PairIsInductive, PTL

(* What a step leaves of the evidence in the files.                         *)
KeepsEvidence ==
  \A s \in Sides : out[s] # NoFile =>
    /\ out'[s] # NoFile
    /\ \A t \in Trials : out[s][t].ok => out'[s][t] = out[s][t]

LEMMA StepKeepsEvidence == PairIInv /\ [Next]_vars => KeepsEvidence
<1>. SUFFICES ASSUME PairIInv, [Next]_vars PROVE KeepsEvidence
  OBVIOUS
<1>1. CASE UNCHANGED out
  BY <1>1 DEF KeepsEvidence
<1>2. CASE MergeRetries
  BY <1>2, MergedFile, FilesAreNotEmpty DEF KeepsEvidence
<1>3. ASSUME NEW l \in Lanes, LaneStep(l), ~UNCHANGED out PROVE KeepsEvidence
  <2>1. WriteLane(l) /\ l[2] = 0 /\ PairTypeOK
    BY <1>3, LaneForms DEF PairIInv
  <2>2. out[l[1]] = NoFile
    BY <2>1 DEF WriteLane, PairIInv, LanesKnow
  <2>3. \A s \in Sides : s # l[1] => out'[s] = out[s]
    BY <2>1 DEF WriteLane, PairTypeOK
  <2>. QED  BY <2>2, <2>3 DEF KeepsEvidence
<1>4. CASE CallStep /\ ~MergeRetries
  <2>1. UNCHANGED out
    BY <1>4 DEF CallStep, StartSides, CannotFund, CallRaises, SidesReturn,
       DecideRetry, RetryTargets, RetriesEnd, FinishSingle, Annotate, disk
  <2>. QED  BY <1>1, <2>1
<1>5. CASE Crash \/ Restart \/ \E s \in Sides : ScriptDies(s)
  <2>1. UNCHANGED out
    BY <1>5 DEF Crash, Restart, ScriptDies, disk
  <2>. QED  BY <1>1, <2>1
<1>6. CASE UNCHANGED vars
  <2>1. UNCHANGED out
    BY <1>6 DEF vars, disk
  <2>. QED  BY <1>1, <2>1
<1>. QED  BY <1>1, <1>2, <1>3, <1>4, <1>5, <1>6 DEF Next

(* _merge_trial_retries: a trial that is evidence stays in its side's file, *)
(* from the run it came from, over rounds, crashes and repeated calls.      *)
THEOREM EvidenceIsKept == Spec => ValidEvidenceKept
<1>1. PairIInv /\ [Next]_vars => [KeepsEvidence]_vars
  BY StepKeepsEvidence
<1>2. Spec => [][KeepsEvidence]_vars
  BY <1>1, PairIsInductive, PTL DEF Spec
<1>. QED  BY <1>2 DEF ValidEvidenceKept, KeepsEvidence

-----------------------------------------------------------------------------
(* What is left for the review.  A screen alone sets the reserve aside      *)
(* beside the retries it starts: each that has not begun has its unit.      *)
Beginning == {l \in Lanes : l[2] # 0 /\ at[l] = "begin"}

ScreenKeepsReserve ==
  single /\ (\E t \in Trials : at[<<"candidate", t>>] # "off")
    => Remaining + bought >= ReviewReserve + Cardinality(Beginning)

(* A pair compares once, with a unit for each failed trial: those that may  *)
(* still need it.  A retry that fails puts its trial back among them.       *)
Unanswered ==
  {u \in PairFailures : at[u] \in {"off", "begin", "refused"}
                         \/ (at[u] \in {"settle", "done"} /\ ~RetryAnswered(u))}

PairKeepsReserve ==
  ~single /\ stage \in {"retry", "retrying"}
    => Remaining + bought + Cardinality(FailedRetries)
         >= ReviewReserve + Cardinality(Unanswered)

ReviewIInv == ScreenKeepsReserve /\ PairKeepsReserve

LEMMA ReviewSetsFinite ==
  PairTypeOK =>
    /\ IsFiniteSet(Beginning) /\ Cardinality(Beginning) \in Nat
    /\ IsFiniteSet(PairFailures)
    /\ IsFiniteSet(Unanswered) /\ Cardinality(Unanswered) \in Nat
    /\ IsFiniteSet(FailedRetries) /\ Cardinality(FailedRetries) \in Nat
<1>. SUFFICES ASSUME PairTypeOK
     PROVE  /\ IsFiniteSet(Beginning) /\ IsFiniteSet(PairFailures)
            /\ IsFiniteSet(Unanswered) /\ IsFiniteSet(FailedRetries)
  BY FS_CardinalityType
<1>1. IsFiniteSet(Lanes)
  <2>1. IsFiniteSet({"candidate"})
    BY FS_Singleton
  <2>2. IsFiniteSet({"candidate"} \cup {"parent"})
    BY <2>1, FS_AddElement
  <2>3. {"candidate"} \cup {"parent"} = Sides
    BY DEF Sides
  <2>4. IsFiniteSet(0..NumTrials)
    BY Sizes, FS_Interval
  <2>. QED  BY <2>2, <2>3, <2>4, FS_Product DEF Lanes
<1>2. Sides \X Trials \subseteq Lanes
  BY LanesOfSides
<1>3. IsFiniteSet(Sides \X Trials)
  BY <1>1, <1>2, FS_Subset
<1>4. IsFiniteSet(Beginning)
  BY <1>1, FS_Subset DEF Beginning
<1>5. IsFiniteSet(PairFailures) /\ IsFiniteSet(Unanswered)
  <2>1. IsFiniteSet(PairFailures)
    BY <1>3, FailuresAreTrials, FS_Subset
  <2>. QED  BY <2>1, FS_Subset DEF Unanswered
<1>6. IsFiniteSet(FailedRetries)
  <2>. DEFINE Of(u) == {u} \X {n \in DOMAIN retries[u] : ~retries[u][n]}
              All == {Of(u) : u \in Sides \X Trials}
              f == [u \in Sides \X Trials |-> Of(u)]
  <2>1. ASSUME NEW u \in Sides \X Trials PROVE IsFiniteSet(Of(u))
    <3>1. retries[u] \in Seq(BOOLEAN)
      BY DEF PairTypeOK
    <3>2. DOMAIN retries[u] = 1..Len(retries[u]) /\ Len(retries[u]) \in Nat
      BY <3>1
    <3>3. IsFiniteSet(DOMAIN retries[u])
      BY <3>2, FS_Interval, 1 \in Int, Len(retries[u]) \in Int
    <3>4. IsFiniteSet({n \in DOMAIN retries[u] : ~retries[u][n]})
      BY <3>3, FS_Subset
    <3>. QED  BY <3>4, FS_Singleton, FS_Product
  <2>2. f \in Surjection(Sides \X Trials, All)
    BY DEF Surjection
  <2>3. IsFiniteSet(All)
    <3>. HIDE DEF f, All
    <3>. QED  BY <1>3, <2>2, FS_Surjection
  <2>4. \A T \in All : IsFiniteSet(T)
    BY <2>1
  <2>5. FailedRetries = UNION All
    BY DEF FailedRetries
  <2>6. IsFiniteSet(UNION All)
    <3>. HIDE DEF All
    <3>. QED  BY <2>3, <2>4, FS_UNION
  <2>. QED  BY <2>5, <2>6
<1>. QED  BY <1>4, <1>5, <1>6

(* One unit less is enough when one need less is left.                      *)
LEMMA OneLess ==
  ASSUME NEW x \in Int, NEW y \in Int, NEW r \in Nat, NEW b \in Nat,
         NEW c \in Nat, x >= r + b,
         (y >= x /\ c <= b) \/ (y >= x - 1 /\ c <= b - 1)
  PROVE  y >= r + c
OBVIOUS

(* Repairs aside, only a reservation takes units.                           *)
LEMMA LaneTakes ==
  ASSUME NEW l \in Lanes, LaneStep(l), PairIInv
  PROVE  \E x \in Int, y \in Int :
           /\ x = Remaining + bought /\ y = Remaining' + bought'
           /\ y >= x \/ (ReserveLane(l) /\ y >= x - Cost(l))
<1>1. PairTypeOK /\ HeldIsReserved /\ stage # "down"
  BY LaneForms DEF PairIInv, LanesPlaced, Busy, AtRest
<1>2. /\ bought \in Nat /\ held \in Nat /\ spent \in Nat
      /\ bought' \in Nat /\ held' \in Nat /\ spent' \in Nat
      /\ Capacity \in Nat /\ Cost(l) \in Nat
  BY <1>1, LaneStepLedger, Sizes, LaneOf DEF PairTypeOK
<1>3. Remaining \in Int /\ Remaining' \in Int
  BY <1>2 DEF Remaining
<1>4. PICK r \in Int, q \in Int, b \in Nat, c \in Nat, k \in Nat :
        /\ r = Remaining /\ q = Remaining'
        /\ b = bought /\ c = bought' /\ k = Cost(l)
  BY <1>2, <1>3
<1>5. r + b \in Int /\ q + c \in Int
  OBVIOUS
<1>6. c = b \/ c = b + 1
  BY <1>1, <1>4, LaneUnits
<1>7. CASE Remaining' = Remaining
  <2>1. q = r
    BY <1>4, <1>7
  <2>2. q + c >= r + b
    BY <1>6, <2>1
  <2>. QED  BY <1>4, <1>5, <2>2
<1>8. CASE RepairLane(l)
  <2>1. spent' = spent + 1 /\ bought' = bought + 1 /\ held' = held
    BY <1>8 DEF RepairLane
  <2>2. Remaining' = Remaining - 1
    BY <1>2, <2>1 DEF Remaining
  <2>3. q = r - 1 /\ c = b + 1
    BY <1>4, <2>1, <2>2
  <2>4. q + c >= r + b
    BY <2>3
  <2>. QED  BY <1>4, <1>5, <2>4
<1>9. CASE ReserveLane(l) /\ Remaining' = Remaining - Cost(l)
  <2>1. q = r - k
    BY <1>4, <1>9
  <2>2. q + c >= (r + b) - k
    BY <1>6, <2>1
  <2>. QED  BY <1>4, <1>5, <1>9, <2>2
<1>. QED  BY <1>1, <1>7, <1>8, <1>9, LaneUnits

LEMMA LaneKeepsScreenReserve ==
  ASSUME NEW l \in Lanes, LaneStep(l), PairIInv, PairIInv', ScreenKeepsReserve
  PROVE  ScreenKeepsReserve'
<1>1. PairTypeOK /\ PairTypeOK' /\ LanesPlaced /\ LanesPlaced'
  BY DEF PairIInv
<1>2. /\ UNCHANGED <<single, stage, side>> /\ at[l] \in Busy
      /\ \A m \in Lanes \ {l} : at'[m] = at[m]
      /\ at'[l] # "begin"
  BY <1>1, LaneForms
<1>. SUFFICES ASSUME single, NEW t \in Trials,
                     at'[<<"candidate", t>>] # "off"
     PROVE  Remaining' + bought' >= ReviewReserve + Cardinality(Beginning')
  BY <1>2 DEF ScreenKeepsReserve
<1>3. <<"candidate", t>> \in Lanes /\ <<"candidate", t>>[2] # 0
  BY LanesOfSides DEF Sides
<1>4. stage = "retrying"
  <2>1. stage # "pair"
    <3>1. <<"candidate", t>> \notin Started
      BY <1>3, LanesOfSides
    <3>2. stage' = "pair" => at'[<<"candidate", t>>] = "off"
      BY <1>1, <1>2, <1>3, <3>1 DEF LanesPlaced, Started
    <3>. QED  BY <1>2, <3>2
  <2>. QED  BY <1>1, <1>2, <2>1 DEF LanesPlaced, Busy, AtRest
<1>5. l[1] = side /\ l[2] # 0
  BY <1>1, <1>2, <1>4 DEF LanesPlaced, Busy, AtRest
<1>6. side = "candidate"
  BY <1>4 DEF PairIInv, CallKnows
<1>7. l = <<"candidate", l[2]>> /\ l[2] \in Trials
  BY <1>5, <1>6, LaneOf
<1>8. at[<<"candidate", l[2]>>] # "off"
  BY <1>2, <1>7 DEF Busy, AtRest
<1>9. Remaining + bought >= ReviewReserve + Cardinality(Beginning)
  BY <1>7, <1>8 DEF ScreenKeepsReserve
<1>10. Beginning' \subseteq Beginning \ {l}
  BY <1>2 DEF Beginning
<1>11. PICK b \in Nat, c \in Nat :
         b = Cardinality(Beginning) /\ c = Cardinality(Beginning')
  <2>1. PairTypeOK' => (Cardinality(Beginning) \in Nat)'
    BY ReviewSetsFinite, PTL
  <2>. QED  BY <1>1, <2>1, ReviewSetsFinite
<1>12. PICK x \in Int, y \in Int :
         /\ x = Remaining + bought /\ y = Remaining' + bought'
         /\ y >= x \/ (ReserveLane(l) /\ y >= x - Cost(l))
  BY LaneTakes
<1>13. x >= ReviewReserve + b /\ IsFiniteSet(Beginning)
  BY <1>1, <1>9, <1>11, <1>12, ReviewSetsFinite
<1>14. c <= b
  BY <1>10, <1>11, <1>13, FS_Subset
<1>15. ReserveLane(l) => Cost(l) = 1 /\ c <= b - 1
  <2>. SUFFICES ASSUME ReserveLane(l) PROVE Cost(l) = 1 /\ c <= b - 1
    OBVIOUS
  <2>1. l \in Beginning /\ Cost(l) = 1
    BY <1>5 DEF Beginning, ReserveLane, NeedsJob, NoFileYet, Cost
  <2>2. /\ IsFiniteSet(Beginning \ {l})
        /\ Cardinality(Beginning \ {l}) = b - 1
    BY <1>11, <1>13, <2>1, FS_RemoveElement
  <2>3. c <= b - 1
    BY <1>10, <1>11, <2>2, FS_Subset
  <2>. QED  BY <2>1, <2>3
<1>16. y >= ReviewReserve + c
  <2>1. CASE y >= x
    BY <1>13, <1>14, <2>1, Sizes, OneLess
  <2>2. CASE ReserveLane(l) /\ y >= x - Cost(l)
    BY <1>13, <1>15, <2>2, Sizes, OneLess
  <2>. QED  BY <1>12, <2>1, <2>2
<1>. QED  BY <1>11, <1>12, <1>16

(* A retry at work leaves the needs of the other trials as they are, and    *)
(* adds its own only by failing, which FailedRetries counts.                *)
LEMMA RetryNeeds ==
  ASSUME NEW l \in Lanes, LaneStep(l), PairIInv, stage = "retrying"
  PROVE  /\ l \in PairFailures /\ l \in Sides \X Trials /\ l[2] # 0
         /\ PairFailures' = PairFailures
         /\ Unanswered' \subseteq Unanswered \cup {l}
         /\ FailedRetries' = FailedRetries \/ WriteLane(l)
         /\ l \in Unanswered' => l \in Unanswered \/ WriteLane(l)
         /\ ReserveLane(l) => l \in Unanswered /\ l \notin Unanswered'
<1>1. PairTypeOK /\ LanesPlaced /\ LanesKnow
  BY DEF PairIInv
<1>2. /\ UNCHANGED <<single, stage, side>> /\ at[l] \in Busy
      /\ \A m \in Lanes \ {l} : at'[m] = at[m]
  BY <1>1, LaneForms
<1>3. l[1] = side /\ l[2] # 0 /\ l[2] \in Failed(side)
  BY <1>1, <1>2 DEF LanesPlaced, Busy, AtRest
<1>4. l \in PairFailures /\ l \in Sides \X Trials
  BY <1>3, LaneOf DEF PairFailures
<1>5. UNCHANGED out
  BY <1>1, <1>3, LaneForms
<1>6. PairFailures' = PairFailures
  BY <1>5 DEF PairFailures, Failed
<1>7. Unanswered' \subseteq Unanswered \cup {l}
  <2>. SUFFICES ASSUME NEW u \in Unanswered', u # l PROVE u \in Unanswered
    OBVIOUS
  <2>1. u \in PairFailures /\ u \in Lanes /\ u[2] # 0
    BY <1>6, FailuresAreTrials, LanesOfSides DEF Unanswered
  <2>2. at'[u] = at[u] /\ retries'[u] = retries[u]
    BY <1>1, <1>2, <2>1, OtherAnswers
  <2>3. RetryAnswered(u)' <=> RetryAnswered(u)
    BY <2>2 DEF RetryAnswered, ValidRetries
  <2>. QED  BY <2>1, <2>2, <2>3 DEF Unanswered
<1>8. FailedRetries' = FailedRetries \/ WriteLane(l)
  <2>1. ~WriteLane(l) => UNCHANGED retries
    BY <1>1, LaneForms
  <2>. QED  BY <2>1 DEF FailedRetries
<1>9. ASSUME l \in Unanswered', ~WriteLane(l) PROVE l \in Unanswered
  <2>1. UNCHANGED retries /\ (RetryAnswered(l)' <=> RetryAnswered(l))
    BY <1>1, <1>9, LaneForms DEF RetryAnswered, ValidRetries
  <2>2. \/ at'[l] = "refused"
        \/ at'[l] \in {"settle", "done"} /\ ~RetryAnswered(l)
    BY <1>1, <1>9, <2>1, LaneForms DEF Unanswered
  <2>3. at[l] = "begin" \/ (at[l] = "settle" /\ ~RetryAnswered(l))
    BY <1>1, <1>3, <1>9, <2>2 DEF LaneStep, UseFile, HasFile, RecoverKept,
       ReuseJob, ReserveLane, LaneRefused, NeedsJob, NoFileYet, LaunchLane,
       RunLane, LaneFails, RepairLane, RepairRefused, SettleLane, Moves,
       PairTypeOK
  <2>. QED  BY <1>4, <2>3 DEF Unanswered
<1>10. ASSUME ReserveLane(l) PROVE l \in Unanswered /\ l \notin Unanswered'
  <2>1. at[l] = "begin" /\ at'[l] = "reserved"
    BY <1>1, <1>10 DEF ReserveLane, NeedsJob, NoFileYet, Moves, PairTypeOK
  <2>. QED  BY <1>4, <2>1 DEF Unanswered
<1>. QED  BY <1>3, <1>4, <1>6, <1>7, <1>8, <1>9, <1>10

(* A retry that is written has answered, or is one more that failed.        *)
LEMMA RetryWritten ==
  ASSUME NEW l \in Lanes, WriteLane(l), PairIInv, l[2] # 0,
         l \in Sides \X Trials
  PROVE  \/ RetryAnswered(l)' /\ FailedRetries' = FailedRetries
         \/ \E x : x \notin FailedRetries
                  /\ FailedRetries' = FailedRetries \cup {x}
<1>1. PairTypeOK /\ LanesKnow
  BY DEF PairIInv
<1>. DEFINE q == retries[l]
            b == kept[l].res[l[2]]
            Bad(u) == {u} \X {n \in DOMAIN retries[u] : ~retries[u][n]}
<1>2. /\ retries' = [retries EXCEPT ![l] = Append(@, b)]
      /\ retries'[l] = Append(q, b)
  BY <1>1, WriteAnswers
<1>3. q \in Seq(BOOLEAN) /\ b \in BOOLEAN
  <2>1. at[l] = "write"
    BY DEF WriteLane
  <2>2. l[2] \in LaneTrials(l) /\ kept[l] \in Batches(l)
    BY <1>1, <2>1 DEF LaneTrials, LanesKnow
  <2>. QED  BY <1>1, <2>2 DEF Batches, PairTypeOK
<1>4. /\ DOMAIN Append(q, b) = 1..(Len(q) + 1) /\ DOMAIN q = 1..Len(q)
      /\ Append(q, b)[Len(q) + 1] = b /\ Len(q) \in Nat
      /\ \A n \in 1..Len(q) : Append(q, b)[n] = q[n]
  <2>. HIDE DEF q, b
  <2>. QED  BY <1>3
<1>5. \A u \in Sides \X Trials : u # l => retries'[u] = retries[u]
  BY <1>1, <1>2 DEF PairTypeOK
<1>6. CASE b
  <2>1. Len(q) + 1 \in ValidRetries(l)'
    BY <1>2, <1>4, <1>3, <1>6, AppendedIsThere DEF ValidRetries
  <2>2. {n \in DOMAIN Append(q, b) : ~Append(q, b)[n]}
          = {n \in DOMAIN q : ~q[n]}
    <3>. HIDE DEF q, b
    <3>. QED  BY <1>4, <1>6
  <2>3. \A u \in Sides \X Trials : Bad(u)' = Bad(u)
    BY <1>2, <1>5, <2>2
  <2>. QED  BY <2>1, <2>3 DEF RetryAnswered, FailedRetries
<1>7. CASE ~b
  <2>. DEFINE x == <<l, Len(q) + 1>>
  <2>1. {n \in DOMAIN Append(q, b) : ~Append(q, b)[n]}
          = {n \in DOMAIN q : ~q[n]} \cup {Len(q) + 1}
    <3>. HIDE DEF q, b
    <3>. QED  BY <1>4, <1>7
  <2>2. Bad(l)' = Bad(l) \cup {x}
    BY <1>2, <2>1
  <2>3. \A u \in Sides \X Trials : u # l => Bad(u)' = Bad(u)
    BY <1>5
  <2>4. FailedRetries' = FailedRetries \cup {x}
    <3>1. FailedRetries = UNION {Bad(u) : u \in Sides \X Trials}
      BY DEF FailedRetries
    <3>2. FailedRetries' = UNION {Bad(u)' : u \in Sides \X Trials}
      BY DEF FailedRetries, Sides, Trials
    <3>. HIDE DEF Bad, x
    <3>. QED  BY <2>2, <2>3, <3>1, <3>2
  <2>5. x \notin FailedRetries
    <3>1. Len(q) + 1 \notin DOMAIN q
      BY <1>4
    <3>. QED  BY <3>1 DEF FailedRetries
  <2>. QED  BY <2>4, <2>5
<1>. QED  BY <1>3, <1>6, <1>7

LEMMA SameNeeds ==
  ASSUME NEW x \in Int, NEW y \in Int, NEW r \in Nat, NEW n \in Nat,
         NEW m \in Nat, NEW f \in Nat, NEW g \in Nat, x + f >= r + n,
         \/ y >= x /\ m <= n /\ g = f
         \/ y >= x /\ m <= n + 1 /\ g = f + 1
         \/ y >= x - 1 /\ m <= n - 1 /\ g = f
  PROVE  y + g >= r + m
OBVIOUS

LEMMA LaneKeepsPairReserve ==
  ASSUME NEW l \in Lanes, LaneStep(l), PairIInv, PairIInv', PairKeepsReserve
  PROVE  PairKeepsReserve'
<1>1. PairTypeOK /\ PairTypeOK' /\ LanesPlaced
  BY DEF PairIInv
<1>2. UNCHANGED <<single, stage, side>> /\ at[l] \in Busy
  BY <1>1, LaneForms
<1>. SUFFICES ASSUME ~single, stage \in {"retry", "retrying"}
     PROVE  Remaining' + bought' + Cardinality(FailedRetries')
              >= ReviewReserve + Cardinality(Unanswered')
  BY <1>2 DEF PairKeepsReserve
<1>3. stage = "retrying"
  BY <1>1, <1>2 DEF LanesPlaced, Busy, AtRest
<1>4. PICK n \in Nat, m \in Nat, f \in Nat, g \in Nat :
        /\ n = Cardinality(Unanswered) /\ m = Cardinality(Unanswered')
        /\ f = Cardinality(FailedRetries) /\ g = Cardinality(FailedRetries')
  <2>1. PairTypeOK' => /\ (Cardinality(Unanswered) \in Nat)'
                      /\ (Cardinality(FailedRetries) \in Nat)'
    BY ReviewSetsFinite, PTL
  <2>. QED  BY <1>1, <2>1, ReviewSetsFinite
<1>5. PICK x \in Int, y \in Int :
        /\ x = Remaining + bought /\ y = Remaining' + bought'
        /\ y >= x \/ (ReserveLane(l) /\ y >= x - Cost(l))
  BY LaneTakes
<1>6. x + f >= ReviewReserve + n
  BY <1>3, <1>4, <1>5 DEF PairKeepsReserve
<1>7. IsFiniteSet(Unanswered) /\ IsFiniteSet(FailedRetries)
  BY <1>1, ReviewSetsFinite
<1>8. /\ l \in PairFailures /\ l \in Sides \X Trials /\ l[2] # 0
      /\ Unanswered' \subseteq Unanswered \cup {l}
      /\ FailedRetries' = FailedRetries \/ WriteLane(l)
      /\ l \in Unanswered' => l \in Unanswered \/ WriteLane(l)
      /\ ReserveLane(l) => l \in Unanswered /\ l \notin Unanswered'
  BY <1>3, RetryNeeds
<1>9. /\ IsFiniteSet(Unanswered \cup {l})
      /\ Cardinality(Unanswered \cup {l}) <= n + 1
  <2>1. /\ IsFiniteSet(Unanswered \cup {l})
        /\ Cardinality(Unanswered \cup {l}) =
             IF l \in Unanswered THEN Cardinality(Unanswered)
                                 ELSE Cardinality(Unanswered) + 1
    BY <1>7, FS_AddElement
  <2>2. n <= n + 1
    OBVIOUS
  <2>. QED  BY <1>4, <2>1, <2>2
<1>10. m <= n + 1
  <2>1. m <= Cardinality(Unanswered \cup {l})
    BY <1>4, <1>8, <1>9, FS_Subset
  <2>2. Cardinality(Unanswered \cup {l}) \in Nat
    BY <1>9, FS_CardinalityType
  <2>. QED  BY <1>9, <2>1, <2>2
<1>11. Unanswered' \subseteq Unanswered => m <= n
  BY <1>4, <1>7, FS_Subset
<1>12. CASE WriteLane(l)
  <2>1. y >= x
    <3>1. ~ReserveLane(l)
      BY <1>12 DEF WriteLane, ReserveLane, NeedsJob, NoFileYet
    <3>. QED  BY <1>5, <3>1
  <2>2. CASE RetryAnswered(l)' /\ FailedRetries' = FailedRetries
    <3>1. at'[l] = "settle"
      BY <1>1, <1>12 DEF WriteLane, Moves, PairTypeOK
    <3>2. l \notin Unanswered'
      BY <2>2, <3>1 DEF Unanswered
    <3>3. m <= n /\ g = f
      BY <1>4, <1>8, <1>11, <2>2, <3>2
    <3>. QED  BY <1>4, <1>5, <1>6, <2>1, <3>3, SameNeeds, Sizes
  <2>3. CASE \E z : z \notin FailedRetries
                   /\ FailedRetries' = FailedRetries \cup {z}
    <3>1. g = f + 1
      BY <1>4, <1>7, <2>3, FS_AddElement
    <3>. QED  BY <1>4, <1>5, <1>6, <1>10, <2>1, <3>1, SameNeeds, Sizes
  <2>. QED  BY <1>8, <1>12, <2>2, <2>3, RetryWritten
<1>13. CASE ~WriteLane(l)
  <2>1. Unanswered' \subseteq Unanswered /\ g = f
    BY <1>4, <1>8, <1>13
  <2>2. CASE y >= x
    BY <1>4, <1>5, <1>6, <1>11, <2>1, <2>2, SameNeeds, Sizes
  <2>3. CASE ReserveLane(l) /\ y >= x - Cost(l)
    <3>1. Cost(l) = 1
      BY <1>8 DEF Cost
    <3>2. Unanswered' \subseteq Unanswered \ {l} /\ l \in Unanswered
      BY <1>8, <2>1, <2>3
    <3>3. /\ IsFiniteSet(Unanswered \ {l})
          /\ Cardinality(Unanswered \ {l}) = n - 1
      BY <1>4, <1>7, <3>2, FS_RemoveElement
    <3>4. m <= n - 1
      BY <1>4, <3>2, <3>3, FS_Subset
    <3>5. y >= x - 1
      BY <2>3, <3>1
    <3>. QED  BY <1>4, <1>5, <1>6, <2>1, <3>4, <3>5, SameNeeds, Sizes
  <2>. QED  BY <1>5, <2>2, <2>3
<1>. QED  BY <1>12, <1>13

(* The call's steps.  Where no lane is at work there is no screen to keep a *)
(* reserve for, and outside the retries of a pair none for these.           *)
LEMMA LanesOff ==
  ASSUME \A t \in Trials : at'[<<"candidate", t>>] = "off"
  PROVE  ScreenKeepsReserve'
BY DEF ScreenKeepsReserve, Trials

LEMMA NoRetries ==
  ASSUME stage' \notin {"retry", "retrying"} \/ single'
  PROVE  PairKeepsReserve'
BY DEF PairKeepsReserve

LEMMA SameReserve ==
  ASSUME UNCHANGED <<single, at, bought, held, spent>>
  PROVE  /\ ScreenKeepsReserve => ScreenKeepsReserve'
         /\ UNCHANGED <<stage, out, retries>> /\ PairKeepsReserve
              => PairKeepsReserve'
<1>1. Remaining' = Remaining /\ Beginning' = Beginning
  BY DEF Remaining, Beginning
<1>2. ScreenKeepsReserve => ScreenKeepsReserve'
  BY <1>1 DEF ScreenKeepsReserve, Trials
<1>3. ASSUME UNCHANGED <<stage, out, retries>>, PairKeepsReserve
      PROVE  PairKeepsReserve'
  <2>1. Unanswered' = Unanswered /\ FailedRetries' = FailedRetries
    BY <1>3 DEF Unanswered, PairFailures, Failed, RetryAnswered, ValidRetries,
       FailedRetries
  <2>. QED  BY <1>1, <1>3, <2>1 DEF PairKeepsReserve
<1>. QED  BY <1>2, <1>3

LEMMA CandidateTrials ==
  \A t \in Trials :
    <<"candidate", t>> \in Lanes /\ <<"candidate", t>> \notin Started
BY LanesOfSides DEF Sides

(* A pair whose retries are not at work needs a unit for each failure.      *)
LEMMA AllUnanswered ==
  (\A l \in Lanes : at[l] \in {"off", "begin"}) => Unanswered = PairFailures
BY FailuresAreTrials, LanesOfSides DEF Unanswered

LEMMA DecideKeepsReserve ==
  ASSUME PairIInv, DecideRetry
  PROVE  PairKeepsReserve'
<1>1. PairTypeOK /\ LanesPlaced /\ CallKnows
  BY DEF PairIInv
<1>2. /\ UNCHANGED <<at, bought, held, spent, out, retries>>
      /\ stage = "decide"
  BY DEF DecideRetry, ledger, disk
<1>. SUFFICES ASSUME stage' \in {"retry", "retrying"} PROVE PairKeepsReserve'
  BY DEF PairKeepsReserve
<1>3. Remaining >= Cardinality(PairFailures) + ReviewReserve
  BY <1>1, <1>2 DEF DecideRetry, CallKnows
<1>4. Unanswered = PairFailures
  BY <1>1, <1>2, AllUnanswered DEF LanesPlaced
<1>5. Unanswered' = Unanswered /\ FailedRetries' = FailedRetries
  BY <1>2 DEF Unanswered, PairFailures, Failed, RetryAnswered, ValidRetries,
     FailedRetries
<1>6. PICK r \in Int, b \in Nat, f \in Nat, n \in Nat :
        /\ r = Remaining /\ b = bought
        /\ f = Cardinality(FailedRetries) /\ n = Cardinality(Unanswered)
  <2>1. Remaining \in Int
    BY <1>1, Sizes DEF PairTypeOK, Remaining
  <2>. QED  BY <1>1, <2>1, ReviewSetsFinite DEF PairTypeOK
<1>7. r >= n + ReviewReserve
  BY <1>3, <1>4, <1>6
<1>8. r + b + f >= ReviewReserve + n
  BY <1>7, Sizes
<1>9. Remaining' = r
  BY <1>2, <1>6 DEF Remaining
<1>. QED  BY <1>2, <1>5, <1>6, <1>8, <1>9 DEF PairKeepsReserve

LEMMA TargetsKeepReserve ==
  ASSUME PairIInv, RetryTargets, PairKeepsReserve
  PROVE  ScreenKeepsReserve' /\ PairKeepsReserve'
<1>1. PairTypeOK /\ LanesPlaced /\ CallKnows
  BY DEF PairIInv
<1>2. /\ UNCHANGED <<single, bought, held, spent, out, retries>>
      /\ stage = "retry" /\ stage' = "retrying"
      /\ at' = [l \in Lanes |-> IF l \in {side} \X Failed(side)
                                  THEN "begin" ELSE "off"]
      /\ Remaining >= Cardinality(Failed(side)) + Reserve
  BY DEF RetryTargets, AnotherRound, RoundAffordable, ledger, disk
<1>3. Remaining' = Remaining
  BY <1>2 DEF Remaining
<1>4. PairKeepsReserve'
  <2>1. Unanswered = PairFailures
    BY <1>1, <1>2, AllUnanswered DEF LanesPlaced
  <2>2. PairFailures' = PairFailures /\ FailedRetries' = FailedRetries
    BY <1>2 DEF PairFailures, Failed, FailedRetries
  <2>3. \A l \in Lanes : at'[l] \in {"off", "begin"}
    BY <1>2
  <2>4. Unanswered' = PairFailures'
    BY <2>3, FailuresAreTrials, LanesOfSides, <2>2 DEF Unanswered
  <2>. QED  BY <1>2, <1>3, <2>1, <2>2, <2>4 DEF PairKeepsReserve
<1>5. ASSUME single
      PROVE  Remaining' + bought' >= ReviewReserve + Cardinality(Beginning')
  <2>1. Beginning' \subseteq {side} \X Failed(side)
    BY <1>2 DEF Beginning
  <2>2. IsFiniteSet(Failed(side)) /\ IsFiniteSet({side})
    <3>1. IsFiniteSet(Trials)
      BY Sizes, FS_Interval DEF Trials
    <3>2. side \in Sides
      BY <1>1 DEF PairTypeOK
    <3>. QED  BY <3>1, <3>2, FailuresAreTrials, FS_Subset, FS_Singleton
  <2>3. PICK n \in Nat : n = Cardinality(Failed(side))
    BY <2>2, FS_CardinalityType
  <2>4. /\ IsFiniteSet({side} \X Failed(side))
        /\ Cardinality({side} \X Failed(side)) = n
    <3>1. /\ IsFiniteSet({side} \X Failed(side))
          /\ Cardinality({side} \X Failed(side))
               = Cardinality({side}) * Cardinality(Failed(side))
      BY <2>2, FS_Product
    <3>2. Cardinality({side}) = 1
      BY FS_Singleton
    <3>. QED  BY <2>3, <3>1, <3>2
  <2>5. PICK c \in Nat : c = Cardinality(Beginning')
    BY <2>1, <2>4, FS_Subset, FS_CardinalityType
  <2>6. c <= n
    BY <2>1, <2>4, <2>5, FS_Subset
  <2>7. PICK r \in Int, b \in Nat : r = Remaining /\ b = bought
    <3>1. Remaining \in Int
      BY <1>1, Sizes DEF PairTypeOK, Remaining
    <3>. QED  BY <1>1, <3>1 DEF PairTypeOK
  <2>8. r >= n + ReviewReserve
    BY <1>2, <1>5, <2>3, <2>7 DEF Reserve
  <2>9. r + b >= ReviewReserve + c
    BY <2>6, <2>8, Sizes
  <2>10. Remaining' = r /\ bought' = b
    BY <1>2, <1>3, <2>7
  <2>. QED  BY <2>5, <2>9, <2>10
<1>. QED  BY <1>2, <1>4, <1>5 DEF ScreenKeepsReserve

(* What a merge leaves failed has not been answered.                        *)
LEMMA MergeKeepsReserve ==
  ASSUME PairIInv, PairIInv', MergeRetries, PairKeepsReserve
  PROVE  PairKeepsReserve'
<1>1. PairTypeOK /\ LanesPlaced
  BY DEF PairIInv
<1>2. /\ UNCHANGED <<single, bought, held, spent, retries>>
      /\ stage = "retrying" /\ stage' = "retry"
      /\ at' = [l \in Lanes |-> "off"]
      /\ out' = [out EXCEPT ![side] =
                   [t \in Trials |-> IF at[<<side, t>>] = "done"
                                       THEN Replacement(<<side, t>>)
                                       ELSE out[side][t]]]
  BY DEF MergeRetries, ledger
<1>3. \A l \in Lanes : at[l] \in {"off", "done"}
  BY DEF MergeRetries, LanesRest, SomeFailed, AtRest
<1>4. Unanswered' \subseteq Unanswered
  <2>. SUFFICES ASSUME NEW u \in Unanswered' PROVE u \in Unanswered
    OBVIOUS
  <2>1. u \in Sides \X Trials /\ u = <<u[1], u[2]>> /\ u[1] \in Sides
    BY FailuresAreTrials DEF Unanswered, PairFailures
  <2>2. out'[u[1]] # NoFile /\ ~out'[u[1]][u[2]].ok /\ u[2] \in Trials
    BY <2>1 DEF Unanswered, PairFailures, Failed
  <2>3. u \in Lanes
    BY <2>1, LanesOfSides
  <2>4. CASE u[1] # side
    <3>1. out'[u[1]] = out[u[1]]
      BY <2>1, <2>4, MergedFile
    <3>2. u \in PairFailures
      BY <2>1, <2>2, <3>1 DEF PairFailures, Failed
    <3>3. at[u] = "off"
      BY <1>1, <1>2, <2>3, <2>4 DEF LanesPlaced
    <3>. QED  BY <3>2, <3>3 DEF Unanswered
  <2>5. CASE u[1] = side
    <3>1. ~out[side][u[2]].ok /\ out[side] # NoFile
      BY <2>2, <2>5, MergedFile, FilesAreNotEmpty
    <3>2. u \in PairFailures
      BY <2>1, <2>2, <2>5, <3>1 DEF PairFailures, Failed
    <3>3. at[u] = "done" => ~RetryAnswered(u)
      <4>. SUFFICES ASSUME at[u] = "done", RetryAnswered(u) PROVE FALSE
        OBVIOUS
      <4>1. out'[side][u[2]] = Replacement(u)
        BY <1>1, <1>2, <2>1, <2>2, <2>5 DEF PairTypeOK
      <4>2. Replacement(u).ok
        BY DEF Replacement, RetryAnswered, ValidRetries
      <4>. QED  BY <2>2, <2>5, <4>1, <4>2
    <3>. QED  BY <1>3, <2>3, <3>2, <3>3 DEF Unanswered
  <2>. QED  BY <2>4, <2>5
<1>5. Remaining' = Remaining /\ FailedRetries' = FailedRetries
  BY <1>2 DEF Remaining, FailedRetries
<1>. SUFFICES ASSUME ~single
     PROVE  Remaining + bought + Cardinality(FailedRetries)
              >= ReviewReserve + Cardinality(Unanswered')
  BY <1>2, <1>5 DEF PairKeepsReserve
<1>6. PICK x \in Int, f \in Nat, n \in Nat, m \in Nat :
        /\ x = Remaining + bought /\ f = Cardinality(FailedRetries)
        /\ n = Cardinality(Unanswered) /\ m = Cardinality(Unanswered')
  <2>1. Remaining + bought \in Int
    BY <1>1, Sizes DEF PairTypeOK, Remaining
  <2>2. IsFiniteSet(Unanswered') /\ Cardinality(Unanswered') \in Nat
    BY <1>1, <1>4, ReviewSetsFinite, FS_Subset, FS_CardinalityType
  <2>. QED  BY <1>1, <2>1, <2>2, ReviewSetsFinite
<1>7. x + f >= ReviewReserve + n
  BY <1>2, <1>6 DEF PairKeepsReserve
<1>8. m <= n
  BY <1>1, <1>4, <1>6, ReviewSetsFinite, FS_Subset
<1>9. x + f >= ReviewReserve + m
  BY <1>7, <1>8, Sizes
<1>. QED  BY <1>6, <1>9

LEMMA CallKeepsReserve ==
  ASSUME PairIInv, PairIInv', ReviewIInv, CallStep
  PROVE  ReviewIInv'
<1>1. ScreenKeepsReserve /\ PairKeepsReserve
  BY DEF ReviewIInv
<1>2. CASE StartSides
  <2>1. /\ stage' = "pair"
        /\ at' = [l \in Lanes |-> IF l \in Started THEN "begin" ELSE "off"]
    BY <1>2 DEF StartSides
  <2>. QED  BY <2>1, CandidateTrials, LanesOff, NoRetries DEF ReviewIInv
<1>3. CASE CannotFund \/ CallRaises \/ FinishSingle \/ Annotate
  <2>1. /\ UNCHANGED <<single, at, bought, held, spent>>
        /\ \/ stage' \notin {"retry", "retrying"}
           \/ stage' = stage /\ stage = "annotate"
    BY <1>3 DEF CannotFund, CallRaises, FinishSingle, Annotate, ledger
  <2>. QED  BY <1>1, <2>1, SameReserve, NoRetries DEF ReviewIInv
<1>4. CASE SidesReturn
  <2>1. /\ at' = [l \in Lanes |-> "off"] /\ UNCHANGED single
        /\ stage' = IF single THEN "retry" ELSE "decide"
    BY <1>4 DEF SidesReturn
  <2>. QED  BY <2>1, CandidateTrials, LanesOff, NoRetries
             DEF ReviewIInv, PairKeepsReserve
<1>5. CASE DecideRetry
  <2>1. UNCHANGED <<single, at, bought, held, spent>>
    BY <1>5 DEF DecideRetry, ledger
  <2>. QED  BY <1>1, <1>5, <2>1, SameReserve, DecideKeepsReserve DEF ReviewIInv
<1>6. CASE RetryTargets
  BY <1>1, <1>6, TargetsKeepReserve DEF ReviewIInv
<1>7. CASE MergeRetries
  <2>1. at' = [l \in Lanes |-> "off"]
    BY <1>7 DEF MergeRetries
  <2>. QED
    BY <1>1, <1>7, <2>1, CandidateTrials, LanesOff, MergeKeepsReserve
    DEF ReviewIInv
<1>8. CASE RetriesEnd
  <2>1. /\ UNCHANGED <<single, at, bought, held, spent, out, retries>>
        /\ stage' = stage \/ stage' \notin {"retry", "retrying"}
    BY <1>8 DEF RetriesEnd, ledger, disk
  <2>. QED  BY <1>1, <2>1, SameReserve, NoRetries DEF ReviewIInv
<1>. QED
  BY <1>2, <1>3, <1>4, <1>5, <1>6, <1>7, <1>8 DEF CallStep

LEMMA ReviewIsKept ==
  PairIInv /\ PairIInv' /\ ReviewIInv /\ [Next]_vars => ReviewIInv'
<1>. SUFFICES ASSUME PairIInv, PairIInv', ReviewIInv, [Next]_vars
     PROVE  ReviewIInv'
  OBVIOUS
<1>1. CASE \E l \in Lanes : LaneStep(l)
  BY <1>1, LaneKeepsScreenReserve, LaneKeepsPairReserve DEF ReviewIInv
<1>2. CASE CallStep
  BY <1>2, CallKeepsReserve
<1>3. CASE Crash \/ Restart \/ \E s \in Sides : ScriptDies(s)
  <2>1. /\ stage' \in {"down", "idle"}
        /\ at' = [l \in Lanes |-> "off"] \/ UNCHANGED at
    BY <1>3 DEF Crash, Restart, ScriptDies, call
  <2>2. PairIInv' => (\A l \in Lanes : at'[l] = "off")
    BY <2>1 DEF PairIInv, LanesPlaced
  <2>. QED
    BY <2>1, <2>2, CandidateTrials, LanesOff, NoRetries DEF ReviewIInv
<1>4. CASE UNCHANGED vars
  <2>1. UNCHANGED <<single, at, bought, held, spent, stage, out, retries>>
    BY <1>4 DEF vars, call, ledger, disk
  <2>. QED  BY <2>1, SameReserve DEF ReviewIInv
<1>. QED  BY <1>1, <1>2, <1>3, <1>4 DEF Next

(* run_pair_from_main: what targeted retries take from the units of the     *)
(* review is nothing in a v0 screen, and in a pair at most a unit for each  *)
(* repair and each retry that failed, however many rounds and crashes.      *)
THEOREM RetriesSpareTheReview == Spec => []RetriesLeaveReview
<1>1. Init => ReviewIInv
  BY CandidateTrials DEF Init, ReviewIInv, ScreenKeepsReserve, PairKeepsReserve
<1>2. Spec => []ReviewIInv
  BY <1>1, ReviewIsKept, PairIsInductive, PTL DEF Spec
<1>3. PairIInv /\ ReviewIInv => RetriesLeaveReview
  <2>. SUFFICES ASSUME PairIInv, ReviewIInv PROVE RetriesLeaveReview
    OBVIOUS
  <2>1. PairTypeOK
    BY DEF PairIInv
  <2>2. PICK x \in Int, f \in Nat, b \in Nat, n \in Nat :
          /\ x = Remaining + bought /\ f = Cardinality(FailedRetries)
          /\ b = Cardinality(Beginning) /\ n = Cardinality(Unanswered)
    <3>1. Remaining + bought \in Int
      BY <2>1, Sizes DEF PairTypeOK, Remaining
    <3>. QED  BY <2>1, <3>1, ReviewSetsFinite
  <2>3. x >= ReviewReserve + b => x >= ReviewReserve
    BY Sizes
  <2>4. x + f >= ReviewReserve + n => x + f >= ReviewReserve
    BY Sizes
  <2>5. ReviewStaysAffordable
    BY <2>2, <2>3 DEF ReviewStaysAffordable, ReviewIInv, ScreenKeepsReserve
  <2>6. PairReserveLostToFailures
    BY <2>2, <2>4 DEF PairReserveLostToFailures, ReviewIInv, PairKeepsReserve
  <2>. QED  BY <2>5, <2>6 DEF RetriesLeaveReview
<1>. QED  BY <1>2, <1>3, PairIsInductive, PTL

-----------------------------------------------------------------------------
(* The units of a pair.                                                     *)
LEMMA LaneUsesMeter ==
  ASSUME NEW l \in Lanes, PairIInv, LaneStep(l)
  PROVE  Meter!Next \/ UNCHANGED <<held, spent>>
<1>0. /\ held \in Nat /\ spent \in Nat /\ Cost(l) \in Nat /\ Cost(l) > 0
      /\ Capacity \in Nat
  BY LaneOf, Sizes DEF PairIInv, PairTypeOK, Cost
<1>1. CASE ReserveLane(l)
  <2>1. /\ Cost(l) <= Capacity - held - spent
        /\ held' = held + Cost(l) /\ UNCHANGED spent
    BY <1>1 DEF ReserveLane, Remaining
  <2>. QED  BY <1>0, <2>1 DEF Meter!Next, Meter!Hold
<1>2. CASE LaunchLane(l)
  <2>1. /\ at[l] = "reserved"
        /\ held' = held - Cost(l) /\ spent' = spent + Cost(l)
    BY <1>2 DEF LaunchLane
  <2>2. stage # "down"
    BY <2>1 DEF PairIInv, LanesPlaced
  <2>3. held >= Cost(l)
    BY <2>1, <2>2, ReservedCovers DEF PairIInv
  <2>. QED  BY <1>0, <2>1, <2>3 DEF Meter!Next, Meter!Release
<1>3. CASE RepairLane(l)
  <2>1. Capacity - held - spent >= 1 /\ spent' = spent + 1 /\ UNCHANGED held
    BY <1>3 DEF RepairLane, Remaining
  <2>. QED  BY <1>0, <2>1 DEF Meter!Next, Meter!SpendDirectly
<1>. QED
  BY <1>1, <1>2, <1>3 DEF LaneStep, UseFile, RecoverKept, ReuseJob,
     LaneRefused, RunLane, LaneFails, RepairRefused, WriteLane, SettleLane,
     ledger

LEMMA StepUsesMeter ==
  PairIInv /\ [Next]_vars => [Meter!Next]_<<held, spent>>
<1>. SUFFICES ASSUME PairIInv, [Next]_vars
              PROVE  Meter!Next \/ UNCHANGED <<held, spent>>
  OBVIOUS
<1>0. /\ held \in Nat /\ spent \in Nat
      /\ Capacity \in Nat /\ NumTrials \in Nat /\ NumTrials > 0
  BY Sizes DEF PairIInv, PairTypeOK
<1>1. CASE \E l \in Lanes : LaneStep(l)
  BY <1>1, LaneUsesMeter
<1>2. CASE Restart
  BY <1>0, <1>2 DEF Restart, Meter!Next, Meter!Release
<1>3. CASE \E s \in Sides : ScriptDies(s)
  <2>1. /\ NumTrials <= Capacity - held - spent
        /\ spent' = spent + NumTrials /\ UNCHANGED held
    BY <1>3 DEF ScriptDies, Remaining
  <2>. QED  BY <1>0, <2>1 DEF Meter!Next, Meter!SpendDirectly
<1>. QED
  BY <1>1, <1>2, <1>3 DEF Next, CallStep, StartSides, CannotFund, CallRaises,
     SidesReturn, DecideRetry, RetryTargets, MergeRetries, RetriesEnd,
     FinishSingle, Annotate, Crash, ledger, vars

(* A pair implements the meter of held and spent units, which the ledger    *)
(* implements, too: for any number of trials, rounds and units, whatever    *)
(* the two threads, repairs, scripts and crashes do, the units suffice for  *)
(* what is held and spent.                                                  *)
THEOREM PairUsesMeter == Spec => UsesMeter
<1>1. Init => Meter!Init
  BY DEF Init, Meter!Init
<1>. QED  BY <1>1, PairIsInductive, StepUsesMeter, PTL
          DEF Spec, UsesMeter, Meter!Spec
=============================================================================
