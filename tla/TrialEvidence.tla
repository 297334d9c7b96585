---------------------------- MODULE TrialEvidence ----------------------------
(* What a rollout promises of the trials of one label, over all calls of    *)
(* run_version and all crashes: a trial is retained once, only a broken     *)
(* trace is ever replaced, and the result file is written once, whole, when *)
(* the evidence is final.  RolloutBatch is shown to implement this.         *)
CONSTANT Trials

VARIABLES
  evidence,  \* the retained trajectories
  file       \* the trials of the result file

Nothing == [t \in Trials |-> "missing"]

Init == evidence = Nothing /\ file = Nothing

Put(t, kind) == evidence' = [evidence EXCEPT ![t] = kind]

Retain(t) ==
  /\ evidence[t] = "missing"
  /\ \E kind \in {"good", "broken", "infra"} : Put(t, kind)

(* A worker failure is a result of a repair, but not a reason for one.      *)
Repair(t) ==
  /\ evidence[t] = "broken"
  /\ \E kind \in {"good", "infra"} : Put(t, kind)

(* The process died while it wrote; such a label is never completed.        *)
Tear(t) == evidence[t] \in {"missing", "broken"} /\ Put(t, "torn")

Gather ==
  /\ file = Nothing /\ UNCHANGED file
  /\ \E t \in Trials : Retain(t) \/ Repair(t) \/ Tear(t)

(* An incomplete trace is let through next to a worker failure only: the    *)
(* batch is invalid then.                                                   *)
Publish ==
  /\ file = Nothing
  /\ \A t \in Trials : evidence[t] \notin {"missing", "torn"}
  /\ (\E t \in Trials : evidence[t] = "broken") =>
        \E t \in Trials : evidence[t] = "infra"
  /\ file' = evidence /\ UNCHANGED evidence

Next == Gather \/ Publish

Spec == Init /\ [][Next]_<<evidence, file>>
=============================================================================
