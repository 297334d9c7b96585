--------------------------- MODULE MCRolloutBatch ---------------------------
(* Three trials: one can be repaired while another is good, broken, torn or *)
(* missing.  The budget pays for two batches and one repair, so it runs out *)
(* within the bound on mishaps.                                             *)
EXTENDS RolloutBatch

AllKinds  == {"good", "broken", "infra"}
AllFaults == {"group", "guard", "repair"}
BothBases == {"rollout", "repair"}
=============================================================================
