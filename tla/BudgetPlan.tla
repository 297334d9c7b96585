------------------------------ MODULE BudgetPlan ------------------------------
(***************************************************************************)
(* The plan of an iteration's rollout, from the creations that remain: the *)
(* cost functions and build_rollout_budget_plan of main_agent.py.          *)
(***************************************************************************)
EXTENDS Naturals, FiniteSetsExt

CONSTANTS
  RolloutRepeats,    \* TRAIN_ROLLOUT_REPEATS
  PreflightCost,     \* PREFLIGHT_CREATION_COST
  RetryBuffer,       \* ITERATION_RETRY_BUFFER_CREATIONS
  MinStandard,       \* MIN_STANDARD_ROLLOUT_TASKS
  DefaultTasks,      \* DEFAULT_EXPLORATION_ROLLOUT_TASKS
  Confirming         \* whether confirmation_mode() is "always"

ASSUME CostAssumption ==
  /\ RolloutRepeats \in Nat \ {0} /\ PreflightCost \in Nat
  /\ RetryBuffer \in Nat /\ MinStandard \in Nat \ {0}
  /\ DefaultTasks \in Nat /\ DefaultTasks >= MinStandard
  /\ Confirming \in BOOLEAN

\* Two sessions for each comparison group of three tasks
ComparisonCost(n) == ((n + 2) \div 3) * 2

\* paired_screen_creation_cost: the baseline has its trials already.
ScreenCost(n, ofBaseline) ==
  2 + PreflightCost + n * RolloutRepeats
    + (IF ofBaseline THEN 0 ELSE n * RolloutRepeats)
    + ComparisonCost(n) + 2 + 1

\* paired_confirmation_creation_cost
ConfirmCost(n) == n * RolloutRepeats * 2 + ComparisonCost(n) + 2 + 1

CycleCost(n, ofBaseline) ==
  ScreenCost(n, ofBaseline) + (IF Confirming THEN ConfirmCost(n) ELSE 0)

\* A screen alone or the whole cycle
CostOf(n, ofBaseline, whole) ==
  IF whole THEN CycleCost(n, ofBaseline) ELSE ScreenCost(n, ofBaseline)

\* A mutant: the loop starts after the smallest screen.
LimitAboveMinimum(remaining, cap, ofBaseline, whole) ==
  Max({0} \union {n \in (MinStandard + 1)..cap :
                    CostOf(n, ofBaseline, whole) + RetryBuffer <= remaining})

\* max_affordable; costs grow with n, so the loop's break loses nothing.
Affordable(remaining, cap, ofBaseline, whole) ==
  Max({0} \union {n \in MinStandard..cap :
                    CostOf(n, ofBaseline, whole) + RetryBuffer <= remaining})

AtMostDefault(n) == IF n > DefaultTasks THEN DefaultTasks ELSE n

\* The screen another batch would need, when it fits beside this cycle
FutureReserve(remaining, ofBaseline, batches, limit) ==
  LET next == ScreenCost(MinStandard, ofBaseline) + RetryBuffer
  IN  IF /\ batches > 1
         /\ remaining >= CycleCost(limit, ofBaseline) + RetryBuffer + next
        THEN next ELSE 0

\* build_rollout_budget_plan
RolloutPlan(remaining, ofBaseline, batches, cap) ==
  LET confirmable ==
        AtMostDefault(Affordable(remaining, cap, ofBaseline, TRUE))
      screenable ==
        AtMostDefault(Affordable(remaining, cap, ofBaseline, FALSE))
  IN  IF confirmable # 0 THEN
        [mode |-> "standard", limit |-> confirmable,
         reserved |-> FutureReserve(remaining, ofBaseline, batches,
                                    confirmable)]
      ELSE IF screenable # 0 THEN
        [mode |-> "terminal_screen", limit |-> screenable, reserved |-> 0]
      ELSE [mode |-> "stop", limit |-> 0, reserved |-> 0]
=============================================================================
