----------------------------- MODULE MCGoalLoop -----------------------------
(***************************************************************************)
(* The plans GoalPlanner builds: its default routes, and those of a        *)
(* rag_optimization task, with the maxAttempts and budgets it sets; and a  *)
(* plan with a route above the budget, which a caller may put in the       *)
(* context.                                                                *)
(***************************************************************************)
EXTENDS GoalLoop

Route(id, cost, risk) == [id |-> id, cost |-> cost, risk |-> risk]

DefaultRoutes ==
  <<Route("direct_deliverable", 1, 1), Route("add_missing_content", 1, 1),
    Route("retry_with_more_detail", 2, 1)>>
RagRoutes ==
  <<Route("diagnose_recall", 2, 1), Route("answer_quality_review", 2, 1),
    Route("ask_for_scope_confirmation", 1, 2)>>
CostlyRoutes ==
  <<Route("direct_deliverable", 1, 1), Route("add_missing_content", 3, 1),
    Route("schema_repair", 1, 3), Route("fix_test_failure", 2, 2)>>

PlanWith(routes, max, cost) == [routes |-> routes, max |-> max, cost |-> cost, risk |-> cost]
AllPlans == {PlanWith(DefaultRoutes, 3, 2), PlanWith(RagRoutes, 4, 2),
             PlanWith(CostlyRoutes, 4, 2), PlanWith(CostlyRoutes, 4, 3)}
=============================================================================
