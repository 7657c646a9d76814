------------------------- MODULE MCWorkflowRuntime --------------------------
(***************************************************************************)
(* A workflow template for WorkflowRuntime with a self loop, a shared      *)
(* output key, conditions of every type and nodes whose edges do not cover *)
(* their outputs.                                                          *)
(***************************************************************************)
EXTENDS WorkflowRuntime

Edge(from, to, when) == [from |-> from, to |-> to, when |-> when]
Always == [type |-> "always"]
In(key, values_) == [type |-> "in", key |-> key, in |-> values_]
Exists(key) == [type |-> "exists", key |-> key]
NotExists(key) == [type |-> "notExists", key |-> key]
Any == {"ok"}

PartialKey == <<"plan", "revisedPlan", "plan", "verification">>
PartialValid == <<{"short", "long"}, Any, {"long", "none"}, {"pass", "fail"}>>
PartialEdges ==
  <<Edge(1, 2, In("plan", {"long"})), Edge(1, 1, Always),
    Edge(2, 3, NotExists("verification")), Edge(2, 4, In("plan", {"long"})),
    Edge(3, 4, Exists("verification")), Edge(3, 2, In("plan", {"long"})),
    Edge(3, 4, In("plan", {"none"})),
    Edge(4, 1, In("verification", {"fail"}))>>
=============================================================================
