------------------------ MODULE MCCodeChangeExecution ------------------------
(***************************************************************************)
(* A workspace for CodeChangeExecution: the calculator of the repository's *)
(* e2e fixture, a note that is to be created, a helper that the task does  *)
(* not allow to change, and a secret.                                      *)
(***************************************************************************)
EXTENDS CodeChangeExecution, TLC

ProjectFiles == {"calculator", "note", "helper", "secret"}
SecretFiles == {"secret"}
PlainWords == [f \in ProjectFiles |-> {}]

AllContents == {"old", "new", "mine", "large"}

Op(kind, file, content) == [kind |-> kind, file |-> file, content |-> content]
PlanOf(ops, targets, listed) ==
  [ops |-> ops, targets |-> targets, forbidden |-> {}, listed |-> listed, ready |-> TRUE]

FixPlan ==
  PlanOf(<<Op("modify", "calculator", "new"), Op("create", "note", "new")>>, {"calculator", "note"}, TRUE)
HelperPlan ==
  PlanOf(<<Op("modify", "helper", "new"), Op("modify", "calculator", "new")>>,
         {"calculator", "helper"}, TRUE)
UnlistedPlan == PlanOf(<<Op("modify", "calculator", "new")>>, {"calculator"}, FALSE)
SecretPlan == PlanOf(<<Op("modify", "secret", "new")>>, {"secret"}, TRUE)
LargePlan == PlanOf(<<Op("modify", "calculator", "large")>>, {"calculator"}, TRUE)

AllPlans == {FixPlan, HelperPlan, UnlistedPlan, SecretPlan}
SerialPlans == {FixPlan, UnlistedPlan, SecretPlan}
OnlyLarge == {LargePlan}

Content(changes) ==
  [f \in ProjectFiles |-> IF f \in DOMAIN changes THEN changes[f] ELSE IF f = "note" THEN Absent ELSE "old"]
Clean == {Content(<< >>)}
MaybeDirty == {Content(<< >>), Content("calculator" :> "mine"), Content("note" :> "mine")}

\* codingTaskContext of ExternalProjectWorkspaceRunner: 20,000 characters.
FixTask ==
  [allowed |-> {"calculator", "note"}, maxFiles |-> 2, maxPatch |-> 20, mayDelete |-> FALSE,
   criteria |-> {[asks |-> {"test"}, words |-> {}]}]

Symmetry == Permutations(Runs)

Sizes == [c \in {"old", "new", "mine", Absent, Torn} |-> 1] @@ ("large" :> 30)
=============================================================================
