---------------------------- MODULE RepairPipeline ----------------------------
(***************************************************************************)
(* From a failed verification to a dry run (core/repair): a scoped repair  *)
(* plan, a person's decision on it, the CodeChangePlan materialized from   *)
(* it, a person's decision on its execution, and the dry run.  Each is a   *)
(* workflow run of its own, and JSON files carry the documents from one to *)
(* the next: a verification may fail again, or a document be edited,       *)
(* between any two.  Execution itself is CodeChangeExecution.              *)
(*                                                                         *)
(* Abstracted: an identifier that the code hashes is the tuple of what it  *)
(* is hashed from, and the hash of a plan is the record it is taken of.    *)
(***************************************************************************)
EXTENDS Integers, FiniteSets

CONSTANTS
  Reports,       \* failed reports: [codes, changed, deleted, findings, allowed, commands]
  DroppedFiles,  \* files isForbiddenFile drops from the targets
  SensitivePaths,  \* files SENSITIVE_PATH_PATTERN matches
  AlwaysForbidden,  \* ".env", ".env.local", ...
  OutsideFiles,  \* paths outside the project root
  UnsafeCommands,
  Bodies,        \* contents a person may give the operations
  Nothing,
  MaxApprovals,  \* bound on the decisions of either kind
  MaxClock       \* bound on time

VARIABLES
  scopedPlan, repairApproval,
  changePlan, execRequest, execApproval,
  dryRun,
  approvals,   \* decisions taken so far
  clock

repairVars == <<scopedPlan, repairApproval, changePlan, execRequest, execApproval, dryRun,
                approvals, clock>>

RepairInit ==
  /\ scopedPlan = Nothing /\ repairApproval = Nothing /\ changePlan = Nothing
  /\ execRequest = Nothing /\ execApproval = Nothing /\ dryRun = Nothing
  /\ approvals = 0 /\ clock = 0

-----------------------------------------------------------------------------
(* RepairPlanBuilder.                                                      *)

Targets(e) == (e.changed \union e.allowed) \ DroppedFiles

RiskLevel(e) ==
  IF e.findings # {} \/ e.deleted # {}
     \/ e.codes \intersect {"unsafe_file_touched", "file_deleted", "operation_blocked"} # {} THEN "high"
  ELSE IF e.codes \intersect {"unexpected_files_changed", "diff_too_large", "patch_too_large"} # {}
       THEN "medium" ELSE "low"

Op(type, on) == [type |-> type, on |-> on]

Operations(e) ==
  LET ops == {Op("inspect", Nothing) : c \in e.codes \intersect {"test_failed", "success_criteria_failed"}}
               \union {Op("modify_file", f) : f \in Targets(e)}
               \union {Op("run_test", c) : c \in e.commands} IN
    IF ops = {} THEN {Op("manual_review", Nothing)} ELSE ops

\* The planId covers the failure codes and the targets, not the test commands.
PlanOf(e) ==
  [planId |-> <<e.codes, Targets(e)>>, codes |-> e.codes, targets |-> Targets(e),
   forbidden |-> e.deleted \union e.findings \union AlwaysForbidden,
   ops |-> Operations(e), commands |-> e.commands, risk |-> RiskLevel(e)]

-----------------------------------------------------------------------------
(* The checks of the materializer, the approval gate and the dry run.      *)

OperationAllowed(op, plan) ==
  /\ op.type = "modify_file" => op.on \in plan.targets \ (plan.forbidden \union SensitivePaths)
  /\ op.type = "run_test" => op.on \in plan.commands \ UnsafeCommands

Live(approval) == approval.status = "approved" /\ (approval.expires # Nothing => clock < approval.expires)

\* Faulty variant: an operation on a forbidden file is skipped and the rest kept.
MaterializesPartly ==
  /\ Live(repairApproval) /\ repairApproval.planId = scopedPlan.planId
  /\ \E op \in scopedPlan.ops : OperationAllowed(op, scopedPlan)

\* Faulty variant: an approval is good for whatever plan came last.
MaterializesAny ==
  /\ Live(repairApproval)
  /\ \A op \in scopedPlan.ops :
       OperationAllowed(op, scopedPlan) /\ ~(op.type = "modify_file" /\ op.on \in OutsideFiles)

\* Neither assertApprovalCanMaterialize nor materializeOperation throws.
Materializes ==
  /\ Live(repairApproval) /\ repairApproval.planId = scopedPlan.planId
  /\ \A op \in scopedPlan.ops :
       OperationAllowed(op, scopedPlan) /\ ~(op.type = "modify_file" /\ op.on \in OutsideFiles)

\* The gate's and the dry run's own check of a plan.
PlanAccepted(plan) == plan.ops # {} /\ \A op \in plan.ops : OperationAllowed(op, plan)

\* Faulty variant: the hash leaves the operations' contents out.
HashWithoutBody(plan) == [plan EXCEPT !.approvalId = Nothing, !.body = Nothing]

\* Everything of the plan but the approvalId and the time it was made.
Hash(plan) == [plan EXCEPT !.approvalId = Nothing]

-----------------------------------------------------------------------------
\* A verification fails, maybe again, and its run ends with a plan.
BuildPlan(e) ==
  /\ scopedPlan' = PlanOf(e)
  /\ UNCHANGED <<repairApproval, changePlan, execRequest, execApproval, dryRun, approvals, clock>>

Expiries == {Nothing, clock, clock + 1}

DecideRepair(status, expires) ==
  /\ scopedPlan # Nothing /\ approvals < MaxApprovals
  /\ approvals' = approvals + 1
  /\ repairApproval' = [approvalId |-> approvals, planId |-> scopedPlan.planId,
                        status |-> status, expires |-> expires, plan |-> scopedPlan]
  /\ UNCHANGED <<scopedPlan, changePlan, execRequest, execApproval, dryRun, clock>>

Materialize ==
  /\ scopedPlan # Nothing /\ repairApproval # Nothing
  /\ Materializes
  /\ changePlan' = [planId |-> <<scopedPlan.planId, repairApproval.approvalId, Cardinality(scopedPlan.ops)>>,
                    approvalId |-> repairApproval.approvalId, body |-> Nothing,
                    ops |-> scopedPlan.ops, targets |-> scopedPlan.targets,
                    forbidden |-> scopedPlan.forbidden, commands |-> scopedPlan.commands,
                    risk |-> scopedPlan.risk,
                    approved |-> repairApproval.plan]
  /\ UNCHANGED <<scopedPlan, repairApproval, execRequest, execApproval, dryRun, approvals, clock>>

\* A materialized plan says which files to modify: a person writes what into them.
FillIn(body) ==
  /\ changePlan # Nothing /\ changePlan.body # body
  /\ changePlan' = [changePlan EXCEPT !.body = body]
  /\ UNCHANGED <<scopedPlan, repairApproval, execRequest, execApproval, dryRun, approvals, clock>>

RequestExecution ==
  /\ changePlan # Nothing
  /\ PlanAccepted(changePlan)
  /\ execRequest' = [planId |-> changePlan.planId, hash |-> Hash(changePlan), plan |-> changePlan]
  /\ UNCHANGED <<scopedPlan, repairApproval, changePlan, execApproval, dryRun, approvals, clock>>

DecideExecution(status, expires) ==
  /\ execRequest # Nothing /\ approvals < MaxApprovals
  /\ approvals' = approvals + 1
  /\ execApproval' = [approvalId |-> approvals, planId |-> execRequest.planId, hash |-> execRequest.hash,
                      status |-> status, expires |-> expires, plan |-> execRequest.plan]
  /\ UNCHANGED <<scopedPlan, repairApproval, changePlan, execRequest, dryRun, clock>>

DryRun ==
  /\ changePlan # Nothing /\ execApproval # Nothing
  /\ execApproval.planId = changePlan.planId /\ Live(execApproval)
  /\ PlanAccepted(changePlan)
  /\ Hash(changePlan) = execApproval.hash
  /\ dryRun' = [plan |-> changePlan, approval |-> execApproval, at |-> clock]
  /\ UNCHANGED <<scopedPlan, repairApproval, changePlan, execRequest, execApproval, approvals, clock>>

Tick ==
  /\ clock < MaxClock /\ clock' = clock + 1
  /\ UNCHANGED <<scopedPlan, repairApproval, changePlan, execRequest, execApproval, dryRun, approvals>>

Decisions == {"approved", "rejected"}

RepairNext ==
  \/ \E e \in Reports : BuildPlan(e)
  \/ \E status \in Decisions, expires \in Expiries :
       DecideRepair(status, expires) \/ DecideExecution(status, expires)
  \/ Materialize
  \/ \E body \in Bodies : FillIn(body)
  \/ RequestExecution
  \/ DryRun
  \/ Tick

RepairSpec == RepairInit /\ [][RepairNext]_repairVars
-----------------------------------------------------------------------------
(* Properties.                                                             *)

\* What a person approved bounds what comes of it, over both approvals: a
\* materialized plan modifies the files of an approved repair plan and no other,
\* and a dry run is of the very plan whose execution was asked for, contents
\* included, under an approval that was neither rejected nor expired.
ApprovalsBoundPlans ==
  /\ changePlan # Nothing =>
       /\ {op.on : op \in {o \in changePlan.ops : o.type = "modify_file"}} = changePlan.approved.targets
       /\ changePlan.planId[1] = changePlan.approved.planId
  /\ dryRun # Nothing =>
       /\ dryRun.approval.status = "approved"
       /\ dryRun.approval.expires = Nothing \/ dryRun.at < dryRun.approval.expires
       /\ dryRun.plan.ops = dryRun.approval.plan.ops /\ dryRun.plan.body = dryRun.approval.plan.body
       /\ dryRun.plan.targets = dryRun.approval.plan.targets
       /\ dryRun.plan.commands = dryRun.approval.plan.commands

\* The stages agree on what is safe: whatever is materialized, the gate and the dry
\* run accept, and it touches nothing sensitive, deleted or outside the project.
StagesAgree ==
  changePlan # Nothing =>
    /\ PlanAccepted(changePlan)
    /\ \A op \in changePlan.ops : op.type = "modify_file" =>
         op.on \notin SensitivePaths \union changePlan.forbidden \union OutsideFiles
=============================================================================
