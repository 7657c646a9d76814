---------------------------- MODULE OutputSchemas ----------------------------
(***************************************************************************)
(* Outputs of workflow nodes and the schemas they are checked against      *)
(* (core/SchemaValidator, for every node in WorkflowRuntime): what an llm  *)
(* node is told its answer looks like (core/OutputSchemaRegistry, in the   *)
(* prompt and in every repair prompt), and what the executors of the other *)
(* nodes make.  Each of the three is written by hand, by itself.           *)
(*                                                                         *)
(* A schema maps each field to the values it may have, "absent" among them *)
(* when it may be left out.  Abstracted: a text that is none of a few      *)
(* words is "text", a list is one of "texts" or of "items", an object is   *)
(* any "object" or one with what its own check wants ("full"); a field of  *)
(* a part, or of every item of a list, has the part's name in front.       *)
(***************************************************************************)
EXTENDS Sequences, TLC

CONSTANT NoAnswer

VARIABLE answer   \* of a node: [schema, fields, from], or NoAnswer

Of(values, fields) == [f \in fields |-> values]
Optional(schema) == [f \in DOMAIN schema |-> schema[f] \union {"absent"}]

Text(fields) == Of({"text"}, fields)
Texts(fields) == Of({"texts"}, fields)
Items(fields) == Of({"items"}, fields)
Flag(fields) == Of({"true", "false"}, fields)
Number(fields) == Of({"0", "1", "1.5", "3", "4"}, fields)

Levels == {"low", "medium", "high"}
LevelsOrUnknown == Levels \union {"unknown"}
Deliverables == {"answer", "analysis_report", "code_change_plan", "patch", "experiment_plan", "workflow_demo"}
Operations == {"modify_file", "create_file", "run_test", "inspect", "manual_review"}
TaskTypes == {"general_answer", "rag_optimization", "project_analysis", "coding_fix", "frontend_site_build",
              "external_project_fix", "unknown"}
NegotiatedTypes == {"rag_optimization", "coding_fix", "refactor", "documentation", "research", "unknown"}
ScopeLists == {"scope.allowedModules", "scope.forbiddenModules", "scope.allowedActions", "scope.blockedActions",
               "scope.qualityConstraints"}
TaskTexts == {"tasks.id", "tasks.title", "tasks.goal", "tasks.expectedOutput"}

-----------------------------------------------------------------------------
(* Told: getOutputSchemaShape, for the schemas of llm nodes.               *)

ShownPlan ==
  Text({"planId", "summary", "steps.id", "steps.action", "steps.expectedOutput"}) @@ Items({"steps"})
  @@ Texts({"risks", "successCriteria", "assumptions"})
  @@ Optional(Text({"taskUnderstanding", "proposedApproach", "deliverablePlan"}) @@ Of({"object"}, {"successCriteriaMapping"}))

ShownWork ==
  "ResearchReport" :>
    (Text({"summary", "recommendedNextStep"})
     @@ Texts({"knownFacts", "unknowns", "dependencies", "risks", "evidence"}))
  @@ "FeasibilityReport" :>
    (Of({"proceed", "proceed_with_risks", "revise_goal", "ask_human", "stop"}, {"decision"})
     @@ Of(LevelsOrUnknown, {"feasibility", "costLevel", "complexityLevel", "riskLevel"}) @@ Number({"confidence"})
     @@ Texts({"blockingIssues", "majorRisks", "missingInformation", "requiredResources", "alternativePlans"})
     @@ Text({"recommendedScope", "reason"}))
  @@ "Plan" :> ShownPlan
  @@ "Critique" :> (Texts({"issues", "risks", "missingRequirements", "suggestions"}) @@ Of(Levels, {"severity"}))
  @@ "RevisedPlan" :> (ShownPlan @@ Texts({"basedOnCritique", "revisionNotes"}))
  @@ "ExecutionResult" :>
    (Of({"success", "failed", "passed", "absent"}, {"status"}) @@ Of(Deliverables, {"deliverable.type"})
     @@ Text({"deliverable.content", "summary", "rawOutput"}) @@ Texts({"completedSteps", "artifacts", "errors"})
     @@ Optional(Texts({"evidenceOfCompletion", "limitations"})))
  @@ "VerificationReport" :>
    (Flag({"pass"}) @@ Number({"score"}) @@ Text({"reason", "feedbackToPlanner"}) @@ Texts({"failedCriteria"})
     @@ Of({"end", "replan", "retry_execute", "ask_human"}, {"nextAction"})
     @@ Optional(Flag({"deliverableExists", "answersUserRequest", "meetsSuccessCriteria", "isNotMetaOnly"})
                 @@ Texts({"missingRequirements", "failureCodes", "safetyFindings", "recommendedFixes"})
                 @@ Of({"object"}, {"evidence"})))

Shown ==
  ShownWork
  @@ "CorrectionHint" :>
    (Flag({"driftDetected"}) @@ Text({"originalGoalReminder"}) @@ Texts({"failedCriteria", "correctionInstructions"})
     @@ Of({"replan", "retry_execute", "ask_human"}, {"recommendedNextAction"}))
  @@ "SmokeTestResult" :> (Flag({"ok"}) @@ Text({"provider", "model", "message"}))

-----------------------------------------------------------------------------
(* SchemaValidator.validate, a function per schema.  A field that may be   *)
(* left out is tested with "in": one that is there and undefined is        *)
(* refused.                                                                *)

Lists(fields) == Of({"texts", "items"}, fields)
Anything(fields) == Of({"object", "full"}, fields)
Whole(fields) == Of({"1", "3", "4"}, fields)   \* Number.isInteger, at least 1

CheckedTasks ==
  "TaskBrief" :>
    (Text({"taskId", "goal", "userRequest", "deliverable.description", "currentState", "budget"})
     @@ Of(TaskTypes, {"taskType"}) @@ Of(Deliverables, {"deliverable.type"})
     @@ Lists({"constraints", "resources", "successCriteria", "nonGoals"})
     @@ Optional(Texts({"answerRequirements", "contentQualityCriteria"}) @@ Text({"rawUserInput"})))
  @@ "TaskNegotiationResult" :>
    (Text({"negotiationId", "understoodGoal", "reason", "createdAt"}
          \union TaskTexts)
     @@ Of(NegotiatedTypes, {"detectedTaskType"}) @@ Of(LevelsOrUnknown, {"complexity"})
     @@ Of(Levels, {"tasks.riskLevel"}) @@ Items({"tasks"}) @@ Flag({"readyToExecute"})
     @@ Lists({"ambiguities", "clarificationQuestions"} \union ScopeLists)
     @@ Of({"ask_human", "proceed_to_feasibility", "split_task", "stop"}, {"recommendedNextStep"})
     @@ Optional(Text({"targetModule"}) @@ Lists({"scope.allowedFiles", "scope.forbiddenFiles"})))

CheckedScopes ==
  "ConfirmedScopeGateResult" :>
    (Text({"gateId", "reason", "createdAt"}) @@ Flag({"allowed"}) @@ Of({"allowed", "blocked"}, {"status"})
     @@ Lists({"blockedReasons"}) @@ Optional(Text({"confirmationId", "negotiationId"}) @@ Anything({"confirmedScope"}))
     @@ Of({"proceed_to_feasibility", "ask_human", "revise_scope", "stop"}, {"recommendedNextStep"}))

CheckedPlan ==
  Text({"planId", "summary", "steps.id", "steps.action", "steps.expectedOutput"}) @@ Items({"steps"})
  @@ Lists({"risks", "successCriteria", "assumptions"})
  @@ Optional(Text({"taskUnderstanding", "proposedApproach", "deliverablePlan"}) @@ Anything({"successCriteriaMapping"}))

\* Faulty variant: a result must have a status, as if it were no option.
CheckedExecutionStrict ==
  Optional(Texts({"evidenceOfCompletion", "limitations"})
           @@ Of(Deliverables, {"deliverable.type"}) @@ Text({"deliverable.content"}))
  @@ Of({"success", "failed", "passed"}, {"status"})
  @@ Lists({"completedSteps", "artifacts", "errors"}) @@ Text({"summary", "rawOutput"})

CheckedExecution ==
  Optional(Of({"success", "failed", "passed"}, {"status"}) @@ Texts({"evidenceOfCompletion", "limitations"})
           @@ Of(Deliverables, {"deliverable.type"}) @@ Text({"deliverable.content"}))
  @@ Lists({"completedSteps", "artifacts", "errors"}) @@ Text({"summary", "rawOutput"})

CheckedVerification ==
  Flag({"pass"}) @@ Number({"score"}) @@ Lists({"failedCriteria"}) @@ Text({"reason", "feedbackToPlanner"})
  @@ Of({"end", "replan", "retry_execute", "ask_human"}, {"nextAction"})
  @@ Optional(Flag({"deliverableExists", "answersUserRequest", "meetsSuccessCriteria", "isNotMetaOnly"})
              @@ Texts({"missingRequirements", "failureCodes", "safetyFindings", "recommendedFixes"})
              @@ Anything({"evidence"}))

CheckedWork ==
  "ResearchReport" :>
    (Text({"summary", "recommendedNextStep"}) @@ Lists({"knownFacts", "unknowns", "dependencies", "risks", "evidence"}))
  @@ "FeasibilityReport" :>
    (Of({"proceed", "proceed_with_risks", "revise_goal", "ask_human", "stop"}, {"decision"}) @@ Number({"confidence"})
     @@ Of(LevelsOrUnknown, {"feasibility", "costLevel", "complexityLevel", "riskLevel"})
     @@ Lists({"blockingIssues", "majorRisks", "missingInformation", "requiredResources", "alternativePlans"})
     @@ Text({"recommendedScope", "reason"}))
  @@ "Plan" :> CheckedPlan
  @@ "Critique" :> (Lists({"issues", "risks", "missingRequirements", "suggestions"}) @@ Of(Levels, {"severity"}))
  @@ "RevisedPlan" :> (CheckedPlan @@ Lists({"basedOnCritique", "revisionNotes"}))
  @@ "ExecutionResult" :> CheckedExecution
  @@ "VerificationReport" :> CheckedVerification

CheckedOperations(part) ==
  Items({part}) @@ Text({part \o name : name \in {".id", ".description", ".reason"}})
  @@ Of(Operations, {part \o ".type"}) @@ Lists({part \o ".safetyConstraints"})
  @@ Optional(Text({part \o name : name \in {".targetFile", ".command", ".content"}}))

CheckedRepairs ==
  "ScopedRepairPlan" :>
    (Text({"planId", "summary", "rationale"}) @@ CheckedOperations("proposedOperations") @@ Of(Levels, {"riskLevel"})
     @@ Lists({"basedOnFailureCodes", "basedOnFailedCriteria", "targetFiles", "forbiddenFiles", "testCommands",
               "safetyNotes"}) @@ Flag({"requiresHumanApproval"}))
  @@ "HumanApprovalRequest" :>
    (Text({"approvalId", "summary", "repairPlanId", "createdAt"}) @@ Of({"pending"}, {"status"})
     @@ Of({"approve_scoped_repair_plan"}, {"requestedAction"}) @@ Of(Levels, {"riskLevel"})
     @@ Flag({"requiresHumanApproval", "blockedUntilApproved"}) @@ Lists({"approvalInstructions"}))
  @@ "CodeChangePlan" :>
    (Text({"planId", "repairPlanId", "approvalId", "summary", "createdAt"}) @@ Of({"materialized"}, {"status"})
     @@ CheckedOperations("operations") @@ Of(Levels, {"riskLevel"}) @@ Of({"false"}, {"executable"})
     @@ Lists({"targetFiles", "forbiddenFiles", "testCommands", "safetyChecks", "blockedOperations"})
     @@ Flag({"requiresExplicitExecutionApproval"}))

\* validateExecutionResult, validateVerificationReport and validateRollbackGuide check the parts.
CheckedRecord ==
  Text({"executionId", "codeChangePlanId", "approvalId", "codeChangePlanHash", "startedAt"})
  @@ Of({"true"}, {"hashMatched"}) @@ Of({"executed", "failed", "blocked"}, {"status"}) @@ Flag({"consumedApproval"})
  @@ Lists({"blockedReasons", "safetyFindings"})
  @@ Optional(Text({"finishedAt", "checkpointId", "guide.summary", "guide.rollbackId", "guide.checkpointId",
                    "guide.workspaceRoot", "guide.reason"})
              @@ Anything({"rollbackGuide"}) @@ Of({"full"}, {"codeExecutionResult", "testExecutionResult", "verification"})
              @@ Lists({"guide.changedFiles", "guide.suggestedCommands", "guide.manualSteps"})
              @@ Of({"false"}, {"guide.destructiveRollbackAvailable", "guide.destructiveRollbackPerformed"}))

CheckedExecutions ==
  "CodeChangePlanExecutionApprovalRequest" :>
    (Text({"approvalId", "codeChangePlanId", "codeChangePlanHash", "summary", "reason", "createdAt"})
     @@ Of({"pending", "approved", "rejected", "expired", "consumed"}, {"status"})
     @@ Of({"approve_code_change_plan_execution"}, {"requestedAction"}) @@ Of(Levels, {"riskLevel"})
     @@ Flag({"blockedUntilApproved", "requiresExplicitExecutionApproval"}) @@ Number({"operationsCount"})
     @@ Lists({"targetFiles", "testCommands"}) @@ Optional(Text({"expiresAt"})))
  @@ "CodeChangePlanDryRunExecutionPlan" :>
    (Text({"dryRunId", "codeChangePlanId", "codeChangePlanHash", "approvalId", "summary", "createdAt"})
     @@ Of({"approved"}, {"approvalStatus"}) @@ Of({"planned"}, {"status"}) @@ Of({"dry_run"}, {"mode"})
     @@ Of({"true"}, {"hashMatched", "requiresExecuteFlag", "requiresSeparateExecutionStep"})
     @@ Of({"false"}, {"would" \o what : what \in {"WriteFiles", "RunCommands", "RunTests", "CallCodeExecutor"}})
     @@ Of({"false"}, {"consumesApproval"}) @@ CheckedOperations("operations") @@ Of(Levels, {"riskLevel"})
     @@ Lists({"targetFiles", "expectedFilesChanged", "forbiddenFiles", "testCommands", "safetyChecks",
               "blockedReasons"}))
  @@ "CodeChangePlanExecutionRecord" :> CheckedRecord

CheckedGoals ==
  "CorrectionHint" :>
    (Flag({"driftDetected"}) @@ Text({"originalGoalReminder"}) @@ Lists({"failedCriteria", "correctionInstructions"})
     @@ Of({"replan", "retry_execute", "ask_human"}, {"recommendedNextAction"}))
  @@ "GoalExecutionPlan" :>
    (Text({"planId", "goal", "createdAt", "routes.routeId", "routes.summary", "routes.expectedOutcome"})
     @@ Lists({"successCriteria", "stopConditions", "escalationConditions", "routes.repairableFailureCodes"})
     @@ Of(Levels, {"costBudget", "riskBudget", "routes.costLevel", "routes.riskLevel"})
     @@ Items({"candidateRoutes"}) @@ Whole({"maxAttempts"}))
  @@ "AttemptDecision" :>
    (Of({"success", "retry", "revise_plan", "ask_human", "stop"}, {"decision"}) @@ Text({"reason", "createdAt"})
     @@ Lists({"blockedReasons"}) @@ Flag({"shouldUpdateMemory"})
     @@ Optional(Text({"nextRouteId", "attemptId", "routeId"}) @@ Anything({"failureAnalysis"})
                 @@ Number({"attemptNumber"})))
  @@ "SmokeTestResult" :> (Flag({"ok"}) @@ Text({"provider", "model", "message"}))

Checked == CheckedTasks @@ CheckedScopes @@ CheckedWork @@ CheckedRepairs @@ CheckedExecutions @@ CheckedGoals

-----------------------------------------------------------------------------
(* Made: by the executors of the other nodes.                              *)

MadeTasks ==
  "TaskBrief" :>
    (Text({"taskId", "goal", "userRequest", "deliverable.description", "currentState", "budget", "rawUserInput"})
     @@ Of(TaskTypes, {"taskType"}) @@ Of(Deliverables, {"deliverable.type"}) @@ Optional(Texts({"answerRequirements"}))
     @@ Texts({"contentQualityCriteria", "constraints", "resources", "successCriteria", "nonGoals"}))
  @@ "TaskNegotiationResult" :>
    (Text({"negotiationId", "understoodGoal", "reason", "createdAt"} \union TaskTexts)
     @@ Of(NegotiatedTypes, {"detectedTaskType"}) @@ Of(LevelsOrUnknown, {"complexity"})
     @@ Of(Levels, {"tasks.riskLevel"}) @@ Items({"tasks"})
     @@ Flag({"readyToExecute"}) @@ Texts({"ambiguities", "clarificationQuestions", "scope.forbiddenFiles"})
     @@ Texts(ScopeLists) @@ Optional(Text({"targetModule"}) @@ Texts({"scope.allowedFiles"}))
     @@ Of({"ask_human", "proceed_to_feasibility", "split_task", "stop"}, {"recommendedNextStep"}))
  @@ "ConfirmedScopeGateResult" :>
    (Text({"gateId", "reason", "createdAt"}) @@ Flag({"allowed"}) @@ Of({"allowed", "blocked"}, {"status"})
     @@ Texts({"blockedReasons"}) @@ Optional(Text({"confirmationId", "negotiationId"}) @@ Of({"full"}, {"confirmedScope"}))
     @@ Of({"proceed_to_feasibility", "stop", "ask_human"}, {"recommendedNextStep"}))

MadeOperations(part) ==
  Items({part}) @@ Text({part \o name : name \in {".id", ".description", ".reason"}})
  @@ Of({"inspect", "modify_file", "run_test", "manual_review"}, {part \o ".type"})
  @@ Texts({part \o ".safetyConstraints"}) @@ Optional(Text({part \o ".targetFile", part \o ".command"}))

MadeRepairs ==
  "ScopedRepairPlan" :>
    (Text({"planId", "summary", "rationale"}) @@ MadeOperations("proposedOperations") @@ Of(Levels, {"riskLevel"})
     @@ Texts({"basedOnFailureCodes", "basedOnFailedCriteria", "targetFiles", "forbiddenFiles", "testCommands",
               "safetyNotes"}) @@ Of({"true"}, {"requiresHumanApproval"}))
  @@ "HumanApprovalRequest" :>
    (Text({"approvalId", "summary", "repairPlanId", "createdAt"}) @@ Of({"pending"}, {"status"})
     @@ Of({"approve_scoped_repair_plan"}, {"requestedAction"}) @@ Of(Levels, {"riskLevel"})
     @@ Of({"true"}, {"requiresHumanApproval", "blockedUntilApproved"}) @@ Texts({"approvalInstructions"}))
  @@ "CodeChangePlan" :>
    (Text({"planId", "repairPlanId", "approvalId", "summary", "createdAt"}) @@ Of({"materialized"}, {"status"})
     @@ MadeOperations("operations") @@ Of(Levels, {"riskLevel"}) @@ Of({"false"}, {"executable"})
     @@ Texts({"targetFiles", "forbiddenFiles", "testCommands", "safetyChecks", "blockedOperations"})
     @@ Of({"true"}, {"requiresExplicitExecutionApproval"}))

MadeExecutions ==
  "CodeChangePlanExecutionApprovalRequest" :>
    (Text({"approvalId", "codeChangePlanId", "codeChangePlanHash", "summary", "reason", "createdAt"})
     @@ Of({"pending"}, {"status"}) @@ Of({"approve_code_change_plan_execution"}, {"requestedAction"})
     @@ Of(Levels, {"riskLevel"}) @@ Of({"true"}, {"blockedUntilApproved", "requiresExplicitExecutionApproval"})
     @@ Of({"0", "1"}, {"operationsCount"}) @@ Texts({"targetFiles", "testCommands"}))
  @@ "CodeChangePlanDryRunExecutionPlan" :>
    (Text({"dryRunId", "codeChangePlanId", "codeChangePlanHash", "approvalId", "summary", "createdAt"})
     @@ Of({"approved"}, {"approvalStatus"}) @@ Of({"planned"}, {"status"}) @@ Of({"dry_run"}, {"mode"})
     @@ Of({"true"}, {"hashMatched", "requiresExecuteFlag", "requiresSeparateExecutionStep"})
     @@ Of({"false"}, {"wouldWriteFiles", "wouldRunCommands", "wouldRunTests", "wouldCallCodeExecutor",
                       "consumesApproval"})
     @@ MadeOperations("operations") @@ Optional(Text({"operations.content"})) @@ Of(Levels, {"riskLevel"})
     @@ Texts({"targetFiles", "expectedFilesChanged", "forbiddenFiles", "testCommands", "safetyChecks",
               "blockedReasons"}))

MadeGoals ==
  "GoalExecutionPlan" :>
    (Text({"planId", "goal", "createdAt", "routes.routeId", "routes.summary", "routes.expectedOutcome"})
     @@ Texts({"successCriteria", "stopConditions", "escalationConditions", "routes.repairableFailureCodes"})
     @@ Of({"medium"}, {"costBudget", "riskBudget"}) @@ Of({"low", "medium"}, {"routes.costLevel", "routes.riskLevel"})
     @@ Items({"candidateRoutes"}) @@ Of({"3", "4"}, {"maxAttempts"}))
  @@ "AttemptDecision" :>
    (Of({"success", "retry", "ask_human", "stop"}, {"decision"}) @@ Text({"reason", "createdAt", "attemptId", "routeId"})
     @@ Texts({"blockedReasons"}) @@ Of({"true"}, {"shouldUpdateMemory"}) @@ Of({"1", "3", "4"}, {"attemptNumber"})
     @@ Optional(Text({"nextRouteId"}) @@ Of({"object"}, {"failureAnalysis"})))

Made == MadeTasks @@ MadeRepairs @@ MadeExecutions @@ MadeGoals

\* What an execution of an approved plan got to before it was refused, threw or ended.
Reached == {"refused", "no_result", "code", "tests", "verified"}

\* Faulty variant: every record gets a guide, and no key without a value.
MadeRecordGuided(reached, status) ==
  [f \in {"executionId", "codeChangePlanId", "approvalId", "codeChangePlanHash", "startedAt"} |-> "text"]
  @@ "hashMatched" :> "true" @@ "status" :> status @@ "consumedApproval" :> "true"
  @@ "rollbackGuide" :> "full" @@ [f \in {"blockedReasons", "safetyFindings"} |-> "texts"]

\* executeApprovedPlan, as ExecutionRecordStore.save hands it back: the guide is a key of
\* every saved record, the checkpoint and the root of every guide.
MadeRecord(reached, status) ==
  LET keep(value, stages) == IF reached \in stages THEN value ELSE "absent"
      known == IF reached \in {"refused", "no_result"} THEN "undefined" ELSE "text"
      guided == reached # "refused" IN
    [f \in {"executionId", "codeChangePlanId", "approvalId", "codeChangePlanHash", "startedAt", "finishedAt"} |-> "text"]
    @@ "hashMatched" :> "true" @@ "status" :> status @@ "consumedApproval" :> (IF guided THEN "true" ELSE "false")
    @@ "codeExecutionResult" :> keep("full", {"code", "tests", "verified"})
    @@ "testExecutionResult" :> keep("full", {"tests", "verified"}) @@ "verification" :> keep("full", {"verified"})
    @@ [f \in {"blockedReasons", "safetyFindings"} |-> "texts"]
    @@ "rollbackGuide" :> (IF guided THEN "full" ELSE "undefined")
    @@ "checkpointId" :> (IF guided THEN known ELSE "absent")
    @@ [f \in {"guide.checkpointId", "guide.workspaceRoot"} |-> IF guided THEN known ELSE "absent"]
    @@ [f \in {"guide.summary", "guide.rollbackId", "guide.reason"} |-> IF guided THEN "text" ELSE "absent"]
    @@ [f \in {"guide.changedFiles", "guide.suggestedCommands", "guide.manualSteps"} |-> IF guided THEN "texts" ELSE "absent"]
    @@ [f \in {"guide.destructiveRollbackAvailable", "guide.destructiveRollbackPerformed"} |->
          IF guided THEN "false" ELSE "absent"]

-----------------------------------------------------------------------------
SchemaInit == answer = NoAnswer

\* One value per field, and any one field with any of its values.
Answers(table, name, from) ==
  \E f \in DOMAIN table[name] : \E v \in table[name][f] :
    answer' = [schema |-> name, from |-> from,
               fields |-> [[g \in DOMAIN table[name] |-> CHOOSE w \in table[name][g] : TRUE] EXCEPT ![f] = v]]

AnswerAsTold == answer = NoAnswer /\ \E name \in DOMAIN Shown : Answers(Shown, name, "told")
AnswerAsMade == answer = NoAnswer /\ \E name \in DOMAIN Made : Answers(Made, name, "made")
ReturnRecord ==
  /\ answer = NoAnswer
  /\ \E reached \in Reached, status \in {"executed", "failed", "blocked"} :
       /\ status = "blocked" <=> reached = "refused"
       /\ status = "executed" => reached = "verified"
       /\ answer' = [schema |-> "CodeChangePlanExecutionRecord", from |-> reached, fields |-> MadeRecord(reached, status)]

SchemaNext == AnswerAsTold \/ AnswerAsMade \/ ReturnRecord

\* WorkflowRuntime validates what the executor of a node returned, before it is an output.
Accepted ==
  LET schema == Checked[answer.schema]
      value(f) == IF f \in DOMAIN answer.fields THEN answer.fields[f] ELSE "absent" IN
    \A f \in DOMAIN schema : value(f) \in schema[f]

SchemaSpec == SchemaInit /\ [][SchemaNext]_answer
-----------------------------------------------------------------------------
(* Properties.                                                             *)

\* A model that answers as it is told to is not refused, and neither is what an executor
\* makes: an attempt is lost only to an answer of another shape.
OutputsAreAccepted == answer # NoAnswer /\ answer.from \in {"told", "made"} => Accepted

\* The record of an execution passes its own schema exactly when the execution has got
\* a result from the code executor; one that was refused, or threw before that, is on disk
\* as such and its node fails.
RecordsPassWithResult ==
  answer # NoAnswer /\ answer.from \in Reached =>
    (Accepted <=> answer.from \in {"code", "tests", "verified"})
=============================================================================
