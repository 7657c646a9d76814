---------------------------- MODULE MCComponents ----------------------------
(***************************************************************************)
(* The components that work alone, each from its own initial state: a      *)
(* behaviour picks one of them and is a behaviour of that one.  Their      *)
(* instances are small and have nothing in common but model values.        *)
(***************************************************************************)
EXTENDS MCGoalLoop, ExternalProject, Approvals, NativePack, LlmRequest, OpenCodeEntry, MCCatalogs, Verdict, TLC

CONSTANTS App, PatchTool, Secret,  \* the files of the small project
          LocalEnv, Built,         \* its .env.local, and a file that git ignores
          Readers

-----------------------------------------------------------------------------
(* The project whose changes are verified, exported and repaired.          *)

SourceFiles == {App, PatchTool, Secret}
ProjectFiles == SourceFiles \union {LocalEnv, Built}
SecretFiles == {Secret}
SecretAndLocal == {Secret, LocalEnv}
BuiltFiles == {Built}
NoneOrLocal == {{}, {LocalEnv}}
NamedWords == [f \in ProjectFiles |-> IF f = PatchTool THEN {"patch"} ELSE {}]

FullTree == [f \in ProjectFiles |-> "old"]
WithoutTool == [FullTree EXCEPT ![PatchTool] = Absent, ![LocalEnv] = Absent]
SourceTrees == {FullTree, WithoutTool, [WithoutTool EXCEPT ![App] = Absent]}

\* A test command leaves nothing, deletes a file, or writes one.
TestEffects == {<< >>} \union {[g \in {f} |-> c] : f \in ProjectFiles, c \in {Absent, "other", "binary"}}
AllowedFiles == {App, PatchTool}

\* A success has neither a refusal nor a failed command, and what the executor changed or
\* found deleted is part of the diff.
Consistent(c) ==
  /\ c.refused \/ c.failedCommand => c.status = "failed"
  /\ c.byExecutor \subseteq c.changed /\ c.deleted \subseteq c.changed

ResultsOfCode ==
  {c \in [status : {"success", "failed"}, refused : BOOLEAN, failedCommand : BOOLEAN,
          byExecutor : SUBSET SourceFiles, changed : SUBSET SourceFiles,
          deleted : {{}} \union {{f} : f \in SourceFiles}, patch : {1, 3}] : Consistent(c)}

CodingTasks ==
  [allowed : {{}, AllowedFiles} \union {{f} : f \in AllowedFiles}, maxFiles : {1, NoLimit},
   maxPatch : {2, NoLimit}, mayDelete : BOOLEAN,
   criteria : {{}, {[asks |-> a, words |-> {}] : a \in {{"test"}, {"trace"}, {"file"}}}}]

-----------------------------------------------------------------------------
(* Failed reports to be repaired.                                          *)

Report(failed, changed, deleted, findings, commands) ==
  [codes |-> failed, changed |-> changed, deleted |-> deleted, findings |-> findings,
   allowed |-> {"app"}, commands |-> commands]

FailedReports ==
  {Report({"test_failed"}, {"app"}, {}, {}, {"npm test"}),
   Report({"test_failed"}, {"app"}, {}, {}, {"npm test", "npm test; x"}),
   Report({"test_failed"}, {"app"}, {}, {}, {"npm test", "npm lint"}),
   Report({"unexpected_files_changed"}, {"app", ".env.local", "cert.pem"}, {}, {}, {}),
   Report({"file_deleted"}, {"lib"}, {"lib"}, {"cert.pem"}, {}),
   Report({"test_failed"}, {"../x"}, {}, {}, {})}

-----------------------------------------------------------------------------
(* Environments of an llm node.                                            *)

LlmVariables == {"DEEPSEEK_API_KEY", "AGENTFLOW_LLM_API_KEY", "OPENAI_API_KEY",
                 "AGENTFLOW_LLM_BASE_URL", "OPENAI_BASE_URL", "AGENTFLOW_LLM_MODEL"}
Environments == [provider : {"deepseek", "openai-compatible", "mock"}, set : SUBSET LlmVariables]

-----------------------------------------------------------------------------
(* Workflows of a native pack.                                             *)

Workflows == {<<"Planner", "Debater">>, <<"Verifier", "Executor">>}

-----------------------------------------------------------------------------
(* The shipped research-feasibility template, with an output per value its *)
(* schemas let the tested field take, run by WorkflowRuntime.              *)

VARIABLES runPc, runNode, runOutput, runValues, runIteration, runHistory, runTrace, runRecords,
          runCalls, runStop, runDisk, runSaved, runFaults

AnyOutput == {"ok"}
FeasibilityKey == <<"researchReport", "feasibilityReport", "plan", "critique", "revisedPlan",
                    "executionResult", "verification", "correctionHint">>
FeasibilityValid ==
  <<AnyOutput, {"proceed", "proceed_with_risks", "revise_goal", "ask_human", "stop"},
    AnyOutput, AnyOutput, AnyOutput, AnyOutput, {"pass", "fail"}, AnyOutput>>

To(from, to) == [from |-> from, to |-> to, when |-> [type |-> "always"]]
ToIf(from, to, key, values) ==
  [from |-> from, to |-> to, when |-> [type |-> "in", key |-> key, in |-> values]]
FeasibilityEdges ==
  <<To(1, 2), ToIf(2, 3, "feasibilityReport", {"proceed", "proceed_with_risks"}),
    ToIf(2, 0, "feasibilityReport", {"stop", "ask_human", "revise_goal"}),
    To(3, 4), To(4, 5), To(5, 6), To(6, 7),
    ToIf(7, 0, "verification", {"pass"}), ToIf(7, 8, "verification", {"fail"}), To(8, 5)>>

Shipped == INSTANCE WorkflowRuntime
  WITH N <- 8, Start <- 1, Edges <- FeasibilityEdges, Key <- FeasibilityKey, Valid <- FeasibilityValid,
       MaxIterations <- 3, Llm <- {}, Null <- None, MaxFaults <- 1,
       pc <- runPc, current <- runNode, output <- runOutput, values <- runValues,
       iteration <- runIteration, history <- runHistory, trace <- runTrace, records <- runRecords,
       calls <- runCalls, stop <- runStop, disk <- runDisk, saved <- runSaved, faults <- runFaults

-----------------------------------------------------------------------------
VARIABLE answer

Schemas == INSTANCE OutputSchemas WITH NoAnswer <- None

-----------------------------------------------------------------------------
(* Tasks that are negotiated.                                              *)

TaskWords == {{}, {"rag"}, {"doc"}, {"fix", "doc"}, {"rename", "wide"}, {"large"}, {"optimize", "rag"}, {"stop"}}
TaskBriefs ==
  [words : TaskWords, state : {"clear", "unclear"}, criteria : 0..2,
   constraints : {<<>>, <<"quality">>, <<"label">>, <<"only">>, <<"forbid", "only">>}]
BriefRewrites == {[constraints |-> <<"label">>], [state |-> "thin"], [words |-> {"rag"}]}

-----------------------------------------------------------------------------
VARIABLE part

\* Sessions, lookups and creators are alike.
Symmetry == Permutations(Readers)

runVars == <<runPc, runNode, runOutput, runValues, runIteration, runHistory, runTrace, runRecords,
             runCalls, runStop, runDisk, runSaved, runFaults>>

allVars == <<part, vars, extVars, verificationVars, repairVars, llmVars, packVars, entryVars, roleVars,
             templateVars, runVars, answer, scopeVars>>

Parts == {"goal", "external", "verification", "repair", "llm", "pack", "entry", "roles", "templates",
          "shipped", "schemas", "scopes"}

PartsInit ==
  /\ part \in Parts
  /\ Init /\ ExtInit /\ RepairInit /\ LlmInit /\ PackInit /\ EntryInit
  /\ RoleInit /\ TemplateInit /\ Shipped!Init /\ Schemas!SchemaInit
  /\ IF part = "scopes" THEN ScopeInit
     ELSE brief = None /\ negotiation = None /\ confirmation = None /\ basis = None /\ gateResult = None
  /\ IF part = "verification" THEN VerdictInit
     ELSE codeResult = None /\ testResult = None /\ verifiedTask = None /\ codes = NotVerified

GoalPart == part = "goal" /\ Next
  /\ UNCHANGED <<part, extVars, verificationVars, repairVars, llmVars, packVars, entryVars, roleVars, templateVars, runVars, answer, scopeVars>>
ExternalPart == part = "external" /\ ExtNext
  /\ UNCHANGED <<part, vars, verificationVars, repairVars, llmVars, packVars, entryVars, roleVars, templateVars, runVars, answer, scopeVars>>
VerificationPart == part = "verification" /\ VerifyResults
  /\ UNCHANGED <<part, vars, extVars, repairVars, llmVars, packVars, entryVars, roleVars, templateVars, runVars, answer, scopeVars>>
RepairPart == part = "repair" /\ RepairNext
  /\ UNCHANGED <<part, vars, extVars, verificationVars, llmVars, packVars, entryVars, roleVars, templateVars, runVars, answer, scopeVars>>
LlmPart == part = "llm" /\ LlmNext
  /\ UNCHANGED <<part, vars, extVars, verificationVars, repairVars, packVars, entryVars, roleVars, templateVars, runVars, answer, scopeVars>>
PackPart == part = "pack" /\ PackNext
  /\ UNCHANGED <<part, vars, extVars, verificationVars, repairVars, llmVars, entryVars, roleVars, templateVars, runVars, answer, scopeVars>>
EntryPart == part = "entry" /\ EntryNext
  /\ UNCHANGED <<part, vars, extVars, verificationVars, repairVars, llmVars, packVars, roleVars, templateVars, runVars, answer, scopeVars>>
RolePart == part = "roles" /\ RoleNext
  /\ UNCHANGED <<part, vars, extVars, verificationVars, repairVars, llmVars, packVars, entryVars, templateVars, runVars, answer, scopeVars>>
TemplatePart == part = "templates" /\ TemplateNext
  /\ UNCHANGED <<part, vars, extVars, verificationVars, repairVars, llmVars, packVars, entryVars, roleVars, runVars, answer, scopeVars>>
ShippedPart == part = "shipped" /\ Shipped!Next
  /\ UNCHANGED <<part, vars, extVars, verificationVars, repairVars, llmVars, packVars, entryVars, roleVars, templateVars, answer, scopeVars>>
SchemaPart == part = "schemas" /\ Schemas!SchemaNext
  /\ UNCHANGED <<part, vars, extVars, verificationVars, repairVars, llmVars, packVars, entryVars, roleVars, templateVars, runVars, scopeVars>>
ScopePart == part = "scopes" /\ ScopeNext
  /\ UNCHANGED <<part, vars, extVars, verificationVars, repairVars, llmVars, packVars, entryVars, roleVars, templateVars, runVars, answer>>

PartsNext ==
  \/ GoalPart \/ ExternalPart \/ VerificationPart \/ RepairPart \/ LlmPart
  \/ PackPart \/ EntryPart \/ RolePart \/ TemplatePart \/ ShippedPart \/ SchemaPart \/ ScopePart

PartsSpec == PartsInit /\ [][PartsNext]_allVars
-----------------------------------------------------------------------------
(* Each component's module states its property: GoalLoop RoutesAreChosen   *)
(* and RecordsFollowAttempts, ExternalProject ExportsAreVerified, Verdict  *)
(* VerdictsAreRight, Approvals ApprovalsBind, LlmRequest CallsAccounted,   *)
(* NativePack PacksAreHonest, OpenCodeEntry EntryIsFaithful, Catalogs      *)
(* CatalogsAnswer.                                                         *)

\* Runs of the shipped template: its conditions cover what its schemas admit, so that no
\* completed dispatch is failed afterwards, and its outputs explain every edge taken; an
\* answer of the shape that the model was told is an output; and the node of the execution
\* template fails where its execution has no result of the code.
ShippedTemplateRuns ==
  /\ \A i, j \in DOMAIN runRecords : runRecords[i].step = runRecords[j].step => i = j
  /\ Shipped!RoutesExplained
  /\ Schemas!OutputsAreAccepted /\ Schemas!RecordsPassWithResult
=============================================================================
