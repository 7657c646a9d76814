-------------------------------- MODULE Verdict --------------------------------
(***************************************************************************)
(* ExecutionVerifier.verify on results as the executors leave them, against*)
(* the rules the documentation lists (docs/CODING_EXECUTOR.md:114).        *)
(***************************************************************************)
EXTENDS ExecutionVerification

CONSTANTS
  CodeResults,        \* what an executor may report
  VerificationTasks,  \* coding tasks: their limits and success criteria
  NotVerified

Criteria == [asks : SUBSET {"test", "trace", "file"}, words : SUBSET TellingWords]

ASSUME VerdictAssumption ==
  /\ CodeResults \subseteq
       [status : {"success", "failed"}, refused : BOOLEAN, failedCommand : BOOLEAN,
        byExecutor : SUBSET Files, changed : SUBSET Files, deleted : SUBSET Files, patch : Nat]
  /\ VerificationTasks \subseteq
       [allowed : SUBSET Files, maxFiles : Int \union {NoLimit}, maxPatch : Int \union {NoLimit},
        mayDelete : BOOLEAN, criteria : SUBSET Criteria]

TestResults == {Missing} \union [status : {"passed", "failed"}]

VARIABLES
  codeResult, testResult, verifiedTask,
  codes         \* failureCodes of the report

verificationVars == <<codeResult, testResult, verifiedTask, codes>>

VerdictInit ==
  /\ codeResult \in CodeResults \union {Missing} /\ testResult \in TestResults
  /\ verifiedTask \in VerificationTasks
  /\ codes = NotVerified

\* VerificationExecutor.execute
VerifyResults ==
  /\ codes = NotVerified
  /\ codes' = FailureCodes(codeResult, testResult, verifiedTask)
  /\ UNCHANGED <<codeResult, testResult, verifiedTask>>

VerdictSpec == VerdictInit /\ [][VerifyResults]_verificationVars
-----------------------------------------------------------------------------
(* The rules, on the results themselves.                                   *)

Field(field, default) == IF codeResult = Missing THEN default ELSE codeResult[field]

AnsweredFor == IF Field("byExecutor", {}) # {} THEN Field("byExecutor", {}) ELSE Field("changed", {})
Removed == Field("deleted", {})

MissesOut(criterion) ==
  \/ "test" \in criterion.asks /\ testResult.status # "passed"
  \/ "trace" \in criterion.asks /\ codeResult = Missing /\ testResult = Missing
  \/ "file" \in criterion.asks /\ AnsweredFor = {}

Broken ==
  When(codeResult = Missing, {"missing_code_execution_result", "missing_checkpoint"})
  \union When(codeResult.status = "failed", {"code_execution_failed"})
  \union When(testResult = Missing, {"missing_test_result"})
  \union When(testResult.status = "failed" \/ Field("failedCommand", FALSE), {"test_failed"})
  \union When(Field("refused", FALSE), {"operation_blocked"})
  \union When(AnsweredFor \cap Sensitive # {}, {"unsafe_file_touched"})
  \union When(Removed # {}, {"file_deleted"})
  \union When(verifiedTask.allowed # {} /\ ~(AnsweredFor \subseteq verifiedTask.allowed), {"unexpected_files_changed"})
  \union When(verifiedTask.maxFiles # NoLimit /\ Cardinality(AnsweredFor) > verifiedTask.maxFiles, {"diff_too_large"})
  \union When(verifiedTask.maxPatch # NoLimit /\ Field("patch", 0) > verifiedTask.maxPatch, {"patch_too_large"})
  \union When(\E c \in verifiedTask.criteria : MissesOut(c), {"success_criteria_failed"})

\* Verification fails exactly when a rule is broken, whatever the names.
FailsIffBroken == codes # NotVerified => (codes = {} <=> Broken = {})

\* If neither the names of the files that changed nor the criteria hold a telling word,
\* the failure codes are the broken rules.
CodesAreBroken ==
  /\ codes # NotVerified
  /\ Quoted(AnsweredFor \union Removed) = {} /\ \A c \in verifiedTask.criteria : c.words = {}
  => codes = Broken

\* Verification fails exactly when a rule is broken, and names the broken rules where no
\* file is named for one (ExecutionVerifier.verify).
VerdictsAreRight == FailsIffBroken /\ CodesAreBroken
=============================================================================
