------------------------ MODULE ExecutionVerification ------------------------
(***************************************************************************)
(* What ExecutionVerifier concludes from a code result and a test result   *)
(* (core/verification: VerificationEvidenceBuilder, ConstraintChecker,     *)
(* FailureClassifier).                                                     *)
(*                                                                         *)
(* A constraint failure is a message, and the classifier finds its code by *)
(* matching words in it, those of the file names and criteria it quotes    *)
(* included: a message is the rule it reports with the telling words it    *)
(* holds.                                                                  *)
(***************************************************************************)
EXTENDS Integers, FiniteSets

CONSTANTS
  Files,
  Words,      \* telling words in the name of each file, of TellingWords
  Sensitive,  \* files whose name safetyFindings matches
  NoLimit     \* a limit codingTaskContext does not set

TellingWords == {"patch", "diff", "delet", "unsafe"}

ASSUME VerificationAssumption ==
  /\ Words \in [Files -> SUBSET TellingWords]
  /\ Sensitive \subseteq Files

Missing == [status |-> "missing"]

(* A code result: its status, whether an error reads like a refusal,       *)
(* whether a command failed, filesChangedByExecutor, and the diff: changed *)
(* and deleted files and the length of its preview.                        *)
Part(code, field, default) == IF field \in DOMAIN code THEN code[field] ELSE default

\* Faulty variant: the executor answers for its own files only.
EvidenceNarrow(code, test) ==
  [code |-> code.status, test |-> test.status,
   failedCommand |-> Part(code, "failedCommand", FALSE) \/ test.status = "failed",
   blocked |-> Part(code, "refused", FALSE),
   changed |-> Part(code, "byExecutor", {}),
   deleted |-> Part(code, "deleted", {}),
   checkpoint |-> code # Missing,
   patch |-> Part(code, "patch", 0)]

\* VerificationEvidenceBuilder.build: an executor that changed no file of its
\* own answers for all files that differ.
Evidence(code, test) ==
  [code |-> code.status, test |-> test.status,
   failedCommand |-> Part(code, "failedCommand", FALSE) \/ test.status = "failed",
   blocked |-> Part(code, "refused", FALSE),
   changed |-> IF Part(code, "byExecutor", {}) # {} THEN code.byExecutor ELSE Part(code, "changed", {}),
   deleted |-> Part(code, "deleted", {}),
   checkpoint |-> code # Missing,
   patch |-> Part(code, "patch", 0)]

Unsafe(e) == e.changed \cap Sensitive

Quoted(files) == UNION {Words[f] : f \in files}
Message(rule, words) == [rule |-> rule, words |-> words]

\* A criterion: what it asks for (test, trace, file) and its telling words.
Unmet(criterion, e) ==
  \/ "test" \in criterion.asks /\ e.test # "passed"
  \/ "trace" \in criterion.asks /\ e.code = "missing" /\ e.test = "missing"
  \/ "file" \in criterion.asks /\ e.changed = {}

When(condition, values) == IF condition THEN values ELSE {}

\* ConstraintChecker.check; codingTaskContext may leave each limit out.
ConstraintFailures(e, task) ==
  LET unexpected == e.changed \ task.allowed IN
    When(task.allowed # {} /\ unexpected # {}, {Message("unexpected", Quoted(unexpected))})
    \union When(task.maxFiles # NoLimit /\ Cardinality(e.changed) > task.maxFiles,
                {Message("files", {"diff"})})
    \union When(task.maxPatch # NoLimit /\ e.patch > task.maxPatch, {Message("patch", {"patch"})})
    \union When(~task.mayDelete /\ e.deleted # {}, {Message("deletion", {"delet"} \union Quoted(e.deleted))})
    \union When(Unsafe(e) # {}, {Message("unsafe", {"unsafe"} \union Quoted(Unsafe(e)))})
    \union {Message("criterion", {"criteria"} \union c.words) : c \in {x \in task.criteria : Unmet(x, e)}}

\* Faulty variant: the pattern for a diff is missing.
CodeOfNoDiff(message) ==
  CASE "patch" \in message.words -> "patch_too_large"
    [] "delet" \in message.words -> "file_deleted"
    [] "unsafe" \in message.words -> "unsafe_file_touched"
    [] "criteria" \in message.words -> "success_criteria_failed"
    [] OTHER -> "unexpected_files_changed"

\* The first pattern that matches decides.
CodeOf(message) ==
  IF "patch" \in message.words THEN "patch_too_large"
  ELSE IF "diff" \in message.words THEN "diff_too_large"
  ELSE IF "delet" \in message.words THEN "file_deleted"
  ELSE IF "unsafe" \in message.words THEN "unsafe_file_touched"
  ELSE IF "criteria" \in message.words THEN "success_criteria_failed"
  ELSE "unexpected_files_changed"

Classify(e, messages) ==
  When(e.code = "missing", {"missing_code_execution_result"})
  \union When(e.code = "failed", {"code_execution_failed"})
  \union When(e.test = "missing", {"missing_test_result"})
  \union When(e.test = "failed" \/ e.failedCommand, {"test_failed"})
  \union When(e.blocked, {"operation_blocked"})
  \union When(Unsafe(e) # {}, {"unsafe_file_touched"})
  \union When(e.deleted # {}, {"file_deleted"})
  \union When(~e.checkpoint, {"missing_checkpoint"})
  \union {CodeOf(m) : m \in messages}

FailureCodes(code, test, task) ==
  LET e == Evidence(code, test) IN Classify(e, ConstraintFailures(e, task))

Passes(code, test, task) == FailureCodes(code, test, task) = {}
=============================================================================
