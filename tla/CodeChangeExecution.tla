------------------------- MODULE CodeChangeExecution -------------------------
(***************************************************************************)
(* CodeChangePlanExecutionRunner.executeApprovedPlan                       *)
(* (core/repair/CodeChangePlanExecutionExecutor.ts) with the CodeExecutor, *)
(* TestExecutor, ExecutionVerifier and ExecutionRecordStore it calls.      *)
(*                                                                         *)
(* Runs work on one git workspace under one execution approval, an object  *)
(* in memory that the contexts of the runs share.  One action is one       *)
(* awaited call with the synchronous code after it; in between, other runs *)
(* and a developer with an editor may change the workspace.                *)
(*                                                                         *)
(* A file is its content, a hash of a plan is the plan, and a patch counts *)
(* thousands of characters.                                                *)
(***************************************************************************)
EXTENDS ExecutionVerification, Sequences, FiniteSetsExt

CONSTANTS
  Runs,
  Contents,      \* what a file may hold
  Plans,         \* [ops, targets, forbidden, listed, ready], see Executable
  Task,          \* codingTaskContext and success criteria
  Commits,       \* contents the last commit may have
  Workspaces,    \* contents the workspace may have when the runs start
  Absent, Torn,  \* the file does not exist; a write of it was cut short
  NoPlan, Unset, \* the context has no plan; a field that is not set
  PatchOf,       \* characters (thousands) a changed content adds to the diff
  PreviewChars,  \* length at which DiffCollector cuts the patch preview
  GitStates,     \* of {"repository", "none", "missing"}
  Overlap,       \* may a run start while another one goes on?
  MaxFaults,     \* bound on the file system and spawn calls that fail
  MaxEdits,      \* bound on the developer's edits
  Edits          \* contents the developer leaves

Executing == {"checkpoint", "stat", "write", "test"}
Saving == {"record", "guide", "log"}
Guides == [files : SUBSET Files, checkpoint : BOOLEAN]
Operations == [kind : {"create", "modify"}, file : Files, content : Contents \union {Unset}]

ASSUME ExecutionAssumption ==
  /\ \A p \in Plans : p.ops \in Seq(Operations)
  /\ NoPlan \notin Plans /\ Unset \notin Guides \union {"blocked", "executed"} /\ Torn # "executed"
  /\ \A w \in Commits \union Workspaces : DOMAIN w = Files
  /\ Overlap \in BOOLEAN /\ MaxFaults \in Nat /\ MaxEdits \in Nat

VARIABLES
  pc,        \* the awaited call of each run, or how it ended
  plan,      \* the plan in the context of each run
  approval,  \* the status of the shared approval record
  approved,  \* the plan whose hash it holds
  late,      \* has the approval's expiresAt passed?
  git,       \* is the workspace a repository, and is git installed?
  commit,    \* content of each file in the last commit
  work,      \* content of each file in the workspace
  todo,      \* file operations the run still has to do
  missed,    \* files whose stat failed in the run (history)
  before,    \* files that differed from the commit at the checkpoint
  written,   \* artifacts: files the run reports to have written
  trouble,   \* kinds of errors the code executor collected
  code,      \* codeExecutionResult
  test,      \* testExecutionResult
  record,    \* the execution record the run is persisting
  retried,   \* is it persisted from the catch block?
  disk,      \* records/<id>.json and rollback-guides/<id>.json of each run
  log,       \* records.jsonl
  touched,   \* files the run has changed, whatever it reports (history)
  latest,    \* files the run was the last one to change (history)
  faults, edits

locals == <<plan, todo, missed, before, written, trouble, code, test, record, retried>>
files == <<work, touched, latest>>
outside == <<approved, late, git, commit>>
vars == <<pc, approval, outside, files, locals, disk, log, faults, edits>>

NoRecord == [status |-> Unset]
TornRecord == [status |-> Torn]

Init ==
  /\ pc = [r \in Runs |-> "idle"]
  /\ plan = [r \in Runs |-> NoPlan]
  /\ approval \in {"missing", "pending", "approved", "rejected"}
  /\ approved \in Plans /\ late = FALSE
  /\ git \in GitStates
  /\ commit \in Commits /\ work \in Workspaces
  /\ todo = [r \in Runs |-> << >>]
  /\ missed = [r \in Runs |-> {}] /\ before = [r \in Runs |-> {}]
  /\ written = [r \in Runs |-> {}]
  /\ trouble = [r \in Runs |-> {}]
  /\ code = [r \in Runs |-> Missing]
  /\ test = [r \in Runs |-> Missing]
  /\ record = [r \in Runs |-> NoRecord]
  /\ retried = [r \in Runs |-> FALSE]
  /\ disk = [r \in Runs |-> [record |-> NoRecord, guide |-> Unset]]
  /\ log = << >>
  /\ touched = [r \in Runs |-> {}] /\ latest = [r \in Runs |-> {}]
  /\ faults = 0 /\ edits = 0

-----------------------------------------------------------------------------
Fault == faults < MaxFaults /\ faults' = faults + 1
Ended(r) == pc[r] \in {"idle", "returned", "threw"}

\* Run r changes file f: nobody else is the last one to have done so.
Touch(r, f) ==
  /\ touched' = [touched EXCEPT ![r] = @ \union {f}]
  /\ latest' = [s \in Runs |-> IF s = r THEN latest[s] \union {f} ELSE latest[s] \ {f}]

\* git status and git diff show nothing outside a repository.
Differing == IF git = "repository" THEN {f \in Files : work[f] # commit[f]} ELSE {}
Deleted == {f \in Differing : work[f] = Absent}

\* git diff leaves untracked files out.
PatchSize ==
  MapThenSumSet(LAMBDA f : PatchOf[work[f]], {f \in Differing : commit[f] # Absent})

\* The preview is cut at PreviewChars, and a note is added.
Preview == IF PatchSize > PreviewChars THEN PreviewChars + 1 ELSE PatchSize

\* Faulty variant: the plan is not compared with the approved one.
ExecutableUnhashed(p) ==
  /\ p # NoPlan
  /\ approval = "approved" /\ ~late
  /\ p.ready /\ p.ops # << >>
  /\ \A i \in DOMAIN p.ops : /\ p.ops[i].content # Unset
                             /\ p.ops[i].file \in p.targets
                             /\ p.ops[i].file \notin p.forbidden \union Sensitive

\* validateExecutablePlan and validateOperation.  ready: no blocked operation,
\* explicit approval required, not executable; Unset is an operation's missing
\* content.  The commands of the plan are checked against CommandRunner's
\* allowlist only when they run (listed).
Executable(p) ==
  /\ p # NoPlan
  /\ approval = "approved" /\ ~late
  /\ p = approved
  /\ p.ready /\ p.ops # << >>
  /\ \A i \in DOMAIN p.ops : /\ p.ops[i].content # Unset
                             /\ p.ops[i].file \in p.targets
                             /\ p.ops[i].file \notin p.forbidden \union Sensitive

\* A record without verification report or guide has Unset in their place.
BlockedRecord == [status |-> "blocked", consumed |-> FALSE, report |-> Unset, guide |-> Unset]

\* buildRollbackGuide knows the changed files and the checkpoint from the code
\* result alone.
GuideFor(result) ==
  IF result = Missing THEN [files |-> {}, checkpoint |-> FALSE]
  ELSE [files |-> result.artifacts, checkpoint |-> TRUE]

ConsumedRecord(status, result, report) ==
  [status |-> status, consumed |-> TRUE, report |-> report, guide |-> GuideFor(result)]

-----------------------------------------------------------------------------
\* A call of executeApprovedPlan: what is not executable is recorded as blocked.
Start(r) ==
  /\ pc[r] = "idle"
  /\ Overlap \/ \A s \in Runs : Ended(s)
  /\ \E p \in Plans \union {NoPlan} :
       /\ plan' = [plan EXCEPT ![r] = p]
       /\ \/ /\ Executable(p)
             /\ todo' = [todo EXCEPT ![r] = p.ops]
             /\ pc' = [pc EXCEPT ![r] = "checkpoint"]
             /\ UNCHANGED record
          \/ /\ ~Executable(p)
             /\ record' = [record EXCEPT ![r] = BlockedRecord]
             /\ pc' = [pc EXCEPT ![r] = "record"]
             /\ UNCHANGED todo
  /\ UNCHANGED <<approval, outside, files, missed, before, written, trouble, code, test, retried,
                 disk, log, faults, edits>>

\* The checkpoint notes what differs already: nothing, when git fails.
Checkpoint(r) ==
  /\ pc[r] = "checkpoint"
  /\ \/ before' = [before EXCEPT ![r] = Differing] /\ UNCHANGED faults
     \/ before' = [before EXCEPT ![r] = {}] /\ Fault
  /\ pc' = [pc EXCEPT ![r] = "stat"]
  /\ UNCHANGED <<approval, outside, files, plan, missed, todo, written, trouble, code, test, record,
                 retried, disk, log, edits>>

\* Faulty variant: a file that exists is created again.
StatUnchecked(r) ==
  /\ pc[r] = "stat" /\ todo[r] # << >>
  /\ pc' = [pc EXCEPT ![r] = "write"]
  /\ UNCHANGED <<approval, outside, files, locals, disk, log, faults, edits>>

\* Faulty variant: a refused operation is tried again.
StatRetried(r) ==
  /\ pc[r] = "stat" /\ todo[r] # << >>
  /\ LET op == Head(todo[r]) IN
       IF op.kind = "create" /\ work[op.file] # Absent
       THEN /\ trouble' = [trouble EXCEPT ![r] = @ \union {"refused"}]
            /\ UNCHANGED <<todo, pc>>
       ELSE /\ pc' = [pc EXCEPT ![r] = "write"]
            /\ UNCHANGED <<todo, trouble>>
  /\ UNCHANGED <<approval, outside, files, plan, missed, before, written, code, test, record,
                 retried, disk, log, faults, edits>>

\* Faulty variant: the operation is taken off the list when it is looked at.
StatShifted(r) ==
  /\ pc[r] = "stat" /\ todo[r] # << >>
  /\ todo' = [todo EXCEPT ![r] = Tail(@)]
  /\ pc' = [pc EXCEPT ![r] = "write"]
  /\ UNCHANGED <<approval, outside, files, plan, missed, before, written, trouble, code, test,
                 record, retried, disk, log, faults, edits>>

\* exists() takes a stat that throws, whatever for, for a file that is not there.
StatThrows(r, f) == Fault /\ missed' = [missed EXCEPT ![r] = @ \union {f}]

\* The next operation: a file that is to be created may not exist, as far as stat says.
Stat(r) ==
  /\ pc[r] = "stat" /\ todo[r] # << >>
  /\ LET op == Head(todo[r])
         refused == op.kind = "create" /\ work[op.file] # Absent IN
       \/ /\ refused
          /\ trouble' = [trouble EXCEPT ![r] = @ \union {"refused"}]
          /\ todo' = [todo EXCEPT ![r] = Tail(@)]
          /\ UNCHANGED <<pc, missed, faults>>
       \/ /\ ~refused
          /\ pc' = [pc EXCEPT ![r] = "write"]
          /\ UNCHANGED <<todo, trouble, missed, faults>>
       \/ /\ refused /\ StatThrows(r, op.file)
          /\ pc' = [pc EXCEPT ![r] = "write"]
          /\ UNCHANGED <<todo, trouble>>
  /\ UNCHANGED <<approval, outside, files, plan, before, written, code, test, record, retried, disk,
                 log, edits>>

Write(r) ==
  /\ pc[r] = "write"
  /\ LET op == Head(todo[r]) IN
       /\ work' = [work EXCEPT ![op.file] = op.content]
       /\ written' = [written EXCEPT ![r] = @ \union {op.file}]
       /\ Touch(r, op.file)
  /\ todo' = [todo EXCEPT ![r] = Tail(@)]
  /\ pc' = [pc EXCEPT ![r] = "stat"]
  /\ UNCHANGED <<approval, outside, plan, missed, before, trouble, code, test, record, retried,
                 disk, log, faults, edits>>

\* Faulty variant: an error while writing is not collected.
WriteFailsSilently(r) ==
  /\ pc[r] = "write" /\ Fault
  /\ todo' = [todo EXCEPT ![r] = Tail(@)]
  /\ pc' = [pc EXCEPT ![r] = "stat"]
  /\ UNCHANGED <<approval, outside, files, plan, missed, before, written, trouble, code, test,
                 record, retried, disk, log, edits>>

\* The write throws, perhaps after it truncated the file.
WriteFails(r) ==
  /\ pc[r] = "write" /\ Fault
  /\ LET f == Head(todo[r]).file IN
       \/ UNCHANGED files
       \/ /\ work' = [work EXCEPT ![f] = Torn]
          /\ Touch(r, f)
  /\ trouble' = [trouble EXCEPT ![r] = @ \union {"failed"}]
  /\ todo' = [todo EXCEPT ![r] = Tail(@)]
  /\ pc' = [pc EXCEPT ![r] = "stat"]
  /\ UNCHANGED <<approval, outside, plan, missed, before, written, code, test, record, retried,
                 disk, log, edits>>

\* Faulty variant: a run that throws gives its approval back.
CaughtUnconsumed(r, result, report) ==
  /\ record' = [record EXCEPT ![r] = ConsumedRecord("failed", result, report)]
  /\ retried' = [retried EXCEPT ![r] = TRUE]
  /\ pc' = [pc EXCEPT ![r] = "record"]
  /\ UNCHANGED approval

\* The catch block, with the results the run has so far.
Caught(r, result, report) ==
  /\ record' = [record EXCEPT ![r] = ConsumedRecord("failed", result, report)]
  /\ approval' = "consumed"
  /\ retried' = [retried EXCEPT ![r] = TRUE]
  /\ pc' = [pc EXCEPT ![r] = "record"]

\* The diff ends CodeExecutor.execute.  Files that differed at the checkpoint
\* do not count as its own.
Diff(r) ==
  /\ pc[r] = "stat" /\ todo[r] = << >>
  /\ git # "missing"
  /\ LET own == Differing \ before[r]
         tooMany == Cardinality(own) > Max({1, Cardinality(plan[r].targets)}) IN
       code' = [code EXCEPT ![r] =
                 [status |-> IF trouble[r] # {} \/ tooMany THEN "failed" ELSE "success",
                  refused |-> "refused" \in trouble[r],
                  byExecutor |-> own, changed |-> Differing, deleted |-> Deleted,
                  patch |-> Preview, artifacts |-> written[r] \union own]]
  /\ pc' = [pc EXCEPT ![r] = "test"]
  /\ UNCHANGED <<approval, outside, files, plan, missed, todo, before, written, trouble, test,
                 record, retried, disk, log, faults, edits>>

\* git cannot be spawned: execute throws with files already written.
DiffFails(r) ==
  /\ pc[r] = "stat" /\ todo[r] = << >>
  /\ \/ git = "missing" /\ UNCHANGED faults
     \/ git # "missing" /\ Fault
  /\ Caught(r, Missing, Unset)
  /\ UNCHANGED <<outside, files, plan, missed, todo, before, written, trouble, code, test, disk,
                 log, edits>>

\* The test commands end, the verifier judges, and the approval is consumed.
Test(r, result) ==
  /\ pc[r] = "test" /\ plan[r].listed
  /\ test' = [test EXCEPT ![r] = [status |-> result]]
  /\ record' = [record EXCEPT ![r] =
                 IF Passes(code[r], [status |-> result], Task)
                 THEN ConsumedRecord("executed", code[r], "pass")
                 ELSE ConsumedRecord("failed", code[r], "fail")]
  /\ approval' = "consumed"
  /\ pc' = [pc EXCEPT ![r] = "record"]
  /\ UNCHANGED <<outside, files, plan, missed, todo, before, written, trouble, code, retried, disk,
                 log, faults, edits>>

\* CommandRunner refuses a command that is not on its list, or cannot spawn it.
TestFails(r) ==
  /\ pc[r] = "test"
  /\ \/ ~plan[r].listed /\ UNCHANGED faults
     \/ plan[r].listed /\ Fault
  /\ Caught(r, code[r], Unset)
  /\ UNCHANGED <<outside, files, plan, missed, todo, before, written, trouble, code, test, disk,
                 log, edits>>

-----------------------------------------------------------------------------
(* ExecutionRecordStore.save: the record, its rollback guide, the log line. *)

SaveRecord(r) ==
  /\ pc[r] = "record"
  /\ disk' = [disk EXCEPT ![r].record = record[r]]
  /\ pc' = [pc EXCEPT ![r] = IF record[r].guide = Unset THEN "log" ELSE "guide"]
  /\ UNCHANGED <<approval, outside, files, locals, log, faults, edits>>

SaveGuide(r) ==
  /\ pc[r] = "guide"
  /\ disk' = [disk EXCEPT ![r].guide = record[r].guide]
  /\ pc' = [pc EXCEPT ![r] = "log"]
  /\ UNCHANGED <<approval, outside, files, locals, log, faults, edits>>

AppendLog(r) ==
  /\ pc[r] = "log"
  /\ log' = Append(log, [run |-> r, status |-> record[r].status])
  /\ pc' = [pc EXCEPT ![r] = "returned"]
  /\ UNCHANGED <<approval, outside, files, locals, disk, faults, edits>>

\* Faulty variant: what cannot be saved is left unsaved.
SaveFailsIgnored(r) ==
  /\ pc[r] \in Saving /\ Fault
  /\ pc' = [pc EXCEPT ![r] = "returned"]
  /\ UNCHANGED <<approval, outside, files, locals, disk, log, edits>>

\* A step of save throws, perhaps after it truncated its file.  In the try block
\* the run is saved once more, as failed; a blocked run, or one that is already
\* in the catch block, throws.
SaveFails(r) ==
  /\ pc[r] \in Saving /\ Fault
  /\ \/ UNCHANGED disk
     \/ pc[r] = "record" /\ disk' = [disk EXCEPT ![r].record = TornRecord]
     \/ pc[r] = "guide" /\ disk' = [disk EXCEPT ![r].guide = Torn]
  /\ IF record[r].consumed /\ ~retried[r]
     THEN Caught(r, code[r], record[r].report)
     ELSE /\ pc' = [pc EXCEPT ![r] = "threw"]
          /\ UNCHANGED <<approval, record, retried>>
  /\ UNCHANGED <<outside, files, plan, missed, todo, before, written, trouble, code, test, log,
                 edits>>

-----------------------------------------------------------------------------
\* A developer, a tool of theirs or a test command of the plan (TestRunner runs what it
\* is given) changes a file of the workspace.
Edit(f) ==
  /\ edits < MaxEdits /\ edits' = edits + 1
  /\ \E c \in Edits \ {work[f]} : work' = [work EXCEPT ![f] = c]
  /\ latest' = [s \in Runs |-> latest[s] \ {f}]
  /\ UNCHANGED <<pc, approval, outside, touched, locals, disk, log, faults>>

Expire ==
  /\ ~late /\ late' = TRUE
  /\ UNCHANGED <<pc, approval, approved, git, commit, files, locals, disk, log, faults, edits>>

Step(r) ==
  \/ Checkpoint(r)
  \/ Stat(r) \/ Write(r) \/ WriteFails(r)
  \/ Diff(r) \/ DiffFails(r)
  \/ \E result \in {"passed", "failed"} : Test(r, result)
  \/ TestFails(r)
  \/ SaveRecord(r) \/ SaveGuide(r) \/ AppendLog(r) \/ SaveFails(r)

Next ==
  \/ \E r \in Runs : Start(r) \/ Step(r)
  \/ \E f \in Files : Edit(f)
  \/ Expire

Spec == Init /\ [][Next]_vars

\* File system calls and git answer, and CommandRunner ends every command after
\* its timeout: a run that was started goes on.
FairSpec == Spec /\ \A r \in Runs : WF_vars(Step(r))
-----------------------------------------------------------------------------
(* Properties.                                                             *)

Records ==
  [status : {"blocked", "executed", "failed"}, consumed : BOOLEAN, report : {Unset, "pass", "fail"},
   guide : Guides \union {Unset}]
Disks == [record : Records \union {NoRecord, TornRecord}, guide : Guides \union {Unset, Torn}]
LogLines == [run : Runs, status : {"blocked", "executed", "failed"}]

ControlTypes ==
  /\ pc \in [Runs -> Executing \union Saving \union {"idle", "returned", "threw"}]
  /\ plan \in [Runs -> Plans \union {NoPlan}]
  /\ todo \in [Runs -> Seq(Operations)]
  /\ \A r \in Runs : pc[r] = "write" => todo[r] # << >>

SharedTypes ==
  /\ approval \in {"missing", "pending", "approved", "rejected", "consumed"}
  /\ approved \in Plans /\ late \in BOOLEAN /\ git \in GitStates
  /\ DOMAIN commit = Files /\ DOMAIN work = Files
  /\ faults \in 0..MaxFaults /\ edits \in 0..MaxEdits

ResultTypes ==
  /\ missed \in [Runs -> SUBSET Files]
  /\ before \in [Runs -> SUBSET Files] /\ written \in [Runs -> SUBSET Files]
  /\ touched \in [Runs -> SUBSET Files] /\ latest \in [Runs -> SUBSET Files]
  /\ trouble \in [Runs -> SUBSET {"refused", "failed"}]
  /\ DOMAIN code = Runs
  /\ \A r \in Runs : code[r] # Missing => code[r].artifacts \subseteq Files
  /\ test \in [Runs -> [status : {"passed", "failed"}] \union {Missing}]

SavedTypes ==
  /\ record \in [Runs -> Records \union {NoRecord}]
  /\ retried \in [Runs -> BOOLEAN]
  /\ disk \in [Runs -> Disks]
  /\ log \in Seq(LogLines)

TypeOK == ControlTypes /\ SharedTypes /\ ResultTypes /\ SavedTypes

Executes(r) == pc[r] # "idle" /\ record[r].status # "blocked"

\* One approval, one execution (README.md:280): while runs do not overlap, no
\* second run gets past validation, whatever fails in the first.
SingleUse == \A r, s \in Runs : Executes(r) /\ Executes(s) => r = s

\* With overlap too, an approval that one execution has come out of starts no other:
\* whoever gets past validation finds only runs that are still executing.
OnlyWhileExecuting ==
  [][\A r \in Runs : ~Executes(r) /\ Executes(r)' =>
       \A s \in Runs : Executes(s) => pc[s] \in Executing]_vars

\* Whatever plan a run is given, it writes only files the approved plan targets,
\* and none that is forbidden or sensitive.
ScopeKept ==
  \A r \in Runs : touched[r] \subseteq approved.targets \ (approved.forbidden \union Sensitive)

\* A call that returns has left its record, its guide and a log line, and they
\* are of one outcome, whatever had to be saved twice.
ReturnedIsRecorded ==
  \A r \in Runs : pc[r] = "returned" =>
    /\ disk[r].record = record[r]
    /\ record[r].consumed => disk[r].guide = record[r].guide
    /\ \E i \in DOMAIN log : /\ log[i] = [run |-> r, status |-> record[r].status]
                          /\ \A j \in DOMAIN log : log[j].run = r => j <= i

\* A record of an executed plan means that every operation was done, that the
\* tests passed on it, and (without a developer at work) that it is still there.
LastContent(ops, f) ==
  ops[CHOOSE i \in DOMAIN ops :
        ops[i].file = f /\ \A j \in DOMAIN ops : ops[j].file = f => j <= i].content

ExecutedIsDone ==
  \A r \in Runs : disk[r].record.status = "executed" =>
    /\ test[r].status = "passed"
    /\ \A i \in DOMAIN plan[r].ops :
         LET f == plan[r].ops[i].file IN f \in touched[r] /\ work[f] = LastContent(plan[r].ops, f)

\* While runs do not overlap and neither a developer nor a test command edits, an
\* approval buys one execution, and a record of it that says executed is true of the
\* workspace.
OneExecutionDone == SingleUse /\ ExecutedIsDone

\* The same with other runs and a developer at work: what nobody else changed since
\* is as the plan says.
ExecutedUnlessChanged ==
  \A r \in Runs : disk[r].record.status = "executed" =>
    /\ test[r].status = "passed"
    /\ \A i \in DOMAIN plan[r].ops :
         LET f == plan[r].ops[i].file IN
           /\ f \in touched[r]
           /\ f \in latest[r] => work[f] = LastContent(plan[r].ops, f)

\* Where runs share a workspace, an operation that creates a file overwrites one that
\* exists for three reasons only: stat failed and said that it did not, another run has
\* written it since, or a developer was at work.
CreatesSpareWhatWas ==
  [][\A r \in Runs : touched'[r] # touched[r] /\ Head(todo[r]).kind = "create"
       => LET f == Head(todo[r]).file IN
            \/ work[f] = Absent \/ f \in missed[r]
            \/ edits # 0 \/ \E s \in Runs \ {r} : f \in latest[s]]_vars

\* Verification fails when patch limits are exceeded (docs/CODING_EXECUTOR.md:114).
PatchLimitHolds ==
  \A r \in Runs : pc[r] = "record" /\ record[r].status = "executed" => PatchSize <= Task.maxPatch

\* The awaited calls a run has left at most: two for each operation, and a save that
\* is tried twice.
CallsFrom ==
  [checkpoint |-> 9, stat |-> 8, write |-> 7, test |-> 7, record |-> 3, guide |-> 2, log |-> 1]
CallsLeft(r) ==
  IF pc[r] \in Executing THEN CallsFrom[pc[r]] + 2 * Len(todo[r])
  ELSE IF pc[r] \in Saving THEN CallsFrom[pc[r]] + (IF retried[r] THEN 0 ELSE 3)
  ELSE 0

\* Whatever fails and whatever others do, a run that moves gets nearer to its end: no
\* refusal, retry or catch block sends it back.
CallsRunOut ==
  [][\A r \in Runs :
       /\ pc[r] # "idle"
       /\ <<pc[r], todo[r], before[r], written[r], trouble[r], code[r], test[r], record[r],
            retried[r], disk[r], touched[r]>>' #
          <<pc[r], todo[r], before[r], written[r], trouble[r], code[r], test[r], record[r],
            retried[r], disk[r], touched[r]>>
       => CallsLeft(r)' < CallsLeft(r)]_vars

\* Every run that was started returns or throws.
RunsEnd == \A r \in Runs : (pc[r] # "idle") ~> (pc[r] \in {"returned", "threw"})
=============================================================================
